----------------------------- MODULE ArchiveFile -----------------------------
(***************************************************************************)
(* One file of the archive directory over several sessions of the program: *)
(* what a plan finds there (client.py, _build_plan), how a download lands  *)
(* (manager.py) and how gnssgo/rinex/postprocess.py restores it in place.  *)
(*                                                                         *)
(* The forms of the file are its archive as it was downloaded (form 0) and *)
(* what each tool of its chain makes of it: X.crx.gz, X.crx, X.rnx.  Every *)
(* form has a name of its own.  The program may be killed at any point, and *)
(* the user may change the settings between sessions.                      *)
(***************************************************************************)
EXTENDS Naturals, Sequences

CONSTANTS
    Kinds,        \* the kinds of files
    Candidates,   \* the remote and its fallbacks of the same file name
    Attempts,     \* attempts per candidate: settings.download.retries + 1
    MaxSessions,  \* bound: sessions of the program
    MaxFaults     \* bound: faults, bad files, kills and cancellations

Optional == {"lzw", "hatanaka"}   \* the tools that are optional dependencies
Tools == {"gzip", "zip"} \cup Optional

\* steps: the tools in their order; looked: the form that has the name
\* _existing_processed_path makes up; data: observations and navigation are RINEX,
\* products are validated too; bundle: multi_station_bundle = "1".
KindType == [steps : Seq(Tools), looked : Nat,
             data : {"rinex", "product", "other"}, bundle : BOOLEAN]

ASSUME KindAssumption ==
    Kinds \subseteq KindType /\ \A k \in Kinds : k.looked <= Len(k.steps)
ASSUME BoundAssumption ==
    /\ Candidates \in Nat \ {0} /\ Attempts \in Nat \ {0}
    /\ MaxSessions \in Nat /\ MaxFaults \in Nat

VARIABLES
    kind,      \* the kind of the file
    settings,  \* settings of the session and the optional tools installed
    disk,      \* disk[f]: what is there under the name of form f
    latest,    \* what was downloaded last
    st,        \* where the session stands, "off" when it is over
    step,      \* the form the tools have come to
    cand,      \* the candidate being tried
    attempt,   \* the number of the attempt at it
    result,    \* what the session says of the file, "none" when it says nothing
    path,      \* the form it says is the local file
    session, faults

vars == <<kind, settings, disk, latest, st, step, cand, attempt, result, path,
          session, faults>>

Settings == [extract : BOOLEAN, keep : BOOLEAN, overwrite : BOOLEAN,
             backends : SUBSET Optional]

\* cut: the beginning of a file, its writer was interrupted; corrupt: an archive
\* that cannot be unpacked; wrong: something else than the RINEX file expected.
Contents == {"absent", "cut", "good", "corrupt", "wrong"}
Final == Len(kind.steps)
Forms == 0..Final

Init ==
    /\ kind \in Kinds
    /\ settings = [extract |-> FALSE, keep |-> FALSE, overwrite |-> FALSE, backends |-> {}]
    /\ disk = [f \in Forms |-> "absent"] /\ latest = "absent"
    /\ st = "off" /\ step = 0 /\ cand = 1 /\ attempt = 1
    /\ result = "none" /\ path = 0
    /\ session = 0 /\ faults = 0

Fault == faults < MaxFaults /\ faults' = faults + 1

-----------------------------------------------------------------------------
(* The plan and the start of its execution.                                *)

\* Mutant of LookedFor: the archive is looked for, whatever becomes of it.
LookedForArchive(s) == IF s.extract THEN 0 ELSE kind.looked

LookedFor(s) == IF s.extract THEN kind.looked ELSE 0

Plan ==
    /\ st = "off" /\ session < MaxSessions
    /\ session' = session + 1 /\ cand' = 1
    /\ settings' \in Settings
    /\ \/ /\ disk[LookedFor(settings')] # "absent" /\ ~settings'.overwrite
          /\ result' = "existing" /\ path' = LookedFor(settings')
          /\ UNCHANGED st
       \/ /\ disk[LookedFor(settings')] = "absent" \/ settings'.overwrite
          /\ st' = "planned" /\ result' = "none"
          /\ UNCHANGED path
    /\ UNCHANGED <<kind, disk, latest, step, attempt, faults>>

Report(r, f) ==
    /\ st' = "off" /\ result' = r /\ path' = f
    /\ UNCHANGED <<step, cand, attempt>>

\* Mutant of Execute: an archive that is there is never downloaded again.
ExecuteOnce ==
    /\ st = "planned"
    /\ \/ /\ disk[0] # "absent"
          /\ Report("skipped", 0)
       \/ /\ disk[0] = "absent"
          /\ st' = "transfer" /\ attempt' = 1
          /\ UNCHANGED <<step, cand, result, path>>
    /\ UNCHANGED <<kind, settings, disk, latest, session, faults>>

Execute ==
    /\ st = "planned"
    /\ \/ /\ disk[0] # "absent" /\ ~settings.overwrite
          /\ Report("skipped", 0)
       \/ /\ disk[0] = "absent" \/ settings.overwrite
          /\ st' = "transfer" /\ attempt' = 1
          /\ UNCHANGED <<step, cand, result, path>>
    /\ UNCHANGED <<kind, settings, disk, latest, session, faults>>

-----------------------------------------------------------------------------
(* How an attempt fails.                                                   *)

\* An exception that is no GNSSGoError, or the last attempt: the next candidate.
GiveUp ==
    \/ /\ cand < Candidates
       /\ cand' = cand + 1 /\ st' = "planned"
       /\ UNCHANGED <<step, attempt, result, path>>
    \/ /\ cand >= Candidates
       /\ Report("failed", path)

\* Mutant of TryAgain: one attempt too many.
TryOnceMore ==
    \/ /\ attempt <= Attempts
       /\ attempt' = attempt + 1 /\ st' = "transfer"
       /\ UNCHANGED <<step, cand, result, path>>
    \/ /\ attempt > Attempts
       /\ GiveUp

\* A GNSSGoError: the next attempt.
TryAgain ==
    \/ /\ attempt < Attempts
       /\ attempt' = attempt + 1 /\ st' = "transfer"
       /\ UNCHANGED <<step, cand, result, path>>
    \/ /\ attempt >= Attempts
       /\ GiveUp

-----------------------------------------------------------------------------
(* The download (HttpTransfer has the details) and the hook behind it.     *)

\* The file is moved to the place of form 0.
Land(c) ==
    /\ st = "transfer"
    /\ disk' = [disk EXCEPT ![0] = c] /\ latest' = c
    /\ st' = "landed"
    /\ UNCHANGED <<kind, settings, step, cand, attempt, result, path, session>>

LandGood == Land("good") /\ UNCHANGED faults
LandBad == Fault /\ (Land("corrupt") \/ Land("wrong"))

NotArrived ==
    /\ Fault
    /\ st = "transfer"
    /\ TryAgain \/ GiveUp
    /\ UNCHANGED <<kind, settings, disk, latest, session>>

\* _postprocess_download: a bundle stays, and so does every archive in
\* compressed-output mode; the others are processed.
Hook ==
    /\ st = "landed"
    /\ \/ /\ kind.bundle \/ (~settings.extract /\ Final > 0)
          /\ Report("kept", 0)
       \/ /\ ~kind.bundle /\ (settings.extract \/ Final = 0)
          /\ st' = "step" /\ step' = 0
          /\ UNCHANGED <<cand, attempt, result, path>>
    /\ UNCHANGED <<kind, settings, disk, latest, session, faults>>

-----------------------------------------------------------------------------
(* PostProcessor.process: one tool after the other.                        *)

Tool == kind.steps[step + 1]
AtTool == st = "step" /\ step < Final
Available == AtTool /\ Tool \notin Optional \ settings.backends

\* The optional dependency is missing: the archive is reported, as validated.
NoBackend ==
    /\ AtTool /\ Tool \in Optional \ settings.backends
    /\ Report("kept", 0)
    /\ UNCHANGED <<kind, settings, disk, latest, session, faults>>

\* The tool raises before it has opened its target.
Refuse ==
    /\ Available
    /\ \/ Tool = "lzw" /\ disk[step] = "corrupt" /\ GiveUp
       \/ Tool = "zip" /\ disk[step] = "corrupt" /\ TryAgain
       \/ Tool = "hatanaka" /\ disk[step] # "good" /\ TryAgain
    /\ UNCHANGED <<kind, settings, disk, latest, session, faults>>

\* Mutant of Open: the source is removed first.
OpenLast ==
    /\ Available
    /\ Tool = "lzw" => disk[step] # "corrupt"
    /\ Tool = "hatanaka" => disk[step] = "good"
    /\ disk' = [disk EXCEPT ![step + 1] = disk[step],
                            ![step] = IF settings.keep THEN @ ELSE "cut"]
    /\ st' = "write"
    /\ UNCHANGED <<kind, settings, latest, step, cand, attempt, result, path,
                   session, faults>>

\* The target is opened for writing: what was there is gone.
Open ==
    /\ Available
    /\ Tool = "lzw" => disk[step] # "corrupt"
    /\ Tool = "hatanaka" => disk[step] = "good"
    /\ disk' = [disk EXCEPT ![step + 1] = "cut"]
    /\ st' = "write"
    /\ UNCHANGED <<kind, settings, latest, step, cand, attempt, result, path,
                   session, faults>>

\* What was written so far stays; zip and hatanaka raise a PostProcessError.
Abandon ==
    /\ \/ Tool \in {"gzip", "lzw"} /\ GiveUp
       \/ Tool \in {"zip", "hatanaka"} /\ TryAgain
    /\ UNCHANGED <<kind, settings, disk, latest, session>>

Unpackable == st = "write" /\ disk[step] = "corrupt" /\ Abandon /\ UNCHANGED faults
WriteError == Fault /\ st = "write" /\ Abandon

\* A ZIP without the RINEX file expected.
NotInside == Tool = "zip" /\ kind.data = "rinex" /\ disk[step] = "wrong"

\* The target is complete.  A ZIP with something else in it is left beside that.
Written ==
    /\ st = "write" /\ disk[step] # "corrupt"
    /\ disk' = [disk EXCEPT ![step + 1] = disk[step]]
    /\ \/ /\ NotInside
          /\ TryAgain
       \/ /\ ~NotInside
          /\ \/ settings.keep /\ st' = "step" /\ step' = step + 1
             \/ ~settings.keep /\ st' = "unlink" /\ UNCHANGED step
          /\ UNCHANGED <<cand, attempt, result, path>>
    /\ UNCHANGED <<kind, settings, latest, session, faults>>

Unlink ==
    /\ st = "unlink"
    /\ disk' = [disk EXCEPT ![step] = "absent"]
    /\ st' = "step" /\ step' = step + 1
    /\ UNCHANGED <<kind, settings, latest, cand, attempt, result, path, session, faults>>

\* validate_rinex_file or validate_product_file.
Check ==
    /\ st = "step" /\ step = Final
    /\ \/ kind.data # "other" /\ disk[Final] = "good" /\ Report("validated", Final)
       \/ kind.data # "other" /\ disk[Final] # "good" /\ TryAgain
       \/ kind.data = "other" /\ Report("processed", Final)
    /\ UNCHANGED <<kind, settings, disk, latest, session, faults>>

Progress ==
    \/ Execute \/ LandGood \/ Hook
    \/ NoBackend \/ Refuse \/ Open \/ Unpackable \/ Written \/ Unlink \/ Check

-----------------------------------------------------------------------------

\* The program is killed, or the user cancels during the download or before the
\* hook.
Stop ==
    /\ Fault
    /\ st # "off" /\ st' = "off"
    /\ \/ UNCHANGED result
       \/ st \in {"transfer", "landed"} /\ result' = "cancelled"
    /\ UNCHANGED <<kind, settings, disk, latest, step, cand, attempt, path, session>>

Idle == st = "off" /\ session = MaxSessions /\ UNCHANGED vars

Next ==
    \/ Plan \/ Progress
    \/ LandBad \/ NotArrived \/ WriteError \/ Stop
    \/ Idle

Safety == Init /\ [][Next]_vars

\* The downloader has its timeouts, the tools come to an end.
Spec == Safety /\ WF_vars(Progress)

-----------------------------------------------------------------------------
(* Properties.                                                             *)

TypeOK ==
    /\ kind \in Kinds
    /\ settings \in Settings
    /\ disk \in [Forms -> Contents]
    /\ latest \in {"absent", "good", "corrupt", "wrong"}
    /\ st \in {"off", "planned", "transfer", "landed", "step", "write", "unlink"}
    /\ step \in Forms /\ (st \in {"write", "unlink"} => step < Final)
    /\ cand \in 1..Candidates /\ attempt \in 1..Attempts
    /\ result \in {"none", "existing", "skipped", "kept", "validated", "processed",
                   "failed", "cancelled"}
    /\ path \in Forms
    /\ session \in 0..MaxSessions /\ faults \in 0..MaxFaults

\* A good download is in the archive in one form or another from the moment it
\* landed, wherever the program is killed, whichever tool is missing or fails.
NothingLost == latest = "good" => \E f \in Forms : disk[f] = "good"

\* Without overwrite, a file that was restored stays as it is, whatever settings
\* the sessions change and however they end: where the name the plan looks for is
\* the one that processing makes.
RestoredStays ==
    [][kind.looked = Final /\ disk[Final] = "good" /\ ~settings'.overwrite
        => disk'[Final] = "good"]_vars

\* Everything is installed, and nothing goes wrong any more.
Untroubled ==
    /\ settings.overwrite /\ settings.extract /\ settings.backends = Optional
    /\ ~kind.bundle /\ faults = MaxFaults

\* Whatever earlier sessions left behind, one with overwrite in which nothing goes
\* wrong restores the file.
Repairs == st = "planned" /\ Untroubled ~> disk[Final] = "good"
=============================================================================
