-------------------------- MODULE ArchiveFileProofs --------------------------
(***************************************************************************)
(* What is proved of ArchiveFile for any kinds of files, chains of tools   *)
(* of any length, any number of candidates, attempts, faults and sessions. *)
(***************************************************************************)
EXTENDS ArchiveFile, TLAPS

Running == {"planned", "transfer", "landed", "step", "write", "unlink"}
Results == {"none", "existing", "skipped", "kept", "validated", "processed",
            "failed", "cancelled"}

LEMMA FormsType == ASSUME TypeOK PROVE Final \in Nat /\ 0 \in Forms /\ Final \in Forms
<1>1. kind.steps \in Seq(Tools)
    BY KindAssumption DEF TypeOK, KindType
<1>2. Final \in Nat
    BY <1>1 DEF Final
<1> QED BY <1>2 DEF Forms

LEMMA LookedType == ASSUME TypeOK PROVE kind.looked \in Forms
<1>1. kind.steps \in Seq(Tools) /\ kind.looked \in Nat /\ kind.looked <= Final
    BY KindAssumption DEF TypeOK, KindType, Final
<1> QED BY <1>1, FormsType DEF Forms

\* What the end of an attempt does to the session.
LEMMA EndOfAttempt ==
    ASSUME TypeOK, TryAgain \/ GiveUp
    PROVE  /\ st' \in {"transfer", "planned", "off"} /\ step' = step
           /\ cand' \in 1..Candidates /\ attempt' \in 1..Attempts
           /\ result' \in Results /\ path' \in Forms
<1>1. CASE GiveUp
    BY <1>1, BoundAssumption DEF GiveUp, Report, TypeOK, Results
<1>2. CASE TryAgain /\ ~GiveUp
    BY <1>2, BoundAssumption DEF TryAgain, TypeOK, Results
<1> QED BY <1>1, <1>2

\* No step but Plan changes the kind or the settings.
LEMMA StepKeepsFile ==
    ASSUME [Next]_vars
    PROVE  kind' = kind /\ (Plan \/ settings' = settings)
BY DEF Next, Progress, Plan, Execute, LandGood, LandBad, Land, NotArrived, Hook, NoBackend,
       Refuse, Open, Abandon, Unpackable, WriteError, Written, Unlink, Check, Stop,
       Idle, vars

-----------------------------------------------------------------------------
(* Types.                                                                  *)

LEMMA TypeInit == Init => TypeOK
<1> SUFFICES ASSUME Init PROVE TypeOK
    OBVIOUS
<1>1. kind.steps \in Seq(Tools)
    BY KindAssumption DEF Init, KindType
<1>2. 0 \in Forms
    BY <1>1 DEF Forms, Final
<1>3. settings \in Settings
    BY DEF Init, Settings
<1> QED BY <1>2, <1>3, BoundAssumption DEF Init, TypeOK, Contents

LEMMA TypeStep == TypeOK /\ [Next]_vars => TypeOK'
<1> SUFFICES ASSUME TypeOK, [Next]_vars PROVE TypeOK'
    OBVIOUS
<1>f. /\ Final \in Nat /\ 0 \in Forms /\ Final \in Forms /\ kind.looked \in Forms
      /\ Final' = Final /\ Forms' = Forms
    BY FormsType, LookedType, StepKeepsFile DEF Final, Forms
<1>c. Fault => faults' \in 0..MaxFaults
    BY BoundAssumption DEF Fault, TypeOK
\* The steps that leave the file and the archive alone.
<1>0. ASSUME UNCHANGED <<kind, settings, disk, latest, session>>,
             faults' \in 0..MaxFaults,
             st' \in {"off", "planned", "transfer", "landed", "step"}, step' \in Forms,
             cand' \in 1..Candidates, attempt' \in 1..Attempts,
             result' \in Results, path' \in Forms
      PROVE  TypeOK'
    BY <1>0, <1>f DEF TypeOK, Results
<1>t. /\ step \in Forms /\ cand \in 1..Candidates /\ attempt \in 1..Attempts
      /\ result \in Results /\ path \in Forms /\ faults \in 0..MaxFaults
    BY DEF TypeOK, Results
\* The step of the tools to the next form.
<1>n. step < Final => step + 1 \in Forms
    BY <1>f, <1>t DEF Forms
<1>1. CASE Plan
    <2>1. settings' \in Settings /\ session' \in 0..MaxSessions /\ cand' \in 1..Candidates
        BY <1>1, BoundAssumption DEF Plan, TypeOK
    <2>2. LookedFor(settings') \in Forms
        BY <1>f DEF LookedFor
    <2>3. path' \in Forms /\ result' \in Results /\ st' \in {"off", "planned"}
        BY <1>1, <2>2, <1>t DEF Plan, Results
    <2>4. UNCHANGED <<kind, disk, latest, step, attempt, faults>>
        BY <1>1 DEF Plan
    <2> QED BY <1>f, <2>1, <2>3, <2>4 DEF TypeOK, Results
<1>2. CASE Execute \/ Hook \/ NoBackend
    <2>1. /\ UNCHANGED <<kind, settings, disk, latest, session, faults>>
          /\ st' \in {"off", "transfer", "step"} /\ step' \in {0, step} /\ cand' = cand
          /\ attempt' \in {1, attempt} /\ result' \in Results /\ path' \in {0, path}
        BY <1>2, <1>t DEF Execute, Hook, NoBackend, Report, Results
    <2> QED BY <1>0, <1>f, <1>t, <2>1, BoundAssumption
<1>3. CASE NotArrived \/ Refuse \/ Unpackable \/ WriteError
    <2>1. TryAgain \/ GiveUp
        BY <1>3 DEF NotArrived, Refuse, Unpackable, WriteError, Abandon
    <2>2. /\ UNCHANGED <<kind, settings, disk, latest, session>>
          /\ faults' \in 0..MaxFaults
        BY <1>3, <1>c, <1>t DEF NotArrived, Refuse, Unpackable, WriteError, Abandon
    <2> QED BY <1>0, <1>t, <2>1, <2>2, EndOfAttempt
<1>4. CASE LandGood \/ LandBad
    <2>1. PICK c \in {"good", "corrupt", "wrong"} : Land(c)
        BY <1>4 DEF LandGood, LandBad
    <2>2. disk' \in [Forms -> Contents]
        BY <2>1 DEF Land, TypeOK, Contents
    <2>3. faults' \in 0..MaxFaults
        BY <1>4, <1>c, <1>t DEF LandGood, LandBad
    <2> QED BY <1>f, <2>1, <2>2, <2>3 DEF Land, TypeOK
<1>5. CASE Open
    <2>1. disk' \in [Forms -> Contents] /\ step < Final
        BY <1>5 DEF Open, Available, AtTool, TypeOK, Contents
    <2> QED BY <1>5, <1>f, <2>1 DEF Open, TypeOK
<1>6. CASE Written
    <2>1. disk' \in [Forms -> Contents] /\ step < Final
        BY <1>6 DEF Written, TypeOK
    <2>2. CASE TryAgain
        BY <1>6, <1>f, <1>t, <2>1, <2>2, EndOfAttempt DEF Written, TypeOK, Results
    <2>3. CASE /\ UNCHANGED <<cand, attempt, result, path>>
               /\ \/ st' = "step" /\ step' = step + 1
                  \/ st' = "unlink" /\ UNCHANGED step
        BY <1>6, <1>f, <1>n, <2>1, <2>3 DEF Written, TypeOK
    <2> QED BY <1>6, <2>2, <2>3 DEF Written
<1>7. CASE Unlink
    <2>1. disk' \in [Forms -> Contents] /\ step < Final
        BY <1>7 DEF Unlink, TypeOK, Contents
    <2> QED BY <1>7, <1>f, <1>n, <2>1 DEF Unlink, TypeOK
<1>8. CASE Check
    <2>1. UNCHANGED <<kind, settings, disk, latest, session, faults>>
        BY <1>8 DEF Check
    <2>2. CASE TryAgain
        BY <1>0, <1>t, <2>1, <2>2, EndOfAttempt
    <2>3. CASE Report("validated", Final) \/ Report("processed", Final)
        BY <1>0, <1>f, <1>t, <2>1, <2>3 DEF Report, Results
    <2> QED BY <1>8, <2>2, <2>3 DEF Check
<1>9. CASE Stop
    BY <1>0, <1>9, <1>c, <1>t DEF Stop, Results
<1>10. CASE UNCHANGED vars
    BY <1>10, <1>f DEF vars, TypeOK
<1> QED BY <1>1, <1>2, <1>3, <1>4, <1>5, <1>6, <1>7, <1>8, <1>9, <1>10
    DEF Next, Progress, Idle

\* The tools never leave the chain of the file, and no attempt or candidate is
\* tried that does not exist.
THEOREM ArchiveTypeCorrect == Safety => []TypeOK
BY TypeInit, TypeStep, PTL DEF Safety

-----------------------------------------------------------------------------
(* Nothing is lost.                                                        *)

\* The tools work on what was downloaded last, and a source is removed when its
\* target has all of it.
SourceIsLatest ==
    /\ st = "landed" => disk[0] = latest
    /\ st \in {"step", "write", "unlink"} => disk[step] = latest
    /\ st = "unlink" => disk[step + 1] = latest

Kept == SourceIsLatest /\ NothingLost

\* A step that changes nothing in the archive and leaves the tools.
LEMMA UnchangedKeeps ==
    ASSUME Kept, UNCHANGED <<kind, disk, latest>>,
           st' \notin {"landed", "step", "write", "unlink"}
    PROVE  Kept'
BY DEF Kept, SourceIsLatest, NothingLost, Forms, Final

LEMMA KeptStep == TypeOK /\ Kept /\ [Next]_vars => Kept'
<1> SUFFICES ASSUME TypeOK, Kept, [Next]_vars PROVE Kept'
    OBVIOUS
<1>f. /\ Final \in Nat /\ 0 \in Forms /\ Forms = 0..Final /\ Forms' = Forms
      /\ step \in Forms /\ DOMAIN disk = Forms
      /\ st \in {"write", "unlink"} => step < Final
    BY FormsType, StepKeepsFile DEF Final, Forms, TypeOK
<1>n. step < Final => step + 1 \in Forms /\ step # step + 1
    BY <1>f
<1>e. TryAgain \/ GiveUp => st' \in {"transfer", "planned", "off"}
    BY EndOfAttempt
<1>1. CASE Plan \/ Execute \/ NoBackend \/ Stop
    <2>1. /\ UNCHANGED <<kind, disk, latest>>
          /\ st' \in {"off", "planned", "transfer"}
        BY <1>1 DEF Plan, Execute, NoBackend, Report, Stop
    <2> QED BY <2>1, UnchangedKeeps
<1>2. CASE NotArrived \/ Refuse \/ Unpackable \/ WriteError
    <2>1. UNCHANGED <<kind, disk, latest>> /\ (TryAgain \/ GiveUp)
        BY <1>2 DEF NotArrived, Refuse, Unpackable, WriteError, Abandon
    <2> QED BY <1>e, <2>1, UnchangedKeeps
<1>3. CASE LandGood \/ LandBad
    <2>1. PICK c \in {"good", "corrupt", "wrong"} : Land(c)
        BY <1>3 DEF LandGood, LandBad
    <2>2. st' = "landed" /\ disk'[0] = latest'
        BY <1>f, <2>1 DEF Land
    <2> QED BY <1>f, <2>2 DEF Kept, SourceIsLatest, NothingLost
<1>4. CASE Hook
    <2>1. CASE Report("kept", 0)
        BY <1>4, <2>1, UnchangedKeeps DEF Hook, Report
    <2>2. CASE st' = "step" /\ step' = 0
        BY <1>4, <1>f, <2>2 DEF Hook, Kept, SourceIsLatest, NothingLost
    <2> QED BY <1>4, <2>1, <2>2 DEF Hook
<1>5. CASE Open
    <2>1. /\ step < Final /\ st = "step" /\ st' = "write" /\ step' = step
          /\ latest' = latest /\ disk' = [disk EXCEPT ![step + 1] = "cut"]
        BY <1>5 DEF Open, Available, AtTool
    <2>2. disk'[step] = latest
        BY <1>f, <1>n, <2>1 DEF Kept, SourceIsLatest
    <2> QED BY <1>f, <2>1, <2>2 DEF Kept, SourceIsLatest, NothingLost
<1>6. CASE Written
    <2>1. /\ st = "write" /\ step < Final /\ latest' = latest
          /\ disk' = [disk EXCEPT ![step + 1] = disk[step]]
        BY <1>6, <1>f DEF Written
    <2>2. disk'[step] = latest /\ disk'[step + 1] = latest
        BY <1>f, <1>n, <2>1 DEF Kept, SourceIsLatest
    <2>3. NothingLost'
        BY <1>f, <2>1, <2>2 DEF NothingLost
    <2>4. CASE TryAgain
        BY <1>e, <2>3, <2>4 DEF Kept, SourceIsLatest
    <2>5. CASE \/ st' = "step" /\ step' = step + 1
               \/ st' = "unlink" /\ UNCHANGED step
        BY <2>1, <2>2, <2>3, <2>5 DEF Kept, SourceIsLatest
    <2> QED BY <1>6, <2>4, <2>5 DEF Written
<1>7. CASE Unlink
    <2>1. /\ st = "unlink" /\ step < Final /\ latest' = latest
          /\ st' = "step" /\ step' = step + 1
          /\ disk' = [disk EXCEPT ![step] = "absent"]
        BY <1>7, <1>f DEF Unlink
    <2>2. disk'[step + 1] = latest
        BY <1>f, <1>n, <2>1 DEF Kept, SourceIsLatest
    <2> QED BY <1>f, <1>n, <2>1, <2>2 DEF Kept, SourceIsLatest, NothingLost
<1>8. CASE Check
    <2>1. UNCHANGED <<kind, disk, latest>> /\ (st' = "off" \/ TryAgain)
        BY <1>8 DEF Check, Report
    <2> QED BY <1>e, <2>1, UnchangedKeeps
<1>9. CASE UNCHANGED vars
    BY <1>9, <1>f DEF vars, Kept, SourceIsLatest, NothingLost
<1> QED BY <1>1, <1>2, <1>3, <1>4, <1>5, <1>6, <1>7, <1>8, <1>9
    DEF Next, Progress, Idle

LEMMA KeptInvariant == Safety => []Kept
<1>1. Init => Kept
    BY DEF Init, Kept, SourceIsLatest, NothingLost
<1> QED BY <1>1, KeptStep, ArchiveTypeCorrect, PTL DEF Safety

\* However long the chain of tools is and wherever it is interrupted: a good
\* download is in the archive in one of its forms.
THEOREM DownloadIsKept == Safety => []NothingLost
BY KeptInvariant, PTL DEF Kept

-----------------------------------------------------------------------------
(* What was restored stays.                                                *)

\* A session that may not overwrite and has a good file under the name it looks
\* for has just made it: it only has to remove the source and to check it.
OnlyOwnResult ==
    st # "off" /\ ~settings.overwrite /\ kind.looked = Final
    /\ (settings.extract \/ Final = 0) /\ disk[Final] = "good"
        => \/ st = "step" /\ step = Final
           \/ st = "unlink" /\ step + 1 = Final
           \/ st = "landed" /\ Final = 0

\* The tools are at work in extraction mode only.
ToolsExtract ==
    st \in {"step", "write", "unlink"} => settings.extract \/ Final = 0

Stays == OnlyOwnResult /\ ToolsExtract

LEMMA StaysStep == TypeOK /\ Stays /\ [Next]_vars => Stays'
<1> SUFFICES ASSUME TypeOK, Stays, [Next]_vars PROVE Stays'
    OBVIOUS
<1>f. /\ Final \in Nat /\ Forms = 0..Final /\ Final' = Final /\ kind' = kind
      /\ step \in Forms /\ DOMAIN disk = Forms
      /\ st \in {"write", "unlink"} => step < Final
    BY FormsType, StepKeepsFile DEF Final, Forms, TypeOK
<1>e. TryAgain \/ GiveUp => st' \in {"transfer", "planned", "off"}
    BY EndOfAttempt
\* An attempt ends with no good file under the name.
<1>0. ASSUME UNCHANGED settings, st' \in {"transfer", "planned", "off"},
             disk'[Final] = "good" => disk[Final] = "good",
             st # "off",
             disk[Final] = "good" =>
                 st \notin {"step", "unlink", "landed"} \/ st' = "off"
      PROVE  Stays'
    BY <1>0, <1>f DEF Stays, OnlyOwnResult, ToolsExtract
<1>1. CASE Plan
    <2>1. CASE st' = "off"
        BY <2>1 DEF Stays, OnlyOwnResult, ToolsExtract
    <2>2. CASE /\ disk[LookedFor(settings')] = "absent" \/ settings'.overwrite
               /\ st' = "planned"
        <3>1. UNCHANGED disk
            BY <1>1 DEF Plan
        <3>2. /\ kind.looked = Final /\ settings'.extract => LookedFor(settings') = Final
              /\ kind.looked = Final /\ Final = 0 => LookedFor(settings') = Final
            BY DEF LookedFor
        <3> QED BY <1>f, <2>2, <3>1, <3>2 DEF Stays, OnlyOwnResult, ToolsExtract
    <2> QED BY <1>1, <2>1, <2>2 DEF Plan
<1>2. CASE Execute
    BY <1>2, <1>0 DEF Execute, Report
<1>3. CASE NoBackend \/ Stop
    BY <1>3 DEF NoBackend, Report, Stop, Stays, OnlyOwnResult, ToolsExtract
<1>4. CASE LandGood \/ LandBad
    <2>1. PICK c \in {"good", "corrupt", "wrong"} : Land(c)
        BY <1>4 DEF LandGood, LandBad
    <2>2. /\ st = "transfer" /\ st' = "landed" /\ settings' = settings
          /\ Final # 0 => disk'[Final] = disk[Final]
        BY <1>f, <2>1 DEF Land
    <2> QED BY <1>f, <2>2 DEF Stays, OnlyOwnResult, ToolsExtract
<1>5. CASE NotArrived
    <2>1. st = "transfer" /\ UNCHANGED <<disk, settings>> /\ (TryAgain \/ GiveUp)
        BY <1>5 DEF NotArrived
    <2> QED BY <1>0, <1>e, <2>1
<1>6. CASE Hook
    <2>1. st = "landed" /\ UNCHANGED <<disk, settings>>
        BY <1>6 DEF Hook
    <2>2. CASE st' = "off"
        BY <2>2 DEF Stays, OnlyOwnResult, ToolsExtract
    <2>3. CASE /\ settings.extract \/ Final = 0
               /\ st' = "step" /\ step' = 0
        BY <1>f, <2>1, <2>3 DEF Stays, OnlyOwnResult, ToolsExtract
    <2> QED BY <1>6, <2>2, <2>3 DEF Hook, Report
<1>7. CASE Refuse
    <2>1. /\ st = "step" /\ step < Final /\ UNCHANGED <<disk, settings>>
          /\ TryAgain \/ GiveUp
        BY <1>7 DEF Refuse, Available, AtTool
    <2> QED BY <1>e, <1>f, <2>1 DEF Stays, OnlyOwnResult, ToolsExtract
<1>8. CASE Open
    <2>1. /\ st = "step" /\ step < Final /\ st' = "write" /\ UNCHANGED <<step, settings>>
          /\ disk' = [disk EXCEPT ![step + 1] = "cut"]
        BY <1>8 DEF Open, Available, AtTool
    <2>2. disk'[Final] = "good" => disk[Final] = "good"
        BY <1>f, <2>1
    <2> QED BY <1>f, <2>1, <2>2 DEF Stays, OnlyOwnResult, ToolsExtract
<1>9. CASE Unpackable \/ WriteError
    <2>1. /\ st = "write" /\ UNCHANGED <<disk, settings>> /\ (TryAgain \/ GiveUp)
        BY <1>9 DEF Unpackable, WriteError, Abandon
    <2> QED BY <1>0, <1>e, <2>1
<1>10. CASE Written
    <2>1. /\ st = "write" /\ step < Final /\ UNCHANGED settings
          /\ disk' = [disk EXCEPT ![step + 1] = disk[step]]
        BY <1>10, <1>f DEF Written
    <2>2. step + 1 # Final => disk'[Final] = disk[Final]
        BY <1>f, <2>1
    <2>3. CASE TryAgain /\ disk[step] = "wrong"
        <3>1. disk'[Final] = "good" => disk[Final] = "good"
            BY <1>f, <2>1, <2>2, <2>3
        <3> QED BY <1>0, <1>e, <2>1, <2>3, <3>1
    <2>4. CASE \/ st' = "step" /\ step' = step + 1
               \/ st' = "unlink" /\ UNCHANGED step
        BY <1>f, <2>1, <2>2, <2>4 DEF Stays, OnlyOwnResult, ToolsExtract
    <2> QED BY <1>10, <2>3, <2>4 DEF Written, NotInside
<1>11. CASE Unlink
    <2>1. /\ st = "unlink" /\ step < Final /\ UNCHANGED settings
          /\ st' = "step" /\ step' = step + 1
          /\ disk' = [disk EXCEPT ![step] = "absent"]
        BY <1>11, <1>f DEF Unlink
    <2>2. disk'[Final] = disk[Final]
        BY <1>f, <2>1
    <2> QED BY <1>f, <2>1, <2>2 DEF Stays, OnlyOwnResult, ToolsExtract
<1>12. CASE Check
    <2>1. st = "step" /\ UNCHANGED <<disk, settings>>
        BY <1>12 DEF Check
    <2>2. CASE st' = "off"
        BY <2>2 DEF Stays, OnlyOwnResult, ToolsExtract
    <2>3. CASE TryAgain /\ disk[Final] # "good"
        BY <1>0, <1>e, <2>1, <2>3
    <2> QED BY <1>12, <2>2, <2>3 DEF Check, Report
<1>13. CASE UNCHANGED vars
    BY <1>13, <1>f DEF vars, Stays, OnlyOwnResult, ToolsExtract
<1> QED BY <1>1, <1>2, <1>3, <1>4, <1>5, <1>6, <1>7, <1>8, <1>9, <1>10, <1>11,
           <1>12, <1>13
    DEF Next, Progress, Idle

LEMMA StaysInvariant == Safety => []Stays
<1>1. Init => Stays
    BY DEF Init, Stays, OnlyOwnResult, ToolsExtract
<1> QED BY <1>1, StaysStep, ArchiveTypeCorrect, PTL DEF Safety

LEMMA RestoredKept ==
    TypeOK /\ Stays /\ [Next]_vars =>
        (kind.looked = Final /\ disk[Final] = "good" /\ ~settings'.overwrite
            => disk'[Final] = "good")
<1> SUFFICES ASSUME TypeOK, Stays, [Next]_vars,
                    kind.looked = Final, disk[Final] = "good", ~settings'.overwrite
             PROVE  disk'[Final] = "good"
    OBVIOUS
<1>f. /\ Final \in Nat /\ Forms = 0..Final /\ step \in Forms /\ DOMAIN disk = Forms
      /\ st \in {"write", "unlink"} => step < Final
    BY FormsType DEF TypeOK, Forms
<1>1. CASE LandGood \/ LandBad
    <2>1. PICK c \in {"good", "corrupt", "wrong"} : Land(c)
        BY <1>1 DEF LandGood, LandBad
    <2>2. /\ st = "transfer" /\ settings' = settings
          /\ disk' = [disk EXCEPT ![0] = c]
        BY <2>1 DEF Land
    <2>3. Final # 0
        BY <2>2 DEF Stays, OnlyOwnResult
    <2> QED BY <1>f, <2>2, <2>3
<1>2. CASE Open
    <2>1. /\ st = "step" /\ step < Final /\ settings' = settings
          /\ disk' = [disk EXCEPT ![step + 1] = "cut"]
        BY <1>2 DEF Open, Available, AtTool
    <2>2. FALSE
        BY <1>f, <2>1 DEF Stays, OnlyOwnResult, ToolsExtract
    <2> QED BY <2>2
<1>3. CASE Written
    <2>1. st = "write" /\ settings' = settings /\ step < Final
        BY <1>3, <1>f DEF Written
    <2>2. FALSE
        BY <1>f, <2>1 DEF Stays, OnlyOwnResult, ToolsExtract
    <2> QED BY <2>2
<1>4. CASE Unlink
    BY <1>4, <1>f DEF Unlink
<1>5. CASE UNCHANGED disk
    BY <1>5
<1> QED BY <1>1, <1>2, <1>3, <1>4, <1>5
    DEF Next, Progress, Plan, Execute, Report, NotArrived, Hook, NoBackend, Refuse,
        Unpackable, WriteError, Abandon, Check, Stop, Idle, vars

\* Without overwrite a restored file is never touched again, when the plan looks
\* for it under the name that processing gave it.
THEOREM RestoredIsKept == Safety => RestoredStays
BY RestoredKept, StaysInvariant, ArchiveTypeCorrect, PTL DEF Safety, RestoredStays
=============================================================================
