---------------------------- MODULE HttpTransfer ----------------------------
(***************************************************************************)
(* gnssgo/download/http.py (the plain HTTP route of HttpDownloader         *)
(* .download) and validator.py, driven by the attempt and fallback loops   *)
(* of manager.py: how one file gets from its servers to its destination.   *)
(*                                                                         *)
(* The servers are the primary remote and those fallbacks that have the    *)
(* same file name, so that all of them share one destination and one       *)
(* .part file.  A server may publish a new version of the file at any      *)
(* time, and another server may still hold an older one.  The .part file   *)
(* outlives attempts, servers and the program.                             *)
(*                                                                         *)
(* A block is a piece of a version at its place in the file.  Every body   *)
(* says where it ends (Content-Length, or chunked and then only behind its *)
(* last block), so that one that ends early is an error of httpx; a range  *)
(* that is answered is the range that was asked for.                       *)
(***************************************************************************)
EXTENDS Naturals, Sequences

CONSTANTS
    Versions,    \* the versions of the file
    Size,        \* Size[v]: number of blocks of version v
    First,       \* the version the plan was made from
    Pages,       \* HTML pages served with status 200 instead of the file
    Plain,       \* those only their Content-Type gives away, not their first bytes
    NServers,    \* the primary and its fallbacks, in the order they are tried
    Holding,     \* the servers that have the file; the others answer 404
    Ranged,      \* the servers that answer 206 or 416 to a Range request
    Attempts,    \* attempts per server: settings.download.retries + 1
    Resume,      \* settings.download.resume
    MaxFaults,   \* bound: faults of servers and network, and new versions
    MaxRuns      \* bound: how often the plan is executed

Servers == 1..NServers
Contents == Versions \cup Pages
Blocks == [ver : Contents, pos : Nat \ {0}]
Length(v) == IF v \in Pages THEN 1 ELSE Size[v]

ASSUME FileAssumption ==
    /\ First \in Versions /\ Pages \cap Versions = {} /\ Plain \subseteq Pages
    /\ Size \in [Versions -> Nat \ {0}]
ASSUME ServerAssumption ==
    /\ NServers \in Nat \ {0}
    /\ Holding \subseteq Servers /\ Ranged \subseteq Holding
ASSUME SettingAssumption ==
    /\ Attempts \in Nat \ {0} /\ Resume \in BOOLEAN
    /\ MaxFaults \in Nat /\ MaxRuns \in Nat \ {0}

VARIABLES
    served,    \* served[m]: the version server m holds
    declared,  \* remote.size as the plan has it, 0 when it does not
    part,      \* the .part file; <<>> when there is none or it is empty
    dest,      \* the destination; <<>> when there is none
    st,        \* where the transfer stands
    server,    \* the server being tried
    attempt,   \* the number of the attempt at it
    start,     \* the offset the request asks for
    body,      \* the response: its status, its content, the next block to come
    faults,    \* how many faults so far, and whether one was of the disk
    run        \* executions of the plan so far

vars == <<served, declared, part, dest, st, server, attempt, start, body, faults, run>>

Busy == {"idle", "sent", "body", "landed"}
NoBody == [code |-> 0, ver |-> First, next |-> 1]

Init ==
    /\ served \in [Servers -> Versions]
    /\ declared \in {0, Size[First]}
    /\ part = <<>> /\ dest = <<>>
    /\ st = "idle" /\ server = 1 /\ attempt = 1 /\ start = 0
    /\ body = NoBody
    /\ faults = [count |-> 0, disk |-> FALSE] /\ run = 1

-----------------------------------------------------------------------------
(* How an attempt fails (DownloadManager).                                 *)

NextServer ==
    /\ body' = NoBody
    /\ \/ /\ server < NServers
          /\ server' = server + 1 /\ attempt' = 1
          /\ st' = "idle"
       \/ /\ server >= NServers
          /\ st' = "failed"
          /\ UNCHANGED <<server, attempt>>

\* Mutant of NextAttempt: one attempt too many.
NextAttemptOffByOne ==
    \/ /\ attempt <= Attempts
       /\ attempt' = attempt + 1
       /\ st' = "idle" /\ body' = NoBody
       /\ UNCHANGED server
    \/ /\ attempt > Attempts
       /\ NextServer

NextAttempt ==
    \/ /\ attempt < Attempts
       /\ attempt' = attempt + 1
       /\ st' = "idle" /\ body' = NoBody
       /\ UNCHANGED server
    \/ /\ attempt >= Attempts
       /\ NextServer

Fault ==
    /\ faults.count < MaxFaults
    /\ faults' = [faults EXCEPT !.count = @ + 1]

-----------------------------------------------------------------------------
(* One call of download.                                                   *)

\* partial_file_is_invalid: the .part file begins like an HTML page.  It does not
\* say with which Content-Type it came.
PartialIsPage == part # <<>> /\ part[1].ver \in Pages \ Plain

\* Mutant of Request: the page in the .part file is not looked for.
RequestBlindly ==
    /\ st = "idle"
    /\ part' = part
    /\ start' = IF Resume THEN Len(part') ELSE 0
    /\ st' = "sent"
    /\ UNCHANGED <<served, declared, dest, server, attempt, body, faults, run>>

\* A page left behind by an earlier attempt is removed; what else is in the
\* .part file is asked to be continued.
Request ==
    /\ st = "idle"
    /\ part' = IF Resume /\ PartialIsPage THEN <<>> ELSE part
    /\ start' = IF Resume THEN Len(part') ELSE 0
    /\ st' = "sent"
    /\ UNCHANGED <<served, declared, dest, server, attempt, body, faults, run>>

Missing ==
    /\ st = "sent" /\ server \notin Holding
    /\ NextServer
    /\ UNCHANGED <<served, declared, part, dest, start, faults, run>>

\* 200: the file is written from its beginning, whatever was asked for.
Whole ==
    /\ st = "sent" /\ server \in Holding
    /\ start = 0 \/ server \notin Ranged
    /\ part' = <<>>
    /\ body' = [code |-> 200, ver |-> served[server], next |-> 1]
    /\ st' = "body"
    /\ UNCHANGED <<served, declared, dest, server, attempt, start, faults, run>>

\* 206: the rest is appended to the .part file.
Rest ==
    /\ st = "sent" /\ server \in Ranged
    /\ start > 0 /\ start < Size[served[server]]
    /\ body' = [code |-> 206, ver |-> served[server], next |-> start + 1]
    /\ st' = "body"
    /\ UNCHANGED <<served, declared, part, dest, server, attempt, start, faults, run>>

\* 416: the server has nothing behind the offset; an error like any other.
NothingThere ==
    /\ st = "sent" /\ server \in Ranged
    /\ start > 0 /\ start >= Size[served[server]]
    /\ NextAttempt
    /\ UNCHANGED <<served, declared, part, dest, start, faults, run>>

\* No connection, a timeout, 401, 403, 429 or another error status.
Refused ==
    /\ Fault
    /\ st = "sent"
    /\ NextAttempt
    /\ UNCHANGED <<served, declared, part, dest, start, run>>

\* 200, with an HTML page (a login page, a portal, a maintenance notice).
PageServed ==
    /\ Fault
    /\ st = "sent"
    /\ part' = <<>>
    /\ \E p \in Pages : body' = [code |-> 200, ver |-> p, next |-> 1]
    /\ st' = "body"
    /\ UNCHANGED <<served, declared, dest, server, attempt, start, run>>

Chunk ==
    /\ st = "body" /\ body.next <= Length(body.ver)
    /\ part' = Append(part, [ver |-> body.ver, pos |-> body.next])
    /\ body' = [body EXCEPT !.next = @ + 1]
    /\ UNCHANGED <<served, declared, dest, st, server, attempt, start, faults, run>>

\* Mutants of Broken: the end of the connection is taken for the end of the file;
\* an error in the body is not turned into one that is tried again.
BrokenIsEnd ==
    /\ Fault
    /\ st = "body"
    /\ st' = IF part = <<>> THEN "idle" ELSE "landed"
    /\ UNCHANGED <<served, declared, part, dest, server, attempt, start, body, run>>

BrokenGivesUp ==
    /\ Fault
    /\ st = "body"
    /\ NextServer
    /\ UNCHANGED <<served, declared, part, dest, start, run>>

\* The connection breaks or a read times out; the blocks so far stay.  Behind the
\* last block of a chunked body the .part file is complete then.
Broken ==
    /\ Fault
    /\ st = "body"
    /\ NextAttempt
    /\ UNCHANGED <<served, declared, part, dest, start, run>>

\* A write to the .part file or the rename fails: for the manager an unexpected
\* error, after which the server is not asked again.
DiskFails ==
    /\ faults.count < MaxFaults
    /\ faults' = [count |-> faults.count + 1, disk |-> TRUE]
    /\ st \in {"body", "landed"}
    /\ NextServer
    /\ UNCHANGED <<served, declared, part, dest, start, run>>

\* validate_download_content: the size fits the response; neither the first bytes
\* of the file nor the Content-Type of the response are those of a page.
ContentValid ==
    /\ Len(part) = Length(body.ver)
    /\ body.code = 206 => declared \in {0, Length(body.ver)}
    /\ ~PartialIsPage /\ body.ver \notin Pages

EndOfBody ==
    /\ st = "body" /\ body.next > Length(body.ver)
    /\ \/ /\ ContentValid
          /\ st' = "landed"
          /\ UNCHANGED <<server, attempt, body>>
       \/ /\ ~ContentValid
          /\ NextAttempt
    /\ UNCHANGED <<served, declared, part, dest, start, faults, run>>

\* validate_file and Path.replace, in the manager.
Deliver ==
    /\ st = "landed"
    /\ \/ /\ declared \in {0, Len(part)}
          /\ dest' = part /\ part' = <<>>
          /\ st' = "delivered"
          /\ UNCHANGED <<server, attempt, body>>
       \/ /\ declared \notin {0, Len(part)}
          /\ NextAttempt
          /\ UNCHANGED <<part, dest>>
    /\ UNCHANGED <<served, declared, start, faults, run>>

Progress ==
    \/ Request
    \/ Missing \/ Whole \/ Rest \/ NothingThere
    \/ Chunk \/ EndOfBody \/ Deliver

-----------------------------------------------------------------------------

\* A server gets another version of the file.
Publish ==
    /\ Fault
    /\ \E m \in Holding, v \in Versions :
          v # served[m] /\ served' = [served EXCEPT ![m] = v]
    /\ UNCHANGED <<declared, part, dest, st, server, attempt, start, body, run>>

\* The user cancels, or the program is killed: what was not flushed is lost.
Stop ==
    /\ st \in Busy
    /\ st' = "down" /\ body' = NoBody
    /\ \/ part' = part
       \/ st = "body" /\ \E n \in 0..Len(part) : part' = SubSeq(part, 1, n)
    /\ UNCHANGED <<served, declared, dest, server, attempt, start, faults, run>>

\* The plan is executed again; there is still nothing at the destination.
RunAgain ==
    /\ st \in {"failed", "down"} /\ run < MaxRuns
    /\ run' = run + 1
    /\ st' = "idle" /\ server' = 1 /\ attempt' = 1
    /\ UNCHANGED <<served, declared, part, dest, start, body, faults>>

Idle ==
    /\ st = "delivered" \/ (st \in {"failed", "down"} /\ run = MaxRuns)
    /\ UNCHANGED vars

Next ==
    \/ Progress
    \/ Refused \/ PageServed \/ Broken \/ DiskFails \/ Publish
    \/ Stop \/ RunAgain \/ Idle

Safety == Init /\ [][Next]_vars

\* A server that does not answer runs into the client's timeouts, which are
\* faults; otherwise requests are answered, bodies end, and the client goes on.
Spec == Safety /\ WF_vars(Progress)

-----------------------------------------------------------------------------
(* Properties.                                                             *)

TypeOK ==
    /\ served \in [Servers -> Versions]
    /\ declared \in Nat
    /\ part \in Seq(Blocks) /\ dest \in Seq(Blocks)
    /\ st \in Busy \cup {"delivered", "failed", "down"}
    /\ server \in Servers
    /\ attempt \in 1..Attempts
    /\ start \in Nat
    /\ body \in [code : {0, 200, 206}, ver : Contents, next : Nat \ {0}]
    /\ faults \in [count : 0..MaxFaults, disk : BOOLEAN]
    /\ run \in 1..MaxRuns

\* The .part file has no gap, no block twice and nothing behind a page that can
\* be recognised, however often a transfer broke, changed the server or was killed:
\* every block is at its place, and only the first one may be of a page.
InOrder(s) ==
    /\ \A i \in DOMAIN s : s[i].pos = i
    /\ \A i \in DOMAIN s : s[i].ver \in Pages => i = 1
    /\ Len(s) > 1 => s[1].ver \notin Pages \ Plain

PartInOrder == InOrder(part)

\* What is at the destination is never a page and never a piece of a file: its
\* blocks are at their places, it has the length of the version its last block is
\* of, and the size the plan declared, when it declared one.  Only its first block
\* may come from a page, one that nothing but its Content-Type gave away.
DeliveredComplete ==
    dest # <<>> =>
        /\ InOrder(dest) /\ dest[1].ver \notin Pages \ Plain
        /\ dest[Len(dest)].ver \in Versions
        /\ Len(dest) = Size[dest[Len(dest)].ver]
        /\ declared \in {0, Len(dest)}

\* All the servers hold the version the plan was made from.
Settled == \A m \in Holding : served[m] = First

\* The .part file is as long as the file, and the server is asked for what is
\* behind its end: it answers 416, now and in every later attempt.
AsksBehindEnd == st = "sent" /\ server \in Ranged /\ start >= Size[First]

\* Faults of the network cost attempts, not the file: when the servers that have
\* the file allow more attempts than there are faults, the file arrives, whatever
\* the broken attempts left behind, unless the run is stopped, the servers differ,
\* the disk refuses it, or nothing but the end of a body had been missing, so that
\* attempts are lost to AsksBehindEnd.
FaultsSurvived ==
    <>(dest # <<>> \/ st = "down" \/ ~Settled \/ faults.disk \/ AsksBehindEnd)

\* What is delivered is the file as some server had it, not a mixture.
DeliveredOneVersion ==
    \A i, j \in DOMAIN dest : dest[i].ver = dest[j].ver
=============================================================================
