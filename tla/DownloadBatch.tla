--------------------------- MODULE DownloadBatch ---------------------------
(***************************************************************************)
(* What DownloadManager.run promises to its callers (the CLI, the GUI task *)
(* service and the manifest), with nothing of how it is done: every file   *)
(* of the batch gets one outcome that never changes, the batch gets one    *)
(* verdict, and the verdict is a function of the outcomes.                 *)
(*                                                                         *)
(* A file is settled as cancelled only when somebody asked for             *)
(* cancellation, and only then may the batch break off with an exception   *)
(* ("error") that leaves files without an outcome.                         *)
(***************************************************************************)
EXTENDS Naturals, FiniteSets

CONSTANTS Tasks     \* the files of the batch

VARIABLES outcome,  \* outcome[t]: what the caller is told about file t
          verdict,  \* the terminal TASK_* event of the batch, "open" until then
          asked     \* cancellation was requested

vars == <<outcome, verdict, asked>>

Outcomes == {"ok", "failed", "cancelled"}
Verdicts == {"completed", "partial", "failed", "cancelled"}

\* How the outcomes of the files make the outcome of the batch.
Summary(o) ==
    IF \E t \in Tasks : o[t] = "cancelled" THEN "cancelled"
    ELSE IF \A t \in Tasks : o[t] # "failed" THEN "completed"
    ELSE IF \E t \in Tasks : o[t] = "ok" THEN "partial"
    ELSE "failed"

Init ==
    /\ outcome = [t \in Tasks |-> "pending"]
    /\ verdict = "open"
    /\ asked = FALSE

Ask ==
    /\ verdict = "open"
    /\ asked' = TRUE
    /\ UNCHANGED <<outcome, verdict>>

Settle(t) ==
    /\ verdict = "open"
    /\ outcome[t] = "pending"
    /\ \E o \in Outcomes :
          /\ o = "cancelled" => asked
          /\ outcome' = [outcome EXCEPT ![t] = o]
    /\ UNCHANGED <<verdict, asked>>

Close ==
    /\ verdict = "open"
    /\ \A t \in Tasks : outcome[t] # "pending"
    /\ verdict' = Summary(outcome)
    /\ UNCHANGED <<outcome, asked>>

\* run() raises instead of returning: nobody gets the outcomes.
BreakOff ==
    /\ verdict = "open"
    /\ asked
    /\ verdict' = "error"
    /\ UNCHANGED <<outcome, asked>>

\* The program is killed.
Die ==
    /\ verdict = "open"
    /\ verdict' = "crash"
    /\ UNCHANGED <<outcome, asked>>

\* The same plan is executed again with a new manager and a new token.
Again ==
    /\ verdict # "open"
    /\ outcome' = [t \in Tasks |-> "pending"]
    /\ verdict' = "open"
    /\ asked' = FALSE

Next ==
    \/ Ask
    \/ \E t \in Tasks : Settle(t)
    \/ Close
    \/ BreakOff
    \/ Die
    \/ Again

Safety == Init /\ [][Next]_vars

\* An open batch does not stay open, however the files turn out.
Spec == Safety /\ WF_vars((\E t \in Tasks : Settle(t)) \/ Close)
=============================================================================
