------------------------------ MODULE GuiTask ------------------------------
(***************************************************************************)
(* gnssgo/gui: one row of the Downloads page (services/task_service.py,    *)
(* pages/tasks.py) and the worker thread that executes its plan            *)
(* (pages/base.py, workers/base.py).                                       *)
(*                                                                         *)
(* The worker thread is the abstract DownloadBatch, which DownloadManager  *)
(* implements, with the events that run() emits on the way.  Its signals   *)
(* are queued to the GUI thread and delivered in the order they were       *)
(* emitted; between two of them the user may press Cancel or Retry.        *)
(* FILE_QUEUED and FILE_PROGRESS change no field that is modelled; a       *)
(* FILE_STARTED repeated by a retry does what the first one did.           *)
(***************************************************************************)
EXTENDS Naturals, Sequences, FiniteSets

CONSTANTS
    Tasks,    \* the files of the plan
    Names     \* Names[t]: file names of the primary remote and its fallbacks

ASSUME NamesAssumption ==
    /\ IsFiniteSet(Tasks)
    /\ DOMAIN Names = Tasks
    /\ \A t \in Tasks : Len(Names[t]) \in Nat \ {0}

VARIABLES
    outcome, verdict, asked,   \* the batch; asked is the cancellation token
    cand,       \* cand[t]: the candidate being tried
    stage,      \* stage[t]: "waiting", "transfer" or "process"
    worker,     \* FunctionWorker: "running", "returning" from run(); then "over"
                \* when the results are emitted, "raised" when the error is
    queue,      \* signals on their way to the GUI thread
    state,      \* task.state
    completed,  \* task.completed_keys
    failed,     \* task.failed_keys
    nCompleted, \* task.completed_files
    nFailed,    \* task.failed_files
    pressed     \* history: the user has pressed Cancel or Retry

batch == <<outcome, verdict, asked>>
row == <<state, completed, failed, nCompleted, nFailed, pressed>>
vars == <<outcome, verdict, asked, cand, stage, worker, queue, row>>

Batch == INSTANCE DownloadBatch

FileNames == UNION {{Names[t][c] : c \in 1..Len(Names[t])} : t \in Tasks}
Name(t) == Names[t][cand[t]]

\* Signals: of a file, of the whole task (TASK_*), and the worker's last one.
FileSignal(type, name) == [type |-> type, name |-> name]
TaskSignal(v) == [type |-> "task", verdict |-> v]
LastSignal(type) == [type |-> type]
Emit(s) == queue' = Append(queue, s)

Finals == {"completed", "partial", "failed", "cancelled"}
HowMany(o) == Cardinality({t \in Tasks : outcome[t] = o})

\* attach_plan and run_download have run in one go.
Init ==
    /\ Batch!Init
    /\ cand = [t \in Tasks |-> 1] /\ stage = [t \in Tasks |-> "waiting"]
    /\ worker = "running" /\ queue = <<>>
    /\ state = "downloading"
    /\ completed = {} /\ failed = {} /\ nCompleted = 0 /\ nFailed = 0
    /\ pressed = FALSE

-----------------------------------------------------------------------------
(* The worker thread.                                                      *)

AtWork(t) == verdict = "open" /\ outcome[t] = "pending"

Start(t) ==
    /\ AtWork(t) /\ stage[t] = "waiting"
    /\ stage' = [stage EXCEPT ![t] = "transfer"]
    /\ Emit(FileSignal("started", Name(t)))
    /\ UNCHANGED <<batch, cand, worker, row>>

Process(t) ==
    /\ AtWork(t) /\ stage[t] = "transfer"
    /\ stage' = [stage EXCEPT ![t] = "process"]
    /\ Emit(FileSignal("processing", Name(t)))
    /\ UNCHANGED <<batch, cand, worker, row>>

\* Mutant of GiveUp: one candidate too many.
GiveUpOffByOne(t) ==
    /\ AtWork(t) /\ stage[t] # "waiting" /\ cand[t] <= Len(Names[t])
    /\ cand' = [cand EXCEPT ![t] = @ + 1]
    /\ stage' = [stage EXCEPT ![t] = "waiting"]
    /\ Emit(FileSignal("failed", Names[t][1]))
    /\ UNCHANGED <<batch, worker, row>>

\* The candidate failed, there is another one.
GiveUp(t) ==
    /\ AtWork(t) /\ stage[t] # "waiting" /\ cand[t] < Len(Names[t])
    /\ cand' = [cand EXCEPT ![t] = @ + 1]
    /\ stage' = [stage EXCEPT ![t] = "waiting"]
    /\ Emit(FileSignal("failed", Name(t)))
    /\ UNCHANGED <<batch, worker, row>>

\* FILE_VALIDATED after the processing, or FILE_SKIPPED at once.
Land(t) ==
    /\ stage[t] # "transfer"
    /\ Batch!Settle(t) /\ outcome'[t] = "ok"
    /\ Emit(FileSignal("landed", Name(t)))
    /\ UNCHANGED <<cand, stage, worker, row>>

FailLast(t) ==
    /\ stage[t] # "waiting" /\ cand[t] = Len(Names[t])
    /\ Batch!Settle(t) /\ outcome'[t] = "failed"
    /\ Emit(FileSignal("failed", Name(t)))
    /\ UNCHANGED <<cand, stage, worker, row>>

\* A cancelled file has no event of its own.
DropOut(t) ==
    /\ Batch!Settle(t) /\ outcome'[t] = "cancelled"
    /\ UNCHANGED <<cand, stage, worker, queue, row>>

\* run() emits its TASK_* event and returns the results.
Close ==
    /\ Batch!Close
    /\ Emit(TaskSignal(verdict'))
    /\ worker' = "returning"
    /\ UNCHANGED <<cand, stage, row>>

\* The manifest is written: the worker emits result, or error when that fails.
Return ==
    /\ worker = "returning"
    /\ \/ worker' = "over" /\ Emit(LastSignal("results"))
       \/ worker' = "raised" /\ Emit(LastSignal("error"))
    /\ UNCHANGED <<batch, cand, stage, row>>

\* Mutant of BreakOff: the exception is lost.
BreakOffSilently ==
    /\ Batch!BreakOff
    /\ worker' = "raised"
    /\ UNCHANGED <<cand, stage, queue, row>>

\* run() raises: no TASK_* event, the worker emits error.
BreakOff ==
    /\ Batch!BreakOff
    /\ worker' = "raised"
    /\ Emit(LastSignal("error"))
    /\ UNCHANGED <<cand, stage, row>>

Worker ==
    \/ \E t \in Tasks :
          Start(t) \/ Process(t) \/ GiveUp(t) \/ Land(t) \/ FailLast(t) \/ DropOut(t)
    \/ Close \/ Return \/ BreakOff

-----------------------------------------------------------------------------
(* The GUI thread: delivery of the signal at the head of the queue.        *)

Deliver(type) ==
    /\ queue # <<>> /\ Head(queue).type = type
    /\ queue' = Tail(queue)
    /\ UNCHANGED <<batch, cand, stage, worker, pressed>>

OnStarted ==
    /\ Deliver("started")
    /\ state' = "downloading"
    /\ UNCHANGED <<completed, failed, nCompleted, nFailed>>

OnProcessing ==
    /\ Deliver("processing")
    /\ state' = "processing"
    /\ UNCHANGED <<completed, failed, nCompleted, nFailed>>

OnLanded ==
    /\ Deliver("landed")
    /\ completed' = completed \cup {Head(queue).name}
    /\ failed' = failed \ {Head(queue).name}
    /\ nCompleted' = Cardinality(completed') /\ nFailed' = Cardinality(failed')
    /\ UNCHANGED state

OnFailed ==
    /\ Deliver("failed")
    /\ failed' = failed \cup {Head(queue).name}
    /\ nFailed' = Cardinality(failed')
    /\ UNCHANGED <<state, completed, nCompleted>>

\* TASK_*: the state; the number of completed files unless it is zero.
OnTask ==
    /\ Deliver("task")
    /\ state' = Head(queue).verdict
    /\ nCompleted' = IF state' \in {"completed", "partial"} /\ HowMany("ok") > 0
                     THEN HowMany("ok") ELSE nCompleted
    /\ UNCHANGED <<completed, failed, nFailed>>

\* Mutants of OnResults: files that were cancelled count for nothing; the
\* numbers are left as the events made them.
OnResultsForgetsCancelled ==
    /\ Deliver("results")
    /\ \/ /\ state = "cancelled"
          /\ UNCHANGED <<state, nCompleted, nFailed>>
       \/ /\ state # "cancelled"
          /\ nCompleted' = HowMany("ok") /\ nFailed' = HowMany("failed")
          /\ state' = IF nFailed' > 0 THEN "partial" ELSE "completed"
    /\ UNCHANGED <<completed, failed>>

OnResultsKeepsCounts ==
    /\ Deliver("results")
    /\ \/ /\ state = "cancelled"
          /\ UNCHANGED state
       \/ /\ state # "cancelled"
          /\ state' = IF HowMany("cancelled") > 0 THEN "cancelled"
                      ELSE IF HowMany("failed") > 0 THEN "partial" ELSE "completed"
    /\ UNCHANGED <<completed, failed, nCompleted, nFailed>>

\* complete_from_results: the last word, unless the row says cancelled.
OnResults ==
    /\ Deliver("results")
    /\ \/ /\ state = "cancelled"
          /\ UNCHANGED <<state, nCompleted, nFailed>>
       \/ /\ state # "cancelled"
          /\ nCompleted' = HowMany("ok") /\ nFailed' = HowMany("failed")
          /\ state' = IF HowMany("cancelled") > 0 THEN "cancelled"
                      ELSE IF nFailed' > 0 THEN "partial" ELSE "completed"
    /\ UNCHANGED <<completed, failed>>

\* Mutant of OnError: only the message is set.
OnErrorKeepsState ==
    /\ Deliver("error")
    /\ UNCHANGED row

OnError ==
    /\ Deliver("error")
    /\ state' = "failed"
    /\ UNCHANGED <<completed, failed, nCompleted, nFailed>>

OnSignal ==
    \/ OnStarted \/ OnProcessing \/ OnLanded \/ OnFailed
    \/ OnTask \/ OnResults \/ OnError

-----------------------------------------------------------------------------
(* The GUI thread: the buttons, as far as they are enabled.                *)

Cancel ==
    /\ state \notin {"completed", "failed", "cancelled"}
    /\ state' = "cancelled" /\ pressed' = TRUE
    /\ asked' = (asked \/ verdict = "open")
    /\ UNCHANGED <<outcome, verdict, cand, stage, worker, queue,
                   completed, failed, nCompleted, nFailed>>

\* retry_failed: the row is reset; no worker is started, and one that is still
\* at work is not waited for.
Retry ==
    /\ state \in {"failed", "partial", "cancelled"}
    /\ state' = "ready" /\ pressed' = TRUE
    /\ completed' = {} /\ failed' = {} /\ nCompleted' = 0 /\ nFailed' = 0
    /\ UNCHANGED <<batch, cand, stage, worker, queue>>

AtRest == worker \in {"over", "raised"} /\ queue = <<>>

Done == AtRest /\ UNCHANGED vars

Next == Worker \/ OnSignal \/ Cancel \/ Retry \/ Done

Safety == Init /\ [][Next]_vars

\* The batch comes to an end, and Qt delivers what is queued.
Spec == Safety /\ WF_vars(Worker) /\ WF_vars(OnSignal)

-----------------------------------------------------------------------------
(* Properties.                                                             *)

Signals ==
    [type : {"started", "processing", "landed", "failed"}, name : FileNames]
    \cup [type : {"task"}, verdict : Finals] \cup [type : {"results", "error"}]

TypeOK ==
    /\ outcome \in [Tasks -> {"pending"} \cup Batch!Outcomes]
    /\ verdict \in {"open", "error"} \cup Batch!Verdicts
    /\ asked \in BOOLEAN
    /\ DOMAIN cand = Tasks /\ \A t \in Tasks : cand[t] \in 1..Len(Names[t])
    /\ stage \in [Tasks -> {"waiting", "transfer", "process"}]
    /\ worker \in {"running", "returning", "over", "raised"}
    /\ queue \in Seq(Signals)
    /\ state \in {"ready", "downloading", "processing"} \cup Finals
    /\ completed \subseteq FileNames /\ failed \subseteq FileNames
    /\ nCompleted \in Nat /\ nFailed \in Nat
    /\ pressed \in BOOLEAN

\* When the worker is through and its signals are delivered, the row does not
\* say that something is being downloaded or processed, whatever late events
\* arrived after a Cancel or a Retry.
NothingInProgressAtRest == AtRest => state \notin {"downloading", "processing"}

\* A row says COMPLETED only when every file of the plan succeeded, also when the
\* user cancelled or retried while the events were on their way.
CompletedIsTrue == state = "completed" => \A t \in Tasks : outcome[t] = "ok"

\* The numbers a finished row shows are those of the results, although fallbacks
\* with other names make the events count some files twice.
CountsOfResults ==
    AtRest /\ state \in {"completed", "partial"} =>
        nCompleted = HowMany("ok") /\ nFailed = HowMany("failed")

\* What the row says of a batch that is over: FAILED when the worker raised an
\* error, and PARTIAL, not FAILED, when every file failed
\* (complete_from_results knows the two cases no longer).
Ending ==
    IF worker = "raised" THEN "failed"
    ELSE IF verdict = "failed" THEN "partial"
    ELSE verdict

\* A row whose worker is through says how its batch ended; only a row the user
\* cancelled or retried, at any moment, may say CANCELLED or READY instead.
RowTellsEnding == state = Ending \/ (pressed /\ state \in {"cancelled", "ready"})

\* Every row comes to rest, and from then on tells the ending of its batch (or of
\* the user's last button), whatever was still queued when the button was pressed.
ComesToRest == <>[](AtRest /\ RowTellsEnding)
=============================================================================
