-------------------------- MODULE DownloadManager --------------------------
(***************************************************************************)
(* gnssgo/download/manager.py: one DownloadManager.run over a list of      *)
(* DownloadTasks, executed again after it ended (MaxRuns) over the same    *)
(* archive directory.                                                      *)
(*                                                                         *)
(* Each task is a coroutine (guarded, run's inner function).  Coroutines   *)
(* interleave only where the code awaits: on a semaphore, on the           *)
(* downloader, on asyncio.sleep.  Between two awaits a coroutine keeps the *)
(* event loop; `loop` names the coroutine that is in the middle of such a  *)
(* stretch.  The cancellation token is a threading.Event set from the GUI  *)
(* thread, so Cancel may happen at any point, also inside a stretch.       *)
(*                                                                         *)
(* asyncio.Semaphore wakes its waiters in FIFO order (Python >= 3.11) and  *)
(* gather starts the coroutines in list order, so both semaphores are      *)
(* taken in the order of the list.                                         *)
(***************************************************************************)
EXTENDS Naturals, Sequences, FiniteSets

CONSTANTS
    NTasks,        \* number of tasks of the plan; task t is the t-th of the list
    Providers,     \* the data centres
    Files,         \* destination paths
    Provider,      \* Provider[t]: task.remote.provider of the primary remote
    Chain,         \* Chain[t]: the primary remote followed by its fallback_candidates
    Limit,         \* max_parallel_downloads, for the tasks whose metadata has it
    Quiet,         \* the tasks with min_interval_seconds > 0
    Workers,       \* settings.download.workers
    PerProvider,   \* settings.download.per_provider_workers
    Retries,       \* settings.download.retries
    Overwrite,     \* the tasks with task.overwrite
    MaxRuns        \* bound: how often the plan is executed

Tasks == 1..NTasks
Remotes == [file : Files, once : BOOLEAN]   \* once: no_transport_retries = "1"

ASSUME NTasksAssumption == NTasks \in Nat \ {0}
ASSUME PlanAssumption ==
    /\ Provider \in [Tasks -> Providers]
    /\ Chain \in [Tasks -> Seq(Remotes) \ {<<>>}]
    /\ \E S \in SUBSET Tasks : Limit \in [S -> Nat]
    /\ Quiet \subseteq Tasks
ASSUME SettingsAssumption ==
    /\ Workers \in Nat
    /\ PerProvider \in Nat
    /\ Retries \in Nat
    /\ Overwrite \subseteq Tasks
    /\ MaxRuns \in Nat \ {0}

Min2(a, b) == IF a < b THEN a ELSE b
Max2(a, b) == IF a < b THEN b ELSE a

GlobalLimit == Max2(1, Min2(Workers, 32))
PerProviderLimit == Max2(1, Min2(PerProvider, GlobalLimit))

\* The limit the coroutine of t brings along for its provider's semaphore.
TaskLimit(t) ==
    IF t \in DOMAIN Limit THEN Min2(PerProviderLimit, Max2(1, Limit[t]))
                          ELSE PerProviderLimit

VARIABLES
    phase,      \* "running", "aborting" (gather has raised), "ended"
    verdict,    \* the TASK_* event, or "error" when run() raised
    loop,       \* the coroutine that holds the event loop, Idle between stretches
    pc,         \* pc[t]: where the coroutine of t stands
    cand,       \* cand[t]: index in Chain[t] of the candidate being tried
    attempt,    \* attempt[t]: number of the current attempt of that candidate
    result,     \* result[t]: status of the DownloadResult, "none" before it exists
    slots,      \* value of the global semaphore
    cap,        \* cap[p]: initial value of p's semaphore, 0 before setdefault created it
    free,       \* free[p]: value of p's semaphore
    cancelled,  \* the cancellation token
    disk,       \* disk[f]: what is at destination f
    landed,     \* landed[t]: number of FILE_VALIDATED and FILE_SKIPPED events of t
    failedAt,   \* failedAt[t]: candidates of t for which FILE_FAILED was emitted
    run         \* how often the plan was executed so far

vars == <<phase, verdict, loop, pc, cand, attempt, result, slots, cap, free,
          cancelled, disk, landed, failedAt, run>>

Idle == 0

\* The coroutines that are inside `async with semaphore`, and inside
\* `async with semaphore, provider_semaphore`.
InProvider == {"candidate", "transfer", "process", "backoff", "quiet"}
InGlobal == InProvider \cup {"gated"}

PCs == InGlobal \cup {"new", "queued", "done", "raised", "torn"}

\* absent; raw: the bytes of the transfer, not (successfully) post-processed;
\* kept: post-processed and still at its path; restored: post-processed, the
\* output has another name and the archive file was removed.
FileStates == {"absent", "raw", "kept", "restored"}
Exists(f) == disk[f] \in {"raw", "kept"}

Remote(t) == Chain[t][cand[t]]
MaxAttempts(t) == IF Remote(t).once THEN 1 ELSE Retries + 1

Live == phase \in {"running", "aborting"}
AllEntered == \A t \in Tasks : pc[t] # "new"

Everywhere(x) == [t \in Tasks |-> x]

Init ==
    /\ phase = "running" /\ verdict = "none" /\ loop = Idle
    /\ pc = Everywhere("new")
    /\ cand = Everywhere(1) /\ attempt = Everywhere(0)
    /\ result = Everywhere("none")
    /\ slots = GlobalLimit
    /\ cap = [p \in Providers |-> 0] /\ free = [p \in Providers |-> 0]
    /\ cancelled = FALSE
    /\ disk = [f \in Files |-> "absent"]
    /\ landed = Everywhere(0) /\ failedAt = Everywhere({})
    /\ run = 1

-----------------------------------------------------------------------------
(* Pieces of the coroutine that several steps end in.                      *)

\* Leaving `async with semaphore, provider_semaphore`.
Release(t) ==
    /\ slots' = slots + 1
    /\ free' = [free EXCEPT ![Provider[t]] = @ + 1]

\* Mutant of Settle: the quiet period outside the `async with`.
SettleThenSleep(t, r) ==
    /\ result' = [result EXCEPT ![t] = r]
    /\ loop' = Idle
    /\ pc' = [pc EXCEPT ![t] = IF t \in Quiet THEN "quiet" ELSE "done"]
    /\ Release(t)

\* download_one has returned r for t.  A task with a quiet period sleeps with
\* both semaphores held.
Settle(t, r) ==
    /\ result' = [result EXCEPT ![t] = r]
    /\ loop' = Idle
    /\ \/ /\ t \in Quiet
          /\ pc' = [pc EXCEPT ![t] = "quiet"]
          /\ UNCHANGED <<slots, free>>
       \/ /\ t \notin Quiet
          /\ pc' = [pc EXCEPT ![t] = "done"]
          /\ Release(t)

\* Mutant of FailCandidate: one candidate too many.
FailCandidateOffByOne(t) ==
    /\ failedAt' = [failedAt EXCEPT ![t] = @ \cup {cand[t]}]
    /\ \/ /\ cand[t] <= Len(Chain[t])
          /\ cand' = [cand EXCEPT ![t] = @ + 1]
          /\ pc' = [pc EXCEPT ![t] = "candidate"]
          /\ loop' = t
          /\ UNCHANGED <<result, slots, free>>
       \/ /\ cand[t] > Len(Chain[t])
          /\ Settle(t, "failed")
          /\ UNCHANGED cand

\* FILE_FAILED: the next candidate is tried in the same stretch, and the task
\* fails when there is none.
FailCandidate(t) ==
    /\ failedAt' = [failedAt EXCEPT ![t] = @ \cup {cand[t]}]
    /\ \/ /\ cand[t] < Len(Chain[t])
          /\ cand' = [cand EXCEPT ![t] = @ + 1]
          /\ pc' = [pc EXCEPT ![t] = "candidate"]
          /\ loop' = t
          /\ UNCHANGED <<result, slots, free>>
       \/ /\ cand[t] >= Len(Chain[t])
          /\ Settle(t, "failed")
          /\ UNCHANGED cand

\* A GNSSGoError other than not-found and cancelled.
RetryOrFail(t) ==
    \/ /\ attempt[t] < MaxAttempts(t)
       /\ pc' = [pc EXCEPT ![t] = "backoff"]
       /\ loop' = Idle
       /\ UNCHANGED <<cand, result, slots, free, failedAt>>
    \/ /\ attempt[t] >= MaxAttempts(t)
       /\ FailCandidate(t)

-----------------------------------------------------------------------------
(* The steps of the coroutine of task t.                                   *)

\* First lines of guarded: the provider's semaphore is created by the first
\* task of the provider, with that task's limit (setdefault).
Enter(t) ==
    /\ loop = Idle
    /\ pc[t] = "new"
    /\ \A u \in Tasks : u < t => pc[u] # "new"
    /\ pc' = [pc EXCEPT ![t] = "queued"]
    /\ LET p == Provider[t] IN
       \/ /\ cap[p] = 0
          /\ cap' = [cap EXCEPT ![p] = TaskLimit(t)]
          /\ free' = [free EXCEPT ![p] = TaskLimit(t)]
       \/ /\ cap[p] # 0
          /\ UNCHANGED <<cap, free>>
    /\ UNCHANGED <<phase, verdict, loop, cand, attempt, result, slots,
                   cancelled, disk, landed, failedAt, run>>

AcquireGlobal(t) ==
    /\ loop = Idle
    /\ pc[t] = "queued"
    /\ \A u \in Tasks : u < t => pc[u] \notin {"new", "queued"}
    /\ slots > 0
    /\ slots' = slots - 1
    /\ pc' = [pc EXCEPT ![t] = "gated"]
    /\ UNCHANGED <<phase, verdict, loop, cand, attempt, result, cap, free,
                   cancelled, disk, landed, failedAt, run>>

\* Mutant of AcquireProvider: a cancelled task returns with the worker's slot.
AcquireProviderLeaks(t) ==
    /\ loop = Idle
    /\ pc[t] = "gated"
    /\ \A u \in Tasks : u < t /\ Provider[u] = Provider[t] => pc[u] # "gated"
    /\ free[Provider[t]] > 0
    /\ \/ /\ cancelled
          /\ result' = [result EXCEPT ![t] = "cancelled"]
          /\ pc' = [pc EXCEPT ![t] = "done"]
          /\ UNCHANGED <<loop, free, slots>>
       \/ /\ ~cancelled
          /\ free' = [free EXCEPT ![Provider[t]] = @ - 1]
          /\ pc' = [pc EXCEPT ![t] = "candidate"]
          /\ loop' = t
          /\ UNCHANGED <<result, slots>>
    /\ UNCHANGED <<phase, verdict, cand, attempt, cap, cancelled, disk, landed,
                   failedAt, run>>

\* The provider semaphore, and the check of the token that follows.  A
\* cancelled task gives both semaphores back at once and has no quiet period.
AcquireProvider(t) ==
    /\ loop = Idle
    /\ pc[t] = "gated"
    /\ \A u \in Tasks : u < t /\ Provider[u] = Provider[t] => pc[u] # "gated"
    /\ free[Provider[t]] > 0
    /\ \/ /\ cancelled
          /\ result' = [result EXCEPT ![t] = "cancelled"]
          /\ pc' = [pc EXCEPT ![t] = "done"]
          /\ slots' = slots + 1
          /\ UNCHANGED <<loop, free>>
       \/ /\ ~cancelled
          /\ free' = [free EXCEPT ![Provider[t]] = @ - 1]
          /\ pc' = [pc EXCEPT ![t] = "candidate"]
          /\ loop' = t
          /\ UNCHANGED <<result, slots>>
    /\ UNCHANGED <<phase, verdict, cand, attempt, cap, cancelled, disk, landed,
                   failedAt, run>>

\* raise_if_cancelled stands outside the try of _download_one_candidate: the
\* exception leaves the coroutine and gather raises it out of run().
CandidateRaises(t) ==
    /\ loop = t /\ pc[t] = "candidate"
    /\ cancelled
    /\ pc' = [pc EXCEPT ![t] = "raised"]
    /\ loop' = Idle
    /\ phase' = "aborting"
    /\ Release(t)
    /\ UNCHANGED <<verdict, cand, attempt, result, cap, cancelled, disk, landed,
                   failedAt, run>>

\* FILE_SKIPPED: whatever is at the destination counts as the result.
SkipExisting(t) ==
    /\ loop = t /\ pc[t] = "candidate"
    /\ ~cancelled
    /\ Exists(Remote(t).file) /\ t \notin Overwrite
    /\ landed' = [landed EXCEPT ![t] = @ + 1]
    /\ Settle(t, "skipped")
    /\ UNCHANGED <<phase, verdict, cand, attempt, cap, cancelled, disk, failedAt,
                   run>>

\* Mutant of StartTransfer: the destination is not looked at.
StartTransferAnyway(t) ==
    /\ loop = t /\ pc[t] = "candidate"
    /\ ~cancelled
    /\ attempt' = [attempt EXCEPT ![t] = 1]
    /\ pc' = [pc EXCEPT ![t] = "transfer"]
    /\ loop' = Idle
    /\ UNCHANGED <<phase, verdict, cand, result, slots, cap, free, cancelled, disk,
                   landed, failedAt, run>>

StartTransfer(t) ==
    /\ loop = t /\ pc[t] = "candidate"
    /\ ~cancelled
    /\ ~Exists(Remote(t).file) \/ t \in Overwrite
    /\ attempt' = [attempt EXCEPT ![t] = 1]
    /\ pc' = [pc EXCEPT ![t] = "transfer"]
    /\ loop' = Idle
    /\ UNCHANGED <<phase, verdict, cand, result, slots, cap, free, cancelled, disk,
                   landed, failedAt, run>>

\* Mutant of TransferSucceeds: FILE_VALIDATED before post-processing.
TransferValidatesEarly(t) ==
    /\ loop = Idle /\ AllEntered
    /\ pc[t] = "transfer"
    /\ disk' = [disk EXCEPT ![Remote(t).file] = "raw"]
    /\ pc' = [pc EXCEPT ![t] = "process"]
    /\ loop' = t
    /\ landed' = [landed EXCEPT ![t] = @ + 1]
    /\ UNCHANGED <<phase, verdict, cand, attempt, result, slots, cap, free,
                   cancelled, failedAt, run>>

\* The downloader returned a file that validate_file accepts; it is moved to
\* the destination before the post-processor looks at it.
TransferSucceeds(t) ==
    /\ loop = Idle /\ AllEntered
    /\ pc[t] = "transfer"
    /\ disk' = [disk EXCEPT ![Remote(t).file] = "raw"]
    /\ pc' = [pc EXCEPT ![t] = "process"]
    /\ loop' = t
    /\ UNCHANGED <<phase, verdict, cand, attempt, result, slots, cap, free,
                   cancelled, landed, failedAt, run>>

\* The downloader or validate_file raised.
TransferFails(t) ==
    /\ loop = Idle /\ AllEntered
    /\ pc[t] = "transfer"
    /\ \/ /\ cancelled                                  \* raise_if_cancelled
          /\ Settle(t, "cancelled")
          /\ UNCHANGED <<cand, failedAt>>
       \/ FailCandidate(t)             \* RemoteFileNotFound, or no GNSSGoError
       \/ RetryOrFail(t)               \* any other GNSSGoError
    /\ UNCHANGED <<phase, verdict, attempt, cap, cancelled, disk, landed, run>>

\* self.postprocessor returned: FILE_POSTPROCESS_COMPLETED, FILE_VALIDATED.
ProcessSucceeds(t) ==
    /\ loop = t /\ pc[t] = "process"
    /\ ~cancelled
    /\ \E s \in {"kept", "restored"} : disk' = [disk EXCEPT ![Remote(t).file] = s]
    /\ landed' = [landed EXCEPT ![t] = @ + 1]
    /\ Settle(t, "validated")
    /\ UNCHANGED <<phase, verdict, cand, attempt, cap, cancelled, failedAt, run>>

\* raise_if_cancelled before the post-processor, or the post-processor raised,
\* which may have removed the archive file before it did.
ProcessFails(t) ==
    /\ loop = t /\ pc[t] = "process"
    /\ \/ /\ cancelled
          /\ Settle(t, "cancelled")
          /\ UNCHANGED <<cand, failedAt, disk>>
       \/ /\ ~cancelled
          /\ \E s \in {"raw", "absent"} : disk' = [disk EXCEPT ![Remote(t).file] = s]
          /\ FailCandidate(t) \/ RetryOrFail(t)
    /\ UNCHANGED <<phase, verdict, attempt, cap, cancelled, landed, run>>

\* Mutant of BackoffEnds: the attempt is not counted.
BackoffForgets(t) ==
    /\ loop = Idle
    /\ pc[t] = "backoff"
    /\ pc' = [pc EXCEPT ![t] = "transfer"]
    /\ UNCHANGED <<phase, verdict, loop, cand, attempt, result, slots, cap, free,
                   cancelled, disk, landed, failedAt, run>>

\* The destination is not looked at again: a retry transfers unconditionally.
BackoffEnds(t) ==
    /\ loop = Idle
    /\ pc[t] = "backoff"
    /\ attempt' = [attempt EXCEPT ![t] = @ + 1]
    /\ pc' = [pc EXCEPT ![t] = "transfer"]
    /\ UNCHANGED <<phase, verdict, loop, cand, result, slots, cap, free, cancelled,
                   disk, landed, failedAt, run>>

QuietEnds(t) ==
    /\ loop = Idle
    /\ pc[t] = "quiet"
    /\ pc' = [pc EXCEPT ![t] = "done"]
    /\ Release(t)
    /\ UNCHANGED <<phase, verdict, loop, cand, attempt, result, cap, cancelled,
                   disk, landed, failedAt, run>>

Step(t) ==
    /\ Live
    /\ \/ Enter(t) \/ AcquireGlobal(t) \/ AcquireProvider(t)
       \/ CandidateRaises(t) \/ SkipExisting(t) \/ StartTransfer(t)
       \/ TransferSucceeds(t) \/ TransferFails(t)
       \/ ProcessSucceeds(t) \/ ProcessFails(t)
       \/ BackoffEnds(t) \/ QuietEnds(t)

-----------------------------------------------------------------------------
(* The run as a whole.                                                     *)

Counted(r) == \E t \in Tasks : result[t] \in r

\* Mutants of Terminal: cancelled files count as completed; failures come first.
TerminalCompletes ==
    IF Counted({"failed"}) /\ Counted({"validated", "skipped"}) THEN "partial"
    ELSE IF Counted({"failed"}) THEN "failed"
    ELSE "completed"

TerminalFailedFirst ==
    IF Counted({"failed"}) /\ Counted({"validated", "skipped"}) THEN "partial"
    ELSE IF Counted({"failed"}) THEN "failed"
    ELSE IF Counted({"cancelled"}) THEN "cancelled"
    ELSE "completed"

\* Which TASK_* event run() emits when gather has returned.
Terminal ==
    IF Counted({"cancelled"}) THEN "cancelled"
    ELSE IF Counted({"failed"}) /\ Counted({"validated", "skipped"}) THEN "partial"
    ELSE IF Counted({"failed"}) THEN "failed"
    ELSE "completed"

Finish ==
    /\ phase = "running" /\ loop = Idle
    /\ \A t \in Tasks : pc[t] = "done"
    /\ phase' = "ended"
    /\ verdict' = Terminal
    /\ UNCHANGED <<loop, pc, cand, attempt, result, slots, cap, free, cancelled,
                   disk, landed, failedAt, run>>

\* What becomes of the coroutines that have not returned when the loop goes away.
TearDown(v) ==
    /\ phase' = "ended"
    /\ verdict' = v
    /\ loop' = Idle
    /\ pc' = [t \in Tasks |-> IF pc[t] \in {"done", "raised"} THEN pc[t] ELSE "torn"]
    /\ slots' = GlobalLimit
    /\ free' = cap
    /\ UNCHANGED <<cand, attempt, result, cap, cancelled, disk, landed, failedAt,
                   run>>

\* run() has raised: execute_plan closes the client, asyncio.run cancels the
\* other coroutines, and no TASK_* event is emitted.
Abort == phase = "aborting" /\ loop = Idle /\ TearDown("error")

\* The program is killed, also in the middle of a stretch.
Crash == Live /\ TearDown("crash")

\* The user (the GUI thread) asks for cancellation.
Cancel ==
    /\ Live
    /\ cancelled' = TRUE
    /\ UNCHANGED <<phase, verdict, loop, pc, cand, attempt, result, slots, cap,
                   free, disk, landed, failedAt, run>>

\* The same tasks are executed again: a new manager, a new token, the same disk.
RunAgain ==
    /\ phase = "ended"
    /\ run < MaxRuns
    /\ run' = run + 1
    /\ phase' = "running" /\ verdict' = "none" /\ loop' = Idle
    /\ pc' = Everywhere("new")
    /\ cand' = Everywhere(1) /\ attempt' = Everywhere(0)
    /\ result' = Everywhere("none")
    /\ slots' = GlobalLimit
    /\ cap' = [p \in Providers |-> 0] /\ free' = [p \in Providers |-> 0]
    /\ cancelled' = FALSE
    /\ landed' = Everywhere(0) /\ failedAt' = Everywhere({})
    /\ UNCHANGED disk

\* Nothing is left to do.
Rest == phase = "ended" /\ run = MaxRuns /\ UNCHANGED vars

Next ==
    \/ \E t \in Tasks : Step(t)
    \/ Finish \/ Abort \/ Crash \/ Cancel \/ RunAgain \/ Rest

Safety == Init /\ [][Next]_vars

\* The event loop runs every ready coroutine, sleeps and transfers come to an
\* end (connect and read timeouts, maximal number of attempts), and a run whose
\* coroutines are through returns.  Nothing makes the user cancel or run again.
Fairness == (\A t \in Tasks : WF_vars(Step(t))) /\ WF_vars(Finish) /\ WF_vars(Abort)

Spec == Safety /\ Fairness

-----------------------------------------------------------------------------
(* Properties.                                                             *)

TypeOK ==
    /\ phase \in {"running", "aborting", "ended"}
    /\ verdict \in {"none", "completed", "partial", "failed", "cancelled",
                    "error", "crash"}
    /\ loop \in Tasks \cup {Idle}
    /\ pc \in [Tasks -> PCs]
    /\ cand \in [Tasks -> Nat \ {0}]
    /\ \A t \in Tasks : cand[t] <= Len(Chain[t])
    /\ attempt \in [Tasks -> Nat]
    /\ result \in [Tasks -> {"none", "validated", "skipped", "failed", "cancelled"}]
    /\ slots \in Nat
    /\ cap \in [Providers -> Nat] /\ free \in [Providers -> Nat]
    /\ cancelled \in BOOLEAN
    /\ disk \in [Files -> FileStates]
    /\ landed \in [Tasks -> Nat]
    /\ failedAt \in [Tasks -> SUBSET Nat]
    /\ run \in 1..MaxRuns

Working == {t \in Tasks : pc[t] \in InGlobal}
WorkingFor(p) == {t \in Tasks : Provider[t] = p /\ pc[t] \in InProvider}

\* No way through a coroutine (result, exception, cancellation, quiet period)
\* loses a slot or gives one back twice: what the semaphores have left and what
\* the coroutines hold always add up to the limits.
SlotAccounting ==
    /\ slots + Cardinality(Working) = GlobalLimit
    /\ \A p \in Providers : free[p] + Cardinality(WorkingFor(p)) = cap[p]

\* "Hold the provider semaphore during the quiet period so the next file from
\* the same archive cannot start early" (lines 97-98): while a task of an
\* archive with one slot is in its quiet period, no other task of that archive
\* is at work, also not in a backoff or between two candidates.
QuietPeriodExclusive ==
    \A t \in Tasks : pc[t] = "quiet" /\ cap[Provider[t]] = 1
        => WorkingFor(Provider[t]) = {t}

\* What listeners count from the events agrees with the results run() returns:
\* a successful file has exactly one FILE_VALIDATED or FILE_SKIPPED event, a
\* file without success has none, and FILE_FAILED was emitted for exactly the
\* candidates that were given up, each before the next was tried.
EventsMatchResult ==
    \A t \in Tasks :
        /\ landed[t] = IF result[t] \in {"validated", "skipped"} THEN 1 ELSE 0
        /\ failedAt[t] = IF result[t] = "failed" THEN 1..Len(Chain[t])
                         ELSE 1..(cand[t] - 1)

\* The destinations of a task and its fallbacks.
Destinations(t) == {Chain[t][c].file : c \in DOMAIN Chain[t]}

\* A file that was delivered and post-processed stays as it is when the plan is
\* executed again and no task of it may overwrite it, whatever fails, is
\* cancelled or crashes.
DeliveredKept == [][
    \A f \in Files : (disk[f] = "kept" /\ \A t \in Overwrite : f \notin Destinations(t))
        => disk'[f] = "kept"]_vars

\* TASK_COMPLETED is emitted only when every file of the plan, or one of its
\* fallbacks, is in the archive.
CompletedMeansPresent ==
    verdict = "completed" =>
        \A t \in Tasks : \E f \in Destinations(t) : disk[f] # "absent"

\* A run ends: nobody waits for a semaphore for ever, and no retry goes on for ever.
RunEnds == Live ~> ~Live

\* The run as its callers see it.
Outcome(r) == CASE r = "none" -> "pending"
                [] r \in {"validated", "skipped"} -> "ok"
                [] OTHER -> r

Batch == INSTANCE DownloadBatch
    WITH outcome <- [t \in Tasks |-> Outcome(result[t])],
         verdict <- IF verdict = "none" THEN "open" ELSE verdict,
         asked <- cancelled

\* Every step of run() is a step of the abstract batch, or none of its business:
\* an outcome is given once and never changed, only a requested cancellation
\* cancels files or breaks the batch off, and the verdict fits the outcomes.
ImplementsBatchSafety == Batch!Safety

\* run() implements the abstract batch: one final outcome for every file, a
\* verdict that is a function of the outcomes, and an end.
ImplementsBatch == Batch!Spec

\* A result that counts as success stands for a file that passed post-processing.
SuccessMeansProcessed ==
    \A t \in Tasks : result[t] \in {"validated", "skipped"}
        => disk[Remote(t).file] \in {"kept", "restored"}
=============================================================================
