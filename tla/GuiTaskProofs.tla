---------------------------- MODULE GuiTaskProofs ----------------------------
(***************************************************************************)
(* What is proved of a row of the Downloads page for any files, any        *)
(* fallbacks and any interleaving of signals and buttons.                  *)
(***************************************************************************)
EXTENDS GuiTask, SequenceTheorems, FiniteSetTheorems, TLAPS

-----------------------------------------------------------------------------
(* The queue of signals.                                                   *)

LEMMA SignalTypes ==
    /\ \A type \in {"started", "processing", "landed", "failed"}, n \in FileNames :
          FileSignal(type, n) \in Signals
    /\ \A v \in Finals : TaskSignal(v) \in Signals
    /\ \A type \in {"results", "error"} : LastSignal(type) \in Signals
BY DEF Signals, FileSignal, TaskSignal, LastSignal

LEMMA Queued ==
    ASSUME queue \in Seq(Signals), NEW s \in Signals, Emit(s)
    PROVE  /\ queue' \in Seq(Signals) /\ queue' # <<>>
           /\ Len(queue) \in Nat /\ Len(queue') = Len(queue) + 1
           /\ \A i \in 1..Len(queue) : queue'[i] = queue[i]
           /\ queue'[Len(queue')] = s
BY AppendProperties DEF Emit

LEMMA Taken ==
    ASSUME queue \in Seq(Signals), NEW type, Deliver(type)
    PROVE  /\ queue' \in Seq(Signals) /\ queue # <<>>
           /\ Head(queue) \in Signals /\ Head(queue) = queue[1]
           /\ Head(queue).type = type
           /\ Len(queue) \in Nat \ {0} /\ Len(queue') = Len(queue) - 1
           /\ \A i \in 1..Len(queue') : queue'[i] = queue[i + 1]
<1>1. queue # <<>> /\ queue' = Tail(queue) /\ Head(queue).type = type
    BY DEF Deliver
<1>2. Head(queue) = queue[1]
    BY <1>1
<1>3. Len(queue) \in Nat \ {0}
    BY <1>1, EmptySeq
<1> QED BY <1>1, <1>2, <1>3, HeadTailProperties

\* The name a signal of a file carries is one of the plan's.
LEMMA SignalName ==
    ASSUME NEW s \in Signals, s.type \in {"started", "processing", "landed", "failed"}
    PROVE  s.name \in FileNames
BY DEF Signals

LEMMA SignalVerdict ==
    ASSUME NEW s \in Signals, s.type = "task"
    PROVE  s.verdict \in Finals
BY DEF Signals

LEMMA NameType ==
    ASSUME NEW t \in Tasks, cand[t] \in 1..Len(Names[t])
    PROVE  Name(t) \in FileNames
BY DEF Name, FileNames

LEMMA CountType == \A o : HowMany(o) \in Nat
<1> TAKE o
<1>1. {t \in Tasks : outcome[t] = o} \in SUBSET Tasks
    OBVIOUS
<1>2. IsFiniteSet({t \in Tasks : outcome[t] = o})
    BY <1>1, NamesAssumption, FS_Subset
<1> QED BY <1>2, FS_CardinalityType DEF HowMany

\* Nothing is counted exactly when there is nothing.
LEMMA CountZero ==
    ASSUME NEW o
    PROVE  HowMany(o) = 0 <=> \A t \in Tasks : outcome[t] # o
<1>1. {t \in Tasks : outcome[t] = o} \in SUBSET Tasks
    OBVIOUS
<1>2. IsFiniteSet({t \in Tasks : outcome[t] = o})
    BY <1>1, NamesAssumption, FS_Subset
<1>3. HowMany(o) = 0 <=> {t \in Tasks : outcome[t] = o} = {}
    BY <1>2, FS_EmptySet DEF HowMany
<1> QED BY <1>3

-----------------------------------------------------------------------------
(* Types.                                                                  *)

\* The rows' sets are finite: every signal adds one name.
RowType == TypeOK /\ IsFiniteSet(completed) /\ IsFiniteSet(failed)

\* A step of the worker thread that leaves the row alone.
LEMMA WorkerType ==
    ASSUME RowType, UNCHANGED row, queue' \in Seq(Signals),
           outcome' \in [Tasks -> {"pending"} \cup Batch!Outcomes],
           verdict' \in {"open", "error"} \cup Batch!Verdicts, asked' \in BOOLEAN,
           DOMAIN cand' = Tasks, \A t \in Tasks : cand'[t] \in 1..Len(Names[t]),
           stage' \in [Tasks -> {"waiting", "transfer", "process"}],
           worker' \in {"running", "returning", "over", "raised"}
    PROVE  RowType'
BY DEF RowType, TypeOK, row

\* A step of the GUI thread that leaves the batch alone.
LEMMA RowStepType ==
    ASSUME RowType, UNCHANGED <<batch, cand, stage, worker, pressed>>, queue' \in Seq(Signals),
           state' \in {"ready", "downloading", "processing"} \cup Finals,
           completed' \subseteq FileNames, failed' \subseteq FileNames,
           IsFiniteSet(completed'), IsFiniteSet(failed'),
           nCompleted' \in Nat, nFailed' \in Nat
    PROVE  RowType'
BY DEF RowType, TypeOK, batch

LEMMA TypeInit == Init => RowType
<1> SUFFICES ASSUME Init PROVE RowType
    OBVIOUS
<1>1. <<>> \in Seq(Signals)
    OBVIOUS
<1>2. \A t \in Tasks : 1 \in 1..Len(Names[t])
    BY NamesAssumption
<1>3. IsFiniteSet({})
    BY FS_EmptySet
<1> QED BY <1>1, <1>2, <1>3 DEF Init, RowType, TypeOK, Batch!Init

LEMMA WorkerStepType == RowType /\ Worker => RowType'
<1> SUFFICES ASSUME RowType, Worker PROVE RowType'
    OBVIOUS
<1>q. /\ queue \in Seq(Signals)
      /\ \A t \in Tasks : Name(t) \in FileNames /\ Names[t][1] \in FileNames
    <2>1. \A t \in Tasks : 1 \in 1..Len(Names[t])
        BY NamesAssumption
    <2>2. \A t \in Tasks : Names[t][1] \in FileNames
        BY <2>1 DEF FileNames
    <2>3. queue \in Seq(Signals) /\ \A t \in Tasks : cand[t] \in 1..Len(Names[t])
        BY DEF RowType, TypeOK
    <2> QED BY <2>2, <2>3, NameType
<1>1. ASSUME NEW t \in Tasks, Start(t) PROVE RowType'
    <2>1. queue' \in Seq(Signals)
        BY <1>1, <1>q, Queued, SignalTypes DEF Start
    <2> QED BY <1>1, <2>1, WorkerType DEF Start, RowType, TypeOK, batch
<1>2. ASSUME NEW t \in Tasks, Process(t) PROVE RowType'
    <2>1. queue' \in Seq(Signals)
        BY <1>2, <1>q, Queued, SignalTypes DEF Process
    <2> QED BY <1>2, <2>1, WorkerType DEF Process, RowType, TypeOK, batch
<1>3. ASSUME NEW t \in Tasks, GiveUp(t) PROVE RowType'
    <2>1. queue' \in Seq(Signals)
        BY <1>3, <1>q, Queued, SignalTypes DEF GiveUp
    <2>2. DOMAIN cand' = Tasks /\ \A u \in Tasks : cand'[u] \in 1..Len(Names[u])
        BY <1>3, NamesAssumption DEF GiveUp, RowType, TypeOK
    <2> QED BY <1>3, <2>1, <2>2, WorkerType DEF GiveUp, RowType, TypeOK, batch
<1>4. ASSUME NEW t \in Tasks, Land(t) \/ FailLast(t) \/ DropOut(t) PROVE RowType'
    <2>1. queue' \in Seq(Signals)
        BY <1>4, <1>q, Queued, SignalTypes DEF Land, FailLast, DropOut
    <2>2. outcome' \in [Tasks -> {"pending"} \cup Batch!Outcomes]
        BY <1>4 DEF Land, FailLast, DropOut, Batch!Settle, RowType, TypeOK
    <2> QED BY <1>4, <2>1, <2>2, WorkerType
        DEF Land, FailLast, DropOut, Batch!Settle, RowType, TypeOK
<1>5. CASE Close
    <2>1. verdict' \in Batch!Verdicts
        BY <1>5 DEF Close, Batch!Close, Batch!Summary, Batch!Verdicts
    <2>2. queue' \in Seq(Signals)
        BY <1>5, <1>q, <2>1, Queued, SignalTypes DEF Close, Batch!Verdicts, Finals
    <2> QED BY <1>5, <2>1, <2>2, WorkerType
        DEF Close, Batch!Close, RowType, TypeOK
<1>6. CASE Return
    <2>1. queue' \in Seq(Signals)
        BY <1>6, <1>q, Queued, SignalTypes DEF Return
    <2> QED BY <1>6, <2>1, WorkerType DEF Return, RowType, TypeOK, batch
<1>7. CASE BreakOff
    <2>1. queue' \in Seq(Signals)
        BY <1>7, <1>q, Queued, SignalTypes DEF BreakOff
    <2> QED BY <1>7, <2>1, WorkerType DEF BreakOff, Batch!BreakOff, RowType, TypeOK
<1> QED BY <1>1, <1>2, <1>3, <1>4, <1>5, <1>6, <1>7 DEF Worker

LEMMA SignalStepType == RowType /\ OnSignal => RowType'
<1> SUFFICES ASSUME RowType, OnSignal PROVE RowType'
    OBVIOUS
<1>q. queue \in Seq(Signals)
    BY DEF RowType, TypeOK
<1>d. \A type : Deliver(type) =>
        /\ UNCHANGED <<batch, cand, stage, worker, pressed>> /\ queue' \in Seq(Signals)
        /\ Head(queue) \in Signals /\ Head(queue).type = type
    BY <1>q, Taken DEF Deliver
<1>1. CASE OnStarted \/ OnProcessing
    <2>1. /\ UNCHANGED <<batch, cand, stage, worker, pressed>> /\ queue' \in Seq(Signals)
          /\ state' \in {"downloading", "processing"}
          /\ UNCHANGED <<completed, failed, nCompleted, nFailed>>
        BY <1>1, <1>d DEF OnStarted, OnProcessing
    <2> QED BY <2>1, RowStepType DEF RowType, TypeOK
<1>2. CASE OnLanded
    <2> DEFINE n == Head(queue).name
    <2>1. /\ UNCHANGED <<batch, cand, stage, worker, pressed>> /\ queue' \in Seq(Signals)
          /\ n \in FileNames
        BY <1>2, <1>d, SignalName DEF OnLanded
    <2>2. /\ completed' = completed \cup {n} /\ failed' = failed \ {n}
          /\ nCompleted' = Cardinality(completed') /\ nFailed' = Cardinality(failed')
          /\ UNCHANGED state
        BY <1>2 DEF OnLanded
    <2>3. IsFiniteSet(completed') /\ IsFiniteSet(failed')
        BY <2>2, FS_AddElement, FS_RemoveElement DEF RowType
    <2>4. nCompleted' \in Nat /\ nFailed' \in Nat
        BY <2>2, <2>3, FS_CardinalityType
    <2>5. completed' \subseteq FileNames /\ failed' \subseteq FileNames
        BY <2>1, <2>2 DEF RowType, TypeOK
    <2> QED BY <2>1, <2>2, <2>3, <2>4, <2>5, RowStepType DEF RowType, TypeOK
<1>3. CASE OnFailed
    <2> DEFINE n == Head(queue).name
    <2>1. /\ UNCHANGED <<batch, cand, stage, worker, pressed>> /\ queue' \in Seq(Signals)
          /\ n \in FileNames
        BY <1>3, <1>d, SignalName DEF OnFailed
    <2>2. /\ failed' = failed \cup {n} /\ nFailed' = Cardinality(failed')
          /\ UNCHANGED <<state, completed, nCompleted>>
        BY <1>3 DEF OnFailed
    <2>3. IsFiniteSet(failed')
        BY <2>2, FS_AddElement DEF RowType
    <2>4. nFailed' \in Nat
        BY <2>2, <2>3, FS_CardinalityType
    <2>5. failed' \subseteq FileNames
        BY <2>1, <2>2 DEF RowType, TypeOK
    <2> QED BY <2>1, <2>2, <2>3, <2>4, <2>5, RowStepType DEF RowType, TypeOK
<1>4. CASE OnTask
    <2>1. /\ UNCHANGED <<batch, cand, stage, worker, pressed>> /\ queue' \in Seq(Signals)
          /\ state' \in Finals
        BY <1>4, <1>d, SignalVerdict DEF OnTask
    <2>2. nCompleted' \in Nat
        BY <1>4, CountType DEF OnTask, RowType, TypeOK
    <2> QED BY <1>4, <2>1, <2>2, RowStepType DEF OnTask, RowType, TypeOK
<1>5. CASE OnResults
    <2>1. UNCHANGED <<batch, cand, stage, worker, pressed>> /\ queue' \in Seq(Signals)
        BY <1>5, <1>d DEF OnResults
    <2>2. nCompleted' \in Nat /\ nFailed' \in Nat
        BY <1>5, CountType DEF OnResults, RowType, TypeOK
    <2>3. state' \in Finals
        BY <1>5 DEF OnResults, Finals
    <2> QED BY <1>5, <2>1, <2>2, <2>3, RowStepType DEF OnResults, RowType, TypeOK
<1>6. CASE OnError
    <2>1. UNCHANGED <<batch, cand, stage, worker, pressed>> /\ queue' \in Seq(Signals)
        BY <1>6, <1>d DEF OnError
    <2> QED BY <1>6, <2>1, RowStepType DEF OnError, RowType, TypeOK, Finals
<1> QED BY <1>1, <1>2, <1>3, <1>4, <1>5, <1>6 DEF OnSignal

LEMMA TypeStep == RowType /\ [Next]_vars => RowType'
<1> SUFFICES ASSUME RowType, [Next]_vars PROVE RowType'
    OBVIOUS
<1>1. CASE Cancel
    BY <1>1 DEF Cancel, RowType, TypeOK, Finals
<1>2. CASE Retry
    BY <1>2, FS_EmptySet DEF Retry, RowType, TypeOK, batch
<1>3. CASE UNCHANGED vars
    BY <1>3 DEF vars, batch, row, RowType, TypeOK
<1> QED BY <1>1, <1>2, <1>3, WorkerStepType, SignalStepType DEF Next, Done

LEMMA RowTypeInvariant == Safety => []RowType
BY TypeInit, TypeStep, PTL DEF Safety

\* No interleaving of signals, Cancel and Retry makes a row ill-typed: its sets
\* hold names of the plan, its numbers never go below zero.
THEOREM RowTypeCorrect == Safety => []TypeOK
BY RowTypeInvariant, PTL DEF RowType

-----------------------------------------------------------------------------
(* What the row says.                                                      *)

\* The worker thread runs exactly as long as the batch is open, and returns when
\* every file has its result.
WorkerAndBatch ==
    /\ worker = "running" <=> verdict = "open"
    /\ worker = "returning" => verdict \in Batch!Verdicts
    /\ verdict \in Batch!Verdicts =>
          /\ \A t \in Tasks : outcome[t] # "pending"
          /\ verdict = Batch!Summary(outcome)

\* A signal that says something of the results is only sent when it is true.
SignalsTrue ==
    \A i \in 1..Len(queue) :
        /\ queue[i].type \in {"task", "results"} => verdict \in Batch!Verdicts
        /\ queue[i].type = "task" => queue[i].verdict = verdict

\* When the worker is through, the signal that says how is the last one in the queue.
LastAtEnd ==
    queue # <<>> =>
        /\ worker = "over" => queue[Len(queue)].type = "results"
        /\ worker = "raised" => queue[Len(queue)].type = "error"

\* A row says CANCELLED of a batch that was, or because the user said so.
CancelledTrue == state = "cancelled" => pressed \/ verdict = "cancelled"

RestTells == AtRest => RowTellsEnding

RowTrue ==
    /\ WorkerAndBatch /\ SignalsTrue /\ LastAtEnd /\ CancelledTrue /\ RestTells
    /\ NothingInProgressAtRest /\ CompletedIsTrue /\ CountsOfResults

\* What a verdict says of the files.
LEMMA VerdictTrue ==
    ASSUME TypeOK, WorkerAndBatch, verdict \in Batch!Verdicts
    PROVE  /\ verdict = "cancelled" <=> \E t \in Tasks : outcome[t] = "cancelled"
           /\ verdict = "completed" <=> \A t \in Tasks : outcome[t] = "ok"
<1>1. \A t \in Tasks : outcome[t] \in Batch!Outcomes
    BY DEF TypeOK, WorkerAndBatch
<1>2. verdict = Batch!Summary(outcome)
    BY DEF WorkerAndBatch
<1> QED BY <1>1, <1>2 DEF Batch!Summary, Batch!Outcomes

\* What a step of the worker thread that emits a signal keeps.
LEMMA EmitKeeps ==
    ASSUME TypeOK, RowTrue, UNCHANGED row, WorkerAndBatch',
           \A t \in Tasks : outcome[t] # "pending" => outcome'[t] = outcome[t],
           NEW s \in Signals, Emit(s),
           verdict \in Batch!Verdicts => verdict' = verdict,
           s.type \in {"task", "results"} => verdict' \in Batch!Verdicts,
           s.type = "task" => s.verdict = verdict',
           verdict = "cancelled" => verdict \in Batch!Verdicts,
           worker' = "over" => s.type = "results",
           worker' = "raised" => s.type = "error"
    PROVE  RowTrue'
<1>1. /\ queue' # <<>> /\ queue'[Len(queue')] = s
      /\ Len(queue) \in Nat /\ Len(queue') = Len(queue) + 1
      /\ \A i \in 1..Len(queue) : queue'[i] = queue[i]
    BY Queued DEF TypeOK
<1>2. (\A t \in Tasks : outcome[t] = "ok") => \A t \in Tasks : outcome'[t] = "ok"
    OBVIOUS
<1>3. SignalsTrue'
    <2> SUFFICES ASSUME NEW i \in 1..Len(queue')
                 PROVE  /\ queue'[i].type \in {"task", "results"} =>
                              verdict' \in Batch!Verdicts
                        /\ queue'[i].type = "task" => queue'[i].verdict = verdict'
        BY DEF SignalsTrue, Batch!Verdicts
    <2>1. CASE i = Len(queue')
        BY <1>1, <2>1
    <2>2. CASE i # Len(queue')
        <3>1. i \in 1..Len(queue) /\ queue'[i] = queue[i]
            BY <1>1, <2>2
        <3>2. queue'[i].type \in {"task", "results"} => verdict' \in Batch!Verdicts
            BY <3>1 DEF RowTrue, SignalsTrue
        <3>3. queue[i].type = "task" => queue[i].verdict = verdict /\ verdict' = verdict
            BY <3>1 DEF RowTrue, SignalsTrue
        <3> QED BY <3>1, <3>2, <3>3
    <2> QED BY <2>1, <2>2
<1>4. LastAtEnd'
    BY <1>1 DEF LastAtEnd
<1>5. NothingInProgressAtRest' /\ CountsOfResults' /\ RestTells'
    BY <1>1 DEF NothingInProgressAtRest, CountsOfResults, RestTells, AtRest
<1>6. CompletedIsTrue' /\ CancelledTrue'
    BY <1>2 DEF row, RowTrue, CompletedIsTrue, CancelledTrue
<1> QED BY <1>3, <1>4, <1>5, <1>6 DEF RowTrue

LEMMA WorkerKeepsRowTrue == RowType /\ RowTrue /\ Worker => RowTrue'
<1> SUFFICES ASSUME RowType, RowTrue, Worker PROVE RowTrue'
    OBVIOUS
<1>t. TypeOK
    BY DEF RowType
<1>n. \A t \in Tasks : Name(t) \in FileNames
    BY <1>t, NameType DEF TypeOK
<1>w. WorkerAndBatch
    BY DEF RowTrue
<1>1. ASSUME NEW t \in Tasks, Start(t) \/ Process(t) \/ GiveUp(t) PROVE RowTrue'
    <2>1. PICK type \in {"started", "processing", "failed"} : Emit(FileSignal(type, Name(t)))
        BY <1>1 DEF Start, Process, GiveUp
    <2>2. UNCHANGED <<batch, worker, row>> /\ verdict = "open"
        BY <1>1 DEF Start, Process, GiveUp, AtWork
    <2>3. WorkerAndBatch' /\ worker' \notin {"over", "raised"}
        BY <1>w, <2>2 DEF WorkerAndBatch, batch, Batch!Verdicts
    <2>4. /\ FileSignal(type, Name(t)) \in Signals
          /\ FileSignal(type, Name(t)).type \notin {"task", "results"}
        BY <1>n, SignalTypes DEF FileSignal
    <2> QED BY <1>t, <2>1, <2>2, <2>3, <2>4, EmitKeeps DEF batch
<1>2. ASSUME NEW t \in Tasks, Land(t) \/ FailLast(t) PROVE RowTrue'
    <2>1. PICK type \in {"landed", "failed"} : Emit(FileSignal(type, Name(t)))
        BY <1>2 DEF Land, FailLast
    <2>2. /\ UNCHANGED <<verdict, worker, row>> /\ verdict = "open"
          /\ \A u \in Tasks : outcome[u] # "pending" => outcome'[u] = outcome[u]
        BY <1>2, <1>t DEF Land, FailLast, Batch!Settle, TypeOK
    <2>3. WorkerAndBatch' /\ worker' \notin {"over", "raised"}
        BY <1>w, <2>2 DEF WorkerAndBatch, Batch!Verdicts
    <2>4. /\ FileSignal(type, Name(t)) \in Signals
          /\ FileSignal(type, Name(t)).type \notin {"task", "results"}
        BY <1>n, SignalTypes DEF FileSignal
    <2> QED BY <1>t, <2>1, <2>2, <2>3, <2>4, EmitKeeps
<1>3. ASSUME NEW t \in Tasks, DropOut(t) PROVE RowTrue'
    <2>1. /\ UNCHANGED <<verdict, worker, queue, row>> /\ verdict = "open"
          /\ \A u \in Tasks : outcome[u] # "pending" => outcome'[u] = outcome[u]
        BY <1>3, <1>t DEF DropOut, Batch!Settle, TypeOK
    <2>2. WorkerAndBatch' /\ worker' = "running"
        BY <1>w, <2>1 DEF WorkerAndBatch, Batch!Verdicts
    <2>3. SignalsTrue' /\ LastAtEnd'
        BY <2>1, <2>2 DEF RowTrue, SignalsTrue, LastAtEnd
    <2>4. NothingInProgressAtRest' /\ CountsOfResults' /\ RestTells'
        BY <2>2 DEF NothingInProgressAtRest, CountsOfResults, RestTells, AtRest
    <2>5. CompletedIsTrue' /\ CancelledTrue'
        BY <2>1 DEF row, RowTrue, CompletedIsTrue, CancelledTrue
    <2> QED BY <2>2, <2>3, <2>4, <2>5 DEF RowTrue
<1>4. CASE Close
    <2>1. /\ UNCHANGED <<outcome, row>> /\ worker' = "returning" /\ verdict = "open"
          /\ verdict' = Batch!Summary(outcome) /\ Emit(TaskSignal(verdict'))
          /\ \A t \in Tasks : outcome[t] # "pending"
        BY <1>4 DEF Close, Batch!Close
    <2>2. verdict' \in Batch!Verdicts
        BY <2>1 DEF Batch!Summary, Batch!Verdicts
    <2>3. TaskSignal(verdict').type = "task"
        BY DEF TaskSignal
    <2>4. WorkerAndBatch'
        BY <2>1, <2>2 DEF WorkerAndBatch, Batch!Verdicts
    <2>5. /\ TaskSignal(verdict') \in Signals /\ TaskSignal(verdict').verdict = verdict'
          /\ verdict \notin Batch!Verdicts
        BY <2>1, <2>2, SignalTypes DEF Batch!Verdicts, Finals, TaskSignal
    <2> QED BY <1>t, <2>1, <2>2, <2>3, <2>4, <2>5, EmitKeeps
<1>5. CASE Return
    <2>1. PICK type \in {"results", "error"} :
              /\ Emit(LastSignal(type))
              /\ worker' = IF type = "results" THEN "over" ELSE "raised"
        BY <1>5 DEF Return
    <2>2. UNCHANGED <<batch, row>> /\ worker = "returning"
        BY <1>5 DEF Return
    <2>3. WorkerAndBatch' /\ verdict' \in Batch!Verdicts
        BY <1>w, <2>1, <2>2 DEF WorkerAndBatch, batch
    <2>4. LastSignal(type) \in Signals /\ LastSignal(type).type = type
        BY SignalTypes DEF LastSignal
    <2> QED BY <1>t, <2>1, <2>2, <2>3, <2>4, EmitKeeps DEF batch
<1>6. CASE BreakOff
    <2>1. /\ UNCHANGED <<outcome, row>> /\ verdict = "open" /\ verdict' = "error"
          /\ worker' = "raised" /\ Emit(LastSignal("error"))
        BY <1>6 DEF BreakOff, Batch!BreakOff
    <2>2. WorkerAndBatch' /\ verdict \notin Batch!Verdicts
        BY <2>1 DEF WorkerAndBatch, Batch!Verdicts
    <2>3. LastSignal("error") \in Signals /\ LastSignal("error").type = "error"
        BY SignalTypes DEF LastSignal
    <2> QED BY <1>t, <2>1, <2>2, <2>3, EmitKeeps
<1> QED BY <1>1, <1>2, <1>3, <1>4, <1>5, <1>6 DEF Worker

\* What the delivery of a signal keeps, whatever it does to the row: only the
\* last signal of a worker that is through leaves the queue empty.
LEMMA DeliveryKeeps ==
    ASSUME TypeOK, RowTrue, NEW type, Deliver(type)
    PROVE  /\ WorkerAndBatch' /\ SignalsTrue' /\ LastAtEnd'
           /\ AtRest' => /\ type \in {"results", "error"}
                         /\ worker' = IF type = "results" THEN "over" ELSE "raised"
           /\ type \in {"task", "results"} => verdict \in Batch!Verdicts
           /\ type = "task" => Head(queue).verdict = verdict
           /\ UNCHANGED <<outcome, verdict, worker, pressed>>
<1>1. /\ UNCHANGED <<outcome, verdict, worker, pressed>>
      /\ queue # <<>> /\ Head(queue) = queue[1] /\ Head(queue).type = type
      /\ queue' \in Seq(Signals)
      /\ Len(queue) \in Nat \ {0} /\ Len(queue') = Len(queue) - 1
      /\ \A i \in 1..Len(queue') : queue'[i] = queue[i + 1]
    BY Taken DEF TypeOK, Deliver, batch
<1>2. 1 \in 1..Len(queue) /\ \A i \in 1..Len(queue') : i + 1 \in 1..Len(queue)
    BY <1>1
<1>3. WorkerAndBatch'
    BY <1>1 DEF RowTrue, WorkerAndBatch, Batch!Verdicts
<1>4. SignalsTrue'
    BY <1>1, <1>2 DEF RowTrue, SignalsTrue, Batch!Verdicts
<1>5. LastAtEnd'
    <2>1. queue' # <<>> => Len(queue') \in 1..Len(queue')
        BY <1>1, EmptySeq
    <2>2. queue' # <<>> => queue'[Len(queue')] = queue[Len(queue)]
        BY <1>1, <2>1
    <2> QED BY <1>1, <2>2 DEF RowTrue, LastAtEnd
<1>6. AtRest' => /\ type \in {"results", "error"}
                 /\ worker' = IF type = "results" THEN "over" ELSE "raised"
    <2>1. queue' = <<>> => Len(queue) = 1
        BY <1>1
    <2> QED BY <1>1, <2>1 DEF AtRest, RowTrue, LastAtEnd
<1>7. /\ type \in {"task", "results"} => verdict \in Batch!Verdicts
      /\ type = "task" => Head(queue).verdict = verdict
    BY <1>1, <1>2 DEF RowTrue, SignalsTrue
<1> QED BY <1>1, <1>3, <1>4, <1>5, <1>6, <1>7

LEMMA SignalKeepsRowTrue == RowType /\ RowTrue /\ OnSignal => RowTrue'
<1> SUFFICES ASSUME RowType, RowTrue, OnSignal PROVE RowTrue'
    OBVIOUS
<1>t. TypeOK
    BY DEF RowType
\* A signal of a file: the worker is not at rest behind it.
<1>1. CASE OnStarted \/ OnProcessing \/ OnLanded \/ OnFailed
    <2>1. PICK type \in {"started", "processing", "landed", "failed"} : Deliver(type)
        BY <1>1 DEF OnStarted, OnProcessing, OnLanded, OnFailed
    <2>2. state' = state \/ state' \in {"downloading", "processing"}
        BY <1>1 DEF OnStarted, OnProcessing, OnLanded, OnFailed
    <2>3. /\ WorkerAndBatch' /\ SignalsTrue' /\ LastAtEnd' /\ ~AtRest'
          /\ UNCHANGED <<outcome, verdict, pressed>>
        BY <1>t, <2>1, DeliveryKeeps
    <2>4. CompletedIsTrue' /\ CancelledTrue'
        BY <2>2, <2>3 DEF RowTrue, CompletedIsTrue, CancelledTrue
    <2> QED BY <2>3, <2>4
        DEF RowTrue, NothingInProgressAtRest, CountsOfResults, RestTells
<1>2. CASE OnTask
    <2>1. Deliver("task") /\ state' = Head(queue).verdict
        BY <1>2 DEF OnTask
    <2>2. /\ WorkerAndBatch' /\ SignalsTrue' /\ LastAtEnd' /\ ~AtRest'
          /\ state' = verdict /\ verdict \in Batch!Verdicts
          /\ UNCHANGED <<outcome, verdict>>
        BY <1>t, <2>1, DeliveryKeeps
    <2>3. CompletedIsTrue' /\ CancelledTrue'
        BY <1>t, <2>2, VerdictTrue DEF RowTrue, CompletedIsTrue, CancelledTrue
    <2> QED BY <2>2, <2>3
        DEF RowTrue, NothingInProgressAtRest, CountsOfResults, RestTells
<1>3. CASE OnResults
    <2>1. Deliver("results")
        BY <1>3 DEF OnResults
    <2>2. /\ WorkerAndBatch' /\ SignalsTrue' /\ LastAtEnd'
          /\ verdict \in Batch!Verdicts
          /\ UNCHANGED <<outcome, verdict, pressed>>
          /\ AtRest' => worker' = "over"
        BY <1>t, <2>1, DeliveryKeeps
    <2>v. /\ verdict = "cancelled" <=> \E t \in Tasks : outcome[t] = "cancelled"
          /\ verdict = "completed" <=> \A t \in Tasks : outcome[t] = "ok"
        BY <1>t, <2>2, VerdictTrue DEF RowTrue
    <2>3. CASE state = "cancelled" /\ state' = state
        <3>1. CancelledTrue'
            BY <2>2, <2>3 DEF RowTrue, CancelledTrue
        <3>2. RestTells'
            BY <2>2, <2>3, <3>1 DEF RestTells, RowTellsEnding, Ending, CancelledTrue
        <3> QED BY <2>2, <2>3, <3>1, <3>2
            DEF RowTrue, NothingInProgressAtRest, CompletedIsTrue, CountsOfResults
    <2>4. CASE /\ nCompleted' = HowMany("ok") /\ nFailed' = HowMany("failed")
               /\ state' = IF HowMany("cancelled") > 0 THEN "cancelled"
                           ELSE IF nFailed' > 0 THEN "partial" ELSE "completed"
        <3>1. nCompleted' = HowMany("ok")' /\ nFailed' = HowMany("failed")'
            BY <2>2, <2>4 DEF HowMany
        <3>2. /\ HowMany("cancelled") > 0 <=> \E t \in Tasks : outcome[t] = "cancelled"
              /\ HowMany("failed") > 0 <=> \E t \in Tasks : outcome[t] = "failed"
            <4>1. HowMany("cancelled") \in Nat /\ HowMany("failed") \in Nat
                BY CountType
            <4>2. /\ HowMany("cancelled") = 0 <=> \A t \in Tasks : outcome[t] # "cancelled"
                  /\ HowMany("failed") = 0 <=> \A t \in Tasks : outcome[t] # "failed"
                BY CountZero
            <4> QED BY <4>1, <4>2
        <3>3. \A t \in Tasks : outcome[t] \in {"ok", "failed", "cancelled"}
            BY <1>t, <2>2 DEF RowTrue, WorkerAndBatch, TypeOK, Batch!Outcomes
        <3>4. state' = IF verdict = "failed" THEN "partial" ELSE verdict
            <4>1. CASE \E t \in Tasks : outcome[t] = "cancelled"
                BY <2>4, <2>v, <3>2, <4>1
            <4>2. CASE /\ \A t \in Tasks : outcome[t] # "cancelled"
                       /\ \E t \in Tasks : outcome[t] = "failed"
                BY <2>2, <2>4, <2>v, <3>2, <4>2 DEF Batch!Verdicts
            <4>3. CASE \A t \in Tasks : outcome[t] \notin {"cancelled", "failed"}
                BY <2>4, <2>v, <3>2, <3>3, <4>3
            <4> QED BY <4>1, <4>2, <4>3
        <3>5. CompletedIsTrue' /\ CancelledTrue'
            BY <2>2, <2>v, <3>4 DEF CompletedIsTrue, CancelledTrue
        <3>6. NothingInProgressAtRest'
            BY <2>4 DEF NothingInProgressAtRest
        <3>7. RestTells'
            BY <2>2, <3>4 DEF RestTells, RowTellsEnding, Ending
        <3> QED BY <2>2, <3>1, <3>5, <3>6, <3>7 DEF RowTrue, CountsOfResults
    <2> QED BY <1>3, <2>3, <2>4 DEF OnResults
<1>4. CASE OnError
    <2>1. Deliver("error") /\ state' = "failed"
        BY <1>4 DEF OnError
    <2>2. /\ WorkerAndBatch' /\ SignalsTrue' /\ LastAtEnd'
          /\ AtRest' => worker' = "raised"
        BY <1>t, <2>1, DeliveryKeeps
    <2>3. CancelledTrue' /\ RestTells'
        BY <2>1, <2>2 DEF CancelledTrue, RestTells, RowTellsEnding, Ending
    <2> QED BY <2>1, <2>2, <2>3
        DEF RowTrue, NothingInProgressAtRest, CompletedIsTrue, CountsOfResults
<1> QED BY <1>1, <1>2, <1>3, <1>4 DEF OnSignal

LEMMA RowTrueStep == RowType /\ RowTrue /\ [Next]_vars => RowTrue'
<1> SUFFICES ASSUME RowType, RowTrue, [Next]_vars PROVE RowTrue'
    OBVIOUS
\* The buttons change neither the batch nor the queue.
<1>1. CASE Cancel \/ Retry
    <2>1. /\ UNCHANGED <<outcome, verdict, worker, queue>>
          /\ state' \in {"ready", "cancelled"} /\ pressed'
        BY <1>1 DEF Cancel, Retry, batch
    <2>2. WorkerAndBatch' /\ SignalsTrue' /\ LastAtEnd'
        BY <2>1 DEF RowTrue, WorkerAndBatch, SignalsTrue, LastAtEnd, Batch!Verdicts
    <2>3. CancelledTrue' /\ RestTells'
        BY <2>1 DEF CancelledTrue, RestTells, RowTellsEnding
    <2> QED BY <2>1, <2>2, <2>3
        DEF RowTrue, NothingInProgressAtRest, CompletedIsTrue, CountsOfResults
<1>2. CASE UNCHANGED vars
    <2>1. UNCHANGED <<outcome, verdict, worker, queue, state, pressed,
                      nCompleted, nFailed>>
        BY <1>2 DEF vars, batch, row
    <2>2. HowMany("ok")' = HowMany("ok") /\ HowMany("failed")' = HowMany("failed")
        BY <2>1 DEF HowMany
    <2> QED BY <2>1, <2>2
        DEF RowTrue, WorkerAndBatch, SignalsTrue, LastAtEnd, Batch!Verdicts, AtRest,
            CancelledTrue, RestTells, RowTellsEnding, Ending,
            NothingInProgressAtRest, CompletedIsTrue, CountsOfResults
<1> QED BY <1>1, <1>2, WorkerKeepsRowTrue, SignalKeepsRowTrue DEF Next, Done

LEMMA RowTrueInit == Init => RowTrue
<1> SUFFICES ASSUME Init PROVE RowTrue
    OBVIOUS
<1>1. /\ worker = "running" /\ verdict = "open" /\ queue = <<>>
      /\ state = "downloading"
    BY DEF Init, Batch!Init
<1>2. 1..Len(queue) = {}
    BY <1>1
<1> QED BY <1>1, <1>2
    DEF RowTrue, WorkerAndBatch, SignalsTrue, LastAtEnd, Batch!Verdicts, AtRest,
        CancelledTrue, RestTells,
        NothingInProgressAtRest, CompletedIsTrue, CountsOfResults

LEMMA RowTrueInvariant == Safety => []RowTrue
BY RowTypeInvariant, RowTrueInit, RowTrueStep, PTL DEF Safety

\* Whatever the user presses while signals are on their way: a row whose worker
\* is through and whose signals are delivered is not in progress.
THEOREM RestIsFinal == Safety => []NothingInProgressAtRest
BY RowTrueInvariant, PTL DEF RowTrue

\* Whatever the user presses while signals are on their way: COMPLETED is never
\* said of a plan of which a file failed, was cancelled or is not through.
THEOREM CompletedNeverLies == Safety => []CompletedIsTrue
BY RowTrueInvariant, PTL DEF RowTrue

\* The numbers of a finished row are those of the results, although a fallback
\* with another name is counted as another file while it is downloaded.
THEOREM CountsAreOfResults == Safety => []CountsOfResults
BY RowTrueInvariant, PTL DEF RowTrue

\* A row at rest tells how its batch ended, for any plan: COMPLETED, PARTIAL or
\* CANCELLED as the results say, FAILED after an error; CANCELLED and READY of
\* another ending only when the user pressed a button.
THEOREM RestTellsEnding == Safety => [](AtRest => RowTellsEnding)
BY RowTrueInvariant, PTL DEF RowTrue, RestTells
=============================================================================
