----------------------- MODULE DownloadManagerProofs -----------------------
(***************************************************************************)
(* What is proved of DownloadManager for every plan, every setting and     *)
(* every number of executions.                                             *)
(***************************************************************************)
EXTENDS DownloadManager, FiniteSetTheorems, TLAPS

USE DEF Idle

\* The limits are positive, whatever the settings and the metadata say.
LEMMA LimitsPositive ==
    /\ GlobalLimit \in Nat \ {0}
    /\ \A t \in Tasks : TaskLimit(t) \in Nat \ {0}
<1>1. GlobalLimit \in Nat \ {0}
    BY SettingsAssumption DEF GlobalLimit, Max2, Min2
<1>2. PerProviderLimit \in Nat \ {0}
    BY <1>1, SettingsAssumption DEF PerProviderLimit, Max2, Min2
<1>3. ASSUME NEW t \in Tasks PROVE TaskLimit(t) \in Nat \ {0}
    <2>1. t \in DOMAIN Limit => Limit[t] \in Nat
        BY PlanAssumption
    <2> QED BY <1>2, <2>1 DEF TaskLimit, Max2, Min2
<1> QED BY <1>1, <1>3

\* The remote a task is trying is one of the plan's.
LEMMA RemoteType ==
    ASSUME TypeOK, NEW t \in Tasks
    PROVE  /\ Len(Chain[t]) \in Nat \ {0}
           /\ cand[t] \in 1..Len(Chain[t])
           /\ Remote(t) \in Remotes
           /\ Remote(t).file \in Files
<1>1. Chain[t] \in Seq(Remotes) /\ Chain[t] # <<>>
    BY PlanAssumption
<1>2. Len(Chain[t]) \in Nat \ {0}
    BY <1>1
<1>3. cand[t] \in 1..Len(Chain[t])
    BY <1>2 DEF TypeOK
<1>4. Remote(t) \in Remotes
    BY <1>1, <1>2, <1>3 DEF Remote
<1> QED BY <1>2, <1>3, <1>4 DEF Remotes

-----------------------------------------------------------------------------
(* Type correctness.                                                       *)

LEMMA SettleType ==
    ASSUME TypeOK, NEW t \in Tasks,
           NEW r \in {"validated", "skipped", "failed", "cancelled"}, Settle(t, r)
    PROVE  /\ result' \in [Tasks -> {"none", "validated", "skipped", "failed", "cancelled"}]
           /\ loop' \in Tasks \cup {Idle}
           /\ pc' \in [Tasks -> PCs]
           /\ slots' \in Nat
           /\ free' \in [Providers -> Nat]
<1>1. result' \in [Tasks -> {"none", "validated", "skipped", "failed", "cancelled"}]
    BY DEF TypeOK, Settle
<1>2. loop' \in Tasks \cup {Idle}
    BY DEF Settle
<1>3. pc' \in [Tasks -> PCs]
    BY DEF TypeOK, Settle, PCs, InGlobal, InProvider
<1>4. Provider[t] \in Providers
    BY PlanAssumption
<1>5. slots' \in Nat
    BY DEF TypeOK, Settle, Release
<1>6. free' \in [Providers -> Nat]
    <2>1. free \in [Providers -> Nat]
        BY DEF TypeOK
    <2>2. CASE UNCHANGED free
        BY <2>1, <2>2
    <2>3. CASE Release(t)
        BY <1>4, <2>1, <2>3 DEF Release
    <2> QED BY <2>2, <2>3 DEF Settle
<1> QED BY <1>1, <1>2, <1>3, <1>5, <1>6

LEMMA FailType ==
    ASSUME TypeOK, NEW t \in Tasks, FailCandidate(t)
    PROVE  /\ result' \in [Tasks -> {"none", "validated", "skipped", "failed", "cancelled"}]
           /\ loop' \in Tasks \cup {Idle}
           /\ pc' \in [Tasks -> PCs]
           /\ slots' \in Nat
           /\ free' \in [Providers -> Nat]
           /\ cand' \in [Tasks -> Nat \ {0}]
           /\ \A u \in Tasks : cand'[u] <= Len(Chain[u])
           /\ failedAt' \in [Tasks -> SUBSET Nat]
<1>1. Len(Chain[t]) \in Nat \ {0} /\ cand[t] \in Nat \ {0}
    BY RemoteType
<1>2. failedAt' \in [Tasks -> SUBSET Nat]
    BY <1>1 DEF TypeOK, FailCandidate
<1>3. CASE /\ cand[t] < Len(Chain[t])
           /\ cand' = [cand EXCEPT ![t] = @ + 1]
           /\ pc' = [pc EXCEPT ![t] = "candidate"]
           /\ loop' = t
           /\ UNCHANGED <<result, slots, free>>
    <2>1. \A u \in Tasks : cand'[u] <= Len(Chain[u])
        BY <1>1, <1>3 DEF TypeOK
    <2> QED BY <1>1, <1>2, <1>3, <2>1 DEF TypeOK, PCs, InGlobal, InProvider
<1>4. CASE Settle(t, "failed") /\ UNCHANGED cand
    BY <1>2, <1>4, SettleType DEF TypeOK
<1> QED BY <1>3, <1>4 DEF FailCandidate

LEMMA RetryType ==
    ASSUME TypeOK, NEW t \in Tasks, RetryOrFail(t)
    PROVE  /\ result' \in [Tasks -> {"none", "validated", "skipped", "failed", "cancelled"}]
           /\ loop' \in Tasks \cup {Idle}
           /\ pc' \in [Tasks -> PCs]
           /\ slots' \in Nat
           /\ free' \in [Providers -> Nat]
           /\ cand' \in [Tasks -> Nat \ {0}]
           /\ \A u \in Tasks : cand'[u] <= Len(Chain[u])
           /\ failedAt' \in [Tasks -> SUBSET Nat]
<1>1. CASE FailCandidate(t)
    BY <1>1, FailType
<1>2. CASE /\ pc' = [pc EXCEPT ![t] = "backoff"]
           /\ loop' = Idle
           /\ UNCHANGED <<cand, result, slots, free, failedAt>>
    BY <1>2 DEF TypeOK, PCs, InGlobal, InProvider
<1> QED BY <1>1, <1>2 DEF RetryOrFail

\* Every step keeps the types.
LEMMA TypeStep == TypeOK /\ [Next]_vars => TypeOK'
<1> SUFFICES ASSUME TypeOK, [Next]_vars PROVE TypeOK'
    OBVIOUS
<1>1. ASSUME NEW t \in Tasks, Step(t) PROVE TypeOK'
    <2> USE <1>1
    <2>p. Provider[t] \in Providers
        BY PlanAssumption
    <2>r. Remote(t).file \in Files
        BY RemoteType
    <2>1. CASE Enter(t)
        <3>1. cap' \in [Providers -> Nat] /\ free' \in [Providers -> Nat]
            BY <2>1, <2>p, LimitsPositive DEF TypeOK, Enter
        <3> QED BY <2>1, <3>1 DEF TypeOK, Enter, PCs, InGlobal, InProvider
    <2>2. CASE AcquireGlobal(t)
        BY <2>2 DEF TypeOK, AcquireGlobal, PCs, InGlobal, InProvider
    <2>3. CASE AcquireProvider(t)
        <3>a. free \in [Providers -> Nat] /\ free[Provider[t]] \in Nat \ {0}
            BY <2>3, <2>p DEF TypeOK, AcquireProvider
        <3>b. \/ UNCHANGED free
              \/ free' = [free EXCEPT ![Provider[t]] = @ - 1]
            BY <2>3 DEF AcquireProvider
        <3>1. free' \in [Providers -> Nat]
            BY <2>p, <3>a, <3>b
        <3>2. slots' \in Nat
            BY <2>3 DEF TypeOK, AcquireProvider
        <3>3. loop' \in Tasks \cup {Idle}
            BY <2>3 DEF TypeOK, AcquireProvider
        <3>4. pc' \in [Tasks -> PCs]
            BY <2>3 DEF TypeOK, AcquireProvider, PCs, InGlobal, InProvider
        <3>5. result' \in [Tasks -> {"none", "validated", "skipped", "failed", "cancelled"}]
            BY <2>3 DEF TypeOK, AcquireProvider
        <3> QED BY <2>3, <3>1, <3>2, <3>3, <3>4, <3>5 DEF TypeOK, AcquireProvider
    <2>4. CASE CandidateRaises(t)
        <3>1. free' \in [Providers -> Nat] /\ slots' \in Nat
            BY <2>4, <2>p DEF TypeOK, CandidateRaises, Release
        <3> QED BY <2>4, <3>1 DEF TypeOK, CandidateRaises, PCs, InGlobal, InProvider
    <2>5. CASE SkipExisting(t)
        <3>1. Settle(t, "skipped")
            BY <2>5 DEF SkipExisting
        <3>2. landed' \in [Tasks -> Nat]
            BY <2>5 DEF TypeOK, SkipExisting
        <3> QED BY <2>5, <3>1, <3>2, SettleType DEF TypeOK, SkipExisting
    <2>6. CASE StartTransfer(t)
        BY <2>6 DEF TypeOK, StartTransfer, PCs, InGlobal, InProvider
    <2>7. CASE TransferSucceeds(t)
        <3>1. disk' \in [Files -> FileStates]
            BY <2>7, <2>r DEF TypeOK, TransferSucceeds, FileStates
        <3> QED BY <2>7, <3>1 DEF TypeOK, TransferSucceeds, PCs, InGlobal, InProvider
    <2>8. CASE TransferFails(t)
        <3> DEFINE Rest1 == UNCHANGED <<phase, verdict, attempt, cap, cancelled,
                                        disk, landed, run>>
        <3>1. Rest1
            BY <2>8 DEF TransferFails
        <3>2. CASE Settle(t, "cancelled") /\ UNCHANGED <<cand, failedAt>>
            BY <3>1, <3>2, SettleType DEF TypeOK
        <3>3. CASE FailCandidate(t)
            BY <3>1, <3>3, FailType DEF TypeOK
        <3>4. CASE RetryOrFail(t)
            BY <3>1, <3>4, RetryType DEF TypeOK
        <3> QED BY <2>8, <3>2, <3>3, <3>4 DEF TransferFails
    <2>9. CASE ProcessSucceeds(t)
        <3>1. Settle(t, "validated")
            BY <2>9 DEF ProcessSucceeds
        <3>2. landed' \in [Tasks -> Nat]
            BY <2>9 DEF TypeOK, ProcessSucceeds
        <3>3. disk' \in [Files -> FileStates]
            BY <2>9, <2>r DEF TypeOK, ProcessSucceeds, FileStates
        <3> QED BY <2>9, <3>1, <3>2, <3>3, SettleType DEF TypeOK, ProcessSucceeds
    <2>10. CASE ProcessFails(t)
        <3>1. UNCHANGED <<phase, verdict, attempt, cap, cancelled, landed, run>>
            BY <2>10 DEF ProcessFails
        <3>2. disk' \in [Files -> FileStates]
            BY <2>10, <2>r DEF TypeOK, ProcessFails, FileStates
        <3>3. CASE Settle(t, "cancelled") /\ UNCHANGED <<cand, failedAt>>
            BY <3>1, <3>2, <3>3, SettleType DEF TypeOK
        <3>4. CASE FailCandidate(t)
            BY <3>1, <3>2, <3>4, FailType DEF TypeOK
        <3>5. CASE RetryOrFail(t)
            BY <3>1, <3>2, <3>5, RetryType DEF TypeOK
        <3> QED BY <2>10, <3>3, <3>4, <3>5 DEF ProcessFails
    <2>11. CASE BackoffEnds(t)
        BY <2>11 DEF TypeOK, BackoffEnds, PCs, InGlobal, InProvider
    <2>12. CASE QuietEnds(t)
        <3>1. free' \in [Providers -> Nat] /\ slots' \in Nat
            BY <2>12, <2>p DEF TypeOK, QuietEnds, Release
        <3> QED BY <2>12, <3>1 DEF TypeOK, QuietEnds, PCs, InGlobal, InProvider
    <2> QED BY <1>1, <2>1, <2>2, <2>3, <2>4, <2>5, <2>6, <2>7, <2>8, <2>9, <2>10,
               <2>11, <2>12 DEF Step
<1>2. CASE Finish
    BY <1>2 DEF TypeOK, Finish, Terminal
<1>3. ASSUME NEW v \in {"error", "crash"}, TearDown(v) PROVE TypeOK'
    <2>1. pc' \in [Tasks -> PCs]
        BY <1>3 DEF TypeOK, TearDown, PCs
    <2>2. free' \in [Providers -> Nat] /\ slots' \in Nat
        BY <1>3, LimitsPositive DEF TypeOK, TearDown
    <2> QED BY <1>3, <2>1, <2>2 DEF TypeOK, TearDown
<1>4. CASE Cancel
    BY <1>4 DEF TypeOK, Cancel
<1>5. CASE RunAgain
    <2>1. \A t \in Tasks : Len(Chain[t]) \in Nat \ {0}
        BY RemoteType
    <2>2. run' \in 1..MaxRuns
        BY <1>5, SettingsAssumption DEF TypeOK, RunAgain
    <2>3. /\ pc' \in [Tasks -> PCs]
          /\ cand' \in [Tasks -> Nat \ {0}]
          /\ \A t \in Tasks : cand'[t] <= Len(Chain[t])
          /\ attempt' \in [Tasks -> Nat]
        BY <1>5, <2>1 DEF RunAgain, Everywhere, PCs
    <2>4. /\ result' \in [Tasks -> {"none", "validated", "skipped", "failed", "cancelled"}]
          /\ landed' \in [Tasks -> Nat]
          /\ failedAt' \in [Tasks -> SUBSET Nat]
        BY <1>5 DEF RunAgain, Everywhere
    <2>5. /\ cap' \in [Providers -> Nat] /\ free' \in [Providers -> Nat]
          /\ slots' \in Nat
        BY <1>5, LimitsPositive DEF RunAgain
    <2> QED BY <1>5, <2>2, <2>3, <2>4, <2>5 DEF TypeOK, RunAgain
<1>6. CASE UNCHANGED vars
    BY <1>6 DEF TypeOK, vars
<1> QED BY <1>1, <1>2, <1>3, <1>4, <1>5, <1>6 DEF Next, Abort, Crash, Rest

\* The variables keep their types in every state of every execution.
THEOREM TypeCorrect == Safety => []TypeOK
<1>1. Init => TypeOK
    <2> SUFFICES ASSUME Init PROVE TypeOK
        OBVIOUS
    <2>1. \A t \in Tasks : Chain[t] \in Seq(Remotes) /\ Chain[t] # <<>>
        BY PlanAssumption
    <2>2. \A t \in Tasks : 1 <= Len(Chain[t])
        BY <2>1
    <2>3. run \in 1..MaxRuns
        BY SettingsAssumption DEF Init
    <2>4. /\ pc \in [Tasks -> PCs]
          /\ cand \in [Tasks -> Nat \ {0}]
          /\ \A t \in Tasks : cand[t] <= Len(Chain[t])
          /\ attempt \in [Tasks -> Nat]
        BY <2>2 DEF Init, Everywhere, PCs
    <2>5. /\ result \in [Tasks -> {"none", "validated", "skipped", "failed", "cancelled"}]
          /\ landed \in [Tasks -> Nat]
          /\ failedAt \in [Tasks -> SUBSET Nat]
        BY DEF Init, Everywhere
    <2>6. /\ cap \in [Providers -> Nat] /\ free \in [Providers -> Nat]
          /\ slots \in Nat
          /\ disk \in [Files -> FileStates]
        BY LimitsPositive DEF Init, FileStates
    <2> QED BY <2>3, <2>4, <2>5, <2>6 DEF TypeOK, Init
<1> QED BY <1>1, TypeStep, PTL DEF Safety

-----------------------------------------------------------------------------
(* The semaphores.  A step of the coroutine of t moves at most t into or   *)
(* out of the two sets of holders; the lemmas say what that does to the    *)
(* sums of SlotAccounting.                                                 *)

LEMMA WorkingFinite ==
    /\ IsFiniteSet(Working)
    /\ \A p \in Providers : IsFiniteSet(WorkingFor(p))
    /\ Cardinality(Working) \in Nat
    /\ \A p \in Providers : Cardinality(WorkingFor(p)) \in Nat
<1>1. IsFiniteSet(Tasks)
    BY FS_Interval, NTasksAssumption DEF Tasks
<1>2. Working \subseteq Tasks /\ \A p \in Providers : WorkingFor(p) \subseteq Tasks
    BY DEF Working, WorkingFor
<1>3. IsFiniteSet(Working) /\ \A p \in Providers : IsFiniteSet(WorkingFor(p))
    BY <1>1, <1>2, FS_Subset
<1> QED BY <1>3, FS_CardinalityType

\* Steps that neither take nor give back a slot.
LEMMA KeepsSlots ==
    ASSUME TypeOK, SlotAccounting, NEW t \in Tasks, NEW x,
           pc' = [pc EXCEPT ![t] = x],
           pc[t] \in InGlobal <=> x \in InGlobal,
           pc[t] \in InProvider <=> x \in InProvider,
           UNCHANGED <<slots, free, cap>>
    PROVE  SlotAccounting'
<1>1. Working' = Working
    BY DEF Working, TypeOK
<1>2. \A p \in Providers : WorkingFor(p)' = WorkingFor(p)
    BY DEF WorkingFor, TypeOK
<1> QED BY <1>1, <1>2 DEF SlotAccounting

\* Leaving `async with semaphore, provider_semaphore`.
LEMMA ReleasesSlots ==
    ASSUME TypeOK, SlotAccounting, NEW t \in Tasks, NEW x,
           pc' = [pc EXCEPT ![t] = x],
           pc[t] \in InProvider,
           x \notin InGlobal,
           Release(t),
           UNCHANGED cap
    PROVE  SlotAccounting'
<1>1. Provider[t] \in Providers
    BY PlanAssumption
<1>2. t \in Working /\ t \in WorkingFor(Provider[t])
    BY DEF Working, WorkingFor, InGlobal
<1>3. Working' = Working \ {t}
    BY DEF Working, TypeOK
<1>4. Cardinality(Working') = Cardinality(Working) - 1
    BY <1>2, <1>3, WorkingFinite, FS_RemoveElement
<1>5. slots' + Cardinality(Working') = GlobalLimit
    BY <1>4, WorkingFinite DEF SlotAccounting, Release, TypeOK
<1>6. ASSUME NEW p \in Providers
      PROVE  free'[p] + Cardinality(WorkingFor(p)') = cap'[p]
    <2>1. CASE p = Provider[t]
        <3>1. WorkingFor(p)' = WorkingFor(p) \ {t}
            BY <2>1 DEF WorkingFor, TypeOK, InGlobal
        <3>2. Cardinality(WorkingFor(p)') = Cardinality(WorkingFor(p)) - 1
            BY <1>2, <2>1, <3>1, WorkingFinite, FS_RemoveElement
        <3>3. free'[p] = free[p] + 1 /\ free[p] \in Nat
            BY <2>1 DEF Release, TypeOK
        <3> QED BY <3>2, <3>3, WorkingFinite DEF SlotAccounting
    <2>2. CASE p # Provider[t]
        <3>1. WorkingFor(p)' = WorkingFor(p)
            BY <2>2 DEF WorkingFor, TypeOK
        <3>2. free'[p] = free[p]
            BY <2>2 DEF Release, TypeOK
        <3> QED BY <3>1, <3>2 DEF SlotAccounting
    <2> QED BY <2>1, <2>2
<1> QED BY <1>5, <1>6 DEF SlotAccounting

LEMMA SettleSlots ==
    ASSUME TypeOK, SlotAccounting, NEW t \in Tasks, NEW r, Settle(t, r),
           pc[t] \in InProvider, UNCHANGED cap
    PROVE  SlotAccounting'
<1>1. CASE pc' = [pc EXCEPT ![t] = "quiet"] /\ UNCHANGED <<slots, free>>
    BY <1>1, KeepsSlots DEF InGlobal, InProvider
<1>2. CASE pc' = [pc EXCEPT ![t] = "done"] /\ Release(t)
    BY <1>2, ReleasesSlots DEF InGlobal, InProvider
<1> QED BY <1>1, <1>2 DEF Settle

LEMMA FailSlots ==
    ASSUME TypeOK, SlotAccounting, NEW t \in Tasks, FailCandidate(t),
           pc[t] \in InProvider, UNCHANGED cap
    PROVE  SlotAccounting'
<1>1. CASE pc' = [pc EXCEPT ![t] = "candidate"] /\ UNCHANGED <<slots, free>>
    BY <1>1, KeepsSlots DEF InGlobal, InProvider
<1>2. CASE Settle(t, "failed")
    BY <1>2, SettleSlots
<1> QED BY <1>1, <1>2 DEF FailCandidate

LEMMA RetrySlots ==
    ASSUME TypeOK, SlotAccounting, NEW t \in Tasks, RetryOrFail(t),
           pc[t] \in InProvider, UNCHANGED cap
    PROVE  SlotAccounting'
<1>1. CASE pc' = [pc EXCEPT ![t] = "backoff"] /\ UNCHANGED <<slots, free>>
    BY <1>1, KeepsSlots DEF InGlobal, InProvider
<1>2. CASE FailCandidate(t)
    BY <1>2, FailSlots
<1> QED BY <1>1, <1>2 DEF RetryOrFail

\* Nobody holds anything and the semaphores are full.
LEMMA AllFree == Cardinality({}) = 0 /\ GlobalLimit + 0 = GlobalLimit
    BY FS_EmptySet, LimitsPositive

LEMMA SlotStep == TypeOK /\ SlotAccounting /\ [Next]_vars => SlotAccounting'
<1> SUFFICES ASSUME TypeOK, SlotAccounting, [Next]_vars PROVE SlotAccounting'
    OBVIOUS
<1> USE DEF InProvider, InGlobal
<1>1. ASSUME NEW t \in Tasks, Step(t) PROVE SlotAccounting'
    <2>p. Provider[t] \in Providers
        BY PlanAssumption
    <2>1. CASE Enter(t)
        <3>1. Working' = Working
            BY <2>1 DEF Working, Enter, TypeOK
        <3>2. slots' + Cardinality(Working') = GlobalLimit
            BY <2>1, <3>1 DEF SlotAccounting, Enter
        <3>3. ASSUME NEW p \in Providers
              PROVE  free'[p] + Cardinality(WorkingFor(p)') = cap'[p]
            <4>1. WorkingFor(p)' = WorkingFor(p)
                BY <2>1 DEF WorkingFor, Enter, TypeOK
            <4>2. CASE p # Provider[t]
                <5>1. free'[p] = free[p] /\ cap'[p] = cap[p]
                    BY <2>1, <4>2 DEF Enter, TypeOK
                <5> QED BY <4>1, <5>1 DEF SlotAccounting
            <4>3. CASE p = Provider[t] /\ cap[p] # 0
                <5>1. free'[p] = free[p] /\ cap'[p] = cap[p]
                    BY <2>1, <4>3 DEF Enter, TypeOK
                <5> QED BY <4>1, <5>1 DEF SlotAccounting
            <4>4. CASE p = Provider[t] /\ cap[p] = 0
                <5>1. free'[p] = TaskLimit(t) /\ cap'[p] = TaskLimit(t)
                    BY <2>1, <4>4 DEF Enter, TypeOK
                <5>2. Cardinality(WorkingFor(p)) = 0
                    BY <4>4, WorkingFinite DEF SlotAccounting, TypeOK
                <5> QED BY <4>1, <5>1, <5>2, LimitsPositive
            <4> QED BY <4>2, <4>3, <4>4
        <3> QED BY <3>2, <3>3 DEF SlotAccounting
    <2>2. CASE AcquireGlobal(t)
        <3>1. Working' = Working \cup {t} /\ t \notin Working
            BY <2>2 DEF Working, AcquireGlobal, TypeOK
        <3>2. Cardinality(Working') = Cardinality(Working) + 1
            BY <3>1, WorkingFinite, FS_AddElement
        <3>3. slots' + Cardinality(Working') = GlobalLimit
            BY <2>2, <3>2, WorkingFinite DEF SlotAccounting, AcquireGlobal, TypeOK
        <3>4. \A p \in Providers : WorkingFor(p)' = WorkingFor(p)
            BY <2>2 DEF WorkingFor, AcquireGlobal, TypeOK
        <3> QED BY <2>2, <3>3, <3>4 DEF SlotAccounting, AcquireGlobal
    <2>3. CASE AcquireProvider(t) /\ cancelled
        <3>1. /\ pc[t] = "gated" /\ pc' = [pc EXCEPT ![t] = "done"]
              /\ slots' = slots + 1
              /\ UNCHANGED <<free, cap>>
            BY <2>3 DEF AcquireProvider
        <3>2. Working' = Working \ {t} /\ t \in Working
            BY <3>1 DEF Working, TypeOK
        <3>3. Cardinality(Working') = Cardinality(Working) - 1
            BY <3>2, WorkingFinite, FS_RemoveElement
        <3>4. slots' + Cardinality(Working') = GlobalLimit
            BY <3>1, <3>3, WorkingFinite DEF SlotAccounting, TypeOK
        <3>5. \A p \in Providers : WorkingFor(p)' = WorkingFor(p)
            BY <3>1 DEF WorkingFor, TypeOK
        <3> QED BY <3>1, <3>4, <3>5 DEF SlotAccounting
    <2>4. CASE AcquireProvider(t) /\ ~cancelled
        <3>1. /\ pc[t] = "gated" /\ pc' = [pc EXCEPT ![t] = "candidate"]
              /\ free' = [free EXCEPT ![Provider[t]] = @ - 1]
              /\ UNCHANGED <<slots, cap>>
            BY <2>4 DEF AcquireProvider
        <3>2. Working' = Working
            BY <3>1 DEF Working, TypeOK
        <3>3. ASSUME NEW p \in Providers
              PROVE  free'[p] + Cardinality(WorkingFor(p)') = cap'[p]
            <4>1. CASE p # Provider[t]
                <5>1. free'[p] = free[p] /\ cap'[p] = cap[p]
                    BY <3>1, <4>1 DEF TypeOK
                <5>2. WorkingFor(p)' = WorkingFor(p)
                    BY <3>1, <4>1 DEF WorkingFor, TypeOK
                <5> QED BY <5>1, <5>2 DEF SlotAccounting
            <4>2. CASE p = Provider[t]
                <5>1. WorkingFor(p)' = WorkingFor(p) \cup {t} /\ t \notin WorkingFor(p)
                    BY <3>1, <4>2 DEF WorkingFor, TypeOK
                <5>2. Cardinality(WorkingFor(p)') = Cardinality(WorkingFor(p)) + 1
                    BY <5>1, WorkingFinite, FS_AddElement
                <5>3. free'[p] = free[p] - 1 /\ free[p] \in Nat /\ cap'[p] = cap[p]
                    BY <3>1, <4>2 DEF TypeOK
                <5> QED BY <5>2, <5>3, WorkingFinite DEF SlotAccounting
            <4> QED BY <4>1, <4>2
        <3> QED BY <3>1, <3>2, <3>3 DEF SlotAccounting
    <2>5. CASE CandidateRaises(t)
        BY <2>5, ReleasesSlots DEF CandidateRaises
    <2>6. CASE SkipExisting(t)
        BY <2>6, SettleSlots DEF SkipExisting
    <2>7. CASE StartTransfer(t)
        BY <2>7, KeepsSlots DEF StartTransfer
    <2>8. CASE TransferSucceeds(t)
        BY <2>8, KeepsSlots DEF TransferSucceeds
    <2>9. CASE TransferFails(t)
        <3>1. pc[t] \in InProvider /\ UNCHANGED cap
            BY <2>9 DEF TransferFails
        <3> QED BY <2>9, <3>1, SettleSlots, FailSlots, RetrySlots DEF TransferFails
    <2>10. CASE ProcessSucceeds(t)
        BY <2>10, SettleSlots DEF ProcessSucceeds
    <2>11. CASE ProcessFails(t)
        <3>1. pc[t] \in InProvider /\ UNCHANGED cap
            BY <2>11 DEF ProcessFails
        <3> QED BY <2>11, <3>1, SettleSlots, FailSlots, RetrySlots DEF ProcessFails
    <2>12. CASE BackoffEnds(t)
        BY <2>12, KeepsSlots DEF BackoffEnds
    <2>13. CASE QuietEnds(t)
        BY <2>13, ReleasesSlots DEF QuietEnds
    <2> QED BY <1>1, <2>1, <2>2, <2>3, <2>4, <2>5, <2>6, <2>7, <2>8, <2>9, <2>10,
               <2>11, <2>12, <2>13 DEF Step
<1>2. ASSUME UNCHANGED <<pc, slots, free, cap>> PROVE SlotAccounting'
    BY <1>2 DEF SlotAccounting, Working, WorkingFor
<1>3. ASSUME NEW v, TearDown(v) PROVE SlotAccounting'
    <2>1. Working' = {} /\ \A p \in Providers : WorkingFor(p)' = {}
        BY <1>3 DEF TearDown, Working, WorkingFor, TypeOK
    <2>2. slots' = GlobalLimit /\ free' = cap /\ cap' = cap
        BY <1>3 DEF TearDown
    <2>3. slots' + Cardinality(Working') = GlobalLimit
        BY <2>1, <2>2, AllFree
    <2>4. ASSUME NEW p \in Providers
          PROVE  free'[p] + Cardinality(WorkingFor(p)') = cap'[p]
        <3>1. cap[p] \in Nat
            BY DEF TypeOK
        <3>2. free'[p] = cap[p] /\ cap'[p] = cap[p] /\ Cardinality(WorkingFor(p)') = 0
            BY <2>1, <2>2, AllFree
        <3> QED BY <3>1, <3>2
    <2> QED BY <2>3, <2>4 DEF SlotAccounting
<1>4. CASE RunAgain
    <2>1. Working' = {} /\ \A p \in Providers : WorkingFor(p)' = {}
        BY <1>4 DEF RunAgain, Everywhere, Working, WorkingFor
    <2>2. slots' = GlobalLimit /\ \A p \in Providers : free'[p] = 0 /\ cap'[p] = 0
        BY <1>4 DEF RunAgain
    <2> QED BY <2>1, <2>2, AllFree DEF SlotAccounting
<1> QED BY <1>1, <1>2, <1>3, <1>4
    DEF Next, Finish, Abort, Crash, Cancel, Rest, vars

\* Whatever way the coroutines take (result, exception, cancellation, teardown),
\* no slot of either semaphore is lost or given back twice.
THEOREM SlotsAddUp == Safety => []SlotAccounting
<1>1. Init => SlotAccounting
    <2> SUFFICES ASSUME Init PROVE SlotAccounting
        OBVIOUS
    <2>1. Working = {} /\ \A p \in Providers : WorkingFor(p) = {}
        BY DEF Init, Everywhere, Working, WorkingFor, InGlobal, InProvider
    <2>2. slots = GlobalLimit /\ \A p \in Providers : free[p] = 0 /\ cap[p] = 0
        BY DEF Init
    <2> QED BY <2>1, <2>2, AllFree DEF SlotAccounting
<1> QED BY <1>1, SlotStep, TypeCorrect, PTL DEF Safety

\* The quiet period of an archive with one slot is nobody else's working time.
THEOREM QuietAlone == Safety => []QuietPeriodExclusive
<1>1. TypeOK /\ SlotAccounting => QuietPeriodExclusive
    <2> SUFFICES ASSUME TypeOK, SlotAccounting,
                        NEW t \in Tasks, pc[t] = "quiet", cap[Provider[t]] = 1
                 PROVE  WorkingFor(Provider[t]) = {t}
        BY DEF QuietPeriodExclusive
    <2> DEFINE W == WorkingFor(Provider[t])
    <2>1. Provider[t] \in Providers
        BY PlanAssumption
    <2>2. t \in W
        BY DEF WorkingFor, InProvider
    <2>3. IsFiniteSet(W) /\ Cardinality(W) \in Nat /\ Cardinality(W) <= 1
        BY <2>1, WorkingFinite DEF SlotAccounting, TypeOK
    <2>4. Cardinality({t}) = 1 /\ IsFiniteSet({t})
        BY FS_Singleton
    <2>5. {t} \in SUBSET W /\ Cardinality({t}) <= Cardinality(W)
        BY <2>2, <2>3, FS_Subset
    <2>6. Cardinality(W) = Cardinality({t})
        BY <2>3, <2>4, <2>5
    <2> QED BY <2>3, <2>5, <2>6, FS_Subset
<1> QED BY <1>1, TypeCorrect, SlotsAddUp, PTL

-----------------------------------------------------------------------------
(* Results, events and the abstract batch.                                 *)

\* How results, the verdict and the phases go together; with it
\* EventsMatchResult and the refinement are inductive.
StageOK ==
    /\ \A t \in Tasks : pc[t] \in {"quiet", "done"} => result[t] # "none"
    /\ \A t \in Tasks : result[t] # "none" => pc[t] \in {"quiet", "done", "torn"}
    /\ verdict = "none" <=> Live
    /\ phase = "aborting" => cancelled

\* What the step of a coroutine does to the results: nothing, or it gives its
\* own task the first one.
ResultStep(t) ==
    \/ /\ result' = result
       /\ \E x \in PCs \ {"quiet", "done", "torn"} : pc' = [pc EXCEPT ![t] = x]
    \/ /\ pc[t] = "quiet"
       /\ result' = result
       /\ pc' = [pc EXCEPT ![t] = "done"]
    \/ /\ \E r \in {"validated", "skipped", "failed", "cancelled"} :
             /\ r = "cancelled" => cancelled
             /\ result' = [result EXCEPT ![t] = r]
       /\ \E x \in {"quiet", "done"} : pc' = [pc EXCEPT ![t] = x]

LEMMA SettleResult ==
    ASSUME NEW t \in Tasks,
           NEW r \in {"validated", "skipped", "failed", "cancelled"},
           r = "cancelled" => cancelled, Settle(t, r)
    PROVE  ResultStep(t)
BY DEF Settle, ResultStep

LEMMA FailResult ==
    ASSUME NEW t \in Tasks, FailCandidate(t) PROVE ResultStep(t)
<1>1. CASE pc' = [pc EXCEPT ![t] = "candidate"] /\ UNCHANGED result
    BY <1>1 DEF ResultStep, PCs, InGlobal, InProvider
<1>2. CASE Settle(t, "failed")
    BY <1>2, SettleResult
<1> QED BY <1>1, <1>2 DEF FailCandidate

LEMMA RetryResult ==
    ASSUME NEW t \in Tasks, RetryOrFail(t) PROVE ResultStep(t)
<1>1. CASE pc' = [pc EXCEPT ![t] = "backoff"] /\ UNCHANGED result
    BY <1>1 DEF ResultStep, PCs, InGlobal, InProvider
<1>2. CASE FailCandidate(t)
    BY <1>2, FailResult
<1> QED BY <1>1, <1>2 DEF RetryOrFail

LEMMA CoroutineStep ==
    ASSUME NEW t \in Tasks, Step(t)
    PROVE  /\ ResultStep(t)
           /\ pc[t] \notin {"done", "raised", "torn"}
           /\ pc[t] = "quiet" => result' = result /\ pc' = [pc EXCEPT ![t] = "done"]
           /\ UNCHANGED <<verdict, cancelled, run>>
           /\ phase' = phase \/ (phase' = "aborting" /\ cancelled)
           /\ Live /\ Live'
<1> USE DEF ResultStep, PCs, InGlobal, InProvider
<1>1. CASE Enter(t)
    BY <1>1 DEF Enter, Step, Live
<1>2. CASE AcquireGlobal(t)
    BY <1>2 DEF AcquireGlobal, Step, Live
<1>3. CASE AcquireProvider(t)
    <2>1. ResultStep(t)
        BY <1>3 DEF AcquireProvider
    <2> QED BY <1>3, <2>1 DEF AcquireProvider, Step, Live
<1>4. CASE CandidateRaises(t)
    BY <1>4 DEF CandidateRaises, Step, Live
<1>5. CASE SkipExisting(t)
    <2>1. ResultStep(t)
        BY <1>5, SettleResult DEF SkipExisting
    <2> QED BY <1>5, <2>1 DEF SkipExisting, Step, Live
<1>6. CASE StartTransfer(t)
    BY <1>6 DEF StartTransfer, Step, Live
<1>7. CASE TransferSucceeds(t)
    BY <1>7 DEF TransferSucceeds, Step, Live
<1>8. CASE TransferFails(t)
    <2>1. ResultStep(t)
        BY <1>8, SettleResult, FailResult, RetryResult DEF TransferFails
    <2> QED BY <1>8, <2>1 DEF TransferFails, Step, Live
<1>9. CASE ProcessSucceeds(t)
    <2>1. ResultStep(t)
        BY <1>9, SettleResult DEF ProcessSucceeds
    <2> QED BY <1>9, <2>1 DEF ProcessSucceeds, Step, Live
<1>10. CASE ProcessFails(t)
    <2>1. ResultStep(t)
        BY <1>10, SettleResult, FailResult, RetryResult DEF ProcessFails
    <2> QED BY <1>10, <2>1 DEF ProcessFails, Step, Live
<1>11. CASE BackoffEnds(t)
    BY <1>11 DEF BackoffEnds, Step, Live
<1>12. CASE QuietEnds(t)
    BY <1>12 DEF QuietEnds, Step, Live
<1> QED BY <1>1, <1>2, <1>3, <1>4, <1>5, <1>6, <1>7, <1>8, <1>9, <1>10, <1>11,
           <1>12 DEF Step

LEMMA StageStep == TypeOK /\ StageOK /\ [Next]_vars => StageOK'
<1> SUFFICES ASSUME TypeOK, StageOK, [Next]_vars PROVE StageOK'
    OBVIOUS
<1>1. ASSUME NEW t \in Tasks, Step(t) PROVE StageOK'
    <2>1. \A u \in Tasks \ {t} : pc'[u] = pc[u] /\ result'[u] = result[u]
        BY <1>1, CoroutineStep DEF ResultStep, TypeOK
    <2>2. pc[t] = "quiet" => pc'[t] = "done" /\ result'[t] = result[t]
        BY <1>1, CoroutineStep DEF TypeOK
    <2>3. pc[t] # "quiet" => result[t] = "none"
        BY <1>1, CoroutineStep DEF StageOK
    <2>4. \/ result'[t] = result[t] /\ pc'[t] \notin {"quiet", "done", "torn"}
          \/ pc[t] = "quiet"
          \/ result'[t] # "none" /\ pc'[t] \in {"quiet", "done"}
        BY <1>1, CoroutineStep DEF ResultStep, TypeOK
    <2>5. /\ pc'[t] \in {"quiet", "done"} => result'[t] # "none"
          /\ result'[t] # "none" => pc'[t] \in {"quiet", "done", "torn"}
        BY <2>2, <2>3, <2>4 DEF StageOK
    <2>6. /\ verdict' = "none" <=> Live'
          /\ phase' = "aborting" => cancelled'
        BY <1>1, CoroutineStep DEF StageOK
    <2> QED BY <2>1, <2>5, <2>6 DEF StageOK
<1>2. CASE Finish
    BY <1>2 DEF Finish, Terminal, StageOK, Live
<1>3. ASSUME NEW v \in {"error", "crash"}, TearDown(v) PROVE StageOK'
    <2>1. /\ verdict' # "none" /\ phase' = "ended" /\ result' = result
          /\ \A t \in Tasks : pc'[t] = IF pc[t] \in {"done", "raised"} THEN pc[t] ELSE "torn"
        BY <1>3 DEF TearDown
    <2>2. \A t \in Tasks : pc'[t] \in {"quiet", "done"} => result'[t] # "none"
        BY <2>1 DEF StageOK
    <2>3. \A t \in Tasks : result'[t] # "none" => pc'[t] \in {"quiet", "done", "torn"}
        BY <2>1 DEF StageOK
    <2> QED BY <2>1, <2>2, <2>3 DEF StageOK, Live
<1>4. CASE Cancel
    BY <1>4 DEF Cancel, StageOK, Live
<1>5. CASE RunAgain
    BY <1>5 DEF RunAgain, Everywhere, StageOK, Live
<1>6. CASE UNCHANGED vars
    BY <1>6 DEF vars, StageOK, Live
<1> QED BY <1>1, <1>2, <1>3, <1>4, <1>5, <1>6 DEF Next, Abort, Crash, Rest

LEMMA StageInvariant == Safety => []StageOK
<1>1. Init => StageOK
    BY DEF Init, Everywhere, StageOK, Live
<1> QED BY <1>1, StageStep, TypeCorrect, PTL DEF Safety

\* The verdict of run() is the abstract summary of the abstract outcomes.
LEMMA TerminalIsSummary ==
    ASSUME TypeOK, \A t \in Tasks : result[t] # "none"
    PROVE  Terminal = Batch!Summary([t \in Tasks |-> Outcome(result[t])])
<1> DEFINE o == [t \in Tasks |-> Outcome(result[t])]
<1>1. \A t \in Tasks : /\ o[t] = "cancelled" <=> result[t] = "cancelled"
                       /\ o[t] = "failed" <=> result[t] = "failed"
                       /\ o[t] = "ok" <=> result[t] \in {"validated", "skipped"}
    BY DEF TypeOK, Outcome
<1> HIDE DEF o
<1>2. /\ Counted({"cancelled"}) <=> \E t \in Tasks : o[t] = "cancelled"
      /\ Counted({"failed"}) <=> \E t \in Tasks : o[t] = "failed"
      /\ Counted({"validated", "skipped"}) <=> \E t \in Tasks : o[t] = "ok"
    BY <1>1 DEF Counted
<1>3. Terminal = Batch!Summary(o)
    BY <1>2 DEF Terminal, Batch!Summary
<1> QED BY <1>3 DEF o

LEMMA BatchStep == TypeOK /\ StageOK /\ [Next]_vars => [Batch!Next]_(Batch!vars)
<1> SUFFICES ASSUME TypeOK, StageOK, [Next]_vars
             PROVE  [Batch!Next]_(Batch!vars)
    OBVIOUS
<1> DEFINE o == [t \in Tasks |-> Outcome(result[t])]
           v == IF verdict = "none" THEN "open" ELSE verdict
<1>1. ASSUME NEW t \in Tasks, Step(t) PROVE [Batch!Next]_(Batch!vars)
    <2>1. UNCHANGED <<verdict, cancelled>> /\ v = "open"
        BY <1>1, CoroutineStep DEF StageOK
    <2>2. CASE result' = result
        BY <2>1, <2>2 DEF Batch!vars
    <2>3. ASSUME NEW r \in {"validated", "skipped", "failed", "cancelled"},
                 r = "cancelled" => cancelled,
                 result' = [result EXCEPT ![t] = r], pc[t] # "quiet"
          PROVE  Batch!Next
        <3>1. result[t] = "none"
            BY <1>1, <2>3, CoroutineStep DEF StageOK
        <3>2. o[t] = "pending"
            BY <3>1 DEF Outcome
        <3>3. o' = [o EXCEPT ![t] = Outcome(r)]
            BY <2>3 DEF TypeOK
        <3>4. Outcome(r) \in {"ok", "failed", "cancelled"}
              /\ (Outcome(r) = "cancelled" => cancelled)
            BY <2>3 DEF Outcome
        <3>5. Batch!Settle(t)
            BY <2>1, <3>2, <3>3, <3>4 DEF Batch!Settle, Batch!Outcomes
        <3> QED BY <3>5 DEF Batch!Next
    <2> QED BY <1>1, <2>2, <2>3, CoroutineStep DEF ResultStep
<1>2. CASE Finish
    <2>1. \A t \in Tasks : result[t] # "none"
        BY <1>2 DEF Finish, StageOK
    <2>2. verdict' = Batch!Summary(o) /\ UNCHANGED <<result, cancelled>>
        BY <1>2, <2>1, TerminalIsSummary DEF Finish
    <2>3. verdict' \in {"completed", "partial", "failed", "cancelled"}
        BY <1>2 DEF Finish, Terminal
    <2>4. v = "open" /\ v' = Batch!Summary(o) /\ UNCHANGED o
        BY <1>2, <2>2, <2>3 DEF Finish, StageOK, Live
    <2>5. \A t \in Tasks : o[t] # "pending"
        BY <2>1 DEF TypeOK, Outcome
    <2>6. Batch!Close
        BY <2>2, <2>4, <2>5 DEF Batch!Close
    <2> QED BY <2>6 DEF Batch!Next
<1>3. CASE Abort
    <2>1. /\ v = "open" /\ v' = "error" /\ cancelled
          /\ UNCHANGED <<result, cancelled>>
        BY <1>3 DEF Abort, TearDown, StageOK, Live
    <2>2. Batch!BreakOff
        BY <2>1 DEF Batch!BreakOff
    <2> QED BY <2>2 DEF Batch!Next
<1>4. CASE Crash
    <2>1. /\ v = "open" /\ v' = "crash"
          /\ UNCHANGED <<result, cancelled>>
        BY <1>4 DEF Crash, TearDown, StageOK
    <2>2. Batch!Die
        BY <2>1 DEF Batch!Die
    <2> QED BY <2>2 DEF Batch!Next
<1>5. CASE Cancel
    <2>1. v = "open" /\ cancelled' = TRUE /\ UNCHANGED <<result, verdict>>
        BY <1>5 DEF Cancel, StageOK
    <2>2. Batch!Ask
        BY <2>1 DEF Batch!Ask
    <2> QED BY <2>2 DEF Batch!Next
<1>6. CASE RunAgain
    <2>1. v # "open" /\ v' = "open" /\ cancelled' = FALSE
        BY <1>6 DEF RunAgain, StageOK, Live, TypeOK
    <2>2. o' = [t \in Tasks |-> "pending"]
        BY <1>6 DEF RunAgain, Everywhere, Outcome
    <2>3. Batch!Again
        BY <2>1, <2>2 DEF Batch!Again
    <2> QED BY <2>3 DEF Batch!Next
<1>7. CASE UNCHANGED vars
    BY <1>7 DEF vars, Batch!vars
<1> QED BY <1>1, <1>2, <1>3, <1>4, <1>5, <1>6, <1>7 DEF Next, Rest

\* run() keeps the contract of the abstract batch: outcomes are final, the
\* verdict is a function of them, and only a requested cancellation cancels
\* files or makes run() raise.
THEOREM ManagerImplementsBatch == Safety => ImplementsBatchSafety
<1>1. Init => Batch!Init
    BY DEF Init, Everywhere, Batch!Init, Outcome
<1>2. TypeOK /\ StageOK /\ [Next]_vars => [Batch!Next]_(Batch!vars)
    BY BatchStep
<1> QED BY <1>1, <1>2, TypeCorrect, StageInvariant, PTL
    DEF Safety, ImplementsBatchSafety, Batch!Safety

-----------------------------------------------------------------------------
(* The events.                                                             *)

EventsOf(t) ==
    /\ landed[t] = IF result[t] \in {"validated", "skipped"} THEN 1 ELSE 0
    /\ failedAt[t] = IF result[t] = "failed" THEN 1..Len(Chain[t])
                     ELSE 1..(cand[t] - 1)

\* A task without a result gives up its candidate: FILE_FAILED for one more.
LEMMA FailEvents ==
    ASSUME TypeOK, NEW t \in Tasks, FailCandidate(t), result[t] = "none",
           EventsOf(t), UNCHANGED landed
    PROVE  EventsOf(t)'
<1>1. /\ cand[t] \in Nat \ {0} /\ Len(Chain[t]) \in Nat /\ cand[t] <= Len(Chain[t])
    BY RemoteType
<1>2. landed[t] = 0 /\ failedAt[t] = 1..(cand[t] - 1)
    BY DEF EventsOf
<1>3. failedAt'[t] = 1..cand[t]
    <2>1. failedAt'[t] = failedAt[t] \cup {cand[t]}
        BY DEF FailCandidate, TypeOK
    <2> QED BY <1>1, <1>2, <2>1
<1>4. CASE cand' = [cand EXCEPT ![t] = @ + 1] /\ UNCHANGED result
    <2>1. cand'[t] - 1 = cand[t]
        BY <1>1, <1>4 DEF TypeOK
    <2> QED BY <1>2, <1>3, <1>4, <2>1 DEF EventsOf
<1>5. CASE cand[t] >= Len(Chain[t]) /\ Settle(t, "failed")
    <2>1. result'[t] = "failed"
        BY <1>5 DEF Settle, TypeOK
    <2>2. cand[t] = Len(Chain[t])
        BY <1>1, <1>5
    <2> QED BY <1>2, <1>3, <2>1, <2>2 DEF EventsOf
<1> QED BY <1>4, <1>5 DEF FailCandidate

LEMMA RetryEvents ==
    ASSUME TypeOK, NEW t \in Tasks, RetryOrFail(t), result[t] = "none",
           EventsOf(t), UNCHANGED landed
    PROVE  EventsOf(t)'
<1>1. CASE FailCandidate(t)
    BY <1>1, FailEvents
<1>2. CASE UNCHANGED <<cand, result, failedAt>>
    BY <1>2 DEF EventsOf
<1> QED BY <1>1, <1>2 DEF RetryOrFail

LEMMA CancelEvents ==
    ASSUME TypeOK, NEW t \in Tasks, result[t] = "none", EventsOf(t),
           result' = [result EXCEPT ![t] = "cancelled"],
           UNCHANGED <<landed, cand, failedAt>>
    PROVE  EventsOf(t)'
BY DEF EventsOf, TypeOK

LEMMA LandEvents ==
    ASSUME TypeOK, NEW t \in Tasks, NEW r \in {"validated", "skipped"},
           result[t] = "none", EventsOf(t), Settle(t, r),
           landed' = [landed EXCEPT ![t] = @ + 1],
           UNCHANGED <<cand, failedAt>>
    PROVE  EventsOf(t)'
<1>1. result'[t] = r
    BY DEF Settle, TypeOK
<1>2. landed[t] = 0 /\ landed'[t] = 1
    BY DEF EventsOf, TypeOK
<1> QED BY <1>1, <1>2 DEF EventsOf

\* A step of t touches only the result, the candidate and the events of t.
LEMMA OnlyOwnEvents ==
    ASSUME TypeOK, NEW t \in Tasks, Step(t), NEW u \in Tasks, u # t
    PROVE  /\ result'[u] = result[u] /\ cand'[u] = cand[u]
           /\ landed'[u] = landed[u] /\ failedAt'[u] = failedAt[u]
<1>1. result'[u] = result[u]
    BY CoroutineStep DEF ResultStep, TypeOK
<1>2. cand'[u] = cand[u]
    BY DEF TypeOK, Step, Enter, AcquireGlobal, AcquireProvider, CandidateRaises,
           SkipExisting, StartTransfer, TransferSucceeds, TransferFails,
           ProcessSucceeds, ProcessFails, BackoffEnds, QuietEnds, RetryOrFail,
           FailCandidate
<1>3. landed'[u] = landed[u]
    BY DEF TypeOK, Step, Enter, AcquireGlobal, AcquireProvider, CandidateRaises,
           SkipExisting, StartTransfer, TransferSucceeds, TransferFails,
           ProcessSucceeds, ProcessFails, BackoffEnds, QuietEnds
<1>4. failedAt'[u] = failedAt[u]
    BY DEF TypeOK, Step, Enter, AcquireGlobal, AcquireProvider, CandidateRaises,
           SkipExisting, StartTransfer, TransferSucceeds, TransferFails,
           ProcessSucceeds, ProcessFails, BackoffEnds, QuietEnds, RetryOrFail,
           FailCandidate
<1> QED BY <1>1, <1>2, <1>3, <1>4

LEMMA EventStep ==
    TypeOK /\ StageOK /\ EventsMatchResult /\ [Next]_vars => EventsMatchResult'
<1> SUFFICES ASSUME TypeOK, StageOK, EventsMatchResult, [Next]_vars
             PROVE  EventsMatchResult'
    OBVIOUS
<1>a. \A t \in Tasks : EventsOf(t)
    BY DEF EventsMatchResult, EventsOf
<1>1. ASSUME NEW t \in Tasks, Step(t) PROVE EventsMatchResult'
    <2>1. ASSUME NEW u \in Tasks, u # t PROVE EventsOf(u)'
        BY <1>a, <1>1, <2>1, OnlyOwnEvents DEF EventsOf
    <2>2. pc[t] # "quiet" => result[t] = "none"
        BY <1>1, CoroutineStep DEF StageOK
    <2>3. EventsOf(t)
        BY <1>a
    <2>4. EventsOf(t)'
        <3>1. CASE UNCHANGED <<result, cand, landed, failedAt>>
            BY <2>3, <3>1 DEF EventsOf
        <3>2. CASE AcquireProvider(t)
            <4>1. CASE result' = [result EXCEPT ![t] = "cancelled"]
                BY <2>2, <2>3, <3>2, <4>1, CancelEvents DEF AcquireProvider
            <4> QED BY <3>1, <3>2, <4>1 DEF AcquireProvider
        <3>3. CASE SkipExisting(t)
            <4>1. /\ pc[t] # "quiet" /\ UNCHANGED <<cand, failedAt>>
                  /\ landed' = [landed EXCEPT ![t] = @ + 1]
                  /\ Settle(t, "skipped")
                BY <3>3 DEF SkipExisting
            <4> QED BY <2>2, <2>3, <4>1, LandEvents
        <3>4. CASE ProcessSucceeds(t)
            <4>1. /\ pc[t] # "quiet" /\ UNCHANGED <<cand, failedAt>>
                  /\ landed' = [landed EXCEPT ![t] = @ + 1]
                  /\ Settle(t, "validated")
                BY <3>4 DEF ProcessSucceeds
            <4> QED BY <2>2, <2>3, <4>1, LandEvents
        <3>5. CASE TransferFails(t) \/ ProcessFails(t)
            <4>1. pc[t] # "quiet" /\ UNCHANGED landed
                BY <3>5 DEF TransferFails, ProcessFails
            <4>2. CASE Settle(t, "cancelled") /\ UNCHANGED <<cand, failedAt>>
                <5>1. result' = [result EXCEPT ![t] = "cancelled"]
                    BY <4>2 DEF Settle
                <5> QED BY <2>2, <2>3, <4>1, <4>2, <5>1, CancelEvents
            <4>3. CASE FailCandidate(t)
                BY <2>2, <2>3, <4>1, <4>3, FailEvents
            <4>4. CASE RetryOrFail(t)
                BY <2>2, <2>3, <4>1, <4>4, RetryEvents
            <4> QED BY <3>5, <4>2, <4>3, <4>4 DEF TransferFails, ProcessFails
        <3>6. CASE Enter(t) \/ AcquireGlobal(t) \/ CandidateRaises(t)
            BY <3>1, <3>6 DEF Enter, AcquireGlobal, CandidateRaises
        <3>7. CASE \/ StartTransfer(t) \/ TransferSucceeds(t)
                   \/ BackoffEnds(t) \/ QuietEnds(t)
            BY <3>1, <3>7 DEF StartTransfer, TransferSucceeds, BackoffEnds, QuietEnds
        <3> QED BY <1>1, <3>2, <3>3, <3>4, <3>5, <3>6, <3>7 DEF Step
    <2> QED BY <2>1, <2>4 DEF EventsMatchResult, EventsOf
<1>2. CASE UNCHANGED <<result, cand, landed, failedAt>>
    BY <1>2 DEF EventsMatchResult
<1>3. CASE RunAgain
    <2>1. \A t \in Tasks : /\ result'[t] = "none" /\ landed'[t] = 0
                           /\ failedAt'[t] = {} /\ cand'[t] = 1
        BY <1>3 DEF RunAgain, Everywhere
    <2>2. 1..(1 - 1) = {}
        OBVIOUS
    <2> QED BY <2>1, <2>2 DEF EventsMatchResult
<1>4. CASE Finish \/ Abort \/ Crash \/ Cancel
    BY <1>2, <1>4 DEF Finish, Abort, Crash, TearDown, Cancel
<1>5. CASE UNCHANGED vars
    BY <1>2, <1>5 DEF vars
<1> QED BY <1>1, <1>3, <1>4, <1>5 DEF Next, Rest

\* The counters a listener keeps from the events agree with the results: one
\* FILE_VALIDATED or FILE_SKIPPED for a success, none otherwise, and FILE_FAILED
\* for exactly the candidates that were given up.
THEOREM EventsAgree == Safety => []EventsMatchResult
<1>1. Init => EventsMatchResult
    BY DEF Init, Everywhere, EventsMatchResult
<1> QED BY <1>1, EventStep, TypeCorrect, StageInvariant, PTL DEF Safety

-----------------------------------------------------------------------------
(* What is on the disk, for plans whose tasks write to different places.   *)

\* The planner gives every logical file a destination of its own.
Distinct ==
    \A t, u \in Tasks : t # u => Destinations(t) \cap Destinations(u) = {}

\* Only the step of a transfer or a post-processor touches the disk, and only
\* at the destination of its own candidate.
DiskStep(t) ==
    \/ disk' = disk
    \/ /\ pc[t] \in {"transfer", "process"}
       /\ \E s \in FileStates : disk' = [disk EXCEPT ![Remote(t).file] = s]

LEMMA OwnDestination ==
    ASSUME TypeOK, NEW t \in Tasks
    PROVE  Remote(t).file \in Destinations(t)
<1>1. cand[t] \in DOMAIN Chain[t]
    BY RemoteType, PlanAssumption
<1> QED BY <1>1 DEF Destinations, Remote

LEMMA StepOnDisk ==
    ASSUME NEW t \in Tasks, Step(t) PROVE DiskStep(t)
<1>1. CASE Enter(t) \/ AcquireGlobal(t) \/ AcquireProvider(t) \/ CandidateRaises(t)
    BY <1>1 DEF Enter, AcquireGlobal, AcquireProvider, CandidateRaises, DiskStep
<1>2. CASE SkipExisting(t) \/ StartTransfer(t) \/ TransferFails(t)
    BY <1>2 DEF SkipExisting, StartTransfer, TransferFails, DiskStep
<1>3. CASE TransferSucceeds(t)
    BY <1>3 DEF TransferSucceeds, DiskStep, FileStates
<1>4. CASE ProcessSucceeds(t)
    BY <1>4 DEF ProcessSucceeds, DiskStep, FileStates
<1>5. CASE ProcessFails(t)
    BY <1>5 DEF ProcessFails, DiskStep, FileStates
<1>6. CASE BackoffEnds(t) \/ QuietEnds(t)
    BY <1>6 DEF BackoffEnds, QuietEnds, DiskStep
<1> QED BY <1>1, <1>2, <1>3, <1>4, <1>5, <1>6 DEF Step

\* With different destinations a step leaves the files of all other tasks alone.
LEMMA OthersOnDisk ==
    ASSUME TypeOK, Distinct, NEW t \in Tasks, Step(t), NEW u \in Tasks \ {t},
           NEW f \in Destinations(u)
    PROVE  disk'[f] = disk[f]
<1>1. f # Remote(t).file
    BY OwnDestination DEF Distinct
<1>2. f \in Files
    <2>1. PICK c \in DOMAIN Chain[u] : f = Chain[u][c].file
        BY DEF Destinations
    <2>2. Chain[u] \in Seq(Remotes)
        BY PlanAssumption
    <2>3. Chain[u][c] \in Remotes
        BY <2>1, <2>2
    <2> QED BY <2>1, <2>3 DEF Remotes
<1>3. DiskStep(t)
    BY StepOnDisk
<1> QED BY <1>1, <1>2, <1>3 DEF DiskStep, TypeOK

\* A result that counts as success has a file; completed runs have only such.
Delivered(t) ==
    result[t] \in {"validated", "skipped"} => \E f \in Destinations(t) : disk[f] # "absent"
DiskOK ==
    /\ \A t \in Tasks : Delivered(t)
    /\ verdict = "completed" => \A t \in Tasks : result[t] \in {"validated", "skipped"}

LEMMA OwnDelivery ==
    ASSUME TypeOK, StageOK, NEW t \in Tasks, Step(t), Delivered(t)
    PROVE  Delivered(t)'
<1>1. Remote(t).file \in Destinations(t) /\ Remote(t).file \in Files
    BY OwnDestination, RemoteType
<1>2. CASE pc[t] = "quiet"
    BY <1>2, CoroutineStep, StepOnDisk DEF DiskStep, Delivered
<1>3. CASE result'[t] = result[t] /\ pc[t] # "quiet"
    <2>1. result[t] = "none"
        BY <1>3, CoroutineStep DEF StageOK
    <2> QED BY <1>3, <2>1 DEF Delivered
<1>4. CASE SkipExisting(t)
    BY <1>1, <1>4 DEF SkipExisting, Exists, Delivered
<1>5. CASE ProcessSucceeds(t)
    BY <1>1, <1>5 DEF ProcessSucceeds, Delivered, TypeOK
<1>6. CASE TransferFails(t) \/ ProcessFails(t)
    <2>1. result'[t] \in {result[t], "failed", "cancelled"}
        BY <1>6 DEF TransferFails, ProcessFails, RetryOrFail, FailCandidate, Settle, TypeOK
    <2>2. result[t] = "none"
        <3>1. pc[t] \in {"transfer", "process"}
            BY <1>6 DEF TransferFails, ProcessFails
        <3> QED BY <3>1 DEF StageOK
    <2> QED BY <2>1, <2>2 DEF Delivered
<1>7. CASE AcquireProvider(t)
    BY <1>7, StageOK DEF AcquireProvider, Delivered, TypeOK, StageOK
<1>8. CASE \/ Enter(t) \/ AcquireGlobal(t) \/ CandidateRaises(t) \/ StartTransfer(t)
           \/ TransferSucceeds(t) \/ BackoffEnds(t) \/ QuietEnds(t)
    <2>1. result'[t] = result[t]
        BY <1>8 DEF Enter, AcquireGlobal, CandidateRaises, StartTransfer,
                    TransferSucceeds, BackoffEnds, QuietEnds
    <2> QED BY <1>2, <1>3, <2>1
<1> QED BY <1>4, <1>5, <1>6, <1>7, <1>8 DEF Step

LEMMA DeliveryStep ==
    ASSUME TypeOK, StageOK, Distinct, DiskOK, [Next]_vars PROVE DiskOK'
<1>1. ASSUME NEW t \in Tasks, Step(t) PROVE DiskOK'
    <2>1. ASSUME NEW u \in Tasks \ {t} PROVE Delivered(u)'
        <3>1. result'[u] = result[u]
            BY <1>1, OnlyOwnEvents
        <3>2. \A f \in Destinations(u) : disk'[f] = disk[f]
            BY <1>1, OthersOnDisk
        <3> QED BY <3>1, <3>2 DEF DiskOK, Delivered
    <2>2. Delivered(t)'
        BY <1>1, OwnDelivery DEF DiskOK
    <2>3. verdict = "none" /\ verdict' = "none"
        BY <1>1, CoroutineStep DEF StageOK
    <2> QED BY <2>1, <2>2, <2>3 DEF DiskOK
<1>2. CASE Finish
    <2>1. \A t \in Tasks : result[t] # "none"
        BY <1>2 DEF Finish, StageOK
    <2>2. verdict' = "completed" => \A t \in Tasks : result[t] \in {"validated", "skipped"}
        BY <1>2, <2>1 DEF Finish, Terminal, Counted, TypeOK
    <2> QED BY <1>2, <2>2 DEF Finish, DiskOK, Delivered
<1>3. ASSUME NEW v \in {"error", "crash"}, TearDown(v) PROVE DiskOK'
    BY <1>3 DEF TearDown, DiskOK, Delivered
<1>4. CASE Cancel \/ UNCHANGED vars
    BY <1>4 DEF Cancel, vars, DiskOK, Delivered
<1>5. CASE RunAgain
    BY <1>5 DEF RunAgain, Everywhere, DiskOK, Delivered
<1> QED BY <1>1, <1>2, <1>3, <1>4, <1>5 DEF Next, Abort, Crash, Rest

\* A run reports completion only when each of its tasks has a file in the
\* archive, at its own destination or at that of a fallback.
THEOREM CompletedIsPresent ==
    ASSUME Distinct PROVE Safety => []CompletedMeansPresent
<1>1. Init => DiskOK
    BY DEF Init, Everywhere, DiskOK, Delivered
<1>2. TypeOK /\ StageOK /\ DiskOK /\ [Next]_vars => DiskOK'
    BY DeliveryStep
<1>3. DiskOK => CompletedMeansPresent
    BY DEF DiskOK, Delivered, CompletedMeansPresent
<1> QED BY <1>1, <1>2, <1>3, TypeCorrect, StageInvariant, PTL DEF Safety

-----------------------------------------------------------------------------
(* A delivered file is not written again without overwrite.                *)

\* Whoever transfers without overwrite met no processed file there.
NotOver(t) ==
    t \notin Overwrite /\ pc[t] \in {"transfer", "process", "backoff"}
        => disk[Remote(t).file] # "kept"
NoneOver == \A t \in Tasks : NotOver(t)

LEMMA OwnOver ==
    ASSUME TypeOK, NEW t \in Tasks, Step(t), NotOver(t) PROVE NotOver(t)'
<1>1. Remote(t).file \in Files
    BY RemoteType
<1>2. CASE StartTransfer(t)
    BY <1>2 DEF StartTransfer, Exists, NotOver, Remote
<1>3. CASE TransferSucceeds(t)
    BY <1>1, <1>3 DEF TransferSucceeds, NotOver, Remote, TypeOK
<1>4. CASE BackoffEnds(t)
    BY <1>4 DEF BackoffEnds, NotOver, Remote
<1>5. CASE (TransferFails(t) \/ ProcessFails(t)) /\ pc'[t] \notin {"transfer", "process", "backoff"}
    BY <1>5 DEF NotOver
<1>6. CASE (TransferFails(t) \/ ProcessFails(t)) /\ pc'[t] \in {"transfer", "process", "backoff"}
    <2>1. cand' = cand /\ pc[t] \in {"transfer", "process"}
        BY <1>6 DEF TransferFails, ProcessFails, RetryOrFail, FailCandidate, Settle, TypeOK
    <2>2. disk' = disk \/ \E s \in {"raw", "absent"} : disk' = [disk EXCEPT ![Remote(t).file] = s]
        BY <1>6 DEF TransferFails, ProcessFails
    <2> QED BY <1>1, <2>1, <2>2 DEF NotOver, Remote, TypeOK
<1>7. CASE \/ Enter(t) \/ AcquireGlobal(t) \/ AcquireProvider(t) \/ CandidateRaises(t)
           \/ SkipExisting(t) \/ ProcessSucceeds(t) \/ QuietEnds(t)
    <2>1. pc'[t] \notin {"transfer", "process", "backoff"}
        BY <1>7 DEF Enter, AcquireGlobal, AcquireProvider, CandidateRaises, SkipExisting,
                    ProcessSucceeds, QuietEnds, Settle, TypeOK
    <2> QED BY <2>1 DEF NotOver
<1> QED BY <1>2, <1>3, <1>4, <1>5, <1>6, <1>7 DEF Step

LEMMA OverStep == ASSUME TypeOK, Distinct, NoneOver, [Next]_vars PROVE NoneOver'
<1>1. ASSUME NEW t \in Tasks, Step(t) PROVE NoneOver'
    <2>1. ASSUME NEW u \in Tasks \ {t} PROVE NotOver(u)'
        <3>1. pc'[u] = pc[u] /\ cand'[u] = cand[u]
            BY <1>1, OnlyOwnEvents, CoroutineStep DEF ResultStep, TypeOK, EventsOf
        <3>2. disk'[Remote(u).file] = disk[Remote(u).file]
            BY <1>1, OthersOnDisk, OwnDestination
        <3> QED BY <3>1, <3>2 DEF NoneOver, NotOver, Remote
    <2>2. NotOver(t)'
        BY <1>1, OwnOver DEF NoneOver
    <2> QED BY <2>1, <2>2 DEF NoneOver
<1>2. CASE Finish \/ Cancel \/ UNCHANGED vars
    BY <1>2 DEF Finish, Cancel, vars, NoneOver, NotOver, Remote
<1>3. ASSUME NEW v \in {"error", "crash"}, TearDown(v) PROVE NoneOver'
    BY <1>3 DEF TearDown, NoneOver, NotOver, TypeOK
<1>4. CASE RunAgain
    BY <1>4 DEF RunAgain, Everywhere, NoneOver, NotOver
<1> QED BY <1>1, <1>2, <1>3, <1>4 DEF Next, Abort, Crash, Rest

\* A delivered file that no task may overwrite is the same after every step of
\* any run, retry, crash or repetition.
THEOREM DeliveredIsKept ==
    ASSUME Distinct PROVE Safety => DeliveredKept
<1>1. Init => NoneOver
    BY DEF Init, Everywhere, NoneOver, NotOver
<1>2. TypeOK /\ NoneOver /\ [Next]_vars => NoneOver'
    BY OverStep
<1>3. ASSUME TypeOK, NoneOver, [Next]_vars, NEW f \in Files, disk[f] = "kept",
             \A t \in Overwrite : f \notin Destinations(t)
      PROVE  disk'[f] = "kept"
    <2>1. ASSUME NEW t \in Tasks, Step(t) PROVE disk'[f] = disk[f]
        <3>1. CASE disk' = disk
            BY <3>1
        <3>2. CASE pc[t] \in {"transfer", "process"} /\ f # Remote(t).file
            BY <1>3, <2>1, <3>2, StepOnDisk DEF DiskStep, TypeOK
        <3>3. CASE pc[t] \in {"transfer", "process"} /\ f = Remote(t).file
            BY <1>3, <3>3, OwnDestination DEF NoneOver, NotOver
        <3> QED BY <2>1, <3>1, <3>2, <3>3, StepOnDisk DEF DiskStep
    <2>2. CASE Finish \/ Abort \/ Crash \/ Cancel \/ RunAgain \/ UNCHANGED vars
        BY <1>3, <2>2 DEF Finish, Abort, Crash, TearDown, Cancel, RunAgain, vars
    <2> QED BY <1>3, <2>1, <2>2 DEF Next, Rest
<1>4. TypeOK /\ NoneOver /\ [Next]_vars
        => [\A f \in Files : (disk[f] = "kept" /\ \A t \in Overwrite : f \notin Destinations(t))
                => disk'[f] = "kept"]_vars
    BY <1>3
<1> QED BY <1>1, <1>2, <1>4, TypeCorrect, PTL DEF Safety, DeliveredKept
=============================================================================
