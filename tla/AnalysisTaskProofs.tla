------------------------- MODULE AnalysisTaskProofs -------------------------
(* Safety of AnalysisTask for every set of tasks and holdings, every       *)
(* capacity of the semaphore and every number of crashes and faults: the   *)
(* slots, the table, what polls may show of holdings and pipeline steps,   *)
(* and that the store implements TaskPromise.                              *)
EXTENDS TaskView, FiniteSetTheorems, TLAPS

-----------------------------------------------------------------------------
(* The inductive invariant.  Neither TypeOK nor SlotsExact is inductive   *)
(* alone: slots stays in Nat only because it counts its holders, and an    *)
(* upsert writes the status of a task that still has an entry, because the *)
(* cleanup never reaches one with an upsert in flight.                     *)

\* Where a goroutine cannot be any more, or not yet, and what follows for its task.
Lifecycle ==
    /\ \A t \in Tasks :
          /\ pc[t] = "idle" => status[t] = "absent" /\ row[t] = "none" /\ cur[t] = NoHolding
          /\ pc[t] \in Working => status[t] \in Live /\ row[t] \notin Terminal
          /\ owed[t] => pc[t] \notin {"idle", "dead"} /\ status[t] # "absent"
          /\ fill[t] # "none" => pc[t] \in {"end", "dead"}
          /\ t \in aged => pc[t] \in {"end", "dead"} /\ ~owed[t]
          /\ ~up => pc[t] \in {"idle", "dead"}
    /\ cut \subseteq aged
    /\ ~up => cut = {}

IInv == TypeOK /\ SlotsExact /\ Lifecycle

\* Only finitely many tasks can be inside the pipeline at once.
LEMMA HoldersFinite ==
    /\ IsFiniteSet(Holders)
    /\ Cardinality(Holders) \in Nat
  <1>1. Holders \subseteq Tasks
    BY DEF Holders
  <1>2. IsFiniteSet(Holders)
    BY <1>1, FS_Subset, ConstantsAssumption DEF ConstantsAssumption
  <1> QED
    BY <1>2, FS_CardinalityType

\* A task inside the pipeline is counted by the semaphore, beside the scheduled
\* analyses; without it there is one holder less.
LEMMA HolderCounted ==
    ASSUME IInv, NEW t \in Holders
    PROVE  /\ slots > cron
           /\ Cardinality(Holders \ {t}) = Cardinality(Holders) - 1
  <1>1. Cardinality(Holders \ {t}) = Cardinality(Holders) - 1
    BY HoldersFinite, FS_RemoveElement
  <1>2. IsFiniteSet(Holders \ {t})
    BY HoldersFinite, FS_RemoveElement
  <1>3. Cardinality(Holders \ {t}) \in Nat
    BY <1>2, FS_CardinalityType
  <1>4. Cardinality(Holders) \in Nat /\ cron \in Nat /\ slots = Cardinality(Holders) + cron
    BY HoldersFinite DEF IInv, TypeOK, SlotsExact
  <1> QED
    BY <1>1, <1>3, <1>4

\* What the store shows of a task without holdings, or before its first step.
LEMMA BlankTypes ==
    /\ NoHoldings \in [Holdings -> StepState]
    /\ NoSteps \in [StepKeys -> StepState]
    /\ DefaultSteps \in [StepKeys -> StepState]
  BY DEF NoHoldings, NoSteps, DefaultSteps, StepState

\* Nothing runs at first.
LEMMA InvInit == Init => IInv
  <1> SUFFICES ASSUME Init PROVE IInv
    OBVIOUS
  <1>1. TypeOK
    BY ConstantsAssumption
    DEF Init, TypeOK, ConstantsAssumption, NoHoldings, NoSteps, StepState, StepKeys, Live, Terminal
  <1>2. Holders = {}
    BY DEF Init, Holders
  <1>3. SlotsExact
    BY <1>2, FS_EmptySet, ConstantsAssumption DEF Init, SlotsExact, ConstantsAssumption
  <1>4. Lifecycle
    BY DEF Init, Lifecycle, Working
  <1> QED
    BY <1>1, <1>3, <1>4 DEF IInv

\* Every step keeps the types, the releases because they give back a counted slot.
LEMMA TypeNext == IInv /\ [Next]_vars => TypeOK'
  <1> SUFFICES ASSUME TypeOK, SlotsExact, Lifecycle, [Next]_vars PROVE TypeOK'
    BY DEF IInv
  <1> USE ConstantsAssumption DEF ConstantsAssumption, Live, Terminal, StepState
  <1>0. IInv /\ slots \in Nat /\ cron \in Nat
    BY DEF IInv, TypeOK
  <1>1. ASSUME NEW t \in Tasks, TriggerAnalysis(t) PROVE TypeOK'
    BY <1>1 DEF TypeOK, TriggerAnalysis, Create, SetStatus, Go, DefaultSteps, NoHoldings, StepKeys,
       sem, sweep, env
  <1>2. ASSUME NEW t \in Tasks, NEW h \in Holdings, TriggerSingleAnalysis(t, h) PROVE TypeOK'
    BY <1>2 DEF TypeOK, TriggerSingleAnalysis, Create, SetStatus, Go, DefaultSteps, NoHoldings, StepKeys,
       sem, sweep, env
  <1>3. ASSUME NEW t \in Tasks, Work(t) PROVE TypeOK'
    <2>1. CASE Begin(t)
      BY <2>1 DEF TypeOK, Begin, At, SetStatus, Go, sem, sweep, env
    <2>2. CASE Fail(t)
      BY <2>2 DEF TypeOK, Fail, At, SetStatus, Go, sem, sweep, env
    <2>3. CASE ListHoldings(t)
      BY <2>3 DEF TypeOK, ListHoldings, At, Go, store, sem, sweep, env
    <2>4. CASE InitHoldings(t)
      BY <2>4 DEF TypeOK, InitHoldings, At, Go, DefaultSteps, StepKeys, sem, sweep, env
    <2>5. CASE UpdateProgress(t)
      BY <2>5 DEF TypeOK, UpdateProgress, At, SetStatus, Go, sem, sweep, env
    <2>6. CASE SetCurrentHolding(t)
      BY <2>6 DEF TypeOK, SetCurrentHolding, At, Go, DefaultSteps, StepKeys, sem, sweep, env
    <2>7. CASE MarkHoldingRunning(t)
      BY <2>7 DEF TypeOK, MarkHoldingRunning, At, Go, sem, sweep, env
    <2>8. CASE StartStep(t)
      BY <2>8 DEF TypeOK, StartStep, At, Go, sem, sweep, env
    <2>9. CASE CompleteStep(t)
      <3>1. t \in Holders /\ slots - 1 \in Nat
        <4>1. t \in Holders
          BY <2>9 DEF CompleteStep, At, Holders
        <4>2. slots > cron
          BY <1>0, <4>1, HolderCounted
        <4> QED
          BY <1>0, <4>1, <4>2
      <3>2. stage[t] # 5 => stage[t] + 1 \in StepKeys
        <4>1. stage[t] \in StepKeys
          BY DEF TypeOK
        <4> QED
          BY <4>1 DEF StepKeys
      <3> QED
        <4>1. CASE stage[t] = 5
          BY <2>9, <3>1, <4>1 DEF TypeOK, CompleteStep, Return, At, Go, sweep, env
        <4>2. CASE stage[t] # 5
          <5>1. /\ stage' \in [Tasks -> StepKeys]
                /\ steps' \in [Tasks -> [StepKeys -> StepState]]
                /\ UNCHANGED <<slots, result>>
            BY <2>9, <3>2, <4>2 DEF TypeOK, CompleteStep
          <5> QED
            BY <2>9, <4>2, <5>1 DEF TypeOK, CompleteStep, Go, sweep, env
        <4> QED
          BY <4>1, <4>2
    <2>10. CASE FailStep(t)
      <3>1. t \in Holders /\ slots - 1 \in Nat
        <4>1. t \in Holders
          BY <2>10 DEF FailStep, At, Holders
        <4>2. slots > cron
          BY <1>0, <4>1, HolderCounted
        <4> QED
          BY <1>0, <4>1, <4>2
      <3> QED
        BY <2>10, <3>1 DEF TypeOK, FailStep, Return, At, Go, sweep, env
    <2>11. CASE ReportHolding(t)
      BY <2>11 DEF TypeOK, ReportHolding, At, Go, sem, sweep, env
    <2>12. CASE Complete(t)
      BY <2>12 DEF TypeOK, Complete, At, SetStatus, Go, sem, sweep, env
    <2> QED
      BY <1>3, <2>1, <2>2, <2>3, <2>4, <2>5, <2>6, <2>7, <2>8, <2>9, <2>10, <2>11, <2>12 DEF Work
  <1>4. ASSUME NEW t \in Tasks, AcquireSlot(t) PROVE TypeOK'
    BY <1>4 DEF TypeOK, AcquireSlot, At, Go, StepKeys, store, sweep, env
  <1>5. ASSUME NEW t \in Tasks, Upsert(t) PROVE TypeOK'
    <2>1. CASE Persist(t)
      <3>1. status[t] \in Live \cup Terminal
        BY <2>1 DEF TypeOK, Lifecycle, Persist
      <3> QED
        BY <2>1, <3>1 DEF TypeOK, Persist, store, worker, sem, sweep, env
    <2>2. CASE PersistFails(t)
      BY <2>2 DEF TypeOK, PersistFails, store, worker, sem, sweep
    <2> QED
      BY <1>5, <2>1, <2>2 DEF Upsert
  <1>6. ASSUME NEW t \in Tasks, Poll(t) PROVE TypeOK'
    <2>1. CASE PollMemory(t)
      BY <2>1 DEF TypeOK, PollMemory, store, worker, sem, sweep, env
    <2>2. CASE PollUnknown(t)
      BY <2>2 DEF TypeOK, PollUnknown, store, worker, sem, sweep, env
    <2>3. CASE PollReadsRow(t)
      BY <2>3 DEF TypeOK, PollReadsRow, store, worker, sem, sweep, env
    <2>4. CASE PollStoresRow(t)
      BY <2>4 DEF TypeOK, PollStoresRow, NoHoldings, NoSteps, StepKeys, worker, sem, sweep, env
    <2>5. CASE PollFails(t)
      BY <2>5 DEF TypeOK, PollFails, store, worker, sem, sweep
    <2> QED
      BY <1>6, <2>1, <2>2, <2>3, <2>4, <2>5 DEF Poll
  <1>7. CASE CronAcquire
    BY <1>7 DEF TypeOK, CronAcquire, store, worker, sweep, env
  <1>8. CASE CronRelease
    <2>1. slots - 1 \in Nat /\ cron - 1 \in Nat
      BY <1>0, <1>8, HoldersFinite DEF CronRelease, SlotsExact
    <2> QED
      BY <1>8, <2>1 DEF TypeOK, CronRelease, store, worker, sweep, env
  <1>9. CASE Cleanup
    <2>1. CASE SweepBegins
      BY <2>1 DEF TypeOK, SweepBegins, store, worker, sem, env
    <2>2. CASE SweepRows
      BY <2>2 DEF TypeOK, SweepRows, store, worker, sem, env
    <2>3. CASE SweepRowsFails
      BY <2>3 DEF TypeOK, SweepRowsFails, store, worker, sem
    <2>4. ASSUME NEW t \in Tasks, Age(t) PROVE TypeOK'
      BY <2>4 DEF TypeOK, Age, store, worker, sem, env
    <2>5. ASSUME NEW t \in Tasks, SweepEntry(t) PROVE TypeOK'
      <3>1. CASE status[t] \in Terminal
        <4>1. /\ holds' \in [Tasks -> [Holdings -> StepState]]
              /\ steps' \in [Tasks -> [StepKeys -> StepState]]
          <5>1. /\ holds' = [holds EXCEPT ![t] = NoHoldings]
                /\ steps' = [steps EXCEPT ![t] = NoSteps]
            BY <2>5, <3>1 DEF SweepEntry
          <5> QED
            BY <5>1, BlankTypes DEF TypeOK
        <4>2. /\ status' \in [Tasks -> {"absent"} \cup Live \cup Terminal]
              /\ cur' \in [Tasks -> Holdings \cup {NoHolding}]
              /\ left' \subseteq cut
          BY <2>5, <3>1 DEF TypeOK, SweepEntry
        <4> QED
          BY <2>5, <4>1, <4>2 DEF TypeOK, SweepEntry, worker, sem, env
      <3>2. CASE status[t] \notin Terminal
        BY <2>5, <3>2 DEF TypeOK, SweepEntry, store, worker, sem, env
      <3> QED
        BY <3>1, <3>2
    <2> QED
      BY <1>9, <2>1, <2>2, <2>3, <2>4, <2>5 DEF Cleanup
  <1>10. CASE Crash
    <2>1. pc' \in [Tasks -> {"idle", "dead"}] /\ crashes' \in 0..MaxCrashes
      BY <1>10 DEF TypeOK, Crash
    <2>2. /\ holds' \in [Tasks -> [Holdings -> StepState]]
          /\ steps' \in [Tasks -> [StepKeys -> StepState]]
          /\ stage' \in [Tasks -> StepKeys]
      BY <1>10, BlankTypes DEF Crash, StepKeys
    <2> QED
      BY <1>10, <2>1, <2>2 DEF TypeOK, Crash
  <1>11. CASE Restart
    BY <1>11 DEF TypeOK, Restart, store, worker, sem
  <1>12. CASE RestartUnrecovered
    BY <1>12 DEF TypeOK, RestartUnrecovered, store, worker, sem, sweep
  <1>13. CASE UNCHANGED vars
    BY <1>13 DEF TypeOK, vars, store, worker, sem, sweep, env
  <1> QED
    BY <1>1, <1>2, <1>3, <1>4, <1>5, <1>6, <1>7, <1>8, <1>9, <1>10, <1>11, <1>12, <1>13 DEF Next

\* A step that moves no task into or out of the pipeline and leaves the semaphore
\* alone.
LEMMA SlotsSame ==
    ASSUME SlotsExact, UNCHANGED sem,
           \A t \in Tasks : pc'[t] \in {"step", "work"} <=> pc[t] \in {"step", "work"}
    PROVE  SlotsExact'
  <1>1. Holders' = Holders
    BY DEF Holders
  <1> QED
    BY <1>1 DEF SlotsExact, sem

\* Leaving the pipeline with the deferred release.
LEMMA SlotsReturn ==
    ASSUME IInv, NEW t \in Holders, NEW outcome, Return(t, outcome), cron' = cron
    PROVE  SlotsExact'
  <1>1. Holders' = Holders \ {t}
    BY DEF IInv, TypeOK, Return, Go, Holders
  <1>2. Cardinality(Holders) \in Nat /\ cron \in Nat /\ Concurrency \in Nat
    BY HoldersFinite, ConstantsAssumption DEF IInv, TypeOK, ConstantsAssumption
  <1> QED
    BY <1>1, <1>2, HolderCounted DEF IInv, SlotsExact, Return

\* Every step keeps the count.
LEMMA SlotsNext == IInv /\ [Next]_vars => SlotsExact'
  <1> SUFFICES ASSUME IInv, [Next]_vars PROVE SlotsExact'
    OBVIOUS
  <1>1. TypeOK /\ SlotsExact
    BY DEF IInv
  <1>2. /\ Cardinality(Holders) \in Nat /\ IsFiniteSet(Holders)
        /\ cron \in Nat /\ slots \in Nat /\ Concurrency \in Nat
    BY <1>1, HoldersFinite, ConstantsAssumption DEF TypeOK, ConstantsAssumption
  <1>3. ASSUME NEW t \in Tasks, TriggerAnalysis(t) PROVE SlotsExact'
    BY <1>1, <1>3, SlotsSame DEF TypeOK, TriggerAnalysis, Create, Go
  <1>4. ASSUME NEW t \in Tasks, NEW h \in Holdings, TriggerSingleAnalysis(t, h) PROVE SlotsExact'
    BY <1>1, <1>4, SlotsSame DEF TypeOK, TriggerSingleAnalysis, Create, Go
  <1>5. ASSUME NEW t \in Tasks, Work(t) PROVE SlotsExact'
    <2>1. CASE CompleteStep(t)
      <3>1. t \in Holders
        BY <2>1 DEF CompleteStep, At, Holders
      <3>2. CASE stage[t] = 5
        BY <2>1, <3>1, <3>2, SlotsReturn DEF CompleteStep
      <3>3. CASE stage[t] # 5
        BY <1>1, <2>1, <3>3, SlotsSame DEF TypeOK, CompleteStep, At, Go, sem
      <3> QED
        BY <3>2, <3>3
    <2>2. CASE FailStep(t)
      <3>1. t \in Holders
        BY <2>2 DEF FailStep, At, Holders
      <3> QED
        BY <2>2, <3>1, SlotsReturn DEF FailStep
    <2>3. CASE StartStep(t)
      BY <1>1, <2>3, SlotsSame DEF TypeOK, StartStep, At, Go
    <2>4. CASE Begin(t) \/ Fail(t) \/ ListHoldings(t) \/ InitHoldings(t)
      BY <1>1, <2>4, SlotsSame DEF TypeOK, Begin, Fail, ListHoldings, InitHoldings, At, Go
    <2>5. CASE UpdateProgress(t) \/ SetCurrentHolding(t) \/ MarkHoldingRunning(t)
      BY <1>1, <2>5, SlotsSame
      DEF TypeOK, UpdateProgress, SetCurrentHolding, MarkHoldingRunning, At, Go
    <2>6. CASE ReportHolding(t) \/ Complete(t)
      BY <1>1, <2>6, SlotsSame DEF TypeOK, ReportHolding, Complete, At, Go
    <2> QED
      BY <1>5, <2>1, <2>2, <2>3, <2>4, <2>5, <2>6 DEF Work
  <1>6. ASSUME NEW t \in Tasks, AcquireSlot(t) PROVE SlotsExact'
    <2>1. t \notin Holders /\ Holders' = Holders \cup {t}
      BY <1>1, <1>6 DEF TypeOK, AcquireSlot, At, Go, Holders
    <2>2. Cardinality(Holders') = Cardinality(Holders) + 1
      BY <1>2, <2>1, FS_AddElement
    <2> QED
      BY <1>1, <1>2, <1>6, <2>2 DEF SlotsExact, AcquireSlot
  <1>7. ASSUME NEW t \in Tasks, Upsert(t) \/ Poll(t) PROVE SlotsExact'
    BY <1>1, <1>7, SlotsSame
    DEF Upsert, Persist, PersistFails, Poll, PollMemory, PollUnknown, PollReadsRow, PollStoresRow,
        PollFails, worker
  <1>8. CASE CronAcquire
    <2>1. Holders' = Holders
      BY <1>8 DEF CronAcquire, worker, Holders
    <2> QED
      BY <1>1, <1>2, <1>8, <2>1 DEF SlotsExact, CronAcquire
  <1>9. CASE CronRelease
    <2>1. Holders' = Holders
      BY <1>9 DEF CronRelease, worker, Holders
    <2> QED
      BY <1>1, <1>2, <1>9, <2>1 DEF SlotsExact, CronRelease
  <1>10. CASE Cleanup
    BY <1>1, <1>10, SlotsSame
    DEF Cleanup, SweepBegins, SweepRows, SweepRowsFails, Age, SweepEntry, worker
  <1>11. CASE Crash
    <2>1. Holders' = {}
      BY <1>11 DEF Crash, Holders
    <2> QED
      BY <1>2, <1>11, <2>1, FS_EmptySet DEF SlotsExact, Crash
  <1>12. CASE Restart \/ RestartUnrecovered
    BY <1>1, <1>12, SlotsSame DEF Restart, RestartUnrecovered, worker
  <1>13. CASE UNCHANGED vars
    BY <1>1, <1>13, SlotsSame DEF vars, worker
  <1> QED
    BY <1>3, <1>4, <1>5, <1>6, <1>7, <1>8, <1>9, <1>10, <1>11, <1>12, <1>13 DEF Next

\* A step of one task leaves what the lifecycle says of the others as it is.
LEMMA LifecycleNext == IInv /\ [Next]_vars => Lifecycle'
  <1> SUFFICES ASSUME TypeOK, Lifecycle, [Next]_vars PROVE Lifecycle'
    BY DEF IInv
  <1> USE DEF Working, Live, Terminal
  <1>1. ASSUME NEW t \in Tasks, TriggerAnalysis(t) PROVE Lifecycle'
    BY <1>1 DEF TypeOK, Lifecycle, TriggerAnalysis, Create, SetStatus, Go, sem, sweep, env
  <1>2. ASSUME NEW t \in Tasks, NEW h \in Holdings, TriggerSingleAnalysis(t, h) PROVE Lifecycle'
    BY <1>2 DEF TypeOK, Lifecycle, TriggerSingleAnalysis, Create, SetStatus, Go, sem, sweep, env
  <1>3. ASSUME NEW t \in Tasks, Work(t) PROVE Lifecycle'
    <2>1. CASE Begin(t)
      BY <2>1 DEF TypeOK, Lifecycle, Begin, At, SetStatus, Go, sem, sweep, env
    <2>2. CASE UpdateProgress(t)
      BY <2>2 DEF TypeOK, Lifecycle, UpdateProgress, At, SetStatus, Go, sem, sweep, env
    <2>3. CASE Fail(t)
      BY <2>3 DEF TypeOK, Lifecycle, Fail, At, SetStatus, Go, sem, sweep, env
    <2>4. CASE Complete(t)
      BY <2>4 DEF TypeOK, Lifecycle, Complete, At, SetStatus, Go, sem, sweep, env
    <2>5. CASE ListHoldings(t)
      BY <2>5 DEF TypeOK, Lifecycle, ListHoldings, At, Go, store, sem, sweep, env
    <2>6. CASE InitHoldings(t)
      BY <2>6 DEF TypeOK, Lifecycle, InitHoldings, At, Go, sem, sweep, env
    <2>7. CASE SetCurrentHolding(t)
      BY <2>7 DEF TypeOK, Lifecycle, SetCurrentHolding, At, Go, sem, sweep, env
    <2>8. CASE MarkHoldingRunning(t)
      BY <2>8 DEF TypeOK, Lifecycle, MarkHoldingRunning, At, Go, sem, sweep, env
    <2>9. CASE StartStep(t)
      BY <2>9 DEF TypeOK, Lifecycle, StartStep, At, Go, sem, sweep, env
    <2>10. CASE ReportHolding(t)
      BY <2>10 DEF TypeOK, Lifecycle, ReportHolding, At, Go, sem, sweep, env
    <2>11. CASE CompleteStep(t) \/ FailStep(t)
      <3>1. /\ pc' \in {[pc EXCEPT ![t] = "step"], [pc EXCEPT ![t] = "report"]}
            /\ pc[t] = "work" /\ up /\ ~owed[t]
            /\ UNCHANGED <<status, cur, row, owed, fill, sweep, env>>
        BY <2>11 DEF CompleteStep, FailStep, Return, Go, At
      <3> QED
        BY <3>1 DEF TypeOK, Lifecycle, sweep, env
    <2> QED
      BY <1>3, <2>1, <2>2, <2>3, <2>4, <2>5, <2>6, <2>7, <2>8, <2>9, <2>10, <2>11 DEF Work
  <1>4. ASSUME NEW t \in Tasks, AcquireSlot(t) PROVE Lifecycle'
    BY <1>4 DEF TypeOK, Lifecycle, AcquireSlot, At, Go, store, sweep, env
  <1>5. ASSUME NEW t \in Tasks, Upsert(t) PROVE Lifecycle'
    <2>1. CASE Persist(t)
      BY <2>1 DEF TypeOK, Lifecycle, Persist, store, worker, sweep, env
    <2>2. CASE PersistFails(t)
      BY <2>2 DEF TypeOK, Lifecycle, PersistFails, store, worker, sweep
    <2> QED
      BY <1>5, <2>1, <2>2 DEF Upsert
  <1>6. ASSUME NEW t \in Tasks, Poll(t) PROVE Lifecycle'
    <2>1. CASE PollMemory(t) \/ PollUnknown(t) \/ PollFails(t)
      BY <2>1 DEF Lifecycle, PollMemory, PollUnknown, PollFails, store, worker, sweep, env
    <2>2. CASE PollReadsRow(t)
      BY <2>2 DEF TypeOK, Lifecycle, PollReadsRow, store, worker, sweep, env
    <2>3. CASE PollStoresRow(t)
      BY <2>3 DEF TypeOK, Lifecycle, PollStoresRow, worker, sweep, env
    <2> QED
      BY <1>6, <2>1, <2>2, <2>3 DEF Poll
  <1>7. CASE CronAcquire \/ CronRelease
    BY <1>7 DEF Lifecycle, CronAcquire, CronRelease, store, worker, sweep, env
  <1>8. CASE Cleanup
    <2>1. CASE SweepBegins \/ SweepRowsFails
      BY <2>1 DEF TypeOK, Lifecycle, SweepBegins, SweepRowsFails, store, worker, env
    <2>2. CASE SweepRows
      BY <2>2 DEF TypeOK, Lifecycle, SweepRows, store, worker, env
    <2>3. ASSUME NEW t \in Tasks, Age(t) PROVE Lifecycle'
      BY <2>3 DEF TypeOK, Lifecycle, Age, store, worker, env
    <2>4. ASSUME NEW t \in Tasks, SweepEntry(t) PROVE Lifecycle'
      BY <2>4 DEF TypeOK, Lifecycle, SweepEntry, store, worker, env
    <2> QED
      BY <1>8, <2>1, <2>2, <2>3, <2>4 DEF Cleanup
  <1>9. CASE Crash
    BY <1>9 DEF TypeOK, Lifecycle, Crash
  <1>10. CASE Restart
    BY <1>10 DEF TypeOK, Lifecycle, Restart, store, worker
  <1>11. CASE RestartUnrecovered
    BY <1>11 DEF TypeOK, Lifecycle, RestartUnrecovered, store, worker, sweep
  <1>12. CASE UNCHANGED vars
    BY <1>12 DEF Lifecycle, vars, store, worker, sweep, env
  <1> QED
    BY <1>1, <1>2, <1>3, <1>4, <1>5, <1>6, <1>7, <1>8, <1>9, <1>10, <1>11, <1>12 DEF Next

\* The invariant holds of every behaviour.
THEOREM Inductive == Spec => []IInv
  <1>1. IInv /\ [Next]_vars => IInv'
    BY TypeNext, SlotsNext, LifecycleNext DEF IInv
  <1> QED
    BY InvInit, <1>1, PTL DEF Spec

\* The semaphore of acquireSlot is never leaked, released twice or overdrawn.
THEOREM SemaphoreSafe == Spec => [](TypeOK /\ SlotsExact)
  <1>1. IInv => TypeOK /\ SlotsExact
    BY DEF IInv
  <1> QED
    BY Inductive, <1>1, PTL

\* No poll shows the end of a task that its goroutine still works on.
THEOREM PollsWaitForWork == Spec => []WorkingIsLive
  <1>1. IInv => WorkingIsLive
    BY DEF IInv, Lifecycle, WorkingIsLive
  <1> QED
    BY Inductive, <1>1, PTL

\* All variables keep their types.
THEOREM TypesKept == Spec => []TypeOK
  <1>1. IInv => TypeOK
    BY DEF IInv
  <1> QED
    BY Inductive, <1>1, PTL

-----------------------------------------------------------------------------
(* The map, the table and what polls have read of it.                      *)

\* A row that a poll has read stays what it was until the poll puts it in the map,
\* or is removed; what a poll has shown as finished is finished in both, and so is
\* what a crash has orphaned, unless the database has refused to write it.
StoreOf(t) ==
    /\ ~up => status[t] = "absent" /\ fill[t] = "none"
    /\ fill[t] # "none" =>
          /\ status[t] = "absent"
          /\ row[t] = fill[t] \/ (row[t] = "none" /\ fill[t] \in Terminal)
    /\ owed[t] /\ pc[t] = "end" => status[t] \in Terminal
    /\ seen[t] \in Terminal => pc[t] \in {"end", "dead"}
    /\ up /\ status[t] # "absent" /\ ~owed[t] /\ ~stale[t] =>
          row[t] = status[t] \/ (row[t] = "none" /\ status[t] \in Terminal)
    /\ seen[t] \in Terminal /\ ~stale[t] =>
          /\ status[t] \notin Live /\ fill[t] \notin Live
          /\ up /\ ~owed[t] => row[t] \notin Live
    /\ pc[t] = "dead" /\ ~stale[t] =>
          /\ status[t] \notin Live /\ fill[t] \notin Live
          /\ up => row[t] \notin Live

StoreInv == \A t \in Tasks : StoreOf(t)

\* What is said of a task that nothing is done to stays true.
LEMMA StoreSame ==
    ASSUME NEW t \in Tasks, StoreOf(t),
           UNCHANGED <<up, status[t], row[t], fill[t], owed[t], pc[t], seen[t], stale[t]>>
    PROVE  StoreOf(t)'
  BY DEF StoreOf

\* Every step keeps map, table and polls in agreement.
LEMMA StoreNext == IInv /\ StoreInv /\ [Next]_vars => StoreInv'
  <1> SUFFICES ASSUME TypeOK, Lifecycle, StoreInv, [Next]_vars, NEW u \in Tasks
               PROVE  StoreOf(u)'
    BY DEF IInv, StoreInv
  <1>0. StoreOf(u)
    BY DEF StoreInv
  <1> USE DEF Working, Live, Terminal
  <1>1. ASSUME NEW t \in Tasks, TriggerAnalysis(t) \/ \E h \in Holdings : TriggerSingleAnalysis(t, h)
        PROVE  StoreOf(u)'
    <2>1. CASE u # t
      BY <1>0, <1>1, <2>1, StoreSame
         DEF TypeOK, TriggerAnalysis, TriggerSingleAnalysis, Create, SetStatus, Go, env
    <2>2. CASE u = t
      BY <1>0, <1>1, <2>2
         DEF TypeOK, Lifecycle, StoreOf, TriggerAnalysis, TriggerSingleAnalysis, Create, SetStatus, Go, env
    <2> QED
      BY <2>1, <2>2
  <1>2. ASSUME NEW t \in Tasks, Work(t) PROVE StoreOf(u)'
    <2>1. CASE Begin(t) \/ UpdateProgress(t) \/ Fail(t) \/ Complete(t)
      <3>1. /\ pc[t] \in Working /\ pc'[t] \notin {"idle", "dead"} /\ up /\ owed'[t]
            /\ status'[t] = "running" \/ (status'[t] \in Terminal /\ pc'[t] = "end")
            /\ pc'[t] = "end" => status'[t] \in Terminal
            /\ UNCHANGED <<row, fill, seen, stale, up>>
            /\ \A q \in Tasks \ {t} : pc'[q] = pc[q] /\ status'[q] = status[q] /\ owed'[q] = owed[q]
        BY <2>1 DEF TypeOK, Begin, UpdateProgress, Fail, Complete, At, SetStatus, Go, env
      <3>2. CASE u # t
        BY <1>0, <3>1, <3>2, StoreSame
      <3>3. CASE u = t
        BY <1>0, <3>1, <3>3 DEF TypeOK, Lifecycle, StoreOf
      <3> QED
        BY <3>2, <3>3
    <2>2. CASE \/ ListHoldings(t) \/ InitHoldings(t) \/ SetCurrentHolding(t) \/ MarkHoldingRunning(t)
               \/ StartStep(t) \/ CompleteStep(t) \/ FailStep(t) \/ ReportHolding(t)
      <3>1. /\ pc[t] \in Working /\ pc'[t] \in Working
            /\ UNCHANGED <<status, owed, row, fill, seen, stale, up>>
            /\ \A q \in Tasks \ {t} : pc'[q] = pc[q]
        BY <2>2 DEF TypeOK, ListHoldings, InitHoldings, SetCurrentHolding, MarkHoldingRunning,
                    StartStep, CompleteStep, FailStep, ReportHolding, Return, At, Go, store, env
      <3>2. CASE u # t
        BY <1>0, <3>1, <3>2, StoreSame
      <3>3. CASE u = t
        BY <1>0, <3>1, <3>3 DEF StoreOf
      <3> QED
        BY <3>2, <3>3
    <2> QED
      BY <1>2, <2>1, <2>2 DEF Work
  <1>3. ASSUME NEW t \in Tasks, AcquireSlot(t) PROVE StoreOf(u)'
    <2>1. /\ pc[t] = "queue" /\ pc'[t] = "step"
          /\ UNCHANGED <<status, owed, row, fill, seen, stale, up>>
          /\ \A q \in Tasks \ {t} : pc'[q] = pc[q]
      BY <1>3 DEF TypeOK, AcquireSlot, At, Go, store, env
    <2>2. CASE u # t
      BY <1>0, <2>1, <2>2, StoreSame
    <2>3. CASE u = t
      BY <1>0, <2>1, <2>3 DEF StoreOf
    <2> QED
      BY <2>2, <2>3
  <1>4. ASSUME NEW t \in Tasks, Upsert(t) PROVE StoreOf(u)'
    <2>1. CASE Persist(t)
      <3>1. CASE u # t
        BY <1>0, <2>1, <3>1, StoreSame DEF TypeOK, Persist, store, worker, env
      <3>2. CASE u = t
        BY <1>0, <2>1, <3>2 DEF TypeOK, Lifecycle, StoreOf, Persist, store, worker, env
      <3> QED
        BY <3>1, <3>2
    <2>2. CASE PersistFails(t)
      <3>1. CASE u # t
        BY <1>0, <2>2, <3>1, StoreSame DEF TypeOK, PersistFails, store, worker
      <3>2. CASE u = t
        BY <1>0, <2>2, <3>2 DEF TypeOK, Lifecycle, StoreOf, PersistFails, store, worker
      <3> QED
        BY <3>1, <3>2
    <2> QED
      BY <1>4, <2>1, <2>2 DEF Upsert
  <1>5. ASSUME NEW t \in Tasks, Poll(t) PROVE StoreOf(u)'
    <2>1. CASE u # t
      BY <1>0, <1>5, <2>1, StoreSame
         DEF TypeOK, Poll, PollMemory, PollUnknown, PollReadsRow, PollStoresRow, PollFails,
             store, worker, env
    <2>2. CASE u = t
      <3>1. CASE PollMemory(t)
        BY <1>0, <2>2, <3>1 DEF TypeOK, Lifecycle, StoreOf, PollMemory, store, worker, env
      <3>2. CASE PollUnknown(t) \/ PollFails(t)
        BY <1>0, <2>2, <3>2 DEF TypeOK, StoreOf, PollUnknown, PollFails, store, worker, env
      <3>3. CASE PollReadsRow(t)
        BY <1>0, <2>2, <3>3 DEF TypeOK, Lifecycle, StoreOf, PollReadsRow, store, worker, env
      <3>4. CASE PollStoresRow(t)
        BY <1>0, <2>2, <3>4 DEF TypeOK, Lifecycle, StoreOf, PollStoresRow, worker, env
      <3> QED
        BY <1>5, <3>1, <3>2, <3>3, <3>4 DEF Poll
    <2> QED
      BY <2>1, <2>2
  <1>6. CASE CronAcquire \/ CronRelease
    BY <1>0, <1>6, StoreSame DEF CronAcquire, CronRelease, store, worker, env
  <1>7. CASE Cleanup
    <2>1. CASE SweepBegins \/ SweepRowsFails
      BY <1>0, <2>1, StoreSame DEF SweepBegins, SweepRowsFails, store, worker, env
    <2>2. CASE SweepRows
      BY <1>0, <2>2 DEF TypeOK, StoreOf, SweepRows, store, worker, env
    <2>3. ASSUME NEW t \in Tasks, Age(t) PROVE StoreOf(u)'
      BY <1>0, <2>3, StoreSame DEF Age, store, worker, env
    <2>4. ASSUME NEW t \in Tasks, SweepEntry(t) PROVE StoreOf(u)'
      <3>1. CASE u # t \/ status[t] \notin Terminal
        BY <1>0, <2>4, <3>1, StoreSame DEF TypeOK, SweepEntry, store, worker, env
      <3>2. CASE u = t /\ status[t] \in Terminal
        <4>1. ~owed[t]
          BY <2>4 DEF TypeOK, Lifecycle, SweepEntry
        <4> QED
          BY <1>0, <2>4, <3>2, <4>1 DEF TypeOK, StoreOf, SweepEntry, worker, env
      <3> QED
        BY <3>1, <3>2
    <2> QED
      BY <1>7, <2>1, <2>2, <2>3, <2>4 DEF Cleanup
  <1>8. CASE Crash
    BY <1>0, <1>8 DEF TypeOK, Lifecycle, StoreOf, Crash
  <1>9. CASE Restart
    BY <1>0, <1>9 DEF TypeOK, StoreOf, Restart, store, worker
  <1>10. CASE RestartUnrecovered
    BY <1>0, <1>10 DEF TypeOK, StoreOf, RestartUnrecovered, store, worker
  <1>11. CASE UNCHANGED vars
    BY <1>0, <1>11, StoreSame DEF vars, store, worker, env
  <1> QED
    BY <1>1, <1>2, <1>3, <1>4, <1>5, <1>6, <1>7, <1>8, <1>9, <1>10, <1>11 DEF Next

\* What map, table and polls hold of a task agrees in every reachable state.
THEOREM StoreInductive == Spec => []StoreInv
  <1>1. Init => StoreInv
    BY DEF Init, StoreInv, StoreOf, Live, Terminal
  <1>2. IInv /\ StoreInv /\ [Next]_vars => StoreInv'
    BY StoreNext
  <1> QED
    BY Inductive, <1>1, <1>2, PTL DEF Spec

\* Between two upserts the table says what the map says, for any number of tasks,
\* faults and crashes.
THEOREM TableAgrees == Spec => []StoreAgrees
  <1>1. StoreInv => StoreAgrees
    BY DEF StoreInv, StoreOf, StoreAgrees
  <1> QED
    BY StoreInductive, <1>1, PTL

\* Only a poll changes what a poll has seen, and shows what the map or the row holds.
LEMMA PollShows ==
    ASSUME TypeOK, [Next]_vars, NEW t \in Tasks, seen'[t] # seen[t]
    PROVE  seen'[t] \in {"gone", status[t], fill[t]}
  <1>1. ASSUME NEW u \in Tasks, Poll(u)
        PROVE  seen'[t] \in {"gone", status[t], fill[t]}
    <2>1. u = t
      BY <1>1 DEF TypeOK, Poll, PollMemory, PollUnknown, PollReadsRow, PollStoresRow, PollFails
    <2> QED
      BY <1>1, <2>1
         DEF TypeOK, Poll, PollMemory, PollUnknown, PollReadsRow, PollStoresRow, PollFails
  <1>2. ASSUME NEW u \in Tasks,
               \/ TriggerAnalysis(u) \/ \E h \in Holdings : TriggerSingleAnalysis(u, h)
               \/ Work(u) \/ AcquireSlot(u) \/ Upsert(u)
        PROVE  UNCHANGED seen
    BY <1>2 DEF TriggerAnalysis, TriggerSingleAnalysis, Create, Work, Begin, Fail, ListHoldings,
                InitHoldings, UpdateProgress, SetCurrentHolding, MarkHoldingRunning, StartStep,
                CompleteStep, FailStep, ReportHolding, Complete, AcquireSlot, Upsert, Persist,
                PersistFails
  <1>3. CASE CronAcquire \/ CronRelease \/ Cleanup \/ Crash \/ Restart \/ RestartUnrecovered
    BY <1>3 DEF CronAcquire, CronRelease, Cleanup, SweepBegins, SweepRows, SweepRowsFails, Age,
                SweepEntry, Crash, Restart, RestartUnrecovered
  <1>4. CASE UNCHANGED vars
    BY <1>4 DEF vars
  <1> QED
    BY <1>1, <1>2, <1>3, <1>4 DEF Next

\* What a poll has shown as finished no later poll shows as pending or running, and
\* neither does one of a task that a crash has orphaned.
THEOREM FinishedStays == Spec => NoResurrection
  <1>1. ASSUME TypeOK, StoreInv, [Next]_vars
        PROVE  [\A t \in Tasks : seen[t] \in Terminal /\ ~stale[t] => seen'[t] \notin Live]_seen
    BY <1>1, PollShows DEF StoreInv, StoreOf, Terminal, Live
  <1>2. IInv /\ StoreInv /\ [Next]_vars
          => [\A t \in Tasks : seen[t] \in Terminal /\ ~stale[t] => seen'[t] \notin Live]_seen
    BY <1>1 DEF IInv
  <1> QED
    BY Inductive, StoreInductive, <1>2, PTL DEF Spec, NoResurrection

THEOREM OrphansEnd == Spec => OrphansSettled
  <1>1. ASSUME TypeOK, StoreInv, [Next]_vars
        PROVE  [\A t \in Tasks :
                   pc[t] = "dead" /\ ~stale[t] /\ seen'[t] # seen[t] => seen'[t] \notin Live]_seen
    BY <1>1, PollShows DEF StoreInv, StoreOf, Live
  <1>2. IInv /\ StoreInv /\ [Next]_vars
          => [\A t \in Tasks :
                 pc[t] = "dead" /\ ~stale[t] /\ seen'[t] # seen[t] => seen'[t] \notin Live]_seen
    BY <1>1 DEF IInv
  <1> QED
    BY Inductive, StoreInductive, <1>2, PTL DEF Spec, OrphansSettled

-----------------------------------------------------------------------------
(* What the polls of a task may show of its holdings and pipeline steps:   *)
(* the inductive invariant.                                                *)

Open   == {"pending", "running"}
InLoop == {"mark", "queue", "step", "work", "report"}

\* The steps before n are done, those after it have not begun.
UpTo(t, n) ==
    \A i \in StepKeys :
        /\ i < n => steps[t][i] = "done"
        /\ i > n => steps[t][i] = "pending"

\* The loop over the holdings: those still to visit are pending, the current one
\* is running once it is marked, every other one has been reported.
LoopAt(t) ==
    /\ pc[t] \in {"start", "list", "init"} =>
          cur[t] = NoHolding
    /\ pc[t] \in {"start", "list"} => \A h \in Holdings : holds[t][h] \notin Open
    /\ pc[t] \in InLoop =>
          /\ cur[t] \in Holdings \ todo[t]
          /\ holds[t][cur[t]] = IF pc[t] = "mark" THEN "pending" ELSE "running"
    /\ pc[t] \in {"progress", "select"} \cup InLoop =>
          \A h \in Holdings :
              /\ h \in todo[t] => holds[t][h] = "pending"
              /\ h \notin todo[t] \cup {cur[t]} => holds[t][h] \notin Open
    /\ pc[t] \in {"progress", "select"} =>
          cur[t] = NoHolding \/ (cur[t] \notin todo[t] /\ holds[t][cur[t]] \notin Open)
    /\ pc[t] \in {"finish", "end"} => \A h \in Holdings : holds[t][h] \notin Open

\* The pipeline of the current holding, stage by stage.
StepsAt(t) ==
    /\ pc[t] \in {"mark", "queue"} => steps[t] = DefaultSteps
    /\ pc[t] = "step" => UpTo(t, stage[t]) /\ steps[t][stage[t]] = "pending"
    /\ pc[t] = "work" => UpTo(t, stage[t]) /\ steps[t][stage[t]] = "running"
    /\ pc[t] = "report" =>
          \/ result[t] = "card" /\ \A i \in StepKeys : steps[t][i] = "done"
          \/ result[t] = "error" /\ \E i \in StepKeys : steps[t][i] = "failed"

\* PipelineShape and OutcomeMatchesSteps, for one task.
ShapeOf(t) ==
    \A i, j \in StepKeys :
        i < j /\ steps[t][j] \in {"running", "done", "failed"} => steps[t][i] = "done"

OutcomeOf(t) ==
    cur[t] # NoHolding =>
        /\ holds[t][cur[t]] = "done" => \A s \in StepKeys : steps[t][s] = "done"
        /\ holds[t][cur[t]] = "failed" => \E s \in StepKeys : steps[t][s] = "failed"

PipeOf(t) == LoopAt(t) /\ StepsAt(t) /\ ShapeOf(t) /\ OutcomeOf(t)

PipeInv == \A t \in Tasks : PipeOf(t)

-----------------------------------------------------------------------------

\* Nothing of the pipeline of u changes.
Still(u) ==
    /\ holds'[u] = holds[u] /\ cur'[u] = cur[u] /\ steps'[u] = steps[u]
    /\ pc'[u] = pc[u] /\ todo'[u] = todo[u] /\ stage'[u] = stage[u] /\ result'[u] = result[u]

\* A task whose pipeline is left alone keeps what is said of it.
LEMMA StillKeeps ==
    ASSUME NEW u \in Tasks, PipeOf(u), Still(u)
    PROVE  PipeOf(u)'
  <1>1. LoopAt(u)'
    BY DEF PipeOf, Still, LoopAt, Open, InLoop
  <1>2. StepsAt(u)'
    BY DEF PipeOf, Still, StepsAt, UpTo
  <1>3. ShapeOf(u)' /\ OutcomeOf(u)'
    BY DEF PipeOf, Still, ShapeOf, OutcomeOf
  <1> QED
    BY <1>1, <1>2, <1>3 DEF PipeOf

\* A task whose entry is gone, or restored from its row, and whose goroutine has
\* ended shows no holding and no step.
LEMMA BlankKeeps ==
    ASSUME NEW u \in Tasks, holds'[u] = NoHoldings, cur'[u] = NoHolding, steps'[u] = NoSteps,
           pc'[u] \in {"idle", "end", "dead"}
    PROVE  PipeOf(u)'
  BY DEF PipeOf, LoopAt, StepsAt, ShapeOf, OutcomeOf, NoHoldings, NoSteps, Open, InLoop

\* A step of one goroutine leaves the pipelines of the others alone.
LEMMA OthersStill ==
    ASSUME TypeOK, NEW t \in Tasks, NEW u \in Tasks \ {t},
           \/ TriggerAnalysis(t)
           \/ \E h \in Holdings : TriggerSingleAnalysis(t, h)
           \/ Work(t)
           \/ AcquireSlot(t)
    PROVE  Still(u)
  <1>1. CASE TriggerAnalysis(t)
    BY <1>1 DEF TypeOK, Still, TriggerAnalysis, Create, SetStatus, Go
  <1>2. ASSUME NEW h \in Holdings, TriggerSingleAnalysis(t, h) PROVE Still(u)
    BY <1>2 DEF TypeOK, Still, TriggerSingleAnalysis, Create, SetStatus, Go
  <1>3. CASE Begin(t) \/ Fail(t) \/ ListHoldings(t) \/ InitHoldings(t)
    BY <1>3 DEF TypeOK, Still, Begin, Fail, ListHoldings, InitHoldings, SetStatus, Go, store
  <1>4. CASE UpdateProgress(t) \/ SetCurrentHolding(t) \/ MarkHoldingRunning(t)
    BY <1>4 DEF TypeOK, Still, UpdateProgress, SetCurrentHolding, MarkHoldingRunning, SetStatus, Go
  <1>5. CASE StartStep(t) \/ CompleteStep(t) \/ FailStep(t)
    BY <1>5 DEF TypeOK, Still, StartStep, CompleteStep, FailStep, Return, Go
  <1>6. CASE ReportHolding(t) \/ Complete(t)
    BY <1>6 DEF TypeOK, Still, ReportHolding, Complete, SetStatus, Go
  <1>7. CASE AcquireSlot(t)
    BY <1>7 DEF TypeOK, Still, AcquireSlot, Go, store
  <1> QED
    BY <1>1, <1>2, <1>3, <1>4, <1>5, <1>6, <1>7 DEF Work

\* The loop of TriggerAnalysis, without the pipeline of one holding.
LEMMA LoopKeeps ==
    ASSUME IInv, NEW t \in Tasks, PipeOf(t),
           \/ TriggerAnalysis(t)
           \/ \E h \in Holdings : TriggerSingleAnalysis(t, h)
           \/ Begin(t) \/ Fail(t) \/ ListHoldings(t) \/ InitHoldings(t)
           \/ UpdateProgress(t) \/ SetCurrentHolding(t) \/ MarkHoldingRunning(t)
           \/ ReportHolding(t) \/ Complete(t)
    PROVE  PipeOf(t)'
  <1>0. TypeOK /\ Lifecycle
    BY DEF IInv
  <1> USE DEF PipeOf, LoopAt, StepsAt, ShapeOf, OutcomeOf, Open, InLoop
  <1>1. CASE TriggerAnalysis(t)
    BY <1>0, <1>1 DEF TypeOK, Lifecycle, TriggerAnalysis, Create, Go, NoHoldings, DefaultSteps
  <1>2. ASSUME NEW h \in Holdings, TriggerSingleAnalysis(t, h) PROVE PipeOf(t)'
    BY <1>0, <1>2 DEF TypeOK, Lifecycle, TriggerSingleAnalysis, Create, Go, NoHoldings, DefaultSteps
  <1>3. CASE Begin(t)
    BY <1>0, <1>3 DEF TypeOK, Begin, At, Go
  <1>4. CASE Fail(t)
    BY <1>0, <1>4 DEF TypeOK, Fail, At, Go
  <1>5. CASE ListHoldings(t)
    BY <1>0, <1>5 DEF TypeOK, ListHoldings, At, Go, store
  <1>6. CASE InitHoldings(t)
    BY <1>0, <1>6 DEF TypeOK, InitHoldings, At, Go, DefaultSteps
  <1>7. CASE UpdateProgress(t)
    BY <1>0, <1>7 DEF TypeOK, UpdateProgress, At, Go
  <1>8. CASE SetCurrentHolding(t)
    <2>1. PICK h \in todo[t] : cur' = [cur EXCEPT ![t] = h] /\ todo' = [todo EXCEPT ![t] = @ \ {h}]
      BY <1>8 DEF SetCurrentHolding
    <2>2. /\ cur'[t] = h /\ todo'[t] = todo[t] \ {h} /\ h \in Holdings /\ h # NoHolding
          /\ pc[t] = "select" /\ pc'[t] = "mark"
          /\ steps'[t] = DefaultSteps /\ holds' = holds
      BY <1>0, <1>8, <2>1, ConstantsAssumption
      DEF TypeOK, SetCurrentHolding, At, Go, ConstantsAssumption
    <2>3. LoopAt(t)'
      <3>1. /\ holds[t][h] = "pending"
            /\ \A g \in Holdings : /\ g \in todo[t] => holds[t][g] = "pending"
                                /\ g \notin todo[t] => holds[t][g] \notin Open
        BY <2>1, <2>2, ConstantsAssumption DEF ConstantsAssumption
      <3> QED
        BY <2>2, <3>1
    <2>4. StepsAt(t)' /\ ShapeOf(t)' /\ OutcomeOf(t)'
      BY <2>2 DEF DefaultSteps
    <2> QED
      BY <2>3, <2>4
  <1>9. CASE MarkHoldingRunning(t)
    BY <1>0, <1>9 DEF TypeOK, MarkHoldingRunning, At, Go
  <1>10. CASE ReportHolding(t)
    BY <1>0, <1>10 DEF TypeOK, ReportHolding, At, Go
  <1>11. CASE Complete(t)
    BY <1>0, <1>11 DEF TypeOK, Complete, At, Go
  <1> QED
    BY <1>1, <1>2, <1>3, <1>4, <1>5, <1>6, <1>7, <1>8, <1>9, <1>10, <1>11

\* The pipeline of one holding.
LEMMA StepsKeep ==
    ASSUME IInv, NEW t \in Tasks, PipeOf(t),
           AcquireSlot(t) \/ StartStep(t) \/ CompleteStep(t) \/ FailStep(t)
    PROVE  PipeOf(t)'
  <1>0. TypeOK
    BY DEF IInv
  <1> USE DEF PipeOf, LoopAt, StepsAt, ShapeOf, OutcomeOf, UpTo, Open, InLoop, StepKeys
  <1>1. CASE AcquireSlot(t)
    BY <1>0, <1>1 DEF TypeOK, AcquireSlot, At, Go, store, DefaultSteps
  <1>2. CASE StartStep(t)
    BY <1>0, <1>2 DEF TypeOK, StartStep, At, Go
  <1>3. CASE CompleteStep(t)
    BY <1>0, <1>3 DEF TypeOK, CompleteStep, Return, At, Go
  <1>4. CASE FailStep(t)
    BY <1>0, <1>4 DEF TypeOK, FailStep, Return, At, Go
  <1> QED
    BY <1>1, <1>2, <1>3, <1>4

\* No task shows anything at first.
LEMMA PipeInit == Init => PipeInv
  <1> SUFFICES ASSUME Init, NEW u \in Tasks PROVE PipeOf(u)
    BY DEF PipeInv
  <1> QED
    BY DEF Init, PipeOf, LoopAt, StepsAt, ShapeOf, OutcomeOf, NoHoldings, NoSteps, Open, InLoop

\* Every step keeps the pipelines of all tasks.
LEMMA PipeNext == IInv /\ PipeInv /\ [Next]_vars => PipeInv'
  <1> SUFFICES ASSUME IInv, PipeInv, [Next]_vars, NEW u \in Tasks PROVE PipeOf(u)'
    BY DEF PipeInv
  <1>0. TypeOK /\ Lifecycle /\ PipeOf(u)
    BY DEF IInv, PipeInv
  <1>1. ASSUME NEW t \in Tasks,
               \/ TriggerAnalysis(t)
               \/ \E h \in Holdings : TriggerSingleAnalysis(t, h)
               \/ Work(t)
               \/ AcquireSlot(t)
        PROVE  PipeOf(u)'
    <2>1. CASE t = u
      BY <1>0, <1>1, <2>1, LoopKeeps, StepsKeep DEF Work
    <2>2. CASE t # u
      <3>1. Still(u)
        BY <1>0, <1>1, <2>2, OthersStill
      <3> QED
        BY <1>0, <3>1, StillKeeps
    <2> QED
      BY <2>1, <2>2
  <1>2. ASSUME Still(u) PROVE PipeOf(u)'
    BY <1>0, <1>2, StillKeeps
  <1>3. ASSUME NEW t \in Tasks, Upsert(t) PROVE PipeOf(u)'
    BY <1>2, <1>3 DEF Still, Upsert, Persist, PersistFails, store, worker
  <1>4. ASSUME NEW t \in Tasks, Poll(t) PROVE PipeOf(u)'
    <2>1. CASE PollMemory(t) \/ PollUnknown(t) \/ PollReadsRow(t) \/ PollFails(t)
      BY <1>2, <2>1 DEF Still, PollMemory, PollUnknown, PollReadsRow, PollFails, store, worker
    <2>2. CASE PollStoresRow(t) /\ t = u
      <3>1. pc[u] \in {"end", "dead"}
        BY <1>0, <2>2 DEF Lifecycle, PollStoresRow
      <3>2. /\ holds'[u] = NoHoldings /\ cur'[u] = NoHolding /\ steps'[u] = NoSteps
            /\ pc'[u] = pc[u]
        BY <1>0, <2>2 DEF TypeOK, PollStoresRow, worker
      <3> QED
        BY <3>1, <3>2, BlankKeeps
    <2>3. CASE PollStoresRow(t) /\ t # u
      BY <1>0, <1>2, <2>3 DEF TypeOK, Still, PollStoresRow, worker
    <2> QED
      BY <1>4, <2>1, <2>2, <2>3 DEF Poll
  <1>5. CASE CronAcquire \/ CronRelease
    BY <1>2, <1>5 DEF Still, CronAcquire, CronRelease, store, worker
  <1>6. CASE Cleanup
    <2>1. CASE SweepBegins \/ SweepRows \/ SweepRowsFails \/ \E t \in Tasks : Age(t)
      BY <1>2, <2>1 DEF Still, SweepBegins, SweepRows, SweepRowsFails, Age, store, worker
    <2>2. ASSUME NEW t \in Tasks, SweepEntry(t) PROVE PipeOf(u)'
      <3>1. CASE status[t] \in Terminal /\ t = u
        <4>1. pc[u] \in {"end", "dead"}
          BY <1>0, <2>2, <3>1 DEF TypeOK, Lifecycle, SweepEntry
        <4>2. /\ holds'[u] = NoHoldings /\ cur'[u] = NoHolding /\ steps'[u] = NoSteps
              /\ pc'[u] = pc[u]
          BY <1>0, <2>2, <3>1 DEF TypeOK, SweepEntry, worker
        <4> QED
          BY <4>1, <4>2, BlankKeeps
      <3>2. CASE ~(status[t] \in Terminal /\ t = u)
        BY <1>0, <1>2, <2>2, <3>2 DEF TypeOK, Still, SweepEntry, store, worker
      <3> QED
        BY <3>1, <3>2
    <2> QED
      BY <1>6, <2>1, <2>2 DEF Cleanup
  <1>7. CASE Crash
    <2>1. /\ holds'[u] = NoHoldings /\ cur'[u] = NoHolding /\ steps'[u] = NoSteps
          /\ pc'[u] \in {"idle", "dead"}
      BY <1>7 DEF Crash
    <2> QED
      BY <2>1, BlankKeeps
  <1>8. CASE Restart \/ RestartUnrecovered
    BY <1>2, <1>8 DEF Still, Restart, RestartUnrecovered, store, worker
  <1>9. CASE UNCHANGED vars
    BY <1>2, <1>9 DEF Still, vars, store, worker
  <1> QED
    BY <1>1, <1>3, <1>4, <1>5, <1>6, <1>7, <1>8, <1>9 DEF Next

\* The pipeline invariant holds of every behaviour.
THEOREM PipelineInductive == Spec => []PipeInv
  <1> QED
    BY Inductive, PipeInit, PipeNext, PTL DEF Spec

\* A poll never shows steps out of order, nor steps left over from another holding.
THEOREM StepsInOrder == Spec => []PipelineShape
  <1>1. PipeInv => PipelineShape
    BY DEF PipeInv, PipeOf, ShapeOf, PipelineShape
  <1> QED
    BY PipelineInductive, <1>1, PTL

\* A holding is reported done or failed only as its pipeline has ended.
THEOREM OutcomesTrue == Spec => []OutcomeMatchesSteps
  <1>1. PipeInv => OutcomeMatchesSteps
    BY DEF PipeInv, PipeOf, OutcomeOf, OutcomeMatchesSteps
  <1> QED
    BY PipelineInductive, <1>1, PTL

\* A completed task has an outcome for every holding, whichever of them failed.
THEOREM CompletedIsComplete == Spec => []CompletedMeansReported
  <1>1. IInv /\ PipeInv => CompletedMeansReported
    <2> SUFFICES ASSUME IInv, PipeInv, NEW t \in Tasks, status[t] = "completed", pc[t] # "dead",
                        NEW h \in Holdings
                 PROVE  holds[t][h] \notin {"pending", "running"}
      BY DEF CompletedMeansReported
    <2>1. pc[t] = "end"
      BY DEF IInv, TypeOK, Lifecycle, Working, Live
    <2> QED
      BY <2>1 DEF PipeInv, PipeOf, LoopAt, Open
  <1> QED
    BY Inductive, PipelineInductive, <1>1, PTL

-----------------------------------------------------------------------------
(* The store implements TaskPromise.                                       *)

Late == Working \ {"start", "init", "progress"}

(* What a poll can see of a task before the end of its row, with a database *)
(* that never refuses a call.                                              *)
RunOf(t) ==
    /\ ~stale[t]
    /\ pc[t] \in Late => status[t] = "running"
    /\ status[t] = "running" => row[t] # "none"
    /\ up /\ status[t] = "absent" => row[t] \notin Live /\ fill[t] \notin Live
    /\ owed[t] /\ pc[t] = "end" => row[t] \notin Terminal

RunInv == \A t \in Tasks : RunOf(t)

LEMMA RunSame ==
    ASSUME NEW t \in Tasks, RunOf(t),
           UNCHANGED <<up, status[t], row[t], fill[t], owed[t], pc[t], stale[t]>>
    PROVE  RunOf(t)'
  BY DEF RunOf

LEMMA RunNext ==
    ASSUME MaxFaults = 0, IInv, StoreInv, RunInv, [Next]_vars PROVE RunInv'
  <1> SUFFICES ASSUME TypeOK, Lifecycle, NEW u \in Tasks PROVE RunOf(u)'
    BY DEF IInv, RunInv
  <1>0. RunOf(u) /\ StoreOf(u)
    BY DEF RunInv, StoreInv
  <1>f. ~ (faults < MaxFaults)
    BY DEF TypeOK
  <1> USE DEF Working, Live, Terminal, Late
  <1>1. ASSUME NEW t \in Tasks, TriggerAnalysis(t) \/ \E h \in Holdings : TriggerSingleAnalysis(t, h)
        PROVE  RunOf(u)'
    <2>1. CASE u # t
      BY <1>0, <1>1, <2>1, RunSame
         DEF TypeOK, TriggerAnalysis, TriggerSingleAnalysis, Create, SetStatus, Go, env
    <2>2. CASE u = t
      BY <1>0, <1>1, <2>2
         DEF TypeOK, Lifecycle, RunOf, TriggerAnalysis, TriggerSingleAnalysis, Create, SetStatus, Go, env
    <2> QED
      BY <2>1, <2>2
  <1>2. ASSUME NEW t \in Tasks, Work(t) PROVE RunOf(u)'
    <2>1. CASE Begin(t) \/ UpdateProgress(t) \/ Fail(t) \/ Complete(t)
      <3>1. /\ pc[t] \in Working /\ pc'[t] \in {"list", "select", "end"} /\ up /\ owed'[t] /\ ~owed[t]
            /\ status'[t] = "running" \/ (status'[t] \in Terminal /\ pc'[t] = "end")
            /\ pc'[t] = "end" => status'[t] \in Terminal
            /\ UNCHANGED <<row, fill, stale, up>>
            /\ \A q \in Tasks \ {t} : pc'[q] = pc[q] /\ status'[q] = status[q] /\ owed'[q] = owed[q]
        BY <2>1 DEF TypeOK, Begin, UpdateProgress, Fail, Complete, At, SetStatus, Go, env
      <3>2. CASE u # t
        BY <1>0, <3>1, <3>2, RunSame
      <3>3. CASE u = t
        BY <1>0, <3>1, <3>3 DEF TypeOK, Lifecycle, RunOf, StoreOf
      <3> QED
        BY <3>2, <3>3
    <2>2. CASE \/ ListHoldings(t) \/ InitHoldings(t) \/ SetCurrentHolding(t) \/ MarkHoldingRunning(t)
               \/ StartStep(t) \/ CompleteStep(t) \/ FailStep(t) \/ ReportHolding(t)
      <3>1. /\ pc[t] \in Working /\ pc'[t] \in Working
            /\ pc'[t] \in Late => pc[t] \in Late
            /\ UNCHANGED <<status, owed, row, fill, stale, up>>
            /\ \A q \in Tasks \ {t} : pc'[q] = pc[q]
        BY <2>2 DEF TypeOK, ListHoldings, InitHoldings, SetCurrentHolding, MarkHoldingRunning,
                    StartStep, CompleteStep, FailStep, ReportHolding, Return, At, Go, store, env
      <3>2. CASE u # t
        BY <1>0, <3>1, <3>2, RunSame
      <3>3. CASE u = t
        BY <1>0, <3>1, <3>3 DEF RunOf
      <3> QED
        BY <3>2, <3>3
    <2> QED
      BY <1>2, <2>1, <2>2 DEF Work
  <1>3. ASSUME NEW t \in Tasks, AcquireSlot(t) PROVE RunOf(u)'
    <2>1. /\ pc[t] = "queue" /\ pc'[t] = "step"
          /\ UNCHANGED <<status, owed, row, fill, stale, up>>
          /\ \A q \in Tasks \ {t} : pc'[q] = pc[q]
      BY <1>3 DEF TypeOK, AcquireSlot, At, Go, store, env
    <2> QED
      BY <1>0, <2>1 DEF RunOf
  <1>4. ASSUME NEW t \in Tasks, Upsert(t) PROVE RunOf(u)'
    <2>1. Persist(t)
      BY <1>4, <1>f DEF Upsert, PersistFails
    <2>2. CASE u # t
      BY <1>0, <2>1, <2>2, RunSame DEF TypeOK, Persist, store, worker, env
    <2>3. CASE u = t
      BY <1>0, <2>1, <2>3 DEF TypeOK, Lifecycle, RunOf, Persist, store, worker, env
    <2> QED
      BY <2>2, <2>3
  <1>5. ASSUME NEW t \in Tasks, Poll(t) PROVE RunOf(u)'
    <2>1. CASE u # t
      BY <1>0, <1>5, <2>1, RunSame
         DEF TypeOK, Poll, PollMemory, PollUnknown, PollReadsRow, PollStoresRow, PollFails,
             store, worker, env
    <2>2. CASE u = t
      BY <1>0, <1>5, <1>f, <2>2
         DEF TypeOK, RunOf, StoreOf, Poll, PollMemory, PollUnknown, PollReadsRow, PollStoresRow,
             PollFails, store, worker, env
    <2> QED
      BY <2>1, <2>2
  <1>6. CASE CronAcquire \/ CronRelease
    BY <1>0, <1>6, RunSame DEF CronAcquire, CronRelease, store, worker, env
  <1>7. CASE Cleanup
    <2>1. CASE SweepBegins \/ SweepRowsFails
      BY <1>0, <2>1, RunSame DEF SweepBegins, SweepRowsFails, store, worker, env
    <2>2. CASE SweepRows
      BY <1>0, <2>2 DEF TypeOK, Lifecycle, RunOf, StoreOf, SweepRows, store, worker, env
    <2>3. ASSUME NEW t \in Tasks, Age(t) PROVE RunOf(u)'
      BY <1>0, <2>3, RunSame DEF Age, store, worker, env
    <2>4. ASSUME NEW t \in Tasks, SweepEntry(t) PROVE RunOf(u)'
      <3>1. CASE u # t \/ status[t] \notin Terminal
        BY <1>0, <2>4, <3>1, RunSame DEF TypeOK, SweepEntry, store, worker, env
      <3>2. CASE u = t /\ status[t] \in Terminal
        <4>1. ~owed[t] /\ pc[t] \in {"end", "dead"}
          BY <2>4 DEF TypeOK, Lifecycle, SweepEntry
        <4> QED
          BY <1>0, <2>4, <3>2, <4>1 DEF TypeOK, RunOf, StoreOf, SweepEntry, worker, env
      <3> QED
        BY <3>1, <3>2
    <2> QED
      BY <1>7, <2>1, <2>2, <2>3, <2>4 DEF Cleanup
  <1>8. CASE Crash
    BY <1>0, <1>8 DEF TypeOK, RunOf, Crash
  <1>9. CASE Restart
    BY <1>0, <1>9 DEF TypeOK, RunOf, StoreOf, Lifecycle, Restart, store, worker
  <1>10. ~ RestartUnrecovered
    BY <1>f DEF RestartUnrecovered
  <1>11. CASE UNCHANGED vars
    BY <1>0, <1>11, RunSame DEF vars, store, worker, env
  <1> QED
    BY <1>1, <1>2, <1>3, <1>4, <1>5, <1>6, <1>7, <1>8, <1>9, <1>10, <1>11 DEF Next

LEMMA RunInit == Init => RunInv
  BY DEF Init, RunInv, RunOf, Working, Late, Live

-----------------------------------------------------------------------------
(* The refinement.                                                         *)

Views == [t \in Tasks |-> ViewOf(t)]

Passes(old, new) ==
    \/ new = old
    \/ old = "unknown" /\ new = "pending"
    \/ old = "pending" /\ new = "running"
    \/ old = "running" /\ new \in Terminal

ViewSame(t) == ViewOf(t)' = ViewOf(t)

LEMMA ViewsSame ==
    ASSUME NEW t \in Tasks, UNCHANGED <<up, status[t], row[t], fill[t], pc[t]>>
    PROVE  ViewSame(t)
  BY DEF ViewSame, ViewOf

LEMMA OnePasses ==
    ASSUME NEW t \in Tasks, \A u \in Tasks \ {t} : ViewSame(u), Passes(ViewOf(t), ViewOf(t)')
    PROVE  [Promise!PNext]_Views
  <1>1. CASE ViewSame(t)
    BY <1>1 DEF ViewSame, Views
  <1>2. CASE ~ ViewSame(t)
    <2>1. \A v : ViewOf(t)' = v => Views' = [Views EXCEPT ![t] = v]
      BY DEF ViewSame, Views
    <2>2. Promise!Accept(t) \/ Promise!Run(t) \/ Promise!Finish(t)
      BY <1>2, <2>1
      DEF Passes, ViewSame, Views, Promise!Accept, Promise!Run, Promise!Finish, Promise!Becomes,
          Promise!Finished, Terminal
    <2> QED
      BY <2>2 DEF Promise!PNext
  <1> QED
    BY <1>1, <1>2

LEMMA SomeForgotten ==
    ASSUME NEW old \in SUBSET Tasks, \A t \in Tasks \ old : ViewSame(t),
           \A t \in old : ViewOf(t) \in Terminal /\ ViewOf(t)' = "gone"
    PROVE  [Promise!PNext]_Views
  <1>1. Views' = [t \in Tasks |-> IF t \in old THEN "gone" ELSE Views[t]]
    BY DEF Views, ViewSame
  <1>2. Promise!Forget(old)
    BY <1>1 DEF Promise!Forget, Views, Promise!Finished, Terminal
  <1> QED
    BY <1>2 DEF Promise!PNext

LEMMA StoppedAll ==
    ASSUME \A t \in Tasks : Promise!Interrupted(ViewOf(t), ViewOf(t)'),
           \A t \in Tasks : ViewOf(t)' \in {"unknown", "gone"} \cup Live \cup Terminal
    PROVE  [Promise!PNext]_Views
  <1>1. Promise!Interrupt
    BY DEF Promise!Interrupt, Views, Promise!Live, Promise!Finished, Live, Terminal
  <1> QED
    BY <1>1 DEF Promise!PNext

LEMMA ViewInit == Init => Promise!PInit
  BY DEF Init, Promise!PInit, ViewOf

(* Every step is one of the promise, or does not change what a poll sees.  *)
LEMMA ViewNext ==
    ASSUME MaxFaults = 0, IInv, StoreInv, RunInv, [Next]_vars PROVE [Promise!PNext]_Views
  <1> SUFFICES ASSUME TypeOK, Lifecycle PROVE [Promise!PNext]_Views
    BY DEF IInv
  <1>0. \A u \in Tasks : RunOf(u) /\ StoreOf(u)
    BY DEF RunInv, StoreInv
  <1>f. ~ (faults < MaxFaults)
    BY DEF TypeOK
  <1> USE DEF Working, Live, Terminal
  <1>s. ASSUME \A t \in Tasks : ViewSame(t) PROVE [Promise!PNext]_Views
    BY <1>s DEF ViewSame, Views
  <1>1. ASSUME NEW t \in Tasks, TriggerAnalysis(t) \/ \E h \in Holdings : TriggerSingleAnalysis(t, h)
        PROVE  [Promise!PNext]_Views
    <2>1. /\ pc[t] = "idle" /\ status'[t] = "pending" /\ up
          /\ UNCHANGED <<up, row, fill>>
          /\ \A q \in Tasks \ {t} : pc'[q] = pc[q] /\ status'[q] = status[q]
      BY <1>1 DEF TypeOK, TriggerAnalysis, TriggerSingleAnalysis, Create, SetStatus, Go, env
    <2>2. ViewOf(t) = "unknown" /\ ViewOf(t)' = "pending"
      BY <2>1 DEF ViewOf, Lifecycle
    <2> QED
      BY <2>1, <2>2, ViewsSame, OnePasses DEF Passes
  <1>2. ASSUME NEW t \in Tasks, Work(t) PROVE [Promise!PNext]_Views
    <2>1. /\ pc[t] \in Working /\ up
          /\ UNCHANGED <<up, row, fill>>
          /\ \A q \in Tasks \ {t} : pc'[q] = pc[q] /\ status'[q] = status[q]
          /\ \/ status' = status /\ pc'[t] # "idle"
             \/ status'[t] = "running"
             \/ pc[t] \in Late /\ status'[t] \in Terminal
      BY <1>2
      DEF TypeOK, Work, Begin, Fail, ListHoldings, InitHoldings, UpdateProgress, SetCurrentHolding,
          MarkHoldingRunning, StartStep, CompleteStep, FailStep, ReportHolding, Complete, Return,
          At, Go, SetStatus, store, env, Late
    <2>2. Passes(ViewOf(t), ViewOf(t)')
      BY <1>0, <2>1 DEF TypeOK, Passes, ViewOf, Lifecycle, RunOf
    <2> QED
      BY <2>1, <2>2, ViewsSame, OnePasses
  <1>3. ASSUME NEW t \in Tasks, AcquireSlot(t) PROVE [Promise!PNext]_Views
    <2>1. /\ pc[t] # "idle" /\ pc'[t] # "idle"
          /\ UNCHANGED <<up, status, row, fill>>
          /\ \A q \in Tasks \ {t} : pc'[q] = pc[q]
      BY <1>3 DEF TypeOK, AcquireSlot, At, Go, store, env
    <2> QED
      BY <2>1, <1>s DEF ViewSame, ViewOf
  <1>4. ASSUME NEW t \in Tasks, Upsert(t) PROVE [Promise!PNext]_Views
    <2>1. Persist(t)
      BY <1>4, <1>f DEF Upsert, PersistFails
    <2>2. ASSUME NEW u \in Tasks PROVE ViewSame(u)
      BY <2>1 DEF ViewSame, ViewOf, TypeOK, Lifecycle, Persist, store, worker, env
    <2> QED
      BY <2>2, <1>s
  <1>5. ASSUME NEW t \in Tasks, Poll(t) PROVE [Promise!PNext]_Views
    <2>1. ASSUME NEW u \in Tasks PROVE ViewSame(u)
      <3>1. CASE PollMemory(t) \/ PollUnknown(t)
        BY <3>1, ViewsSame DEF PollMemory, PollUnknown, store, worker, env
      <3>2. CASE PollReadsRow(t)
        BY <1>0, <3>2 DEF ViewSame, ViewOf, TypeOK, PollReadsRow, store, worker, env
      <3>3. CASE PollStoresRow(t)
        BY <1>0, <3>3 DEF ViewSame, ViewOf, TypeOK, StoreOf, PollStoresRow, worker, env
      <3> QED
        BY <1>5, <1>f, <3>1, <3>2, <3>3 DEF Poll, PollFails
    <2> QED
      BY <2>1, <1>s
  <1>6. CASE CronAcquire \/ CronRelease
    BY <1>6, <1>s, ViewsSame DEF CronAcquire, CronRelease, store, worker, env
  <1>7. CASE Cleanup
    <2>1. CASE SweepBegins \/ SweepRowsFails
      BY <2>1, <1>s, ViewsSame DEF SweepBegins, SweepRowsFails, store, worker, env
    <2>2. CASE SweepRows
      <3> DEFINE old == {t \in Tasks : ~ ViewSame(t)}
      <3>1. ASSUME NEW t \in old PROVE ViewOf(t) \in Terminal /\ ViewOf(t)' = "gone"
        <4>1. /\ up /\ UNCHANGED <<up, status, fill, pc>>
              /\ row'[t] = row[t] \/ (row[t] \in Terminal /\ row'[t] = "none")
          BY <2>2 DEF SweepRows, TypeOK, store, worker, env
        <4>2. pc[t] # "idle" \/ row[t] = "none"
          BY DEF Lifecycle
        <4> QED
          BY <4>1, <4>2 DEF ViewSame, ViewOf
      <3> QED
        BY <3>1, SomeForgotten
    <2>3. ASSUME NEW t \in Tasks, Age(t) PROVE [Promise!PNext]_Views
      BY <2>3, <1>s, ViewsSame DEF Age, store, worker, env
    <2>4. ASSUME NEW t \in Tasks, SweepEntry(t) PROVE [Promise!PNext]_Views
      <3>1. CASE status[t] \notin Terminal
        BY <2>4, <3>1, <1>s, ViewsSame DEF SweepEntry, store, worker, env
      <3>2. CASE status[t] \in Terminal
        <4>1. /\ ~owed[t] /\ pc[t] \in {"end", "dead"} /\ up /\ UNCHANGED <<up, row, fill, pc>>
              /\ status'[t] = "absent" /\ \A q \in Tasks \ {t} : status'[q] = status[q]
          BY <2>4, <3>2 DEF TypeOK, Lifecycle, SweepEntry, worker, env
        <4>2. fill[t] = "none" /\ row[t] \in {status[t], "none"}
          BY <1>0, <3>2, <4>1 DEF StoreOf, RunOf
        <4>3. \A q \in Tasks \ {t} : ViewSame(q)
          BY <4>1, ViewsSame
        <4>4. ViewOf(t) \in Terminal /\ ViewOf(t)' \in {ViewOf(t), "gone"}
          BY <3>2, <4>1, <4>2 DEF ViewOf
        <4>5. CASE ViewSame(t)
          BY <4>3, <4>5, <1>s
        <4>6. CASE ~ ViewSame(t)
          BY <4>3, <4>4, <4>6, SomeForgotten, {t} \in SUBSET Tasks DEF ViewSame
        <4> QED
          BY <4>5, <4>6
      <3> QED
        BY <3>1, <3>2
    <2> QED
      BY <1>7, <2>1, <2>2, <2>3, <2>4 DEF Cleanup
  <1>8. CASE Crash
    <2>1. ASSUME NEW t \in Tasks
          PROVE  /\ Promise!Interrupted(ViewOf(t), ViewOf(t)')
                 /\ ViewOf(t)' \in {"unknown", "gone"} \cup Live \cup Terminal
      <3>1. /\ up /\ ~up' /\ status'[t] = "absent" /\ fill'[t] = "none" /\ row'[t] = row[t]
            /\ pc'[t] = "idle" <=> pc[t] = "idle"
        BY <1>8 DEF Crash
      <3>2. ViewOf(t)' = IF row[t] # "none" THEN Recovered(row[t])
                         ELSE IF pc[t] = "idle" THEN "unknown" ELSE "gone"
        BY <3>1 DEF ViewOf
      <3>3. CASE status[t] = "absent"
        BY <1>0, <3>1, <3>2, <3>3
        DEF ViewOf, Recovered, RunOf, StoreOf, Promise!Interrupted, Promise!Live, Promise!Finished,
            TypeOK, Lifecycle
      <3>4. CASE status[t] \in Live
        BY <1>0, <3>1, <3>2, <3>4
        DEF ViewOf, Recovered, RunOf, StoreOf, Promise!Interrupted, Promise!Live, Promise!Finished,
            TypeOK, Lifecycle
      <3>5. CASE status[t] \in Terminal
        BY <1>0, <3>1, <3>2, <3>5
        DEF ViewOf, Recovered, RunOf, StoreOf, Promise!Interrupted, Promise!Live, Promise!Finished,
            TypeOK, Lifecycle
      <3> QED
        BY <3>3, <3>4, <3>5 DEF TypeOK
    <2> QED
      BY <2>1, StoppedAll
  <1>9. CASE Restart
    <2>1. ASSUME NEW t \in Tasks PROVE ViewSame(t)
      <3>1. /\ ~up /\ up' /\ UNCHANGED <<status, fill, pc>>
            /\ row'[t] = Recovered(row[t])
        BY <1>9 DEF Restart, store, worker, Recovered
      <3> QED
        BY <1>0, <3>1 DEF ViewSame, ViewOf, Recovered, StoreOf
    <2> QED
      BY <2>1, <1>s
  <1>10. ~ RestartUnrecovered
    BY <1>f DEF RestartUnrecovered
  <1>11. CASE UNCHANGED vars
    BY <1>11, <1>s, ViewsSame DEF vars, store, worker, env
  <1> QED
    BY <1>1, <1>2, <1>3, <1>4, <1>5, <1>6, <1>7, <1>8, <1>9, <1>10, <1>11 DEF Next

(* With a database that never refuses a call, what polls see of the tasks  *)
(* is a behaviour of TaskPromise: from pending to running to completed or  *)
(* failed, and no crash, recovery, cleanup or read-through takes it back.  *)
THEOREM PromiseKept == ASSUME MaxFaults = 0 PROVE Spec => KeepsPromise
  <1>1. Init => Promise!PInit /\ RunInv
    BY ViewInit, RunInit
  <1>2. IInv /\ StoreInv /\ RunInv /\ [Next]_vars => RunInv' /\ [Promise!PNext]_Views
    BY RunNext, ViewNext
  <1> QED
    BY <1>1, <1>2, Inductive, StoreInductive, PTL DEF Spec, KeepsPromise, Promise!PSpec, Views
=============================================================================
