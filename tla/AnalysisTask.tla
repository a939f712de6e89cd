---------------------------- MODULE AnalysisTask ----------------------------
(***************************************************************************)
(* The asynchronous analysis task of the backend: the worker goroutine of  *)
(* service/analysis/service.go, the TaskStore it reports to (an in-memory  *)
(* map in front of the table rm_analysis_tasks), the clients that poll it, *)
(* the hourly cleanup, and the restart of the server.                      *)
(*                                                                         *)
(* Every method of the TaskStore is atomic (one mutex), but the upsert     *)
(* that follows Create, UpdateProgress, Complete and Fail runs after the   *)
(* mutex is released: owed[t] is that upsert, still to be made.            *)
(***************************************************************************)
EXTENDS Naturals, FiniteSets

CONSTANTS
    Tasks,        \* task identifiers, fresh UUIDs in the code
    Holdings,     \* the symbols a portfolio can contain (unique per user)
    NoHolding,    \* "no current holding"
    Concurrency,  \* capacity of the analysis semaphore
    MaxCrashes,   \* bound on server crashes
    MaxFaults     \* bound on failed database calls of the store

ASSUME ConstantsAssumption ==
    /\ IsFiniteSet(Tasks)
    /\ NoHolding \notin Holdings
    /\ Concurrency \in Nat \ {0}
    /\ MaxCrashes \in Nat
    /\ MaxFaults \in Nat

VARIABLES
    \* the TaskStore map, lost in a crash
    status,   \* status[t]: the task's status, "absent" without a map entry
    holds,    \* holds[t][h]: reported status of each holding of the task
    cur,      \* cur[t]: task.CurrentHolding
    steps,    \* steps[t][s]: reported status of the five pipeline steps
    \* the table rm_analysis_tasks, which survives
    row,      \* row[t]: persisted status, "none" without a row
    \* the worker goroutines
    pc,       \* pc[t]: where the goroutine is
    todo,     \* todo[t]: the holdings its loop has still to visit
    stage,    \* stage[t]: the pipeline step it is in
    result,   \* result[t]: what analyzeHolding returned
    owed,     \* owed[t]: an upsert of the task is in flight
    slots,    \* used capacity of the semaphore
    cron,     \* slots used by scheduled analyses, which have no task
    \* pollers and cleanup
    fill,     \* fill[t]: row a poll has read and not yet put in the map
    seen,     \* seen[t]: what the last poll returned
    aged,     \* tasks whose done_at is older than the retention period
    cut,      \* tasks older than the cutoff of the running sweep
    left,     \* those of them the sweep has still to visit in the map
    \* the environment
    up,       \* the server process runs
    crashes, faults,
    stale     \* stale[t]: the last upsert of t, or its recovery, failed (history)

store   == <<status, holds, cur, steps>>
worker  == <<pc, todo, stage, result>>
sem     == <<slots, cron>>
sweep   == <<aged, cut, left>>
env     == <<up, crashes, faults>>
vars    == <<store, row, worker, owed, sem, fill, seen, sweep, env, stale>>

Terminal  == {"completed", "failed"}
Live      == {"pending", "running"}
StepState == {"none", "pending", "running", "done", "failed"}

\* AllStepKeys: fetch_data, calc_indicators, recommendation, llm_synthesis and
\* persist, in this order.
StepKeys == 1..5

\* The steps after which analyzeHolding can return an error.
CanFail == {1, 4, 5}

DefaultSteps == [s \in StepKeys |-> "pending"]
NoSteps      == [s \in StepKeys |-> "none"]
NoHoldings   == [h \in Holdings |-> "none"]

TypeOK ==
    /\ status \in [Tasks -> {"absent"} \cup Live \cup Terminal]
    /\ holds \in [Tasks -> [Holdings -> StepState]]
    /\ cur \in [Tasks -> Holdings \cup {NoHolding}]
    /\ steps \in [Tasks -> [StepKeys -> StepState]]
    /\ row \in [Tasks -> {"none"} \cup Live \cup Terminal]
    /\ pc \in [Tasks -> {"idle", "start", "list", "init", "progress", "select",
                         "mark", "queue", "step", "work", "report", "finish",
                         "end", "dead"}]
    /\ todo \in [Tasks -> SUBSET Holdings]
    /\ stage \in [Tasks -> StepKeys]
    /\ result \in [Tasks -> {"none", "card", "error"}]
    /\ owed \in [Tasks -> BOOLEAN]
    /\ slots \in Nat
    /\ cron \in Nat
    /\ fill \in [Tasks -> {"none"} \cup Live \cup Terminal]
    /\ seen \in [Tasks -> {"never", "gone"} \cup Live \cup Terminal]
    /\ aged \subseteq Tasks
    /\ cut \subseteq Tasks
    /\ left \subseteq cut
    /\ up \in BOOLEAN
    /\ crashes \in 0..MaxCrashes
    /\ faults \in 0..MaxFaults
    /\ stale \in [Tasks -> BOOLEAN]

Init ==
    /\ status = [t \in Tasks |-> "absent"]
    /\ holds = [t \in Tasks |-> NoHoldings]
    /\ cur = [t \in Tasks |-> NoHolding]
    /\ steps = [t \in Tasks |-> NoSteps]
    /\ row = [t \in Tasks |-> "none"]
    /\ pc = [t \in Tasks |-> "idle"]
    /\ todo = [t \in Tasks |-> {}]
    /\ stage = [t \in Tasks |-> 1]
    /\ result = [t \in Tasks |-> "none"]
    /\ owed = [t \in Tasks |-> FALSE]
    /\ slots = 0
    /\ cron = 0
    /\ fill = [t \in Tasks |-> "none"]
    /\ seen = [t \in Tasks |-> "never"]
    /\ aged = {}
    /\ cut = {}
    /\ left = {}
    /\ up = TRUE
    /\ crashes = 0
    /\ faults = 0
    /\ stale = [t \in Tasks |-> FALSE]

-----------------------------------------------------------------------------
(* TaskStore: the mutators, and the upsert that follows some of them.      *)

\* The goroutine of t can take a step: its last upsert has returned.
At(t, place) == up /\ pc[t] = place /\ ~owed[t]

Go(t, place) == pc' = [pc EXCEPT ![t] = place]

SetStatus(t, s) ==
    /\ status' = [status EXCEPT ![t] = s]
    /\ owed' = [owed EXCEPT ![t] = TRUE]

\* TaskStore.Create, called by the handler before the goroutine starts.
Create(t) ==
    /\ up
    /\ pc[t] = "idle"
    /\ SetStatus(t, "pending")
    /\ holds' = [holds EXCEPT ![t] = NoHoldings]
    /\ steps' = [steps EXCEPT ![t] = DefaultSteps]
    /\ UNCHANGED <<cur, row, stage, result, sem, fill, seen, sweep, env, stale>>

\* TaskStore.persist: the upsert writes what the task holds by then.
Persist(t) ==
    /\ up
    /\ owed[t]
    /\ row' = [row EXCEPT ![t] = status[t]]
    /\ owed' = [owed EXCEPT ![t] = FALSE]
    /\ stale' = [stale EXCEPT ![t] = FALSE]
    /\ UNCHANGED <<store, worker, sem, fill, seen, sweep, env>>

\* A failed upsert is logged and dropped.
PersistFails(t) ==
    /\ up
    /\ owed[t]
    /\ faults < MaxFaults
    /\ faults' = faults + 1
    /\ owed' = [owed EXCEPT ![t] = FALSE]
    /\ stale' = [stale EXCEPT ![t] = TRUE]
    /\ UNCHANGED <<store, row, worker, sem, fill, seen, sweep, up, crashes>>

-----------------------------------------------------------------------------
(* The worker goroutine.                                                   *)

\* TriggerAnalysis and its alias TriggerReanalyzeAll.
TriggerAnalysis(t) ==
    /\ Create(t)
    /\ Go(t, "start")
    /\ UNCHANGED todo

\* TriggerSingleAnalysis: the holding was loaded before the task is created.
TriggerSingleAnalysis(t, h) ==
    /\ Create(t)
    /\ Go(t, "init")
    /\ todo' = [todo EXCEPT ![t] = {h}]

\* UpdateProgress(0.05), first call of the portfolio goroutine.
Begin(t) ==
    /\ At(t, "start")
    /\ SetStatus(t, "running")
    /\ Go(t, "list")
    /\ UNCHANGED <<holds, cur, steps, row, todo, stage, result, sem, fill, seen,
                   sweep, env, stale>>

\* Mutant: the return after Fail is missing.
Fail_NoReturn(t) ==
    /\ At(t, "list")
    /\ SetStatus(t, "failed")
    /\ Go(t, "init")
    /\ UNCHANGED <<holds, cur, steps, row, todo, stage, result, sem, fill, seen,
                   sweep, env, stale>>

\* ListHoldingsByUser fails or finds nothing: TaskStore.Fail, then return.
Fail(t) ==
    /\ At(t, "list")
    /\ SetStatus(t, "failed")
    /\ Go(t, "end")
    /\ UNCHANGED <<holds, cur, steps, row, todo, stage, result, sem, fill, seen,
                   sweep, env, stale>>

\* What the query returned: whether that is all, or the list was cut short by a lost
\* connection, which the loop over the rows does not notice, the task cannot tell.
ListHoldings(t) ==
    /\ At(t, "list")
    /\ \E portfolio \in (SUBSET Holdings) \ {{}} :
          todo' = [todo EXCEPT ![t] = portfolio]
    /\ Go(t, "init")
    /\ UNCHANGED <<store, row, stage, result, owed, sem, fill, seen, sweep, env, stale>>

InitHoldings(t) ==
    /\ At(t, "init")
    /\ holds' = [holds EXCEPT ![t] =
                   [h \in Holdings |-> IF h \in todo[t] THEN "pending" ELSE "none"]]
    /\ steps' = [steps EXCEPT ![t] = DefaultSteps]
    /\ Go(t, "progress")
    /\ UNCHANGED <<status, cur, row, todo, stage, result, owed, sem, fill, seen,
                   sweep, env, stale>>

\* UpdateProgress at the head of the loop: the status becomes running whatever
\* it was.
UpdateProgress(t) ==
    /\ At(t, "progress")
    /\ SetStatus(t, "running")
    /\ Go(t, "select")
    /\ UNCHANGED <<holds, cur, steps, row, todo, stage, result, sem, fill, seen,
                   sweep, env, stale>>

\* Mutant: the steps of the previous holding stay.
SetCurrentHolding_KeepsSteps(t) ==
    /\ At(t, "select")
    /\ \E h \in todo[t] :
          /\ cur' = [cur EXCEPT ![t] = h]
          /\ todo' = [todo EXCEPT ![t] = @ \ {h}]
    /\ Go(t, "mark")
    /\ UNCHANGED <<status, holds, steps, row, stage, result, owed, sem, fill, seen,
                   sweep, env, stale>>

SetCurrentHolding(t) ==
    /\ At(t, "select")
    /\ \E h \in todo[t] :
          /\ cur' = [cur EXCEPT ![t] = h]
          /\ todo' = [todo EXCEPT ![t] = @ \ {h}]
    /\ steps' = [steps EXCEPT ![t] = DefaultSteps]
    /\ Go(t, "mark")
    /\ UNCHANGED <<status, holds, row, stage, result, owed, sem, fill, seen,
                   sweep, env, stale>>

\* UpdateHoldingStatus(running).
MarkHoldingRunning(t) ==
    /\ At(t, "mark")
    /\ holds' = [holds EXCEPT ![t][cur[t]] = "running"]
    /\ Go(t, "queue")
    /\ UNCHANGED <<status, cur, steps, row, todo, stage, result, owed, sem, fill,
                   seen, sweep, env, stale>>

\* acquireSlot: a send on the semaphore channel, blocked while it is full.
AcquireSlot(t) ==
    /\ At(t, "queue")
    /\ slots < Concurrency
    /\ slots' = slots + 1
    /\ stage' = [stage EXCEPT ![t] = 1]
    /\ Go(t, "step")
    /\ UNCHANGED <<store, row, todo, result, owed, cron, fill, seen, sweep, env, stale>>

StartStep(t) ==
    /\ At(t, "step")
    /\ steps' = [steps EXCEPT ![t][stage[t]] = "running"]
    /\ Go(t, "work")
    /\ UNCHANGED <<status, holds, cur, row, todo, stage, result, owed, sem, fill,
                   seen, sweep, env, stale>>

\* The deferred release, then back to the loop.
Return(t, outcome) ==
    /\ slots' = slots - 1
    /\ result' = [result EXCEPT ![t] = outcome]
    /\ Go(t, "report")
    /\ UNCHANGED stage

\* Mutant: the same without the release.
Return_KeepsSlot(t, outcome) ==
    /\ result' = [result EXCEPT ![t] = outcome]
    /\ Go(t, "report")
    /\ UNCHANGED <<slots, stage>>

CompleteStep(t) ==
    /\ At(t, "work")
    /\ steps' = [steps EXCEPT ![t][stage[t]] = "done"]
    /\ IF stage[t] = 5
         THEN Return(t, "card")
         ELSE /\ stage' = [stage EXCEPT ![t] = @ + 1]
              /\ Go(t, "step")
              /\ UNCHANGED <<slots, result>>
    /\ UNCHANGED <<status, holds, cur, row, todo, owed, cron, fill, seen, sweep,
                   env, stale>>

\* Mutant: an early return on the error path, its slot kept.
FailStep_KeepsSlot(t) ==
    /\ At(t, "work")
    /\ stage[t] \in CanFail
    /\ steps' = [steps EXCEPT ![t][stage[t]] = "failed"]
    /\ Return_KeepsSlot(t, "error")
    /\ UNCHANGED <<status, holds, cur, row, todo, owed, cron, fill, seen, sweep,
                   env, stale>>

\* FailStep, also the fate of a step whose context has expired, be it while the
\* goroutine was queueing for its slot.
FailStep(t) ==
    /\ At(t, "work")
    /\ stage[t] \in CanFail
    /\ steps' = [steps EXCEPT ![t][stage[t]] = "failed"]
    /\ Return(t, "error")
    /\ UNCHANGED <<status, holds, cur, row, todo, owed, cron, fill, seen, sweep,
                   env, stale>>

\* Mutant: the error of analyzeHolding is dropped.
ReportHolding_IgnoresError(t) ==
    /\ At(t, "report")
    /\ holds' = [holds EXCEPT ![t][cur[t]] = "done"]
    /\ Go(t, IF todo[t] = {} THEN "finish" ELSE "progress")
    /\ UNCHANGED <<status, cur, steps, row, todo, stage, result, owed, sem, fill,
                   seen, sweep, env, stale>>

\* Mutant: the loop ends at the first holding that fails.
ReportHolding_StopsAtError(t) ==
    /\ At(t, "report")
    /\ holds' = [holds EXCEPT ![t][cur[t]] =
                   IF result[t] = "card" THEN "done" ELSE "failed"]
    /\ Go(t, IF todo[t] = {} \/ result[t] = "error" THEN "finish" ELSE "progress")
    /\ UNCHANGED <<status, cur, steps, row, todo, stage, result, owed, sem, fill,
                   seen, sweep, env, stale>>

\* UpdateHoldingStatus(done or failed); the loop goes on after a failure.
ReportHolding(t) ==
    /\ At(t, "report")
    /\ holds' = [holds EXCEPT ![t][cur[t]] =
                   IF result[t] = "card" THEN "done" ELSE "failed"]
    /\ Go(t, IF todo[t] = {} THEN "finish" ELSE "progress")
    /\ UNCHANGED <<status, cur, steps, row, todo, stage, result, owed, sem, fill,
                   seen, sweep, env, stale>>

\* Mutant: Complete without its upsert.
Complete_Unsaved(t) ==
    /\ At(t, "finish")
    /\ status' = [status EXCEPT ![t] = "completed"]
    /\ Go(t, "end")
    /\ UNCHANGED <<holds, cur, steps, row, todo, stage, result, owed, sem, fill,
                   seen, sweep, env, stale>>

\* TaskStore.Complete, reached whatever became of the single holdings.
Complete(t) ==
    /\ At(t, "finish")
    /\ SetStatus(t, "completed")
    /\ Go(t, "end")
    /\ UNCHANGED <<holds, cur, steps, row, todo, stage, result, sem, fill, seen,
                   sweep, env, stale>>

\* Scheduled analyses compete for the semaphore and report to no task.
CronAcquire ==
    /\ up
    /\ slots < Concurrency
    /\ slots' = slots + 1
    /\ cron' = cron + 1
    /\ UNCHANGED <<store, row, worker, owed, fill, seen, sweep, env, stale>>

\* Mutant: a slot released twice.
CronRelease_Twice ==
    /\ up
    /\ slots > 0
    /\ slots' = slots - 1
    /\ cron' = cron - 1
    /\ UNCHANGED <<store, row, worker, owed, fill, seen, sweep, env, stale>>

CronRelease ==
    /\ up
    /\ cron > 0
    /\ slots' = slots - 1
    /\ cron' = cron - 1
    /\ UNCHANGED <<store, row, worker, owed, fill, seen, sweep, env, stale>>

-----------------------------------------------------------------------------
(* TaskStore.Get: a snapshot of the map entry, or the row, which is then   *)
(* put in the map by a step of its own.                                    *)

PollMemory(t) ==
    /\ up
    /\ status[t] # "absent"
    /\ seen' = [seen EXCEPT ![t] = status[t]]
    /\ UNCHANGED <<store, row, worker, owed, sem, fill, sweep, env, stale>>

PollUnknown(t) ==
    /\ up
    /\ pc[t] # "idle"
    /\ status[t] = "absent"
    /\ row[t] = "none"
    /\ seen' = [seen EXCEPT ![t] = "gone"]
    /\ UNCHANGED <<store, row, worker, owed, sem, fill, sweep, env, stale>>

PollReadsRow(t) ==
    /\ up
    /\ status[t] = "absent"
    /\ row[t] # "none"
    /\ fill[t] = "none"
    /\ fill' = [fill EXCEPT ![t] = row[t]]
    /\ UNCHANGED <<store, row, worker, owed, sem, seen, sweep, env, stale>>

\* The restored entry has neither holdings nor steps.
PollStoresRow(t) ==
    /\ up
    /\ fill[t] # "none"
    /\ status' = [status EXCEPT ![t] = fill[t]]
    /\ holds' = [holds EXCEPT ![t] = NoHoldings]
    /\ cur' = [cur EXCEPT ![t] = NoHolding]
    /\ steps' = [steps EXCEPT ![t] = NoSteps]
    /\ seen' = [seen EXCEPT ![t] = fill[t]]
    /\ fill' = [fill EXCEPT ![t] = "none"]
    /\ UNCHANGED <<row, worker, owed, sem, sweep, env, stale>>

\* GetByID fails: the poll is answered as for an unknown task.
PollFails(t) ==
    /\ up
    /\ status[t] = "absent"
    /\ row[t] # "none"
    /\ faults < MaxFaults
    /\ faults' = faults + 1
    /\ seen' = [seen EXCEPT ![t] = "gone"]
    /\ UNCHANGED <<store, row, worker, owed, sem, fill, sweep, up, crashes, stale>>

-----------------------------------------------------------------------------
(* cleanupLoop: one cutoff, the map first, then the table.                 *)

\* The retention period of a finished task passes; it is far longer than the
\* timeout of an upsert.
Age(t) ==
    /\ up
    /\ t \notin aged
    /\ ~owed[t]
    /\ status[t] \in Terminal \/ row[t] \in Terminal
    /\ aged' = aged \cup {t}
    /\ UNCHANGED <<store, row, worker, owed, sem, fill, seen, cut, left, env, stale>>

SweepBegins ==
    /\ up
    /\ cut = {}
    /\ aged # {}
    /\ cut' = aged
    /\ left' = aged
    /\ UNCHANGED <<store, row, worker, owed, sem, fill, seen, aged, env, stale>>

\* Only an entry with a done time is dropped.
SweepEntry(t) ==
    /\ up
    /\ t \in left
    /\ left' = left \ {t}
    /\ IF status[t] \in Terminal
         THEN /\ status' = [status EXCEPT ![t] = "absent"]
              /\ holds' = [holds EXCEPT ![t] = NoHoldings]
              /\ cur' = [cur EXCEPT ![t] = NoHolding]
              /\ steps' = [steps EXCEPT ![t] = NoSteps]
         ELSE UNCHANGED store
    /\ UNCHANGED <<row, worker, owed, sem, fill, seen, aged, cut, env, stale>>

\* DeleteOlderThan.
SweepRows ==
    /\ up
    /\ cut # {}
    /\ left = {}
    /\ row' = [t \in Tasks |->
                 IF t \in cut /\ row[t] \in Terminal THEN "none" ELSE row[t]]
    /\ cut' = {}
    /\ UNCHANGED <<store, worker, owed, sem, fill, seen, aged, left, env, stale>>

SweepRowsFails ==
    /\ up
    /\ cut # {}
    /\ left = {}
    /\ faults < MaxFaults
    /\ faults' = faults + 1
    /\ cut' = {}
    /\ UNCHANGED <<store, row, worker, owed, sem, fill, seen, aged, left, up,
                   crashes, stale>>

-----------------------------------------------------------------------------
(* Crash and restart.                                                      *)

Crash ==
    /\ up
    /\ crashes < MaxCrashes
    /\ up' = FALSE
    /\ crashes' = crashes + 1
    /\ status' = [t \in Tasks |-> "absent"]
    /\ holds' = [t \in Tasks |-> NoHoldings]
    /\ cur' = [t \in Tasks |-> NoHolding]
    /\ steps' = [t \in Tasks |-> NoSteps]
    /\ pc' = [t \in Tasks |-> IF pc[t] = "idle" THEN "idle" ELSE "dead"]
    /\ todo' = [t \in Tasks |-> {}]
    /\ stage' = [t \in Tasks |-> 1]
    /\ result' = [t \in Tasks |-> "none"]
    /\ owed' = [t \in Tasks |-> FALSE]
    /\ slots' = 0
    /\ cron' = 0
    /\ fill' = [t \in Tasks |-> "none"]
    /\ cut' = {}
    /\ left' = {}
    /\ UNCHANGED <<row, seen, aged, faults, stale>>

\* Mutant: FailOrphaned misses the tasks that never got to run.
Restart_RunningOnly ==
    /\ ~up
    /\ up' = TRUE
    /\ row' = [t \in Tasks |-> IF row[t] = "running" THEN "failed" ELSE row[t]]
    /\ aged' = {t \in aged : row[t] \notin Live}
    /\ UNCHANGED <<store, worker, owed, sem, fill, seen, cut, left, crashes,
                   faults, stale>>

\* Mutant: FailOrphaned misses the tasks that were running.
Restart_PendingOnly ==
    /\ ~up
    /\ up' = TRUE
    /\ row' = [t \in Tasks |-> IF row[t] = "pending" THEN "failed" ELSE row[t]]
    /\ aged' = {t \in aged : row[t] \notin Live}
    /\ UNCHANGED <<store, worker, owed, sem, fill, seen, cut, left, crashes,
                   faults, stale>>

\* NewTaskStore: FailOrphaned runs before the first request is served.
Restart ==
    /\ ~up
    /\ up' = TRUE
    /\ row' = [t \in Tasks |-> IF row[t] \in Live THEN "failed" ELSE row[t]]
    /\ aged' = {t \in aged : row[t] \notin Live}
    /\ UNCHANGED <<store, worker, owed, sem, fill, seen, cut, left, crashes,
                   faults, stale>>

\* FailOrphaned fails: a warning is logged and the server starts.
RestartUnrecovered ==
    /\ ~up
    /\ faults < MaxFaults
    /\ faults' = faults + 1
    /\ up' = TRUE
    /\ stale' = [t \in Tasks |-> stale[t] \/ row[t] \in Live]
    /\ UNCHANGED <<store, row, worker, owed, sem, fill, seen, sweep, crashes>>

-----------------------------------------------------------------------------

Work(t) ==
    \/ Begin(t) \/ Fail(t) \/ ListHoldings(t) \/ InitHoldings(t)
    \/ UpdateProgress(t) \/ SetCurrentHolding(t) \/ MarkHoldingRunning(t)
    \/ StartStep(t) \/ CompleteStep(t) \/ FailStep(t)
    \/ ReportHolding(t) \/ Complete(t)

Upsert(t) == Persist(t) \/ PersistFails(t)

Poll(t) ==
    \/ PollMemory(t) \/ PollUnknown(t) \/ PollReadsRow(t) \/ PollStoresRow(t)
    \/ PollFails(t)

Cleanup ==
    \/ SweepBegins \/ SweepRows \/ SweepRowsFails
    \/ \E t \in Tasks : Age(t) \/ SweepEntry(t)

Next ==
    \/ \E t \in Tasks :
          \/ TriggerAnalysis(t)
          \/ \E h \in Holdings : TriggerSingleAnalysis(t, h)
          \/ Work(t)
          \/ AcquireSlot(t)
          \/ Upsert(t)
          \/ Poll(t)
    \/ CronAcquire
    \/ CronRelease
    \/ Cleanup
    \/ Crash
    \/ Restart
    \/ RestartUnrecovered

Spec == Init /\ [][Next]_vars

\* Every goroutine is scheduled, every external call has a timeout and every
\* upsert a context of 3 s; a goroutine blocked on the semaphore channel is
\* served in arrival order, so it is not overtaken for ever; scheduled analyses
\* give their slot back; the container is restarted unless stopped.
Fairness ==
    /\ \A t \in Tasks : WF_vars(Work(t)) /\ SF_vars(AcquireSlot(t)) /\ WF_vars(Upsert(t))
    /\ WF_vars(CronRelease)
    /\ WF_vars(Restart \/ RestartUnrecovered)

FairSpec == Spec /\ Fairness

-----------------------------------------------------------------------------
(* What must hold.                                                         *)

\* The goroutines between acquireSlot and the deferred release.
Holders == {t \in Tasks : pc[t] \in {"step", "work"}}

\* No slot of the analysis semaphore is ever leaked or given back twice,
\* whatever step fails and whoever shares it: the used capacity is the number
\* of analyses inside the pipeline (acquireSlot and its deferred release).
SlotsExact ==
    /\ slots = Cardinality(Holders) + cron
    /\ slots <= Concurrency

\* The goroutines that have still to finish their task.
Working ==
    {"start", "list", "init", "progress", "select", "mark", "queue", "step", "work",
     "report", "finish"}

\* A task is never shown as finished while its goroutine still works on it, so a
\* client that stops polling has seen the outcome, and the cleanup never drops the
\* entry of a task at work (Fail and its return, Complete as the last call).
WorkingIsLive ==
    \A t \in Tasks : pc[t] \in Working => status[t] \in Live

\* What a poll shows of the pipeline is a possible state of one run of it: the
\* steps before a started one are done, so nothing of the previous holding is
\* left over and nothing follows a failed step.
PipelineShape ==
    \A t \in Tasks : \A i, j \in StepKeys :
        i < j /\ steps[t][j] \in {"running", "done", "failed"} => steps[t][i] = "done"

\* A holding is reported done only after all five steps, failed only when a step
\* failed, and the step that failed is still on display until the loop moves on.
OutcomeMatchesSteps ==
    \A t \in Tasks : cur[t] # NoHolding =>
        /\ holds[t][cur[t]] = "done" => \A s \in StepKeys : steps[t][s] = "done"
        /\ holds[t][cur[t]] = "failed" => \E s \in StepKeys : steps[t][s] = "failed"

\* A task is shown as completed only when its goroutine has reported on every
\* holding, those after a failed one included; only an entry restored from the
\* table lists no holdings.
CompletedMeansReported ==
    \A t \in Tasks : status[t] = "completed" /\ pc[t] # "dead" =>
        \A h \in Holdings : holds[t][h] \notin {"pending", "running"}

\* Between two upserts the row is what the map says, unless the last upsert
\* failed; a finished task can also have lost its row to the cleanup.
StoreAgrees ==
    \A t \in Tasks : up /\ status[t] # "absent" /\ ~owed[t] /\ ~stale[t] =>
        \/ row[t] = status[t]
        \/ row[t] = "none" /\ status[t] \in Terminal

\* Once a poll has shown a task as finished no later poll shows it as pending or
\* running, whatever crash, restart, cleanup or read-through comes between,
\* unless the database has refused the task's last upsert or its recovery.
NoResurrection ==
    [][\A t \in Tasks : seen[t] \in Terminal /\ ~stale[t] => seen'[t] \notin Live]_seen

\* A task that is dead to the server, its goroutine gone with a crash, is never
\* shown as pending or running by a later poll (recoverOrphaned), with the same
\* exception.
OrphansSettled ==
    [][\A t \in Tasks :
          pc[t] = "dead" /\ ~stale[t] /\ seen'[t] # seen[t] => seen'[t] \notin Live]_seen

\* Every accepted task ends, however its holdings fare and whenever the server
\* crashes: it becomes completed or failed, or its record has been removed, unless
\* the database refuses its last upsert or its recovery.
Settled(t) ==
    \/ status[t] \in Terminal
    \/ status[t] = "absent" /\ row[t] \in Terminal \cup {"none"}

TaskEnds == \A t \in Tasks : (pc[t] # "idle") ~> (up /\ (Settled(t) \/ stale[t]))
=============================================================================
