# Richman in TLA+

A verification development for the Richman repository: TLA+ modules translated
from the Go backend (`src/backend`) and from the job handling of the Python
sidecar (`src/richson`), TLC runs that check them on small instances, and
proofs checked by TLAPS. Paths below are relative to `src/backend/internal`
unless they start with `src/` or `richson/`; `PROJECT.json` maps every
definition to the lines it stands for.

## 1. The system

Richman keeps a user's portfolio and writes *decision cards* about its
holdings. There are two generations. In **v1** the backend runs a five-step
pipeline per holding (fetch, indicators, recommendation, LLM synthesis,
persist) in goroutines, on request or from a per-user schedule. In **v2** the
sidecar *richson* analyses an *asset* once for everybody (a job with a row in
`rs_analysis_jobs`), and the backend asks it for a plan per *holding*; cron
entries mail alerts, briefings and suggestions.

| Component | State | Operations | Module |
|---|---|---|---|
| Task store and worker (`service/analysis/task_store.go`, `service.go`) | map of tasks behind a mutex, table `rm_analysis_tasks`, semaphore channel | Trigger (portfolio, single), Get, progress and step methods, Complete, Fail, hourly cleanup, `FailOrphaned` at start | `AnalysisTask`, `TaskPromise`, `TaskView` |
| Asset jobs (`richson/app/...`, `richson/client.go`, `repo/analysis_job_read_repo.go`) | table `rs_analysis_jobs` with a partial unique index, `rs_asset_analyses`, coroutines | trigger one or a batch, progress updates, store, expiry sweep every 3 minutes | `AnalysisJobs` |
| Decision cards (`repo/decision_card_repo.go`, `service/analysis/service.go`, `v2_holding.go`) | table `rm_decision_cards`, in-flight `sync.Map` | v1: transaction with the previous card locked; v2: guard, gather, ask, insert | `DecisionCards` |
| Pure analysis algorithms (`analysis/...`) | none | trend, position, catalyst, weights, confidence, matrix, badge | `HoldingScores` |
| Scheduler (`service/analysis/scheduler.go`) | cron entries, `entryIDs` per user, DST callback | Start, ReloadUser, DST transition, cron jobs | `ScheduleEntries` |
| Next analysis and frequency gate (`service/schedule/next_analysis.go`) | none (pure) | `ComputeNextAnalysisAt`, `filterEligibleHoldings` | `FrequencyGate` |
| v2 cron and e-mail push (`service/schedule/v2_cron.go`, `service/emailpush`) | `dailyAlertedTracker`, mutexes of the entries, marks in `rs_event_alerts`, `rm_notification_logs` | score alert, holding suggestions, briefing, weekly insight, closing alert, event polling | `EmailPush` |
| Registration and invites (`service/auth`, `service/invite`) | users, global and personal codes, rewards, streaks | register, login, generate, delete the account | `InviteRegistration` |
| Portfolio (`service/portfolio`) | `rm_holdings`, `rm_trades` | create, edit, delete a holding, add a trade | `Portfolio` |
| LLM resolution (`llm/resolver.go`, `api/v1/settings_llm.go`) | `rm_llm_configs`, consent | resolve with fallback, PUT, DELETE, probe, consent | `LlmAccess` |
| Caches and market pages (`service/quote`, `service/exchangerate`, `service/market`) | maps with a time to live | quote, rates, detail page | `MarketReads` |
| Rate limits, screenshots (`api/middleware`, `service/screenshot`) | windows per address or user | allow, upload | `RateLimits` |
| Migrations (`migration/runner.go`, `migration/verify.go`, `cmd/migrate`) | the schema, table `schema_migrations` | up, down, verification when a server starts | `Migrations` |
| Dashboard, onboarding, briefing texts, settings, seed, handlers, data sources, front end | single rows or none | sequential requests | not modelled, section 7 |

Handlers call the services directly; the scheduler and the v2 cron call the
worker and the mail service in goroutines of their own; everything else meets
only in the database, in the maps of one process, or in the LLM provider. That
is why a module has the requests or goroutines that touch one such state, and
its environment (a switch of the settings, a stored analysis) as actions.

### What is hard about it

* *Interleaving and atomicity.* `TaskStore` releases its mutex before it writes
  the row; `Get` reads the row without the mutex and stores it later; the
  sidecar checks for an active job before it inserts one; two transactions
  choose the same previous card; limits of holdings, codes and pushes are
  counted by one statement and used by another.
* *Crash and restart.* A task or job whose goroutine died must not stay live;
  an event half mailed must be mailed again, and no other.
* *Partial failure.* A refused upsert is only logged; a holding of a portfolio
  may fail while the task completes; registration with a global code has no
  transaction; a trade is stored before the cost is, and a migration committed
  before its row is. No list of a repository asks `rows.Err()`, so a
  connection lost between two rows makes a shorter list and no error.
* *Timeouts and retries.* The client repeats a request whose first copy may
  have created a job; a sweep fails jobs by age; SMTP has no deadline.
* *Stale state.* Concurrent refreshes of a cache, a health stamp for a
  configuration replaced meanwhile, a previous analysis looked up long before the
  new one is stored.
* *Limits.* The analysis semaphore is shared by requests and scheduled jobs
  and must never lose a slot.
* *Schedule arithmetic.* Weekends, daylight saving, windows and frequencies.

`PROJECT.json` lists each hazard at its line with the properties that cover it.

## 2. What is modelled

### `AnalysisTask`: the task store and its worker

Variables follow the code: `status`, `holds`, `cur` and `steps` are the fields
of a task in the map (`"absent"` without an entry), `row` is the table, `pc`,
`todo`, `stage` and `result` the goroutine, `slots` the semaphore (with `cron`
of them held by scheduled analyses, which have no task), `owed` an upsert that
has left the mutex and not yet reached the database, `fill` a row that a poll
has read and not yet stored, `cut` and `left` a cleanup in progress.

One action is one mutex section or one database call. The goroutine waits for
its own upsert, so `At` requires `~owed[t]`, while polls, the cleanup and other
tasks go on in between. `PollReadsRow` and `PollStoresRow` are the two halves
of a read-through. `Crash` loses all but the table; `Restart` is
`FailOrphaned`. `PersistFails`, `PollFails`, `SweepRowsFails` and
`RestartUnrecovered` are the failures the code logs and survives. `stale` is a
history variable that marks the tasks whose row is known to be out of date
because of such a failure.

What `analyzeHolding` computes is abstracted to the outcome of its steps: each
may succeed, and those after which the code returns an error (`CanFail`) may
fail. Steps 2 and 3 cannot.

`TaskPromise` states what a client may rely on, with one variable: the life of
a task identifier from unknown to gone. `TaskView` maps the state of
`AnalysisTask` to it (`ViewOf`) and states the refinement `KeepsPromise`. One
sweep forgets several finished tasks in one step (`Forget`), because
`DeleteOlderThan` is one DELETE: a promise that forgets one at a time passes a
run of two tasks, where an interruption explains the step, and its proof fails.

### `AnalysisJobs`: the jobs of an asset

A job is named by the request that creates it. Client: `Call`, `Retry`,
`Return`, `TimeOut`. Handler: `CheckActive` (SELECT), `CreateJob` (INSERT under
the partial unique index), `SpawnPipeline`. Pipeline: every progress update is
an action, because each one writes `status = 'running'` and is refused by the
index when another job of the asset has become active (`SetRunning`). Steps that
make the same updates are one stage: the data and its scores, the three research
dimensions. The caller chooses the language (`locale`); jobs exclude each other by
asset alone, while `ReadPrevious` looks up the latest analysis of the asset in the
language of the job (`SeriesOf`), so that there are as many chains of analyses as
languages.
`FailExpiredJobs` is the backend's sweep. The hour of a job may pass at any time:
nothing tells the pipeline, and no line bounds its length. `slow` is a history
variable, the jobs whose hour passed before their analysis was stored; what they
may do is the only exception in `OnePipelinePerAsset` and `LinearHistory`.

### `DecisionCards`: the chain of cards of one holding

v1 stamps its card (`BuildCard`), then in a transaction selects the latest card
and locks it (`SelectLatest`, `LockRow`), inserts and commits. The model keeps
what READ COMMITTED gives: a statement sees what had committed when it began,
and a granted lock does not repeat the choice, since card rows are never
updated. v2 takes the in-flight key, gathers, asks the sidecar and inserts one
row. `met` is a history variable: the analyses that overlapped with another.

### `ScheduleEntries`: the cron entries of one user

`row` is the saved settings, `entryIDs` the map behind the scheduler's mutex,
`cron` what the cron instance holds (it has a lock of its own), `armed` the
one-shot DST callback. Three kinds of operations run side by side, each with
its place `pc`: a PUT with its `ReloadUser`, a start of the server, a transition
of daylight saving. One action is one mutex section, one call of cron or one
database call: `Take` empties the map under the mutex, `CronRemove` removes the
entries afterwards, `AddFunc` adds one that only `Record` puts into the map.
`hand` holds the entries an operation has taken out or not yet recorded.

Times of day are abstracted to what `parseHHMM` makes of them. `StoredText` is
how a TIME column reads as text: the runs take `"HH:MM:SS"`, which is what
PostgreSQL writes; the proofs hold for both, because with `"HH:MM"` concurrent
reloads would register and replace each other's entries. A user without a row
gets the defaults, whose constants do parse. `raced` is a history variable: the
last save met another operation under way. `OffStaysOff` excepts it, because the
DST callback works on a list it read before (`scheduler.go:391`): a window that
a PUT switches off meanwhile is registered again from the old list.

### `FrequencyGate`: the next analysis and the scheduled job

One user and one holding on a clock of slots: each day has a slot for its two
windows and one before, between and after them. That keeps every comparison of
`ComputeNextAnalysisAt`, because `validateWindowTime` confines each window to
hours that never change its order in the day: for A shares pre is before post,
for the US market post (4 to 8 o'clock in Asia/Shanghai) before pre (20 to 23).
`Frequency`, `MarketWindows`, `Earliest`, `Candidates` and `SearchDays` are the
steps of the algorithm; recursion is not needed, since the walk returns the
first candidate of the first day that has one. `RunJob` is a cron entry that
fires and passes `Eligible`, the gate of `filterEligibleHoldings`;
`RunJobUngated` is the branch in which the card, the override or the settings
cannot be read and the holding is included; `FinishJob` ends the analysis, with
a card or without. `Registered` says which entries exist, from `ScheduleEntries`.
Gold ETFs follow the A-share market and are not told apart.
With `StoredText = "HH:MM:SS"`, as the runs have it, the times of a saved row
do not parse, so TLC exercises the walk with the defaults under every override;
the theorems hold for both forms, saved rows that parse included.

### `EmailPush`: the cron entries that mail

A day has four times at which entries fire, and the poll fires at each. An
entry runs in a goroutine (`job`), with the place `pc`, the items it has left
(`items`: assets, events or locales), the page of users at hand and the cursor
`after`. One action is one statement or one mail: `ListUsers` is a page,
`CheckPush` the count of today's rows and `LogPush` the row, which is written
before `SendMail`. `SkipRound` is a `TryLock` that fails. `tracker` is
`dailyAlertedTracker`; it and the counts start again at midnight UTC
(`Tick`). The environment switches the push on and off, deletes accounts,
stores analyses, writes the rows of the version 1 digest, fails a call, hangs a
mail or kills the server; `trouble` counts what it does. A list may also break off
without an error: `Listed` for those an entry starts from, `PageBreaksOff` for a
page of users, which the loop then takes for the last one. `offered`, `steady`,
`missed`, `again` and `redo` are history variables: for whom an event was tried, who
had the push on ever since its detection, who was behind the place where a page
broke off, which events were tried twice, and which may have been because of a
fault or an overlap.

### `InviteRegistration`: accounts and codes

A worker serves one request; one action is one statement. A registration with a
personal code is a transaction: its user is `"pending"` and its code `"taken"`
until `Commit`, a statement on a taken code waits, and `Rollback` gives both up.
With a global code each statement commits by itself, so a failure after
`CreateUser` leaves an account whose use is not counted (`lost`). `Login` walks
through streak, total, unused and insert (`maybeGenerateMilestoneCode`).
`NextDay` is midnight in Shanghai. Several owners of personal codes would not
meet; one inviter is enough.

### `Portfolio`, `LlmAccess`, `MarketReads`, `RateLimits`, `HoldingScores`, `Migrations`

`Portfolio`: holdings and trades of one user, statement by statement; costs are
exact fractions. Prices and quantities are any integers, because the handler asks
only that they be there (`model/trade.go:25`): a purchase may be of a negative
quantity and leave one. `ListBreaksOff` is the list of trades cut short by a lost
connection, which the service takes for all of them. `calm` says of a holding that
nothing has disturbed its last trade: no other request was between its trade and its
new figures when it was stored, and since then no edit by hand, failed statement or
cut list.

`LlmAccess`: the resolver's chain (`LookUp`, `CheckConsent`,
`BuildUserProvider`, `CallUserProvider`, `StampHealth`, `CallDefault`,
`ParseAnswer`) against PUT, DELETE and probe. The PUT is its transaction:
`ChooseOld` and `LockOld` are what an UPDATE does under READ COMMITTED when the
row it has chosen is changed while it waits, `InsertNew` meets the partial
unique index. `earned` and `agreed` are history variables.

`MarketReads`: four caches under one model (they differ in their lifetime, in the
number of sources, in what a failure leaves behind, and the quote in whether its
last moment is fresh) and the detail page that goes through two of them, the prices
and the label of the score's rank; of the rows it reads in between, only whether
there is an analysis matters to it. A fetch is a moment at which the source reads
and one at which the answer arrives, so that answers overtake each other.

`RateLimits`: one limiter for one user or address. `ReadClock` and `Lock` are
two actions for the limiters that read the clock before they take their mutex.

`HoldingScores`: the steps of `analyzeHolding` in their order, with the verdicts
of the indicators as inputs and numbers in integers of a hundredth, and the badge
of the card against the last one.

`Migrations`: `migrate up` and `migrate down` by processes with the files of
different releases or branches, and a server that verifies its files when it
starts. `ExecUp` and `ExecDown` are the transaction of a script, `RecordApplied`
and `RemoveApplied` the statement after it; `Stop` is a failure or a kill anywhere.
`effects` counts what the schema has of a version; what a second execution of a
script does was read from the 24 scripts (`StrictUp`, `StrictDown`, `Additive`).
`doubt`, `excused` and `lacks` are history variables: what a runner left half done
or did beside another and nobody has settled since; whatever was ever so, or
rolled back; what a running server may miss for these reasons.

### Composites

`Requests` holds eight instances (the six above, `InviteRegistration`,
`DecisionCards`) for any constants, `RequestsAssumption` being the conjunction of
their assumptions; `MCRequests` gives it small ones. `focus`, chosen at the start,
says which runs: the components share no state, so that interleaving them would
multiply states and show nothing; the variables of the others hold 0 and stay.
Each property is the conjunction of what its instance promises. `AnalysisTask`
with `TaskPromise` is a composition proper, by refinement.

## 3. The runs

| Run | Instance | What it shows |
|---|---|---|
| `task_store` | 2 tasks, 1 holding, 1 slot, 1 crash, 1 database fault | types, `SlotsExact`, `StoreAgrees`, `NoResurrection`, `OrphansSettled` |
| `task_portfolio` | 1 task, 2 holdings, 1 slot, 1 crash, 2 faults, fair | `WorkingIsLive`, `PipelineShape`, `OutcomeMatchesSteps`, `CompletedMeansReported`, `TaskEnds` |
| `task_promise` | 2 tasks, 1 holding, 2 crashes, no fault | the store implements `TaskPromise` |
| `jobs` | 2 requests for one asset in 2 languages, of 2 calls or of 1 call and its retry, 1 crash, fair | `OnePipelinePerAsset`, `LinearHistory`, `AssetUnblocks` |
| `schedule` | 1 user, 2 windows, 2 saves, 2 starts, 2 transitions, 1 fault | `EntriesTracked`, `CallbackAlive`, `OffStaysOff` |
| `gate` | 1 holding of either market, 8 days, intervals of 0 and 2 days, all windows and overrides | `NextIsLeast`, `NextStable` |
| `pushes` | 2 users in pages of 1, 2 goroutines, 1 asset, 1 event, a cap of 1, 1 disturbance, fair | `PushCap`, `MarkedAfterAll`, `TriedOnce`, `EventAlerted` |
| `requests` | eight components, 2 or 3 requests at once, 1 fault each | below |
| `jobs_ended`, `cards_plan`, `schedule_saved`, `gate_due` | the smallest instance that shows it | violated: see section 6 |

`requests` checks, by component: `RegistrationsConsistent` (a personal
registration is all or nothing, one account per address) and `CodeLimits`;
`HoldingsSound` (the limit of holdings and its overlap, a trade that nothing
disturbs repairs the cost, which lies between the prices paid where the trades are
regular); `ProvidersSound` (one active configuration,
a health that its own calls earned, the system's provider for those who agreed);
`GuardExact` and `ForksOnlyByOverlap`; `DataTimely`;
`WindowBound`; `BoldNeedsValuation` and `ShiftNeverShown`; `SchemaSound` (the rows
tell what the schema has, a verified server has the schema of its files, keys are
not shifted twice, each but for what an interruption, an overlap or a rollback
explains).

**Bounds.** One slot makes tasks and scheduled analyses exclude each other,
which is where a leaked slot would stop everything.
Two tasks are needed for one to end while another waits or is swept; two
holdings for the loop to carry something from one to the next, and for a
failure to be followed by a success. One crash reaches every place of the
goroutines, a second one (`task_promise`) meets a recovered table. Two calls
for an asset race and follow each other; a call and its retry do so with the
first copy of the request still under way. Nothing but equality tells the two
languages apart, so that of the first call is given (`TwoRequests`); the second call
takes either. Three requests are
more than liveness can be checked for. Three analyses let two wait for the
same row after a first card. Users do not
share entries, so one is enough; two windows, one of them in the US, tell what
the DST callback replaces from what it leaves; two saves and two transitions
overlap with each other and with themselves, and a second start follows a
crash. Eight days hold a weekend and the days on both sides of it, and an
interval of two days can begin before and end in it; `MaxDays = 8` exceeds every
interval by the four days that `ConstantsAssumption` asks for, as the code's 60
exceeds its 30.

For the mails, pages of one user out of two make the cursor move and an end of the
list come back empty; two goroutines are two entries that count at once. A cap of
one is reached by the first mail. The entries of a behaviour are those that meet
(`Mixes`): they share the tracker, follow each other within the hour, or count
nothing; the poll alone overlaps with itself. One disturbance at any moment is a
page or list lost or cut short, a lost count, row or mark, a hung mail, a crash, a
switch, a stored analysis or a digest. The trades are one of each sign that tells
the branches of `Apply` apart, a purchase of a negative quantity among them. For the
requests every limit is one or two, so that the second request exceeds it; two
workers overlap in every order, three holdings are one more than two concurrent
requests can create within the limit and exceed it by one. Cache lifetimes are
longer than an attempt, and time runs long enough for an entry to expire and be
filled again. Three migrations, one of each kind, with a release that lacks the last
and a branch that lacks the second, make a version pending below one that is
recorded.

Calls, tasks, analyses, requests, saves, starts, transitions, workers and
addresses are symmetric where a cfg says so; no liveness run uses symmetry.
Deadlock is not checked where the tasks, calls, analyses, saves, ids or moments
of the instance are finite: when they are used up nothing is left to do.

**Fairness.** `AnalysisTask!Fairness`: goroutines are scheduled, external calls
have deadlines and every upsert a context of 3 s, so `Work` and `Upsert` are
weakly fair (the list of holdings is read with a context without a deadline: there
the assumption is that PostgreSQL answers or the connection breaks). Acquiring a slot
is strongly fair: Go serves senders blocked on a
channel in arrival order, so a waiting goroutine is not overtaken for ever.
Scheduled analyses end (`CronRelease`); docker-compose restarts the container
(`restart: unless-stopped`). Nothing else is fair: a client need not poll, nor
the cleanup run. `AnalysisJobs!Fairness`: the event loop runs each coroutine,
time passes, the sweep fires every three minutes. The client is not fair.
`EmailPush!Fairness`: goroutines run, cron fires each entry at its time, time
passes. A goroutine in `SendHangs` never goes on: `smtp.SendMail` has no
deadline, and `EventAlerted` holds in spite of it because the poll takes no
mutex. The server starts as many goroutines as it needs; the model has few, so
one of them does not hang. The environment is not fair.

## 4. What is proved

Eight modules hold proofs. Every invariant and every action property of the passing
runs, and the refinement of the task store, is stated by a theorem; only the
liveness properties are not. Every theorem is for every value of the constants
that the `ASSUME` of the module allows, and TLC evaluates that in each run. The
modules that `Requests` instantiates have their assumption as a hypothesis
(`InviteAssumption`, `ReadsAssumption` in the two that have a proof module of
their own); `RequestsProofs` instantiates these two (`IP`, `MP`) and discharges all
hypotheses by `RequestsAssumption`. `PromiseKept` alone has a hypothesis on a bound,
`MaxFaults = 0`: the promise is that of a database which refuses no call, as in its
run. What a refused call may break is in `NoResurrection` and `OrphansSettled`,
which hold with any number of them, for the
tasks whose row is not known to be out of date.

| Module | Theorem | Property |
|---|---|---|
| `AnalysisTaskProofs` | `SemaphoreSafe`, `PollsWaitForWork`, `TypesKept` | `SlotsExact`, `WorkingIsLive`, `TypeOK` |
| | `TableAgrees`, `FinishedStays`, `OrphansEnd` | `StoreAgrees`, `NoResurrection`, `OrphansSettled` |
| | `StepsInOrder`, `OutcomesTrue`, `CompletedIsComplete` | `PipelineShape`, `OutcomeMatchesSteps`, `CompletedMeansReported` |
| | `PromiseKept` | `KeepsPromise`: the store implements `TaskPromise` |
| `AnalysisJobsProofs` | `OnePipeline`, `OneChain`, `TypesKept` | `OnePipelinePerAsset`, `LinearHistory`, `TypeOK` |
| `ScheduleEntriesProofs` | `NoOrphan`, `CallbackSurvives`, `OffIsOff`, `TypesKept` | `EntriesTracked`, `CallbackAlive`, `OffStaysOff`, `TypeOK`, for either value of `StoredText` |
| `FrequencyGateProofs` | `NextExact`, `NextWaits`, `Types` | `NextIsLeast`, `NextStable`, `TypeOK`, for any intervals that `MaxDays` exceeds by four |
| | `GateClosed` | `Eligible => NextFails`: the disagreement of `gate_due` is not a matter of one instance |
| `EmailPushProofs` | `CapHolds`, `NobodyLeftOut`, `OncePerUser`, `TypesKept` | `PushCap`, `MarkedAfterAll`, `TriedOnce`, `TypeOK` |
| `RequestsProofs` | `AllOrNothing`, `LimitsHold` | `RegistrationsConsistent`, `CodeLimits` |
| | `HoldingsKept`, `ProvidersKept` | `HoldingsSound`, `ProvidersSound` |
| | `GuardHeld`, `NoFork` | `GuardExact`, `ForksOnlyByOverlap` |
| | `NoStaleData` | `DataTimely` |
| | `WindowKept`, `BoldIsEarned`, `ShiftIsDead` | `WindowBound`, `BoldNeedsValuation`, `ShiftNeverShown` |
| | `SchemaKept`, `TypesKept` | `SchemaSound`, `TypeOK` |
| `InviteRegistrationProofs`, `MarketReadsProofs` | `Inductive`, `ReadsTyped` and the theorems that `RequestsProofs` uses | for any instance of these modules |

### The inductive invariants

**Tasks.** `IInv == TypeOK /\ SlotsExact /\ Lifecycle`. `SlotsExact`
needs `TypeOK` for the cardinalities and `TypeOK` needs `SlotsExact`, since
`slots - 1` is a natural number only because the goroutine that gives a slot
back is counted. `Lifecycle` ties the place of the goroutine to what the
others may do to its task: while it works its status is live and its row not
terminal, a poll reads rows only of tasks whose goroutine has ended or died,
and the cleanup ages only those. That is why neither a read-through nor a
sweep can touch a task at work. `HolderCounted` is the counting lemma;
`TypeNext`, `SlotsNext` and `LifecycleNext` go through the actions one by one.
`StoreInv` adds what nobody may see again: a row that a poll has read stays what
it was, or is removed, until the poll stores it, and a task shown as ended, or
whose goroutine a crash has taken, is live neither in the map nor in the hands
of a poll nor, once its upsert has returned, in the table. `StoreAgrees` is one of its
conjuncts; `NoResurrection` and `OrphansSettled` follow from it for each step
that shows a status (`PollShows`).
`PipeInv` is proved on top of `IInv`: `LoopAt` says which holdings are pending,
running or reported at each place of the loop, `StepsAt` that the steps before
`stage` are done and those after it pending. A step of one goroutine leaves the
others alone (`OthersStill`); `LoopKeeps` and `StepsKeep` do the one that
moves; polls, sweeps and crashes leave an entry alone or blank it.

For the refinement, `RunInv` says what a poll can see before a row has ended: a
goroutine beyond its first progress update shows `running`, what shows `running` has
a row, what is absent from the map is live neither in the table nor in a poll's
hands, and an upsert still owed by a goroutine that has ended finds no terminal
row. A step of a goroutine then maps to one step of the promise or to a
stutter, a sweep to `Forget` of the tasks it removes, a crash to `Interrupt`.

**Jobs.** `OwnerIsActive`: a pipeline that has still to store its analysis within
the hour of its job has an active row, because only a sweep of an expired job could
end it and each of its own updates keeps it active. `OneActive` is the unique index,
which every INSERT and every update to `running` passes. Two pipelines of one asset
within their hours would own two active rows: `OnePipelinePerAsset`. `Chain`, for
each language of an asset: what a pipeline has looked up is stored, no analysis
names the latest one as its predecessor, and none that was stored in time has yet
followed what another pipeline in time has looked up. It is the exclusion of
pipelines by asset that keeps it: two of one language are two of one asset. `Places`
ties the place of handler and pipeline to the stage and the row.

**Scheduler.** `EInv == TypeOK /\ Tracked /\ Fresh`. `Tracked` is
`EntriesTracked` entry by entry. It is not inductive: an operation that added
an entry already in `cron` would put it into its hands as well as another's.
`Fresh` says that an operation has in `cron` only what it has registered
already, and in its hands only what it removes or records. `CallbackAlive` is
inductive given the types, since starts and transitions end only by arming the
callback. For `OffStaysOff`, `Phased` says who can be at work in which phase of
the server, and `Agrees` that, as long as no save raced, every operation that
will register something has only windows in hand that are on now, and that what
is recorded of a window that is off is still to be removed by a save.

**Next analysis.** No strengthening is needed beyond the types, in which the
last analysis is never ahead of the clock. `LeastIsLeast` gives the least element
of a set of naturals from the well-foundedness of `<`. `WalkEnds`: the day after
the interval has elapsed and the two after it cannot all be a weekend and lie
within `MaxDays`, so the walk never falls back. A due time before the result
would be a candidate of an earlier open day, or a smaller one of the same day
(`DueIsCandidate`). `NextWaits` needs only that: two least due times after `now`
and `now'`, of the same settings, are equal while the first has not come.

**Mails.** `Capped` counts with a user's rows the goroutines that have counted
and not yet written (`Counting`): the sum stays below the cap plus the other
goroutines, because the one that counts sees all rows but those of `Counting`.
`Place` says of a poll that every user of `steady` whom the cursor has passed
was tried or is on the page at hand; with `FirstPage` being the least ones after
the cursor, a whole page that is not full means that nobody is left. A page that
breaks off ends the list as well, and everybody behind the break is then in
`missed`, the only exception of `MarkedAfterAll`.
`TriedOnce` needs to know who holds an event (`OnceInv`). For an event that no
fault or overlap has put into `redo`: at most one goroutine has it; while
it is neither held nor marked it was tried for nobody; and for the one at hand
(`Turn`) those it was tried for are behind the cursor and no longer on the page. A
poll that begins takes such events fresh or puts them into `redo`, and an ordered
cursor never comes back to a user.

**Registration.** `Accounts` is a ledger: every account of the global code was
counted (`used`), was lost, or is between its insert and its count (`Made`), and
the requests that have passed the check and not yet inserted (`Pend`) fit into
the bound as well. `Issued` is the same for codes and the logins that have
counted (`Near`). `Good` ties the place of a request to the rows it has
written; `Distinct` keeps two registrations off one user row. `PersonalAtomic`
is inductive with these.

**Cards.** `CardsMet` says what an analysis that has overlapped with nobody knows:
all others began before it and are over, or began after it was done. `CardsChain`:
its previous card is then the one with the greatest stamp below its own.
Two cards that met nobody and name the same previous card would each lie
between that card and the other. `CardsCounted` bounds the clock by the number of
analyses, since each takes one stamp.

**Market reads.** `Attempt` bounds the moment at which a request's value was read
by the beginning of the attempt it is in, `Kept` the value of an entry by the
moment until which it is served. Time cannot pass while anything but an attempt
is under way, which gives the sum.

**Portfolio.** `PlacesCounted` adds to the active holdings the requests that have
counted and not yet inserted. `CalmAlone`: after a trade that nothing overlapped
with, its request is the only one with figures still to store, and they are those of
all trades. It needs nothing of prices and quantities. `RecalculateCost` folds over
the trades; that the average cost lies between the prices paid (`Between`) is an
induction over a sequence, for which the theorems of the library cannot be
instantiated. It is proved by the first prefix that fails: the numbers of trades
after which the claim is false would have a least element (`Below` is well-founded),
and one more regular trade cannot break it.

**LLM.** `CommitsAlone`: a PUT about to commit is alone, and the row it replaces is
the only active one, which the lock on that row and the partial unique index
give. `CallsEarn`: a call is made with a row that exists, and what is about to be
stamped is an outcome of that row. `ConsentNoted`: an analysis under way while the
consent is given has noted it.

**Limits.** `EvictedIsOld`: what a limiter has forgotten is older than a window by
its clock. For the limiters that read the clock before they take the mutex,
`LagBounded` bounds how old a reading is, which is the slack in `WindowBound`; with a
limit of one a late reading could still bring back an older hit, and
`EvictedByLater` says that a hit a whole window later had evicted it.

**Scores.** `ScoresInv` names the weights that can arise, and `Confident` the
confidence as a function of the two signals that count (the catalyst is neutral
whatever happens). Two cards of the same signals then differ by six points at
most, so the badge for a shift of ten is out of reach; the matrix gives a bold
answer only with a position, which only gold funds have.

**Migrations.** `RunnersMet`: two commands that run at once have met each other.
`InHandDone`: a script that has committed has done what it does, unless a runner
that was met has executed it since. `ToGoUnrecorded`: a runner that met nobody has no
recorded version left to apply. With `AddedKnown` and `RemovedExcused` (a change
without a row is in some runner's hands or excused) the three parts of
`SchemaSound` are inductive.

### Only model-checked

Liveness (`TaskEnds`, `AssetUnblocks`, `EventAlerted`) stays with TLC: fairness
means ENABLED, which is beyond the proof system. The four violations are found by
TLC; of these `GateClosed` proves the cause of `gate_due` in general.

## 5. Assumptions to know about

* Holdings of a portfolio are unique symbols (a constraint of the table).
* A finished task ages only when its upsert has returned: the retention period
  is days, the upsert's deadline 3 s.
* `NoResurrection` and `OrphansSettled` except the tasks whose last upsert, or
  whose recovery, the database refused: the code logs these and goes on, so a
  crash then does show an old status.
* A fetch of market data takes at most its timeout, and nothing else takes time
  (`MarketReads!Tick`); the time between the clock and the mutex of a limiter is
  at most `MaxLag` (`RateLimits`). Both are parameters of the bounds shown.
* Trades have different dates. Nothing is assumed of their prices and quantities but
  that they are whole numbers of the smallest unit; `CostWithinPrices` speaks of holdings all of whose purchases
  are of a positive and whose sales of no negative quantity (`Regular`), which is what
  a user would mean and no validation demands.
* `MarkedAfterAll` excepts the users behind a page that broke off (`missed`), whom
  the code does leave out.
* Statements see what PostgreSQL shows under READ COMMITTED.

## 6. Where code and documents disagree

* `jobs_ended` (`CompletedStaysCompleted`): one call with no fault; `SaveAnalysis`
  sets the job to `completed` with the analysis, and `FinalUpdate`, the last progress
  update, sets it back to `running`. It then blocks its asset until it expires and
  ends as `failed`. The design document says pending, running, then completed or failed.
* `cards_plan` (`PlanPersisted`): the v2 plan is refused by the CHECK
  constraint on `synthesis_source`.
* `schedule_saved` (`SavedWindowsScheduled`): a saved row comes back with times
  of eight characters, which `parseHHMM` refuses, so saving settings ends with
  no entry at all (except the US windows the DST callback sets to constants).
* `gate_due` (`DueIsEligible`): the gate asks whether the next analysis is not
  after now, and `ComputeNextAnalysisAt` returns a time strictly after now; a
  scheduled job analyses a holding only when something could not be read or parsed.

Read in the code and not among the runs: the row lock of `GetLatestByHoldingTx` does
not keep overlapping analyses from naming one previous card, as the comments at
`repo/decision_card_repo.go:215` and `service/analysis/service.go:611` claim
(`ForksOnlyByOverlap` is what holds); a DST transition during a save can register a
window that was just switched off (`OffStaysOff` excepts it); US pre-market entries
fire Tuesday to Saturday although 20:30 in Asia/Shanghai is the same day in New York
(`scheduler.go:244`), and the next analysis of a US holding may be shown on a Sunday
or Monday on which no entry fires (`next_analysis.go:221`); with every window off
the time shown is always 24 hours ahead (`next_analysis.go:201`); the client repeats
a request after any answer outside 2xx, 409 included, although the comment speaks of
transport errors, 502 and 503 (`richson/client.go:113`); a user without saved
settings keeps the summer times of the US windows in winter (`scheduler.go:401`,
`defaults.go:26`); the `score_delta` of an analysis is to the previous one in the
same language, which need not be the asset's latest
(`richson/core/pipeline.py:693`); a user whose first holding comes after the start
has no entries until the next start or save (`scheduler.go:128`).

In the modules of the mails and the requests the models state what the code
does, and these are the places where a document or a comment says otherwise, or
where the code cannot mean it:

* *Mails.* The closing alert is to skip what the 06:00 run has mailed
  (`docs/trds/richman-backend-v2-trd.md:1534-1538`), and `v2_cron.go:540-543` says that
  06:00 runs first in the same UTC day; 06:00 in Shanghai is 22:00 UTC, after the
  closing alert at 07:30 UTC and of another day than the next one, so nothing is
  ever skipped for it. Suggestions are mailed to users who have the push
  off (`SendHoldingSuggestion` does not read it; the same document, `:539`).
  Rows of the version 1 digest count against the cap of the pushes, and the
  weekly insight is neither counted nor logged. A mail that fails is only logged
  and its event marked all the same, although `v2_cron.go:641` speaks of a
  retry. A page of users whose connection is lost between two rows is returned
  short and without an error (`repo/user_repo.go:590-598`, `:621-629`): the push takes
  it for the last page and the event is marked, so that the users behind the break
  never get the alert.
* *Registration.* `invite-system-trd.md:89-104` asks for initial codes for every
  new user and three attempts at a code; users of a global code get none, and
  a retry inside a transaction that PostgreSQL has aborted cannot succeed. Every
  login on the day of a milestone earns a code, not the first one only.
  `CheckBruteForce` is never called.
* *Portfolio.* The cost is to combine the quick entry with the trades
  (`richman-prd.md:102`); `RecalculateCost` starts from nothing, so the first trade
  drops the position that was entered by hand. Trades of a negative or zero quantity or
  price are accepted (`model/trade.go:25`; migration 002 has no CHECK), and a negative
  purchase can leave a negative quantity. A list of trades cut short by a read error
  (`repo/trade_repo.go:36-47`) gives a wrong cost, stored with a success answer; the
  next trade that nothing disturbs repairs it. `UpdateHolding` dereferences a missing
  row when the holding is deleted between its read and its UPDATE.
* *LLM.* `llm/resolver.go:127` says that a failed build stamps the health as
  failing; it is not stamped. A lookup that fails counts as having no configuration. An
  empty key in an edit is to keep the old one (`llm-degraded-contract-trd.md:879`);
  for a self-hosted provider it is replaced by a placeholder. Of two concurrent
  PUTs the second may answer 500.
* *Limits.* `ratelimit.go:38` says that a refused attempt is recorded, which it is
  not; `screenshot/service.go:202` speaks of a fixed window, and it slides.
* *Market.* A label that could not be computed is cached as blank for an hour;
  `InvalidatePercentileCache` is never called.
* *Scores.* No past valuations (`service/analysis/service.go:344`) and no event
  mappings (`:369`) are passed, so that the positions of all but gold funds are
  neutral and every catalyst has the base 0: the two bold recommendations are out of
  reach for these (`BoldNeedsValuation`). `Enhance` returns no error, so a failed
  enhancement counts as one. The badges `confidence_shift` and `data_degraded` are
  never shown. The lots of a plan are rounded for the type `"a_share"`
  (`service.go:768`), which is not among the asset types. `AdjustWeights` is not
  called.
* *Migrations.* `docs/standards/dev-environment.md:21` calls a repeated
  `migrate-up` idempotent. It is after a run that has ended; after one that stopped
  between a script and its row, the scripts that fail the second time leave every
  later `up` with that error, and 020 shifts all keys once more. A rollback that
  stops there leaves a row without its changes, and a server that needs them passes
  the verification (`cmd/server/main.go:111`) and starts.

## 7. Plan

Written, in the order of importance: the task store and its promise, the jobs of
an asset, the cards, the scheduler, the next analysis; then the mails, the
registration, the portfolio, the LLM, the market reads, the limiters, the
scores and the migrations. Left, in this order:

1. The calendar of daylight saving (`dst.go`) against a reference definition, and
   with it the times of the US windows over the seasons.
2. The cleanup of old rows and the archive of the v2 cron.
3. `Registered` of `FrequencyGate` as a refinement of what `ScheduleEntries` has
   in `cron` when nothing is under way.

**Not modelled, and why.** Indicator arithmetic (moving averages, RSI, MACD,
percentiles) is floating point over external data: its verdicts are inputs.
Wire formats, prompts, encryption and mail templates are pure I/O; handlers decode
and authorize, and their calls are the actions above; settings, onboarding,
dashboard and briefing read and write single rows, and the switches that
others read are inputs of their models; the dispatch of the version 1
digest to channels is one attempt each, of which only the log row matters
elsewhere; seed (one statement with ON CONFLICT) and configuration are read once,
before anything else.
The front end's polling is the poller of `AnalysisTask`.
