---------------------------- MODULE AnalysisJobs ----------------------------
(***************************************************************************)
(* The asset analysis jobs of the richson sidecar and the backend that     *)
(* asks for them: the client that sends a request and retries it once, the *)
(* handler that looks for an active job before it inserts one, the         *)
(* pipeline coroutine that updates its job row after every step and stores *)
(* the analysis, the backend cron that fails expired jobs, and the restart *)
(* of the sidecar.  All share the table rs_analysis_jobs, whose partial    *)
(* unique index allows one pending or running job per asset.               *)
(***************************************************************************)
EXTENDS Naturals, FiniteSets

CONSTANTS
    Calls,          \* calls of Client.TriggerAssetAnalysis or TriggerBatchAnalysis
    Assets,
    Locales,        \* languages an analysis is written in: zh and en
    NoJob,
    MaxRetries,     \* retries of a failed request, 1 in the code
    MaxRequests,    \* bound: requests sent by all calls together
    MaxCrashes      \* bound on sidecar crashes

\* Each request of a call is the job it may create.
Requests == 1..(MaxRetries + 1)
Jobs == Calls \X Requests
Returned == MaxRetries + 2

ASSUME ConstantsAssumption ==
    /\ MaxRetries \in Nat /\ MaxRequests \in Nat /\ MaxCrashes \in Nat
    /\ NoJob \notin Jobs

VARIABLES
    \* the client
    asset,      \* asset[c]: what call c wants analysed
    locale,     \* locale[c]: the language it wants the analysis in
    attempt,    \* attempt[c]: requests sent so far, Returned when the call is over
    reply,      \* reply[j]: what the client got for its request
    \* the handler and the pipeline of the sidecar
    pc,         \* pc[j]: where they are
    stage,      \* stage[j]: the step of the pipeline it is in
    prevRead,   \* prevRead[j]: previous analysis the pipeline has looked up
    \* the tables
    job,        \* job[j]: status column, "none" without a row
    expired,    \* jobs whose expires_at has passed
    slow,       \* those of them whose analysis was still to be stored (history)
    saved,      \* jobs whose analysis is stored
    prev,       \* prev[j]: prev_analysis_id of the stored analysis
    latest,     \* latest[a, l]: most recent analysis of asset a in language l
    crashes

wanted   == <<asset, locale>>
client   == <<wanted, attempt, reply>>
pipeline == <<pc, stage, prevRead>>
analyses == <<saved, prev, latest>>
hour     == <<expired, slow>>
vars     == <<client, pipeline, job, hour, analyses, crashes>>

Active   == {"pending", "running"}
Terminal == {"completed", "failed"}
AssetOf(j) == asset[j[1]]

\* The series its analysis belongs to: analyses of one asset in one language.
SeriesOf(j) == <<asset[j[1]], locale[j[1]]>>

\* data_fetch and layer1_scoring, layer2_d1 to layer2_d3, layer3_interpretation,
\* persist: the steps that are one stage here make the same updates.
Stages       == 1..4
Scoring      == 1
Research     == 2
PersistStage == 4

Running  == {"mark", "begin", "work", "prev", "save", "final", "error"}
Handling == {"request", "insert"}

\* A pipeline that has still to store its analysis.
Analysing(j) == pc[j] \in Running \ {"final", "error"}

TypeOK ==
    /\ asset \in [Calls -> Assets] /\ locale \in [Calls -> Locales]
    /\ attempt \in [Calls -> 0..Returned]
    /\ reply \in [Jobs -> {"none", "accepted", "failed"}]
    /\ pc \in [Jobs -> {"idle", "created", "answered", "end", "dead"} \cup Handling \cup Running]
    /\ stage \in [Jobs -> Stages]
    /\ prevRead \in [Jobs -> Jobs \cup {NoJob}]
    /\ job \in [Jobs -> {"none"} \cup Active \cup Terminal]
    /\ expired \subseteq Jobs /\ slow \subseteq expired
    /\ saved \subseteq Jobs
    /\ prev \in [Jobs -> Jobs \cup {NoJob}]
    /\ latest \in [Assets \X Locales -> Jobs \cup {NoJob}]
    /\ crashes \in 0..MaxCrashes

Init ==
    /\ asset \in [Calls -> Assets] /\ locale \in [Calls -> Locales]
    /\ attempt = [c \in Calls |-> 0]
    /\ reply = [j \in Jobs |-> "none"]
    /\ pc = [j \in Jobs |-> "idle"]
    /\ stage = [j \in Jobs |-> 1]
    /\ prevRead = [j \in Jobs |-> NoJob]
    /\ job = [j \in Jobs |-> "none"]
    /\ expired = {} /\ slow = {}
    /\ saved = {}
    /\ prev = [j \in Jobs |-> NoJob]
    /\ latest = [t \in Assets \X Locales |-> NoJob]
    /\ crashes = 0

Go(j, place) == pc' = [pc EXCEPT ![j] = place]

-----------------------------------------------------------------------------
(* The client: doRequest and its retries.                                  *)

\* The request of attempt n reaches the sidecar.
Send(c, n) ==
    /\ Cardinality({j \in Jobs : pc[j] # "idle"}) < MaxRequests
    /\ attempt' = [attempt EXCEPT ![c] = n]
    /\ Go(<<c, n>>, "request")
    /\ UNCHANGED <<wanted, reply, stage, prevRead, job, hour, analyses, crashes>>

Call(c) == attempt[c] = 0 /\ Send(c, 1)

\* executeRequest turns every answer outside 2xx into an error, and isRetryable
\* accepts every error.
Retry(c) ==
    /\ attempt[c] \in 1..MaxRetries
    /\ reply[<<c, attempt[c]>>] = "failed"
    /\ Send(c, attempt[c] + 1)

Return(c) ==
    /\ attempt[c] \in Requests
    /\ \/ reply[<<c, attempt[c]>>] = "accepted"
       \/ attempt[c] = MaxRetries + 1 /\ reply[<<c, attempt[c]>>] # "none"
    /\ attempt' = [attempt EXCEPT ![c] = Returned]
    /\ UNCHANGED <<wanted, reply, pipeline, job, hour, analyses, crashes>>

\* The deadline of the request passes; its handler goes on.
TimeOut(c) ==
    /\ attempt[c] \in Requests
    /\ reply[<<c, attempt[c]>>] = "none"
    /\ reply' = [reply EXCEPT ![<<c, attempt[c]>>] = "failed"]
    /\ UNCHANGED <<wanted, attempt, pipeline, job, hour, analyses, crashes>>

\* An answer reaches the client, unless it has stopped waiting.
Answer(j, r) ==
    reply' = [reply EXCEPT ![j] = IF @ = "none" THEN r ELSE @]

-----------------------------------------------------------------------------
(* The handler: analyze_asset, which answers 409 when it creates no job, or *)
(* one round of the loop of batch_analyze, which skips the asset and answers *)
(* 202.  Neither looks at the language.                                    *)

ActiveJobs(a) == {k \in Jobs : job[k] \in Active /\ AssetOf(k) = a}

\* get_active_job_for_asset
CheckActive(j) ==
    /\ pc[j] = "request"
    /\ IF ActiveJobs(AssetOf(j)) = {}
         THEN Go(j, "insert") /\ UNCHANGED reply
         ELSE Go(j, "answered") /\ \E r \in {"failed", "accepted"} : Answer(j, r)
    /\ UNCHANGED <<wanted, attempt, stage, prevRead, job, hour, analyses, crashes>>

\* Mutant: the table without its partial unique index.
CreateJob_NoIndex(j) ==
    /\ pc[j] = "insert"
    /\ job' = [job EXCEPT ![j] = "pending"]
    /\ Go(j, "created")
    /\ UNCHANGED <<client, stage, prevRead, hour, analyses, crashes>>

\* create_analysis_job and commit.  The unique index refuses a second active
\* job: batch_analyze skips the asset, analyze_asset lets the error out (500).
CreateJob(j) ==
    /\ pc[j] = "insert"
    /\ IF ActiveJobs(AssetOf(j)) = {}
         THEN /\ job' = [job EXCEPT ![j] = "pending"]
              /\ Go(j, "created")
              /\ UNCHANGED reply
         ELSE /\ \E r \in {"failed", "accepted"} : Answer(j, r)
              /\ Go(j, "answered")
              /\ UNCHANGED job
    /\ UNCHANGED <<wanted, attempt, stage, prevRead, hour, analyses, crashes>>

\* asyncio.create_task, then 202.
SpawnPipeline(j) ==
    /\ pc[j] = "created"
    /\ Go(j, "mark")
    /\ Answer(j, "accepted")
    /\ UNCHANGED <<wanted, attempt, stage, prevRead, job, hour, analyses, crashes>>

-----------------------------------------------------------------------------
(* run_asset_analysis_pipeline.                                            *)

\* update_job_status has no condition on the present status.  The update to
\* running is refused only by the unique index, and the error ends the pipeline.
SetRunning(j, place) ==
    IF ActiveJobs(AssetOf(j)) \subseteq {j}
      THEN job' = [job EXCEPT ![j] = "running"] /\ Go(j, place)
      ELSE Go(j, "error") /\ UNCHANGED job

MarkRunning(j) ==
    /\ pc[j] = "mark"
    /\ SetRunning(j, "begin")
    /\ UNCHANGED <<client, stage, prevRead, hour, analyses, crashes>>

\* Mutant: persist is taken for one more step of the loop.
BeginStep_NoPersist(j) ==
    /\ pc[j] = "begin"
    /\ SetRunning(j, "work")
    /\ UNCHANGED <<client, stage, prevRead, hour, analyses, crashes>>

\* update_step(name, "running")
BeginStep(j) ==
    /\ pc[j] = "begin"
    /\ SetRunning(j, IF stage[j] = PersistStage THEN "save" ELSE "work")
    /\ UNCHANGED <<client, stage, prevRead, hour, analyses, crashes>>

\* update_step(name, "completed"), for a research step also "failed"; after the
\* last one the previous analysis is looked up.
FinishStep(j) ==
    /\ pc[j] = "work"
    /\ SetRunning(j, IF stage[j] = Research THEN "prev" ELSE "begin")
    /\ stage' = [stage EXCEPT ![j] = @ + 1]
    /\ UNCHANGED <<client, prevRead, hour, analyses, crashes>>

\* update_step(name, "skipped"): the budget is exhausted or a research failed.
SkipResearch(j) ==
    /\ pc[j] = "begin"
    /\ stage[j] = Research
    /\ SetRunning(j, IF stage[j] = Research THEN "prev" ELSE "begin")
    /\ stage' = [stage EXCEPT ![j] = @ + 1]
    /\ UNCHANGED <<client, prevRead, hour, analyses, crashes>>

\* Fewer than two dimensions have data.
InsufficientHistory(j) ==
    /\ pc[j] = "work"
    /\ stage[j] = Scoring
    /\ job' = [job EXCEPT ![j] = "failed"]
    /\ Go(j, "end")
    /\ UNCHANGED <<client, stage, prevRead, hour, analyses, crashes>>

\* get_latest_asset_analysis: the latest one of the asset in the job's language.
ReadPrevious(j) ==
    /\ pc[j] = "prev"
    /\ prevRead' = [prevRead EXCEPT ![j] = latest[SeriesOf(j)]]
    /\ Go(j, "begin")
    /\ UNCHANGED <<client, stage, job, hour, analyses, crashes>>

\* One transaction: the analysis, its dimensions and the completed job.
SaveAnalysis(j) ==
    /\ pc[j] = "save"
    /\ saved' = saved \cup {j}
    /\ prev' = [prev EXCEPT ![j] = prevRead[j]]
    /\ latest' = [latest EXCEPT ![SeriesOf(j)] = j]
    /\ job' = [job EXCEPT ![j] = "completed"]
    /\ Go(j, "final")
    /\ UNCHANGED <<client, stage, prevRead, hour, crashes>>

\* update_step("persist", "completed") after that transaction: the helper writes
\* status running with every step.
FinalUpdate(j) ==
    /\ pc[j] = "final"
    /\ SetRunning(j, "end")
    /\ UNCHANGED <<client, stage, prevRead, hour, analyses, crashes>>

\* Any other exception: a data source, the database, a conversion.
Raise(j) ==
    /\ pc[j] \in Running \ {"error"}
    /\ Go(j, "error")
    /\ UNCHANGED <<client, stage, prevRead, job, hour, analyses, crashes>>

HandleError(j) ==
    /\ pc[j] = "error"
    /\ job' = [job EXCEPT ![j] = "failed"]
    /\ Go(j, "end")
    /\ UNCHANGED <<client, stage, prevRead, hour, analyses, crashes>>

\* A second exception is swallowed, the row stays as it is.
HandleErrorFails(j) ==
    /\ pc[j] = "error"
    /\ Go(j, "end")
    /\ UNCHANGED <<client, stage, prevRead, job, hour, analyses, crashes>>

-----------------------------------------------------------------------------
(* Time, the backend's cleanup cron, and the sidecar's crash.              *)

\* expires_at, one hour after creation, passes; a pipeline that is still at work
\* is not told.  Nobody compares the time of a job that is over.
Expire(j) ==
    /\ job[j] # "none"
    /\ job[j] \in Active \/ pc[j] \notin {"end", "dead"}
    /\ j \notin expired
    /\ expired' = expired \cup {j}
    /\ slow' = IF Analysing(j) \/ pc[j] = "created" THEN slow \cup {j} ELSE slow
    /\ UNCHANGED <<client, pipeline, job, analyses, crashes>>

\* Mutant: expires_at is not compared.
FailExpiredJobs_AnyAge ==
    /\ \E j \in Jobs : job[j] \in Active
    /\ job' = [j \in Jobs |-> IF job[j] \in Active THEN "failed" ELSE job[j]]
    /\ UNCHANGED <<client, pipeline, hour, analyses, crashes>>

\* Mutant: only running jobs are looked for.
FailExpiredJobs_RunningOnly ==
    /\ \E j \in expired : job[j] = "running"
    /\ job' = [j \in Jobs |->
                 IF j \in expired /\ job[j] = "running" THEN "failed" ELSE job[j]]
    /\ UNCHANGED <<client, pipeline, hour, analyses, crashes>>

FailExpiredJobs ==
    /\ \E j \in expired : job[j] \in Active
    /\ job' = [j \in Jobs |->
                 IF j \in expired /\ job[j] \in Active THEN "failed" ELSE job[j]]
    /\ UNCHANGED <<client, pipeline, hour, analyses, crashes>>

\* Handlers and pipelines die with the process; nothing recovers their jobs at
\* the next start.
Crash ==
    /\ crashes < MaxCrashes
    /\ crashes' = crashes + 1
    /\ pc' = [j \in Jobs |->
                IF pc[j] \in {"idle", "answered", "end"} THEN pc[j] ELSE "dead"]
    /\ reply' = [j \in Jobs |->
                   IF pc[j] \in Handling \cup {"created"} /\ reply[j] = "none"
                     THEN "failed" ELSE reply[j]]
    /\ UNCHANGED <<wanted, attempt, stage, prevRead, job, hour, analyses>>

-----------------------------------------------------------------------------

ClientStep(c) == Call(c) \/ Retry(c) \/ Return(c) \/ TimeOut(c)

Handler(j) == CheckActive(j) \/ CreateJob(j) \/ SpawnPipeline(j)

Pipeline(j) ==
    \/ MarkRunning(j) \/ BeginStep(j) \/ FinishStep(j) \/ SkipResearch(j)
    \/ InsufficientHistory(j) \/ ReadPrevious(j) \/ SaveAnalysis(j)
    \/ FinalUpdate(j) \/ Raise(j) \/ HandleError(j) \/ HandleErrorFails(j)

Next ==
    \/ \E c \in Calls : ClientStep(c)
    \/ \E j \in Jobs : Handler(j) \/ Pipeline(j) \/ Expire(j)
    \/ FailExpiredJobs
    \/ Crash

Spec == Init /\ [][Next]_vars

\* The event loop runs every coroutine, time passes and the cleanup cron fires
\* every three minutes.
Fairness ==
    /\ \A j \in Jobs : WF_vars(Handler(j)) /\ WF_vars(Pipeline(j)) /\ WF_vars(Expire(j))
    /\ WF_vars(FailExpiredJobs)

FairSpec == Spec /\ Fairness

-----------------------------------------------------------------------------
(* What must hold.                                                         *)

\* One asset is never analysed by two pipelines at the same time, whatever calls,
\* retries and restarts race: this is what the check, the unique index and the
\* expiry of stale jobs are for ("prevent duplicate concurrent jobs per asset").
\* The exception is a pipeline that takes longer than the hour after which its job
\* is swept as failed.
OnePipelinePerAsset ==
    \A j, k \in Jobs :
        j # k /\ AssetOf(j) = AssetOf(k) /\ Analysing(j) /\ Analysing(k) => j \in slow \/ k \in slow

\* The analyses of an asset in one language form one chain: no two of them name
\* the same previous one, although it is looked up long before the new one is
\* stored, so that each score_delta is a difference to the analysis just before in
\* that language.  Where two do, one of their pipelines was slower than the hour of
\* its job.  Across languages there are as many chains as languages.
LinearHistory ==
    \A j, k \in saved :
        j # k /\ SeriesOf(j) = SeriesOf(k) /\ prev[j] = prev[k] => j \in slow \/ k \in slow

\* No job blocks its asset for ever, even one whose pipeline died with the sidecar
\* or could not write its failure (FailExpiredJobs).
AssetUnblocks == \A j \in Jobs : (job[j] \in Active) ~> (job[j] \notin Active)

\* A job that has completed stays so: pending, running, then completed or failed.
CompletedStaysCompleted ==
    [][\A j \in Jobs : job[j] = "completed" => job'[j] = "completed"]_job
=============================================================================
