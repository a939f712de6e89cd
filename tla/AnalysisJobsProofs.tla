------------------------ MODULE AnalysisJobsProofs ------------------------
(***************************************************************************)
(* Proofs about AnalysisJobs, for every set of calls and assets and every  *)
(* number of retries, requests and crashes: the types, that an asset is    *)
(* analysed by one pipeline at a time, and that its analyses in a language  *)
(* form one chain, unless a pipeline took longer than the hour of its job.          *)
(***************************************************************************)
EXTENDS AnalysisJobs, TLAPS

(* A request that was not sent is idle; where the handler and the pipeline *)
(* are tells the stage and whether the job has its row.                    *)
Places(j) ==
    /\ attempt[j[1]] < j[2] => pc[j] = "idle"
    /\ pc[j] \in {"idle", "request", "insert", "created", "mark"} => stage[j] = 1
    /\ pc[j] = "work" => stage[j] < PersistStage
    /\ pc[j] = "prev" => stage[j] = Research + 1
    /\ pc[j] = "save" => stage[j] = PersistStage
    /\ pc[j] \in {"idle", "request", "insert"} => job[j] = "none"
    /\ j \in expired => job[j] # "none"
    /\ j \in saved => pc[j] \in {"final", "error", "end", "dead"}

Owns(j) == Analysing(j) \/ pc[j] = "created"

(* A pipeline that has still to store its analysis within the hour holds   *)
(* an active job, and no asset has two of them.                            *)
OwnerIsActive == \A j \in Jobs : Owns(j) /\ j \notin slow => job[j] \in Active /\ j \notin expired

OneActive ==
    \A j, k \in Jobs : j # k /\ job[j] \in Active /\ job[k] \in Active => AssetOf(j) # AssetOf(k)

HasRead(j) == pc[j] \in {"begin", "work", "save"} /\ stage[j] > Research

(* What a pipeline has looked up is stored, and no analysis that was       *)
(* stored in its hour has followed it yet.                                 *)
Chain ==
    /\ \A j \in Jobs : prevRead[j] \in saved \cup {NoJob} /\ prev[j] \in saved \cup {NoJob}
    /\ \A t \in Assets \X Locales : latest[t] \in saved \cup {NoJob}
    /\ \A k \in saved : prev[k] # latest[SeriesOf(k)]
    /\ \A j \in Jobs \ slow, k \in saved \ slow :
         HasRead(j) /\ SeriesOf(j) = SeriesOf(k) => prev[k] # prevRead[j]

IInv ==
    /\ TypeOK
    /\ \A j \in Jobs : Places(j)
    /\ OwnerIsActive
    /\ OneActive
    /\ Chain
    /\ LinearHistory

LEMMA Owned == ASSUME NEW j \in Jobs, TypeOK PROVE SeriesOf(j) \in Assets \X Locales
BY DEF Jobs, SeriesOf, TypeOK

LEMMA SameAsset == ASSUME NEW j, NEW k, SeriesOf(j) = SeriesOf(k) PROVE AssetOf(j) = AssetOf(k)
BY DEF SeriesOf, AssetOf

LEMMA Alone ==
    ASSUME IInv, NEW j \in Jobs, NEW k \in Jobs, j # k, AssetOf(j) = AssetOf(k),
           Owns(j), Owns(k)
    PROVE  j \in slow \/ k \in slow
BY DEF IInv, OwnerIsActive, OneActive

LEMMA InitHolds == ASSUME Init PROVE IInv
<1>1. TypeOK
  BY ConstantsAssumption DEF Init, TypeOK, ConstantsAssumption, Returned, Stages
<1>2. \A j \in Jobs : Places(j)
  BY DEF Init, Places
<1>3. OwnerIsActive /\ OneActive /\ Chain /\ LinearHistory
  BY DEF Init, OwnerIsActive, OneActive, Chain, LinearHistory, Owns, Analysing, HasRead,
         Running, Active
<1> QED  BY <1>1, <1>2, <1>3 DEF IInv

(* What a step leaves to be shown that stores no analysis and looks none   *)
(* up.                                                                     *)
LEMMA Steady ==
    ASSUME IInv, TypeOK', \A j \in Jobs : Places(j)', OwnerIsActive', OneActive',
           UNCHANGED <<asset, locale, prevRead, analyses>>, slow \subseteq slow',
           \A j \in Jobs : HasRead(j)' => HasRead(j)
    PROVE  IInv'
<1>1. \A j \in Jobs : SeriesOf(j)' = SeriesOf(j)
  BY DEF SeriesOf
<1>2. UNCHANGED <<saved, prev, latest>>
  BY DEF analyses
<1>3. Chain'
  BY <1>1, <1>2 DEF IInv, Chain, TypeOK
<1>4. LinearHistory'
  BY <1>1, <1>2 DEF IInv, LinearHistory, TypeOK
<1> QED  BY <1>3, <1>4 DEF IInv

LEMMA NoneActivated ==
    ASSUME OneActive, asset' = asset, \A j \in Jobs : job'[j] \in Active => job[j] \in Active
    PROVE  OneActive'
BY DEF OneActive, AssetOf

LEMMA Activated ==
    ASSUME OneActive, NEW j \in Jobs, ActiveJobs(AssetOf(j)) \subseteq {j}, asset' = asset,
           \A k \in Jobs \ {j} : job'[k] = job[k]
    PROVE  OneActive'
BY DEF OneActive, AssetOf, ActiveJobs

LEMMA SendKeeps ==
    ASSUME IInv, NEW c \in Calls, NEW n \in Requests, attempt[c] < n, Send(c, n)
    PROVE  IInv'
<1> DEFINE j == <<c, n>>
<1> USE DEF IInv
<1>1. /\ j \in Jobs /\ pc[j] = "idle" /\ pc' = [pc EXCEPT ![j] = "request"]
      /\ attempt' = [attempt EXCEPT ![c] = n]
      /\ UNCHANGED <<asset, locale, reply, stage, prevRead, job, hour, analyses, crashes>>
      /\ UNCHANGED <<expired, slow, saved, prev, latest>>
  BY DEF Send, Go, Places, Jobs, wanted, hour, analyses
<1>2. TypeOK'
  BY <1>1, ConstantsAssumption DEF TypeOK, Requests, Returned, ConstantsAssumption, Handling
<1>3. \A k \in Jobs : Places(k)'
  BY <1>1, ConstantsAssumption
  DEF Places, TypeOK, Jobs, Requests, Returned, ConstantsAssumption
<1>4. OwnerIsActive'
  BY <1>1 DEF OwnerIsActive, Owns, Analysing, Running, TypeOK
<1>5. OneActive'
  BY <1>1, NoneActivated
<1>6. \A k \in Jobs : HasRead(k)' => HasRead(k)
  BY <1>1 DEF HasRead, TypeOK
<1> QED  BY <1>1, <1>2, <1>3, <1>4, <1>5, <1>6, Steady

LEMMA ClientStepKeeps == ASSUME IInv, NEW c \in Calls, ClientStep(c) PROVE IInv'
<1>1. CASE Call(c)
  BY <1>1, SendKeeps, ConstantsAssumption DEF Call, Requests, ConstantsAssumption
<1>2. CASE Retry(c)
  <2>1. attempt[c] + 1 \in Requests /\ attempt[c] < attempt[c] + 1 /\ Send(c, attempt[c] + 1)
    BY <1>2, ConstantsAssumption DEF Retry, Requests, ConstantsAssumption
  <2> QED  BY <2>1, SendKeeps
<1>3. CASE Return(c) \/ TimeOut(c)
  <2> USE DEF IInv
  <2>1. /\ UNCHANGED <<asset, locale, pc, stage, prevRead, job, hour, analyses, crashes>>
        /\ UNCHANGED <<expired, slow, saved, prev, latest>>
        /\ attempt[c] \in Requests
        /\ attempt' = attempt \/ attempt' = [attempt EXCEPT ![c] = Returned]
        /\ reply' = reply \/ reply' = [reply EXCEPT ![<<c, attempt[c]>>] = "failed"]
    BY <1>3 DEF Return, TimeOut, wanted, pipeline, hour, analyses
  <2>2. TypeOK'
    BY <2>1, ConstantsAssumption DEF TypeOK, Returned, ConstantsAssumption
  <2>3. \A k \in Jobs : Places(k)'
    BY <2>1, ConstantsAssumption DEF Places, TypeOK, Jobs, Requests, Returned, ConstantsAssumption
  <2>4. OwnerIsActive' /\ OneActive'
    BY <2>1 DEF OwnerIsActive, OneActive, Owns, Analysing, AssetOf
  <2>5. \A k \in Jobs : HasRead(k)' => HasRead(k)
    BY <2>1 DEF HasRead
  <2> QED  BY <2>1, <2>2, <2>3, <2>4, <2>5, Steady
<1> QED  BY <1>1, <1>2, <1>3 DEF ClientStep

-----------------------------------------------------------------------------
(* The handler.                                                            *)

LEMMA CheckActiveKeeps == ASSUME IInv, NEW j \in Jobs, CheckActive(j) PROVE IInv'
<1> USE DEF IInv
<1>1. /\ pc[j] = "request"
      /\ pc' = [pc EXCEPT ![j] = "insert"] \/ pc' = [pc EXCEPT ![j] = "answered"]
      /\ reply' = reply \/ \E r \in {"failed", "accepted"} : Answer(j, r)
      /\ UNCHANGED <<asset, locale, attempt, stage, prevRead, job, hour, analyses, crashes>>
      /\ UNCHANGED <<expired, slow, saved, prev, latest>>
  BY DEF CheckActive, Go, wanted, hour, analyses
<1>2. TypeOK'
  BY <1>1 DEF TypeOK, Handling, Answer
<1>3. \A k \in Jobs : Places(k)'
  BY <1>1 DEF Places, TypeOK
<1>4. OwnerIsActive'
  BY <1>1 DEF OwnerIsActive, Owns, Analysing, Running, TypeOK
<1>5. OneActive'
  BY <1>1, NoneActivated
<1>6. \A k \in Jobs : HasRead(k)' => HasRead(k)
  BY <1>1 DEF HasRead, TypeOK
<1> QED  BY <1>1, <1>2, <1>3, <1>4, <1>5, <1>6, Steady

LEMMA CreateJobKeeps == ASSUME IInv, NEW j \in Jobs, CreateJob(j) PROVE IInv'
<1> USE DEF IInv
<1>1. /\ pc[j] = "insert" /\ job[j] = "none" /\ j \notin expired
      /\ UNCHANGED <<asset, locale, attempt, stage, prevRead, hour, analyses, crashes>>
      /\ UNCHANGED <<expired, slow, saved, prev, latest>>
  BY DEF CreateJob, Places, wanted, hour, analyses
<1>2. \/ /\ ActiveJobs(AssetOf(j)) = {} /\ reply' = reply
         /\ job' = [job EXCEPT ![j] = "pending"] /\ pc' = [pc EXCEPT ![j] = "created"]
      \/ /\ \E r \in {"failed", "accepted"} : Answer(j, r)
         /\ job' = job /\ pc' = [pc EXCEPT ![j] = "answered"]
  BY DEF CreateJob, Go
<1>3. TypeOK'
  BY <1>1, <1>2 DEF TypeOK, Active, Answer
<1>4. \A k \in Jobs : Places(k)'
  BY <1>1, <1>2 DEF Places, TypeOK
<1>5. OwnerIsActive'
  BY <1>1, <1>2 DEF OwnerIsActive, Owns, Analysing, Running, TypeOK, Active
<1>6. OneActive'
  BY <1>1, <1>2, NoneActivated, Activated DEF TypeOK
<1>7. \A k \in Jobs : HasRead(k)' => HasRead(k)
  BY <1>1, <1>2 DEF HasRead, TypeOK
<1> QED  BY <1>1, <1>3, <1>4, <1>5, <1>6, <1>7, Steady

LEMMA SpawnPipelineKeeps == ASSUME IInv, NEW j \in Jobs, SpawnPipeline(j) PROVE IInv'
<1> USE DEF IInv
<1>1. /\ pc[j] = "created" /\ pc' = [pc EXCEPT ![j] = "mark"] /\ Answer(j, "accepted")
      /\ UNCHANGED <<asset, locale, attempt, stage, prevRead, job, hour, analyses, crashes>>
      /\ UNCHANGED <<expired, slow, saved, prev, latest>>
  BY DEF SpawnPipeline, Go, wanted, hour, analyses
<1>2. TypeOK'
  BY <1>1 DEF TypeOK, Running, Answer
<1>3. \A k \in Jobs : Places(k)'
  BY <1>1 DEF Places, TypeOK
<1>4. OwnerIsActive'
  BY <1>1 DEF OwnerIsActive, Owns, Analysing, Running, TypeOK
<1>5. OneActive'
  BY <1>1, NoneActivated
<1>6. \A k \in Jobs : HasRead(k)' => HasRead(k)
  BY <1>1 DEF HasRead, TypeOK
<1> QED  BY <1>1, <1>2, <1>3, <1>4, <1>5, <1>6, Steady

-----------------------------------------------------------------------------
(* The pipeline: the updates of the job row, after which it runs or the    *)
(* pipeline has failed.                                                    *)
LEMMA SetRunningKeeps ==
    ASSUME IInv, NEW j \in Jobs, NEW place, SetRunning(j, place),
           UNCHANGED <<client, prevRead, hour, analyses, crashes>>,
           stage' \in [Jobs -> Stages], \A k \in Jobs \ {j} : stage'[k] = stage[k],
           pc[j] \in {"mark", "begin", "work", "final"},
           \/ place = "end"
           \/ pc[j] # "final" /\ place = "begin" /\ (stage'[j] <= Research \/ HasRead(j))
           \/ pc[j] # "final" /\ place = "work" /\ stage'[j] < PersistStage
              /\ (stage'[j] <= Research \/ HasRead(j))
           \/ pc[j] # "final" /\ place = "prev" /\ stage'[j] = Research + 1
           \/ pc[j] # "final" /\ place = "save" /\ stage'[j] = PersistStage /\ HasRead(j)
    PROVE  IInv'
<1> USE DEF IInv
<1>1. /\ pc' = [pc EXCEPT ![j] = place] \/ pc' = [pc EXCEPT ![j] = "error"]
      /\ UNCHANGED <<asset, locale, attempt, reply, expired, slow, saved, prev, latest, crashes>>
      /\ \/ job' = job
         \/ ActiveJobs(AssetOf(j)) \subseteq {j} /\ job' = [job EXCEPT ![j] = "running"]
      /\ pc'[j] = place => job' = [job EXCEPT ![j] = "running"]
  BY DEF SetRunning, Go, TypeOK, client, wanted, hour, analyses
<1>2. TypeOK'
  BY <1>1 DEF TypeOK, Running, Active
<1>3. \A k \in Jobs : Places(k)'
  BY <1>1 DEF Places, TypeOK, Research, PersistStage
<1>4. OwnerIsActive'
  <2>1. pc'[j] \in Running \ {"final", "error"} => Owns(j) /\ job'[j] = "running"
    BY <1>1 DEF Owns, Analysing, Running, TypeOK
  <2> QED  BY <2>1, <1>1 DEF OwnerIsActive, Owns, Analysing, Running, TypeOK, Active
<1>5. OneActive'
  BY <1>1, NoneActivated, Activated DEF TypeOK
<1>6. \A k \in Jobs : HasRead(k)' => HasRead(k)
  BY <1>1 DEF HasRead, TypeOK, Stages, Research
<1> QED  BY <1>1, <1>2, <1>3, <1>4, <1>5, <1>6, Steady

LEMMA MarkRunningKeeps == ASSUME IInv, NEW j \in Jobs, MarkRunning(j) PROVE IInv'
<1>1. /\ pc[j] = "mark" /\ stage[j] = 1 /\ stage \in [Jobs -> Stages] /\ SetRunning(j, "begin")
      /\ UNCHANGED <<client, stage, prevRead, hour, analyses, crashes>>
  BY DEF MarkRunning, IInv, Places, TypeOK
<1> QED  BY <1>1, SetRunningKeeps DEF Research

LEMMA BeginStepKeeps == ASSUME IInv, NEW j \in Jobs, BeginStep(j) PROVE IInv'
<1>1. /\ pc[j] = "begin" /\ stage \in [Jobs -> Stages]
      /\ stage[j] <= Research \/ HasRead(j)
      /\ UNCHANGED <<client, stage, prevRead, hour, analyses, crashes>>
  BY DEF BeginStep, IInv, TypeOK, HasRead, Stages, Research
<1>2. CASE stage[j] = PersistStage
  BY <1>1, <1>2, SetRunningKeeps DEF BeginStep, Research, PersistStage
<1>3. CASE stage[j] # PersistStage
  <2>1. stage[j] < PersistStage
    BY <1>1, <1>3 DEF Stages, PersistStage
  <2> QED  BY <1>1, <1>3, <2>1, SetRunningKeeps DEF BeginStep
<1> QED  BY <1>2, <1>3

LEMMA AdvanceKeeps ==
    ASSUME IInv, NEW j \in Jobs, pc[j] \in {"begin", "work"}, stage[j] < PersistStage,
           SetRunning(j, IF stage[j] = Research THEN "prev" ELSE "begin"),
           stage' = [stage EXCEPT ![j] = @ + 1],
           UNCHANGED <<client, prevRead, hour, analyses, crashes>>
    PROVE  IInv'
<1>1. /\ stage \in [Jobs -> Stages] /\ stage' \in [Jobs -> Stages] /\ stage'[j] = stage[j] + 1
      /\ \A k \in Jobs \ {j} : stage'[k] = stage[k]
  BY DEF IInv, TypeOK, Stages, PersistStage
<1>2. stage[j] = Research \/ stage'[j] <= Research \/ HasRead(j)
  BY <1>1 DEF HasRead, Stages, Research
<1> QED  BY <1>1, <1>2, SetRunningKeeps

LEMMA FinishStepKeeps == ASSUME IInv, NEW j \in Jobs, FinishStep(j) PROVE IInv'
<1>1. stage[j] < PersistStage
  BY DEF FinishStep, IInv, Places
<1> QED  BY <1>1, AdvanceKeeps DEF FinishStep

LEMMA SkipResearchKeeps == ASSUME IInv, NEW j \in Jobs, SkipResearch(j) PROVE IInv'
<1>1. stage[j] < PersistStage
  BY DEF SkipResearch, Research, PersistStage
<1> QED  BY <1>1, AdvanceKeeps DEF SkipResearch

LEMMA FinalUpdateKeeps == ASSUME IInv, NEW j \in Jobs, FinalUpdate(j) PROVE IInv'
<1>1. stage \in [Jobs -> Stages]
  BY DEF IInv, TypeOK
<1> QED  BY <1>1, SetRunningKeeps DEF FinalUpdate

(* The pipeline ends or fails.                                             *)
LEMMA FailureKeeps ==
    ASSUME IInv, NEW j \in Jobs,
           InsufficientHistory(j) \/ Raise(j) \/ HandleError(j) \/ HandleErrorFails(j)
    PROVE  IInv'
<1> USE DEF IInv
<1>1. /\ pc[j] \in Running
      /\ \/ pc' = [pc EXCEPT ![j] = "end"]
         \/ pc' = [pc EXCEPT ![j] = "error"]
      /\ job' = job \/ job' = [job EXCEPT ![j] = "failed"]
      /\ UNCHANGED <<client, stage, prevRead, hour, analyses, crashes>>
      /\ UNCHANGED <<asset, locale, attempt, reply, expired, slow, saved, prev, latest>>
  BY DEF InsufficientHistory, Raise, HandleError, HandleErrorFails, Go, Running, client, wanted, hour, analyses
<1>2. TypeOK'
  BY <1>1 DEF TypeOK, Terminal, Running
<1>3. \A k \in Jobs : Places(k)'
  BY <1>1 DEF Places, TypeOK, Running
<1>4. OwnerIsActive'
  BY <1>1 DEF OwnerIsActive, Owns, Analysing, Running, TypeOK
<1>5. OneActive'
  BY <1>1, NoneActivated DEF TypeOK, Active
<1>6. \A k \in Jobs : HasRead(k)' => HasRead(k)
  BY <1>1 DEF HasRead, TypeOK
<1> QED  BY <1>1, <1>2, <1>3, <1>4, <1>5, <1>6, Steady

LEMMA ReadPreviousKeeps == ASSUME IInv, NEW j \in Jobs, ReadPrevious(j) PROVE IInv'
<1> USE DEF IInv
<1>1. /\ pc[j] = "prev" /\ pc' = [pc EXCEPT ![j] = "begin"]
      /\ prevRead' = [prevRead EXCEPT ![j] = latest[SeriesOf(j)]]
      /\ UNCHANGED <<asset, locale, attempt, reply, stage, job, expired, slow, saved, prev, latest, crashes>>
  BY DEF ReadPrevious, Go, client, wanted, hour, analyses
<1>2. SeriesOf(j) \in Assets \X Locales
      /\ \A k \in Jobs : AssetOf(k)' = AssetOf(k) /\ SeriesOf(k)' = SeriesOf(k)
  BY <1>1, Owned DEF AssetOf, SeriesOf
<1>3. TypeOK'
  BY <1>1, <1>2 DEF TypeOK, Running
<1>4. \A k \in Jobs : Places(k)'
  BY <1>1 DEF Places, TypeOK, Research
<1>5. OwnerIsActive'
  BY <1>1 DEF OwnerIsActive, Owns, Analysing, Running, TypeOK
<1>6. OneActive' /\ LinearHistory'
  BY <1>1, <1>2 DEF OneActive, LinearHistory, TypeOK
<1>7. Chain'
  <2>1. \A k \in Jobs : prevRead'[k] \in saved \cup {NoJob}
    BY <1>1, <1>2 DEF Chain, TypeOK
  <2>2. ASSUME NEW i \in Jobs \ slow, NEW k \in saved \ slow, HasRead(i)', SeriesOf(i) = SeriesOf(k)
        PROVE  prev[k] # prevRead'[i]
    <3>1. CASE i = j
      BY <1>1, <1>2, <2>2, <3>1 DEF Chain, TypeOK
    <3>2. CASE i # j
      BY <1>1, <2>2, <3>2 DEF Chain, TypeOK, HasRead
    <3> QED  BY <3>1, <3>2
  <2> QED  BY <1>1, <1>2, <2>1, <2>2 DEF Chain, TypeOK
<1> QED  BY <1>3, <1>4, <1>5, <1>6, <1>7

LEMMA SaveAnalysisKeeps == ASSUME IInv, NEW j \in Jobs, SaveAnalysis(j) PROVE IInv'
<1> USE DEF IInv
<1>1. /\ pc[j] = "save" /\ pc' = [pc EXCEPT ![j] = "final"]
      /\ saved' = saved \cup {j} /\ prev' = [prev EXCEPT ![j] = prevRead[j]]
      /\ latest' = [latest EXCEPT ![SeriesOf(j)] = j] /\ job' = [job EXCEPT ![j] = "completed"]
      /\ UNCHANGED <<asset, locale, attempt, reply, stage, prevRead, expired, slow, crashes>>
  BY DEF SaveAnalysis, Go, client, wanted, hour
<1>2. SeriesOf(j) \in Assets \X Locales
      /\ \A k \in Jobs : AssetOf(k)' = AssetOf(k) /\ SeriesOf(k)' = SeriesOf(k)
  BY <1>1, Owned DEF AssetOf, SeriesOf
<1>3. j \notin saved /\ j # NoJob /\ HasRead(j) /\ Owns(j)
  BY <1>1, ConstantsAssumption
  DEF Places, ConstantsAssumption, HasRead, Owns, Analysing, Running, Research, PersistStage
<1>4. TypeOK'
  BY <1>1, <1>2 DEF TypeOK, Running, Terminal
<1>5. \A k \in Jobs : Places(k)'
  BY <1>1 DEF Places, TypeOK
<1>6. OwnerIsActive'
  BY <1>1 DEF OwnerIsActive, Owns, Analysing, Running, TypeOK
<1>7. OneActive'
  BY <1>1, NoneActivated DEF TypeOK, Active
<1>8. \A k \in Jobs : HasRead(k)' => HasRead(k) /\ k # j
  BY <1>1 DEF HasRead, TypeOK
<1>9. Chain'
  <2>1. /\ \A k \in Jobs : prevRead'[k] \in saved' \cup {NoJob} /\ prev'[k] \in saved' \cup {NoJob}
        /\ \A t \in Assets \X Locales : latest'[t] \in saved' \cup {NoJob}
    BY <1>1 DEF Chain, TypeOK
  <2>2. \A k \in saved' : prev'[k] # latest'[SeriesOf(k)]
    BY <1>1, <1>2, <1>3 DEF Chain, TypeOK
  <2>3. ASSUME NEW i \in Jobs \ slow, NEW k \in saved' \ slow, HasRead(i)', SeriesOf(i) = SeriesOf(k)
        PROVE  prev'[k] # prevRead'[i]
    <3>1. HasRead(i) /\ i # j /\ Owns(i)
      BY <2>3, <1>8 DEF HasRead, Owns, Analysing, Running
    <3>2. k # j
      BY <3>1, <1>3, <2>3, SameAsset, Alone
    <3> QED  BY <1>1, <2>3, <3>1, <3>2 DEF Chain, TypeOK
  <2> QED  BY <1>1, <1>2, <2>1, <2>2, <2>3 DEF Chain, TypeOK
<1>10. LinearHistory'
  <2>1. \A k \in saved \ slow : SeriesOf(k) = SeriesOf(j) /\ j \notin slow => prev[k] # prevRead[j]
    BY <1>3 DEF Chain
  <2> QED  BY <1>1, <1>2, <1>3, <2>1 DEF LinearHistory, TypeOK
<1> QED  BY <1>4, <1>5, <1>6, <1>7, <1>9, <1>10

LEMMA PipelineKeeps == ASSUME IInv, NEW j \in Jobs, Pipeline(j) PROVE IInv'
BY MarkRunningKeeps, BeginStepKeeps, FinishStepKeeps, SkipResearchKeeps, FinalUpdateKeeps,
   FailureKeeps, ReadPreviousKeeps, SaveAnalysisKeeps DEF Pipeline

-----------------------------------------------------------------------------
(* Time, the cleanup and the crash.                                        *)

LEMMA ExpireKeeps == ASSUME IInv, NEW j \in Jobs, Expire(j) PROVE IInv'
<1> USE DEF IInv
<1>1. /\ job[j] # "none" /\ expired' = expired \cup {j}
      /\ slow \subseteq slow' /\ slow' \subseteq slow \cup {j} /\ (Owns(j) => j \in slow')
      /\ UNCHANGED <<client, pipeline, job, analyses, crashes>>
      /\ UNCHANGED <<asset, locale, attempt, reply, pc, stage, prevRead, saved, prev, latest>>
  BY DEF Expire, Owns, client, wanted, pipeline, analyses
<1>2. TypeOK'
  BY <1>1 DEF TypeOK
<1>3. \A k \in Jobs : Places(k)'
  BY <1>1 DEF Places
<1>4. OwnerIsActive'
  BY <1>1 DEF OwnerIsActive, Owns, Analysing
<1>5. OneActive'
  BY <1>1, NoneActivated
<1>6. \A k \in Jobs : HasRead(k)' => HasRead(k)
  BY <1>1 DEF HasRead
<1> QED  BY <1>1, <1>2, <1>3, <1>4, <1>5, <1>6, Steady

LEMMA FailExpiredJobsKeeps == ASSUME IInv, FailExpiredJobs PROVE IInv'
<1> USE DEF IInv
<1>1. /\ job' = [j \in Jobs |-> IF j \in expired /\ job[j] \in Active THEN "failed" ELSE job[j]]
      /\ UNCHANGED <<client, pipeline, hour, analyses, crashes>>
      /\ UNCHANGED <<asset, locale, attempt, reply, pc, stage, prevRead, expired, slow, saved, prev, latest>>
  BY DEF FailExpiredJobs, client, wanted, pipeline, hour, analyses
<1>2. TypeOK'
  BY <1>1 DEF TypeOK, Terminal
<1>3. \A k \in Jobs : Places(k)'
  BY <1>1 DEF Places, Active
<1>4. OwnerIsActive'
  BY <1>1 DEF OwnerIsActive, Owns, Analysing
<1>5. OneActive'
  BY <1>1, NoneActivated DEF Active
<1>6. \A k \in Jobs : HasRead(k)' => HasRead(k)
  BY <1>1 DEF HasRead
<1> QED  BY <1>1, <1>2, <1>3, <1>4, <1>5, <1>6, Steady

LEMMA CrashKeeps == ASSUME IInv, Crash PROVE IInv'
<1> USE DEF IInv
<1>1. /\ crashes < MaxCrashes /\ crashes' = crashes + 1
      /\ pc' = [j \in Jobs |-> IF pc[j] \in {"idle", "answered", "end"} THEN pc[j] ELSE "dead"]
      /\ reply' \in [Jobs -> {"none", "accepted", "failed"}]
      /\ UNCHANGED <<asset, locale, attempt, stage, prevRead, job, hour, analyses>>
      /\ UNCHANGED <<expired, slow, saved, prev, latest>>
  BY DEF Crash, TypeOK, wanted, hour, analyses
<1>2. TypeOK'
  BY <1>1, ConstantsAssumption DEF TypeOK, ConstantsAssumption
<1>3. \A k \in Jobs : Places(k)'
  BY <1>1 DEF Places
<1>4. OwnerIsActive'
  BY <1>1 DEF OwnerIsActive, Owns, Analysing, Running
<1>5. OneActive'
  BY <1>1, NoneActivated
<1>6. \A k \in Jobs : HasRead(k)' => HasRead(k)
  BY <1>1 DEF HasRead
<1> QED  BY <1>1, <1>2, <1>3, <1>4, <1>5, <1>6, Steady

-----------------------------------------------------------------------------

LEMMA Stutters == ASSUME IInv, UNCHANGED vars PROVE IInv'
<1>1. /\ UNCHANGED <<asset, locale, attempt, reply, pc, stage, prevRead>>
      /\ UNCHANGED <<job, expired, slow, saved, prev, latest, crashes>>
  BY DEF vars, client, wanted, pipeline, hour, analyses
<1> QED
  BY <1>1 DEF IInv, TypeOK, Places, OwnerIsActive, OneActive, Chain, LinearHistory, Owns,
              Analysing, HasRead, AssetOf, SeriesOf

(* The invariant of the handlers, the pipelines, the cleanup cron and the  *)
(* sidecar's crashes.                                                      *)
THEOREM Inductive == Spec => []IInv
<1>1. Init => IInv
  BY InitHolds
<1>2. IInv /\ [Next]_vars => IInv'
  BY ClientStepKeeps, CheckActiveKeeps, CreateJobKeeps, SpawnPipelineKeeps, PipelineKeeps,
     ExpireKeeps, FailExpiredJobsKeeps, CrashKeeps, Stutters DEF Next, Handler
<1> QED  BY <1>1, <1>2, PTL DEF Spec

(* Every status, place and reference stays in its set.                     *)
THEOREM TypesKept == Spec => []TypeOK
<1>1. IInv => TypeOK
  BY DEF IInv
<1> QED  BY <1>1, Inductive, PTL

(* One asset is never analysed by two pipelines that are within the hour   *)
(* of their jobs (get_active_job_for_asset, the unique index, and          *)
(* FailExpiredJobs), whatever calls, retries and restarts race.            *)
THEOREM OnePipeline == Spec => []OnePipelinePerAsset
<1>1. IInv => OnePipelinePerAsset
  BY Alone DEF OnePipelinePerAsset, Owns
<1> QED  BY <1>1, Inductive, PTL

(* The analyses of an asset in one language that were stored within the    *)
(* hour of their jobs name different previous analyses                     *)
(* (run_asset_analysis_pipeline looks it up long before it stores).        *)
THEOREM OneChain == Spec => []LinearHistory
<1>1. IInv => LinearHistory
  BY DEF IInv
<1> QED  BY <1>1, Inductive, PTL
=============================================================================
