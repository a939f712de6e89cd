------------------------------ MODULE TaskView ------------------------------
(***************************************************************************)
(* AnalysisTask implements TaskPromise when the database does not fail:    *)
(* what a poll sees is the map entry, else the row a poll has already read *)
(* or would read now, as the restarted server will have recovered it.      *)
(***************************************************************************)
EXTENDS AnalysisTask

Recovered(s) == IF s \in Live THEN "failed" ELSE s

ViewOf(t) ==
    IF status[t] # "absent" THEN status[t]
    ELSE IF fill[t] # "none" THEN fill[t]
    ELSE IF row[t] # "none" THEN IF up THEN row[t] ELSE Recovered(row[t])
    ELSE IF pc[t] = "idle" THEN "unknown" ELSE "gone"

Promise == INSTANCE TaskPromise WITH view <- [t \in Tasks |-> ViewOf(t)]

\* The task API keeps its promise through crashes, cleanups and read-throughs:
\* a task passes from pending to running to completed or failed, and a restart
\* leaves no task live (TaskStore, FailOrphaned).
KeepsPromise == Promise!PSpec
=============================================================================
