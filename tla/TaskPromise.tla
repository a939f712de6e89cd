----------------------------- MODULE TaskPromise -----------------------------
(***************************************************************************)
(* What the task API promises to a client that polls a task: the life of   *)
(* one task identifier as a poll can see it, without goroutines, mutexes,  *)
(* database or cleanup loop.  AnalysisTask implements it (TaskView).       *)
(***************************************************************************)
CONSTANT Tasks

VARIABLE view   \* view[t]: what a poll of t would be answered

Live     == {"pending", "running"}
Finished == {"completed", "failed"}

PInit == view = [t \in Tasks |-> "unknown"]

Becomes(t, from, to) ==
    /\ view[t] \in from
    /\ \E v \in to : view' = [view EXCEPT ![t] = v]

Accept(t) == Becomes(t, {"unknown"}, {"pending"})
Run(t)    == Becomes(t, {"pending"}, {"running"})
Finish(t) == Becomes(t, {"running"}, Finished)

\* The retention period of some tasks is over: one sweep forgets them all.
Forget(old) ==
    /\ \A t \in old : view[t] \in Finished
    /\ view' = [t \in Tasks |-> IF t \in old THEN "gone" ELSE view[t]]

\* A crash interrupts every live task, and may take back a completion whose row
\* was not yet written.  A task not yet written at all is gone, and so is one
\* that a cleanup has just removed.
Interrupted(old, new) ==
    \/ new = old /\ old \notin Live
    \/ new = "failed" /\ old \in Live \cup {"completed"}
    \/ new = "gone" /\ old \in {"pending"} \cup Finished

Interrupt ==
    /\ \A t \in Tasks : Interrupted(view[t], view'[t])
    /\ view' \in [Tasks -> {"unknown", "gone"} \cup Live \cup Finished]

PNext ==
    \/ \E t \in Tasks : Accept(t) \/ Run(t) \/ Finish(t)
    \/ \E old \in SUBSET Tasks : Forget(old)
    \/ Interrupt

PSpec == PInit /\ [][PNext]_view
=============================================================================
