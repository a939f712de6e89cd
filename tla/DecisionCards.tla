---------------------------- MODULE DecisionCards ----------------------------
(***************************************************************************)
(* The decision cards of one holding and the two ways to write one.  An    *)
(* analysis of the v1 pipeline stamps its card, then looks up the previous *)
(* card and inserts the new one in a transaction, under PostgreSQL's READ  *)
(* COMMITTED isolation: a statement sees what had committed when it began, *)
(* and FOR UPDATE locks the row it has chosen.  A v2 holding analysis has  *)
(* an in-flight guard, asks the sidecar for a plan and inserts its card    *)
(* without a transaction.  A card is named by what writes it.              *)
(***************************************************************************)
EXTENDS Naturals, FiniteSets

CONSTANTS
    Analyses,   \* v1 analyses of the holding
    Requests,   \* v2 requests for the same holding
    NoCard

Cards == Analyses \cup Requests

ConstantsAssumption ==
    /\ IsFiniteSet(Cards)
    /\ Analyses \cap Requests = {}
    /\ NoCard \notin Cards

VARIABLES
    pc,        \* pc[c]: where the analysis or request is
    clock,     \* number of stamps given
    stamp,     \* stamp[c]: analyzed_at of its card, 0 before
    prev,      \* prev[c]: prev_card_id of its card
    lock,      \* lock[c]: the transaction that has locked card c, or NoCard
    table,     \* committed cards of rm_decision_cards
    inFlight,  \* the v2 guard holds the key of this holding
    met        \* what ran while another one did (history)

vars == <<pc, clock, stamp, prev, lock, table, inFlight, met>>

InTx     == {"select", "wait", "insert", "commit"}
Guarded  == {"gather", "ask", "save"}
Underway == {"ready"} \cup InTx \cup Guarded

TypeOK ==
    /\ pc \in [Cards -> {"idle", "done", "failed", "conflict", "refused"} \cup Underway]
    /\ clock \in 0..Cardinality(Cards)
    /\ stamp \in [Cards -> 0..clock]
    /\ prev \in [Cards -> Cards \cup {NoCard}]
    /\ lock \in [Cards -> Analyses \cup {NoCard}]
    /\ table \subseteq Cards
    /\ inFlight \in BOOLEAN
    /\ met \subseteq Cards

Init ==
    /\ pc = [c \in Cards |-> "idle"]
    /\ clock = 0
    /\ stamp = [c \in Cards |-> 0]
    /\ prev = [c \in Cards |-> NoCard]
    /\ lock = [c \in Cards |-> NoCard]
    /\ table = {}
    /\ inFlight = FALSE
    /\ met = {}

Go(c, place) == pc' = [pc EXCEPT ![c] = place]

\* c begins; what is under way with it has met it.
Meet(c) ==
    LET others == {d \in Cards \ {c} : pc[d] \in Underway}
    IN  met' = met \cup others \cup {d \in {c} : others # {}}

\* analyzed_at is the time at which the card is built.
Stamp(c) ==
    /\ clock' = clock + 1
    /\ stamp' = [stamp EXCEPT ![c] = clock + 1]

-----------------------------------------------------------------------------
(* The v1 pipeline: AnalyzeHolding and persistDecisionCardWithDiff.        *)

BuildCard(a) ==
    /\ pc[a] = "idle"
    /\ Stamp(a)
    /\ Meet(a)
    /\ Go(a, "ready")
    /\ UNCHANGED <<prev, lock, table, inFlight>>

BeginTx(a) ==
    /\ pc[a] = "ready"
    /\ Go(a, "select")
    /\ UNCHANGED <<clock, stamp, prev, lock, table, inFlight, met>>

\* The latest by analyzed_at.
Latest == {c \in table : \A d \in table : stamp[d] <= stamp[c]}

\* Mutant: the order of the query is ascending.
SelectLatest_Oldest(a) ==
    /\ pc[a] = "select"
    /\ \/ table = {} /\ Go(a, "insert") /\ UNCHANGED prev
       \/ \E c \in table :
             /\ \A d \in table : stamp[c] <= stamp[d]
             /\ prev' = [prev EXCEPT ![a] = c]
             /\ Go(a, "wait")
    /\ UNCHANGED <<clock, stamp, lock, table, inFlight, met>>

\* GetLatestByHoldingTx chooses its row from the snapshot of the statement; where
\* there is none there is nothing to lock.
SelectLatest(a) ==
    /\ pc[a] = "select"
    /\ \/ table = {} /\ Go(a, "insert") /\ UNCHANGED prev
       \/ \E c \in Latest :
             /\ prev' = [prev EXCEPT ![a] = c]
             /\ Go(a, "wait")
    /\ UNCHANGED <<clock, stamp, lock, table, inFlight, met>>

\* FOR UPDATE: no card is ever updated, so the row is still the one that was
\* chosen when the lock is granted, and is not looked up again.
LockRow(a) ==
    /\ pc[a] = "wait"
    /\ lock[prev[a]] = NoCard
    /\ lock' = [lock EXCEPT ![prev[a]] = a]
    /\ Go(a, "insert")
    /\ UNCHANGED <<clock, stamp, prev, table, inFlight, met>>

\* CreateDecisionCardTx, invisible to the others until the commit.
InsertCard(a) ==
    /\ pc[a] = "insert"
    /\ Go(a, "commit")
    /\ UNCHANGED <<clock, stamp, prev, lock, table, inFlight, met>>

Unlock(a) == lock' = [c \in Cards |-> IF lock[c] = a THEN NoCard ELSE lock[c]]

Commit(a) ==
    /\ pc[a] = "commit"
    /\ table' = table \cup {a}
    /\ Unlock(a)
    /\ Go(a, "done")
    /\ UNCHANGED <<clock, stamp, prev, inFlight, met>>

\* An error or the timeout of the holding, before the transaction or in it.
Rollback(a) ==
    /\ pc[a] \in {"ready"} \cup InTx
    /\ Unlock(a)
    /\ Go(a, "failed")
    /\ UNCHANGED <<clock, stamp, prev, table, inFlight, met>>

-----------------------------------------------------------------------------
(* The v2 analyzer: V2HoldingAnalyzer.AnalyzeHolding.                      *)

\* LoadOrStore on the key of the user and the holding.
StartRequest(r) ==
    /\ pc[r] = "idle"
    /\ ~inFlight
    /\ inFlight' = TRUE
    /\ Meet(r)
    /\ Go(r, "gather")
    /\ UNCHANGED <<clock, stamp, prev, lock, table>>

\* Mutant: the deferred Delete is registered before the guard is examined.
RejectRequest_Deletes(r) ==
    /\ pc[r] = "idle"
    /\ inFlight
    /\ inFlight' = FALSE
    /\ Go(r, "conflict")
    /\ UNCHANGED <<clock, stamp, prev, lock, table, met>>

\* 409 ANALYSIS_IN_PROGRESS
RejectRequest(r) ==
    /\ pc[r] = "idle"
    /\ inFlight
    /\ Go(r, "conflict")
    /\ UNCHANGED <<clock, stamp, prev, lock, table, inFlight, met>>

\* The holding, its latest analysis, the exposure, the user's preferences.
Gather(r) ==
    /\ pc[r] = "gather"
    /\ Go(r, "ask")
    /\ UNCHANGED <<clock, stamp, prev, lock, table, inFlight, met>>

\* POST /analyze/holding
Ask(r) ==
    /\ pc[r] = "ask"
    /\ Go(r, "save")
    /\ UNCHANGED <<clock, stamp, prev, lock, table, inFlight, met>>

\* The CHECK constraint on synthesis_source.
SynthesisSources == {"llm", "template", "mixed"}

\* persistDecisionCard, a single INSERT.
SaveCard(r) ==
    /\ pc[r] = "save"
    /\ Stamp(r)
    /\ LET kept == "richson" \in SynthesisSources
       IN  /\ table' = IF kept THEN table \cup {r} ELSE table
           /\ Go(r, IF kept THEN "done" ELSE "refused")
    /\ inFlight' = FALSE
    /\ UNCHANGED <<prev, lock, met>>

FailRequest(r) ==
    /\ pc[r] \in Guarded
    /\ inFlight' = FALSE
    /\ Go(r, "failed")
    /\ UNCHANGED <<clock, stamp, prev, lock, table, met>>

-----------------------------------------------------------------------------

AnalysisStep(a) ==
    \/ BuildCard(a) \/ BeginTx(a) \/ SelectLatest(a) \/ LockRow(a) \/ InsertCard(a)
    \/ Commit(a) \/ Rollback(a)

RequestStep(r) ==
    \/ StartRequest(r) \/ RejectRequest(r) \/ Gather(r) \/ Ask(r) \/ SaveCard(r)
    \/ FailRequest(r)

Next ==
    \/ \E a \in Analyses : AnalysisStep(a)
    \/ \E r \in Requests : RequestStep(r)

Spec == Init /\ [][Next]_vars

-----------------------------------------------------------------------------
(* What must hold.                                                         *)

\* The guard holds the key exactly while one request for the holding works: two
\* never do, and none leaves the key behind to answer 409 for ever, on whatever
\* path it returns (LoadOrStore and the deferred Delete).
GuardExact ==
    LET working == {r \in Requests : pc[r] \in Guarded}
    IN  /\ inFlight <=> working # {}
        /\ \A r, s \in working : r = s

\* Two cards name the same previous card, or none at all, only where one of their
\* analyses has overlapped with another: those that ran alone form one chain, from
\* which badge_state and confidence_delta are computed.
ForksOnlyByOverlap ==
    \A a, b \in table : a # b /\ prev[a] = prev[b] => a \in met \/ b \in met

\* The doc comment's step 7: the plan that the sidecar has answered is persisted to
\* rm_decision_cards.  No error of the database or the network is involved.
PlanPersisted == \A r \in Requests : pc[r] # "refused"
=============================================================================
