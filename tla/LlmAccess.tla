------------------------------- MODULE LlmAccess -------------------------------
(***************************************************************************)
(* Which language model may write a card of one user: the settings of the  *)
(* user (LLMSettingsHandler over rm_llm_configs), the consent to the       *)
(* system's own provider, and the chain of fallbacks that an analysis      *)
(* walks (Resolver, then Synthesizer).  A worker serves one request or     *)
(* analysis at a time.  One action is one statement or one call; the only  *)
(* transaction is that of a PUT, which locks the row it replaces, under    *)
(* READ COMMITTED: a statement that has waited for a lock looks again at   *)
(* the row it had chosen, and at no other.                                 *)
(*                                                                         *)
(* A provider answers or fails as it likes.  Keys, models and addresses    *)
(* matter only through that, and through a provider that cannot be built.  *)
(***************************************************************************)
EXTENDS Naturals, Sequences, FiniteSets

CONSTANTS
    Workers,
    MaxRows,    \* bound: configurations saved
    MaxFaults   \* bound: failed statements, keys that cannot be decrypted

LlmAssumption == MaxRows \in Nat /\ MaxFaults \in Nat

VARIABLES
    rows,       \* rm_llm_configs of the user, in the order of their commits; nothing reads a deleted row
    consent,    \* use_system_default_llm_consent
    default,    \* the server was started with a system provider
    req,        \* worker -> what it is doing; agreed: the consent was there in the meantime (history)
    earned,     \* row -> outcomes of calls made with that row (history)
    faults

vars == <<rows, consent, default, req, earned, faults>>

Healths == {"unknown", "healthy", "failing"}
Unwritten == [source |-> "none", provider |-> "none"]
Deleted == [active |-> FALSE, fallback |-> FALSE, health |-> "unknown"]
Idle == [pc |-> "idle", row |-> 0, fallback |-> FALSE, ok |-> FALSE, probe |-> FALSE,
         agreed |-> FALSE, card |-> Unwritten]

Init ==
    /\ rows = <<>>
    /\ consent \in BOOLEAN
    /\ default \in BOOLEAN
    /\ req = [w \in Workers |-> Idle]
    /\ earned = <<>>
    /\ faults = 0

ActiveRows == {r \in DOMAIN rows : rows[r].active}
Fault == faults < MaxFaults /\ faults' = faults + 1

To(w, pc) == req' = [req EXCEPT ![w].pc = pc]
Free(w) == req[w].pc \in {"idle", "done"}
Answer(w) == req' = [req EXCEPT ![w] = Idle]
Analysing(w) == req[w].pc \in {"lookup", "consent", "build", "call", "stamp", "default", "parse"}

\* A transaction holds the row that it has soft-deleted.
InTx(w) == req[w].pc \in {"insert", "commit"}
Locked(r, w) == r # 0 /\ \E v \in Workers \ {w} : InTx(v) /\ req[v].row = r

-----------------------------------------------------------------------------
(* ResolvedChatCompletion.                                                 *)

StartAnalysis(w) ==
    /\ Free(w)
    /\ req' = [req EXCEPT ![w] = [Idle EXCEPT !.pc = "lookup", !.agreed = consent]]
    /\ UNCHANGED <<rows, consent, default, earned, faults>>

(* The active configuration is read; an error of the database counts as    *)
(* having none.                                                            *)
LookUp(w) ==
    /\ req[w].pc = "lookup"
    /\ \/ ActiveRows = {} /\ To(w, "consent") /\ UNCHANGED faults
       \/ Fault /\ To(w, "consent")
       \/ /\ \E r \in ActiveRows :
               req' = [req EXCEPT ![w] = [@ EXCEPT
                         !.pc = "build", !.row = r, !.fallback = rows[r].fallback]]
          /\ UNCHANGED faults
    /\ UNCHANGED <<rows, consent, default, earned>>

(* The card of the analysis.                                               *)
Finish(w, source, provider) ==
    /\ req' = [req EXCEPT ![w] = [Idle EXCEPT
                 !.pc = "done", !.card = [source |-> source, provider |-> provider]]]

(* ErrConsentDenied, also when the consent cannot be read.                 *)
CheckConsent(w) ==
    /\ req[w].pc = "consent"
    /\ \/ consent /\ To(w, "default") /\ UNCHANGED faults
       \/ ~ consent /\ Finish(w, "template", "none") /\ UNCHANGED faults
       \/ Fault /\ Finish(w, "template", "none")
    /\ UNCHANGED <<rows, consent, default, earned>>

(* A provider has answered.                                                *)
Reached(w, provider) ==
    req' = [req EXCEPT ![w].pc = "parse", ![w].card.provider = provider]

(* What a failure of the user's own provider leads to.                     *)
FallThrough(w) ==
    IF req[w].fallback THEN To(w, "default") ELSE Finish(w, "template", "none")

(* The key is decrypted and the address examined.  The failure of either   *)
(* leaves health_status as it is.                                          *)
BuildUserProvider(w) ==
    /\ req[w].pc = "build"
    /\ \/ To(w, "call") /\ UNCHANGED faults
       \/ Fault /\ FallThrough(w)
    /\ UNCHANGED <<rows, consent, default, earned>>

Outcome(ok) == IF ok THEN "healthy" ELSE "failing"

(* A call with the user's key, by an analysis or by POST probe; its        *)
(* outcome is stamped next.                                                *)
CallUserProvider(w) ==
    /\ req[w].pc \in {"call", "ping"}
    /\ \E ok \in BOOLEAN :
         /\ req' = [req EXCEPT ![w] = [@ EXCEPT
                      !.pc = IF req[w].pc = "call" THEN "stamp" ELSE "pong", !.ok = ok]]
         /\ earned' = [earned EXCEPT ![req[w].row] = @ \cup {Outcome(ok)}]
    /\ UNCHANGED <<rows, consent, default, faults>>

\* Mutant: the row is found by its user.
UpdateHealth_OfUser(w) ==
    rows' = [r \in DOMAIN rows |->
               IF r \in ActiveRows THEN [rows[r] EXCEPT !.health = Outcome(req[w].ok)] ELSE rows[r]]

(* The row is found by its id, and must still be active.                   *)
UpdateHealth(w) ==
    LET r == req[w].row IN
    rows' = IF r \in ActiveRows THEN [rows EXCEPT ![r].health = Outcome(req[w].ok)] ELSE rows

StampHealth(w) ==
    /\ req[w].pc \in {"stamp", "pong"} /\ ~ Locked(req[w].row, w)
    /\ \/ UpdateHealth(w) /\ UNCHANGED faults
       \/ Fault /\ UNCHANGED rows
    /\ IF req[w].pc = "pong" THEN Answer(w)
       ELSE IF req[w].ok THEN Reached(w, "user")
       ELSE FallThrough(w)
    /\ UNCHANGED <<consent, default, earned>>

(* ErrAllLayersFailed without a system provider, or when it fails.         *)
CallDefault(w) ==
    /\ req[w].pc = "default"
    /\ \/ Finish(w, "template", "none")
       \/ default /\ Reached(w, "system_default")
    /\ UNCHANGED <<rows, consent, default, earned, faults>>

(* An unusable answer is replaced by the template, and one without a       *)
(* recommendation completed; the layer that answered is kept.              *)
ParseAnswer(w) ==
    /\ req[w].pc = "parse"
    /\ \E source \in {"llm", "mixed", "template"} : Finish(w, source, req[w].card.provider)
    /\ UNCHANGED <<rows, consent, default, earned, faults>>

-----------------------------------------------------------------------------
(* The settings.                                                           *)

StartPut(w) ==
    /\ Free(w) /\ Len(rows) < MaxRows
    /\ \E fallback, probe \in BOOLEAN :
         req' = [req EXCEPT ![w] = [Idle EXCEPT
                   !.pc = IF probe THEN "probe" ELSE "save", !.fallback = fallback, !.probe = probe]]
    /\ UNCHANGED <<rows, consent, default, earned, faults>>

(* The new key is tried before it is saved; 400 when it fails.             *)
ProbeBeforeSave(w) ==
    /\ req[w].pc = "probe"
    /\ To(w, "save") \/ Answer(w)
    /\ UNCHANGED <<rows, consent, default, earned, faults>>

(* The UPDATE of the transaction chooses the active row ...                *)
ChooseOld(w) ==
    /\ req[w].pc = "save"
    /\ \E r \in IF ActiveRows = {} THEN {0} ELSE ActiveRows :
         req' = [req EXCEPT ![w] = [@ EXCEPT !.pc = "lock", !.row = r]]
    /\ UNCHANGED <<rows, consent, default, earned, faults>>

(* ... and locks it, unless it has been deleted in the meantime.           *)
LockOld(w) ==
    /\ req[w].pc = "lock" /\ ~ Locked(req[w].row, w)
    /\ req' = [req EXCEPT ![w] = [@ EXCEPT
                 !.pc = "insert", !.row = IF req[w].row \in ActiveRows THEN req[w].row ELSE 0]]
    /\ UNCHANGED <<rows, consent, default, earned, faults>>

(* The INSERT waits for a transaction that has inserted, or is deleting, a *)
(* row of the user; an active row that is not its own to delete makes it   *)
(* fail.                                                                   *)
InsertNew(w) ==
    /\ req[w].pc = "insert" /\ Len(rows) < MaxRows
    /\ \A v \in Workers \ {w} : req[v].pc # "commit"
    /\ \A r \in ActiveRows : ~ Locked(r, w)
    /\ IF ActiveRows \subseteq {req[w].row} THEN To(w, "commit") ELSE Answer(w)
    /\ UNCHANGED <<rows, consent, default, earned, faults>>

CommitUpsert(w) ==
    LET kept == [r \in DOMAIN rows |-> IF r = req[w].row THEN Deleted ELSE rows[r]]
        new == [active |-> TRUE, fallback |-> req[w].fallback,
                health |-> IF req[w].probe THEN "healthy" ELSE "unknown"]
    IN  /\ req[w].pc = "commit"
        /\ rows' = Append(kept, new)
        /\ earned' = Append(earned, IF req[w].probe THEN {"healthy"} ELSE {})
        /\ Answer(w)
        /\ UNCHANGED <<consent, default, faults>>

\* The key is not encrypted, or a statement or the commit fails: rolled back.
PutFails(w) ==
    /\ req[w].pc \in {"save", "lock", "insert", "commit"} /\ Fault
    /\ Answer(w)
    /\ UNCHANGED <<rows, consent, default, earned>>

(* DELETE: one statement.                                                  *)
DeleteConfig(w) ==
    /\ Free(w) /\ ActiveRows # {} /\ \A r \in ActiveRows : ~ Locked(r, w)
    /\ rows' = [r \in DOMAIN rows |-> Deleted]
    /\ UNCHANGED <<consent, default, req, earned, faults>>

(* POST probe tries the stored configuration; 500 without a stamp when its *)
(* key cannot be decrypted.                                                *)
StartProbe(w) ==
    /\ Free(w)
    /\ \E r \in ActiveRows :
         \/ req' = [req EXCEPT ![w] = [Idle EXCEPT !.pc = "ping", !.row = r]] /\ UNCHANGED faults
         \/ Fault /\ Answer(w)
    /\ UNCHANGED <<rows, consent, default, earned>>

SetConsent(w) ==
    /\ Free(w)
    /\ consent' = ~ consent
    /\ req' = [v \in Workers |-> [req[v] EXCEPT !.agreed = @ \/ (consent' /\ Analysing(v))]]
    /\ UNCHANGED <<rows, default, earned, faults>>

-----------------------------------------------------------------------------
Resolve(w) ==
    \/ StartAnalysis(w) \/ LookUp(w) \/ CheckConsent(w) \/ BuildUserProvider(w)
    \/ CallUserProvider(w) \/ StampHealth(w) \/ CallDefault(w) \/ ParseAnswer(w)

Settings(w) ==
    \/ StartPut(w) \/ ProbeBeforeSave(w) \/ ChooseOld(w) \/ LockOld(w) \/ InsertNew(w)
    \/ CommitUpsert(w) \/ PutFails(w) \/ DeleteConfig(w) \/ StartProbe(w) \/ SetConsent(w)

Next == \E w \in Workers : Resolve(w) \/ Settings(w)

Spec == Init /\ [][Next]_vars

-----------------------------------------------------------------------------
TypeOK ==
    /\ rows \in Seq([active : BOOLEAN, fallback : BOOLEAN, health : Healths])
    /\ Len(rows) <= MaxRows
    /\ consent \in BOOLEAN /\ default \in BOOLEAN
    /\ req \in [Workers -> [pc : {"idle", "lookup", "consent", "build", "call", "stamp", "default",
                                  "parse", "done", "probe", "save", "lock", "insert", "commit",
                                  "ping", "pong"},
                            row : 0 .. MaxRows, fallback : BOOLEAN, ok : BOOLEAN, probe : BOOLEAN,
                            agreed : BOOLEAN,
                            card : [source : {"none", "llm", "mixed", "template"},
                                    provider : {"none", "user", "system_default"}]]]
    /\ earned \in Seq(SUBSET {"healthy", "failing"}) /\ Len(earned) = Len(rows)
    /\ faults \in 0 .. MaxFaults

(* Whatever PUTs, DELETEs and failures overlap, one configuration of the   *)
(* user is in force at most.                                               *)
OneActive == Cardinality(ActiveRows) <= 1

(* What the settings page says of a configuration has been found out with  *)
(* that very configuration: a call that ends after its row was replaced    *)
(* says nothing about the new one (the comment of UpdateHealth).           *)
HealthEarned ==
    \A r \in ActiveRows : rows[r].health # "unknown" => rows[r].health \in earned[r]

(* The system's provider sees the data of a user only if the user's own    *)
(* configuration allows it to stand in, or the consent was there at some   *)
(* moment of the analysis; an error never opens that door.                 *)
DefaultAuthorised ==
    \A w \in Workers : req[w].pc = "default" => req[w].fallback \/ req[w].agreed
=============================================================================
