-------------------------- MODULE InviteRegistration --------------------------
(***************************************************************************)
(* Registration with a global or a personal invite code, login with its    *)
(* streak, and the deletion of an account: auth.Service and invite.Service *)
(* over the tables rm_users, rm_invite_codes, rm_user_invite_codes and     *)
(* rm_invite_rewards.                                                      *)
(*                                                                         *)
(* A worker serves one request at a time; one action is one statement of   *)
(* the database.  Registration with a personal code runs in a transaction: *)
(* what it writes is seen by the others only from its commit on, and a     *)
(* statement on a row that another transaction has written waits for that  *)
(* transaction to end.  Any statement may fail: the request context ends   *)
(* when the client goes away.  Passwords and tokens are left out, except   *)
(* that a wrong password ends the request.                                 *)
(***************************************************************************)
EXTENDS Integers, FiniteSets

CONSTANTS
    Workers,       \* requests served at once
    Users,         \* user ids
    Inviter,       \* the user who owns the personal codes; there from the start
    Emails,        \* addresses
    InviterEmail,  \* the address of Inviter
    Codes,         \* the personal codes of Inviter
    Global,        \* the one global code
    MaxUses,       \* its max_uses
    InitialCodes,  \* codes a new user is given: 3
    MaxCodes,      \* maxCodesPerUser
    MinUnused,     \* minUnusedCodes
    Milestone,     \* days of a streak that earn a code: 7
    Nobody,        \* no user, no e-mail, no code
    MaxRare        \* bound: failed statements, deletions and midnights together

InviteAssumption ==
    /\ IsFiniteSet(Workers) /\ Workers # {}
    /\ IsFiniteSet(Users) /\ Inviter \in Users
    /\ IsFiniteSet(Codes) /\ Global \notin Codes
    /\ InviterEmail \in Emails
    /\ Nobody \notin Users \cup Emails \cup Codes \cup {Global}
    /\ MaxUses \in Nat \ {0} /\ MaxCodes \in Nat /\ MinUnused \in Nat
    /\ InitialCodes \in Nat /\ InitialCodes < MaxCodes
    /\ Cardinality(Codes) <= MaxCodes
    /\ Milestone \in Nat \ {0}

VARIABLES
    user,       \* rm_users, and how the row came to be
    used,       \* used_count of the global code
    code,       \* rm_user_invite_codes: the codes of Inviter
    rewards,    \* rm_invite_rewards: code -> users rewarded for it
    generated,  \* user -> codes generated for the user, none of them used
    streak,     \* user -> login_streak and last_login_date
    req,        \* worker -> the request it serves
    lost,       \* registrations whose use of the global code was not counted (history)
    rare        \* how many of the rare things happened

vars == <<user, used, code, rewards, generated, streak, req, lost, rare>>

NoUser == [state |-> "none", email |-> Nobody, consent |-> FALSE, via |-> Nobody]
NoRequest == [pc |-> "idle", email |-> Nobody, code |-> Nobody, user |-> Nobody,
              total |-> 0]

Init ==
    /\ user = [u \in Users |->
                 IF u = Inviter THEN [state |-> "active", email |-> InviterEmail,
                                      consent |-> TRUE, via |-> Nobody]
                 ELSE NoUser]
    /\ used = 0
    /\ code = [c \in Codes |-> [state |-> "free", by |-> Nobody]]
    /\ rewards = [c \in Codes |-> {}]
    /\ generated = [u \in Users |-> 0]
    /\ streak = [u \in Users |-> [count |-> 0, last |-> "older"]]
    /\ req = [w \in Workers |-> NoRequest]
    /\ lost = 0 /\ rare = 0

-----------------------------------------------------------------------------
Goto(w, pc) == req' = [req EXCEPT ![w].pc = pc]
Answer(w) == req' = [req EXCEPT ![w] = NoRequest]

Owned(u) == IF u = Inviter THEN Codes ELSE {}
CountByUser(u) == generated[u] + Cardinality(Owned(u))
CountUnusedByUser(u) == generated[u] + Cardinality({c \in Owned(u) : code[c].state # "used"})

(* Rows that are committed and not deleted.                                *)
GetUserByEmail(e) == {u \in Users : user[u].state = "active" /\ user[u].email = e}

(* Rows the unique index on e-mail looks at: an open transaction's too.    *)
Pending(e) == {u \in Users : user[u].state = "pending" /\ user[u].email = e}

(* A statement that fails; an open transaction is rolled back by the       *)
(* deferred call, which gives up the rows it has written.                  *)
Rollback(w) ==
    /\ user' = [u \in Users |-> IF u = req[w].user /\ user[u].state = "pending"
                                THEN NoUser ELSE user[u]]
    /\ code' = [c \in Codes |-> IF code[c].state = "taken" /\ code[c].by = req[w].user
                                THEN [state |-> "free", by |-> Nobody] ELSE code[c]]
    /\ Answer(w)
    /\ UNCHANGED <<used, rewards, generated, streak>>

Rare == rare < MaxRare /\ rare' = rare + 1

-----------------------------------------------------------------------------
\* Mutant: > for >= in the comparison with max_uses.
Register_OneMore(w) ==
    /\ req[w] = NoRequest
    /\ Cardinality({u \in Users : user[u] = NoUser}) >
         Cardinality({v \in Workers : req[v].pc \in {"email", "create"}})
    /\ \E e \in Emails :
         /\ used <= MaxUses
         /\ req' = [req EXCEPT ![w] = [NoRequest EXCEPT !.pc = "email", !.email = e, !.code = Global]]
    /\ UNCHANGED <<user, used, code, rewards, generated, streak, lost, rare>>

(* POST /auth/register: the disclaimer and the password have been checked. *)
(* Register looks for a global code, then for a personal one.  (An id must *)
(* be left for every registration under way.)                              *)
Register(w) ==
    /\ req[w] = NoRequest
    /\ Cardinality({u \in Users : user[u] = NoUser}) >
         Cardinality({v \in Workers : req[v].pc \in {"email", "create"}})
    /\ \E e \in Emails, c \in Codes \cup {Global} :
         /\ IF c = Global THEN used < MaxUses ELSE code[c].state # "used"
         /\ req' = [req EXCEPT ![w] = [NoRequest EXCEPT !.pc = "email", !.email = e, !.code = c]]
    /\ UNCHANGED <<user, used, code, rewards, generated, streak, lost, rare>>

(* registerWith...Code: the address is looked up before anything is written. *)
CheckEmail(w) ==
    /\ req[w].pc = "email"
    /\ IF GetUserByEmail(req[w].email) # {} THEN Answer(w) ELSE Goto(w, "create")
    /\ UNCHANGED <<user, used, code, rewards, generated, streak, lost, rare>>

(* The row of a new user, committed at once outside a transaction.         *)
NewUser(r) ==
    [state |-> IF r.code = Global THEN "active" ELSE "pending",
     email |-> r.email, consent |-> FALSE, via |-> r.code]

(* The next number of the sequence: it does not matter which.              *)
NextId ==
    LET unused == {u \in Users : user[u] = NoUser}
    IN  IF unused = {} THEN {} ELSE {CHOOSE u \in unused : TRUE}

(* INSERT: refused when the address is taken, and waiting for a            *)
(* transaction that has just inserted it.                                  *)
CreateUser(w) ==
    /\ req[w].pc = "create" /\ Pending(req[w].email) = {}
    /\ IF GetUserByEmail(req[w].email) # {}
       THEN Answer(w) /\ UNCHANGED user
       ELSE \E u \in NextId :
              /\ user' = [user EXCEPT ![u] = NewUser(req[w])]
              /\ req' = [req EXCEPT ![w] = [@ EXCEPT !.pc = "consent", !.user = u]]
    /\ UNCHANGED <<used, code, rewards, generated, streak, lost, rare>>

(* The acceptance of the disclaimer, a statement of its own; a row that    *)
(* has been deleted meanwhile makes it fail.                               *)
MarkDisclaimerAccepted(w) ==
    LET u == req[w].user IN
    /\ req[w].pc = "consent"
    /\ user[u].state # "deleted"
    /\ user' = [user EXCEPT ![u].consent = TRUE]
    /\ Goto(w, IF req[w].code = Global THEN "increment" ELSE "consume")
    /\ UNCHANGED <<used, code, rewards, generated, streak, lost, rare>>

(* The use is counted, whatever the count has become since it was read.    *)
IncrementInviteCodeUsage(w) ==
    /\ req[w].pc = "increment"
    /\ used' = used + 1
    /\ Answer(w)
    /\ UNCHANGED <<user, code, rewards, generated, streak, lost, rare>>

\* Mutant: the UPDATE without "is_used = false".
ConsumeCode_Unconditional(w) ==
    LET r == req[w] IN
    /\ r.pc = "consume" /\ code[r.code].state # "taken"
    /\ code' = [code EXCEPT ![r.code] = [state |-> "taken", by |-> r.user]]
    /\ Goto(w, "commit")
    /\ UNCHANGED <<user, used, rewards, generated, streak, lost, rare>>

(* UPDATE ... WHERE is_used = false: it waits for a transaction that has   *)
(* taken the code; a code that is used matches no row, and all is undone.  *)
ConsumeCode(w) ==
    LET r == req[w] IN
    /\ r.pc = "consume"
    /\ \/ /\ code[r.code].state = "free"
          /\ code' = [code EXCEPT ![r.code] = [state |-> "taken", by |-> r.user]]
          /\ Goto(w, "commit")
          /\ UNCHANGED <<user, used, rewards, generated, streak>>
       \/ code[r.code].state = "used" /\ Rollback(w)
    /\ UNCHANGED <<lost, rare>>

(* The two rewards, the first codes of the new user and the commit: until  *)
(* the commit nobody sees any of it.                                       *)
Commit(w) ==
    LET r == req[w] IN
    /\ r.pc = "commit"
    /\ user' = [user EXCEPT ![r.user].state = "active"]
    /\ code' = [code EXCEPT ![r.code].state = "used"]
    /\ rewards' = [rewards EXCEPT ![r.code] = @ \cup {Inviter, r.user}]
    /\ generated' = [generated EXCEPT ![r.user] = @ + InitialCodes]
    /\ Answer(w)
    /\ UNCHANGED <<used, streak, lost, rare>>

(* A statement of a registration fails, the commit included; a collision   *)
(* of a new code with an old one, too, for it aborts the transaction in    *)
(* which createOneCodeWithTx would try again.  What a registration with a  *)
(* global code has written so far stays.                                   *)
RegistrationFails(w) ==
    /\ req[w].pc \in {"email", "create", "consent", "increment", "consume", "commit"}
    /\ \/ Rare
       \/ req[w].pc = "consent" /\ user[req[w].user].state = "deleted" /\ UNCHANGED rare
    /\ lost' = IF req[w].code = Global /\ req[w].pc \in {"consent", "increment"}
               THEN lost + 1 ELSE lost
    /\ Rollback(w)

-----------------------------------------------------------------------------
(* POST /auth/login with the right password; a wrong one changes nothing.  *)
Login(w) ==
    /\ req[w] = NoRequest
    /\ \E e \in Emails : \E u \in GetUserByEmail(e) :
         req' = [req EXCEPT ![w] = [NoRequest EXCEPT !.pc = "streak", !.user = u]]
    /\ UNCHANGED <<user, used, code, rewards, generated, streak, lost, rare>>

(* login_streak goes on from yesterday, stays today and starts again       *)
(* otherwise.  The code counts on and tests streak % 7; here it is counted *)
(* up to the milestone, which is the same test.                            *)
NextStreak(s) ==
    CASE s.last = "yesterday" -> IF s.count = Milestone THEN 1 ELSE s.count + 1
      [] s.last = "today"     -> s.count
      [] OTHER                -> 1

(* One UPDATE; it matches no row when the account has been deleted since.  *)
UpdateLoginStreak(w) ==
    LET u == req[w].user
        n == NextStreak(streak[u])
    IN
    /\ req[w].pc = "streak"
    /\ IF user[u].state = "active"
       THEN /\ streak' = [streak EXCEPT ![u] = [count |-> n, last |-> "today"]]
            /\ IF n = Milestone THEN Goto(w, "count") ELSE Answer(w)
       ELSE Answer(w) /\ UNCHANGED streak
    /\ UNCHANGED <<user, used, code, rewards, generated, lost, rare>>

(* GenerateCodesForUser reads the total, then the unused codes, ...        *)
CountTotal(w) ==
    /\ req[w].pc = "count"
    /\ req' = [req EXCEPT ![w] = [@ EXCEPT !.pc = "unused", !.total = CountByUser(req[w].user)]]
    /\ UNCHANGED <<user, used, code, rewards, generated, streak, lost, rare>>

CountUnused(w) ==
    /\ req[w].pc = "unused"
    /\ IF CountUnusedByUser(req[w].user) < MinUnused /\ req[w].total < MaxCodes
       THEN Goto(w, "generate") ELSE Answer(w)
    /\ UNCHANGED <<user, used, code, rewards, generated, streak, lost, rare>>

(* ... and inserts one; outside a transaction a collision is tried again.  *)
CreateOneCode(w) ==
    /\ req[w].pc = "generate"
    /\ generated' = [generated EXCEPT ![req[w].user] = @ + 1]
    /\ Answer(w)
    /\ UNCHANGED <<user, used, code, rewards, streak, lost, rare>>

(* A failure after the password was checked costs no more than the code.   *)
LoginFails(w) ==
    /\ req[w].pc \in {"streak", "count", "unused", "generate"} /\ Rare
    /\ Answer(w)
    /\ UNCHANGED <<user, used, code, rewards, generated, streak, lost>>

(* DELETE /auth/account, the password confirmed: the row is marked, ...    *)
SoftDeleteUser(w) ==
    /\ req[w] = NoRequest /\ Rare
    /\ \E u \in Users \ {Inviter} :
         /\ user[u].state = "active"
         /\ user' = [user EXCEPT ![u].state = "deleted"]
         /\ req' = [req EXCEPT ![w] = [NoRequest EXCEPT !.pc = "clear", !.user = u]]
    /\ UNCHANGED <<used, code, rewards, generated, streak, lost>>

(* ... then the codes forget it, best effort.                              *)
ClearUsedByForUser(w) ==
    /\ req[w].pc = "clear"
    /\ \/ /\ code' = [c \in Codes |-> IF code[c].by = req[w].user
                                      THEN [code[c] EXCEPT !.by = Nobody] ELSE code[c]]
          /\ UNCHANGED rare
       \/ Rare /\ UNCHANGED code
    /\ Answer(w)
    /\ UNCHANGED <<user, used, rewards, generated, streak, lost>>

(* Midnight in Shanghai.                                                   *)
NextDay ==
    /\ Rare
    /\ streak' = [u \in Users |-> [streak[u] EXCEPT !.last =
                     IF @ = "today" THEN "yesterday" ELSE "older"]]
    /\ UNCHANGED <<user, used, code, rewards, generated, req, lost>>

Next ==
    \/ \E w \in Workers :
         \/ Register(w) \/ CheckEmail(w) \/ CreateUser(w) \/ MarkDisclaimerAccepted(w)
         \/ IncrementInviteCodeUsage(w) \/ ConsumeCode(w) \/ Commit(w) \/ RegistrationFails(w)
         \/ Login(w) \/ UpdateLoginStreak(w) \/ CountTotal(w) \/ CountUnused(w)
         \/ CreateOneCode(w) \/ LoginFails(w) \/ SoftDeleteUser(w) \/ ClearUsedByForUser(w)
    \/ NextDay

Spec == Init /\ [][Next]_vars

-----------------------------------------------------------------------------
TypeOK ==
    /\ user \in [Users -> [state : {"none", "pending", "active", "deleted"},
                           email : Emails \cup {Nobody}, consent : BOOLEAN,
                           via : Codes \cup {Global, Nobody}]]
    /\ used \in Nat
    /\ code \in [Codes -> [state : {"free", "taken", "used"}, by : Users \cup {Nobody}]]
    /\ rewards \in [Codes -> SUBSET Users]
    /\ generated \in [Users -> Nat]
    /\ streak \in [Users -> [count : 0 .. Milestone, last : {"today", "yesterday", "older"}]]
    /\ req \in [Workers ->
         [pc : {"idle", "email", "create", "consent", "increment", "consume", "commit",
                "streak", "count", "unused", "generate", "clear"},
          email : Emails \cup {Nobody}, code : Codes \cup {Global, Nobody},
          user : Users \cup {Nobody}, total : Nat]]
    /\ lost \in Nat /\ rare \in Nat

Committed(u) == user[u].state \in {"active", "deleted"}

(* "Any failure rolls all of it back, no orphan users"                     *)
(* (invite-system-trd.md:101): a personal code is used exactly when one    *)
(* account came of it, and then inviter and invitee have their reward, the *)
(* consent is recorded and the first codes are there.                      *)
PersonalAtomic ==
    \A c \in Codes :
        LET made == {u \in Users : Committed(u) /\ user[u].via = c} IN
        IF code[c].state = "used"
        THEN \E u \in made : /\ made = {u}
                             /\ user[u].consent
                             /\ rewards[c] = {Inviter, u}
                             /\ generated[u] >= InitialCodes
        ELSE made = {} /\ rewards[c] = {}

(* However registrations with either kind of code race, and whatever       *)
(* account is deleted meanwhile, an address has one account.               *)
OneAccountPerEmail ==
    \A e \in Emails : Cardinality(GetUserByEmail(e)) <= 1

ViaGlobal == {u \in Users : user[u].via = Global}

(* The uses of the global code are read before the registration and        *)
(* counted after it: it makes at most one account too many for each of the *)
(* other registrations at the same time, and one for each that failed      *)
(* before it was counted.                                                  *)
GlobalBound == Cardinality(ViaGlobal) <= MaxUses + Cardinality(Workers) - 1 + lost

(* Counting and inserting are two statements: a user may have at most one  *)
(* code too many for each of the other logins at the same time.            *)
CodesBound == \A u \in Users : CountByUser(u) <= MaxCodes + Cardinality(Workers) - 1

(* Both limits, which are read in one statement and used in another.       *)
CodeLimits == GlobalBound /\ CodesBound
=============================================================================
