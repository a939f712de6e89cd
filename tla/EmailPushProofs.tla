---------------------------- MODULE EmailPushProofs ----------------------------
(***************************************************************************)
(* That the daily maximum of mails is exceeded by no more than the number  *)
(* of goroutines that count at once, and that an event is marked only when *)
(* its alert was tried for every user who had the push on all the while    *)
(* and was not behind the break of a page, and for none of them twice      *)
(* unless something failed or two polls met: for any users, goroutines,    *)
(* page sizes, maxima, faults and crashes.                                 *)
(***************************************************************************)
EXTENDS EmailPush, FiniteSetTheorems, WellFoundedInduction, TLAPS

Records ==
    [kind : Kinds \cup {"none"},
     items : SUBSET (Assets \cup Events \cup Locales \cup Users),
     cur : Assets \cup Events \cup Locales \cup Users \cup {None},
     done : SUBSET Events,
     pc : {"idle", "pick", "list", "count", "log", "send", "batch", "done", "mark", "hung"},
     after : Nat, page : SUBSET Users, last : BOOLEAN, user : Users \cup {0}]

(* The types of all but the goroutines.                                    *)
Rest ==
    /\ slot \in 1 .. 4
    /\ fired \subseteq Kinds /\ entries \subseteq Kinds
    /\ enabled \subseteq Users
    /\ change \in [Assets -> {0, 5, 10}]
    /\ events \in [Events -> {"none", "unalerted", "alerted"}]
    /\ rows \in [Users -> Nat] /\ v1rows \in [Users -> Nat]
    /\ tracker \subseteq Assets /\ queue \subseteq Users
    /\ offered \in [Events -> SUBSET Users]
    /\ steady \in [Events -> SUBSET Users] /\ missed \in [Events -> SUBSET Users]
    /\ again \subseteq Events /\ redo \subseteq Events
    /\ trouble \in Nat

LEMMA TypesAre == TypeOK <=> Rest /\ job \in [Jobs -> Records]
BY DEF TypeOK, Rest, Records

(* Whom the alert of an event is owed: the users enabled all the while,    *)
(* but for those a page that broke off has left out.                       *)
Owed(e) == steady[e] \ missed[e]

(* The place of the poll in the users of the event it is sending: those    *)
(* the cursor has passed have been tried or are on the page at hand.       *)
Place(r) ==
    /\ r.cur \in Events /\ events[r.cur] # "none"
    /\ r.pc = "list" => \A u \in Owed(r.cur) : u <= r.after => u \in offered[r.cur]
    /\ r.pc \in {"count", "log", "send"} =>
         \A u \in Owed(r.cur) : u <= r.after \/ r.last => u \in offered[r.cur] \cup r.page
    /\ r.pc \in {"log", "send"} => r.user \in offered[r.cur]
    /\ r.pc = "done" => Owed(r.cur) \subseteq offered[r.cur]

Placed(r) ==
    /\ r.pc = "count" => r.page # {}
    /\ r.pc \in {"log", "send"} => r.user \in Users
    /\ r.pc = "mark" => r.kind = "poll"
    /\ r.kind = "holding" => r.items \subseteq Users
    /\ r.kind \in {"score", "close"} =>
         /\ r.items \subseteq Assets
         /\ r.pc \in {"list", "count", "log", "send", "done"} => r.cur \in Assets
    /\ r.kind = "poll" =>
         /\ r.items \subseteq {e \in Events : events[e] # "none"}
         /\ \A e \in r.done : events[e] # "none" /\ Owed(e) \subseteq offered[e]
         /\ r.pc \in {"list", "count", "log", "send", "done"} => Place(r)

Marked ==
    \A e \in Events :
        /\ steady[e] \subseteq enabled
        /\ events[e] = "alerted" => Owed(e) \subseteq offered[e]

(* The goroutines that have counted the rows of a user and not yet written *)
(* theirs.                                                                 *)
Counting(u) == {j \in Jobs : job[j].pc = "log" /\ job[j].user = u}
Capped == \A u \in Users :
    rows[u] + Cardinality(Counting(u)) <= MaxPushes + Cardinality(Jobs) - 1

IInv ==
    /\ Rest
    /\ job \in [Jobs -> Records]
    /\ \A j \in Jobs : Placed(job[j])
    /\ Marked
    /\ Capped

-----------------------------------------------------------------------------
(* Pages.                                                                  *)

(* A finite set of numbers has a greatest: of the sets of those from a     *)
(* member on, a smallest one.                                              *)
LEMMA GreatestIs ==
    ASSUME NEW S \in SUBSET Nat, IsFiniteSet(S), S # {}
    PROVE  Greatest(S) \in S /\ \A y \in S : Greatest(S) >= y
<1> DEFINE From(x) == {y \in S : y >= x}
           Family == {From(x) : x \in S}
<1>1. IsWellFoundedOn(StrictSubsetOrdering(S), SUBSET S)
  BY FS_StrictSubsetOrderingWellFounded, FS_FiniteSubsetsOfFinite
<1>2. Family \subseteq SUBSET S /\ Family # {}
  OBVIOUS
<1>3. PICK F \in Family : \A G \in Family : <<G, F>> \notin StrictSubsetOrdering(S)
  <2> HIDE DEF Family
  <2> QED BY <1>1, <1>2, WFMin
<1>4. PICK x \in S : F = From(x)
  OBVIOUS
<1>5. \A y \in S : x >= y
  <2> SUFFICES ASSUME NEW y \in S, ~ x >= y PROVE FALSE
    OBVIOUS
  <2>0. x \in Nat /\ y \in Nat /\ x < y
    OBVIOUS
  <2>1. From(y) \subseteq From(x) /\ x \in From(x) /\ x \notin From(y)
    <3>1. ASSUME NEW z \in From(y) PROVE z \in S /\ z \in Nat /\ z >= x
      BY <2>0
    <3>2. x \in From(x)
      BY <2>0
    <3>3. x \notin From(y)
      BY <2>0
    <3> QED BY <3>1, <3>2, <3>3
  <2>2. From(y) \in Family
    OBVIOUS
  <2>3. <<From(y), From(x)>> \in StrictSubsetOrdering(S)
    <3> HIDE DEF From
    <3>1. From(y) \in SUBSET S /\ From(x) \in SUBSET S
      BY DEF From
    <3> QED BY <2>1, <3>1 DEF StrictSubsetOrdering
  <2> QED BY <1>3, <1>4, <2>2, <2>3
<1> QED BY <1>5 DEF Greatest

Below == {p \in Nat \X Nat : p[1] < p[2]}

LEMMA BelowWellFounded == IsWellFoundedOn(Below, Nat)
BY NatLessThanWellFounded DEF OpToRel, Below

LEMMA LeastIs ==
    ASSUME NEW S \in SUBSET Nat, S # {}
    PROVE  Least(S) \in S /\ \A y \in S : Least(S) <= y
<1>1. PICK x \in S : \A y \in S : <<y, x>> \notin Below
  BY BelowWellFounded, WFMin
<1>2. ASSUME NEW y \in S PROVE x <= y
  <2>1. <<y, x>> \in Nat \X Nat /\ <<y, x>>[1] = y /\ <<y, x>>[2] = x
    OBVIOUS
  <2> QED BY <1>1, <2>1 DEF Below
<1> QED BY <1>1, <1>2 DEF Least

(* A page holds whatever of the set is before one of its members, and is   *)
(* all of the set when it is not full.                                     *)
LEMMA PageIs ==
    ASSUME NEW S \in SUBSET Nat, IsFiniteSet(S)
    PROVE  /\ FirstPage(S) \subseteq S /\ IsFiniteSet(FirstPage(S))
           /\ \A v \in S, w \in FirstPage(S) : v <= w => v \in FirstPage(S)
           /\ Cardinality(FirstPage(S)) < PageSize => FirstPage(S) = S
<1> DEFINE Before(u) == {v \in S : v < u}
<1>1. PICK page : page = {u \in S : Cardinality(Before(u)) < PageSize}
  OBVIOUS
<1>2. FirstPage(S) = page
  BY <1>1 DEF FirstPage
<1>3. page \subseteq S /\ IsFiniteSet(page)
  <2>1. page \subseteq S
    BY <1>1
  <2> QED BY <2>1, FS_Subset
<1>4. ASSUME NEW u \in S
      PROVE  IsFiniteSet(Before(u)) /\ Cardinality(Before(u)) \in Nat
  <2>1. Before(u) \subseteq S
    OBVIOUS
  <2> HIDE DEF Before
  <2> QED BY <2>1, FS_Subset, FS_CardinalityType
<1>5. PageSize \in Nat
  BY PushAssumption
<1>6. ASSUME NEW v \in S, NEW w \in page, v <= w PROVE v \in page
  <2>1. v \in Nat /\ w \in Nat /\ w \in S
    BY <1>3
  <2>2. ASSUME NEW y \in Before(v) PROVE y \in Before(w)
    <3>1. y \in S /\ y \in Nat /\ y < v
      BY <2>2
    <3> QED BY <1>6, <2>1, <3>1
  <2>3. Cardinality(Before(v)) <= Cardinality(Before(w))
    <3> HIDE DEF Before
    <3> QED BY <1>4, <2>1, <2>2, FS_Subset
  <2>4. Cardinality(Before(w)) < PageSize
    BY <1>1
  <2>5. Cardinality(Before(v)) < PageSize
    <3> HIDE DEF Before
    <3> QED BY <1>4, <1>5, <2>1, <2>3, <2>4
  <2> QED BY <1>1, <2>5
<1>7. ASSUME Cardinality(page) < PageSize PROVE page = S
  <2> SUFFICES ASSUME S \ page # {} PROVE FALSE
    BY <1>3
  <2>1. PICK u \in S \ page : \A y \in S \ page : u <= y
    BY LeastIs
  <2>2. ASSUME NEW y \in Before(u) PROVE y \in page
    <3>1. y \in S /\ y \in Nat /\ y < u /\ u \in Nat
      BY <2>2
    <3> QED BY <2>1, <3>1
  <2>3. Cardinality(Before(u)) <= Cardinality(page) /\ Cardinality(page) \in Nat
    <3> HIDE DEF Before
    <3> QED BY <1>3, <2>2, FS_Subset, FS_CardinalityType
  <2>4. ~ Cardinality(Before(u)) < PageSize
    BY <1>1
  <2> HIDE DEF Before
  <2> QED BY <1>4, <1>5, <1>7, <2>3, <2>4
<1> QED BY <1>2, <1>3, <1>6, <1>7

-----------------------------------------------------------------------------
(* What the steps have in common.                                          *)

LEMMA InvInit == Init => IInv
<1> SUFFICES ASSUME Init PROVE IInv
  OBVIOUS
<1>1. Rest
  BY PushAssumption DEF Init, Rest, Kinds
<1>2. Idle \in Records /\ Placed(Idle)
  BY DEF Idle, Records, Placed
<1>3. job \in [Jobs -> Records] /\ \A j \in Jobs : Placed(job[j]) /\ job[j].pc = "idle"
  BY <1>2 DEF Init, Idle
<1>4. Marked
  BY DEF Init, Marked
<1>5. Capped
  <2> SUFFICES ASSUME NEW u \in Users
               PROVE  rows[u] + Cardinality(Counting(u)) <= MaxPushes + Cardinality(Jobs) - 1
    BY DEF Capped
  <2>1. Counting(u) = {}
    BY <1>3 DEF Counting
  <2>2. Cardinality(Counting(u)) = 0
    BY <2>1, FS_EmptySet
  <2>3. rows[u] = 0
    BY DEF Init
  <2> QED BY <2>2, <2>3, PushAssumption, FS_CardinalityType, FS_EmptySet
<1> QED BY <1>1, <1>3, <1>4, <1>5 DEF IInv

(* What was tried stays tried, an event stays detected, and nobody becomes *)
(* steady for an event detected before.                                    *)
Grows ==
    /\ \A e \in Events : offered[e] \subseteq offered'[e]
    /\ \A e \in Events :
         events[e] # "none" => events'[e] # "none" /\ Owed(e)' \subseteq Owed(e)

LEMMA PlacedKept ==
    ASSUME Grows, NEW r \in Records, Placed(r)
    PROVE  Placed(r)'
<1>1. /\ r.pc = "count" => r.page # {}
      /\ r.pc \in {"log", "send"} => r.user \in Users
      /\ r.pc = "mark" => r.kind = "poll"
      /\ r.kind = "holding" => r.items \subseteq Users
      /\ r.kind \in {"score", "close"} =>
           /\ r.items \subseteq Assets
           /\ r.pc \in {"list", "count", "log", "send", "done"} => r.cur \in Assets
  BY DEF Placed
<1>2. ASSUME r.kind = "poll"
      PROVE  /\ r.items \subseteq {e \in Events : events'[e] # "none"}
             /\ \A e \in r.done : events'[e] # "none" /\ Owed(e)' \subseteq offered'[e]
  BY <1>2 DEF Placed, Grows, Records
<1>3. ASSUME r.kind = "poll", r.pc \in {"list", "count", "log", "send", "done"}
      PROVE  Place(r)'
  <2>1. Place(r)
    BY <1>3 DEF Placed
  <2>2. /\ r.cur \in Events /\ events'[r.cur] # "none"
        /\ Owed(r.cur)' \subseteq Owed(r.cur) /\ offered[r.cur] \subseteq offered'[r.cur]
    BY <2>1 DEF Place, Grows
  <2> QED BY <2>1, <2>2 DEF Place
<1> QED BY <1>1, <1>2, <1>3 DEF Placed

LEMMA CountingFinite ==
    \A u : IsFiniteSet(Counting(u)) /\ Cardinality(Counting(u)) \in Nat
           /\ Cardinality(Counting(u)) <= Cardinality(Jobs)
<1> TAKE u
<1>1. Counting(u) \subseteq Jobs
  BY DEF Counting
<1> QED BY <1>1, PushAssumption, FS_Subset, FS_CardinalityType

(* Fewer count, or as many, and no row is added.                           *)
LEMMA CapKept ==
    ASSUME IInv, Rest', \A u \in Users : rows'[u] <= rows[u],
           \A u \in Users : Counting(u)' \subseteq Counting(u)
    PROVE  Capped'
<1> SUFFICES ASSUME NEW u \in Users
             PROVE  rows'[u] + Cardinality(Counting(u)') <= MaxPushes + Cardinality(Jobs) - 1
  BY DEF Capped
<1>1. Cardinality(Counting(u)') <= Cardinality(Counting(u)) /\ Cardinality(Counting(u)') \in Nat
  BY CountingFinite, FS_Subset, FS_CardinalityType
<1>2. rows[u] \in Nat /\ rows'[u] \in Nat /\ rows'[u] <= rows[u]
  BY DEF IInv, Rest
<1>3. rows[u] + Cardinality(Counting(u)) <= MaxPushes + Cardinality(Jobs) - 1
  BY DEF IInv, Capped
<1>4. Cardinality(Jobs) \in Nat /\ MaxPushes \in Nat /\ Cardinality(Counting(u)) \in Nat
  BY PushAssumption, FS_CardinalityType, CountingFinite
<1> QED BY <1>1, <1>2, <1>3, <1>4

(* A goroutine moves; users and events stay as they are.                   *)
Settled == UNCHANGED <<enabled, events, steady>>

LEMMA MovedKeeps ==
    ASSUME IInv, Rest', Grows, Settled, NEW j \in Jobs, NEW r \in Records,
           job' = [job EXCEPT ![j] = r], Placed(r)'
    PROVE  /\ job' \in [Jobs -> Records]
           /\ \A i \in Jobs : Placed(job[i])'
           /\ Marked'
           /\ r.pc # "log" => \A u \in Users : Counting(u)' \subseteq Counting(u)
<1>1. job \in [Jobs -> Records]
  BY DEF IInv
<1>2. job' \in [Jobs -> Records]
  BY <1>1
<1>3. \A i \in Jobs : job'[i] = IF i = j THEN r ELSE job[i]
  BY <1>1
<1>4. ASSUME NEW i \in Jobs PROVE Placed(job[i])'
  <2>1. CASE i = j
    BY <2>1, <1>3
  <2>2. CASE i # j
    <3>1. PICK s \in Records : s = job[i]
      BY <1>1
    <3>2. Placed(s)
      BY <3>1 DEF IInv
    <3>3. Placed(s)'
      BY <3>2, PlacedKept
    <3> QED BY <2>2, <1>3, <3>1, <3>3
  <2> QED BY <2>1, <2>2
<1>5. Marked'
  BY DEF IInv, Marked, Settled, Grows
<1>6. ASSUME r.pc # "log", NEW u \in Users PROVE Counting(u)' \subseteq Counting(u)
  BY <1>3, <1>6 DEF Counting
<1> QED BY <1>2, <1>4, <1>5, <1>6

(* The usual case: it does not begin to count.                             *)
LEMMA MovedInv ==
    ASSUME IInv, Rest', Grows, Settled, UNCHANGED rows, NEW j \in Jobs, NEW r \in Records,
           job' = [job EXCEPT ![j] = r], Placed(r)', r.pc # "log"
    PROVE  IInv'
<1>1. \A u \in Users : rows'[u] <= rows[u]
  BY DEF IInv, Rest
<1>2. Capped'
  BY <1>1, MovedKeeps, CapKept
<1> QED BY <1>2, MovedKeeps DEF IInv

-----------------------------------------------------------------------------
(* What becomes of the record of a goroutine.                              *)

(* The item is done with, or dropped.                                      *)
LEMMA FinishIs ==
    ASSUME NEW r \in Records, Placed(r)', NEW done \in SUBSET Events,
           r.kind = "poll" => \A e \in done : events'[e] # "none" /\ Owed(e)' \subseteq offered'[e]
    PROVE  LET new == [Finish(r) EXCEPT !.done = done]
           IN  new \in Records /\ new.pc = "pick" /\ Placed(new)'
<1>1. PICK new : new = [Finish(r) EXCEPT !.done = done]
  OBVIOUS
<1>2. /\ new.kind = r.kind /\ new.items = r.items /\ new.cur = None /\ new.done = done
      /\ new.pc = "pick" /\ new.after = 0 /\ new.page = {} /\ new.last = FALSE
      /\ new.user = r.user
      /\ new = [kind |-> r.kind, items |-> r.items, cur |-> None, done |-> done, pc |-> "pick",
                after |-> 0, page |-> {}, last |-> FALSE, user |-> r.user]
  BY <1>1 DEF Finish, Records
<1>3. new \in Records
  BY <1>2 DEF Records
<1>4. Placed(new)'
  BY <1>2 DEF Placed
<1> QED BY <1>1, <1>2, <1>3, <1>4

LEMMA DroppedIs ==
    ASSUME NEW r \in Records, Placed(r)'
    PROVE  Finish(r) \in Records /\ Finish(r).pc = "pick" /\ Placed(Finish(r))'
<1>1. [Finish(r) EXCEPT !.done = r.done] = Finish(r)
  BY DEF Finish, Records
<1>2. r.done \in SUBSET Events
  BY DEF Records
<1>3. r.kind = "poll" => \A e \in r.done : events'[e] # "none" /\ Owed(e)' \subseteq offered'[e]
  BY DEF Placed
<1> QED BY <1>1, <1>2, <1>3, FinishIs

(* A user of the page is done with; when the poll is at it, it was tried.  *)
LEMMA AfterUserIs ==
    ASSUME NEW r \in Records, Placed(r)', NEW u, r.pc \in {"count", "log", "send"},
           r.kind = "poll" => u \in offered'[r.cur]
    PROVE  AfterUser(r, u) \in Records /\ AfterUser(r, u).pc # "log" /\ Placed(AfterUser(r, u))'
<1>1. PICK new : new = AfterUser(r, u)
  OBVIOUS
<1>2. PICK pc : pc = IF r.page \ {u} # {} THEN "count" ELSE IF r.last THEN "done" ELSE "list"
  OBVIOUS
<1>3. /\ new.kind = r.kind /\ new.items = r.items /\ new.cur = r.cur /\ new.done = r.done
      /\ new.pc = pc /\ new.after = r.after /\ new.page = r.page \ {u} /\ new.last = r.last
      /\ new.user = 0
      /\ new = [kind |-> r.kind, items |-> r.items, cur |-> r.cur, done |-> r.done, pc |-> pc,
                after |-> r.after, page |-> r.page \ {u}, last |-> r.last, user |-> 0]
  BY <1>1, <1>2 DEF AfterUser, Records
<1>4. new \in Records
  BY <1>2, <1>3 DEF Records
<1>5. ASSUME r.kind = "poll" PROVE Place(new)'
  <2>1. Place(r)' /\ r.cur \in Events
    BY <1>5 DEF Placed, Place
  <2>2. \A v \in Owed(r.cur)' : v <= r.after \/ r.last => v \in offered'[r.cur] \cup (r.page \ {u})
    BY <2>1, <1>5 DEF Place
  <2>3. new.pc = "list" => new.page = {}
    BY <1>2, <1>3
  <2>4. new.pc = "done" => new.page = {} /\ new.last
    BY <1>2, <1>3
  <2>5. new.pc \notin {"log", "send"}
    BY <1>2, <1>3
  <2>6. new.pc = "list" => \A v \in Owed(new.cur)' : v <= new.after => v \in offered'[new.cur]
    BY <2>2, <2>3, <1>3
  <2>7. new.pc = "done" => Owed(new.cur)' \subseteq offered'[new.cur]
    BY <2>2, <2>4, <1>3
  <2> QED BY <2>1, <2>2, <2>5, <2>6, <2>7, <1>3 DEF Place
<1>6. new.pc \in {"count", "done", "list"} /\ (new.pc = "count" => new.page # {})
  BY <1>2, <1>3
<1>7. Placed(new)'
  BY <1>3, <1>5, <1>6 DEF Placed
<1> QED BY <1>1, <1>4, <1>6, <1>7

-----------------------------------------------------------------------------
(* The cron entries fire.                                                  *)

Same == UNCHANGED <<enabled, events, steady, missed, offered>>

LEMMA SameGrows == ASSUME Same PROVE Grows /\ Settled
BY DEF Same, Grows, Settled, Owed

LEMMA DisturbedCounts == ASSUME Rest, Disturbed PROVE trouble' \in Nat
BY DEF Rest, Disturbed

LEMMA ListedCounts == ASSUME Rest, NEW S, NEW list, Listed(S, list) PROVE trouble' \in Nat
BY DisturbedCounts DEF Rest, Listed

LEMMA StartKeeps ==
    ASSUME IInv, NEW j \in Jobs, NEW k \in Kinds,
           NEW items \in SUBSET (Assets \cup Events \cup Locales \cup Users),
           NEW pc \in {"pick", "list"}, pc = "list" => k = "briefing",
           Start(j, k, items, pc), redo' \subseteq Events, trouble' \in Nat,
           k \in {"score", "close"} => items \subseteq Assets,
           k = "poll" => items \subseteq GetUnalerted, k # "holding"
    PROVE  IInv'
<1>1. PICK new : new = [Idle EXCEPT !.kind = k, !.items = items, !.pc = pc]
  OBVIOUS
<1>2. /\ new.kind = k /\ new.items = items /\ new.cur = None /\ new.done = {} /\ new.pc = pc
      /\ new = [kind |-> k, items |-> items, cur |-> None, done |-> {}, pc |-> pc,
                after |-> 0, page |-> {}, last |-> FALSE, user |-> 0]
  BY <1>1 DEF Idle
<1>3. new \in Records
  BY <1>2 DEF Records
<1>4. Same /\ UNCHANGED rows /\ job' = [job EXCEPT ![j] = new]
  BY <1>1 DEF Start, table, Same
<1>5. Rest'
  <2>1. fired' \subseteq Kinds
    BY DEF Start, IInv, Rest
  <2> QED BY <2>1 DEF Start, IInv, Rest, table
<1>6. Placed(new)'
  <2>1. k = "poll" => items \subseteq {e \in Events : events'[e] # "none"}
    BY <1>4 DEF GetUnalerted, Same
  <2> QED BY <2>1, <1>2 DEF Placed
<1> QED BY <1>2, <1>3, <1>4, <1>5, <1>6, SameGrows, MovedInv

LEMMA FireKeeps == ASSUME IInv, Fire PROVE IInv'
<1> USE DEF Kinds
<1>0. /\ redo \subseteq Events /\ AShares \subseteq Assets /\ Holders \subseteq Users
      /\ trouble \in Nat
  BY PushAssumption DEF IInv, Rest
<1>1. ASSUME NEW j \in Jobs, StartScoreAlert(j) PROVE IInv'
  <2>1. PICK list \in SUBSET Assets :
          Start(j, "score", list, "pick") /\ Listed(GetLatestByAssetCodes(Assets, 10), list)
    BY <1>1 DEF StartScoreAlert
  <2>2. redo' = redo
    BY <1>1 DEF StartScoreAlert
  <2> QED BY <1>0, <2>1, <2>2, ListedCounts, StartKeeps DEF IInv
<1>2. ASSUME NEW j \in Jobs, StartClosingAlert(j) PROVE IInv'
  <2>1. PICK list \in SUBSET Assets :
          Start(j, "close", list, "pick") /\ Listed(GetLatestByAssetCodes(AShares, 5), list)
    BY <1>2 DEF StartClosingAlert
  <2>2. redo' = redo
    BY <1>2 DEF StartClosingAlert
  <2> QED BY <1>0, <2>1, <2>2, ListedCounts, StartKeeps DEF IInv
<1>3. ASSUME NEW j \in Jobs, StartEventPolling(j) PROVE IInv'
  <2>1. PICK list \in SUBSET Events :
          /\ Start(j, "poll", list, "pick") /\ Listed(GetUnalerted, list)
          /\ redo' = redo \cup {e \in list : \E i \in Jobs : Holds(i, e)}
    BY <1>3 DEF StartEventPolling
  <2>2. redo' \subseteq Events /\ list \subseteq GetUnalerted
    BY <1>0, <2>1 DEF Listed
  <2> QED BY <2>1, <2>2, ListedCounts, StartKeeps DEF IInv
<1>4. ASSUME NEW j \in Jobs, StartBriefing(j) PROVE IInv'
  BY <1>0, <1>4, StartKeeps DEF StartBriefing
<1>5. ASSUME NEW j \in Jobs, StartWeeklyInsight(j) PROVE IInv'
  <2>1. PICK ls \in SUBSET Locales : Start(j, "weekly", ls, "pick") /\ UNCHANGED <<redo, trouble>>
    BY <1>5 DEF StartWeeklyInsight
  <2> QED BY <2>1, <1>0, StartKeeps
<1>6. ASSUME NEW j \in Jobs, AdmitUser(j) PROVE IInv'
  <2>1. PICK u : u = Least(queue)
    OBVIOUS
  <2>2. u \in Users
    <3>1. queue \in SUBSET Nat /\ queue # {} /\ queue \subseteq Users
      BY <1>6, PushAssumption DEF AdmitUser, IInv, Rest
    <3> QED BY <2>1, <3>1, LeastIs
  <2>3. PICK new : new = [Idle EXCEPT !.kind = "holding", !.items = {u}, !.pc = "pick"]
    OBVIOUS
  <2>4. /\ new.kind = "holding" /\ new.items = {u} /\ new.pc = "pick"
        /\ new = [kind |-> "holding", items |-> {u}, cur |-> None, done |-> {}, pc |-> "pick",
                  after |-> 0, page |-> {}, last |-> FALSE, user |-> 0]
    BY <2>3 DEF Idle
  <2>5. new \in Records
    BY <2>2, <2>4 DEF Records
  <2>6. Placed(new)'
    BY <2>2, <2>4 DEF Placed
  <2>7. Same /\ UNCHANGED rows /\ job' = [job EXCEPT ![j] = new]
    BY <1>6, <2>1, <2>3 DEF AdmitUser, table, history, Same
  <2>8. Rest'
    BY <1>6 DEF AdmitUser, IInv, Rest, table, history
  <2> QED BY <2>4, <2>5, <2>6, <2>7, <2>8, SameGrows, MovedInv
<1>7. ASSUME UNCHANGED <<slot, entries, table, tracker, job, history>>,
             fired' \subseteq Kinds, queue' \subseteq Users, trouble' \in Nat
      PROVE  IInv'
  <2>1. Rest' /\ Same /\ UNCHANGED <<rows, job>>
    BY <1>7 DEF IInv, Rest, table, history, Same
  <2>2. \A j \in Jobs : Placed(job[j])'
    BY <2>1 DEF Placed, Place, IInv, Same, Owed
  <2>3. Marked' /\ Capped'
    BY <2>1 DEF IInv, Same, Marked, Capped, Counting, Owed
  <2> QED BY <2>1, <2>2, <2>3 DEF IInv
<1>8. ASSUME StartHoldingAnalysis PROVE IInv'
  <2>1. fired' \subseteq Kinds /\ queue' \subseteq Users
    BY <1>0, <1>8 DEF StartHoldingAnalysis, IInv, Rest, ListUsersWithHoldings
  <2>2. trouble' \in Nat
    BY <1>8, ListedCounts DEF StartHoldingAnalysis, IInv
  <2> QED BY <1>7, <1>8, <2>1, <2>2 DEF StartHoldingAnalysis
<1>9. ASSUME NEW k \in Kinds, SkipRound(k) PROVE IInv'
  <2>1. fired' \subseteq Kinds /\ queue' \subseteq Users
    BY <1>9 DEF SkipRound, IInv, Rest
  <2> QED BY <1>0, <1>7, <1>9, <2>1 DEF SkipRound
<1> QED BY <1>1, <1>2, <1>3, <1>4, <1>5, <1>6, <1>8, <1>9 DEF Fire

-----------------------------------------------------------------------------
(* A goroutine takes an item and lists its users.                          *)

LEMMA Here == ASSUME IInv, NEW j \in Jobs PROVE job[j] \in Records /\ Placed(job[j])
BY DEF IInv

LEMMA GotoIs ==
    ASSUME NEW j \in Jobs, NEW new, Goto(j, new)
    PROVE  /\ job' = [job EXCEPT ![j] = new]
           /\ UNCHANGED <<slot, fired, entries, enabled, change, events, v1rows, queue, steady, missed>>
BY DEF Goto

(* The types of what a goroutine touches beside itself.                    *)
LEMMA RestKept ==
    ASSUME IInv, UNCHANGED <<slot, fired, entries, enabled, change, events, v1rows, queue, steady, missed>>,
           rows' \in [Users -> Nat], tracker' \subseteq Assets, offered' \in [Events -> SUBSET Users],
           again' \subseteq Events, redo' \subseteq Events, trouble' \in Nat
    PROVE  Rest'
BY DEF IInv, Rest

LEMMA QuietKeeps ==
    ASSUME IInv, NEW j \in Jobs, NEW new \in Records, Goto(j, new), Placed(new)', new.pc # "log",
           UNCHANGED <<rows, offered, again>>, tracker' \subseteq Assets,
           redo' \subseteq Events, trouble' \in Nat
    PROVE  IInv'
<1>1. Rest'
  BY GotoIs, RestKept DEF IInv, Rest
<1>2. Grows /\ Settled
  BY GotoIs, SameGrows DEF Same
<1> QED BY <1>1, <1>2, GotoIs, MovedInv

LEMMA PickItemKeeps == ASSUME IInv, NEW j \in Jobs, PickItem(j) PROVE IInv'
<1>1. PICK r \in Records : r = job[j] /\ Placed(r)
  BY Here
<1>2. Same /\ UNCHANGED <<rows, tracker, offered, again, redo, trouble>>
  BY <1>1 DEF PickItem, Goto, Same
<1>3. Placed(r)'
  BY <1>1, <1>2, SameGrows, PlacedKept
<1>4. PICK i \in r.items : Goto(j, IF r.kind = "close" /\ i \in tracker
                                   THEN [r EXCEPT !.items = @ \ {i}]
                                   ELSE [r EXCEPT !.items = @ \ {i}, !.cur = i, !.pc = "list", !.after = 0])
  BY <1>1 DEF PickItem, Goto
<1>5. r.pc = "pick" /\ r.kind # "holding"
  BY <1>1 DEF PickItem
<1>6. PICK skip : skip = [r EXCEPT !.items = @ \ {i}]
  OBVIOUS
<1>7. skip \in Records /\ skip.pc = "pick" /\ Placed(skip)'
  <2>1. /\ skip.kind = r.kind /\ skip.items = r.items \ {i} /\ skip.done = r.done /\ skip.pc = "pick"
        /\ skip \in Records
    BY <1>5, <1>6 DEF Records
  <2> QED BY <2>1, <1>3 DEF Placed
<1>8. PICK take : take = [r EXCEPT !.items = @ \ {i}, !.cur = i, !.pc = "list", !.after = 0]
  OBVIOUS
<1>9. take \in Records /\ take.pc = "list" /\ Placed(take)'
  <2>1. /\ take.kind = r.kind /\ take.items = r.items \ {i} /\ take.done = r.done
        /\ take.pc = "list" /\ take.cur = i /\ take.after = 0
        /\ take \in Records
    BY <1>5, <1>8 DEF Records
  <2>2. ASSUME r.kind = "poll" PROVE Place(take)'
    <3>1. i \in Events /\ events'[i] # "none"
      BY <2>2, <1>3 DEF Placed
    <3>2. Owed(i)' \subseteq Nat \ {0}
      BY <3>1, <1>2, PushAssumption DEF IInv, Rest, Same, Owed
    <3>3. \A u \in Owed(i)' : ~ u <= 0
      BY <3>2
    <3> QED BY <2>1, <3>1, <3>3 DEF Place
  <2> QED BY <2>1, <2>2, <1>3, <1>5 DEF Placed
<1>10. Goto(j, IF r.kind = "close" /\ i \in tracker THEN skip ELSE take)
  BY <1>4, <1>6, <1>8
<1>11. tracker' \subseteq Assets /\ redo' \subseteq Events /\ trouble' \in Nat
  BY <1>2 DEF IInv, Rest
<1> QED BY <1>2, <1>7, <1>9, <1>10, <1>11, QuietKeeps

LEMMA AnalyzeHoldingKeeps == ASSUME IInv, NEW j \in Jobs, AnalyzeHolding(j) PROVE IInv'
<1>1. PICK r \in Records : r = job[j] /\ Placed(r)
  BY Here
<1>2. Same /\ UNCHANGED <<rows, tracker, offered, again, redo, trouble>>
  BY <1>1 DEF AnalyzeHolding, Goto, Same
<1>3. Placed(r)'
  BY <1>1, <1>2, SameGrows, PlacedKept
<1>4. r.pc = "pick" /\ r.kind = "holding"
  BY <1>1 DEF AnalyzeHolding
<1>5. PICK u \in r.items, advice \in BOOLEAN :
        Goto(j, [r EXCEPT !.items = @ \ {u},
                          !.cur = IF advice THEN u ELSE None,
                          !.page = IF advice THEN {u} ELSE {},
                          !.last = TRUE,
                          !.pc = IF advice THEN "count" ELSE "pick"])
  BY <1>1 DEF AnalyzeHolding
<1>6. PICK new : new = [r EXCEPT !.items = @ \ {u},
                          !.cur = IF advice THEN u ELSE None,
                          !.page = IF advice THEN {u} ELSE {},
                          !.last = TRUE,
                          !.pc = IF advice THEN "count" ELSE "pick"]
  OBVIOUS
<1>7. u \in Users
  BY <1>1, <1>4 DEF Placed
<1>8. /\ new.kind = "holding" /\ new.items = r.items \ {u} /\ new.done = r.done
      /\ new.pc = (IF advice THEN "count" ELSE "pick") /\ new.page = (IF advice THEN {u} ELSE {})
      /\ new = [kind |-> r.kind, items |-> r.items \ {u}, cur |-> IF advice THEN u ELSE None,
                done |-> r.done, pc |-> IF advice THEN "count" ELSE "pick", after |-> r.after,
                page |-> IF advice THEN {u} ELSE {}, last |-> TRUE, user |-> r.user]
  BY <1>4, <1>6 DEF Records
<1>9. new \in Records
  <2>1. CASE advice
    BY <1>7, <1>8, <2>1 DEF Records
  <2>2. CASE ~ advice
    BY <1>8, <2>2 DEF Records
  <2> QED BY <2>1, <2>2
<1>10. Placed(new)'
  BY <1>3, <1>4, <1>8 DEF Placed
<1>11. tracker' \subseteq Assets /\ redo' \subseteq Events /\ trouble' \in Nat
  BY <1>2 DEF IInv, Rest
<1> QED BY <1>2, <1>5, <1>6, <1>8, <1>9, <1>10, <1>11, QuietKeeps

(* The page that the database returns.                                     *)
LEMMA PushPage ==
    ASSUME IInv, NEW after \in Nat, NEW page, page = ListEmailPushEnabled(after)
    PROVE  /\ page \in SUBSET Users /\ page \in SUBSET Nat /\ IsFiniteSet(page)
           /\ \A u \in enabled : u > after => page # {}
           /\ page # {} => /\ Greatest(page) \in Nat
                           /\ \A u \in enabled : u > after /\ u <= Greatest(page) => u \in page
                           /\ Cardinality(page) < PageSize =>
                                \A u \in enabled : u > after => u \in page
<1>1. PICK S : S = {u \in enabled : u > after}
  OBVIOUS
<1>2. S \in SUBSET Users /\ S \in SUBSET Nat /\ IsFiniteSet(S)
  <2>1. S \in SUBSET Users
    BY <1>1 DEF IInv, Rest
  <2> QED BY <2>1, PushAssumption, FS_Subset
<1>3. page = FirstPage(S)
  BY <1>1 DEF ListEmailPushEnabled
<1>4. /\ page \subseteq S /\ IsFiniteSet(page)
      /\ \A v \in S, w \in page : v <= w => v \in page
      /\ Cardinality(page) < PageSize => page = S
  BY <1>2, <1>3, PageIs
<1>5. page = {} => S = {}
  BY <1>4, FS_EmptySet, PushAssumption
<1>6. page # {} => Greatest(page) \in page
  BY <1>2, <1>4, GreatestIs
<1> QED BY <1>1, <1>2, <1>4, <1>5, <1>6

(* The users of a page come after the cursor and up to the next.           *)
LEMMA PageAfter ==
    ASSUME IInv, NEW after \in Nat, NEW page, page = ListEmailPushEnabled(after), page # {}
    PROVE  Greatest(page) \in Nat /\ \A u \in page : u \in Nat /\ u > after /\ u <= Greatest(page)
<1>1. PICK S : S = {u \in enabled : u > after}
  OBVIOUS
<1>2. S \in SUBSET Nat /\ IsFiniteSet(S)
  <2>1. S \in SUBSET Users
    BY <1>1 DEF IInv, Rest
  <2> QED BY <2>1, PushAssumption, FS_Subset
<1>3. page \subseteq S /\ IsFiniteSet(page)
  BY <1>1, <1>2, PageIs DEF ListEmailPushEnabled
<1>4. Greatest(page) \in page /\ \A y \in page : Greatest(page) >= y
  BY <1>2, <1>3, GreatestIs
<1>5. ASSUME NEW u \in page PROVE u \in Nat /\ u > after /\ u <= Greatest(page)
  BY <1>1, <1>2, <1>3, <1>4
<1> QED BY <1>2, <1>3, <1>4, <1>5

(* The poll takes a page on which everybody is whom the alert is owed and  *)
(* who comes after its cursor and, if the page is full, not after it.      *)
LEMMA MailingKeeps ==
    ASSUME IInv, Rest', Grows, Settled, UNCHANGED rows,
           NEW j \in Jobs, NEW r \in Records, Placed(r)', r.pc = "list",
           NEW page \in SUBSET Users, page # {} => Greatest(page) \in Nat,
           job' = [job EXCEPT ![j] = Mailing(r, page)],
           r.kind = "poll" => \A u \in Owed(r.cur)' :
               page = {} \/ Cardinality(page) < PageSize \/ u <= Greatest(page)
                 => u <= r.after \/ u \in page
    PROVE  IInv'
<1>1. ASSUME r.kind = "poll"
      PROVE  /\ r.cur \in Events /\ events'[r.cur] # "none"
             /\ \A u \in Owed(r.cur)' : u <= r.after => u \in offered'[r.cur]
  BY <1>1 DEF Placed, Place
<1>2. CASE page = {}
  <2>1. PICK new : new = [r EXCEPT !.pc = "done"]
    OBVIOUS
  <2>2. /\ new.kind = r.kind /\ new.items = r.items /\ new.done = r.done /\ new.cur = r.cur
        /\ new.pc = "done" /\ new \in Records
    BY <2>1 DEF Records
  <2>3. ASSUME r.kind = "poll" PROVE Place(new)'
    <3>1. Owed(r.cur)' \subseteq offered'[r.cur]
      BY <1>1, <1>2, <2>3
    <3> QED BY <3>1, <2>2, <2>3, <1>1 DEF Place, Owed
  <2>4. Placed(new)'
    BY <2>2, <2>3 DEF Placed, Owed
  <2>5. job' = [job EXCEPT ![j] = new]
    BY <1>2, <2>1 DEF Mailing
  <2> QED BY <2>2, <2>4, <2>5, MovedInv
<1>3. CASE page # {}
  <2>1. PICK last : last = (Cardinality(page) < PageSize)
    OBVIOUS
  <2>2. PICK new : new = [r EXCEPT !.page = page, !.after = Greatest(page), !.last = last, !.pc = "count"]
    OBVIOUS
  <2>3. last \in BOOLEAN /\ Greatest(page) \in Nat
    BY <1>3, <2>1
  <2>4. /\ new.kind = r.kind /\ new.items = r.items /\ new.done = r.done /\ new.cur = r.cur
        /\ new.pc = "count" /\ new.page = page /\ new.after = Greatest(page) /\ new.last = last
        /\ new = [kind |-> r.kind, items |-> r.items, cur |-> r.cur, done |-> r.done,
                  pc |-> "count", after |-> Greatest(page), page |-> page, last |-> last,
                  user |-> r.user]
    BY <2>2 DEF Records
  <2>5. new \in Records
    BY <2>3, <2>4 DEF Records
  <2>6. ASSUME r.kind = "poll" PROVE Place(new)'
    <3>1. ASSUME NEW u \in Owed(r.cur)', u <= Greatest(page) \/ last
          PROVE  u \in offered'[r.cur] \cup page
      BY <1>1, <2>1, <2>6, <3>1
    <3> QED BY <3>1, <2>4, <2>6, <1>1 DEF Place, Owed
  <2>7. Placed(new)'
    BY <2>4, <2>6, <1>3 DEF Placed, Owed
  <2>8. job' = [job EXCEPT ![j] = new]
    BY <1>3, <2>1, <2>2 DEF Mailing
  <2> QED BY <2>4, <2>5, <2>7, <2>8, MovedInv
<1> QED BY <1>2, <1>3

(* A whole page leaves out nobody between the cursors.                     *)
LEMMA ListUsersKeeps == ASSUME IInv, NEW j \in Jobs, ListUsers(j) PROVE IInv'
<1>1. PICK r \in Records : r = job[j] /\ Placed(r)
  BY Here
<1>2. Same /\ UNCHANGED <<rows, tracker, offered, again, redo, trouble>>
  BY DEF ListUsers, Goto, Same
<1>3. Placed(r)' /\ Grows /\ Settled
  BY <1>1, <1>2, SameGrows, PlacedKept
<1>4. r.pc = "list" /\ r.after \in Nat
  BY <1>1 DEF ListUsers, Records
<1>5. PICK page : page = ListEmailPushEnabled(r.after)
  OBVIOUS
<1>6. Goto(j, Mailing(r, page))
  BY <1>1, <1>5 DEF ListUsers
<1>7. Rest'
  BY <1>2, <1>6, GotoIs, RestKept DEF IInv, Rest
<1>8. page \in SUBSET Users /\ (page # {} => Greatest(page) \in Nat)
  BY <1>4, <1>5, PushPage
<1>9. ASSUME r.kind = "poll", NEW u \in Owed(r.cur)',
             page = {} \/ Cardinality(page) < PageSize \/ u <= Greatest(page)
      PROVE  u <= r.after \/ u \in page
  <2>1. u \in enabled /\ u \in Nat
    BY <1>1, <1>2, <1>4, <1>9, PushAssumption DEF Placed, Place, IInv, Rest, Marked, Same, Owed
  <2>2. u > r.after => u \in page
    BY <1>4, <1>5, <1>9, <2>1, PushPage
  <2> QED BY <1>4, <2>1, <2>2
<1> QED BY <1>2, <1>3, <1>4, <1>6, <1>7, <1>8, <1>9, GotoIs, MailingKeeps

(* The recipients of the insight are collected: no event is concerned.     *)
LEMMA LocalePage ==
    ASSUME IInv, NEW l, NEW after \in Nat, NEW page, page = ListEmailPushEnabledByLocale(l, after)
    PROVE  page \in SUBSET Users /\ (page # {} => Greatest(page) \in Nat)
<1>1. PICK S : S = {u \in enabled : u > after /\ Locale[u] = l}
  OBVIOUS
<1>2. S \in SUBSET Users /\ S \in SUBSET Nat /\ IsFiniteSet(S)
  <2>1. S \in SUBSET Users
    BY <1>1 DEF IInv, Rest
  <2> QED BY <2>1, PushAssumption, FS_Subset
<1>3. page = FirstPage(S)
  BY <1>1 DEF ListEmailPushEnabledByLocale
<1>4. page \subseteq S /\ IsFiniteSet(page)
  BY <1>2, <1>3, PageIs
<1>5. page # {} => Greatest(page) \in page
  BY <1>2, <1>4, GreatestIs
<1> QED BY <1>2, <1>4, <1>5

LEMMA CollectingKeeps ==
    ASSUME IInv, Rest', Grows, Settled, UNCHANGED rows,
           NEW j \in Jobs, NEW r \in Records, Placed(r)', r.pc = "list", r.kind = "weekly",
           NEW page \in SUBSET Users, page # {} => Greatest(page) \in Nat,
           job' = [job EXCEPT ![j] = Collecting(r, page)]
    PROVE  IInv'
<1>1. PICK after, pc : /\ after = IF page = {} THEN r.after ELSE Greatest(page)
                       /\ pc = IF Cardinality(page) < PageSize THEN "batch" ELSE "list"
  OBVIOUS
<1>2. PICK new : new = [r EXCEPT !.page = @ \cup page, !.after = after, !.pc = pc]
  OBVIOUS
<1>3. after \in Nat /\ pc \in {"batch", "list"}
  BY <1>1 DEF Records
<1>4. /\ new.kind = r.kind /\ new.items = r.items /\ new.done = r.done /\ new.pc = pc
      /\ new = [kind |-> r.kind, items |-> r.items, cur |-> r.cur, done |-> r.done,
                pc |-> pc, after |-> after, page |-> r.page \cup page, last |-> r.last,
                user |-> r.user]
  BY <1>2 DEF Records
<1>5. new \in Records
  BY <1>3, <1>4 DEF Records
<1>6. Placed(new)'
  BY <1>3, <1>4 DEF Placed
<1>7. job' = [job EXCEPT ![j] = new]
  BY <1>1, <1>2 DEF Collecting
<1> QED BY <1>3, <1>4, <1>5, <1>6, <1>7, MovedInv

LEMMA CollectKeeps == ASSUME IInv, NEW j \in Jobs, CollectRecipients(j) PROVE IInv'
<1>1. PICK r \in Records : r = job[j] /\ Placed(r)
  BY Here
<1>2. Same /\ UNCHANGED <<rows, tracker, offered, again, redo, trouble>>
  BY DEF CollectRecipients, Goto, Same
<1>3. Placed(r)' /\ Grows /\ Settled
  BY <1>1, <1>2, SameGrows, PlacedKept
<1>4. r.pc = "list" /\ r.after \in Nat /\ r.kind = "weekly"
  BY <1>1 DEF CollectRecipients, Records
<1>5. PICK page : page = ListEmailPushEnabledByLocale(r.cur, r.after)
  OBVIOUS
<1>6. Goto(j, Collecting(r, page))
  BY <1>1, <1>5 DEF CollectRecipients
<1>7. Rest'
  BY <1>2, <1>6, GotoIs, RestKept DEF IInv, Rest
<1>8. page \in SUBSET Users /\ (page # {} => Greatest(page) \in Nat)
  BY <1>4, <1>5, LocalePage
<1> QED BY <1>2, <1>3, <1>4, <1>6, <1>7, <1>8, GotoIs, CollectingKeeps

(* The start of a page is a page of fewer users.                           *)
LEMMA BrokenPage ==
    ASSUME NEW page \in SUBSET Users, NEW u
    PROVE  LET part == {v \in page : v < u}
           IN  part \in SUBSET Users /\ (part # {} => Greatest(part) \in Nat)
<1> DEFINE part == {v \in page : v < u}
<1>1. part \in SUBSET Users
  OBVIOUS
<1>2. part \in SUBSET Nat /\ IsFiniteSet(part)
  <2> HIDE DEF part
  <2> QED BY <1>1, PushAssumption, FS_Subset
<1>3. part # {} => Greatest(part) \in part
  <2> HIDE DEF part
  <2> QED BY <1>2, GreatestIs
<1> HIDE DEF part
<1>4. part # {} => Greatest(part) \in Nat
  BY <1>2, <1>3
<1> QED BY <1>1, <1>4 DEF part

(* The alert is owed to nobody from the break on.                          *)
LEMMA PageBreaksOffKeeps == ASSUME IInv, NEW j \in Jobs, PageBreaksOff(j) PROVE IInv'
<1>1. PICK r \in Records : r = job[j] /\ Placed(r)
  BY Here
<1>2. /\ UNCHANGED <<slot, fired, entries, enabled, change, events, rows, v1rows>>
      /\ UNCHANGED <<tracker, queue, offered, steady, again, redo>>
      /\ r.pc = "list" /\ Disturbed /\ r.after \in Nat
  BY <1>1 DEF PageBreaksOff, table, Records
<1>3. r.kind = "poll" => r.cur \in Events
  BY <1>1, <1>2 DEF Placed, Place
<1>4. missed \in [Events -> SUBSET Users] /\ enabled \subseteq Users
  BY DEF IInv, Rest
<1>5. missed' \in [Events -> SUBSET Users] /\ \A e \in Events : missed[e] \subseteq missed'[e]
  BY <1>1, <1>3, <1>4 DEF PageBreaksOff
<1>6. Rest'
  BY <1>2, <1>5, DisturbedCounts DEF IInv, Rest
<1>7. Grows /\ Settled
  BY <1>2, <1>5 DEF Grows, Settled, Owed
<1>8. Placed(r)'
  BY <1>1, <1>7, PlacedKept
<1>9. CASE r.kind = "weekly"
  <2>1. PICK page : page = ListEmailPushEnabledByLocale(r.cur, r.after)
    OBVIOUS
  <2>2. PICK u \in page : job' = [job EXCEPT ![j] = Collecting(r, {v \in page : v < u})]
    BY <1>1, <1>9, <2>1 DEF PageBreaksOff
  <2>3. page \in SUBSET Users
    BY <1>2, <2>1, LocalePage
  <2>4. PICK part : part = {v \in page : v < u}
    OBVIOUS
  <2>5. part \in SUBSET Users /\ (part # {} => Greatest(part) \in Nat)
    BY <2>3, <2>4, BrokenPage
  <2> QED BY <1>2, <1>6, <1>7, <1>8, <1>9, <2>2, <2>4, <2>5, CollectingKeeps
<1>10. CASE r.kind # "weekly"
  <2>1. PICK page : page = ListEmailPushEnabled(r.after)
    OBVIOUS
  <2>2. PICK u \in page :
          /\ job' = [job EXCEPT ![j] = Mailing(r, {v \in page : v < u})]
          /\ r.kind = "poll" =>
               missed' = [missed EXCEPT ![r.cur] = @ \cup {v \in enabled : v >= u}]
    BY <1>1, <1>10, <2>1 DEF PageBreaksOff
  <2>3. /\ page \in SUBSET Users /\ Greatest(page) \in Nat /\ u <= Greatest(page)
        /\ \A v \in enabled : v > r.after /\ v <= Greatest(page) => v \in page
    BY <1>2, <2>1, <2>2, PushPage, PageAfter
  <2>4. PICK part : part = {v \in page : v < u}
    OBVIOUS
  <2>5. part \in SUBSET Users /\ (part # {} => Greatest(part) \in Nat)
    BY <2>3, <2>4, BrokenPage
  <2>6. ASSUME r.kind = "poll", NEW v \in Owed(r.cur)' PROVE v <= r.after \/ v \in part
    <3>1. v \in enabled /\ v \in Nat /\ u \in Nat
      BY <1>2, <1>3, <2>2, <2>3, <2>6, PushAssumption
      DEF IInv, Rest, Marked, Owed
    <3>2. ~ v >= u
      BY <1>3, <1>4, <2>2, <2>6, <3>1 DEF Owed
    <3> QED BY <1>2, <2>3, <2>4, <3>1, <3>2
  <2> QED BY <1>2, <1>6, <1>7, <1>8, <2>2, <2>4, <2>5, <2>6, MailingKeeps
<1> QED BY <1>9, <1>10

LEMMA ListFailsKeeps == ASSUME IInv, NEW j \in Jobs, ListFails(j) PROVE IInv'
<1>1. PICK r \in Records : r = job[j] /\ Placed(r)
  BY Here
<1>2. Same /\ UNCHANGED <<rows, tracker, offered, again>>
  BY DEF ListFails, Goto, Same
<1>3. Placed(r)'
  BY <1>1, <1>2, SameGrows, PlacedKept
<1>4. Goto(j, IF r.kind = "briefing" THEN Idle ELSE Finish(r)) /\ r.pc = "list" /\ Disturbed
  BY <1>1 DEF ListFails
<1>5. Idle \in Records /\ Idle.pc # "log" /\ Placed(Idle)'
  BY DEF Idle, Records, Placed
<1>6. Finish(r) \in Records /\ Finish(r).pc # "log" /\ Placed(Finish(r))'
  BY <1>3, DroppedIs
<1>7. redo' \subseteq Events
  <2>1. r.kind = "poll" => r.cur \in Events
    BY <1>1, <1>4 DEF Placed, Place
  <2> QED BY <1>1, <2>1 DEF ListFails, IInv, Rest
<1>8. tracker' \subseteq Assets /\ trouble' \in Nat
  BY <1>2, <1>4, DisturbedCounts DEF IInv, Rest
<1> QED BY <1>2, <1>4, <1>5, <1>6, <1>7, <1>8, QuietKeeps

-----------------------------------------------------------------------------
(* One user of the page: counted, logged, sent to.                         *)

LEMMA TriedIs ==
    ASSUME IInv, NEW r \in Records, Placed(r), r.pc = "count", NEW u \in Users, Tried(r, u),
           UNCHANGED <<enabled, events, steady, missed>>
    PROVE  /\ Grows /\ Settled
           /\ offered' \in [Events -> SUBSET Users] /\ again' \subseteq Events
           /\ r.kind = "poll" => u \in offered'[r.cur]
<1>1. offered \in [Events -> SUBSET Users] /\ again \subseteq Events
  BY DEF IInv, Rest
<1>2. CASE r.kind = "poll"
  <2>1. r.cur \in Events
    BY <1>2 DEF Placed, Place
  <2>2. offered' = [offered EXCEPT ![r.cur] = @ \cup {u}]
    BY <1>2 DEF Tried
  <2>3. again' \subseteq Events
    BY <1>1, <1>2, <2>1 DEF Tried
  <2>4. offered' \in [Events -> SUBSET Users] /\ u \in offered'[r.cur]
    BY <1>1, <2>1, <2>2
  <2>5. \A e \in Events : offered[e] \subseteq offered'[e]
    BY <1>1, <2>1, <2>2
  <2> QED BY <2>3, <2>4, <2>5 DEF Grows, Settled, Owed
<1>3. CASE r.kind # "poll"
  BY <1>1, <1>3 DEF Tried, Grows, Settled, Owed
<1> QED BY <1>2, <1>3

(* The first of the page, which is not empty.                              *)
LEMMA FirstOfPage ==
    ASSUME NEW r \in Records, Placed(r), r.pc = "count"
    PROVE  Least(r.page) \in Users
<1>1. r.page \in SUBSET Nat /\ r.page \subseteq Users /\ r.page # {}
  BY PushAssumption DEF Records, Placed
<1> QED BY <1>1, LeastIs

LEMMA CheckPushKeeps == ASSUME IInv, NEW j \in Jobs, CheckPush(j) PROVE IInv'
<1>1. PICK r \in Records : r = job[j] /\ Placed(r)
  BY Here
<1>2. PICK u : u = Least(r.page)
  OBVIOUS
<1>3. /\ r.pc = "count" /\ Tried(r, u) /\ UNCHANGED <<rows, tracker, redo, trouble>>
      /\ Goto(j, IF CountTodayByUser(u) >= MaxPushes
                 THEN AfterUser(r, u)
                 ELSE [r EXCEPT !.user = u, !.pc = "log"])
  BY <1>1, <1>2 DEF CheckPush
<1>4. u \in Users
  BY <1>1, <1>2, <1>3, FirstOfPage
<1>5. /\ Grows /\ Settled /\ offered' \in [Events -> SUBSET Users] /\ again' \subseteq Events
      /\ r.kind = "poll" => u \in offered'[r.cur]
  BY <1>1, <1>3, <1>4, TriedIs DEF Goto
<1>6. Placed(r)'
  BY <1>1, <1>5, PlacedKept
<1>7. Rest'
  BY <1>3, <1>5, RestKept DEF Goto, IInv, Rest
<1>8. CASE CountTodayByUser(u) >= MaxPushes
  <2>1. PICK new : new = AfterUser(r, u)
    OBVIOUS
  <2>2. new \in Records /\ new.pc # "log" /\ Placed(new)'
    BY <1>3, <1>5, <1>6, <2>1, AfterUserIs
  <2>3. job' = [job EXCEPT ![j] = new]
    BY <1>3, <1>8, <2>1, GotoIs
  <2> QED BY <1>3, <1>5, <1>7, <2>2, <2>3, MovedInv
<1>9. CASE ~ CountTodayByUser(u) >= MaxPushes
  <2>1. PICK new : new = [r EXCEPT !.user = u, !.pc = "log"]
    OBVIOUS
  <2>2. /\ new.kind = r.kind /\ new.items = r.items /\ new.done = r.done /\ new.cur = r.cur
        /\ new.page = r.page /\ new.after = r.after /\ new.last = r.last
        /\ new.pc = "log" /\ new.user = u /\ new \in Records
    BY <2>1, <1>4 DEF Records
  <2>3. ASSUME r.kind = "poll" PROVE Place(new)'
    <3>1. Place(r)'
      BY <1>3, <1>6, <2>3 DEF Placed
    <3> QED BY <3>1, <2>2, <2>3, <1>3, <1>5 DEF Place
  <2>4. Placed(new)'
    BY <2>2, <2>3, <1>3, <1>4, <1>6 DEF Placed
  <2>5. job' = [job EXCEPT ![j] = new]
    BY <1>3, <1>9, <2>1, GotoIs
  <2>6. job' \in [Jobs -> Records] /\ (\A i \in Jobs : Placed(job[i])') /\ Marked'
    BY <1>5, <1>7, <2>2, <2>4, <2>5, MovedKeeps
  <2>7. \A i \in Jobs : job'[i] = IF i = j THEN new ELSE job[i]
    BY <2>5 DEF IInv
  <2>8. ASSUME NEW v \in Users
        PROVE  rows'[v] + Cardinality(Counting(v)') <= MaxPushes + Cardinality(Jobs) - 1
    <3>1. /\ rows'[v] = rows[v] /\ rows[v] \in Nat /\ v1rows[v] \in Nat
          /\ MaxPushes \in Nat /\ Cardinality(Jobs) \in Nat
          /\ Cardinality(Counting(v)) \in Nat /\ Cardinality(Counting(v)') \in Nat
          /\ Cardinality(Counting(v)') <= Cardinality(Jobs)
      <4>1. Counting(v)' \subseteq Jobs
        BY DEF Counting
      <4> QED BY <1>3, <4>1, PushAssumption, CountingFinite, FS_Subset, FS_CardinalityType
              DEF IInv, Rest
    <3>2. CASE v = u
      <4>1. rows[v] + v1rows[v] < MaxPushes
        BY <1>9, <3>1, <3>2 DEF CountTodayByUser
      <4> QED BY <3>1, <4>1
    <3>3. CASE v # u
      <4>1. Counting(v)' \subseteq Counting(v)
        BY <2>2, <2>7, <3>3 DEF Counting
      <4>2. Cardinality(Counting(v)') <= Cardinality(Counting(v))
        BY <4>1, CountingFinite, FS_Subset
      <4>3. rows[v] + Cardinality(Counting(v)) <= MaxPushes + Cardinality(Jobs) - 1
        BY DEF IInv, Capped
      <4> QED BY <3>1, <4>2, <4>3
    <3> QED BY <3>2, <3>3
  <2>9. Capped'
    BY <2>8 DEF Capped
  <2> QED BY <1>7, <2>6, <2>9 DEF IInv
<1> QED BY <1>8, <1>9

LEMMA CheckFailsKeeps == ASSUME IInv, NEW j \in Jobs, CheckFails(j) PROVE IInv'
<1>1. PICK r \in Records : r = job[j] /\ Placed(r)
  BY Here
<1>2. PICK u : u = Least(r.page)
  OBVIOUS
<1>3. /\ r.pc = "count" /\ Tried(r, u) /\ UNCHANGED <<rows, tracker, redo>>
      /\ Goto(j, AfterUser(r, u)) /\ Disturbed
  BY <1>1, <1>2 DEF CheckFails
<1>4. u \in Users
  BY <1>1, <1>2, <1>3, FirstOfPage
<1>5. /\ Grows /\ Settled /\ offered' \in [Events -> SUBSET Users] /\ again' \subseteq Events
      /\ r.kind = "poll" => u \in offered'[r.cur]
  BY <1>1, <1>3, <1>4, TriedIs DEF Goto
<1>6. Placed(r)'
  BY <1>1, <1>5, PlacedKept
<1>7. Rest'
  <2>1. trouble' \in Nat
    BY <1>3, DisturbedCounts DEF IInv
  <2> QED BY <1>3, <1>5, <2>1, RestKept DEF Goto, IInv, Rest
<1>8. PICK new : new = AfterUser(r, u)
  OBVIOUS
<1>9. new \in Records /\ new.pc # "log" /\ Placed(new)'
  BY <1>3, <1>5, <1>6, <1>8, AfterUserIs
<1>10. job' = [job EXCEPT ![j] = new]
  BY <1>3, <1>8, GotoIs
<1> QED BY <1>3, <1>5, <1>7, <1>9, <1>10, MovedInv

(* The row is written and one goroutine counts less; or neither is.        *)
LEMMA LogPushKeeps == ASSUME IInv, NEW j \in Jobs, LogPush(j) PROVE IInv'
<1>1. PICK r \in Records : r = job[j] /\ Placed(r)
  BY Here
<1>2. /\ r.pc = "log" /\ UNCHANGED <<tracker, offered, again, redo>>
      /\ Goto(j, [r EXCEPT !.pc = "send"]) /\ Same
  BY <1>1 DEF LogPush, Goto, Same
<1>3. Grows /\ Settled /\ Placed(r)'
  BY <1>1, <1>2, SameGrows, PlacedKept
<1>4. PICK u \in Users : u = r.user
  BY <1>1, <1>2 DEF Placed
<1>5. \/ rows' = [rows EXCEPT ![u] = @ + 1] /\ UNCHANGED trouble
      \/ Disturbed /\ UNCHANGED rows
  BY <1>1, <1>4 DEF LogPush
<1>6. rows \in [Users -> Nat] /\ rows' \in [Users -> Nat] /\ trouble' \in Nat
  BY <1>5, DisturbedCounts DEF IInv, Rest
<1>7. Rest'
  BY <1>2, <1>6, RestKept DEF Goto, IInv, Rest
<1>8. PICK new : new = [r EXCEPT !.pc = "send"]
  OBVIOUS
<1>9. /\ new.kind = r.kind /\ new.items = r.items /\ new.done = r.done /\ new.cur = r.cur
      /\ new.page = r.page /\ new.after = r.after /\ new.last = r.last
      /\ new.pc = "send" /\ new.user = r.user /\ new \in Records
  BY <1>8 DEF Records
<1>10. Placed(new)'
  <2>1. ASSUME r.kind = "poll" PROVE Place(new)'
    <3>1. Place(r)'
      BY <1>2, <1>3, <2>1 DEF Placed
    <3> QED BY <3>1, <1>2, <1>9 DEF Place
  <2> QED BY <2>1, <1>2, <1>3, <1>9 DEF Placed
<1>11. job' = [job EXCEPT ![j] = new]
  BY <1>2, <1>8, GotoIs
<1>12. /\ job' \in [Jobs -> Records] /\ (\A i \in Jobs : Placed(job[i])') /\ Marked'
       /\ \A v \in Users : Counting(v)' \subseteq Counting(v)
  BY <1>3, <1>7, <1>9, <1>10, <1>11, MovedKeeps
<1>13. j \in Counting(u) /\ j \notin Counting(u)'
  BY <1>1, <1>2, <1>4, <1>9, <1>11 DEF Counting, IInv
<1>14. ASSUME NEW v \in Users
       PROVE  rows'[v] + Cardinality(Counting(v)') <= MaxPushes + Cardinality(Jobs) - 1
  <2>1. /\ rows[v] \in Nat /\ MaxPushes \in Nat /\ Cardinality(Jobs) \in Nat
        /\ IsFiniteSet(Counting(v)) /\ IsFiniteSet(Counting(v)')
        /\ Cardinality(Counting(v)) \in Nat /\ Cardinality(Counting(v)') \in Nat
        /\ Cardinality(Counting(v)') <= Cardinality(Counting(v))
        /\ rows[v] + Cardinality(Counting(v)) <= MaxPushes + Cardinality(Jobs) - 1
    BY <1>6, <1>12, PushAssumption, CountingFinite, FS_Subset, FS_CardinalityType DEF IInv, Capped
  <2>2. CASE v = u
    <3>1. Counting(v)' \subseteq Counting(v) \ {j}
      BY <1>12, <1>13, <2>2
    <3>2. /\ IsFiniteSet(Counting(v) \ {j})
          /\ Cardinality(Counting(v) \ {j}) = Cardinality(Counting(v)) - 1
      BY <1>13, <2>1, <2>2, FS_RemoveElement
    <3>3. Cardinality(Counting(v)') <= Cardinality(Counting(v)) - 1
      BY <3>1, <3>2, FS_Subset
    <3>4. rows'[v] <= rows[v] + 1 /\ rows'[v] \in Nat
      BY <1>5, <1>6, <2>2
    <3> QED BY <2>1, <3>3, <3>4
  <2>3. CASE v # u
    <3>1. rows'[v] = rows[v]
      BY <1>5, <1>6, <2>3
    <3> QED BY <2>1, <3>1
  <2> QED BY <2>2, <2>3
<1>15. Capped'
  BY <1>14 DEF Capped
<1> QED BY <1>7, <1>12, <1>15 DEF IInv

LEMMA SendMailKeeps == ASSUME IInv, NEW j \in Jobs, SendMail(j) PROVE IInv'
<1>1. PICK r \in Records : r = job[j] /\ Placed(r)
  BY Here
<1>2. /\ r.pc = "send" /\ UNCHANGED <<rows, tracker, offered, again, redo, trouble>> /\ Same
      /\ Goto(j, AfterUser(r, r.user))
  BY <1>1 DEF SendMail, Goto, Same
<1>3. Placed(r)'
  BY <1>1, <1>2, SameGrows, PlacedKept
<1>4. r.kind = "poll" => r.user \in offered'[r.cur]
  BY <1>2, <1>3 DEF Placed, Place
<1>5. PICK new : new = AfterUser(r, r.user)
  OBVIOUS
<1>6. new \in Records /\ new.pc # "log" /\ Placed(new)'
  BY <1>2, <1>3, <1>4, <1>5, AfterUserIs
<1>7. tracker' \subseteq Assets /\ redo' \subseteq Events /\ trouble' \in Nat
  BY <1>2 DEF IInv, Rest
<1> QED BY <1>2, <1>5, <1>6, <1>7, QuietKeeps

(* A change of the place alone, to one that says nothing of the item.      *)
LEMMA PlaceIs ==
    ASSUME NEW r \in Records, Placed(r)', NEW pc \in {"hung", "mark"}, pc = "mark" => r.kind = "poll"
    PROVE  LET new == [r EXCEPT !.pc = pc]
           IN  new \in Records /\ new.pc # "log" /\ Placed(new)'
<1>1. PICK new : new = [r EXCEPT !.pc = pc]
  OBVIOUS
<1>2. /\ new.kind = r.kind /\ new.items = r.items /\ new.done = r.done /\ new.pc = pc
      /\ new \in Records
  BY <1>1 DEF Records
<1>3. Placed(new)'
  BY <1>2 DEF Placed
<1> QED BY <1>1, <1>2, <1>3

LEMMA IdleIs == Idle \in Records /\ Idle.pc # "log" /\ Placed(Idle)'
BY DEF Idle, Records, Placed

LEMMA SendBatchKeeps == ASSUME IInv, NEW j \in Jobs, SendBatch(j) PROVE IInv'
<1>1. PICK r \in Records : r = job[j] /\ Placed(r)
  BY Here
<1>2. /\ r.pc = "batch" /\ UNCHANGED <<rows, tracker, offered, again, redo, trouble>> /\ Same
      /\ Goto(j, IF r.page = {} THEN Finish(r) ELSE [r EXCEPT !.page = @ \ FirstPage(@)])
  BY <1>1 DEF SendBatch, Goto, Same
<1>3. Placed(r)'
  BY <1>1, <1>2, SameGrows, PlacedKept
<1>4. Finish(r) \in Records /\ Finish(r).pc # "log" /\ Placed(Finish(r))'
  BY <1>3, DroppedIs
<1>5. PICK new : new = [r EXCEPT !.page = @ \ FirstPage(@)]
  OBVIOUS
<1>6. /\ new.kind = r.kind /\ new.items = r.items /\ new.done = r.done /\ new.pc = "batch"
      /\ new \in Records
  BY <1>2, <1>5 DEF Records
<1>7. Placed(new)'
  BY <1>3, <1>6 DEF Placed
<1>8. tracker' \subseteq Assets /\ redo' \subseteq Events /\ trouble' \in Nat
  BY <1>2 DEF IInv, Rest
<1> QED BY <1>2, <1>4, <1>5, <1>6, <1>7, <1>8, QuietKeeps

LEMMA ItemDoneKeeps == ASSUME IInv, NEW j \in Jobs, ItemDone(j) PROVE IInv'
<1>1. PICK r \in Records : r = job[j] /\ Placed(r)
  BY Here
<1>2. PICK done : done = IF r.kind = "poll" THEN r.done \cup {r.cur} ELSE r.done
  OBVIOUS
<1>3. /\ r.pc = "done" /\ UNCHANGED <<rows, offered, again, redo, trouble>> /\ Same
      /\ Goto(j, IF r.kind = "briefing" THEN Idle ELSE [Finish(r) EXCEPT !.done = done])
  <2>1. Finish(r).done = r.done
    BY DEF Finish, Records
  <2>2. [Finish(r) EXCEPT !.done = IF r.kind = "poll" THEN @ \cup {r.cur} ELSE @]
          = [Finish(r) EXCEPT !.done = done]
    BY <2>1, <1>2
  <2> QED BY <2>2, <1>1 DEF ItemDone, Goto, Same
<1>4. Placed(r)'
  BY <1>1, <1>3, SameGrows, PlacedKept
<1>5. /\ done \in SUBSET Events
      /\ r.kind = "poll" => \A e \in done : events'[e] # "none" /\ Owed(e)' \subseteq offered'[e]
  <2>1. r.kind = "poll" => /\ r.cur \in Events /\ events'[r.cur] # "none"
                           /\ Owed(r.cur)' \subseteq offered'[r.cur]
    BY <1>3, <1>4 DEF Placed, Place
  <2> QED BY <2>1, <1>2, <1>4 DEF Placed, Records
<1>6. PICK new : new = [Finish(r) EXCEPT !.done = done]
  OBVIOUS
<1>7. new \in Records /\ new.pc # "log" /\ Placed(new)'
  BY <1>4, <1>5, <1>6, FinishIs
<1>8. tracker' \subseteq Assets
  <2>1. tracker' = IF r.kind \in {"score", "close"} THEN tracker \cup {r.cur} ELSE tracker
    BY <1>1 DEF ItemDone
  <2>2. r.kind \in {"score", "close"} => r.cur \in Assets
    BY <1>3, <1>4 DEF Placed
  <2> QED BY <2>1, <2>2 DEF IInv, Rest
<1>9. redo' \subseteq Events /\ trouble' \in Nat
  BY <1>3 DEF IInv, Rest
<1> QED BY <1>3, <1>6, <1>7, <1>8, <1>9, IdleIs, QuietKeeps

LEMMA NoMoreItemsKeeps == ASSUME IInv, NEW j \in Jobs, NoMoreItems(j) PROVE IInv'
<1>1. PICK r \in Records : r = job[j] /\ Placed(r)
  BY Here
<1>2. /\ UNCHANGED <<rows, tracker, offered, again, redo, trouble>> /\ Same
      /\ Goto(j, IF r.kind = "poll" /\ r.done # {} THEN [r EXCEPT !.pc = "mark"] ELSE Idle)
  BY <1>1 DEF NoMoreItems, Goto, Same
<1>3. Placed(r)'
  BY <1>1, <1>2, SameGrows, PlacedKept
<1>4. PICK new : new = [r EXCEPT !.pc = "mark"]
  OBVIOUS
<1>5. r.kind = "poll" => new \in Records /\ new.pc # "log" /\ Placed(new)'
  BY <1>3, <1>4, PlaceIs
<1>6. tracker' \subseteq Assets /\ redo' \subseteq Events /\ trouble' \in Nat
  BY <1>2 DEF IInv, Rest
<1> QED BY <1>2, <1>4, <1>5, <1>6, IdleIs, QuietKeeps

LEMMA MarkFailsKeeps == ASSUME IInv, NEW j \in Jobs, MarkFails(j) PROVE IInv'
<1>1. /\ UNCHANGED <<rows, tracker, offered, again>> /\ Goto(j, Idle) /\ Disturbed
      /\ redo' = redo \cup job[j].done
  BY DEF MarkFails
<1>2. job[j].done \subseteq Events
  BY Here DEF Records
<1>3. tracker' \subseteq Assets /\ redo' \subseteq Events /\ trouble' \in Nat
  BY <1>1, <1>2, DisturbedCounts DEF IInv, Rest
<1> QED BY <1>1, <1>3, IdleIs, QuietKeeps

LEMMA SendHangsKeeps == ASSUME IInv, NEW j \in Jobs, SendHangs(j) PROVE IInv'
<1>1. PICK r \in Records : r = job[j] /\ Placed(r)
  BY Here
<1>2. /\ UNCHANGED <<rows, tracker, offered, again, redo>> /\ Same /\ Disturbed
      /\ Goto(j, [r EXCEPT !.pc = "hung"])
  BY <1>1 DEF SendHangs, Goto, Same
<1>3. Placed(r)'
  BY <1>1, <1>2, SameGrows, PlacedKept
<1>4. PICK new : new = [r EXCEPT !.pc = "hung"]
  OBVIOUS
<1>5. new \in Records /\ new.pc # "log" /\ Placed(new)'
  BY <1>3, <1>4, PlaceIs
<1>6. tracker' \subseteq Assets /\ redo' \subseteq Events /\ trouble' \in Nat
  BY <1>2, DisturbedCounts DEF IInv, Rest
<1> QED BY <1>2, <1>4, <1>5, <1>6, QuietKeeps

-----------------------------------------------------------------------------
(* The marks, the clock, the crash and the rest of the system.             *)

(* The goroutines stay, or are gone.                                       *)
LEMMA OthersKeep ==
    ASSUME IInv, Rest', Grows, Marked', \A u \in Users : rows'[u] <= rows[u],
           \A j \in Jobs : job'[j] \in {job[j], Idle}, job' \in [Jobs -> Records]
    PROVE  IInv'
<1>1. ASSUME NEW j \in Jobs PROVE Placed(job[j])'
  <2>1. CASE job'[j] = job[j]
    <3>1. PICK r \in Records : r = job[j] /\ Placed(r)
      BY Here
    <3>2. Placed(r)'
      BY <3>1, PlacedKept
    <3> QED BY <2>1, <3>1, <3>2
  <2>2. CASE job'[j] = Idle
    BY <2>2, IdleIs
  <2> QED BY <2>1, <2>2
<1>2. \A u \in Users : Counting(u)' \subseteq Counting(u)
  BY IdleIs DEF Counting
<1>3. Capped'
  BY <1>2, CapKept
<1> QED BY <1>1, <1>3 DEF IInv

LEMMA MarkAlertedKeeps == ASSUME IInv, NEW j \in Jobs, MarkAlerted(j) PROVE IInv'
<1>1. /\ job' = [job EXCEPT ![j] = Idle]
      /\ events' = [e \in Events |-> IF e \in job[j].done THEN "alerted" ELSE events[e]]
      /\ UNCHANGED <<slot, fired, entries, enabled, change, rows, v1rows, tracker, queue,
                     offered, steady, missed, again, redo, trouble>>
      /\ job[j].pc = "mark"
  BY DEF MarkAlerted, history
<1>2. events' \in [Events -> {"none", "unalerted", "alerted"}]
  BY <1>1 DEF IInv, Rest
<1>3. Rest'
  BY <1>1, <1>2 DEF IInv, Rest
<1>4. Grows
  BY <1>1 DEF Grows, Owed
<1>5. \A e \in job[j].done : Owed(e) \subseteq offered[e]
  BY <1>1, Here DEF Placed
<1>6. Marked'
  BY <1>1, <1>5 DEF IInv, Marked, Owed
<1>7. job' \in [Jobs -> Records] /\ \A i \in Jobs : job'[i] \in {job[i], Idle}
  BY <1>1, IdleIs DEF IInv
<1>8. \A u \in Users : rows'[u] <= rows[u]
  BY <1>1 DEF IInv, Rest
<1> QED BY <1>3, <1>4, <1>6, <1>7, <1>8, OthersKeep

LEMMA EnvironmentKeeps ==
    ASSUME IInv, \/ Tick \/ Crash
                 \/ \E u \in Users : UpdateEmailPush(u) \/ SendToUser(u)
                 \/ \E e \in Events : EventDetected(e)
                 \/ \E a \in Assets : AnalysisPersisted(a)
    PROVE  IInv'
<1> USE DEF table, history
<1>0. Rest /\ Marked
  BY DEF IInv
<1>1. CASE Tick
  <2>1. rows' \in [Users -> Nat] /\ v1rows' \in [Users -> Nat]
    BY <1>0, <1>1 DEF Tick, Rest
  <2>2. Rest'
    BY <1>0, <1>1, <2>1 DEF Tick, Rest
  <2>3. \A u \in Users : rows'[u] <= rows[u]
    BY <1>0, <1>1 DEF Tick, Rest
  <2>4. Grows /\ Marked' /\ job' = job
    BY <1>0, <1>1 DEF Tick, Grows, Marked, Owed
  <2> QED BY <2>2, <2>3, <2>4, OthersKeep DEF IInv
<1>2. CASE Crash
  <2>1. Rest'
    <3>1. redo' \subseteq Events /\ fired' \subseteq Kinds /\ trouble' \in Nat
      BY <1>0, <1>2, DisturbedCounts DEF Crash, Rest
    <3> QED BY <1>0, <1>2, <3>1 DEF Crash, Rest
  <2>2. Grows /\ Marked' /\ job' = [j \in Jobs |-> Idle]
    BY <1>0, <1>2 DEF Crash, Grows, Marked, Owed
  <2>3. \A u \in Users : rows'[u] <= rows[u]
    BY <1>0, <1>2 DEF Crash, Rest
  <2> QED BY <2>1, <2>2, <2>3, IdleIs, OthersKeep
<1>3. ASSUME NEW u \in Users, UpdateEmailPush(u) PROVE IInv'
  <2>1. enabled' \subseteq Users /\ steady' \in [Events -> SUBSET Users] /\ trouble' \in Nat
    BY <1>0, <1>3, DisturbedCounts DEF UpdateEmailPush, Rest
  <2>2. Rest'
    BY <1>0, <1>3, <2>1 DEF UpdateEmailPush, Rest
  <2>3. Grows /\ job' = job
    BY <1>0, <1>3 DEF UpdateEmailPush, Grows, Owed
  <2>4. Marked'
    BY <1>0, <1>3 DEF UpdateEmailPush, Marked, Owed
  <2>5. \A v \in Users : rows'[v] <= rows[v]
    BY <1>0, <1>3 DEF UpdateEmailPush, Rest
  <2> QED BY <2>2, <2>3, <2>4, <2>5, OthersKeep DEF IInv
<1>4. ASSUME NEW u \in Users, SendToUser(u) PROVE IInv'
  <2>1. v1rows' \in [Users -> Nat] /\ trouble' \in Nat
    BY <1>0, <1>4, DisturbedCounts DEF SendToUser, Rest
  <2>2. Rest'
    BY <1>0, <1>4, <2>1 DEF SendToUser, Rest
  <2>3. Grows /\ Marked' /\ job' = job
    BY <1>0, <1>4 DEF SendToUser, Grows, Marked, Owed
  <2>4. \A v \in Users : rows'[v] <= rows[v]
    BY <1>0, <1>4 DEF SendToUser, Rest
  <2> QED BY <2>2, <2>3, <2>4, OthersKeep DEF IInv
<1>5. ASSUME NEW e \in Events, EventDetected(e) PROVE IInv'
  <2>1. events' \in [Events -> {"none", "unalerted", "alerted"}] /\ steady' \in [Events -> SUBSET Users]
    BY <1>0, <1>5 DEF EventDetected, Rest
  <2>2. Rest'
    BY <1>0, <1>5, <2>1 DEF EventDetected, Rest
  <2>3. Grows /\ job' = job
    BY <1>0, <1>5 DEF EventDetected, Grows, Rest, Owed
  <2>4. Marked'
    BY <1>0, <1>5 DEF EventDetected, Marked, Rest, Owed
  <2>5. \A v \in Users : rows'[v] <= rows[v]
    BY <1>0, <1>5 DEF EventDetected, Rest
  <2> QED BY <2>2, <2>3, <2>4, <2>5, OthersKeep DEF IInv
<1>6. ASSUME NEW a \in Assets, AnalysisPersisted(a) PROVE IInv'
  <2>1. change' \in [Assets -> {0, 5, 10}] /\ trouble' \in Nat
    BY <1>0, <1>6, DisturbedCounts DEF AnalysisPersisted, Rest
  <2>2. Rest'
    BY <1>0, <1>6, <2>1 DEF AnalysisPersisted, Rest
  <2>3. Grows /\ Marked' /\ job' = job
    BY <1>0, <1>6 DEF AnalysisPersisted, Grows, Marked, Owed
  <2>4. \A v \in Users : rows'[v] <= rows[v]
    BY <1>0, <1>6 DEF AnalysisPersisted, Rest
  <2> QED BY <2>2, <2>3, <2>4, OthersKeep DEF IInv
<1> QED BY <1>1, <1>2, <1>3, <1>4, <1>5, <1>6

-----------------------------------------------------------------------------
LEMMA InvNext == ASSUME IInv, [Next]_vars PROVE IInv'
<1>1. CASE Fire
  BY <1>1, FireKeeps
<1>2. ASSUME NEW j \in Jobs, Step(j) PROVE IInv'
  BY <1>2, PickItemKeeps, AnalyzeHoldingKeeps, ListUsersKeeps, CollectKeeps, CheckPushKeeps,
     LogPushKeeps, SendMailKeeps, SendBatchKeeps, ItemDoneKeeps, NoMoreItemsKeeps,
     MarkAlertedKeeps DEF Step
<1>3. ASSUME NEW j \in Jobs, Trouble(j) PROVE IInv'
  BY <1>3, PageBreaksOffKeeps, ListFailsKeeps, CheckFailsKeeps, MarkFailsKeeps, SendHangsKeeps DEF Trouble
<1>4. CASE UNCHANGED vars
  <2>1. Rest' /\ Grows /\ Marked' /\ job' = job
    BY <1>4 DEF vars, table, history, IInv, Rest, Grows, Marked, Owed
  <2>2. \A u \in Users : rows'[u] <= rows[u]
    BY <1>4 DEF vars, table, IInv, Rest
  <2> QED BY <2>1, <2>2, OthersKeep DEF IInv
<1> QED BY <1>1, <1>2, <1>3, <1>4, EnvironmentKeeps DEF Next

(* The invariant of the cron: types, the place of each poll in its users,  *)
(* the marks and the goroutines that count, in every reachable state.      *)
THEOREM Inductive == Spec => []IInv
BY InvInit, InvNext, PTL DEF Spec

(* Every variable keeps its type.                                          *)
THEOREM TypesKept == Spec => []TypeOK
<1>1. IInv => TypeOK
  BY TypesAre DEF IInv
<1> QED BY <1>1, Inductive, PTL

(* The daily maximum holds up to the goroutines that count at once.        *)
THEOREM CapHolds == Spec => []PushCap
<1>1. IInv => PushCap
  <2> SUFFICES ASSUME IInv, NEW u \in Users
               PROVE  rows[u] <= MaxPushes + Cardinality(Jobs) - 1
    BY DEF PushCap
  <2>1. /\ rows[u] \in Nat /\ Cardinality(Counting(u)) \in Nat
        /\ MaxPushes \in Nat /\ Cardinality(Jobs) \in Nat
        /\ rows[u] + Cardinality(Counting(u)) <= MaxPushes + Cardinality(Jobs) - 1
    BY PushAssumption, CountingFinite, FS_CardinalityType DEF IInv, Rest, Capped
  <2> QED BY <2>1
<1> QED BY <1>1, Inductive, PTL

(* An event is marked only when its alert was tried for every user who had *)
(* the push on from its detection, whatever fails or is killed meanwhile,  *)
(* but for those behind the place where a page of users broke off: the     *)
(* list of ListEmailPushEnabled ends there without an error.               *)
THEOREM NobodyLeftOut == Spec => []MarkedAfterAll
<1>1. IInv => MarkedAfterAll
  BY DEF IInv, Marked, MarkedAfterAll, Owed
<1> QED BY <1>1, Inductive, PTL

-----------------------------------------------------------------------------
(* The alert of an event is tried once for each user: the poll that holds  *)
(* the event is the only one, and of the users it has tried none is on its *)
(* page but the one at hand, and none after its cursor.                    *)
Has(r, e) == r.kind = "poll" /\ e \in r.items \cup r.done \cup {r.cur}

Turn(r, tried) ==
    /\ r.pc = "list" => \A u \in tried : u <= r.after
    /\ r.pc \in {"count", "log", "send"} =>
         /\ \A u \in tried \cup r.page : u <= r.after
         /\ tried \cap r.page \subseteq IF r.pc = "count" THEN {} ELSE {r.user}

Shaped(r) ==
    r.kind = "poll" =>
        /\ r.pc \in {"pick", "mark"} => r.cur = None
        /\ r.pc = "mark" => r.items = {}
        /\ r.pc # "batch" /\ r.cur \notin r.items

Fresh(e) ==
    /\ \A i, j \in Jobs : Has(job[i], e) /\ Has(job[j], e) => i = j
    /\ events[e] # "alerted" /\ (\A i \in Jobs : ~ Has(job[i], e)) => offered[e] = {}
    /\ \A i \in Jobs :
         job[i].kind = "poll" =>
             /\ e \in job[i].items => offered[e] = {}
             /\ e = job[i].cur => Turn(job[i], offered[e])
    /\ e \notin again

OnceInv ==
    /\ \A j \in Jobs : Shaped(job[j])
    /\ \A e \in Events \ redo : Fresh(e)

LEMMA FreshStep ==
    ASSUME IInv, OnceInv, NEW j \in Jobs, NEW old, old = job[j], NEW new,
           job' = [job EXCEPT ![j] = new], redo \subseteq redo', Shaped(new),
           \A e \in Events \ redo' :
              /\ Has(new, e) => Has(old, e)
              /\ Has(old, e) => Has(new, e) \/ events'[e] = "alerted"
              /\ events'[e] \in {events[e], "alerted"}
              /\ \/ offered'[e] = offered[e]
                 \/ old.kind = "poll" /\ new.kind = "poll" /\ old.cur = e /\ new.cur = e
              /\ new.kind = "poll" => /\ e \in new.items => e \in old.items
                                      /\ e = new.cur => Turn(new, offered'[e])
              /\ e \notin again'
    PROVE  OnceInv'
<1>1. \A i \in Jobs : job'[i] = IF i = j THEN new ELSE job[i]
  BY DEF IInv
<1>2. \A i \in Jobs : Shaped(job[i])'
  <2>1. ASSUME NEW i \in Jobs PROVE Shaped(job'[i])
    BY <1>1 DEF OnceInv
  <2> QED BY <2>1 DEF Shaped
<1>3. ASSUME NEW e \in Events \ redo' PROVE Fresh(e)'
  <2>1. Fresh(e)
    BY <1>3 DEF OnceInv
  <2>2. \A i, k \in Jobs : Has(job'[i], e) /\ Has(job'[k], e) => i = k
    BY <1>1, <1>3, <2>1 DEF Fresh
  <2>3. events'[e] # "alerted" /\ (\A i \in Jobs : ~ Has(job'[i], e)) => offered'[e] = {}
    BY <1>1, <1>3, <2>1 DEF Fresh, Has
  <2>4. ASSUME NEW i \in Jobs, job'[i].kind = "poll"
        PROVE  /\ e \in job'[i].items => offered'[e] = {}
               /\ e = job'[i].cur => Turn(job'[i], offered'[e])
    <3>1. CASE i = j
      <4>1. job'[i] = new /\ new.kind = "poll"
        BY <1>1, <2>4, <3>1
      <4>2. ASSUME e \in new.items PROVE offered'[e] = {}
        <5>1. new.cur # e /\ Has(old, e) /\ e \in old.items
          BY <1>3, <4>1, <4>2 DEF Shaped, Has
        <5>2. offered'[e] = offered[e]
          BY <1>3, <5>1
        <5> QED BY <2>1, <5>1, <5>2 DEF Fresh, Has
      <4> QED BY <1>3, <4>1, <4>2
    <3>2. CASE i # j
      BY <1>1, <1>3, <2>1, <2>4, <3>2 DEF Fresh, Has
    <3> QED BY <3>1, <3>2
  <2> QED BY <1>3, <2>2, <2>3, <2>4 DEF Fresh, Has, Turn
<1> QED BY <1>2, <1>3 DEF OnceInv

(* A goroutine that serves no poll, before and after.                      *)
LEMMA FreshElse ==
    ASSUME IInv, OnceInv, NEW j \in Jobs, NEW old, old = job[j], NEW new,
           job' = [job EXCEPT ![j] = new], old.kind # "poll", new.kind # "poll",
           redo \subseteq redo', UNCHANGED <<events, offered, again>>
    PROVE  OnceInv'
<1>1. \A e \in Events \ redo' : e \notin again'
  BY DEF OnceInv, Fresh
<1> QED BY <1>1, FreshStep DEF Shaped, Has

(* The record has the same items and the poll is elsewhere in its event.   *)
LEMMA FreshPlace ==
    ASSUME IInv, OnceInv, NEW j \in Jobs, NEW old, old = job[j], NEW new,
           job' = [job EXCEPT ![j] = new], redo \subseteq redo', UNCHANGED <<events, offered, again>>,
           new.kind = old.kind, new.items = old.items, new.done = old.done, new.cur = old.cur,
           old.pc # "mark", new.kind = "poll" => new.pc \notin {"pick", "mark", "batch"},
           new.kind = "poll" /\ new.cur \in Events \ redo' => Turn(new, offered[new.cur])
    PROVE  OnceInv'
<1>1. \A e \in Events \ redo' : e \notin again'
  BY DEF OnceInv, Fresh
<1>2. Shaped(new)
  BY DEF OnceInv, Shaped
<1>3. ASSUME NEW e \in Events \ redo'
      PROVE  /\ Has(new, e) <=> Has(old, e)
             /\ new.kind = "poll" => /\ e \in new.items => e \in old.items
                                     /\ e = new.cur => Turn(new, offered[e])
  BY <1>3 DEF Has
<1> QED BY <1>1, <1>2, <1>3, FreshStep

LEMMA TurnIs ==
    ASSUME IInv, OnceInv, NEW j \in Jobs, NEW r, r = job[j], r.kind = "poll", r.cur \in Events \ redo
    PROVE  Turn(r, offered[r.cur])
BY DEF OnceInv, Fresh

LEMMA PickItemOnce == ASSUME IInv, OnceInv, NEW j \in Jobs, PickItem(j) PROVE OnceInv'
<1>1. PICK r \in Records : r = job[j] /\ Placed(r)
  BY Here
<1>2. /\ r.pc = "pick" /\ r.kind # "holding"
      /\ UNCHANGED <<events, offered, again, redo>>
  BY <1>1 DEF PickItem, Goto
<1>3. PICK i \in r.items :
        IF r.kind = "close" /\ i \in tracker
        THEN Goto(j, [r EXCEPT !.items = @ \ {i}])
        ELSE Goto(j, [r EXCEPT !.items = @ \ {i}, !.cur = i, !.pc = "list", !.after = 0])
  BY <1>1 DEF PickItem
<1>5. CASE r.kind # "poll"
  <2>1. PICK new : /\ new \in {[r EXCEPT !.items = @ \ {i}],
                               [r EXCEPT !.items = @ \ {i}, !.cur = i, !.pc = "list", !.after = 0]}
                   /\ Goto(j, new)
    BY <1>3
  <2>2. new.kind = r.kind
    BY <2>1 DEF Records
  <2> QED BY <1>1, <1>2, <1>5, <2>1, <2>2, GotoIs, FreshElse
<1>6. CASE r.kind = "poll"
  <2>1. PICK new : new = [r EXCEPT !.items = @ \ {i}, !.cur = i, !.pc = "list", !.after = 0]
    OBVIOUS
  <2>2. /\ new.kind = "poll" /\ new.items = r.items \ {i} /\ new.cur = i /\ new.done = r.done
        /\ new.pc = "list" /\ new.after = 0
    BY <1>6, <2>1 DEF Records
  <2>3. Goto(j, new)
    BY <1>3, <1>6, <2>1
  <2>4. r.cur = None /\ i \in Events
    BY <1>1, <1>2, <1>6 DEF OnceInv, Shaped, Placed
  <2>5. ASSUME NEW e \in Events \ redo
        PROVE  /\ Has(new, e) <=> Has(r, e)
               /\ e = i => Turn(new, offered[e])
               /\ e \notin again
    <3>1. Fresh(e)
      BY <2>5 DEF OnceInv
    <3>2. e # None
      BY <2>5, PushAssumption
    <3>3. e = i => offered[e] = {}
      BY <1>1, <1>6, <3>1 DEF Fresh
    <3> QED BY <3>1, <3>2, <3>3, <2>2, <2>4, <1>6 DEF Fresh, Has, Turn
  <2>6. Shaped(new)
    BY <2>2 DEF Shaped
  <2>7. job' = [job EXCEPT ![j] = new]
    BY <2>3, GotoIs
  <2> QED BY <1>1, <1>2, <2>2, <2>5, <2>6, <2>7, FreshStep
<1> QED BY <1>5, <1>6

(* A goroutine that serves no poll steps.                                  *)
LEMMA QuietOnce ==
    ASSUME IInv, OnceInv, NEW j \in Jobs, NEW old, old = job[j], NEW new, Goto(j, new),
           old.kind # "poll", new.kind # "poll", UNCHANGED <<offered, again>>, redo \subseteq redo'
    PROVE  OnceInv'
BY GotoIs, FreshElse

LEMMA AnalyzeHoldingOnce == ASSUME IInv, OnceInv, NEW j \in Jobs, AnalyzeHolding(j) PROVE OnceInv'
<1>1. PICK r \in Records : r = job[j]
  BY Here
<1>2. r.kind = "holding" /\ UNCHANGED <<offered, again, redo>>
  BY <1>1 DEF AnalyzeHolding
<1>3. PICK u \in r.items, advice \in BOOLEAN :
        Goto(j, [r EXCEPT !.items = @ \ {u},
                          !.cur = IF advice THEN u ELSE None,
                          !.page = IF advice THEN {u} ELSE {},
                          !.last = TRUE,
                          !.pc = IF advice THEN "count" ELSE "pick"])
  BY <1>1 DEF AnalyzeHolding
<1>4. PICK new : new = [r EXCEPT !.items = @ \ {u},
                          !.cur = IF advice THEN u ELSE None,
                          !.page = IF advice THEN {u} ELSE {},
                          !.last = TRUE,
                          !.pc = IF advice THEN "count" ELSE "pick"]
  OBVIOUS
<1>5. new.kind = r.kind
  BY <1>4 DEF Records
<1> QED BY <1>1, <1>2, <1>3, <1>4, <1>5, QuietOnce

LEMMA CollectingOnce ==
    ASSUME IInv, OnceInv, NEW j \in Jobs, NEW r \in Records, r = job[j], r.kind = "weekly",
           NEW page, job' = [job EXCEPT ![j] = Collecting(r, page)],
           UNCHANGED <<events, offered, again, redo>>
    PROVE  OnceInv'
<1>1. PICK new : new = Collecting(r, page)
  OBVIOUS
<1>2. new.kind = r.kind
  BY <1>1 DEF Collecting, Records
<1> QED BY <1>1, <1>2, FreshElse

LEMMA CollectOnce == ASSUME IInv, OnceInv, NEW j \in Jobs, CollectRecipients(j) PROVE OnceInv'
<1>1. PICK r \in Records : r = job[j]
  BY Here
<1>2. PICK page : page = ListEmailPushEnabledByLocale(r.cur, r.after)
  OBVIOUS
<1>3. /\ r.kind = "weekly" /\ UNCHANGED <<offered, again, redo>>
      /\ Goto(j, Collecting(r, page))
  BY <1>1, <1>2 DEF CollectRecipients
<1> QED BY <1>1, <1>3, GotoIs, CollectingOnce

LEMMA SendBatchOnce == ASSUME IInv, OnceInv, NEW j \in Jobs, SendBatch(j) PROVE OnceInv'
<1>1. PICK r \in Records : r = job[j]
  BY Here
<1>2. PICK new : new \in {Finish(r), [r EXCEPT !.page = @ \ FirstPage(@)]} /\ Goto(j, new)
  BY <1>1 DEF SendBatch
<1>3. r.pc = "batch" /\ UNCHANGED <<offered, again, redo>>
  BY <1>1 DEF SendBatch
<1>4. r.kind # "poll"
  BY <1>1, <1>3 DEF OnceInv, Shaped
<1>5. new.kind = r.kind
  BY <1>2 DEF Finish, Records
<1> QED BY <1>1, <1>2, <1>3, <1>4, <1>5, QuietOnce

LEMMA MailingOnce ==
    ASSUME IInv, OnceInv, NEW j \in Jobs, NEW r \in Records, r = job[j], r.pc = "list",
           NEW page, page # {} => Greatest(page) \in Nat,
           \A u \in page : u \in Nat /\ u > r.after /\ u <= Greatest(page),
           job' = [job EXCEPT ![j] = Mailing(r, page)], UNCHANGED <<events, offered, again, redo>>
    PROVE  OnceInv'
<1>1. r.after \in Nat
  BY DEF Records
<1>2. PICK none : none = [r EXCEPT !.pc = "done"]
  OBVIOUS
<1>3. PICK full : full = [r EXCEPT !.page = page, !.after = Greatest(page),
                                   !.last = Cardinality(page) < PageSize, !.pc = "count"]
  OBVIOUS
<1>4. PICK new : new = (IF page = {} THEN none ELSE full) /\ job' = [job EXCEPT ![j] = new]
  BY <1>2, <1>3 DEF Mailing
<1>5. /\ new.kind = r.kind /\ new.items = r.items /\ new.done = r.done /\ new.cur = r.cur
      /\ new.pc \in {"done", "count"} /\ (new.pc = "done" <=> page = {})
  BY <1>2, <1>3, <1>4 DEF Records
<1>6. CASE r.kind # "poll"
  <2>1. new.kind # "poll" /\ redo \subseteq redo' /\ UNCHANGED <<events, offered, again>>
    BY <1>5, <1>6
  <2> QED BY <1>4, <1>6, <2>1, FreshElse
<1>7. CASE r.kind = "poll"
  <2>1. ASSUME r.cur \in Events \ redo PROVE Turn(new, offered[r.cur])
    <3>1. \A u \in offered[r.cur] : u <= r.after /\ u \in Nat
      <4>1. Turn(r, offered[r.cur])
        BY <1>7, <2>1, TurnIs
      <4>2. offered[r.cur] \subseteq Nat
        BY <2>1, PushAssumption DEF IInv, Rest
      <4> QED BY <4>1, <4>2 DEF Turn
    <3>2. CASE page = {}
      BY <3>2, <1>5 DEF Turn
    <3>3. CASE page # {}
      <4>1. new.page = page /\ new.after = Greatest(page) /\ new.pc = "count"
        BY <3>3, <1>3, <1>4 DEF Records
      <4>2. ASSUME NEW u \in offered[r.cur] PROVE u <= Greatest(page) /\ u \notin page
        <5>1. u \in Nat /\ u <= r.after
          BY <3>1, <4>2
        <5>2. PICK v \in page : TRUE
          BY <3>3
        <5>3. v \in Nat /\ v > r.after /\ v <= Greatest(page) /\ Greatest(page) \in Nat
          BY <5>2, <3>3
        <5> QED BY <5>1, <5>3, <1>1
      <4> QED BY <4>1, <4>2 DEF Turn
    <3> QED BY <3>2, <3>3
  <2>2. /\ redo \subseteq redo' /\ redo' = redo /\ r.pc # "mark" /\ new.pc \notin {"pick", "mark", "batch"}
        /\ UNCHANGED <<events, offered, again>>
    BY <1>5
  <2>3. new.kind = "poll" /\ new.cur \in Events \ redo' => Turn(new, offered[new.cur])
    BY <1>5, <2>1, <2>2
  <2> QED BY <1>4, <1>5, <2>2, <2>3, FreshPlace
<1> QED BY <1>6, <1>7

LEMMA ListUsersOnce == ASSUME IInv, OnceInv, NEW j \in Jobs, ListUsers(j) PROVE OnceInv'
<1>1. PICK r \in Records : r = job[j]
  BY Here
<1>2. r.pc = "list" /\ r.after \in Nat /\ UNCHANGED <<offered, again, redo>>
  BY <1>1 DEF ListUsers, Records
<1>3. PICK page : page = ListEmailPushEnabled(r.after)
  OBVIOUS
<1>4. Goto(j, Mailing(r, page))
  BY <1>1, <1>3 DEF ListUsers
<1>5. /\ page # {} => Greatest(page) \in Nat
      /\ \A u \in page : u \in Nat /\ u > r.after /\ u <= Greatest(page)
  BY <1>2, <1>3, PageAfter
<1> QED BY <1>1, <1>2, <1>4, <1>5, GotoIs, MailingOnce

LEMMA PageBreaksOffOnce == ASSUME IInv, OnceInv, NEW j \in Jobs, PageBreaksOff(j) PROVE OnceInv'
<1>1. PICK r \in Records : r = job[j]
  BY Here
<1>2. r.pc = "list" /\ r.after \in Nat /\ UNCHANGED <<events, offered, again, redo>>
  BY <1>1 DEF PageBreaksOff, table, Records
<1>3. CASE r.kind = "weekly"
  <2>1. PICK page : job' = [job EXCEPT ![j] = Collecting(r, page)]
    BY <1>1, <1>3 DEF PageBreaksOff
  <2> QED BY <1>1, <1>2, <1>3, <2>1, CollectingOnce
<1>4. CASE r.kind # "weekly"
  <2>1. PICK page : page = ListEmailPushEnabled(r.after)
    OBVIOUS
  <2>2. PICK u \in page : job' = [job EXCEPT ![j] = Mailing(r, {v \in page : v < u})]
    BY <1>1, <1>4, <2>1 DEF PageBreaksOff
  <2>3. page \in SUBSET Users /\ \A v \in page : v \in Nat /\ v > r.after
    BY <1>2, <2>1, <2>2, PageAfter, PushPage
  <2>4. PICK part : part = {v \in page : v < u}
    OBVIOUS
  <2>5. part \in SUBSET Nat /\ IsFiniteSet(part) /\ \A v \in part : v > r.after
    <3>1. part \subseteq Users
      BY <2>3, <2>4
    <3> QED BY <3>1, <2>3, <2>4, PushAssumption, FS_Subset
  <2>6. part # {} => Greatest(part) \in part /\ \A v \in part : Greatest(part) >= v
    BY <2>5, GreatestIs
  <2>7. /\ part # {} => Greatest(part) \in Nat
        /\ \A v \in part : v \in Nat /\ v > r.after /\ v <= Greatest(part)
    BY <2>5, <2>6
  <2> QED BY <1>1, <1>2, <2>2, <2>4, <2>7, MailingOnce
<1> QED BY <1>3, <1>4

LEMMA ListFailsOnce == ASSUME IInv, OnceInv, NEW j \in Jobs, ListFails(j) PROVE OnceInv'
<1>1. PICK r \in Records : r = job[j] /\ Placed(r)
  BY Here
<1>2. /\ UNCHANGED <<offered, again>> /\ redo \subseteq redo'
      /\ r.kind = "poll" => redo' = redo \cup {r.cur}
      /\ Goto(j, IF r.kind = "briefing" THEN Idle ELSE Finish(r))
  BY <1>1 DEF ListFails
<1>3. PICK new : new = IF r.kind = "briefing" THEN Idle ELSE Finish(r)
  OBVIOUS
<1>4. CASE r.kind # "poll"
  <2>1. new.kind # "poll"
    BY <1>3, <1>4 DEF Finish, Idle, Records
  <2> QED BY <1>1, <1>2, <1>3, <1>4, <2>1, QuietOnce
<1>5. CASE r.kind = "poll"
  <2>1. new = Finish(r)
    BY <1>3, <1>5
  <2>2. new.kind = "poll" /\ new.items = r.items /\ new.done = r.done /\ new.cur = None /\ new.pc = "pick"
    BY <2>1, <1>5 DEF Finish, Records
  <2>3. Shaped(new)
    BY <2>2, <1>1, <1>5, PushAssumption DEF Shaped, Placed
  <2>4. ASSUME NEW e \in Events \ redo'
        PROVE  (Has(new, e) <=> Has(r, e)) /\ e # new.cur /\ e \notin again'
    <3>1. e # r.cur /\ e # None /\ Fresh(e)
      BY <2>4, <1>2, <1>5, PushAssumption DEF OnceInv
    <3> QED BY <3>1, <2>2, <1>2, <1>5 DEF Has, Fresh
  <2>5. job' = [job EXCEPT ![j] = new] /\ UNCHANGED events
    BY <1>2, <1>3, GotoIs
  <2> QED BY <1>1, <1>2, <2>2, <2>3, <2>4, <2>5, FreshStep
<1> QED BY <1>4, <1>5

-----------------------------------------------------------------------------
(* The users of the page, one by one.                                      *)

LEMMA TurnAfterUser ==
    ASSUME NEW r \in Records, NEW u, NEW tried, \A v \in tried \cup r.page : v <= r.after,
           tried \cap r.page \subseteq {u}
    PROVE  Turn(AfterUser(r, u), tried)
<1>1. PICK new : new = AfterUser(r, u)
  OBVIOUS
<1>2. PICK pc : pc = IF r.page \ {u} # {} THEN "count" ELSE IF r.last THEN "done" ELSE "list"
  OBVIOUS
<1>3. new.pc = pc /\ new.after = r.after /\ new.page = r.page \ {u}
  BY <1>1, <1>2 DEF AfterUser, Records
<1>4. pc \in {"count", "done", "list"}
  BY <1>2
<1> QED BY <1>1, <1>3, <1>4 DEF Turn

LEMMA AfterUserStays ==
    ASSUME NEW r \in Records, NEW u, NEW new, new = AfterUser(r, u)
    PROVE  /\ new.kind = r.kind /\ new.items = r.items /\ new.done = r.done /\ new.cur = r.cur
           /\ new.pc \in {"count", "list", "done"}
BY DEF AfterUser, Records

(* The alert is tried for the first of the page, who has not been tried.   *)
LEMMA CountOnce ==
    ASSUME IInv, OnceInv, NEW j \in Jobs, NEW r \in Records, r = job[j], Placed(r), r.pc = "count",
           NEW u, u = Least(r.page), Tried(r, u), NEW new, Goto(j, new), UNCHANGED redo,
           new.kind = r.kind, new.items = r.items, new.done = r.done, new.cur = r.cur,
           new.pc \in {"count", "list", "done", "log"},
           \A tried : (\A v \in tried \cup r.page : v <= r.after) /\ tried \cap r.page \subseteq {u}
                         => Turn(new, tried)
    PROVE  OnceInv'
<1>1. job' = [job EXCEPT ![j] = new] /\ UNCHANGED events
  BY GotoIs
<1>2. CASE r.kind # "poll"
  <2>1. UNCHANGED <<offered, again>>
    BY <1>2 DEF Tried
  <2> QED BY <1>2, <2>1, QuietOnce
<1>3. CASE r.kind = "poll"
  <2>1. /\ offered' = [offered EXCEPT ![r.cur] = @ \cup {u}]
        /\ again' = IF u \in offered[r.cur] THEN again \cup {r.cur} ELSE again
    BY <1>3 DEF Tried
  <2>2. u \in r.page /\ r.cur \in Events
    <3>1. r.page \in SUBSET Nat /\ r.page # {}
      BY PushAssumption DEF Records, Placed
    <3> QED BY <3>1, <1>3, LeastIs DEF Placed, Place
  <2>3. Shaped(new)
    BY <1>3 DEF OnceInv, Shaped
  <2>4. ASSUME r.cur \in Events \ redo
        PROVE  u \notin offered[r.cur] /\ Turn(new, offered[r.cur] \cup {u})
    <3>1. Turn(r, offered[r.cur])
      BY <1>3, <2>4, TurnIs
    <3>2. (\A v \in offered[r.cur] \cup r.page : v <= r.after) /\ offered[r.cur] \cap r.page = {}
      BY <3>1 DEF Turn
    <3>3. PICK tried : tried = offered[r.cur] \cup {u}
      OBVIOUS
    <3>4. (\A v \in tried \cup r.page : v <= r.after) /\ tried \cap r.page \subseteq {u}
      BY <3>2, <3>3, <2>2
    <3> QED BY <2>2, <3>2, <3>3, <3>4
  <2>5. ASSUME NEW e \in Events \ redo'
        PROVE  /\ Has(new, e) <=> Has(r, e)
               /\ offered'[e] = offered[e] \/ r.cur = e
               /\ e = new.cur => Turn(new, offered'[e])
               /\ e \notin again'
    <3>1. e \notin again /\ e \in Events \ redo
      BY <2>5 DEF OnceInv, Fresh
    <3>2. CASE e = r.cur
      <4>1. u \notin offered[e] /\ Turn(new, offered[e] \cup {u})
        BY <2>4, <3>1, <3>2
      <4>2. offered'[e] = offered[e] \cup {u}
        BY <2>1, <3>1, <3>2 DEF IInv, Rest
      <4> QED BY <2>1, <3>1, <3>2, <4>1, <4>2 DEF Has
    <3>3. CASE e # r.cur
      <4>1. offered'[e] = offered[e]
        BY <2>1, <3>1, <3>3 DEF IInv, Rest
      <4> QED BY <2>1, <3>1, <3>3, <4>1 DEF Has
    <3> QED BY <3>2, <3>3
  <2> QED BY <1>1, <1>3, <2>3, <2>5, FreshStep
<1> QED BY <1>2, <1>3

LEMMA CheckPushOnce == ASSUME IInv, OnceInv, NEW j \in Jobs, CheckPush(j) PROVE OnceInv'
<1>1. PICK r \in Records : r = job[j] /\ Placed(r)
  BY Here
<1>2. PICK u : u = Least(r.page)
  OBVIOUS
<1>3. PICK log : log = [r EXCEPT !.user = u, !.pc = "log"]
  OBVIOUS
<1>4. PICK next : next = AfterUser(r, u)
  OBVIOUS
<1>5. PICK new : new \in {log, next} /\ Goto(j, new)
  BY <1>1, <1>2, <1>3, <1>4 DEF CheckPush
<1>6. r.pc = "count" /\ Tried(r, u) /\ UNCHANGED redo
  BY <1>1, <1>2 DEF CheckPush
<1>7. /\ log.kind = r.kind /\ log.items = r.items /\ log.done = r.done /\ log.cur = r.cur
      /\ log.pc = "log" /\ log.page = r.page /\ log.after = r.after /\ log.user = u
  BY <1>3 DEF Records
<1>8. /\ new.kind = r.kind /\ new.items = r.items /\ new.done = r.done /\ new.cur = r.cur
      /\ new.pc \in {"count", "list", "done", "log"}
  BY <1>4, <1>5, <1>7, AfterUserStays
<1>9. ASSUME NEW tried, \A v \in tried \cup r.page : v <= r.after, tried \cap r.page \subseteq {u}
      PROVE  Turn(new, tried)
  <2>1. Turn(next, tried)
    BY <1>4, <1>9, TurnAfterUser
  <2>2. Turn(log, tried)
    BY <1>7, <1>9 DEF Turn
  <2> QED BY <1>5, <2>1, <2>2
<1> QED BY <1>1, <1>2, <1>5, <1>6, <1>8, <1>9, CountOnce

LEMMA CheckFailsOnce == ASSUME IInv, OnceInv, NEW j \in Jobs, CheckFails(j) PROVE OnceInv'
<1>1. PICK r \in Records : r = job[j] /\ Placed(r)
  BY Here
<1>2. PICK u : u = Least(r.page)
  OBVIOUS
<1>3. PICK new : new = AfterUser(r, u)
  OBVIOUS
<1>4. r.pc = "count" /\ Tried(r, u) /\ UNCHANGED redo /\ Goto(j, new)
  BY <1>1, <1>2, <1>3 DEF CheckFails
<1>5. /\ new.kind = r.kind /\ new.items = r.items /\ new.done = r.done /\ new.cur = r.cur
      /\ new.pc \in {"count", "list", "done", "log"}
  BY <1>3, AfterUserStays
<1>6. ASSUME NEW tried, \A v \in tried \cup r.page : v <= r.after, tried \cap r.page \subseteq {u}
      PROVE  Turn(new, tried)
  BY <1>3, <1>6, TurnAfterUser
<1> QED BY <1>1, <1>2, <1>4, <1>5, <1>6, CountOnce

(* A step within the page, at which nobody is tried.                       *)
LEMMA WithinPage ==
    ASSUME IInv, OnceInv, NEW j \in Jobs, NEW r \in Records, r = job[j], r.pc \in {"log", "send"},
           NEW new, Goto(j, new), UNCHANGED <<offered, again, redo>>,
           new.kind = r.kind, new.items = r.items, new.done = r.done, new.cur = r.cur,
           new.pc \in {"count", "list", "done", "send", "hung"},
           \A tried : (\A v \in tried \cup r.page : v <= r.after) /\ tried \cap r.page \subseteq {r.user}
                         => Turn(new, tried)
    PROVE  OnceInv'
<1>1. CASE r.kind # "poll"
  BY <1>1, QuietOnce
<1>2. CASE r.kind = "poll"
  <2>1. ASSUME r.cur \in Events \ redo PROVE Turn(new, offered[r.cur])
    <3>1. Turn(r, offered[r.cur])
      BY <1>2, <2>1, TurnIs
    <3>2. (\A v \in offered[r.cur] \cup r.page : v <= r.after) /\ offered[r.cur] \cap r.page \subseteq {r.user}
      BY <3>1 DEF Turn
    <3> QED BY <3>2
  <2> QED BY <1>2, <2>1, GotoIs, FreshPlace
<1> QED BY <1>1, <1>2

LEMMA LogPushOnce == ASSUME IInv, OnceInv, NEW j \in Jobs, LogPush(j) PROVE OnceInv'
<1>1. PICK r \in Records : r = job[j]
  BY Here
<1>2. PICK new : new = [r EXCEPT !.pc = "send"]
  OBVIOUS
<1>3. r.pc = "log" /\ UNCHANGED <<offered, again, redo>> /\ Goto(j, new)
  BY <1>1, <1>2 DEF LogPush
<1>4. /\ new.kind = r.kind /\ new.items = r.items /\ new.done = r.done /\ new.cur = r.cur
      /\ new.pc = "send" /\ new.page = r.page /\ new.after = r.after /\ new.user = r.user
  BY <1>2 DEF Records
<1>5. ASSUME NEW tried, \A v \in tried \cup r.page : v <= r.after, tried \cap r.page \subseteq {r.user}
      PROVE  Turn(new, tried)
  BY <1>4, <1>5 DEF Turn
<1> QED BY <1>1, <1>3, <1>4, <1>5, WithinPage

LEMMA SendMailOnce == ASSUME IInv, OnceInv, NEW j \in Jobs, SendMail(j) PROVE OnceInv'
<1>1. PICK r \in Records : r = job[j]
  BY Here
<1>2. PICK new : new = AfterUser(r, r.user)
  OBVIOUS
<1>3. r.pc = "send" /\ UNCHANGED <<offered, again, redo>> /\ Goto(j, new)
  BY <1>1, <1>2 DEF SendMail
<1>4. /\ new.kind = r.kind /\ new.items = r.items /\ new.done = r.done /\ new.cur = r.cur
      /\ new.pc \in {"count", "list", "done"}
  BY <1>2, AfterUserStays
<1>5. ASSUME NEW tried, \A v \in tried \cup r.page : v <= r.after, tried \cap r.page \subseteq {r.user}
      PROVE  Turn(new, tried)
  BY <1>2, <1>5, TurnAfterUser
<1> QED BY <1>1, <1>3, <1>4, <1>5, WithinPage

LEMMA SendHangsOnce == ASSUME IInv, OnceInv, NEW j \in Jobs, SendHangs(j) PROVE OnceInv'
<1>1. PICK r \in Records : r = job[j]
  BY Here
<1>2. PICK new : new = [r EXCEPT !.pc = "hung"]
  OBVIOUS
<1>3. r.pc \in {"send", "batch"} /\ UNCHANGED <<offered, again, redo>> /\ Goto(j, new)
  BY <1>1, <1>2 DEF SendHangs
<1>4. /\ new.kind = r.kind /\ new.items = r.items /\ new.done = r.done /\ new.cur = r.cur
      /\ new.pc = "hung"
  BY <1>2 DEF Records
<1>5. CASE r.pc = "send"
  <2>1. \A tried : Turn(new, tried)
    BY <1>4 DEF Turn
  <2> QED BY <1>1, <1>3, <1>4, <1>5, <2>1, WithinPage
<1>6. CASE r.pc = "batch"
  <2>1. r.kind # "poll"
    BY <1>1, <1>6 DEF OnceInv, Shaped
  <2> QED BY <1>1, <1>3, <1>4, <2>1, QuietOnce
<1> QED BY <1>3, <1>5, <1>6

-----------------------------------------------------------------------------
(* The event is done with, and the poll.                                   *)

LEMMA ItemDoneOnce == ASSUME IInv, OnceInv, NEW j \in Jobs, ItemDone(j) PROVE OnceInv'
<1>1. PICK r \in Records : r = job[j] /\ Placed(r)
  BY Here
<1>2. PICK done : done = IF r.kind = "poll" THEN r.done \cup {r.cur} ELSE r.done
  OBVIOUS
<1>3. /\ r.pc = "done" /\ UNCHANGED <<offered, again, redo>>
      /\ Goto(j, IF r.kind = "briefing" THEN Idle ELSE [Finish(r) EXCEPT !.done = done])
  <2>1. Finish(r).done = r.done
    BY DEF Finish, Records
  <2>2. [Finish(r) EXCEPT !.done = IF r.kind = "poll" THEN @ \cup {r.cur} ELSE @]
          = [Finish(r) EXCEPT !.done = done]
    BY <2>1, <1>2
  <2> QED BY <2>2, <1>1 DEF ItemDone
<1>4. PICK new : new = [Finish(r) EXCEPT !.done = done]
  OBVIOUS
<1>5. new.kind = r.kind /\ new.items = r.items /\ new.cur = None /\ new.done = done /\ new.pc = "pick"
  BY <1>4 DEF Finish, Records
<1>6. CASE r.kind = "briefing"
  BY <1>1, <1>3, <1>6, QuietOnce DEF Idle
<1>7. CASE r.kind \notin {"briefing", "poll"}
  BY <1>1, <1>3, <1>4, <1>5, <1>7, QuietOnce
<1>8. CASE r.kind = "poll"
  <2>1. job' = [job EXCEPT ![j] = new] /\ UNCHANGED events
    BY <1>3, <1>4, <1>8, GotoIs
  <2>2. Shaped(new)
    BY <1>1, <1>5, <1>8, PushAssumption DEF Shaped, Placed
  <2>3. ASSUME NEW e \in Events \ redo'
        PROVE  (Has(new, e) <=> Has(r, e)) /\ e # new.cur /\ e \notin again'
    <3>1. e # None /\ Fresh(e)
      BY <2>3, <1>3, PushAssumption DEF OnceInv
    <3> QED BY <3>1, <1>2, <1>3, <1>5, <1>8 DEF Has, Fresh
  <2> QED BY <1>1, <1>3, <1>5, <1>8, <2>1, <2>2, <2>3, FreshStep
<1> QED BY <1>6, <1>7, <1>8

(* The goroutine of a poll that holds no event any more, or only those it  *)
(* marks, or drops to be tried again, ends.                                *)
LEMMA EndOnce ==
    ASSUME IInv, OnceInv, NEW j \in Jobs, NEW r, r = job[j], job' = [job EXCEPT ![j] = Idle],
           UNCHANGED <<offered, again>>, redo \subseteq redo',
           \A e \in Events \ redo' : /\ events'[e] \in {events[e], "alerted"}
                                     /\ Has(r, e) => events'[e] = "alerted"
    PROVE  OnceInv'
<1>1. Shaped(Idle) /\ Idle.kind # "poll" /\ \A e : ~ Has(Idle, e)
  BY DEF Shaped, Idle, Has
<1>2. \A e \in Events \ redo' : e \notin again'
  BY DEF OnceInv, Fresh
<1> QED BY <1>1, <1>2, FreshStep

LEMMA NoMoreItemsOnce == ASSUME IInv, OnceInv, NEW j \in Jobs, NoMoreItems(j) PROVE OnceInv'
<1>1. PICK r \in Records : r = job[j] /\ Placed(r)
  BY Here
<1>2. PICK new : new = [r EXCEPT !.pc = "mark"]
  OBVIOUS
<1>3. /\ r.pc = "pick" /\ r.items = {} /\ UNCHANGED <<offered, again, redo>>
      /\ Goto(j, IF r.kind = "poll" /\ r.done # {} THEN new ELSE Idle)
  BY <1>1, <1>2 DEF NoMoreItems
<1>4. r.kind = "poll" => r.cur = None
  BY <1>1, <1>3 DEF OnceInv, Shaped
<1>5. CASE r.kind = "poll" /\ r.done # {}
  <2>1. /\ new.kind = "poll" /\ new.items = {} /\ new.done = r.done /\ new.cur = None
        /\ new.pc = "mark"
    BY <1>2, <1>3, <1>4, <1>5 DEF Records
  <2>2. Shaped(new)
    BY <2>1 DEF Shaped
  <2>3. ASSUME NEW e \in Events \ redo'
        PROVE  (Has(new, e) <=> Has(r, e)) /\ e # new.cur /\ e \notin new.items /\ e \notin again'
    <3>1. e # None /\ Fresh(e)
      BY <2>3, <1>3, PushAssumption DEF OnceInv
    <3> QED BY <3>1, <1>3, <1>4, <1>5, <2>1 DEF Has, Fresh
  <2>4. job' = [job EXCEPT ![j] = new] /\ UNCHANGED events
    BY <1>3, <1>5, GotoIs
  <2> QED BY <1>1, <1>3, <1>5, <2>1, <2>2, <2>3, <2>4, FreshStep
<1>6. CASE ~ (r.kind = "poll" /\ r.done # {})
  <2>1. job' = [job EXCEPT ![j] = Idle] /\ UNCHANGED events
    BY <1>3, <1>6, GotoIs
  <2>2. \A e \in Events : ~ Has(r, e)
    BY <1>3, <1>4, <1>6, PushAssumption DEF Has
  <2> QED BY <1>1, <1>3, <2>1, <2>2, EndOnce
<1> QED BY <1>5, <1>6

(* What a poll that marks holds is what it has done.                       *)
LEMMA MarkHolds ==
    ASSUME OnceInv, NEW j \in Jobs, job[j].pc = "mark", NEW e \in Events, Has(job[j], e)
    PROVE  e \in job[j].done
BY PushAssumption DEF OnceInv, Shaped, Has

LEMMA MarkAlertedOnce == ASSUME IInv, OnceInv, NEW j \in Jobs, MarkAlerted(j) PROVE OnceInv'
<1>1. /\ job' = [job EXCEPT ![j] = Idle] /\ UNCHANGED <<offered, again, redo>>
      /\ events' = [e \in Events |-> IF e \in job[j].done THEN "alerted" ELSE events[e]]
      /\ job[j].pc = "mark"
  BY DEF MarkAlerted, history
<1>2. ASSUME NEW e \in Events \ redo'
      PROVE  /\ events'[e] \in {events[e], "alerted"}
             /\ Has(job[j], e) => events'[e] = "alerted"
  BY <1>1, <1>2, MarkHolds
<1> QED BY <1>1, <1>2, EndOnce

LEMMA MarkFailsOnce == ASSUME IInv, OnceInv, NEW j \in Jobs, MarkFails(j) PROVE OnceInv'
<1>1. /\ job' = [job EXCEPT ![j] = Idle] /\ UNCHANGED <<events, offered, again>>
      /\ redo' = redo \cup job[j].done /\ job[j].pc = "mark"
  BY GotoIs DEF MarkFails
<1>2. \A e \in Events \ redo' : ~ Has(job[j], e)
  BY <1>1, MarkHolds
<1> QED BY <1>1, <1>2, EndOnce

-----------------------------------------------------------------------------
(* The entries fire, and the rest of the system.                           *)

LEMMA StartOnce ==
    ASSUME IInv, OnceInv, NEW j \in Jobs, NEW k, NEW items, NEW pc, Start(j, k, items, pc),
           k # "poll", UNCHANGED redo
    PROVE  OnceInv'
<1>1. PICK new : new = [Idle EXCEPT !.kind = k, !.items = items, !.pc = pc]
  OBVIOUS
<1>2. new.kind = k /\ Idle.kind # "poll"
  BY <1>1 DEF Idle
<1>3. job[j] = Idle /\ job' = [job EXCEPT ![j] = new] /\ UNCHANGED <<events, offered, again>>
  BY <1>1 DEF Start, table
<1> QED BY <1>2, <1>3, FreshElse

(* The new poll takes the events that are not marked: those that another   *)
(* holds may be tried again, the others nobody has tried.                  *)
LEMMA StartEventPollingOnce ==
    ASSUME IInv, OnceInv, NEW j \in Jobs, StartEventPolling(j) PROVE OnceInv'
<1>0. PICK list \in SUBSET GetUnalerted :
        /\ Start(j, "poll", list, "pick")
        /\ redo' = redo \cup {e \in list : \E i \in Jobs : Holds(i, e)}
  BY DEF StartEventPolling, Listed
<1>1. PICK new : new = [Idle EXCEPT !.kind = "poll", !.items = list, !.pc = "pick"]
  OBVIOUS
<1>2. /\ new.kind = "poll" /\ new.items = list /\ new.pc = "pick" /\ new.cur = None
      /\ new.done = {}
  BY <1>1 DEF Idle
<1>3. /\ job[j] = Idle /\ job' = [job EXCEPT ![j] = new] /\ UNCHANGED <<events, offered, again>>
      /\ redo' = redo \cup {e \in list : \E i \in Jobs : Has(job[i], e)}
  BY <1>0, <1>1 DEF Start, table, Holds, Has
<1>4. \A i \in Jobs : job'[i] = IF i = j THEN new ELSE job[i]
  BY <1>3 DEF IInv
<1>5. list \subseteq {e \in Events : events[e] = "unalerted"} /\ None \notin list
  BY PushAssumption DEF GetUnalerted
<1>6. Shaped(new)
  BY <1>2, <1>5 DEF Shaped
<1>7. \A i \in Jobs : Shaped(job[i])'
  <2>1. ASSUME NEW i \in Jobs PROVE Shaped(job'[i])
    BY <1>4, <1>6 DEF OnceInv
  <2> QED BY <2>1 DEF Shaped
<1>8. ASSUME NEW e \in Events \ redo' PROVE Fresh(e)'
  <2>1. Fresh(e) /\ e # None
    BY <1>3, <1>8, PushAssumption DEF OnceInv
  <2>2. ~ Has(Idle, e)
    BY DEF Has, Idle
  <2>3. Has(new, e) <=> e \in list
    BY <1>2, <2>1 DEF Has
  <2>4. e \in list => (\A i \in Jobs : ~ Has(job[i], e)) /\ offered[e] = {}
    BY <1>3, <1>5, <1>8, <2>1 DEF Fresh
  <2>5. \A i, k \in Jobs : Has(job'[i], e) /\ Has(job'[k], e) => i = k
    BY <1>4, <2>1, <2>3, <2>4 DEF Fresh
  <2>6. events'[e] # "alerted" /\ (\A i \in Jobs : ~ Has(job'[i], e)) => offered'[e] = {}
    <3>1. ASSUME \A i \in Jobs : ~ Has(job'[i], e) PROVE \A i \in Jobs : ~ Has(job[i], e)
      BY <1>3, <1>4, <2>2, <3>1
    <3> QED BY <1>3, <2>1, <3>1 DEF Fresh
  <2>7. ASSUME NEW i \in Jobs, job'[i].kind = "poll"
        PROVE  /\ e \in job'[i].items => offered'[e] = {}
               /\ e = job'[i].cur => Turn(job'[i], offered'[e])
    <3>1. CASE i = j
      BY <1>2, <1>3, <1>4, <2>1, <2>4, <3>1
    <3>2. CASE i # j
      BY <1>3, <1>4, <2>1, <2>7, <3>2 DEF Fresh
    <3> QED BY <3>1, <3>2
  <2> QED BY <1>3, <2>1, <2>5, <2>6, <2>7 DEF Fresh, Has, Turn
<1> QED BY <1>7, <1>8 DEF OnceInv

(* Neither a goroutine nor a mark is touched.                              *)
LEMMA OthersOnce ==
    ASSUME OnceInv, UNCHANGED <<job, offered, again, redo>>,
           \A e \in Events : events'[e] = "alerted" <=> events[e] = "alerted"
    PROVE  OnceInv'
<1>1. \A j \in Jobs : Shaped(job[j])'
  BY DEF OnceInv, Shaped
<1>2. ASSUME NEW e \in Events \ redo' PROVE Fresh(e)'
  <2>1. Fresh(e)
    BY <1>2 DEF OnceInv
  <2> QED BY <1>2, <2>1 DEF Fresh, Has, Turn
<1> QED BY <1>1, <1>2 DEF OnceInv

LEMMA FireOnce == ASSUME IInv, OnceInv, Fire PROVE OnceInv'
<1>1. ASSUME NEW j \in Jobs, StartScoreAlert(j) PROVE OnceInv'
  BY <1>1, StartOnce DEF StartScoreAlert
<1>2. ASSUME NEW j \in Jobs, StartClosingAlert(j) PROVE OnceInv'
  BY <1>2, StartOnce DEF StartClosingAlert
<1>3. ASSUME NEW j \in Jobs, StartBriefing(j) PROVE OnceInv'
  BY <1>3, StartOnce DEF StartBriefing
<1>4. ASSUME NEW j \in Jobs, StartWeeklyInsight(j) PROVE OnceInv'
  BY <1>4, StartOnce DEF StartWeeklyInsight
<1>5. ASSUME NEW j \in Jobs, AdmitUser(j) PROVE OnceInv'
  <2>1. PICK new : new = [Idle EXCEPT !.kind = "holding", !.items = {Least(queue)}, !.pc = "pick"]
    OBVIOUS
  <2>2. new.kind = "holding" /\ Idle.kind # "poll"
    BY <2>1 DEF Idle
  <2>3. job[j] = Idle /\ job' = [job EXCEPT ![j] = new] /\ UNCHANGED <<events, offered, again, redo>>
    BY <1>5, <2>1 DEF AdmitUser, table, history
  <2> QED BY <2>2, <2>3, FreshElse
<1>6. ASSUME StartHoldingAnalysis \/ \E k \in Kinds : SkipRound(k) PROVE OnceInv'
  <2>1. UNCHANGED <<job, events, offered, again, redo>>
    BY <1>6 DEF StartHoldingAnalysis, SkipRound, table, history
  <2> QED BY <2>1, OthersOnce
<1> QED BY <1>1, <1>2, <1>3, <1>4, <1>5, <1>6, StartEventPollingOnce DEF Fire

(* The events that the killed polls held are tried again.                  *)
LEMMA CrashOnce == ASSUME IInv, OnceInv, Crash PROVE OnceInv'
<1>1. /\ job' = [j \in Jobs |-> Idle] /\ UNCHANGED <<events, offered, again>>
      /\ redo' = redo \cup {e \in Events : \E j \in Jobs : Has(job[j], e)}
  BY DEF Crash, table, Holds, Has
<1>2. Shaped(Idle) /\ Idle.kind # "poll" /\ \A e : ~ Has(Idle, e)
  BY DEF Shaped, Idle, Has
<1>3. \A j \in Jobs : Shaped(job[j])'
  BY <1>1, <1>2 DEF Shaped
<1>4. ASSUME NEW e \in Events \ redo' PROVE Fresh(e)'
  <2>1. Fresh(e) /\ \A j \in Jobs : ~ Has(job[j], e)
    BY <1>1, <1>4 DEF OnceInv
  <2>2. \A j \in Jobs : job'[j] = Idle
    BY <1>1
  <2> QED BY <1>1, <1>2, <2>1, <2>2 DEF Fresh, Has, Turn
<1> QED BY <1>3, <1>4 DEF OnceInv

LEMMA OnceNext == ASSUME IInv, OnceInv, [Next]_vars PROVE OnceInv'
<1>1. CASE Fire
  BY <1>1, FireOnce
<1>2. ASSUME NEW j \in Jobs, Step(j) PROVE OnceInv'
  BY <1>2, PickItemOnce, AnalyzeHoldingOnce, ListUsersOnce, CollectOnce, CheckPushOnce,
     LogPushOnce, SendMailOnce, SendBatchOnce, ItemDoneOnce, NoMoreItemsOnce,
     MarkAlertedOnce DEF Step
<1>3. ASSUME NEW j \in Jobs, Trouble(j) PROVE OnceInv'
  BY <1>3, PageBreaksOffOnce, ListFailsOnce, CheckFailsOnce, MarkFailsOnce, SendHangsOnce DEF Trouble
<1>4. CASE Tick \/ \E u \in Users : UpdateEmailPush(u) \/ SendToUser(u)
  <2>1. UNCHANGED <<job, events, offered, again, redo>>
    BY <1>4 DEF Tick, UpdateEmailPush, SendToUser, history
  <2> QED BY <2>1, OthersOnce
<1>5. ASSUME NEW a \in Assets, AnalysisPersisted(a) PROVE OnceInv'
  <2>1. UNCHANGED <<job, events, offered, again, redo>>
    BY <1>5 DEF AnalysisPersisted, history
  <2> QED BY <2>1, OthersOnce
<1>6. ASSUME NEW e \in Events, EventDetected(e) PROVE OnceInv'
  <2>1. /\ UNCHANGED <<job, offered, again, redo>> /\ events[e] = "none"
        /\ events' = [events EXCEPT ![e] = "unalerted"]
    BY <1>6 DEF EventDetected
  <2>2. \A f \in Events : events'[f] = "alerted" <=> events[f] = "alerted"
    BY <2>1 DEF IInv, Rest
  <2> QED BY <2>1, <2>2, OthersOnce
<1>7. CASE UNCHANGED vars
  BY <1>7, OthersOnce DEF vars, table, history
<1> QED BY <1>1, <1>2, <1>3, <1>4, <1>5, <1>6, <1>7, CrashOnce DEF Next

LEMMA OnceInit == Init => OnceInv
<1> SUFFICES ASSUME Init PROVE OnceInv
  OBVIOUS
<1>1. Shaped(Idle) /\ Idle.kind # "poll" /\ \A e : ~ Has(Idle, e)
  BY DEF Shaped, Idle, Has
<1>2. /\ \A j \in Jobs : job[j] = Idle
      /\ \A e \in Events : events[e] = "none" /\ offered[e] = {} /\ e \notin again
  BY DEF Init
<1> QED BY <1>1, <1>2 DEF OnceInv, Fresh

(* Without a fault, a kill or an overlap of two polls, the alert of an     *)
(* event is tried at most once for each user.                              *)
THEOREM OncePerUser == Spec => []TriedOnce
<1>1. IInv /\ OnceInv => TriedOnce
  BY DEF IInv, Rest, OnceInv, Fresh, TriedOnce
<1>2. IInv /\ OnceInv /\ [Next]_vars => OnceInv'
  BY OnceNext
<1> QED BY <1>1, <1>2, OnceInit, Inductive, PTL DEF Spec
=============================================================================
