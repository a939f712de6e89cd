--------------------------- MODULE RequestsProofs ---------------------------
(***************************************************************************)
(* What the eight kinds of requests promise, for any numbers of workers,   *)
(* rows, codes, holdings, analyses, limits and faults.  Each has an        *)
(* inductive invariant of its own; those of the registrations and of the   *)
(* market's pages are proved beside their modules and are used here as     *)
(* they are.  The assumptions are those of the module Requests.            *)
(***************************************************************************)
EXTENDS Requests, FiniteSetTheorems, SequenceTheorems, WellFoundedInduction, TLAPS

IP == INSTANCE InviteRegistrationProofs WITH req <- iReq
MP == INSTANCE MarketReadsProofs WITH now <- mNow, req <- mReq

(* The smaller of two numbers: what has a number has a smallest one.       *)
Below == {p \in Nat \X Nat : p[1] < p[2]}

LEMMA BelowWellFounded == IsWellFoundedOn(Below, Nat)
<1>1. OpToRel(<, Nat) = Below
  BY DEF OpToRel, Below
<1> QED BY <1>1, NatLessThanWellFounded

-----------------------------------------------------------------------------
(* Registration.  Its invariant is that of InviteRegistrationProofs.        *)
LEMMA SameRegistration ==
    /\ I!InviteAssumption <=> IP!InviteAssumption
    /\ I!Init <=> IP!Init
    /\ I!Next <=> IP!Next
    /\ I!TypeOK <=> IP!TypeOK
    /\ I!PersonalAtomic <=> IP!PersonalAtomic
    /\ I!OneAccountPerEmail <=> IP!OneAccountPerEmail
    /\ I!CodeLimits <=> IP!CodeLimits
<1>1. I!InviteAssumption <=> IP!InviteAssumption
  BY Zenon DEF I!InviteAssumption, IP!InviteAssumption, I!Cardinality,
         IP!Cardinality, I!IsFiniteSet, IP!IsFiniteSet
<1>2. I!Init <=> IP!Init
  BY Zenon DEF I!NoUser, IP!NoUser, I!NoRequest, IP!NoRequest, I!Init, IP!Init,
         I!Cardinality, IP!Cardinality, I!IsFiniteSet, IP!IsFiniteSet
<1>3. I!Next <=> IP!Next
  BY Zenon DEF I!NoUser, IP!NoUser, I!NoRequest, IP!NoRequest, I!Goto, IP!Goto,
         I!Answer, IP!Answer, I!Owned, IP!Owned, I!CountByUser, IP!CountByUser,
         I!CountUnusedByUser, IP!CountUnusedByUser, I!GetUserByEmail,
         IP!GetUserByEmail, I!Pending, IP!Pending, I!Rollback, IP!Rollback, I!Rare,
         IP!Rare, I!Register, IP!Register, I!CheckEmail, IP!CheckEmail, I!NewUser,
         IP!NewUser, I!NextId, IP!NextId, I!CreateUser, IP!CreateUser,
         I!MarkDisclaimerAccepted, IP!MarkDisclaimerAccepted,
         I!IncrementInviteCodeUsage, IP!IncrementInviteCodeUsage, I!ConsumeCode,
         IP!ConsumeCode, I!Commit, IP!Commit, I!RegistrationFails,
         IP!RegistrationFails, I!Login, IP!Login, I!NextStreak, IP!NextStreak,
         I!UpdateLoginStreak, IP!UpdateLoginStreak, I!CountTotal, IP!CountTotal,
         I!CountUnused, IP!CountUnused, I!CreateOneCode, IP!CreateOneCode,
         I!LoginFails, IP!LoginFails, I!SoftDeleteUser, IP!SoftDeleteUser,
         I!ClearUsedByForUser, IP!ClearUsedByForUser, I!NextDay, IP!NextDay, I!Next,
         IP!Next, I!Cardinality, IP!Cardinality, I!IsFiniteSet, IP!IsFiniteSet
<1>4. I!TypeOK <=> IP!TypeOK
  BY Zenon DEF I!TypeOK, IP!TypeOK, I!Cardinality, IP!Cardinality, I!IsFiniteSet,
         IP!IsFiniteSet
<1>5. I!PersonalAtomic <=> IP!PersonalAtomic
  BY Zenon DEF I!Committed, IP!Committed, I!PersonalAtomic, IP!PersonalAtomic,
         I!Cardinality, IP!Cardinality, I!IsFiniteSet, IP!IsFiniteSet
<1>6. I!OneAccountPerEmail <=> IP!OneAccountPerEmail
  BY Zenon DEF I!GetUserByEmail, IP!GetUserByEmail, I!OneAccountPerEmail,
         IP!OneAccountPerEmail, I!Cardinality, IP!Cardinality, I!IsFiniteSet,
         IP!IsFiniteSet
<1>7. I!CodeLimits <=> IP!CodeLimits
  BY Zenon DEF I!Owned, IP!Owned, I!CountByUser, IP!CountByUser, I!ViaGlobal,
         IP!ViaGlobal, I!GlobalBound, IP!GlobalBound, I!CodesBound, IP!CodesBound,
         I!CodeLimits, IP!CodeLimits, I!Cardinality, IP!Cardinality, I!IsFiniteSet,
         IP!IsFiniteSet
<1> QED BY <1>1, <1>2, <1>3, <1>4, <1>5, <1>6, <1>7

LEMMA RegistrationInit == ASSUME I!Init PROVE IP!IInv
BY RequestsAssumption, SameRegistration, IP!InvInit

LEMMA RegistrationStep == ASSUME IP!IInv, I!Next \/ UNCHANGED iVars PROVE IP!IInv'
<1>1. UNCHANGED iVars => UNCHANGED IP!vars
  BY DEF iVars, IP!vars
<1> QED BY <1>1, RequestsAssumption, SameRegistration, IP!InvNext

LEMMA RegistrationIs ==
    ASSUME IP!IInv PROVE I!TypeOK /\ I!PersonalAtomic /\ I!OneAccountPerEmail /\ I!CodeLimits
<1>1. IP!TypeOK /\ IP!PersonalAtomic
  BY IP!TypesAre DEF IP!IInv
<1> QED BY <1>1, RequestsAssumption, SameRegistration, IP!OneAccountIs, IP!CodeLimitsAre

-----------------------------------------------------------------------------
(* The portfolio.                                                          *)

PositionStates == [cost : P!Costs, quantity : Int]
Trade == [buy : BOOLEAN, price : Int, quantity : Int]

LEMMA ApplyType ==
    ASSUME NEW p \in PositionStates, NEW t \in Trade
    PROVE  P!Apply(p, t) \in PositionStates
<1>0. /\ p.cost \in P!Costs /\ p.quantity \in Int /\ p.cost.n \in Int /\ p.cost.d \in Nat \ {0}
      /\ t.buy \in BOOLEAN /\ t.price \in Int /\ t.quantity \in Int
  BY DEF PositionStates, Trade, P!Costs
<1>1. CASE t.buy /\ p.quantity + t.quantity > 0
  <2>1. p.quantity + t.quantity \in Nat \ {0}
    BY <1>0, <1>1
  <2>2. p.cost.n * p.quantity \in Int /\ t.price * t.quantity \in Int
    BY <1>0
  <2>3. t.price * t.quantity * p.cost.d \in Int
    BY <1>0, <2>2
  <2>4. p.cost.d * (p.quantity + t.quantity) \in Nat \ {0}
    BY <1>0, <2>1
  <2>5. P!Average(p, t) \in P!Costs
    BY <2>2, <2>3, <2>4 DEF P!Average, P!Costs
  <2> QED  BY <1>0, <1>1, <2>5 DEF P!Apply, PositionStates
<1>2. CASE t.buy /\ ~ (p.quantity + t.quantity > 0)
  BY <1>0, <1>2 DEF P!Apply, PositionStates
<1>3. CASE ~ t.buy
  BY <1>0, <1>3 DEF P!Apply, PositionStates
<1> QED  BY <1>0, <1>1, <1>2, <1>3

(* What the recalculation has after each of the trades.                    *)
After(p, list) ==
    CHOOSE after : after = [i \in 0 .. Len(list) |->
                               IF i = 0 THEN p ELSE P!Apply(after[i - 1], list[i])]

Prefixes(p, list, n, after) ==
    /\ after \in [0 .. n -> PositionStates] /\ after[0] = p
    /\ \A i \in 1 .. n : after[i] = P!Apply(after[i - 1], list[i])

LEMMA PrefixesExist ==
    ASSUME NEW p \in PositionStates, NEW list \in Seq(Trade)
    PROVE  \A n \in 0 .. Len(list) : \E after : Prefixes(p, list, n, after)
<1> DEFINE bad == {n \in 0 .. Len(list) : ~ \E after : Prefixes(p, list, n, after)}
<1>0. Len(list) \in Nat
  OBVIOUS
<1>1. SUFFICES ASSUME bad # {} PROVE FALSE
  OBVIOUS
<1>2. PICK n \in bad : \A m \in bad : ~ <<m, n>> \in Below
  <2>1. bad \subseteq Nat
    BY <1>0
  <2> HIDE DEF bad
  <2> QED  BY <1>1, <2>1, BelowWellFounded, WFMin
<1>3. n \in 0 .. Len(list) /\ ~ \E after : Prefixes(p, list, n, after)
  OBVIOUS
<1>4. CASE n = 0
  <2>1. Prefixes(p, list, 0, [i \in 0 .. 0 |-> p])
    BY DEF Prefixes
  <2> QED  BY <1>3, <1>4, <2>1
<1>5. CASE n # 0
  <2>1. n - 1 \in 0 .. Len(list) /\ <<n - 1, n>> \in Below
    BY <1>0, <1>3, <1>5 DEF Below, OpToRel
  <2>2. n - 1 \notin bad
    BY <1>2, <2>1
  <2>3. PICK after : Prefixes(p, list, n - 1, after)
    BY <2>1, <2>2
  <2> DEFINE longer == [i \in 0 .. n |-> IF i = n THEN P!Apply(after[n - 1], list[n]) ELSE after[i]]
  <2>4. after[n - 1] \in PositionStates /\ list[n] \in Trade
    BY <1>0, <1>3, <1>5, <2>3 DEF Prefixes
  <2>5. P!Apply(after[n - 1], list[n]) \in PositionStates
    BY <2>4, ApplyType
  <2>6. longer \in [0 .. n -> PositionStates]
    BY <1>0, <1>3, <2>3, <2>5 DEF Prefixes
  <2>7. longer[0] = p /\ \A i \in 1 .. n : longer[i] = P!Apply(longer[i - 1], list[i])
    BY <1>0, <1>3, <1>5, <2>3 DEF Prefixes
  <2>8. Prefixes(p, list, n, longer)
    BY <2>6, <2>7 DEF Prefixes
  <2> QED  BY <1>3, <2>8
<1> QED  BY <1>4, <1>5

LEMMA RecalculateIs ==
    ASSUME NEW p \in PositionStates, NEW list \in Seq(Trade)
    PROVE  /\ Prefixes(p, list, Len(list), After(p, list))
           /\ P!RecalculateCost(p, list) = After(p, list)[Len(list)]
           /\ P!RecalculateCost(p, list) \in PositionStates
<1>0. Len(list) \in Nat
  OBVIOUS
<1>1. PICK after : Prefixes(p, list, Len(list), after)
  BY <1>0, PrefixesExist
<1>2. after = [i \in 0 .. Len(list) |-> IF i = 0 THEN p ELSE P!Apply(after[i - 1], list[i])]
  BY <1>0, <1>1 DEF Prefixes
<1> DEFINE found == After(p, list)
<1>3. found = [i \in 0 .. Len(list) |-> IF i = 0 THEN p ELSE P!Apply(found[i - 1], list[i])]
  BY <1>2 DEF After
<1>4. P!RecalculateCost(p, list) = found[Len(list)]
  BY Zenon DEF P!RecalculateCost, After
<1> HIDE DEF found
<1>5. DOMAIN found = 0 .. Len(list) /\ found[0] = p
      /\ \A i \in 1 .. Len(list) : found[i] = P!Apply(found[i - 1], list[i])
  BY <1>0, <1>3
<1>6. \A i \in 0 .. Len(list) : found[i] \in PositionStates
  <2> DEFINE bad == {i \in 0 .. Len(list) : found[i] \notin PositionStates}
  <2>1. SUFFICES ASSUME bad # {} PROVE FALSE
    OBVIOUS
  <2>2. PICK n \in bad : \A m \in bad : ~ <<m, n>> \in Below
    <3>1. bad \subseteq Nat
      BY <1>0
    <3> HIDE DEF bad
    <3> QED  BY <2>1, <3>1, BelowWellFounded, WFMin
  <2>3. n # 0
    BY <1>5
  <2>4. n - 1 \in 0 .. Len(list) /\ <<n - 1, n>> \in Below /\ n \in 1 .. Len(list)
    BY <1>0, <2>3 DEF Below, OpToRel
  <2>5. found[n - 1] \in PositionStates
    BY <2>2, <2>4
  <2>6. list[n] \in Trade
    BY <2>4
  <2> QED  BY <1>5, <2>4, <2>5, <2>6, ApplyType
<1>7. Prefixes(p, list, Len(list), found)
  BY <1>0, <1>3, <1>5, <1>6 DEF Prefixes
<1> QED  BY <1>0, <1>4, <1>6, <1>7 DEF found

(* The products that an average is made of.                                *)
LEMMA Times ==
    ASSUME NEW a \in Int, NEW b \in Int, NEW c \in Nat, a <= b
    PROVE  a * c <= b * c
  OBVIOUS

LEMMA AverageIs ==
    ASSUME NEW p \in PositionStates, NEW t \in Trade, t.buy, p.quantity >= 0, t.quantity > 0
    PROVE  LET c == P!Apply(p, t).cost IN
           /\ c.n = p.cost.n * p.quantity + t.price * (t.quantity * p.cost.d)
           /\ \A a \in Int : a * c.d = (a * p.cost.d) * p.quantity + a * (t.quantity * p.cost.d)
           /\ P!Apply(p, t).quantity = p.quantity + t.quantity
<1> DEFINE n == p.cost.n  d == p.cost.d  q == p.quantity  k == t.quantity
<1>1. n \in Int /\ d \in Nat \ {0} /\ q \in Nat /\ k \in Nat \ {0} /\ t.price \in Int
  BY DEF PositionStates, Trade, P!Costs
<1>2. q + k > 0
  BY <1>1
<1>3. P!Apply(p, t) = [cost |-> [n |-> n * q + t.price * k * d, d |-> d * (q + k)], quantity |-> q + k]
  BY <1>2 DEF P!Apply, P!Average
<1>4. t.price * k * d = t.price * (k * d)
  BY <1>1
<1>5. \A a \in Int : a * (d * (q + k)) = (a * d) * q + a * (k * d)
  BY <1>1
<1> QED  BY <1>3, <1>4, <1>5

LEMMA AverageAbove ==
    ASSUME NEW p \in PositionStates, NEW t \in Trade, t.buy, p.quantity >= 0, t.quantity > 0,
           NEW a \in Int, a * p.cost.d <= p.cost.n, a <= t.price
    PROVE  LET c == P!Apply(p, t).cost IN a * c.d <= c.n
<1>1. /\ p.cost.n \in Int /\ p.cost.d \in Nat /\ p.quantity \in Nat /\ t.quantity \in Nat
      /\ t.price \in Int
  BY DEF PositionStates, Trade, P!Costs
<1> DEFINE kd == t.quantity * p.cost.d  ad == a * p.cost.d
<1>2. kd \in Nat /\ ad \in Int
  BY <1>1
<1>3. ad * p.quantity <= p.cost.n * p.quantity
  BY <1>1, <1>2, Times
<1>4. a * kd <= t.price * kd
  BY <1>1, <1>2, Times
<1>5. ad * p.quantity \in Int /\ p.cost.n * p.quantity \in Int /\ a * kd \in Int /\ t.price * kd \in Int
  BY <1>1, <1>2
<1>6. ad * p.quantity + a * kd <= p.cost.n * p.quantity + t.price * kd
  BY <1>3, <1>4, <1>5
<1> QED  BY <1>6, AverageIs

LEMMA AverageBelow ==
    ASSUME NEW p \in PositionStates, NEW t \in Trade, t.buy, p.quantity >= 0, t.quantity > 0,
           NEW a \in Int, p.cost.n <= a * p.cost.d, t.price <= a
    PROVE  LET c == P!Apply(p, t).cost IN c.n <= a * c.d
<1>1. /\ p.cost.n \in Int /\ p.cost.d \in Nat /\ p.quantity \in Nat /\ t.quantity \in Nat
      /\ t.price \in Int
  BY DEF PositionStates, Trade, P!Costs
<1> DEFINE kd == t.quantity * p.cost.d  ad == a * p.cost.d
<1>2. kd \in Nat /\ ad \in Int
  BY <1>1
<1>3. p.cost.n * p.quantity <= ad * p.quantity
  BY <1>1, <1>2, Times
<1>4. t.price * kd <= a * kd
  BY <1>1, <1>2, Times
<1>5. ad * p.quantity \in Int /\ p.cost.n * p.quantity \in Int /\ a * kd \in Int /\ t.price * kd \in Int
  BY <1>1, <1>2
<1>6. p.cost.n * p.quantity + t.price * kd <= ad * p.quantity + a * kd
  BY <1>3, <1>4, <1>5
<1> QED  BY <1>6, AverageIs

(* The position p stands between the prices paid.                          *)
Between(p, paid) ==
    IF paid = {} THEN p.cost.n = 0 /\ p.quantity = 0
    ELSE /\ p.quantity >= 0
         /\ \E a \in paid : a * p.cost.d <= p.cost.n
         /\ \E a \in paid : p.cost.n <= a * p.cost.d

LEMMA ApplyBetween ==
    ASSUME NEW p \in PositionStates, NEW t \in Trade, NEW paid \in SUBSET Int,
           Between(p, paid), P!Regular(t)
    PROVE  Between(P!Apply(p, t), IF t.buy THEN paid \cup {t.price} ELSE paid)
<1>0. /\ p.cost.n \in Int /\ p.cost.d \in Nat /\ p.quantity \in Nat /\ t.quantity \in Nat
      /\ t.price \in Int
      /\ t.buy => t.quantity > 0
  BY DEF PositionStates, Trade, P!Costs, Between, P!Regular
<1>1. CASE ~ t.buy
  <2>1. /\ P!Apply(p, t).cost = p.cost
        /\ P!Apply(p, t).quantity \in Nat
        /\ p.quantity = 0 => P!Apply(p, t).quantity = 0
    BY <1>0, <1>1 DEF P!Apply, PositionStates
  <2> QED  BY <1>1, <2>1 DEF Between
<1>2. CASE t.buy /\ paid = {}
  <2> DEFINE c == P!Apply(p, t).cost
             kd == t.quantity * p.cost.d
  <2>1. p.cost.n = 0 /\ p.quantity = 0
    BY <1>2 DEF Between
  <2>2. kd \in Nat /\ t.price * p.cost.d \in Int /\ t.price * kd \in Int
    BY <1>0
  <2>3. c.n = p.cost.n * p.quantity + t.price * kd
        /\ t.price * c.d = (t.price * p.cost.d) * p.quantity + t.price * kd
        /\ P!Apply(p, t).quantity = p.quantity + t.quantity
    BY <1>0, <1>2, AverageIs
  <2>4. t.price * c.d = c.n /\ c.n \in Int
    BY <2>1, <2>2, <2>3
  <2>5. t.price * c.d <= c.n /\ c.n <= t.price * c.d
    BY <2>4
  <2>6. P!Apply(p, t).quantity >= 0
    BY <1>0, <2>3
  <2> QED  BY <1>2, <2>5, <2>6 DEF Between
<1>3. CASE t.buy /\ paid # {}
  <2> DEFINE c == P!Apply(p, t).cost
             more == paid \cup {t.price}
  <2>1. PICK a \in paid : a * p.cost.d <= p.cost.n
    BY <1>3 DEF Between
  <2>2. PICK b \in paid : p.cost.n <= b * p.cost.d
    BY <1>3 DEF Between
  <2>3. \E x \in more : x * c.d <= c.n
    <3>1. CASE a <= t.price
      BY <1>0, <1>3, <2>1, <3>1, AverageAbove
    <3>2. CASE t.price <= a
      <4>1. t.price * p.cost.d <= a * p.cost.d
        BY <1>0, <3>2, Times
      <4>2. t.price * p.cost.d <= p.cost.n
        <5>1. t.price * p.cost.d \in Int /\ a * p.cost.d \in Int
          <6>1. a \in Int
            OBVIOUS
          <6> QED  BY <1>0, <6>1
        <5> QED  BY <1>0, <2>1, <4>1, <5>1
      <4>3. t.price * c.d <= c.n
        BY <1>0, <1>3, <4>2, AverageAbove
      <4> QED  BY <4>3
    <3> QED  BY <1>0, <3>1, <3>2
  <2>4. \E x \in more : c.n <= x * c.d
    <3>1. CASE t.price <= b
      BY <1>0, <1>3, <2>2, <3>1, AverageBelow
    <3>2. CASE b <= t.price
      <4>1. b * p.cost.d <= t.price * p.cost.d
        BY <1>0, <3>2, Times
      <4>2. p.cost.n <= t.price * p.cost.d
        <5>1. t.price * p.cost.d \in Int /\ b * p.cost.d \in Int
          <6>1. b \in Int
            OBVIOUS
          <6> QED  BY <1>0, <6>1
        <5> QED  BY <1>0, <2>2, <4>1, <5>1
      <4>3. c.n <= t.price * c.d
        BY <1>0, <1>3, <4>2, AverageBelow
      <4> QED  BY <4>3
    <3> QED  BY <1>0, <3>1, <3>2
  <2>5. P!Apply(p, t).quantity >= 0
    <3>1. P!Apply(p, t).quantity = p.quantity + t.quantity
      BY <1>0, <1>3, AverageIs
    <3> QED  BY <1>0, <3>1
  <2> QED  BY <1>3, <2>3, <2>4, <2>5 DEF Between
<1> QED  BY <1>1, <1>2, <1>3 DEF Trade

(* The prices of the purchases among the first n trades.                   *)
Paid(list, n) == {list[i].price : i \in {j \in 1 .. n : list[j].buy}}

LEMMA RecalculateBetween ==
    ASSUME NEW list \in Seq(Trade), \A i \in 1 .. Len(list) : P!Regular(list[i])
    PROVE  Between(P!RecalculateCost(P!Zero, list), Paid(list, Len(list)))
<1> DEFINE after == After(P!Zero, list)
           bad == {n \in 0 .. Len(list) : ~ Between(after[n], Paid(list, n))}
<1>0. Len(list) \in Nat /\ P!Zero \in PositionStates
  BY DEF P!Zero, PositionStates, P!Costs
<1>1. Prefixes(P!Zero, list, Len(list), after)
      /\ P!RecalculateCost(P!Zero, list) = after[Len(list)]
  BY <1>0, RecalculateIs
<1>2. bad = {}
  <2>1. SUFFICES ASSUME bad # {} PROVE FALSE
    OBVIOUS
  <2>2. PICK n \in bad : \A m \in bad : ~ <<m, n>> \in Below
    <3>1. bad \subseteq Nat
      BY <1>0
    <3> HIDE DEF bad
    <3> QED  BY <2>1, <3>1, BelowWellFounded, WFMin
  <2> HIDE DEF after
  <2>3. n # 0
    <3>1. Paid(list, 0) = {}
      BY DEF Paid
    <3>2. after[0] = P!Zero
      BY <1>1 DEF Prefixes
    <3> QED  BY <3>1, <3>2 DEF Between, P!Zero
  <2>4. n - 1 \in 0 .. Len(list) /\ <<n - 1, n>> \in Below /\ n \in 1 .. Len(list)
    BY <1>0, <2>3 DEF Below, OpToRel
  <2>5. Between(after[n - 1], Paid(list, n - 1))
    BY <2>2, <2>4
  <2>6. /\ list[n] \in Trade /\ P!Regular(list[n]) /\ after[n - 1] \in PositionStates
        /\ after[n] = P!Apply(after[n - 1], list[n])
    BY <1>1, <2>4 DEF Prefixes
  <2>7. Paid(list, n - 1) \in SUBSET Int
    <3>1. \A i \in 1 .. n - 1 : list[i] \in Trade
      BY <1>0, <2>4
    <3> QED  BY <3>1 DEF Paid, Trade
  <2>8. Paid(list, n) = IF list[n].buy THEN Paid(list, n - 1) \cup {list[n].price}
                        ELSE Paid(list, n - 1)
    <3>1. 1 .. n = (1 .. n - 1) \cup {n}
      BY <1>0, <2>4
    <3> QED  BY <3>1 DEF Paid
  <2>9. Between(after[n], Paid(list, n))
    BY <2>5, <2>6, <2>7, <2>8, ApplyBetween
  <2> QED  BY <2>2, <2>9
<1> QED  BY <1>0, <1>1, <1>2

LEMMA HoldingsCardinality == ASSUME NEW set PROVE P!Cardinality(set) = Cardinality(set)
  BY Zenon DEF P!Cardinality, Cardinality

LEMMA HoldingsFinite == ASSUME NEW set PROVE P!IsFiniteSet(set) <=> IsFiniteSet(set)
  BY Zenon DEF P!IsFiniteSet, IsFiniteSet

HoldingStates == [state : {"none", "active", "deleted"}, position : PositionStates]
OrderStates ==
    [pc : {"idle", "create", "patch", "delete", "insert", "list", "update"},
     holding : Holdings \cup {NoHolding}, trade : Seq(TradeInputs), position : PositionStates]

Creating == {w \in Workers : pReq[w].pc = "create"}

(* What a request works on exists, even when it has been deleted since.    *)
HoldingKnown ==
    \A w \in Workers :
        /\ pReq[w].pc \in {"patch", "delete", "insert", "list", "update"} =>
              pReq[w].holding \in Holdings /\ holding[pReq[w].holding].state # "none"
        /\ pReq[w].pc = "insert" => Len(pReq[w].trade) = 1

(* After a trade that nothing disturbs: its request is the only one that   *)
(* still has figures to store, and the figures are those of all trades.    *)
CalmAlone ==
    \A h \in Holdings : calm[h] =>
        /\ holding[h].state # "none"
        /\ \A v, w \in Workers : P!Open(v, h) /\ P!Open(w, h) => v = w
        /\ \A w \in Workers : P!Open(w, h) /\ pReq[w].pc = "update" =>
              pReq[w].position = P!RecalculateCost(P!Zero, trades[h])
        /\ h \in P!Active /\ (\A w \in Workers : ~ P!Open(w, h)) =>
              holding[h].position = P!RecalculateCost(P!Zero, trades[h])

(* Every request that has counted has a place reserved.                    *)
PlacesCounted ==
    Cardinality(P!Active) + Cardinality(Creating) <= MaxHoldings + Cardinality(Workers) - 1

PortfolioTypes ==
    /\ holding \in [Holdings -> HoldingStates]
    /\ trades \in [Holdings -> Seq(TradeInputs)]
    /\ pReq \in [Workers -> OrderStates]
    /\ calm \in [Holdings -> BOOLEAN]
    /\ pFaults \in 0 .. MaxFaults

HoldingsInv == PortfolioTypes /\ HoldingKnown /\ CalmAlone /\ PlacesCounted

LEMMA PortfolioFacts ==
    ASSUME P!PortfolioAssumption
    PROVE  /\ IsFiniteSet(Workers) /\ Workers # {} /\ IsFiniteSet(Holdings)
           /\ NoHolding \notin Holdings /\ TradeInputs \subseteq Trade
           /\ Positions \subseteq PositionStates
           /\ MaxHoldings \in Nat \ {0} /\ MaxTrades \in Nat /\ MaxFaults \in Nat
           /\ P!Zero \in PositionStates
  BY HoldingsFinite DEF P!PortfolioAssumption, Trade, PositionStates, P!Costs, P!Zero

LEMMA HoldingsTypeOK == ASSUME HoldingsInv PROVE P!TypeOK
  BY DEF HoldingsInv, PortfolioTypes, P!TypeOK, HoldingStates, OrderStates, PositionStates

LEMMA Counts ==
    ASSUME P!PortfolioAssumption
    PROVE  /\ IsFiniteSet(P!Active) /\ IsFiniteSet(Creating)
           /\ Cardinality(P!Active) \in Nat /\ Cardinality(Creating) \in Nat
           /\ Cardinality(Workers) \in Nat /\ Cardinality(Workers) >= 1
           /\ Cardinality(Creating) <= Cardinality(Workers)
<1>1. P!Active \subseteq Holdings /\ Creating \subseteq Workers
  BY DEF P!Active, Creating
<1>2. Cardinality(Workers) # 0
  BY PortfolioFacts, FS_EmptySet
<1> QED  BY <1>1, <1>2, PortfolioFacts, FS_Subset, FS_CardinalityType

LEMMA HoldingsBoundIs == ASSUME P!PortfolioAssumption, HoldingsInv PROVE P!HoldingsBound
  BY Counts, PortfolioFacts, HoldingsCardinality DEF HoldingsInv, PlacesCounted, P!HoldingsBound

LEMMA SelfHealingIs == ASSUME HoldingsInv PROVE P!SelfHealing
<1> SUFFICES ASSUME NEW h \in P!Active, calm[h], \A w \in Workers : ~ P!Open(w, h)
             PROVE  P!Same(holding[h].position, P!RecalculateCost(P!Zero, trades[h]))
  BY DEF P!SelfHealing
<1>1. h \in Holdings
  BY DEF P!Active
<1>2. holding[h].position = P!RecalculateCost(P!Zero, trades[h])
  BY <1>1 DEF HoldingsInv, CalmAlone
<1> QED  BY <1>2 DEF P!Same

LEMMA CostWithinPricesIs ==
    ASSUME P!PortfolioAssumption, HoldingsInv
    PROVE  P!CostWithinPrices
<1> SUFFICES ASSUME NEW h \in Holdings, \A t \in P!ToSet(trades[h]) : P!Regular(t)
             PROVE  LET c == P!RecalculateCost(P!Zero, trades[h]).cost
                        paid == {t.price : t \in {u \in P!ToSet(trades[h]) : u.buy}}
                    IN  IF paid = {} THEN c.n = 0
                        ELSE (\E p \in paid : p * c.d <= c.n) /\ (\E p \in paid : c.n <= p * c.d)
  BY DEF P!CostWithinPrices
<1>1. trades[h] \in Seq(Trade)
  <2>1. trades[h] \in Seq(TradeInputs) /\ TradeInputs \subseteq Trade
    BY PortfolioFacts DEF HoldingsInv, PortfolioTypes
  <2> QED  BY <2>1
<1>2. \A i \in 1 .. Len(trades[h]) : P!Regular(trades[h][i])
  BY <1>1 DEF P!ToSet
<1>3. Between(P!RecalculateCost(P!Zero, trades[h]), Paid(trades[h], Len(trades[h])))
  BY <1>1, <1>2, RecalculateBetween
<1>4. Paid(trades[h], Len(trades[h])) = {t.price : t \in {u \in P!ToSet(trades[h]) : u.buy}}
  BY <1>1 DEF Paid, P!ToSet
<1> QED  BY <1>3, <1>4 DEF Between

LEMMA HoldingsInit == ASSUME P!PortfolioAssumption, P!Init PROVE HoldingsInv
<1> USE PortfolioFacts DEF P!Init
<1>1. P!NoRequest \in OrderStates /\ P!NoRequest.pc = "idle"
  BY DEF P!NoRequest, OrderStates
<1>2. \A w \in Workers : pReq[w].pc = "idle"
  BY <1>1
<1>3. PortfolioTypes
  <2>1. [state |-> "none", position |-> P!Zero] \in HoldingStates
    BY DEF HoldingStates
  <2>2. <<>> \in Seq(TradeInputs)
    OBVIOUS
  <2> QED  BY <1>1, <2>1, <2>2 DEF PortfolioTypes
<1>4. HoldingKnown /\ CalmAlone
  BY <1>2 DEF HoldingKnown, CalmAlone
<1>5. PlacesCounted
  <2>1. P!Active = {} /\ Creating = {}
    BY <1>2 DEF P!Active, Creating
  <2> QED  BY <2>1, Counts, FS_EmptySet DEF PlacesCounted
<1> QED  BY <1>3, <1>4, <1>5 DEF HoldingsInv

LEMMA PlacesKeep ==
    ASSUME P!PortfolioAssumption, HoldingsInv, P!Active' \subseteq P!Active,
           Creating' \subseteq Creating
    PROVE  PlacesCounted'
<1>1. /\ IsFiniteSet(P!Active') /\ Cardinality(P!Active') <= Cardinality(P!Active)
      /\ IsFiniteSet(Creating') /\ Cardinality(Creating') <= Cardinality(Creating)
  BY Counts, FS_Subset
<1>2. Cardinality(P!Active') \in Nat /\ Cardinality(Creating') \in Nat
  BY <1>1, FS_CardinalityType
<1> QED  BY <1>1, <1>2, Counts, PortfolioFacts DEF HoldingsInv, PlacesCounted

(* A request goes on, and no row changes.                                  *)
LEMMA OrderKeeps ==
    ASSUME P!PortfolioAssumption, HoldingsInv, NEW w \in Workers, NEW new \in OrderStates,
           pReq' = [pReq EXCEPT ![w] = new], UNCHANGED <<holding, trades, calm, pFaults>>,
           new.pc \in {"patch", "delete", "insert", "list", "update"} =>
              new.holding \in Holdings /\ holding[new.holding].state # "none",
           new.pc = "insert" => Len(new.trade) = 1,
           new.pc = "create" => Cardinality(P!Active) < MaxHoldings,
           \/ pReq[w].pc \notin {"list", "update"} /\ new.pc \notin {"list", "update"}
           \/ /\ pReq[w].pc = "list" /\ new.pc = "update" /\ new.holding = pReq[w].holding
              /\ new.position = P!RecalculateCost(P!Zero, trades[new.holding])
    PROVE  HoldingsInv'
<1>1. /\ pReq' \in [Workers -> OrderStates] /\ pReq'[w] = new
      /\ \A v \in Workers \ {w} : pReq'[v] = pReq[v]
  BY DEF HoldingsInv, PortfolioTypes
<1>2. PortfolioTypes'
  BY <1>1 DEF HoldingsInv, PortfolioTypes
<1>3. HoldingKnown'
  BY <1>1 DEF HoldingsInv, HoldingKnown
<1>4. CalmAlone'
  <2> SUFFICES ASSUME NEW h \in Holdings, calm[h]
               PROVE  /\ holding[h].state # "none"
                      /\ \A v, x \in Workers : P!Open(v, h)' /\ P!Open(x, h)' => v = x
                      /\ \A v \in Workers : P!Open(v, h)' /\ pReq'[v].pc = "update" =>
                            pReq'[v].position = P!RecalculateCost(P!Zero, trades[h])
                      /\ h \in P!Active' /\ (\A v \in Workers : ~ P!Open(v, h)') =>
                            holding[h].position = P!RecalculateCost(P!Zero, trades[h])
    BY DEF CalmAlone
  <2>1. \A v \in Workers : P!Open(v, h)' <=> P!Open(v, h)
    BY <1>1 DEF P!Open
  <2>2. P!Active' = P!Active
    BY DEF P!Active
  <2>3. \A v \in Workers : P!Open(v, h)' /\ pReq'[v].pc = "update" =>
            pReq'[v].position = P!RecalculateCost(P!Zero, trades[h])
    <3> SUFFICES ASSUME NEW v \in Workers, P!Open(v, h)', pReq'[v].pc = "update"
                 PROVE  pReq'[v].position = P!RecalculateCost(P!Zero, trades[h])
      OBVIOUS
    <3>1. CASE v = w
      BY <1>1, <3>1 DEF P!Open
    <3>2. CASE v # w
      BY <1>1, <2>1, <3>2 DEF HoldingsInv, CalmAlone
    <3> QED  BY <3>1, <3>2
  <2> QED  BY <2>1, <2>2, <2>3 DEF HoldingsInv, CalmAlone
<1>5. PlacesCounted'
  <2>1. P!Active' = P!Active
    BY DEF P!Active
  <2>2. CASE new.pc = "create"
    <3>1. Creating' \subseteq Workers
      BY DEF Creating
    <3>2. Cardinality(Creating') \in Nat /\ Cardinality(Creating') <= Cardinality(Workers)
      BY <3>1, PortfolioFacts, FS_Subset, FS_CardinalityType
    <3> QED  BY <2>1, <2>2, <3>2, Counts, PortfolioFacts DEF PlacesCounted
  <2>3. CASE new.pc # "create"
    <3>1. Creating' \subseteq Creating
      BY <1>1, <2>3 DEF Creating
    <3> QED  BY <2>1, <3>1, PlacesKeep
  <2> QED  BY <2>2, <2>3
<1> QED  BY <1>2, <1>3, <1>4, <1>5 DEF HoldingsInv

LEMMA CountHoldingsKeeps ==
    ASSUME P!PortfolioAssumption, HoldingsInv, NEW w \in Workers, P!CountHoldings(w)
    PROVE  HoldingsInv'
<1> DEFINE new == [pReq[w] EXCEPT !.pc = "create"]
<1>1. /\ pReq[w] \in OrderStates /\ pReq[w].pc = "idle" /\ Cardinality(P!Active) < MaxHoldings
      /\ UNCHANGED <<holding, trades, calm, pFaults>>
  BY HoldingsCardinality DEF HoldingsInv, PortfolioTypes, P!CountHoldings, P!NoRequest
<1>2. pReq' = [pReq EXCEPT ![w] = new]
  BY DEF P!CountHoldings
<1>3. new \in OrderStates /\ new.pc = "create"
  BY <1>1 DEF OrderStates
<1> HIDE DEF new
<1> QED  BY <1>1, <1>2, <1>3, OrderKeeps

LEMMA GetHoldingKeeps ==
    ASSUME P!PortfolioAssumption, HoldingsInv, NEW w \in Workers, P!GetHolding(w)
    PROVE  HoldingsInv'
<1>1. /\ pReq[w] \in OrderStates /\ pReq[w].pc = "idle" /\ UNCHANGED <<holding, trades, calm, pFaults>>
  <2>1. pReq[w] = P!NoRequest /\ UNCHANGED <<holding, trades, calm, pFaults>>
    BY DEF P!GetHolding
  <2> QED  BY <2>1 DEF HoldingsInv, PortfolioTypes, P!NoRequest
<1>2. PICK h \in P!Active :
         \/ \E p \in Positions :
              pReq' = [pReq EXCEPT ![w] = [@ EXCEPT !.pc = "patch", !.holding = h, !.position = p]]
         \/ pReq' = [pReq EXCEPT ![w] = [@ EXCEPT !.pc = "delete", !.holding = h]]
         \/ \E t \in TradeInputs :
              pReq' = [pReq EXCEPT ![w] = [@ EXCEPT !.pc = "insert", !.holding = h, !.trade = <<t>>]]
  BY DEF P!GetHolding
<1>3. h \in Holdings /\ holding[h].state # "none"
  BY DEF P!Active
<1>4. ASSUME NEW p \in Positions,
             pReq' = [pReq EXCEPT ![w] = [@ EXCEPT !.pc = "patch", !.holding = h, !.position = p]]
      PROVE  HoldingsInv'
  <2> DEFINE new == [pReq[w] EXCEPT !.pc = "patch", !.holding = h, !.position = p]
  <2>1. pReq' = [pReq EXCEPT ![w] = new]
    BY <1>4
  <2>2. new \in OrderStates /\ new.pc = "patch" /\ new.holding = h
    BY <1>1, <1>3, PortfolioFacts DEF OrderStates
  <2> HIDE DEF new
  <2> QED  BY <1>1, <1>3, <2>1, <2>2, OrderKeeps
<1>5. ASSUME pReq' = [pReq EXCEPT ![w] = [@ EXCEPT !.pc = "delete", !.holding = h]]
      PROVE  HoldingsInv'
  <2> DEFINE new == [pReq[w] EXCEPT !.pc = "delete", !.holding = h]
  <2>1. pReq' = [pReq EXCEPT ![w] = new]
    BY <1>5
  <2>2. new \in OrderStates /\ new.pc = "delete" /\ new.holding = h
    BY <1>1, <1>3 DEF OrderStates
  <2> HIDE DEF new
  <2> QED  BY <1>1, <1>3, <2>1, <2>2, OrderKeeps
<1>6. ASSUME NEW t \in TradeInputs,
             pReq' = [pReq EXCEPT ![w] = [@ EXCEPT !.pc = "insert", !.holding = h, !.trade = <<t>>]]
      PROVE  HoldingsInv'
  <2> DEFINE one == <<t>>
             new == [pReq[w] EXCEPT !.pc = "insert", !.holding = h, !.trade = one]
  <2>1. pReq' = [pReq EXCEPT ![w] = new]
    BY <1>6
  <2>2. one \in Seq(TradeInputs) /\ Len(one) = 1
    OBVIOUS
  <2> HIDE DEF one
  <2>3. new \in OrderStates /\ new.pc = "insert" /\ new.holding = h /\ new.trade = one
    BY <1>1, <1>3, <2>2 DEF OrderStates
  <2> HIDE DEF new
  <2> QED  BY <1>1, <1>3, <2>1, <2>2, <2>3, OrderKeeps
<1> QED  BY <1>2, <1>4, <1>5, <1>6

(* All trades are read, and the new figures are those of all of them.      *)
LEMMA ListTradesKeeps ==
    ASSUME P!PortfolioAssumption, HoldingsInv, NEW w \in Workers, P!ListTrades(w)
    PROVE  HoldingsInv'
<1> DEFINE h == pReq[w].holding
           figures == P!RecalculateCost(P!Zero, trades[h])
           new == [pReq[w] EXCEPT !.pc = "update", !.position = figures]
<1>1. /\ pReq[w] \in OrderStates /\ pReq[w].pc = "list" /\ UNCHANGED <<holding, trades, calm, pFaults>>
      /\ pReq' = [pReq EXCEPT ![w] = new]
  BY DEF HoldingsInv, PortfolioTypes, P!ListTrades, P!Recalculated
<1>2. h \in Holdings /\ holding[h].state # "none"
  BY <1>1 DEF HoldingsInv, HoldingKnown
<1>3. figures \in PositionStates
  <2>1. trades[h] \in Seq(TradeInputs) /\ TradeInputs \subseteq Trade
    BY <1>2, PortfolioFacts DEF HoldingsInv, PortfolioTypes
  <2>2. trades[h] \in Seq(Trade)
    BY <2>1
  <2> QED  BY <2>2, PortfolioFacts, RecalculateIs
<1>4. new \in OrderStates /\ new.pc = "update" /\ new.holding = h /\ new.position = figures
  <2> HIDE DEF figures
  <2> QED  BY <1>1, <1>3 DEF OrderStates
<1>5. new.position = P!RecalculateCost(P!Zero, trades[new.holding])
  BY <1>4
<1> HIDE DEF new, figures
<1> QED  BY <1>1, <1>2, <1>4, <1>5, OrderKeeps

(* A list that is cut short makes its holding restless.                    *)
LEMMA ListBreaksOffKeeps ==
    ASSUME P!PortfolioAssumption, HoldingsInv, NEW w \in Workers, P!ListBreaksOff(w)
    PROVE  HoldingsInv'
<1> DEFINE h == pReq[w].holding
<1>1. /\ pReq[w] \in OrderStates /\ pReq[w].pc = "list" /\ UNCHANGED <<holding, trades>>
      /\ pFaults < MaxFaults /\ pFaults' = pFaults + 1
      /\ calm' = [calm EXCEPT ![h] = FALSE]
  BY DEF HoldingsInv, PortfolioTypes, P!ListBreaksOff
<1>2. h \in Holdings /\ holding[h].state # "none"
  BY <1>1 DEF HoldingsInv, HoldingKnown
<1>3. PICK n \in 0 .. Len(trades[h]) - 1 : P!Recalculated(w, SubSeq(trades[h], 1, n))
  BY DEF P!ListBreaksOff
<1>4. PICK figures : figures = P!RecalculateCost(P!Zero, SubSeq(trades[h], 1, n))
  OBVIOUS
<1>5. figures \in PositionStates
  <2>1. trades[h] \in Seq(TradeInputs) /\ TradeInputs \subseteq Trade
    BY <1>2, PortfolioFacts DEF HoldingsInv, PortfolioTypes
  <2>2. SubSeq(trades[h], 1, n) \in Seq(Trade)
    BY <2>1
  <2> QED  BY <1>4, <2>2, PortfolioFacts, RecalculateIs
<1>6. PICK new : new = [pReq[w] EXCEPT !.pc = "update", !.position = figures]
  OBVIOUS
<1>7. new \in OrderStates /\ new.pc = "update" /\ new.holding = h
  BY <1>1, <1>5, <1>6 DEF OrderStates
<1>8. /\ pReq' \in [Workers -> OrderStates] /\ pReq'[w] = new
      /\ \A v \in Workers \ {w} : pReq'[v] = pReq[v]
  BY <1>3, <1>4, <1>6, <1>7 DEF P!Recalculated, HoldingsInv, PortfolioTypes
<1>9. /\ calm' \in [Holdings -> BOOLEAN] /\ calm'[h] = FALSE
      /\ \A g \in Holdings \ {h} : calm'[g] = calm[g]
  BY <1>1, <1>2 DEF HoldingsInv, PortfolioTypes
<1>10. PortfolioTypes'
  BY <1>1, <1>8, <1>9, PortfolioFacts DEF HoldingsInv, PortfolioTypes
<1>11. HoldingKnown'
  BY <1>1, <1>2, <1>7, <1>8 DEF HoldingsInv, HoldingKnown
<1>12. \A v \in Workers, g \in Holdings : P!Open(v, g)' <=> P!Open(v, g)
  BY <1>1, <1>7, <1>8 DEF P!Open
<1>13. P!Active' = P!Active /\ Creating' \subseteq Creating
  BY <1>1, <1>7, <1>8 DEF P!Active, Creating
<1>14. CalmAlone'
  <2>1. \A g \in Holdings \ {h}, v \in Workers : P!Open(v, g) => pReq'[v] = pReq[v]
    BY <1>8 DEF P!Open
  <2> HIDE DEF h
  <2> QED  BY <1>1, <1>9, <1>12, <1>13, <2>1 DEF HoldingsInv, CalmAlone
<1> QED  BY <1>10, <1>11, <1>13, <1>14, PlacesKeep DEF HoldingsInv

(* What the other parts of the invariant need of a request that answers.   *)
LEMMA Answered ==
    ASSUME P!PortfolioAssumption, HoldingsInv, NEW w \in Workers, P!Answer(w),
           \A h \in Holdings : holding[h].state # "none" => holding'[h].state # "none"
    PROVE  /\ pReq' \in [Workers -> OrderStates] /\ HoldingKnown' /\ Creating' = Creating \ {w}
           /\ pReq'[w].pc = "idle" /\ \A v \in Workers \ {w} : pReq'[v] = pReq[v]
           /\ \A v \in Workers, h \in Holdings : P!Open(v, h)' <=> v # w /\ P!Open(v, h)
<1>1. P!NoRequest \in OrderStates /\ P!NoRequest.pc = "idle"
  BY PortfolioFacts DEF P!NoRequest, OrderStates
<1>2. /\ pReq' \in [Workers -> OrderStates] /\ pReq'[w] = P!NoRequest
      /\ \A v \in Workers \ {w} : pReq'[v] = pReq[v]
  BY <1>1 DEF P!Answer, HoldingsInv, PortfolioTypes
<1>3. HoldingKnown'
  BY <1>1, <1>2 DEF HoldingsInv, HoldingKnown
<1>4. Creating' = Creating \ {w}
  BY <1>1, <1>2 DEF Creating
<1>5. \A v \in Workers, h \in Holdings : P!Open(v, h)' <=> v # w /\ P!Open(v, h)
  BY <1>1, <1>2 DEF P!Open
<1> QED  BY <1>1, <1>2, <1>3, <1>4, <1>5

(* The place that a new holding takes had been reserved.                   *)
LEMMA CreateHoldingKeeps ==
    ASSUME P!PortfolioAssumption, HoldingsInv, NEW w \in Workers, P!CreateHolding(w)
    PROVE  HoldingsInv'
<1>1. PICK h \in P!NextId, p \in Positions :
         holding' = [holding EXCEPT ![h] = [state |-> "active", position |-> p]]
  BY DEF P!CreateHolding
<1>2. h \in Holdings /\ holding[h].state = "none"
  BY DEF P!NextId
<1>3. pReq[w].pc = "create" /\ P!Answer(w) /\ UNCHANGED <<trades, calm, pFaults>>
  BY DEF P!CreateHolding
<1>4. /\ holding' \in [Holdings -> HoldingStates] /\ holding'[h].state = "active"
      /\ \A g \in Holdings \ {h} : holding'[g] = holding[g]
  <2>1. [state |-> "active", position |-> p] \in HoldingStates
    BY PortfolioFacts DEF HoldingStates
  <2> QED  BY <1>1, <1>2, <2>1 DEF HoldingsInv, PortfolioTypes
<1>5. /\ pReq' \in [Workers -> OrderStates] /\ HoldingKnown' /\ Creating' = Creating \ {w}
      /\ \A v \in Workers, g \in Holdings : P!Open(v, g)' <=> v # w /\ P!Open(v, g)
      /\ \A v \in Workers \ {w} : pReq'[v] = pReq[v]
  BY <1>3, <1>4, Answered
<1>6. PortfolioTypes'
  BY <1>3, <1>4, <1>5 DEF HoldingsInv, PortfolioTypes
<1>7. \A g \in Holdings : ~ P!Open(w, g)
  BY <1>3 DEF P!Open
<1>8. CalmAlone'
  <2>1. ~ calm[h]
    BY <1>2 DEF HoldingsInv, CalmAlone
  <2>2. \A g \in Holdings \ {h} : g \in P!Active' => g \in P!Active
    BY <1>4 DEF P!Active
  <2>3. \A g \in Holdings, v \in Workers : P!Open(v, g)' => P!Open(v, g) /\ pReq'[v] = pReq[v]
    BY <1>5
  <2>4. \A g \in Holdings : (\A v \in Workers : ~ P!Open(v, g)') => \A v \in Workers : ~ P!Open(v, g)
    BY <1>5, <1>7
  <2> QED  BY <1>3, <1>4, <2>1, <2>2, <2>3, <2>4 DEF HoldingsInv, CalmAlone
<1>9. PlacesCounted'
  <2>1. P!Active' = P!Active \cup {h} /\ h \notin P!Active
    BY <1>2, <1>4 DEF P!Active
  <2>2. w \in Creating
    BY <1>3 DEF Creating
  <2>3. Cardinality(P!Active') = Cardinality(P!Active) + 1
    BY <2>1, Counts, FS_AddElement
  <2>4. Cardinality(Creating') = Cardinality(Creating) - 1
    BY <1>5, <2>2, Counts, FS_RemoveElement
  <2> QED  BY <2>3, <2>4, Counts, PortfolioFacts DEF HoldingsInv, PlacesCounted
<1> QED  BY <1>5, <1>6, <1>8, <1>9 DEF HoldingsInv

(* What is entered by hand makes the holding restless.                     *)
LEMMA UpdateHoldingKeeps ==
    ASSUME P!PortfolioAssumption, HoldingsInv, NEW w \in Workers, P!UpdateHolding(w)
    PROVE  HoldingsInv'
<1> DEFINE h == pReq[w].holding
<1>1. /\ pReq[w].pc = "patch" /\ calm' = [calm EXCEPT ![h] = FALSE] /\ P!Answer(w)
      /\ UNCHANGED <<trades, pFaults>>
  BY DEF P!UpdateHolding
<1>2. pReq[w] \in OrderStates /\ h \in Holdings /\ holding[h].state # "none"
  BY <1>1 DEF HoldingsInv, PortfolioTypes, HoldingKnown
<1>3. /\ holding' \in [Holdings -> HoldingStates]
      /\ \A g \in Holdings : holding'[g].state = holding[g].state
      /\ \A g \in Holdings \ {h} : holding'[g] = holding[g]
  <2>1. CASE UNCHANGED holding
    BY <2>1 DEF HoldingsInv, PortfolioTypes
  <2>2. CASE \E fields \in (SUBSET {"cost", "quantity"}) :
            holding' = [holding EXCEPT ![h].position =
                          [f \in DOMAIN @ |-> IF f \in fields THEN pReq[w].position[f] ELSE @[f]]]
    <3>1. PICK fields \in (SUBSET {"cost", "quantity"}) :
            holding' = [holding EXCEPT ![h].position =
                          [f \in DOMAIN @ |-> IF f \in fields THEN pReq[w].position[f] ELSE @[f]]]
      BY <2>2
    <3> DEFINE old == holding[h].position
               given == pReq[w].position
               new == [f \in DOMAIN old |-> IF f \in fields THEN given[f] ELSE old[f]]
    <3>2. holding[h] \in HoldingStates /\ old \in PositionStates /\ given \in PositionStates
      BY <1>2 DEF HoldingsInv, PortfolioTypes, HoldingStates, OrderStates
    <3>3. new = [cost |-> IF "cost" \in fields THEN given.cost ELSE old.cost,
                 quantity |-> IF "quantity" \in fields THEN given.quantity ELSE old.quantity]
      BY <3>2 DEF PositionStates
    <3>4. new \in PositionStates
      BY <3>2, <3>3 DEF PositionStates
    <3>5. holding' = [holding EXCEPT ![h] = [holding[h] EXCEPT !.position = new]]
      BY <3>1
    <3> HIDE DEF new
    <3>6. [holding[h] EXCEPT !.position = new] \in HoldingStates
          /\ [holding[h] EXCEPT !.position = new].state = holding[h].state
      BY <3>2, <3>4 DEF HoldingStates
    <3> QED  BY <1>2, <3>5, <3>6 DEF HoldingsInv, PortfolioTypes
  <2> QED  BY <2>1, <2>2 DEF P!UpdateHolding
<1>4. /\ pReq' \in [Workers -> OrderStates] /\ HoldingKnown' /\ Creating' \subseteq Creating
      /\ \A v \in Workers, g \in Holdings : P!Open(v, g)' <=> v # w /\ P!Open(v, g)
      /\ \A v \in Workers \ {w} : pReq'[v] = pReq[v]
  BY <1>1, <1>3, Answered
<1>5. calm' \in [Holdings -> BOOLEAN] /\ calm'[h] = FALSE /\ \A g \in Holdings \ {h} : calm'[g] = calm[g]
  BY <1>1, <1>2 DEF HoldingsInv, PortfolioTypes
<1>6. PortfolioTypes'
  BY <1>1, <1>3, <1>4, <1>5 DEF HoldingsInv, PortfolioTypes
<1>7. P!Active' = P!Active
  BY <1>3 DEF P!Active
<1>8. \A g \in Holdings : ~ P!Open(w, g)
  BY <1>1 DEF P!Open
<1>9. CalmAlone'
  <2>1. \A g \in Holdings, v \in Workers : P!Open(v, g)' => P!Open(v, g) /\ pReq'[v] = pReq[v]
    BY <1>4
  <2>2. \A g \in Holdings : (\A v \in Workers : ~ P!Open(v, g)') => \A v \in Workers : ~ P!Open(v, g)
    BY <1>4, <1>8
  <2> HIDE DEF h
  <2> QED  BY <1>1, <1>3, <1>5, <1>7, <2>1, <2>2 DEF HoldingsInv, CalmAlone
<1> QED  BY <1>4, <1>6, <1>7, <1>9, PlacesKeep DEF HoldingsInv

LEMMA SoftDeleteHoldingKeeps ==
    ASSUME P!PortfolioAssumption, HoldingsInv, NEW w \in Workers, P!SoftDeleteHolding(w)
    PROVE  HoldingsInv'
<1> DEFINE h == pReq[w].holding
<1>1. /\ pReq[w].pc = "delete" /\ holding' = [holding EXCEPT ![h].state = "deleted"] /\ P!Answer(w)
      /\ UNCHANGED <<trades, calm, pFaults>>
  BY DEF P!SoftDeleteHolding
<1>2. h \in Holdings /\ holding[h].state # "none"
  BY <1>1 DEF HoldingsInv, HoldingKnown
<1>3. /\ holding' \in [Holdings -> HoldingStates] /\ holding'[h].state = "deleted"
      /\ \A g \in Holdings \ {h} : holding'[g] = holding[g]
  <2>1. holding[h] \in HoldingStates
    BY <1>2 DEF HoldingsInv, PortfolioTypes
  <2>2. [holding[h] EXCEPT !.state = "deleted"] \in HoldingStates
        /\ [holding[h] EXCEPT !.state = "deleted"].state = "deleted"
    BY <2>1 DEF HoldingStates
  <2>3. holding' = [holding EXCEPT ![h] = [holding[h] EXCEPT !.state = "deleted"]]
    BY <1>1
  <2> QED  BY <1>2, <2>2, <2>3 DEF HoldingsInv, PortfolioTypes
<1>4. /\ pReq' \in [Workers -> OrderStates] /\ HoldingKnown' /\ Creating' \subseteq Creating
      /\ \A v \in Workers, g \in Holdings : P!Open(v, g)' <=> v # w /\ P!Open(v, g)
      /\ \A v \in Workers \ {w} : pReq'[v] = pReq[v]
  BY <1>1, <1>3, Answered
<1>5. PortfolioTypes'
  BY <1>1, <1>3, <1>4 DEF HoldingsInv, PortfolioTypes
<1>6. P!Active' \subseteq P!Active /\ h \notin P!Active'
  BY <1>3 DEF P!Active
<1>7. \A g \in Holdings : ~ P!Open(w, g)
  BY <1>1 DEF P!Open
<1>8. CalmAlone'
  <2>1. \A g \in Holdings, v \in Workers : P!Open(v, g)' => P!Open(v, g) /\ pReq'[v] = pReq[v]
    BY <1>4
  <2>2. \A g \in Holdings : (\A v \in Workers : ~ P!Open(v, g)') => \A v \in Workers : ~ P!Open(v, g)
    BY <1>4, <1>7
  <2>3. \A g \in Holdings : holding[g].state # "none" => holding'[g].state # "none"
    BY <1>3
  <2>4. \A g \in P!Active' : g \in P!Active /\ holding'[g] = holding[g]
    BY <1>3, <1>6 DEF P!Active
  <2> HIDE DEF h
  <2> QED  BY <1>1, <2>1, <2>2, <2>3, <2>4 DEF HoldingsInv, CalmAlone
<1> QED  BY <1>4, <1>5, <1>6, <1>8, PlacesKeep DEF HoldingsInv

(* The trade is stored: the holding is calm if no other trade of it is     *)
(* half done.                                                              *)
LEMMA CreateTradeKeeps ==
    ASSUME P!PortfolioAssumption, HoldingsInv, NEW w \in Workers, P!CreateTrade(w)
    PROVE  HoldingsInv'
<1> DEFINE h == pReq[w].holding
           new == [pReq[w] EXCEPT !.pc = "list"]
<1>1. PICK i \in 1 .. Len(trades[h]) + 1 :
         trades' = [trades EXCEPT ![h] = P!InsertAt(@, i, pReq[w].trade[1])]
  BY DEF P!CreateTrade
<1>2. /\ pReq[w].pc = "insert" /\ pReq' = [pReq EXCEPT ![w] = new]
      /\ calm' = [calm EXCEPT ![h] = \A v \in Workers : ~ P!Open(v, h)]
      /\ UNCHANGED <<holding, pFaults>>
  BY DEF P!CreateTrade
<1>3. /\ pReq[w] \in OrderStates /\ h \in Holdings /\ holding[h].state # "none"
      /\ Len(pReq[w].trade) = 1
  BY <1>2 DEF HoldingsInv, PortfolioTypes, HoldingKnown
<1>4. /\ trades' \in [Holdings -> Seq(TradeInputs)]
      /\ \A g \in Holdings \ {h} : trades'[g] = trades[g]
  <2> DEFINE list == trades[h]
             t == pReq[w].trade[1]
  <2>1. list \in Seq(TradeInputs) /\ t \in TradeInputs
    BY <1>3 DEF HoldingsInv, PortfolioTypes, OrderStates
  <2>2. SubSeq(list, 1, i - 1) \in Seq(TradeInputs) /\ SubSeq(list, i, Len(list)) \in Seq(TradeInputs)
    BY <2>1
  <2>3. <<t>> \in Seq(TradeInputs)
    BY <2>1
  <2>4. P!InsertAt(list, i, t) \in Seq(TradeInputs)
    BY <2>2, <2>3 DEF P!InsertAt
  <2> QED  BY <1>1, <1>3, <2>4 DEF HoldingsInv, PortfolioTypes
<1>5. new \in OrderStates /\ new.pc = "list" /\ new.holding = h
  BY <1>3 DEF OrderStates
<1>6. /\ pReq' \in [Workers -> OrderStates] /\ pReq'[w] = new
      /\ \A v \in Workers \ {w} : pReq'[v] = pReq[v]
  BY <1>2, <1>5 DEF HoldingsInv, PortfolioTypes
<1>7. /\ calm' \in [Holdings -> BOOLEAN] /\ (calm'[h] => \A v \in Workers : ~ P!Open(v, h))
      /\ \A g \in Holdings \ {h} : calm'[g] = calm[g]
  <2>1. (\A v \in Workers : ~ P!Open(v, h)) \in BOOLEAN
    OBVIOUS
  <2> QED  BY <1>2, <1>3, <2>1 DEF HoldingsInv, PortfolioTypes
<1>8. PortfolioTypes'
  BY <1>2, <1>4, <1>6, <1>7 DEF HoldingsInv, PortfolioTypes
<1>9. P!Active' = P!Active /\ Creating' \subseteq Creating
  BY <1>2, <1>5, <1>6 DEF P!Active, Creating
<1> HIDE DEF new
<1>10. HoldingKnown'
  BY <1>2, <1>3, <1>5, <1>6 DEF HoldingsInv, HoldingKnown
<1>11. \A g \in Holdings :
         /\ P!Open(w, g)' <=> g = h
         /\ \A v \in Workers \ {w} : P!Open(v, g)' <=> P!Open(v, g)
  BY <1>5, <1>6 DEF P!Open
<1>12. CalmAlone'
  <2> SUFFICES ASSUME NEW g \in Holdings, calm'[g]
               PROVE  /\ holding'[g].state # "none"
                      /\ \A u, v \in Workers : P!Open(u, g)' /\ P!Open(v, g)' => u = v
                      /\ \A v \in Workers : P!Open(v, g)' /\ pReq'[v].pc = "update" =>
                            pReq'[v].position = P!RecalculateCost(P!Zero, trades'[g])
                      /\ g \in P!Active' /\ (\A v \in Workers : ~ P!Open(v, g)') =>
                            holding'[g].position = P!RecalculateCost(P!Zero, trades'[g])
    BY DEF CalmAlone
  <2>1. CASE g = h
    <3>1. \A v \in Workers : P!Open(v, g)' <=> v = w
      BY <1>7, <1>11, <2>1
    <3> QED  BY <1>2, <1>3, <1>5, <1>6, <2>1, <3>1
  <2>2. CASE g # h
    <3>1. calm[g] /\ trades'[g] = trades[g]
      BY <1>4, <1>7, <2>2
    <3>2. \A v \in Workers : P!Open(v, g)' <=> P!Open(v, g)
      BY <1>2, <1>11, <2>2 DEF P!Open
    <3>3. \A v \in Workers : P!Open(v, g) => pReq'[v] = pReq[v]
      BY <1>2, <1>6 DEF P!Open
    <3> QED  BY <1>2, <1>9, <3>1, <3>2, <3>3 DEF HoldingsInv, CalmAlone
  <2> QED  BY <2>1, <2>2
<1> QED  BY <1>8, <1>9, <1>10, <1>12, PlacesKeep DEF HoldingsInv

(* The figures of all trades are stored, by the only request that has any. *)
LEMMA UpdateHoldingCostKeeps ==
    ASSUME P!PortfolioAssumption, HoldingsInv, NEW w \in Workers, P!UpdateHoldingCost(w)
    PROVE  HoldingsInv'
<1> DEFINE h == pReq[w].holding
<1>1. /\ pReq[w].pc = "update" /\ P!Answer(w) /\ UNCHANGED <<trades, calm, pFaults>>
      /\ holding' = IF h \in P!Active THEN [holding EXCEPT ![h].position = pReq[w].position]
                    ELSE holding
  BY DEF P!UpdateHoldingCost
<1>2. pReq[w] \in OrderStates /\ h \in Holdings /\ pReq[w].position \in PositionStates
  BY <1>1 DEF HoldingsInv, PortfolioTypes, HoldingKnown, OrderStates
<1>3. /\ holding' \in [Holdings -> HoldingStates]
      /\ \A g \in Holdings : holding'[g].state = holding[g].state
      /\ \A g \in Holdings \ {h} : holding'[g] = holding[g]
      /\ h \in P!Active => holding'[h].position = pReq[w].position
  <2>1. CASE h \in P!Active
    <3> DEFINE new == [holding[h] EXCEPT !.position = pReq[w].position]
    <3>1. holding[h] \in HoldingStates
      BY <1>2 DEF HoldingsInv, PortfolioTypes
    <3>2. new \in HoldingStates /\ new.state = holding[h].state /\ new.position = pReq[w].position
      BY <1>2, <3>1 DEF HoldingStates
    <3>3. holding' = [holding EXCEPT ![h] = new]
      BY <1>1, <2>1
    <3> HIDE DEF new
    <3> QED  BY <1>2, <3>2, <3>3 DEF HoldingsInv, PortfolioTypes
  <2>2. CASE h \notin P!Active
    BY <1>1, <2>2 DEF HoldingsInv, PortfolioTypes
  <2> QED  BY <2>1, <2>2
<1>4. /\ pReq' \in [Workers -> OrderStates] /\ HoldingKnown' /\ Creating' \subseteq Creating
      /\ \A v \in Workers, g \in Holdings : P!Open(v, g)' <=> v # w /\ P!Open(v, g)
      /\ \A v \in Workers \ {w} : pReq'[v] = pReq[v]
  BY <1>1, <1>3, Answered
<1>5. PortfolioTypes'
  BY <1>1, <1>3, <1>4 DEF HoldingsInv, PortfolioTypes
<1>6. P!Active' = P!Active
  BY <1>3 DEF P!Active
<1>7. \A g \in Holdings : P!Open(w, g) <=> g = h
  BY <1>1 DEF P!Open
<1>8. CalmAlone'
  <2>1. \A g \in Holdings, v \in Workers : P!Open(v, g)' => P!Open(v, g) /\ pReq'[v] = pReq[v]
    BY <1>4
  <2>2. \A g \in Holdings \ {h} :
           (\A v \in Workers : ~ P!Open(v, g)') => \A v \in Workers : ~ P!Open(v, g)
    BY <1>4, <1>7
  <2>3. calm[h] /\ h \in P!Active => holding'[h].position = P!RecalculateCost(P!Zero, trades[h])
    BY <1>1, <1>2, <1>3, <1>7 DEF HoldingsInv, CalmAlone
  <2> HIDE DEF h
  <2> QED  BY <1>1, <1>3, <1>6, <2>1, <2>2, <2>3 DEF HoldingsInv, CalmAlone
<1> QED  BY <1>4, <1>5, <1>6, <1>8, PlacesKeep DEF HoldingsInv

(* A trade that is left half done makes its holding restless.              *)
LEMMA PortfolioFailsKeeps ==
    ASSUME P!PortfolioAssumption, HoldingsInv, NEW w \in Workers, P!StatementFails(w)
    PROVE  HoldingsInv'
<1> DEFINE h == pReq[w].holding
<1>1. /\ P!Answer(w) /\ UNCHANGED <<holding, trades>> /\ pFaults < MaxFaults /\ pFaults' = pFaults + 1
      /\ calm' = IF h \in Holdings THEN [calm EXCEPT ![h] = @ /\ ~ P!Open(w, h)] ELSE calm
  BY DEF P!StatementFails
<1>2. /\ pReq' \in [Workers -> OrderStates] /\ HoldingKnown' /\ Creating' \subseteq Creating
      /\ \A v \in Workers, g \in Holdings : P!Open(v, g)' <=> v # w /\ P!Open(v, g)
      /\ \A v \in Workers \ {w} : pReq'[v] = pReq[v]
  BY <1>1, Answered
<1>3. /\ calm' \in [Holdings -> BOOLEAN]
      /\ \A g \in Holdings : calm'[g] => calm[g] /\ ~ P!Open(w, g)
  <2>1. \A g \in Holdings : P!Open(w, g) => g = h
    BY DEF P!Open
  <2>2. P!Open(w, h) \in BOOLEAN
    BY DEF P!Open
  <2> HIDE DEF h
  <2> QED  BY <1>1, <2>1, <2>2 DEF HoldingsInv, PortfolioTypes
<1>4. PortfolioTypes'
  BY <1>1, <1>2, <1>3, PortfolioFacts DEF HoldingsInv, PortfolioTypes
<1>5. P!Active' = P!Active
  BY <1>1 DEF P!Active
<1>6. CalmAlone'
  <2>1. \A g \in Holdings, v \in Workers : P!Open(v, g)' => P!Open(v, g) /\ pReq'[v] = pReq[v]
    BY <1>2
  <2>2. \A g \in Holdings : calm'[g] /\ (\A v \in Workers : ~ P!Open(v, g)')
           => \A v \in Workers : ~ P!Open(v, g)
    BY <1>2, <1>3
  <2> HIDE DEF h
  <2> QED  BY <1>1, <1>3, <1>5, <2>1, <2>2 DEF HoldingsInv, CalmAlone
<1> QED  BY <1>2, <1>4, <1>5, <1>6, PlacesKeep DEF HoldingsInv

LEMMA HoldingsStep ==
    ASSUME P!PortfolioAssumption, HoldingsInv, P!Next
    PROVE  HoldingsInv'
  BY CountHoldingsKeeps, CreateHoldingKeeps, GetHoldingKeeps, UpdateHoldingKeeps,
     SoftDeleteHoldingKeeps, CreateTradeKeeps, ListTradesKeeps, UpdateHoldingCostKeeps,
     ListBreaksOffKeeps, PortfolioFailsKeeps
  DEF P!Next

LEMMA HoldingsStay == ASSUME HoldingsInv, UNCHANGED pVars PROVE HoldingsInv'
BY DEF pVars, HoldingsInv, CalmAlone, HoldingKnown, PlacesCounted, PortfolioTypes,
       P!Active, P!Open, Creating

-----------------------------------------------------------------------------
(* The access to an LLM.                                                   *)

LEMMA RowsCardinality == ASSUME NEW set PROVE L!Cardinality(set) = Cardinality(set)
  BY Zenon DEF L!Cardinality, Cardinality

RowStates == [active : BOOLEAN, fallback : BOOLEAN, health : L!Healths]
AccessStates ==
    [pc : {"idle", "lookup", "consent", "build", "call", "stamp", "default", "parse", "done",
           "probe", "save", "lock", "insert", "commit", "ping", "pong"},
     row : 0 .. MaxRows, fallback : BOOLEAN, ok : BOOLEAN, probe : BOOLEAN, agreed : BOOLEAN,
     card : [source : {"none", "llm", "mixed", "template"},
             provider : {"none", "user", "system_default"}]]

(* A transaction that is about to commit is alone, replaces the only       *)
(* active row, and has room for its own.                                   *)
CommitsAlone ==
    \A w \in Workers : lReq[w].pc = "commit" =>
        /\ \A v \in Workers : lReq[v].pc = "commit" => v = w
        /\ L!ActiveRows \subseteq {lReq[w].row}
        /\ Len(rows) < MaxRows

(* A call is made with a row that exists, and what is about to be stamped  *)
(* is its outcome.                                                         *)
CallsEarn ==
    \A w \in Workers :
        /\ lReq[w].pc \in {"build", "call", "ping", "stamp", "pong"} => lReq[w].row \in DOMAIN rows
        /\ lReq[w].pc \in {"stamp", "pong"} => L!Outcome(lReq[w].ok) \in earned[lReq[w].row]

(* An analysis that can see the consent has noted it.                      *)
ConsentNoted == \A w \in Workers : L!Analysing(w) /\ consent => lReq[w].agreed

OneRow == \A r, s \in L!ActiveRows : r = s

ProvidersInv ==
    /\ L!TypeOK /\ CommitsAlone /\ CallsEarn /\ ConsentNoted
    /\ OneRow /\ L!HealthEarned /\ L!DefaultAuthorised

LEMMA OneActiveIs == ASSUME OneRow PROVE L!OneActive
<1>1. CASE L!ActiveRows = {}
  BY <1>1, FS_EmptySet, RowsCardinality DEF L!OneActive
<1>2. CASE L!ActiveRows # {}
  <2>1. PICK r \in L!ActiveRows : L!ActiveRows = {r}
    BY <1>2 DEF OneRow
  <2> QED  BY <2>1, FS_Singleton, RowsCardinality DEF L!OneActive
<1> QED  BY <1>1, <1>2

LEMMA ProvidersInit == ASSUME L!LlmAssumption, L!Init PROVE ProvidersInv
<1> USE DEF L!Init
<1>1. L!Idle \in AccessStates
  BY DEF L!Idle, L!Unwritten, AccessStates, L!LlmAssumption
<1>2. rows \in Seq(RowStates) /\ Len(rows) = 0 /\ DOMAIN rows = {}
      /\ earned \in Seq(SUBSET {"healthy", "failing"}) /\ Len(earned) = 0
  OBVIOUS
<1>3. L!TypeOK
  BY <1>1, <1>2 DEF L!TypeOK, AccessStates, RowStates, L!LlmAssumption
<1>4. \A w \in Workers : lReq[w].pc = "idle"
  BY DEF L!Idle
<1>5. CommitsAlone /\ CallsEarn /\ ConsentNoted /\ L!DefaultAuthorised
  BY <1>4 DEF CommitsAlone, CallsEarn, ConsentNoted, L!DefaultAuthorised, L!Analysing
<1>6. OneRow /\ L!HealthEarned
  BY <1>2 DEF OneRow, L!HealthEarned, L!ActiveRows
<1> QED  BY <1>3, <1>5, <1>6 DEF ProvidersInv

(* The invariant again, as the steps need it.                              *)
LEMMA AccessFacts ==
    ASSUME L!LlmAssumption, ProvidersInv
    PROVE  /\ lReq \in [Workers -> AccessStates]
           /\ rows \in Seq(RowStates) /\ Len(rows) \in Nat /\ DOMAIN rows = 1 .. Len(rows)
           /\ earned \in Seq(SUBSET {"healthy", "failing"})
           /\ Len(earned) = Len(rows) /\ DOMAIN earned = DOMAIN rows
           /\ Len(rows) <= MaxRows /\ MaxRows \in Nat
           /\ L!ActiveRows \subseteq DOMAIN rows
           /\ consent \in BOOLEAN /\ default \in BOOLEAN /\ lFaults \in 0 .. MaxFaults
           /\ MaxFaults \in Nat
  BY DEF ProvidersInv, L!TypeOK, AccessStates, RowStates, L!LlmAssumption, L!ActiveRows

(* At most a health is stamped, with an outcome that its row has earned.   *)
RowsStay ==
    /\ rows' \in Seq(RowStates) /\ Len(rows') = Len(rows)
    /\ \A r \in DOMAIN rows :
         /\ rows'[r].active = rows[r].active
         /\ rows'[r].health = rows[r].health \/ rows'[r].health \in earned[r]

LEMMA SameRows == ASSUME L!LlmAssumption, ProvidersInv, UNCHANGED rows PROVE RowsStay
  BY AccessFacts DEF RowsStay

(* A worker moves, and the rows stay as they are but for a health.         *)
LEMMA MoveKeeps ==
    ASSUME L!LlmAssumption, ProvidersInv, NEW w \in Workers, NEW new \in AccessStates,
           lReq' = [lReq EXCEPT ![w] = new],
           RowsStay, UNCHANGED <<consent, default, earned>>,
           lFaults' \in 0 .. MaxFaults,
           new.pc = "commit" =>
              /\ \A v \in Workers \ {w} : lReq[v].pc # "commit"
              /\ L!ActiveRows \subseteq {new.row} /\ Len(rows) < MaxRows,
           new.pc \in {"build", "call", "ping", "stamp", "pong"} => new.row \in DOMAIN rows,
           new.pc \in {"stamp", "pong"} => L!Outcome(new.ok) \in earned[new.row],
           new.pc \in {"lookup", "consent", "build", "call", "stamp", "default", "parse"} =>
              (consent => new.agreed),
           new.pc = "default" => new.fallback \/ new.agreed
    PROVE  ProvidersInv'
<1> USE AccessFacts
<1>1. /\ lReq' \in [Workers -> AccessStates] /\ lReq'[w] = new
      /\ \A v \in Workers \ {w} : lReq'[v] = lReq[v]
  OBVIOUS
<1>2. /\ rows' \in Seq(RowStates) /\ Len(rows') = Len(rows) /\ DOMAIN rows' = DOMAIN rows
      /\ \A r \in DOMAIN rows :
           /\ rows'[r].active = rows[r].active
           /\ rows'[r].health = rows[r].health \/ rows'[r].health \in earned[r]
      /\ L!ActiveRows' = L!ActiveRows
  BY DEF RowsStay, L!ActiveRows
<1>3. L!TypeOK'
  BY <1>1, <1>2 DEF L!TypeOK, AccessStates, RowStates
<1>4. CommitsAlone'
  BY <1>1, <1>2 DEF ProvidersInv, CommitsAlone
<1>5. CallsEarn'
  BY <1>1, <1>2 DEF ProvidersInv, CallsEarn, L!Outcome
<1>6. ConsentNoted' /\ L!DefaultAuthorised'
  BY <1>1 DEF ProvidersInv, ConsentNoted, L!DefaultAuthorised, L!Analysing
<1>7. OneRow' /\ L!HealthEarned'
  BY <1>2 DEF ProvidersInv, OneRow, L!HealthEarned
<1> QED  BY <1>3, <1>4, <1>5, <1>6, <1>7 DEF ProvidersInv

LEMMA IdleState ==
    ASSUME L!LlmAssumption
    PROVE  /\ L!Idle \in AccessStates
           /\ L!Idle.pc = "idle" /\ L!Idle.row = 0 /\ L!Idle.fallback = FALSE
           /\ L!Idle.agreed = FALSE
  BY DEF L!Idle, L!Unwritten, AccessStates, L!LlmAssumption

(* A worker is done with its request.                                      *)
LEMMA AnswerKeeps ==
    ASSUME L!LlmAssumption, ProvidersInv, NEW w \in Workers, L!Answer(w),
           RowsStay, UNCHANGED <<consent, default, earned>>, lFaults' \in 0 .. MaxFaults
    PROVE  ProvidersInv'
<1>1. lReq' = [lReq EXCEPT ![w] = L!Idle]
  BY DEF L!Answer
<1> QED  BY <1>1, IdleState, MoveKeeps

LEMMA FinishKeeps ==
    ASSUME L!LlmAssumption, ProvidersInv, NEW w \in Workers,
           NEW source \in {"llm", "mixed", "template"},
           NEW provider \in {"none", "user", "system_default"}, L!Finish(w, source, provider),
           RowsStay, UNCHANGED <<consent, default, earned>>, lFaults' \in 0 .. MaxFaults
    PROVE  ProvidersInv'
<1> DEFINE new == [L!Idle EXCEPT !.pc = "done",
                                 !.card = [source |-> source, provider |-> provider]]
<1>1. lReq' = [lReq EXCEPT ![w] = new]
  BY DEF L!Finish
<1>3. new \in AccessStates /\ new.pc = "done"
  BY IdleState DEF AccessStates
<1> HIDE DEF new
<1> QED  BY <1>1, <1>3, MoveKeeps

LEMMA FaultCounts ==
    ASSUME L!LlmAssumption, ProvidersInv, L!Fault \/ UNCHANGED lFaults
    PROVE  lFaults' \in 0 .. MaxFaults
  BY AccessFacts DEF L!Fault

LEMMA StartAnalysisKeeps ==
    ASSUME L!LlmAssumption, ProvidersInv, NEW w \in Workers, L!StartAnalysis(w)
    PROVE  ProvidersInv'
<1> DEFINE new == [L!Idle EXCEPT !.pc = "lookup", !.agreed = consent]
<1>1. /\ lReq' = [lReq EXCEPT ![w] = new] /\ UNCHANGED <<rows, consent, default, earned, lFaults>>
      /\ RowsStay
  BY SameRows DEF L!StartAnalysis
<1>3. new \in AccessStates /\ new.pc = "lookup" /\ new.agreed = consent
  BY IdleState, AccessFacts DEF AccessStates
<1> HIDE DEF new
<1> QED  BY <1>1, <1>3, MoveKeeps, FaultCounts

(* To another statement of the same request, with nothing else changed.    *)
LEMMA ToKeeps ==
    ASSUME L!LlmAssumption, ProvidersInv, NEW w \in Workers,
           NEW to \in {"consent", "call", "default", "save", "commit"}, L!To(w, to),
           RowsStay, UNCHANGED <<consent, default, earned>>, L!Fault \/ UNCHANGED lFaults,
           to \in {"consent", "call", "default"} => L!Analysing(w),
           to = "call" => lReq[w].pc = "build",
           to = "default" => lReq[w].fallback \/ lReq[w].agreed,
           to = "commit" =>
              /\ \A v \in Workers \ {w} : lReq[v].pc # "commit"
              /\ L!ActiveRows \subseteq {lReq[w].row} /\ Len(rows) < MaxRows
    PROVE  ProvidersInv'
<1> DEFINE new == [lReq[w] EXCEPT !.pc = to]
<1>0. lReq[w] \in AccessStates
  BY AccessFacts
<1>1. lReq' = [lReq EXCEPT ![w] = new]
  BY <1>0, AccessFacts DEF L!To
<1>2. /\ new \in AccessStates /\ new.pc = to /\ new.row = lReq[w].row
      /\ new.fallback = lReq[w].fallback /\ new.agreed = lReq[w].agreed
  BY <1>0 DEF AccessStates
<1>3. to \in {"consent", "call", "default"} => (consent => new.agreed)
  BY <1>2 DEF ProvidersInv, ConsentNoted
<1>4. to = "call" => new.row \in DOMAIN rows
  BY <1>2 DEF ProvidersInv, CallsEarn
<1> HIDE DEF new
<1> QED  BY <1>1, <1>2, <1>3, <1>4, MoveKeeps, FaultCounts

LEMMA LookUpKeeps ==
    ASSUME L!LlmAssumption, ProvidersInv, NEW w \in Workers, L!LookUp(w)
    PROVE  ProvidersInv'
<1>0. /\ RowsStay /\ UNCHANGED <<rows, consent, default, earned>> /\ (L!Fault \/ UNCHANGED lFaults)
      /\ lReq[w].pc = "lookup" /\ L!Analysing(w) /\ lReq[w] \in AccessStates
  BY AccessFacts, SameRows DEF L!LookUp, L!Analysing
<1>1. CASE L!To(w, "consent")
  BY <1>0, <1>1, ToKeeps
<1>2. CASE \E r \in L!ActiveRows :
              lReq' = [lReq EXCEPT ![w] = [@ EXCEPT
                         !.pc = "build", !.row = r, !.fallback = rows[r].fallback]]
  <2>1. PICK r \in L!ActiveRows :
              lReq' = [lReq EXCEPT ![w] = [@ EXCEPT
                         !.pc = "build", !.row = r, !.fallback = rows[r].fallback]]
    BY <1>2
  <2> DEFINE new == [lReq[w] EXCEPT !.pc = "build", !.row = r, !.fallback = rows[r].fallback]
  <2>2. r \in DOMAIN rows /\ rows[r].fallback \in BOOLEAN /\ r \in 0 .. MaxRows
    <3>1. r \in 1 .. Len(rows)
      BY AccessFacts
    <3>2. rows[r] \in RowStates
      BY <3>1, AccessFacts
    <3> QED  BY <3>1, <3>2, AccessFacts DEF RowStates
  <2>3. lReq' = [lReq EXCEPT ![w] = new]
    BY <2>1, AccessFacts
  <2>4. new \in AccessStates /\ new.pc = "build" /\ new.row = r /\ new.agreed = lReq[w].agreed
    BY <1>0, <2>2 DEF AccessStates
  <2>5. consent => new.agreed
    BY <1>0, <2>4 DEF ProvidersInv, ConsentNoted
  <2> HIDE DEF new
  <2> QED  BY <1>0, <2>2, <2>3, <2>4, <2>5, MoveKeeps, FaultCounts
<1> QED  BY <1>1, <1>2 DEF L!LookUp

LEMMA CheckConsentKeeps ==
    ASSUME L!LlmAssumption, ProvidersInv, NEW w \in Workers, L!CheckConsent(w)
    PROVE  ProvidersInv'
<1>0. /\ RowsStay /\ UNCHANGED <<rows, consent, default, earned>> /\ (L!Fault \/ UNCHANGED lFaults)
      /\ lReq[w].pc = "consent" /\ L!Analysing(w)
  BY SameRows DEF L!CheckConsent, L!Analysing
<1>1. CASE consent /\ L!To(w, "default")
  <2>1. lReq[w].agreed
    BY <1>0, <1>1 DEF ProvidersInv, ConsentNoted
  <2> QED  BY <1>0, <1>1, <2>1, ToKeeps
<1>2. CASE L!Finish(w, "template", "none")
  BY <1>0, <1>2, FinishKeeps, FaultCounts
<1> QED  BY <1>1, <1>2 DEF L!CheckConsent

LEMMA FallThroughKeeps ==
    ASSUME L!LlmAssumption, ProvidersInv, NEW w \in Workers, L!FallThrough(w), L!Analysing(w),
           RowsStay, UNCHANGED <<consent, default, earned>>, L!Fault \/ UNCHANGED lFaults
    PROVE  ProvidersInv'
<1>1. CASE lReq[w].fallback /\ L!To(w, "default")
  BY <1>1, ToKeeps
<1>2. CASE L!Finish(w, "template", "none")
  BY <1>2, FinishKeeps, FaultCounts
<1> QED  BY <1>1, <1>2 DEF L!FallThrough

LEMMA BuildUserProviderKeeps ==
    ASSUME L!LlmAssumption, ProvidersInv, NEW w \in Workers, L!BuildUserProvider(w)
    PROVE  ProvidersInv'
<1>0. /\ RowsStay /\ UNCHANGED <<rows, consent, default, earned>> /\ (L!Fault \/ UNCHANGED lFaults)
      /\ lReq[w].pc = "build" /\ L!Analysing(w)
  BY SameRows DEF L!BuildUserProvider, L!Analysing
<1>1. CASE L!To(w, "call")
  BY <1>0, <1>1, ToKeeps
<1>2. CASE L!FallThrough(w)
  BY <1>0, <1>2, FallThroughKeeps
<1> QED  BY <1>1, <1>2 DEF L!BuildUserProvider

(* A call earns its outcome for the row that it was made with.             *)
LEMMA CallUserProviderKeeps ==
    ASSUME L!LlmAssumption, ProvidersInv, NEW w \in Workers, L!CallUserProvider(w)
    PROVE  ProvidersInv'
<1> USE AccessFacts
<1>1. PICK ok \in BOOLEAN :
         /\ lReq' = [lReq EXCEPT ![w] = [@ EXCEPT
                      !.pc = IF lReq[w].pc = "call" THEN "stamp" ELSE "pong", !.ok = ok]]
         /\ earned' = [earned EXCEPT ![lReq[w].row] = @ \cup {L!Outcome(ok)}]
  BY DEF L!CallUserProvider
<1>2. UNCHANGED <<rows, consent, default, lFaults>> /\ lReq[w].pc \in {"call", "ping"}
  BY DEF L!CallUserProvider
<1> DEFINE row == lReq[w].row
           new == [lReq[w] EXCEPT !.pc = IF lReq[w].pc = "call" THEN "stamp" ELSE "pong", !.ok = ok]
<1>3. lReq[w] \in AccessStates
  OBVIOUS
<1>4. /\ new \in AccessStates /\ new.pc \in {"stamp", "pong"} /\ new.ok = ok /\ new.row = row
      /\ new.fallback = lReq[w].fallback /\ new.agreed = lReq[w].agreed
      /\ (new.pc = "stamp" => lReq[w].pc = "call")
  BY <1>2, <1>3 DEF AccessStates
<1>16. lReq' = [lReq EXCEPT ![w] = new]
  BY <1>1
<1> HIDE DEF new
<1>17. lReq'[w] = new
  BY <1>16
<1>5. \A v \in Workers \ {w} : lReq'[v] = lReq[v]
  BY <1>16
<1>6. lReq' \in [Workers -> AccessStates]
  BY <1>16, <1>4
<1>7. row \in DOMAIN rows /\ row \in DOMAIN earned
  BY <1>2 DEF ProvidersInv, CallsEarn
<1>8. L!Outcome(ok) \in {"healthy", "failing"}
  BY DEF L!Outcome
<1>9. /\ earned' \in Seq(SUBSET {"healthy", "failing"}) /\ Len(earned') = Len(earned)
      /\ DOMAIN earned' = DOMAIN earned
      /\ \A r \in DOMAIN earned : earned[r] \subseteq earned'[r]
      /\ L!Outcome(ok) \in earned'[row]
  <2>1. earned[row] \in SUBSET {"healthy", "failing"}
    BY <1>7
  <2> QED  BY <1>1, <1>7, <1>8, <2>1
<1>10. L!ActiveRows' = L!ActiveRows
  BY <1>2 DEF L!ActiveRows
<1>11. L!TypeOK'
  BY <1>2, <1>6, <1>9 DEF L!TypeOK, AccessStates, RowStates
<1>12. CommitsAlone'
  BY <1>2, <1>4, <1>5, <1>17, <1>10 DEF ProvidersInv, CommitsAlone
<1>13. CallsEarn'
  <2> SUFFICES ASSUME NEW v \in Workers
               PROVE  /\ lReq'[v].pc \in {"build", "call", "ping", "stamp", "pong"}
                           => lReq'[v].row \in DOMAIN rows'
                      /\ lReq'[v].pc \in {"stamp", "pong"}
                           => L!Outcome(lReq'[v].ok) \in earned'[lReq'[v].row]
    BY DEF CallsEarn, L!Outcome
  <2>1. CASE v = w
    BY <2>1, <1>2, <1>4, <1>17, <1>7, <1>9
  <2>2. CASE v # w
    <3>1. lReq'[v] = lReq[v]
      BY <2>2, <1>5
    <3>2. lReq[v].pc \in {"stamp", "pong"}
            => lReq[v].row \in DOMAIN earned /\ L!Outcome(lReq[v].ok) \in earned[lReq[v].row]
      BY DEF ProvidersInv, CallsEarn
    <3> QED  BY <3>1, <3>2, <1>2, <1>9 DEF ProvidersInv, CallsEarn
  <2> QED  BY <2>1, <2>2
<1>14. ConsentNoted' /\ L!DefaultAuthorised'
  BY <1>2, <1>4, <1>5, <1>17 DEF ProvidersInv, ConsentNoted, L!DefaultAuthorised, L!Analysing
<1>15. OneRow' /\ L!HealthEarned'
  BY <1>2, <1>9, <1>10 DEF ProvidersInv, OneRow, L!HealthEarned
<1> QED  BY <1>11, <1>12, <1>13, <1>14, <1>15 DEF ProvidersInv

LEMMA ReachedKeeps ==
    ASSUME L!LlmAssumption, ProvidersInv, NEW w \in Workers,
           NEW provider \in {"user", "system_default"}, L!Reached(w, provider), L!Analysing(w),
           RowsStay, UNCHANGED <<consent, default, earned>>, L!Fault \/ UNCHANGED lFaults
    PROVE  ProvidersInv'
<1> DEFINE new == [lReq[w] EXCEPT !.pc = "parse", !.card = [@ EXCEPT !.provider = provider]]
<1>1. lReq[w] \in AccessStates
  BY AccessFacts
<1>2. lReq' = [lReq EXCEPT ![w] = new]
  BY <1>1, AccessFacts DEF L!Reached, AccessStates
<1>3. new \in AccessStates /\ new.pc = "parse" /\ new.agreed = lReq[w].agreed
  BY <1>1 DEF AccessStates
<1>4. consent => new.agreed
  BY <1>3 DEF ProvidersInv, ConsentNoted
<1> HIDE DEF new
<1> QED  BY <1>2, <1>3, <1>4, MoveKeeps, FaultCounts

(* The health is stamped with what the call of this row has earned, if the *)
(* row is still active.                                                    *)
LEMMA StampHealthKeeps ==
    ASSUME L!LlmAssumption, ProvidersInv, NEW w \in Workers, L!StampHealth(w)
    PROVE  ProvidersInv'
<1> DEFINE row == lReq[w].row
           stamped == L!Outcome(lReq[w].ok)
<1>1. /\ UNCHANGED <<consent, default, earned>> /\ (L!Fault \/ UNCHANGED lFaults)
      /\ lReq[w].pc \in {"stamp", "pong"}
      /\ lReq[w].pc = "stamp" => L!Analysing(w)
  BY DEF L!StampHealth, L!Analysing
<1>2. stamped \in earned[row] /\ stamped \in L!Healths
  BY <1>1 DEF ProvidersInv, CallsEarn, L!Outcome, L!Healths
<1>3. RowsStay
  <2>1. CASE UNCHANGED rows
    BY <2>1, SameRows
  <2>2. CASE row \in L!ActiveRows /\ rows' = [rows EXCEPT ![row].health = stamped]
    <3>1. row \in DOMAIN rows /\ rows[row] \in RowStates
      BY <2>2, AccessFacts
    <3>2. [rows[row] EXCEPT !.health = stamped] \in RowStates
      BY <3>1, <1>2 DEF RowStates
    <3>3. rows' = [rows EXCEPT ![row] = [rows[row] EXCEPT !.health = stamped]]
      BY <2>2
    <3>4. /\ rows' \in Seq(RowStates) /\ Len(rows') = Len(rows)
          /\ \A r \in DOMAIN rows \ {row} : rows'[r] = rows[r]
          /\ rows'[row] = [rows[row] EXCEPT !.health = stamped]
      BY <3>1, <3>2, <3>3, AccessFacts
    <3>5. rows'[row].active = rows[row].active /\ rows'[row].health = stamped
      BY <3>1, <3>4 DEF RowStates
    <3> QED  BY <3>4, <3>5, <1>2 DEF RowsStay
  <2> QED  BY <2>1, <2>2 DEF L!StampHealth, L!UpdateHealth
<1>4. CASE L!Answer(w)
  BY <1>1, <1>3, <1>4, AnswerKeeps, FaultCounts
<1>5. CASE L!Analysing(w) /\ L!Reached(w, "user")
  BY <1>1, <1>3, <1>5, ReachedKeeps
<1>6. CASE L!Analysing(w) /\ L!FallThrough(w)
  BY <1>1, <1>3, <1>6, FallThroughKeeps
<1> QED  BY <1>1, <1>4, <1>5, <1>6 DEF L!StampHealth

LEMMA CallDefaultKeeps ==
    ASSUME L!LlmAssumption, ProvidersInv, NEW w \in Workers, L!CallDefault(w)
    PROVE  ProvidersInv'
<1>0. /\ RowsStay /\ UNCHANGED <<rows, consent, default, earned>> /\ (L!Fault \/ UNCHANGED lFaults)
      /\ L!Analysing(w)
  BY SameRows DEF L!CallDefault, L!Analysing
<1>1. CASE L!Finish(w, "template", "none")
  BY <1>0, <1>1, FinishKeeps, FaultCounts
<1>2. CASE L!Reached(w, "system_default")
  BY <1>0, <1>2, ReachedKeeps
<1> QED  BY <1>1, <1>2 DEF L!CallDefault

LEMMA ParseAnswerKeeps ==
    ASSUME L!LlmAssumption, ProvidersInv, NEW w \in Workers, L!ParseAnswer(w)
    PROVE  ProvidersInv'
<1>1. /\ RowsStay /\ UNCHANGED <<rows, consent, default, earned>> /\ (L!Fault \/ UNCHANGED lFaults)
  BY SameRows DEF L!ParseAnswer
<1>2. PICK source \in {"llm", "mixed", "template"} : L!Finish(w, source, lReq[w].card.provider)
  BY DEF L!ParseAnswer
<1>3. lReq[w].card.provider \in {"none", "user", "system_default"}
  BY AccessFacts DEF AccessStates
<1> QED  BY <1>1, <1>2, <1>3, FinishKeeps, FaultCounts

LEMMA StartPutKeeps ==
    ASSUME L!LlmAssumption, ProvidersInv, NEW w \in Workers, L!StartPut(w)
    PROVE  ProvidersInv'
<1>1. RowsStay /\ UNCHANGED <<rows, consent, default, earned, lFaults>>
  BY SameRows DEF L!StartPut
<1>2. PICK fallback, probe \in BOOLEAN :
         lReq' = [lReq EXCEPT ![w] = [L!Idle EXCEPT
                   !.pc = IF probe THEN "probe" ELSE "save", !.fallback = fallback, !.probe = probe]]
  BY DEF L!StartPut
<1> DEFINE new == [L!Idle EXCEPT
                   !.pc = IF probe THEN "probe" ELSE "save", !.fallback = fallback, !.probe = probe]
<1>3. new \in AccessStates /\ new.pc \in {"probe", "save"}
  BY IdleState DEF AccessStates
<1>4. lReq' = [lReq EXCEPT ![w] = new]
  BY <1>2
<1> HIDE DEF new
<1> QED  BY <1>1, <1>3, <1>4, MoveKeeps, FaultCounts

LEMMA ProbeBeforeSaveKeeps ==
    ASSUME L!LlmAssumption, ProvidersInv, NEW w \in Workers, L!ProbeBeforeSave(w)
    PROVE  ProvidersInv'
<1>1. RowsStay /\ UNCHANGED <<rows, consent, default, earned, lFaults>>
  BY SameRows DEF L!ProbeBeforeSave
<1>2. CASE L!To(w, "save")
  BY <1>1, <1>2, ToKeeps
<1>3. CASE L!Answer(w)
  BY <1>1, <1>3, AnswerKeeps, FaultCounts
<1> QED  BY <1>2, <1>3 DEF L!ProbeBeforeSave

(* The transaction of a PUT: to a statement with the row chosen.           *)
LEMMA ChoiceKeeps ==
    ASSUME L!LlmAssumption, ProvidersInv, NEW w \in Workers, NEW to \in {"lock", "insert"},
           NEW row \in 0 .. MaxRows,
           lReq' = [lReq EXCEPT ![w] = [lReq[w] EXCEPT !.pc = to, !.row = row]],
           UNCHANGED <<rows, consent, default, earned, lFaults>>
    PROVE  ProvidersInv'
<1> DEFINE new == [lReq[w] EXCEPT !.pc = to, !.row = row]
<1>1. lReq[w] \in AccessStates
  BY AccessFacts
<1>2. new \in AccessStates /\ new.pc = to
  BY <1>1 DEF AccessStates
<1>3. lReq' = [lReq EXCEPT ![w] = new]
  OBVIOUS
<1> HIDE DEF new
<1> QED  BY <1>2, <1>3, SameRows, MoveKeeps, FaultCounts

LEMMA ChooseOldKeeps ==
    ASSUME L!LlmAssumption, ProvidersInv, NEW w \in Workers, L!ChooseOld(w)
    PROVE  ProvidersInv'
<1>1. UNCHANGED <<rows, consent, default, earned, lFaults>>
  BY DEF L!ChooseOld
<1>2. PICK r \in IF L!ActiveRows = {} THEN {0} ELSE L!ActiveRows :
         lReq' = [lReq EXCEPT ![w] = [@ EXCEPT !.pc = "lock", !.row = r]]
  BY DEF L!ChooseOld
<1>3. lReq' = [lReq EXCEPT ![w] = [lReq[w] EXCEPT !.pc = "lock", !.row = r]]
  BY <1>2
<1>4. r \in 0 .. MaxRows
  BY AccessFacts
<1> QED  BY <1>1, <1>3, <1>4, ChoiceKeeps

LEMMA LockOldKeeps ==
    ASSUME L!LlmAssumption, ProvidersInv, NEW w \in Workers, L!LockOld(w)
    PROVE  ProvidersInv'
<1> DEFINE row == IF lReq[w].row \in L!ActiveRows THEN lReq[w].row ELSE 0
<1>1. UNCHANGED <<rows, consent, default, earned, lFaults>>
  BY DEF L!LockOld
<1>2. lReq' = [lReq EXCEPT ![w] = [lReq[w] EXCEPT !.pc = "insert", !.row = row]]
  BY DEF L!LockOld
<1>3. row \in 0 .. MaxRows
  BY AccessFacts DEF AccessStates
<1> QED  BY <1>1, <1>2, <1>3, ChoiceKeeps

LEMMA InsertNewKeeps ==
    ASSUME L!LlmAssumption, ProvidersInv, NEW w \in Workers, L!InsertNew(w)
    PROVE  ProvidersInv'
<1>1. RowsStay /\ UNCHANGED <<rows, consent, default, earned, lFaults>>
  BY SameRows DEF L!InsertNew
<1>2. /\ Len(rows) < MaxRows
      /\ \A v \in Workers \ {w} : lReq[v].pc # "commit"
  BY DEF L!InsertNew
<1>3. CASE L!ActiveRows \subseteq {lReq[w].row} /\ L!To(w, "commit")
  BY <1>1, <1>2, <1>3, ToKeeps
<1>4. CASE L!Answer(w)
  BY <1>1, <1>4, AnswerKeeps, FaultCounts
<1> QED  BY <1>3, <1>4 DEF L!InsertNew

LEMMA PutFailsKeeps ==
    ASSUME L!LlmAssumption, ProvidersInv, NEW w \in Workers, L!PutFails(w)
    PROVE  ProvidersInv'
  BY SameRows, AnswerKeeps, FaultCounts DEF L!PutFails

LEMMA StartProbeKeeps ==
    ASSUME L!LlmAssumption, ProvidersInv, NEW w \in Workers, L!StartProbe(w)
    PROVE  ProvidersInv'
<1>1. RowsStay /\ UNCHANGED <<rows, consent, default, earned>> /\ (L!Fault \/ UNCHANGED lFaults)
  BY SameRows DEF L!StartProbe
<1>2. CASE L!Answer(w)
  BY <1>1, <1>2, AnswerKeeps, FaultCounts
<1>3. CASE \E r \in L!ActiveRows :
              lReq' = [lReq EXCEPT ![w] = [L!Idle EXCEPT !.pc = "ping", !.row = r]]
  <2>1. PICK r \in L!ActiveRows :
              lReq' = [lReq EXCEPT ![w] = [L!Idle EXCEPT !.pc = "ping", !.row = r]]
    BY <1>3
  <2> DEFINE new == [L!Idle EXCEPT !.pc = "ping", !.row = r]
  <2>2. r \in DOMAIN rows /\ r \in 0 .. MaxRows
    BY AccessFacts
  <2>3. new \in AccessStates /\ new.pc = "ping" /\ new.row = r
    BY <2>2, IdleState DEF AccessStates
  <2>4. lReq' = [lReq EXCEPT ![w] = new]
    BY <2>1
  <2> HIDE DEF new
  <2> QED  BY <1>1, <2>2, <2>3, <2>4, MoveKeeps, FaultCounts
<1> QED  BY <1>2, <1>3 DEF L!StartProbe

(* The transaction that commits is alone, so that its row is the only      *)
(* active one afterwards.                                                  *)
LEMMA CommitUpsertKeeps ==
    ASSUME L!LlmAssumption, ProvidersInv, NEW w \in Workers, L!CommitUpsert(w)
    PROVE  ProvidersInv'
<1> USE AccessFacts
<1> DEFINE kept == [r \in DOMAIN rows |-> IF r = lReq[w].row THEN L!Deleted ELSE rows[r]]
           new == [active |-> TRUE, fallback |-> lReq[w].fallback,
                   health |-> IF lReq[w].probe THEN "healthy" ELSE "unknown"]
           outcomes == IF lReq[w].probe THEN {"healthy"} ELSE {}
<1>1. /\ lReq[w].pc = "commit" /\ rows' = Append(kept, new) /\ earned' = Append(earned, outcomes)
      /\ lReq' = [lReq EXCEPT ![w] = L!Idle] /\ UNCHANGED <<consent, default, lFaults>>
  BY DEF L!CommitUpsert, L!Answer
<1>2. /\ \A v \in Workers \ {w} : lReq[v].pc # "commit"
      /\ L!ActiveRows \subseteq {lReq[w].row} /\ Len(rows) < MaxRows
  BY <1>1 DEF ProvidersInv, CommitsAlone
<1>3. lReq[w] \in AccessStates
  OBVIOUS
<1>4. new \in RowStates /\ L!Deleted \in RowStates /\ ~ L!Deleted.active
  BY <1>3 DEF AccessStates, RowStates, L!Deleted, L!Healths
<1>5. /\ kept \in Seq(RowStates) /\ Len(kept) = Len(rows)
      /\ \A r \in DOMAIN rows : ~ kept[r].active
  <2>1. kept \in [1 .. Len(rows) -> RowStates]
    BY <1>4
  <2>2. \A r \in DOMAIN rows : ~ kept[r].active
    BY <1>2, <1>4 DEF L!ActiveRows
  <2> QED  BY <2>1, <2>2
<1> HIDE DEF kept, new, outcomes
<1>6. /\ rows' \in Seq(RowStates) /\ Len(rows') = Len(rows) + 1
      /\ DOMAIN rows' = 1 .. Len(rows) + 1
      /\ rows'[Len(rows) + 1] = new /\ \A r \in DOMAIN rows : rows'[r] = kept[r]
  BY <1>1, <1>4, <1>5
<1>7. outcomes \in SUBSET {"healthy", "failing"}
  BY DEF outcomes
<1>8. /\ earned' \in Seq(SUBSET {"healthy", "failing"}) /\ Len(earned') = Len(rows')
      /\ earned'[Len(rows) + 1] = outcomes /\ \A r \in DOMAIN rows : earned'[r] = earned[r]
  BY <1>1, <1>6, <1>7
<1>9. L!ActiveRows' \subseteq {Len(rows) + 1}
  BY <1>5, <1>6 DEF L!ActiveRows
<1>10. /\ lReq' \in [Workers -> AccessStates] /\ lReq'[w] = L!Idle
       /\ \A v \in Workers \ {w} : lReq'[v] = lReq[v]
  BY <1>1, IdleState
<1>11. L!TypeOK'
  BY <1>1, <1>2, <1>6, <1>8, <1>10 DEF L!TypeOK, AccessStates, RowStates
<1>12. \A v \in Workers : lReq'[v].pc # "commit"
  BY <1>2, <1>10, IdleState
<1>13. CallsEarn'
  BY <1>6, <1>8, <1>10, IdleState DEF ProvidersInv, CallsEarn, L!Outcome
<1>14. ConsentNoted' /\ L!DefaultAuthorised'
  BY <1>1, <1>10, IdleState DEF ProvidersInv, ConsentNoted, L!DefaultAuthorised, L!Analysing
<1>15. new.health # "unknown" => new.health \in outcomes
  BY DEF new, outcomes
<1>16. OneRow' /\ L!HealthEarned'
  BY <1>6, <1>8, <1>9, <1>15 DEF OneRow, L!HealthEarned
<1> QED  BY <1>11, <1>12, <1>13, <1>14, <1>16 DEF ProvidersInv, CommitsAlone

LEMMA DeleteConfigKeeps ==
    ASSUME L!LlmAssumption, ProvidersInv, NEW w \in Workers, L!DeleteConfig(w)
    PROVE  ProvidersInv'
<1> USE AccessFacts
<1>1. /\ rows' = [r \in DOMAIN rows |-> L!Deleted]
      /\ UNCHANGED <<consent, default, lReq, earned, lFaults>>
  BY DEF L!DeleteConfig
<1>2. L!Deleted \in RowStates /\ ~ L!Deleted.active
  BY DEF RowStates, L!Deleted, L!Healths
<1>3. /\ rows' \in [1 .. Len(rows) -> RowStates] /\ \A r \in DOMAIN rows : ~ rows'[r].active
  BY <1>1, <1>2
<1>4. rows' \in Seq(RowStates) /\ Len(rows') = Len(rows) /\ DOMAIN rows' = DOMAIN rows
  BY <1>3
<1>5. L!ActiveRows' = {}
  BY <1>3, <1>4 DEF L!ActiveRows
<1>6. L!TypeOK'
  BY <1>1, <1>4 DEF ProvidersInv, L!TypeOK, AccessStates, RowStates
<1>7. CommitsAlone' /\ OneRow' /\ L!HealthEarned'
  BY <1>1, <1>4, <1>5 DEF ProvidersInv, CommitsAlone, OneRow, L!HealthEarned
<1>8. CallsEarn' /\ ConsentNoted' /\ L!DefaultAuthorised'
  BY <1>1, <1>4 DEF ProvidersInv, CallsEarn, L!Outcome, ConsentNoted, L!DefaultAuthorised, L!Analysing
<1> QED  BY <1>6, <1>7, <1>8 DEF ProvidersInv

(* Every analysis that is under way notes that the consent is given.       *)
LEMMA SetConsentKeeps ==
    ASSUME L!LlmAssumption, ProvidersInv, NEW w \in Workers, L!SetConsent(w)
    PROVE  ProvidersInv'
<1> USE AccessFacts
<1> DEFINE noted(v) == lReq[v].agreed \/ (consent' /\ L!Analysing(v))
<1>1. /\ lReq' = [v \in Workers |-> [lReq[v] EXCEPT !.agreed = noted(v)]]
      /\ consent' = ~ consent /\ UNCHANGED <<rows, default, earned, lFaults>>
  BY DEF L!SetConsent
<1>2. \A v \in Workers :
         /\ lReq'[v] \in AccessStates /\ lReq'[v].pc = lReq[v].pc /\ lReq'[v].row = lReq[v].row
         /\ lReq'[v].fallback = lReq[v].fallback /\ lReq'[v].ok = lReq[v].ok
         /\ lReq'[v].agreed = noted(v)
  <2> SUFFICES ASSUME NEW v \in Workers
               PROVE  /\ lReq'[v] \in AccessStates /\ lReq'[v].pc = lReq[v].pc
                      /\ lReq'[v].row = lReq[v].row
                      /\ lReq'[v].fallback = lReq[v].fallback /\ lReq'[v].ok = lReq[v].ok
                      /\ lReq'[v].agreed = noted(v)
    OBVIOUS
  <2>1. lReq[v] \in AccessStates /\ lReq'[v] = [lReq[v] EXCEPT !.agreed = noted(v)]
    BY <1>1
  <2>2. noted(v) \in BOOLEAN
    BY <2>1 DEF AccessStates
  <2> HIDE DEF noted
  <2> QED  BY <2>1, <2>2 DEF AccessStates
<1>3. lReq' \in [Workers -> AccessStates]
  BY <1>1, <1>2
<1>4. L!ActiveRows' = L!ActiveRows
  BY <1>1 DEF L!ActiveRows
<1>5. L!TypeOK'
  BY <1>1, <1>3 DEF L!TypeOK, AccessStates, RowStates
<1>6. CommitsAlone' /\ OneRow' /\ L!HealthEarned'
  BY <1>1, <1>2, <1>4 DEF ProvidersInv, CommitsAlone, OneRow, L!HealthEarned
<1>7. CallsEarn'
  BY <1>1, <1>2 DEF ProvidersInv, CallsEarn, L!Outcome
<1>8. ConsentNoted' /\ L!DefaultAuthorised'
  BY <1>1, <1>2 DEF ProvidersInv, ConsentNoted, L!DefaultAuthorised, L!Analysing
<1> QED  BY <1>5, <1>6, <1>7, <1>8 DEF ProvidersInv

LEMMA ProvidersStep ==
    ASSUME L!LlmAssumption, ProvidersInv, L!Next
    PROVE  ProvidersInv'
  BY StartAnalysisKeeps, LookUpKeeps, CheckConsentKeeps, BuildUserProviderKeeps,
     CallUserProviderKeeps, StampHealthKeeps, CallDefaultKeeps, ParseAnswerKeeps, StartPutKeeps,
     ProbeBeforeSaveKeeps, ChooseOldKeeps, LockOldKeeps, InsertNewKeeps, CommitUpsertKeeps,
     PutFailsKeeps, DeleteConfigKeeps, StartProbeKeeps, SetConsentKeeps
  DEF L!Next, L!Resolve, L!Settings

LEMMA ProvidersStay == ASSUME ProvidersInv, UNCHANGED lVars PROVE ProvidersInv'
BY DEF lVars, ProvidersInv, CallsEarn, CommitsAlone, ConsentNoted, L!DefaultAuthorised,
       L!HealthEarned, L!TypeOK, OneRow, L!ActiveRows, L!Analysing

-----------------------------------------------------------------------------
(* The cards of a holding.                                                 *)

Selected == {"wait", "insert", "commit", "done"}
InAnalysis == {"ready"} \cup D!InTx

(* Types, with a clock that is not bounded.                                *)
CardTypes ==
    /\ pc \in [D!Cards -> {"idle", "done", "failed", "conflict", "refused"} \cup D!Underway]
    /\ clock \in Nat
    /\ stamp \in [D!Cards -> Nat]
    /\ prev \in [D!Cards -> D!Cards \cup {NoCard}]
    /\ table \subseteq Analyses
    /\ inFlight \in BOOLEAN
    /\ met \subseteq D!Cards

(* The two kinds of cards keep to their own places.                        *)
CardPlaces ==
    /\ \A a \in Analyses : pc[a] \notin D!Guarded
    /\ \A r \in CardRequests : pc[r] \notin InAnalysis
    /\ \A a \in Analyses : a \in table <=> pc[a] = "done"

(* An analysis is stamped when it begins, later than what began before.    *)
CardStamps ==
    /\ \A a \in Analyses : pc[a] # "idle" => stamp[a] >= 1 /\ stamp[a] <= clock
    /\ \A a, b \in Analyses : a # b /\ pc[a] # "idle" /\ pc[b] # "idle" => stamp[a] # stamp[b]
    /\ \A a \in Analyses : pc[a] \in {"idle", "ready", "select"} => prev[a] = NoCard

(* What overlaps has met; and what has met nobody began after all that it  *)
(* finds and before all that is under way when it is done.                 *)
CardsMet ==
    /\ \A a, b \in Analyses : a # b /\ pc[a] \in InAnalysis /\ pc[b] \in InAnalysis => a \in met
    /\ \A a, b \in Analyses :
         a # b /\ a \notin met /\ pc[a] \in InAnalysis /\ pc[b] # "idle" => stamp[b] < stamp[a]
    /\ \A a, b \in Analyses :
         a # b /\ a \notin met /\ pc[a] # "idle" /\ pc[b] \in InAnalysis => stamp[b] > stamp[a]

(* The previous card of an analysis that has met nobody is the one before  *)
(* it.                                                                     *)
CardsChain ==
    \A a \in Analyses : a \notin met /\ pc[a] \in Selected =>
        /\ prev[a] # NoCard => prev[a] \in table /\ stamp[prev[a]] < stamp[a]
        /\ \A b \in table : stamp[b] < stamp[a] =>
              prev[a] # NoCard /\ stamp[prev[a]] >= stamp[b]

CardsInv == CardTypes /\ CardPlaces /\ D!GuardExact /\ CardStamps /\ CardsMet /\ CardsChain

-----------------------------------------------------------------------------
USE DEF Selected, InAnalysis, D!InTx, D!Guarded, D!Underway

LEMMA CardsInit == D!ConstantsAssumption /\ D!Init => CardsInv
<1> SUFFICES ASSUME D!ConstantsAssumption, D!Init PROVE CardsInv
  OBVIOUS
<1>1. CardTypes
  BY DEF D!Init, CardTypes
<1>2. \A c \in D!Cards : pc[c] = "idle"
  BY DEF D!Init
<1>3. CardPlaces /\ D!GuardExact /\ CardStamps /\ CardsMet /\ CardsChain
  BY <1>2 DEF D!Init, CardPlaces, D!GuardExact, CardStamps, CardsMet, CardsChain, D!Cards
<1> QED BY <1>1, <1>3 DEF CardsInv

(* An analysis begins.                                                     *)
LEMMA AnalysisBegins ==
    ASSUME D!ConstantsAssumption, CardsInv, NEW a \in Analyses, D!BuildCard(a) PROVE CardsInv'
<1>0. /\ CardTypes /\ CardPlaces /\ D!GuardExact /\ CardStamps /\ CardsMet /\ CardsChain
      /\ a \in D!Cards /\ Analyses \cap CardRequests = {}
  BY DEF CardsInv, D!Cards, D!ConstantsAssumption
<1>1. /\ pc[a] = "idle" /\ pc'[a] = "ready" /\ clock' = clock + 1 /\ stamp'[a] = clock + 1
      /\ \A c \in D!Cards : c # a => pc'[c] = pc[c] /\ stamp'[c] = stamp[c]
      /\ UNCHANGED <<prev, table, inFlight>> /\ a \notin table
  BY <1>0 DEF D!BuildCard, D!Stamp, D!Go, CardTypes, CardPlaces
<1>2. /\ met \subseteq met' /\ \A c \in D!Cards : c # a /\ pc[c] \in D!Underway => c \in met' /\ a \in met'
  BY <1>0 DEF D!BuildCard, D!Meet
<1>3. CardTypes'
  <2>1. met' \subseteq D!Cards
    BY <1>0 DEF D!BuildCard, D!Meet, CardTypes
  <2>2. stamp' \in [D!Cards -> Nat] /\ clock' \in Nat
    BY <1>0 DEF D!BuildCard, D!Stamp, CardTypes
  <2> QED BY <1>0, <1>1, <2>1, <2>2 DEF D!BuildCard, D!Go, CardTypes
<1>4. CardPlaces'
  BY <1>0, <1>1 DEF CardPlaces, D!Cards
<1>5. D!GuardExact'
  BY <1>0, <1>1 DEF D!GuardExact, D!Cards
<1>6. CardStamps'
  BY <1>0, <1>1 DEF CardStamps, CardTypes, D!Cards
<1>7. CardsMet'
  <2>1. \A b \in Analyses : b # a /\ pc[b] # "idle" => stamp'[b] < stamp'[a]
    BY <1>0, <1>1 DEF CardStamps, CardTypes, D!Cards
  <2>2. \A b, c \in Analyses : b # c /\ pc'[b] \in InAnalysis /\ pc'[c] \in InAnalysis => b \in met'
    BY <1>0, <1>1, <1>2 DEF CardsMet, D!Cards
  <2>3. \A b, c \in Analyses :
           b # c /\ b \notin met' /\ pc'[b] \in InAnalysis /\ pc'[c] # "idle" => stamp'[c] < stamp'[b]
    BY <1>0, <1>1, <1>2, <2>1 DEF CardsMet, D!Cards
  <2>4. \A b, c \in Analyses :
           b # c /\ b \notin met' /\ pc'[b] # "idle" /\ pc'[c] \in InAnalysis => stamp'[c] > stamp'[b]
    BY <1>0, <1>1, <1>2, <2>1 DEF CardsMet, D!Cards, CardStamps, CardTypes
  <2> QED BY <2>2, <2>3, <2>4 DEF CardsMet
<1>8. CardsChain'
  BY <1>0, <1>1, <1>2 DEF CardsChain, D!Cards, CardTypes
<1> QED BY <1>3, <1>4, <1>5, <1>6, <1>7, <1>8 DEF CardsInv

(* An analysis finds its previous card.                                    *)
LEMMA AnalysisSelects ==
    ASSUME D!ConstantsAssumption, CardsInv, NEW a \in Analyses, D!SelectLatest(a) PROVE CardsInv'
<1>0. /\ CardTypes /\ CardPlaces /\ D!GuardExact /\ CardStamps /\ CardsMet /\ CardsChain
      /\ a \in D!Cards /\ Analyses \cap CardRequests = {}
      /\ NoCard \notin D!Cards
  BY DEF CardsInv, D!Cards, D!ConstantsAssumption
<1>1. /\ pc[a] = "select" /\ pc'[a] \in {"insert", "wait"}
      /\ \A c \in D!Cards : c # a => pc'[c] = pc[c] /\ prev'[c] = prev[c]
      /\ UNCHANGED <<clock, stamp, table, inFlight, met>>
  BY <1>0 DEF D!SelectLatest, D!Go, CardTypes
<1>2. \/ table = {} /\ prev'[a] = NoCard
      \/ prev'[a] \in table /\ \A d \in table : stamp[d] <= stamp[prev'[a]]
  BY <1>0, <1>1 DEF D!SelectLatest, D!Latest, CardTypes, CardStamps
<1>3. CardTypes'
  <2>1. prev' \in [D!Cards -> D!Cards \cup {NoCard}]
    BY <1>0 DEF D!SelectLatest, D!Latest, CardTypes, D!Cards
  <2> QED BY <1>0, <1>1, <2>1 DEF D!SelectLatest, D!Go, CardTypes
<1>4. CardPlaces' /\ D!GuardExact' /\ CardStamps' /\ CardsMet'
  <2>1. CardPlaces' /\ D!GuardExact'
    BY <1>0, <1>1 DEF CardPlaces, D!GuardExact, D!Cards
  <2>2. CardStamps'
    BY <1>0, <1>1 DEF CardStamps, D!Cards
  <2>3. CardsMet'
    BY <1>0, <1>1 DEF CardsMet, D!Cards
  <2> QED BY <2>1, <2>2, <2>3
<1>5. CardsChain'
  <2> SUFFICES ASSUME NEW b \in Analyses, b \notin met, pc'[b] \in Selected
               PROVE  /\ prev'[b] # NoCard => prev'[b] \in table /\ stamp[prev'[b]] < stamp[b]
                      /\ \A d \in table : stamp[d] < stamp[b] =>
                            prev'[b] # NoCard /\ stamp[prev'[b]] >= stamp[d]
    BY <1>1 DEF CardsChain
  <2>1. CASE b = a
    <3>1. prev'[a] \in table => stamp[prev'[a]] < stamp[a]
      BY <1>0, <1>1, <2>1 DEF CardsMet, CardPlaces, CardTypes
    <3>2. table \subseteq D!Cards /\ \A d \in table : stamp[d] \in Nat
      BY <1>0 DEF CardTypes, D!Cards
    <3> QED BY <1>0, <1>2, <2>1, <3>1, <3>2
  <2>2. CASE b # a
    BY <1>0, <1>1, <2>2 DEF CardsChain, D!Cards
  <2> QED BY <2>1, <2>2
<1> QED BY <1>3, <1>4, <1>5 DEF CardsInv

(* An analysis goes on or ends, and has its place from now on.             *)
LEMMA AnalysisMovesOn ==
    ASSUME D!ConstantsAssumption, CardsInv, NEW a \in Analyses,
           D!BeginTx(a) \/ D!LockRow(a) \/ D!InsertCard(a) \/ D!Commit(a) \/ D!Rollback(a)
    PROVE  CardsInv'
<1>0. /\ CardTypes /\ CardPlaces /\ D!GuardExact /\ CardStamps /\ CardsMet /\ CardsChain
      /\ a \in D!Cards /\ Analyses \cap CardRequests = {}
  BY DEF CardsInv, D!Cards, D!ConstantsAssumption
<1>1. /\ pc[a] \in InAnalysis /\ pc'[a] \in {"select", "insert", "commit", "done", "failed"}
      /\ \A c \in D!Cards : c # a => pc'[c] = pc[c]
      /\ UNCHANGED <<clock, stamp, prev, inFlight, met>>
      /\ pc'[a] = "select" => pc[a] = "ready"
      /\ pc'[a] \in Selected => pc[a] \in Selected
      /\ table' = IF pc'[a] = "done" THEN table \cup {a} ELSE table
      /\ pc' \in [D!Cards -> {"idle", "done", "failed", "conflict", "refused"} \cup D!Underway]
  BY <1>0 DEF D!BeginTx, D!LockRow, D!InsertCard, D!Commit, D!Rollback, D!Go, CardTypes
<1>2. CardTypes'
  BY <1>0, <1>1 DEF CardTypes
<1>3. CardPlaces' /\ D!GuardExact'
  BY <1>0, <1>1 DEF CardPlaces, D!GuardExact, D!Cards
<1>4. CardStamps'
  BY <1>0, <1>1 DEF CardStamps, D!Cards
<1>5. CardsMet'
  BY <1>0, <1>1 DEF CardsMet, D!Cards
<1>6. CardsChain'
  <2> SUFFICES ASSUME NEW b \in Analyses, b \notin met, pc'[b] \in Selected
               PROVE  /\ prev[b] # NoCard => prev[b] \in table' /\ stamp[prev[b]] < stamp[b]
                      /\ \A d \in table' : stamp[d] < stamp[b] =>
                            prev[b] # NoCard /\ stamp[prev[b]] >= stamp[d]
    BY <1>1 DEF CardsChain
  <2>1. pc[b] \in Selected
    BY <1>1 DEF D!Cards
  <2>2. table \subseteq table' /\ \A d \in table' : d \in table \/ d = a
    BY <1>1
  <2>3. a # b => stamp[a] > stamp[b]
    BY <1>0, <1>1, <2>1 DEF CardsMet
  <2>4. ~ (stamp[a] < stamp[b])
    BY <1>0, <2>3 DEF CardTypes, D!Cards
  <2> QED BY <1>0, <2>1, <2>2, <2>4 DEF CardsChain
<1> QED BY <1>2, <1>3, <1>4, <1>5, <1>6 DEF CardsInv

(* A v2 request: the guard is its own, and no card comes of it.            *)
LEMMA CardRequestKeeps ==
    ASSUME D!ConstantsAssumption, CardsInv, NEW r \in CardRequests, D!RequestStep(r) PROVE CardsInv'
<1>0. /\ CardTypes /\ CardPlaces /\ D!GuardExact /\ CardStamps /\ CardsMet /\ CardsChain
      /\ r \in D!Cards /\ Analyses \cap CardRequests = {}
      /\ Analyses \subseteq D!Cards
  BY DEF CardsInv, D!Cards, D!ConstantsAssumption
<1>1. /\ \A c \in D!Cards : c # r => pc'[c] = pc[c] /\ stamp'[c] = stamp[c]
      /\ pc' \in [D!Cards -> {"idle", "done", "failed", "conflict", "refused"} \cup D!Underway]
      /\ pc'[r] \notin InAnalysis /\ UNCHANGED <<prev, table>>
      /\ clock' \in Nat /\ clock' >= clock /\ stamp' \in [D!Cards -> Nat]
      /\ met \subseteq met' /\ met' \subseteq D!Cards
  BY <1>0 DEF D!RequestStep, D!StartRequest, D!RejectRequest, D!Gather, D!Ask, D!SaveCard, D!FailRequest,
              D!Go, D!Stamp, D!Meet, D!SynthesisSources, CardTypes
<1>2. \A a \in Analyses : pc'[a] = pc[a] /\ stamp'[a] = stamp[a]
  BY <1>0, <1>1
<1>3. D!GuardExact'
  <2>1. \A q \in CardRequests : q # r => pc'[q] = pc[q]
    BY <1>1 DEF D!Cards
  <2>2. CASE D!StartRequest(r)
    <3>1. ~inFlight /\ inFlight' /\ pc'[r] = "gather"
      BY <1>0, <2>2 DEF D!StartRequest, D!Go, CardTypes
    <3> QED BY <1>0, <2>1, <3>1 DEF D!GuardExact
  <2>3. CASE D!RejectRequest(r)
    <3>1. UNCHANGED inFlight /\ pc[r] = "idle" /\ pc'[r] = "conflict"
      BY <1>0, <2>3 DEF D!RejectRequest, D!Go, CardTypes
    <3> QED BY <1>0, <2>1, <3>1 DEF D!GuardExact
  <2>4. CASE D!Gather(r) \/ D!Ask(r)
    <3>1. UNCHANGED inFlight /\ pc[r] \in D!Guarded /\ pc'[r] \in D!Guarded
      BY <1>0, <2>4 DEF D!Gather, D!Ask, D!Go, CardTypes
    <3> QED BY <1>0, <2>1, <3>1 DEF D!GuardExact
  <2>5. CASE D!SaveCard(r) \/ D!FailRequest(r)
    <3>1. inFlight' = FALSE /\ pc[r] \in D!Guarded /\ pc'[r] \notin D!Guarded
      BY <1>0, <2>5 DEF D!SaveCard, D!FailRequest, D!Go, CardTypes
    <3> QED BY <1>0, <2>1, <3>1 DEF D!GuardExact
  <2> QED BY <2>2, <2>3, <2>4, <2>5 DEF D!RequestStep
<1>4. CardTypes'
  <2>1. inFlight' \in BOOLEAN
    BY <1>0 DEF D!RequestStep, D!StartRequest, D!RejectRequest, D!Gather, D!Ask, D!SaveCard,
                D!FailRequest, CardTypes
  <2> QED BY <1>0, <1>1, <2>1 DEF CardTypes
<1>5. CardPlaces'
  <2>1. \A q \in CardRequests : pc'[q] \notin InAnalysis
    BY <1>0, <1>1 DEF CardPlaces, D!Cards
  <2> QED BY <1>0, <1>1, <1>2, <2>1 DEF CardPlaces
<1>6. CardStamps'
  <2>1. \A a \in Analyses : stamp[a] \in Nat
    BY <1>0 DEF CardTypes
  <2> QED BY <1>0, <1>1, <1>2, <2>1 DEF CardStamps, CardTypes
<1>7. CardsMet'
  BY <1>0, <1>1, <1>2 DEF CardsMet
<1>8. CardsChain'
  <2>1. \A b \in table : b \in Analyses
    BY <1>0 DEF CardTypes
  <2> QED BY <1>0, <1>1, <1>2, <2>1 DEF CardsChain
<1> QED BY <1>3, <1>4, <1>5, <1>6, <1>7, <1>8 DEF CardsInv

LEMMA CardsStep ==
    ASSUME D!ConstantsAssumption, CardsInv, D!Next PROVE CardsInv'
<1>1. ASSUME NEW a \in Analyses, D!AnalysisStep(a) PROVE CardsInv'
  BY <1>1, AnalysisBegins, AnalysisSelects, AnalysisMovesOn DEF D!AnalysisStep
<1> QED BY <1>1, CardRequestKeeps DEF D!Next

LEMMA CardsStay == ASSUME CardsInv, UNCHANGED dVars PROVE CardsInv'
BY DEF dVars, CardsInv, CardTypes, CardPlaces, D!GuardExact, CardStamps, CardsMet, CardsChain

(* Two cards with the same previous card: the one of the later analysis    *)
(* would have found the other.                                             *)
LEMMA NoForkIs == ASSUME CardsInv PROVE D!ForksOnlyByOverlap
<1> SUFFICES ASSUME NEW a \in table, NEW b \in table, a # b, prev[a] = prev[b],
                    a \notin met, b \notin met
             PROVE  FALSE
  BY DEF D!ForksOnlyByOverlap
<1>1. a \in Analyses /\ b \in Analyses /\ pc[a] = "done" /\ pc[b] = "done"
      /\ stamp[a] \in Nat /\ stamp[b] \in Nat
  BY DEF CardsInv, CardTypes, CardPlaces, D!Cards
<1>2. stamp[a] < stamp[b] \/ stamp[b] < stamp[a]
  BY <1>1 DEF CardsInv, CardStamps
<1>3. PICK p : p = prev[a]
  OBVIOUS
<1>4. p # NoCard /\ stamp[p] < stamp[a] /\ stamp[p] < stamp[b]
      /\ (stamp[p] >= stamp[a] \/ stamp[p] >= stamp[b]) /\ stamp[p] \in Nat
  BY <1>1, <1>2, <1>3 DEF CardsInv, CardsChain, CardTypes, D!Cards
<1> QED BY <1>1, <1>4

(* The clock counts the cards that are stamped, each of them once.         *)
LEMMA CardsCardinality == ASSUME NEW set PROVE D!Cardinality(set) = Cardinality(set)
  BY Zenon DEF D!Cardinality, Cardinality

LEMMA CardsFinite == ASSUME NEW set PROVE D!IsFiniteSet(set) <=> IsFiniteSet(set)
  BY Zenon DEF D!IsFiniteSet, IsFiniteSet

Stamped == {c \in D!Cards : stamp[c] # 0}
CardsCounted ==
    /\ clock = Cardinality(Stamped)
    /\ stamp \in [D!Cards -> 0 .. clock]
    /\ lock \in [D!Cards -> Analyses \cup {NoCard}]
    /\ \A a \in Analyses : pc[a] = "idle" => stamp[a] = 0
    /\ \A r \in CardRequests : pc[r] \in {"idle", "gather", "ask", "save"} => stamp[r] = 0

LEMMA CardsTypeOK == ASSUME D!ConstantsAssumption, CardsInv, CardsCounted PROVE D!TypeOK
<1>1. IsFiniteSet(D!Cards)
  BY CardsFinite DEF D!ConstantsAssumption
<1>2. clock <= Cardinality(D!Cards) /\ Cardinality(D!Cards) \in Nat
  BY <1>1, FS_Subset, FS_CardinalityType DEF Stamped, CardsCounted
<1>3. clock \in 0 .. D!Cardinality(D!Cards)
  BY <1>2, CardsCardinality DEF CardsInv, CardTypes
<1> QED BY <1>3 DEF D!TypeOK, CardsInv, CardTypes, CardsCounted, D!Cards

LEMMA CountedInit == ASSUME D!ConstantsAssumption, D!Init PROVE CardsCounted
<1>1. Stamped = {}
  BY DEF Stamped, D!Init
<1> QED BY <1>1, FS_EmptySet DEF CardsCounted, D!Init, D!Cards

LEMMA StampCounts ==
    ASSUME D!ConstantsAssumption, CardsInv, CardsCounted, NEW c \in D!Cards, D!Stamp(c), stamp[c] = 0
    PROVE  /\ clock' = Cardinality(Stamped') /\ stamp' \in [D!Cards -> 0 .. clock']
           /\ \A d \in D!Cards : d # c => stamp'[d] = stamp[d]
<1>1. clock \in Nat /\ clock' = clock + 1 /\ stamp' = [stamp EXCEPT ![c] = clock + 1]
      /\ stamp \in [D!Cards -> 0 .. clock]
  BY DEF CardsInv, CardTypes, CardsCounted, D!Stamp
<1>2. Stamped' = Stamped \cup {c} /\ c \notin Stamped
  BY <1>1 DEF Stamped
<1>3. IsFiniteSet(Stamped)
  BY CardsFinite, FS_Subset DEF D!ConstantsAssumption, Stamped
<1>4. Cardinality(Stamped') = Cardinality(Stamped) + 1
  BY <1>2, <1>3, FS_AddElement
<1>5. stamp' \in [D!Cards -> 0 .. clock']
  BY <1>1
<1> QED BY <1>1, <1>4, <1>5 DEF CardsCounted

LEMMA CountedStep ==
    ASSUME D!ConstantsAssumption, CardsInv, CardsCounted, D!Next PROVE CardsCounted'
<1>0. /\ D!Cards = Analyses \cup CardRequests /\ Analyses \cap CardRequests = {}
      /\ pc \in [D!Cards -> {"idle", "done", "failed", "conflict", "refused"} \cup D!Underway]
      /\ prev \in [D!Cards -> D!Cards \cup {NoCard}]
      /\ lock \in [D!Cards -> Analyses \cup {NoCard}]
  BY DEF D!ConstantsAssumption, CardsInv, CardTypes, CardsCounted, D!Cards
<1>1. ASSUME UNCHANGED <<clock, stamp>>, NEW c \in D!Cards, NEW place, D!Go(c, place),
             pc[c] # "idle" \/ c \in CardRequests,
             c \in CardRequests /\ place \in {"idle", "gather", "ask", "save"} =>
               pc[c] \in {"idle", "gather", "ask", "save"},
             c \in Analyses => place # "idle",
             lock' \in [D!Cards -> Analyses \cup {NoCard}]
      PROVE  CardsCounted'
  <2>1. \A d \in D!Cards : pc'[d] = IF d = c THEN place ELSE pc[d]
    BY <1>0, <1>1 DEF D!Go
  <2>2. Stamped' = Stamped
    BY <1>1 DEF Stamped
  <2>3. /\ \A a \in Analyses : pc'[a] = "idle" => stamp[a] = 0
        /\ \A r \in CardRequests : pc'[r] \in {"idle", "gather", "ask", "save"} => stamp[r] = 0
    BY <1>0, <1>1, <2>1 DEF CardsCounted
  <2> QED BY <1>1, <2>2, <2>3 DEF CardsCounted
<1>2. ASSUME NEW c \in D!Cards, NEW place, D!Go(c, place), D!Stamp(c), UNCHANGED lock, stamp[c] = 0,
             place \in {"ready", "done", "refused"}
      PROVE  CardsCounted'
  <2>1. \A d \in D!Cards : pc'[d] = IF d = c THEN place ELSE pc[d]
    BY <1>0, <1>2 DEF D!Go
  <2>2. /\ clock' = Cardinality(Stamped') /\ stamp' \in [D!Cards -> 0 .. clock']
        /\ \A d \in D!Cards : d # c => stamp'[d] = stamp[d]
    BY <1>2, StampCounts
  <2>3. /\ \A a \in Analyses : pc'[a] = "idle" => stamp'[a] = 0
        /\ \A r \in CardRequests : pc'[r] \in {"idle", "gather", "ask", "save"} => stamp'[r] = 0
    BY <1>0, <1>2, <2>1, <2>2 DEF CardsCounted
  <2> QED BY <1>0, <1>2, <2>2, <2>3 DEF CardsCounted
<1>3. ASSUME NEW a \in Analyses, D!AnalysisStep(a) PROVE CardsCounted'
  <2>1. CASE D!BuildCard(a)
    <3>1. stamp[a] = 0
      BY <1>0, <2>1 DEF D!BuildCard, CardsCounted
    <3> QED BY <1>0, <1>2, <2>1, <3>1 DEF D!BuildCard
  <2>2. CASE D!BeginTx(a) \/ D!InsertCard(a)
    BY <1>0, <1>1, <2>2 DEF D!BeginTx, D!InsertCard
  <2>3. CASE D!SelectLatest(a)
    BY <1>0, <1>1, <2>3 DEF D!SelectLatest
  <2>4. CASE D!LockRow(a)
    <3>1. lock' \in [D!Cards -> Analyses \cup {NoCard}]
      BY <1>0, <2>4 DEF D!LockRow
    <3> QED BY <1>0, <1>1, <2>4, <3>1 DEF D!LockRow
  <2>5. CASE D!Commit(a) \/ D!Rollback(a)
    <3>1. lock' \in [D!Cards -> Analyses \cup {NoCard}]
      BY <1>0, <2>5 DEF D!Commit, D!Rollback, D!Unlock
    <3> QED BY <1>0, <1>1, <2>5, <3>1 DEF D!Commit, D!Rollback
  <2> QED BY <1>3, <2>1, <2>2, <2>3, <2>4, <2>5 DEF D!AnalysisStep
<1>4. ASSUME NEW r \in CardRequests, D!RequestStep(r) PROVE CardsCounted'
  <2>1. CASE D!SaveCard(r)
    <3>1. stamp[r] = 0
      BY <2>1 DEF D!SaveCard, CardsCounted
    <3>2. PICK place \in {"done", "refused"} : D!Go(r, place)
      BY <2>1 DEF D!SaveCard
    <3> QED BY <1>0, <1>2, <2>1, <3>1, <3>2 DEF D!SaveCard
  <2>2. CASE D!StartRequest(r) \/ D!RejectRequest(r) \/ D!Gather(r) \/ D!Ask(r) \/ D!FailRequest(r)
    <3>1. PICK place \in {"gather", "ask", "save", "conflict", "failed"} : D!Go(r, place)
      BY <2>2 DEF D!StartRequest, D!RejectRequest, D!Gather, D!Ask, D!FailRequest
    <3>2. pc[r] \in {"idle", "gather", "ask", "save"} /\ UNCHANGED <<clock, stamp, lock>>
      BY <2>2 DEF D!StartRequest, D!RejectRequest, D!Gather, D!Ask, D!FailRequest
    <3> QED BY <1>0, <1>1, <3>1, <3>2
  <2> QED BY <1>4, <2>1, <2>2 DEF D!RequestStep
<1> QED BY <1>3, <1>4 DEF D!Next

HIDE DEF Selected, InAnalysis, D!InTx, D!Guarded, D!Underway

-----------------------------------------------------------------------------
(* What is read about the market.  Its invariant is that of                *)
(* MarketReadsProofs.                                                       *)
LEMMA SameMarket ==
    /\ M!ReadsAssumption <=> MP!ReadsAssumption
    /\ M!Init <=> MP!Init
    /\ M!Next <=> MP!Next
    /\ M!TypeOK <=> MP!TypeOK
    /\ M!DataTimely <=> MP!DataTimely
<1>1. M!ReadsAssumption <=> MP!ReadsAssumption
  BY Zenon DEF M!Caches, MP!Caches, M!ReadsAssumption, MP!ReadsAssumption
<1>2. M!Init <=> MP!Init
  BY Zenon DEF M!Caches, MP!Caches, M!Empty, MP!Empty, M!NoRequest, MP!NoRequest,
         M!Init, MP!Init
<1>3. M!Next <=> MP!Next
  BY Zenon DEF M!Empty, MP!Empty, M!NoRequest, MP!NoRequest, M!Move, MP!Move,
         M!IsFresh, MP!IsFresh, M!Serve, MP!Serve, M!CheckCache, MP!CheckCache,
         M!SourceReads, MP!SourceReads, M!Later, MP!Later, M!Store, MP!Store,
         M!AnswerArrives, MP!AnswerArrives, M!AllFail, MP!AllFail, M!SourceFails,
         MP!SourceFails, M!ReadRates, MP!ReadRates, M!Request, MP!Request,
         M!ReadAnalysis, MP!ReadAnalysis, M!ReadDimensions, MP!ReadDimensions,
         M!Tick, MP!Tick,
         M!Serving, MP!Serving, M!Next, MP!Next
<1>4. M!TypeOK <=> MP!TypeOK
  BY Zenon DEF M!Caches, MP!Caches, M!Empty, MP!Empty, M!Moments, MP!Moments,
         M!Requests, MP!Requests, M!TypeOK, MP!TypeOK
<1>5. M!DataTimely <=> MP!DataTimely
  BY Zenon DEF M!Caches, MP!Caches, M!Empty, MP!Empty, M!AgeBounded, MP!AgeBounded,
         M!RegressBounded, MP!RegressBounded, M!DataTimely, MP!DataTimely
<1> QED BY <1>1, <1>2, <1>3, <1>4, <1>5

MarketInv == MP!Ages /\ MP!TypeOK

LEMMA MarketInit == ASSUME M!Init PROVE MarketInv
BY RequestsAssumption, SameMarket, MP!AgesInit, MP!TypesInit DEF MarketInv

LEMMA MarketStep == ASSUME MarketInv, M!Next \/ UNCHANGED mVars PROVE MarketInv'
<1>1. UNCHANGED mVars => UNCHANGED MP!vars
  BY DEF mVars, MP!vars
<1> QED BY <1>1, RequestsAssumption, SameMarket, MP!AgesStep, MP!TypesStep DEF MarketInv

LEMMA MarketIs == ASSUME MarketInv PROVE M!TypeOK /\ M!DataTimely
BY SameMarket, MP!DataTimelyIs DEF MarketInv

-----------------------------------------------------------------------------
(* The rate limiters.  A hit that is no longer recorded is too old for     *)
(* every window that a new one can share with it.                          *)
LEMMA LimitsCardinality == ASSUME NEW set PROVE T!Cardinality(set) = Cardinality(set)
  BY Zenon DEF T!Cardinality, Cardinality

Hits(t, list) == {i \in DOMAIN list : t <= list[i] /\ list[i] < t + Window - T!Slack}

WindowsKept == \A t \in T!Moments : Cardinality(Hits(t, passed)) <= Limits[limiter]

LEMMA WindowBoundIs == T!WindowBound <=> WindowsKept
<1>1. \A t : T!Cardinality(Hits(t, passed)) = Cardinality(Hits(t, passed))
  BY LimitsCardinality
<1>2. T!WindowBound <=> \A t \in T!Moments : T!Cardinality(Hits(t, passed)) <= Limits[limiter]
  BY Zenon DEF T!WindowBound, Hits
<1> QED  BY <1>1, <1>2 DEF WindowsKept

LEMMA AllowIs ==
    ASSUME NEW r \in LimitRequests, NEW reading, T!Allow(r, reading)
    PROVE  \/ /\ Cardinality(T!Evict(reading)) >= Limits[limiter]
              /\ stamps' = T!Evict(reading) /\ UNCHANGED passed
              /\ req' = [req EXCEPT ![r].pc = "answered"]
           \/ /\ ~ (Cardinality(T!Evict(reading)) >= Limits[limiter])
              /\ passed' = Append(passed, reading)
              /\ stamps' = T!Evict(reading) \cup {Len(passed) + 1}
              /\ req' = [req EXCEPT ![r].pc = IF limiter = "screenshot" THEN "vision" ELSE "answered"]
<1>1. T!Cardinality(T!Evict(reading)) = Cardinality(T!Evict(reading))
  BY LimitsCardinality
<1> QED  BY <1>1 DEF T!Allow, T!Record

LagBounded ==
    \A r \in LimitRequests :
        req[r].pc = "locking" => /\ limiter \in T!ReadsUnlocked
                                 /\ req[r].clock <= now /\ now <= req[r].clock + MaxLag

EvictedIsOld == \A i \in DOMAIN passed \ stamps : passed[i] <= now - Window

(* With a limit of one the last hit has evicted all others.                *)
EvictedByLater ==
    limiter \in T!ReadsUnlocked /\ Limits[limiter] = 1 =>
        /\ \A i, j \in stamps : i = j
        /\ \A i \in DOMAIN passed \ stamps : \E j \in stamps : passed[i] + Window <= passed[j]

WindowInv == T!TypeOK /\ LagBounded /\ EvictedIsOld /\ EvictedByLater /\ T!WindowBound

LEMMA WindowInit == ASSUME T!LimitsAssumption, T!Init PROVE WindowInv
<1>1. T!TypeOK
  BY DEF T!Init, T!TypeOK, T!LimitsAssumption, T!Moments, T!Arriving
<1>2. LagBounded /\ EvictedIsOld /\ EvictedByLater
  BY DEF T!Init, LagBounded, EvictedIsOld, EvictedByLater, T!Arriving
<1>3. T!WindowBound
  <2>1. \A t \in T!Moments : Hits(t, passed) = {}
    BY DEF T!Init, Hits
  <2>2. Limits[limiter] \in Nat
    BY DEF T!Init, T!LimitsAssumption
  <2> QED  BY <2>1, <2>2, FS_EmptySet, WindowBoundIs DEF WindowsKept
<1> QED  BY <1>1, <1>2, <1>3 DEF WindowInv

LEMMA HitsFinite ==
    ASSUME NEW t \in Int, NEW list \in Seq(T!Moments)
    PROVE  IsFiniteSet(Hits(t, list)) /\ Cardinality(Hits(t, list)) \in Nat
<1>1. DOMAIN list = 1 .. Len(list) /\ Len(list) \in Nat
  OBVIOUS
<1>2. IsFiniteSet(DOMAIN list)
  BY <1>1, FS_Interval
<1> QED  BY <1>2, FS_Subset, FS_CardinalityType DEF Hits

(* A request that enters under the mutex, with a reading of the clock that *)
(* is as old as its limiter allows.                                        *)
LEMMA AllowKeeps ==
    ASSUME T!LimitsAssumption, WindowInv,
           NEW r \in LimitRequests, NEW reading \in T!Moments, T!Allow(r, reading),
           UNCHANGED <<now, limiter>>, reading <= now,
           limiter \in T!ReadsUnlocked => now <= reading + MaxLag,
           limiter \notin T!ReadsUnlocked => reading = now
    PROVE  WindowInv'
<1> DEFINE kept == T!Evict(reading)
           n == Len(passed)
<1> USE DEF WindowInv
<1>1. /\ passed \in Seq(T!Moments) /\ stamps \subseteq DOMAIN passed /\ kept \subseteq stamps
      /\ n \in Nat /\ DOMAIN passed = 1 .. n
      /\ now \in Int /\ reading \in Int /\ Window \in Nat /\ MaxLag \in Nat
      /\ Limits[limiter] \in Nat
      /\ \A i \in DOMAIN passed : passed[i] \in Int
  BY DEF T!TypeOK, T!Evict, T!LimitsAssumption, T!Moments
<1>2. IsFiniteSet(kept) /\ Cardinality(kept) \in Nat
  <2>1. IsFiniteSet(DOMAIN passed)
    BY <1>1, FS_Interval
  <2> QED  BY <2>1, <1>1, FS_Subset, FS_CardinalityType
<1>3. \A i \in DOMAIN passed \ kept : i \in DOMAIN passed \ stamps \/ passed[i] <= reading - Window
  BY <1>1 DEF T!Evict
<1>4. CASE Cardinality(kept) >= Limits[limiter]
  <2>1. /\ stamps' = kept /\ UNCHANGED passed
        /\ req' = [req EXCEPT ![r].pc = "answered"]
    BY <1>4, AllowIs
  <2>2. T!TypeOK'
    BY <2>1, <1>1 DEF T!TypeOK, T!Moments, T!Limiters
  <2>3. LagBounded'
    BY <2>1 DEF LagBounded, T!TypeOK
  <2>4. EvictedIsOld'
    BY <2>1, <1>1, <1>3 DEF EvictedIsOld
  <2>5. EvictedByLater'
    <3> SUFFICES ASSUME limiter \in T!ReadsUnlocked, Limits[limiter] = 1,
                        NEW i \in DOMAIN passed \ kept
        PROVE  \E j \in kept : passed[i] + Window <= passed[j]
      BY <2>1, <1>1 DEF EvictedByLater
    <3>1. kept # {}
      BY <1>4, <1>2, FS_EmptySet
    <3>2. kept = stamps
      BY <3>1, <1>1 DEF EvictedByLater
    <3> QED  BY <3>2 DEF EvictedByLater
  <2>6. T!WindowBound'
    BY <2>1 DEF T!WindowBound, T!Slack
  <2> QED  BY <2>2, <2>3, <2>4, <2>5, <2>6
<1>5. CASE Cardinality(kept) < Limits[limiter]
  <2>1. /\ passed' = Append(passed, reading) /\ stamps' = kept \cup {n + 1}
        /\ req' = [req EXCEPT ![r].pc = IF limiter = "screenshot" THEN "vision" ELSE "answered"]
    BY <1>5, <1>2, <1>1, AllowIs
  <2>2. /\ passed' \in Seq(T!Moments) /\ DOMAIN passed' = 1 .. n + 1
        /\ \A i \in 1 .. n : passed'[i] = passed[i]
        /\ passed'[n + 1] = reading
    BY <2>1, <1>1
  <2>3. T!TypeOK'
    <3>1. stamps' \subseteq DOMAIN passed'
      BY <2>1, <2>2, <1>1
    <3>2. req' \in [LimitRequests -> [pc : {"arriving", "locking", "vision", "answered"}, clock : T!Moments]]
      <4>1. PICK place : place = IF limiter = "screenshot" THEN "vision" ELSE "answered"
        OBVIOUS
      <4>2. req' = [req EXCEPT ![r].pc = place] /\ place \in {"vision", "answered"}
        BY <2>1, <4>1
      <4> QED  BY <4>2 DEF T!TypeOK
    <3>3. now' \in T!Moments /\ limiter' \in T!Limiters
      BY DEF T!TypeOK
    <3> QED  BY <2>2, <3>1, <3>2, <3>3 DEF T!TypeOK
  <2>4. LagBounded'
    BY <2>1 DEF LagBounded, T!TypeOK
  <2>5. EvictedIsOld'
    BY <2>1, <2>2, <1>1, <1>3 DEF EvictedIsOld
  <2>6. ASSUME limiter \in T!ReadsUnlocked, Limits[limiter] = 1
        PROVE  kept = {} /\ \A i \in DOMAIN passed : passed[i] <= reading - Window
    <3>1. Cardinality(kept) = 0
      BY <1>5, <1>2, <2>6
    <3>2. kept = {}
      BY <3>1, <1>2, FS_EmptySet
    <3> SUFFICES ASSUME NEW i \in DOMAIN passed PROVE passed[i] <= reading - Window
      BY <3>2
    <3>3. CASE i \in stamps
      BY <3>2, <3>3, <1>1 DEF T!Evict
    <3>4. CASE i \notin stamps
      <4>1. PICK j \in stamps : passed[i] + Window <= passed[j]
        BY <2>6, <3>4 DEF EvictedByLater
      <4>2. passed[j] <= reading - Window
        BY <3>2, <1>1 DEF T!Evict
      <4> QED  BY <4>1, <4>2, <1>1
    <3> QED  BY <3>3, <3>4
  <2>7. EvictedByLater'
    <3> SUFFICES ASSUME limiter \in T!ReadsUnlocked, Limits[limiter] = 1,
                        NEW i \in DOMAIN passed' \ stamps'
        PROVE  \E j \in stamps' : passed'[i] + Window <= passed'[j]
      BY <2>1, <2>6 DEF EvictedByLater
    <3>1. i \in DOMAIN passed /\ passed'[i] <= reading - Window
      BY <2>1, <2>2, <2>6, <1>1
    <3> QED  BY <3>1, <2>1, <2>2, <1>1
  <2>8. T!WindowBound'
    <3> SUFFICES ASSUME NEW t \in T!Moments
        PROVE  Cardinality(Hits(t, passed')) <= Limits[limiter]
      <4>1. ASSUME NEW t \in T!Moments
            PROVE Cardinality(Hits(t, passed')) = Cardinality(Hits(t, passed))'
        BY DEF Hits, T!Slack
      <4>2. T!WindowBound' <=> WindowsKept'
        BY WindowBoundIs, PTL
      <4> QED  BY <4>1, <4>2 DEF WindowsKept, T!Moments
    <3>1. t \in Int /\ IsFiniteSet(Hits(t, passed)) /\ Cardinality(Hits(t, passed)) \in Nat
      BY <1>1, HitsFinite DEF T!Moments
    <3>4. T!Slack \in Int /\ Window \in Int
      BY <1>1 DEF T!Slack
    <3>2. CASE reading < t \/ reading >= t + Window - T!Slack
      <4>1. Hits(t, passed') = Hits(t, passed)
        BY <3>1, <3>2, <3>4, <2>2, <1>1 DEF Hits
      <4> QED  BY <4>1, WindowBoundIs DEF WindowsKept
    <3>3. CASE t <= reading /\ reading < t + Window - T!Slack
      <4>1. Hits(t, passed) \subseteq kept
        <5> SUFFICES ASSUME NEW i \in DOMAIN passed, t <= passed[i], i \notin kept
            PROVE  FALSE
          BY DEF Hits
        <5>1. passed[i] <= now - Window \/ passed[i] <= reading - Window
          BY <1>3, <1>1 DEF EvictedIsOld
        <5>2. T!Slack \in Nat
          BY <1>1 DEF T!Slack
        <5>3. reading - Window + T!Slack < t
          BY <5>2, <3>3, <3>1, <1>1
        <5>4. CASE limiter \in T!ReadsUnlocked /\ Limits[limiter] > 1
          <6>1. T!Slack = MaxLag
            BY <5>4 DEF T!Slack
          <6> QED  BY <6>1, <5>4, <5>1, <5>3, <3>1, <1>1
        <5>5. CASE limiter \in T!ReadsUnlocked /\ ~ Limits[limiter] > 1
          <6>1. Limits[limiter] = 1
            BY <5>5, <1>5, <1>2, <1>1
          <6>2. passed[i] <= reading - Window
            BY <6>1, <5>5, <2>6
          <6> QED  BY <6>2, <5>2, <5>3, <3>1, <1>1
        <5>6. CASE limiter \notin T!ReadsUnlocked
          BY <5>6, <5>1, <5>2, <5>3, <3>1, <1>1
        <5> QED  BY <5>4, <5>5, <5>6
      <4>2. Cardinality(Hits(t, passed)) <= Cardinality(kept)
        BY <4>1, <1>2, FS_Subset
      <4>3. Hits(t, passed') = Hits(t, passed) \cup {n + 1}
        BY <3>1, <3>3, <2>2, <1>1 DEF Hits
      <4>4. n + 1 \notin Hits(t, passed)
        BY <1>1 DEF Hits
      <4>5. Cardinality(Hits(t, passed')) = Cardinality(Hits(t, passed)) + 1
        BY <4>3, <4>4, <3>1, FS_AddElement
      <4> QED  BY <4>5, <4>2, <3>1, <1>5, <1>2, <1>1
    <3> QED  BY <3>2, <3>3, <3>1, <3>4, <1>1
  <2> QED  BY <2>3, <2>4, <2>5, <2>7, <2>8
<1> QED  BY <1>4, <1>5, <1>2, <1>1

LEMMA WindowStep == ASSUME T!LimitsAssumption, WindowInv, T!Next PROVE WindowInv'
<1> USE DEF WindowInv
<1>1. CASE T!Tick
  <2>1. /\ now' = now + 1 /\ now < MaxMoment /\ UNCHANGED <<limiter, passed, stamps, req>>
        /\ \A r \in LimitRequests : req[r].pc = "locking" => now < req[r].clock + MaxLag
    BY <1>1 DEF T!Tick
  <2>2. T!TypeOK'
    BY <2>1 DEF T!TypeOK, T!Moments, T!LimitsAssumption
  <2>3. LagBounded'
    BY <2>1 DEF LagBounded, T!TypeOK, T!Moments, T!LimitsAssumption
  <2>4. EvictedIsOld'
    BY <2>1 DEF EvictedIsOld, T!TypeOK, T!Moments, T!LimitsAssumption
  <2>5. EvictedByLater' /\ T!WindowBound'
    BY <2>1 DEF EvictedByLater, T!WindowBound, T!Slack
  <2> QED  BY <2>2, <2>3, <2>4, <2>5
<1>2. ASSUME NEW r \in LimitRequests, T!Lock(r) PROVE WindowInv'
  <2>1. CASE limiter \in T!ReadsUnlocked /\ req[r].pc = "locking" /\ T!Allow(r, req[r].clock)
    BY <2>1, <1>2, AllowKeeps DEF T!Lock, T!TypeOK, LagBounded
  <2>2. CASE limiter \notin T!ReadsUnlocked /\ T!Allow(r, now)
    BY <2>2, <1>2, AllowKeeps DEF T!Lock, T!TypeOK, T!Moments
  <2> QED  BY <2>1, <2>2, <1>2 DEF T!Lock
<1>3. ASSUME NEW r \in LimitRequests,
             T!RefuseUpload(r) \/ T!ReadClock(r) \/ T!Recognize(r) \/ T!Arrive(r)
      PROVE WindowInv'
  <2>1. UNCHANGED <<now, limiter, stamps, passed>>
    BY <1>3 DEF T!RefuseUpload, T!ReadClock, T!Recognize, T!Arrive
  <2>2. \/ req' = [req EXCEPT ![r].pc = "answered"]
        \/ req' = [req EXCEPT ![r] = [pc |-> "locking", clock |-> now]] /\ limiter \in T!ReadsUnlocked
        \/ req' = [req EXCEPT ![r] = T!Arriving]
    BY <1>3 DEF T!RefuseUpload, T!ReadClock, T!Recognize, T!Arrive
  <2>3. T!TypeOK' /\ LagBounded'
    <3>1. /\ req \in [LimitRequests -> [pc : {"arriving", "locking", "vision", "answered"},
                                       clock : T!Moments]]
          /\ now \in T!Moments /\ now \in Int /\ 0 \in T!Moments /\ MaxLag \in Nat
      BY DEF T!TypeOK, T!Moments, T!LimitsAssumption
    <3>2. CASE req' = [req EXCEPT ![r].pc = "answered"]
      BY <2>1, <3>1, <3>2 DEF T!TypeOK, LagBounded
    <3>3. CASE req' = [req EXCEPT ![r] = [pc |-> "locking", clock |-> now]] /\ limiter \in T!ReadsUnlocked
      BY <2>1, <3>1, <3>3 DEF T!TypeOK, LagBounded
    <3>4. CASE req' = [req EXCEPT ![r] = T!Arriving]
      BY <2>1, <3>1, <3>4 DEF T!TypeOK, LagBounded, T!Arriving
    <3> QED  BY <2>2, <3>2, <3>3, <3>4
  <2>5. EvictedIsOld' /\ EvictedByLater' /\ T!WindowBound'
    BY <2>1 DEF EvictedIsOld, EvictedByLater, T!WindowBound, T!Slack
  <2> QED  BY <2>3, <2>5
<1> QED  BY <1>1, <1>2, <1>3 DEF T!Next

LEMMA WindowStay == ASSUME WindowInv, UNCHANGED tVars PROVE WindowInv'
BY DEF tVars, WindowInv, EvictedByLater, EvictedIsOld, LagBounded, T!TypeOK,
       T!WindowBound, T!Slack

-----------------------------------------------------------------------------
(* The scores on a card.                                                   *)

Names == {"gold_etf", "a_share_broad", "a_share_industry", "us_stock"}
Biases == {5, 0, -5}

(* The two places where the bias of a user is felt.                        *)
Biased(bias) ==
    [trend |-> S!BaseWeights.trend, position |-> S!BaseWeights.position + bias,
     catalyst |-> S!BaseWeights.catalyst - bias]

(* A confidence of these two signals, the catalyst being neutral.          *)
Confident(t, p, points) ==
    \E bias \in Biases, quality \in {90, 100} :
        points = S!Round(21 * (100 + S!Absolute(S!BaseWeights.trend * t
                                                  + (S!BaseWeights.position + bias) * p))
                           + 12 * quality + 200 * (S!Absolute(t) + S!Absolute(p)), 60)

TrendName(t) == CASE t = 1 -> "upward" [] t = -1 -> "downward" [] OTHER -> "sideways"
PositionName(p) == CASE p = 1 -> "bullish" [] p = -1 -> "bearish" [] OTHER -> "neutral"

CardMade ==
    \E t \in -1 .. 1, p \in -1 .. 1 :
        /\ card.trend = TrendName(t) /\ card.position = PositionName(p)
        /\ card.catalyst = "neutral" /\ Confident(t, p, card.confidence)

ScoreTypes ==
    /\ kind \in Kinds /\ kind \in Names /\ enhancer \in BOOLEAN
    /\ step \in {"trend", "position", "catalyst", "weights", "decide", "synthesize"}
    /\ trend \in [num : Int, den : {1, 70, 100}] /\ trend.num \in -trend.den .. trend.den
    /\ position \in {"bullish", "neutral", "bearish"}
    /\ kind # "gold_etf" => position = "neutral"
    /\ catalyst \in -100 .. 100
    /\ weights = S!NoWeights \/ \E bias \in Biases : weights = Biased(bias)
    /\ confidence \in 0 .. 100 /\ rec \in -2 .. 2
    /\ card.level \in -2 .. 2 /\ card.target \in Nat

ScoresInv ==
    /\ ScoreTypes
    /\ step = "decide" => \E bias \in Biases : weights = Biased(bias)
    /\ step = "synthesize" => trend.den = 1 /\ Confident(trend.num, S!PositionSignal, confidence)
    /\ S!BoldNeedsValuation
    /\ card = S!Unmade \/ CardMade
    /\ badge # "confidence_shift"

LEMMA WeightsAre ==
    ASSUME kind \in Names
    PROVE  LET w == S!BaseWeights IN
           /\ w = [trend |-> w.trend, position |-> w.position, catalyst |-> w.catalyst]
           /\ w.trend \in 25 .. 35 /\ w.position \in 30 .. 40 /\ w.catalyst \in 30 .. 45
           /\ w.trend + w.position + w.catalyst = 100
           /\ kind = "gold_etf" => w.trend = 25
  BY DEF Names, S!BaseWeights

LEMMA ScoresTypeOK == ASSUME ScoreTypes PROVE S!TypeOK
<1>1. \A bias \in Biases : LET w == Biased(bias) IN w.trend + w.position + w.catalyst = 100
  BY WeightsAre DEF ScoreTypes, Biased, Biases
<1> QED  BY <1>1 DEF ScoreTypes, S!TypeOK

LEMMA Signals ==
    ASSUME ScoreTypes
    PROVE  /\ S!TrendSignal \in -1 .. 1 /\ S!PositionSignal \in -1 .. 1 /\ S!CatalystSignal = 0
           /\ position = PositionName(S!PositionSignal)
           /\ kind # "gold_etf" => S!PositionSignal = 0
  BY DEF ScoreTypes, S!TrendSignal, S!PositionSignal, S!CatalystSignal, S!Sign, S!Absolute,
         PositionName

LEMMA ScoresInit == ASSUME S!ScoresAssumption, S!Init PROVE ScoresInv
  BY DEF S!ScoresAssumption, S!Init, ScoresInv, ScoreTypes, Names, S!NoTrend, S!NoWeights,
         S!Unmade, S!BoldNeedsValuation

LEMMA SameKind ==
    ASSUME UNCHANGED kind
    PROVE  /\ S!BaseWeights' = S!BaseWeights /\ \A bias : Biased(bias)' = Biased(bias)
           /\ \A t, p, points : Confident(t, p, points)' <=> Confident(t, p, points)
           /\ UNCHANGED card => (CardMade' <=> CardMade)
<1>1. S!BaseWeights' = S!BaseWeights
  BY DEF S!BaseWeights
<1>2. \A bias : Biased(bias)' = Biased(bias)
  BY <1>1 DEF Biased
<1>3. \A t, p, points : Confident(t, p, points)' <=> Confident(t, p, points)
  BY <1>1 DEF Confident, S!Round, S!Absolute
<1>4. UNCHANGED card => (CardMade' <=> CardMade)
  BY <1>3 DEF CardMade, TrendName, PositionName
<1> QED  BY <1>1, <1>2, <1>3, <1>4

LEMMA CalcTrendKeeps ==
    ASSUME S!ScoresAssumption, ScoresInv, S!CalcTrend
    PROVE  ScoresInv'
<1>1. PICK n \in Lengths, s \in -1 .. 1, l \in -1 .. 1, rsi \in Rsis, line \in -1 .. 1, h \in -1 .. 1 :
         trend' = IF n < 20 THEN S!NoTrend
                  ELSE IF n < 35
                  THEN [num |-> 4 * S!MASignal(n, s, l) + 3 * S!RSISignal(rsi), den |-> 70]
                  ELSE [num |-> 4 * S!MASignal(n, s, l) + 3 * S!RSISignal(rsi)
                                  + 3 * S!MACDSignal(line, h),
                        den |-> 100]
  BY DEF S!CalcTrend
<1>2. S!MASignal(n, s, l) \in -10 .. 10
  BY DEF S!MASignal, S!ScoresAssumption
<1>3. S!RSISignal(rsi) \in -10 .. 10
  <2>1. PICK half \in 0 .. 50 : rsi = 2 * half
    BY DEF S!ScoresAssumption
  <2> QED  BY <2>1 DEF S!RSISignal
<1>4. S!MACDSignal(line, h) \in -10 .. 10
  BY DEF S!MACDSignal, S!Clamp
<1>5. trend' \in [num : Int, den : {1, 70, 100}] /\ trend'.num \in -trend'.den .. trend'.den
  <2> DEFINE short == 4 * S!MASignal(n, s, l) + 3 * S!RSISignal(rsi)
             long == short + 3 * S!MACDSignal(line, h)
  <2>1. short \in -70 .. 70 /\ long \in -100 .. 100
    BY <1>2, <1>3, <1>4
  <2>2. \/ trend' = [num |-> 0, den |-> 100] \/ trend' = [num |-> short, den |-> 70]
        \/ trend' = [num |-> long, den |-> 100]
    BY <1>1 DEF S!NoTrend
  <2> HIDE DEF short, long
  <2> QED  BY <2>1, <2>2
<1>6. UNCHANGED <<kind, enhancer, position, catalyst, weights, confidence, rec, card, badge>>
      /\ step' = "position"
  BY DEF S!CalcTrend
<1> QED  BY <1>5, <1>6, SameKind DEF ScoresInv, ScoreTypes, S!BoldNeedsValuation

LEMMA CalcPositionKeeps ==
    ASSUME S!ScoresAssumption, ScoresInv, S!CalcPosition
    PROVE  ScoresInv'
<1>1. position' \in {"bullish", "neutral", "bearish"} /\ (kind # "gold_etf" => position' = "neutral")
  BY DEF S!CalcPosition, S!Assess
<1>2. UNCHANGED <<kind, enhancer, trend, catalyst, weights, confidence, rec, card, badge>>
      /\ step' = "catalyst"
  BY DEF S!CalcPosition
<1> QED  BY <1>1, <1>2, SameKind DEF ScoresInv, ScoreTypes, S!BoldNeedsValuation

(* No event has any relevance, so that the answer counts within a quarter  *)
(* of nothing.                                                             *)
LEMMA CalcCatalystKeeps ==
    ASSUME S!ScoresAssumption, ScoresInv, S!CalcCatalyst
    PROVE  ScoresInv'
<1>1. catalyst' \in -100 .. 100
  <2>1. \A a \in Answers : S!Blend(S!Base, a) \in -100 .. 100
    BY DEF S!ScoresAssumption, S!Blend, S!Base, S!Clamp
  <2> QED  BY <2>1 DEF S!CalcCatalyst, S!Base
<1>2. UNCHANGED <<kind, enhancer, trend, position, weights, confidence, rec, card, badge>>
      /\ step' = "weights"
  BY DEF S!CalcCatalyst
<1> QED  BY <1>1, <1>2, SameKind DEF ScoresInv, ScoreTypes, S!BoldNeedsValuation

LEMMA WeightsMoved ==
    ASSUME NEW w \in [trend : Int, position : Int, catalyst : Int], NEW one, NEW other
    PROVE  [w EXCEPT !.position = one, !.catalyst = other]
             = [trend |-> w.trend, position |-> one, catalyst |-> other]
<1> DEFINE moved == [w EXCEPT !.position = one, !.catalyst = other]
<1>1. moved = [f \in {"trend", "position", "catalyst"} |->
                 IF f = "position" THEN one ELSE IF f = "catalyst" THEN other ELSE w[f]]
  OBVIOUS
<1> QED  BY <1>1

LEMMA ChooseWeightsKeeps ==
    ASSUME S!ScoresAssumption, ScoresInv, S!ChooseWeights
    PROVE  ScoresInv'
<1>1. PICK bias \in Biases : weights' = S!ApplyRiskBias(bias)
  BY DEF S!ChooseWeights, Biases
<1>2. weights' = Biased(bias)
  <2> DEFINE w == S!BaseWeights
  <2>1. w \in [trend : Int, position : Int, catalyst : Int]
    BY WeightsAre DEF ScoresInv, ScoreTypes
  <2>2. S!Clamp(w.position + bias, w.position - 10, w.position + 10) = w.position + bias
        /\ S!Clamp(w.catalyst - bias, w.catalyst - 10, w.catalyst + 10) = w.catalyst - bias
    BY <2>1 DEF S!Clamp, Biases
  <2>3. S!ApplyRiskBias(bias)
          = [w EXCEPT !.position = w.position + bias, !.catalyst = w.catalyst - bias]
    BY <2>2 DEF S!ApplyRiskBias
  <2> HIDE DEF w
  <2>4. [w EXCEPT !.position = w.position + bias, !.catalyst = w.catalyst - bias]
          = [trend |-> w.trend, position |-> w.position + bias, catalyst |-> w.catalyst - bias]
    BY <2>1, WeightsMoved
  <2> QED  BY <1>1, <2>3, <2>4 DEF Biased, w
<1>3. UNCHANGED <<kind, enhancer, trend, position, catalyst, confidence, rec, card, badge>>
      /\ step' = "decide"
  BY DEF S!ChooseWeights
<1> QED  BY <1>2, <1>3, SameKind DEF ScoresInv, ScoreTypes, S!BoldNeedsValuation

(* The confidence, in terms of the two signals that count.                 *)
LEMMA ConfidenceIs ==
    ASSUME ScoreTypes, NEW bias \in Biases, weights = Biased(bias)
    PROVE  /\ Confident(S!TrendSignal, S!PositionSignal, S!Confidence)
           /\ S!Confidence \in 0 .. 100
           /\ kind # "gold_etf" => S!Confidence <= 71
<1> DEFINE t == S!TrendSignal
           p == S!PositionSignal
           wt == S!BaseWeights.trend
           wp == S!BaseWeights.position + bias
           wc == S!BaseWeights.catalyst - bias
           d == S!Sign(wt * t + wp * p)
           quality == IF enhancer THEN 100 ELSE 90
           agreed == S!Absolute(wt * t + wp * p)
           strength == S!Absolute(t) + S!Absolute(p)
<1>1. /\ t \in -1 .. 1 /\ p \in -1 .. 1 /\ S!CatalystSignal = 0
      /\ kind # "gold_etf" => p = 0
  BY Signals
<1>2. wt \in 25 .. 35 /\ wp \in 25 .. 45 /\ wc \in 25 .. 50 /\ wt + wp + wc = 100
  BY WeightsAre DEF ScoreTypes, Biases
<1>3. weights.trend = wt /\ weights.position = wp /\ weights.catalyst = wc
  BY DEF Biased
<1> HIDE DEF t, p, wt, wp, wc
<1>4. /\ wt * t \in {wt, 0, -wt} /\ wp * p \in {wp, 0, -wp} /\ wc * 0 = 0
      /\ wt * t + wp * p \in Int
  BY <1>1, <1>2
<1>5. wt * S!Agreement(t, d) + wp * S!Agreement(p, d) + wc * S!Agreement(0, d) = 100 + agreed
  BY <1>1, <1>2 DEF S!Agreement, S!Sign, S!Absolute
<1>6. quality \in {90, 100}
  OBVIOUS
<1>7. agreed \in 0 .. 80 /\ strength \in 0 .. 2 /\ (p = 0 => agreed <= 35 /\ strength <= 1)
  BY <1>1, <1>2 DEF S!Absolute
<1>8. S!Confidence = S!Round(21 * (100 + agreed) + 12 * quality + 200 * strength, 60)
  <2>1. S!Confidence = S!Round(21 * (wt * S!Agreement(t, S!Sign(wt * t + wp * p + wc * 0))
                                      + wp * S!Agreement(p, S!Sign(wt * t + wp * p + wc * 0))
                                      + wc * S!Agreement(0, S!Sign(wt * t + wp * p + wc * 0)))
                                + 12 * quality
                                + 200 * (S!Absolute(t) + S!Absolute(p) + S!Absolute(0)), 60)
    BY <1>1, <1>3 DEF S!Confidence, t, p
  <2>2. wt * t + wp * p + wc * 0 = wt * t + wp * p
    BY <1>4
  <2>3. S!Absolute(t) + S!Absolute(p) + S!Absolute(0) = strength
    BY <1>1 DEF S!Absolute
  <2> QED  BY <2>1, <2>2, <2>3, <1>5
<1> HIDE DEF agreed, quality, strength
<1>9. S!Confidence \in 0 .. 100 /\ (p = 0 => S!Confidence <= 71)
  BY <1>6, <1>7, <1>8 DEF S!Round
<1>10. Confident(t, p, S!Confidence)
  BY <1>6, <1>8 DEF Confident, agreed, strength, wt, wp
<1> QED  BY <1>1, <1>9, <1>10 DEF t, p

(* The matrix reaches the bold answers with a position only.               *)
LEMMA LevelIs ==
    ASSUME ScoreTypes, NEW bias \in Biases, weights = Biased(bias)
    PROVE  LET strength == IF S!TrendSignal = 0 THEN 0 ELSE trend.num
               level == S!Level(1000 * strength * weights.trend
                                  + 1000 * trend.den * S!PositionSignal * weights.position
                                  + trend.den * catalyst * weights.catalyst,
                                100000 * trend.den)
           IN  /\ level \in -2 .. 2
               /\ level = 2 => S!PositionSignal = 1
               /\ level = -2 => S!PositionSignal = -1
<1> DEFINE wt == weights.trend  wp == weights.position  wc == weights.catalyst
           strength == IF S!TrendSignal = 0 THEN 0 ELSE trend.num
           p == S!PositionSignal
           den == trend.den
           n == 1000 * strength * wt + 1000 * den * p * wp + den * catalyst * wc
<1>1. wt \in 25 .. 35 /\ wp \in 25 .. 45 /\ wc \in 25 .. 50
  BY WeightsAre DEF ScoreTypes, Biases, Biased
<1>2. /\ den \in {1, 70, 100} /\ strength \in -den .. den /\ p \in -1 .. 1
      /\ catalyst \in -100 .. 100
  BY Signals DEF ScoreTypes
<1> HIDE DEF wt, wp, wc, strength, p, den
<1>3. strength * wt \in -(den * 35) .. den * 35
  <2>1. \A x \in Nat : x <= den => x * wt \in Nat /\ x * wt <= den * 35
    <3> SUFFICES ASSUME NEW x \in Nat, x <= den PROVE x * wt \in Nat /\ x * wt <= den * 35
      OBVIOUS
    <3>1. wt \in Nat /\ den \in Nat /\ wt <= 35
      BY <1>1, <1>2
    <3>2. x * wt <= x * 35 /\ x * 35 <= den * 35 /\ x * wt \in Nat /\ x * 35 \in Nat
      BY <3>1
    <3> QED  BY <3>1, <3>2
  <2>2. CASE strength >= 0
    BY <1>1, <1>2, <2>1, <2>2
  <2>3. CASE strength < 0
    <3>1. (-strength) * wt \in Nat /\ (-strength) * wt <= den * 35
      BY <1>2, <2>1, <2>3
    <3>2. (-strength) * wt = -(strength * wt)
      BY <1>1, <1>2
    <3>3. strength * wt \in Int
      BY <1>1, <1>2
    <3> QED  BY <1>2, <3>1, <3>2, <3>3
  <2> QED  BY <1>2, <2>2, <2>3
<1>4. catalyst * wc \in -5000 .. 5000
  <2>1. \A x \in Nat : x <= 100 => x * wc \in Nat /\ x * wc <= 5000
    <3> SUFFICES ASSUME NEW x \in Nat, x <= 100 PROVE x * wc \in Nat /\ x * wc <= 5000
      OBVIOUS
    <3>1. x * wc <= x * 50 /\ x * wc \in Nat
      BY <1>1
    <3> QED  BY <3>1
  <2>2. CASE catalyst >= 0
    BY <1>1, <1>2, <2>1, <2>2
  <2>3. CASE catalyst < 0
    <3>1. (-catalyst) * wc \in Nat /\ (-catalyst) * wc <= 5000
      BY <1>2, <2>1, <2>3
    <3>2. (-catalyst) * wc = -(catalyst * wc) /\ catalyst * wc \in Int
      BY <1>1, <1>2
    <3>3. \A x \in Int, y \in Nat : y <= 5000 /\ y = -x => x \in -5000 .. 5000
      OBVIOUS
    <3>4. PICK x \in Int : x = catalyst * wc
      BY <3>2
    <3>5. PICK y \in Nat : y = (-catalyst) * wc
      BY <3>1
    <3>6. y <= 5000 /\ y = -x
      BY <3>1, <3>2, <3>4, <3>5
    <3>7. x \in -5000 .. 5000
      BY <3>3, <3>6
    <3> QED  BY <3>4, <3>7
  <2> QED  BY <1>2, <2>2, <2>3
<1>5. p * wp \in Int /\ (p <= 0 => p * wp <= 0) /\ (p >= 0 => p * wp >= 0)
  BY <1>1, <1>2
<1> DEFINE a == strength * wt  b == p * wp  c == catalyst * wc
<1>13. 1000 * strength * wt = 1000 * a /\ 1000 * den * p * wp = den * (1000 * b)
       /\ den * catalyst * wc = den * c
  BY <1>1, <1>2
<1>14. /\ a \in -(den * 35) .. den * 35 /\ c \in -5000 .. 5000
       /\ b \in Int /\ (p <= 0 => b <= 0) /\ (p >= 0 => b >= 0)
  BY <1>3, <1>4, <1>5
<1>6. n = 1000 * a + den * (1000 * b) + den * c
  BY <1>13
<1> HIDE DEF a, b, c, n
<1>7. /\ b <= 0 => 2 * n <= 100000 * den
      /\ b >= 0 => 2 * n > -(100000 * den)
      /\ n \in Int
  <2>1. CASE den = 1
    BY <1>6, <1>14, <2>1
  <2>2. CASE den = 70
    BY <1>6, <1>14, <2>2
  <2>3. CASE den = 100
    <3>1. n = 1000 * a + 100000 * b + 100 * c /\ a \in -3500 .. 3500
      BY <1>6, <1>14, <2>3
    <3> QED  BY <1>14, <2>3, <3>1
  <2> QED  BY <1>2, <2>1, <2>2, <2>3
<1>8. n \in Int
  BY <1>7
<1>9. LET level == S!Level(n, 100000 * den) IN
        /\ level \in -2 .. 2
        /\ level = 2 => 2 * n > 100000 * den
        /\ level = -2 => 2 * n <= -(100000 * den)
  <2>1. 100000 * den \in {100000, 7000000, 10000000}
    BY <1>2
  <2> QED  BY <1>8, <2>1 DEF S!Level
<1>10. LET level == S!Level(n, 100000 * den) IN
        /\ level \in -2 .. 2 /\ (level = 2 => b > 0) /\ (level = -2 => b < 0)
  BY <1>2, <1>14, <1>7, <1>8, <1>9
<1>11. (b > 0 => p = 1) /\ (b < 0 => p = -1)
  BY <1>2, <1>14
<1>12. LET level == S!Level(n, 100000 * den) IN
        /\ level \in -2 .. 2 /\ (level = 2 => p = 1) /\ (level = -2 => p = -1)
  BY <1>10, <1>11
<1> QED  BY <1>12 DEF n, den, p, strength, wt, wp, wc

LEMMA DecideKeeps ==
    ASSUME S!ScoresAssumption, ScoresInv, S!Decide
    PROVE  ScoresInv'
<1>1. /\ confidence' = S!Confidence /\ step' = "synthesize"
      /\ trend' = [num |-> S!TrendSignal, den |-> 1] /\ weights' = S!NoWeights
      /\ UNCHANGED <<kind, enhancer, position, catalyst, card, badge>>
  BY DEF S!Decide
<1>2. PICK bias \in Biases : weights = Biased(bias)
  BY DEF ScoresInv, S!Decide
<1>3. ScoreTypes
  BY DEF ScoresInv
<1>4. /\ S!TrendSignal \in -1 .. 1 /\ S!PositionSignal \in -1 .. 1
      /\ position = PositionName(S!PositionSignal)
      /\ kind # "gold_etf" => S!PositionSignal = 0
  BY <1>3, Signals
<1>5. /\ Confident(S!TrendSignal, S!PositionSignal, S!Confidence)
      /\ S!Confidence \in 0 .. 100 /\ (kind # "gold_etf" => S!Confidence <= 71)
  BY <1>2, <1>3, ConfidenceIs
<1>6. /\ rec' \in -2 .. 2 /\ (rec' = 2 => S!PositionSignal = 1)
      /\ (rec' = -2 => S!PositionSignal = -1)
  BY <1>2, <1>3, LevelIs DEF S!Decide
<1>7. S!PositionSignal' = S!PositionSignal
  BY <1>1 DEF S!PositionSignal
<1>8. Confident(trend.num, S!PositionSignal, confidence)'
  <2>1. Confident(S!TrendSignal, S!PositionSignal, S!Confidence)
          <=> Confident(trend.num, S!PositionSignal, confidence)'
    BY <1>1, <1>7, SameKind DEF Confident, S!Absolute, S!Round
  <2> QED  BY <1>5, <2>1
<1>9. S!BoldNeedsValuation'
  BY <1>1, <1>4, <1>5, <1>6 DEF S!BoldNeedsValuation, PositionName
<1>10. ScoreTypes'
  BY <1>1, <1>3, <1>4, <1>5, <1>6 DEF ScoreTypes
<1>11. (card = S!Unmade \/ CardMade)' /\ badge' # "confidence_shift"
  BY <1>1, SameKind DEF ScoresInv
<1>12. trend'.den = 1
  BY <1>1
<1> QED  BY <1>1, <1>8, <1>9, <1>10, <1>11, <1>12 DEF ScoresInv

(* Two confidences of the same signals are six points apart at most.       *)
LEMMA ConfidencesNear ==
    ASSUME kind \in Names, NEW t \in -1 .. 1, NEW p \in -1 .. 1, NEW one, NEW other,
           Confident(t, p, one), Confident(t, p, other)
    PROVE  one - other \in -9 .. 9
<1> DEFINE wt == S!BaseWeights.trend
           wp == S!BaseWeights.position
           agreed(bias) == S!Absolute(wt * t + (wp + bias) * p)
           signs == S!Absolute(t) + S!Absolute(p)
           sum(bias, quality) == 21 * (100 + agreed(bias)) + 12 * quality + 200 * signs
<1>1. wt \in 25 .. 35 /\ wp \in 30 .. 40
  BY WeightsAre
<1>2. PICK b1 \in Biases, q1 \in {90, 100} : one = S!Round(sum(b1, q1), 60)
  BY DEF Confident
<1>3. PICK b2 \in Biases, q2 \in {90, 100} : other = S!Round(sum(b2, q2), 60)
  BY DEF Confident
<1> HIDE DEF wt, wp
<1>4. agreed(b1) \in 0 .. 80 /\ agreed(b2) \in 0 .. 80 /\ agreed(b1) - agreed(b2) \in -10 .. 10
  <2>1. CASE t = -1
    BY <1>1, <2>1 DEF Biases, S!Absolute
  <2>2. CASE t = 0
    BY <1>1, <2>2 DEF Biases, S!Absolute
  <2>3. CASE t = 1
    BY <1>1, <2>3 DEF Biases, S!Absolute
  <2> QED  BY <2>1, <2>2, <2>3
<1>5. signs \in 0 .. 2
  BY DEF S!Absolute
<1> HIDE DEF agreed, signs
<1>6. sum(b1, q1) \in Nat /\ sum(b2, q2) \in Nat /\ sum(b1, q1) - sum(b2, q2) \in -330 .. 330
  <2>1. PICK x \in 0 .. 80 : x = agreed(b1)
    BY <1>4
  <2>2. PICK y \in 0 .. 80 : y = agreed(b2)
    BY <1>4
  <2>3. PICK z \in 0 .. 2 : z = signs
    BY <1>5
  <2>4. /\ x - y \in -10 .. 10
        /\ sum(b1, q1) = 21 * (100 + x) + 12 * q1 + 200 * z
        /\ sum(b2, q2) = 21 * (100 + y) + 12 * q2 + 200 * z
    BY <1>4, <2>1, <2>2, <2>3
  <2> HIDE DEF sum
  <2>5. CASE q1 = 90 /\ q2 = 90
    BY <2>4, <2>5
  <2>6. CASE q1 = 90 /\ q2 = 100
    BY <2>4, <2>6
  <2>7. CASE q1 = 100 /\ q2 = 90
    BY <2>4, <2>7
  <2>8. CASE q1 = 100 /\ q2 = 100
    BY <2>4, <2>8
  <2> QED  BY <2>5, <2>6, <2>7, <2>8
<1> HIDE DEF sum
<1>8. S!Round(sum(b1, q1), 60) - S!Round(sum(b2, q2), 60) \in -9 .. 9
  <2>1. PICK m \in Nat : m = sum(b1, q1)
    BY <1>6
  <2>2. PICK n \in Nat : n = sum(b2, q2)
    BY <1>6
  <2>3. S!Round(m, 60) - S!Round(n, 60) \in -9 .. 9
    <3>1. m - n \in -330 .. 330
      BY <1>6, <2>1, <2>2
    <3>2. \A x, y \in Nat : x - y \in -330 .. 330 => S!Round(x, 60) - S!Round(y, 60) \in -9 .. 9
      BY DEF S!Round
    <3> QED  BY <3>1, <3>2
  <2> QED  BY <2>1, <2>2, <2>3
<1> QED  BY <1>2, <1>3, <1>8

LEMMA SynthesizeKeeps ==
    ASSUME S!ScoresAssumption, ScoresInv, S!Synthesize
    PROVE  ScoresInv'
<1>1. PICK ratio \in Ratios :
         \/ card' = S!Card(rec, S!Target(ratio), IF rec = 0 THEN "monitor" ELSE "one-shot")
         \/ \E level \in -2 .. 2, plan \in LlmPlans : card' = S!Card(level, ratio, plan)
  BY DEF S!Synthesize
<1>2. /\ step = "synthesize" /\ step' = "trend" /\ badge' = S!Compute(card, card')
      /\ trend' = S!NoTrend /\ position' = "neutral" /\ catalyst' = 0
      /\ confidence' = 0 /\ rec' = 0 /\ UNCHANGED <<kind, enhancer, weights>>
  BY DEF S!Synthesize
<1>3. ScoreTypes /\ trend.den = 1 /\ Confident(trend.num, S!PositionSignal, confidence)
      /\ trend.num \in -1 .. 1
  BY <1>2 DEF ScoresInv, ScoreTypes
<1>4. S!PositionSignal \in -1 .. 1 /\ S!CatalystSignal = 0 /\ position = PositionName(S!PositionSignal)
  BY <1>3, Signals
<1>5. S!TrendSignal = trend.num
  BY <1>3 DEF S!TrendSignal, S!Absolute, S!Sign
<1>6. PICK level \in -2 .. 2, target \in Nat, plan \in LlmPlans \cup {"monitor", "one-shot"} :
         card' = S!Card(level, target, plan)
  <2>1. ratio \in Nat
    BY DEF S!ScoresAssumption
  <2>2. S!Target(ratio) \in Nat
    <3>1. S!TemplateDelta \in {1000, 500, 0, -1000, -1500}
      BY <1>3 DEF ScoreTypes, S!TemplateDelta
    <3> QED  BY <2>1, <3>1 DEF S!Target
  <2> QED  BY <1>1, <1>3, <2>1, <2>2 DEF ScoreTypes
<1>7. /\ card'.level \in -2 .. 2 /\ card'.target \in Nat
      /\ card'.trend = TrendName(trend.num) /\ card'.position = PositionName(S!PositionSignal)
      /\ card'.catalyst = "neutral" /\ card'.confidence = confidence
  BY <1>4, <1>5, <1>6 DEF S!Card, TrendName
<1>8. CardMade'
  <2>1. \E t \in -1 .. 1, p \in -1 .. 1 :
          /\ card'.trend = TrendName(t) /\ card'.position = PositionName(p)
          /\ card'.catalyst = "neutral" /\ Confident(t, p, card'.confidence)
    BY <1>3, <1>4, <1>7
  <2>2. \A t, p, points : S!BaseWeights' = S!BaseWeights
    BY <1>2, SameKind
  <2> QED  BY <2>1, <2>2 DEF CardMade, Confident, S!Absolute, S!Round, TrendName, PositionName
<1>9. badge' # "confidence_shift"
  <2>1. CASE card = S!Unmade
    BY <1>2, <2>1 DEF S!Compute
  <2>2. CASE CardMade
    <3>1. PICK t \in -1 .. 1, p \in -1 .. 1 :
            /\ card.trend = TrendName(t) /\ card.position = PositionName(p)
            /\ card.catalyst = "neutral" /\ Confident(t, p, card.confidence)
      BY <2>2 DEF CardMade
    <3>2. CASE t = trend.num /\ p = S!PositionSignal
      <4>1. card'.confidence - card.confidence \in -9 .. 9
        BY <1>3, <1>4, <1>7, <3>1, <3>2, ConfidencesNear DEF ScoreTypes
      <4>3. ~ (S!Absolute(card'.confidence - card.confidence) >= 10)
        BY <4>1 DEF S!Absolute
      <4> QED  BY <1>2, <4>3 DEF S!Compute
    <3>3. CASE t # trend.num \/ p # S!PositionSignal
      <4>1. TrendName(t) # TrendName(trend.num) \/ PositionName(p) # PositionName(S!PositionSignal)
        BY <1>3, <1>4, <3>3 DEF TrendName, PositionName
      <4>2. <<card'.trend, card'.position, card'.catalyst>> # <<card.trend, card.position, card.catalyst>>
        BY <1>7, <3>1, <4>1
      <4> QED  BY <1>2, <4>2 DEF S!Compute
    <3> QED  BY <3>2, <3>3
  <2> QED  BY <2>1, <2>2 DEF ScoresInv
<1>10. ScoreTypes'
  BY <1>2, <1>3, <1>7, SameKind DEF ScoreTypes, S!NoTrend
<1> QED  BY <1>2, <1>8, <1>9, <1>10 DEF ScoresInv, S!BoldNeedsValuation

LEMMA ScoresStep ==
    ASSUME S!ScoresAssumption, ScoresInv, S!Next
    PROVE  ScoresInv'
<1>1. CASE S!Restart
  <2>1. UNCHANGED <<kind, step, trend, position, catalyst, weights, confidence, rec, card, badge>>
        /\ enhancer' = ~ enhancer /\ step = "trend"
    BY <1>1 DEF S!Restart
  <2> QED  BY <2>1, SameKind DEF ScoresInv, ScoreTypes, S!BoldNeedsValuation
<1> QED  BY <1>1, CalcTrendKeeps, CalcPositionKeeps, CalcCatalystKeeps, ChooseWeightsKeeps, DecideKeeps,
            SynthesizeKeeps DEF S!Next

LEMMA ScoresStay == ASSUME ScoresInv, UNCHANGED sVars PROVE ScoresInv'
<1>1. UNCHANGED <<kind, enhancer, step, trend, position, catalyst, weights, confidence, rec, card, badge>>
  BY DEF sVars
<1>2. ScoreTypes' /\ (step = "decide" => \E bias \in Biases : weights = Biased(bias))'
  BY <1>1 DEF ScoresInv, ScoreTypes, Biased, S!BaseWeights, S!NoWeights
<1>3. S!BaseWeights' = S!BaseWeights /\ S!PositionSignal' = S!PositionSignal
  BY <1>1 DEF S!BaseWeights, S!PositionSignal
<1>4. (step = "synthesize" => trend.den = 1 /\ Confident(trend.num, S!PositionSignal, confidence))'
  BY <1>1, <1>3 DEF ScoresInv, Confident
<1>5. CardMade => CardMade'
  BY <1>1, <1>3 DEF CardMade, Confident
<1>6. S!BoldNeedsValuation' /\ (badge # "confidence_shift")'
  BY <1>1 DEF ScoresInv, S!BoldNeedsValuation
<1>7. (card = S!Unmade \/ CardMade)'
  BY <1>1, <1>5 DEF ScoresInv, S!Unmade
<1> QED BY <1>2, <1>4, <1>6, <1>7 DEF ScoresInv

-----------------------------------------------------------------------------
(* The migrations.                                                         *)

(* Two commands that run at the same time have met each other.             *)
RunnersMet ==
    \A r, q \in Workers :
        r # q /\ runner[r] # G!Idle /\ runner[q] # G!Idle => runner[r].met

AtRest ==
    /\ \A r \in Workers : runner[r].pc = "idle" <=> runner[r] = G!Idle
    /\ \A s \in Servers : ~ server[s].up => server[s] = G!Off

(* A script that has been committed has done what it does, unless another  *)
(* runner has executed it since.                                           *)
InHandDone ==
    \A r \in Workers :
        /\ runner[r].pc = "record" =>
              \/ effects[G!NextFile(r)] > 0
              \/ runner[r].met /\ G!NextFile(r) \in doubt
        /\ runner[r].pc = "remove" =>
              \/ effects[G!NextFile(r)] = 0 \/ G!NextFile(r) \in Additive
              \/ runner[r].met /\ G!NextFile(r) \in doubt

(* What a runner that has met no other still applies is not recorded.      *)
ToGoUnrecorded ==
    \A r \in Workers :
        runner[r].pc \in {"apply", "record"} /\ ~ runner[r].met => runner[r].todo \cap recorded = {}

RemovedExcused == \A r \in Workers : runner[r].pc = "remove" => G!NextFile(r) \in excused

AddedKnown ==
    \A v \in Additive \ excused :
        effects[v] > 0 =>
            v \in recorded \/ \E r \in Workers : runner[r].pc = "record" /\ G!NextFile(r) = v

SchemaInv ==
    /\ G!TypeOK /\ RunnersMet /\ AtRest /\ InHandDone /\ ToGoUnrecorded /\ RemovedExcused
    /\ AddedKnown /\ G!RowsTellSchema /\ G!AddedOnce /\ G!ServedSchema

LEMMA NextFileIs ==
    ASSUME G!MigrationsAssumption, G!TypeOK, NEW r \in Workers, runner[r].todo # {}
    PROVE  G!NextFile(r) \in runner[r].todo /\ G!NextFile(r) \in G!Versions
<1> DEFINE S1 == runner[r].todo
<1>1. S1 \subseteq G!Versions /\ G!Versions \subseteq Nat
  BY DEF G!TypeOK, G!MigrationsAssumption, G!Versions
<1>2. PICK x \in S1 : \A y \in S1 : ~(<<y, x>> \in Below)
  BY <1>1, BelowWellFounded, WFMin
<1>3. ASSUME NEW y \in S1 PROVE x <= y
  <2>1. <<y, x>> \in Nat \X Nat /\ <<y, x>>[1] = y /\ <<y, x>>[2] = x
    BY <1>1
  <2> QED  BY <2>1, <1>2, <1>1 DEF Below
<1>4. G!Min(S1) \in S1
  BY <1>2, <1>3 DEF G!Min
<1> QED  BY <1>4, <1>1 DEF G!NextFile

RunnerStates ==
    [pc : {"idle", "up", "apply", "record", "down", "rollback", "remove"},
     disk : Releases \cup {{}}, todo : SUBSET G!Versions, met : BOOLEAN]
ServerStates == [up : BOOLEAN, disk : Releases \cup {{}}, lacks : SUBSET G!Versions]

LEMMA RestStates == G!Idle \in RunnerStates /\ G!Off \in ServerStates
<1>1. {} \in Releases \cup {{}} /\ {} \in SUBSET G!Versions
  OBVIOUS
<1>2. G!Idle \in RunnerStates
  BY <1>1 DEF G!Idle, RunnerStates
<1>3. G!Off \in ServerStates
  BY <1>1 DEF G!Off, ServerStates
<1> QED  BY <1>2, <1>3

LEMMA SchemaInit == ASSUME G!MigrationsAssumption, G!Init PROVE SchemaInv
<1> USE DEF G!Init
<1>1. G!TypeOK
  <2>1. effects \in [G!Versions -> 0 .. MaxTimes]
    BY DEF G!MigrationsAssumption
  <2>2. runner \in [Workers -> RunnerStates] /\ server \in [Servers -> ServerStates]
    BY RestStates
  <2>3. \A r \in Workers : runner[r].pc = "idle" /\ runner[r].todo = {} /\ runner[r].disk = {}
    BY DEF G!Idle
  <2> QED  BY <2>1, <2>2, <2>3 DEF G!TypeOK, RunnerStates, ServerStates
<1>2. RunnersMet /\ AtRest /\ InHandDone /\ ToGoUnrecorded /\ RemovedExcused
  BY DEF RunnersMet, AtRest, InHandDone, ToGoUnrecorded, RemovedExcused, G!Idle, G!Off
<1>3. AddedKnown /\ G!RowsTellSchema /\ G!AddedOnce /\ G!ServedSchema
  BY DEF AddedKnown, G!RowsTellSchema, G!AddedOnce, G!ServedSchema, G!MigrationsAssumption, G!Off
<1> QED  BY <1>1, <1>2, <1>3 DEF SchemaInv

(* What every step of a runner needs of the invariant.                     *)
LEMMA RunnerFacts ==
    ASSUME G!MigrationsAssumption, SchemaInv, NEW r \in Workers
    PROVE  /\ runner \in [Workers -> RunnerStates] /\ server \in [Servers -> ServerStates]
           /\ runner[r] \in RunnerStates
           /\ effects \in [G!Versions -> 0 .. MaxTimes] /\ MaxTimes \in Nat \ {0}
           /\ Additive \subseteq G!Versions
           /\ runner[r].pc \in {"apply", "record", "rollback", "remove"} =>
                G!NextFile(r) \in runner[r].todo /\ G!NextFile(r) \in G!Versions
<1>1. runner \in [Workers -> RunnerStates] /\ server \in [Servers -> ServerStates]
  BY DEF SchemaInv, G!TypeOK, RunnerStates, ServerStates
<1>2. runner[r].pc \in {"apply", "record", "rollback", "remove"} => runner[r].todo # {}
  BY DEF SchemaInv, G!TypeOK
<1>3. effects \in [G!Versions -> 0 .. MaxTimes]
  BY DEF SchemaInv, G!TypeOK
<1> QED  BY <1>1, <1>2, <1>3, NextFileIs DEF SchemaInv, G!MigrationsAssumption

(* A runner moves and the others stay where they are, or meet it.          *)
Moves(r, new) ==
    /\ runner' \in [Workers -> RunnerStates]
    /\ runner'[r] = new
    /\ \A q \in Workers \ {r} : runner'[q] = runner[q]

LEMMA MovesIs ==
    ASSUME G!MigrationsAssumption, SchemaInv, NEW r \in Workers, NEW new \in RunnerStates,
           runner' = [runner EXCEPT ![r] = new]
    PROVE  Moves(r, new)
  BY RunnerFacts DEF Moves

LEMMA FilesStay ==
    ASSUME NEW r \in Workers, NEW new, Moves(r, new)
    PROVE  /\ \A q \in Workers \ {r} : G!NextFile(q)' = G!NextFile(q)
           /\ new.todo = runner[r].todo => G!NextFile(r)' = G!NextFile(r)
  BY DEF Moves, G!NextFile, G!Min

(* The state of a runner, one field after the other.                       *)
LEMMA RunnerFields ==
    ASSUME NEW state \in RunnerStates, NEW place, NEW rest
    PROVE  /\ [state EXCEPT !.pc = place]
                = [pc |-> place, disk |-> state.disk, todo |-> state.todo, met |-> state.met]
           /\ [state EXCEPT !.pc = place, !.todo = rest]
                = [pc |-> place, disk |-> state.disk, todo |-> rest, met |-> state.met]
<1> DEFINE new == [state EXCEPT !.pc = place, !.todo = rest]
<1>1. /\ DOMAIN state = {"pc", "disk", "todo", "met"}
      /\ state = [pc |-> state.pc, disk |-> state.disk, todo |-> state.todo, met |-> state.met]
  BY DEF RunnerStates
<1>2. [state EXCEPT !.pc = place]
        = [pc |-> place, disk |-> state.disk, todo |-> state.todo, met |-> state.met]
  BY <1>1
<1>3. new = [pc |-> place, disk |-> state.disk, todo |-> rest, met |-> state.met]
  <2>1. new = [f \in {"pc", "disk", "todo", "met"} |->
                 IF f = "pc" THEN place ELSE IF f = "todo" THEN rest ELSE state[f]]
    BY <1>1
  <2> QED  BY <2>1
<1> QED  BY <1>2, <1>3

LEMMA ExecUpKeeps ==
    ASSUME G!MigrationsAssumption, SchemaInv, NEW r \in Workers, G!ExecUp(r)
    PROVE  SchemaInv'
<1> DEFINE v == G!NextFile(r)
           new == [pc |-> "record", disk |-> runner[r].disk, todo |-> runner[r].todo,
                   met |-> runner[r].met]
<1>1. /\ runner \in [Workers -> RunnerStates] /\ server \in [Servers -> ServerStates]
      /\ runner[r] \in RunnerStates
      /\ effects \in [G!Versions -> 0 .. MaxTimes] /\ MaxTimes \in Nat \ {0}
      /\ Additive \subseteq G!Versions
      /\ v \in runner[r].todo /\ v \in G!Versions /\ runner[r].pc = "apply"
  BY RunnerFacts DEF G!ExecUp
<1>2. Moves(r, new)
  <2>1. runner' = [runner EXCEPT ![r] = new]
    BY <1>1, RunnerFields DEF G!ExecUp
  <2>2. new \in RunnerStates
    BY <1>1 DEF RunnerStates
  <2> QED  BY <2>1, <2>2, MovesIs
<1>3. \A q \in Workers : G!NextFile(q)' = G!NextFile(q)
  BY <1>2, FilesStay
<1>4. /\ effects' = [effects EXCEPT ![v] = IF v \in Additive THEN effects[v] + 1 ELSE 1]
      /\ v \in Additive => effects[v] < MaxTimes
      /\ UNCHANGED <<hasTable, recorded, server>>
      /\ doubt' = IF runner[r].met THEN doubt \cup {v} ELSE doubt
      /\ excused' = IF runner[r].met THEN excused \cup {v} ELSE excused
  BY DEF G!ExecUp, G!Suspect
<1>5. /\ effects' \in [G!Versions -> 0 .. MaxTimes] /\ effects'[v] > 0
      /\ \A u \in G!Versions \ {v} : effects'[u] = effects[u]
      /\ \A u \in G!Versions : effects[u] > 0 => effects'[u] > 0
  BY <1>1, <1>4
<1>6. G!TypeOK'
  BY <1>1, <1>2, <1>4, <1>5 DEF SchemaInv, G!TypeOK, Moves, RunnerStates, ServerStates
<1>7. RunnersMet' /\ AtRest'
  BY <1>1, <1>2, <1>4 DEF SchemaInv, RunnersMet, AtRest, Moves, G!Idle
<1>8. InHandDone'
  <2> SUFFICES ASSUME NEW q \in Workers, q # r
      PROVE  /\ runner[q].pc = "record" =>
                  \/ effects'[G!NextFile(q)] > 0
                  \/ runner[q].met /\ G!NextFile(q) \in doubt'
             /\ runner[q].pc = "remove" =>
                  \/ effects'[G!NextFile(q)] = 0 \/ G!NextFile(q) \in Additive
                  \/ runner[q].met /\ G!NextFile(q) \in doubt'
    BY <1>2, <1>3, <1>5 DEF InHandDone, Moves
  <2>1. CASE runner[q].pc \in {"record", "remove"}
    <3>1. runner[q].met /\ runner[r].met
      BY <2>1, <1>1 DEF SchemaInv, RunnersMet, G!Idle
    <3>2. G!NextFile(q) \in G!Versions
      BY <2>1, RunnerFacts
    <3> QED  BY <3>1, <3>2, <2>1, <1>4, <1>5 DEF SchemaInv, InHandDone
  <2> QED  BY <2>1
<1>9. ToGoUnrecorded'
  BY <1>1, <1>2, <1>4 DEF SchemaInv, ToGoUnrecorded, Moves
<1>10. RemovedExcused'
  BY <1>2, <1>3, <1>4 DEF SchemaInv, RemovedExcused, Moves
<1>11. AddedKnown'
  <2> SUFFICES ASSUME NEW u \in Additive \ excused', effects'[u] > 0, u \notin recorded
      PROVE  \E q \in Workers : runner'[q].pc = "record" /\ G!NextFile(q) = u
    BY <1>3, <1>4 DEF AddedKnown
  <2>1. CASE u = v
    BY <2>1, <1>2 DEF Moves
  <2>2. CASE u # v
    BY <2>2, <1>1, <1>2, <1>4, <1>5 DEF SchemaInv, AddedKnown, Moves
  <2> QED  BY <2>1, <2>2
<1>12. G!InHand' = G!InHand \cup {v}
  BY <1>1, <1>2, <1>3 DEF G!InHand, Moves
<1>13. G!RowsTellSchema'
  BY <1>4, <1>5, <1>12 DEF SchemaInv, G!RowsTellSchema
<1>14. G!AddedOnce'
  <2> SUFFICES ASSUME NEW u \in Additive, effects'[u] > 1, u \notin excused' PROVE FALSE
    BY DEF G!AddedOnce
  <2>1. u = v
    BY <1>1, <1>4, <1>5 DEF SchemaInv, G!AddedOnce
  <2>2. ~ runner[r].met /\ v \notin excused /\ effects[v] > 0
    BY <2>1, <1>1, <1>4
  <2>3. v \notin recorded
    BY <2>2, <1>1 DEF SchemaInv, ToGoUnrecorded
  <2>4. PICK q \in Workers : runner[q].pc = "record" /\ G!NextFile(q) = v
    BY <2>1, <2>2, <2>3 DEF SchemaInv, AddedKnown
  <2>5. q # r /\ runner[q] # G!Idle /\ runner[r] # G!Idle
    BY <2>4, <1>1 DEF G!Idle
  <2> QED  BY <2>2, <2>5 DEF SchemaInv, RunnersMet
<1>15. G!ServedSchema'
  <2>1. \A s \in Servers : server[s].disk \subseteq G!Versions
    BY <1>1 DEF ServerStates, G!Versions
  <2> QED  BY <2>1, <1>4, <1>5 DEF SchemaInv, G!ServedSchema
<1> QED
  BY <1>6, <1>7, <1>8, <1>9, <1>10, <1>11, <1>13, <1>14, <1>15 DEF SchemaInv

(* A runner that holds nothing in hand, neither before nor after it moves. *)
LEMMA QuietKeeps ==
    ASSUME G!MigrationsAssumption, SchemaInv, NEW r \in Workers, NEW new \in RunnerStates,
           runner' = [runner EXCEPT ![r] = new],
           UNCHANGED <<hasTable, recorded, effects, server, doubt, excused>>,
           runner[r] # G!Idle,
           runner[r].pc \notin {"record", "remove"}, new.pc \notin {"record", "remove"},
           new.todo \subseteq new.disk,
           new.pc \in {"apply", "rollback"} <=> new.todo # {},
           new.pc = "idle" <=> new = G!Idle,
           new = G!Idle \/ new.met = runner[r].met,
           new.pc = "apply" => new.todo \cap recorded = {}
    PROVE  SchemaInv'
<1>1. /\ runner \in [Workers -> RunnerStates] /\ server \in [Servers -> ServerStates]
      /\ runner[r] \in RunnerStates
  BY RunnerFacts
<1>2. Moves(r, new)
  BY MovesIs
<1>3. \A q \in Workers \ {r} : G!NextFile(q)' = G!NextFile(q)
  BY <1>2, FilesStay
<1>4. G!TypeOK'
  BY <1>1, <1>2 DEF SchemaInv, G!TypeOK, Moves, RunnerStates, ServerStates
<1>5. RunnersMet' /\ AtRest'
  BY <1>1, <1>2 DEF SchemaInv, RunnersMet, AtRest, Moves
<1>6. InHandDone' /\ RemovedExcused'
  BY <1>2, <1>3 DEF SchemaInv, InHandDone, RemovedExcused, Moves
<1>7. ToGoUnrecorded'
  BY <1>1, <1>2 DEF SchemaInv, ToGoUnrecorded, Moves
<1>8. AddedKnown'
  BY <1>2, <1>3 DEF SchemaInv, AddedKnown, Moves
<1>9. G!InHand' = G!InHand
  BY <1>1, <1>2, <1>3 DEF G!InHand, Moves
<1>10. G!RowsTellSchema' /\ G!AddedOnce' /\ G!ServedSchema'
  BY <1>9 DEF SchemaInv, G!RowsTellSchema, G!AddedOnce, G!ServedSchema
<1> QED  BY <1>4, <1>5, <1>6, <1>7, <1>8, <1>10 DEF SchemaInv

LEMMA AppliedVersionsKeeps ==
    ASSUME G!MigrationsAssumption, SchemaInv, NEW r \in Workers, G!AppliedVersions(r)
    PROVE  SchemaInv'
<1> DEFINE missing == G!Missing(runner[r].disk)
           next == [pc |-> "apply", disk |-> runner[r].disk, todo |-> missing,
                    met |-> runner[r].met]
           new == IF missing = {} THEN G!Idle ELSE next
<1>1. runner \in [Workers -> RunnerStates] /\ runner[r] \in RunnerStates /\ runner[r].pc = "up"
  BY RunnerFacts DEF G!AppliedVersions
<1>2. missing \subseteq runner[r].disk /\ missing \cap recorded = {} /\ missing \subseteq G!Versions
  BY <1>1 DEF G!Missing, RunnerStates, G!Versions
<1>3. runner' = [runner EXCEPT ![r] = new]
  BY <1>1, RunnerFields DEF G!AppliedVersions
<1>4. new \in RunnerStates
  BY <1>1, <1>2, RestStates DEF RunnerStates
<1>5. runner[r] # G!Idle
  BY <1>1 DEF G!Idle
<1>6. CASE missing = {}
  <2>1. new = G!Idle
    BY <1>6
  <2> QED  BY <2>1, <1>1, <1>3, <1>4, <1>5, QuietKeeps DEF G!Idle, G!AppliedVersions
<1>7. CASE missing # {}
  <2>1. new = next
    BY <1>7
  <2>2. new # G!Idle /\ new.pc = "apply" /\ new.todo = missing /\ new.disk = runner[r].disk
        /\ new.met = runner[r].met
    BY <2>1 DEF G!Idle
  <2> HIDE DEF new
  <2> QED  BY <2>2, <1>1, <1>2, <1>3, <1>4, <1>5, <1>7, QuietKeeps DEF G!AppliedVersions
<1> QED  BY <1>6, <1>7

LEMMA AppliedHistoryKeeps ==
    ASSUME G!MigrationsAssumption, SchemaInv, NEW r \in Workers, G!AppliedHistory(r)
    PROVE  SchemaInv'
<1> DEFINE last == {G!Max(recorded)}
           next == [pc |-> "rollback", disk |-> runner[r].disk, todo |-> last,
                    met |-> runner[r].met]
           none == recorded = {} \/ G!Max(recorded) \notin runner[r].disk
           new == IF none THEN G!Idle ELSE next
<1>1. runner \in [Workers -> RunnerStates] /\ runner[r] \in RunnerStates /\ runner[r].pc = "down"
  BY RunnerFacts DEF G!AppliedHistory
<1>2. ~ none => last \subseteq runner[r].disk /\ last \subseteq G!Versions /\ last # {}
  BY <1>1 DEF RunnerStates, G!Versions
<1>3. runner' = [runner EXCEPT ![r] = new]
  BY <1>1, RunnerFields DEF G!AppliedHistory
<1>4. new \in RunnerStates
  BY <1>1, <1>2, RestStates DEF RunnerStates
<1>5. runner[r] # G!Idle
  BY <1>1 DEF G!Idle
<1>6. CASE none
  <2>1. new = G!Idle
    BY <1>6
  <2> QED  BY <2>1, <1>1, <1>3, <1>4, <1>5, QuietKeeps DEF G!Idle, G!AppliedHistory
<1>7. CASE ~ none
  <2>1. new = next
    BY <1>7
  <2>2. new # G!Idle /\ new.pc = "rollback" /\ new.todo = last /\ new.disk = runner[r].disk
        /\ new.met = runner[r].met
    BY <2>1 DEF G!Idle
  <2> HIDE DEF new
  <2> QED  BY <2>2, <1>1, <1>2, <1>3, <1>4, <1>5, <1>7, QuietKeeps DEF G!AppliedHistory
<1> QED  BY <1>6, <1>7

LEMMA EnsureTableKeeps ==
    ASSUME G!MigrationsAssumption, SchemaInv, NEW r \in Workers, G!EnsureTable(r)
    PROVE  SchemaInv'
<1> DEFINE others == {q \in Workers \ {r} : runner[q] # G!Idle}
<1>1. /\ runner \in [Workers -> RunnerStates] /\ server \in [Servers -> ServerStates]
      /\ runner[r] = G!Idle
      /\ hasTable' = TRUE /\ UNCHANGED <<recorded, effects, server, doubt, excused>>
  BY RunnerFacts DEF G!EnsureTable
<1>2. PICK disk \in Releases, direction \in {"up", "down"} :
         runner' = [q \in Workers |->
                      IF q = r THEN [pc |-> direction, disk |-> disk, todo |-> {}, met |-> others # {}]
                      ELSE IF q \in others THEN [runner[q] EXCEPT !.met = TRUE]
                      ELSE runner[q]]
  BY DEF G!EnsureTable
<1>3. \A q \in Workers \ {r} :
         /\ runner'[q] \in RunnerStates
         /\ runner'[q].pc = runner[q].pc /\ runner'[q].disk = runner[q].disk
         /\ runner'[q].todo = runner[q].todo
         /\ runner'[q].met = (runner[q].met \/ runner[q] # G!Idle)
         /\ runner[q] = G!Idle => runner'[q] = G!Idle
  BY <1>1, <1>2 DEF RunnerStates
<1>4. /\ runner'[r].pc \in {"up", "down"} /\ runner'[r].disk = disk /\ runner'[r].todo = {}
      /\ runner'[r].met = (others # {}) /\ runner'[r] # G!Idle
      /\ runner'[r] \in RunnerStates
  BY <1>2 DEF RunnerStates, G!Idle
<1>5. \A q \in Workers \ {r} : G!NextFile(q)' = G!NextFile(q)
  BY <1>3 DEF G!NextFile, G!Min
<1>6. runner' \in [Workers -> RunnerStates]
  BY <1>2, <1>3, <1>4
<1>7. G!TypeOK'
  BY <1>1, <1>3, <1>4, <1>6 DEF SchemaInv, G!TypeOK, RunnerStates, ServerStates
<1>8. AtRest'
  BY <1>1, <1>3, <1>4 DEF SchemaInv, AtRest, G!Idle
<1>9. RunnersMet'
  BY <1>1, <1>3, <1>4 DEF SchemaInv, RunnersMet
<1>10. InHandDone' /\ RemovedExcused'
  <2>1. \A q \in Workers \ {r} : runner[q].met => runner'[q].met
    BY <1>3
  <2>2. \A q \in Workers :
          runner'[q].pc \in {"record", "remove"} => q # r /\ runner[q].pc = runner'[q].pc
    BY <1>3, <1>4
  <2> QED  BY <2>1, <2>2, <1>1, <1>5 DEF SchemaInv, InHandDone, RemovedExcused
<1>11. ToGoUnrecorded'
  BY <1>1, <1>3, <1>4 DEF SchemaInv, ToGoUnrecorded
<1>12. AddedKnown'
  BY <1>1, <1>3, <1>4, <1>5 DEF SchemaInv, AddedKnown, G!Idle
<1>13. G!InHand' = G!InHand
  BY <1>1, <1>3, <1>4, <1>5 DEF G!InHand, G!Idle
<1>14. G!RowsTellSchema' /\ G!AddedOnce' /\ G!ServedSchema'
  BY <1>1, <1>13 DEF SchemaInv, G!RowsTellSchema, G!AddedOnce, G!ServedSchema
<1> QED  BY <1>7, <1>8, <1>9, <1>10, <1>11, <1>12, <1>14 DEF SchemaInv

LEMMA ExecDownKeeps ==
    ASSUME G!MigrationsAssumption, SchemaInv, NEW r \in Workers, G!ExecDown(r)
    PROVE  SchemaInv'
<1> DEFINE v == G!NextFile(r)
           new == [pc |-> "remove", disk |-> runner[r].disk, todo |-> runner[r].todo,
                   met |-> runner[r].met]
<1>1. /\ runner \in [Workers -> RunnerStates] /\ server \in [Servers -> ServerStates]
      /\ runner[r] \in RunnerStates
      /\ effects \in [G!Versions -> 0 .. MaxTimes] /\ MaxTimes \in Nat \ {0}
      /\ Additive \subseteq G!Versions
      /\ v \in runner[r].todo /\ v \in G!Versions /\ runner[r].pc = "rollback"
  BY RunnerFacts DEF G!ExecDown
<1>2. Moves(r, new)
  <2>1. runner' = [runner EXCEPT ![r] = new]
    BY <1>1, RunnerFields DEF G!ExecDown
  <2>2. new \in RunnerStates
    BY <1>1 DEF RunnerStates
  <2> QED  BY <2>1, <2>2, MovesIs
<1>3. \A q \in Workers : G!NextFile(q)' = G!NextFile(q)
  BY <1>2, FilesStay
<1>4. /\ effects' = IF v \in Additive THEN effects ELSE [effects EXCEPT ![v] = 0]
      /\ UNCHANGED <<hasTable, recorded>>
      /\ doubt' = IF runner[r].met THEN doubt \cup {v} ELSE doubt
      /\ excused' = excused \cup {v}
  BY DEF G!ExecDown, G!Suspect
<1>5. /\ effects' \in [G!Versions -> 0 .. MaxTimes]
      /\ effects'[v] = 0 \/ v \in Additive
      /\ \A u \in G!Versions \ {v} : effects'[u] = effects[u]
      /\ \A u \in G!Versions : effects'[u] > 0 => effects[u] > 0
      /\ \A u \in Additive : effects'[u] = effects[u]
  BY <1>1, <1>4
<1>6. /\ server' \in [Servers -> ServerStates]
      /\ \A s \in Servers : /\ ~ server'[s].up => server'[s] = G!Off
                            /\ server'[s].up => /\ server'[s].disk = server[s].disk
                                                /\ server'[s].lacks = server[s].lacks \cup {v}
  <2>1. server' = [s \in Servers |->
                     IF server[s].up THEN [server[s] EXCEPT !.lacks = server[s].lacks \cup {v}]
                     ELSE G!Off]
    BY DEF G!ExecDown
  <2>2. \A s \in Servers : IF server[s].up
                           THEN /\ server'[s].up /\ server'[s].disk = server[s].disk
                                /\ server'[s].lacks = server[s].lacks \cup {v}
                                /\ server'[s] \in ServerStates
                           ELSE server'[s] = G!Off
    BY <2>1, <1>1 DEF ServerStates
  <2>3. \A s \in Servers : server'[s] \in ServerStates
    BY <2>2, RestStates
  <2>4. ~ G!Off.up
    BY DEF G!Off
  <2> QED  BY <2>1, <2>2, <2>3, <2>4
<1>7. G!TypeOK'
  BY <1>1, <1>2, <1>4, <1>5, <1>6 DEF SchemaInv, G!TypeOK, Moves, RunnerStates, ServerStates
<1>8. RunnersMet' /\ AtRest'
  BY <1>1, <1>2, <1>6 DEF SchemaInv, RunnersMet, AtRest, Moves, G!Idle
<1>9. InHandDone'
  <2> SUFFICES ASSUME NEW q \in Workers, q # r
      PROVE  /\ runner[q].pc = "record" =>
                  \/ effects'[G!NextFile(q)] > 0
                  \/ runner[q].met /\ G!NextFile(q) \in doubt'
             /\ runner[q].pc = "remove" =>
                  \/ effects'[G!NextFile(q)] = 0 \/ G!NextFile(q) \in Additive
                  \/ runner[q].met /\ G!NextFile(q) \in doubt'
    BY <1>2, <1>3, <1>5 DEF InHandDone, Moves
  <2>1. CASE runner[q].pc \in {"record", "remove"}
    <3>1. runner[q].met /\ runner[r].met
      BY <2>1, <1>1 DEF SchemaInv, RunnersMet, G!Idle
    <3>2. G!NextFile(q) \in G!Versions
      BY <2>1, RunnerFacts
    <3> QED  BY <3>1, <3>2, <2>1, <1>4, <1>5 DEF SchemaInv, InHandDone
  <2> QED  BY <2>1
<1>10. ToGoUnrecorded'
  BY <1>1, <1>2, <1>4 DEF SchemaInv, ToGoUnrecorded, Moves
<1>11. RemovedExcused'
  BY <1>2, <1>3, <1>4 DEF SchemaInv, RemovedExcused, Moves
<1>12. AddedKnown'
  <2> SUFFICES ASSUME NEW u \in Additive \ excused', effects'[u] > 0, u \notin recorded
      PROVE  \E q \in Workers : runner'[q].pc = "record" /\ G!NextFile(q) = u
    BY <1>3, <1>4 DEF AddedKnown
  <2>1. PICK q \in Workers : runner[q].pc = "record" /\ G!NextFile(q) = u
    BY <1>1, <1>4, <1>5 DEF SchemaInv, AddedKnown
  <2> QED  BY <2>1, <1>1, <1>2 DEF Moves
<1>13. G!InHand' = G!InHand \cup {v}
  BY <1>1, <1>2, <1>3 DEF G!InHand, Moves
<1>14. G!RowsTellSchema'
  BY <1>4, <1>5, <1>13 DEF SchemaInv, G!RowsTellSchema
<1>15. G!AddedOnce'
  BY <1>4, <1>5 DEF SchemaInv, G!AddedOnce
<1>16. G!ServedSchema'
  <2> SUFFICES ASSUME NEW s \in Servers, NEW u \in server'[s].disk \ server'[s].lacks
      PROVE  effects'[u] > 0
    BY DEF G!ServedSchema
  <2>1. server'[s].up
    BY <1>6 DEF G!Off
  <2>2. u \in G!Versions
    BY <1>1, <1>6, <2>1 DEF ServerStates, G!Versions
  <2> QED  BY <2>1, <2>2, <1>5, <1>6 DEF SchemaInv, G!ServedSchema
<1> QED
  BY <1>7, <1>8, <1>9, <1>10, <1>11, <1>12, <1>14, <1>15, <1>16 DEF SchemaInv

LEMMA RecordAppliedKeeps ==
    ASSUME G!MigrationsAssumption, SchemaInv, NEW r \in Workers, G!RecordApplied(r)
    PROVE  SchemaInv'
<1> DEFINE v == G!NextFile(r)
           rest == runner[r].todo \ {v}
           next == [pc |-> "apply", disk |-> runner[r].disk, todo |-> rest, met |-> runner[r].met]
           new == IF rest = {} THEN G!Idle ELSE next
<1>1. /\ runner \in [Workers -> RunnerStates] /\ server \in [Servers -> ServerStates]
      /\ runner[r] \in RunnerStates
      /\ effects \in [G!Versions -> 0 .. MaxTimes]
      /\ v \in runner[r].todo /\ v \in G!Versions /\ runner[r].pc = "record"
      /\ recorded' = recorded \cup {v} /\ v \notin recorded
      /\ UNCHANGED <<hasTable, effects, server, excused>>
      /\ doubt' = IF runner[r].met THEN doubt ELSE doubt \ {v}
  BY RunnerFacts DEF G!RecordApplied, G!Settled
<1>2. new \in RunnerStates
  BY <1>1, RestStates DEF RunnerStates
<1>3. Moves(r, new)
  <2>1. runner' = [runner EXCEPT ![r] = new]
    BY <1>1, RunnerFields DEF G!RecordApplied
  <2> QED  BY <2>1, <1>2, MovesIs
<1>4. \A q \in Workers \ {r} : G!NextFile(q)' = G!NextFile(q)
  BY <1>3, FilesStay
<1>5. /\ new.pc \in {"idle", "apply"} /\ (new.pc = "idle" <=> new = G!Idle)
      /\ new # G!Idle => new.met = runner[r].met
      /\ new.todo = rest /\ (new.pc = "apply" <=> rest # {})
      /\ new.todo \subseteq new.disk
  <2>1. CASE rest = {}
    BY <2>1 DEF G!Idle
  <2>2. CASE rest # {}
    BY <2>2, <1>1 DEF G!Idle, SchemaInv, G!TypeOK
  <2> QED  BY <2>1, <2>2
<1> HIDE DEF new
<1>6. G!TypeOK'
  BY <1>1, <1>3, <1>5 DEF SchemaInv, G!TypeOK, Moves, RunnerStates, ServerStates
<1>7. RunnersMet' /\ AtRest'
  <2>1. runner[r] # G!Idle
    BY <1>1 DEF G!Idle
  <2> QED  BY <2>1, <1>1, <1>3, <1>5 DEF SchemaInv, RunnersMet, AtRest, Moves
<1>8. \A q \in Workers \ {r} : runner[q] # G!Idle => runner[q].met /\ runner[r].met
  BY <1>1 DEF SchemaInv, RunnersMet, G!Idle
<1>9. InHandDone'
  <2> SUFFICES ASSUME NEW q \in Workers, q # r
      PROVE  /\ runner[q].pc = "record" =>
                  \/ effects[G!NextFile(q)] > 0
                  \/ runner[q].met /\ G!NextFile(q) \in doubt'
             /\ runner[q].pc = "remove" =>
                  \/ effects[G!NextFile(q)] = 0 \/ G!NextFile(q) \in Additive
                  \/ runner[q].met /\ G!NextFile(q) \in doubt'
    BY <1>1, <1>3, <1>4, <1>5 DEF InHandDone, Moves
  <2>1. runner[q].pc \in {"record", "remove"} => doubt' = doubt
    BY <1>1, <1>8 DEF G!Idle
  <2> QED  BY <2>1 DEF SchemaInv, InHandDone
<1>10. ToGoUnrecorded'
  <2> SUFFICES ASSUME NEW q \in Workers, runner'[q].pc \in {"apply", "record"}, ~ runner'[q].met
      PROVE  runner'[q].todo \cap recorded' = {}
    BY DEF ToGoUnrecorded
  <2>1. CASE q = r
    BY <2>1, <1>1, <1>3, <1>5 DEF SchemaInv, ToGoUnrecorded, Moves, G!Idle
  <2>2. CASE q # r
    BY <2>2, <1>3, <1>8 DEF Moves, G!Idle
  <2> QED  BY <2>1, <2>2
<1>11. RemovedExcused'
  BY <1>1, <1>3, <1>4, <1>5 DEF SchemaInv, RemovedExcused, Moves
<1>12. AddedKnown'
  BY <1>1, <1>3, <1>4 DEF SchemaInv, AddedKnown, Moves
<1>13. G!InHand \subseteq G!InHand' \cup {v}
  BY <1>1, <1>3, <1>4 DEF G!InHand, Moves
<1>14. G!RowsTellSchema'
  <2>1. v \notin doubt' => effects[v] > 0
    BY <1>1 DEF SchemaInv, InHandDone
  <2> QED  BY <2>1, <1>1, <1>13 DEF SchemaInv, G!RowsTellSchema
<1>15. G!AddedOnce' /\ G!ServedSchema'
  BY <1>1 DEF SchemaInv, G!AddedOnce, G!ServedSchema
<1> QED
  BY <1>6, <1>7, <1>9, <1>10, <1>11, <1>12, <1>14, <1>15 DEF SchemaInv

LEMMA RemoveAppliedKeeps ==
    ASSUME G!MigrationsAssumption, SchemaInv, NEW r \in Workers, G!RemoveApplied(r)
    PROVE  SchemaInv'
<1> DEFINE v == G!NextFile(r)
<1>1. /\ runner \in [Workers -> RunnerStates] /\ server \in [Servers -> ServerStates]
      /\ runner[r] \in RunnerStates
      /\ effects \in [G!Versions -> 0 .. MaxTimes]
      /\ v \in runner[r].todo /\ v \in G!Versions /\ runner[r].pc = "remove"
      /\ recorded' = recorded \ {v}
      /\ UNCHANGED <<hasTable, effects, server, excused>>
      /\ doubt' = IF runner[r].met THEN doubt ELSE doubt \ {v}
  BY RunnerFacts DEF G!RemoveApplied, G!Settled
<1>2. Moves(r, G!Idle)
  BY RestStates, MovesIs DEF G!RemoveApplied
<1>3. \A q \in Workers \ {r} : G!NextFile(q)' = G!NextFile(q)
  BY <1>2, FilesStay
<1>4. G!TypeOK'
  BY <1>1, <1>2 DEF SchemaInv, G!TypeOK, Moves, RunnerStates, ServerStates, G!Idle
<1>5. RunnersMet' /\ AtRest'
  BY <1>1, <1>2 DEF SchemaInv, RunnersMet, AtRest, Moves, G!Idle
<1>6. \A q \in Workers \ {r} : runner[q] # G!Idle => runner[q].met /\ runner[r].met
  BY <1>1 DEF SchemaInv, RunnersMet, G!Idle
<1>7. InHandDone'
  <2> SUFFICES ASSUME NEW q \in Workers, q # r
      PROVE  /\ runner[q].pc = "record" =>
                  \/ effects[G!NextFile(q)] > 0
                  \/ runner[q].met /\ G!NextFile(q) \in doubt'
             /\ runner[q].pc = "remove" =>
                  \/ effects[G!NextFile(q)] = 0 \/ G!NextFile(q) \in Additive
                  \/ runner[q].met /\ G!NextFile(q) \in doubt'
    BY <1>1, <1>2, <1>3 DEF InHandDone, Moves, G!Idle
  <2>1. runner[q].pc \in {"record", "remove"} => doubt' = doubt
    BY <1>1, <1>6 DEF G!Idle
  <2> QED  BY <2>1 DEF SchemaInv, InHandDone
<1>8. ToGoUnrecorded' /\ RemovedExcused'
  BY <1>1, <1>2, <1>3 DEF SchemaInv, ToGoUnrecorded, RemovedExcused, Moves, G!Idle
<1>9. AddedKnown'
  BY <1>1, <1>2, <1>3 DEF SchemaInv, AddedKnown, RemovedExcused, Moves
<1>10. G!InHand \subseteq G!InHand' \cup {v}
  BY <1>1, <1>2, <1>3 DEF G!InHand, Moves
<1>11. G!RowsTellSchema'
  <2>1. v \notin doubt' => effects[v] = 0 \/ v \in Additive
    BY <1>1 DEF SchemaInv, InHandDone
  <2> QED  BY <2>1, <1>1, <1>10 DEF SchemaInv, G!RowsTellSchema
<1>12. G!AddedOnce' /\ G!ServedSchema'
  BY <1>1 DEF SchemaInv, G!AddedOnce, G!ServedSchema
<1> QED  BY <1>4, <1>5, <1>7, <1>8, <1>9, <1>11, <1>12 DEF SchemaInv

LEMMA StopKeeps ==
    ASSUME G!MigrationsAssumption, SchemaInv, NEW r \in Workers, G!Stop(r)
    PROVE  SchemaInv'
<1> DEFINE torn == IF runner[r].pc \in {"record", "remove"} THEN {G!NextFile(r)} ELSE {}
<1>1. /\ runner \in [Workers -> RunnerStates] /\ server \in [Servers -> ServerStates]
      /\ UNCHANGED <<hasTable, recorded, effects, server>>
      /\ doubt' = doubt \cup torn /\ excused' = excused \cup torn
      /\ torn \subseteq G!Versions
  BY RunnerFacts DEF G!Stop
<1>2. Moves(r, G!Idle)
  BY RestStates, MovesIs DEF G!Stop
<1>3. \A q \in Workers \ {r} : G!NextFile(q)' = G!NextFile(q)
  BY <1>2, FilesStay
<1>4. G!TypeOK'
  BY <1>1, <1>2 DEF SchemaInv, G!TypeOK, Moves, RunnerStates, ServerStates, G!Idle
<1>5. RunnersMet' /\ AtRest'
  BY <1>1, <1>2 DEF SchemaInv, RunnersMet, AtRest, Moves, G!Idle
<1>6. InHandDone' /\ ToGoUnrecorded' /\ RemovedExcused'
  BY <1>1, <1>2, <1>3 DEF SchemaInv, InHandDone, ToGoUnrecorded, RemovedExcused, Moves, G!Idle
<1>7. AddedKnown'
  BY <1>1, <1>2, <1>3 DEF SchemaInv, AddedKnown, Moves
<1>8. G!InHand \subseteq G!InHand' \cup torn
  BY <1>1, <1>2, <1>3 DEF G!InHand, Moves
<1>9. G!RowsTellSchema' /\ G!AddedOnce' /\ G!ServedSchema'
  BY <1>1, <1>8 DEF SchemaInv, G!RowsTellSchema, G!AddedOnce, G!ServedSchema
<1> QED  BY <1>4, <1>5, <1>6, <1>7, <1>9 DEF SchemaInv

LEMMA ServerKeeps ==
    ASSUME G!MigrationsAssumption, SchemaInv, NEW s \in Servers, G!StartServer(s) \/ G!StopServer(s)
    PROVE  SchemaInv'
<1>1. /\ UNCHANGED <<hasTable, recorded, effects, runner, doubt, excused>>
      /\ server \in [Servers -> ServerStates]
      /\ G!InHand \subseteq G!Versions
  BY RunnerFacts DEF G!StartServer, G!StopServer, G!InHand, SchemaInv, G!TypeOK, ServerStates
<1>2. PICK new \in ServerStates :
        /\ server' = [server EXCEPT ![s] = new]
        /\ \/ new = G!Off
           \/ new.up /\ new.disk \subseteq recorded /\ new.lacks = doubt \cup G!InHand
  <2>1. CASE G!StopServer(s)
    BY <2>1, RestStates DEF G!StopServer
  <2>2. CASE G!StartServer(s)
    <3>1. PICK disk \in Releases :
            /\ disk \subseteq recorded
            /\ server' = [server EXCEPT
                            ![s] = [up |-> TRUE, disk |-> disk, lacks |-> doubt \cup G!InHand]]
      BY <2>2 DEF G!StartServer, G!VerifyCurrent, G!Missing
    <3>2. [up |-> TRUE, disk |-> disk, lacks |-> doubt \cup G!InHand] \in ServerStates
      BY <1>1 DEF ServerStates, SchemaInv, G!TypeOK
    <3> QED  BY <3>1, <3>2
  <2> QED  BY <2>1, <2>2
<1>3. \A q \in Workers : G!NextFile(q)' = G!NextFile(q)
  BY <1>1 DEF G!NextFile, G!Min
<1>4. G!TypeOK'
  BY <1>1, <1>2 DEF SchemaInv, G!TypeOK, ServerStates
<1>5. RunnersMet' /\ AtRest'
  BY <1>1, <1>2 DEF SchemaInv, RunnersMet, AtRest, G!Off
<1>6. InHandDone' /\ ToGoUnrecorded' /\ RemovedExcused' /\ AddedKnown'
  BY <1>1, <1>3 DEF SchemaInv, InHandDone, ToGoUnrecorded, RemovedExcused, AddedKnown
<1>7. G!RowsTellSchema' /\ G!AddedOnce'
  BY <1>1, <1>3 DEF SchemaInv, G!RowsTellSchema, G!AddedOnce, G!InHand
<1>8. \A v \in recorded \ (doubt \cup G!InHand) : effects[v] > 0
  BY DEF SchemaInv, G!RowsTellSchema, G!TypeOK
<1>9. G!ServedSchema'
  BY <1>1, <1>2, <1>8 DEF SchemaInv, G!ServedSchema, G!Off
<1> QED  BY <1>4, <1>5, <1>6, <1>7, <1>9 DEF SchemaInv

LEMMA SchemaStep == ASSUME G!MigrationsAssumption, SchemaInv, G!Next PROVE SchemaInv'
  BY ExecUpKeeps, ExecDownKeeps, RecordAppliedKeeps, RemoveAppliedKeeps, StopKeeps,
     AppliedVersionsKeeps, AppliedHistoryKeeps, EnsureTableKeeps, ServerKeeps DEF G!Next

LEMMA SchemaStay == ASSUME SchemaInv, UNCHANGED gVars PROVE SchemaInv'
BY DEF gVars, SchemaInv, AddedKnown, AtRest, G!AddedOnce, G!RowsTellSchema,
       G!ServedSchema, G!TypeOK, InHandDone, RemovedExcused, RunnersMet, ToGoUnrecorded,
       G!NextFile, G!InHand

-----------------------------------------------------------------------------
(* All of them together: each behaviour is of one of the eight.            *)

Inv ==
    /\ focus = "registration" => IP!IInv
    /\ focus = "portfolio" => HoldingsInv
    /\ focus = "llm" => ProvidersInv
    /\ focus = "cards" => CardsInv /\ CardsCounted
    /\ focus = "market" => MarketInv
    /\ focus = "limits" => WindowInv
    /\ focus = "scores" => ScoresInv
    /\ focus = "migrations" => SchemaInv

LEMMA InvInit == ASSUME Init PROVE Inv
BY RequestsAssumption, RegistrationInit, HoldingsInit, ProvidersInit, CardsInit, CountedInit,
   MarketInit, WindowInit, ScoresInit, SchemaInit DEF Init, Inv

LEMMA CountedStay == ASSUME CardsCounted, UNCHANGED dVars PROVE CardsCounted'
BY DEF dVars, CardsCounted, Stamped

LEMMA InvNext == ASSUME Inv, [Next]_vars PROVE Inv'
<1>1. CASE UNCHANGED vars
  <2>1. UNCHANGED <<focus, iVars, pVars, lVars, dVars, mVars, tVars, sVars, gVars>>
    BY <1>1 DEF vars
  <2> QED BY <2>1, RegistrationStep, HoldingsStay, ProvidersStay, CardsStay, CountedStay, MarketStep,
             WindowStay, ScoresStay, SchemaStay DEF Inv
<1>2. CASE Next
  <2>0. UNCHANGED focus
    BY <1>2 DEF Next
  <2>1. CASE focus = "registration"
    BY <1>2, <2>0, <2>1, RegistrationStep DEF Inv, Next
  <2>2. CASE focus = "portfolio"
    BY <1>2, <2>0, <2>2, RequestsAssumption, HoldingsStep DEF Inv, Next
  <2>3. CASE focus = "llm"
    BY <1>2, <2>0, <2>3, RequestsAssumption, ProvidersStep DEF Inv, Next
  <2>4. CASE focus = "cards"
    BY <1>2, <2>0, <2>4, RequestsAssumption, CardsStep, CountedStep DEF Inv, Next
  <2>5. CASE focus = "market"
    BY <1>2, <2>0, <2>5, MarketStep DEF Inv, Next
  <2>6. CASE focus = "limits"
    BY <1>2, <2>0, <2>6, RequestsAssumption, WindowStep DEF Inv, Next
  <2>7. CASE focus = "scores"
    BY <1>2, <2>0, <2>7, RequestsAssumption, ScoresStep DEF Inv, Next
  <2>8. CASE focus = "migrations"
    BY <1>2, <2>0, <2>8, RequestsAssumption, SchemaStep DEF Inv, Next
  <2> QED BY <1>2, <2>1, <2>2, <2>3, <2>4, <2>5, <2>6, <2>7, <2>8 DEF Next
<1> QED BY <1>1, <1>2

(* The eight invariants hold in every behaviour.                           *)
THEOREM Inductive == Spec => []Inv
<1>1. Init => Inv
  BY InvInit
<1>2. Inv /\ [Next]_vars => Inv'
  BY InvNext
<1> QED BY <1>1, <1>2, PTL DEF Spec

(* All variables keep their types, the bounds of clocks and counters       *)
(* included.                                                               *)
THEOREM TypesKept == Spec => []TypeOK
<1>1. Inv => TypeOK
  BY RequestsAssumption, RegistrationIs, HoldingsTypeOK, CardsTypeOK, MarketIs, ScoresTypeOK
     DEF Inv, TypeOK, ProvidersInv, WindowInv, ScoresInv, SchemaInv
<1> QED BY <1>1, Inductive, PTL

(* Whatever fails, whoever else registers and whatever is deleted, a       *)
(* personal code leaves an account with all that belongs to it or nothing, *)
(* and an address has one account.                                         *)
THEOREM AllOrNothing == Spec => []RegistrationsConsistent
<1>1. Inv => RegistrationsConsistent
  BY RegistrationIs DEF Inv, RegistrationsConsistent
<1> QED BY <1>1, Inductive, PTL

(* How far requests that overlap exceed the limits of the codes.           *)
THEOREM LimitsHold == Spec => []CodeLimits
<1>1. Inv => CodeLimits
  BY RegistrationIs DEF Inv, CodeLimits
<1> QED BY <1>1, Inductive, PTL

(* How far requests that overlap exceed the limit of the holdings, what    *)
(* the next undisturbed trade repairs, whatever the signs of its price and *)
(* quantity, and between which prices the average cost lies where they are *)
(* the expected ones.                                                      *)
THEOREM HoldingsKept == Spec => []HoldingsSound
<1>1. Inv => HoldingsSound
  BY RequestsAssumption, HoldingsBoundIs, SelfHealingIs, CostWithinPricesIs DEF Inv, HoldingsSound
<1> QED BY <1>1, Inductive, PTL

(* One active configuration, a health that its own calls have earned, and  *)
(* the provider of the system for those alone who have agreed.             *)
THEOREM ProvidersKept == Spec => []ProvidersSound
<1>1. Inv => ProvidersSound
  BY OneActiveIs DEF Inv, ProvidersInv, ProvidersSound
<1> QED BY <1>1, Inductive, PTL

(* The guard of the v2 analysis is held exactly while one runs.            *)
THEOREM GuardHeld == Spec => []GuardExact
<1>1. Inv => GuardExact
  BY DEF Inv, CardsInv, GuardExact
<1> QED BY <1>1, Inductive, PTL

(* Two cards with the same previous card: one of their analyses overlapped *)
(* with another.                                                           *)
THEOREM NoFork == Spec => []ForksOnlyByOverlap
<1>1. Inv => ForksOnlyByOverlap
  BY NoForkIs DEF Inv, ForksOnlyByOverlap
<1> QED BY <1>1, Inductive, PTL

(* No value is given out older than its cache allows and one attempt, and  *)
(* no entry falls further back than one attempt.                           *)
THEOREM NoStaleData == Spec => []DataTimely
<1>1. Inv => DataTimely
  BY MarketIs DEF Inv, DataTimely
<1> QED BY <1>1, Inductive, PTL

(* In no window a limiter lets more through than its limit.                *)
THEOREM WindowKept == Spec => []WindowBound
<1>1. Inv => WindowBound
  BY DEF Inv, WindowInv, WindowBound
<1> QED BY <1>1, Inductive, PTL

(* A bold recommendation is for a gold fund whose valuation says so.       *)
THEOREM BoldIsEarned == Spec => []BoldNeedsValuation
<1>1. Inv => BoldNeedsValuation
  BY DEF Inv, ScoresInv, BoldNeedsValuation
<1> QED BY <1>1, Inductive, PTL

(* No two cards of a holding differ by ten points of confidence unless the *)
(* badge shows something else.                                             *)
THEOREM ShiftIsDead == Spec => []ShiftNeverShown
<1>1. Inv => ShiftNeverShown
  BY DEF Inv, ScoresInv, ShiftNeverShown, S!ShiftNeverShown
<1> QED BY <1>1, Inductive, PTL

(* The rows of schema_migrations say what the schema has, but for what a   *)
(* command left half done, did beside another or has rolled back.          *)
THEOREM SchemaKept == Spec => []SchemaSound
<1>1. Inv => SchemaSound
  BY DEF Inv, SchemaInv, SchemaSound, G!SchemaSound
<1> QED BY <1>1, Inductive, PTL
=============================================================================
