----------------------- MODULE InviteRegistrationProofs -----------------------
(***************************************************************************)
(* That a registration with a personal code leaves all of its rows or      *)
(* none, that an address has one account, and that the limits of the       *)
(* global code and of the codes per user are exceeded by no more than the  *)
(* requests that overlap: for any workers, users, codes, limits and        *)
(* failures.  The assumption on the constants is a hypothesis.             *)
(***************************************************************************)
EXTENDS InviteRegistration, FiniteSetTheorems, TLAPS

Rows == [state : {"none", "pending", "active", "deleted"}, email : Emails \cup {Nobody},
         consent : BOOLEAN, via : Codes \cup {Global, Nobody}]

Records ==
    [pc : {"idle", "email", "create", "consent", "increment", "consume", "commit",
           "streak", "count", "unused", "generate", "clear"},
     email : Emails \cup {Nobody}, code : Codes \cup {Global, Nobody},
     user : Users \cup {Nobody}, total : Nat]

CodeRows == [state : {"free", "taken", "used"}, by : Users \cup {Nobody}]

Shape ==
    /\ user \in [Users -> Rows]
    /\ used \in Nat
    /\ code \in [Codes -> CodeRows]
    /\ rewards \in [Codes -> SUBSET Users]
    /\ generated \in [Users -> Nat]
    /\ streak \in [Users -> [count : 0 .. Milestone, last : {"today", "yesterday", "older"}]]
    /\ req \in [Workers -> Records]
    /\ lost \in Nat /\ rare \in Nat

LEMMA TypesAre == TypeOK <=> Shape
BY DEF TypeOK, Shape, Rows, Records, CodeRows

(* A registration that has written its account.                            *)
Open(r) == r.pc \in {"consent", "increment", "consume", "commit"}

(* What the tables hold for a request at its place.                        *)
Good(r) ==
    /\ r.pc \in {"email", "create"} =>
         r.code \in Codes \cup {Global} /\ r.email \in Emails /\ r.user = Nobody
    /\ Open(r) =>
         /\ r.user \in Users \ {Inviter} /\ r.code \in Codes \cup {Global}
         /\ user[r.user].via = r.code
         /\ r.code = Global => Committed(r.user)
         /\ r.code # Global => user[r.user].state = "pending"
    /\ r.pc = "increment" => r.code = Global
    /\ r.pc \in {"consume", "commit"} => r.code # Global /\ user[r.user].consent
    /\ r.pc = "commit" => code[r.code].state = "taken" /\ code[r.code].by = r.user
    /\ r.pc \in {"streak", "count", "unused", "generate"} =>
         r.user \in Users /\ Committed(r.user)
    /\ r.pc = "clear" => r.user \in Users /\ user[r.user].state = "deleted"

Distinct ==
    \A v, w \in Workers :
        v # w /\ Open(req[v]) /\ Open(req[w]) => req[v].user # req[w].user

(* A row that is not committed has no codes; an address belongs to one row *)
(* that is not deleted.                                                    *)
Sound ==
    /\ Committed(Inviter)
    /\ \A u \in Users : user[u].state = "none" => user[u] = NoUser
    /\ \A u \in Users : ~ Committed(u) => generated[u] = 0
    /\ \A u, v \in Users :
         u # v /\ user[u].state \in {"pending", "active"} /\ user[v].state \in {"pending", "active"}
           => user[u].email # user[v].email

IsMade(r) == r.code = Global /\ r.pc \in {"consent", "increment"}
IsPend(r) == r.code = Global /\ r.pc \in {"email", "create"}
IsNear(r, u) == r.user = u /\ (r.pc = "generate" \/ (r.pc = "unused" /\ r.total < MaxCodes))

Made == {w \in Workers : IsMade(req[w])}
Pend == {w \in Workers : IsPend(req[w])}
Near(u) == {w \in Workers : IsNear(req[w], u)}

(* Every account of the global code was counted, was lost or is about to   *)
(* be counted.                                                             *)
Accounts ==
    /\ IsFiniteSet(ViaGlobal)
    /\ Cardinality(ViaGlobal) = used + lost + Cardinality(Made)
    /\ Cardinality(ViaGlobal) + Cardinality(Pend) <= MaxUses + Cardinality(Workers) - 1 + lost

Issued ==
    \A u \in Users : CountByUser(u) + Cardinality(Near(u)) <= MaxCodes + Cardinality(Workers) - 1

IInv ==
    /\ Shape
    /\ \A w \in Workers : Good(req[w])
    /\ Distinct
    /\ Sound
    /\ PersonalAtomic
    /\ Accounts
    /\ Issued

-----------------------------------------------------------------------------
(* Counting.                                                               *)

One(p) == IF p THEN 1 ELSE 0
USE DEF One

(* Two sets that differ by one member at most.                             *)
LEMMA DifferByOne ==
    ASSUME NEW S, NEW T, IsFiniteSet(S), NEW w, S \ {w} = T \ {w}
    PROVE  /\ IsFiniteSet(T)
           /\ Cardinality(S) \in Nat /\ Cardinality(T) \in Nat
           /\ Cardinality(T) = Cardinality(S) - One(w \in S) + One(w \in T)
<1>1. IsFiniteSet(S \ {w}) /\ Cardinality(S \ {w}) = Cardinality(S) - One(w \in S)
  BY FS_RemoveElement, FS_CardinalityType
<1>2. CASE w \in T
  <2>1. T = (S \ {w}) \cup {w}
    BY <1>2
  <2>2. IsFiniteSet(T) /\ Cardinality(T) = Cardinality(S \ {w}) + 1
    BY <1>1, <2>1, FS_AddElement
  <2> QED BY <1>1, <1>2, <2>2, FS_CardinalityType
<1>3. CASE w \notin T
  <2>1. T = S \ {w}
    BY <1>3
  <2> QED BY <1>1, <1>3, <2>1, FS_CardinalityType
<1> QED BY <1>2, <1>3

LEMMA Numbers ==
    ASSUME InviteAssumption
    PROVE  /\ IsFiniteSet(Workers) /\ Cardinality(Workers) \in Nat /\ Cardinality(Workers) >= 1
           /\ Cardinality(Codes) \in Nat /\ Cardinality(Codes) <= MaxCodes
           /\ MaxUses \in Nat /\ MaxUses >= 1 /\ MaxCodes \in Nat
           /\ InitialCodes \in Nat /\ InitialCodes < MaxCodes
BY FS_CardinalityType, FS_EmptySet DEF InviteAssumption

LEMMA Apart ==
    ASSUME InviteAssumption, NEW S \in SUBSET Workers, NEW T \in SUBSET Workers, S \cap T = {}
    PROVE  /\ IsFiniteSet(S) /\ Cardinality(S) \in Nat /\ IsFiniteSet(T) /\ Cardinality(T) \in Nat
           /\ Cardinality(S) + Cardinality(T) <= Cardinality(Workers)
<1>1. IsFiniteSet(Workers)
  BY DEF InviteAssumption
<1>2. IsFiniteSet(S) /\ IsFiniteSet(T) /\ Cardinality(S) \in Nat /\ Cardinality(T) \in Nat
  BY <1>1, FS_Subset, FS_CardinalityType
<1>3. Cardinality(S \cap T) = 0
  BY FS_EmptySet
<1>4. Cardinality(S \cup T) = Cardinality(S) + Cardinality(T) - Cardinality(S \cap T)
  BY <1>2, FS_Union
<1>5. Cardinality(S \cup T) <= Cardinality(Workers)
  BY <1>1, FS_Subset
<1> QED BY <1>2, <1>3, <1>4, <1>5

LEMMA Finite ==
    ASSUME InviteAssumption
    PROVE  /\ IsFiniteSet(Made) /\ IsFiniteSet(Pend)
           /\ Cardinality(Made) \in Nat /\ Cardinality(Pend) \in Nat
           /\ Cardinality(Made) + Cardinality(Pend) <= Cardinality(Workers)
           /\ \A u : /\ IsFiniteSet(Near(u)) /\ Cardinality(Near(u)) \in Nat
                     /\ Cardinality(Near(u)) <= Cardinality(Workers)
<1>1. Made \subseteq Workers /\ Pend \subseteq Workers /\ Made \cap Pend = {}
  BY DEF Made, Pend, IsMade, IsPend
<1>2. ASSUME NEW u
      PROVE  /\ IsFiniteSet(Near(u)) /\ Cardinality(Near(u)) \in Nat
             /\ Cardinality(Near(u)) <= Cardinality(Workers)
  <2>1. Near(u) \subseteq Workers
    BY DEF Near
  <2> QED BY <2>1, FS_Subset, FS_CardinalityType DEF InviteAssumption
<1> QED BY <1>1, <1>2, Apart

(* One request moves: what that does to the three counts.                  *)
LEMMA Moves ==
    ASSUME InviteAssumption, Shape, NEW w \in Workers, NEW r \in Records, r = req[w],
           NEW new \in Records, req' = [req EXCEPT ![w] = new]
    PROVE  /\ req' \in [Workers -> Records]
           /\ \A v \in Workers : req'[v] = IF v = w THEN new ELSE req[v]
           /\ Cardinality(Made') \in Nat /\ Cardinality(Pend') \in Nat
           /\ Cardinality(Made') = Cardinality(Made) - One(IsMade(r)) + One(IsMade(new))
           /\ Cardinality(Pend') = Cardinality(Pend) - One(IsPend(r)) + One(IsPend(new))
           /\ \A u : /\ Cardinality(Near(u)') \in Nat
                     /\ Cardinality(Near(u)') =
                          Cardinality(Near(u)) - One(IsNear(r, u)) + One(IsNear(new, u))
<1>1. /\ req' \in [Workers -> Records]
      /\ \A v \in Workers : req'[v] = IF v = w THEN new ELSE req[v]
  BY DEF Shape
<1>2. /\ Cardinality(Made') \in Nat
      /\ Cardinality(Made') = Cardinality(Made) - One(IsMade(r)) + One(IsMade(new))
  <2>1. Made \ {w} = Made' \ {w} /\ (w \in Made <=> IsMade(r)) /\ (w \in Made' <=> IsMade(new))
    BY <1>1 DEF Made
  <2>2. One(w \in Made) = One(IsMade(r)) /\ One(w \in Made') = One(IsMade(new))
    BY <2>1
  <2>3. Cardinality(Made') \in Nat /\ Cardinality(Made') = Cardinality(Made) - One(w \in Made) + One(w \in Made')
    BY <2>1, Finite, DifferByOne
  <2> QED BY <2>2, <2>3
<1>3. /\ Cardinality(Pend') \in Nat
      /\ Cardinality(Pend') = Cardinality(Pend) - One(IsPend(r)) + One(IsPend(new))
  <2>1. Pend \ {w} = Pend' \ {w} /\ (w \in Pend <=> IsPend(r)) /\ (w \in Pend' <=> IsPend(new))
    BY <1>1 DEF Pend
  <2>2. One(w \in Pend) = One(IsPend(r)) /\ One(w \in Pend') = One(IsPend(new))
    BY <2>1
  <2>3. Cardinality(Pend') \in Nat /\ Cardinality(Pend') = Cardinality(Pend) - One(w \in Pend) + One(w \in Pend')
    BY <2>1, Finite, DifferByOne
  <2> QED BY <2>2, <2>3
<1>4. ASSUME NEW u
      PROVE  /\ Cardinality(Near(u)') \in Nat
             /\ Cardinality(Near(u)') =
                  Cardinality(Near(u)) - One(IsNear(r, u)) + One(IsNear(new, u))
  <2>0. PICK S, T : S = Near(u) /\ T = Near(u)'
    OBVIOUS
  <2>1. S \ {w} = T \ {w} /\ (w \in S <=> IsNear(r, u)) /\ (w \in T <=> IsNear(new, u))
    BY <1>1, <2>0 DEF Near
  <2>2. One(w \in S) = One(IsNear(r, u)) /\ One(w \in T) = One(IsNear(new, u))
    BY <2>1
  <2>3. IsFiniteSet(S)
    BY <2>0, Finite
  <2>4. Cardinality(T) \in Nat /\ Cardinality(T) = Cardinality(S) - One(w \in S) + One(w \in T)
    BY <2>1, <2>3, DifferByOne
  <2> QED BY <2>0, <2>2, <2>4
<1> QED BY <1>1, <1>2, <1>3, <1>4

-----------------------------------------------------------------------------
(* The start.                                                              *)

LEMMA InvInit == ASSUME InviteAssumption, Init PROVE IInv
<1>1. NoRequest \in Records /\ NoUser \in Rows /\ NoRequest.pc = "idle" /\ NoRequest.code = Nobody
      /\ NoUser.state = "none" /\ NoUser.via = Nobody
  BY DEF NoRequest, NoUser, Records, Rows
<1>2. \A w \in Workers : req[w] = NoRequest
  BY DEF Init
<1>3. Shape
  <2>1. user \in [Users -> Rows]
    BY <1>1 DEF Init, InviteAssumption, Rows
  <2>2. code \in [Codes -> CodeRows]
    BY DEF Init, CodeRows
  <2>3. Milestone \in Nat
    BY DEF InviteAssumption
  <2>4. streak \in [Users -> [count : 0 .. Milestone, last : {"today", "yesterday", "older"}]]
    BY <2>3 DEF Init
  <2> QED BY <1>1, <2>1, <2>2, <2>4 DEF Init, Shape
<1>4. (\A w \in Workers : Good(req[w])) /\ Distinct
  BY <1>1, <1>2 DEF Good, Open, Distinct
<1>5. \A u \in Users : user[u].via = Nobody /\ (user[u] = NoUser \/ u = Inviter)
  BY <1>1 DEF Init
<1>6. Sound
  BY <1>1, <1>5 DEF Init, Sound, Committed, InviteAssumption
<1>7. PersonalAtomic
  BY <1>5 DEF PersonalAtomic, Init, InviteAssumption
<1>8. ViaGlobal = {} /\ Made = {} /\ Pend = {} /\ \A u : Near(u) = {}
  <2>1. Nobody # Global
    BY DEF InviteAssumption
  <2>2. ~ IsMade(NoRequest) /\ ~ IsPend(NoRequest) /\ \A u : ~ IsNear(NoRequest, u)
    BY <1>1 DEF IsMade, IsPend, IsNear
  <2> QED BY <1>2, <1>5, <2>1, <2>2 DEF ViaGlobal, Made, Pend, Near
<1>9. Accounts
  BY <1>8, Numbers, FS_EmptySet DEF Accounts, Init
<1>10. Issued
  <2> SUFFICES ASSUME NEW u \in Users
               PROVE  CountByUser(u) + Cardinality(Near(u)) <= MaxCodes + Cardinality(Workers) - 1
    BY DEF Issued
  <2>1. Cardinality(Near(u)) = 0 /\ generated[u] = 0
    BY <1>8, FS_EmptySet DEF Init
  <2>2. Cardinality(Owned(u)) \in Nat /\ Cardinality(Owned(u)) <= MaxCodes
    BY Numbers, FS_EmptySet DEF Owned
  <2> QED BY <2>1, <2>2, Numbers DEF CountByUser
<1> QED BY <1>3, <1>4, <1>6, <1>7, <1>9, <1>10 DEF IInv

-----------------------------------------------------------------------------
(* What a step of one request leaves to another.                           *)

Leaves(r) ==
    /\ \A u \in Users : Committed(u) => Committed(u)' /\ user'[u].via = user[u].via
    /\ \A u \in Users : user[u].state = "deleted" => user'[u].state = "deleted"
    /\ Open(r) /\ r.code # Global => user'[r.user] = user[r.user]
    /\ r.pc = "commit" => code'[r.code] = code[r.code]

LEMMA GoodKept ==
    ASSUME NEW r \in Records, Good(r), Leaves(r)
    PROVE  Good(r)'
<1>1. ASSUME Open(r), r.code = Global
      PROVE  user'[r.user].via = r.code /\ Committed(r.user)'
  BY <1>1 DEF Good, Leaves
<1>2. ASSUME Open(r), r.code # Global
      PROVE  user'[r.user] = user[r.user]
  BY <1>2 DEF Leaves
<1>3. r.pc \in {"consume", "commit"} => Open(r)
  BY DEF Open
<1> QED BY <1>1, <1>2, <1>3 DEF Good, Leaves, Committed

LEMMA OthersGood ==
    ASSUME Shape, \A v \in Workers : Good(req[v]), NEW w \in Workers, NEW new \in Records,
           req' = [req EXCEPT ![w] = new], Good(new)',
           \A v \in Workers \ {w} : Leaves(req[v])
    PROVE  \A v \in Workers : Good(req[v])'
<1> TAKE v \in Workers
<1>1. CASE v = w
  BY <1>1 DEF Shape
<1>2. CASE v # w
  <2>1. PICK r \in Records : r = req[v]
    BY DEF Shape
  <2>2. Good(r) /\ Leaves(r)
    BY <1>2, <2>1
  <2>3. Good(r)'
    BY <2>2, GoodKept
  <2>4. req'[v] = r
    BY <1>2, <2>1 DEF Shape
  <2> QED BY <2>3, <2>4
<1> QED BY <1>1, <1>2

LEMMA DistinctKept ==
    ASSUME Shape, Distinct, NEW w \in Workers, NEW new \in Records,
           req' = [req EXCEPT ![w] = new],
           Open(new) => Open(req[w]) /\ new.user = req[w].user
    PROVE  Distinct'
<1>1. \A v \in Workers : req'[v] = IF v = w THEN new ELSE req[v]
  BY DEF Shape
<1> QED BY <1>1 DEF Distinct, Open

(* The tables stay as they are.                                            *)
Tables == UNCHANGED <<user, code, generated>>

LEMMA TablesLeave == ASSUME Tables PROVE \A r : Leaves(r)
BY DEF Tables, Leaves, Committed

LEMMA SoundKept ==
    ASSUME Sound, Tables PROVE Sound'
BY DEF Sound, Tables, Committed

LEMMA AtomicKept ==
    ASSUME PersonalAtomic, Tables, UNCHANGED rewards PROVE PersonalAtomic'
BY DEF PersonalAtomic, Tables, Committed

(* A step that writes nothing but its request (and a streak, which nothing *)
(* else reads).                                                            *)
LEMMA QuietKeeps ==
    ASSUME InviteAssumption, IInv, NEW w \in Workers, NEW r \in Records, r = req[w],
           NEW new \in Records, req' = [req EXCEPT ![w] = new],
           UNCHANGED <<user, used, code, rewards, generated, lost>>,
           streak' \in [Users -> [count : 0 .. Milestone, last : {"today", "yesterday", "older"}]],
           rare' \in Nat, Good(new)', ~ Open(r), ~ Open(new),
           IsPend(new) => IsPend(r) \/ used < MaxUses,
           \A u \in Users : IsNear(new, u) => IsNear(r, u) \/ CountByUser(u) < MaxCodes
    PROVE  IInv'
<1>1. Shape /\ Distinct /\ Sound /\ PersonalAtomic /\ Accounts /\ Issued
      /\ \A v \in Workers : Good(req[v])
  BY DEF IInv
<1>2. Tables
  BY DEF Tables
<1>3. Shape'
  BY <1>1, Moves DEF Shape
<1>4. (\A v \in Workers : Good(req[v])') /\ Distinct' /\ Sound' /\ PersonalAtomic'
  BY <1>1, <1>2, TablesLeave, OthersGood, DistinctKept, SoundKept, AtomicKept
<1>5. ~ IsMade(r) /\ ~ IsMade(new)
  BY DEF IsMade, Open
<1>6. ViaGlobal' = ViaGlobal
  BY DEF ViaGlobal
<1>7. Cardinality(Made)' = Cardinality(Made) /\ Cardinality(Made) \in Nat
  <2>1. Cardinality(Made') = Cardinality(Made) - One(IsMade(r)) + One(IsMade(new))
    BY <1>1, Moves
  <2>2. One(IsMade(r)) = 0 /\ One(IsMade(new)) = 0
    BY <1>5
  <2> QED BY <2>1, <2>2, Finite
<1>8. Accounts'
  <2>1. /\ Cardinality(Pend) \in Nat /\ Cardinality(Pend') \in Nat
        /\ Cardinality(Made) + Cardinality(Pend') <= Cardinality(Workers)
    <3>1. /\ Made' \subseteq Workers /\ Pend' \subseteq Workers /\ Made' \cap Pend' = {}
      BY DEF Made, Pend, IsMade, IsPend
    <3>2. /\ Cardinality(Pend') \in Nat
          /\ Cardinality(Made') + Cardinality(Pend') <= Cardinality(Workers)
      BY <3>1, Apart
    <3> QED BY <3>2, <1>7, Finite
  <2>2. Cardinality(Pend') = Cardinality(Pend) - One(IsPend(r)) + One(IsPend(new))
    BY <1>1, Moves
  <2>3. IsFiniteSet(ViaGlobal) /\ Cardinality(ViaGlobal) \in Nat
        /\ used \in Nat /\ lost \in Nat
    BY <1>1, FS_CardinalityType DEF Accounts, Shape
  <2>4. CASE used < MaxUses
    <3>1. Cardinality(ViaGlobal) + Cardinality(Pend') <= MaxUses + Cardinality(Workers) - 1 + lost
      BY <1>1, <1>7, <2>1, <2>3, <2>4, Numbers DEF Accounts
    <3> QED BY <1>1, <1>6, <1>7, <3>1 DEF Accounts
  <2>5. CASE ~ used < MaxUses
    <3>1. Cardinality(Pend') <= Cardinality(Pend)
      BY <2>1, <2>2, <2>5
    <3>2. Cardinality(ViaGlobal) + Cardinality(Pend') <= MaxUses + Cardinality(Workers) - 1 + lost
      BY <1>1, <2>1, <2>3, <3>1, Numbers DEF Accounts
    <3> QED BY <1>1, <1>6, <1>7, <3>2 DEF Accounts
  <2> QED BY <2>4, <2>5
<1>9. Issued'
  <2> SUFFICES ASSUME NEW u \in Users
               PROVE  CountByUser(u)' + Cardinality(Near(u)') <= MaxCodes + Cardinality(Workers) - 1
    BY DEF Issued
  <2>1. /\ Cardinality(Near(u)') \in Nat /\ Cardinality(Near(u)) \in Nat
        /\ Cardinality(Near(u)') = Cardinality(Near(u)) - One(IsNear(r, u)) + One(IsNear(new, u))
        /\ Cardinality(Near(u)') <= Cardinality(Workers)
    <3>1. Near(u)' \subseteq Workers
      BY DEF Near
    <3>2. Cardinality(Near(u)') <= Cardinality(Workers)
      BY <3>1, Numbers, FS_Subset
    <3> QED BY <1>1, <3>2, Moves, Finite
  <2>2. CountByUser(u)' = CountByUser(u) /\ CountByUser(u) \in Nat
    <3>1. Cardinality(Owned(u)) \in Nat
      BY Numbers, FS_EmptySet DEF Owned
    <3> QED BY <1>1, <3>1 DEF CountByUser, Owned, Shape
  <2>3. CountByUser(u) + Cardinality(Near(u)) <= MaxCodes + Cardinality(Workers) - 1
    BY <1>1 DEF Issued
  <2>4. CASE IsNear(new, u) /\ ~ IsNear(r, u)
    <3>1. CountByUser(u) < MaxCodes
      BY <2>4
    <3> QED BY <2>1, <2>2, <3>1, Numbers
  <2>5. CASE ~ (IsNear(new, u) /\ ~ IsNear(r, u))
    <3>1. Cardinality(Near(u)') <= Cardinality(Near(u))
      BY <2>1, <2>5
    <3> QED BY <2>1, <2>2, <2>3, <3>1, Numbers
  <2> QED BY <2>4, <2>5
<1> QED BY <1>3, <1>4, <1>8, <1>9 DEF IInv

(* A step after which nobody else is near a new code.                      *)
LEMMA IssuedKept ==
    ASSUME InviteAssumption, Shape, Issued, NEW w \in Workers, NEW r \in Records, r = req[w],
           NEW new \in Records, req' = [req EXCEPT ![w] = new],
           \A u \in Users : IsNear(new, u) => IsNear(r, u),
           \A u \in Users : \/ generated'[u] = generated[u]
                            \/ generated'[u] = generated[u] + 1 /\ IsNear(r, u) /\ ~ IsNear(new, u)
    PROVE  Issued'
<1> SUFFICES ASSUME NEW u \in Users
             PROVE  CountByUser(u)' + Cardinality(Near(u)') <= MaxCodes + Cardinality(Workers) - 1
  BY DEF Issued
<1>1. /\ Cardinality(Near(u)') \in Nat /\ Cardinality(Near(u)) \in Nat
      /\ Cardinality(Near(u)') = Cardinality(Near(u)) - One(IsNear(r, u)) + One(IsNear(new, u))
  BY Moves, Finite
<1>2. generated[u] \in Nat /\ Cardinality(Owned(u)) \in Nat /\ Owned(u)' = Owned(u)
  BY Numbers, FS_EmptySet DEF Owned, Shape
<1>3. CountByUser(u) + Cardinality(Near(u)) <= MaxCodes + Cardinality(Workers) - 1
  BY DEF Issued
<1>4. CASE generated'[u] = generated[u]
  <2>1. Cardinality(Near(u)') <= Cardinality(Near(u))
    BY <1>1
  <2> QED BY <1>1, <1>2, <1>3, <1>4, <2>1, Numbers DEF CountByUser
<1>5. CASE generated'[u] = generated[u] + 1 /\ IsNear(r, u) /\ ~ IsNear(new, u)
  <2>1. Cardinality(Near(u)') = Cardinality(Near(u)) - 1
    BY <1>1, <1>5
  <2> QED BY <1>1, <1>2, <1>3, <1>5, <2>1, Numbers DEF CountByUser
<1> QED BY <1>4, <1>5

(* A step that makes no account with the global code.                      *)
LEMMA AccountsKept ==
    ASSUME InviteAssumption, Shape, Accounts, NEW w \in Workers, NEW r \in Records, r = req[w],
           NEW new \in Records, req' = [req EXCEPT ![w] = new],
           ViaGlobal' = ViaGlobal, ~ IsPend(new), ~ IsMade(new) \/ IsMade(r),
           used' \in Nat, lost' \in Nat, lost' >= lost,
           used' + lost' = used + lost + One(IsMade(r) /\ ~ IsMade(new))
    PROVE  Accounts'
<1>1. /\ Cardinality(Made') \in Nat /\ Cardinality(Made) \in Nat
      /\ Cardinality(Pend') \in Nat /\ Cardinality(Pend) \in Nat
      /\ Cardinality(Made') = Cardinality(Made) - One(IsMade(r)) + One(IsMade(new))
      /\ Cardinality(Pend') = Cardinality(Pend) - One(IsPend(r)) + One(IsPend(new))
  BY Moves, Finite
<1>2. Cardinality(Pend') <= Cardinality(Pend)
  BY <1>1
<1>3. Cardinality(Made') = Cardinality(Made) - One(IsMade(r) /\ ~ IsMade(new))
  BY <1>1
<1>4. One(IsMade(r) /\ ~ IsMade(new)) \in {0, 1} /\ used \in Nat /\ lost \in Nat
  BY DEF One, Shape
<1>5. PICK one \in {0, 1} : one = One(IsMade(r) /\ ~ IsMade(new))
  BY <1>4
<1>6. IsFiniteSet(ViaGlobal) /\ Cardinality(ViaGlobal) \in Nat
      /\ Cardinality(ViaGlobal) = used + lost + Cardinality(Made)
      /\ Cardinality(ViaGlobal) + Cardinality(Pend) <= MaxUses + Cardinality(Workers) - 1 + lost
  BY FS_CardinalityType DEF Accounts
<1>7. Cardinality(ViaGlobal) = used' + lost' + Cardinality(Made')
  BY <1>1, <1>3, <1>4, <1>5, <1>6
<1>8. Cardinality(ViaGlobal) + Cardinality(Pend') <= MaxUses + Cardinality(Workers) - 1 + lost'
  BY <1>1, <1>2, <1>4, <1>6, Numbers
<1> QED BY <1>6, <1>7, <1>8 DEF Accounts

-----------------------------------------------------------------------------
(* Requests that read.                                                     *)

LEMMA Here ==
    ASSUME IInv, NEW w \in Workers
    PROVE  req[w] \in Records /\ Good(req[w])
BY DEF IInv, Shape

LEMMA AnswerIs ==
    /\ NoRequest \in Records /\ NoRequest.pc = "idle"
    /\ Good(NoRequest)' /\ ~ Open(NoRequest) /\ ~ IsPend(NoRequest) /\ ~ IsMade(NoRequest)
    /\ \A u : ~ IsNear(NoRequest, u)
BY DEF NoRequest, Records, Good, Open, IsPend, IsMade, IsNear

(* The request is answered, and nothing has been written.                  *)
LEMMA AnswerKeeps ==
    ASSUME InviteAssumption, IInv, NEW w \in Workers, Answer(w), ~ Open(req[w]),
           UNCHANGED <<user, used, code, rewards, generated, lost>>,
           streak' \in [Users -> [count : 0 .. Milestone, last : {"today", "yesterday", "older"}]],
           rare' \in Nat
    PROVE  IInv'
<1>1. PICK r \in Records : r = req[w]
  BY Here
<1>2. req' = [req EXCEPT ![w] = NoRequest]
  BY DEF Answer
<1> QED BY <1>1, <1>2, AnswerIs, QuietKeeps

(* The request goes on.                                                    *)
LEMMA GoesOnKeeps ==
    ASSUME InviteAssumption, IInv, NEW w \in Workers, NEW r \in Records, r = req[w], Good(r),
           NEW pc \in {"create", "count", "generate"}, Goto(w, pc),
           UNCHANGED <<user, used, code, rewards, generated, lost, rare>>,
           streak' \in [Users -> [count : 0 .. Milestone, last : {"today", "yesterday", "older"}]],
           \/ pc = "create" /\ r.pc = "email"
           \/ pc = "count" /\ r.pc = "streak"
           \/ pc = "generate" /\ r.pc = "unused" /\ r.total < MaxCodes
    PROVE  IInv'
<1>1. PICK new : new = [r EXCEPT !.pc = pc]
  OBVIOUS
<1>2. req' = [req EXCEPT ![w] = new]
  BY <1>1 DEF Goto
<1>3. /\ new.pc = pc /\ new.code = r.code /\ new.user = r.user /\ new.email = r.email
      /\ new.total = r.total /\ new \in Records
  BY <1>1 DEF Records
<1>4. Good(new)'
  BY <1>3 DEF Good, Open, Committed
<1>5. /\ ~ Open(r) /\ ~ Open(new) /\ (IsPend(new) => IsPend(r))
      /\ \A u : IsNear(new, u) => IsNear(r, u)
  BY <1>3 DEF Open, IsPend, IsNear
<1>6. rare' \in Nat
  BY DEF IInv, Shape
<1> QED BY <1>2, <1>3, <1>4, <1>5, <1>6, QuietKeeps

LEMMA ReadsKeep ==
    ASSUME InviteAssumption, IInv, NEW w \in Workers,
           \/ Register(w) \/ CheckEmail(w) \/ Login(w) \/ UpdateLoginStreak(w)
           \/ CountTotal(w) \/ CountUnused(w) \/ LoginFails(w)
    PROVE  IInv'
<1>0. PICK r \in Records : r = req[w] /\ Good(r)
  BY Here
<1>00. Shape
  BY DEF IInv
<1>1. CASE Register(w)
  <2>1. PICK e \in Emails, c \in Codes \cup {Global} :
          /\ c = Global => used < MaxUses
          /\ req' = [req EXCEPT ![w] = [NoRequest EXCEPT !.pc = "email", !.email = e, !.code = c]]
    BY <1>1 DEF Register
  <2>2. PICK new : new = [NoRequest EXCEPT !.pc = "email", !.email = e, !.code = c]
    OBVIOUS
  <2>3. /\ new.pc = "email" /\ new.email = e /\ new.code = c /\ new.user = Nobody
        /\ new \in Records
    BY <2>2 DEF NoRequest, Records
  <2>4. Good(new)' /\ ~ Open(new) /\ (IsPend(new) => used < MaxUses) /\ \A u : ~ IsNear(new, u)
    BY <2>1, <2>3 DEF Good, Open, IsPend, IsNear
  <2>5. ~ Open(r)
    BY <1>0, <1>1, AnswerIs DEF Register
  <2> QED BY <1>0, <1>1, <1>00, <2>1, <2>2, <2>3, <2>4, <2>5, QuietKeeps DEF Register, Shape
<1>2. CASE CheckEmail(w)
  <2>1. ~ Open(req[w]) /\ r.pc = "email"
    BY <1>0, <1>2 DEF CheckEmail, Open
  <2>2. Answer(w) \/ Goto(w, "create")
    BY <1>2 DEF CheckEmail
  <2> QED BY <1>0, <1>2, <1>00, <2>1, <2>2, AnswerKeeps, GoesOnKeeps DEF CheckEmail, Shape
<1>3. CASE Login(w)
  <2>1. PICK u \in Users :
          /\ user[u].state = "active"
          /\ req' = [req EXCEPT ![w] = [NoRequest EXCEPT !.pc = "streak", !.user = u]]
    BY <1>3 DEF Login, GetUserByEmail
  <2>2. PICK new : new = [NoRequest EXCEPT !.pc = "streak", !.user = u]
    OBVIOUS
  <2>3. /\ new.pc = "streak" /\ new.user = u /\ new.code = Nobody /\ new \in Records
    BY <2>2 DEF NoRequest, Records
  <2>4. Good(new)' /\ ~ Open(new) /\ ~ IsPend(new) /\ \A v : ~ IsNear(new, v)
    BY <1>3, <2>1, <2>3 DEF Good, Open, IsPend, IsNear, Login, Committed
  <2>5. ~ Open(r)
    BY <1>0, <1>3, AnswerIs DEF Login
  <2> QED BY <1>0, <1>3, <1>00, <2>1, <2>2, <2>3, <2>4, <2>5, QuietKeeps DEF Login, Shape
<1>4. CASE UpdateLoginStreak(w)
  <2>1. r.user \in Users /\ r.pc = "streak" /\ ~ Open(req[w])
    BY <1>0, <1>4 DEF UpdateLoginStreak, Good, Open
  <2>2. PICK n : n = NextStreak(streak[r.user])
    OBVIOUS
  <2>3. n \in 0 .. Milestone
    <3>1. PICK s : s = streak[r.user]
      OBVIOUS
    <3>2. s.count \in 0 .. Milestone /\ Milestone \in Nat /\ Milestone >= 1
      BY <1>00, <2>1, <3>1 DEF Shape, InviteAssumption
    <3> QED BY <2>2, <3>1, <3>2 DEF NextStreak
  <2>4. streak' \in [Users -> [count : 0 .. Milestone, last : {"today", "yesterday", "older"}]]
    <3>1. streak' = streak \/ streak' = [streak EXCEPT ![r.user] = [count |-> n, last |-> "today"]]
      BY <1>0, <1>4, <2>2 DEF UpdateLoginStreak
    <3> QED BY <1>00, <2>1, <2>3, <3>1 DEF Shape
  <2>5. Answer(w) \/ Goto(w, "count")
    BY <1>4 DEF UpdateLoginStreak
  <2> QED BY <1>0, <1>4, <1>00, <2>1, <2>4, <2>5, AnswerKeeps, GoesOnKeeps DEF UpdateLoginStreak, Shape
<1>5. CASE CountTotal(w)
  <2>1. r.user \in Users /\ r.pc = "count" /\ Committed(r.user)
    BY <1>0, <1>5 DEF CountTotal, Good
  <2>2. PICK total : total = CountByUser(r.user)
    OBVIOUS
  <2>3. total \in Nat
    BY <1>00, <2>1, <2>2, Numbers, FS_EmptySet DEF CountByUser, Owned, Shape
  <2>4. PICK new : new = [r EXCEPT !.pc = "unused", !.total = total]
    OBVIOUS
  <2>5. /\ new.pc = "unused" /\ new.user = r.user /\ new.code = r.code /\ new.total = total
        /\ new \in Records
    BY <2>3, <2>4 DEF Records
  <2>6. req' = [req EXCEPT ![w] = new]
    BY <1>0, <1>5, <2>2, <2>4 DEF CountTotal
  <2>7. /\ Good(new)' /\ ~ Open(new) /\ ~ Open(r) /\ ~ IsPend(new)
        /\ \A u \in Users : IsNear(new, u) => CountByUser(u) < MaxCodes
    BY <1>5, <2>1, <2>2, <2>5 DEF Good, Open, IsPend, IsNear, CountTotal, Committed
  <2> QED BY <1>0, <1>5, <1>00, <2>5, <2>6, <2>7, QuietKeeps DEF CountTotal, Shape
<1>6. CASE CountUnused(w)
  <2>1. r.pc = "unused" /\ ~ Open(req[w])
    BY <1>0, <1>6 DEF CountUnused, Open
  <2>2. Answer(w) \/ (Goto(w, "generate") /\ r.total < MaxCodes)
    BY <1>0, <1>6 DEF CountUnused
  <2> QED BY <1>0, <1>6, <1>00, <2>1, <2>2, AnswerKeeps, GoesOnKeeps DEF CountUnused, Shape
<1>7. CASE LoginFails(w)
  <2>1. ~ Open(req[w]) /\ Answer(w)
    BY <1>7 DEF LoginFails, Open
  <2>2. rare' \in Nat
    BY <1>7, <1>00 DEF LoginFails, Rare, Shape
  <2> QED BY <1>7, <1>00, <2>1, <2>2, AnswerKeeps DEF LoginFails, Shape
<1> QED BY <1>1, <1>2, <1>3, <1>4, <1>5, <1>6, <1>7

-----------------------------------------------------------------------------
(* Registrations that write.                                               *)

(* A step that writes the row of one user u, whom no other registration    *)
(* writes, and no code that another registration has taken.                *)
LEMMA WritesLeave ==
    ASSUME IInv, NEW w \in Workers, NEW u,
           \A v \in Workers \ {w} : Open(req[v]) => req[v].user # u,
           \A x \in Users : x # u => user'[x] = user[x],
           u \in Users /\ Committed(u) => Committed(u)' /\ user'[u].via = user[u].via,
           u \in Users /\ user[u].state = "deleted" => user'[u].state = "deleted",
           \A c \in Codes : code[c].state = "taken" /\ code[c].by # u => code'[c] = code[c]
    PROVE  \A v \in Workers \ {w} : Leaves(req[v])
<1> TAKE v \in Workers \ {w}
<1>1. PICK r \in Records : r = req[v] /\ Good(r)
  BY Here
<1>3. Open(r) => r.user \in Users /\ r.user # u
  BY <1>1 DEF Good
<1>4. \A x \in Users : Committed(x) => Committed(x)' /\ user'[x].via = user[x].via
  <2> TAKE x \in Users
  <2>2. CASE x = u
    BY <2>2
  <2>3. CASE x # u
    BY <2>3 DEF Committed
  <2> QED BY <2>2, <2>3
<1>5. \A x \in Users : user[x].state = "deleted" => user'[x].state = "deleted"
  <2> TAKE x \in Users
  <2> QED BY x = u \/ user'[x] = user[x]
<1>6. Open(r) => user'[r.user] = user[r.user]
  BY <1>3
<1>7. r.pc = "commit" => code'[r.code] = code[r.code]
  <2> SUFFICES ASSUME r.pc = "commit" PROVE code'[r.code] = code[r.code]
    OBVIOUS
  <2>1. Open(r) /\ r.code \in Codes
    BY <1>1 DEF Good, Open
  <2>2. code[r.code].state = "taken" /\ code[r.code].by = r.user
    BY <1>1 DEF Good
  <2> QED BY <2>1, <2>2, <1>3
<1> QED BY <1>1, <1>4, <1>5, <1>6, <1>7 DEF Leaves

(* Codes and rewards stay, and no committed account comes or loses what a  *)
(* registration with a personal code left it.                              *)
LEMMA AtomicStays ==
    ASSUME PersonalAtomic, UNCHANGED rewards, Shape, Shape',
           \A c \in Codes : code'[c].state = "used" <=> code[c].state = "used",
           \A u \in Users : Committed(u)' /\ user'[u].via \in Codes
                              => Committed(u) /\ user'[u].via = user[u].via,
           \A u \in Users : Committed(u) /\ user[u].via \in Codes
                              => /\ Committed(u)' /\ user'[u].via = user[u].via
                                 /\ user[u].consent => user'[u].consent,
           \A u \in Users : generated'[u] >= generated[u], InitialCodes \in Nat
    PROVE  PersonalAtomic'
<1> SUFFICES ASSUME NEW c \in Codes
             PROVE  LET made == {u \in Users : Committed(u)' /\ user'[u].via = c} IN
                    IF code'[c].state = "used"
                    THEN \E u \in made : /\ made = {u} /\ user'[u].consent
                                         /\ rewards'[c] = {Inviter, u}
                                         /\ generated'[u] >= InitialCodes
                    ELSE made = {} /\ rewards'[c] = {}
  BY DEF PersonalAtomic
<1>1. PICK made : made = {u \in Users : Committed(u) /\ user[u].via = c}
  OBVIOUS
<1>2. {u \in Users : Committed(u)' /\ user'[u].via = c} = made
  BY <1>1
<1>3. CASE code[c].state = "used"
  <2>1. PICK u \in made : made = {u} /\ user[u].consent /\ rewards[c] = {Inviter, u}
                          /\ generated[u] >= InitialCodes
    BY <1>1, <1>3 DEF PersonalAtomic
  <2>2. u \in Users /\ user'[u].consent
    BY <1>1, <2>1
  <2>3. generated'[u] >= InitialCodes
    <3>1. generated[u] \in Nat /\ generated'[u] \in Nat /\ generated'[u] >= generated[u]
      BY <2>2 DEF Shape
    <3> QED BY <2>1, <3>1
  <2> QED BY <1>2, <1>3, <2>1, <2>2, <2>3
<1>4. CASE code[c].state # "used"
  <2>1. made = {} /\ rewards[c] = {}
    BY <1>1, <1>4 DEF PersonalAtomic
  <2> QED BY <1>2, <1>4, <2>1
<1> QED BY <1>3, <1>4

LEMMA CreateUserKeeps ==
    ASSUME InviteAssumption, IInv, NEW w \in Workers, CreateUser(w) PROVE IInv'
<1>1. PICK r \in Records : r = req[w] /\ Good(r)
  BY Here
<1>2. Shape /\ Distinct /\ Sound /\ PersonalAtomic /\ Accounts /\ Issued
      /\ \A v \in Workers : Good(req[v])
  BY DEF IInv
<1>3. /\ r.pc = "create" /\ ~ Open(r) /\ r.code \in Codes \cup {Global} /\ r.email \in Emails
      /\ UNCHANGED <<used, code, rewards, generated, streak, lost, rare>>
  BY <1>1 DEF CreateUser, Good, Open
<1>4. CASE Answer(w) /\ UNCHANGED user
  BY <1>1, <1>2, <1>3, <1>4, AnswerKeeps DEF Shape
<1>5. CASE /\ GetUserByEmail(r.email) = {} /\ Pending(r.email) = {}
           /\ \E u \in NextId :
                /\ user' = [user EXCEPT ![u] = NewUser(r)]
                /\ req' = [req EXCEPT ![w] = [@ EXCEPT !.pc = "consent", !.user = u]]
  <2>1. PICK u \in Users :
          /\ user[u] = NoUser
          /\ user' = [user EXCEPT ![u] = NewUser(r)]
          /\ req' = [req EXCEPT ![w] = [@ EXCEPT !.pc = "consent", !.user = u]]
    <3>1. \A u \in NextId : u \in Users /\ user[u] = NoUser
      BY DEF NextId
    <3> QED BY <1>5, <3>1
  <2>2. PICK new : new = [r EXCEPT !.pc = "consent", !.user = u]
    OBVIOUS
  <2>3. /\ new.pc = "consent" /\ new.user = u /\ new.code = r.code /\ new.total = r.total
        /\ new \in Records
    BY <2>2 DEF Records
  <2>4. req' = [req EXCEPT ![w] = new]
    BY <1>1, <1>2, <2>1, <2>2 DEF Shape
  <2>5. PICK row : row = NewUser(r)
    OBVIOUS
  <2>6. /\ row.via = r.code /\ row.email = r.email /\ row \in Rows
        /\ row.state = (IF r.code = Global THEN "active" ELSE "pending")
    BY <1>3, <2>5 DEF NewUser, Rows
  <2>7. \A x \in Users : user'[x] = IF x = u THEN row ELSE user[x]
    BY <1>2, <2>1, <2>5 DEF Shape
  <2>8. user[u].state = "none" /\ user[u].via = Nobody /\ ~ Committed(u) /\ u # Inviter
    BY <1>2, <2>1 DEF NoUser, Committed, Sound
  <2>9. Shape'
    <3>1. user' \in [Users -> Rows]
      BY <1>2, <2>1, <2>5, <2>6 DEF Shape
    <3> QED BY <1>1, <1>2, <1>3, <2>3, <2>4, <3>1, Moves DEF Shape
  <2>10. Good(new)'
    BY <1>3, <2>3, <2>6, <2>7, <2>8 DEF Good, Open, Committed
  <2>11. \A v \in Workers : Open(req[v]) => req[v].user # u
    BY <1>2, <2>8 DEF Good, Committed
  <2>12. \A v \in Workers \ {w} : Leaves(req[v])
    BY <1>3, <2>7, <2>8, <2>11, <1>2 DEF Leaves, Committed, Good
  <2>13. \A v \in Workers : Good(req[v])'
    BY <1>2, <2>3, <2>4, <2>10, <2>12, OthersGood
  <2>14. Distinct'
    <3>1. \A v \in Workers : req'[v] = IF v = w THEN new ELSE req[v]
      BY <1>2, <2>4 DEF Shape
    <3> QED BY <1>2, <2>3, <2>11, <3>1 DEF Distinct
  <2>15. Sound'
    <3>1. \A x \in Users : x # u /\ user[x].state \in {"pending", "active"} => user[x].email # r.email
      BY <1>5 DEF GetUserByEmail, Pending
    <3>2. Committed(Inviter)'
      BY <1>2, <2>7, <2>8 DEF Sound, Committed, InviteAssumption
    <3>3. \A x \in Users : user'[x].state = "none" => user'[x] = NoUser
      BY <1>2, <2>6, <2>7 DEF Sound
    <3>4. \A x \in Users : ~ Committed(x)' => generated'[x] = 0
      BY <1>2, <1>3, <2>7, <2>8 DEF Sound, Committed
    <3>5. \A x, y \in Users :
             x # y /\ user'[x].state \in {"pending", "active"} /\ user'[y].state \in {"pending", "active"}
               => user'[x].email # user'[y].email
      BY <1>2, <2>6, <2>7, <3>1 DEF Sound
    <3> QED BY <3>2, <3>3, <3>4, <3>5 DEF Sound
  <2>16. PersonalAtomic'
    <3>1. \A x \in Users : Committed(x)' /\ user'[x].via \in Codes
                             => Committed(x) /\ user'[x].via = user[x].via
      BY <2>6, <2>7 DEF Committed, InviteAssumption
    <3>2. \A x \in Users : Committed(x) /\ user[x].via \in Codes
                             => Committed(x)' /\ user'[x].via = user[x].via
                                /\ (user[x].consent => user'[x].consent)
      BY <2>7, <2>8 DEF Committed
    <3>3. \A x \in Users : generated'[x] >= generated[x]
      BY <1>2, <1>3 DEF Shape
    <3> QED BY <1>2, <1>3, <2>9, <3>1, <3>2, <3>3, Numbers, AtomicStays
  <2>17. Issued'
    <3>1. \A x : ~ IsNear(new, x)
      BY <2>3 DEF IsNear
    <3> QED BY <1>1, <1>2, <1>3, <2>3, <2>4, <3>1, IssuedKept
  <2>18. Accounts'
    <3>1. CASE r.code = Global
      <4>1. ViaGlobal' = ViaGlobal \cup {u} /\ u \notin ViaGlobal
        BY <2>6, <2>7, <2>8, <3>1 DEF ViaGlobal, InviteAssumption
      <4>2. IsFiniteSet(ViaGlobal) /\ Cardinality(ViaGlobal) \in Nat /\ IsFiniteSet(ViaGlobal')
            /\ Cardinality(ViaGlobal') = Cardinality(ViaGlobal) + 1
        BY <1>2, <4>1, FS_AddElement, FS_CardinalityType DEF Accounts
      <4>3. IsPend(r) /\ ~ IsMade(r) /\ ~ IsPend(new) /\ IsMade(new)
        BY <1>3, <2>3, <3>1 DEF IsPend, IsMade
      <4>4. /\ Cardinality(Made) \in Nat /\ Cardinality(Pend) \in Nat
            /\ Cardinality(Made') = Cardinality(Made) + 1
            /\ Cardinality(Pend') = Cardinality(Pend) - 1
        <5>1. /\ Cardinality(Made') = Cardinality(Made) - One(IsMade(r)) + One(IsMade(new))
              /\ Cardinality(Pend') = Cardinality(Pend) - One(IsPend(r)) + One(IsPend(new))
          BY <1>1, <1>2, <2>3, <2>4, Moves
        <5> QED BY <4>3, <5>1, Finite
      <4>5. /\ Cardinality(ViaGlobal) = used + lost + Cardinality(Made)
            /\ Cardinality(ViaGlobal) + Cardinality(Pend) <= MaxUses + Cardinality(Workers) - 1 + lost
            /\ used \in Nat /\ lost \in Nat /\ used' = used /\ lost' = lost
        BY <1>2, <1>3 DEF Accounts, Shape
      <4>6. /\ Cardinality(ViaGlobal') = used' + lost' + Cardinality(Made')
            /\ Cardinality(ViaGlobal') + Cardinality(Pend')
                 <= MaxUses + Cardinality(Workers) - 1 + lost'
        BY <4>2, <4>4, <4>5, Numbers
      <4> QED BY <4>2, <4>6 DEF Accounts
    <3>2. CASE r.code # Global
      <4>1. ViaGlobal' = ViaGlobal
        BY <2>6, <2>7, <2>8, <3>2 DEF ViaGlobal, InviteAssumption
      <4>2. ~ IsPend(new) /\ ~ IsMade(new) /\ ~ IsMade(r)
        BY <2>3, <3>2 DEF IsPend, IsMade
      <4>3. /\ used' \in Nat /\ lost' \in Nat /\ lost' >= lost
            /\ used' + lost' = used + lost + One(IsMade(r) /\ ~ IsMade(new))
        BY <1>2, <1>3, <4>2 DEF Shape
      <4> QED BY <1>1, <1>2, <2>3, <2>4, <4>1, <4>2, <4>3, AccountsKept
    <3> QED BY <3>1, <3>2
  <2> QED BY <2>9, <2>13, <2>14, <2>15, <2>16, <2>17, <2>18 DEF IInv
<1>6. CreateUser(w) => (Answer(w) /\ UNCHANGED user)
        \/ (/\ GetUserByEmail(r.email) = {} /\ Pending(r.email) = {}
            /\ \E u \in NextId :
                /\ user' = [user EXCEPT ![u] = NewUser(r)]
                /\ req' = [req EXCEPT ![w] = [@ EXCEPT !.pc = "consent", !.user = u]])
  BY <1>1 DEF CreateUser
<1> QED BY <1>4, <1>5, <1>6

(* What is left to show of a step that makes no account and promises       *)
(* nobody a code.                                                          *)
LEMMA StepKeeps ==
    ASSUME InviteAssumption, IInv, NEW w \in Workers, NEW r \in Records, r = req[w],
           NEW new \in Records, req' = [req EXCEPT ![w] = new],
           Shape', Good(new)', \A v \in Workers \ {w} : Leaves(req[v]),
           Open(new) => Open(r) /\ new.user = r.user,
           Sound', PersonalAtomic',
           ViaGlobal' = ViaGlobal, ~ IsPend(new), ~ IsMade(new) \/ IsMade(r), lost' >= lost,
           used' + lost' = used + lost + One(IsMade(r) /\ ~ IsMade(new)),
           \A u \in Users : IsNear(new, u) => IsNear(r, u),
           \A u \in Users : \/ generated'[u] = generated[u]
                            \/ generated'[u] = generated[u] + 1 /\ IsNear(r, u) /\ ~ IsNear(new, u)
    PROVE  IInv'
<1>1. Shape /\ Distinct /\ Accounts /\ Issued /\ \A v \in Workers : Good(req[v])
  BY DEF IInv
<1>2. used' \in Nat /\ lost' \in Nat
  BY DEF Shape
<1>3. (\A v \in Workers : Good(req[v])') /\ Distinct'
  BY <1>1, OthersGood, DistinctKept
<1>4. Accounts'
  BY <1>1, <1>2, AccountsKept
<1>5. Issued'
  BY <1>1, IssuedKept
<1> QED BY <1>3, <1>4, <1>5 DEF IInv

LEMMA MarkDisclaimerAcceptedKeeps ==
    ASSUME InviteAssumption, IInv, NEW w \in Workers, MarkDisclaimerAccepted(w) PROVE IInv'
<1>1. PICK r \in Records : r = req[w] /\ Good(r)
  BY Here
<1>2. Shape /\ Distinct /\ Sound /\ PersonalAtomic
  BY DEF IInv
<1>3. /\ r.pc = "consent" /\ Open(r) /\ r.user \in Users \ {Inviter}
      /\ r.code \in Codes \cup {Global} /\ user[r.user].via = r.code
      /\ UNCHANGED <<used, code, rewards, generated, streak, lost, rare>>
  BY <1>1 DEF MarkDisclaimerAccepted, Good, Open
<1>4. PICK u \in Users \ {Inviter} : u = r.user
  BY <1>3
<1>5. PICK pc : pc = IF r.code = Global THEN "increment" ELSE "consume"
  OBVIOUS
<1>6. PICK new : new = [r EXCEPT !.pc = pc]
  OBVIOUS
<1>7. /\ new.pc = pc /\ new.code = r.code /\ new.user = u /\ new \in Records
      /\ req' = [req EXCEPT ![w] = new]
  BY <1>1, <1>4, <1>5, <1>6 DEF Records, MarkDisclaimerAccepted, Goto
<1>8. user' = [user EXCEPT ![u].consent = TRUE]
  BY <1>1, <1>4 DEF MarkDisclaimerAccepted
<1>9. /\ \A x \in Users : x # u => user'[x] = user[x]
      /\ user'[u].state = user[u].state /\ user'[u].email = user[u].email
      /\ user'[u].via = user[u].via /\ user'[u].consent = TRUE /\ user'[u] \in Rows
  BY <1>2, <1>8 DEF Shape, Rows
<1>10. Shape'
  <2>1. user' \in [Users -> Rows]
    BY <1>2, <1>8, <1>9 DEF Shape
  <2>2. req' \in [Workers -> Records]
    BY <1>2, <1>7 DEF Shape
  <2> QED BY <1>2, <1>3, <2>1, <2>2 DEF Shape
<1>11. \A x \in Users : Committed(x)' <=> Committed(x)
  BY <1>9 DEF Committed
<1>12. Good(new)'
  BY <1>1, <1>3, <1>4, <1>5, <1>7, <1>9 DEF Good, Open, Committed
<1>13. \A v \in Workers \ {w} : Leaves(req[v])
  <2>1. \A v \in Workers \ {w} : Open(req[v]) => req[v].user # u
    BY <1>1, <1>2, <1>3, <1>4 DEF Distinct
  <2> QED BY <1>3, <1>9, <1>11, <2>1, WritesLeave
<1>14. user[u].state # "none"
  BY <1>1, <1>3, <1>4 DEF Good, Committed
<1>15. Sound'
  <2>1. \A x \in Users : user'[x].state = user[x].state /\ user'[x].email = user[x].email
    BY <1>9
  <2>2. Inviter \in Users
    BY DEF InviteAssumption
  <2>3. \A x \in Users : user'[x].state = "none" => user'[x] = NoUser
    BY <1>2, <1>9, <1>14 DEF Sound
  <2> QED BY <1>2, <1>3, <1>11, <2>1, <2>2, <2>3 DEF Sound
<1>16. PersonalAtomic'
  <2>1. \A x \in Users : user'[x].via = user[x].via /\ (user[x].consent => user'[x].consent)
    BY <1>9
  <2>2. \A x \in Users : generated'[x] >= generated[x]
    BY <1>2, <1>3 DEF Shape
  <2> QED BY <1>2, <1>3, <1>10, <1>11, <2>1, <2>2, Numbers, AtomicStays
<1>17. ViaGlobal' = ViaGlobal
  BY <1>9 DEF ViaGlobal
<1>18. /\ ~ IsPend(new) /\ (IsMade(new) <=> IsMade(r)) /\ \A x : ~ IsNear(new, x)
  BY <1>3, <1>5, <1>7 DEF IsPend, IsMade, IsNear
<1>19. lost' >= lost /\ used' + lost' = used + lost + One(IsMade(r) /\ ~ IsMade(new))
  BY <1>2, <1>3, <1>18 DEF Shape
<1> QED BY <1>1, <1>3, <1>4, <1>7, <1>10, <1>12, <1>13, <1>15, <1>16, <1>17, <1>18, <1>19, StepKeeps

LEMMA IncrementInviteCodeUsageKeeps ==
    ASSUME InviteAssumption, IInv, NEW w \in Workers, IncrementInviteCodeUsage(w) PROVE IInv'
<1>1. PICK r \in Records : r = req[w] /\ Good(r)
  BY Here
<1>2. Shape /\ Sound /\ PersonalAtomic
  BY DEF IInv
<1>3. /\ r.pc = "increment" /\ r.code = Global /\ used' = used + 1
      /\ req' = [req EXCEPT ![w] = NoRequest]
      /\ UNCHANGED <<user, code, rewards, generated, streak, lost, rare>> /\ Tables
  BY <1>1 DEF IncrementInviteCodeUsage, Good, Answer, Tables
<1>4. Shape'
  <2>1. req' \in [Workers -> Records] /\ used' \in Nat
    BY <1>2, <1>3, AnswerIs DEF Shape
  <2> QED BY <1>2, <1>3, <2>1 DEF Shape
<1>5. Sound' /\ PersonalAtomic' /\ \A v \in Workers : Leaves(req[v])
  BY <1>2, <1>3, TablesLeave, SoundKept, AtomicKept
<1>6. ViaGlobal' = ViaGlobal
  BY <1>3 DEF ViaGlobal
<1>7. lost' >= lost /\ used' + lost' = used + lost + One(IsMade(r) /\ ~ IsMade(NoRequest))
  <2>1. IsMade(r)
    BY <1>3 DEF IsMade
  <2> QED BY <1>2, <1>3, <2>1, AnswerIs DEF Shape
<1> QED BY <1>1, <1>3, <1>4, <1>5, <1>6, <1>7, AnswerIs, StepKeeps

(* A registration whose code is free takes it.                             *)
LEMMA TakesCodeKeeps ==
    ASSUME InviteAssumption, IInv, NEW w \in Workers, NEW r \in Records, r = req[w], Good(r),
           r.pc = "consume", code[r.code].state = "free",
           code' = [code EXCEPT ![r.code] = [state |-> "taken", by |-> r.user]],
           Goto(w, "commit"), UNCHANGED <<user, used, rewards, generated, streak, lost, rare>>
    PROVE  IInv'
<1>1. Shape /\ Distinct /\ Sound /\ PersonalAtomic
  BY DEF IInv
<1>2. Open(r) /\ r.user \in Users /\ r.code \in Codes /\ r.code # Global
  BY DEF Good, Open
<1>3. PICK new : new = [r EXCEPT !.pc = "commit"]
  OBVIOUS
<1>4. /\ new.pc = "commit" /\ new.code = r.code /\ new.user = r.user /\ new \in Records
      /\ req' = [req EXCEPT ![w] = new]
  BY <1>3 DEF Records, Goto
<1>5. \A c \in Codes : code'[c] = IF c = r.code THEN [state |-> "taken", by |-> r.user] ELSE code[c]
  BY <1>1 DEF Shape
<1>6. Shape'
  <2>1. [state |-> "taken", by |-> r.user] \in CodeRows
    BY <1>2 DEF CodeRows
  <2>2. code' \in [Codes -> CodeRows]
    BY <1>1, <2>1 DEF Shape
  <2>3. req' \in [Workers -> Records]
    BY <1>1, <1>4 DEF Shape
  <2> QED BY <1>1, <2>2, <2>3 DEF Shape
<1>7. Good(new)'
  BY <1>2, <1>4, <1>5 DEF Good, Open, Committed
<1>8. \A v \in Workers \ {w} : Leaves(req[v])
  <2>1. \A v \in Workers \ {w} : Open(req[v]) => req[v].user # r.user
    BY <1>1, <1>2 DEF Distinct
  <2>2. \A c \in Codes : code[c].state = "taken" => code'[c] = code[c]
    BY <1>5
  <2>3. \A x \in Users : Committed(x)' <=> Committed(x)
    BY DEF Committed
  <2> QED BY <2>1, <2>2, <2>3, WritesLeave
<1>9. Sound'
  BY <1>1 DEF Sound, Committed
<1>10. PersonalAtomic'
  <2>1. \A c \in Codes : code'[c].state = "used" <=> code[c].state = "used"
    BY <1>5
  <2>2. \A x \in Users : generated'[x] >= generated[x]
    BY <1>1 DEF Shape
  <2>3. \A x \in Users : Committed(x)' <=> Committed(x)
    BY DEF Committed
  <2> QED BY <1>1, <1>6, <2>1, <2>2, <2>3, Numbers, AtomicStays
<1>11. ViaGlobal' = ViaGlobal
  BY DEF ViaGlobal
<1>12. ~ IsPend(new) /\ ~ IsMade(new) /\ ~ IsMade(r) /\ \A x : ~ IsNear(new, x)
  BY <1>2, <1>4 DEF IsPend, IsMade, IsNear
<1>13. lost' >= lost /\ used' + lost' = used + lost + One(IsMade(r) /\ ~ IsMade(new))
  BY <1>1, <1>12 DEF Shape
<1> QED BY <1>2, <1>4, <1>6, <1>7, <1>8, <1>9, <1>10, <1>11, <1>12, <1>13, StepKeeps

(* A registration that fails gives up what its transaction has written;    *)
(* one with the global code keeps its account and is lost to the count.    *)
LEMMA RollbackKeeps ==
    ASSUME InviteAssumption, IInv, NEW w \in Workers, NEW r \in Records, r = req[w], Good(r),
           r.pc \in {"email", "create", "consent", "increment", "consume", "commit"},
           lost' = (IF r.code = Global /\ r.pc \in {"consent", "increment"}
                    THEN lost + 1 ELSE lost),
           Rollback(w), rare' \in Nat
    PROVE  IInv'
<1>1. Shape /\ Distinct /\ Sound /\ PersonalAtomic /\ \A v \in Workers : Good(req[v])
  BY DEF IInv
<1>2. PICK u : u = r.user
  OBVIOUS
<1>3. /\ req' = [req EXCEPT ![w] = NoRequest]
      /\ UNCHANGED <<used, rewards, generated, streak>>
      /\ \A x \in Users : user'[x] = IF x = u /\ user[x].state = "pending" THEN NoUser ELSE user[x]
      /\ \A c \in Codes : code'[c] = IF code[c].state = "taken" /\ code[c].by = u
                                     THEN [state |-> "free", by |-> Nobody] ELSE code[c]
  BY <1>2 DEF Rollback, Answer
<1>4. Shape'
  <2>1. NoUser \in Rows /\ [state |-> "free", by |-> Nobody] \in CodeRows
    BY DEF NoUser, Rows, CodeRows
  <2>2. user' \in [Users -> Rows] /\ code' \in [Codes -> CodeRows]
    BY <1>1, <2>1 DEF Shape, Rollback
  <2>3. req' \in [Workers -> Records] /\ lost' \in Nat
    BY <1>1, <1>3, AnswerIs DEF Shape
  <2> QED BY <1>1, <1>3, <2>2, <2>3 DEF Shape
<1>5. NoUser.state = "none" /\ NoUser.via = Nobody /\ Nobody # Global /\ Nobody \notin Codes
      /\ Nobody \notin Users /\ Inviter \in Users
  BY DEF NoUser, InviteAssumption
<1>6. \A x \in Users : /\ Committed(x) => user'[x] = user[x]
                       /\ Committed(x)' <=> Committed(x)
  BY <1>3, <1>5 DEF Committed
<1>7. \A v \in Workers \ {w} : Open(req[v]) => req[v].user # u
  <2> TAKE v \in Workers \ {w}
  <2>1. CASE Open(r)
    BY <1>1, <1>2, <2>1 DEF Distinct
  <2>2. CASE ~ Open(r)
    <3>1. u = Nobody
      BY <1>2, <2>2 DEF Good, Open
    <3> QED BY <1>1, <1>5, <3>1 DEF Good
  <2> QED BY <2>1, <2>2
<1>8. \A v \in Workers \ {w} : Leaves(req[v])
  <2>1. \A x \in Users : x # u => user'[x] = user[x]
    BY <1>3
  <2>2. u \in Users /\ Committed(u) => Committed(u)' /\ user'[u].via = user[u].via
    BY <1>6
  <2>3. u \in Users /\ user[u].state = "deleted" => user'[u].state = "deleted"
    BY <1>6 DEF Committed
  <2>4. \A c \in Codes : code[c].state = "taken" /\ code[c].by # u => code'[c] = code[c]
    BY <1>3
  <2> QED BY <1>7, <2>1, <2>2, <2>3, <2>4, WritesLeave
<1>9. Sound'
  <2>1. \A x \in Users : user'[x] = user[x] \/ (user'[x] = NoUser /\ ~ Committed(x))
    BY <1>3 DEF Committed
  <2>2. \A x \in Users : user'[x].state = "none" => user'[x] = NoUser
    BY <1>1, <2>1 DEF Sound
  <2>3. \A x, y \in Users :
           x # y /\ user'[x].state \in {"pending", "active"} /\ user'[y].state \in {"pending", "active"}
             => user'[x].email # user'[y].email
    BY <1>1, <1>5, <2>1 DEF Sound
  <2>4. Committed(Inviter)' /\ \A x \in Users : ~ Committed(x)' => generated'[x] = 0
    BY <1>1, <1>3, <1>5, <1>6 DEF Sound
  <2> QED BY <2>2, <2>3, <2>4 DEF Sound
<1>10. PersonalAtomic'
  <2>1. \A c \in Codes : code'[c].state = "used" <=> code[c].state = "used"
    BY <1>3
  <2>2. \A x \in Users : generated'[x] >= generated[x]
    BY <1>1, <1>3 DEF Shape
  <2> QED BY <1>1, <1>3, <1>4, <1>6, <2>1, <2>2, Numbers, AtomicStays
<1>11. ViaGlobal' = ViaGlobal
  <2>1. \A x \in Users : user'[x].via = Global <=> user[x].via = Global
    <3> TAKE x \in Users
    <3>1. CASE x = u /\ user[x].state = "pending"
      <4>1. Open(r) /\ ~ Committed(u)
        BY <1>2, <1>5, <3>1 DEF Good, Open, Committed
      <4>2. user[u].via # Global
        BY <1>2, <4>1 DEF Good
      <4> QED BY <1>3, <1>5, <3>1, <4>2
    <3>2. CASE ~ (x = u /\ user[x].state = "pending")
      BY <1>3, <3>2
    <3> QED BY <3>1, <3>2
  <2> QED BY <2>1 DEF ViaGlobal
<1>12. lost' >= lost /\ used' + lost' = used + lost + One(IsMade(r) /\ ~ IsMade(NoRequest))
  <2>1. IsMade(r) <=> r.code = Global /\ r.pc \in {"consent", "increment"}
    BY DEF IsMade
  <2>2. used \in Nat /\ lost \in Nat /\ used' = used
    BY <1>1, <1>3 DEF Shape
  <2>3. CASE IsMade(r)
    <3>1. One(IsMade(r) /\ ~ IsMade(NoRequest)) = 1 /\ lost' = lost + 1
      BY <2>1, <2>3, AnswerIs
    <3> QED BY <2>2, <3>1
  <2>4. CASE ~ IsMade(r)
    <3>1. One(IsMade(r) /\ ~ IsMade(NoRequest)) = 0 /\ lost' = lost
      BY <2>1, <2>4
    <3> QED BY <2>2, <3>1
  <2> QED BY <2>3, <2>4
<1> QED BY <1>3, <1>4, <1>8, <1>9, <1>10, <1>11, <1>12, AnswerIs, StepKeeps

LEMMA FailuresKeep ==
    ASSUME InviteAssumption, IInv, NEW w \in Workers, ConsumeCode(w) \/ RegistrationFails(w)
    PROVE  IInv'
<1>1. PICK r \in Records : r = req[w] /\ Good(r)
  BY Here
<1>2. Shape
  BY DEF IInv
<1>3. CASE ConsumeCode(w)
  <2>1. r.pc = "consume" /\ r.code # Global /\ rare' \in Nat /\ lost' = lost
    BY <1>1, <1>2, <1>3 DEF ConsumeCode, Good, Shape
  <2>2. CASE Rollback(w)
    BY <1>1, <2>1, <2>2, RollbackKeeps
  <2>3. CASE /\ code[r.code].state = "free"
             /\ code' = [code EXCEPT ![r.code] = [state |-> "taken", by |-> r.user]]
             /\ Goto(w, "commit") /\ UNCHANGED <<user, used, rewards, generated, streak>>
    BY <1>1, <1>3, <2>1, <2>3, TakesCodeKeeps DEF ConsumeCode
  <2> QED BY <1>1, <1>3, <2>2, <2>3 DEF ConsumeCode
<1>4. CASE RegistrationFails(w)
  <2>1. /\ r.pc \in {"email", "create", "consent", "increment", "consume", "commit"}
        /\ lost' = (IF r.code = Global /\ r.pc \in {"consent", "increment"}
                    THEN lost + 1 ELSE lost)
        /\ Rollback(w)
    BY <1>1, <1>4 DEF RegistrationFails
  <2>2. rare' \in Nat
    BY <1>2, <1>4 DEF RegistrationFails, Rare, Shape
  <2> QED BY <1>1, <2>1, <2>2, RollbackKeeps
<1> QED BY <1>3, <1>4

(* The commit: what it makes visible is all that PersonalAtomic asks for,  *)
(* and nobody was near a code for a user who was not there.                *)
LEMMA CommitKeeps ==
    ASSUME InviteAssumption, IInv, NEW w \in Workers, Commit(w) PROVE IInv'
<1>1. PICK r \in Records : r = req[w] /\ Good(r)
  BY Here
<1>2. Shape /\ Distinct /\ Sound /\ PersonalAtomic /\ Accounts /\ Issued
      /\ \A v \in Workers : Good(req[v])
  BY DEF IInv
<1>3. /\ r.pc = "commit" /\ Open(r) /\ r.user \in Users \ {Inviter} /\ r.code \in Codes
      /\ r.code # Global /\ user[r.user].via = r.code /\ user[r.user].state = "pending"
      /\ user[r.user].consent /\ code[r.code].state = "taken" /\ code[r.code].by = r.user
  BY <1>1 DEF Commit, Good, Open
<1>4. PICK u \in Users \ {Inviter}, c \in Codes : u = r.user /\ c = r.code
  BY <1>3
<1>5. /\ user' = [user EXCEPT ![u].state = "active"]
      /\ code' = [code EXCEPT ![c].state = "used"]
      /\ rewards' = [rewards EXCEPT ![c] = @ \cup {Inviter, u}]
      /\ generated' = [generated EXCEPT ![u] = @ + InitialCodes]
      /\ req' = [req EXCEPT ![w] = NoRequest]
      /\ UNCHANGED <<used, streak, lost, rare>>
  BY <1>1, <1>4 DEF Commit, Answer
<1>6. /\ \A x \in Users : x # u => user'[x] = user[x] /\ generated'[x] = generated[x]
      /\ user'[u].state = "active" /\ user'[u].email = user[u].email
      /\ user'[u].via = c /\ user'[u].consent /\ user'[u] \in Rows
  BY <1>2, <1>3, <1>4, <1>5 DEF Shape, Rows
<1>7. generated[u] = 0 /\ generated'[u] = InitialCodes /\ ~ Committed(u) /\ Committed(u)'
  <2>1. generated[u] = 0
    BY <1>2, <1>3, <1>4 DEF Sound, Committed
  <2> QED BY <1>2, <1>3, <1>4, <1>5, <1>6, <2>1, Numbers DEF Shape, Committed
<1>8. /\ \A d \in Codes : d # c => code'[d] = code[d] /\ rewards'[d] = rewards[d]
      /\ code'[c].state = "used" /\ code'[c] \in CodeRows
      /\ rewards'[c] = rewards[c] \cup {Inviter, u}
  BY <1>2, <1>5 DEF Shape, CodeRows
<1>9. Shape'
  <2>1. user' \in [Users -> Rows] /\ code' \in [Codes -> CodeRows]
    BY <1>2, <1>5, <1>6, <1>8 DEF Shape
  <2>2. generated' \in [Users -> Nat]
    BY <1>2, <1>5, <1>7, Numbers DEF Shape
  <2>3. rewards' \in [Codes -> SUBSET Users]
    <3>1. Inviter \in Users
      BY DEF InviteAssumption
    <3> QED BY <1>2, <1>5, <3>1 DEF Shape
  <2>4. req' \in [Workers -> Records]
    BY <1>2, <1>5, AnswerIs DEF Shape
  <2> QED BY <1>2, <1>5, <2>1, <2>2, <2>3, <2>4 DEF Shape
<1>10. \A x \in Users : Committed(x)' <=> Committed(x) \/ x = u
  BY <1>6, <1>7 DEF Committed
<1>11. (\A v \in Workers : Good(req[v])') /\ Distinct'
  <2>1. \A v \in Workers \ {w} : Open(req[v]) => req[v].user # u
    BY <1>1, <1>2, <1>3, <1>4 DEF Distinct
  <2>2. \A d \in Codes : code[d].state = "taken" /\ code[d].by # u => code'[d] = code[d]
    BY <1>3, <1>4, <1>8
  <2>3. u \in Users /\ user[u].state = "deleted" => user'[u].state = "deleted"
    BY <1>3, <1>4
  <2>4. \A v \in Workers \ {w} : Leaves(req[v])
    BY <1>6, <1>7, <2>1, <2>2, <2>3, WritesLeave
  <2> QED BY <1>2, <1>5, <2>4, AnswerIs, OthersGood, DistinctKept
<1>12. Sound'
  <2>1. Committed(Inviter)'
    BY <1>2, <1>10 DEF Sound, InviteAssumption
  <2>2. \A x \in Users : user'[x].state = "none" => user'[x] = NoUser
    BY <1>2, <1>6 DEF Sound
  <2>3. \A x \in Users : ~ Committed(x)' => generated'[x] = 0
    BY <1>2, <1>6, <1>10 DEF Sound
  <2>4. \A x \in Users : /\ user'[x].email = user[x].email
                         /\ user'[x].state \in {"pending", "active"}
                              => user[x].state \in {"pending", "active"}
    BY <1>3, <1>4, <1>6
  <2>5. \A x, y \in Users :
           x # y /\ user'[x].state \in {"pending", "active"} /\ user'[y].state \in {"pending", "active"}
             => user'[x].email # user'[y].email
    BY <1>2, <2>4 DEF Sound
  <2> QED BY <2>1, <2>2, <2>3, <2>5 DEF Sound
<1>13. PersonalAtomic'
  <2> SUFFICES ASSUME NEW d \in Codes
               PROVE  LET made == {x \in Users : Committed(x)' /\ user'[x].via = d} IN
                      IF code'[d].state = "used"
                      THEN \E x \in made : /\ made = {x} /\ user'[x].consent
                                           /\ rewards'[d] = {Inviter, x}
                                           /\ generated'[x] >= InitialCodes
                      ELSE made = {} /\ rewards'[d] = {}
    BY DEF PersonalAtomic
  <2>1. PICK old : old = {x \in Users : Committed(x) /\ user[x].via = d}
    OBVIOUS
  <2>2. PICK made : made = {x \in Users : Committed(x)' /\ user'[x].via = d}
    OBVIOUS
  <2>3. CASE d = c
    <3>1. old = {} /\ rewards[c] = {}
      BY <1>2, <1>3, <1>4, <2>1, <2>3 DEF PersonalAtomic
    <3>2. made = {u}
      BY <1>4, <1>6, <1>7, <1>10, <2>1, <2>2, <2>3, <3>1
    <3>3. rewards'[d] = {Inviter, u} /\ generated'[u] >= InitialCodes /\ code'[d].state = "used"
      BY <1>7, <1>8, <2>3, <3>1, Numbers
    <3> QED BY <1>6, <2>2, <3>2, <3>3
  <2>4. CASE d # c
    <3>1. made = old
      BY <1>3, <1>4, <1>6, <1>10, <2>1, <2>2, <2>4
    <3>2. code'[d] = code[d] /\ rewards'[d] = rewards[d]
      BY <1>8, <2>4
    <3>3. CASE code[d].state = "used"
      <4>1. PICK x \in old : old = {x} /\ user[x].consent /\ rewards[d] = {Inviter, x}
                             /\ generated[x] >= InitialCodes
        BY <1>2, <2>1, <3>3 DEF PersonalAtomic
      <4>2. x \in Users /\ x # u
        BY <1>7, <2>1, <4>1
      <4>3. user'[x] = user[x] /\ generated'[x] = generated[x]
        BY <1>6, <4>2
      <4> QED BY <2>2, <3>1, <3>2, <3>3, <4>1, <4>3
    <3>4. CASE code[d].state # "used"
      <4>1. old = {} /\ rewards[d] = {}
        BY <1>2, <2>1, <3>4 DEF PersonalAtomic
      <4> QED BY <2>2, <3>1, <3>2, <3>4, <4>1
    <3> QED BY <3>3, <3>4
  <2> QED BY <2>3, <2>4
<1>14. Accounts'
  <2>1. ViaGlobal' = ViaGlobal
    BY <1>3, <1>4, <1>6 DEF ViaGlobal
  <2>2. ~ IsMade(r)
    BY <1>3 DEF IsMade
  <2>3. used' \in Nat /\ lost' \in Nat /\ lost' >= lost
        /\ used' + lost' = used + lost + One(IsMade(r) /\ ~ IsMade(NoRequest))
    BY <1>2, <1>5, <2>2 DEF Shape
  <2> QED BY <1>1, <1>2, <1>5, <2>1, <2>3, AnswerIs, AccountsKept
<1>15. Issued'
  <2> SUFFICES ASSUME NEW x \in Users
               PROVE  CountByUser(x)' + Cardinality(Near(x)') <= MaxCodes + Cardinality(Workers) - 1
    BY DEF Issued
  <2>1. /\ Cardinality(Near(x)') \in Nat /\ Cardinality(Near(x)) \in Nat
        /\ Cardinality(Near(x)') = Cardinality(Near(x)) - One(IsNear(r, x)) + One(IsNear(NoRequest, x))
    BY <1>1, <1>2, <1>5, AnswerIs, Moves, Finite
  <2>2. ~ IsNear(r, x) /\ ~ IsNear(NoRequest, x)
    BY <1>3, AnswerIs DEF IsNear
  <2>3. Cardinality(Near(x)') = Cardinality(Near(x))
    BY <2>1, <2>2
  <2>4. Owned(x)' = Owned(x)
    BY DEF Owned
  <2>5. CASE x = u
    <3>1. Near(u) = {}
      <4>1. \A v \in Workers : ~ IsNear(req[v], u)
        BY <1>2, <1>7 DEF Good, IsNear
      <4> QED BY <4>1 DEF Near
    <3>2. Cardinality(Near(x)') = 0 /\ Cardinality(Owned(x)) = 0
      BY <2>3, <2>5, <3>1, FS_EmptySet DEF Owned
    <3> QED BY <1>7, <2>4, <2>5, <3>2, Numbers DEF CountByUser
  <2>6. CASE x # u
    <3>1. CountByUser(x)' = CountByUser(x)
      BY <1>6, <2>4, <2>6 DEF CountByUser
    <3> QED BY <1>2, <2>3, <3>1 DEF Issued
  <2> QED BY <2>5, <2>6
<1> QED BY <1>9, <1>11, <1>12, <1>13, <1>14, <1>15 DEF IInv

LEMMA CreateOneCodeKeeps ==
    ASSUME InviteAssumption, IInv, NEW w \in Workers, CreateOneCode(w) PROVE IInv'
<1>1. PICK r \in Records : r = req[w] /\ Good(r)
  BY Here
<1>2. Shape /\ Sound /\ PersonalAtomic
  BY DEF IInv
<1>3. /\ r.pc = "generate" /\ ~ Open(r) /\ r.user \in Users /\ Committed(r.user)
      /\ generated' = [generated EXCEPT ![r.user] = @ + 1]
      /\ req' = [req EXCEPT ![w] = NoRequest]
      /\ UNCHANGED <<user, used, code, rewards, streak, lost, rare>>
  BY <1>1 DEF CreateOneCode, Good, Open, Answer
<1>4. Shape'
  <2>1. generated' \in [Users -> Nat] /\ req' \in [Workers -> Records]
    BY <1>2, <1>3, AnswerIs DEF Shape
  <2> QED BY <1>2, <1>3, <2>1 DEF Shape
<1>5. \A x \in Users : \/ generated'[x] = generated[x]
                       \/ x = r.user /\ generated'[x] = generated[x] + 1
  BY <1>2, <1>3 DEF Shape
<1>6. \A x \in Users : Committed(x)' <=> Committed(x)
  BY <1>3 DEF Committed
<1>7. \A v \in Workers \ {w} : Leaves(req[v])
  BY <1>3, <1>6 DEF Leaves
<1>8. Sound'
  <2>1. \A x \in Users : ~ Committed(x)' => generated'[x] = 0
    BY <1>2, <1>3, <1>5, <1>6 DEF Sound
  <2>2. Committed(Inviter)'
    BY <1>2, <1>3 DEF Sound, Committed
  <2> QED BY <1>2, <1>3, <2>1, <2>2 DEF Sound
<1>9. PersonalAtomic'
  <2>1. \A x \in Users : generated'[x] >= generated[x]
    BY <1>2, <1>5 DEF Shape
  <2> QED BY <1>2, <1>3, <1>4, <1>6, <2>1, Numbers, AtomicStays
<1>10. ViaGlobal' = ViaGlobal
  BY <1>3 DEF ViaGlobal
<1>11. ~ IsMade(r) /\ IsNear(r, r.user)
  BY <1>3 DEF IsMade, IsNear
<1>12. lost' >= lost /\ used' + lost' = used + lost + One(IsMade(r) /\ ~ IsMade(NoRequest))
  BY <1>2, <1>3, <1>11 DEF Shape
<1> QED BY <1>1, <1>3, <1>4, <1>5, <1>7, <1>8, <1>9, <1>10, <1>11, <1>12, AnswerIs, StepKeeps

LEMMA SoftDeleteUserKeeps ==
    ASSUME InviteAssumption, IInv, NEW w \in Workers, SoftDeleteUser(w) PROVE IInv'
<1>1. PICK r \in Records : r = req[w] /\ Good(r)
  BY Here
<1>2. Shape /\ Sound /\ PersonalAtomic /\ \A v \in Workers : Good(req[v])
  BY DEF IInv
<1>3. PICK u \in Users \ {Inviter} :
        /\ user[u].state = "active"
        /\ user' = [user EXCEPT ![u].state = "deleted"]
        /\ req' = [req EXCEPT ![w] = [NoRequest EXCEPT !.pc = "clear", !.user = u]]
  BY DEF SoftDeleteUser
<1>4. /\ r = NoRequest /\ rare' \in Nat
      /\ UNCHANGED <<used, code, rewards, generated, streak, lost>>
  BY <1>1, <1>2 DEF SoftDeleteUser, Rare, Shape
<1>5. PICK new : new = [NoRequest EXCEPT !.pc = "clear", !.user = u]
  OBVIOUS
<1>6. /\ new.pc = "clear" /\ new.user = u /\ new.code = Nobody /\ new \in Records
      /\ req' = [req EXCEPT ![w] = new]
  BY <1>3, <1>5 DEF NoRequest, Records
<1>7. /\ \A x \in Users : x # u => user'[x] = user[x]
      /\ user'[u].state = "deleted" /\ user'[u].email = user[u].email
      /\ user'[u].via = user[u].via /\ user'[u].consent = user[u].consent /\ user'[u] \in Rows
  BY <1>2, <1>3 DEF Shape, Rows
<1>8. Shape'
  <2>1. user' \in [Users -> Rows] /\ req' \in [Workers -> Records]
    BY <1>2, <1>3, <1>6, <1>7 DEF Shape
  <2> QED BY <1>2, <1>4, <2>1 DEF Shape
<1>9. \A x \in Users : Committed(x)' <=> Committed(x)
  BY <1>3, <1>7 DEF Committed
<1>10. Good(new)' /\ ~ Open(new) /\ ~ IsPend(new) /\ ~ IsMade(new) /\ \A x : ~ IsNear(new, x)
  BY <1>6, <1>7 DEF Good, Open, IsPend, IsMade, IsNear
<1>11. \A v \in Workers \ {w} : Leaves(req[v])
  <2> TAKE v \in Workers \ {w}
  <2>1. Open(req[v]) /\ req[v].code # Global => user'[req[v].user] = user[req[v].user]
    BY <1>2, <1>3, <1>7 DEF Good
  <2>2. \A x \in Users : user[x].state = "deleted" => user'[x].state = "deleted"
    BY <1>7
  <2>3. \A x \in Users : user'[x].via = user[x].via
    BY <1>7
  <2> QED BY <1>4, <1>9, <2>1, <2>2, <2>3 DEF Leaves
<1>12. Sound'
  <2>1. Committed(Inviter)'
    BY <1>2, <1>9 DEF Sound, InviteAssumption
  <2>2. \A x \in Users : user'[x].state = "none" => user'[x] = NoUser
    BY <1>2, <1>7 DEF Sound
  <2>3. \A x \in Users : ~ Committed(x)' => generated'[x] = 0
    BY <1>2, <1>4, <1>9 DEF Sound
  <2>4. \A x \in Users : user'[x].state \in {"pending", "active"} => user'[x] = user[x]
    BY <1>7
  <2>5. \A x, y \in Users :
           x # y /\ user'[x].state \in {"pending", "active"} /\ user'[y].state \in {"pending", "active"}
             => user'[x].email # user'[y].email
    BY <1>2, <2>4 DEF Sound
  <2> QED BY <2>1, <2>2, <2>3, <2>5 DEF Sound
<1>13. PersonalAtomic'
  <2>1. \A x \in Users : user'[x].via = user[x].via /\ (user[x].consent => user'[x].consent)
    BY <1>7
  <2>2. \A x \in Users : generated'[x] >= generated[x]
    BY <1>2, <1>4 DEF Shape
  <2> QED BY <1>2, <1>4, <1>8, <1>9, <2>1, <2>2, Numbers, AtomicStays
<1>14. ViaGlobal' = ViaGlobal
  BY <1>7 DEF ViaGlobal
<1>15. ~ IsMade(r)
  BY <1>4, AnswerIs
<1>16. lost' >= lost /\ used' + lost' = used + lost + One(IsMade(r) /\ ~ IsMade(new))
  BY <1>2, <1>4, <1>15 DEF Shape
<1> QED BY <1>1, <1>4, <1>6, <1>8, <1>10, <1>11, <1>12, <1>13, <1>14, <1>16, StepKeeps

LEMMA ClearUsedByForUserKeeps ==
    ASSUME InviteAssumption, IInv, NEW w \in Workers, ClearUsedByForUser(w) PROVE IInv'
<1>1. PICK r \in Records : r = req[w] /\ Good(r)
  BY Here
<1>2. Shape /\ Sound /\ PersonalAtomic /\ \A v \in Workers : Good(req[v])
  BY DEF IInv
<1>3. /\ r.pc = "clear" /\ ~ Open(r) /\ r.user \in Users /\ user[r.user].state = "deleted"
      /\ req' = [req EXCEPT ![w] = NoRequest] /\ rare' \in Nat
      /\ UNCHANGED <<user, used, rewards, generated, streak, lost>>
  BY <1>1, <1>2 DEF ClearUsedByForUser, Good, Open, Answer, Rare, Shape
<1>4. /\ code' \in [Codes -> CodeRows]
      /\ \A c \in Codes : /\ code'[c].state = code[c].state
                          /\ code[c].by # r.user => code'[c] = code[c]
  <2>1. CASE UNCHANGED code
    BY <1>2, <2>1 DEF Shape
  <2>2. CASE code' = [c \in Codes |-> IF code[c].by = r.user
                                     THEN [code[c] EXCEPT !.by = Nobody] ELSE code[c]]
    <3>1. \A c \in Codes : /\ [code[c] EXCEPT !.by = Nobody] \in CodeRows
                           /\ [code[c] EXCEPT !.by = Nobody].state = code[c].state
      BY <1>2 DEF Shape, CodeRows
    <3> QED BY <1>2, <2>2, <3>1 DEF Shape
  <2> QED BY <1>1, <2>1, <2>2 DEF ClearUsedByForUser
<1>5. Shape'
  <2>1. req' \in [Workers -> Records]
    BY <1>2, <1>3, AnswerIs DEF Shape
  <2> QED BY <1>2, <1>3, <1>4, <2>1 DEF Shape
<1>6. \A x \in Users : Committed(x)' <=> Committed(x)
  BY <1>3 DEF Committed
<1>7. \A v \in Workers \ {w} : Leaves(req[v])
  <2> TAKE v \in Workers \ {w}
  <2>0. PICK q \in Records : q = req[v] /\ Good(q)
    BY Here
  <2>1. q.pc = "commit" => code'[q.code] = code[q.code]
    <3> SUFFICES ASSUME q.pc = "commit" PROVE code'[q.code] = code[q.code]
      OBVIOUS
    <3>1. q.code \in Codes /\ user[q.user].state = "pending" /\ code[q.code].by = q.user
      BY <2>0 DEF Good, Open
    <3> QED BY <1>3, <1>4, <3>1
  <2> QED BY <1>3, <1>6, <2>0, <2>1 DEF Leaves
<1>8. Sound'
  BY <1>2, <1>3 DEF Sound, Committed
<1>9. PersonalAtomic'
  <2>1. \A x \in Users : generated'[x] >= generated[x]
    BY <1>2, <1>3 DEF Shape
  <2>2. \A c \in Codes : code'[c].state = "used" <=> code[c].state = "used"
    BY <1>4
  <2>3. Shape /\ PersonalAtomic /\ UNCHANGED <<user, rewards>>
    BY <1>2, <1>3
  <2> QED BY <1>5, <1>6, <2>1, <2>2, <2>3, Numbers, AtomicStays
<1>10. ViaGlobal' = ViaGlobal
  BY <1>3 DEF ViaGlobal
<1>11. ~ IsMade(r)
  BY <1>3 DEF IsMade
<1>12. lost' >= lost /\ used' + lost' = used + lost + One(IsMade(r) /\ ~ IsMade(NoRequest))
  BY <1>2, <1>3, <1>11 DEF Shape
<1> QED BY <1>1, <1>3, <1>5, <1>7, <1>8, <1>9, <1>10, <1>12, AnswerIs, StepKeeps

LEMMA NextDayKeeps == ASSUME IInv, NextDay PROVE IInv'
<1>1. UNCHANGED <<user, used, code, rewards, generated, req, lost>>
  BY DEF NextDay
<1>2. Shape'
  <2>1. rare' \in Nat
    BY DEF NextDay, Rare, IInv, Shape
  <2>2. streak' \in [Users -> [count : 0 .. Milestone, last : {"today", "yesterday", "older"}]]
    BY DEF NextDay, IInv, Shape
  <2> QED BY <1>1, <2>1, <2>2 DEF IInv, Shape
<1>3. (\A w \in Workers : Good(req[w])') /\ Distinct'
  BY <1>1 DEF IInv, Good, Open, Committed, Distinct
<1>4. Sound' /\ PersonalAtomic'
  BY <1>1, SoundKept, AtomicKept DEF IInv, Tables
<1>5. Accounts'
  BY <1>1 DEF IInv, Accounts, ViaGlobal, Made, Pend
<1>6. Issued'
  BY <1>1 DEF IInv, Issued, CountByUser, Owned, Near
<1> QED BY <1>2, <1>3, <1>4, <1>5, <1>6 DEF IInv

LEMMA InvNext == ASSUME InviteAssumption, IInv, [Next]_vars PROVE IInv'
<1>1. ASSUME NEW w \in Workers,
             \/ Register(w) \/ CheckEmail(w) \/ Login(w) \/ UpdateLoginStreak(w)
             \/ CountTotal(w) \/ CountUnused(w) \/ LoginFails(w)
      PROVE  IInv'
  BY <1>1, ReadsKeep
<1>2. ASSUME NEW w \in Workers, CreateUser(w) PROVE IInv'
  BY <1>2, CreateUserKeeps
<1>3. ASSUME NEW w \in Workers, MarkDisclaimerAccepted(w) PROVE IInv'
  BY <1>3, MarkDisclaimerAcceptedKeeps
<1>4. ASSUME NEW w \in Workers, IncrementInviteCodeUsage(w) PROVE IInv'
  BY <1>4, IncrementInviteCodeUsageKeeps
<1>5. ASSUME NEW w \in Workers, ConsumeCode(w) \/ RegistrationFails(w) PROVE IInv'
  BY <1>5, FailuresKeep
<1>6. ASSUME NEW w \in Workers, Commit(w) PROVE IInv'
  BY <1>6, CommitKeeps
<1>7. ASSUME NEW w \in Workers, CreateOneCode(w) PROVE IInv'
  BY <1>7, CreateOneCodeKeeps
<1>8. ASSUME NEW w \in Workers, SoftDeleteUser(w) PROVE IInv'
  BY <1>8, SoftDeleteUserKeeps
<1>9. ASSUME NEW w \in Workers, ClearUsedByForUser(w) PROVE IInv'
  BY <1>9, ClearUsedByForUserKeeps
<1>10. CASE NextDay
  BY <1>10, NextDayKeeps
<1>11. CASE UNCHANGED vars
  <2>1. UNCHANGED <<user, used, code, rewards, generated, streak, req, lost, rare>>
    BY <1>11 DEF vars
  <2>2. Shape' /\ (\A w \in Workers : Good(req[w])') /\ Distinct'
    BY <2>1 DEF IInv, Shape, Good, Open, Committed, Distinct
  <2>3. Sound' /\ PersonalAtomic'
    BY <2>1, SoundKept, AtomicKept DEF IInv, Tables
  <2>4. Accounts' /\ Issued'
    BY <2>1 DEF IInv, Accounts, ViaGlobal, Made, Pend, Issued, CountByUser, Owned, Near
  <2> QED BY <2>2, <2>3, <2>4 DEF IInv
<1> QED BY <1>1, <1>2, <1>3, <1>4, <1>5, <1>6, <1>7, <1>8, <1>9, <1>10, <1>11 DEF Next

-----------------------------------------------------------------------------
(* Every request finds the tables as its own earlier statements left them, *)
(* and both limits keep a place for each request that has passed its test. *)
THEOREM Inductive == InviteAssumption => (Spec => []IInv)
<1> SUFFICES ASSUME InviteAssumption PROVE Spec => []IInv
  OBVIOUS
<1>1. Init => IInv
  BY InvInit
<1>2. IInv /\ [Next]_vars => IInv'
  BY InvNext
<1> QED BY <1>1, <1>2, PTL DEF Spec

(* What the invariant says to a reader.                                    *)
LEMMA OneAccountIs == ASSUME IInv PROVE OneAccountPerEmail
<1> SUFFICES ASSUME NEW e \in Emails PROVE Cardinality(GetUserByEmail(e)) <= 1
  BY DEF OneAccountPerEmail
<1>1. \A u, v \in GetUserByEmail(e) : u = v
  BY DEF IInv, Sound, GetUserByEmail
<1>2. CASE GetUserByEmail(e) = {}
  BY <1>2, FS_EmptySet
<1>3. CASE GetUserByEmail(e) # {}
  <2>1. PICK u \in GetUserByEmail(e) : GetUserByEmail(e) = {u}
    BY <1>1, <1>3
  <2>2. Cardinality({u}) = 1
    BY FS_Singleton
  <2> QED BY <2>1, <2>2
<1> QED BY <1>2, <1>3

LEMMA CodeLimitsAre == ASSUME InviteAssumption, IInv PROVE CodeLimits
<1>1. GlobalBound
  <2>1. /\ Cardinality(ViaGlobal) \in Nat /\ Cardinality(Pend) \in Nat /\ lost \in Nat
        /\ Cardinality(ViaGlobal) + Cardinality(Pend) <= MaxUses + Cardinality(Workers) - 1 + lost
    BY Finite, FS_CardinalityType DEF IInv, Accounts, Shape
  <2> QED BY <2>1, Numbers DEF GlobalBound
<1>2. CodesBound
  <2> SUFFICES ASSUME NEW u \in Users PROVE CountByUser(u) <= MaxCodes + Cardinality(Workers) - 1
    BY DEF CodesBound
  <2>1. CountByUser(u) \in Nat
    BY Numbers, FS_EmptySet DEF CountByUser, Owned, IInv, Shape
  <2>2. Cardinality(Near(u)) \in Nat
        /\ CountByUser(u) + Cardinality(Near(u)) <= MaxCodes + Cardinality(Workers) - 1
    BY Finite DEF IInv, Issued
  <2> QED BY <2>1, <2>2, Numbers
<1> QED BY <1>1, <1>2 DEF CodeLimits

(* All variables keep their types.                                         *)
THEOREM TypesKept == InviteAssumption => (Spec => []TypeOK)
<1>1. IInv => TypeOK
  BY TypesAre DEF IInv
<1> QED BY <1>1, Inductive, PTL

(* Whatever fails and whoever else registers, a personal code leaves an    *)
(* account with everything that belongs to it, or nothing.                 *)
THEOREM AllOrNothing == InviteAssumption => (Spec => []PersonalAtomic)
<1>1. IInv => PersonalAtomic
  BY DEF IInv
<1> QED BY <1>1, Inductive, PTL

(* An address has one account, though it is looked up long before it is    *)
(* written and half of the registrations are not in a transaction.         *)
THEOREM OneAccount == InviteAssumption => (Spec => []OneAccountPerEmail)
<1>1. IInv => OneAccountPerEmail
  BY OneAccountIs
<1> QED BY <1>1, Inductive, PTL

(* How far the two limits, read in one statement and used in another, can  *)
(* be exceeded.                                                            *)
THEOREM LimitsHold == InviteAssumption => (Spec => []CodeLimits)
<1> SUFFICES ASSUME InviteAssumption PROVE Spec => []CodeLimits
  OBVIOUS
<1>1. IInv => CodeLimits
  BY CodeLimitsAre
<1> QED BY <1>1, Inductive, PTL
=============================================================================
