------------------------------ MODULE Portfolio ------------------------------
(***************************************************************************)
(* The holdings of one user and their trades: portfolio.Service over       *)
(* rm_holdings and rm_trades.  A worker serves one request at a time and   *)
(* one action is one statement of the database; nothing runs in a          *)
(* transaction.  A request that finds no such holding answers 404 and      *)
(* changes nothing: it is left out.                                        *)
(*                                                                         *)
(* Money is exact: a cost is a fraction n / d, where the code keeps        *)
(* sixteen decimals.  The list of trades is in the order of their dates,   *)
(* which the user chooses; no two dates are equal.                         *)
(***************************************************************************)
EXTENDS Integers, FiniteSets, SequencesExt

CONSTANTS
    Workers,      \* requests served at once
    Holdings,     \* holding ids
    TradeInputs,  \* the trades the user enters: any price and any quantity,
                  \* for the handler only asks that they be there
    Positions,    \* the positions the user enters by hand: a cost and a quantity
    MaxHoldings,  \* maxHoldingsPerUser: 5
    NoHolding,    \* no holding
    MaxTrades,    \* bound: trades, of all holdings together
    MaxFaults     \* bound: failed statements

Costs == [n : Int, d : Nat \ {0}]

PortfolioAssumption ==
    /\ IsFiniteSet(Workers) /\ Workers # {}
    /\ IsFiniteSet(Holdings) /\ NoHolding \notin Holdings
    /\ TradeInputs \subseteq [buy : BOOLEAN, price : Int, quantity : Int]
    /\ Positions \subseteq [cost : Costs, quantity : Int]
    /\ MaxHoldings \in Nat \ {0} /\ MaxTrades \in Nat /\ MaxFaults \in Nat

VARIABLES
    holding,  \* rm_holdings
    trades,   \* rm_trades, per holding
    req,      \* worker -> the request it serves
    calm,     \* holding -> nothing disturbed its last trade (history)
    faults

vars == <<holding, trades, req, calm, faults>>

Zero == [cost |-> [n |-> 0, d |-> 1], quantity |-> 0]
NoRequest == [pc |-> "idle", holding |-> NoHolding, trade |-> <<>>, position |-> Zero]

Same(p, q) == p.cost.n * q.cost.d = q.cost.n * p.cost.d /\ p.quantity = q.quantity

Init ==
    /\ holding = [h \in Holdings |-> [state |-> "none", position |-> Zero]]
    /\ trades = [h \in Holdings |-> <<>>]
    /\ req = [w \in Workers |-> NoRequest]
    /\ calm = [h \in Holdings |-> FALSE]
    /\ faults = 0

Active == {h \in Holdings : holding[h].state = "active"}
Entered == SumFunction([h \in Holdings |-> Len(trades[h])])
             + Cardinality({w \in Workers : req[w].pc = "insert"})
Answer(w) == req' = [req EXCEPT ![w] = NoRequest]

-----------------------------------------------------------------------------
(* The average cost after a purchase.                                      *)
Average(p, t) ==
    [n |-> p.cost.n * p.quantity + t.price * t.quantity * p.cost.d,
     d |-> p.cost.d * (p.quantity + t.quantity)]

\* Mutant: the division is not guarded.
Apply_Unguarded(p, t) ==
    IF t.buy
    THEN [cost |-> Average(p, t), quantity |-> p.quantity + t.quantity]
    ELSE [p EXCEPT !.quantity = IF @ < t.quantity THEN 0 ELSE @ - t.quantity]

(* One trade: a purchase moves the cost while something is held, a sale    *)
(* only the quantity, which no sale makes negative.                        *)
Apply(p, t) ==
    IF t.buy
    THEN [cost |-> IF p.quantity + t.quantity > 0 THEN Average(p, t) ELSE p.cost,
          quantity |-> p.quantity + t.quantity]
    ELSE [p EXCEPT !.quantity = IF @ < t.quantity THEN 0 ELSE @ - t.quantity]

(* One trade after the other.                                              *)
RecalculateCost(p, list) ==
    LET after[i \in 0 .. Len(list)] == IF i = 0 THEN p ELSE Apply(after[i - 1], list[i])
    IN  after[Len(list)]

-----------------------------------------------------------------------------
(* POST /holdings: the holdings are counted, ...                           *)
CountHoldings(w) ==
    /\ req[w] = NoRequest /\ Cardinality(Active) < MaxHoldings
    /\ req' = [req EXCEPT ![w].pc = "create"]
    /\ UNCHANGED <<holding, trades, calm, faults>>

(* The next number of the sequence: it does not matter which.              *)
NextId ==
    LET unused == {h \in Holdings : holding[h].state = "none"}
    IN  IF unused = {} THEN {} ELSE {CHOOSE h \in unused : TRUE}

(* ... and then one is inserted.                                           *)
CreateHolding(w) ==
    /\ req[w].pc = "create"
    /\ \E h \in NextId, p \in Positions :
         holding' = [holding EXCEPT ![h] = [state |-> "active", position |-> p]]
    /\ Answer(w)
    /\ UNCHANGED <<trades, calm, faults>>

(* PATCH, DELETE and POST trades read the holding first.                   *)
GetHolding(w) ==
    /\ req[w] = NoRequest
    /\ \E h \in Active :
         \/ \E p \in Positions :
              req' = [req EXCEPT ![w] = [@ EXCEPT !.pc = "patch", !.holding = h, !.position = p]]
         \/ req' = [req EXCEPT ![w] = [@ EXCEPT !.pc = "delete", !.holding = h]]
         \/ /\ Entered < MaxTrades
            /\ \E t \in TradeInputs :
                 req' = [req EXCEPT ![w] = [@ EXCEPT !.pc = "insert", !.holding = h, !.trade = <<t>>]]
    /\ UNCHANGED <<holding, trades, calm, faults>>

(* UPDATE of the fields that are given, the others keep their value; it    *)
(* matches no row when the holding has been deleted since, and the handler *)
(* then fails on the missing answer.                                       *)
UpdateHolding(w) ==
    LET h == req[w].holding IN
    /\ req[w].pc = "patch"
    /\ \/ h \in Active /\ \E fields \in (SUBSET {"cost", "quantity"}) :
            holding' = [holding EXCEPT ![h].position =
                          [f \in DOMAIN @ |-> IF f \in fields THEN req[w].position[f] ELSE @[f]]]
       \/ h \notin Active /\ UNCHANGED holding
    /\ calm' = [calm EXCEPT ![h] = FALSE]
    /\ Answer(w)
    /\ UNCHANGED <<trades, faults>>

SoftDeleteHolding(w) ==
    /\ req[w].pc = "delete"
    /\ holding' = [holding EXCEPT ![req[w].holding].state = "deleted"]
    /\ Answer(w)
    /\ UNCHANGED <<trades, calm, faults>>

(* A request that has stored a trade and not yet the new figures.          *)
Open(w, h) == req[w].holding = h /\ req[w].pc \in {"list", "update"}

(* INSERT of the trade, among the others by its date.                      *)
CreateTrade(w) ==
    LET h == req[w].holding IN
    /\ req[w].pc = "insert"
    /\ \E i \in 1 .. Len(trades[h]) + 1 :
         trades' = [trades EXCEPT ![h] = InsertAt(@, i, req[w].trade[1])]
    /\ req' = [req EXCEPT ![w].pc = "list"]
    /\ calm' = [calm EXCEPT ![h] = \A v \in Workers : ~ Open(v, h)]
    /\ UNCHANGED <<holding, faults>>

\* Mutant: the recalculation starts from the stored figures.
ListTrades_FromStored(w) ==
    LET h == req[w].holding IN
    /\ req[w].pc = "list"
    /\ req' = [req EXCEPT ![w] = [@ EXCEPT
                 !.pc = "update", !.position = RecalculateCost(holding[h].position, trades[h])]]
    /\ UNCHANGED <<holding, trades, calm, faults>>

Recalculated(w, list) ==
    req' = [req EXCEPT ![w] = [@ EXCEPT
              !.pc = "update", !.position = RecalculateCost(Zero, list)]]

(* All trades are read, and the figures computed from nothing else.        *)
ListTrades(w) ==
    /\ req[w].pc = "list"
    /\ Recalculated(w, trades[req[w].holding])
    /\ UNCHANGED <<holding, trades, calm, faults>>

(* The connection is lost between two rows: nobody asks for the error, so  *)
(* the first trades count as all of them, and the request will succeed.    *)
ListBreaksOff(w) ==
    LET h == req[w].holding IN
    /\ req[w].pc = "list" /\ faults < MaxFaults /\ faults' = faults + 1
    /\ \E n \in 0 .. Len(trades[h]) - 1 : Recalculated(w, SubSeq(trades[h], 1, n))
    /\ calm' = [calm EXCEPT ![h] = FALSE]
    /\ UNCHANGED <<holding, trades>>

UpdateHoldingCost(w) ==
    LET h == req[w].holding IN
    /\ req[w].pc = "update"
    /\ holding' = IF h \in Active THEN [holding EXCEPT ![h].position = req[w].position]
                  ELSE holding
    /\ Answer(w)
    /\ UNCHANGED <<trades, calm, faults>>

(* A statement fails; what the request has written stays.                  *)
StatementFails(w) ==
    LET h == req[w].holding IN
    /\ req[w].pc # "idle" /\ faults < MaxFaults /\ faults' = faults + 1
    /\ calm' = IF h \in Holdings THEN [calm EXCEPT ![h] = @ /\ ~ Open(w, h)] ELSE calm
    /\ Answer(w)
    /\ UNCHANGED <<holding, trades>>

Next ==
    \E w \in Workers :
        \/ CountHoldings(w) \/ CreateHolding(w) \/ GetHolding(w)
        \/ UpdateHolding(w) \/ SoftDeleteHolding(w)
        \/ CreateTrade(w) \/ ListTrades(w) \/ UpdateHoldingCost(w)
        \/ ListBreaksOff(w) \/ StatementFails(w)

Spec == Init /\ [][Next]_vars

-----------------------------------------------------------------------------
TypeOK ==
    /\ holding \in [Holdings -> [state : {"none", "active", "deleted"},
                                 position : [cost : Costs, quantity : Int]]]
    /\ trades \in [Holdings -> Seq(TradeInputs)]
    /\ req \in [Workers -> [pc : {"idle", "create", "patch", "delete", "insert", "list", "update"},
                            holding : Holdings \cup {NoHolding}, trade : Seq(TradeInputs),
                            position : [cost : Costs, quantity : Int]]]
    /\ calm \in [Holdings -> BOOLEAN]
    /\ faults \in 0 .. MaxFaults

(* Counting and inserting are two statements: the limit can be exceeded by *)
(* one for each of the other requests at the same time, and by no more.    *)
HoldingsBound == Cardinality(Active) <= MaxHoldings + Cardinality(Workers) - 1

(* Requests that overlap, fail half way or read a list that is cut short   *)
(* can leave figures that miss a trade; the next trade that none of this   *)
(* happens to repairs them, whatever happened before, whatever the signs   *)
(* of its figures, and wherever among the others its date puts it.         *)
SelfHealing ==
    \A h \in Active :
        calm[h] /\ (\A w \in Workers : ~ Open(w, h))
          => Same(holding[h].position, RecalculateCost(Zero, trades[h]))

(* Nothing makes a user enter such trades only.                            *)
Regular(t) == IF t.buy THEN t.quantity > 0 ELSE t.quantity >= 0

(* Where all purchases are of a positive and no sale of a negative         *)
(* quantity, the average cost lies between the lowest and the highest      *)
(* price paid, however purchases and sales are mixed and whatever is sold  *)
(* beyond what is there.                                                   *)
CostWithinPrices ==
    \A h \in Holdings :
        LET c == RecalculateCost(Zero, trades[h]).cost
            paid == {t.price : t \in {u \in ToSet(trades[h]) : u.buy}}
        IN  (\A t \in ToSet(trades[h]) : Regular(t)) =>
              IF paid = {} THEN c.n = 0
              ELSE (\E p \in paid : p * c.d <= c.n) /\ (\E p \in paid : c.n <= p * c.d)
=============================================================================
