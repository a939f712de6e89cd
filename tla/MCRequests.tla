----------------------------- MODULE MCRequests -----------------------------
(* Small instances of the eight kinds of requests.                         *)
EXTENDS Requests, TLC

CONSTANTS u1, u2, u3, e1, e2

(* One code of the inviter, one use of the global code, a milestone every  *)
(* day: each limit can be exceeded by the second request.                  *)
MCUsers == {Inviter, u1, u2, u3}
MCEmails == {InviterEmail, e1, e2}

Buy(p, q)  == [buy |-> TRUE, price |-> p, quantity |-> q]
Sell(p, q) == [buy |-> FALSE, price |-> p, quantity |-> q]

(* Two prices, a sale that may leave a part of the purchase, and a         *)
(* purchase of less than nothing, with which the total can be zero.        *)
MCTradeInputs == {Buy(1, 1), Buy(3, 2), Buy(2, -1), Sell(3, 1)}
MCPositions == {[cost |-> [n |-> 2, d |-> 1], quantity |-> 1]}

(* Time enough for an entry to expire and be filled again; the rates have  *)
(* two sources.                                                            *)
MCTTL == [quote |-> 2, ohlcv |-> 1, label |-> 2, rates |-> 2]
MCSources == [quote |-> 1, ohlcv |-> 1, label |-> 1, rates |-> 2]

(* Two windows' time, and a reading of the clock that may be one behind.   *)
MCLimits == [auth |-> 2, v2 |-> 3, analysis |-> 1, screenshot |-> 2]

(* Any answer beyond a quarter counts as that quarter.                     *)
MCAnswers == {-100, 0, 60}

Symmetry == Permutations(Workers) \cup Permutations({e1, e2})
=============================================================================
