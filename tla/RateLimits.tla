------------------------------- MODULE RateLimits -------------------------------
(***************************************************************************)
(* The limiters that live in the memory of the server: five registrations  *)
(* or logins a minute and address, the version 2 requests of an address,   *)
(* one manual analysis per user and window (PerUserRateLimit), and the     *)
(* uploads of screenshots per user and hour.  Here is one of them, for one *)
(* user or address.  A hit is named by its number among those ever let     *)
(* through.                                                                *)
(*                                                                         *)
(* The first two read the clock while they hold the mutex, the other two   *)
(* before they take it, so that a request may enter with a reading that is *)
(* older than one already recorded.  PerUserRateLimit keeps the last hit   *)
(* only, which is a window with a limit of one.                            *)
(***************************************************************************)
EXTENDS Integers, Sequences, FiniteSets

CONSTANTS
    Requests,  \* requests served at once
    Limits,    \* per limiter: how many are let through in a window
    Window,    \* its length
    MaxLag,    \* the longest time between reading the clock and taking the mutex
    MaxTime    \* bound: the last moment

Limiters == {"auth", "v2", "analysis", "screenshot"}
ReadsUnlocked == {"analysis", "screenshot"}

LimitsAssumption ==
    /\ Limits \in [Limiters -> Nat] /\ Limits["analysis"] = 1
    /\ Window \in Nat /\ MaxLag \in Nat /\ MaxTime \in Nat

VARIABLES
    now,
    limiter,   \* the limiter of this behaviour
    passed,    \* the clock reading of every request let through, in their order (history)
    stamps,    \* the hits it has recorded and not evicted
    req        \* request -> where it is, and its reading of the clock

vars == <<now, limiter, passed, stamps, req>>

Moments == 0 .. MaxTime
Arriving == [pc |-> "arriving", clock |-> 0]

Init ==
    /\ now = 0
    /\ limiter \in Limiters
    /\ passed = <<>>
    /\ stamps = {}
    /\ req = [r \in Requests |-> Arriving]

(* A body that is not multipart, too large or of another type is refused   *)
(* before the limiter of the screenshots is asked, and spends nothing.     *)
RefuseUpload(r) ==
    /\ limiter = "screenshot" /\ req[r] = Arriving
    /\ req' = [req EXCEPT ![r].pc = "answered"]
    /\ UNCHANGED <<now, limiter, stamps, passed>>

ReadClock(r) ==
    /\ limiter \in ReadsUnlocked /\ req[r] = Arriving
    /\ req' = [req EXCEPT ![r] = [pc |-> "locking", clock |-> now]]
    /\ UNCHANGED <<now, limiter, stamps, passed>>

(* What is older than the window is forgotten; the rest is counted.        *)
Evict(clock) == {i \in stamps : passed[i] > clock - Window}

Record(r, kept, clock) ==
    /\ passed' = Append(passed, clock)
    /\ stamps' = kept \cup {Len(passed) + 1}
    /\ req' = [req EXCEPT ![r].pc = IF limiter = "screenshot" THEN "vision" ELSE "answered"]

\* Mutant: > for >=.
Allow_OneMore(r, clock) ==
    LET kept == Evict(clock) IN
    IF Cardinality(kept) > Limits[limiter]
    THEN /\ stamps' = kept
         /\ req' = [req EXCEPT ![r].pc = "answered"]
         /\ UNCHANGED passed
    ELSE Record(r, kept, clock)

(* Under the mutex: 429 at the limit, and the attempt is not recorded.     *)
Allow(r, clock) ==
    LET kept == Evict(clock) IN
    IF Cardinality(kept) >= Limits[limiter]
    THEN /\ stamps' = kept
         /\ req' = [req EXCEPT ![r].pc = "answered"]
         /\ UNCHANGED passed
    ELSE Record(r, kept, clock)

Lock(r) ==
    /\ \/ limiter \in ReadsUnlocked /\ req[r].pc = "locking" /\ Allow(r, req[r].clock)
       \/ limiter \notin ReadsUnlocked /\ req[r] = Arriving /\ Allow(r, now)
    /\ UNCHANGED <<now, limiter>>

(* The provider answers or fails, the answer can be read or not: the       *)
(* attempt has been spent in any case.                                     *)
Recognize(r) ==
    /\ req[r].pc = "vision"
    /\ req' = [req EXCEPT ![r].pc = "answered"]
    /\ UNCHANGED <<now, limiter, stamps, passed>>

(* The next request.                                                       *)
Arrive(r) ==
    /\ req[r].pc = "answered"
    /\ req' = [req EXCEPT ![r] = Arriving]
    /\ UNCHANGED <<now, limiter, stamps, passed>>

Tick ==
    /\ now < MaxTime
    /\ \A r \in Requests : req[r].pc = "locking" => now < req[r].clock + MaxLag
    /\ now' = now + 1
    /\ UNCHANGED <<limiter, stamps, req, passed>>

Next ==
    \/ \E r \in Requests : RefuseUpload(r) \/ ReadClock(r) \/ Lock(r) \/ Recognize(r) \/ Arrive(r)
    \/ Tick

Spec == Init /\ [][Next]_vars

-----------------------------------------------------------------------------
TypeOK ==
    /\ now \in Moments /\ limiter \in Limiters
    /\ passed \in Seq(Moments) /\ stamps \subseteq DOMAIN passed
    /\ req \in [Requests -> [pc : {"arriving", "locking", "vision", "answered"}, clock : Moments]]

(* Without a lag, or with a limit of one, the window is exact.             *)
Slack == IF limiter \in ReadsUnlocked /\ Limits[limiter] > 1 THEN MaxLag ELSE 0

(* No window has more requests than the limit, at whatever moment it       *)
(* begins.  For the screenshots, where a newer reading may evict what an   *)
(* older one would still count, that is true of a window shorter by the    *)
(* time between the clock and the mutex.                                   *)
WindowBound ==
    \A t \in Moments :
        Cardinality({i \in DOMAIN passed : t <= passed[i] /\ passed[i] < t + Window - Slack})
          <= Limits[limiter]
=============================================================================
