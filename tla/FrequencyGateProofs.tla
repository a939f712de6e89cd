------------------------- MODULE FrequencyGateProofs -------------------------
(***************************************************************************)
(* The next analysis is the first due time after now, for any minimum      *)
(* intervals, any search bound that exceeds them by four days, and either  *)
(* text form of the stored times.                                          *)
(***************************************************************************)
EXTENDS FrequencyGate, TLAPS, WellFoundedInduction

-----------------------------------------------------------------------------
(* The least element of a set of natural numbers.                          *)

Below == {p \in Nat \X Nat : p[1] < p[2]}

LEMMA BelowWellFounded == IsWellFoundedOn(Below, Nat)
  BY NatLessThanWellFounded DEF OpToRel, Below

LEMMA LeastIsLeast ==
  ASSUME NEW S, S \subseteq Nat, S # {}
  PROVE  Least(S) \in S /\ \A y \in S : Least(S) <= y
<1>1. PICK x \in S : \A y \in S : ~(<<y, x>> \in Below)
  BY BelowWellFounded, WFMin
<1>2. ASSUME NEW y \in S PROVE x <= y
  <2>1. <<y, x>> \in Nat \X Nat /\ <<y, x>>[1] = y /\ <<y, x>>[2] = x
    OBVIOUS
  <2>2. <<y, x>> \notin Below
    BY <1>1
  <2> QED BY <2>1, <2>2 DEF Below
<1> QED BY <1>1, <1>2 DEF Least

-----------------------------------------------------------------------------
(* Types.                                                                  *)

\* The state stays in its types, the last analysis is never ahead of the clock.
THEOREM Types == Spec => []TypeOK
<1>1. Init => TypeOK
  BY ConstantsAssumption DEF Init, TypeOK, Overrides
<1>2. TypeOK /\ [Next]_vars => TypeOK'
  <2> SUFFICES ASSUME TypeOK, [Next]_vars PROVE TypeOK'
    OBVIOUS
  <2> USE ConstantsAssumption DEF TypeOK
  <2>1. ASSUME NEW w \in Windows, RunJob(w) PROVE TypeOK'
    BY <2>1 DEF RunJob
  <2>2. ASSUME NEW w \in Windows, RunJobUngated(w) PROVE TypeOK'
    BY <2>2 DEF RunJobUngated
  <2>3. ASSUME NEW w \in Windows, FinishJob(w) PROVE TypeOK'
    BY <2>3 DEF FinishJob
  <2>4. CASE Analyze
    BY <2>4 DEF Analyze
  <2>5. CASE UpdateSettings
    BY <2>5 DEF UpdateSettings
  <2>6. CASE UpdateHoldingSchedule
    BY <2>6 DEF UpdateHoldingSchedule
  <2>7. CASE Tick
    BY <2>7 DEF Tick
  <2>8. CASE UNCHANGED vars
    BY <2>8 DEF vars
  <2> QED BY <2>1, <2>2, <2>3, <2>4, <2>5, <2>6, <2>7, <2>8 DEF Next
<1> QED BY <1>1, <1>2, PTL DEF Spec

\* What the settings resolve to: an interval that the walk can reach, and a time not
\* before which the next analysis may be.
LEMMA FrequencyBound ==
  ASSUME TypeOK
  PROVE  Frequency \in Nat /\ Frequency + 4 <= MaxDays
<1>1. Frequency \in Frequencies \cup {1}
  BY ConstantsAssumption DEF TypeOK, Frequency, Rows, Overrides
<1> QED BY <1>1, ConstantsAssumption

LEMMA EarliestBound ==
  ASSUME TypeOK
  PROVE  /\ Earliest \in Nat /\ Earliest <= now + Frequency * 5
         /\ \A t \in Nat : t >= Earliest <=> (last # NoTime => t - last >= Frequency * 5)
  BY FrequencyBound, ConstantsAssumption DEF TypeOK, Earliest, Day

LEMMA WindowSlots ==
  ASSUME TypeOK
  PROVE  /\ MarketWindows \subseteq Windows
         /\ \A w \in Windows : Slot[market][w] \in 1..3
<1>1. On \subseteq Windows
  BY DEF TypeOK, On, DefaultOn, Rows, Windows
<1>2. MarketWindows \subseteq Windows
  BY <1>1, ConstantsAssumption DEF TypeOK, MarketWindows, Overrides
<1>3. \A w \in Windows : Slot[market][w] \in 1..3
  BY DEF TypeOK, Slot, Windows
<1> QED BY <1>2, <1>3

-----------------------------------------------------------------------------
(* Days.                                                                   *)

LEMMA DayBounds ==
  ASSUME NEW t \in Nat
  PROVE  /\ DayOf(t) \in Nat
         /\ DayOf(t) * 5 <= t /\ t < DayOf(t) * 5 + 5
  BY DEF DayOf, Day

LEMMA DaySplit ==
  ASSUME NEW t \in Nat
  PROVE  t = DayOf(t) * 5 + (t % 5)
  BY DEF DayOf, Day

LEMMA DaysInOrder ==
  ASSUME NEW s \in Nat, NEW t \in Nat, s <= t
  PROVE  DayOf(s) <= DayOf(t)
<1>1. /\ DayOf(s) \in Nat /\ DayOf(s) * 5 <= s
      /\ DayOf(t) \in Nat /\ t < DayOf(t) * 5 + 5
  BY DayBounds
<1> QED BY <1>1

LEMMA DaySlot ==
  ASSUME NEW d \in Nat, NEW s \in 0..4
  PROVE  DayOf(d * 5 + s) = d /\ (d * 5 + s) % 5 = s
  BY DEF DayOf, Day

\* Of three days in a row at least one is no weekend.
LEMMA WeekendEnds ==
  ASSUME NEW d \in Nat
  PROVE  \E e \in {d, d + 1, d + 2} : ~IsWeekend(e)
  BY DEF IsWeekend, Weekday

LEMMA CandidatesAre ==
  ASSUME TypeOK, NEW d \in Nat
  PROVE  /\ Candidates(d) \subseteq Nat
         /\ \A t \in Candidates(d) : DayOf(t) = d /\ t > now /\ t >= Earliest
         /\ \A t \in Candidates(d) : \E w \in MarketWindows : t % 5 = Slot[market][w]
<1> SUFFICES ASSUME NEW t \in Candidates(d)
             PROVE  /\ t \in Nat /\ DayOf(t) = d /\ t > now /\ t >= Earliest
                    /\ \E w \in MarketWindows : t % 5 = Slot[market][w]
  OBVIOUS
<1>1. PICK w \in MarketWindows : t = d * 5 + Slot[market][w]
  BY DEF Candidates, Day
<1>2. Slot[market][w] \in 0..4
  BY WindowSlots
<1>3. DayOf(t) = d /\ t % 5 = Slot[market][w]
  BY <1>1, <1>2, DaySlot
<1>4. t \in Nat /\ t > now /\ t >= Earliest
  BY <1>1, <1>2 DEF Candidates
<1> QED BY <1>3, <1>4

\* A due time after now is a candidate of its day.
LEMMA DueIsCandidate ==
  ASSUME TypeOK, NEW t \in Nat, t > now, Due(t)
  PROVE  t \in Candidates(DayOf(t)) /\ (market = "a_share" => ~IsWeekend(DayOf(t)))
<1>1. PICK w \in MarketWindows : t % 5 = Slot[market][w]
  BY DEF Due, Day
<1>2. t = DayOf(t) * Day + Slot[market][w]
  BY <1>1, DaySplit DEF Day
<1>3. t >= Earliest
  BY EarliestBound DEF Due, Day
<1> QED BY <1>2, <1>3 DEF Candidates, Due

-----------------------------------------------------------------------------
(* The walk over the days.                                                 *)

\* The walk finds a day.
LEMMA WalkEnds ==
  ASSUME TypeOK, MarketWindows # {}
  PROVE  OpenDays # {}
<1> DEFINE d == DayOf(now) + Frequency + 1
<1>1. /\ now \in Nat /\ DayOf(now) \in Nat /\ now < DayOf(now) * 5 + 5
      /\ Frequency \in Nat /\ Frequency + 4 <= MaxDays
      /\ Earliest \in Nat /\ Earliest <= now + Frequency * 5
  <2>1. now \in Nat
    BY DEF TypeOK
  <2>2. DayOf(now) \in Nat /\ now < DayOf(now) * 5 + 5
    BY <2>1, DayBounds
  <2>3. Frequency \in Nat /\ Frequency + 4 <= MaxDays
    BY FrequencyBound
  <2>4. Earliest \in Nat /\ Earliest <= now + Frequency * 5
    BY EarliestBound
  <2> QED BY <2>1, <2>2, <2>3, <2>4
<1>2. d \in Nat /\ d = DayOf(now) + Frequency + 1 /\ d * 5 > now /\ d * 5 >= Earliest
  BY <1>1
<1> HIDE DEF d
<1>3. PICK e \in {d, d + 1, d + 2} : ~IsWeekend(e)
  BY <1>2, WeekendEnds
<1>4. e \in Nat /\ e * 5 >= d * 5 /\ e \in DayOf(now)..(DayOf(now) + MaxDays - 1)
  BY <1>1, <1>2, ConstantsAssumption
<1>5. e \in SearchDays
  BY <1>3, <1>4 DEF SearchDays
<1>6. PICK w \in MarketWindows : TRUE
  OBVIOUS
<1>7. Slot[market][w] \in 1..3
  BY <1>6, WindowSlots
<1>8. e * Day + Slot[market][w] \in Candidates(e)
  BY <1>1, <1>2, <1>4, <1>6, <1>7, EarliestBound DEF Candidates, Day
<1> QED BY <1>5, <1>8 DEF OpenDays

FirstDue ==
  /\ ComputeNextAnalysisAt \in Nat /\ ComputeNextAnalysisAt > now
  /\ Due(ComputeNextAnalysisAt)
  /\ \A t \in (now + 1)..(ComputeNextAnalysisAt - 1) : ~Due(t)

LEMMA NextLeast ==
  ASSUME TypeOK, MarketWindows # {}
  PROVE  FirstDue
<1> DEFINE d == Least(OpenDays)
           n == Least(Candidates(d))
<1>1. now \in Nat /\ DayOf(now) \in Nat
  BY DayBounds DEF TypeOK
<1>2. SearchDays \subseteq Nat
  BY <1>1 DEF SearchDays
<1>3. d \in OpenDays /\ \A e \in OpenDays : d <= e
  BY <1>2, WalkEnds, LeastIsLeast DEF OpenDays
<1>4. d \in SearchDays /\ d \in Nat /\ Candidates(d) # {}
  BY <1>2, <1>3 DEF OpenDays
<1>5. n \in Candidates(d) /\ \A t \in Candidates(d) : n <= t
  BY <1>4, CandidatesAre, LeastIsLeast
<1>6. ComputeNextAnalysisAt = n
  BY WalkEnds DEF ComputeNextAnalysisAt, FirstOfDay
<1>7. n \in Nat /\ n > now /\ n >= Earliest /\ DayOf(n) = d
  BY <1>4, <1>5, CandidatesAre
<1>8. Due(n)
  <2>1. \E w \in MarketWindows : n % 5 = Slot[market][w]
    BY <1>4, <1>5, CandidatesAre
  <2>2. market = "a_share" => ~IsWeekend(DayOf(n))
    BY <1>4, <1>7 DEF SearchDays
  <2>3. last # NoTime => n - last >= Frequency * 5
    BY <1>7, EarliestBound
  <2> QED BY <2>1, <2>2, <2>3 DEF Due, Day
<1>9. ASSUME NEW t \in (now + 1)..(n - 1), Due(t) PROVE FALSE
  <2>1. t \in Nat /\ t > now /\ t < n
    BY <1>1, <1>7
  <2>2. t \in Candidates(DayOf(t)) /\ (market = "a_share" => ~IsWeekend(DayOf(t)))
    BY <1>9, <2>1, DueIsCandidate
  <2>3. DayOf(t) \in Nat /\ DayOf(now) <= DayOf(t) /\ DayOf(t) <= d
    BY <1>1, <1>7, <2>1, DayBounds, DaysInOrder
  <2>4. DayOf(t) \in SearchDays
    BY <1>1, <1>4, <2>2, <2>3, ConstantsAssumption DEF SearchDays
  <2>5. DayOf(t) \in OpenDays
    BY <2>2, <2>4 DEF OpenDays
  <2>6. DayOf(t) = d
    BY <1>3, <1>4, <2>3, <2>5
  <2> QED BY <1>5, <1>7, <2>1, <2>2, <2>6
<1> QED BY <1>6, <1>7, <1>8, <1>9 DEF FirstDue

\* The next analysis is the first due time after now, whatever the settings of the
\* user, the market and the holding resolve to (ComputeNextAnalysisAt).
THEOREM NextExact == Spec => []NextIsLeast
<1> QED BY Types, NextLeast, PTL DEF NextIsLeast, FirstDue

\* The gate of a scheduled job lets a holding pass only when its next analysis could
\* not be computed (filterEligibleHoldings).
THEOREM GateClosed == Spec => [](Eligible => NextFails)
<1>1. ASSUME TypeOK PROVE Eligible => NextFails
  <2>1. now \in Nat
    BY <1>1 DEF TypeOK
  <2>2. CASE MarketWindows = {}
    BY <2>1, <2>2 DEF Eligible, ComputeNextAnalysisAt, Day
  <2>3. CASE MarketWindows # {}
    <3>1. ComputeNextAnalysisAt \in Nat /\ ComputeNextAnalysisAt > now
      BY <1>1, <2>3, NextLeast DEF FirstDue
    <3>2. ~(ComputeNextAnalysisAt <= now)
      BY <2>1, <3>1
    <3> QED BY <3>2 DEF Eligible
  <2> QED BY <2>2, <2>3
<1> QED BY <1>1, Types, PTL

-----------------------------------------------------------------------------
(* The time that is shown.                                                 *)

LEMMA Between ==
  ASSUME NEW a \in Nat, NEW b \in Nat, NEW c \in Nat, a > b, a < c
  PROVE  a \in (b + 1)..(c - 1)
OBVIOUS

\* While it is waited for, the next analysis does not move.
THEOREM NextWaits == Spec => NextStable
<1> DEFINE Waiting == /\ UNCHANGED <<last, row, override>>
                      /\ MarketWindows # {} /\ Parses
                      /\ ComputeNextAnalysisAt > now'
<1>1. TypeOK /\ MarketWindows # {} => FirstDue
  BY NextLeast
<1>2. (TypeOK /\ MarketWindows # {} => FirstDue)'
  BY <1>1, PTL
<1>3. ASSUME TypeOK, TypeOK', [Next]_vars, Waiting
      PROVE  ComputeNextAnalysisAt' = ComputeNextAnalysisAt
  <2> DEFINE n == ComputeNextAnalysisAt
             m == ComputeNextAnalysisAt'
  <2>1. market' = market /\ now \in Nat /\ now' \in Nat /\ now <= now'
    BY <1>3 DEF Next, vars, TypeOK, RunJob, RunJobUngated, FinishJob, Analyze,
                UpdateSettings, UpdateHoldingSchedule, Tick
  <2>2. MarketWindows' = MarketWindows /\ Parses' = Parses /\ Frequency' = Frequency
    BY <1>3, <2>1 DEF MarketWindows, On, Parses, Frequency
  <2>3. Due(n) /\ n \in Nat /\ n > now' /\ \A t \in (now + 1)..(n - 1) : ~Due(t)
    BY <1>1, <1>3 DEF FirstDue
  <2>4. \A t : Due(t)' <=> Due(t)
    BY <1>3, <2>1, <2>2 DEF Due
  <2>5. m \in Nat /\ m > now' /\ Due(m) /\ \A t \in (now' + 1)..(m - 1) : ~Due(t)
    <3>1. FirstDue'
      BY <1>2, <1>3, <2>2
    <3> QED BY <3>1, <1>3, <2>1, <2>2 DEF FirstDue, Due
  <2> HIDE DEF n, m
  <2>6. ~(m < n)
    BY <2>1, <2>3, <2>5
  <2>7. ~(n < m)
    <3>1. n \in Nat /\ now' \in Nat /\ m \in Nat /\ n > now'
      BY <2>1, <2>3, <2>5
    <3>2. n < m => n \in (now' + 1)..(m - 1)
      BY <3>1, Between
    <3> QED BY <3>2, <2>3, <2>5
  <2>8. n = m
    BY <2>3, <2>5, <2>6, <2>7
  <2> QED BY <2>8 DEF n, m
<1> QED BY <1>3, Types, PTL DEF NextStable, Spec
=============================================================================
