---------------------------- MODULE FrequencyGate ----------------------------
(***************************************************************************)
(* When a holding is analysed next: the time that the holding page shows,  *)
(* and the gate that a scheduled job asks before it analyses the holding.  *)
(* One user, one holding.  Time is counted in slots; a day has one for     *)
(* each of the two windows and one before, between and after them, which   *)
(* is all that the comparisons of the code tell apart.                     *)
(***************************************************************************)
EXTENDS Integers, FiniteSets

CONSTANTS
    Frequencies,  \* minimum intervals in days, 0 for "every_window"
    MaxDays,      \* how far ComputeNextAnalysisAt looks, 60 in the code
    Horizon,      \* bound on the clock
    MaxFaults,    \* bound on failed card queries
    StoredText,   \* how the database writes a TIME column, as in ScheduleEntries
    NoRow, NoTime,
    Follow        \* no value of its own: the level above decides

ASSUME ConstantsAssumption ==
    /\ Frequencies \subseteq 0..30
    /\ MaxDays \in Nat /\ \A f \in Frequencies \cup {1} : f + 4 <= MaxDays
    /\ Horizon \in Nat /\ MaxFaults \in Nat
    /\ StoredText \in {"HH:MM", "HH:MM:SS"}
    /\ NoTime \notin Nat
    /\ Follow \notin Nat /\ Follow \notin {"pre", "post", "both"}

VARIABLES
    market,    \* the market of the holding
    now,       \* the clock, in slots since a Monday, Asia/Shanghai
    last,      \* when the latest card was made, or NoTime
    row,       \* the saved settings for the market, or NoRow
    override,  \* the settings of the holding itself
    jobs,      \* the windows whose job is analysing the holding
    faults

vars == <<market, now, last, row, override, jobs, faults>>

Windows == {"pre", "post"}
Day     == 5   \* slots of a day

\* The US market closes in the night, before its next pre-market window.
Slot == [a_share |-> [pre |-> 1, post |-> 3], us_stock |-> [post |-> 1, pre |-> 3]]

DefaultOn == [a_share |-> {"pre", "post"}, us_stock |-> {"post"}]

DayOf(t)     == t \div Day
Weekday(d)   == d % 7   \* 0 is Monday
IsWeekend(d) == Weekday(d) \in {5, 6}

Rows ==
    [on : SUBSET Windows, marketFrequency : Frequencies \cup {Follow}, globalFrequency : Frequencies]

Overrides ==
    [frequency : Frequencies \cup {Follow}, window : {Follow, "pre", "post", "both"}]

TypeOK ==
    /\ market \in {"a_share", "us_stock"}
    /\ now \in 0..Horizon
    /\ last \in (0..now) \cup {NoTime}
    /\ row \in Rows \cup {NoRow}
    /\ override \in Overrides
    /\ jobs \subseteq Windows
    /\ faults \in 0..MaxFaults

Init ==
    /\ market \in {"a_share", "us_stock"}
    /\ now = 0
    /\ last = NoTime
    /\ row = NoRow
    /\ override = [frequency |-> Follow, window |-> Follow]
    /\ jobs = {}
    /\ faults = 0

-----------------------------------------------------------------------------
(* ComputeNextAnalysisAt.                                                  *)

On     == IF row = NoRow THEN DefaultOn[market] ELSE row.on
Parses == row = NoRow \/ StoredText = "HH:MM"

\* Holding over market over global; the global default is daily.
Frequency ==
    IF override.frequency # Follow THEN override.frequency
    ELSE IF row = NoRow THEN 1
    ELSE IF row.marketFrequency # Follow THEN row.marketFrequency
    ELSE row.globalFrequency

\* "pre" and "post" only switch the other one off.
MarketWindows ==
    CASE override.window = Follow -> On
      [] override.window = "both"   -> Windows
      [] OTHER                      -> On \cap {override.window}

Earliest == IF last = NoTime THEN 0 ELSE last + Frequency * Day

Least(S) == CHOOSE x \in S : \A y \in S : x <= y

\* The windows of a day that satisfy both constraints.
Candidates(d) ==
    {t \in {d * Day + Slot[market][w] : w \in MarketWindows} : t > now /\ t >= Earliest}

\* Mutant: the windows of a day are taken in the order pre, post.
FirstOfDay_Unsorted(d) ==
    LET pre == d * Day + Slot[market]["pre"]
    IN  IF pre \in Candidates(d) THEN pre ELSE Least(Candidates(d))

FirstOfDay(d) == Least(Candidates(d))

\* Mutant: the search begins with tomorrow.
SearchDays_Tomorrow ==
    {d \in (DayOf(now) + 1)..(DayOf(now) + MaxDays) : market = "a_share" => ~IsWeekend(d)}

\* The days that are looked at: weekends are skipped for A shares only.
SearchDays ==
    {d \in DayOf(now)..(DayOf(now) + MaxDays - 1) : market = "a_share" => ~IsWeekend(d)}

OpenDays == {d \in SearchDays : Candidates(d) # {}}

\* Only for settings that parse; with no window at all it is a day from now.
ComputeNextAnalysisAt ==
    IF MarketWindows = {} THEN now + Day
    ELSE IF OpenDays # {} THEN FirstOfDay(Least(OpenDays))
    ELSE now + (IF Frequency > 0 THEN Frequency ELSE 1) * Day

\* Settings with a window that does not parse give an error instead.
NextFails == MarketWindows # {} /\ ~Parses

-----------------------------------------------------------------------------
(* The scheduled job.                                                      *)

CronDays == IF market = "a_share" THEN 0..4 ELSE 1..5

\* The entries that may exist for the holding: those of a saved row register only
\* if its times parse, or for the US when the DST callback has set them.
Registered ==
    IF row = NoRow THEN DefaultOn[market]
    ELSE IF StoredText = "HH:MM" \/ market = "us_stock" THEN row.on
    ELSE {}

Fires(w) ==
    /\ w \in Registered
    /\ now = DayOf(now) * Day + Slot[market][w]
    /\ Weekday(DayOf(now)) \in CronDays

\* filterEligibleHoldings, when the card can be read.
Eligible == NextFails \/ ComputeNextAnalysisAt <= now

\* runJobForUser for one window; a job that is not eligible ends at once.
RunJob(w) ==
    /\ Fires(w)
    /\ w \notin jobs
    /\ Eligible
    /\ jobs' = jobs \cup {w}
    /\ UNCHANGED <<market, now, last, row, override, faults>>

\* The card, the override or the settings cannot be read: the holding is included.
RunJobUngated(w) ==
    /\ Fires(w)
    /\ w \notin jobs
    /\ faults < MaxFaults
    /\ faults' = faults + 1
    /\ jobs' = jobs \cup {w}
    /\ UNCHANGED <<market, now, last, row, override>>

\* processUserJob: the analysis makes a card, or fails.
FinishJob(w) ==
    /\ w \in jobs
    /\ jobs' = jobs \ {w}
    /\ last' \in {last, now}
    /\ UNCHANGED <<market, now, row, override, faults>>

-----------------------------------------------------------------------------
(* The user and the clock.                                                 *)

\* An analysis on request.
Analyze ==
    /\ last' = now
    /\ UNCHANGED <<market, now, row, override, jobs, faults>>

\* Mutant: the days of a custom frequency are not validated.
UpdateSettings_AnyDays ==
    /\ \E r \in Rows : row' = [r EXCEPT !.globalFrequency = 31]
    /\ UNCHANGED <<market, now, last, override, jobs, faults>>

UpdateSettings ==
    /\ row' \in Rows
    /\ UNCHANGED <<market, now, last, override, jobs, faults>>

UpdateHoldingSchedule ==
    /\ override' \in Overrides
    /\ UNCHANGED <<market, now, last, row, jobs, faults>>

Tick ==
    /\ now < Horizon
    /\ now' = now + 1
    /\ UNCHANGED <<market, last, row, override, jobs, faults>>

Next ==
    \/ \E w \in Windows : RunJob(w) \/ RunJobUngated(w) \/ FinishJob(w)
    \/ Analyze \/ UpdateSettings \/ UpdateHoldingSchedule \/ Tick

Spec == Init /\ [][Next]_vars

-----------------------------------------------------------------------------
(* What must hold.                                                         *)

\* A time in a window of the holding, on a trading day, and at least the minimum
\* interval after the last analysis.
Due(t) ==
    /\ \E w \in MarketWindows : t % Day = Slot[market][w]
    /\ market = "a_share" => ~IsWeekend(DayOf(t))
    /\ last # NoTime => t - last >= Frequency * Day

\* The next analysis is the first due time after now: neither the walk over the days
\* nor the order of the windows, which the US market has the other way round, skips
\* one, and the walk never gives up (ComputeNextAnalysisAt).
NextIsLeast ==
    MarketWindows # {} /\ Parses =>
        /\ ComputeNextAnalysisAt > now
        /\ Due(ComputeNextAnalysisAt)
        /\ \A t \in (now + 1)..(ComputeNextAnalysisAt - 1) : ~Due(t)

\* The time that is shown does not move while it is waited for: until it comes only
\* a save or an analysis changes it.
NextStable ==
    [][ /\ UNCHANGED <<last, row, override>>
        /\ MarketWindows # {} /\ Parses
        /\ ComputeNextAnalysisAt > now'
        => ComputeNextAnalysisAt' = ComputeNextAnalysisAt]_vars

\* An entry that fires for a holding whose minimum interval has elapsed since its
\* last analysis finds it eligible (the comment of filterEligibleHoldings, and the
\* design: skipped only when the interval has not elapsed).
DueIsEligible ==
    \A w \in Windows : Fires(w) /\ now >= Earliest => Eligible
=============================================================================
