------------------------------ MODULE HoldingScores ------------------------------
(***************************************************************************)
(* What a version 1 analysis computes for one holding, again and again:    *)
(* trend, valuation and catalyst, the weights and the bias of the user,    *)
(* the confidence, the recommendation of the decision matrix, the plan and *)
(* the badge that compares the new card with the last one.                 *)
(*                                                                         *)
(* All numbers are exact: weights and percentiles in hundredths, catalyst  *)
(* scores in thousandths, the trend as a fraction.  The moving averages    *)
(* and oscillators are left out; what they are compared with is not.       *)
(***************************************************************************)
EXTENDS Integers

CONSTANTS
    Kinds,        \* asset types of this instance
    Lengths,      \* numbers of prices that the source delivers
    Rsis,         \* values of the RSI: even numbers
    Percentiles,  \* shares of the prices below the last one, in hundredths
    Answers,      \* scores the LLM may give to the catalysts, in hundredths
    Ratios,       \* positions of the holding, in hundredths of a percent
    LlmPlans      \* plans the LLM may propose

ScoresAssumption ==
    /\ Kinds \subseteq {"gold_etf", "a_share_broad", "a_share_industry", "us_stock"}
    /\ Lengths \subseteq Nat /\ Percentiles \subseteq 0 .. 100 /\ Ratios \subseteq Nat
    /\ Rsis \subseteq {2 * half : half \in 0 .. 50}
    /\ Answers \subseteq Int

VARIABLES
    kind,        \* the asset type of the holding
    enhancer,    \* the server has a system provider that enhances catalysts
    step,
    trend,       \* TrendResult: num / den between -1 and 1
    position,    \* PositionResult: the assessment
    catalyst,    \* CatalystResult: the score
    weights,
    confidence,
    rec,         \* the recommendation of the matrix: its level
    card,        \* the last card of the holding
    badge        \* its badge

vars == <<kind, enhancer, step, trend, position, catalyst, weights, confidence, rec, card, badge>>

NoTrend == [num |-> 0, den |-> 100]
NoWeights == [trend |-> 0, position |-> 0, catalyst |-> 0]
Unmade == [level |-> 0, trend |-> "none", position |-> "none", catalyst |-> "none",
           confidence |-> 0, target |-> 0, plan |-> "none"]

Init ==
    /\ kind \in Kinds
    /\ enhancer \in BOOLEAN
    /\ step = "trend"
    /\ trend = NoTrend /\ position = "neutral" /\ catalyst = 0
    /\ weights = NoWeights /\ confidence = 0 /\ rec = 0
    /\ card = Unmade /\ badge = "none"

-----------------------------------------------------------------------------
Absolute(x) == IF x < 0 THEN -x ELSE x
Sign(x) == IF x > 0 THEN 1 ELSE IF x < 0 THEN -1 ELSE 0
Clamp(x, low, high) == IF x < low THEN low ELSE IF x > high THEN high ELSE x

(* calcMASignal, in tenths: s and l compare MA5 with MA20, MA20 with MA60. *)
MASignal(n, s, l) ==
    IF n >= 60 THEN (IF s # 0 /\ s = l THEN 10 * s ELSE 5 * s) ELSE 7 * s

RSISignal(rsi) ==
    CASE rsi > 70 -> 10
      [] rsi > 60 /\ rsi <= 70 -> 5
      [] rsi < 30 -> -10
      [] rsi < 40 /\ rsi >= 30 -> -5
      [] OTHER -> (rsi - 50) \div 2

(* The line above zero and above its signal line, a half each.             *)
MACDSignal(line, histogram) == Clamp(5 * (line + histogram), -10, 10)

(* Below 20 prices there is no trend, below 35 no MACD.                    *)
CalcTrend ==
    /\ step = "trend" /\ step' = "position"
    /\ \E n \in Lengths, s \in -1 .. 1, l \in -1 .. 1, rsi \in Rsis, line \in -1 .. 1, h \in -1 .. 1 :
         trend' = IF n < 20 THEN NoTrend
                  ELSE IF n < 35
                  THEN [num |-> 4 * MASignal(n, s, l) + 3 * RSISignal(rsi), den |-> 70]
                  ELSE [num |-> 4 * MASignal(n, s, l) + 3 * RSISignal(rsi) + 3 * MACDSignal(line, h),
                        den |-> 100]
    /\ UNCHANGED <<kind, enhancer, position, catalyst, weights, confidence, rec, card, badge>>

TrendSignal == IF 5 * Absolute(trend.num) > trend.den THEN Sign(trend.num) ELSE 0

Assess(percentile) ==
    IF percentile < 30 THEN "bullish" ELSE IF percentile > 70 THEN "bearish" ELSE "neutral"

\* Mutant: the position of every asset is that of its price.
CalcPosition_AnyKind ==
    /\ step = "position" /\ step' = "catalyst"
    /\ \E p \in Percentiles : position' = Assess(p)
    /\ UNCHANGED <<kind, enhancer, trend, catalyst, weights, confidence, rec, card, badge>>

(* Gold is ranked among its prices, if there are five.  The others need    *)
(* five valuations of the past, of which analyzeHolding passes none: their *)
(* calculation fails, and their position is neutral.                       *)
CalcPosition ==
    /\ step = "position" /\ step' = "catalyst"
    /\ \/ kind = "gold_etf" /\ \E p \in Percentiles : position' = Assess(p)
       \/ position' = "neutral"
    /\ UNCHANGED <<kind, enhancer, trend, catalyst, weights, confidence, rec, card, badge>>

PositionSignal == CASE position = "bullish" -> 1 [] position = "bearish" -> -1 [] OTHER -> 0

(* The quantitative score: analyzeHolding passes no mapping from events to *)
(* impacts, so that no event has any relevance.                            *)
Base == 0

(* parseCatalystResponse: the answer counts for 40 %, and only within a    *)
(* quarter of the base.                                                    *)
Blend(base, answer) ==
    IF answer = 0 THEN 10 * base
    ELSE 6 * base + 4 * Clamp(answer, base - 25, base + 25)

(* Enhance returns the base result when the call fails or its answer is    *)
(* not JSON, and no error.                                                 *)
CalcCatalyst ==
    /\ step = "catalyst" /\ step' = "weights"
    /\ \/ catalyst' = 10 * Base
       \/ enhancer /\ \E a \in Answers : catalyst' = Blend(Base, a)
    /\ UNCHANGED <<kind, enhancer, trend, position, weights, confidence, rec, card, badge>>

CatalystSignal == IF catalyst > 200 THEN 1 ELSE IF catalyst < -200 THEN -1 ELSE 0

BaseWeights ==
    CASE kind = "gold_etf"         -> [trend |-> 25, position |-> 30, catalyst |-> 45]
      [] kind = "a_share_broad"    -> [trend |-> 30, position |-> 40, catalyst |-> 30]
      [] kind = "a_share_industry" -> [trend |-> 35, position |-> 30, catalyst |-> 35]
      [] kind = "us_stock"         -> [trend |-> 30, position |-> 35, catalyst |-> 35]

(* ApplyRiskBias: five points from one dimension to the other, within ten  *)
(* of the base; the sum stays at 100, so that nothing is left to normalise.*)
ApplyRiskBias(bias) ==
    [BaseWeights EXCEPT !.position = Clamp(@ + bias, @ - 10, @ + 10),
                        !.catalyst = Clamp(@ - bias, @ - 10, @ + 10)]

(* conservative, neutral (also when it cannot be read), aggressive         *)
ChooseWeights ==
    /\ step = "weights" /\ step' = "decide"
    /\ \E bias \in {5, 0, -5} : weights' = ApplyRiskBias(bias)
    /\ UNCHANGED <<kind, enhancer, trend, position, catalyst, confidence, rec, card, badge>>

-----------------------------------------------------------------------------
Agreement(s, d) == IF d = 0 THEN 1 ELSE 1 + s * d   \* in halves

\* Half of it is rounded up.
Round(n, d) == (2 * n + d) \div (2 * d)

(* 70 x coherence + 20 x quality + 10 x strength; all three dimensions are *)
(* always there, and the catalyst counts as enhanced whenever an enhancer  *)
(* exists, for Enhance never returns an error.                             *)
Confidence ==
    LET t == TrendSignal
        p == PositionSignal
        c == CatalystSignal
        d == Sign(weights.trend * t + weights.position * p + weights.catalyst * c)
        coherence == weights.trend * Agreement(t, d) + weights.position * Agreement(p, d)
                       + weights.catalyst * Agreement(c, d)          \* of 200
        quality == IF enhancer THEN 100 ELSE 90                      \* of 100
        strength == Absolute(t) + Absolute(p) + Absolute(c)          \* of 3
    IN  Round(21 * coherence + 12 * quality + 200 * strength, 60)

(* scoreToRecommendation, of n / d, and Action.Level.                      *)
Level(n, d) ==
    CASE 2 * n > d                -> 2
      [] 5 * n > d /\ 2 * n <= d  -> 1
      [] 5 * n > -d /\ 5 * n <= d -> 0
      [] 2 * n > -d /\ 5 * n <= -d -> -1
      [] OTHER                    -> -2

(* Matrix.Decide: a position that is not neutral has its full weight.  Of  *)
(* the trend only the direction is used from here on.                      *)
Decide ==
    /\ step = "decide" /\ step' = "synthesize"
    /\ confidence' = Confidence
    /\ rec' = LET strength == IF TrendSignal = 0 THEN 0 ELSE trend.num IN
              Level(1000 * strength * weights.trend
                      + 1000 * trend.den * PositionSignal * weights.position
                      + trend.den * catalyst * weights.catalyst,
                    100000 * trend.den)
    /\ trend' = [num |-> TrendSignal, den |-> 1] /\ weights' = NoWeights
    /\ UNCHANGED <<kind, enhancer, position, catalyst, card, badge>>

-----------------------------------------------------------------------------
(* fallbackRecommendation, when the LLM gives none: one step, or to watch. *)
TemplateDelta == CASE rec = 2 -> 1000 [] rec = 1 -> 500 [] rec = 0 -> 0
                   [] rec = -1 -> -1000 [] rec = -2 -> -1500

Target(ratio) == IF ratio + TemplateDelta < 0 THEN 0 ELSE ratio + TemplateDelta

Card(level, target, plan) ==
    [level |-> level,
     trend |-> CASE TrendSignal = 1 -> "upward" [] TrendSignal = -1 -> "downward" [] OTHER -> "sideways",
     position |-> position,
     catalyst |-> CASE CatalystSignal = 1 -> "bullish" [] CatalystSignal = -1 -> "bearish"
                    [] OTHER -> "neutral",
     confidence |-> confidence, target |-> target, plan |-> plan]

\* Mutant: five points are enough for a shift.
Compute_Five(prev, cur) ==
    CASE prev = Unmade -> "first_analysis"
      [] prev # Unmade /\ cur.level > prev.level -> "action_upgrade"
      [] prev # Unmade /\ cur.level < prev.level -> "action_downgrade"
      [] OTHER ->
           IF <<cur.trend, cur.position, cur.catalyst>> # <<prev.trend, prev.position, prev.catalyst>>
           THEN "signal_flip"
           ELSE IF cur.plan # prev.plan \/ cur.target # prev.target THEN "plan_adjust"
           ELSE IF Absolute(cur.confidence - prev.confidence) >= 5 THEN "confidence_shift"
           ELSE "none"

(* The badge of diff.Compute; nothing sets the flag of degraded data.      *)
Compute(prev, cur) ==
    CASE prev = Unmade -> "first_analysis"
      [] prev # Unmade /\ cur.level > prev.level -> "action_upgrade"
      [] prev # Unmade /\ cur.level < prev.level -> "action_downgrade"
      [] OTHER ->
           IF <<cur.trend, cur.position, cur.catalyst>> # <<prev.trend, prev.position, prev.catalyst>>
           THEN "signal_flip"
           ELSE IF cur.plan # prev.plan \/ cur.target # prev.target THEN "plan_adjust"
           ELSE IF Absolute(cur.confidence - prev.confidence) >= 10 THEN "confidence_shift"
           ELSE "none"

(* The card is stored with its badge; the next analysis starts afresh.     *)
(* The plan is the template's, or one of the LLM's with whatever level.    *)
Synthesize ==
    /\ step = "synthesize" /\ step' = "trend"
    /\ \E ratio \in Ratios :
         \/ card' = Card(rec, Target(ratio), IF rec = 0 THEN "monitor" ELSE "one-shot")
         \/ \E level \in -2 .. 2, plan \in LlmPlans : card' = Card(level, ratio, plan)
    /\ badge' = Compute(card, card')
    /\ trend' = NoTrend /\ position' = "neutral" /\ catalyst' = 0
    /\ confidence' = 0 /\ rec' = 0
    /\ UNCHANGED <<kind, enhancer, weights>>

(* The server is started again, with or without a system provider.         *)
Restart ==
    /\ step = "trend"
    /\ enhancer' = ~ enhancer
    /\ UNCHANGED <<kind, step, trend, position, catalyst, weights, confidence, rec, card, badge>>

Next ==
    \/ CalcTrend \/ CalcPosition \/ CalcCatalyst \/ ChooseWeights \/ Decide \/ Synthesize
    \/ Restart

Spec == Init /\ [][Next]_vars

-----------------------------------------------------------------------------
TypeOK ==
    /\ kind \in Kinds /\ enhancer \in BOOLEAN
    /\ step \in {"trend", "position", "catalyst", "weights", "decide", "synthesize"}
    /\ trend.den \in {1, 70, 100} /\ trend.num \in -trend.den .. trend.den
    /\ position \in {"bullish", "neutral", "bearish"}
    /\ catalyst \in -1000 .. 1000
    /\ weights = NoWeights \/ weights.trend + weights.position + weights.catalyst = 100
    /\ confidence \in 0 .. 100 /\ rec \in -2 .. 2
    /\ card.level \in -2 .. 2 /\ card.target >= 0

(* The matrix has five answers, but reaches the two bold ones for a gold   *)
(* fund only, and only where the valuation is not neutral: without past    *)
(* valuations and event mappings no other asset can be more than a small   *)
(* addition or a gradual reduction, at a confidence of 71 at most, however *)
(* strong its trend and whatever the LLM says of its catalysts.            *)
BoldNeedsValuation ==
    step = "synthesize" =>
        /\ rec = 2 => position = "bullish"
        /\ rec = -2 => position = "bearish"
        /\ kind # "gold_etf" => rec \in -1 .. 1 /\ confidence <= 71

(* The badge of a confidence that moved by ten points is never shown: with *)
(* the same signals only the bias of the user and the provider can move    *)
(* it, and these move it less.                                             *)
ShiftNeverShown == badge # "confidence_shift"
=============================================================================
