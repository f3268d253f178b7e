--------------------------- MODULE OvernightScore ---------------------------
(***************************************************************************)
(* The overnight mean-reversion score, of a stored ticker and of numbers a *)
(* request brings: the handlers of POST market/tickers/:productID/         *)
(* overnight-mean-reversion/score and strategy/overnight-mean-reversion/   *)
(* score, the metrics and the input derived from a ticker                  *)
(* (internal/marketdata/metrics and omrinput) and the scoring functions    *)
(* (internal/strategy/overnightmeanreversion).                             *)
(*                                                                         *)
(* Prices are integers, percentages and category scores are in hundredths, *)
(* the weighted score in ten-thousandths; quotients are rounded down where *)
(* the code's are floats.  The logarithm of the daily volume is a          *)
(* non-decreasing table.  The codes that explain a score are left out.     *)
(***************************************************************************)
EXTENDS Integers

CONSTANTS
    Tickers,         \* tickers the feed may store
    Manuals,         \* the analyst's fields a request may carry
    Bodies,          \* the requests that bring every field themselves
    Volumes,         \* daily volumes, in hundred thousands
    LiquidityShare,  \* volume -> its logarithmic share of the way to 80 million
    NoTicker

Trends == {"falling", "flat", "rising"}
Candles == {"bearish_continuation", "neutral", "bullish_reversal"}

(* What Score takes: the fields of Input that its result depends on. *)
Inputs == [volume : Volumes, change : Int, drawdown : Int, rsi : Int, support : Int,
           trend : Trends, candle : Candles, higherLow : BOOLEAN,
           entry : Int, stop : Int, target : Int]

ASSUME VolumeAssumption ==
    /\ Volumes \subseteq Int
    /\ LiquidityShare \in [Volumes -> Nat]
    /\ \A v \in Volumes : LiquidityShare[v] <= 10000
    /\ \A v, w \in Volumes : v <= w => LiquidityShare[v] <= LiquidityShare[w]

ASSUME ScoreAssumption ==
    /\ Tickers \subseteq [price : Nat, open : Nat, high : Nat, low : Nat,     \* parsePositiveOrZeroFloat
                          bid : Nat, ask : Nat, volume : Volumes]
    /\ Manuals \subseteq [rsi : Int, support : Int, trend : STRING, candle : STRING,
                          higherLow : BOOLEAN, entry : Int, stop : Int, target : Int]
    /\ Bodies \subseteq [price : Int, volume : Volumes, change : Int, drawdown : Int,
                         rsi : Int, support : Int, trend : STRING, candle : STRING,
                         higherLow : BOOLEAN, entry : Int, stop : Int, target : Int]
    /\ NoTicker \notin Tickers

VARIABLES
    ticker,  \* the stored ticker of the product
    verdict  \* the answer to the last request since it was stored

scoreVars == <<ticker, verdict>>

Least(a, b) == IF a < b THEN a ELSE b
Greatest(a, b) == IF a < b THEN b ELSE a
Clamp(x) == Least(10000, Greatest(x, 0))

-----------------------------------------------------------------------------
(* metrics.FromTicker *)

ValidTicker(t) ==
    /\ t.price > 0
    /\ t.ask >= t.bid
    /\ t.open # 0
    /\ t.high > 0 /\ t.high # t.low
    /\ t.volume >= 0

PercentChange(t) == (10000 * (t.price - t.open)) \div t.open
Drawdown(t) == (10000 * (t.high - t.price)) \div t.high

-----------------------------------------------------------------------------
(* omrinput.InputFromMetrics: a price above the day's high is refused, as a  *)
(* negative drawdown.                                                        *)

ValidMetrics(t) == Drawdown(t) >= 0

ValidManual(m) ==
    /\ m.rsi \in 0..100
    /\ m.support >= 0
    /\ m.trend \in Trends
    /\ m.candle \in Candles
    /\ m.stop > 0 /\ m.stop < m.entry /\ m.entry < m.target

InputFrom(t, m) ==
    [volume |-> t.volume, change |-> PercentChange(t), drawdown |-> Drawdown(t),
     rsi |-> m.rsi, support |-> m.support, trend |-> m.trend, candle |-> m.candle,
     higherLow |-> m.higherLow, entry |-> m.entry, stop |-> m.stop, target |-> m.target]

-----------------------------------------------------------------------------
(* toInput: the prices of a body need be positive, and in no order. *)

ValidBody(b) ==
    /\ b.price > 0 /\ b.volume >= 0 /\ b.drawdown >= 0 /\ b.support >= 0
    /\ b.rsi \in 0..100
    /\ b.trend \in Trends /\ b.candle \in Candles
    /\ b.entry > 0 /\ b.stop > 0 /\ b.target > 0

InputOf(b) ==
    [volume |-> b.volume, change |-> b.change, drawdown |-> b.drawdown, rsi |-> b.rsi,
     support |-> b.support, trend |-> b.trend, candle |-> b.candle,
     higherLow |-> b.higherLow, entry |-> b.entry, stop |-> b.stop, target |-> b.target]

-----------------------------------------------------------------------------
(* The hard filters. *)

insufficientLiquidity(i) == i.volume < 10

catastrophicSelloff(i) ==
    \/ i.change <= -2800
    \/ i.change <= -1800 /\ i.volume < 15 /\ i.drawdown >= 1400

ValidGeometry(i) == i.stop < i.entry /\ i.entry < i.target
RewardRisk(i) == (100 * (i.target - i.entry)) \div (i.entry - i.stop)

invalidRiskReward(i) == ~ValidGeometry(i) \/ RewardRisk(i) < 100

Filtered(i) == insufficientLiquidity(i) \/ catastrophicSelloff(i) \/ invalidRiskReward(i)

-----------------------------------------------------------------------------
(* The six category scores. *)

liquidityScore(i) == IF insufficientLiquidity(i) THEN 0 ELSE LiquidityShare[i.volume]

(* The mutant: two neighbouring tiers exchanged. *)
TrendTiersSwapped(i) ==
    CASE i.change >= 800  -> 10000
      [] i.change >= 400  /\ i.change < 800  -> 7200
      [] i.change >= 100  /\ i.change < 400  -> 8500
      [] i.change >= -100 /\ i.change < 100  -> 5800
      [] i.change >= -400 /\ i.change < -100 -> 4200
      [] i.change >= -800 /\ i.change < -400 -> 2800
      [] OTHER -> 1200

trendQualityScore(i) ==
    CASE i.change >= 800  -> 10000
      [] i.change >= 400  /\ i.change < 800  -> 8500
      [] i.change >= 100  /\ i.change < 400  -> 7200
      [] i.change >= -100 /\ i.change < 100  -> 5800
      [] i.change >= -400 /\ i.change < -100 -> 4200
      [] i.change >= -800 /\ i.change < -400 -> 2800
      [] OTHER -> 1200

PullbackTier(d) ==
    CASE d < 200 -> 3500
      [] d >= 200 /\ d <= 900 -> 9000
      [] d > 900 /\ d <= 1400 -> 6500
      [] OTHER -> 3000

pullbackQualityScore(i) ==
    IF i.change < -600 /\ i.drawdown > 1000
    THEN Least(PullbackTier(i.drawdown), 2500)
    ELSE PullbackTier(i.drawdown)

exhaustionScore(i) ==
    CASE i.rsi >= 28 /\ i.rsi <= 48 -> 8500
      [] i.rsi < 28 -> 4500
      [] i.rsi > 48 /\ i.rsi <= 65 -> 7000
      [] OTHER -> 5000

riskSetupScore(i) ==
    IF invalidRiskReward(i) THEN 0 ELSE Clamp((RewardRisk(i) - 100) * 35 + 5500)

TrendPoints == [rising |-> 1800, flat |-> 600, falling |-> -1200]
CandlePoints == [bullish_reversal |-> 2200, neutral |-> 400, bearish_continuation |-> -2500]
HigherLowPoints(i) == IF i.higherLow THEN 1500 ELSE 0
SupportPoints(i) == IF i.support <= 150 THEN 1200 ELSE IF i.support <= 300 THEN 600 ELSE 0
RsiPoints(i) == IF i.rsi >= 28 /\ i.rsi <= 45 THEN 600 ELSE 0

finalReversalScore(i) ==
    Clamp(4500 + TrendPoints[i.trend] + CandlePoints[i.candle] + HigherLowPoints(i)
              + SupportPoints(i) + RsiPoints(i))

-----------------------------------------------------------------------------
(* Score: the weighted sum, pulled down by each hard filter, and its label. *)

Weighted(i) ==
    15 * liquidityScore(i) + 20 * trendQualityScore(i) + 20 * pullbackQualityScore(i)
        + 15 * exhaustionScore(i) + 15 * riskSetupScore(i) + 15 * finalReversalScore(i)

CeilingOf(i) ==
    Least(IF catastrophicSelloff(i) THEN 320000 ELSE 1000000,
          Least(IF invalidRiskReward(i) THEN 250000 ELSE 1000000,
                IF insufficientLiquidity(i) THEN 220000 ELSE 1000000))

FinalScore(i) == Greatest(0, Least(Weighted(i), CeilingOf(i)))

(* The labels AVOID, WATCH, POSSIBLE_SETUP and STRONG_SETUP, as ranks. *)
Label(i) ==
    CASE Filtered(i) -> 0
      [] ~Filtered(i) /\ FinalScore(i) >= 800000 -> 3
      [] ~Filtered(i) /\ FinalScore(i) >= 600000 /\ FinalScore(i) < 800000 -> 2
      [] ~Filtered(i) /\ FinalScore(i) >= 400000 /\ FinalScore(i) < 600000 -> 1
      [] OTHER -> 0

-----------------------------------------------------------------------------
NoVerdict == [status |-> 0]
Refusals == [status : {0, 400, 404}]
Verdicts == Refusals \union [status : {200}, input : Inputs, score : Int, label : 0..3]

ScoreTypeOK ==
    /\ ticker \in Tickers \union {NoTicker}
    /\ verdict \in Verdicts

ScoreInit == ticker = NoTicker /\ verdict = NoVerdict

(* The feed stores another ticker. *)
Quote(t) == ticker' = t /\ verdict' = NoVerdict

Scored(i) == [status |-> 200, input |-> i, score |-> FinalScore(i), label |-> Label(i)]

(* ScoreMarketTickerOMR: no ticker, a ticker without metrics or fields that  *)
(* make no input are refused in that order; else the input is scored.        *)
Answer(t, m) ==
    CASE t = NoTicker -> [status |-> 404]
      [] t # NoTicker /\ ValidTicker(t) /\ ValidMetrics(t) /\ ValidManual(m) ->
            Scored(InputFrom(t, m))
      [] OTHER -> [status |-> 400]

ScoreTicker(m) == verdict' = Answer(ticker, m) /\ UNCHANGED ticker

(* ScoreOvernightMeanReversion: the stored ticker plays no part. *)
ScoreBody(b) ==
    /\ verdict' = IF ValidBody(b) THEN Scored(InputOf(b)) ELSE [status |-> 400]
    /\ UNCHANGED ticker

ScoreNext == \/ \E t \in Tickers : Quote(t)
             \/ \E m \in Manuals : ScoreTicker(m)
             \/ \E b \in Bodies : ScoreBody(b)

ScoreSpec == ScoreInit /\ [][ScoreNext]_scoreVars

-----------------------------------------------------------------------------
(* The inputs one favourable step away, within what the instance samples. *)
Improvements(i) ==
    {[i EXCEPT !.volume = v] : v \in {w \in Volumes : i.volume <= w}}
        \union {[i EXCEPT !.change = @ + d] : d \in {1, 100, 400, 1000}}
        \union {[i EXCEPT !.target = @ + d] : d \in {1, 3, 10}}
        \union {[i EXCEPT !.support = s] : s \in {n \in {100, 150, 300} : n <= i.support}}
        \union {[i EXCEPT !.trend = x] : x \in {y \in Trends : TrendPoints[i.trend] <= TrendPoints[y]}}
        \union {[i EXCEPT !.candle = x] : x \in {y \in Candles : CandlePoints[i.candle] <= CandlePoints[y]}}
        \union {[i EXCEPT !.higherLow = TRUE]}

(* A better setup never scores lower and never gets a weaker label: tiers,   *)
(* weights, clamps and the ceilings of three overlapping filters, each with  *)
(* thresholds of its own, leave no dip on the way up.                        *)
Monotone ==
    verdict.status = 200 =>
        \A j \in Improvements(verdict.input) :
            verdict.score <= FinalScore(j) /\ verdict.label <= Label(j)
=============================================================================
