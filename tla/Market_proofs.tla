---------------------------- MODULE Market_proofs ----------------------------
(***************************************************************************)
(* Proofs about TickerFeed and OvernightScore, for all time limits, any    *)
(* list of products and any number of outages, and for every table of      *)
(* liquidity shares.                                                       *)
(***************************************************************************)
EXTENDS TickerFeed, OvernightScore, TLAPS

-----------------------------------------------------------------------------
(* The shutdown waits no longer than one blocking call (TickerFeed).       *)

\* What the wait and what is left of the present call come to.  The delay
\* before a reconnect does not count: the cancellation ends it at once, and no
\* session is started after it.
StopsInv ==
    /\ waited \in Nat
    /\ ~cancelled => waited = 0
    /\ phase \in Phases
    /\ phase \in {"dialing", "reading"} => timer \in Nat /\ waited + timer <= LongestCall
    /\ phase \in {"running", "checking", "failed"} => waited <= LongestCall
    /\ phase = "waiting" => waited = 0

LEMMA CallFacts ==
    /\ LongestCall \in Nat
    /\ HandshakeTimeout \in Nat /\ HandshakeTimeout <= LongestCall
    /\ ReadDeadline \in Nat /\ ReadDeadline <= LongestCall
BY FeedAssumption DEF LongestCall

LEMMA StopsInit == FeedInit => StopsInv
BY CallFacts DEF FeedInit, StopsInv, Phases, cancelled

LEMMA AdapterStops ==
    ASSUME StopsInv, Adapter
    PROVE  StopsInv'
<1>1. UNCHANGED <<server, waited>>
  BY DEF Adapter, Start, Dialled, DialFails, CheckContext, Receive, ReadFails, SessionEnds, Wake
<1>2. CASE Start
  BY <1>1, <1>2, CallFacts DEF StopsInv, Start, At, cancelled, Phases
<1>3. CASE Dialled
  BY <1>1, <1>3, CallFacts DEF StopsInv, Dialled, At, cancelled, Phases
<1>4. CASE DialFails \/ ReadFails \/ Receive
  BY <1>1, <1>4, CallFacts DEF StopsInv, DialFails, ReadFails, Receive, At, cancelled, Phases
<1>5. CASE CheckContext
  BY <1>1, <1>5, CallFacts DEF StopsInv, CheckContext, MayRead, At, cancelled, Phases
<1>6. CASE SessionEnds
  BY <1>1, <1>6, CallFacts DEF StopsInv, SessionEnds, Retries, At, cancelled, Phases
<1>7. CASE Wake
  BY <1>1, <1>7, CallFacts DEF StopsInv, Wake, At, cancelled, Phases
<1> QED
  BY <1>2, <1>3, <1>4, <1>5, <1>6, <1>7 DEF Adapter

\* What the wait gains, the call loses.
LEMMA OneUnit ==
    ASSUME NEW left \in Nat, NEW w \in Nat, NEW longer \in Nat, NEW limit \in Nat,
           w + left <= limit, longer <= w + 1
    PROVE  longer + (left - 1) <= limit
OBVIOUS

\* The clock moves only while the adapter is blocked with time left.
LEMMA TickStops ==
    ASSUME StopsInv, Tick
    PROVE  StopsInv'
<1>1. UNCHANGED <<phase, server>> /\ timer' = timer - 1
  BY DEF Tick
<1>2. phase \in {"dialing", "reading", "waiting"}
  BY DEF StopsInv, Phases, Tick, Urgent
<1>3. CASE phase = "waiting"
  BY <1>1, <1>3 DEF StopsInv, Tick, Urgent, cancelled
<1>4. CASE phase \in {"dialing", "reading"}
  <2>1. timer \in Nat /\ timer # 0 /\ waited + timer <= LongestCall /\ waited \in Nat
    BY <1>4 DEF StopsInv, Tick, Urgent
  <2>2. waited' \in Nat /\ waited' <= waited + 1
    BY <2>1 DEF Tick
  <2>3. ~cancelled => waited' = waited
    BY DEF Tick
  <2>4. timer' \in Nat /\ timer' = timer - 1
    BY <1>1, <2>1
  <2>5. waited' + timer' <= LongestCall
    BY <2>1, <2>2, <2>4, CallFacts, OneUnit
  <2> QED
    BY <1>1, <1>4, <2>2, <2>3, <2>4, <2>5 DEF StopsInv, cancelled, Phases
<1> QED
  BY <1>2, <1>3, <1>4

\* A cancellation starts the count; nothing takes it back.
LEMMA ServerStops ==
    ASSUME StopsInv, Signal \/ CloseDown
    PROVE  StopsInv'
<1>1. UNCHANGED <<phase, timer, waited>> /\ server' # "serving"
  BY DEF Signal, CloseDown, NextStage
<1> QED
  BY <1>1 DEF StopsInv, cancelled

LEMMA StopsStep ==
    ASSUME StopsInv, [FeedNext]_feedVars
    PROVE  StopsInv'
<1>1. ASSUME \/ \E p \in Products : Publish(p) \/ Repeat(p)
             \/ Garble \/ Lose \/ Outage \/ Restore \/ UNCHANGED feedVars
      PROVE  UNCHANGED <<phase, timer, server, waited>>
  BY <1>1 DEF Publish, Repeat, Garble, Lose, Outage, Restore, feedVars
<1>2. CASE UNCHANGED <<phase, timer, server, waited>>
  BY <1>2 DEF StopsInv, cancelled
<1> QED
  BY <1>1, <1>2, AdapterStops, TickStops, ServerStops DEF FeedNext

\* However often the deadline was renewed and whatever session was being set up,
\* app.Run waits for the adapter at most one dial or one read.
THEOREM StopsInTimeHolds == FeedSpec => []StopsInTime
<1>1. StopsInv => StopsInTime
  BY CallFacts DEF StopsInv, StopsInTime, Phases
<1> QED
  BY <1>1, StopsInit, StopsStep, PTL DEF FeedSpec

-----------------------------------------------------------------------------
(* A better setup is never scored lower (OvernightScore).                  *)

LEMMA QuotientGrows ==
    ASSUME NEW a \in Int, NEW b \in Int, NEW d \in Nat, d > 0, a <= b
    PROVE  a \div d <= b \div d /\ a \div d \in Int /\ b \div d \in Int
OBVIOUS

LEMMA VolumeFacts ==
    /\ \A v \in Volumes : v \in Int /\ LiquidityShare[v] \in Int /\ 0 <= LiquidityShare[v]
    /\ \A v, w \in Volumes : v <= w => LiquidityShare[v] <= LiquidityShare[w]
BY VolumeAssumption

LEMMA TickerTypes ==
    /\ \A t \in Tickers :
          /\ t.price \in Nat /\ t.open \in Nat /\ t.high \in Nat
          /\ t.volume \in Volumes
    /\ NoTicker \notin Tickers
BY ScoreAssumption

LEMMA ManualTypes ==
    \A m \in Manuals :
       /\ m.rsi \in Int /\ m.support \in Int /\ m.higherLow \in BOOLEAN
       /\ m.entry \in Int /\ m.stop \in Int /\ m.target \in Int
BY ScoreAssumption

LEMMA BodyTypes ==
    \A b \in Bodies :
       /\ b.volume \in Volumes /\ b.change \in Int /\ b.drawdown \in Int
       /\ b.rsi \in Int /\ b.support \in Int /\ b.higherLow \in BOOLEAN
       /\ b.entry \in Int /\ b.stop \in Int /\ b.target \in Int
BY ScoreAssumption

LEMMA Points ==
    /\ TrendPoints["rising"] = 1800 /\ TrendPoints["flat"] = 600 /\ TrendPoints["falling"] = -1200
    /\ CandlePoints["bullish_reversal"] = 2200 /\ CandlePoints["neutral"] = 400
    /\ CandlePoints["bearish_continuation"] = -2500
    /\ \A x \in Trends : TrendPoints[x] \in Int
    /\ \A x \in Candles : CandlePoints[x] \in Int
BY DEF TrendPoints, CandlePoints, Trends, Candles

\* The categories are integers whatever the input; a ratio is only looked at
\* where its divisor is positive.
LEMMA CategoryTypes ==
    ASSUME NEW i \in Inputs
    PROVE  /\ liquidityScore(i) \in Int
           /\ trendQualityScore(i) \in Int
           /\ pullbackQualityScore(i) \in Int
           /\ exhaustionScore(i) \in Int
           /\ riskSetupScore(i) \in Int
           /\ finalReversalScore(i) \in Int
<1>1. liquidityScore(i) \in Int
  BY VolumeFacts DEF liquidityScore, Inputs
<1>2. trendQualityScore(i) \in Int
  BY DEF trendQualityScore
<1>3. pullbackQualityScore(i) \in Int
  BY DEF pullbackQualityScore, PullbackTier, Least
<1>4. exhaustionScore(i) \in Int
  BY DEF exhaustionScore
<1>5. riskSetupScore(i) \in Int
  <2>1. CASE ValidGeometry(i)
    <3>1. RewardRisk(i) \in Int
      BY <2>1 DEF ValidGeometry, RewardRisk, Inputs
    <3> QED
      BY <3>1 DEF riskSetupScore, Clamp, Least, Greatest
  <2>2. CASE ~ValidGeometry(i)
    BY <2>2 DEF riskSetupScore, invalidRiskReward
  <2> QED
    BY <2>1, <2>2
<1>6. finalReversalScore(i) \in Int
  <2>1. TrendPoints[i.trend] \in Int /\ CandlePoints[i.candle] \in Int
    BY Points DEF Inputs
  <2>2. HigherLowPoints(i) \in Int /\ SupportPoints(i) \in Int /\ RsiPoints(i) \in Int
    BY DEF HigherLowPoints, SupportPoints, RsiPoints
  <2> QED
    BY <2>1, <2>2 DEF finalReversalScore, Clamp, Least, Greatest
<1> QED
  BY <1>1, <1>2, <1>3, <1>4, <1>5, <1>6

LEMMA ScoreTypes ==
    ASSUME NEW i \in Inputs
    PROVE  /\ Weighted(i) \in Int /\ CeilingOf(i) \in Int
           /\ FinalScore(i) \in Int /\ Label(i) \in 0 .. 3
<1>1. Weighted(i) \in Int
  BY CategoryTypes DEF Weighted
<1>2. CeilingOf(i) \in Int
  BY DEF CeilingOf, Least
<1>3. FinalScore(i) \in Int
  BY <1>1, <1>2 DEF FinalScore, Least, Greatest
<1>4. Label(i) \in 0 .. 3
  BY DEF Label
<1> QED
  BY <1>1, <1>2, <1>3, <1>4

\* No category lower and no filter more.
NoWorse(i, j) ==
    /\ liquidityScore(i) <= liquidityScore(j)
    /\ trendQualityScore(i) <= trendQualityScore(j)
    /\ pullbackQualityScore(i) <= pullbackQualityScore(j)
    /\ exhaustionScore(i) <= exhaustionScore(j)
    /\ riskSetupScore(i) <= riskSetupScore(j)
    /\ finalReversalScore(i) <= finalReversalScore(j)
    /\ insufficientLiquidity(j) => insufficientLiquidity(i)
    /\ catastrophicSelloff(j) => catastrophicSelloff(i)
    /\ invalidRiskReward(j) => invalidRiskReward(i)

LEMMA NoWorseScores ==
    ASSUME NEW i \in Inputs, NEW j \in Inputs, NoWorse(i, j)
    PROVE  FinalScore(i) <= FinalScore(j) /\ Label(i) <= Label(j)
<1>1. Weighted(i) <= Weighted(j)
  BY CategoryTypes DEF NoWorse, Weighted
<1>2. CeilingOf(i) <= CeilingOf(j)
  BY DEF NoWorse, CeilingOf, Least
<1>3. FinalScore(i) <= FinalScore(j)
  BY <1>1, <1>2, ScoreTypes DEF FinalScore, Least, Greatest
<1>4. Filtered(j) => Filtered(i)
  BY DEF NoWorse, Filtered
<1>5. Label(i) <= Label(j)
  BY <1>3, <1>4, ScoreTypes DEF Label
<1> QED
  BY <1>3, <1>5


LEMMA MoreVolume ==
    ASSUME NEW i \in Inputs, NEW v \in Volumes, i.volume <= v
    PROVE  [i EXCEPT !.volume = v] \in Inputs /\ NoWorse(i, [i EXCEPT !.volume = v])
<1> DEFINE j == [i EXCEPT !.volume = v]
<1>1. /\ j \in Inputs /\ j.volume = v /\ j.change = i.change /\ j.drawdown = i.drawdown
      /\ j.rsi = i.rsi /\ j.support = i.support /\ j.trend = i.trend /\ j.candle = i.candle
      /\ j.higherLow = i.higherLow /\ j.entry = i.entry /\ j.stop = i.stop /\ j.target = i.target
  BY DEF Inputs
<1> HIDE DEF j
<1>2. i.volume \in Volumes /\ i.volume \in Int /\ v \in Int
  BY VolumeFacts DEF Inputs
<1>3. liquidityScore(i) <= liquidityScore(j) /\ (insufficientLiquidity(j) => insufficientLiquidity(i))
  <2>1. insufficientLiquidity(j) => insufficientLiquidity(i)
    BY <1>1, <1>2 DEF insufficientLiquidity
  <2>2. /\ LiquidityShare[i.volume] \in Int /\ LiquidityShare[v] \in Int
        /\ LiquidityShare[i.volume] <= LiquidityShare[v]
    BY <1>2, VolumeFacts
  <2>3. 0 <= LiquidityShare[v]
    BY VolumeFacts
  <2> QED
    BY <1>1, <2>1, <2>2, <2>3 DEF liquidityScore
<1>4. catastrophicSelloff(j) => catastrophicSelloff(i)
  BY <1>1, <1>2 DEF catastrophicSelloff
<1>5. /\ trendQualityScore(j) = trendQualityScore(i)
      /\ pullbackQualityScore(j) = pullbackQualityScore(i)
      /\ exhaustionScore(j) = exhaustionScore(i)
  BY <1>1 DEF trendQualityScore, pullbackQualityScore, exhaustionScore
<1>6. invalidRiskReward(j) = invalidRiskReward(i) /\ riskSetupScore(j) = riskSetupScore(i)
  BY <1>1 DEF invalidRiskReward, ValidGeometry, RewardRisk, riskSetupScore
<1>7. finalReversalScore(j) = finalReversalScore(i)
  BY <1>1 DEF finalReversalScore, HigherLowPoints, SupportPoints, RsiPoints
<1>8. NoWorse(i, j)
  BY <1>3, <1>4, <1>5, <1>6, <1>7, CategoryTypes DEF NoWorse
<1> QED
  BY <1>1, <1>8 DEF j

\* Three categories and a filter read the day's change, beside the drawdown and
\* the volume, and no tier of one undoes a tier of another.
LEMMA MoreChange ==
    ASSUME NEW i \in Inputs, NEW d \in Nat
    PROVE  [i EXCEPT !.change = @ + d] \in Inputs /\ NoWorse(i, [i EXCEPT !.change = @ + d])
<1> DEFINE j == [i EXCEPT !.change = @ + d]
<1>1. /\ j \in Inputs /\ j.volume = i.volume /\ j.change = i.change + d /\ j.drawdown = i.drawdown
      /\ j.rsi = i.rsi /\ j.support = i.support /\ j.trend = i.trend /\ j.candle = i.candle
      /\ j.higherLow = i.higherLow /\ j.entry = i.entry /\ j.stop = i.stop /\ j.target = i.target
  BY DEF Inputs
<1> HIDE DEF j
<1>2. /\ i.change \in Int /\ j.change \in Int /\ i.change <= j.change
      /\ i.drawdown \in Int /\ i.volume \in Int
  BY <1>1, VolumeFacts DEF Inputs
<1>3. trendQualityScore(i) <= trendQualityScore(j)
  BY <1>2 DEF trendQualityScore
<1>4. pullbackQualityScore(i) <= pullbackQualityScore(j)
  BY <1>1, <1>2 DEF pullbackQualityScore, PullbackTier, Least
<1>5. catastrophicSelloff(j) => catastrophicSelloff(i)
  BY <1>1, <1>2 DEF catastrophicSelloff
<1>6. /\ liquidityScore(j) = liquidityScore(i) /\ insufficientLiquidity(j) = insufficientLiquidity(i)
      /\ exhaustionScore(j) = exhaustionScore(i)
  BY <1>1 DEF liquidityScore, insufficientLiquidity, exhaustionScore
<1>7. invalidRiskReward(j) = invalidRiskReward(i) /\ riskSetupScore(j) = riskSetupScore(i)
  BY <1>1 DEF invalidRiskReward, ValidGeometry, RewardRisk, riskSetupScore
<1>8. finalReversalScore(j) = finalReversalScore(i)
  BY <1>1 DEF finalReversalScore, HigherLowPoints, SupportPoints, RsiPoints
<1>9. NoWorse(i, j)
  BY <1>3, <1>4, <1>5, <1>6, <1>7, <1>8, CategoryTypes DEF NoWorse
<1> QED
  BY <1>1, <1>9 DEF j

LEMMA MoreTarget ==
    ASSUME NEW i \in Inputs, NEW d \in Nat
    PROVE  [i EXCEPT !.target = @ + d] \in Inputs /\ NoWorse(i, [i EXCEPT !.target = @ + d])
<1> DEFINE j == [i EXCEPT !.target = @ + d]
<1>1. /\ j \in Inputs /\ j.volume = i.volume /\ j.change = i.change /\ j.drawdown = i.drawdown
      /\ j.rsi = i.rsi /\ j.support = i.support /\ j.trend = i.trend /\ j.candle = i.candle
      /\ j.higherLow = i.higherLow /\ j.entry = i.entry /\ j.stop = i.stop /\ j.target = i.target + d
  BY DEF Inputs
<1> HIDE DEF j
<1>2. i.target \in Int /\ i.entry \in Int /\ i.stop \in Int
  BY DEF Inputs
<1>3. ValidGeometry(i) =>
         /\ ValidGeometry(j)
         /\ RewardRisk(i) \in Int /\ RewardRisk(j) \in Int /\ RewardRisk(i) <= RewardRisk(j)
  <2> SUFFICES ASSUME ValidGeometry(i)
               PROVE  /\ ValidGeometry(j)
                      /\ RewardRisk(i) \in Int /\ RewardRisk(j) \in Int /\ RewardRisk(i) <= RewardRisk(j)
    OBVIOUS
  <2>1. ValidGeometry(j)
    BY <1>1, <1>2 DEF ValidGeometry
  <2>2. /\ 100 * (i.target - i.entry) \in Int /\ 100 * (j.target - j.entry) \in Int
        /\ 100 * (i.target - i.entry) <= 100 * (j.target - j.entry)
        /\ i.entry - i.stop \in Nat /\ i.entry - i.stop > 0 /\ j.entry - j.stop = i.entry - i.stop
    BY <1>1, <1>2 DEF ValidGeometry
  <2> QED
    BY <2>1, <2>2, QuotientGrows DEF RewardRisk
<1>4. invalidRiskReward(j) => invalidRiskReward(i)
  BY <1>3 DEF invalidRiskReward
<1>5. riskSetupScore(i) <= riskSetupScore(j)
  <2>1. CASE invalidRiskReward(i)
    <3>1. CASE invalidRiskReward(j)
      BY <2>1, <3>1 DEF riskSetupScore
    <3>2. CASE ~invalidRiskReward(j)
      <4>1. RewardRisk(j) \in Int
        BY <1>1, <3>2 DEF invalidRiskReward, ValidGeometry, RewardRisk, Inputs
      <4> QED
        BY <2>1, <3>2, <4>1 DEF riskSetupScore, Clamp, Least, Greatest
    <3> QED
      BY <3>1, <3>2
  <2>2. CASE ~invalidRiskReward(i)
    <3>1. ~invalidRiskReward(j) /\ RewardRisk(i) \in Int /\ RewardRisk(j) \in Int /\ RewardRisk(i) <= RewardRisk(j)
      BY <1>3, <1>4, <2>2 DEF invalidRiskReward
    <3> QED
      BY <2>2, <3>1 DEF riskSetupScore, Clamp, Least, Greatest
  <2> QED
    BY <2>1, <2>2
<1>6. /\ liquidityScore(j) = liquidityScore(i) /\ insufficientLiquidity(j) = insufficientLiquidity(i)
      /\ catastrophicSelloff(j) = catastrophicSelloff(i)
  BY <1>1 DEF liquidityScore, insufficientLiquidity, catastrophicSelloff
<1>7. /\ trendQualityScore(j) = trendQualityScore(i)
      /\ pullbackQualityScore(j) = pullbackQualityScore(i)
      /\ exhaustionScore(j) = exhaustionScore(i)
  BY <1>1 DEF trendQualityScore, pullbackQualityScore, exhaustionScore
<1>8. finalReversalScore(j) = finalReversalScore(i)
  BY <1>1 DEF finalReversalScore, HigherLowPoints, SupportPoints, RsiPoints
<1>9. NoWorse(i, j)
  BY <1>4, <1>5, <1>6, <1>7, <1>8, CategoryTypes DEF NoWorse
<1> QED
  BY <1>1, <1>9 DEF j

\* The analyst's support, trend, candle and higher low only count in the last category.
LEMMA BetterReversal ==
    ASSUME NEW i \in Inputs, NEW j \in Inputs,
           j.volume = i.volume, j.change = i.change, j.drawdown = i.drawdown, j.rsi = i.rsi,
           j.entry = i.entry, j.stop = i.stop, j.target = i.target,
           j.support <= i.support,
           TrendPoints[i.trend] <= TrendPoints[j.trend],
           CandlePoints[i.candle] <= CandlePoints[j.candle],
           i.higherLow => j.higherLow
    PROVE  NoWorse(i, j)
<1>1. /\ liquidityScore(j) = liquidityScore(i) /\ insufficientLiquidity(j) = insufficientLiquidity(i)
      /\ catastrophicSelloff(j) = catastrophicSelloff(i)
  BY DEF liquidityScore, insufficientLiquidity, catastrophicSelloff
<1>2. /\ trendQualityScore(j) = trendQualityScore(i)
      /\ pullbackQualityScore(j) = pullbackQualityScore(i)
      /\ exhaustionScore(j) = exhaustionScore(i)
  BY DEF trendQualityScore, pullbackQualityScore, exhaustionScore
<1>3. invalidRiskReward(j) = invalidRiskReward(i) /\ riskSetupScore(j) = riskSetupScore(i)
  BY DEF invalidRiskReward, ValidGeometry, RewardRisk, riskSetupScore
<1>4. finalReversalScore(i) <= finalReversalScore(j)
  <2>1. /\ TrendPoints[i.trend] \in Int /\ CandlePoints[i.candle] \in Int
        /\ TrendPoints[j.trend] \in Int /\ CandlePoints[j.candle] \in Int
    BY Points DEF Inputs
  <2>2. /\ HigherLowPoints(i) \in Int /\ HigherLowPoints(j) \in Int
        /\ HigherLowPoints(i) <= HigherLowPoints(j)
    BY DEF HigherLowPoints
  <2>3. SupportPoints(i) \in Int /\ SupportPoints(j) \in Int /\ SupportPoints(i) <= SupportPoints(j)
    BY DEF SupportPoints, Inputs
  <2>4. RsiPoints(i) \in Int /\ RsiPoints(j) = RsiPoints(i)
    BY DEF RsiPoints
  <2> QED
    BY <2>1, <2>2, <2>3, <2>4 DEF finalReversalScore, Clamp, Least, Greatest
<1> QED
  BY <1>1, <1>2, <1>3, <1>4, CategoryTypes DEF NoWorse

\* One field of a valid input replaced by another value of that field.
LEMMA Replaced ==
    ASSUME NEW i \in Inputs
    PROVE  /\ \A s \in Int : s <= i.support =>
                 [i EXCEPT !.support = s] \in Inputs /\ NoWorse(i, [i EXCEPT !.support = s])
           /\ \A x \in Trends : TrendPoints[i.trend] <= TrendPoints[x] =>
                 [i EXCEPT !.trend = x] \in Inputs /\ NoWorse(i, [i EXCEPT !.trend = x])
           /\ \A x \in Candles : CandlePoints[i.candle] <= CandlePoints[x] =>
                 [i EXCEPT !.candle = x] \in Inputs /\ NoWorse(i, [i EXCEPT !.candle = x])
           /\ [i EXCEPT !.higherLow = TRUE] \in Inputs /\ NoWorse(i, [i EXCEPT !.higherLow = TRUE])
<1>0. /\ i.support \in Int /\ i.trend \in Trends /\ i.candle \in Candles
      /\ TrendPoints[i.trend] \in Int /\ CandlePoints[i.candle] \in Int
  BY Points DEF Inputs
<1>1. ASSUME NEW s \in Int, s <= i.support
      PROVE  [i EXCEPT !.support = s] \in Inputs /\ NoWorse(i, [i EXCEPT !.support = s])
  <2> DEFINE j == [i EXCEPT !.support = s]
  <2>1. /\ j \in Inputs /\ j.volume = i.volume /\ j.change = i.change /\ j.drawdown = i.drawdown
        /\ j.rsi = i.rsi /\ j.support = s /\ j.trend = i.trend /\ j.candle = i.candle
        /\ j.higherLow = i.higherLow /\ j.entry = i.entry /\ j.stop = i.stop /\ j.target = i.target
    BY DEF Inputs
  <2> HIDE DEF j
  <2>2. NoWorse(i, j)
    BY <1>0, <1>1, <2>1, BetterReversal
  <2> QED
    BY <2>1, <2>2 DEF j
<1>2. ASSUME NEW x \in Trends, TrendPoints[i.trend] <= TrendPoints[x]
      PROVE  [i EXCEPT !.trend = x] \in Inputs /\ NoWorse(i, [i EXCEPT !.trend = x])
  <2> DEFINE j == [i EXCEPT !.trend = x]
  <2>1. /\ j \in Inputs /\ j.volume = i.volume /\ j.change = i.change /\ j.drawdown = i.drawdown
        /\ j.rsi = i.rsi /\ j.support = i.support /\ j.trend = x /\ j.candle = i.candle
        /\ j.higherLow = i.higherLow /\ j.entry = i.entry /\ j.stop = i.stop /\ j.target = i.target
    BY DEF Inputs
  <2> HIDE DEF j
  <2>2. NoWorse(i, j)
    BY <1>0, <1>2, <2>1, BetterReversal
  <2> QED
    BY <2>1, <2>2 DEF j
<1>3. ASSUME NEW x \in Candles, CandlePoints[i.candle] <= CandlePoints[x]
      PROVE  [i EXCEPT !.candle = x] \in Inputs /\ NoWorse(i, [i EXCEPT !.candle = x])
  <2> DEFINE j == [i EXCEPT !.candle = x]
  <2>1. /\ j \in Inputs /\ j.volume = i.volume /\ j.change = i.change /\ j.drawdown = i.drawdown
        /\ j.rsi = i.rsi /\ j.support = i.support /\ j.trend = i.trend /\ j.candle = x
        /\ j.higherLow = i.higherLow /\ j.entry = i.entry /\ j.stop = i.stop /\ j.target = i.target
    BY DEF Inputs
  <2> HIDE DEF j
  <2>2. NoWorse(i, j)
    BY <1>0, <1>3, <2>1, BetterReversal
  <2> QED
    BY <2>1, <2>2 DEF j
<1>4. [i EXCEPT !.higherLow = TRUE] \in Inputs /\ NoWorse(i, [i EXCEPT !.higherLow = TRUE])
  <2> DEFINE j == [i EXCEPT !.higherLow = TRUE]
  <2>1. /\ j \in Inputs /\ j.volume = i.volume /\ j.change = i.change /\ j.drawdown = i.drawdown
        /\ j.rsi = i.rsi /\ j.support = i.support /\ j.trend = i.trend /\ j.candle = i.candle
        /\ j.higherLow /\ j.entry = i.entry /\ j.stop = i.stop /\ j.target = i.target
    BY DEF Inputs
  <2> HIDE DEF j
  <2>2. NoWorse(i, j)
    BY <1>0, <2>1, BetterReversal
  <2> QED
    BY <2>1, <2>2 DEF j
<1> QED
  BY <1>1, <1>2, <1>3, <1>4

\* Whichever single field improves, the improved input is a valid one that no
\* category scores lower and no filter holds back more.
LEMMA ImprovementsNoWorse ==
    ASSUME NEW i \in Inputs, NEW j \in Improvements(i)
    PROVE  j \in Inputs /\ NoWorse(i, j)
<1>1. CASE \E v \in Volumes : i.volume <= v /\ j = [i EXCEPT !.volume = v]
  BY <1>1, MoreVolume
<1>2. CASE \E d \in Nat : j = [i EXCEPT !.change = @ + d]
  BY <1>2, MoreChange
<1>3. CASE \E d \in Nat : j = [i EXCEPT !.target = @ + d]
  BY <1>3, MoreTarget
<1>4. CASE \E s \in Int : s <= i.support /\ j = [i EXCEPT !.support = s]
  BY <1>4, Replaced
<1>5. CASE \E x \in Trends : TrendPoints[i.trend] <= TrendPoints[x] /\ j = [i EXCEPT !.trend = x]
  BY <1>5, Replaced
<1>6. CASE \E x \in Candles : CandlePoints[i.candle] <= CandlePoints[x] /\ j = [i EXCEPT !.candle = x]
  BY <1>6, Replaced
<1>7. CASE j = [i EXCEPT !.higherLow = TRUE]
  BY <1>7, Replaced
<1>8. {1, 100, 400, 1000} \subseteq Nat /\ {1, 3, 10} \subseteq Nat /\ {100, 150, 300} \subseteq Int
  OBVIOUS
<1> QED
  BY <1>1, <1>2, <1>3, <1>4, <1>5, <1>6, <1>7, <1>8 DEF Improvements

\* A ticker the handler does not refuse and fields it accepts make a valid input:
\* the opening price and the high it divides by are positive.
LEMMA InputFromTyped ==
    ASSUME NEW t \in Tickers, NEW m \in Manuals, ValidTicker(t), ValidManual(m)
    PROVE  InputFrom(t, m) \in Inputs
<1>1. t.price \in Nat /\ t.open \in Nat /\ t.high \in Nat /\ t.volume \in Volumes
  BY TickerTypes
<1>2. t.open > 0 /\ t.high > 0
  BY <1>1 DEF ValidTicker
<1>3. PercentChange(t) \in Int
  BY <1>1, <1>2 DEF PercentChange
<1>4. Drawdown(t) \in Int
  BY <1>1, <1>2 DEF Drawdown
<1>5. /\ m.rsi \in Int /\ m.support \in Int /\ m.higherLow \in BOOLEAN
      /\ m.entry \in Int /\ m.stop \in Int /\ m.target \in Int
  BY ManualTypes
<1>6. m.trend \in Trends /\ m.candle \in Candles
  BY DEF ValidManual
<1> QED
  BY <1>1, <1>3, <1>4, <1>5, <1>6 DEF InputFrom, Inputs

LEMMA InputOfTyped ==
    ASSUME NEW b \in Bodies, ValidBody(b)
    PROVE  InputOf(b) \in Inputs
<1>1. b.trend \in Trends /\ b.candle \in Candles
  BY DEF ValidBody
<1> QED
  BY <1>1, BodyTypes DEF InputOf, Inputs

\* The last answer is a refusal or the score of a valid input, computed from the
\* whole of it.
ScoreInv ==
    /\ ticker \in Tickers \union {NoTicker}
    /\ verdict \in Refusals \/ \E i \in Inputs : verdict = Scored(i)

LEMMA ScoreStart == ScoreInit => ScoreInv
BY DEF ScoreInit, ScoreInv, NoVerdict, Refusals

LEMMA AnswerScored ==
    ASSUME NEW t \in Tickers \union {NoTicker}, NEW m \in Manuals
    PROVE  Answer(t, m) \in Refusals \/ \E i \in Inputs : Answer(t, m) = Scored(i)
<1>1. CASE t # NoTicker /\ ValidTicker(t) /\ ValidMetrics(t) /\ ValidManual(m)
  <2>1. InputFrom(t, m) \in Inputs
    BY <1>1, InputFromTyped
  <2>2. Answer(t, m) = Scored(InputFrom(t, m))
    BY <1>1 DEF Answer
  <2> QED
    BY <2>1, <2>2
<1>2. CASE t = NoTicker
  BY <1>2 DEF Answer, Refusals
<1>3. CASE t # NoTicker /\ ~(ValidTicker(t) /\ ValidMetrics(t) /\ ValidManual(m))
  BY <1>3 DEF Answer, Refusals
<1> QED
  BY <1>1, <1>2, <1>3

LEMMA ScoreStep == ScoreInv /\ [ScoreNext]_scoreVars => ScoreInv'
<1> SUFFICES ASSUME ScoreInv, [ScoreNext]_scoreVars
             PROVE  ScoreInv'
  OBVIOUS
<1>1. ASSUME NEW t \in Tickers, Quote(t)
      PROVE  ScoreInv'
  BY <1>1 DEF Quote, ScoreInv, NoVerdict, Refusals
<1>2. ASSUME NEW m \in Manuals, ScoreTicker(m)
      PROVE  ScoreInv'
  BY <1>2, AnswerScored DEF ScoreTicker, ScoreInv
<1>3. ASSUME NEW b \in Bodies, ScoreBody(b)
      PROVE  ScoreInv'
  BY <1>3, InputOfTyped DEF ScoreBody, ScoreInv, Refusals
<1>4. CASE UNCHANGED scoreVars
  BY <1>4 DEF scoreVars, ScoreInv
<1> QED
  BY <1>1, <1>2, <1>3, <1>4 DEF ScoreNext

LEMMA ScoreInductive == ScoreSpec => []ScoreInv
BY ScoreStart, ScoreStep, PTL DEF ScoreSpec

\* Every answer is a refusal or a score with a label, of an input of the type
\* Score takes.
THEOREM ScoreTypeCorrect == ScoreSpec => []ScoreTypeOK
<1>1. ScoreInv => ScoreTypeOK
  <2> SUFFICES ASSUME ScoreInv
               PROVE  ScoreTypeOK
    OBVIOUS
  <2>1. ASSUME NEW i \in Inputs, verdict = Scored(i)
        PROVE  verdict \in Verdicts
    BY <2>1, ScoreTypes DEF Scored, Verdicts
  <2> QED
    BY <2>1 DEF ScoreInv, ScoreTypeOK, Verdicts
<1> QED
  BY <1>1, ScoreInductive, PTL

\* Whatever the prices, the liquidity table and the requests, no favourable step
\* lowers the score or weakens the label of Score's answer.
THEOREM MonotoneHolds == ScoreSpec => []Monotone
<1>1. ScoreInv => Monotone
  <2> SUFFICES ASSUME ScoreInv, verdict.status = 200, NEW j \in Improvements(verdict.input)
               PROVE  verdict.score <= FinalScore(j) /\ verdict.label <= Label(j)
    BY DEF Monotone
  <2>1. verdict \notin Refusals
    BY DEF Refusals
  <2>2. PICK i \in Inputs : verdict = Scored(i)
    BY <2>1 DEF ScoreInv
  <2>3. verdict.input = i /\ verdict.score = FinalScore(i) /\ verdict.label = Label(i)
    BY <2>2 DEF Scored
  <2>4. j \in Inputs /\ NoWorse(i, j)
    BY <2>3, ImprovementsNoWorse
  <2> QED
    BY <2>3, <2>4, NoWorseScores
<1> QED
  BY <1>1, ScoreInductive, PTL
=============================================================================
