------------------------------ MODULE MCMarket ------------------------------
(***************************************************************************)
(* Instances of TickerFeed and OvernightScore for TLC.  The score reads    *)
(* the store the feed fills, one ticker at a time and whatever it is, so   *)
(* a behaviour runs one of them while the other stays at rest.  An answer  *)
(* ends a behaviour of the score: the next request starts afresh.          *)
(***************************************************************************)
EXTENDS TickerFeed, OvernightScore

CONSTANTS a, b

(* A list with a repetition, one with a blank, one that is refused, an empty one. *)
MCConfigs == {<<a, b, a>>, <<Blank, b>>, <<a, Misspelt>>, <<>>}

(* Volumes below, on and above each threshold, and their logarithmic share. *)
MCVolumes == {9, 10, 14, 15, 90, 800, 900}
MCLiquidityShare ==
    [v \in MCVolumes |-> CASE v <= 10 -> 0 [] v = 14 -> 767 [] v = 15 -> 925
                           [] v = 90 -> 5014 [] OTHER -> 10000]

(* A day's falls and rises around a tier's edge; a price above the high, a   *)
(* crossed book and a day without an opening price.                          *)
MCTickers ==
    [price : {71, 79, 93, 97, 101, 105}, open : {100}, low : {60}, high : {104, 110},
     bid : {1}, ask : {1}, volume : MCVolumes]
        \union [price : {101}, open : {0, 100}, low : {60}, high : {110},
                bid : {2}, ask : {1}, volume : {90}]

MCManuals ==
    [rsi : {20, 40, 47, 101}, support : {150, 400}, trend : {"falling", "rising"},
     candle : {"neutral", "bearish_continuation"}, higherLow : BOOLEAN,
     entry : {100}, stop : {95}, target : {104, 105, 112}]
        \union [rsi : {40}, support : {150}, trend : {"flat", "sideways"},
                candle : {"bullish_reversal", "neutral"}, higherLow : {TRUE},
                entry : {100}, stop : {95, 100}, target : {112}]

(* Prices in any order, a fall no ticker above shows, and a body that is refused. *)
MCBodies ==
    [price : {100}, volume : {14, 90}, change : {-2801, -1801, 799},
     drawdown : {1300, 1400}, rsi : {50}, support : {301},
     trend : {"flat"}, candle : {"bullish_reversal"}, higherLow : {FALSE},
     entry : {100}, stop : {95, 101}, target : {99, 104, 106}]
        \union [price : {0}, volume : {90}, change : {0}, drawdown : {0}, rsi : {50},
                support : {0}, trend : {"flat"}, candle : {"neutral"}, higherLow : {TRUE},
                entry : {100}, stop : {95}, target : {110}]

MarketInit == FeedInit /\ ScoreInit

MarketNext ==
    \/ verdict = NoVerdict /\ ticker = NoTicker /\ FeedNext /\ UNCHANGED scoreVars
    \/ /\ phase = "running" /\ server = "serving" /\ attempt = 0 /\ reachable
       /\ quotes = [p \in Products |-> 0] /\ config.url /\ config.products = <<>>
       /\ verdict = NoVerdict /\ ScoreNext /\ UNCHANGED feedVars

MarketSpec == MarketInit /\ [][MarketNext]_<<feedVars, scoreVars>> /\ FeedFairness
=============================================================================
