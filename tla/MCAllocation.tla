----------------------------- MODULE MCAllocation ------------------------------
(***************************************************************************)
(* A small universe for Allocation with the weights of config.yaml.        *)
(***************************************************************************)
EXTENDS Allocation, TLC

MCExposure == BULL :> 200 @@ BULL_RISING :> 170 @@ MEAN :> 150 @@ BEAR :> 70 @@ CRISIS :> 30
MCHoldings == BULL :> 30 @@ MEAN :> 20 @@ BEAR :> 10 @@ CRISIS :> 0
MCListed == "BTC" :> 1 @@ "AVAX" :> 2 @@ "PEPE" :> 3 @@ "PAXG" :> 4
MCUniverse == "tier1" :> {"BTC"} @@ "tier2" :> {"AVAX"} @@ "tier3" :> {}
                @@ "tier4_meme" :> {"PEPE"} @@ "tier5" :> {}
MCTierCap == "tier1" :> 100 @@ "tier2" :> 30 @@ "tier3" :> 10 @@ "tier4_meme" :> 2
               @@ "tier5" :> 2 @@ "special" :> 16
MCPreTierCap == "tier1" :> 16 @@ "tier2" :> 16 @@ "tier3" :> 12 @@ "tier4_meme" :> 6
                  @@ "tier5" :> 4 @@ "special" :> 30
MCOverride == "DOGE" :> 10 @@ "TRUMP" :> 4 @@ "PAXG" :> 30
MCSchedule == {[left |-> 192, exposure |-> 100, override |-> NoOverride],
               [left |-> 16, exposure |-> 25, override |-> 300],
               [left |-> 4, exposure |-> 15, override |-> 200]}

MCBar(h4, h24, breadth, vol, btc, avax) ==
  [in |-> [h4 |-> h4, h24 |-> h24, breadth |-> breadth, vol |-> vol],
   returns |-> "BTC" :> btc @@ "AVAX" :> avax]
MCBars == {MCBar("up", "up", "bull", "calm", 10, 10),       \* a bull market
           MCBar("down", "down", "bear", "calm", -10, -10), \* a bear market
           MCBar("flat", None, "mid", None, 0, 0),          \* nothing known yet
           MCBar("up", "up", "bull", "crisis", 10, 10),     \* volatility
           MCBar("flat", "flat", "mid", "calm", -400, -400), \* contagion
           MCBar("up", "nan", "bull", "calm", 10, 10)}

MCMarket(scores, volOfBtc, volOfAvax, warm, bearish) ==
  [scores |-> scores, warm |-> warm, bearish |-> bearish,
   vol |-> "BTC" :> volOfBtc @@ "AVAX" :> volOfAvax @@ "PEPE" :> 0 @@ "PAXG" :> 0]
MCScores(btc, avax, pepe) == "BTC" :> btc @@ "AVAX" :> avax @@ "PEPE" :> pepe
MCNoScores == [a \in {} |-> 0]
MCMarkets == {MCMarket(MCScores(5, 4, 3), 1, 2, {}, {}),
              MCMarket("AVAX" :> 4, 0, 0, {"BTC", "AVAX"}, {"AVAX"}),
              MCMarket(MCNoScores, 0, 0, {}, {})}
=============================================================================
