------------------------------- MODULE Portfolio -------------------------------
(***************************************************************************)
(* The targets of a rebalance: PortfolioConstructor.construct              *)
(* (src/portfolio/constructor.py) with the trend penalties, the meme pool  *)
(* and the PAXG allocator it calls, and PreTradeValidator.validate_and_fix *)
(* (src/risk/pre_trade_checks.py).  All of it is pure; the constructor     *)
(* reads the regime and btc_vol_percentile of the detector it holds.       *)
(*                                                                         *)
(* Weights are parts of Nav, rounded down, and a portfolio is a function   *)
(* of the assets (0: not in the dict).                                     *)
(***************************************************************************)
EXTENDS Regime

CONSTANTS
  Nav,             \* the unit of weights: all of the net asset value
  Listed,          \* position of each asset in the scores: the order of ties
  Universe,        \* the assets of each tier, tier1 to tier5
  TierCap, CapOverride,         \* caps of the constructor, by tier and by asset
  PreTierCap, PreCapOverride,   \* caps of the pre-trade validator
  Exposure,        \* exposure targets by regime, with BULL_RISING
  Holdings,        \* max_holdings by regime
  MaxCrypto,       \* max_crypto_exposure
  MaxTurnover,     \* turnover_max_pct
  MinTrade,        \* min_trade_threshold_pct_nav
  VolMultiplier,   \* vol_exclusion_multiplier
  Penalty, BroadPenalty, BroadPct,   \* trend_penalty
  Memes, MemeRegimes, MemeTop, MemeWeight,   \* meme_pool
  PaxgWeight       \* the allocator's weight, the same in every regime

VolScale == 60     \* 1/volatility is taken times this
MaxRedist == 5     \* redistribution_max_iterations
BULL_RISING == "TREND_BULL_RISING_VOL"
PAXG == "PAXG"

\* _build_tier_map; an asset outside the universe ranks with tier 3
TierOf(a) ==
  IF a \in {PAXG, "TRUMP"} THEN "special"
  ELSE IF \E t \in DOMAIN Universe : a \in Universe[t]
       THEN CHOOSE t \in DOMAIN Universe : a \in Universe[t] ELSE "tier3"

Cap(a) == IF a \in DOMAIN CapOverride THEN CapOverride[a] ELSE TierCap[TierOf(a)]
PreCap(a) == IF a \in DOMAIN PreCapOverride THEN PreCapOverride[a] ELSE PreTierCap[TierOf(a)]

ASSUME PortfolioAssumption ==
  /\ IsFiniteSet(Asset) /\ PAXG \in Asset
  /\ Nav \in Nat \ {0} /\ \A a \in Asset : Cap(a) \in 0..Nav /\ PreCap(a) \in 0..Nav
  /\ Regimes \cup {BULL_RISING} \subseteq DOMAIN Exposure
  /\ \A r \in DOMAIN Exposure : Exposure[r] \in 0..Nav
  /\ {MaxCrypto, MemeWeight, PaxgWeight} \subseteq Nat
  /\ MinTrade \in Nat \ {0} /\ MaxTurnover \in Nat \ {0}

Weights == [Asset -> 0..Nav]
Empty == [a \in Asset |-> 0]
Total(w) == SumFunctionOnSet(w, Asset)
Smaller(x, y) == IF x < y THEN x ELSE y
Larger(x, y) == IF x < y THEN y ELSE x
Held(w) == {a \in Asset : w[a] > 0}
Scaled(w, S, num, den) == [a \in Asset |-> IF a \in S THEN (w[a] * num) \div den ELSE w[a]]

-----------------------------------------------------------------------------
\* _get_target_exposure
TargetExposure ==
  Smaller(MaxCrypto, Exposure[IF regime = BULL /\ btcVol # "calm" THEN BULL_RISING ELSE regime])

\* apply_penalties: the penalty is milder when most of the market falls
Penalised(market) ==
  LET scores == market.scores
      broad == 100 * Cardinality(market.bearish) >= BroadPct * Cardinality(market.warm)
               /\ market.warm # {}
  IN [a \in DOMAIN scores |->
        IF a \in market.bearish
        THEN scores[a] - (IF broad THEN BroadPenalty ELSE Penalty) ELSE scores[a]]

\* _rank_and_select: a stable sort, best first
Ahead(scores, b, a) ==
  scores[b] > scores[a] \/ (scores[b] = scores[a] /\ Listed[b] < Listed[a])
TopOf(scores, S, n) ==
  {a \in S : Cardinality({b \in S : Ahead(scores, b, a)}) < n}

\* the strata of step 5; with no holdings at all three slots are left
Slots1(n) == Smaller(5, Larger(1, n \div 4))
Slots2(n) == Smaller(12, Larger(2, n \div 3))
Slots3(n) == Larger(0, n - Slots1(n) - Slots2(n))
Ranked(scores, n) ==
  LET inTier(t) == {a \in DOMAIN scores : TierOf(a) = t}
  IN TopOf(scores, inTier("tier1"), Slots1(n)) \cup TopOf(scores, inTier("tier2"), Slots2(n))
       \cup TopOf(scores, inTier("tier3"), Slots3(n))

\* _apply_vol_filter: too volatile for the upper median; None is 0
Median(vol, S) ==
  CHOOSE m \in {vol[a] : a \in S} :
    /\ Cardinality({a \in S : vol[a] < m}) <= Cardinality(S) \div 2
    /\ Cardinality({a \in S : vol[a] <= m}) > Cardinality(S) \div 2
VolFiltered(S, vol) ==
  LET known == {a \in S : vol[a] > 0}
  IN IF Cardinality(known) < 2 THEN S
     ELSE {a \in S : vol[a] <= Median(vol, known) * VolMultiplier}

\* steps 5 to 7, with the fallback to the best of all assets
Candidates(market, n) ==
  LET adjusted == Penalised(market)
      kept == VolFiltered(Ranked(adjusted, n), market.vol)
  IN IF kept # {} THEN kept ELSE TopOf(adjusted, DOMAIN adjusted, Smaller(3, n))

\* _size_positions: inverse volatility, the highest one for the unknown
Sized(S, deployment, vol) ==
  LET known == {a \in S : vol[a] > 0}
      worst == CHOOSE v \in {vol[a] : a \in known} : \A a \in known : vol[a] <= v
      inverse == [a \in Asset |-> IF a \notin S THEN 0
                                  ELSE VolScale \div (IF a \in known THEN vol[a] ELSE worst)]
  IN CASE S = {} -> Empty
       [] S # {} /\ known = {} ->
            [a \in Asset |-> IF a \in S THEN deployment \div Cardinality(S) ELSE 0]
       [] OTHER -> [a \in Asset |-> (inverse[a] * deployment) \div Total(inverse)]

\* one iteration of _apply_tier_caps: the excess goes pro rata to the others
CappedOnce(w) ==
  LET over == {a \in Asset : w[a] > Cap(a)}
      excess == SumFunctionOnSet([a \in Asset |-> w[a] - Cap(a)], over)
      open == Held(w) \ over
  IN IF over = {} THEN w
     ELSE [a \in Asset |-> IF a \in over THEN Cap(a)
                           ELSE IF a \in open THEN w[a] + (excess * w[a]) \div SumFunctionOnSet(w, open)
                           ELSE w[a]]
Capped(w) ==
  LET after[k \in 0..MaxRedist] == IF k = 0 THEN w ELSE CappedOnce(after[k - 1])
  IN after[MaxRedist]

\* rank_and_select of the meme pool
MemeOf(market, in) ==
  IF in \in MemeRegimes THEN TopOf(market.scores, Memes \cap DOMAIN market.scores, MemeTop) ELSE {}

\* _combine_weights: memes out of the crypto budget, PAXG out of the cash
Combined(crypto, memes, exposure) ==
  LET budget == Larger(0, exposure - MemeWeight * Cardinality(memes))
      fitted == IF Total(crypto) > budget THEN Scaled(crypto, Asset, budget, Total(crypto))
                ELSE crypto
      merged == [a \in Asset |-> IF a = PAXG /\ PaxgWeight > 0 THEN PaxgWeight
                                 ELSE IF a \in memes THEN MemeWeight ELSE fitted[a]]
      rest == Asset \ (memes \cup {PAXG})
      sum == SumFunctionOnSet(merged, rest)
      excess == Total(merged) - Nav
      memeSum == SumFunctionOnSet(merged, memes)
  IN CASE excess <= 0 -> merged
       [] excess > 0 /\ sum >= excess -> Scaled(merged, rest, sum - excess, Larger(sum, 1))
       [] OTHER -> Scaled(Scaled(merged, rest, 0, 1), memes,
                          Larger(0, memeSum - (excess - sum)), Larger(memeSum, 1))

\* _apply_turnover_cap: a large reduction passes, the rest is slowed down
Moved(w, current) == SumFunctionOnSet([a \in Asset |-> Larger(w[a] - current[a], current[a] - w[a])], Asset)
Throttled(w, current) ==
  IF \/ Total(current) - Total(w) > MaxTurnover
     \/ Moved(w, current) <= 2 * MaxTurnover
  THEN w
  ELSE [a \in Asset |-> current[a] + ((w[a] - current[a]) * 2 * MaxTurnover) \div Moved(w, current)]

\* _suppress_small_trades
Suppressed(w, current) ==
  [a \in Asset |-> IF Larger(w[a] - current[a], current[a] - w[a]) < MinTrade
                   THEN current[a] ELSE w[a]]

Liquidates(endgame) == endgame.sellAll

\* mutant: the exposure of the endgame is ignored
EffectiveRegime(endgame) == TargetExposure

Effective(endgame) == Smaller(TargetExposure, endgame.exposure)

\* steps 8 to 14: sizes, caps, the meme pool, PAXG, turnover, small trades
Built(market, current, exposure) ==
  LET crypto == Capped(Sized(IF exposure > 0 THEN Candidates(market, Holdings[regime]) ELSE {},
                             exposure, market.vol))
  IN Suppressed(Throttled(Combined(crypto, MemeOf(market, regime), exposure), current), current)

\* construct, without scores and with them
Construct(market, current, endgame) ==
  CASE DOMAIN market.scores = {} -> current
    [] DOMAIN market.scores # {} /\ Liquidates(endgame) -> Empty
    [] OTHER -> Built(market, current, Effective(endgame))

-----------------------------------------------------------------------------
\* one iteration of validate_and_fix: the excess goes in equal parts to the
\* assets not capped in this iteration, whatever their caps
FixedOnce(w) ==
  LET over == {a \in Asset : w[a] > PreCap(a)}
      excess == SumFunctionOnSet([a \in Asset |-> w[a] - PreCap(a)], over)
      open == Held(w) \ over
  IN IF over = {} THEN w
     ELSE [a \in Asset |-> IF a \in over THEN PreCap(a)
                           ELSE IF a \in open THEN w[a] + excess \div Cardinality(open)
                           ELSE w[a]]

\* mutant: the caps are applied and the exposure is not
FixedCaps(w, deployment) ==
  LET after[k \in 0..MaxRedist] == IF k = 0 THEN w ELSE FixedOnce(after[k - 1])
  IN after[MaxRedist]

\* validate_and_fix: at most MaxRedist iterations, then all weights (PAXG's
\* too) are scaled to the deployment
Fixed(w, deployment) ==
  LET after[k \in 0..MaxRedist] == IF k = 0 THEN w ELSE FixedOnce(after[k - 1])
      final == after[MaxRedist]
  IN IF Total(final) <= deployment THEN final
     ELSE Scaled(final, Asset, deployment, Total(final))
=============================================================================
