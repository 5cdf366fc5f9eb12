------------------------------ MODULE Allocation -------------------------------
(***************************************************************************)
(* The jobs that decide how much to hold, composed: regime_update_tick and *)
(* rebalance_tick of src/main.py over the detector (Regime), the           *)
(* constructor and the pre-trade validator (Portfolio) and the countdown   *)
(* (Endgame).  The detector looks at the returns of what is held, and what *)
(* is held depends on the regime.                                          *)
(*                                                                         *)
(* The execution layer is reduced to its outcome, the assets whose orders  *)
(* fill; Execution models how.  Prices do not move between rebalances:     *)
(* the book changes by fills alone.                                        *)
(***************************************************************************)
EXTENDS Portfolio, Endgame

CONSTANTS
  Bars,       \* what a regime update sees: [in, returns]
  Markets,    \* what a rebalance sees: [scores, vol, warm, bearish]
  Instants,   \* the quarters of an hour left at which the clock is looked at
  Exitable,   \* the assets the risk layer may sell
  MaxExits    \* bound: how often it does

VARIABLES
  book,       \* weight of each asset, get_current_weights
  left,       \* time left in the round
  exits,      \* positions sold by the risk layer so far
  rebalanced  \* history: a rebalance with scores came after the last valid bar

vars == <<regimeVars, book, left, exits, rebalanced>>

Instant(t) == \A u \in Instants : u <= t

ASSUME AllocationAssumption ==
  /\ \A b \in Bars : /\ b.in \in Inputs /\ DOMAIN b.returns \subseteq Asset
                    /\ b.returns \in [DOMAIN b.returns -> Int]
  /\ \A m \in Markets : /\ DOMAIN m.scores \subseteq Asset /\ m.bearish \subseteq m.warm
                       /\ m.vol \in [Asset -> 0..VolScale]
  /\ Instants \subseteq Nat /\ (\E t \in Instants : Instant(t)) /\ MaxExits \in Nat

EndgameOf(t) == [exposure |-> (Nav * MaxExposure(t)) \div 100, sellAll |-> SellAll(t)]

\* a trade below the threshold is not made
Slack == Cardinality(Asset) * (MinTrade - 1)

(* Types.  The weights add up to all of the value and the trades not made. *)
TypeOK == RegimeTypeOK /\ book \in Weights /\ Total(book) <= Nav + Slack /\ left \in Instants
            /\ exits \in 0..MaxExits /\ rebalanced \in BOOLEAN

Init == /\ RegimeInit /\ book = Empty /\ left = CHOOSE t \in Instants : Instant(t)
        /\ exits = 0 /\ rebalanced = FALSE

RegimeTick == /\ \E b \in Bars : /\ Update(b.in, Crowd(Held(book), b.returns))
                               /\ rebalanced' = (rebalanced /\ ~Valid(b.in))
              /\ UNCHANGED <<book, left, exits>>

\* the orders of build_orders_from_weights that pass the trade threshold
Ordered(final) == {a \in Asset : Larger(final[a] - book[a], book[a] - final[a]) >= MinTrade}

\* the weights after construct and pre_trade_check
Final(market) == Fixed(Construct(market, book, EndgameOf(left)), TargetExposure)

Rebalance(final) ==
  /\ book' = [a \in Asset |-> IF a \in Ordered(final) THEN final[a] ELSE book[a]]
  /\ UNCHANGED <<regimeVars, left, exits>>

Scored == {m \in Markets : DOMAIN m.scores # {}}
RebalanceIn(S) == \E market \in S : \E final \in {Final(market)} : Rebalance(final)
RebalanceTick == \/ RebalanceIn(Scored) /\ rebalanced' = TRUE
                 \/ RebalanceIn(Markets \ Scored) /\ UNCHANGED rebalanced

Elapse == /\ \E t \in Instants : /\ t < left /\ left' = t
                                 /\ \A u \in Instants : u < left => u <= t
          /\ UNCHANGED <<regimeVars, book, exits, rebalanced>>

\* risk_check_tick: a stop or a breaker sells the whole position
RiskExit == /\ exits < MaxExits /\ exits' = exits + 1
            /\ \E a \in Held(book) \cap Exitable : book' = [book EXCEPT ![a] = 0]
            /\ UNCHANGED <<regimeVars, left, rebalanced>>

Next == RiskExit \/ RegimeTick \/ RebalanceTick \/ Elapse

Spec == Init /\ [][Next]_vars

\* both jobs keep running, and neither the inputs nor the scores stay away for
\* ever; a rebalance is always possible, so []<> asks no more than weak fairness
Fairness == WF_vars(RegimeTick) /\ []<>rebalanced
FairSpec == Spec /\ Fairness

-----------------------------------------------------------------------------
(* What is held after a rebalance whose orders all fill is at most the     *)
(* exposure of the regime, PAXG included, whatever the caps redistribute   *)
(* and whatever was held before.                                           *)
WithinExposure ==
  [][UNCHANGED regimeVars /\ UNCHANGED left /\ book' # book /\ exits' = exits
       => Total(book') <= TargetExposure + Slack]_vars

\* the exposure of the time left; PAXG comes on top until everything is sold
EndgameLimit == IF SellAll(left) THEN Slack ELSE EndgameOf(left).exposure + PaxgWeight + Slack

(* The book comes down to the exposure of the time left, though the        *)
(* turnover cap slows every rebalance down and the pre-trade validator     *)
(* knows only the exposure of the regime.                                  *)
EndgameReached == []<>(Total(book) <= EndgameLimit)
=============================================================================
