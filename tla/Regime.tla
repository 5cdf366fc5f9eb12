--------------------------------- MODULE Regime --------------------------------
(***************************************************************************)
(* RegimeDetector (src/regime/detector.py), its RegimeState and its        *)
(* ContagionProbe.  Each update classifies the market and moves the regime *)
(* asymmetrically: a downgrade at once, an upgrade after UpgradeBars bars  *)
(* that agree, the crisis left after ExitBars calm bars.                   *)
(*                                                                         *)
(* BTC's returns, the breadth and the volatility are abstracted to the     *)
(* ranges the comparisons tell apart; "none" is None, "nan" a value that   *)
(* validate_regime_inputs rejects.                                         *)
(***************************************************************************)
EXTENDS Integers, FiniteSets, Functions

CONSTANTS
  Asset,
  UpgradeBars, ExitBars,   \* upgrade_ and crisis_exit_persistence_minutes
  SmallSize,               \* contagion_small_portfolio_size
  RatioPct, LossBp,        \* contagion thresholds: percent, basis points
  SmallRatioPct, SmallLossBp

BULL == "TREND_BULL"
BEAR == "TREND_BEAR"
MEAN == "MEAN_REVERT"
CRISIS == "HIGH_VOL_CRISIS"
Regimes == {BULL, BEAR, MEAN, CRISIS}
None == "none"

MicroRatioPct == 99      \* the one- or two-asset portfolio of _classify
MicroLossBp == 300
ExitRatioPct == 50       \* crisis_exit_contagion_below

ASSUME RegimeAssumption ==
  /\ UpgradeBars \in Nat \ {0} /\ ExitBars \in Nat \ {0}
  /\ SmallSize \in Nat /\ {RatioPct, LossBp, SmallRatioPct, SmallLossBp} \subseteq Nat
  /\ RatioPct >= ExitRatioPct /\ SmallRatioPct >= ExitRatioPct

VARIABLES
  regime,      \* current_regime
  target,      \* transition_target, None when nothing is pending
  remaining,   \* transition_bars_remaining
  streak,      \* _crisis_exit_streak
  btcVol,      \* the range of state.btc_vol_percentile
  last,        \* the candidate of the last valid bar
  agree,       \* history: valid bars in a row with that candidate, up to UpgradeBars
  calm         \* history: calm valid bars in a row, up to ExitBars

detector == <<regime, target, remaining, streak, btcVol>>
history == <<last, agree, calm>>
regimeVars == <<detector, history>>

Trends == {"up", "down", "flat", None, "nan"}
Breadths == {"bull", "mid", "bear", None, "nan"}
\* below 70, above 70, above 90
Vols == {"calm", "rising", "crisis", None, "nan"}
Inputs == [h4 : Trends, h24 : Trends, breadth : Breadths, vol : Vols]

(* The variables hold values of their types.                               *)
RegimeTypeOK ==
  /\ regime \in Regimes /\ target \in Regimes \cup {None}
  /\ remaining \in 0..(UpgradeBars + ExitBars) /\ streak \in 0..(ExitBars - 1)
  /\ btcVol \in {"calm", "rising", "crisis"} /\ last \in Regimes \cup {None}
  /\ agree \in 0..UpgradeBars /\ calm \in 0..ExitBars

-----------------------------------------------------------------------------
Downgrades == {<<BULL, CRISIS>>, <<BULL, BEAR>>, <<MEAN, CRISIS>>, <<MEAN, BEAR>>, <<BEAR, CRISIS>>}
Upgrades == {<<CRISIS, BEAR>>, <<CRISIS, MEAN>>, <<CRISIS, BULL>>,
             <<BEAR, MEAN>>, <<BEAR, BULL>>, <<MEAN, BULL>>}

\* ContagionProbe.compute over the 5-minute returns (basis points) of the
\* held assets that have one
NoCrowd == [down |-> 0, seen |-> 0, loss |-> 0, small |-> FALSE]
Crowd(held, returns) ==
  LET seen == held \cap DOMAIN returns
      down == {a \in seen : returns[a] < 0}
  IN IF seen = {} THEN [NoCrowd EXCEPT !.small = held # {} /\ Cardinality(held) < SmallSize]
     ELSE [down |-> Cardinality(down), seen |-> Cardinality(seen),
           loss |-> -SumFunctionOnSet(returns, down),
           small |-> Cardinality(held) < SmallSize]

RatioAbove(crowd, pct) == 100 * crowd.down > pct * crowd.seen
RatioBelow(crowd, pct) == crowd.seen = 0 \/ 100 * crowd.down < pct * crowd.seen
LossAbove(crowd, bp) == crowd.loss > bp * crowd.down

Contagious(crowd) ==
  IF ~crowd.small THEN RatioAbove(crowd, RatioPct) /\ LossAbove(crowd, LossBp)
  ELSE /\ RatioAbove(crowd, SmallRatioPct) /\ LossAbove(crowd, SmallLossBp)
       /\ RatioBelow(crowd, MicroRatioPct) \/ LossAbove(crowd, MicroLossBp)

\* _classify: the first rule that matches
Classified(in, crowd) ==
  CASE Contagious(crowd) \/ in.vol = "crisis" -> CRISIS
    [] OTHER ->
       IF in.h4 = "up" /\ in.h24 = "up" /\ in.breadth = "bull" THEN BULL
       ELSE IF in.h4 = "down" /\ in.h24 = "down" /\ in.breadth = "bear" THEN BEAR
       ELSE MEAN

\* validate_regime_inputs, after the defaults for None
Valid(in) == "nan" \notin {in.h4, in.h24, in.breadth, in.vol}

\* the condition to leave a crisis; a missing volatility counts as zero
Calm(in, crowd) == RatioBelow(crowd, ExitRatioPct) /\ in.vol \in {"calm", None}

-----------------------------------------------------------------------------
Confirm(new) == regime' = new /\ target' = None /\ remaining' = 0
StartUpgrade(new, bars) == target' = new /\ remaining' = bars /\ UNCHANGED regime
CancelUpgrade == target' = None /\ remaining' = 0 /\ UNCHANGED regime

\* mutant: off by one, one calm bar too many is asked for
LeaveCrisisLate(candidate, isCalm) ==
  IF ~isCalm THEN CancelUpgrade /\ streak' = 0
  ELSE IF streak + 1 > ExitBars THEN Confirm(candidate) /\ streak' = 0
  ELSE StartUpgrade(candidate, ExitBars - (streak + 1)) /\ streak' = streak + 1

\* mutant: one bar that is not calm is forgiven
LeaveCrisisForgiving(candidate, isCalm) ==
  IF ~isCalm THEN CancelUpgrade /\ UNCHANGED streak
  ELSE IF streak + 1 >= ExitBars THEN Confirm(candidate) /\ streak' = 0
  ELSE StartUpgrade(candidate, ExitBars - (streak + 1)) /\ streak' = streak + 1

\* _handle_crisis_exit: the candidate of the last bar is the one confirmed
LeaveCrisis(candidate, isCalm) ==
  IF ~isCalm THEN CancelUpgrade /\ streak' = 0
  ELSE IF streak + 1 >= ExitBars THEN Confirm(candidate) /\ streak' = 0
  ELSE /\ StartUpgrade(IF target = None THEN candidate ELSE target, ExitBars - (streak + 1))
       /\ streak' = streak + 1

\* mutant: the count of bars survives a change of target
UpgradeRetargeted(candidate) ==
  /\ UNCHANGED streak
  /\ IF target = None THEN StartUpgrade(candidate, UpgradeBars - 1)
     ELSE IF remaining - 1 <= 0 THEN Confirm(candidate)
     ELSE StartUpgrade(candidate, remaining - 1)

\* mutant: a pending upgrade ignores another target
UpgradeKeepsTarget(candidate) ==
  /\ UNCHANGED streak
  /\ IF target = None THEN StartUpgrade(candidate, UpgradeBars - 1)
     ELSE IF candidate # target THEN StartUpgrade(target, UpgradeBars)
     ELSE IF remaining - 1 <= 0 THEN Confirm(candidate)
     ELSE StartUpgrade(candidate, remaining - 1)

\* the confirmation window of an upgrade; another target starts it afresh
Upgrade(candidate) ==
  /\ UNCHANGED streak
  /\ IF target = None THEN StartUpgrade(candidate, UpgradeBars - 1)
     ELSE IF target # candidate THEN StartUpgrade(candidate, UpgradeBars)
     ELSE IF remaining - 1 <= 0 THEN Confirm(candidate)
     ELSE StartUpgrade(candidate, remaining - 1)

\* _apply_transition
Transition(candidate, isCalm) ==
  IF candidate = regime THEN CancelUpgrade /\ streak' = 0
  ELSE IF regime = CRISIS THEN LeaveCrisis(candidate, isCalm)
  ELSE IF <<regime, candidate>> \in Downgrades THEN Confirm(candidate) /\ streak' = 0
  ELSE IF <<regime, candidate>> \in Upgrades THEN Upgrade(candidate)
  ELSE Confirm(candidate) /\ UNCHANGED streak

Remember(candidate, isCalm) ==
  /\ last' = candidate
  /\ agree' = IF candidate # last THEN 1 ELSE IF agree < UpgradeBars THEN agree + 1 ELSE agree
  /\ calm' = IF ~isCalm THEN 0 ELSE IF calm < ExitBars THEN calm + 1 ELSE calm

\* update: with invalid inputs the regime and its counts stay as they are
Update(in, crowd) ==
  IF ~Valid(in) THEN UNCHANGED regimeVars
  ELSE /\ Transition(Classified(in, crowd), Calm(in, crowd))
       /\ btcVol' = IF in.vol = None THEN "calm" ELSE in.vol
       /\ Remember(Classified(in, crowd), Calm(in, crowd))

RegimeInit ==
  /\ regime = MEAN /\ target = None /\ remaining = 0 /\ streak = 0 /\ btcVol = "calm"
  /\ last = None /\ agree = 0 /\ calm = 0

RegimeStep == \E in \in Inputs, held \in SUBSET Asset, seen \in SUBSET Asset :
                \E returns \in [seen -> Int] : Update(in, Crowd(held, returns))

RegimeSpec == RegimeInit /\ [][RegimeStep]_regimeVars

-----------------------------------------------------------------------------
(* "Upgrades: require confirmation_bars consecutive confirming bars": the  *)
(* detector never moves up before UpgradeBars valid bars in a row asked    *)
(* for that regime, whatever targets it pursued in between.                *)
UpgradeEarned ==
  [][regime # CRISIS /\ <<regime, regime'>> \in Upgrades
       => last' = regime' /\ agree' = UpgradeBars]_regimeVars

(* A crisis is left only after ExitBars calm valid bars in a row, also     *)
(* when the regime asked for changes from bar to bar.                      *)
CrisisExitEarned == [][regime = CRISIS /\ regime' # CRISIS => calm' = ExitBars]_regimeVars

(* A market that keeps asking for a regime gets it, and one that stays     *)
(* calm ends the crisis: the regime does not stay apart from what the bars *)
(* ask for unless they keep changing, or, in a crisis, keep being alarmed. *)
RegimeFollows == []<>(IF regime = CRISIS THEN calm = 0 ELSE regime = last \/ agree = 1)
=============================================================================
