---------------------------- MODULE AllocationProofs ----------------------------
(***************************************************************************)
(* The asymmetric transitions, for all confirmation windows and every      *)
(* sequence of markets.  The argument: the counts the detector keeps in    *)
(* RegimeState and _crisis_exit_streak never run ahead of the market's.    *)
(* Outside a crisis a pending upgrade is the candidate of the last bar and *)
(* the bars already taken off its window agreed with it (UpgradeCounted);  *)
(* in a crisis the streak counts calm bars only (StreakCounted).           *)
(*                                                                         *)
(* The detector inside Allocation, where what it sees depends on what is   *)
(* held, implements the detector alone, whatever is held.                  *)
(*                                                                         *)
(* The exposure, for every universe, cap and market: each operation of the *)
(* constructor and of the validator keeps the weights natural (Folio), the *)
(* last scaling makes their sum the deployment or less (SumShares), and a  *)
(* trade too small to be made leaves at most MinTrade - 1 of each asset    *)
(* over the target (SumWithin).                                            *)
(***************************************************************************)
EXTENDS Allocation, FiniteSetTheorems, TLAPS

(* A pending upgrade was asked for by the last bars.                       *)
UpgradeCounted ==
  regime # CRISIS /\ target # None => last = target /\ agree >= UpgradeBars - remaining

(* The streak of a crisis is one of calm bars; outside there is none.      *)
StreakCounted == streak <= calm /\ (regime # CRISIS => streak = 0)

\* the window of an upgrade, and that of a crisis
WindowTyped ==
  /\ regime # CRISIS => remaining <= UpgradeBars
  /\ target = None => remaining = 0

RegimeInv == RegimeTypeOK /\ UpgradeCounted /\ StreakCounted /\ WindowTyped

USE DEF BULL, BEAR, MEAN, CRISIS, None, Regimes

LEMMA RegimeInitHolds == RegimeInit => RegimeInv
BY RegimeAssumption
   DEF RegimeInit, RegimeInv, RegimeTypeOK, UpgradeCounted, StreakCounted, WindowTyped

(* The bookkeeping of the market's bars.                                   *)
LEMMA Remembered ==
  ASSUME RegimeTypeOK, NEW c \in Regimes, NEW k \in BOOLEAN, Remember(c, k)
  PROVE  /\ last' = c
         /\ agree' \in 0..UpgradeBars /\ agree' >= 1
         /\ c = last => agree' = UpgradeBars \/ agree' = agree + 1
         /\ calm' \in 0..ExitBars
         /\ k => calm' = ExitBars \/ calm' = calm + 1
<1> agree \in 0..UpgradeBars /\ calm \in 0..ExitBars
  BY DEF RegimeTypeOK
<1> UpgradeBars \in Nat \ {0} /\ ExitBars \in Nat \ {0}
  BY RegimeAssumption
<1>1. last' = c /\ agree' = IF c # last THEN 1 ELSE IF agree < UpgradeBars THEN agree + 1 ELSE agree
  BY DEF Remember
<1>2. calm' = IF ~k THEN 0 ELSE IF calm < ExitBars THEN calm + 1 ELSE calm
  BY DEF Remember
<1> QED BY <1>1, <1>2

(* A bar moves the detector inside the invariant, and up or out of a       *)
(* crisis only with a full window behind it.                               *)
LEMMA TransitionEarned ==
  ASSUME RegimeInv, NEW c \in Regimes, NEW k \in BOOLEAN,
         Transition(c, k), Remember(c, k), btcVol' \in {"calm", "rising", "crisis"}
  PROVE  /\ RegimeInv'
         /\ regime # CRISIS /\ <<regime, regime'>> \in Upgrades => last' = regime' /\ agree' = UpgradeBars
         /\ regime = CRISIS /\ regime' # CRISIS => calm' = ExitBars
<1> UpgradeBars \in Nat \ {0} /\ ExitBars \in Nat \ {0}
  BY RegimeAssumption
<1>0. RegimeTypeOK /\ UpgradeCounted /\ StreakCounted /\ WindowTyped
  BY DEF RegimeInv
<1> /\ regime \in Regimes /\ target \in Regimes \cup {None}
    /\ remaining \in 0..(UpgradeBars + ExitBars) /\ streak \in 0..(ExitBars - 1)
    /\ last \in Regimes \cup {None} /\ agree \in 0..UpgradeBars /\ calm \in 0..ExitBars
  BY <1>0 DEF RegimeTypeOK
<1>R. /\ last' = c
      /\ agree' \in 0..UpgradeBars /\ agree' >= 1
      /\ c = last => agree' = UpgradeBars \/ agree' = agree + 1
      /\ calm' \in 0..ExitBars
      /\ k => calm' = ExitBars \/ calm' = calm + 1
  BY <1>0, Remembered
<1>1. CASE c = regime
  <2>1. regime' = regime /\ target' = None /\ remaining' = 0 /\ streak' = 0
    BY <1>1 DEF Transition, CancelUpgrade
  <2> QED BY <1>R, <2>1
       DEF RegimeInv, RegimeTypeOK, UpgradeCounted, StreakCounted, WindowTyped, Upgrades
<1>2. CASE c # regime /\ regime = CRISIS
  <2>0. LeaveCrisis(c, k)
    BY <1>2 DEF Transition
  <2>1. CASE ~k
    <3>1. regime' = regime /\ target' = None /\ remaining' = 0 /\ streak' = 0
      BY <2>0, <2>1 DEF LeaveCrisis, CancelUpgrade
    <3> QED BY <1>2, <1>R, <3>1
         DEF RegimeInv, RegimeTypeOK, UpgradeCounted, StreakCounted, WindowTyped
  <2>2. CASE k /\ streak + 1 >= ExitBars
    <3>1. regime' = c /\ target' = None /\ remaining' = 0 /\ streak' = 0
      BY <2>0, <2>2 DEF LeaveCrisis, Confirm
    <3>2. calm' = ExitBars
      BY <1>0, <1>R, <2>2 DEF StreakCounted
    <3> QED BY <1>2, <1>R, <3>1, <3>2
         DEF RegimeInv, RegimeTypeOK, UpgradeCounted, StreakCounted, WindowTyped
  <2>3. CASE k /\ ~(streak + 1 >= ExitBars)
    <3>1. /\ regime' = regime /\ target' \in Regimes
          /\ remaining' = ExitBars - (streak + 1) /\ streak' = streak + 1
      BY <2>0, <2>3 DEF LeaveCrisis, StartUpgrade
    <3>2. streak' <= calm'
      BY <1>0, <1>R, <2>3, <3>1 DEF StreakCounted
    <3> QED BY <1>2, <1>R, <2>3, <3>1, <3>2
         DEF RegimeInv, RegimeTypeOK, UpgradeCounted, StreakCounted, WindowTyped
  <2> QED BY <2>1, <2>2, <2>3
<1>3. CASE c # regime /\ regime # CRISIS /\ <<regime, c>> \in Upgrades
  <2>0. <<regime, c>> \notin Downgrades /\ streak = 0 /\ remaining <= UpgradeBars
    BY <1>0, <1>3 DEF Upgrades, Downgrades, StreakCounted, WindowTyped
  <2>1. Upgrade(c) /\ streak' = 0
    BY <1>3, <2>0 DEF Transition, Upgrade
  <2>2. CASE target = None
    <3>1. target' = c /\ remaining' = UpgradeBars - 1 /\ regime' = regime
      BY <2>1, <2>2 DEF Upgrade, StartUpgrade
    <3> QED BY <1>3, <1>R, <2>1, <3>1
         DEF RegimeInv, RegimeTypeOK, UpgradeCounted, StreakCounted, WindowTyped, Upgrades
  <2>3. CASE target # None /\ target # c
    <3>1. target' = c /\ remaining' = UpgradeBars /\ regime' = regime
      BY <2>1, <2>3 DEF Upgrade, StartUpgrade
    <3> QED BY <1>3, <1>R, <2>1, <3>1
         DEF RegimeInv, RegimeTypeOK, UpgradeCounted, StreakCounted, WindowTyped, Upgrades
  <2>4. CASE target = c /\ remaining - 1 <= 0
    <3>1. regime' = c /\ target' = None /\ remaining' = 0
      BY <2>1, <2>4 DEF Upgrade, Confirm
    <3>2. last = c /\ agree >= UpgradeBars - remaining
      BY <1>0, <1>3, <2>4 DEF UpgradeCounted
    <3>3. agree' = UpgradeBars
      BY <1>R, <2>4, <3>2
    <3> QED BY <1>3, <1>R, <2>1, <3>1, <3>3
         DEF RegimeInv, RegimeTypeOK, UpgradeCounted, StreakCounted, WindowTyped
  <2>5. CASE target = c /\ ~(remaining - 1 <= 0)
    <3>1. target' = c /\ remaining' = remaining - 1 /\ regime' = regime
      BY <2>1, <2>5 DEF Upgrade, StartUpgrade
    <3>2. last = c /\ agree >= UpgradeBars - remaining
      BY <1>0, <1>3, <2>5 DEF UpgradeCounted
    <3>3. agree' >= UpgradeBars - remaining'
      BY <1>R, <2>5, <3>1, <3>2
    <3> QED BY <1>3, <1>R, <2>0, <2>1, <2>5, <3>1, <3>3
         DEF RegimeInv, RegimeTypeOK, UpgradeCounted, StreakCounted, WindowTyped, Upgrades
  <2> QED BY <2>2, <2>3, <2>4, <2>5
<1>4. CASE c # regime /\ regime # CRISIS /\ <<regime, c>> \notin Upgrades
  <2>1. regime' = c /\ target' = None /\ remaining' = 0 /\ streak' = 0
    BY <1>0, <1>4 DEF Transition, Confirm, StreakCounted
  <2> QED BY <1>4, <1>R, <2>1
       DEF RegimeInv, RegimeTypeOK, UpgradeCounted, StreakCounted, WindowTyped
<1> QED BY <1>1, <1>2, <1>3, <1>4

(* Every update of the detector is such a bar, or changes nothing.         *)
LEMMA StepEarned ==
  ASSUME RegimeInv, RegimeStep
  PROVE  /\ RegimeInv'
         /\ regime # CRISIS /\ <<regime, regime'>> \in Upgrades => last' = regime' /\ agree' = UpgradeBars
         /\ regime = CRISIS /\ regime' # CRISIS => calm' = ExitBars
<1>0. PICK in \in Inputs : \E crowd : Update(in, crowd)
  BY DEF RegimeStep
<1>1. PICK crowd : Update(in, crowd)
  BY <1>0
<1>2. CASE ~Valid(in)
  <2>1. UNCHANGED regimeVars
    BY <1>1, <1>2 DEF Update
  <2> QED BY <2>1 DEF RegimeInv, RegimeTypeOK, UpgradeCounted, StreakCounted, WindowTyped,
                      regimeVars, detector, history, Upgrades
<1>3. CASE Valid(in)
  <2> DEFINE c == Classified(in, crowd)
             k == Calm(in, crowd)
  <2>1. c \in Regimes
    BY DEF Classified
  <2>2. k \in BOOLEAN
    BY DEF Calm
  <2>3. btcVol' \in {"calm", "rising", "crisis"}
    BY <1>1, <1>3 DEF Update, Valid, Inputs, Vols
  <2>4. Transition(c, k) /\ Remember(c, k)
    BY <1>1, <1>3 DEF Update
  <2> HIDE DEF c, k
  <2> QED BY <2>1, <2>2, <2>3, <2>4, TransitionEarned
<1> QED BY <1>2, <1>3

LEMMA StutterKeeps == RegimeInv /\ UNCHANGED regimeVars => RegimeInv'
BY DEF RegimeInv, RegimeTypeOK, UpgradeCounted, StreakCounted, WindowTyped,
       regimeVars, detector, history

LEMMA RegimeInvariant == RegimeSpec => []RegimeInv
<1>1. RegimeInv /\ [RegimeStep]_regimeVars => RegimeInv'
  BY StepEarned, StutterKeeps
<1> QED BY RegimeInitHolds, <1>1, PTL DEF RegimeSpec

(* The jobs together, with the portfolio that a regime leads to feeding    *)
(* the contagion probe, are one behaviour of the detector: the rebalance,  *)
(* the exits and the clock leave its state alone (main.py:434-545).        *)
THEOREM DetectorImplemented == Spec => RegimeSpec
<1>1. Init => RegimeInit
  BY DEF Init
<1>2. ASSUME RegimeTick PROVE RegimeStep
  <2>1. PICK b \in Bars : Update(b.in, Crowd(Held(book), b.returns))
    BY <1>2 DEF RegimeTick
  <2>2. /\ b.in \in Inputs /\ DOMAIN b.returns \in SUBSET Asset
        /\ b.returns \in [DOMAIN b.returns -> Int]
    BY AllocationAssumption
  <2>3. Held(book) \in SUBSET Asset
    BY DEF Held
  <2> QED BY <2>1, <2>2, <2>3 DEF RegimeStep
<1>3. ASSUME RebalanceTick PROVE UNCHANGED regimeVars
  BY <1>3 DEF RebalanceTick, RebalanceIn, Rebalance
<1>4. ASSUME Next PROVE [RegimeStep]_regimeVars
  BY <1>2, <1>3, <1>4 DEF Next, RiskExit, Elapse
<1>5. UNCHANGED vars => UNCHANGED regimeVars
  BY DEF vars
<1>6. [Next]_vars => [RegimeStep]_regimeVars
  BY <1>4, <1>5
<1> QED BY <1>1, <1>6, PTL DEF Spec, RegimeSpec

(* Every variable of the detector keeps its type (RegimeDetector.update).  *)
THEOREM RegimeTyped == Spec => []RegimeTypeOK
<1>1. RegimeInv => RegimeTypeOK
  BY DEF RegimeInv
<1> QED BY DetectorImplemented, RegimeInvariant, <1>1, PTL

(* "Upgrades: require confirmation_bars consecutive confirming bars", for  *)
(* every window (RegimeDetector._apply_transition).                        *)
THEOREM UpgradesConfirmed == Spec => UpgradeEarned
<1>1. RegimeInv /\ [RegimeStep]_regimeVars
        => [regime # CRISIS /\ <<regime, regime'>> \in Upgrades
              => last' = regime' /\ agree' = UpgradeBars]_regimeVars
  BY StepEarned
<1> QED BY DetectorImplemented, RegimeInvariant, <1>1, PTL DEF RegimeSpec, UpgradeEarned

(* A crisis ends only after a full streak of calm bars, for every streak   *)
(* (RegimeDetector._handle_crisis_exit).                                   *)
THEOREM CrisisOutlasted == Spec => CrisisExitEarned
<1>1. RegimeInv /\ [RegimeStep]_regimeVars
        => [regime = CRISIS /\ regime' # CRISIS => calm' = ExitBars]_regimeVars
  BY StepEarned
<1> QED BY DetectorImplemented, RegimeInvariant, <1>1, PTL DEF RegimeSpec, CrisisExitEarned

-----------------------------------------------------------------------------
(* Sums over finite sets, by taking out one element after another.         *)

(* What holds of the empty set, and of a set when it holds of the set less *)
(* any one of its elements, holds of every finite set.                     *)
LEMMA OneByOne ==
  ASSUME NEW S, IsFiniteSet(S), NEW T, {} \in T,
         \A s \in SUBSET S : (s # {} /\ \A x \in s : s \ {x} \in T) => s \in T
  PROVE  \A s \in SUBSET S : s \in T
<1> DEFINE R == {s \in SUBSET S : s \notin T}
<1> SUFFICES ASSUME R # {} PROVE FALSE
  OBVIOUS
<1>1. IsWellFoundedOn(StrictSubsetOrdering(S), FiniteSubsetsOf(S))
  BY FS_StrictSubsetOrderingWellFounded
<1>2. R \subseteq FiniteSubsetsOf(S)
  BY FS_Subset DEF FiniteSubsetsOf
<1>3. PICK s \in R : \A r \in R : <<r, s>> \notin StrictSubsetOrdering(S)
  <2> HIDE DEF R
  <2> QED BY <1>1, <1>2, WFMin
<1>4. s \in SUBSET S /\ s \notin T /\ s # {}
  BY <1>3
<1>5. ASSUME NEW x \in s PROVE s \ {x} \in T
  <2>1. s \ {x} \in SUBSET S /\ s \ {x} \subseteq s /\ s \ {x} # s
    BY <1>4, <1>5
  <2>2. <<s \ {x}, s>> \in StrictSubsetOrdering(S)
    BY <1>4, <2>1 DEF StrictSubsetOrdering
  <2> QED BY <1>3, <2>1, <2>2
<1> QED BY <1>4, <1>5

(* What holds of 0 and of the successor of each number below n that it     *)
(* holds of, holds up to n.                                                *)
Less == {p \in Nat \X Nat : p[1] < p[2]}

LEMMA Rising ==
  ASSUME NEW n \in Nat, NEW S, 0 \in S, \A i \in 0..(n - 1) : i \in S => i + 1 \in S
  PROVE  n \in S
<1> DEFINE R == (0..n) \ S
<1> SUFFICES ASSUME R # {} PROVE FALSE
  OBVIOUS
<1>1. IsWellFoundedOn(Less, Nat)
  BY NatLessThanWellFounded DEF OpToRel, Less
<1>2. PICK x \in R : \A y \in R : <<y, x>> \notin Less
  <2>1. R \subseteq Nat
    OBVIOUS
  <2> HIDE DEF R
  <2> QED BY <1>1, <2>1, WFMin
<1>3. x \in 0..n /\ x \notin S /\ x # 0 /\ x - 1 \in 0..(n - 1) /\ x \in Nat
  BY <1>2
<1>4. <<x - 1, x>> \in Less
  BY <1>3 DEF Less
<1>5. x - 1 \in S
  BY <1>2, <1>3, <1>4
<1>6. x - 1 + 1 \in S
  BY <1>3, <1>5
<1> QED BY <1>3, <1>6

Summed(f, g, s) == IF s = {} THEN 0 ELSE LET x == CHOOSE x \in s : TRUE IN f[x] + g[s \ {x}]

\* g holds the sum of each subset of S
Totals(f, g, S) == \A s \in SUBSET S : g[s] = Summed(f, g, s)

LEMMA SumDefined ==
  ASSUME NEW f, NEW S, IsFiniteSet(S)
  PROVE  \E g : Totals(f, g, S) /\ SumFunctionOnSet(f, S) = g[S]
<1> DEFINE Upto(k) == {s \in SUBSET S : Cardinality(s) <= k}
           T == {k \in Nat : \E g : g = [s \in Upto(k) |-> Summed(f, g, s)]}
<1>1. 0 \in T
  <2> DEFINE g == [s \in Upto(0) |-> 0]
  <2>1. \A s \in Upto(0) : s = {}
    <3> TAKE s \in Upto(0)
    <3>1. IsFiniteSet(s) /\ Cardinality(s) \in Nat /\ Cardinality(s) <= 0
      BY FS_Subset, FS_CardinalityType
    <3> QED BY <3>1, FS_EmptySet
  <2>2. \A s \in Upto(0) : g[s] = Summed(f, g, s)
    BY <2>1 DEF Summed
  <2>3. g = [s \in Upto(0) |-> Summed(f, g, s)]
    BY <2>2
  <2> HIDE DEF g
  <2> QED BY <2>3
<1>2. ASSUME NEW k \in 0..(Cardinality(S) - 1), k \in T PROVE k + 1 \in T
  <2>1. PICK g : g = [s \in Upto(k) |-> Summed(f, g, s)]
    BY <1>2
  <2> DEFINE h == [s \in Upto(k + 1) |-> IF s \in Upto(k) THEN g[s] ELSE Summed(f, g, s)]
  <2>2. \A s \in Upto(k + 1) : h[s] = Summed(f, h, s)
    <3> SUFFICES ASSUME NEW s \in Upto(k + 1) PROVE h[s] = Summed(f, h, s)
      OBVIOUS
    <3>1. h[s] = Summed(f, g, s)
      <4>1. CASE s \in Upto(k)
        <5>1. h[s] = g[s]
          BY <4>1
        <5> HIDE DEF h, Upto
        <5> QED BY <2>1, <4>1, <5>1
      <4>2. CASE s \notin Upto(k)
        BY <4>2
      <4> QED BY <4>1, <4>2
    <3>2. \A x \in s : h[s \ {x}] = g[s \ {x}]
      <4> TAKE x \in s
      <4>1. IsFiniteSet(s) /\ Cardinality(s) \in Nat
        BY FS_Subset, FS_CardinalityType
      <4>2. Cardinality(s \ {x}) = Cardinality(s) - 1
        BY <4>1, FS_RemoveElement
      <4>3. s \ {x} \in Upto(k) /\ s \ {x} \in Upto(k + 1)
        BY <4>1, <4>2
      <4> QED BY <4>3
    <3> HIDE DEF h
    <3> QED BY <3>1, <3>2 DEF Summed
  <2>3. h = [s \in Upto(k + 1) |-> Summed(f, h, s)]
    BY <2>2
  <2>4. k + 1 \in Nat
    OBVIOUS
  <2> HIDE DEF h
  <2> QED BY <2>3, <2>4
<1>3. Cardinality(S) \in Nat
  BY FS_CardinalityType
<1>4. Cardinality(S) \in T
  <2> HIDE DEF T
  <2> QED BY <1>1, <1>2, <1>3, Rising
<1>5. Upto(Cardinality(S)) = SUBSET S
  BY FS_Subset
<1>6. \E g : g = [s \in SUBSET S |-> Summed(f, g, s)]
  <2> HIDE DEF Upto
  <2> QED BY <1>4, <1>5
<1> DEFINE g == CHOOSE g : g = [s \in SUBSET S |-> Summed(f, g, s)]
<1>7. g = [s \in SUBSET S |-> Summed(f, g, s)]
  BY <1>6
<1>8. SumFunctionOnSet(f, S) = g[S]
  BY DEF SumFunctionOnSet, FoldFunctionOnSet, MapThenFoldSet, Summed
<1> HIDE DEF g
<1>9. Totals(f, g, S)
  BY <1>7 DEF Totals
<1> QED BY <1>8, <1>9

(* The sum over a set is the sum over the set less one element, chosen by  *)
(* the fold, and the value there.                                          *)
LEMMA SumAgrees ==
  ASSUME NEW f, NEW S, IsFiniteSet(S), NEW R \in SUBSET S, NEW g, NEW h,
         Totals(f, g, S), Totals(f, h, R)
  PROVE  g[R] = h[R]
<1> DEFINE T == {s \in SUBSET R : g[s] = h[s]}
<1>1. \A s \in SUBSET R : g[s] = Summed(f, g, s) /\ h[s] = Summed(f, h, s)
  <2> TAKE s \in SUBSET R
  <2>1. s \in SUBSET S
    OBVIOUS
  <2> QED BY <2>1 DEF Totals
<1>2. {} \in T
  BY <1>1 DEF Summed
<1>3. \A s \in SUBSET R : (s # {} /\ \A x \in s : s \ {x} \in T) => s \in T
  <2> SUFFICES ASSUME NEW s \in SUBSET R, s # {}, \A x \in s : s \ {x} \in T
               PROVE  g[s] = h[s]
    OBVIOUS
  <2>1. \A x \in s : g[s \ {x}] = h[s \ {x}]
    OBVIOUS
  <2>2. g[s] = Summed(f, g, s) /\ h[s] = Summed(f, h, s)
    BY <1>1
  <2> DEFINE x == CHOOSE x \in s : TRUE
  <2>3. x \in s
    OBVIOUS
  <2>4. g[s \ {x}] = h[s \ {x}]
    BY <2>1, <2>3
  <2>5. g[s] = f[x] + g[s \ {x}] /\ h[s] = f[x] + h[s \ {x}]
    BY <2>2 DEF Summed
  <2> QED BY <2>4, <2>5
<1>4. IsFiniteSet(R)
  BY FS_Subset
<1>5. \A s \in SUBSET R : s \in T
  <2> HIDE DEF T
  <2> QED BY <1>2, <1>3, <1>4, OneByOne
<1> QED BY <1>5

LEMMA SumOut ==
  ASSUME NEW f, NEW S, IsFiniteSet(S)
  PROVE  /\ S = {} => SumFunctionOnSet(f, S) = 0
         /\ S # {} => \E x \in S : SumFunctionOnSet(f, S) = f[x] + SumFunctionOnSet(f, S \ {x})
<1>1. PICK g : Totals(f, g, S) /\ SumFunctionOnSet(f, S) = g[S]
  BY SumDefined
<1>2. g[S] = Summed(f, g, S)
  BY <1>1 DEF Totals
<1>3. ASSUME S # {} PROVE \E x \in S : g[S] = f[x] + SumFunctionOnSet(f, S \ {x})
  <2> DEFINE x == CHOOSE x \in S : TRUE
  <2>1. x \in S
    BY <1>3
  <2>2. g[S] = f[x] + g[S \ {x}]
    BY <1>2, <1>3 DEF Summed
  <2> HIDE DEF x
  <2> DEFINE R == S \ {x}
  <2>3. IsFiniteSet(R) /\ R \in SUBSET S
    BY FS_RemoveElement
  <2> HIDE DEF R
  <2>4. PICK h : Totals(f, h, R) /\ SumFunctionOnSet(f, R) = h[R]
    BY <2>3, SumDefined
  <2>5. g[R] = h[R]
    BY <1>1, <2>3, <2>4, SumAgrees
  <2> QED BY <2>1, <2>2, <2>4, <2>5 DEF R
<1> QED BY <1>1, <1>2, <1>3 DEF Summed

LEMMA SumInt ==
  ASSUME NEW f, NEW S, IsFiniteSet(S), \A x \in S : f[x] \in Int
  PROVE  SumFunctionOnSet(f, S) \in Int
<1> DEFINE T == {s \in SUBSET S : SumFunctionOnSet(f, s) \in Int}
<1>1. {} \in T
  BY SumOut, FS_EmptySet
<1>2. \A s \in SUBSET S : (s # {} /\ \A x \in s : s \ {x} \in T) => s \in T
  <2> SUFFICES ASSUME NEW s \in SUBSET S, s # {}, \A x \in s : s \ {x} \in T
               PROVE  SumFunctionOnSet(f, s) \in Int
    OBVIOUS
  <2>1. IsFiniteSet(s)
    BY FS_Subset
  <2>2. PICK x \in s : SumFunctionOnSet(f, s) = f[x] + SumFunctionOnSet(f, s \ {x})
    BY <2>1, SumOut
  <2>3. SumFunctionOnSet(f, s \ {x}) \in Int /\ f[x] \in Int
    OBVIOUS
  <2> QED BY <2>2, <2>3
<1>3. \A s \in SUBSET S : s \in T
  <2> HIDE DEF T
  <2> QED BY <1>1, <1>2, OneByOne
<1> QED BY <1>3

(* The order of the terms does not matter: any element may be taken out.   *)
LEMMA SumTakeOut ==
  ASSUME NEW f, NEW S, IsFiniteSet(S), \A x \in S : f[x] \in Int, NEW y \in S
  PROVE  SumFunctionOnSet(f, S) = f[y] + SumFunctionOnSet(f, S \ {y})
<1> DEFINE Sum(s) == SumFunctionOnSet(f, s)
           T == {s \in SUBSET S : \A z \in s : Sum(s) = f[z] + Sum(s \ {z})}
<1>1. {} \in T
  OBVIOUS
<1>2. \A s \in SUBSET S : IsFiniteSet(s) /\ Sum(s) \in Int
  BY FS_Subset, SumInt
<1>3. \A s \in SUBSET S : s # {} => \E x \in s : Sum(s) = f[x] + Sum(s \ {x})
  BY <1>2, SumOut
<1> HIDE DEF Sum
<1>4. \A s \in SUBSET S : (s # {} /\ \A x \in s : s \ {x} \in T) => s \in T
  <2> SUFFICES ASSUME NEW s \in SUBSET S, s # {}, \A x \in s : s \ {x} \in T, NEW z \in s
               PROVE  Sum(s) = f[z] + Sum(s \ {z})
    OBVIOUS
  <2>1. PICK x \in s : Sum(s) = f[x] + Sum(s \ {x})
    BY <1>3
  <2>2. CASE x = z
    BY <2>1, <2>2
  <2>3. CASE x # z
    <3>1. z \in s \ {x} /\ x \in s \ {z} /\ s \ {x} \in T /\ s \ {z} \in T
      BY <2>3
    <3>2. Sum(s \ {x}) = f[z] + Sum((s \ {x}) \ {z})
      BY <3>1
    <3>3. Sum(s \ {z}) = f[x] + Sum((s \ {z}) \ {x})
      BY <3>1
    <3>4. Sum((s \ {x}) \ {z}) = Sum((s \ {z}) \ {x})
      <4>1. (s \ {x}) \ {z} = (s \ {z}) \ {x}
        OBVIOUS
      <4> QED BY <4>1, Zenon
    <3>5. f[x] \in Int /\ f[z] \in Int /\ Sum((s \ {z}) \ {x}) \in Int
      BY <1>2
    <3> HIDE DEF T
    <3> QED BY <2>1, <3>2, <3>3, <3>4, <3>5
  <2> QED BY <2>2, <2>3
<1>5. \A s \in SUBSET S : s \in T
  <2> HIDE DEF T
  <2> QED BY <1>1, <1>4, OneByOne
<1>6. Sum(S) = f[y] + Sum(S \ {y})
  BY <1>5
<1> QED BY <1>6 DEF Sum

(* A sum of naturals is one, and no term exceeds it.                       *)
LEMMA SumNat ==
  ASSUME NEW f, NEW S, IsFiniteSet(S), \A x \in S : f[x] \in Nat
  PROVE  /\ SumFunctionOnSet(f, S) \in Nat
         /\ \A y \in S : f[y] <= SumFunctionOnSet(f, S)
<1> DEFINE Sum(s) == SumFunctionOnSet(f, s)
           T == {s \in SUBSET S : Sum(s) \in Nat}
<1>1. {} \in T
  BY SumOut, FS_EmptySet
<1>2. \A s \in SUBSET S : (s # {} /\ \A x \in s : s \ {x} \in T) => s \in T
  <2> SUFFICES ASSUME NEW s \in SUBSET S, s # {}, \A x \in s : s \ {x} \in T
               PROVE  Sum(s) \in Nat
    OBVIOUS
  <2>1. IsFiniteSet(s)
    BY FS_Subset
  <2>2. PICK x \in s : Sum(s) = f[x] + Sum(s \ {x})
    BY <2>1, SumOut
  <2>3. Sum(s \ {x}) \in Nat /\ f[x] \in Nat
    OBVIOUS
  <2> HIDE DEF Sum
  <2> QED BY <2>2, <2>3
<1>3. \A s \in SUBSET S : s \in T
  <2> HIDE DEF T
  <2> QED BY <1>1, <1>2, OneByOne
<1>4. ASSUME NEW y \in S PROVE f[y] <= Sum(S)
  <2>1. \A x \in S : f[x] \in Int
    OBVIOUS
  <2>2. Sum(S) = f[y] + Sum(S \ {y})
    BY <2>1, SumTakeOut
  <2>3. S \ {y} \in SUBSET S
    OBVIOUS
  <2>4. Sum(S \ {y}) \in Nat /\ f[y] \in Nat
    BY <1>3, <2>3
  <2> HIDE DEF Sum
  <2> QED BY <2>2, <2>4
<1>5. Sum(S) \in Nat
  BY <1>3
<1> QED BY <1>4, <1>5

(* Terms that exceed those of another function by at most k make a sum     *)
(* that exceeds the other by at most k for each of them.                   *)
LEMMA SumWithin ==
  ASSUME NEW f, NEW g, NEW S, IsFiniteSet(S), NEW k \in Nat,
         \A x \in S : f[x] \in Int /\ g[x] \in Int /\ f[x] <= g[x] + k
  PROVE  SumFunctionOnSet(f, S) <= SumFunctionOnSet(g, S) + Cardinality(S) * k
<1> DEFINE F(s) == SumFunctionOnSet(f, s)
           G(s) == SumFunctionOnSet(g, s)
           T == {s \in SUBSET S : F(s) <= G(s) + Cardinality(s) * k}
<1>1. {} \in T
  <2>1. F({}) = 0 /\ G({}) = 0 /\ Cardinality({}) = 0
    BY SumOut, FS_EmptySet
  <2> QED BY <2>1
<1>2. \A s \in SUBSET S : (s # {} /\ \A x \in s : s \ {x} \in T) => s \in T
  <2> SUFFICES ASSUME NEW s \in SUBSET S, s # {}, \A x \in s : s \ {x} \in T
               PROVE  F(s) <= G(s) + Cardinality(s) * k
    OBVIOUS
  <2>1. IsFiniteSet(s)
    BY FS_Subset
  <2>2. PICK x \in s : F(s) = f[x] + F(s \ {x})
    BY <2>1, SumOut
  <2>3. \A z \in s : f[z] \in Int /\ g[z] \in Int
    OBVIOUS
  <2>4. G(s) = g[x] + G(s \ {x})
    BY <2>1, <2>3, SumTakeOut
  <2>5. IsFiniteSet(s \ {x}) /\ Cardinality(s \ {x}) = Cardinality(s) - 1 /\ Cardinality(s) \in Nat
    BY <2>1, FS_RemoveElement, FS_CardinalityType
  <2>6. F(s \ {x}) \in Int /\ G(s \ {x}) \in Int
    BY <2>3, <2>5, SumInt
  <2>7. F(s \ {x}) <= G(s \ {x}) + (Cardinality(s) - 1) * k /\ f[x] <= g[x] + k
    BY <2>5
  <2>8. (Cardinality(s) - 1) * k = Cardinality(s) * k - k /\ Cardinality(s) * k \in Int
    <3> DEFINE c == Cardinality(s)
    <3>1. c \in Nat
      BY <2>5
    <3> HIDE DEF c
    <3>2. (c - 1) * k = c * k - k /\ c * k \in Int
      BY <3>1
    <3> QED BY <3>2 DEF c
  <2> HIDE DEF F, G
  <2> QED BY <2>2, <2>3, <2>4, <2>6, <2>7, <2>8
<1>3. \A s \in SUBSET S : s \in T
  <2> HIDE DEF T
  <2> QED BY <1>1, <1>2, OneByOne
<1> QED BY <1>3

\* what rounding down leaves of a share
LEMMA Share ==
  ASSUME NEW x \in Nat, NEW num \in Nat, NEW den \in Nat \ {0}
  PROVE  (x * num) \div den \in Nat /\ den * ((x * num) \div den) <= x * num
<1>1. x * num \in Nat
  OBVIOUS
<1> DEFINE y == x * num
<1> HIDE DEF y
<1>2. y \div den \in Nat /\ den * (y \div den) <= y
  BY <1>1 DEF y
<1> QED BY <1>2 DEF y

(* Shares of num in proportion to the terms of a sum, rounded down, are    *)
(* no more than num together.                                              *)
LEMMA SumShares ==
  ASSUME NEW f, NEW g, NEW S, IsFiniteSet(S), NEW num \in Nat,
         \A x \in S : f[x] \in Nat, SumFunctionOnSet(f, S) > 0,
         \A x \in S : g[x] = (f[x] * num) \div SumFunctionOnSet(f, S)
  PROVE  SumFunctionOnSet(g, S) <= num
<1> DEFINE F(s) == SumFunctionOnSet(f, s)
           G(s) == SumFunctionOnSet(g, s)
           den == F(S)
           T == {s \in SUBSET S : den * G(s) <= F(s) * num}
<1>0. den \in Nat \ {0}
  BY SumNat
<1>1. \A x \in S : g[x] \in Nat /\ den * g[x] <= f[x] * num
  <2> HIDE DEF den
  <2> TAKE x \in S
  <2>1. f[x] \in Nat /\ g[x] = (f[x] * num) \div den
    BY DEF den
  <2> QED BY <1>0, <2>1, Share
<1>2. {} \in T
  <2>1. F({}) = 0 /\ G({}) = 0
    BY SumOut, FS_EmptySet
  <2> HIDE DEF F, G, den
  <2> QED BY <1>0, <2>1
<1>3. \A s \in SUBSET S : (s # {} /\ \A x \in s : s \ {x} \in T) => s \in T
  <2> SUFFICES ASSUME NEW s \in SUBSET S, s # {}, \A x \in s : s \ {x} \in T
               PROVE  den * G(s) <= F(s) * num
    OBVIOUS
  <2>1. IsFiniteSet(s)
    BY FS_Subset
  <2>2. PICK x \in s : F(s) = f[x] + F(s \ {x})
    BY <2>1, SumOut
  <2>3. \A z \in s : f[z] \in Nat /\ g[z] \in Nat /\ g[z] \in Int
    BY <1>1
  <2>4. G(s) = g[x] + G(s \ {x})
    BY <2>1, <2>3, SumTakeOut
  <2> DEFINE r == s \ {x}
  <2>5. IsFiniteSet(r) /\ \A z \in r : f[z] \in Nat /\ g[z] \in Nat
    BY <2>1, <2>3, FS_RemoveElement
  <2>6. F(r) \in Nat /\ G(r) \in Nat
    BY <2>5, SumNat
  <2>7. den * G(r) <= F(r) * num /\ den * g[x] <= f[x] * num
    BY <1>1
  <2>8. F(s) = f[x] + F(r) /\ G(s) = g[x] + G(r) /\ f[x] \in Nat /\ g[x] \in Nat
    BY <2>2, <2>3, <2>4
  <2> HIDE DEF F, G, den, r
  <2>9. den * (g[x] + G(r)) = den * g[x] + den * G(r)
    BY <1>0, <2>6, <2>8
  <2>10. (f[x] + F(r)) * num = f[x] * num + F(r) * num
    BY <2>6, <2>8
  <2>11. /\ den * g[x] \in Nat /\ den * G(r) \in Nat
         /\ f[x] * num \in Nat /\ F(r) * num \in Nat
    BY <1>0, <2>6, <2>8
  <2> QED BY <2>7, <2>8, <2>9, <2>10, <2>11
<1>4. \A s \in SUBSET S : s \in T
  <2> HIDE DEF T
  <2> QED BY <1>2, <1>3, OneByOne
<1>5. den * G(S) <= den * num
  <2>1. den * G(S) <= F(S) * num
    BY <1>4
  <2>2. F(S) * num = den * num
    OBVIOUS
  <2> QED BY <2>1, <2>2
<1>6. G(S) \in Nat
  BY <1>1, SumNat
<1> HIDE DEF F, G, den
<1>7. ASSUME G(S) >= num + 1 PROVE FALSE
  <2>1. den * G(S) >= den * (num + 1)
    BY <1>0, <1>6, <1>7
  <2>2. den * (num + 1) = den * num + den /\ den * num \in Nat /\ den * G(S) \in Nat
    BY <1>0, <1>6
  <2> QED BY <1>0, <1>5, <2>1, <2>2
<1>8. G(S) <= num
  BY <1>6, <1>7
<1> QED BY <1>8 DEF G

-----------------------------------------------------------------------------
(* Portfolios: every operation of the constructor and of the validator     *)
(* turns weights that are not negative into weights that are not.          *)

Folio == [Asset -> Nat]

LEMMA Constants ==
  /\ IsFiniteSet(Asset) /\ Cardinality(Asset) \in Nat /\ Nav \in Nat \ {0}
  /\ \A a \in Asset : Cap(a) \in Nat /\ PreCap(a) \in Nat
  /\ MaxCrypto \in Nat /\ MemeWeight \in Nat /\ PaxgWeight \in Nat
  /\ MinTrade \in Nat \ {0} /\ MaxTurnover \in Nat \ {0}
  BY PortfolioAssumption, FS_CardinalityType

LEMMA TotalNat ==
  ASSUME NEW w \in Folio
  PROVE  Total(w) \in Nat /\ \A a \in Asset : w[a] <= Total(w)
  BY SumNat, Constants DEF Folio, Total

\* what is divided by a positive number
LEMMA Quotient ==
  ASSUME NEW x \in Nat, NEW d \in Nat \ {0}
  PROVE  x \div d \in Nat
  OBVIOUS

LEMMA ScaledTyped ==
  ASSUME NEW w \in Folio, NEW S, NEW num \in Nat, NEW den \in Nat \ {0}
  PROVE  Scaled(w, S, num, den) \in Folio
<1>1. ASSUME NEW a \in Asset PROVE (w[a] * num) \div den \in Nat /\ w[a] \in Nat
  <2>1. w[a] \in Nat
    BY DEF Folio
  <2> QED BY <2>1, Share
<1> QED BY <1>1 DEF Scaled, Folio

(* The excess over the caps of one iteration.                              *)
LEMMA ExcessNat ==
  ASSUME NEW w \in Folio, NEW caps \in [Asset -> Nat], NEW over,
         over = {a \in Asset : w[a] > caps[a]}
  PROVE  SumFunctionOnSet([a \in Asset |-> w[a] - caps[a]], over) \in Nat
<1> DEFINE f == [a \in Asset |-> w[a] - caps[a]]
<1>1. IsFiniteSet(over)
  BY Constants, FS_Subset
<1>2. \A a \in over : f[a] \in Nat
  BY DEF Folio
<1> HIDE DEF f
<1> QED BY <1>1, <1>2, SumNat DEF f

LEMMA OpenPositive ==
  ASSUME NEW w \in Folio, NEW S \in SUBSET Held(w), NEW a \in S
  PROVE  SumFunctionOnSet(w, S) \in Nat \ {0} /\ Cardinality(S) \in Nat \ {0}
<1>1. S \in SUBSET Asset /\ IsFiniteSet(S)
  BY Constants, FS_Subset DEF Held
<1>2. \A x \in S : w[x] \in Nat
  BY <1>1 DEF Folio
<1>3. SumFunctionOnSet(w, S) \in Nat /\ w[a] <= SumFunctionOnSet(w, S) /\ w[a] > 0
  BY <1>1, <1>2, SumNat DEF Held
<1>4. Cardinality(S) \in Nat /\ Cardinality(S) # 0
  BY <1>1, FS_CardinalityType, FS_EmptySet
<1> QED BY <1>2, <1>3, <1>4

LEMMA FixedOnceTyped ==
  ASSUME NEW w \in Folio
  PROVE  FixedOnce(w) \in Folio
<1> DEFINE caps == [a \in Asset |-> PreCap(a)]
           over == {a \in Asset : w[a] > PreCap(a)}
           excess == SumFunctionOnSet([a \in Asset |-> w[a] - PreCap(a)], over)
           open == Held(w) \ over
<1>1. \A a \in Asset : w[a] \in Nat /\ PreCap(a) \in Nat
  BY Constants DEF Folio
<1>2. excess \in Nat
  <2>1. caps \in [Asset -> Nat] /\ over = {a \in Asset : w[a] > caps[a]}
    BY <1>1
  <2>2. [a \in Asset |-> w[a] - PreCap(a)] = [a \in Asset |-> w[a] - caps[a]]
    OBVIOUS
  <2> HIDE DEF caps, over
  <2>3. SumFunctionOnSet([a \in Asset |-> w[a] - caps[a]], over) \in Nat
    BY <2>1, ExcessNat
  <2> QED BY <2>2, <2>3
<1>3. ASSUME NEW a \in open PROVE excess \div Cardinality(open) \in Nat
  <2> HIDE DEF excess, open
  <2>1. open \in SUBSET Held(w)
    BY DEF open
  <2>2. Cardinality(open) \in Nat \ {0}
    BY <2>1, OpenPositive
  <2> QED BY <1>2, <2>2, Quotient
<1>4. FixedOnce(w) = IF over = {} THEN w
                     ELSE [a \in Asset |-> IF a \in over THEN PreCap(a)
                                           ELSE IF a \in open THEN w[a] + excess \div Cardinality(open)
                                           ELSE w[a]]
  BY DEF FixedOnce
<1> HIDE DEF over, excess, open
<1>5. \A a \in Asset : (IF a \in over THEN PreCap(a)
                        ELSE IF a \in open THEN w[a] + excess \div Cardinality(open)
                        ELSE w[a]) \in Nat
  BY <1>1, <1>3
<1> QED BY <1>4, <1>5 DEF Folio

LEMMA CappedOnceTyped ==
  ASSUME NEW w \in Folio
  PROVE  CappedOnce(w) \in Folio
<1> DEFINE caps == [a \in Asset |-> Cap(a)]
           over == {a \in Asset : w[a] > Cap(a)}
           excess == SumFunctionOnSet([a \in Asset |-> w[a] - Cap(a)], over)
           open == Held(w) \ over
           sum == SumFunctionOnSet(w, open)
<1>1. \A a \in Asset : w[a] \in Nat /\ Cap(a) \in Nat
  BY Constants DEF Folio
<1>2. excess \in Nat
  <2>1. caps \in [Asset -> Nat] /\ over = {a \in Asset : w[a] > caps[a]}
    BY <1>1
  <2>2. [a \in Asset |-> w[a] - Cap(a)] = [a \in Asset |-> w[a] - caps[a]]
    OBVIOUS
  <2> HIDE DEF caps, over
  <2>3. SumFunctionOnSet([a \in Asset |-> w[a] - caps[a]], over) \in Nat
    BY <2>1, ExcessNat
  <2> QED BY <2>2, <2>3
<1>3. ASSUME NEW a \in open PROVE (excess * w[a]) \div sum \in Nat
  <2>1. a \in Asset /\ w[a] \in Nat
    BY <1>1 DEF Held
  <2> HIDE DEF excess, open
  <2>2. open \in SUBSET Held(w)
    BY DEF open
  <2>3. sum \in Nat \ {0}
    BY <2>2, OpenPositive
  <2> HIDE DEF sum
  <2> QED BY <1>2, <2>1, <2>3, Share
<1>4. CappedOnce(w) = IF over = {} THEN w
                      ELSE [a \in Asset |-> IF a \in over THEN Cap(a)
                                            ELSE IF a \in open THEN w[a] + (excess * w[a]) \div sum
                                            ELSE w[a]]
  BY DEF CappedOnce
<1> HIDE DEF over, excess, open, sum
<1>5. \A a \in Asset : (IF a \in over THEN Cap(a)
                        ELSE IF a \in open THEN w[a] + (excess * w[a]) \div sum
                        ELSE w[a]) \in Nat
  BY <1>1, <1>3
<1> QED BY <1>4, <1>5 DEF Folio

(* A step that keeps a type can be repeated, and the last result is of it. *)
LEMMA Repeated ==
  ASSUME NEW T, NEW Once \in [T -> T], NEW w \in T, NEW n \in Nat
  PROVE  \E g : g = [k \in 0..n |-> IF k = 0 THEN w ELSE Once[g[k - 1]]]
<1> DEFINE S == {m \in Nat : \E g : g = [k \in 0..m |-> IF k = 0 THEN w ELSE Once[g[k - 1]]]}
<1>1. 0 \in S
  <2>1. [k \in 0..0 |-> w] = [k \in 0..0 |-> IF k = 0 THEN w ELSE Once[[j \in 0..0 |-> w][k - 1]]]
    OBVIOUS
  <2> QED BY <2>1
<1>2. ASSUME NEW m \in 0..(n - 1), m \in S PROVE m + 1 \in S
  <2>1. PICK f : f = [k \in 0..m |-> IF k = 0 THEN w ELSE Once[f[k - 1]]]
    BY <1>2
  <2> DEFINE g == [k \in 0..(m + 1) |-> IF k <= m THEN f[k] ELSE Once[f[m]]]
  <2>2. \A k \in 0..(m + 1) : g[k] = IF k = 0 THEN w ELSE Once[g[k - 1]]
    <3> SUFFICES ASSUME NEW k \in 0..(m + 1)
                 PROVE  g[k] = IF k = 0 THEN w ELSE Once[g[k - 1]]
      OBVIOUS
    <3>1. \A j \in 0..m : g[j] = f[j]
      OBVIOUS
    <3>2. \A j \in 0..m : f[j] = IF j = 0 THEN w ELSE Once[f[j - 1]]
      BY <2>1
    <3>3. g[m + 1] = Once[f[m]]
      OBVIOUS
    <3> HIDE DEF g
    <3>4. CASE k = m + 1
      <4>1. k # 0 /\ k - 1 = m /\ m \in 0..m
        BY <3>4
      <4> QED BY <3>1, <3>3, <3>4, <4>1
    <3>5. CASE k # m + 1
      <4>1. k \in 0..m /\ (k # 0 => k - 1 \in 0..m)
        BY <3>5
      <4> QED BY <3>1, <3>2, <4>1
    <3> QED BY <3>4, <3>5
  <2>3. g = [k \in 0..(m + 1) |-> IF k = 0 THEN w ELSE Once[g[k - 1]]]
    BY <2>2
  <2> HIDE DEF g
  <2> QED BY <2>3
<1>3. n \in S
  <2> HIDE DEF S
  <2> QED BY <1>1, <1>2, Rising
<1> QED BY <1>3

LEMMA RepeatedTyped ==
  ASSUME NEW T, NEW Once \in [T -> T], NEW w \in T, NEW n \in Nat, NEW g,
         \A k \in 0..n : g[k] = IF k = 0 THEN w ELSE Once[g[k - 1]]
  PROVE  \A m \in 0..n : g[m] \in T
<1> DEFINE S == {k \in Nat : g[k] \in T}
<1> TAKE m \in 0..n
<1>1. 0 \in S
  OBVIOUS
<1>2. ASSUME NEW k \in 0..(m - 1), k \in S PROVE k + 1 \in S
  <2>1. k + 1 \in 0..n /\ k + 1 # 0 /\ (k + 1) - 1 = k
    OBVIOUS
  <2>2. g[k + 1] = Once[g[k]]
    BY <2>1
  <2> QED BY <1>2, <2>2
<1>3. m \in S
  <2> HIDE DEF S
  <2> QED BY <1>1, <1>2, Rising
<1> QED BY <1>3

LEMMA FixedIterates ==
  ASSUME NEW w \in Folio
  PROVE  \E g : /\ g[MaxRedist] \in Folio
                /\ \A d : Fixed(w, d) = IF Total(g[MaxRedist]) <= d THEN g[MaxRedist]
                                      ELSE Scaled(g[MaxRedist], Asset, d, Total(g[MaxRedist]))
<1> DEFINE Next1(f, k) == IF k = 0 THEN w ELSE FixedOnce(f[k - 1])
           g == CHOOSE f : f = [k \in 0..MaxRedist |-> Next1(f, k)]
           Once == [v \in Folio |-> FixedOnce(v)]
<1>0. MaxRedist \in Nat
  BY DEF MaxRedist
<1>1. Once \in [Folio -> Folio]
  BY FixedOnceTyped
<1>2. PICK f : f = [k \in 0..MaxRedist |-> IF k = 0 THEN w ELSE Once[f[k - 1]]]
  <2> HIDE DEF Once
  <2> QED BY <1>0, <1>1, Repeated
<1>3. \A k \in 0..MaxRedist : f[k] \in Folio
  <2> HIDE DEF Once
  <2>1. \A k \in 0..MaxRedist : f[k] = IF k = 0 THEN w ELSE Once[f[k - 1]]
    BY <1>2
  <2> QED BY <1>0, <1>1, <2>1, RepeatedTyped
<1>4. f = [k \in 0..MaxRedist |-> Next1(f, k)]
  <2>1. ASSUME NEW k \in 0..MaxRedist
        PROVE  (IF k = 0 THEN w ELSE Once[f[k - 1]]) = Next1(f, k)
    <3>1. k # 0 => k - 1 \in 0..MaxRedist
      BY <1>0
    <3>2. k # 0 => Once[f[k - 1]] = FixedOnce(f[k - 1])
      BY <1>3, <3>1
    <3> QED BY <3>2
  <2> HIDE DEF Next1, Once
  <2> QED BY <1>2, <2>1
<1>5. g = [k \in 0..MaxRedist |-> Next1(g, k)]
  <2> HIDE DEF Next1
  <2> QED BY <1>4
<1>6. \A d : Fixed(w, d) = IF Total(g[MaxRedist]) <= d THEN g[MaxRedist]
                           ELSE Scaled(g[MaxRedist], Asset, d, Total(g[MaxRedist]))
  BY DEF Fixed
<1> HIDE DEF g
<1>7. \A k \in 0..MaxRedist : g[k] = Next1(g, k)
  <2> HIDE DEF Next1
  <2> QED BY <1>5
<1> DEFINE S == {k \in Nat : g[k] \in Folio}
<1>8. 0 \in S
  BY <1>0, <1>7
<1>9. ASSUME NEW k \in 0..(MaxRedist - 1), k \in S PROVE k + 1 \in S
  <2>1. k + 1 \in 0..MaxRedist /\ k + 1 # 0 /\ (k + 1) - 1 = k
    BY <1>0
  <2>2. g[k + 1] = FixedOnce(g[k])
    BY <1>7, <2>1
  <2> QED BY <1>9, <2>2, FixedOnceTyped
<1>10. MaxRedist \in S
  <2> HIDE DEF S
  <2> QED BY <1>0, <1>8, <1>9, Rising
<1> QED BY <1>6, <1>10

LEMMA CappedIterates ==
  ASSUME NEW w \in Folio
  PROVE  \E g : /\ g[MaxRedist] \in Folio
                /\ Capped(w) = g[MaxRedist]
<1> DEFINE Next1(f, k) == IF k = 0 THEN w ELSE CappedOnce(f[k - 1])
           g == CHOOSE f : f = [k \in 0..MaxRedist |-> Next1(f, k)]
           Once == [v \in Folio |-> CappedOnce(v)]
<1>0. MaxRedist \in Nat
  BY DEF MaxRedist
<1>1. Once \in [Folio -> Folio]
  BY CappedOnceTyped
<1>2. PICK f : f = [k \in 0..MaxRedist |-> IF k = 0 THEN w ELSE Once[f[k - 1]]]
  <2> HIDE DEF Once
  <2> QED BY <1>0, <1>1, Repeated
<1>3. \A k \in 0..MaxRedist : f[k] \in Folio
  <2> HIDE DEF Once
  <2>1. \A k \in 0..MaxRedist : f[k] = IF k = 0 THEN w ELSE Once[f[k - 1]]
    BY <1>2
  <2> QED BY <1>0, <1>1, <2>1, RepeatedTyped
<1>4. f = [k \in 0..MaxRedist |-> Next1(f, k)]
  <2>1. ASSUME NEW k \in 0..MaxRedist
        PROVE  (IF k = 0 THEN w ELSE Once[f[k - 1]]) = Next1(f, k)
    <3>1. k # 0 => k - 1 \in 0..MaxRedist
      BY <1>0
    <3>2. k # 0 => Once[f[k - 1]] = CappedOnce(f[k - 1])
      BY <1>3, <3>1
    <3> QED BY <3>2
  <2> HIDE DEF Next1, Once
  <2> QED BY <1>2, <2>1
<1>5. g = [k \in 0..MaxRedist |-> Next1(g, k)]
  <2> HIDE DEF Next1
  <2> QED BY <1>4
<1>6. Capped(w) = g[MaxRedist]
  BY DEF Capped
<1> HIDE DEF g
<1>7. \A k \in 0..MaxRedist : g[k] = Next1(g, k)
  <2> HIDE DEF Next1
  <2> QED BY <1>5
<1> DEFINE S == {k \in Nat : g[k] \in Folio}
<1>8. 0 \in S
  BY <1>0, <1>7
<1>9. ASSUME NEW k \in 0..(MaxRedist - 1), k \in S PROVE k + 1 \in S
  <2>1. k + 1 \in 0..MaxRedist /\ k + 1 # 0 /\ (k + 1) - 1 = k
    BY <1>0
  <2>2. g[k + 1] = CappedOnce(g[k])
    BY <1>7, <2>1
  <2> QED BY <1>9, <2>2, CappedOnceTyped
<1>10. MaxRedist \in S
  <2> HIDE DEF S
  <2> QED BY <1>0, <1>8, <1>9, Rising
<1> QED BY <1>6, <1>10

(* validate_and_fix: no more than the deployment, none of it negative.     *)
LEMMA FixedWithin ==
  ASSUME NEW w \in Folio, NEW d \in Nat
  PROVE  Fixed(w, d) \in Folio /\ Total(Fixed(w, d)) <= d
<1>1. PICK g : /\ g[MaxRedist] \in Folio
               /\ \A e : Fixed(w, e) = IF Total(g[MaxRedist]) <= e THEN g[MaxRedist]
                                       ELSE Scaled(g[MaxRedist], Asset, e, Total(g[MaxRedist]))
  BY FixedIterates
<1> DEFINE v == g[MaxRedist]
<1>2. v \in Folio /\ Fixed(w, d) = IF Total(v) <= d THEN v ELSE Scaled(v, Asset, d, Total(v))
  BY <1>1
<1> HIDE DEF v
<1>3. Total(v) \in Nat
  BY <1>2, TotalNat
<1>4. CASE Total(v) <= d
  BY <1>2, <1>4
<1>5. CASE ~(Total(v) <= d)
  <2> DEFINE s == Scaled(v, Asset, d, Total(v))
  <2>1. Total(v) \in Nat \ {0}
    BY <1>3, <1>5
  <2>2. s \in Folio
    BY <1>2, <2>1, ScaledTyped
  <2>3. \A a \in Asset : v[a] \in Nat
    BY <1>2 DEF Folio
  <2>4. \A a \in Asset : s[a] = (v[a] * d) \div SumFunctionOnSet(v, Asset)
    BY DEF Scaled, Total
  <2> HIDE DEF s
  <2>5. SumFunctionOnSet(v, Asset) > 0
    BY <2>1 DEF Total
  <2>6. SumFunctionOnSet(s, Asset) <= d
    BY <2>3, <2>4, <2>5, Constants, SumShares
  <2> QED BY <1>2, <1>5, <2>2, <2>6 DEF Total, s
<1> QED BY <1>4, <1>5

(* _size_positions: shares of the deployment.                              *)
LEMMA LargestVol ==
  ASSUME NEW vol \in [Asset -> 0..VolScale], NEW K \in SUBSET Asset, K # {}
  PROVE  LET worst == CHOOSE v \in {vol[a] : a \in K} : \A a \in K : vol[a] <= v
         IN \E a \in K : worst = vol[a]
<1> DEFINE Gaps == {VolScale - vol[a] : a \in K}
<1>0. VolScale \in Nat
  BY DEF VolScale
<1>1. \A a \in K : vol[a] \in Nat /\ VolScale - vol[a] \in Nat
  BY <1>0
<1>2. Gaps # {} /\ Gaps \subseteq Nat
  BY <1>1
<1>3. IsWellFoundedOn(Less, Nat)
  BY NatLessThanWellFounded DEF OpToRel, Less
<1>4. PICK n \in Gaps : \A m \in Gaps : <<m, n>> \notin Less
  <2> HIDE DEF Gaps
  <2> QED BY <1>2, <1>3, WFMin
<1>5. PICK b \in K : n = VolScale - vol[b]
  OBVIOUS
<1>6. ASSUME NEW a \in K PROVE vol[a] <= vol[b]
  <2>1. VolScale - vol[a] \in Gaps /\ VolScale - vol[a] \in Nat /\ n \in Nat
    BY <1>1, <1>5
  <2>2. ~(VolScale - vol[a] < n)
    BY <1>4, <2>1 DEF Less
  <2> QED BY <1>0, <1>1, <1>5, <2>2
<1> QED BY <1>6

LEMMA SizedTyped ==
  ASSUME NEW S \in SUBSET Asset, NEW d \in Nat, NEW vol \in [Asset -> 0..VolScale]
  PROVE  Sized(S, d, vol) \in Folio
<1> DEFINE known == {a \in S : vol[a] > 0}
           worst == CHOOSE v \in {vol[a] : a \in known} : \A a \in known : vol[a] <= v
           inverse == [a \in Asset |-> IF a \notin S THEN 0
                                       ELSE VolScale \div (IF a \in known THEN vol[a] ELSE worst)]
<1>1. CASE S = {}
  BY <1>1 DEF Sized, Empty, Folio
<1>2. CASE S # {} /\ known = {}
  <2>1. IsFiniteSet(S)
    BY Constants, FS_Subset
  <2>2. Cardinality(S) \in Nat \ {0}
    BY <1>2, <2>1, FS_CardinalityType, FS_EmptySet
  <2>3. d \div Cardinality(S) \in Nat
    BY <2>2, Quotient
  <2>4. Sized(S, d, vol) = [a \in Asset |-> IF a \in S THEN d \div Cardinality(S) ELSE 0]
    BY <1>2 DEF Sized
  <2> QED BY <2>3, <2>4 DEF Folio
<1>3. CASE S # {} /\ known # {}
  <2>1. PICK b \in known : worst = vol[b]
    <3>1. known \in SUBSET Asset
      OBVIOUS
    <3> HIDE DEF known
    <3> QED BY <1>3, <3>1, LargestVol
  <2> HIDE DEF worst
  <2>2. ASSUME NEW a \in S
        PROVE  LET v == IF a \in known THEN vol[a] ELSE worst
               IN v \in Nat \ {0} /\ v <= VolScale
    BY <2>1
  <2>3. \A v \in Nat \ {0} : v <= VolScale => VolScale \div v \in Nat \ {0}
    BY DEF VolScale
  <2>4. inverse \in Folio /\ \A a \in S : inverse[a] # 0
    BY <2>2, <2>3 DEF Folio
  <2>5. Sized(S, d, vol) = [a \in Asset |-> (inverse[a] * d) \div Total(inverse)]
    BY <1>3 DEF Sized, worst
  <2> HIDE DEF inverse
  <2>6. Total(inverse) \in Nat \ {0}
    <3>1. PICK a \in S : TRUE
      BY <1>3
    <3>2. inverse[a] \in Nat /\ inverse[a] # 0 /\ inverse[a] <= Total(inverse) /\ Total(inverse) \in Nat
      BY <2>4, TotalNat DEF Folio
    <3> QED BY <3>2
  <2>7. \A a \in Asset : (inverse[a] * d) \div Total(inverse) \in Nat
    <3> TAKE a \in Asset
    <3>1. inverse[a] \in Nat
      BY <2>4 DEF Folio
    <3> QED BY <2>6, <3>1, Share
  <2> QED BY <2>5, <2>7 DEF Folio
<1> QED BY <1>1, <1>2, <1>3

(* What is chosen to be held is listed.                                    *)
LEMMA CandidatesListed ==
  ASSUME NEW market, DOMAIN market.scores \subseteq Asset, NEW n
  PROVE  Candidates(market, n) \in SUBSET Asset
<1> DEFINE adjusted == Penalised(market)
<1>1. DOMAIN adjusted \subseteq Asset
  BY DEF Penalised
<1> HIDE DEF adjusted
<1>2. \A S : \A m : TopOf(adjusted, S, m) \subseteq S
  BY DEF TopOf
<1>3. Ranked(adjusted, n) \subseteq Asset
  <2> DEFINE inTier(t) == {a \in DOMAIN adjusted : TierOf(a) = t}
  <2>1. \A t : inTier(t) \subseteq Asset
    BY <1>1
  <2>2. Ranked(adjusted, n) = TopOf(adjusted, inTier("tier1"), Slots1(n))
                                \cup TopOf(adjusted, inTier("tier2"), Slots2(n))
                                \cup TopOf(adjusted, inTier("tier3"), Slots3(n))
    BY DEF Ranked
  <2> HIDE DEF inTier
  <2> QED BY <1>2, <2>1, <2>2
<1>4. VolFiltered(Ranked(adjusted, n), market.vol) \subseteq Ranked(adjusted, n)
  BY DEF VolFiltered
<1>5. Candidates(market, n) \subseteq Ranked(adjusted, n) \cup DOMAIN adjusted
  <2>1. \/ Candidates(market, n) = VolFiltered(Ranked(adjusted, n), market.vol)
        \/ Candidates(market, n) = TopOf(adjusted, DOMAIN adjusted, Smaller(3, n))
    BY DEF Candidates, adjusted
  <2> QED BY <1>2, <1>4, <2>1
<1> QED BY <1>1, <1>3, <1>5

LEMMA CappedTyped ==
  ASSUME NEW w \in Folio
  PROVE  Capped(w) \in Folio
BY CappedIterates

(* _combine_weights.                                                       *)
LEMMA CombinedTyped ==
  ASSUME NEW crypto \in Folio, NEW memes \in SUBSET Asset, NEW exposure \in Nat
  PROVE  Combined(crypto, memes, exposure) \in Folio
<1> DEFINE budget == Larger(0, exposure - MemeWeight * Cardinality(memes))
           fitted == IF Total(crypto) > budget THEN Scaled(crypto, Asset, budget, Total(crypto))
                     ELSE crypto
           merged == [a \in Asset |-> IF a = PAXG /\ PaxgWeight > 0 THEN PaxgWeight
                                      ELSE IF a \in memes THEN MemeWeight ELSE fitted[a]]
           rest == Asset \ (memes \cup {PAXG})
           sum == SumFunctionOnSet(merged, rest)
           excess == Total(merged) - Nav
           memeSum == SumFunctionOnSet(merged, memes)
<1>1. budget \in Nat
  <2>1. IsFiniteSet(memes) /\ Cardinality(memes) \in Nat
    BY Constants, FS_Subset, FS_CardinalityType
  <2> DEFINE c == Cardinality(memes)
  <2>2. c \in Nat
    BY <2>1
  <2> HIDE DEF c
  <2>3. MemeWeight * c \in Nat
    BY <2>2, Constants
  <2> DEFINE p == MemeWeight * c
  <2> HIDE DEF p
  <2>4. Larger(0, exposure - p) \in Nat
    BY <2>3 DEF Larger, p
  <2> QED BY <2>4 DEF p, c
<1> HIDE DEF budget
<1>2. fitted \in Folio
  <2>1. Total(crypto) \in Nat
    BY TotalNat
  <2>2. CASE Total(crypto) > budget
    <3>1. Total(crypto) \in Nat \ {0}
      BY <1>1, <2>1, <2>2
    <3>2. Scaled(crypto, Asset, budget, Total(crypto)) \in Folio
      BY <1>1, <3>1, ScaledTyped
    <3> QED BY <2>2, <3>2
  <2> QED BY <2>2
<1> HIDE DEF fitted
<1>3. merged \in Folio
  BY <1>2, Constants DEF Folio
<1> HIDE DEF merged
<1>4. sum \in Nat /\ memeSum \in Nat /\ Total(merged) \in Nat /\ excess \in Int
  <2>1. \A a \in Asset : merged[a] \in Nat
    BY <1>3 DEF Folio
  <2>2. IsFiniteSet(rest) /\ IsFiniteSet(memes)
    BY Constants, FS_Subset
  <2>3. sum \in Nat
    <3>1. \A a \in rest : merged[a] \in Nat
      BY <2>1
    <3> HIDE DEF rest
    <3> QED BY <2>2, <3>1, SumNat
  <2>4. memeSum \in Nat
    BY <2>1, <2>2, SumNat
  <2>5. Total(merged) \in Nat
    BY <1>3, TotalNat
  <2> QED BY <2>3, <2>4, <2>5, Constants
<1> DEFINE C(sm, ex, ms) ==
      CASE ex <= 0 -> merged
        [] ex > 0 /\ sm >= ex -> Scaled(merged, rest, sm - ex, Larger(sm, 1))
        [] OTHER -> Scaled(Scaled(merged, rest, 0, 1), memes,
                           Larger(0, ms - (ex - sm)), Larger(ms, 1))
<1>5. Combined(crypto, memes, exposure) = C(sum, excess, memeSum)
  BY DEF Combined, merged, fitted, budget
<1> HIDE DEF rest, sum, excess, memeSum
<1>6. CASE excess <= 0
  <2>1. C(sum, excess, memeSum) = merged
    BY <1>4, <1>6
  <2> QED BY <1>3, <1>5, <2>1
<1>7. CASE excess > 0 /\ sum >= excess
  <2>1. sum - excess \in Nat /\ Larger(sum, 1) \in Nat \ {0}
    BY <1>4, <1>7 DEF Larger
  <2>2. C(sum, excess, memeSum) = Scaled(merged, rest, sum - excess, Larger(sum, 1))
    <3>1. ~(excess <= 0)
      BY <1>4, <1>7
    <3> QED BY <1>4, <1>7, <3>1
  <2>3. Scaled(merged, rest, sum - excess, Larger(sum, 1)) \in Folio
    BY <1>3, <2>1, ScaledTyped
  <2> QED BY <1>5, <2>2, <2>3
<1>8. CASE excess > 0 /\ ~(sum >= excess)
  <2>1. Larger(0, memeSum - (excess - sum)) \in Nat /\ Larger(memeSum, 1) \in Nat \ {0}
    BY <1>4, <1>8 DEF Larger
  <2>2. C(sum, excess, memeSum) = Scaled(Scaled(merged, rest, 0, 1), memes,
                           Larger(0, memeSum - (excess - sum)), Larger(memeSum, 1))
    <3>1. ~(excess <= 0)
      BY <1>4, <1>8
    <3> QED BY <1>4, <1>8, <3>1
  <2>3. Scaled(merged, rest, 0, 1) \in Folio
    BY <1>3, ScaledTyped
  <2>4. Scaled(Scaled(merged, rest, 0, 1), memes,
               Larger(0, memeSum - (excess - sum)), Larger(memeSum, 1)) \in Folio
    BY <2>1, <2>3, ScaledTyped
  <2> QED BY <1>5, <2>2, <2>4
<1>9. excess <= 0 \/ excess > 0
  BY <1>4
<1> QED BY <1>6, <1>7, <1>8, <1>9

(* A reduction that is slowed down sells no more than is held.             *)
LEMMA Slowed ==
  ASSUME NEW c \in Nat, NEW w \in Nat, NEW M \in Nat, NEW moved \in Nat \ {0}, 2 * M < moved
  PROVE  c + ((w - c) * 2 * M) \div moved \in Nat
<1> DEFINE y == (w - c) * 2 * M
<1>1. y \in Int /\ y >= -(c * moved)
  <2> DEFINE t == 2 * M
  <2>1. t \in Nat /\ t <= moved
    OBVIOUS
  <2>2. y = (w - c) * t
    OBVIOUS
  <2> HIDE DEF t, y
  <2>3. (w - c) * t = w * t - c * t /\ w * t \in Nat /\ c * t \in Nat
    BY <2>1
  <2>4. c * (moved - t) \in Nat /\ c * (moved - t) = c * moved - c * t /\ c * moved \in Nat
    BY <2>1
  <2> QED BY <2>2, <2>3, <2>4
<1> HIDE DEF y
<1> DEFINE q == y \div moved
<1>2. q \in Int /\ y < moved * (q + 1)
  BY <1>1
<1> HIDE DEF q
<1>3. ASSUME c + q < 0 PROVE FALSE
  <2> DEFINE z == -(c + q + 1)
  <2>1. z \in Nat /\ q + 1 = -(c + z)
    BY <1>2, <1>3
  <2> HIDE DEF z
  <2>2. moved * (q + 1) = -(c * moved) - z * moved /\ z * moved \in Nat /\ c * moved \in Nat
    BY <2>1
  <2> QED BY <1>1, <1>2, <2>2
<1>4. c + q \in Nat
  BY <1>2, <1>3
<1> QED BY <1>4 DEF q, y

(* _apply_turnover_cap.                                                    *)
LEMMA ThrottledTyped ==
  ASSUME NEW w \in Folio, NEW current \in Folio
  PROVE  Throttled(w, current) \in Folio
<1> DEFINE moves == [a \in Asset |-> Larger(w[a] - current[a], current[a] - w[a])]
<1>1. \A a \in Asset : w[a] \in Nat /\ current[a] \in Nat
  BY DEF Folio
<1>2. Moved(w, current) \in Nat
  <2>1. \A a \in Asset : moves[a] \in Nat
    BY <1>1 DEF Larger
  <2>2. Moved(w, current) = SumFunctionOnSet(moves, Asset)
    BY DEF Moved
  <2> HIDE DEF moves
  <2> QED BY <2>1, <2>2, Constants, SumNat
<1>3. CASE Throttled(w, current) = w
  BY <1>3
<1>4. CASE Throttled(w, current) # w
  <2>1. ~(Moved(w, current) <= 2 * MaxTurnover)
    BY <1>4 DEF Throttled
  <2>2. Throttled(w, current) =
          [a \in Asset |-> current[a] + ((w[a] - current[a]) * 2 * MaxTurnover) \div Moved(w, current)]
    BY <1>4 DEF Throttled
  <2>3. Moved(w, current) \in Nat \ {0} /\ 2 * MaxTurnover < Moved(w, current) /\ MaxTurnover \in Nat
    BY <1>2, <2>1, Constants
  <2>4. ASSUME NEW a \in Asset
        PROVE  current[a] + ((w[a] - current[a]) * 2 * MaxTurnover) \div Moved(w, current) \in Nat
    <3> DEFINE m == Moved(w, current)
               x == w[a]
               c == current[a]
    <3>1. x \in Nat /\ c \in Nat /\ m \in Nat \ {0} /\ 2 * MaxTurnover < m /\ MaxTurnover \in Nat
      BY <1>1, <2>3
    <3> HIDE DEF m, x, c
    <3>2. c + ((x - c) * 2 * MaxTurnover) \div m \in Nat
      BY <3>1, Slowed
    <3> QED BY <3>2 DEF m, x, c
  <2> QED BY <2>2, <2>4 DEF Folio
<1> QED BY <1>3, <1>4

LEMMA SuppressedTyped ==
  ASSUME NEW w \in Folio, NEW current \in Folio
  PROVE  Suppressed(w, current) \in Folio
BY DEF Suppressed, Folio

(* The exposure of a regime, and the one left by the clock.                *)
LEMMA TargetTyped ==
  ASSUME regime \in Regimes
  PROVE  TargetExposure \in 0..Nav
<1> DEFINE r == IF regime = BULL /\ btcVol # "calm" THEN BULL_RISING ELSE regime
<1>1. r \in DOMAIN Exposure
  BY PortfolioAssumption
<1> HIDE DEF r
<1>2. Exposure[r] \in 0..Nav
  BY <1>1, PortfolioAssumption
<1>3. TargetExposure = Smaller(MaxCrypto, Exposure[r])
  BY DEF TargetExposure, r
<1> QED BY <1>2, <1>3, Constants DEF Smaller

(* A tier that has been crossed means that there is a largest one.         *)
LEMMA ApplicableCrossed ==
  ASSUME NEW t \in Nat, Crossed(t) # {}
  PROVE  Applicable(t) \in Crossed(t)
<1> DEFINE Gaps == {n \in Nat : \E e \in Crossed(t) : n = t - e.left}
<1>1. \A e \in Crossed(t) : e.left \in Nat /\ t - e.left \in Nat
  BY EndgameAssumption DEF Crossed
<1>2. Gaps # {} /\ Gaps \subseteq Nat
  BY <1>1
<1>3. PICK n \in Gaps : \A m \in Gaps : ~(<<m, n>> \in Less)
  <2>1. IsWellFoundedOn(Less, Nat)
    BY NatLessThanWellFounded DEF OpToRel, Less
  <2> HIDE DEF Gaps
  <2> QED BY <1>2, <2>1, WFMin
<1>4. PICK e \in Crossed(t) : n = t - e.left
  OBVIOUS
<1>5. ASSUME NEW f \in Crossed(t) PROVE f.left <= e.left
  <2>1. t - f.left \in Gaps
    BY <1>1
  <2>2. ~(t - f.left < n)
    BY <1>2, <1>3, <2>1 DEF Less
  <2> QED BY <1>1, <1>4, <2>2
<1> QED BY <1>5 DEF Applicable

LEMMA EndgameTyped ==
  ASSUME NEW t \in Nat
  PROVE  EndgameOf(t).exposure \in Nat
<1>1. MaxExposure(t) \in Nat
  <2>1. CASE Unlisted(t)
    BY <2>1 DEF MaxExposure
  <2>2. CASE ~Unlisted(t)
    <3>1. Crossed(t) # {}
      BY <2>2 DEF Unlisted
    <3>2. Applicable(t) \in Crossed(t)
      BY <3>1, ApplicableCrossed
    <3>3. Applicable(t).exposure \in Nat
      BY <3>2, EndgameAssumption DEF Crossed
    <3> QED BY <2>2, <3>3 DEF MaxExposure
  <2> QED BY <2>1, <2>2
<1> DEFINE m == MaxExposure(t)
<1> HIDE DEF m
<1>2. (Nav * m) \div 100 \in Nat
  BY <1>1, Constants, Share DEF m
<1> QED BY <1>2 DEF EndgameOf, m

(* construct: weights, none of them negative, from the weights held.       *)
LEMMA BuiltTyped ==
  ASSUME NEW market \in Markets, NEW current \in Folio, NEW exposure \in Nat
  PROVE  Built(market, current, exposure) \in Folio
<1> DEFINE S == IF exposure > 0 THEN Candidates(market, Holdings[regime]) ELSE {}
           crypto == Capped(Sized(S, exposure, market.vol))
           memes == MemeOf(market, regime)
<1>1. DOMAIN market.scores \subseteq Asset /\ market.vol \in [Asset -> 0..VolScale]
  BY AllocationAssumption
<1>2. S \in SUBSET Asset
  BY <1>1, CandidatesListed
<1>3. memes \in SUBSET Asset
  BY <1>1 DEF MemeOf, TopOf
<1>4. Built(market, current, exposure) =
        Suppressed(Throttled(Combined(crypto, memes, exposure), current), current)
  BY DEF Built
<1> HIDE DEF S, memes
<1>5. crypto \in Folio
  BY <1>1, <1>2, SizedTyped, CappedTyped
<1> HIDE DEF crypto
<1> QED BY <1>3, <1>4, <1>5, CombinedTyped, ThrottledTyped, SuppressedTyped

LEMMA ConstructTyped ==
  ASSUME NEW market \in Markets, NEW current \in Folio, NEW t \in Nat, regime \in Regimes
  PROVE  Construct(market, current, EndgameOf(t)) \in Folio
<1>1. Effective(EndgameOf(t)) \in Nat
  BY TargetTyped, EndgameTyped DEF Effective, Smaller
<1>2. Built(market, current, Effective(EndgameOf(t))) \in Folio
  BY <1>1, BuiltTyped
<1>3. Empty \in Folio
  BY DEF Empty, Folio
<1> QED BY <1>2, <1>3 DEF Construct

LEMMA FinalTyped ==
  ASSUME NEW market \in Markets, book \in Folio, left \in Nat, regime \in Regimes
  PROVE  /\ Final(market) \in Folio /\ Total(Final(market)) <= TargetExposure
         /\ TargetExposure \in 0..Nav
BY ConstructTyped, FixedWithin, TargetTyped DEF Final


-----------------------------------------------------------------------------
(* The book.                                                               *)

(* What is held is a portfolio, no asset above all of the value.           *)
BookInv == /\ book \in Weights /\ Total(book) <= Nav + Slack
           /\ left \in Instants /\ exits \in 0..MaxExits /\ rebalanced \in BOOLEAN

LEMMA BookFolio == book \in Weights => book \in Folio
  BY Constants DEF Weights, Folio

LEMMA InstantNat == \A t \in Instants : t \in Nat
  BY AllocationAssumption

LEMMA SlackNat == Slack \in Nat
<1> DEFINE n == Cardinality(Asset)
           k == MinTrade - 1
<1>1. n \in Nat /\ k \in Nat
  BY Constants
<1> HIDE DEF n, k
<1>2. n * k \in Nat
  BY <1>1
<1> QED BY <1>2 DEF Slack, n, k

LEMMA EmptyTotal == Total(Empty) = 0
<1> DEFINE T == {s \in SUBSET Asset : SumFunctionOnSet(Empty, s) = 0}
<1>1. {} \in T
  BY SumOut, FS_EmptySet
<1>2. \A s \in SUBSET Asset : (s # {} /\ \A x \in s : s \ {x} \in T) => s \in T
  <2> SUFFICES ASSUME NEW s \in SUBSET Asset, s # {}, \A x \in s : s \ {x} \in T
               PROVE  SumFunctionOnSet(Empty, s) = 0
    OBVIOUS
  <2>1. IsFiniteSet(s)
    BY Constants, FS_Subset
  <2>2. PICK x \in s : SumFunctionOnSet(Empty, s) = Empty[x] + SumFunctionOnSet(Empty, s \ {x})
    BY <2>1, SumOut
  <2>3. SumFunctionOnSet(Empty, s \ {x}) = 0 /\ Empty[x] = 0
    BY DEF Empty
  <2> QED BY <2>2, <2>3
<1>3. \A s \in SUBSET Asset : s \in T
  <2> HIDE DEF T
  <2> QED BY <1>1, <1>2, Constants, OneByOne
<1> QED BY <1>3 DEF Total

LEMMA BookInitHolds == Init => BookInv
<1>1. \E t \in Instants : Instant(t)
  BY AllocationAssumption
<1>2. (CHOOSE t \in Instants : Instant(t)) \in Instants
  BY <1>1
<1>3. Empty \in Weights
  BY Constants DEF Empty, Weights
<1>4. Total(Empty) <= Nav + Slack
  BY EmptyTotal, SlackNat, Constants
<1>5. MaxExits \in Nat
  BY AllocationAssumption
<1> SUFFICES ASSUME Init PROVE BookInv
  OBVIOUS
<1>6. book = Empty /\ left \in Instants /\ exits = 0 /\ rebalanced = FALSE
  BY <1>2 DEF Init
<1>7. exits \in 0..MaxExits /\ rebalanced \in BOOLEAN
  <2>1. exits = 0
    BY <1>6
  <2>2. rebalanced \in BOOLEAN
    BY <1>6, Zenon
  <2> QED BY <1>5, <2>1, <2>2
<1>8. book \in Weights /\ Total(book) <= Nav + Slack
  BY <1>3, <1>4, <1>6
<1> QED BY <1>6, <1>7, <1>8 DEF BookInv

(* One rebalance: each weight is within a trade of the target.             *)
LEMMA Rebalanced ==
  ASSUME BookInv, regime \in Regimes, NEW market \in Markets, Rebalance(Final(market))
  PROVE  /\ book' \in Weights
         /\ UNCHANGED <<regimeVars, left, exits>>
         /\ Total(book') <= TargetExposure + Slack
<1> DEFINE final == Final(market)
<1>1. book \in Folio /\ left \in Nat
  BY BookFolio, InstantNat DEF BookInv
<1>2. final \in Folio /\ Total(final) <= TargetExposure /\ TargetExposure \in 0..Nav
  BY <1>1, FinalTyped
<1>3. Rebalance(final)
  OBVIOUS
<1> HIDE DEF final
<1>4. /\ book' = [a \in Asset |-> IF a \in Ordered(final) THEN final[a] ELSE book[a]]
      /\ UNCHANGED <<regimeVars, left, exits>>
  BY <1>3 DEF Rebalance
<1>5. \A a \in Asset : final[a] \in Nat /\ book[a] \in 0..Nav
  BY <1>2 DEF Folio, BookInv, Weights
<1>6. Total(final) \in Nat /\ \A a \in Asset : final[a] <= Total(final)
  BY <1>2, TotalNat
<1>7. \A a \in Asset : final[a] \in 0..Nav
  BY <1>2, <1>5, <1>6, Constants
<1>8. book' \in Weights
  BY <1>4, <1>5, <1>7 DEF Weights
<1>9. MinTrade - 1 \in Nat
  BY Constants
<1>10. ASSUME NEW a \in Asset
       PROVE  book'[a] \in Int /\ final[a] \in Int /\ book'[a] <= final[a] + (MinTrade - 1)
  <2>1. book[a] \in Nat /\ final[a] \in Nat /\ MinTrade \in Nat
    BY <1>5, Constants
  <2>2. CASE a \in Ordered(final)
    BY <1>4, <1>9, <2>1, <2>2
  <2>3. CASE a \notin Ordered(final)
    <3>1. ~(Larger(final[a] - book[a], book[a] - final[a]) >= MinTrade)
      BY <2>3 DEF Ordered
    <3>2. book'[a] = book[a]
      BY <1>4, <2>3
    <3> QED BY <2>1, <3>1, <3>2 DEF Larger
  <2> QED BY <2>2, <2>3
<1>11. Total(book') <= Total(final) + Slack
  <2> DEFINE k == MinTrade - 1
             after == book'
  <2>1. k \in Nat /\ \A a \in Asset : after[a] \in Int /\ final[a] \in Int /\ after[a] <= final[a] + k
    BY <1>9, <1>10
  <2> HIDE DEF k, after
  <2>2. SumFunctionOnSet(after, Asset) <= SumFunctionOnSet(final, Asset) + Cardinality(Asset) * k
    BY <2>1, Constants, SumWithin
  <2> QED BY <2>2 DEF Total, Slack, k, after
<1>12. Slack \in Nat
  BY SlackNat
<1>13. Total(book') \in Nat
  <2> DEFINE after == book'
  <2>1. after \in Folio
    BY <1>8, Constants DEF Weights, Folio
  <2> HIDE DEF after
  <2>2. Total(after) \in Nat
    BY <2>1, TotalNat
  <2> QED BY <2>2 DEF after
<1>14. TargetExposure \in Int
  BY <1>2, Constants
<1> HIDE DEF Rebalance
<1>15. Total(book') <= TargetExposure + Slack
  BY <1>2, <1>6, <1>11, <1>12, <1>13, <1>14
<1> QED BY <1>4, <1>8, <1>15

LEMMA BookStep ==
  ASSUME BookInv, regime \in Regimes, [Next]_vars
  PROVE  /\ BookInv'
         /\ book' # book /\ exits' = exits
              => UNCHANGED <<regimeVars, left>> /\ Total(book') <= TargetExposure + Slack
<1>1. CASE RegimeTick
  <2>1. rebalanced' \in BOOLEAN
    BY <1>1 DEF RegimeTick, BookInv
  <2>2. UNCHANGED <<book, left, exits>>
    BY <1>1 DEF RegimeTick
  <2> QED BY <2>1, <2>2 DEF BookInv
<1>2. CASE RebalanceTick
  <2>1. PICK market \in Markets : Rebalance(Final(market))
    BY <1>2 DEF RebalanceTick, RebalanceIn, Scored
  <2>2. /\ book' \in Weights /\ UNCHANGED <<regimeVars, left, exits>>
        /\ Total(book') <= TargetExposure + Slack
    BY <2>1, Rebalanced
  <2>3. rebalanced' \in BOOLEAN
    BY <1>2 DEF RebalanceTick, BookInv
  <2>4. TargetExposure <= Nav /\ TargetExposure \in Int
    BY TargetTyped, Constants
  <2>5. Total(book') \in Nat
    <3> DEFINE after == book'
    <3>1. after \in Folio
      BY <2>2, Constants DEF Weights, Folio
    <3> HIDE DEF after
    <3> QED BY <3>1, TotalNat DEF after
  <2>6. Total(book') <= Nav + Slack
    BY <2>2, <2>4, <2>5, SlackNat, Constants
  <2> QED BY <2>2, <2>3, <2>6 DEF BookInv
<1>3. CASE Elapse
  <2>1. left' \in Instants /\ UNCHANGED <<book, exits, rebalanced>>
    BY <1>3 DEF Elapse
  <2> QED BY <2>1 DEF BookInv
<1>4. CASE RiskExit
  <2>1. PICK a \in Held(book) \cap Exitable : book' = [book EXCEPT ![a] = 0]
    BY <1>4 DEF RiskExit
  <2>2. exits' = exits + 1 /\ exits < MaxExits /\ UNCHANGED <<left, rebalanced>>
    BY <1>4 DEF RiskExit
  <2>3. book' \in Weights
    <3>1. 0 \in 0..Nav
      BY Constants
    <3> DEFINE T == 0..Nav
    <3> HIDE DEF T
    <3>2. book \in [Asset -> T] /\ 0 \in T
      BY <3>1 DEF BookInv, Weights, T
    <3>3. book' \in [Asset -> T]
      BY <2>1, <3>2
    <3> QED BY <3>3 DEF Weights, T
  <2>4. exits' \in 0..MaxExits /\ exits' # exits
    BY <2>2, AllocationAssumption DEF BookInv
  <2>5. Total(book') <= Total(book)
    <3> DEFINE after == book'
    <3>1. \A b \in Asset : after[b] \in Int /\ book[b] \in Int /\ after[b] <= book[b] + 0
      BY <2>1, Constants DEF BookInv, Weights
    <3> HIDE DEF after
    <3>2. SumFunctionOnSet(after, Asset) <= SumFunctionOnSet(book, Asset) + Cardinality(Asset) * 0
      BY <3>1, Constants, SumWithin
    <3>3. Cardinality(Asset) * 0 = 0
      BY Constants
    <3>4. SumFunctionOnSet(after, Asset) \in Int /\ SumFunctionOnSet(book, Asset) \in Int
      BY <3>1, Constants, SumInt
    <3>5. SumFunctionOnSet(after, Asset) <= SumFunctionOnSet(book, Asset)
      BY <3>2, <3>3, <3>4
    <3> QED BY <3>5 DEF Total, after
  <2>6. Total(book) \in Nat /\ Total(book') \in Nat
    <3> DEFINE after == book'
    <3>1. after \in Folio /\ book \in Folio
      BY <2>3, Constants DEF BookInv, Weights, Folio
    <3> HIDE DEF after
    <3> QED BY <3>1, TotalNat DEF after
  <2>7. Total(book') <= Nav + Slack
    BY <2>5, <2>6, SlackNat, Constants DEF BookInv
  <2> QED BY <2>2, <2>3, <2>4, <2>7 DEF BookInv
<1>5. CASE UNCHANGED vars
  BY <1>5 DEF vars, BookInv
<1> QED BY <1>1, <1>2, <1>3, <1>4, <1>5 DEF Next

LEMMA BookInvariant == Spec => []BookInv
<1>1. RegimeTypeOK => regime \in Regimes
  BY DEF RegimeTypeOK
<1>2. BookInv /\ RegimeTypeOK /\ [Next]_vars => BookInv'
  BY <1>1, BookStep
<1> QED BY BookInitHolds, RegimeTyped, <1>2, PTL DEF Spec

(* Every variable keeps its type: no weight is negative, none exceeds the   *)
(* net asset value and together they exceed it by no more than the trades  *)
(* too small to be made, whatever the caps, the pools, the turnover cap    *)
(* and the validator make of the targets (PortfolioConstructor.construct,  *)
(* PreTradeValidator.validate_and_fix).                                    *)
THEOREM BookTyped == Spec => []TypeOK
<1>1. BookInv /\ RegimeTypeOK => TypeOK
  BY DEF BookInv, TypeOK
<1> QED BY BookInvariant, RegimeTyped, <1>1, PTL

(* What is held after a rebalance is at most the exposure of the regime.   *)
THEOREM ExposureKept == Spec => WithinExposure
<1>1. RegimeTypeOK => regime \in Regimes
  BY DEF RegimeTypeOK
<1>2. BookInv /\ RegimeTypeOK /\ [Next]_vars
        => [UNCHANGED regimeVars /\ UNCHANGED left /\ book' # book /\ exits' = exits
              => Total(book') <= TargetExposure + Slack]_vars
  BY <1>1, BookStep
<1> QED BY BookInvariant, RegimeTyped, <1>2, PTL DEF Spec, WithinExposure
=============================================================================
