-------------------------- MODULE PositionStopsProofs --------------------------
(***************************************************************************)
(* A tracked stop never falls, and no fall from the high goes unsignalled, *)
(* for any prices, fills and restarts.  The second needs an invariant that *)
(* says where the high of a position is remembered between two ticks: in   *)
(* its peak, or in its stop if it has one.                                 *)
(***************************************************************************)
EXTENDS PositionStops, WellFoundedInduction, TLAPS

(* Arithmetic of the stop distances.                                       *)

LEMMA Grows ==
  ASSUME NEW x \in Nat, NEW y \in Nat, NEW c \in Nat, NEW d \in Nat, x <= y, c <= d
  PROVE  x * c <= y * d
<1>1. x * c <= y * c
  BY SMT
<1>2. y * c <= y * d
  BY SMT
<1>3. x * c \in Nat /\ y * c \in Nat /\ y * d \in Nat
  BY SMT
<1> QED BY <1>1, <1>2, <1>3

LEMMA Hundredth ==
  ASSUME NEW m \in Nat, NEW n \in Nat, m <= n
  PROVE  m \div 100 <= n \div 100 /\ m \div 100 \in Nat
  BY SMT

LEMMA Factors ==
  /\ HighPct \in Nat /\ MidPct \in Nat /\ HighPct <= MidPct /\ MidPct <= 100
  /\ MidGain \in Nat /\ HighGain \in Nat /\ Floor \in Nat /\ Floor <= Unit
  /\ \A a \in Asset : BaseStop[a] \in Nat /\ BaseStop[a] <= Unit
<1>1. Unit \in Nat
  BY DEF Unit
<1>2. \A a \in Asset : BaseStop[a] \in 0..Unit
  BY StopsAssumption
<1>3. HighPct \in 0..100 /\ MidPct \in HighPct..100 /\ Floor \in 0..Unit
  BY StopsAssumption
<1> QED BY <1>1, <1>2, <1>3, StopsAssumption

LEMMA Tightened ==
  ASSUME NEW s \in StopRec
  PROVE  TightenPct(s) \in Nat /\ TightenPct(s) <= 100
  BY Factors DEF TightenPct

(* The distance is a natural number no larger than one hundred percent.    *)
LEMMA DistanceRange ==
  ASSUME NEW a \in Asset, NEW s \in StopRec, NEW o \in Nat \cup {NoOverride}, o <= Unit
  PROVE  Distance(a, s, o) \in Nat /\ Distance(a, s, o) <= Unit
<1>1. (BaseStop[a] * TightenPct(s)) \div 100 <= BaseStop[a]
      /\ (BaseStop[a] * TightenPct(s)) \div 100 \in Nat
  <2>1. BaseStop[a] * TightenPct(s) <= BaseStop[a] * 100
    BY Tightened, Factors, Grows
  <2>2. BaseStop[a] * TightenPct(s) \in Nat /\ BaseStop[a] * 100 \in Nat
    BY Tightened, Factors, SMT
  <2>3. (BaseStop[a] * 100) \div 100 = BaseStop[a]
    BY Factors, SMT
  <2> QED BY <2>1, <2>2, <2>3, Hundredth
<1>2. CASE o = NoOverride
  BY <1>1, <1>2, Factors DEF Distance, Larger, Unit
<1>3. CASE o # NoOverride
  <2>1. o \in Nat
    BY <1>3
  <2> QED BY <1>3, <2>1, Factors DEF Distance, Larger, Unit
<1> QED BY <1>2, <1>3

(* A higher peak tightens the distance, and both raise the level.          *)
LEMMA HigherPeak ==
  ASSUME NEW a \in Asset, NEW s \in StopRec, NEW t \in StopRec,
         NEW o \in Nat \cup {NoOverride}, o <= Unit,
         t.entry = s.entry, s.peak <= t.peak
  PROVE  Level(a, s, o) <= Level(a, t, o)
<1>1. s.peak \in Nat /\ t.peak \in Nat /\ s.entry \in Nat
  BY DEF StopRec
<1>2. ASSUME NEW g \in Nat, Gained(s, g) PROVE Gained(t, g)
  <2>1. Unit * (s.peak - s.entry) <= Unit * (t.peak - s.entry)
    BY <1>1 DEF Unit
  <2>2. g * s.entry \in Nat
    BY <1>1, SMT
  <2> QED BY <1>1, <1>2, <2>1, <2>2 DEF Gained, Unit
<1>3. TightenPct(t) <= TightenPct(s)
  BY <1>2, Factors DEF TightenPct
<1>4. Distance(a, t, o) <= Distance(a, s, o)
  <2>1. (BaseStop[a] * TightenPct(t)) \div 100 <= (BaseStop[a] * TightenPct(s)) \div 100
    <3>1. BaseStop[a] * TightenPct(t) <= BaseStop[a] * TightenPct(s)
      BY <1>3, Tightened, Factors, Grows
    <3>2. BaseStop[a] * TightenPct(t) \in Nat /\ BaseStop[a] * TightenPct(s) \in Nat
      BY Tightened, Factors, SMT
    <3> QED BY <3>1, <3>2, Hundredth
  <2>2. /\ (BaseStop[a] * TightenPct(t)) \div 100 \in Int
        /\ (BaseStop[a] * TightenPct(s)) \div 100 \in Int
    <3>1. BaseStop[a] * TightenPct(t) \in Nat /\ BaseStop[a] * TightenPct(s) \in Nat
      BY Tightened, Factors, SMT
    <3> QED BY <3>1, SMT
  <2> QED BY <2>1, <2>2, Factors DEF Distance, Larger
<1>5. Unit - Distance(a, s, o) \in Nat /\ Unit - Distance(a, t, o) \in Nat
  BY DistanceRange DEF Unit
<1>6. Unit - Distance(a, s, o) <= Unit - Distance(a, t, o)
  BY <1>4, DistanceRange DEF Unit
<1> QED BY <1>1, <1>5, <1>6, Grows DEF Level

-----------------------------------------------------------------------------
(* The endgame's schedule.                                                 *)

Less == {p \in Nat \X Nat : p[1] < p[2]}

LEMMA LessWellFounded == IsWellFoundedOn(Less, Nat)
  BY NatLessThanWellFounded DEF OpToRel, Less

(* A tier that has been crossed means that there is a largest one.         *)
LEMMA ApplicableCrossed ==
  ASSUME NEW t \in Int, Crossed(t) # {}
  PROVE  /\ Applicable(t) \in Crossed(t)
         /\ \A f \in Crossed(t) : f.left <= Applicable(t).left
<1> DEFINE Gaps == {n \in Nat : \E e \in Crossed(t) : n = t - e.left}
<1>1. \A e \in Crossed(t) : e.left \in Nat /\ t - e.left \in Nat
  BY EndgameAssumption DEF Crossed
<1>2. Gaps # {} /\ Gaps \subseteq Nat
  BY <1>1
<1>3. PICK n \in Gaps : \A m \in Gaps : ~(<<m, n>> \in Less)
  <2> HIDE DEF Gaps
  <2> QED BY <1>2, LessWellFounded, WFMin
<1>4. PICK e \in Crossed(t) : n = t - e.left
  OBVIOUS
<1>5. ASSUME NEW f \in Crossed(t) PROVE f.left <= e.left
  <2>1. t - f.left \in Gaps
    BY <1>1
  <2>2. ~(t - f.left < n)
    BY <1>2, <1>3, <2>1 DEF Less
  <2> QED BY <1>1, <1>4, <2>2
<1> QED BY <1>5 DEF Applicable

LEMMA OverrideRange ==
  ASSUME NEW t \in Int
  PROVE  StopOverride(t) \in Nat \cup {NoOverride} /\ StopOverride(t) <= Unit
<1>1. CASE Unlisted(t)
  BY <1>1 DEF StopOverride, NoOverride, Unit
<1>2. CASE ~Unlisted(t)
  <2>1. Applicable(t) \in Schedule
    BY <1>2, ApplicableCrossed DEF Unlisted, Crossed
  <2> QED BY <1>2, <2>1, StopsAssumption, EndgameAssumption DEF StopOverride
<1> QED BY <1>1, <1>2

-----------------------------------------------------------------------------
(* Types.                                                                  *)

LEMMA PriceTypes == /\ Prices \subseteq Nat
                    /\ [Asset -> Prices \cup {0}] \subseteq [Asset -> Nat]
<1>1. Prices \subseteq Nat
  BY StopsAssumption
<1>2. Prices \cup {0} \subseteq Nat
  BY <1>1
<1>3. ASSUME NEW f \in [Asset -> Prices \cup {0}] PROVE f \in [Asset -> Nat]
  BY <1>2, <1>3
<1> QED BY <1>1, <1>3

LEMMA InitTyped == Init => TypeOK
<1> SUFFICES ASSUME Init PROVE TypeOK
  OBVIOUS
<1>1. left \in Int
  BY StopsAssumption DEF Init
<1>2. price \in [Asset -> Nat]
  BY PriceTypes DEF Init
<1>3. NoStop \in StopRec
  BY DEF NoStop, StopRec
<1>4. stop \in [Asset -> StopRec]
  BY <1>3 DEF Init
<1> QED BY <1>1, <1>2, <1>4 DEF Init, TypeOK

(* The stop of an asset after a tick is a record of prices, no lower than  *)
(* the stop before it, the peak of the position and the price.             *)
LEMMA TickedStop ==
  ASSUME TypeOK, price' \in [Asset -> Nat], peakSince' \in [Asset -> Nat],
         NEW a \in Asset
  PROVE  /\ Raised(Synced(a), price'[a]) \in StopRec
         /\ Raised(Synced(a), price'[a]).peak >= price'[a]
         /\ Raised(Synced(a), price'[a]).peak >= peakSince'[a]
         /\ a \in tracked => /\ Raised(Synced(a), price'[a]).entry = stop[a].entry
                             /\ Raised(Synced(a), price'[a]).peak >= stop[a].peak
<1>1. /\ price'[a] \in Nat /\ peakSince'[a] \in Nat /\ cost[a] \in Nat
      /\ stop[a] \in StopRec /\ stop[a].entry \in Nat /\ stop[a].peak \in Nat
  BY DEF TypeOK, StopRec
<1>2. CASE a \in tracked
  <2>1. Synced(a) = [entry |-> stop[a].entry, peak |-> Larger(stop[a].peak, peakSince'[a])]
    BY <1>1, <1>2 DEF Synced, StopRec
  <2>2. Raised(Synced(a), price'[a]) =
          [entry |-> stop[a].entry,
           peak |-> Larger(Larger(stop[a].peak, peakSince'[a]), price'[a])]
    BY <2>1 DEF Raised
  <2> QED BY <1>1, <2>2 DEF Larger, StopRec
<1>3. CASE a \notin tracked
  <2>1. Synced(a) = [entry |-> Entry(a), peak |-> Larger(Entry(a), peakSince'[a])]
    BY <1>3 DEF Synced
  <2>2. Raised(Synced(a), price'[a]) =
          [entry |-> Entry(a), peak |-> Larger(Larger(Entry(a), peakSince'[a]), price'[a])]
    BY <2>1 DEF Raised
  <2>3. Entry(a) \in Nat
    BY <1>1 DEF Entry
  <2> QED BY <1>1, <1>3, <2>2, <2>3 DEF Larger, StopRec
<1> QED BY <1>2, <1>3

LEMMA TickTyped ==
  ASSUME TypeOK, NEW fetched \in BOOLEAN, NEW elapsed \in Steps, Tick(fetched, elapsed)
  PROVE  TypeOK' /\ left' \in Int
<1>1. left' \in Int
  BY StopsAssumption DEF Tick, TypeOK
<1>2. price' \in [Asset -> Nat]
  BY PriceTypes DEF Tick, TypeOK, Fetch
<1>3. peakSince' \in [Asset -> Nat]
  BY <1>2 DEF Tick, TypeOK, Larger
<1>4. high' \in [Asset -> Nat]
  BY <1>2 DEF Tick, TypeOK, Larger
<1>5. stop' \in [Asset -> StopRec]
  <2>1. NoStop \in StopRec
    BY DEF NoStop, StopRec
  <2>2. stop' = [a \in Asset |-> IF a \in held THEN Raised(Synced(a), price'[a]) ELSE NoStop]
    BY DEF Tick, RiskTick
  <2> QED BY <1>2, <1>3, <2>1, <2>2, TickedStop
<1>6. /\ held' = held /\ cost' = cost /\ tracked' = held /\ stopped' \subseteq held
  BY DEF Tick, RiskTick
<1> QED BY <1>1, <1>2, <1>3, <1>4, <1>5, <1>6 DEF TypeOK

LEMMA FillTyped ==
  ASSUME TypeOK, NEW a \in Asset, NEW p \in Prices, NEW average \in Prices \cup {0},
         BuyFill(a, p, average)
  PROVE  TypeOK'
<1>1. p \in Nat /\ average \in Nat
  BY PriceTypes
<1>2. cost' = [cost EXCEPT ![a] = average] /\ held' = held \cup {a}
      /\ UNCHANGED <<left, price, stop, tracked, stopped>>
  BY DEF BuyFill, stops
<1>3. peakSince' \in [Asset -> Nat] /\ high' \in [Asset -> Nat]
  <2>1. CASE a \in held
    BY <1>1, <2>1 DEF BuyFill, TypeOK, Larger
  <2>2. CASE a \notin held
    BY <1>1, <2>2 DEF BuyFill, TypeOK
  <2> QED BY <2>1, <2>2
<1> QED BY <1>1, <1>2, <1>3 DEF TypeOK

LEMMA RestartTyped == TypeOK /\ Restart => TypeOK'
<1> SUFFICES ASSUME TypeOK, Restart PROVE TypeOK'
  OBVIOUS
<1>1. price' \in [Asset -> Nat]
  BY PriceTypes DEF Restart
<1>2. cost' \in [Asset -> Nat]
  BY <1>1 DEF Restart
<1>3. NoStop \in StopRec
  BY DEF NoStop, StopRec
<1>4. stop' \in [Asset -> StopRec] /\ tracked' = {} /\ stopped' = {}
      /\ peakSince' = cost' /\ high' = cost' /\ UNCHANGED <<left, held>>
  BY <1>3 DEF Restart
<1> QED BY <1>1, <1>2, <1>4 DEF TypeOK

LEMMA NextTyped == TypeOK /\ [Next]_vars => TypeOK'
<1> SUFFICES ASSUME TypeOK, [Next]_vars PROVE TypeOK'
  OBVIOUS
<1>1. ASSUME NEW fetched \in BOOLEAN, NEW elapsed \in Steps, Tick(fetched, elapsed)
      PROVE TypeOK'
  BY <1>1, TickTyped
<1>2. ASSUME NEW a \in Asset, Close(a) PROVE TypeOK'
  BY <1>2 DEF Close, TypeOK, stops
<1>3. ASSUME NEW a \in Asset, Discover(a) PROVE TypeOK'
  BY <1>3 DEF Discover, TypeOK, stops
<1>4. ASSUME NEW a \in Asset, NEW p \in Prices, NEW average \in Prices \cup {0},
             BuyFill(a, p, average)
      PROVE TypeOK'
  BY <1>4, FillTyped
<1>5. CASE Restart
  BY <1>5, RestartTyped
<1>6. CASE UNCHANGED vars
  BY <1>6 DEF vars, position, stops, TypeOK
<1> QED BY <1>1, <1>2, <1>3, <1>4, <1>5, <1>6 DEF Next

(* Every variable of the stops keeps its type.                             *)
THEOREM StopsTyped == Spec => []TypeOK
<1> QED BY InitTyped, NextTyped, PTL DEF Spec

-----------------------------------------------------------------------------
(* A tracked stop never falls while the same override applies.             *)

LEMMA StepRatchets ==
  ASSUME TypeOK, [Next]_vars, StopOverride(left') = StopOverride(left),
         NEW a \in tracked \cap tracked'
  PROVE  Level(a, stop'[a], StopOverride(left')) >= Level(a, stop[a], StopOverride(left))
<1> DEFINE o == StopOverride(left)
<1>1. a \in Asset /\ stop[a] \in StopRec /\ o \in Nat \cup {NoOverride} /\ o <= Unit
  BY OverrideRange DEF TypeOK
<1>2. CASE \E fetched \in BOOLEAN, elapsed \in Steps : Tick(fetched, elapsed)
  <2>1. PICK fetched \in BOOLEAN, elapsed \in Steps : Tick(fetched, elapsed)
    BY <1>2
  <2>2. price' \in [Asset -> Nat] /\ peakSince' \in [Asset -> Nat]
    BY <2>1, TickTyped DEF TypeOK
  <2>3. stop'[a] = Raised(Synced(a), price'[a])
    BY <1>1, <2>1 DEF Tick, RiskTick
  <2>4. stop'[a] \in StopRec /\ stop'[a].entry = stop[a].entry
        /\ stop'[a].peak >= stop[a].peak
    BY <1>1, <2>2, <2>3, TickedStop
  <2>5. stop[a].peak <= stop'[a].peak
    BY <1>1, <2>4 DEF StopRec
  <2>6. Level(a, stop[a], o) <= Level(a, stop'[a], o)
    BY <1>1, <2>4, <2>5, HigherPeak
  <2> QED BY <2>6
<1>3. CASE Restart
  BY <1>3 DEF Restart
<1>4. CASE UNCHANGED stops
  <2>1. stop' = stop
    BY <1>4 DEF stops
  <2>2. stop[a].peak \in Nat
    BY <1>1 DEF StopRec
  <2>3. Unit - Distance(a, stop[a], o) \in Nat
    <3> HIDE DEF o
    <3>1. Distance(a, stop[a], o) \in Nat /\ Distance(a, stop[a], o) <= Unit
      BY <1>1, DistanceRange
    <3> QED BY <3>1 DEF Unit
  <2>4. Level(a, stop[a], o) \in Nat
    BY <2>2, <2>3, SMT DEF Level
  <2> QED BY <2>1, <2>4
<1>5. UNCHANGED stops \/ Restart
      \/ \E fetched \in BOOLEAN, elapsed \in Steps : Tick(fetched, elapsed)
  BY DEF Next, Close, Discover, BuyFill, vars
<1> QED BY <1>2, <1>3, <1>4, <1>5

(* Neither fills nor missed bars loosen a stop, for every choice of        *)
(* distances, tightening and schedule.                                     *)
THEOREM StopsRatchet == Spec => StopRatchets
<1> DEFINE A == StopOverride(left') = StopOverride(left)
                  => \A a \in tracked \cap tracked' :
                       Level(a, stop'[a], StopOverride(left'))
                         >= Level(a, stop[a], StopOverride(left))
<1>1. TypeOK /\ [Next]_vars => [A]_vars
  BY StepRatchets
<1>2. Spec => [][A]_vars
  <2> HIDE DEF A
  <2> QED BY <1>1, InitTyped, NextTyped, PTL DEF Spec
<1> QED BY <1>2 DEF StopRatchets

-----------------------------------------------------------------------------
(* No fall from the high goes unsignalled.                                 *)

(* Neither the floor nor an override loosens a stop beyond its base.       *)
Narrowing ==
  /\ \A a \in Asset : Floor <= BaseStop[a]
  /\ \A a \in Asset, e \in Schedule : e.override <= BaseStop[a]

(* The high of a held position is remembered in its peak or in its stop.   *)
Remembered(a) == high[a] <= Larger(peakSince[a], IF a \in tracked THEN stop[a].peak ELSE 0)

HighKnown ==
  /\ TypeOK
  /\ \A a \in held : Remembered(a)
  /\ \A a \in Asset \ held : high[a] = 0

LEMMA NarrowDistance ==
  ASSUME Narrowing, NEW a \in Asset, NEW s \in StopRec, NEW t \in Int
  PROVE  Distance(a, s, StopOverride(t)) <= BaseStop[a]
<1>1. BaseStop[a] \in Nat /\ Floor \in Nat /\ Floor <= BaseStop[a]
  BY Factors DEF Narrowing
<1>2. (BaseStop[a] * TightenPct(s)) \div 100 <= BaseStop[a]
      /\ (BaseStop[a] * TightenPct(s)) \div 100 \in Nat
  <2>1. BaseStop[a] * TightenPct(s) <= BaseStop[a] * 100
    BY Tightened, Factors, Grows
  <2>2. BaseStop[a] * TightenPct(s) \in Nat /\ BaseStop[a] * 100 \in Nat
    BY Tightened, <1>1, SMT
  <2>3. (BaseStop[a] * 100) \div 100 = BaseStop[a]
    BY <1>1, SMT
  <2> QED BY <2>1, <2>2, <2>3, Hundredth
<1>3. CASE Unlisted(t)
  <2>1. StopOverride(t) = NoOverride
    BY <1>3 DEF StopOverride
  <2> QED BY <1>1, <1>2, <2>1 DEF Distance, Larger
<1>4. CASE ~Unlisted(t)
  <2>1. Applicable(t) \in Schedule
    BY <1>4, ApplicableCrossed DEF Unlisted, Crossed
  <2>2. StopOverride(t) = Applicable(t).override
    BY <1>4 DEF StopOverride
  <2>3. StopOverride(t) <= BaseStop[a]
    BY <2>1, <2>2 DEF Narrowing
  <2>4. StopOverride(t) \in Int
    BY OverrideRange DEF NoOverride
  <2> HIDE DEF StopOverride
  <2> QED BY <1>1, <1>2, <2>3, <2>4 DEF Distance, Larger
<1> QED BY <1>3, <1>4

(* After a tick the stop of a held asset has seen its high.                *)
LEMMA TickKnows ==
  ASSUME HighKnown, NEW fetched \in BOOLEAN, NEW elapsed, Tick(fetched, elapsed),
         TypeOK', NEW a \in held
  PROVE  /\ stop'[a] = Raised(Synced(a), price'[a])
         /\ stop'[a] \in StopRec
         /\ high'[a] \in Nat /\ high'[a] <= stop'[a].peak
<1>1. a \in Asset /\ price' \in [Asset -> Nat] /\ peakSince' \in [Asset -> Nat]
  BY DEF HighKnown, TypeOK
<1>2. stop'[a] = Raised(Synced(a), price'[a])
  BY <1>1 DEF Tick, RiskTick
<1>3. /\ stop'[a] \in StopRec /\ stop'[a].peak >= price'[a]
      /\ stop'[a].peak >= peakSince'[a]
      /\ a \in tracked => stop'[a].peak >= stop[a].peak
  BY <1>1, <1>2, TickedStop DEF HighKnown
<1>4. /\ high[a] \in Nat /\ price'[a] \in Nat /\ peakSince[a] \in Nat /\ peakSince'[a] \in Nat
      /\ stop[a].peak \in Nat /\ stop'[a].peak \in Nat
  BY <1>1, <1>3 DEF HighKnown, TypeOK, StopRec
<1>5. peakSince[a] <= peakSince'[a]
  BY <1>1, <1>4 DEF Tick, Larger
<1>6. high'[a] = Larger(high[a], price'[a])
  BY <1>1 DEF Tick
<1>7. high[a] <= Larger(peakSince[a], IF a \in tracked THEN stop[a].peak ELSE 0)
  BY DEF HighKnown, Remembered
<1>8. high[a] <= stop'[a].peak
  BY <1>3, <1>4, <1>5, <1>7 DEF Larger
<1> QED BY <1>2, <1>3, <1>4, <1>6, <1>8 DEF Larger

LEMMA InitKnown == Init => HighKnown
  BY InitTyped DEF Init, HighKnown

LEMMA NextKnown == HighKnown /\ [Next]_vars => HighKnown'
<1> SUFFICES ASSUME HighKnown, [Next]_vars PROVE HighKnown'
  OBVIOUS
<1>1. TypeOK /\ TypeOK'
  BY NextTyped DEF HighKnown
<1>2. ASSUME NEW fetched \in BOOLEAN, NEW elapsed \in Steps, Tick(fetched, elapsed)
      PROVE HighKnown'
  <2>1. held' = held /\ tracked' = held
    BY <1>2 DEF Tick, RiskTick
  <2>2. ASSUME NEW a \in held' PROVE Remembered(a)'
    <3>1. high'[a] \in Nat /\ high'[a] <= stop'[a].peak /\ stop'[a] \in StopRec
      BY <1>1, <1>2, <2>1, TickKnows
    <3>2. peakSince'[a] \in Nat /\ stop'[a].peak \in Nat
      BY <1>1, <2>1, <3>1 DEF TypeOK, StopRec
    <3>3. a \in tracked'
      BY <2>1
    <3> QED BY <3>1, <3>2, <3>3 DEF Remembered, Larger
  <2>3. \A a \in Asset \ held' : high'[a] = 0
    BY <1>2, <2>1 DEF Tick, HighKnown
  <2> QED BY <1>1, <2>2, <2>3 DEF HighKnown
<1>3. ASSUME NEW a \in Asset, Close(a) PROVE HighKnown'
  BY <1>1, <1>3 DEF Close, HighKnown, Remembered, TypeOK, stops
<1>4. ASSUME NEW a \in Asset, Discover(a) PROVE HighKnown'
  <2>1. held' = held \cup {a} /\ a \notin held /\ UNCHANGED <<high, peakSince, stop, tracked>>
    BY <1>4 DEF Discover, stops
  <2>2. Remembered(a)
    BY <1>1, <2>1 DEF HighKnown, Remembered, Larger, TypeOK, StopRec
  <2> QED BY <1>1, <2>1, <2>2 DEF HighKnown, Remembered
<1>5. ASSUME NEW a \in Asset, NEW p \in Prices, NEW average \in Prices \cup {0},
             BuyFill(a, p, average)
      PROVE HighKnown'
  <2>1. held' = held \cup {a} /\ UNCHANGED <<stop, tracked>>
    BY <1>5 DEF BuyFill, stops
  <2>2. \A b \in Asset \ {a} : high'[b] = high[b] /\ peakSince'[b] = peakSince[b]
    BY <1>1, <1>5 DEF BuyFill, TypeOK
  <2>3. p \in Nat /\ stop[a].peak \in Nat /\ high[a] \in Nat /\ peakSince[a] \in Nat
    BY <1>1, PriceTypes DEF TypeOK, StopRec
  <2>4. Remembered(a)'
    <3>1. CASE a \in held
      <4>1. high'[a] = Larger(high[a], p) /\ peakSince'[a] = Larger(peakSince[a], p)
        BY <1>1, <1>5, <3>1 DEF BuyFill, TypeOK
      <4>2. high[a] <= Larger(peakSince[a], IF a \in tracked THEN stop[a].peak ELSE 0)
        BY <3>1 DEF HighKnown, Remembered
      <4> QED BY <2>1, <2>3, <4>1, <4>2 DEF Remembered, Larger
    <3>2. CASE a \notin held
      <4>1. high'[a] = p /\ peakSince'[a] = p
        BY <1>1, <1>5, <3>2 DEF BuyFill, TypeOK
      <4> QED BY <2>1, <2>3, <4>1 DEF Remembered, Larger
    <3> QED BY <3>1, <3>2
  <2>5. ASSUME NEW b \in held', b # a PROVE Remembered(b)'
    <3>1. b \in held /\ b \in Asset
      BY <1>1, <2>1, <2>5 DEF TypeOK
    <3>2. Remembered(b)
      BY <3>1 DEF HighKnown
    <3> QED BY <2>1, <2>2, <2>5, <3>1, <3>2 DEF Remembered
  <2>6. \A b \in Asset \ held' : high'[b] = 0
    BY <2>1, <2>2 DEF HighKnown
  <2> QED BY <1>1, <2>4, <2>5, <2>6 DEF HighKnown
<1>6. CASE Restart
  <2>1. /\ cost' = [a \in Asset |-> IF a \in held THEN price'[a] ELSE 0]
        /\ peakSince' = cost' /\ high' = cost' /\ tracked' = {} /\ held' = held
    BY <1>6 DEF Restart
  <2>2. ASSUME NEW a \in held' PROVE Remembered(a)'
    <3>1. high'[a] \in Nat /\ peakSince'[a] = high'[a] /\ a \notin tracked'
      BY <1>1, <2>1 DEF TypeOK
    <3> QED BY <3>1 DEF Remembered, Larger
  <2> QED BY <1>1, <2>1, <2>2 DEF HighKnown
<1>7. CASE UNCHANGED vars
  BY <1>7, <1>1 DEF vars, position, stops, HighKnown, Remembered
<1> QED BY <1>2, <1>3, <1>4, <1>5, <1>6, <1>7 DEF Next

LEMMA TickGuards ==
  ASSUME Narrowing, HighKnown, TypeOK', Ticks, NEW a \in held, price'[a] > 0,
         Unit * price'[a] <= high'[a] * (Unit - BaseStop[a])
  PROVE  a \in stopped'
<1>1. PICK fetched \in BOOLEAN : Tick(fetched, left - left')
  BY DEF Ticks
<1> DEFINE d == Distance(a, stop'[a], StopOverride(left'))
<1>2. /\ a \in Asset /\ stop'[a] \in StopRec
      /\ high'[a] \in Nat /\ high'[a] <= stop'[a].peak
  BY <1>1, TickKnows DEF HighKnown, TypeOK
<1>3. d \in Nat /\ d <= BaseStop[a] /\ BaseStop[a] \in Nat /\ BaseStop[a] <= Unit
  <2>1. left' \in Int
    BY DEF TypeOK
  <2>2. StopOverride(left') \in Nat \cup {NoOverride} /\ StopOverride(left') <= Unit
    BY <2>1, OverrideRange
  <2> QED BY <1>2, <2>1, <2>2, DistanceRange, NarrowDistance, Factors
<1>4. high'[a] * (Unit - BaseStop[a]) <= stop'[a].peak * (Unit - d)
  <2> HIDE DEF d
  <2>1. Unit - BaseStop[a] \in Nat /\ Unit - d \in Nat /\ Unit - BaseStop[a] <= Unit - d
    BY <1>3 DEF Unit
  <2>2. stop'[a].peak \in Nat
    BY <1>2 DEF StopRec
  <2> QED BY <1>2, <2>1, <2>2, Grows
<1>5. Unit * price'[a] <= stop'[a].peak * (Unit - d)
  <2> HIDE DEF d
  <2>1. Unit - BaseStop[a] \in Nat /\ Unit - d \in Nat
    BY <1>3 DEF Unit
  <2>2. stop'[a].peak \in Nat /\ price'[a] \in Nat
    BY <1>2 DEF StopRec, TypeOK
  <2>3. high'[a] * (Unit - BaseStop[a]) \in Nat /\ stop'[a].peak * (Unit - d) \in Nat
    BY <1>2, <2>1, <2>2, SMT
  <2>4. Unit * price'[a] \in Nat
    BY <2>2 DEF Unit
  <2> QED BY <1>4, <2>3, <2>4
<1>6. Unit * price'[a] <= Level(a, stop'[a], StopOverride(left'))
  BY <1>5 DEF Level
<1> QED BY <1>1, <1>6 DEF Tick, RiskTick

(* Whatever fills, syncs, failed fetches and restarts come between two     *)
(* ticks, and whatever the schedule, as long as it narrows.                *)
THEOREM StopsGuard ==
  ASSUME Narrowing
  PROVE  Spec => Guarded
<1> DEFINE A == Ticks => \A a \in held :
                  /\ price'[a] > 0
                  /\ Unit * price'[a] <= high'[a] * (Unit - BaseStop[a])
                  => a \in stopped'
<1>1. HighKnown /\ [Next]_vars => [A]_vars
  <2>1. HighKnown /\ [Next]_vars => TypeOK'
    BY NextTyped DEF HighKnown
  <2> QED BY <2>1, TickGuards
<1>2. Spec => [][A]_vars
  <2> HIDE DEF A
  <2> QED BY <1>1, InitKnown, NextKnown, PTL DEF Spec
<1> QED BY <1>2 DEF Guarded

-----------------------------------------------------------------------------
(* The exposure cap only tightens.                                         *)

(* A tier with less time left allows no more exposure.                     *)
Tightening == \A e, f \in Schedule : e.left <= f.left => e.exposure <= f.exposure

LEMMA ExposureRange ==
  ASSUME NEW t \in Int
  PROVE  MaxExposure(t) \in Nat
<1>1. CASE Unlisted(t)
  BY <1>1 DEF MaxExposure
<1>2. CASE ~Unlisted(t)
  <2>1. Applicable(t) \in Schedule
    BY <1>2, ApplicableCrossed DEF Unlisted, Crossed
  <2> QED BY <1>2, <2>1, EndgameAssumption DEF MaxExposure
<1> QED BY <1>1, <1>2

LEMMA ExposureMonotone ==
  ASSUME Tightening, NEW t \in Int, NEW u \in Int, u <= t
  PROVE  MaxExposure(u) <= MaxExposure(t)
<1>1. CASE Unlisted(u)
  <2>1. MaxExposure(u) = 0
    BY <1>1 DEF MaxExposure
  <2> HIDE DEF MaxExposure
  <2> QED BY <2>1, ExposureRange
<1>2. CASE ~Unlisted(u)
  <2>1. \A e \in Schedule : e.left \in Nat /\ e.exposure \in Nat
    BY EndgameAssumption
  <2>2. Crossed(u) \subseteq Crossed(t) /\ Crossed(u) # {} /\ Crossed(t) \subseteq Schedule
    BY <1>2, <2>1 DEF Crossed, Unlisted
  <2>3. ~Unlisted(t)
    BY <1>2, <2>2, EndgameAssumption DEF Unlisted, SellAll
  <2>4. Applicable(u) \in Crossed(u) /\ Applicable(t) \in Crossed(t)
        /\ \A f \in Crossed(t) : f.left <= Applicable(t).left
    BY <2>2, ApplicableCrossed
  <2>5. Applicable(u).left <= Applicable(t).left
    BY <2>2, <2>4
  <2>6. Applicable(u) \in Schedule /\ Applicable(t) \in Schedule
    BY <2>2, <2>4
  <2>7. MaxExposure(u) = Applicable(u).exposure /\ MaxExposure(t) = Applicable(t).exposure
    BY <1>2, <2>3 DEF MaxExposure
  <2> QED BY <2>5, <2>6, <2>7 DEF Tightening
<1> QED BY <1>1, <1>2

(* As the round runs out the portfolio may be exposed no more, for every   *)
(* schedule whose tiers tighten.                                           *)
THEOREM ExposureFalls ==
  ASSUME Tightening
  PROVE  Spec => ExposureTightens
<1>1. TypeOK /\ [Next]_vars => [MaxExposure(left') <= MaxExposure(left)]_vars
  <2> SUFFICES ASSUME TypeOK, [Next]_vars
               PROVE  MaxExposure(left') <= MaxExposure(left)
    OBVIOUS
  <2>1. left \in Int /\ left' \in Int
    BY NextTyped DEF TypeOK
  <2>2. left' = left \/ \E elapsed \in Steps : left' = left - elapsed
    BY DEF Next, Tick, Close, Discover, BuyFill, Restart, vars
  <2>3. left' <= left
    BY <2>1, <2>2, StopsAssumption
  <2> QED BY <2>1, <2>3, ExposureMonotone
<1>2. Spec => [][MaxExposure(left') <= MaxExposure(left)]_vars
  BY <1>1, InitTyped, NextTyped, PTL DEF Spec
<1> QED BY <1>2 DEF ExposureTightens
=============================================================================
