---------------------------- MODULE PriceFeedProofs ----------------------------
(***************************************************************************)
(* The statuses of the validator agree with the counter and the flag       *)
(* behind them, for every market, window and limit.  What the volatility   *)
(* filter decides does not matter to the argument: only that one verdict   *)
(* sets flag and status together.  It does for the next one: the feed is   *)
(* blind for less than a window, because discarded bars leave copies of    *)
(* one price at the end of the buffer, and the variance of copies is 0.    *)
(* Then the feature engine behind the feed: it disturbs nothing of the     *)
(* feed's, its returns are the feed's because the last of them always is   *)
(* the last move of the price buffer, and no more of them are repetitions  *)
(* than there were calls with nothing new.                                 *)
(***************************************************************************)
EXTENDS Features, SequenceTheorems, FiniteSetTheorems, TLAPS

FeedInv == TypeOK /\ StaleWhenMissing /\ AnomalyFlagged

LEMMA Bounds ==
  /\ MaxBars \in Nat /\ FillLimit \in Nat /\ FillLimit < MaxBars
  /\ Window \in Nat \ {0}
  /\ \A m \in Market : m \in Nat \ {0}
  BY FeedAssumption

(* The ring buffer holds market prices and never more than its window.     *)
LEMMA AppendedTyped ==
  ASSUME NEW p \in Market, buffer \in Seq(Market), Len(buffer) <= Window
  PROVE  Appended(p) \in Seq(Market) /\ Len(Appended(p)) <= Window
<1>1. CASE Len(buffer) < Window
  <2>1. Appended(p) = Append(buffer, p)
    BY <1>1 DEF Appended
  <2>2. Append(buffer, p) \in Seq(Market) /\ Len(Append(buffer, p)) = Len(buffer) + 1
    OBVIOUS
  <2> QED BY <1>1, <2>1, <2>2, Bounds
<1>2. CASE ~(Len(buffer) < Window)
  <2>1. Len(buffer) = Window /\ buffer # <<>>
    BY <1>2, Bounds
  <2>2. Tail(buffer) \in Seq(Market) /\ Len(Tail(buffer)) = Len(buffer) - 1
    BY <2>1
  <2>3. Appended(p) = Append(Tail(buffer), p)
    BY <1>2 DEF Appended
  <2>4. /\ Append(Tail(buffer), p) \in Seq(Market)
        /\ Len(Append(Tail(buffer), p)) = Len(Tail(buffer)) + 1
    BY <2>2
  <2> QED BY <2>1, <2>2, <2>3, <2>4, Bounds
<1> QED BY <1>1, <1>2

LEMMA LatestTyped ==
  ASSUME buffer \in Seq(Market), Known
  PROVE  Latest \in Market
  BY DEF Known, Latest

LEMMA InitHolds == Init => FeedInv
<1> SUFFICES ASSUME Init PROVE FeedInv
  OBVIOUS
<1>1. buffer \in Seq(Market) /\ Len(buffer) <= Window
  <2>1. CASE buffer = <<>>
    BY <2>1, Bounds
  <2>2. CASE buffer \in [1..Window -> Market]
    BY <2>2, Bounds
  <2> QED BY <2>1, <2>2 DEF Init
<1>2. /\ status = "ACTIVE" /\ missing = 0 /\ flagged = FALSE /\ fetched = FALSE
      /\ age = 0 /\ globalStale = FALSE /\ shown = 0 /\ rejected = 0
  BY DEF Init
<1>3. 0 \in 0..MaxBars
  BY Bounds
<1>4. TypeOK
  BY <1>1, <1>2, <1>3 DEF TypeOK
<1>5. StaleWhenMissing /\ AnomalyFlagged
  BY <1>2, Bounds DEF StaleWhenMissing, AnomalyFlagged
<1> QED BY <1>4, <1>5 DEF FeedInv

LEMMA ReceiveHolds ==
  ASSUME FeedInv, NEW p \in Market, Receive(p)
  PROVE  FeedInv'
<1> DEFINE odd == Anomalous(p)
<1>1. /\ missing' = 0 /\ fetched' = TRUE /\ age' = 0 /\ globalStale' = FALSE
      /\ flagged' = odd /\ status' = (IF odd THEN "ANOMALY" ELSE "ACTIVE")
      /\ shown' = p /\ rejected' = (IF odd THEN rejected + 1 ELSE 0)
  BY DEF Receive, Fresh, Restored
<1>2. odd \in BOOLEAN
  BY DEF Anomalous
<1>3. buffer' \in Seq(Market) /\ Len(buffer') <= Window
  <2>1. CASE odd
    <3>1. Latest \in Market
      BY <2>1, LatestTyped DEF FeedInv, TypeOK, Anomalous
    <3>2. buffer' = Appended(Latest)
      BY <2>1 DEF Receive
    <3> QED BY <3>1, <3>2, AppendedTyped DEF FeedInv, TypeOK
  <2>2. CASE ~odd
    <3>1. buffer' = Appended(p)
      BY <2>2 DEF Receive
    <3> QED BY <3>1, AppendedTyped DEF FeedInv, TypeOK
  <2> QED BY <2>1, <2>2
<1>4. TypeOK'
  <2> HIDE DEF odd
  <2>1. 0 \in 0..MaxBars
    BY Bounds
  <2>2. rejected' \in Nat
    BY <1>1 DEF FeedInv, TypeOK
  <2>3. flagged' \in BOOLEAN /\ status' \in {"ACTIVE", "STALE", "ANOMALY"}
    BY <1>1, <1>2
  <2> QED BY <1>1, <1>3, <2>1, <2>2, <2>3 DEF TypeOK
<1>5. StaleWhenMissing' /\ AnomalyFlagged'
  <2> HIDE DEF odd
  <2> QED BY <1>1, <1>2, Bounds DEF FeedInv, TypeOK, StaleWhenMissing, AnomalyFlagged
<1> QED BY <1>4, <1>5 DEF FeedInv

LEMMA MissHolds ==
  ASSUME FeedInv, Miss
  PROVE  FeedInv'
<1>1. /\ missing < MaxBars /\ missing' = missing + 1
      /\ fetched' = TRUE /\ age' = 0 /\ globalStale' = FALSE
      /\ status' = (IF missing' > FillLimit THEN "STALE" ELSE status)
      /\ flagged' = flagged /\ shown' = shown /\ rejected' = rejected
  BY DEF Miss, Fresh, FlagKept
<1>2. buffer' \in Seq(Market) /\ Len(buffer') <= Window
  <2>1. CASE status' # "STALE" /\ Known
    <3>1. Latest \in Market
      BY <2>1, LatestTyped DEF FeedInv, TypeOK
    <3>2. buffer' = Appended(Latest)
      BY <2>1 DEF Miss
    <3> QED BY <3>1, <3>2, AppendedTyped DEF FeedInv, TypeOK
  <2>2. CASE ~(status' # "STALE" /\ Known)
    <3>1. buffer' = buffer
      BY <2>2 DEF Miss
    <3> QED BY <3>1 DEF FeedInv, TypeOK
  <2> QED BY <2>1, <2>2
<1>3. missing \in Nat /\ (status = "STALE" <=> missing > FillLimit)
  BY Bounds DEF FeedInv, TypeOK, StaleWhenMissing
<1>4. TypeOK'
  <2>1. missing' \in 0..MaxBars /\ 0 \in 0..MaxBars
    BY <1>1, <1>3, Bounds
  <2>2. status' \in {"ACTIVE", "STALE", "ANOMALY"} /\ flagged' \in BOOLEAN
        /\ shown' \in Market \cup {0} /\ rejected' \in Nat
    BY <1>1 DEF FeedInv, TypeOK
  <2> QED BY <1>1, <1>2, <2>1, <2>2 DEF TypeOK
<1>5. StaleWhenMissing' /\ AnomalyFlagged'
  BY <1>1, <1>3, Bounds DEF FeedInv, StaleWhenMissing, AnomalyFlagged
<1> QED BY <1>4, <1>5 DEF FeedInv

LEMMA FailHolds ==
  ASSUME FeedInv, FetchFails
  PROVE  FeedInv'
<1>1. age' \in 0..MaxBars /\ globalStale' \in BOOLEAN
  BY Bounds DEF FetchFails, FeedInv, TypeOK
<1>2. UNCHANGED <<buffer, status, missing, flagged, fetched, shown, rejected>>
  BY DEF FetchFails, validator
<1> QED BY <1>1, <1>2 DEF FeedInv, TypeOK, StaleWhenMissing, AnomalyFlagged

LEMMA FeedInvHolds == Spec => []FeedInv
<1>1. FeedInv /\ [Next]_vars => FeedInv'
  <2> SUFFICES ASSUME FeedInv, [Next]_vars PROVE FeedInv'
    OBVIOUS
  <2>1. CASE UNCHANGED vars
    BY <2>1 DEF vars, validator, freshness, FeedInv, TypeOK, StaleWhenMissing,
                AnomalyFlagged
  <2> QED BY <2>1, ReceiveHolds, MissHolds, FailHolds DEF Next
<1> QED BY <1>1, InitHolds, PTL DEF Spec

(* fetch_prices: the ring buffer, the statuses and the counters keep their *)
(* types.                                                                  *)
THEOREM FeedTypes == Spec => []TypeOK
<1>1. FeedInv => TypeOK
  BY DEF FeedInv
<1> QED BY <1>1, FeedInvHolds, PTL

(* check_missing_bar: no anomaly or failed fetch in between makes an asset *)
(* look fresh that has missed too many bars, or stale one that has not.    *)
(* check_anomaly: whoever reads the status ANOMALY finds the flag set, and *)
(* bars discarded since.                                                   *)
THEOREM StatusIsTrue == Spec => []StatusAgrees
<1>1. FeedInv => StatusAgrees
  BY DEF FeedInv, StatusAgrees
<1> QED BY <1>1, FeedInvHolds, PTL

-----------------------------------------------------------------------------
(* What holds of the empty set, and of a set when it holds of the set less *)
(* any one of its elements, holds of every finite set.                     *)
LEMMA OneByOne ==
  ASSUME NEW S, IsFiniteSet(S), NEW T, {} \in T,
         \A s \in SUBSET S : (s # {} /\ \A x \in s : s \ {x} \in T) => s \in T
  PROVE  \A s \in SUBSET S : s \in T
<1> DEFINE R == {s \in SUBSET S : s \notin T}
<1> SUFFICES ASSUME R # {} PROVE FALSE
  OBVIOUS
<1>1. IsWellFoundedOn(StrictSubsetOrdering(S), FiniteSubsetsOf(S))
  BY FS_StrictSubsetOrderingWellFounded
<1>2. R \subseteq FiniteSubsetsOf(S)
  BY FS_Subset DEF FiniteSubsetsOf
<1>3. PICK s \in R : \A r \in R : <<r, s>> \notin StrictSubsetOrdering(S)
  <2> HIDE DEF R
  <2> QED BY <1>1, <1>2, WFMin
<1>4. s \in SUBSET S /\ s \notin T /\ s # {}
  BY <1>3
<1>5. ASSUME NEW x \in s PROVE s \ {x} \in T
  <2>1. s \ {x} \in SUBSET S /\ s \ {x} \subseteq s /\ s \ {x} # s
    BY <1>4, <1>5
  <2>2. <<s \ {x}, s>> \in StrictSubsetOrdering(S)
    BY <1>4, <2>1 DEF StrictSubsetOrdering
  <2> QED BY <1>3, <2>1, <2>2
<1> QED BY <1>4, <1>5

(* A sum of zeros is zero.                                                 *)
LEMMA ZerosSum ==
  ASSUME NEW f, IsFiniteSet(DOMAIN f), \A x \in DOMAIN f : f[x] = 0
  PROVE  SumFunction(f) = 0
<1> DEFINE S == DOMAIN f
           Step(g, s) == IF s = {} THEN 0 ELSE LET x == CHOOSE x \in s : TRUE IN f[x] + g[s \ {x}]
           g == CHOOSE g : g = [s \in SUBSET S |-> Step(g, s)]
<1>1. SumFunction(f) = g[S]
  BY DEF SumFunction, SumFunctionOnSet, FoldFunctionOnSet, MapThenFoldSet
<1>2. \E h : h = [s \in SUBSET S |-> Step(h, s)]
  <2> DEFINE zeros == [s \in SUBSET S |-> 0]
  <2>1. \A s \in SUBSET S : Step(zeros, s) = 0
    <3> TAKE s \in SUBSET S
    <3>1. CASE s = {}
      BY <3>1
    <3>2. CASE s # {}
      <4> DEFINE x == CHOOSE x \in s : TRUE
      <4>1. x \in s
        BY <3>2
      <4> HIDE DEF x
      <4>2. f[x] = 0 /\ zeros[s \ {x}] = 0
        BY <4>1
      <4> QED BY <3>2, <4>2 DEF x
    <3> QED BY <3>1, <3>2
  <2>2. zeros = [s \in SUBSET S |-> Step(zeros, s)]
    BY <2>1
  <2> HIDE DEF zeros
  <2> QED BY <2>2
<1>3. g = [s \in SUBSET S |-> Step(g, s)]
  BY <1>2
<1> HIDE DEF g
<1>4. \A s \in SUBSET S : g[s] = Step(g, s)
  BY <1>3
<1> DEFINE T == {s \in SUBSET S : g[s] = 0}
<1>5. {} \in T
  BY <1>4
<1>6. \A s \in SUBSET S : (s # {} /\ \A x \in s : s \ {x} \in T) => s \in T
  <2> SUFFICES ASSUME NEW s \in SUBSET S, s # {}, \A x \in s : s \ {x} \in T
               PROVE  g[s] = 0
    OBVIOUS
  <2> DEFINE x == CHOOSE x \in s : TRUE
  <2>1. x \in s
    OBVIOUS
  <2>2. g[s] = f[x] + g[s \ {x}]
    BY <1>4
  <2> HIDE DEF x
  <2>3. f[x] = 0 /\ g[s \ {x}] = 0
    BY <2>1
  <2> QED BY <2>2, <2>3
<1>7. \A s \in SUBSET S : s \in T
  <2> HIDE DEF T, S
  <2> QED BY <1>5, <1>6, OneByOne DEF S
<1> QED BY <1>1, <1>7

(* The last price, and as many before it as bars were discarded since.     *)
Flat == \A i \in 1..Len(buffer) : i >= Len(buffer) - rejected => buffer[i] = Latest

BlindInv == Flat /\ BlindBounded

LEMMA FlatCalm ==
  ASSUME FeedInv, \A i \in 1..Len(buffer) : buffer[i] = Latest, Len(buffer) >= 2
  PROVE  Spread(Returns, Len(buffer) - 1) = 0
<1> DEFINE n == Len(buffer) - 1
           squares == [i \in DOMAIN Returns |-> Returns[i] * Returns[i]]
<1>0. n \in Nat /\ Len(buffer) \in Nat /\ \A i \in 1..Len(buffer) : buffer[i] \in Nat \ {0}
  BY Bounds DEF FeedInv, TypeOK
<1>1. DOMAIN Returns = 1..n /\ DOMAIN squares = 1..n
  BY DEF Returns
<1>2. \A i \in 1..n : Returns[i] = 0
  <2> TAKE i \in 1..n
  <2>1. i \in 1..Len(buffer) /\ i + 1 \in 1..Len(buffer)
    BY <1>0
  <2>2. Returns[i] = (10000 * (buffer[i + 1] - buffer[i])) \div buffer[i]
    BY DEF Returns
  <2> DEFINE b == buffer[i]
  <2>3. b \in Nat \ {0} /\ buffer[i + 1] = b
    BY <1>0, <2>1
  <2> HIDE DEF b
  <2>4. 10000 * (b - b) = 0 /\ 0 \div b = 0
    BY <2>3
  <2> QED BY <2>2, <2>3, <2>4 DEF b
<1>3. \A i \in 1..n : squares[i] = 0
  BY <1>1, <1>2
<1>4. IsFiniteSet(1..n)
  BY <1>0, FS_Interval
<1> HIDE DEF squares
<1>5. SumFunction(Returns) = 0 /\ SumFunction(squares) = 0
  BY <1>1, <1>2, <1>3, <1>4, ZerosSum
<1>6. Spread(Returns, n) = n * SumFunction(squares) - SumFunction(Returns) * SumFunction(Returns)
  BY DEF Spread, squares
<1> HIDE DEF n
<1>7. Spread(Returns, n) = n * 0 - 0 * 0
  BY <1>5, <1>6
<1> QED BY <1>0, <1>7 DEF n

\* what is discarded leaves room in the window for one bar more
LEMMA RoomLeft ==
  ASSUME FeedInv, Flat, NEW p \in Market, Anomalous(p)
  PROVE  rejected + 1 < Window /\ Known
<1>1. /\ Len(buffer) \in Nat /\ Len(buffer) <= Window /\ rejected \in Nat /\ Window \in Nat
  BY Bounds DEF FeedInv, TypeOK
<1>2. Spread(Returns, Len(buffer) - 1) > 0 /\ Len(buffer) >= MinBars /\ Known
  BY DEF Anomalous, Exceeds, ExceedsFlat
<1>3. Len(buffer) >= 2
  BY <1>1, <1>2, FeedAssumption
<1>4. ASSUME rejected >= Len(buffer) - 1 PROVE FALSE
  <2>1. \A i \in 1..Len(buffer) : i >= Len(buffer) - rejected
    BY <1>1, <1>4
  <2>2. Spread(Returns, Len(buffer) - 1) = 0
    BY <1>3, <2>1, FlatCalm DEF Flat
  <2> QED BY <1>2, <2>2
<1> QED BY <1>1, <1>2, <1>4

(* The buffer after one price more: the others move up, or have not.       *)
LEMMA AppendedIs ==
  ASSUME FeedInv, NEW p \in Market
  PROVE  /\ Len(Appended(p)) \in Nat \ {0}
         /\ Appended(p)[Len(Appended(p))] = p
         /\ \A i \in 1..(Len(Appended(p)) - 1) :
              /\ i + (Len(buffer) + 1 - Len(Appended(p))) \in 1..Len(buffer)
              /\ Appended(p)[i] = buffer[i + (Len(buffer) + 1 - Len(Appended(p)))]
<1>1. buffer \in Seq(Market) /\ Len(buffer) \in Nat /\ Len(buffer) <= Window /\ Window \in Nat \ {0}
  BY Bounds DEF FeedInv, TypeOK
<1>2. CASE Len(buffer) < Window
  <2> DEFINE t == Append(buffer, p)
  <2>1. Appended(p) = t
    BY <1>2 DEF Appended
  <2>2. Len(t) = Len(buffer) + 1 /\ t[Len(buffer) + 1] = p /\ \A i \in 1..Len(buffer) : t[i] = buffer[i]
    BY <1>1
  <2> HIDE DEF t
  <2> QED BY <1>1, <2>1, <2>2
<1>3. CASE ~(Len(buffer) < Window)
  <2> DEFINE u == Tail(buffer)
             t == Append(u, p)
  <2>1. Appended(p) = t
    BY <1>3 DEF Appended
  <2>2. /\ u \in Seq(Market) /\ Len(u) = Len(buffer) - 1 /\ Len(buffer) >= 1
        /\ \A i \in 1..Len(u) : u[i] = buffer[i + 1]
    BY <1>1, <1>3
  <2> HIDE DEF u
  <2>3. Len(t) = Len(u) + 1 /\ t[Len(u) + 1] = p /\ \A i \in 1..Len(u) : t[i] = u[i]
    BY <2>2
  <2> HIDE DEF t
  <2> QED BY <1>1, <2>1, <2>2, <2>3
<1> QED BY <1>2, <1>3

LEMMA FilledFlat ==
  ASSUME FeedInv, Flat, Known, buffer' = Appended(Latest), rejected' \in Nat, rejected' <= rejected + 1
  PROVE  Flat'
<1> DEFINE t == Appended(Latest)
           d == Len(buffer) + 1 - Len(t)
<1>1. Latest \in Market
  BY LatestTyped DEF FeedInv, TypeOK
<1>2. /\ Len(t) \in Nat \ {0} /\ t[Len(t)] = Latest
      /\ \A i \in 1..(Len(t) - 1) : i + d \in 1..Len(buffer) /\ t[i] = buffer[i + d]
  BY <1>1, AppendedIs
<1>3. rejected \in Nat /\ Len(buffer) \in Nat
  BY DEF FeedInv, TypeOK
<1>4. Latest' = Latest
  BY <1>2 DEF Latest
<1>5. ASSUME NEW i \in 1..Len(t), i >= Len(t) - rejected' PROVE t[i] = Latest
  <2> HIDE DEF t
  <2>1. CASE i = Len(t)
    BY <1>2, <2>1
  <2>2. CASE i # Len(t)
    <3>1. i \in 1..(Len(t) - 1)
      BY <1>2, <2>2
    <3>2. i + d \in 1..Len(buffer) /\ t[i] = buffer[i + d]
      BY <1>2, <3>1
    <3>3. i + d >= Len(buffer) - rejected
      BY <1>2, <1>3, <1>5
    <3> QED BY <3>2, <3>3 DEF Flat
  <2> QED BY <2>1, <2>2
<1> HIDE DEF t
<1> QED BY <1>4, <1>5 DEF Flat, t

LEMMA ReceiveBlind ==
  ASSUME FeedInv, BlindInv, NEW p \in Market, Receive(p)
  PROVE  BlindInv'
<1>1. rejected \in Nat
  BY DEF FeedInv, TypeOK
<1>2. CASE Anomalous(p)
  <2>1. rejected' = rejected + 1 /\ buffer' = Appended(Latest)
    BY <1>2 DEF Receive
  <2>2. rejected + 1 < Window /\ Known
    BY <1>2, RoomLeft DEF BlindInv
  <2>3. Flat'
    BY <1>1, <2>1, <2>2, FilledFlat DEF BlindInv
  <2> QED BY <2>1, <2>2, <2>3 DEF BlindInv, BlindBounded
<1>3. CASE ~Anomalous(p)
  <2>1. rejected' = 0 /\ buffer' = Appended(p)
    BY <1>3 DEF Receive
  <2>2. Len(buffer') \in Nat
    BY <2>1, AppendedIs
  <2>3. Flat'
    <3>1. \A i \in 1..Len(buffer') : i >= Len(buffer') - 0 => i = Len(buffer')
      BY <2>2
    <3> QED BY <2>1, <3>1 DEF Flat, Latest
  <2> QED BY <2>1, <2>3, Bounds DEF BlindInv, BlindBounded
<1> QED BY <1>2, <1>3

LEMMA BlindInvHolds == Spec => []BlindInv
<1>1. Init => BlindInv
  <2> SUFFICES ASSUME Init PROVE BlindInv
    OBVIOUS
  <2>1. rejected = 0 /\ buffer \in Seq(Market)
    BY InitHolds DEF Init, FeedInv, TypeOK
  <2>2. \A i \in 1..Len(buffer) : i >= Len(buffer) - 0 => i = Len(buffer)
    BY <2>1
  <2> QED BY <2>1, <2>2, Bounds DEF BlindInv, BlindBounded, Flat, Latest
<1>2. BlindInv /\ FeedInv /\ [Next]_vars => BlindInv'
  <2> SUFFICES ASSUME BlindInv, FeedInv, [Next]_vars PROVE BlindInv'
    OBVIOUS
  <2>1. CASE UNCHANGED <<buffer, rejected>>
    BY <2>1 DEF BlindInv, BlindBounded, Flat, Latest
  <2>2. CASE Miss
    <3>1. CASE status' # "STALE" /\ Known
      <4>1. buffer' = Appended(Latest) /\ rejected' = rejected /\ rejected \in Nat
        BY <2>2, <3>1 DEF Miss, FeedInv, TypeOK
      <4>2. Flat'
        BY <3>1, <4>1, FilledFlat DEF BlindInv
      <4> QED BY <4>1, <4>2 DEF BlindInv, BlindBounded
    <3>2. CASE ~(status' # "STALE" /\ Known)
      BY <2>1, <2>2, <3>2 DEF Miss
    <3> QED BY <3>1, <3>2
  <2> QED BY <2>1, <2>2, ReceiveBlind DEF Next, vars, FetchFails
<1> QED BY <1>1, <1>2, FeedInvHolds, PTL DEF Spec

(* _estimate_simple_vol and check_anomaly: bars are discarded for less     *)
(* than the window of the volatility, whatever it is.                      *)
THEOREM BlindnessEnds == Spec => []BlindBounded
<1>1. BlindInv => BlindBounded
  BY DEF BlindInv
<1> QED BY <1>1, BlindInvHolds, PTL

-----------------------------------------------------------------------------
(* The feature engine reads the feed and changes nothing of it: what is    *)
(* proved of Spec holds of FeatureSpec.                                    *)
THEOREM FeedUndisturbed == FeatureSpec => Spec
<1>1. FeatureInit => Init  BY DEF FeatureInit
<1>2. [FeatureNext]_allVars => [Next]_vars
  BY DEF FeatureNext, StartupFetch, WarmStart, Bar, FailedBar, Recompute, Fetched, Next, allVars
<1> QED BY <1>1, <1>2, PTL DEF FeatureSpec, Spec

Follows(s) == \A i \in 1..(Len(s) - 1) : s[i + 1][1] = s[i][2] \/ s[i + 1] = s[i]

LEMMA FeatureBounds ==
  /\ Kept \in Nat \ {0} /\ VolWindow \in Nat /\ SampleEvery \in Nat \ {0}
  /\ MinSamples \in Nat /\ MaxAgain \in Nat /\ Window \in Nat /\ Window >= 2
  BY FeatureAssumption, FeedAssumption

(* The end of a sequence: its length, its elements, its last one.          *)
LEMMA LastOfIs ==
  ASSUME NEW S, NEW s \in Seq(S), NEW n \in Nat \ {0}
  PROVE  /\ LastOf(s, n) \in Seq(S) /\ Len(LastOf(s, n)) <= n
         /\ Len(LastOf(s, n)) <= Len(s)
         /\ s # <<>> => /\ LastOf(s, n) # <<>>
                        /\ LastOf(s, n)[Len(LastOf(s, n))] = s[Len(s)]
         /\ \A i \in 1..Len(LastOf(s, n)) :
              LastOf(s, n)[i] = s[i + (Len(s) - Len(LastOf(s, n)))]
<1>0. Len(s) \in Nat /\ \A i \in 1..Len(s) : s[i] \in S  OBVIOUS
<1>1. CASE Len(s) <= n
  <2>1. LastOf(s, n) = s  BY <1>1 DEF LastOf
  <2> QED BY <1>0, <1>1, <2>1
<1>2. CASE ~(Len(s) <= n)
  <2> DEFINE t == SubSeq(s, Len(s) - n + 1, Len(s))
  <2>1. LastOf(s, n) = t  BY <1>2 DEF LastOf
  <2>2. t \in Seq(S) /\ Len(t) = n
    BY <1>0, <1>2
  <2>3. \A i \in 1..n : t[i] = s[i + (Len(s) - n)]
    BY <1>0, <1>2
  <2>4. t[n] = s[Len(s)] /\ t # <<>>
    <3> HIDE DEF t
    <3>1. n \in 1..n /\ n + (Len(s) - n) = Len(s)  BY <1>0
    <3>2. t[n] = s[n + (Len(s) - n)]  BY <2>3, <3>1
    <3>3. t # <<>>
      <4>1. t = <<>> => Len(t) = 0  OBVIOUS
      <4> QED BY <2>2, <4>1
    <3> QED BY <3>1, <3>2, <3>3
  <2> HIDE DEF t
  <2> QED BY <1>0, <1>2, <2>1, <2>2, <2>3, <2>4
<1> QED BY <1>1, <1>2

LEMMA LastOfFollows ==
  ASSUME NEW S, NEW s \in Seq(S), NEW n \in Nat \ {0}, Follows(s)
  PROVE  Follows(LastOf(s, n))
<1> DEFINE t == LastOf(s, n)
<1>1. /\ t \in Seq(S) /\ Len(t) \in Nat /\ Len(t) <= Len(s) /\ Len(s) \in Nat
      /\ \A i \in 1..Len(t) : t[i] = s[i + (Len(s) - Len(t))]
  BY LastOfIs
<1> HIDE DEF t
<1> SUFFICES ASSUME NEW i \in 1..(Len(t) - 1)
             PROVE  t[i + 1][1] = t[i][2] \/ t[i + 1] = t[i]
  BY DEF Follows, t
<1> DEFINE j == i + (Len(s) - Len(t))
<1>2. j \in 1..(Len(s) - 1) /\ t[i] = s[j] /\ t[i + 1] = s[j + 1]
  <2>1. t[i] = s[i + (Len(s) - Len(t))]  BY <1>1
  <2>2. i + 1 \in 1..Len(t)  BY <1>1
  <2>3. t[i + 1] = s[(i + 1) + (Len(s) - Len(t))]  BY <1>1, <2>2
  <2>4. (i + 1) + (Len(s) - Len(t)) = j + 1 /\ j \in 1..(Len(s) - 1)  BY <1>1
  <2> QED BY <2>1, <2>3, <2>4
<1> QED BY <1>2 DEF Follows

LEMMA MoveTyped ==
  ASSUME NEW prices \in Seq(Market), Len(prices) >= 2
  PROVE  Move(prices) \in Market \X Market
  BY DEF Move

(* A series goes on following after a return that does.                    *)
LEMMA AppendFollows ==
  ASSUME NEW S, NEW s \in Seq(S), NEW r \in S, Follows(s),
         s # <<>> => r[1] = s[Len(s)][2] \/ r = s[Len(s)]
  PROVE  Follows(Append(s, r))
<1> DEFINE t == Append(s, r)
<1>1. /\ Len(t) = Len(s) + 1 /\ Len(s) \in Nat /\ t[Len(s) + 1] = r
      /\ \A i \in 1..Len(s) : t[i] = s[i]
  OBVIOUS
<1> HIDE DEF t
<1> SUFFICES ASSUME NEW i \in 1..(Len(t) - 1)
             PROVE  t[i + 1][1] = t[i][2] \/ t[i + 1] = t[i]
  BY DEF Follows, t
<1>2. i \in 1..Len(s) /\ t[i] = s[i]  BY <1>1
<1>3. CASE i = Len(s)
  <2>1. s # <<>> /\ t[i + 1] = r  BY <1>1, <1>2, <1>3
  <2> QED BY <1>2, <1>3, <2>1
<1>4. CASE i # Len(s)
  <2>1. i \in 1..(Len(s) - 1) /\ i + 1 \in 1..Len(s)  BY <1>1, <1>2, <1>4
  <2>2. t[i + 1] = s[i + 1]  BY <1>1, <2>1
  <2> QED BY <1>2, <2>1, <2>2 DEF Follows
<1> QED BY <1>3, <1>4

(* What on_new_bar makes of prices and of a series that their last move    *)
(* follows.                                                                *)
LEMMA ComputedStep ==
  ASSUME NEW prices \in Seq(Market), NEW rs \in Seq(Market \X Market), NEW n \in 0..MinSamples,
         Len(rs) <= Kept, Follows(rs), barCount \in 0..(SampleEvery - 1),
         rs # <<>> => /\ Len(prices) >= 2
                      /\ Move(prices)[1] = rs[Len(rs)][2] \/ Move(prices) = rs[Len(rs)],
         Computed(prices, rs, n)
  PROVE  /\ returns' \in Seq(Market \X Market) /\ Len(returns') <= Kept /\ Follows(returns')
         /\ returns' # <<>> => Len(prices) >= 2 /\ returns'[Len(returns')] = Move(prices)
         /\ barCount' \in 0..(SampleEvery - 1) /\ samples' \in 0..MinSamples
         /\ ready' = TRUE /\ volKnown' \in BOOLEAN
<1> DEFINE after == IF Len(prices) < 2 THEN rs ELSE LastOf(Append(rs, Move(prices)), Kept)
<1>0. returns' = after  BY DEF Computed
<1>1. /\ after \in Seq(Market \X Market) /\ Len(after) <= Kept /\ Follows(after)
      /\ after # <<>> => Len(prices) >= 2 /\ after[Len(after)] = Move(prices)
  <2>1. CASE Len(prices) < 2
    <3>1. ~(Len(prices) >= 2)  BY <2>1
    <3>2. rs = <<>> /\ after = rs  BY <2>1, <3>1
    <3> QED BY <3>2
  <2>2. CASE ~(Len(prices) < 2)
    <3> DEFINE more == Append(rs, Move(prices))
    <3>1. Len(prices) >= 2  BY <2>2
    <3>2. Move(prices) \in Market \X Market  BY <3>1, MoveTyped
    <3>3. /\ more \in Seq(Market \X Market) /\ more # <<>> /\ more[Len(more)] = Move(prices)
      <4> DEFINE S == Market \X Market
                 r == Move(prices)
      <4>1. rs \in Seq(S) /\ r \in S  BY <3>2
      <4> HIDE DEF S, r
      <4>2. /\ Append(rs, r) \in Seq(S) /\ Append(rs, r) # <<>>
            /\ Append(rs, r)[Len(Append(rs, r))] = r
        BY <4>1, AppendProperties
      <4> QED BY <4>2 DEF S, r
    <3>4. Follows(more)  BY <3>2, AppendFollows
    <3> HIDE DEF more
    <3>5. after = LastOf(more, Kept)  BY <2>2 DEF more
    <3> HIDE DEF after
    <3>6. Kept \in Nat \ {0}  BY FeatureBounds
    <3>7. Follows(LastOf(more, Kept))  BY <3>3, <3>4, <3>6, LastOfFollows
    <3>8. /\ LastOf(more, Kept) \in Seq(Market \X Market) /\ Len(LastOf(more, Kept)) <= Kept
          /\ LastOf(more, Kept)[Len(LastOf(more, Kept))] = more[Len(more)]
      BY <3>3, <3>6, LastOfIs
    <3> QED BY <3>1, <3>3, <3>5, <3>7, <3>8
  <2> QED BY <2>1, <2>2
<1>2. barCount' = (barCount + 1) % SampleEvery /\ barCount' \in 0..(SampleEvery - 1)
  BY FeatureBounds DEF Computed
<1>3. samples' \in 0..MinSamples
  <2>1. samples' = AtMost(n + 1, MinSamples) \/ samples' = n  BY DEF Computed
  <2> QED BY <2>1, FeatureBounds DEF AtMost
<1>4. ready' = TRUE /\ volKnown' \in BOOLEAN
  <2>1. volKnown' \in BOOLEAN  BY Zenon DEF Computed, Percentile
  <2> QED BY <2>1 DEF Computed
<1> HIDE DEF after
<1> QED BY <1>0, <1>1, <1>2, <1>3, <1>4

(* A fetch leaves the buffer alone or appends to it, and an appended price *)
(* moves from the one that was the last.                                   *)
LEMMA FetchedBuffer ==
  ASSUME FeedInv, Fetched
  PROVE  buffer' = buffer \/ \E x \in Market : buffer' = Appended(x)
<1>1. ASSUME NEW p \in Market, Receive(p)
      PROVE  \E x \in Market : buffer' = Appended(x)
  <2>1. CASE Anomalous(p)
    <3>1. Latest \in Market
      <4>1. buffer # <<>> /\ buffer \in Seq(Market)
        BY <2>1 DEF Anomalous, Known, FeedInv, TypeOK
      <4> QED BY <4>1 DEF Latest
    <3> QED BY <1>1, <2>1, <3>1 DEF Receive
  <2>2. CASE ~Anomalous(p)
    BY <1>1, <2>2 DEF Receive
  <2> QED BY <2>1, <2>2
<1>2. ASSUME Miss
      PROVE  buffer' = buffer \/ \E x \in Market : buffer' = Appended(x)
  <2>1. CASE status' # "STALE" /\ Known
    <3>1. Latest \in Market
      <4>1. buffer # <<>> /\ buffer \in Seq(Market)
        BY <2>1 DEF Known, FeedInv, TypeOK
      <4> QED BY <4>1 DEF Latest
    <3> QED BY <1>2, <2>1, <3>1 DEF Miss
  <2>2. CASE ~(status' # "STALE" /\ Known)
    BY <1>2, <2>2 DEF Miss
  <2> QED BY <2>1, <2>2
<1> QED BY <1>1, <1>2 DEF Fetched

LEMMA AppendedMove ==
  ASSUME NEW x \in Market, buffer \in Seq(Market), Len(buffer) <= Window, Len(buffer) >= 2
  PROVE  Len(Appended(x)) >= 2 /\ Move(Appended(x))[1] = Move(buffer)[2]
<1>0. Len(buffer) \in Nat /\ Move(buffer)[2] = buffer[Len(buffer)]  BY DEF Move
<1>1. CASE Len(buffer) < Window
  <2> DEFINE t == Append(buffer, x)
  <2>1. Appended(x) = t  BY <1>1 DEF Appended
  <2>2. Len(t) = Len(buffer) + 1 /\ t[Len(buffer)] = buffer[Len(buffer)]  OBVIOUS
  <2> HIDE DEF t
  <2>3. Len(t) >= 2 /\ Len(t) - 1 = Len(buffer)  BY <1>0, <2>2
  <2>4. Move(t)[1] = t[Len(t) - 1]  BY DEF Move
  <2> QED BY <1>0, <2>1, <2>2, <2>3, <2>4
<1>2. CASE ~(Len(buffer) < Window)
  <2> DEFINE t == Append(Tail(buffer), x)
  <2>1. Appended(x) = t  BY <1>2 DEF Appended
  <2>2. /\ Len(Tail(buffer)) = Len(buffer) - 1 /\ Tail(buffer) \in Seq(Market)
        /\ Tail(buffer)[Len(buffer) - 1] = buffer[Len(buffer)]
    BY <1>0
  <2>3. Len(t) = Len(buffer) /\ t[Len(buffer) - 1] = buffer[Len(buffer)]  BY <1>0, <2>2
  <2> HIDE DEF t
  <2>4. Move(t)[1] = t[Len(t) - 1]  BY DEF Move
  <2> QED BY <1>0, <2>1, <2>3, <2>4
<1> QED BY <1>1, <1>2

-----------------------------------------------------------------------------
(* The inductive invariant of the features.                                *)
SeriesInv ==
  /\ FeatureTypeOK
  /\ Follows(returns)
  /\ returns # <<>> => Len(buffer) >= 2 /\ returns[Len(returns)] = Move(buffer)
  /\ phase # "running" => returns = <<>>

LEMMA SeriesInit == FeatureInit => SeriesInv
<1> SUFFICES ASSUME FeatureInit PROVE SeriesInv  OBVIOUS
<1>1. TypeOK  BY InitHolds DEF FeatureInit, FeedInv
<1>2. returns = <<>> /\ Len(returns) = 0 /\ returns \in Seq(Market \X Market)
  BY DEF FeatureInit
<1>3. barCount \in 0..(SampleEvery - 1) /\ samples \in 0..MinSamples /\ again \in 0..MaxAgain
  BY FeatureBounds DEF FeatureInit
<1>4. phase = "starting" /\ ready = FALSE /\ volKnown = FALSE  BY DEF FeatureInit
<1>5. Len(returns) <= Kept  BY <1>2, FeatureBounds
<1>6. ready \in BOOLEAN /\ volKnown \in BOOLEAN /\ (volKnown => ready)  BY <1>4
<1>7. phase \in {"starting", "warming", "running"}  BY <1>4
<1>8. FeatureTypeOK  BY <1>1, <1>2, <1>3, <1>5, <1>6, <1>7 DEF FeatureTypeOK
<1> QED BY <1>2, <1>4, <1>8 DEF SeriesInv, Follows

LEMMA BarHolds ==
  ASSUME SeriesInv, FeedInv, FeedInv', Bar
  PROVE  SeriesInv'
<1>1. /\ buffer \in Seq(Market) /\ Len(buffer) <= Window /\ buffer' \in Seq(Market)
      /\ returns \in Seq(Market \X Market) /\ samples \in 0..MinSamples
      /\ Len(returns) <= Kept /\ barCount \in 0..(SampleEvery - 1) /\ Follows(returns)
      /\ phase' = "running" /\ Fetched
  BY DEF FeedInv, TypeOK, SeriesInv, FeatureTypeOK, Bar
<1>2. ASSUME returns # <<>>
      PROVE  /\ Len(buffer') >= 2
             /\ \/ Move(buffer')[1] = returns[Len(returns)][2]
                \/ Move(buffer') = returns[Len(returns)]
  <2>1. Len(buffer) >= 2 /\ returns[Len(returns)] = Move(buffer)  BY <1>2 DEF SeriesInv
  <2>2. CASE buffer' = buffer  BY <2>1, <2>2
  <2>3. ASSUME NEW x \in Market, buffer' = Appended(x)
        PROVE  Len(buffer') >= 2 /\ Move(buffer')[1] = returns[Len(returns)][2]
    BY <1>1, <2>1, <2>3, AppendedMove
  <2> QED BY <1>1, <2>2, <2>3, FetchedBuffer
<1>3. Computed(buffer', returns, samples)  BY DEF Bar, OnNewBar
<1>4. /\ returns' \in Seq(Market \X Market) /\ Len(returns') <= Kept /\ Follows(returns')
      /\ returns' # <<>> => Len(buffer') >= 2 /\ returns'[Len(returns')] = Move(buffer')
      /\ barCount' \in 0..(SampleEvery - 1) /\ samples' \in 0..MinSamples
      /\ ready' = TRUE /\ volKnown' \in BOOLEAN
  <2> DEFINE prices == buffer'
  <2>1. prices \in Seq(Market)  BY <1>1
  <2>2. returns # <<>> => /\ Len(prices) >= 2
                          /\ Move(prices)[1] = returns[Len(returns)][2] \/ Move(prices) = returns[Len(returns)]
    BY <1>2
  <2>3. Computed(prices, returns, samples)  BY <1>3
  <2> HIDE DEF prices
  <2>4. /\ returns' \in Seq(Market \X Market) /\ Len(returns') <= Kept /\ Follows(returns')
        /\ returns' # <<>> => Len(prices) >= 2 /\ returns'[Len(returns')] = Move(prices)
        /\ barCount' \in 0..(SampleEvery - 1) /\ samples' \in 0..MinSamples
        /\ ready' = TRUE /\ volKnown' \in BOOLEAN
    BY <1>1, <2>1, <2>2, <2>3, ComputedStep
  <2> QED BY <2>4 DEF prices
<1>5. again' \in 0..MaxAgain
  BY FeatureBounds DEF Bar, Repeats, SeriesInv, FeatureTypeOK
<1>6. FeatureTypeOK'  BY <1>1, <1>4, <1>5 DEF FeatureTypeOK, FeedInv
<1> QED BY <1>1, <1>4, <1>6 DEF SeriesInv

LEMMA RecomputeHolds ==
  ASSUME SeriesInv, FeedInv, FeedInv', Recompute
  PROVE  SeriesInv'
<1>1. /\ buffer \in Seq(Market) /\ buffer' = buffer
      /\ returns \in Seq(Market \X Market) /\ samples \in 0..MinSamples
      /\ Len(returns) <= Kept /\ barCount \in 0..(SampleEvery - 1) /\ Follows(returns)
      /\ phase' = "running" /\ Computed(buffer, returns, samples)
      /\ returns # <<>> => Len(buffer) >= 2 /\ returns[Len(returns)] = Move(buffer)
  BY DEF FeedInv, TypeOK, SeriesInv, FeatureTypeOK, Recompute, vars
<1>2. /\ returns' \in Seq(Market \X Market) /\ Len(returns') <= Kept /\ Follows(returns')
      /\ returns' # <<>> => Len(buffer) >= 2 /\ returns'[Len(returns')] = Move(buffer)
      /\ barCount' \in 0..(SampleEvery - 1) /\ samples' \in 0..MinSamples
      /\ ready' = TRUE /\ volKnown' \in BOOLEAN
  BY <1>1, ComputedStep
<1>3. again' \in 0..MaxAgain
  BY FeatureBounds DEF Recompute, Repeats, SeriesInv, FeatureTypeOK
<1>4. FeatureTypeOK'  BY <1>1, <1>2, <1>3 DEF FeatureTypeOK, FeedInv
<1> QED BY <1>1, <1>2, <1>4 DEF SeriesInv

LEMMA WarmStartHolds ==
  ASSUME SeriesInv, FeedInv, FeedInv', WarmStart
  PROVE  SeriesInv'
<1>1. /\ buffer \in Seq(Market) /\ Len(buffer) <= Window /\ Len(buffer) \in Nat
      /\ buffer' = buffer /\ phase' = "running" /\ barCount \in 0..(SampleEvery - 1)
  BY DEF FeedInv, TypeOK, SeriesInv, FeatureTypeOK, WarmStart, vars
<1>2. CASE Len(buffer) < Window
  <2>1. UNCHANGED features  BY <1>2 DEF WarmStart
  <2>2. FeatureTypeOK'
    BY <1>1, <2>1 DEF features, SeriesInv, FeatureTypeOK, FeedInv
  <2> QED BY <1>1, <2>1, <2>2 DEF features, SeriesInv, Follows
<1>3. CASE ~(Len(buffer) < Window)
  <2> DEFINE rebuilt == [i \in 1..(Window - 1) |-> <<buffer[i], buffer[i + 1]>>]
             kept == LastOf(rebuilt, Kept)
             count == AtMost(Backfilled(Len(kept)), MinSamples)
  <2>1. Len(buffer) = Window /\ Window \in Nat /\ Window >= 2  BY <1>1, <1>3, FeatureBounds
  <2>2. /\ rebuilt \in Seq(Market \X Market) /\ Len(rebuilt) = Window - 1 /\ rebuilt # <<>>
        /\ \A i \in 1..(Window - 1) : rebuilt[i] = <<buffer[i], buffer[i + 1]>>
    <3>1. \A i \in 1..(Window - 1) : <<buffer[i], buffer[i + 1]>> \in Market \X Market
      BY <1>1, <2>1
    <3>2. Window - 1 \in Nat \ {0}  BY <2>1
    <3>3. rebuilt \in [1..(Window - 1) -> Market \X Market]  BY <3>1
    <3>4. rebuilt \in Seq(Market \X Market) /\ Len(rebuilt) = Window - 1
      <4> DEFINE S == Market \X Market
                 n == Window - 1
      <4>1. rebuilt \in [1..n -> S] /\ n \in Nat  BY <3>2, <3>3
      <4> HIDE DEF S, n, rebuilt
      <4>2. rebuilt \in Seq(S)  BY <4>1, SeqDef
      <4>3. Len(rebuilt) = n  BY <4>1, <4>2, LenProperties
      <4> QED BY <4>2, <4>3 DEF S, n
    <3>5. rebuilt # <<>>
      <4>1. rebuilt = <<>> => Len(rebuilt) = 0
        <5> HIDE DEF rebuilt
        <5> QED OBVIOUS
      <4> QED BY <3>2, <3>4, <4>1
    <3> QED BY <3>4, <3>5
  <2> HIDE DEF rebuilt
  <2>3. Follows(rebuilt)
    <3> SUFFICES ASSUME NEW i \in 1..(Len(rebuilt) - 1)
                 PROVE  rebuilt[i + 1][1] = rebuilt[i][2]
      BY DEF Follows
    <3>1. i \in 1..(Window - 1) /\ i + 1 \in 1..(Window - 1)  BY <2>1, <2>2
    <3> QED BY <2>2, <3>1
  <2>4. rebuilt[Len(rebuilt)] = Move(buffer)
    <3>1. Window - 1 \in 1..(Window - 1)  BY <2>1
    <3>2. rebuilt[Window - 1] = <<buffer[Window - 1], buffer[(Window - 1) + 1]>>  BY <2>2, <3>1
    <3>3. (Window - 1) + 1 = Window  BY <2>1
    <3> QED BY <2>1, <2>2, <3>2, <3>3 DEF Move
  <2>5. /\ kept \in Seq(Market \X Market) /\ Len(kept) <= Kept /\ Len(kept) \in Nat
        /\ kept # <<>> /\ kept[Len(kept)] = Move(buffer)
    <3>1. Kept \in Nat \ {0}  BY FeatureBounds
    <3> QED BY <2>2, <2>4, <3>1, LastOfIs
  <2>6. Follows(kept)
    BY <2>2, <2>3, FeatureBounds, LastOfFollows
  <2>7. count \in 0..MinSamples
    <3>1. Backfilled(Len(kept)) \in Nat
      <4>1. CASE Len(kept) > VolWindow
        <5> DEFINE m == Len(kept) - VolWindow + SampleEvery - 1
        <5>1. m \in Nat  BY <2>5, <4>1, FeatureBounds
        <5>2. m \div SampleEvery \in Nat  BY <5>1, FeatureBounds
        <5> QED BY <4>1, <5>2 DEF Backfilled
      <4>2. CASE ~(Len(kept) > VolWindow)  BY <4>2 DEF Backfilled
      <4> QED BY <4>1, <4>2
    <3> QED BY <3>1, FeatureBounds DEF AtMost
  <2>8. Computed(buffer, kept, count) /\ Repeats
    BY <1>3 DEF WarmStart, rebuilt
  <2> HIDE DEF kept, count
  <2>9. /\ returns' \in Seq(Market \X Market) /\ Len(returns') <= Kept /\ Follows(returns')
        /\ returns' # <<>> => Len(buffer) >= 2 /\ returns'[Len(returns')] = Move(buffer)
        /\ barCount' \in 0..(SampleEvery - 1) /\ samples' \in 0..MinSamples
        /\ ready' = TRUE /\ volKnown' \in BOOLEAN
    BY <1>1, <2>1, <2>5, <2>6, <2>7, <2>8, ComputedStep
  <2>10. again' \in 0..MaxAgain
    BY <2>8, FeatureBounds DEF Repeats, SeriesInv, FeatureTypeOK
  <2>11. FeatureTypeOK'  BY <1>1, <2>9, <2>10 DEF FeatureTypeOK, FeedInv
  <2> QED BY <1>1, <2>9, <2>11 DEF SeriesInv
<1> QED BY <1>2, <1>3

LEMMA SeriesInvHolds == FeatureSpec => []SeriesInv
<1>1. SeriesInv /\ FeedInv /\ FeedInv' /\ [FeatureNext]_allVars => SeriesInv'
  <2> SUFFICES ASSUME SeriesInv, FeedInv, FeedInv', [FeatureNext]_allVars PROVE SeriesInv'
    OBVIOUS
  <2>1. CASE UNCHANGED featureVars /\ (buffer' = buffer \/ phase # "running")
    <3>1. FeatureTypeOK'
      BY <2>1 DEF featureVars, features, SeriesInv, FeatureTypeOK, FeedInv
    <3> QED BY <2>1, <3>1 DEF featureVars, features, SeriesInv, Follows, Move
  <2>2. CASE StartupFetch
    <3>1. UNCHANGED features /\ phase' = "warming" /\ returns = <<>>
      BY <2>2 DEF StartupFetch, SeriesInv
    <3>2. FeatureTypeOK'
      BY <3>1 DEF features, SeriesInv, FeatureTypeOK, FeedInv
    <3> QED BY <3>1, <3>2 DEF features, SeriesInv, Follows
  <2>3. CASE FailedBar
    BY <2>1, <2>3 DEF FailedBar, FetchFails
  <2>4. CASE UNCHANGED allVars
    BY <2>1, <2>4 DEF allVars, vars
  <2> QED BY <2>2, <2>3, <2>4, BarHolds, WarmStartHolds, RecomputeHolds DEF FeatureNext
<1> QED BY <1>1, SeriesInit, FeedUndisturbed, FeedInvHolds, PTL DEF FeatureSpec

(* FeatureEngine: its fields, and the feed's, hold values of their types.  *)
THEOREM FeatureTypes == FeatureSpec => []FeatureTypeOK
<1>1. SeriesInv => FeatureTypeOK  BY DEF SeriesInv
<1> QED BY <1>1, SeriesInvHolds, PTL

(* _update_asset_features and warm_start: the returns are the moves of the *)
(* price buffer, one after the other, some of them more than once.         *)
THEOREM ReturnsAreTheFeeds == FeatureSpec => []ReturnsFollow
<1>1. SeriesInv => ReturnsFollow  BY DEF SeriesInv, ReturnsFollow, Follows
<1> QED BY <1>1, SeriesInvHolds, PTL

-----------------------------------------------------------------------------
\* the moves of a series that are counted again
Recounted(s) == {i \in 1..(Len(s) - 1) : s[i + 1] = s[i] /\ s[i][1] # s[i][2]}

LEMMA RecountedFinite ==
  ASSUME NEW S, NEW s \in Seq(S)
  PROVE  IsFiniteSet(Recounted(s)) /\ Cardinality(Recounted(s)) \in Nat
<1>1. IsFiniteSet(1..(Len(s) - 1))
  BY FS_Interval
<1>2. Recounted(s) \in SUBSET (1..(Len(s) - 1))
  BY DEF Recounted
<1> QED BY <1>1, <1>2, FS_Subset, FS_CardinalityType

(* The end of a series repeats no more than the series.                    *)
LEMMA RecountedLast ==
  ASSUME NEW S, NEW s \in Seq(S), NEW n \in Nat \ {0}
  PROVE  Cardinality(Recounted(LastOf(s, n))) <= Cardinality(Recounted(s))
<1> DEFINE t == LastOf(s, n)
           d == Len(s) - Len(t)
           f == [i \in Recounted(t) |-> i + d]
<1>1. /\ t \in Seq(S) /\ Len(t) \in Nat /\ Len(t) <= Len(s) /\ Len(s) \in Nat
      /\ \A i \in 1..Len(t) : t[i] = s[i + d]
  BY LastOfIs
<1> HIDE DEF t
<1>2. ASSUME NEW i \in Recounted(t) PROVE i + d \in Recounted(s) /\ i \in Nat
  <2>1. i \in 1..Len(t) /\ i + 1 \in 1..Len(t) /\ t[i + 1] = t[i] /\ t[i][1] # t[i][2]
    BY <1>1 DEF Recounted
  <2>2. t[i] = s[i + d] /\ t[i + 1] = s[(i + 1) + d]
    BY <1>1, <2>1
  <2>3. (i + 1) + d = (i + d) + 1 /\ i + d \in 1..(Len(s) - 1)
    BY <1>1, <2>1
  <2> QED BY <2>1, <2>2, <2>3 DEF Recounted
<1>3. f \in Injection(Recounted(t), Recounted(s))
  <2>1. f \in [Recounted(t) -> Recounted(s)]
    BY <1>2
  <2>2. \A i, j \in Recounted(t) : f[i] = f[j] => i = j
    BY <1>1, <1>2
  <2> HIDE DEF f
  <2> QED BY <2>1, <2>2 DEF Injection, IsInjective
<1> HIDE DEF f
<1>4. IsFiniteSet(Recounted(s))
  BY RecountedFinite
<1>5. Cardinality(Recounted(t)) <= Cardinality(Recounted(s))
  BY <1>3, <1>4, FS_Injection
<1> QED BY <1>5 DEF t

(* One return more repeats once more if it is the last one again.          *)
LEMMA RecountedAppend ==
  ASSUME NEW S, NEW s \in Seq(S), NEW r \in S
  PROVE  /\ Cardinality(Recounted(Append(s, r))) <= Cardinality(Recounted(s)) + 1
         /\ s = <<>> \/ r # s[Len(s)] \/ r[1] = r[2]
              => Cardinality(Recounted(Append(s, r))) <= Cardinality(Recounted(s))
<1> DEFINE t == Append(s, r)
<1>1. /\ t \in Seq(S) /\ Len(t) = Len(s) + 1 /\ Len(s) \in Nat /\ t[Len(s) + 1] = r
      /\ \A i \in 1..Len(s) : t[i] = s[i]
      /\ s = <<>> => Len(s) = 0
  OBVIOUS
<1> HIDE DEF t
<1>2. IsFiniteSet(Recounted(s)) /\ Cardinality(Recounted(s)) \in Nat
  BY RecountedFinite
<1>3. ASSUME NEW i \in Recounted(t) PROVE i \in Recounted(s) \/ i = Len(s)
  <2>1. CASE i # Len(s)
    <3>1. i \in 1..(Len(s) - 1) /\ i \in 1..Len(s) /\ i + 1 \in 1..Len(s)
      BY <1>1, <2>1 DEF Recounted
    <3>2. t[i] = s[i] /\ t[i + 1] = s[i + 1]
      BY <1>1, <3>1
    <3> QED BY <3>1, <3>2 DEF Recounted
  <2> QED BY <2>1
<1>4. Cardinality(Recounted(t)) <= Cardinality(Recounted(s)) + 1
  <2> DEFINE R == Recounted(s) \cup {Len(s)}
  <2>1. IsFiniteSet(R) /\ Cardinality(R) <= Cardinality(Recounted(s)) + 1 /\ Cardinality(R) \in Nat
    <3> DEFINE P == Recounted(s)
    <3>1. IsFiniteSet(P) /\ Cardinality(P) \in Nat
      BY <1>2
    <3> HIDE DEF P
    <3>2. /\ IsFiniteSet(P \cup {Len(s)})
          /\ Cardinality(P \cup {Len(s)}) = IF Len(s) \in P THEN Cardinality(P) ELSE Cardinality(P) + 1
      BY <3>1, FS_AddElement
    <3> QED BY <3>1, <3>2 DEF P
  <2>2. Recounted(t) \in SUBSET R
    BY <1>3
  <2> HIDE DEF R
  <2>3. Cardinality(Recounted(t)) <= Cardinality(R) /\ IsFiniteSet(Recounted(t))
    BY <2>1, <2>2, FS_Subset
  <2>4. Cardinality(Recounted(t)) \in Nat
    BY <2>3, FS_CardinalityType
  <2> QED BY <1>2, <2>1, <2>3, <2>4
<1>5. ASSUME s = <<>> \/ r # s[Len(s)] \/ r[1] = r[2]
      PROVE  Cardinality(Recounted(t)) <= Cardinality(Recounted(s))
  <2>1. Len(s) \notin Recounted(t)
    <3> SUFFICES ASSUME Len(s) \in Recounted(t) PROVE FALSE
      OBVIOUS
    <3>1. Len(s) \in 1..Len(s) /\ t[Len(s) + 1] = t[Len(s)] /\ t[Len(s)][1] # t[Len(s)][2]
      BY <1>1 DEF Recounted
    <3>2. t[Len(s)] = s[Len(s)]
      BY <1>1, <3>1
    <3> QED BY <1>1, <1>5, <3>1, <3>2
  <2>2. Recounted(t) \in SUBSET Recounted(s)
    BY <1>3, <2>1
  <2> QED BY <1>2, <2>2, FS_Subset
<1> QED BY <1>4, <1>5 DEF t

\* the repetitions so far, and those that on_new_bar adds
RepeatsInv == Cardinality(Recounted(returns)) <= again

LEMMA ComputedRepeats ==
  ASSUME NEW prices \in Seq(Market), NEW rs \in Seq(Market \X Market), NEW n,
         Computed(prices, rs, n)
  PROVE  /\ Cardinality(Recounted(returns')) \in Nat
         /\ Cardinality(Recounted(returns')) <= Cardinality(Recounted(rs)) + 1
         /\ rs = <<>> \/ Move(prices) # rs[Len(rs)] \/ Move(prices)[1] = Move(prices)[2]
              => Cardinality(Recounted(returns')) <= Cardinality(Recounted(rs))
<1> DEFINE after == IF Len(prices) < 2 THEN rs ELSE LastOf(Append(rs, Move(prices)), Kept)
           Pair == Market \X Market
<1>0. returns' = after
  BY DEF Computed
<1>1. Cardinality(Recounted(rs)) \in Nat
  BY RecountedFinite
<1>2. CASE Len(prices) < 2
  BY <1>0, <1>1, <1>2
<1>3. CASE ~(Len(prices) < 2)
  <2> DEFINE r == Move(prices)
             more == Append(rs, r)
  <2>1. r \in Pair
    BY <1>3, MoveTyped
  <2>2. returns' = LastOf(more, Kept)
    BY <1>0, <1>3
  <2> HIDE DEF Pair, r
  <2>3. rs \in Seq(Pair)
    BY DEF Pair
  <2>4. more \in Seq(Pair)
    BY <2>1, <2>3, AppendProperties
  <2>5. /\ Cardinality(Recounted(more)) <= Cardinality(Recounted(rs)) + 1
        /\ rs = <<>> \/ r # rs[Len(rs)] \/ r[1] = r[2]
             => Cardinality(Recounted(more)) <= Cardinality(Recounted(rs))
    BY <2>1, <2>3, RecountedAppend
  <2> HIDE DEF more
  <2>6. Kept \in Nat \ {0}
    BY FeatureBounds
  <2>7. /\ Cardinality(Recounted(LastOf(more, Kept))) <= Cardinality(Recounted(more))
        /\ LastOf(more, Kept) \in Seq(Pair)
    BY <2>4, <2>6, RecountedLast, LastOfIs
  <2>8. Cardinality(Recounted(LastOf(more, Kept))) \in Nat /\ Cardinality(Recounted(more)) \in Nat
    BY <2>4, <2>7, RecountedFinite
  <2> QED BY <1>1, <2>2, <2>5, <2>7, <2>8 DEF r
<1> QED BY <1>2, <1>3

(* A bar that is appended repeats nothing, unless the price stood still.   *)
LEMMA FetchedNews ==
  ASSUME FeedInv, FeedInv', Fetched
  PROVE  \/ missing' > FillLimit \/ buffer' = <<>>
         \/ \E x \in Market : buffer' = Appended(x)
<1>1. ASSUME NEW p \in Market, Receive(p)
      PROVE  \E x \in Market : buffer' = Appended(x)
  <2>1. Anomalous(p) => Latest \in Market
    BY LatestTyped DEF Anomalous, FeedInv, TypeOK
  <2> QED BY <1>1, <2>1 DEF Receive
<1>2. ASSUME Miss, ~(missing' > FillLimit), Known
      PROVE  \E x \in Market : buffer' = Appended(x)
  <2>1. status' # "STALE"
    BY <1>2 DEF FeedInv, StaleWhenMissing
  <2>2. Latest \in Market
    BY <1>2, LatestTyped DEF FeedInv, TypeOK
  <2> QED BY <1>2, <2>1, <2>2 DEF Miss
<1>3. ASSUME Miss, ~Known PROVE buffer' = <<>>
  BY <1>3 DEF Miss, Known
<1> QED BY <1>1, <1>2, <1>3 DEF Fetched

LEMMA BarRepeats ==
  ASSUME SeriesInv, FeedInv, FeedInv', RepeatsInv, Bar
  PROVE  RepeatsInv'
<1> DEFINE prices == buffer'
           old == Cardinality(Recounted(returns))
           new == Cardinality(Recounted(returns'))
<1>1. /\ buffer \in Seq(Market) /\ Len(buffer) <= Window /\ prices \in Seq(Market)
      /\ returns \in Seq(Market \X Market) /\ again \in Nat /\ Fetched
  BY DEF FeedInv, TypeOK, SeriesInv, FeatureTypeOK, Bar
<1>2. Computed(prices, returns, samples)
  BY DEF Bar, OnNewBar
<1> HIDE DEF prices
<1>3. /\ new \in Nat /\ new <= old + 1
      /\ returns = <<>> \/ Move(prices) # returns[Len(returns)] \/ Move(prices)[1] = Move(prices)[2]
           => new <= old
  BY <1>1, <1>2, ComputedRepeats
<1>4. old \in Nat /\ old <= again
  BY <1>1, RecountedFinite DEF RepeatsInv
<1>5. CASE missing' > FillLimit \/ buffer' = <<>>
  <2>1. again' = again + 1
    BY <1>5 DEF Bar, Repeats
  <2> HIDE DEF old, new
  <2>2. new <= again'
    BY <1>1, <1>3, <1>4, <2>1
  <2> QED BY <2>2 DEF RepeatsInv, new
<1>6. CASE ~(missing' > FillLimit \/ buffer' = <<>>)
  <2>1. again' = again
    BY <1>6 DEF Bar
  <2>2. PICK x \in Market : prices = Appended(x)
    BY <1>1, <1>6, FetchedNews DEF prices
  <2>3. returns = <<>> \/ Move(prices) # returns[Len(returns)] \/ Move(prices)[1] = Move(prices)[2]
    <3> SUFFICES ASSUME returns # <<>>, Move(prices) = returns[Len(returns)]
                 PROVE  Move(prices)[1] = Move(prices)[2]
      OBVIOUS
    <3>1. Len(buffer) >= 2 /\ returns[Len(returns)] = Move(buffer)
      BY DEF SeriesInv
    <3>2. Move(prices)[1] = Move(buffer)[2]
      BY <1>1, <2>2, <3>1, AppendedMove
    <3> QED BY <3>1, <3>2
  <2> HIDE DEF old, new
  <2>4. new <= again'
    BY <1>1, <1>3, <1>4, <2>1, <2>3
  <2> QED BY <2>4 DEF RepeatsInv, new
<1> QED BY <1>5, <1>6

LEMMA RecomputeRepeats ==
  ASSUME SeriesInv, FeedInv, RepeatsInv, Recompute
  PROVE  RepeatsInv'
<1> DEFINE old == Cardinality(Recounted(returns))
           new == Cardinality(Recounted(returns'))
<1>1. /\ buffer \in Seq(Market) /\ returns \in Seq(Market \X Market) /\ again \in Nat
      /\ Computed(buffer, returns, samples) /\ again' = again + 1
  BY DEF FeedInv, TypeOK, SeriesInv, FeatureTypeOK, Recompute, Repeats
<1>2. new \in Nat /\ new <= old + 1
  BY <1>1, ComputedRepeats
<1>3. old \in Nat /\ old <= again
  BY <1>1, RecountedFinite DEF RepeatsInv
<1> HIDE DEF old, new
<1>4. new <= again'
  BY <1>1, <1>2, <1>3
<1> QED BY <1>4 DEF RepeatsInv, new

(* warm_start rebuilds a series without repetitions, and repeats its last  *)
(* return.                                                                 *)
LEMMA WarmStartRepeats ==
  ASSUME SeriesInv, FeedInv, RepeatsInv, WarmStart
  PROVE  RepeatsInv'
<1>1. CASE Len(buffer) < Window
  BY <1>1 DEF WarmStart, features, RepeatsInv
<1>2. CASE ~(Len(buffer) < Window)
  <2> DEFINE rebuilt == [i \in 1..(Window - 1) |-> <<buffer[i], buffer[i + 1]>>]
             kept == LastOf(rebuilt, Kept)
             n == AtMost(Backfilled(Len(kept)), MinSamples)
             Pair == Market \X Market
  <2>1. buffer \in Seq(Market) /\ Len(buffer) = Window /\ Window \in Nat /\ Window >= 2 /\ again \in Nat
    BY <1>2, FeatureBounds DEF FeedInv, TypeOK, SeriesInv, FeatureTypeOK
  <2>2. Computed(buffer, kept, n) /\ again' = again + 1
    BY <1>2 DEF WarmStart, Repeats
  <2>3. /\ rebuilt \in Seq(Pair) /\ Len(rebuilt) = Window - 1
        /\ \A i \in 1..(Window - 1) : rebuilt[i] = <<buffer[i], buffer[i + 1]>>
    <3> DEFINE m == Window - 1
    <3>1. rebuilt \in [1..m -> Pair] /\ m \in Nat
      BY <2>1
    <3>2. \A i \in 1..m : rebuilt[i] = <<buffer[i], buffer[i + 1]>>
      OBVIOUS
    <3> HIDE DEF m, rebuilt, Pair
    <3>3. rebuilt \in Seq(Pair)
      BY <3>1, SeqDef
    <3>4. Len(rebuilt) = m
      BY <3>1, <3>3, LenProperties
    <3> QED BY <3>2, <3>3, <3>4 DEF m
  <2> HIDE DEF rebuilt
  <2>4. Recounted(rebuilt) = {}
    <3> SUFFICES ASSUME NEW i \in Recounted(rebuilt) PROVE FALSE
      OBVIOUS
    <3>1. /\ i \in 1..(Window - 1) /\ i + 1 \in 1..(Window - 1)
          /\ rebuilt[i + 1] = rebuilt[i] /\ rebuilt[i][1] # rebuilt[i][2]
      BY <2>1, <2>3 DEF Recounted
    <3>2. rebuilt[i] = <<buffer[i], buffer[i + 1]>> /\ rebuilt[i + 1][1] = buffer[i + 1]
      BY <2>3, <3>1
    <3> QED BY <3>1, <3>2
  <2>5. kept \in Seq(Pair) /\ Cardinality(Recounted(kept)) <= 0
    BY <2>3, <2>4, FeatureBounds, RecountedLast, LastOfIs, FS_EmptySet
  <2> HIDE DEF kept, n
  <2>6. /\ Cardinality(Recounted(returns')) \in Nat
        /\ Cardinality(Recounted(returns')) <= Cardinality(Recounted(kept)) + 1
    BY <2>1, <2>2, <2>5, ComputedRepeats
  <2>7. Cardinality(Recounted(kept)) \in Nat
    <3> HIDE DEF Pair
    <3> QED BY <2>5, RecountedFinite
  <2> QED BY <2>1, <2>2, <2>5, <2>6, <2>7 DEF RepeatsInv
<1> QED BY <1>1, <1>2

(* on_new_bar: a move of the market is counted again only where the engine *)
(* was called with nothing new, for every length of the series.            *)
THEOREM RepeatsAreCalls == FeatureSpec => []RepeatsBounded
<1>1. FeatureInit => RepeatsInv
  <2> SUFFICES ASSUME FeatureInit PROVE RepeatsInv
    OBVIOUS
  <2>1. returns = <<>> /\ Len(returns) = 0 /\ again = 0
    BY DEF FeatureInit
  <2>2. Recounted(returns) = {}
    BY <2>1 DEF Recounted
  <2> QED BY <2>1, <2>2, FS_EmptySet DEF RepeatsInv
<1>2. RepeatsInv /\ SeriesInv /\ FeedInv /\ FeedInv' /\ [FeatureNext]_allVars => RepeatsInv'
  <2> SUFFICES ASSUME RepeatsInv, SeriesInv, FeedInv, FeedInv', [FeatureNext]_allVars
               PROVE  RepeatsInv'
    OBVIOUS
  <2>1. CASE UNCHANGED features
    BY <2>1 DEF features, RepeatsInv
  <2> QED BY <2>1, BarRepeats, RecomputeRepeats, WarmStartRepeats
          DEF FeatureNext, StartupFetch, FailedBar, allVars, featureVars
<1>3. RepeatsInv => RepeatsBounded
  BY DEF RepeatsInv, RepeatsBounded, Recounted
<1> QED BY <1>1, <1>2, <1>3, SeriesInvHolds, FeedUndisturbed, FeedInvHolds, PTL DEF FeatureSpec
=============================================================================
