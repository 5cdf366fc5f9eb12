------------------------- MODULE CircuitBreakersProofs -------------------------
(***************************************************************************)
(* Proofs about CircuitBreakers, for all limits, values and clocks, and    *)
(* about the PerformanceLog beside it: first that the two together do      *)
(* nothing to the breakers that the breakers alone would not, then what    *)
(* the file of the log keeps through failed writes and restarts, that the  *)
(* returns follow on from one another, and that the one pass over the      *)
(* daily values finds the largest fall.                                    *)
(*                                                                         *)
(* The argument about the breakers is in two facts about percentages: a    *)
(* value in a deep drawdown is far below the peak, and a value at a new    *)
(* peak is not.  So _check_halt_recovery, which is reached in these two    *)
(* situations only, either keeps the halt or lifts it altogether.  The one *)
(* about the series is an induction over its length, made of the least     *)
(* counterexample (Rising).                                                *)
(***************************************************************************)
EXTENDS PerformanceLog, WellFoundedInduction, TLAPS

(* Scaling by a smaller percentage gives no more; a percentage of a number *)
(* is a number.                                                            *)
LEMMA Scale ==
  ASSUME NEW a \in Nat, NEW b \in Nat, NEW r \in Nat, a < b, r > 0
  PROVE  a * r < b * r /\ a * r \in Nat
  OBVIOUS

(* A value below the hard limit is not within full_sizing_within_pct of    *)
(* the peak: DdHard is the larger of the two percentages.                  *)
LEMMA DeepIsFar ==
  ASSUME NEW n \in Nat, NEW r \in Nat, Below(n, r, DdHard)
  PROVE  FarBelow(n, r)
<1>1. FullPct \in Nat /\ DdHard \in Nat /\ FullPct < DdHard  BY BreakerAssumption
<1>2. r > 0 /\ 100 * (r - n) >= DdHard * r  BY DEF Below
<1>3. FullPct * r < DdHard * r /\ FullPct * r \in Nat  BY <1>1, <1>2, Scale
<1>4. DdHard * r \in Nat  BY <1>1
<1>5. 100 * (r - n) \in Int  OBVIOUS
<1>6. 100 * (r - n) > FullPct * r  BY <1>2, <1>3, <1>4, <1>5
<1> QED BY <1>6 DEF FarBelow

(* The peak itself is neither far below the peak nor in a deep drawdown.   *)
LEMMA PeakIsNear ==
  ASSUME NEW n \in Nat
  PROVE  ~FarBelow(n, n) /\ ~Below(n, n, DdHard)
<1>1. FullPct \in Nat /\ DdHard \in Nat \ {0}  BY BreakerAssumption
<1>2. FullPct * n \in Nat /\ DdHard * n \in Nat  BY <1>1
<1>3. 100 * (n - n) = 0  OBVIOUS
<1>4. ~FarBelow(n, n)  BY <1>2, <1>3 DEF FarBelow
<1>5. n > 0 => DdHard * n > 0  BY <1>1
<1>6. ~Below(n, n, DdHard)  BY <1>2, <1>3, <1>5 DEF Below
<1> QED BY <1>4, <1>6

-----------------------------------------------------------------------------
(* The inductive invariant: types, the sizing fraction, a halt knows when  *)
(* it began, and no deep drawdown goes on unhalted.                        *)
IInv == /\ TypeOK
        /\ SizingTracksHalt
        /\ halted => haltedAt \in 0..now
        /\ DeepHalted

LEMMA InitIInv == Init => IInv
<1> SUFFICES ASSUME Init PROVE IInv  OBVIOUS
<1>1. nav \in Nat  BY BreakerAssumption DEF Init
<1>2. TypeOK
  <2>1. now \in 0..MaxTime /\ nav \in Nat /\ peak \in Nat /\ dayStart \in Nat
    BY <1>1, BreakerAssumption DEF Init
  <2>2. haltedAt \in 0..MaxTime \cup {Never} /\ fraction \in {0, ResumePct, FullSize}
    BY DEF Init
  <2>3. day \in Nat \cup {Never}  BY DEF Init
  <2> QED BY <2>1, <2>2, <2>3 DEF Init, TypeOK
<1>3. SizingTracksHalt  BY DEF Init, SizingTracksHalt
<1>4. ~Below(nav, peak, DdHard)  BY <1>1, PeakIsNear DEF Init
<1> QED BY <1>2, <1>3, <1>4 DEF Init, IInv, DeepHalted

(* What a check does to the halt: it halts, it reviews a halt and keeps it *)
(* or lifts it at a new peak after the cooldown, or it leaves it alone.    *)
LEMMA HaltStep ==
  ASSUME IInv, NEW n \in Navs, NEW elapsed \in Steps, Check(n, elapsed)
  PROVE  \/ /\ Halts(n)
            /\ halted' = TRUE /\ haltedAt' = now' /\ fraction' = 0
         \/ /\ halted /\ n > peak /\ now' >= haltedAt + Cooldown
            /\ ~Below(n, peak', DdHard)
            /\ halted' = FALSE /\ haltedAt' = Never /\ fraction' = FullSize
         \/ /\ ~Halts(n)
            /\ halted' = halted /\ haltedAt' = haltedAt /\ fraction' = fraction
<1> DEFINE after == IF Halts(n)    THEN [active |-> TRUE, at |-> now', fraction |-> 0]
                    ELSE IF Reviewed(n) THEN Recovery(n) ELSE Unchanged
<1>1. /\ n \in Nat /\ peak \in Nat /\ now \in Nat /\ now' \in Nat
      /\ halted \in BOOLEAN /\ Cooldown \in Nat
      /\ halted => haltedAt \in Nat
  BY BreakerAssumption DEF Check, IInv, TypeOK
<1>2. peak' = IF n > peak THEN n ELSE peak  BY DEF Check, CheckDrawdown
<1>3. halted' = after.active /\ haltedAt' = after.at /\ fraction' = after.fraction
  BY DEF Check, CheckDrawdown
<1>4. CASE Halts(n)
  BY <1>3, <1>4
<1>5. CASE ~Halts(n) /\ ~Reviewed(n)
  BY <1>3, <1>5 DEF Unchanged
<1>6. CASE ~Halts(n) /\ Reviewed(n)
  <2>1. halted = TRUE  BY <1>1, <1>6 DEF Reviewed
  <2>2. after = Recovery(n)  BY <1>6
  <2>3. CASE n > peak
    <3>1. peak' = n  BY <1>2, <2>3
    <3>2. ~FarBelow(n, peak') /\ ~Below(n, peak', DdHard)  BY <1>1, <3>1, PeakIsNear
    <3>3. CASE Cooling
      <4>1. Recovery(n) = Unchanged  BY <3>2, <3>3, <2>1 DEF Recovery
      <4> QED BY <1>3, <1>6, <2>2, <4>1 DEF Unchanged
    <3>4. CASE ~Cooling
      <4>1. Recovery(n) = [active |-> FALSE, at |-> Never, fraction |-> FullSize]
        BY <3>2, <3>4 DEF Recovery
      <4>2. now' >= haltedAt + Cooldown  BY <1>1, <2>1, <3>4 DEF Cooling
      <4>3. halted' = FALSE /\ haltedAt' = Never /\ fraction' = FullSize
        BY <1>3, <2>2, <4>1
      <4> QED BY <2>1, <2>3, <3>2, <4>2, <4>3
    <3> QED BY <3>3, <3>4
  <2>4. CASE ~(n > peak)
    <3>1. peak' = peak /\ Below(n, peak', DdHard)  BY <1>2, <1>6, <2>4 DEF Reviewed
    <3>2. FarBelow(n, peak')  BY <1>1, <3>1, DeepIsFar
    <3>3. Recovery(n) = Unchanged  BY <3>1, <3>2 DEF Recovery
    <3> QED BY <1>3, <1>6, <2>2, <3>3 DEF Unchanged
  <2> QED BY <2>3, <2>4
<1> QED BY <1>4, <1>5, <1>6

LEMMA DayIsNat ==
  ASSUME NEW m \in Nat, NEW k \in Nat \ {0}
  PROVE  m \div k \in Nat
  OBVIOUS

LEMMA StepIInv == IInv /\ [Next]_vars => IInv'
<1> SUFFICES ASSUME IInv, [Next]_vars PROVE IInv'  OBVIOUS
<1>1. CASE UNCHANGED vars
  <2>1. /\ now' = now /\ nav' = nav /\ peak' = peak /\ halted' = halted
        /\ haltedAt' = haltedAt /\ fraction' = fraction /\ ddWarned' = ddWarned
        /\ dayStart' = dayStart /\ day' = day /\ reduce' = reduce
        /\ dailyWarned' = dailyWarned /\ events' = events
    BY <1>1 DEF vars, drawdown, dailyPnl
  <2> QED BY <2>1 DEF IInv, TypeOK, SizingTracksHalt, DeepHalted, Below
<1>2. CASE Restart
  <2>1. nav' \in Nat /\ now \in 0..MaxTime /\ now \in Nat /\ DayLength \in Nat \ {0}
    BY <1>2, BreakerAssumption DEF Restart, IInv, TypeOK
  <2>2. now \div DayLength \in Nat  BY <2>1, DayIsNat
  <2>3. /\ now' = now /\ peak' = nav' /\ dayStart' = nav' /\ halted' = FALSE
        /\ haltedAt' = Never /\ fraction' = FullSize /\ reduce' = FALSE
        /\ ddWarned' = FALSE /\ dailyWarned' = FALSE /\ events' = {}
        /\ day' \in Nat \cup {Never}
    BY <1>2, <2>2 DEF Restart
  <2>4. TypeOK'  BY <2>1, <2>3 DEF TypeOK
  <2>5. ~Below(nav', peak', DdHard)  BY <2>1, <2>3, PeakIsNear
  <2> QED BY <2>3, <2>4, <2>5 DEF IInv, SizingTracksHalt, DeepHalted, Below
<1>3. CASE Checks
  <2> PICK n \in Navs, elapsed \in Steps : Check(n, elapsed)  BY <1>3 DEF Checks
  <2>1. /\ n \in Nat /\ elapsed \in Nat /\ now \in 0..MaxTime /\ MaxTime \in Nat
        /\ DayLength \in Nat \ {0} /\ peak \in Nat /\ dayStart \in Nat
        /\ halted \in BOOLEAN /\ ddWarned \in BOOLEAN
    BY BreakerAssumption DEF IInv, TypeOK
  <2>2. /\ now' = now + elapsed /\ now' <= MaxTime /\ nav' = n
        /\ peak' = (IF n > peak THEN n ELSE peak)
        /\ day' = now' \div DayLength
        /\ dayStart' = (IF day' # day THEN n ELSE dayStart)
    BY DEF Check, CheckDrawdown, ResetDaily
  <2>3. /\ now' \in 0..MaxTime /\ now' \in now..MaxTime
        /\ nav' \in Nat /\ peak' \in Nat /\ day' \in Nat /\ dayStart' \in Nat
    BY <2>1, <2>2, DayIsNat
  <2>4. /\ halted' \in BOOLEAN /\ fraction' = (IF halted' THEN 0 ELSE FullSize)
        /\ halted' => haltedAt' \in 0..now'
        /\ haltedAt' \in 0..MaxTime \cup {Never}
    <3>1. CASE /\ Halts(n)
               /\ halted' = TRUE /\ haltedAt' = now' /\ fraction' = 0
      BY <2>3, <3>1
    <3>2. CASE halted' = FALSE /\ haltedAt' = Never /\ fraction' = FullSize
      BY <3>2
    <3>3. CASE halted' = halted /\ haltedAt' = haltedAt /\ fraction' = fraction
      BY <2>1, <2>3, <3>3 DEF IInv, TypeOK, SizingTracksHalt
    <3> QED BY <3>1, <3>2, <3>3, HaltStep
  <2>5. DeepHalted'
    <3>1. SUFFICES ASSUME Below(n, peak', DdHard) PROVE halted' = TRUE
      BY <2>2, <2>4 DEF DeepHalted, Below
    <3>2. CASE halted
      BY <2>1, <3>1, <3>2, HaltStep
    <3>3. CASE ~halted
      BY <2>1, <3>1, <3>3, HaltStep DEF Halts
    <3> QED BY <3>2, <3>3
  <2>6. ddWarned' \in BOOLEAN  BY <2>1 DEF Check, CheckDrawdown, Warns, Below
  <2>7. reduce' \in BOOLEAN /\ dailyWarned' \in BOOLEAN
    BY DEF Check, CheckDailyPnl, Reduces, Cautions, Below
  <2>8. events' \subseteq Kinds  BY DEF Check, Returned
  <2>9. fraction' \in {0, ResumePct, FullSize}  BY <2>4
  <2> QED BY <2>3, <2>4, <2>5, <2>6, <2>7, <2>8, <2>9 DEF IInv, TypeOK, SizingTracksHalt
<1> QED BY <1>1, <1>2, <1>3 DEF Next

-----------------------------------------------------------------------------
LEMMA IInvHolds == Spec => []IInv
BY InitIInv, StepIInv, PTL DEF Spec

(* CircuitBreakerManager: its fields hold values of their types.           *)
THEOREM BreakerTypes == Spec => []TypeOK
<1>1. IInv => TypeOK  BY DEF IInv
<1> QED BY <1>1, IInvHolds, PTL

(* _check_drawdown: no check leaves a deep drawdown without a halt.        *)
THEOREM BreakerHalts == Spec => []DeepHalted
<1>1. IInv => DeepHalted  BY DEF IInv
<1> QED BY <1>1, IInvHolds, PTL

(* sizing_multiplier is 0 in a halt and 1 otherwise, whatever the limits:  *)
(* _check_halt_recovery never resumes at resume_sizing_fraction.           *)
THEOREM BreakerSizing == Spec => []SizingTracksHalt
<1>1. IInv => SizingTracksHalt  BY DEF IInv
<1> QED BY <1>1, IInvHolds, PTL

(* _check_halt_recovery lifts a halt at a new peak after the cooldown      *)
(* only.                                                                   *)
THEOREM BreakerLifts == Spec => HaltUntilPeak
<1> DEFINE Lift == halted /\ ~halted' => \/ nav' > peak /\ now' >= haltedAt + Cooldown
                                         \/ Restart
<1>1. IInv /\ [Next]_vars => [Lift]_vars
  <2> SUFFICES ASSUME IInv, Checks PROVE Lift  BY DEF Next
  <2> PICK n \in Navs, elapsed \in Steps : Check(n, elapsed)  BY DEF Checks
  <2>1. nav' = n  BY DEF Check
  <2> QED BY <2>1, HaltStep
<1> QED BY <1>1, IInvHolds, PTL DEF Spec, HaltUntilPeak

-----------------------------------------------------------------------------
(* The log beside the breakers reads their NAV and changes nothing of      *)
(* theirs: what is proved of Spec holds of LogSpec.                        *)
THEOREM BreakersUndisturbed == LogSpec => Spec
<1>1. LogInit => Init  BY DEF LogInit
<1>2. [LogNext]_allVars => [Next]_vars
  BY DEF LogNext, allVars, Snapshot, Next
<1> QED BY <1>1, <1>2, PTL DEF LogSpec, Spec

LEMMA LaterDay ==
  ASSUME NEW a \in Nat, NEW b \in Nat, a <= b, NEW k \in Nat \ {0}
  PROVE  a \div k <= b \div k /\ a \div k \in Nat /\ b \div k \in Nat
<1> DEFINE q == a \div k
           r == b \div k
<1>1. q \in Nat /\ r \in Nat  BY DayIsNat
<1>2. k * q <= a /\ b < k * (r + 1)  OBVIOUS
<1> HIDE DEF q, r
<1>3. k * q < k * (r + 1)  BY <1>1, <1>2
<1>4. ASSUME q > r PROVE FALSE
  <2>1. q >= r + 1  BY <1>1, <1>4
  <2>2. k * q >= k * (r + 1)  BY <1>1, <2>1
  <2> QED BY <1>1, <1>3, <2>2
<1>5. q <= r  BY <1>1, <1>4
<1> QED BY <1>1, <1>5 DEF q, r

(* The inductive invariant of the file: no line is of a later day than     *)
(* memory last anchored, which is no later than today; half a line is      *)
(* there only after a failed write.                                        *)
FInv == /\ file \in Seq([date : Nat, nav : Nat]) /\ navs \in Seq(Nat)
        /\ date \in Nat \cup {Never} /\ date <= today
        /\ torn \in BOOLEAN /\ faults \in Nat /\ (torn = TRUE => faults > 0)
        /\ \A i \in DOMAIN file : file[i].date \in Nat /\ file[i].date <= date
        /\ OncePerDay
        /\ LossBounded

LEMMA InitFInv == LogInit => FInv
<1> SUFFICES ASSUME LogInit PROVE FInv  OBVIOUS
<1>1. today \in Nat  BY BreakerAssumption, DayIsNat DEF LogInit, Init, today
<1>2. file = <<>> /\ navs = <<>> /\ DOMAIN file = {} /\ Len(file) = 0 /\ Len(navs) = 0
  BY DEF LogInit
<1>3. file \in Seq([date : Nat, nav : Nat]) /\ navs \in Seq(Nat)  BY <1>2
<1>4. date = Never /\ torn = FALSE /\ faults = 0  BY DEF LogInit
<1>5. OncePerDay /\ LossBounded  BY <1>2, <1>4 DEF OncePerDay, LossBounded
<1>6. date <= today  BY <1>1, <1>4 DEF Never
<1> QED BY <1>2, <1>3, <1>4, <1>5, <1>6 DEF FInv

(* What a write does to the file: it adds the line, or nothing; each time  *)
(* it adds nothing there is a fault to show for it.                        *)
LEMMA WriteStep ==
  ASSUME NEW line, Writes(line), torn \in BOOLEAN, faults \in Nat
  PROVE  /\ torn' \in BOOLEAN /\ faults' \in Nat
         /\ \/ torn = FALSE /\ file' = Append(file, line) /\ torn' = FALSE /\ faults' = faults
            \/ torn = TRUE /\ file' = file /\ torn' = FALSE /\ faults' = faults
            \/ file' = file /\ faults' = faults + 1
<1>1. CASE faults' = faults + 1 /\ file' = file /\ torn' \in {torn, TRUE}
  <2>1. faults' \in Nat  BY <1>1
  <2>2. torn' \in BOOLEAN  BY <1>1, Zenon
  <2> QED BY <1>1, <2>1, <2>2
<1>2. CASE /\ file' = (IF torn THEN file ELSE Append(file, line))
           /\ torn' = FALSE /\ faults' = faults
  <2>1. CASE torn = TRUE   BY <1>2, <2>1
  <2>2. CASE torn = FALSE  BY <1>2, <2>2
  <2> QED BY <2>1, <2>2
<1> QED BY <1>1, <1>2 DEF Writes

LEMMA CheckpointFInv ==
  ASSUME FInv, TypeOK, Snapshot
  PROVE  FInv'
<1>1. /\ now' = now /\ nav \in Nat /\ today \in Nat /\ today' = today
  BY BreakerAssumption, DayIsNat DEF Snapshot, vars, TypeOK, today
<1>2. CASE UNCHANGED <<navs, file, torn, faults>> /\ date' = date
  BY <1>1, <1>2 DEF FInv, OncePerDay, LossBounded
<1>3. CASE UNCHANGED <<navs, file, torn, faults>> /\ date = Never /\ date' = today
  <2>1. \A i \in DOMAIN file : FALSE
    <3>1. \A i \in DOMAIN file : file[i].date \in Nat /\ file[i].date <= -1
      BY <1>3 DEF FInv, Never
    <3> QED BY <3>1
  <2> QED BY <1>1, <1>3, <2>1 DEF FInv, OncePerDay, LossBounded
<1>4. CASE /\ date # today /\ date # Never /\ navs' = Append(navs, nav)
           /\ Writes([date |-> today, nav |-> nav]) /\ date' = today
  <2> DEFINE line == [date |-> today, nav |-> nav]
  <2>1. date < today  BY <1>1, <1>4 DEF FInv, Never
  <2>2. navs' \in Seq(Nat) /\ Len(navs') = Len(navs) + 1 /\ Len(navs) \in Nat
    BY <1>1, <1>4 DEF FInv
  <2>3. line \in [date : Nat, nav : Nat] /\ line.date = today  BY <1>1
  <2>4. /\ torn' \in BOOLEAN /\ faults' \in Nat
        /\ \/ torn = FALSE /\ file' = Append(file, line) /\ torn' = FALSE /\ faults' = faults
           \/ torn = TRUE /\ file' = file /\ torn' = FALSE /\ faults' = faults
           \/ file' = file /\ faults' = faults + 1
    BY <1>4, WriteStep DEF FInv
  <2>5. CASE torn = FALSE /\ file' = Append(file, line) /\ torn' = FALSE /\ faults' = faults
    <3> HIDE DEF line
    <3>1. /\ file' \in Seq([date : Nat, nav : Nat]) /\ Len(file') = Len(file) + 1
          /\ Len(file) \in Nat
          /\ \A i \in DOMAIN file' : \/ i \in DOMAIN file /\ file'[i] = file[i]
                                     \/ i = Len(file) + 1 /\ file'[i] = line
          /\ DOMAIN file = 1..Len(file)
      BY <2>3, <2>5 DEF FInv
    <3>0. \A i \in DOMAIN file : file[i].date \in Nat /\ file[i].date < today
      BY <1>1, <2>1 DEF FInv, Never
    <3>2. \A i \in DOMAIN file' : file'[i].date \in Nat /\ file'[i].date <= date'
      <4> SUFFICES ASSUME NEW i \in DOMAIN file'
                   PROVE  file'[i].date \in Nat /\ file'[i].date <= today
        BY <1>4
      <4>1. CASE i \in DOMAIN file /\ file'[i] = file[i]  BY <1>1, <3>0, <4>1
      <4>2. CASE file'[i] = line  BY <1>1, <2>3, <4>2
      <4> QED BY <3>1, <4>1, <4>2
    <3>3. OncePerDay'
      <4> SUFFICES ASSUME NEW i \in DOMAIN file', NEW j \in DOMAIN file', i < j
                   PROVE  file'[i].date < file'[j].date
        BY DEF OncePerDay
      <4>1. i \in DOMAIN file /\ file'[i] = file[i]  BY <3>1
      <4>2. CASE j \in DOMAIN file /\ file'[j] = file[j]
        BY <4>1, <4>2 DEF FInv, OncePerDay
      <4>3. CASE file'[j] = line  BY <2>3, <3>0, <4>1, <4>3
      <4> QED BY <3>1, <4>2, <4>3
    <3>4. LossBounded'
      BY <2>2, <2>5, <3>1 DEF FInv, LossBounded
    <3>5. date' \in Nat \cup {Never} /\ date' <= today'  BY <1>1, <1>4
    <3>6. torn' \in BOOLEAN /\ faults' \in Nat /\ (torn' = TRUE => faults' > 0)
      BY <2>4, <2>5
    <3> QED BY <2>2, <3>1, <3>2, <3>3, <3>4, <3>5, <3>6 DEF FInv
  <2>6. CASE file' = file
    <3>1. \A i \in DOMAIN file' : file'[i].date \in Nat /\ file'[i].date <= date'
      BY <1>1, <1>4, <2>1, <2>6 DEF FInv, Never
    <3>2. OncePerDay'  BY <2>6 DEF FInv, OncePerDay
    <3>3. Len(file) \in Nat /\ faults \in Nat  BY DEF FInv
    <3>6. LossBounded' /\ (torn' = TRUE => faults' > 0)
      <4>1. CASE torn = FALSE /\ file' = Append(file, line) /\ torn' = FALSE /\ faults' = faults
        <5> HIDE DEF line
        <5>1. file \in Seq([date : Nat, nav : Nat])  BY DEF FInv
        <5>2. Len(Append(file, line)) = Len(file) + 1  BY <2>3, <5>1
        <5> QED BY <2>6, <3>3, <4>1, <5>2
      <4>2. CASE torn = TRUE /\ torn' = FALSE /\ faults' = faults
        BY <2>2, <2>6, <3>3, <4>2 DEF FInv, LossBounded
      <4>3. CASE faults' = faults + 1
        BY <2>2, <2>4, <2>6, <3>3, <4>3 DEF FInv, LossBounded
      <4> QED BY <2>4, <4>1, <4>2, <4>3
    <3>7. date' \in Nat \cup {Never} /\ date' <= today'  BY <1>1, <1>4
    <3>8. torn' \in BOOLEAN /\ faults' \in Nat  BY <2>4
    <3>9. file' \in Seq([date : Nat, nav : Nat])  BY <2>6 DEF FInv
    <3> QED BY <2>2, <3>1, <3>2, <3>6, <3>7, <3>8, <3>9 DEF FInv
  <2> QED BY <2>4, <2>5, <2>6
<1> QED BY <1>2, <1>3, <1>4 DEF Snapshot, Checkpoint, disk

LEMMA RestartFInv ==
  ASSUME FInv, TypeOK, Restart, Loads, UNCHANGED disk
  PROVE  FInv'
<1>1. file' = file /\ torn' = torn /\ faults' = faults /\ now' = now /\ today' = today
  BY DEF disk, Restart, today
<1>2. navs' = Values(file) /\ date' = (IF file = <<>> THEN Never ELSE file[Len(file)].date)
  BY DEF Loads, Load
<1>3. Values(file) \in Seq(Nat) /\ Len(Values(file)) = Len(file)
  <2>0. /\ DOMAIN file = 1..Len(file) /\ Len(file) \in Nat
        /\ \A i \in 1..Len(file) : file[i] \in [date : Nat, nav : Nat]
    <3>1. file \in Seq([date : Nat, nav : Nat])  BY DEF FInv
    <3> DEFINE S == [date : Nat, nav : Nat]
    <3> HIDE DEF S
    <3>2. file \in Seq(S)  BY <3>1 DEF S
    <3>3. \A i \in 1..Len(file) : file[i] \in S  BY <3>2
    <3> QED BY <3>1, <3>3 DEF S
  <2>1. /\ DOMAIN Values(file) = 1..Len(file) /\ Len(file) \in Nat
        /\ \A i \in 1..Len(file) : Values(file)[i] \in Nat
    BY <2>0 DEF Values
  <2>2. Values(file) = [i \in 1..Len(file) |-> Values(file)[i]]
    BY DEF Values, FInv
  <2> QED BY <2>1, <2>2
<1>4. /\ date' \in Nat \cup {Never} /\ date' <= today
      /\ \A i \in DOMAIN file : file[i].date \in Nat /\ file[i].date <= date'
  <2>0. today \in Nat  BY BreakerAssumption, DayIsNat DEF TypeOK, today
  <2>1. CASE file = <<>>
    BY <1>2, <2>0, <2>1 DEF Never
  <2>2. CASE file # <<>>
    <3>1. Len(file) \in DOMAIN file /\ DOMAIN file = 1..Len(file) /\ Len(file) \in Nat
      BY <2>2 DEF FInv
    <3>2. \A i \in DOMAIN file : file[i].date \in Nat  BY DEF FInv
    <3>3. date' = file[Len(file)].date  BY <1>2, <2>2
    <3>4. \A i \in DOMAIN file : i < Len(file) => file[i].date < file[Len(file)].date
      BY <3>1 DEF FInv, OncePerDay
    <3>5. \A i \in DOMAIN file : i < Len(file) \/ i = Len(file)  BY <3>1
    <3>6. date' <= today  BY <2>0, <3>1, <3>2, <3>3 DEF FInv, Never
    <3> QED BY <3>1, <3>2, <3>3, <3>4, <3>5, <3>6
  <2> QED BY <2>1, <2>2
<1>5. LossBounded'
  BY <1>1, <1>2, <1>3 DEF FInv, LossBounded
<1>6. OncePerDay'  BY <1>1 DEF FInv, OncePerDay
<1> QED BY <1>1, <1>2, <1>3, <1>4, <1>5, <1>6 DEF FInv

LEMMA StepFInv == FInv /\ TypeOK /\ TypeOK' /\ [LogNext]_allVars => FInv'
<1> SUFFICES ASSUME FInv, TypeOK, TypeOK', [LogNext]_allVars PROVE FInv'  OBVIOUS
<1>1. CASE UNCHANGED allVars
  BY <1>1 DEF allVars, vars, logVars, memory, disk, FInv, OncePerDay, LossBounded, today
<1>2. CASE Checks /\ UNCHANGED logVars
  <2>1. /\ navs' = navs /\ date' = date /\ file' = file /\ torn' = torn /\ faults' = faults
    BY <1>2 DEF logVars, memory, disk
  <2>2. today <= today' /\ today \in Nat /\ today' \in Nat
    <3>1. now \in Nat /\ now' \in Nat /\ now <= now'
      BY <1>2, BreakerAssumption DEF Checks, Check, TypeOK
    <3> QED BY <3>1, BreakerAssumption, LaterDay DEF today
  <2>3. date' <= today'  BY <2>1, <2>2 DEF FInv, Never
  <2> QED BY <2>1, <2>3 DEF FInv, OncePerDay, LossBounded
<1> QED BY <1>1, <1>2, CheckpointFInv, RestartFInv DEF LogNext

LEMMA FInvHolds == LogSpec => []FInv
<1>1. IInv => TypeOK  BY DEF IInv
<1> QED BY <1>1, InitFInv, StepFInv, BreakersUndisturbed, IInvHolds, PTL DEF LogSpec

(* _maybe_checkpoint_midnight and _load_daily_returns: no failed write and *)
(* no restart makes a second line of a day or one out of order.            *)
THEOREM LogDaysOnce == LogSpec => []OncePerDay
<1>1. FInv => OncePerDay  BY DEF FInv
<1> QED BY <1>1, FInvHolds, PTL

(* The file is shorter than the series in memory by at most two days for   *)
(* each write that failed.                                                 *)
THEOREM LogLossBounded == LogSpec => []LossBounded
<1>1. FInv => LossBounded  BY DEF FInv
<1> QED BY <1>1, FInvHolds, PTL

-----------------------------------------------------------------------------
(* What holds of 0 and of the successor of each number below n that it     *)
(* holds of, holds up to n.                                                *)
Less == {p \in Nat \X Nat : p[1] < p[2]}

LEMMA Rising ==
  ASSUME NEW n \in Nat, NEW S, 0 \in S, \A i \in 0..(n - 1) : i \in S => i + 1 \in S
  PROVE  n \in S
<1> DEFINE R == (0..n) \ S
<1> SUFFICES ASSUME R # {} PROVE FALSE
  OBVIOUS
<1>1. IsWellFoundedOn(Less, Nat)
  BY NatLessThanWellFounded DEF OpToRel, Less
<1>2. PICK x \in R : \A y \in R : <<y, x>> \notin Less
  <2>1. R \subseteq Nat
    OBVIOUS
  <2> HIDE DEF R
  <2> QED BY <1>1, <2>1, WFMin
<1>3. x \in 0..n /\ x \notin S /\ x # 0 /\ x - 1 \in 0..(n - 1) /\ x \in Nat
  BY <1>2
<1>4. <<x - 1, x>> \in Less
  BY <1>3 DEF Less
<1>5. x - 1 \in S
  BY <1>2, <1>3, <1>4
<1>6. x - 1 + 1 \in S
  BY <1>3, <1>5
<1> QED BY <1>3, <1>6

(* The returns up to the i-th value, from those up to the one before it.   *)
Further(values, rs, i) ==
  IF i < 2 THEN <<>>
  ELSE IF values[i - 1] > 0 THEN Append(rs[i - 1], <<values[i - 1], values[i]>>)
  ELSE rs[i - 1]

LEMMA ReturnsDefined ==
  ASSUME NEW values \in Seq(Nat)
  PROVE  \E rs : /\ rs = [i \in 0..Len(values) |-> Further(values, rs, i)]
                 /\ ReturnsOf(values) = rs[Len(values)]
<1> DEFINE S == {k \in Nat : \E f : f = [i \in 0..k |-> Further(values, f, i)]}
<1>1. 0 \in S
  <2>1. [i \in 0..0 |-> <<>>] = [i \in 0..0 |-> Further(values, [j \in 0..0 |-> <<>>], i)]
    BY DEF Further
  <2> QED BY <2>1
<1>2. ASSUME NEW k \in 0..(Len(values) - 1), k \in S PROVE k + 1 \in S
  <2>1. PICK f : f = [i \in 0..k |-> Further(values, f, i)]
    BY <1>2
  <2> DEFINE g == [i \in 0..(k + 1) |-> IF i <= k THEN f[i] ELSE Further(values, f, i)]
  <2>2. \A i \in 0..(k + 1) : g[i] = Further(values, g, i)
    <3> SUFFICES ASSUME NEW i \in 0..(k + 1) PROVE g[i] = Further(values, g, i)
      OBVIOUS
    <3>1. g[i] = Further(values, f, i)
      <4>1. CASE i <= k
        <5>1. i \in 0..k /\ g[i] = f[i]
          BY <4>1
        <5> HIDE DEF g
        <5> QED BY <2>1, <5>1
      <4>2. CASE ~(i <= k)
        BY <4>2
      <4> QED BY <4>1, <4>2
    <3>2. i >= 1 => g[i - 1] = f[i - 1]
      OBVIOUS
    <3> QED BY <3>1, <3>2 DEF Further
  <2>3. g = [i \in 0..(k + 1) |-> Further(values, g, i)]
    BY <2>2
  <2> HIDE DEF g
  <2> QED BY <2>3
<1>3. Len(values) \in S
  <2> HIDE DEF S
  <2>1. Len(values) \in Nat
    OBVIOUS
  <2> QED BY <1>1, <1>2, <2>1, Rising
<1> DEFINE rs == CHOOSE f : f = [i \in 0..Len(values) |-> Further(values, f, i)]
<1>4. rs = [i \in 0..Len(values) |-> Further(values, rs, i)]
  BY <1>3
<1>5. ReturnsOf(values) = rs[Len(values)]
  BY DEF ReturnsOf, Further
<1> HIDE DEF rs
<1> QED BY <1>4, <1>5

Pairs == Nat \X Nat

(* The pairs follow on from one another, and the next may start at n.      *)
Follows(rs, n) ==
  /\ \A i \in 1..(Len(rs) - 1) : rs[i][2] \in {rs[i + 1][1], 0}
  /\ rs # <<>> => rs[Len(rs)][2] \in {n, 0}

LEMMA FollowsOn ==
  ASSUME NEW rs \in Seq(Pairs), NEW m \in Nat, NEW n \in Nat, Follows(rs, m)
  PROVE  /\ Append(rs, <<m, n>>) \in Seq(Pairs)
         /\ Follows(Append(rs, <<m, n>>), n)
         /\ m = 0 => Follows(rs, n)
<1> DEFINE ext == Append(rs, <<m, n>>)
<1>1. <<m, n>> \in Pairs
  BY DEF Pairs
<1>2. /\ ext \in Seq(Pairs) /\ Len(ext) = Len(rs) + 1 /\ Len(rs) \in Nat
      /\ \A i \in 1..Len(rs) : ext[i] = rs[i]
      /\ ext[Len(rs) + 1] = <<m, n>>
  BY <1>1
<1>3. rs # <<>> => Len(rs) >= 1
  OBVIOUS
<1> HIDE DEF ext
<1>4. ASSUME NEW i \in 1..(Len(ext) - 1) PROVE ext[i][2] \in {ext[i + 1][1], 0}
  <2>1. CASE i = Len(rs)
    BY <1>2, <2>1 DEF Follows
  <2>2. CASE i # Len(rs)
    BY <1>2, <2>2 DEF Follows
  <2> QED BY <2>1, <2>2
<1>5. Follows(ext, n)
  BY <1>2, <1>4 DEF Follows
<1>6. m = 0 => Follows(rs, n)
  BY DEF Follows
<1> QED BY <1>2, <1>5, <1>6 DEF ext

LEMMA ReturnsFollowOn ==
  ASSUME NEW values \in Seq(Nat)
  PROVE  /\ ReturnsOf(values) \in Seq(Pairs)
         /\ values = <<>> => ReturnsOf(values) = <<>>
         /\ values # <<>> => Follows(ReturnsOf(values), values[Len(values)])
<1>1. PICK rs : /\ rs = [i \in 0..Len(values) |-> Further(values, rs, i)]
                /\ ReturnsOf(values) = rs[Len(values)]
  BY ReturnsDefined
<1>0. Len(values) \in Nat /\ \A i \in 1..Len(values) : values[i] \in Nat
  OBVIOUS
<1>2. \A i \in 0..Len(values) : rs[i] = Further(values, rs, i)
  BY <1>1
<1> DEFINE S == {i \in Nat : /\ rs[i] \in Seq(Pairs)
                             /\ i = 0 => rs[i] = <<>>
                             /\ i > 0 => Follows(rs[i], values[i])}
<1>3. <<>> \in Seq(Pairs) /\ \A n : Follows(<<>>, n)
  BY DEF Follows
<1>4. 0 \in S
  <2>1. rs[0] = Further(values, rs, 0)
    BY <1>0, <1>2
  <2>2. Further(values, rs, 0) = <<>>
    BY DEF Further
  <2> QED BY <1>3, <2>1, <2>2
<1>5. ASSUME NEW i \in 0..(Len(values) - 1), i \in S PROVE i + 1 \in S
  <2>1. i + 1 \in 1..Len(values) /\ i \in Nat
    BY <1>0
  <2>2. rs[i + 1] = Further(values, rs, i + 1) /\ values[i + 1] \in Nat
    BY <1>0, <1>2, <2>1
  <2>3. CASE i = 0
    <3>1. rs[i + 1] = <<>>
      BY <2>2, <2>3 DEF Further
    <3>2. rs[i + 1] \in Seq(Pairs) /\ Follows(rs[i + 1], values[i + 1])
      BY <1>3, <3>1
    <3> QED BY <2>1, <3>2
  <2>4. CASE i > 0
    <3>1. rs[i] \in Seq(Pairs) /\ Follows(rs[i], values[i]) /\ values[i] \in Nat
      <4>1. values[i] \in Nat
        BY <1>0, <2>1, <2>4
      <4>2. i \in S
        BY <1>5
      <4> QED BY <2>4, <4>1, <4>2
    <3>2. rs[i + 1] = IF values[i] > 0 THEN Append(rs[i], <<values[i], values[i + 1]>>) ELSE rs[i]
      BY <2>1, <2>2, <2>4 DEF Further
    <3>3. rs[i + 1] \in Seq(Pairs) /\ Follows(rs[i + 1], values[i + 1])
      <4>1. CASE values[i] > 0
        BY <2>2, <3>1, <3>2, <4>1, FollowsOn
      <4>2. CASE values[i] = 0
        <5>1. rs[i + 1] = rs[i] /\ Follows(rs[i], 0)
          BY <3>1, <3>2, <4>2
        <5>2. Follows(rs[i], values[i + 1])
          BY <2>2, <3>1, <5>1, FollowsOn
        <5> QED BY <3>1, <5>1, <5>2
      <4> QED BY <3>1, <4>1, <4>2
    <3> QED BY <2>1, <3>3
  <2> QED BY <2>1, <2>3, <2>4
<1>6. Len(values) \in S
  <2> HIDE DEF S
  <2> QED BY <1>0, <1>4, <1>5, Rising
<1> QED BY <1>0, <1>1, <1>6

(* What the lines of the file make of the series.                          *)
LEMMA ValuesType ==
  ASSUME file \in Seq([date : Nat, nav : Nat])
  PROVE  /\ Values(file) \in Seq(Nat) /\ Len(Values(file)) = Len(file)
         /\ file # <<>> => Values(file)[Len(file)] = file[Len(file)].nav
         /\ file # <<>> => Len(file) \in 1..Len(file)
<1> DEFINE Line == [date : Nat, nav : Nat]
<1>1. file \in Seq(Line)
  OBVIOUS
<1>2. \A l \in Line : l.nav \in Nat
  OBVIOUS
<1> HIDE DEF Line
<1>3. /\ DOMAIN file = 1..Len(file) /\ Len(file) \in Nat
      /\ \A i \in 1..Len(file) : file[i].nav \in Nat
  BY <1>1, <1>2
<1>4. Values(file) = [i \in 1..Len(file) |-> file[i].nav]
  BY <1>3 DEF Values
<1>5. file # <<>> => Len(file) \in 1..Len(file)
  BY <1>1
<1>6. Values(file) \in Seq(Nat) /\ Len(Values(file)) = Len(file)
  BY <1>3, <1>4
<1> QED BY <1>4, <1>5, <1>6

(* The inductive invariant of the returns: each starts from the value at   *)
(* which the one before it ended, unless that was 0, and the next will     *)
(* start from midnight.                                                    *)
Chained == returns \in Seq(Pairs) /\ midnight \in Nat /\ Follows(returns, midnight)

LEMMA InitChained == LogInit => Chained
  BY BreakerAssumption DEF LogInit, Init, Chained, Follows

LEMMA SnapshotChained ==
  ASSUME Chained, TypeOK, Snapshot
  PROVE  Chained'
<1>1. CASE UNCHANGED <<midnight, returns>>
  BY <1>1 DEF Chained, Follows
<1>2. CASE returns' = Earned(nav) /\ midnight' = nav
  <2>1. nav \in Nat /\ midnight \in Nat
    BY BreakerAssumption DEF TypeOK, Chained
  <2>2. CASE midnight > 0
    <3>1. returns' = Append(returns, <<midnight, nav>>)
      BY <1>2, <2>2 DEF Earned
    <3>2. returns' \in Seq(Pairs) /\ Follows(Append(returns, <<midnight, nav>>), nav)
      BY <2>1, <3>1, FollowsOn DEF Chained
    <3> QED BY <1>2, <2>1, <3>1, <3>2 DEF Chained, Follows
  <2>3. CASE midnight = 0
    <3>1. returns' = returns
      BY <1>2, <2>3 DEF Earned
    <3>2. Follows(returns, nav)
      BY <2>1, <2>3, FollowsOn DEF Chained
    <3> QED BY <1>2, <2>1, <3>1, <3>2 DEF Chained, Follows
  <2> QED BY <2>1, <2>2, <2>3
<1> QED BY <1>1, <1>2 DEF Snapshot, Checkpoint

LEMMA RestartChained ==
  ASSUME FInv, Restart, Loads
  PROVE  Chained'
<1> DEFINE values == Values(file)
<1>1. returns' = ReturnsOf(values) /\ midnight' = IF file = <<>> THEN nav' ELSE file[Len(file)].nav
  BY DEF Loads, Load
<1>2. /\ values \in Seq(Nat) /\ Len(values) = Len(file)
      /\ file # <<>> => values[Len(file)] = file[Len(file)].nav /\ Len(file) \in 1..Len(file)
  BY ValuesType DEF FInv
<1>3. nav' \in Nat
  BY BreakerAssumption DEF Restart
<1> HIDE DEF values
<1>4. /\ ReturnsOf(values) \in Seq(Pairs)
      /\ values = <<>> => ReturnsOf(values) = <<>>
      /\ values # <<>> => Follows(ReturnsOf(values), values[Len(values)])
  BY <1>2, ReturnsFollowOn
<1>5. CASE file = <<>>
  <2>1. values = <<>>
    BY <1>2, <1>5
  <2> QED BY <1>1, <1>3, <1>4, <1>5, <2>1 DEF Chained, Follows
<1>6. CASE file # <<>>
  <2>1. values # <<>> /\ midnight' = values[Len(values)] /\ midnight' \in Nat
    BY <1>1, <1>2, <1>6
  <2> QED BY <1>1, <1>4, <2>1 DEF Chained, Follows
<1> QED BY <1>5, <1>6

LEMMA StepChained == Chained /\ FInv /\ TypeOK /\ [LogNext]_allVars => Chained'
<1> SUFFICES ASSUME Chained, FInv, TypeOK, [LogNext]_allVars PROVE Chained'
  OBVIOUS
<1>1. CASE UNCHANGED <<returns, midnight>>
  BY <1>1 DEF Chained, Follows
<1> QED BY <1>1, SnapshotChained, RestartChained DEF LogNext, allVars, logVars, memory

(* _load_daily_returns and _maybe_checkpoint_midnight: the returns follow  *)
(* on from one another, however often the log was read back and whichever  *)
(* writes failed before.                                                   *)
THEOREM ReturnsAreChained == LogSpec => []ReturnsChain
<1>1. IInv => TypeOK  BY DEF IInv
<1>2. Chained => ReturnsChain  BY DEF Chained, Follows, ReturnsChain
<1> QED BY <1>1, <1>2, InitChained, StepChained, FInvHolds, BreakersUndisturbed, IInvHolds,
           PTL DEF LogSpec

-----------------------------------------------------------------------------
(* Fractions are compared by cross products: a/b <= c/d and c/d <= e/f     *)
(* give a/b <= e/f, the middle one having a positive denominator.          *)
LEMMA Products ==
  ASSUME NEW x \in Int, NEW y \in Int, NEW k \in Nat, x <= y
  PROVE  x * k <= y * k
  OBVIOUS

LEMMA Cancels ==
  ASSUME NEW x \in Int, NEW y \in Int, NEW k \in Nat, k > 0, x * k <= y * k
  PROVE  x <= y
<1> SUFFICES ASSUME x >= y + 1 PROVE FALSE
  OBVIOUS
<1>1. (y + 1) * k <= x * k
  BY Products
<1>2. (y + 1) * k = y * k + k /\ y * k \in Int /\ x * k \in Int
  OBVIOUS
<1> QED BY <1>1, <1>2

\* the fall x from y is no deeper than the one of the pair d
NoDeeper(x, y, d) == x * d[2] <= d[1] * y

LEMMA Through ==
  ASSUME NEW a \in Int, NEW b \in Nat, NEW d \in Nat \X Nat, NEW e \in Nat \X Nat,
         d[2] > 0, NoDeeper(a, b, d), NoDeeper(d[1], d[2], e)
  PROVE  NoDeeper(a, b, e)
<1>1. PICK c \in Nat, k \in Nat : c = d[1] /\ k = d[2]
  OBVIOUS
<1>2. PICK f \in Nat, l \in Nat : f = e[1] /\ l = e[2]
  OBVIOUS
<1>3. k > 0 /\ a * k <= c * b /\ c * l <= f * k
  BY <1>1, <1>2 DEF NoDeeper
<1>4. (a * k) * l <= (c * b) * l
  BY <1>3, Products
<1>5. (c * l) * b <= (f * k) * b
  BY <1>3, Products
<1>6. (c * b) * l = (c * l) * b
  OBVIOUS
<1>7. (a * k) * l = (a * l) * k
  OBVIOUS
<1>8. (f * k) * b = (f * b) * k
  OBVIOUS
<1>9. (a * l) * k <= (f * b) * k
  <2>1. (c * b) * l \in Int /\ (a * k) * l \in Int /\ (f * k) * b \in Int
    OBVIOUS
  <2> QED BY <1>4, <1>5, <1>6, <1>7, <1>8, <2>1
<1>10. a * l \in Int /\ f * b \in Int
  OBVIOUS
<1>11. a * l <= f * b
  BY <1>3, <1>9, <1>10, Cancels
<1> QED BY <1>2, <1>11 DEF NoDeeper

\* a fall from a lower value is no deeper
LEMMA Higher ==
  ASSUME NEW v \in Nat, NEW p \in Nat, NEW h \in Nat, p <= h
  PROVE  (p - v) * h <= (h - v) * p
<1>1. p * v <= h * v
  BY Products
<1>2. (p - v) * h = p * h - h * v /\ (h - v) * p = p * h - p * v
  OBVIOUS
<1>3. p * h \in Int /\ h * v \in Int /\ p * v \in Int
  OBVIOUS
<1> QED BY <1>1, <1>2, <1>3

(* One value more of the one pass.                                         *)
Scanned(values, scan, i) ==
  IF i = 0 THEN [highest |-> values[1], dd |-> <<0, 1>>]
  ELSE LET highest == Highest(scan[i - 1].highest, values[i])
       IN [highest |-> highest,
           dd |-> IF highest > 0 THEN Deeper(scan[i - 1].dd, <<highest - values[i], highest>>)
                  ELSE scan[i - 1].dd]

LEMMA ScanDefined ==
  ASSUME NEW values \in Seq(Nat)
  PROVE  \E scan : /\ scan = [i \in 0..Len(values) |-> Scanned(values, scan, i)]
                   /\ MaxDrawdown(values) = IF Len(values) < 2 THEN <<0, 1>>
                                            ELSE scan[Len(values)].dd
<1> DEFINE S == {k \in Nat : \E f : f = [i \in 0..k |-> Scanned(values, f, i)]}
<1>1. 0 \in S
  <2> DEFINE first == [highest |-> values[1], dd |-> <<0, 1>>]
  <2>1. [i \in 0..0 |-> first] = [i \in 0..0 |-> Scanned(values, [j \in 0..0 |-> first], i)]
    BY DEF Scanned
  <2> QED BY <2>1
<1>2. ASSUME NEW k \in 0..(Len(values) - 1), k \in S PROVE k + 1 \in S
  <2>1. PICK f : f = [i \in 0..k |-> Scanned(values, f, i)]
    BY <1>2
  <2> DEFINE g == [i \in 0..(k + 1) |-> IF i <= k THEN f[i] ELSE Scanned(values, f, i)]
  <2>2. \A i \in 0..(k + 1) : g[i] = Scanned(values, g, i)
    <3> SUFFICES ASSUME NEW i \in 0..(k + 1) PROVE g[i] = Scanned(values, g, i)
      OBVIOUS
    <3>1. g[i] = Scanned(values, f, i)
      <4>1. CASE i <= k
        <5>1. i \in 0..k /\ g[i] = f[i]
          BY <4>1
        <5> HIDE DEF g
        <5> QED BY <2>1, <5>1
      <4>2. CASE ~(i <= k)
        BY <4>2
      <4> QED BY <4>1, <4>2
    <3>2. i >= 1 => g[i - 1] = f[i - 1]
      OBVIOUS
    <3> HIDE DEF g
    <3>3. CASE i = 0
      BY <3>1, <3>3 DEF Scanned
    <3>4. CASE i # 0
      <4>1. g[i - 1] = f[i - 1]
        BY <3>2, <3>4
      <4> QED BY <3>1, <3>4, <4>1 DEF Scanned
    <3> QED BY <3>3, <3>4
  <2>3. g = [i \in 0..(k + 1) |-> Scanned(values, g, i)]
    BY <2>2
  <2> HIDE DEF g
  <2> QED BY <2>3
<1>3. Len(values) \in S
  <2> HIDE DEF S
  <2>1. Len(values) \in Nat
    OBVIOUS
  <2> QED BY <1>1, <1>2, <2>1, Rising
<1> DEFINE scan == CHOOSE f : f = [i \in 0..Len(values) |-> Scanned(values, f, i)]
<1>4. scan = [i \in 0..Len(values) |-> Scanned(values, scan, i)]
  BY <1>3
<1>5. MaxDrawdown(values) = IF Len(values) < 2 THEN <<0, 1>> ELSE scan[Len(values)].dd
  BY DEF MaxDrawdown, Scanned
<1> HIDE DEF scan
<1> QED BY <1>4, <1>5

(* After i values the highest of them is known, no fall between two of     *)
(* them is deeper than dd, and dd is one of them unless it is zero.        *)
IsHighest(values, h, i) ==
  /\ h \in Nat /\ \A j \in 1..i : values[j] <= h
  /\ \E j \in 1..Len(values) : (j <= i \/ j = 1) /\ values[j] = h

IsDeepest(values, d, i) ==
  /\ d \in Nat \X Nat /\ d[2] > 0
  /\ \A p, q \in 1..i : p < q /\ values[p] > 0 => NoDeeper(values[p] - values[q], values[p], d)
  /\ d[1] > 0 => \E p, q \in 1..i : p < q /\ d = <<values[p] - values[q], values[p]>>

LEMMA DeepestStep ==
  ASSUME NEW values \in Seq(Nat), NEW i \in 0..(Len(values) - 1), NEW h, NEW d,
         IsHighest(values, h, i), IsDeepest(values, d, i),
         NEW v, v = values[i + 1], NEW g, g = Highest(h, v)
  PROVE  /\ IsHighest(values, g, i + 1)
         /\ g = 0 => IsDeepest(values, d, i + 1)
         /\ g > 0 => IsDeepest(values, Deeper(d, <<g - v, g>>), i + 1)
<1>1. /\ i \in Nat /\ i + 1 \in 1..Len(values) /\ Len(values) \in Nat
      /\ \A j \in 1..Len(values) : values[j] \in Nat
  OBVIOUS
<1>2. v \in Nat /\ h \in Nat
  BY <1>1 DEF IsHighest
<1>3. g \in Nat /\ h <= g /\ v <= g /\ (g = h \/ g = v)
  BY <1>2 DEF Highest
<1>4. IsHighest(values, g, i + 1)
  <2>1. \A j \in 1..(i + 1) : values[j] <= g
    <3> SUFFICES ASSUME NEW j \in 1..(i + 1) PROVE values[j] <= g
      OBVIOUS
    <3>1. CASE j = i + 1
      BY <1>3, <3>1
    <3>2. CASE j # i + 1
      <4>1. j \in 1..i /\ j \in 1..Len(values)
        BY <1>1, <3>2
      <4> QED BY <1>1, <1>2, <1>3, <4>1 DEF IsHighest
    <3> QED BY <3>1, <3>2
  <2>2. CASE g = h
    <3>1. PICK j \in 1..Len(values) : (j <= i \/ j = 1) /\ values[j] = h
      BY DEF IsHighest
    <3> QED BY <1>1, <1>3, <2>1, <2>2, <3>1 DEF IsHighest
  <2>3. CASE g = v
    BY <1>1, <1>3, <2>1, <2>3 DEF IsHighest
  <2> QED BY <1>3, <2>2, <2>3
<1>5. /\ d \in Nat \X Nat /\ d[2] > 0 /\ d[1] \in Nat /\ d[2] \in Nat
      /\ \A p, q \in 1..i : p < q /\ values[p] > 0 => NoDeeper(values[p] - values[q], values[p], d)
  BY DEF IsDeepest
<1>6. \A p \in 1..(i + 1) : values[p] \in Nat /\ values[p] <= g
  BY <1>1, <1>4 DEF IsHighest
<1>7. CASE g = 0
  <2>1. \A p \in 1..(i + 1) : ~(values[p] > 0)
    BY <1>6, <1>7
  <2>2. d[1] > 0 => \E p, q \in 1..(i + 1) : p < q /\ d = <<values[p] - values[q], values[p]>>
    <3> SUFFICES ASSUME d[1] > 0
                 PROVE  \E p, q \in 1..(i + 1) : p < q /\ d = <<values[p] - values[q], values[p]>>
      OBVIOUS
    <3>1. PICK p \in 1..i, q \in 1..i : p < q /\ d = <<values[p] - values[q], values[p]>>
      BY DEF IsDeepest
    <3> QED BY <1>1, <3>1
  <2>3. IsDeepest(values, d, i + 1)
    BY <1>5, <2>1, <2>2 DEF IsDeepest
  <2> QED BY <1>3, <1>4, <1>7, <2>3
<1>8. CASE g > 0
  <2> DEFINE e == <<g - v, g>>
             m == Deeper(d, e)
  <2>1. e = <<g - v, g>> /\ e \in Nat \X Nat /\ e[1] = g - v /\ e[2] = g /\ e[1] \in Nat /\ e[2] \in Nat
    BY <1>2, <1>3
  <2> HIDE DEF e
  <2>2. \/ m = e /\ NoDeeper(d[1], d[2], e) /\ e[1] > 0
        \/ m = d /\ NoDeeper(e[1], e[2], d)
    <3>1. e[1] * d[2] \in Nat /\ d[1] * e[2] \in Nat
      BY <1>5, <2>1
    <3>2. CASE e[1] * d[2] > d[1] * e[2]
      <4>1. e[1] # 0
        <5> SUFFICES ASSUME e[1] = 0 PROVE FALSE
          OBVIOUS
        <5>1. e[1] * d[2] = 0
          BY <1>5
        <5> QED BY <3>1, <3>2, <5>1
      <4> QED BY <2>1, <3>1, <3>2, <4>1 DEF Deeper, NoDeeper
    <3>3. CASE ~(e[1] * d[2] > d[1] * e[2])
      BY <3>1, <3>3 DEF Deeper, NoDeeper
    <3> QED BY <3>2, <3>3
  <2>3. m \in Nat \X Nat /\ m[2] > 0 /\ m[1] \in Nat /\ m[2] \in Nat
    BY <1>5, <1>8, <2>1, <2>2
  <2>4. ASSUME NEW a \in Int, NEW b \in Nat, NoDeeper(a, b, d) \/ NoDeeper(a, b, e)
        PROVE  NoDeeper(a, b, m)
    <3>1. CASE NoDeeper(a, b, d) /\ m = e /\ NoDeeper(d[1], d[2], e)
      BY <1>5, <2>1, <3>1, Through
    <3>2. CASE NoDeeper(a, b, e) /\ m = d /\ NoDeeper(e[1], e[2], d)
      BY <1>5, <1>8, <2>1, <3>2, Through
    <3> QED BY <2>2, <2>4, <3>1, <3>2
  <2> HIDE DEF m
  <2>5. ASSUME NEW p \in 1..(i + 1), NEW q \in 1..(i + 1), p < q, values[p] > 0
        PROVE  NoDeeper(values[p] - values[q], values[p], m)
    <3>1. values[p] \in Nat /\ values[q] \in Nat /\ values[p] - values[q] \in Int
      BY <1>6
    <3>2. CASE q = i + 1
      <4>1. (values[p] - v) * g <= (g - v) * values[p]
        BY <1>2, <1>3, <1>6, Higher
      <4>2. NoDeeper(values[p] - values[q], values[p], e)
        BY <2>1, <3>2, <4>1 DEF NoDeeper
      <4> QED BY <2>4, <3>1, <4>2
    <3>3. CASE q # i + 1
      <4>1. p \in 1..i /\ q \in 1..i
        BY <1>1, <2>5, <3>3
      <4>2. NoDeeper(values[p] - values[q], values[p], d)
        BY <1>5, <2>5, <4>1
      <4> QED BY <2>4, <3>1, <4>2
    <3> QED BY <3>2, <3>3
  <2>6. m[1] > 0 => \E p, q \in 1..(i + 1) : p < q /\ m = <<values[p] - values[q], values[p]>>
    <3> SUFFICES ASSUME m[1] > 0
                 PROVE  \E p, q \in 1..(i + 1) : p < q /\ m = <<values[p] - values[q], values[p]>>
      OBVIOUS
    <3>1. CASE m = d
      <4>1. PICK p \in 1..i, q \in 1..i : p < q /\ d = <<values[p] - values[q], values[p]>>
        BY <3>1 DEF IsDeepest
      <4> QED BY <1>1, <3>1, <4>1
    <3>2. CASE m = e /\ e[1] > 0
      <4>1. g # v /\ g = h
        BY <1>2, <1>3, <2>1, <3>2
      <4>2. PICK j \in 1..Len(values) : (j <= i \/ j = 1) /\ values[j] = h
        BY DEF IsHighest
      <4>3. j # i + 1
        BY <4>1, <4>2
      <4>4. j \in 1..(i + 1) /\ j < i + 1
        BY <1>1, <4>2, <4>3
      <4>5. m = <<values[j] - values[i + 1], values[j]>>
        BY <2>1, <3>2, <4>1, <4>2
      <4>6. i + 1 \in 1..(i + 1)
        BY <1>1
      <4> QED BY <4>4, <4>5, <4>6
    <3> QED BY <2>2, <3>1, <3>2
  <2>7. IsDeepest(values, m, i + 1)
    BY <2>3, <2>5, <2>6 DEF IsDeepest
  <2> QED BY <1>4, <1>8, <2>7 DEF e, m
<1> QED BY <1>3, <1>7, <1>8

LEMMA ScannedNext ==
  ASSUME NEW values, NEW scan, NEW i \in Nat
  PROVE  LET g == Highest(scan[i].highest, values[i + 1])
         IN Scanned(values, scan, i + 1) =
              [highest |-> g,
               dd |-> IF g > 0 THEN Deeper(scan[i].dd, <<g - values[i + 1], g>>) ELSE scan[i].dd]
<1> DEFINE k == i + 1
<1>1. k # 0 /\ k - 1 = i
  OBVIOUS
<1> HIDE DEF k
<1>2. scan[k - 1] = scan[i]
  BY <1>1
<1>3. LET g == Highest(scan[i].highest, values[k])
      IN Scanned(values, scan, k) =
           [highest |-> g,
            dd |-> IF g > 0 THEN Deeper(scan[i].dd, <<g - values[k], g>>) ELSE scan[i].dd]
  BY <1>1, <1>2, Zenon DEF Scanned
<1> QED BY <1>3 DEF k

LEMMA DrawdownFound ==
  ASSUME NEW values \in Seq(Nat)
  PROVE  IsDeepest(values, MaxDrawdown(values), Len(values))
<1>1. Len(values) \in Nat /\ \A i \in 1..Len(values) : values[i] \in Nat
  OBVIOUS
<1>2. PICK scan : /\ scan = [i \in 0..Len(values) |-> Scanned(values, scan, i)]
                  /\ MaxDrawdown(values) = IF Len(values) < 2 THEN <<0, 1>>
                                           ELSE scan[Len(values)].dd
  BY ScanDefined
<1>3. \A i \in 0..Len(values) : scan[i] = Scanned(values, scan, i)
  BY <1>2
<1>4. CASE Len(values) < 2
  <2>1. MaxDrawdown(values) = <<0, 1>>
    BY <1>2, <1>4
  <2>2. \A p, q \in 1..Len(values) : ~(p < q)
    BY <1>1, <1>4
  <2> QED BY <2>1, <2>2 DEF IsDeepest
<1>5. CASE Len(values) >= 2
  <2> DEFINE S == {i \in Nat : /\ IsHighest(values, scan[i].highest, i)
                               /\ IsDeepest(values, scan[i].dd, i)}
  <2>1. 0 \in S
    <3>1. 0 \in 0..Len(values) /\ 1 \in 1..Len(values)
      BY <1>1, <1>5
    <3>2. scan[0] = [highest |-> values[1], dd |-> <<0, 1>>]
      BY <1>3, <3>1 DEF Scanned
    <3>3. IsHighest(values, scan[0].highest, 0)
      BY <1>1, <3>1, <3>2 DEF IsHighest
    <3>4. IsDeepest(values, scan[0].dd, 0)
      BY <3>2 DEF IsDeepest
    <3> QED BY <3>3, <3>4
  <2>2. ASSUME NEW i \in 0..(Len(values) - 1), i \in S PROVE i + 1 \in S
    <3> DEFINE h == scan[i].highest
               d == scan[i].dd
               v == values[i + 1]
               g == Highest(h, v)
    <3>1. i + 1 \in 1..Len(values) /\ i + 1 \in 0..Len(values) /\ i + 1 # 0 /\ i + 1 - 1 = i
      BY <1>1
    <3>2. IsHighest(values, h, i) /\ IsDeepest(values, d, i)
      BY <2>2
    <3>3. scan[i + 1] = [highest |-> g, dd |-> IF g > 0 THEN Deeper(d, <<g - v, g>>) ELSE d]
      <4>1. scan[i + 1] = Scanned(values, scan, i + 1)
        BY <1>3, <3>1
      <4>2. i \in Nat
        OBVIOUS
      <4> HIDE DEF S
      <4> QED BY <4>1, <4>2, ScannedNext
    <3> HIDE DEF h, d, v, g
    <3>4. /\ IsHighest(values, g, i + 1)
          /\ g = 0 => IsDeepest(values, d, i + 1)
          /\ g > 0 => IsDeepest(values, Deeper(d, <<g - v, g>>), i + 1)
      BY <3>2, DeepestStep DEF v, g
    <3>5. g \in Nat
      BY <3>4 DEF IsHighest
    <3>6. scan[i + 1].highest = g /\ (g = 0 => scan[i + 1].dd = d)
          /\ (g > 0 => scan[i + 1].dd = Deeper(d, <<g - v, g>>))
      BY <3>3, <3>5
    <3>7. IsHighest(values, scan[i + 1].highest, i + 1)
      BY <3>4, <3>6
    <3>8. IsDeepest(values, scan[i + 1].dd, i + 1)
      BY <3>4, <3>5, <3>6
    <3> QED BY <3>1, <3>7, <3>8
  <2>3. Len(values) \in S
    <3> HIDE DEF S
    <3> QED BY <1>1, <2>1, <2>2, Rising
  <2> QED BY <1>2, <1>5, <2>3
<1> QED BY <1>1, <1>4, <1>5

LEMMA LargestIsFound == ASSUME navs \in Seq(Nat) PROVE DrawdownIsLargest
<1> DEFINE found == MaxDrawdown(navs)
           falls == {Fall(p[1], p[2]) : p \in {q \in (DOMAIN navs) \X (DOMAIN navs) : q[1] < q[2]}}
<1>1. IsDeepest(navs, found, Len(navs))
  BY DrawdownFound
<1>2. DOMAIN navs = 1..Len(navs)
  OBVIOUS
<1> HIDE DEF found
<1>3. ASSUME NEW f \in falls, f[2] > 0 PROVE f[1] * found[2] <= found[1] * f[2]
  <2>1. PICK p \in 1..Len(navs), q \in 1..Len(navs) : p < q /\ f = Fall(p, q)
    BY <1>2
  <2>2. f[1] = navs[p] - navs[q] /\ f[2] = navs[p]
    BY <2>1 DEF Fall
  <2>3. NoDeeper(navs[p] - navs[q], navs[p], found)
    BY <1>1, <1>3, <2>1, <2>2 DEF IsDeepest
  <2> QED BY <2>2, <2>3 DEF NoDeeper
<1>4. ASSUME found[1] > 0 PROVE found \in falls
  <2>1. PICK p \in 1..Len(navs), q \in 1..Len(navs) :
          p < q /\ found = <<navs[p] - navs[q], navs[p]>>
    BY <1>1, <1>4 DEF IsDeepest
  <2>2. <<p, q>> \in {r \in (DOMAIN navs) \X (DOMAIN navs) : r[1] < r[2]}
    BY <1>2, <2>1
  <2>3. found = Fall(<<p, q>>[1], <<p, q>>[2])
    BY <2>1 DEF Fall
  <2> QED BY <2>2, <2>3
<1> HIDE DEF falls
<1>5. /\ \A f \in falls : f[2] > 0 => f[1] * found[2] <= found[1] * f[2]
      /\ found[1] > 0 => found \in falls
  BY <1>3, <1>4
<1> QED BY <1>5 DEF DrawdownIsLargest, falls, found

(* compute_max_drawdown_pct: the one pass finds the largest fall between   *)
(* any two of the daily values, of a series of any length.                 *)
THEOREM DrawdownIsFound == LogSpec => []DrawdownIsLargest
<1>1. FInv => DrawdownIsLargest
  <2>1. FInv => navs \in Seq(Nat)  BY DEF FInv
  <2> QED BY <2>1, LargestIsFound
<1> QED BY <1>1, FInvHolds, PTL
=============================================================================
