---------------------------- MODULE CircuitBreakers ----------------------------
(***************************************************************************)
(* The portfolio-level circuit breakers: CircuitBreakerManager             *)
(* (src/risk/circuit_breakers.py).  One action, check, runs at every bar   *)
(* with whatever net asset value the position book shows; its parts below  *)
(* are the methods it calls, in the order it calls them, each reading what *)
(* the ones before it assigned (primed).                                   *)
(*                                                                         *)
(* Fractions are percentages; a comparison of a ratio with a limit is      *)
(* multiplied out.                                                         *)
(***************************************************************************)
EXTENDS Integers

CONSTANTS
  Navs,                \* net asset values the book may show
  DdSoft, DdHard,      \* drawdown_soft_warning, drawdown_hard_halt
  DailySoft, DailyHard, \* daily_loss_soft_warning, daily_loss_hard_reduce
  FullPct,             \* full_sizing_within_pct_of_peak
  ResumePct,           \* resume_sizing_fraction
  Cooldown,            \* halt_cooldown_hr, in time units
  DayLength,           \* time units in a UTC day
  Steps,               \* time units that may pass between two checks
  MaxTime              \* bound on the clock

Never == -1            \* None: no halt, no day yet
FullSize == 100

ASSUME BreakerAssumption ==
  /\ Navs \subseteq Nat
  /\ DdSoft \in Nat /\ DdHard \in Nat \ {0} /\ FullPct \in Nat /\ FullPct < DdHard
  /\ DailySoft \in Nat /\ DailyHard \in Nat
  /\ ResumePct \in 1..(FullSize - 1)
  /\ Cooldown \in Nat /\ DayLength \in Nat \ {0}
  /\ Steps \subseteq Nat /\ MaxTime \in Nat

VARIABLES
  now,          \* the clock
  nav,          \* the value last checked
  peak, halted, haltedAt, fraction,  \* DrawdownState
  dayStart, day, reduce,             \* DailyPnlState
  ddWarned, dailyWarned,             \* warnings logged
  events        \* what the last check returned

drawdown == <<peak, halted, haltedAt, fraction, ddWarned>>
dailyPnl == <<dayStart, day, reduce, dailyWarned>>
vars == <<now, nav, drawdown, dailyPnl, events>>

Kinds == {"halt", "drawdown_warning", "daily_reduce", "daily_warning"}

(* The variables hold values of their types.                               *)
TypeOK ==
  /\ now \in 0..MaxTime /\ nav \in Nat
  /\ peak \in Nat /\ halted \in BOOLEAN
  /\ haltedAt \in 0..MaxTime \cup {Never} /\ fraction \in {0, ResumePct, FullSize}
  /\ dayStart \in Nat /\ day \in Nat \cup {Never} /\ reduce \in BOOLEAN
  /\ ddWarned \in BOOLEAN /\ dailyWarned \in BOOLEAN
  /\ events \subseteq Kinds

-----------------------------------------------------------------------------
(* n is at least pct percent below the reference value.                    *)
Below(n, reference, pct) ==
  reference > 0 /\ 100 * (reference - n) >= pct * reference

FarBelow(n, reference) == 100 * (reference - n) > FullPct * reference

\* _maybe_reset_daily
ResetDaily(n) ==
  /\ day' = now' \div DayLength
  /\ dayStart' = IF day' # day THEN n ELSE dayStart

\* _check_halt_recovery is reached at a new peak, or while still in a deep
\* drawdown
Reviewed(n) == halted /\ (n > peak \/ Below(n, peak', DdHard))

\* mutant: no cooldown
CoolingNever == FALSE

Cooling == now' - haltedAt < Cooldown

Unchanged == [active |-> halted, at |-> haltedAt, fraction |-> fraction]

\* what _check_halt_recovery leaves behind
Recovery(n) ==
  CASE Cooling -> Unchanged
    [] ~Cooling /\ ~FarBelow(n, peak') ->
         [active |-> FALSE, at |-> Never, fraction |-> FullSize]
    [] ~Cooling /\ FarBelow(n, peak') /\ ~Below(n, peak', DdHard) /\ fraction = 0 ->
         [Unchanged EXCEPT !.active = FALSE, !.fraction = ResumePct]
    [] OTHER -> Unchanged

\* mutant: the soft limit is looked at first
HaltsOnceWarned(n) == ~halted /\ Below(n, peak', DdHard) /\ ddWarned

Halts(n) == ~halted /\ Below(n, peak', DdHard)
Warns(n) == ~Below(n, peak', DdHard) /\ Below(n, peak', DdSoft) /\ ~ddWarned

\* the peak update of check, then _check_drawdown
CheckDrawdown(n) ==
  /\ peak' = IF n > peak THEN n ELSE peak
  /\ LET after == IF Halts(n)    THEN [active |-> TRUE, at |-> now', fraction |-> 0]
                  ELSE IF Reviewed(n) THEN Recovery(n) ELSE Unchanged
     IN halted' = after.active /\ haltedAt' = after.at /\ fraction' = after.fraction
  /\ ddWarned' = IF halted /\ fraction' = FullSize THEN FALSE ELSE ddWarned \/ Warns(n)

Reduces(n) == ~(reduce /\ day' = day) /\ Below(n, dayStart', DailyHard) /\ n < dayStart'
Cautions(n) == /\ ~(dailyWarned /\ day' = day)
               /\ ~Below(n, dayStart', DailyHard) /\ Below(n, dayStart', DailySoft)
               /\ n < dayStart'

\* _check_daily_pnl: only losses count
CheckDailyPnl(n) ==
  /\ reduce' = ((reduce /\ day' = day) \/ Reduces(n))
  /\ dailyWarned' = ((dailyWarned /\ day' = day) \/ Cautions(n))

Returned(n) ==
  {k \in Kinds : \/ k = "halt" /\ Halts(n)
                 \/ k = "drawdown_warning" /\ Warns(n)
                 \/ k = "daily_reduce" /\ Reduces(n)
                 \/ k = "daily_warning" /\ Cautions(n)}

Check(n, elapsed) ==
  /\ now + elapsed <= MaxTime
  /\ now' = now + elapsed
  /\ nav' = n
  /\ ResetDaily(n)
  /\ CheckDrawdown(n)
  /\ CheckDailyPnl(n)
  /\ events' = Returned(n)

-----------------------------------------------------------------------------
\* create_circuit_breaker_manager calls initialize_nav if there is a NAV
Init ==
  /\ now = 0 /\ nav \in Navs
  /\ peak = nav /\ halted = FALSE /\ haltedAt = Never /\ fraction = FullSize
  /\ dayStart = nav /\ day = (IF nav > 0 THEN 0 ELSE Never) /\ reduce = FALSE
  /\ ddWarned = FALSE /\ dailyWarned = FALSE /\ events = {}

\* the process is started again (run.sh) and takes the NAV it finds for its
\* baseline: the peak, the halt and the start of the day are forgotten
Restart ==
  /\ now' = now /\ nav' \in Navs
  /\ peak' = nav' /\ halted' = FALSE /\ haltedAt' = Never /\ fraction' = FullSize
  /\ dayStart' = nav' /\ day' = (IF nav' > 0 THEN now \div DayLength ELSE Never)
  /\ reduce' = FALSE /\ ddWarned' = FALSE /\ dailyWarned' = FALSE /\ events' = {}

Checks == \E n \in Navs, elapsed \in Steps : Check(n, elapsed)

Next == Checks \/ Restart

Spec == Init /\ [][Next]_vars

-----------------------------------------------------------------------------
(* A check never leaves the portfolio below the hard drawdown limit with   *)
(* trading not halted, however fast it fell and whatever was halted,       *)
(* warned of or lifted before.                                             *)
DeepHalted == Below(nav, peak, DdHard) => halted

(* The sizing fraction is zero exactly during a halt and full otherwise:   *)
(* _check_halt_recovery is only reached where its middle branch cannot be  *)
(* taken, so the reduced sizing of the documentation never applies.        *)
SizingTracksHalt == fraction = IF halted THEN 0 ELSE FullSize

(* Once halted, only a new all-time high after the cooldown lifts the halt *)
(* (a portfolio that regains 99% of its peak stays halted), or a restart.  *)
HaltUntilPeak ==
  [][halted /\ ~halted' => \/ nav' > peak /\ now' >= haltedAt + Cooldown
                          \/ Restart]_vars
=============================================================================
