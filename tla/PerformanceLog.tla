---------------------------- MODULE PerformanceLog ----------------------------
(***************************************************************************)
(* The performance log (src/adaptation/performance_log.py) beside the      *)
(* circuit breakers.  The monitoring job writes a snapshot of the book's   *)
(* NAV every hour; the first snapshot of a UTC day also writes a           *)
(* checkpoint, one line of daily_returns.jsonl, from which the log's       *)
(* series of daily values, its returns and its peak are rebuilt when the   *)
(* process starts again.  The breakers are given the same NAV and rebuild  *)
(* nothing.                                                                *)
(*                                                                         *)
(* A return is the pair of the two values it relates; the file is the      *)
(* sequence of the lines that can be read back.  A write may fail, and may *)
(* then leave half a line behind, which the next line written joins.       *)
(***************************************************************************)
EXTENDS CircuitBreakers, Sequences, FiniteSets

CONSTANT MaxFaults     \* bound on the writes that fail

ASSUME LogAssumption == MaxFaults \in Nat

VARIABLES
  top,                 \* nav_peak
  midnight, date,      \* _nav_at_midnight, _midnight_date (Never: none)
  navs, returns,       \* _daily_navs, _daily_returns
  file,                \* the readable lines of daily_returns.jsonl: [date, nav]
  torn,                \* the file ends in half a line
  faults               \* writes that failed

memory  == <<top, midnight, date, navs, returns>>
disk    == <<file, torn, faults>>
logVars == <<memory, disk>>
allVars == <<vars, logVars>>

-----------------------------------------------------------------------------
today == now \div DayLength

Highest(n, m) == IF n >= m THEN n ELSE m

\* the values of the lines read
Values(lines) == [i \in DOMAIN lines |-> lines[i].nav]

PeakOf(start, values) ==
  LET peaks[i \in 0..Len(values)] ==
        IF i = 0 THEN start ELSE Highest(peaks[i - 1], values[i])
  IN peaks[Len(values)]

\* the returns between consecutive values, none from a value of 0
ReturnsOf(values) ==
  LET rs[i \in 0..Len(values)] ==
        IF i < 2 THEN <<>>
        ELSE IF values[i - 1] > 0 THEN Append(rs[i - 1], <<values[i - 1], values[i]>>)
        ELSE rs[i - 1]
  IN rs[Len(values)]

\* mutant: the value of the last line is not taken for the baseline
LoadStarts(start, lines) ==
  [navs |-> Values(lines), returns |-> ReturnsOf(Values(lines)),
   top |-> PeakOf(start, Values(lines)), midnight |-> start,
   date |-> IF lines = <<>> THEN Never ELSE lines[Len(lines)].date]

\* __init__ and _load_daily_returns: what the lines of the file make of a
\* log that starts at the NAV start
Load(start, lines) ==
  LET values == Values(lines)
  IN [navs |-> values, returns |-> ReturnsOf(values), top |-> PeakOf(start, values),
      midnight |-> IF lines = <<>> THEN start ELSE lines[Len(lines)].nav,
      date |-> IF lines = <<>> THEN Never ELSE lines[Len(lines)].date]

\* main makes the logger with the NAV it found; what is in memory is gone
Loads == LET m == Load(nav', file)
         IN /\ top' = m.top /\ midnight' = m.midnight /\ date' = m.date
            /\ navs' = m.navs /\ returns' = m.returns

\* mutant: a line that could not be written is written again
WritesTwice(line) ==
  \/ /\ file' = (IF torn THEN Append(file, line) ELSE file \o <<line, line>>)
     /\ torn' = FALSE /\ faults' = faults
  \/ /\ faults < MaxFaults /\ faults' = faults + 1
     /\ file' = file /\ torn' \in {torn, TRUE}

\* mutant: no newline after the line
WritesUnended(line) ==
  \/ /\ file' = (IF torn THEN file ELSE Append(file, line))
     /\ torn' = TRUE /\ faults' = faults
  \/ /\ faults < MaxFaults /\ faults' = faults + 1
     /\ file' = file /\ torn' \in {torn, TRUE}

\* the append to daily_returns.jsonl: joined to half a line it is lost; it
\* may fail (OSError, logged)
Writes(line) ==
  \/ /\ file' = (IF torn THEN file ELSE Append(file, line))
     /\ torn' = FALSE /\ faults' = faults
  \/ /\ faults < MaxFaults /\ faults' = faults + 1
     /\ file' = file /\ torn' \in {torn, TRUE}

Earned(n) == IF midnight > 0 THEN Append(returns, <<midnight, n>>) ELSE returns

\* _maybe_checkpoint_midnight
Checkpoint(n) ==
  CASE date = today -> UNCHANGED <<midnight, date, navs, returns, disk>>
    [] date = Never -> date' = today /\ UNCHANGED <<midnight, navs, returns, disk>>
    [] OTHER -> /\ returns' = Earned(n) /\ navs' = Append(navs, n)
                /\ Writes([date |-> today, nav |-> n])
                /\ midnight' = n /\ date' = today

\* snapshot: the checkpoint before the peak
Snapshot == Checkpoint(nav) /\ top' = Highest(top, nav) /\ UNCHANGED vars

\* compute_max_drawdown_pct: the deepest fall from the highest value so far,
\* as <<fall, peak>>
Deeper(d, e) == IF e[1] * d[2] > d[1] * e[2] THEN e ELSE d

\* mutant: the fall from the peak to the last value
FinalDrawdown(values) ==
  LET highest == PeakOf(0, values)
  IN IF highest > 0 THEN <<highest - values[Len(values)], highest>> ELSE <<0, 1>>

MaxDrawdown(values) ==
  LET scan[i \in 0..Len(values)] ==
        IF i = 0 THEN [highest |-> values[1], dd |-> <<0, 1>>]
        ELSE LET highest == Highest(scan[i - 1].highest, values[i])
             IN [highest |-> highest,
                 dd   |-> IF highest > 0 THEN Deeper(scan[i - 1].dd, <<highest - values[i], highest>>)
                          ELSE scan[i - 1].dd]
  IN IF Len(values) < 2 THEN <<0, 1>> ELSE scan[Len(values)].dd

-----------------------------------------------------------------------------
LogInit ==
  /\ Init
  /\ top = nav /\ midnight = nav /\ date = Never
  /\ navs = <<>> /\ returns = <<>> /\ file = <<>> /\ torn = FALSE /\ faults = 0

LogNext ==
  \/ Checks /\ UNCHANGED logVars
  \/ Snapshot
  \/ Restart /\ Loads /\ UNCHANGED disk

LogSpec == LogInit /\ [][LogNext]_allVars

-----------------------------------------------------------------------------
(* Whatever writes failed and whenever the process was restarted, no day   *)
(* has two lines, and the lines are in the order of their days.            *)
OncePerDay == \A i, j \in DOMAIN file : i < j => file[i].date < file[j].date

(* A failed write costs the file its own day and at most the next one: the *)
(* series a restart would rebuild is shorter than the one in memory by no  *)
(* more.                                                                   *)
LossBounded == Len(navs) + (IF torn THEN 1 ELSE 0) <= Len(file) + 2 * faults

(* The returns follow on from one another, over a restart as well: each    *)
(* starts from the value at which the one before it ended (or after a      *)
(* value of 0, from which there is no return), and the last one ends at    *)
(* the value the next will start from.                                     *)
ReturnsChain ==
  /\ \A i \in 1..(Len(returns) - 1) : returns[i][2] \in {returns[i + 1][1], 0}
  /\ returns # <<>> => returns[Len(returns)][2] \in {midnight, 0}

Fall(i, j) == <<navs[i] - navs[j], navs[i]>>

(* The drawdown compute_max_drawdown_pct finds in one pass over the daily  *)
(* values is the largest fall between any two of them.                     *)
DrawdownIsLargest ==
  LET falls == {Fall(p[1], p[2]) : p \in {q \in (DOMAIN navs) \X (DOMAIN navs) : q[1] < q[2]}}
      found == MaxDrawdown(navs)
  IN /\ \A f \in falls : f[2] > 0 => f[1] * found[2] <= found[1] * f[2]
     /\ found[1] > 0 => found \in falls
=============================================================================
