------------------------------ MODULE DecisionLog ------------------------------
(***************************************************************************)
(* DecisionLogger (src/execution/decision_logger.py): entries are buffered *)
(* by the event loop and written to a file by whoever flushes, which may   *)
(* be the loop itself (the buffer is full; close) or a thread of the       *)
(* executor (the hourly job; the shutdown).  An order's entry is logged    *)
(* when it is submitted and changed in place when its fill is booked       *)
(* (OrderManager._on_fill), so a line shows the fill only if it is written *)
(* after it.  reconstruct_positions (src/orchestration/recovery.py) reads  *)
(* the lines back.                                                         *)
(*                                                                         *)
(* CPython switches threads between calls only, so that taking the buffer  *)
(* and putting a batch back in front of it are single steps; the lines of  *)
(* a batch are steps of their own.  The order of the lines is left out.    *)
(***************************************************************************)
EXTENDS Integers, FiniteSets

CONSTANTS
  Entry,        \* decisions to come
  Trade,        \* those that are orders: the others are suppressions
  Threshold,    \* flush_threshold
  MaxBreaks     \* bound on the interrupted writes and the crashes

Hourly == "hourly"        \* the thread that runs the monitoring tick's flush
Shutdown == "shutdown"    \* the thread that runs the shutdown's
Loop == "loop"            \* the event loop, in log and in close
Flusher == {Hourly, Shutdown, Loop}

ASSUME LogAssumption ==
  Trade \subseteq Entry /\ Threshold \in Nat \ {0} /\ MaxBreaks \in Nat

VARIABLES
  status,     \* of the process
  buffer,     \* DecisionLogger.buffer
  batch,      \* entries each flusher has taken ({}: it is not flushing)
  left,       \* those of its batch it has still to write
  session,    \* entries this process has logged
  filled,     \* entries whose fill was booked
  logged,     \* entries logged, by this process or an earlier one
  lines,      \* readable lines of each entry in the file
  shown,      \* those among them that show a fill
  torn,       \* the file ends in the middle of a line
  breaks      \* interrupted writes and crashes so far

memory == <<buffer, batch, left>>
book == <<session, filled, logged>>
file == <<lines, shown, torn>>
vars == <<status, memory, book, file, breaks>>

Flushing(t) == batch[t] # {}
Idle == [t \in Flusher |-> {}]
InMemory == buffer \cup batch[Hourly] \cup batch[Shutdown] \cup batch[Loop]
OnDisk == {e \in Entry : lines[e] > 0}

(* The variables hold values of their types.                               *)
TypeOK ==
  /\ status \in {"up", "stopping", "draining", "closing", "closed"}
  /\ buffer \subseteq Entry
  /\ batch \in [Flusher -> SUBSET Entry] /\ left \in [Flusher -> SUBSET Entry]
  /\ \A t \in Flusher : left[t] \subseteq batch[t]
  /\ session \subseteq logged /\ filled \subseteq logged \cap Trade /\ logged \subseteq Entry
  /\ lines \in [Entry -> Nat] /\ shown \in [Entry -> Nat]
  /\ torn \in BOOLEAN /\ breaks \in Nat

-----------------------------------------------------------------------------
\* mutant: the buffer is copied and not replaced
TakeCopies(t, entries) ==
  /\ batch' = [batch EXCEPT ![t] = entries]
  /\ left'  = [left EXCEPT ![t] = entries]
  /\ buffer' = entries

\* _sync_flush takes the buffer; an empty one is left alone
Take(t, entries) ==
  /\ batch' = [batch EXCEPT ![t] = entries]
  /\ left'  = [left EXCEPT ![t] = entries]
  /\ buffer' = {}

\* log: the flush of a full buffer keeps the loop until it returns
Log(e) ==
  /\ status = "up" /\ ~Flushing(Loop) /\ e \notin logged
  /\ logged' = logged \cup {e} /\ session' = session \cup {e}
  /\ IF Cardinality(buffer \cup {e}) >= Threshold
     THEN Take(Loop, buffer \cup {e})
     ELSE buffer' = buffer \cup {e} /\ UNCHANGED <<batch, left>>
  /\ UNCHANGED <<status, filled, file, breaks>>

\* _on_fill changes the entry wherever it is by then
OnFill(e) ==
  /\ status = "up" /\ ~Flushing(Loop) /\ e \in session \cap Trade
  /\ filled' = filled \cup {e}
  /\ UNCHANGED <<status, memory, session, logged, file, breaks>>

\* mutant: the hourly flush waits for a full buffer
DueWhenFull == Cardinality(buffer) >= Threshold

Due == buffer # {}

\* flush of the monitoring tick
FlushHourly ==
  /\ status = "up" /\ ~Flushing(Hourly) /\ Due
  /\ Take(Hourly, buffer)
  /\ UNCHANGED <<status, book, file, breaks>>

\* a line glued to the remains of another cannot be parsed
WriteLine(t, e) ==
  /\ e \in left[t]
  /\ left' = [left EXCEPT ![t] = @ \ {e}]
  /\ torn' = FALSE
  /\ lines' = IF torn THEN lines ELSE [lines EXCEPT ![e] = @ + 1]
  /\ shown' = IF torn \/ e \notin filled THEN shown ELSE [shown EXCEPT ![e] = @ + 1]
  /\ UNCHANGED <<status, buffer, batch, book, breaks>>

\* mutant: a line short
WroteAllButOne(t) == Cardinality(left[t]) <= 1

WroteAll(t) == left[t] = {}

Written(t) ==
  /\ Flushing(t) /\ WroteAll(t)
  /\ batch' = [batch EXCEPT ![t] = {}]
  /\ UNCHANGED <<status, buffer, left, book, file, breaks>>

\* mutant: the entries logged meanwhile are overwritten
ReaddedOnly(t) == batch[t]

Readded(t) == buffer \cup batch[t]

\* OSError: some lines of the batch may be in the file, one perhaps in part
WriteFails(t) ==
  /\ Flushing(t) /\ breaks < MaxBreaks
  /\ breaks' = breaks + 1
  /\ buffer' = Readded(t)
  /\ batch' = [batch EXCEPT ![t] = {}] /\ left' = [left EXCEPT ![t] = {}]
  /\ torn' \in {torn, TRUE}
  /\ UNCHANGED <<status, book, lines, shown>>

-----------------------------------------------------------------------------
\* stop_all: the tasks are cancelled; a flush in its thread goes on
StopAll ==
  /\ status = "up" /\ ~Flushing(Loop)
  /\ status' = "stopping"
  /\ UNCHANGED <<memory, book, file, breaks>>

\* the shutdown awaits a flush of its own
FlushAtShutdown ==
  /\ status = "stopping"
  /\ status' = "draining"
  /\ IF buffer # {} THEN Take(Shutdown, buffer) ELSE UNCHANGED memory
  /\ UNCHANGED <<book, file, breaks>>

\* close flushes what a failed write has put back
Close ==
  /\ status = "draining" /\ ~Flushing(Shutdown)
  /\ status' = "closing"
  /\ IF buffer # {} THEN Take(Loop, buffer) ELSE UNCHANGED memory
  /\ UNCHANGED <<book, file, breaks>>

\* asyncio.run joins the threads of the executor
Exit ==
  /\ status = "closing" /\ \A t \in Flusher : ~Flushing(t)
  /\ status' = "closed"
  /\ UNCHANGED <<memory, book, file, breaks>>

\* the process is killed, and the loop of run.sh starts it again
Crash ==
  /\ status # "closed" /\ breaks < MaxBreaks
  /\ status' = "up" /\ breaks' = breaks + 1
  /\ buffer' = {} /\ batch' = Idle /\ left' = Idle /\ session' = {}
  /\ torn' \in {torn, torn \/ \E t \in Flusher : Flushing(t)}
  /\ UNCHANGED <<filled, logged, lines, shown>>

-----------------------------------------------------------------------------
Init ==
  /\ status = "up" /\ buffer = {} /\ batch = Idle /\ left = Idle
  /\ session = {} /\ filled = {} /\ logged = {}
  /\ lines = [e \in Entry |-> 0] /\ shown = [e \in Entry |-> 0]
  /\ torn = FALSE /\ breaks = 0

Write(t) == (\E e \in Entry : WriteLine(t, e)) \/ Written(t)

Next ==
  \/ \E e \in Entry : Log(e) \/ OnFill(e)
  \/ FlushHourly
  \/ \E t \in Flusher : Write(t) \/ WriteFails(t)
  \/ StopAll \/ FlushAtShutdown \/ Close \/ Exit \/ Crash

Spec == Init /\ [][Next]_vars

\* the monitoring job ticks for ever, and a thread that writes is scheduled
FairSpec == Spec /\ WF_vars(FlushHourly) /\ \A t \in Flusher : WF_vars(Write(t))

-----------------------------------------------------------------------------
\* how often reconstruct_positions books the fill of an order
Replayed(e) == shown[e]

(* "Re-add entries on write failure - don't lose data": of the entries the *)
(* process has logged, at most one is gone, from memory and from the file, *)
(* for each write that was interrupted (the one glued to a torn line).     *)
SpoiledBounded == Cardinality(session \ (InMemory \cup OnDisk)) <= breaks

(* An order is booked by a recovery only if it was filled, and then once,  *)
(* plus once for each interrupted write that had already written it.       *)
ReplayBounded ==
  \A e \in Entry : Replayed(e) <= IF e \in filled THEN 1 + breaks ELSE 0

(* After a shutdown, and if no write failed, every decision of the log is  *)
(* in the file, on one line, although three flushers share the buffer.     *)
CleanStopComplete ==
  status = "closed" /\ breaks = 0 => \A e \in logged : lines[e] = 1

(* The log implements AppendLog: an entry waits, then is durable, and only *)
(* a crash or an interrupted write can make it disappear before it is.     *)
Promise == INSTANCE AppendLog WITH
  pending <- InMemory \ OnDisk, durable <- OnDisk, broken <- breaks > 0

KeepsPromise == Promise!Spec

(* No entry waits in memory for ever while the bot is up.                  *)
WrittenEventually ==
  \A e \in Entry : (e \in InMemory /\ status = "up") ~> (e \notin InMemory \/ status # "up")
=============================================================================
