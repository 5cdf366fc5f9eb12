------------------------- MODULE ExecutionProperties -------------------------
(***************************************************************************)
(* What the execution engine promises, and what its documentation says of  *)
(* it that the code does not keep.  The runs of MCExecution say which      *)
(* property is checked under which jobs, exchange and failures.            *)
(***************************************************************************)
EXTENDS Execution

Critical(u) == order[u].priority = CRITICAL_EXIT
Submitting  == {t \in Drainers : pc[t] \in {"cancelpair", "submit", "place"}}
LesserActive     == {x \in active : ~Critical(xord[x].uid)}
LesserSubmitting == {t \in Submitting : ~Critical(frame[t].uid)}
Suspended   == \A t \in Task : pc[t] = "idle"     \* no job is in a call
Limits(u)   == {x \in Xid : xord[x].status # "none" /\ xord[x].uid = u}

-----------------------------------------------------------------------------
(* What is asked of the exchange by the properties that need it.  A poll   *)
(* that raises, or that another job's drain disturbs, ends with an         *)
(* exception and forgets which orders it had dealt with.                   *)

\* one job drains the queue, and its polls are answered
PollsAnswered ==
  /\ Drainers \subseteq {"pipeline"}
  /\ "query" \notin Refusable \cup Losable /\ "cancel" \notin Losable

\* no cancel of a timed out order is refused
CancelsAccepted == "cancel" \notin Refusable

\* and the answers that tell which orders are open all arrive
NothingLost == /\ PollsAnswered /\ CancelsAccepted
               /\ "place" \notin Losable
               /\ "cancelpair" \notin Refusable \cup Losable

-----------------------------------------------------------------------------
(* Safety.                                                                 *)

(* The cap on simultaneous orders is tested before an await and the order  *)
(* is tracked after it, so each concurrent caller of process_queue can     *)
(* overshoot it by one and no more: the non-critical orders tracked or     *)
(* being submitted never exceed the cap plus the other callers.            *)
ActiveBound ==
  Cardinality(LesserActive) + Cardinality(LesserSubmitting)
    <= MaxActive + Cardinality(Drainers) - 1

(* process_queue never returns while a CRITICAL exit waits in the queue:   *)
(* the cap, the order being deferred and the other job cannot hold it back.*)
CriticalDrained ==
  [][\A t \in Task :
       (pc[t] = "drain" /\ pc'[t] \in {"scan", "idle"})
         => \A u \in Queued : ~Critical(u)]_vars

(* A market order is sent only for a CRITICAL exit one of whose limit      *)
(* orders timed out, and never while that limit order is still open at the *)
(* exchange: the two would sell the position twice.                        *)
MarketReplacesLimit ==
  [][\A t \in Task :
       (pc[t] # "market" /\ pc'[t] = "market")
         => /\ Critical(frame'[t].uid)
            /\ xord[frame[t].xid].uid = frame'[t].uid
            /\ xord[frame[t].xid].age = 2
            /\ xord[frame[t].xid].status # "open"]_vars

(* Between two ticks every open order of the exchange is one the order     *)
(* manager tracks, so that it will be polled, timed out or cancelled.      *)
NoOrphans == Suspended => Open \subseteq active

(* A decision has at most one order open at the exchange: a resubmission   *)
(* is placed only after its predecessor is gone.                           *)
OneOpenPerDecision ==
  \A x, y \in Open : xord[x].uid = xord[y].uid => x = y

(* A decision is placed as a limit order at most max_resubmissions times.  *)
PlacementsBounded ==
  [][\A t \in Task :
       (pc[t] = "submit" /\ pc'[t] = "place")
         => Cardinality(Limits(frame[t].uid)) < MaxResub]_vars

(* Between ticks no order that has left the order manager is forgotten or  *)
(* remembered twice: a queued order has no order being tracked, and is in  *)
(* the queue once.                                                         *)
QueuedOnce ==
  Suspended => \A u \in Uid : /\ queue[u] <= 1
                              /\ queue[u] = 1 => \A x \in active : xord[x].uid # u

(* No fill is booked twice ("Maintains accurate positions ... Updated on   *)
(* every fill confirmation"): the book shows no more than was held at the  *)
(* start and bought since, and no less than what was not sold.             *)
Traded(a, side) ==
  SumFunctionOnSet([x \in Xid |-> xord[x].done],
                   {x \in Xid : xord[x].status # "none" /\ AssetOf(x) = a
                                   /\ SideOf(x) = side})
FillsBookedOnce ==
  \A a \in Asset : pos[a] \in (InitPos - Traded(a, "SELL"))..(InitPos + Traded(a, "BUY"))

-----------------------------------------------------------------------------
(* Liveness.  Each job steps when it can and ticks again when it is idle   *)
(* (the loop's ready queue is first in, first out, and the scheduler loops *)
(* for ever), the exchange answers every call (aiohttp gives up after 10   *)
(* s), and a tracked order that is visited for ever is some time seen      *)
(* older than order_timeout_sec.                                           *)

Step(t) == Risk(t) \/ Drain(t) \/ Check(t) \/ Rebalance(t) \/ Monitor(t)
Fairness ==
  /\ \A t \in Task : SF_vars(Step(t)) /\ SF_vars(Serve(t))
  /\ \A x \in Xid : SF_vars(\E t \in Task : Visit(t, x, 2))

FairSpec == Spec /\ Fairness

Resolved(u) ==
  /\ queue[u] = 0 /\ \A x \in active : xord[x].uid # u
  /\ \A t \in Submitting : frame[t].uid # u

(* Every decision is eventually resolved for good: filled, suppressed,     *)
(* abandoned or escalated, and no longer queued, tracked or submitted.     *)
EventuallyResolved == \A u \in Uid : <>[]Resolved(u)

(* An order of the exchange that the bot lost track of does not stay open: *)
(* the sweep before a rebalance cancels it unless it fills.                *)
OrphansSwept == \A x \in Xid : (x \in Open \ active) ~> (x \notin Open \ active)

(* The hourly balance sync repairs whatever drift the book has.            *)
BookRepaired == []<>(pos = xpos /\ cash = xcash)

-----------------------------------------------------------------------------
(* What the documentation says and the code does not do.                   *)

(* "CRITICAL risk exits must NEVER be delayed by pending lower-priority    *)
(* orders": a live CRITICAL exit is not cancelled for a lesser order.      *)
CriticalNotDisplaced ==
  [][\A t \in Task, x \in Xid :
       (pc[t] = "cancelpair" /\ x \in Open /\ Critical(xord[x].uid) /\ x \notin Open'
          /\ reply[t].status = "none" /\ reply'[t].status # "none")
         => Critical(frame[t].uid)]_vars

(* "Max resubmit attempts before abandoning": a decision is placed once,   *)
(* and then resubmitted as a limit order at most max_resubmissions times.  *)
ResubmissionsBounded ==
  [][\A t \in Task :
       (pc[t] = "submit" /\ pc'[t] = "place")
         => Cardinality(Limits(frame[t].uid)) <= MaxResub]_vars
=============================================================================
