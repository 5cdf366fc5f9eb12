------------------------------ MODULE Execution ------------------------------
(***************************************************************************)
(* The execution engine of the bot: OrderPriorityQueue, OrderManager and   *)
(* the quantities of PositionTracker (src/execution), driven by the three  *)
(* asyncio jobs of src/main.py that touch them (pipeline, rebalance,       *)
(* monitoring), against an exchange of which only the answers are known.   *)
(*                                                                         *)
(* asyncio runs one job at a time and switches only at an await, and every *)
(* await here is an exchange call.  A call is three steps: the job issues  *)
(* it and suspends (its pc names the call), the exchange executes it and   *)
(* answers (the X actions), the job resumes with an answer that may be     *)
(* stale by then (the ...Done actions).  A job whose pc is a Running label *)
(* holds the event loop, so the steps between two awaits are not           *)
(* interleaved with anything.                                              *)
(***************************************************************************)
EXTENDS Integers, FiniteSets, Functions

CONSTANTS
  Asset,           \* traded assets; one pair per asset
  Task,            \* the scheduled jobs, a subset of AllTasks
  Prices,          \* prices a fetch may deliver (0: no price known)
  Sizes,           \* USD sizes a rebalance may ask for
  Events,          \* what the risk tick may raise, a subset of AllEvents
  MaxActive,       \* OrderManagerConfig.max_simultaneous_orders
  MaxResub,        \* OrderManagerConfig.max_resubmissions
  QueueCap,        \* OrderPriorityQueue.max_orders
  MinTrade,        \* nav * min_trade_threshold_pct, in USD
  AccelPct,        \* risk_exit_acceleration_threshold, in percent
  SeveritySet,     \* risk orders carry risk_event_severity: main.py sets none
  ImmediateFills,  \* the exchange may fill a limit order when it accepts it
  PartialFills,    \* the exchange may fill part of an order
  Refusable,       \* calls that may fail with RoostooAPIError
  Losable,         \* calls that may fail with any other exception (timeout),
                   \* executed by the exchange or not
  InitPos, InitCash, \* holdings at startup
  MaxOrders,       \* bound on the decisions taken
  MaxPlaced        \* bound on the orders the exchange accepts

AllTasks  == {"pipeline", "rebalance", "monitor"}
AllEvents == {"stop", "loss", "endgame", "warn"}

CRITICAL_EXIT      == 0
POSITION_REDUCTION == 1
NEW_ENTRY          == 2
SIZE_ADJUSTMENT    == 3

Running == {"risk", "build", "drain", "submit", "scan"}
Calls   == {"cancelpair", "place", "query", "cancel", "market",
            "pending", "sweepcancel", "sweepbalance", "balance"}
Labels  == {"idle"} \cup Running \cup Calls

Uid      == 1..MaxOrders
Xid      == 1..MaxPlaced
Drainers == Task \cap {"pipeline", "rebalance"}   \* callers of process_queue

ASSUME ExecutionAssumption ==
  /\ IsFiniteSet(Asset) /\ Asset # {}
  /\ Task \subseteq AllTasks
  /\ Prices \subseteq Nat /\ Sizes \subseteq Nat
  /\ Events \subseteq AllEvents
  /\ MaxActive \in Nat \ {0} /\ MaxResub \in Nat \ {0} /\ QueueCap \in Nat
  /\ MinTrade \in Nat /\ AccelPct \in Nat
  /\ SeveritySet \in BOOLEAN
  /\ ImmediateFills \in BOOLEAN /\ PartialFills \in BOOLEAN
  /\ Refusable \subseteq Calls /\ Losable \subseteq Calls
  /\ InitPos \in Nat /\ InitCash \in Nat
  /\ MaxOrders \in Nat \ {0} /\ MaxPlaced \in Nat \ {0}

VARIABLES
  price,     \* OrderManager._latest_prices (and Position.current_price)
  made,      \* number of PendingOrder objects created
  order,     \* the PendingOrder objects; the index orders their timestamps
  queue,     \* OrderPriorityQueue.queue: how many times an order is in it
  active,    \* keys of OrderManager.active_orders
  pos, cash, \* PositionTracker: quantity held (0: no position) and USD
  pc,        \* where each job stands
  frame,     \* the locals of each job that survive an await
  reply,     \* the answer to the call a job has outstanding
  seen,      \* check_active_orders: order ids already iterated over
  size,      \*   number of entries when the iteration began
  toRemove,  \*   to_remove
  stuck,     \* sweep_orphans: pairs still to be cancelled
  placed,    \* number of orders the exchange accepted
  xord,      \* the exchange's orders, with what ActiveOrder records of them
  xpos, xcash \* the balances at the exchange (free and locked together)

decisions == <<made, order>>
book      == <<pos, cash>>
check     == <<seen, size, toRemove>>
exchange  == <<placed, xord, xpos, xcash>>
vars == <<price, decisions, queue, active, book, pc, frame, reply, check,
          stuck, exchange>>

-----------------------------------------------------------------------------
OrderRec == [asset : Asset, side : {"BUY", "SELL"}, priority : 0..3,
             usd : Nat, why : AllEvents \cup {"rebalance"}, resub : 0..MaxResub]
FrameRec == [uid : Uid, xid : Xid, px : Nat, qty : Nat, late : BOOLEAN]
ReplyRec == [status : {"none", "ok", "refused", "raised"}, xid : Xid, qty : Nat,
             pairs : SUBSET Asset, pos : [Asset -> Int], cash : Int]
XordRec  == [uid : Uid, px : Nat, qty : Nat, done : Nat, resub : 0..MaxResub,
             age : 0..2, status : {"none", "open", "filled", "canceled"}]

Silent == [status |-> "none", xid |-> 1, qty |-> 0, pairs |-> {},
           pos |-> [a \in Asset |-> 0], cash |-> 0]

(* The variables hold values of their types: the one shape invariant.      *)
TypeOK ==
  /\ price \in [Asset -> Nat]
  /\ made \in 0..MaxOrders /\ order \in [Uid -> OrderRec]
  /\ queue \in [Uid -> Nat]
  /\ active \in SUBSET Xid
  /\ pos \in [Asset -> Int] /\ cash \in Int
  /\ pc \in [Task -> Labels] /\ frame \in [Task -> FrameRec]
  /\ reply \in [Task -> ReplyRec]
  /\ seen \in SUBSET Xid /\ size \in Nat /\ toRemove \in SUBSET Xid
  /\ stuck \in SUBSET Asset
  /\ placed \in 0..MaxPlaced /\ xord \in [Xid -> XordRec]
  /\ xpos \in [Asset -> Int] /\ xcash \in Int

-----------------------------------------------------------------------------
(* Orders and the queue.                                                   *)

AssetOf(x) == order[xord[x].uid].asset
SideOf(x)  == order[xord[x].uid].side
Open       == {x \in Xid : xord[x].status = "open"}
Queued     == {u \in Uid : queue[u] > 0}
QueueSize  == SumFunction(queue)

\* mutant: a queue in order of arrival
BeforeByArrival(u, v) == u <= v

\* the list is kept sorted by (priority, timestamp): pop takes the least
Before(u, v) == \/ order[u].priority < order[v].priority
                \/ order[u].priority = order[v].priority /\ u <= v
IsHead(u) == u \in Queued /\ \A v \in Queued : Before(u, v)

\* OrderPriorityQueue.add: a CRITICAL exit is accepted even when it is full
Accepts(priority) == priority = CRITICAL_EXIT \/ QueueSize < QueueCap
Added(q, u) == [q EXCEPT ![u] = @ + 1]
Popped(q, u) == [q EXCEPT ![u] = @ - 1]

Create(a, side, priority, usd, why) ==
  /\ made < MaxOrders
  /\ made' = made + 1
  /\ order' = [order EXCEPT ![made + 1] =
                 [asset |-> a, side |-> side, priority |-> priority,
                  usd |-> usd, why |-> why, resub |-> 0]]
  /\ queue' = IF Accepts(priority) THEN Added(queue, made + 1) ELSE queue

\* format_quantity(abs(quantity_usd) / price): to the nearest unit
Quantity(usd, p) == (2 * usd + p) \div (2 * p)

-----------------------------------------------------------------------------
(* Jobs.                                                                   *)

HasLoop(t) == \A u \in Task \ {t} : pc[u] \notin Running
LoopFree   == \A u \in Task : pc[u] \notin Running
At(t, l)   == pc[t] = l /\ HasLoop(t)
Goto(t, l) == pc' = [pc EXCEPT ![t] = l]
NoFrame    == [uid |-> 1, xid |-> 1, px |-> 0, qty |-> 0, late |-> FALSE]
Return(t, l) == Goto(t, l) /\ frame' = [frame EXCEPT ![t] = NoFrame]
Answered(t, c) == At(t, c) /\ reply[t].status # "none"
Consume(t) == reply' = [reply EXCEPT ![t] = Silent]
Failed(t)  == reply[t].status \in {"refused", "raised"}
Swallowed(t) == reply[t].status # "raised"   \* cancel calls catch RoostooAPIError

\* the exception leaves the job: the locals are gone, nothing is undone
Abort(t) == /\ Return(t, "idle") /\ Consume(t)
            /\ seen' = {} /\ toRemove' = {} /\ size' = 0
            /\ UNCHANGED <<price, decisions, queue, active, book, stuck,
                           exchange>>

\* PositionTracker.on_buy_fill and on_sell_fill, as _on_fill calls them
OnFill(u, q, p) ==
  LET a == order[u].asset
  IN IF order[u].side = "BUY"
     THEN /\ pos'  = [pos EXCEPT ![a] = @ + q]
          /\ cash' = cash - q * p
     ELSE IF pos[a] = 0
     THEN UNCHANGED book
     ELSE /\ pos'  = [pos EXCEPT ![a] = IF @ <= q THEN 0 ELSE @ - q]
          /\ cash' = cash + q * p

\* mutant: the sync leaves the cash alone
SyncPositions(t) == pos' = reply[t].pos /\ UNCHANGED cash

\* PositionTracker.sync_from_exchange with the balances of the reply
Sync(t) == pos' = reply[t].pos /\ cash' = reply[t].cash

-----------------------------------------------------------------------------
(* pipeline_tick: fetch prices, turn risk events into orders, drain, check *)

\* a fetch that fails, or misses an asset, leaves the price as it was
StartTick(t) ==
  /\ t = "pipeline" /\ At(t, "idle")
  /\ price' \in [Asset -> Prices]
  /\ \A a \in Asset : price[a] > 0 => price'[a] > 0
  /\ Goto(t, "risk")
  /\ frame' = [frame EXCEPT ![t].qty = made]   \* orders of this tick are later
  /\ UNCHANGED <<decisions, queue, active, book, reply, check, stuck, exchange>>

PriorityOf(e) == IF e = "warn" THEN POSITION_REDUCTION ELSE CRITICAL_EXIT

\* each event sells the whole position at market value, MEDIUM ones included
RiskExit(t, a, e) ==
  /\ At(t, "risk") /\ pos[a] > 0
  /\ \A u \in (frame[t].qty + 1)..made : order[u].asset # a \/ order[u].why # e
  /\ Create(a, "SELL", PriorityOf(e), pos[a] * price[a], e)
  /\ UNCHANGED <<price, active, book, pc, frame, reply, check, stuck, exchange>>

RiskDone(t) ==
  /\ At(t, "risk")
  /\ Return(t, "drain")
  /\ UNCHANGED <<price, decisions, queue, active, book, reply, check,
                 stuck, exchange>>

-----------------------------------------------------------------------------
(* process_queue and _submit_order.                                        *)

\* process_queue returns: the pipeline goes on to check_active_orders
LeaveDrain(t) ==
  IF t = "pipeline"
  THEN /\ Return(t, "scan")
       /\ seen' = {} /\ toRemove' = {} /\ size' = Cardinality(active)
  ELSE Return(t, "idle") /\ UNCHANGED check

\* mutant: one order more than the cap
AtCapLate(u) == Cardinality(active) > MaxActive /\ order[u].priority # CRITICAL_EXIT

AtCap(u) == /\ Cardinality(active) >= MaxActive
            /\ order[u].priority # CRITICAL_EXIT

DrainEmpty(t) ==
  /\ At(t, "drain") /\ Queued = {}
  /\ LeaveDrain(t)
  /\ UNCHANGED <<price, decisions, queue, active, book, reply, stuck,
                 exchange>>

\* the popped order is added back, which a full queue refuses
Defer(t, u) ==
  /\ At(t, "drain") /\ IsHead(u) /\ AtCap(u)
  /\ queue' = IF QueueSize - 1 < QueueCap THEN queue ELSE Popped(queue, u)
  /\ LeaveDrain(t)
  /\ UNCHANGED <<price, decisions, active, book, reply, stuck, exchange>>

\* the price is read before the await on cancel_pair_orders
Pop(t, u) ==
  /\ At(t, "drain") /\ IsHead(u) /\ ~AtCap(u)
  /\ queue' = Popped(queue, u)
  /\ frame' = [frame EXCEPT ![t].uid = u, ![t].px = price[order[u].asset]]
  /\ Goto(t, IF order[u].resub = 0 THEN "cancelpair" ELSE "submit")
  /\ UNCHANGED <<price, decisions, active, book, reply, check, stuck, exchange>>

OfPair(a) == {x \in Xid : xord[x].status # "none" /\ AssetOf(x) = a}

CancelPairDone(t) ==
  /\ Answered(t, "cancelpair") /\ Swallowed(t)
  /\ active' = active \ OfPair(order[frame[t].uid].asset)
  /\ Goto(t, "submit") /\ Consume(t)
  /\ UNCHANGED <<price, decisions, queue, book, frame, check, stuck, exchange>>

CancelPairRaised(t) == Answered(t, "cancelpair") /\ ~Swallowed(t) /\ Abort(t)

Suppressed(u, p) ==
  \/ p = 0
  \/ order[u].usd < MinTrade /\ order[u].priority # CRITICAL_EXIT
  \/ order[u].side = "BUY" /\ order[u].usd > cash

Suppress(t) ==
  /\ At(t, "submit") /\ Suppressed(frame[t].uid, frame[t].px)
  /\ Return(t, "drain")
  /\ UNCHANGED <<price, decisions, queue, active, book, reply, check,
                 stuck, exchange>>

\* a SELL is clamped to the position, if there is one
LimitQuantity(u, p) ==
  LET q == Quantity(order[u].usd, p)
      held == pos[order[u].asset]
  IN IF order[u].side = "SELL" /\ held > 0 /\ q > held THEN held ELSE q

Submit(t) ==
  LET u == frame[t].uid
      p == frame[t].px
  IN /\ At(t, "submit") /\ ~Suppressed(u, p)
     /\ frame' = [frame EXCEPT ![t].qty = LimitQuantity(u, p)]
     /\ Goto(t, "place")
     /\ UNCHANGED <<price, decisions, queue, active, book, reply, check, stuck,
                    exchange>>

PlaceFilled(t) ==
  /\ Answered(t, "place") /\ ~Failed(t) /\ reply[t].qty > 0
  /\ OnFill(frame[t].uid, reply[t].qty, xord[reply[t].xid].px)
  /\ Return(t, "drain") /\ Consume(t)
  /\ UNCHANGED <<price, decisions, queue, active, check, stuck, exchange>>

PlacePending(t) ==
  /\ Answered(t, "place") /\ ~Failed(t) /\ reply[t].qty = 0
  /\ active' = active \cup {reply[t].xid}
  /\ Return(t, "drain") /\ Consume(t)
  /\ UNCHANGED <<price, decisions, queue, book, check, stuck, exchange>>

\* mutant: the order is put back in the queue
PlaceFailedRequeues(t) ==
  /\ Answered(t, "place") /\ Failed(t)
  /\ queue' = Added(queue, frame[t].uid)
  /\ Return(t, "drain") /\ Consume(t)
  /\ UNCHANGED <<price, decisions, active, book, check, stuck, exchange>>

\* any exception is logged and the order dropped
PlaceFailed(t) ==
  /\ Answered(t, "place") /\ Failed(t)
  /\ Return(t, "drain") /\ Consume(t)
  /\ UNCHANGED <<price, decisions, queue, active, book, check, stuck,
                 exchange>>

-----------------------------------------------------------------------------
(* check_active_orders.  The dictionary is iterated over across awaits, in *)
(* insertion order; here in any order, which includes that one.  If its    *)
(* size changed, or an entry took the place of a removed one, the next     *)
(* step of the iteration raises RuntimeError.                              *)

Unvisited == active \ seen
Mutated   == \/ Cardinality(active) # size
             \/ Cardinality(seen) = size /\ Unvisited # {}

\* mutant: every order visited is forgotten
CheckDoneForgets(t) ==
  /\ At(t, "scan") /\ ~Mutated /\ Unvisited = {}
  /\ active' = active \ seen
  /\ seen' = {} /\ toRemove' = {} /\ size' = 0
  /\ Return(t, "idle")
  /\ UNCHANGED <<price, decisions, queue, book, reply, stuck, exchange>>

\* mutant: a filled order is polled again
CheckDoneKeeps(t) ==
  /\ At(t, "scan") /\ ~Mutated /\ Unvisited = {}
  /\ seen' = {} /\ toRemove' = {} /\ size' = 0
  /\ Return(t, "idle")
  /\ UNCHANGED <<price, decisions, queue, active, book, reply, stuck, exchange>>

CheckDone(t) ==
  /\ At(t, "scan") /\ ~Mutated /\ Unvisited = {}
  /\ active' = active \ toRemove
  /\ seen' = {} /\ toRemove' = {} /\ size' = 0
  /\ Return(t, "idle")
  /\ UNCHANGED <<price, decisions, queue, book, reply, stuck, exchange>>

CheckMutated(t) == At(t, "scan") /\ Mutated /\ Abort(t)

\* age 0: within fill_check_delay_sec; 1: to be queried; 2: timed out.  Time
\* passes between visits, so the age seen is any that is not younger.
Visit(t, x, g) ==
  /\ At(t, "scan") /\ ~Mutated /\ x \in Unvisited
  /\ g \in xord[x].age..2
  /\ xord' = [xord EXCEPT ![x].age = g]
  /\ seen' = seen \cup {x}
  /\ IF g = 0
     THEN UNCHANGED <<pc, frame>>
     ELSE /\ frame' = [frame EXCEPT ![t].xid = x, ![t].late = (g = 2)]
          /\ Goto(t, "query")
  /\ UNCHANGED <<price, decisions, queue, active, book, reply, size, toRemove,
                 stuck, placed, xpos, xcash>>

QueryFilled(t) ==
  LET x == frame[t].xid
  IN /\ Answered(t, "query") /\ ~Failed(t) /\ reply[t].qty > 0
     /\ OnFill(xord[x].uid, reply[t].qty, xord[x].px)
     /\ toRemove' = toRemove \cup {x}
     /\ Return(t, "scan") /\ Consume(t)
     /\ UNCHANGED <<price, decisions, queue, active, seen, size, stuck,
                    exchange>>

\* mutant: a timed out order is resubmitted without being cancelled
QueryUnfilledResubmits(t) ==
  LET x == frame[t].xid
      u == xord[x].uid
  IN /\ Answered(t, "query") /\ ~Failed(t) /\ reply[t].qty = 0
     /\ IF frame[t].late /\ xord[x].resub < MaxResub
        THEN /\ order' = [order EXCEPT ![u].resub = xord[x].resub + 1]
             /\ queue' = Added(queue, u)
             /\ toRemove' = toRemove \cup {x}
        ELSE UNCHANGED <<order, queue, toRemove>>
     /\ Return(t, "scan") /\ Consume(t)
     /\ UNCHANGED <<price, made, active, book, seen, size, stuck, exchange>>

QueryUnfilled(t) ==
  /\ Answered(t, "query") /\ ~Failed(t) /\ reply[t].qty = 0
  /\ IF frame[t].late THEN Goto(t, "cancel") /\ UNCHANGED frame ELSE Return(t, "scan")
  /\ Consume(t)
  /\ UNCHANGED <<price, decisions, queue, active, book, check, stuck, exchange>>

QueryFailed(t) == Answered(t, "query") /\ Failed(t) /\ Abort(t)

\* _check_adverse_move
AdverseMove(x) ==
  LET now == price[AssetOf(x)]
      move == IF SideOf(x) = "SELL" THEN xord[x].px - now ELSE now - xord[x].px
  IN now > 0 /\ xord[x].px > 0 /\ 100 * move > AccelPct * xord[x].px

\* mutants: any order accelerates; one, or many, resubmissions too many
AcceleratesAny(x)   == AdverseMove(x)
ExhaustedLate(x)    == xord[x].resub >= MaxResub

Accelerates(x) == order[xord[x].uid].priority = CRITICAL_EXIT /\ AdverseMove(x)
Exhausted(x)   == xord[x].resub + 1 >= MaxResub
Severe(u) == SeveritySet /\ order[u].priority = CRITICAL_EXIT

\* mutant: the order stays in active_orders
TimedOutKeeps(t) ==
  /\ Answered(t, "cancel") /\ Swallowed(t)
  /\ Consume(t)
  /\ UNCHANGED <<price, made, active, book, check, stuck, exchange>>

\* the cancel returned, whatever it returned
TimedOut(t) ==
  /\ Answered(t, "cancel") /\ Swallowed(t)
  /\ toRemove' = toRemove \cup {frame[t].xid}
  /\ Consume(t)
  /\ UNCHANGED <<price, made, active, book, seen, size, stuck, exchange>>

\* _emergency_market_order: the USD amount at the latest price, unclamped
Escalate(t) ==
  LET x == frame[t].xid
      u == xord[x].uid
      now == price[AssetOf(x)]
  IN /\ TimedOut(t)
     /\ Accelerates(x) \/ (Exhausted(x) /\ Severe(u))
     /\ IF now = 0
        THEN Return(t, "scan")
        ELSE /\ frame' = [frame EXCEPT ![t].uid = u, ![t].px = now,
                                       ![t].qty = Quantity(order[u].usd, now)]
             /\ Goto(t, "market")
     /\ UNCHANGED <<order, queue>>

Abandon(t) ==
  LET x == frame[t].xid
  IN /\ TimedOut(t)
     /\ ~Accelerates(x) /\ Exhausted(x) /\ ~Severe(xord[x].uid)
     /\ Return(t, "scan")
     /\ UNCHANGED <<order, queue>>

Resubmit(t) ==
  LET x == frame[t].xid
      u == xord[x].uid
  IN /\ TimedOut(t)
     /\ ~Accelerates(x) /\ ~Exhausted(x)
     /\ order' = [order EXCEPT ![u].resub = xord[x].resub + 1]
     /\ queue' = IF Accepts(order[u].priority) THEN Added(queue, u) ELSE queue
     /\ Return(t, "scan")

CancelRaised(t) == Answered(t, "cancel") /\ ~Swallowed(t) /\ Abort(t)

MarketFilled(t) ==
  /\ Answered(t, "market") /\ ~Failed(t)
  /\ OnFill(frame[t].uid, reply[t].qty, xord[reply[t].xid].px)
  /\ Return(t, "scan") /\ Consume(t)
  /\ UNCHANGED <<price, decisions, queue, active, check, stuck, exchange>>

\* logged and forgotten: the exit is neither queued nor active any more
MarketFailed(t) ==
  /\ Answered(t, "market") /\ Failed(t)
  /\ Return(t, "scan") /\ Consume(t)
  /\ UNCHANGED <<price, decisions, queue, active, book, check, stuck,
                 exchange>>

-----------------------------------------------------------------------------
(* rebalance_tick: sweep_orphans, build the orders, drain.                 *)

StartRebalance(t) ==
  /\ t = "rebalance" /\ At(t, "idle")
  /\ Goto(t, "pending")
  /\ UNCHANGED <<price, decisions, queue, active, book, frame, reply, check,
                 stuck, exchange>>

\* mutant: every pair ever ordered counts as known
KnownPairsEver == {order[u].asset : u \in 1..made}

KnownPairs == {AssetOf(x) : x \in active}

\* every exception of the sweep is swallowed and the rebalance goes on
SweepFailed(t) ==
  /\ \E c \in {"pending", "sweepcancel", "sweepbalance"} : Answered(t, c)
  /\ Failed(t) /\ (pc[t] = "sweepcancel" => ~Swallowed(t))
  /\ Goto(t, "build") /\ Consume(t)
  /\ stuck' = {}
  /\ frame' = [frame EXCEPT ![t].qty = made]
  /\ UNCHANGED <<price, decisions, queue, active, book, check, exchange>>

\* the known pairs are computed once, when the count arrives
PendingDone(t) ==
  LET orphans == reply[t].pairs \ KnownPairs
  IN /\ Answered(t, "pending") /\ ~Failed(t)
     /\ Consume(t)
     /\ IF orphans = {}
        THEN /\ Goto(t, "build")
             /\ frame' = [frame EXCEPT ![t].qty = made]
        ELSE Goto(t, "sweepcancel") /\ UNCHANGED frame
     /\ stuck' = orphans
     /\ UNCHANGED <<price, decisions, queue, active, book, check, exchange>>

SweepCancelDone(t) ==
  /\ Answered(t, "sweepcancel") /\ Swallowed(t)
  /\ \E a \in (IF Failed(t) THEN stuck ELSE reply[t].pairs) : stuck' = stuck \ {a}
  /\ Goto(t, IF stuck' = {} THEN "sweepbalance" ELSE "sweepcancel")
  /\ Consume(t)
  /\ UNCHANGED <<price, decisions, queue, active, book, frame, check, exchange>>

SweepBalanceDone(t) ==
  /\ Answered(t, "sweepbalance") /\ ~Failed(t)
  /\ Sync(t)
  /\ Goto(t, "build") /\ Consume(t)
  /\ frame' = [frame EXCEPT ![t].qty = made]
  /\ UNCHANGED <<price, decisions, queue, active, check, stuck, exchange>>

\* build_orders_from_weights: at most one order per asset, sized by the change
\* of weight: a SELL is no larger than the position
Build(t, a, side, usd) ==
  /\ At(t, "build")
  /\ \A u \in (frame[t].qty + 1)..made : order[u].asset # a
  /\ usd > 0 /\ usd >= MinTrade
  /\ side = "SELL" => usd <= pos[a] * price[a]
  /\ Create(a, side,
            CASE side = "BUY" /\ pos[a] = 0                -> NEW_ENTRY
              [] side = "SELL" /\ usd = pos[a] * price[a]  -> POSITION_REDUCTION
              [] OTHER                                     -> SIZE_ADJUSTMENT,
            usd, "rebalance")
  /\ UNCHANGED <<price, active, book, pc, frame, reply, check, stuck, exchange>>

BuildDone(t) ==
  /\ At(t, "build")
  /\ Return(t, "drain")
  /\ UNCHANGED <<price, decisions, queue, active, book, reply, check,
                 stuck, exchange>>

-----------------------------------------------------------------------------
(* monitoring_tick: the hourly balance sync; its failures are swallowed.   *)

StartMonitor(t) ==
  /\ t = "monitor" /\ At(t, "idle")
  /\ Goto(t, "balance")
  /\ UNCHANGED <<price, decisions, queue, active, book, frame, reply, check,
                 stuck, exchange>>

BalanceDone(t) ==
  /\ Answered(t, "balance")
  /\ IF Failed(t) THEN UNCHANGED book ELSE Sync(t)
  /\ Return(t, "idle") /\ Consume(t)
  /\ UNCHANGED <<price, decisions, queue, active, check, stuck, exchange>>

-----------------------------------------------------------------------------
(* The exchange: external.  It executes a call once and answers it; an     *)
(* answer may be lost (status "raised") after the call took effect.        *)

Client == <<price, decisions, queue, active, book, pc, frame, check, stuck>>

Pending(t, c) == LoopFree /\ pc[t] = c /\ reply[t].status = "none"

\* the answer to a call that took effect: it arrives, or is lost
Answer(t, r) ==
  \/ reply' = [reply EXCEPT ![t] = r]
  \/ /\ pc[t] \in Losable
     /\ reply' = [reply EXCEPT ![t] = [Silent EXCEPT !.status = "raised"]]

Done == [Silent EXCEPT !.status = "ok"]

\* what an open order still has to trade is locked
Left(x) == xord[x].qty - xord[x].done
FreeCash == xcash - SumFunctionOnSet([x \in Xid |-> Left(x) * xord[x].px],
                                     {x \in Open : SideOf(x) = "BUY"})
FreePos(a) == xpos[a] - SumFunctionOnSet([x \in Xid |-> Left(x)],
                          {x \in Open : SideOf(x) = "SELL" /\ AssetOf(x) = a})

\* the balances after q units of order u are traded at price p
Trade(u, q, p) ==
  LET a == order[u].asset
  IN IF order[u].side = "BUY"
     THEN xpos' = [xpos EXCEPT ![a] = @ + q] /\ xcash' = xcash - q * p
     ELSE xpos' = [xpos EXCEPT ![a] = @ - q] /\ xcash' = xcash + q * p

Affordable(t) ==
  LET u == frame[t].uid
      q == frame[t].qty
  IN /\ q > 0 /\ placed < MaxPlaced
     /\ IF order[u].side = "BUY" THEN q * frame[t].px <= FreeCash
                                 ELSE q <= FreePos(order[u].asset)

NewOrder(t, status, done) ==
  /\ placed' = placed + 1
  /\ xord' = [xord EXCEPT ![placed + 1] =
                [uid |-> frame[t].uid, px |-> frame[t].px, qty |-> frame[t].qty,
                 done |-> done, resub |-> order[frame[t].uid].resub, age |-> 0,
                 status |-> status]]

XPlaceOpen(t) ==
  /\ Pending(t, "place") /\ Affordable(t)
  /\ NewOrder(t, "open", 0)
  /\ Answer(t, [Done EXCEPT !.xid = placed + 1])
  /\ UNCHANGED <<Client, xpos, xcash>>

\* a limit order filled at placement, or a market order
XPlaceFilled(t) ==
  /\ (Pending(t, "place") /\ ImmediateFills) \/ Pending(t, "market")
  /\ Affordable(t)
  /\ NewOrder(t, "filled", frame[t].qty)
  /\ Trade(frame[t].uid, frame[t].qty, frame[t].px)
  /\ Answer(t, [Done EXCEPT !.xid = placed + 1, !.qty = frame[t].qty])
  /\ UNCHANGED Client

\* "insufficient balance", or an amount below the minimum
XReject(t) ==
  /\ Pending(t, "place") \/ Pending(t, "market")
  /\ ~Affordable(t)
  /\ reply' = [reply EXCEPT ![t] = [Silent EXCEPT !.status = "refused"]]
  /\ UNCHANGED <<Client, exchange>>

\* the call has no effect and fails
XFail(t, status) ==
  /\ LoopFree /\ pc[t] \in Calls /\ reply[t].status = "none"
  /\ \/ status = "refused" /\ pc[t] \in Refusable
     \/ status = "raised" /\ pc[t] \in Losable
  /\ reply' = [reply EXCEPT ![t] = [Silent EXCEPT !.status = status]]
  /\ UNCHANGED <<Client, exchange>>

Cancelled(S) == [x \in Xid |-> IF x \in S THEN [xord[x] EXCEPT !.status = "canceled"]
                                          ELSE xord[x]]

XCancelPair(t) ==
  /\ Pending(t, "cancelpair")
  /\ xord' = Cancelled({x \in Open : AssetOf(x) = order[frame[t].uid].asset})
  /\ Answer(t, Done)
  /\ UNCHANGED <<Client, placed, xpos, xcash>>

XSweepCancel(t, a) ==
  /\ Pending(t, "sweepcancel") /\ a \in stuck
  /\ xord' = Cancelled({x \in Open : AssetOf(x) = a})
  /\ Answer(t, [Done EXCEPT !.pairs = {a}])
  /\ UNCHANGED <<Client, placed, xpos, xcash>>

XCancel(t) ==
  /\ Pending(t, "cancel")
  /\ xord' = Cancelled(Open \cap {frame[t].xid})
  /\ Answer(t, Done)
  /\ UNCHANGED <<Client, placed, xpos, xcash>>

\* is_filled only if the status is FILLED: a partial fill answers quantity 0
XQuery(t) ==
  LET x == frame[t].xid
  IN /\ Pending(t, "query")
     /\ Answer(t, [Done EXCEPT !.xid = x,
                     !.qty = IF xord[x].status = "filled" THEN xord[x].done ELSE 0])
     /\ UNCHANGED <<Client, exchange>>

XPending(t) ==
  /\ Pending(t, "pending")
  /\ Answer(t, [Done EXCEPT !.pairs = {AssetOf(x) : x \in Open}])
  /\ UNCHANGED <<Client, exchange>>

XBalance(t) ==
  /\ Pending(t, "balance") \/ Pending(t, "sweepbalance")
  /\ Answer(t, [Done EXCEPT !.pos = xpos, !.cash = xcash])
  /\ UNCHANGED <<Client, exchange>>

\* the market reaches the limit of an open order
Fill(x, q) ==
  /\ LoopFree /\ x \in Open /\ q \in 1..Left(x)
  /\ PartialFills \/ q = Left(x)
  /\ xord' = [xord EXCEPT ![x].done = @ + q,
                          ![x].status = IF q = Left(x) THEN "filled" ELSE @]
  /\ Trade(xord[x].uid, q, xord[x].px)
  /\ UNCHANGED <<Client, reply, placed>>

-----------------------------------------------------------------------------
Init ==
  /\ price \in [Asset -> Prices]
  /\ made = 0
  /\ order \in [Uid -> {[asset |-> a, side |-> "SELL", priority |-> SIZE_ADJUSTMENT,
                         usd |-> 0, why |-> "rebalance", resub |-> 0] :
                          a \in {CHOOSE a \in Asset : TRUE}}]
  /\ queue = [u \in Uid |-> 0] /\ active = {}
  /\ pos = [a \in Asset |-> InitPos] /\ cash = InitCash
  /\ pc = [t \in Task |-> "idle"]
  /\ frame = [t \in Task |-> NoFrame]
  /\ reply = [t \in Task |-> Silent]
  /\ seen = {} /\ size = 0 /\ toRemove = {} /\ stuck = {}
  /\ placed = 0
  /\ xord = [x \in Xid |-> [uid |-> 1, px |-> 0, qty |-> 0, done |-> 0, resub |-> 0,
                            age |-> 0, status |-> "none"]]
  /\ xpos = pos /\ xcash = cash

Drain(t) ==
  \/ DrainEmpty(t)
  \/ \E u \in Uid : Defer(t, u) \/ Pop(t, u)
  \/ CancelPairDone(t) \/ CancelPairRaised(t)
  \/ Suppress(t) \/ Submit(t)
  \/ PlaceFilled(t) \/ PlacePending(t) \/ PlaceFailed(t)

Check(t) ==
  \/ CheckDone(t) \/ CheckMutated(t)
  \/ \E x \in Xid, g \in 0..2 : Visit(t, x, g)
  \/ QueryFilled(t) \/ QueryUnfilled(t) \/ QueryFailed(t)
  \/ Escalate(t) \/ Abandon(t) \/ Resubmit(t) \/ CancelRaised(t)
  \/ MarketFilled(t) \/ MarketFailed(t)

Risk(t) ==
  \/ StartTick(t) \/ RiskDone(t)
  \/ \E a \in Asset, e \in Events : RiskExit(t, a, e)

Rebalance(t) ==
  \/ StartRebalance(t) \/ SweepFailed(t) \/ PendingDone(t)
  \/ SweepCancelDone(t) \/ SweepBalanceDone(t) \/ BuildDone(t)
  \/ \E a \in Asset, side \in {"BUY", "SELL"}, usd \in Sizes : Build(t, a, side, usd)

Monitor(t) == StartMonitor(t) \/ BalanceDone(t)

Serve(t) ==
  \/ XPlaceOpen(t) \/ XPlaceFilled(t) \/ XReject(t)
  \/ \E status \in {"refused", "raised"} : XFail(t, status)
  \/ XCancelPair(t) \/ (\E a \in Asset : XSweepCancel(t, a))
  \/ XCancel(t) \/ XQuery(t) \/ XPending(t) \/ XBalance(t)

Next ==
  \/ \E t \in Task : Risk(t) \/ Drain(t) \/ Check(t) \/ Rebalance(t) \/ Monitor(t)
                     \/ Serve(t)
  \/ \E x \in Xid : \E q \in 1..Left(x) : Fill(x, q)

Spec == Init /\ [][Next]_vars
=============================================================================
