--------------------------- MODULE ExecutionProofs ---------------------------
(***************************************************************************)
(* Theorems about Execution, for every value of its constants that         *)
(* ExecutionAssumption allows.                                             *)
(***************************************************************************)
EXTENDS ExecutionProperties, FiniteSetTheorems, WellFoundedInduction, TLAPS

USE ExecutionAssumption

-----------------------------------------------------------------------------
(* Facts about the operators.                                              *)

(* The nearest whole number of units that an amount buys is a natural      *)
(* number whenever there is a price: format_quantity never rounds below 0. *)
LEMMA QuantityNat ==
  ASSUME NEW usd \in Nat, NEW p \in Nat \ {0}
  PROVE  Quantity(usd, p) \in Nat
<1> DEFINE n == 2 * usd + p
           d == 2 * p
<1>1. n \in Nat /\ d \in Nat /\ d > 0
  OBVIOUS
<1>2. \A a, b \in Nat : b > 0 => a \div b \in Nat
  OBVIOUS
<1> QED BY <1>1, <1>2 DEF Quantity

(* Order ids and job names are finitely many, so what is built from them   *)
(* can be counted.                                                         *)
LEMMA Finite ==
  /\ IsFiniteSet(Xid) /\ IsFiniteSet(Task)
  /\ \A S \in SUBSET Xid : IsFiniteSet(S) /\ Cardinality(S) \in Nat
  /\ \A S \in SUBSET Task : IsFiniteSet(S) /\ Cardinality(S) \in Nat
<1>1. IsFiniteSet(Xid)
  BY FS_Interval DEF Xid
<1>2. IsFiniteSet(Task)
  <2>1. IsFiniteSet({"pipeline", "rebalance", "monitor"})
    <3>1. IsFiniteSet({"pipeline"} \cup {"rebalance"})
      BY FS_Singleton, FS_Union
    <3>2. IsFiniteSet(({"pipeline"} \cup {"rebalance"}) \cup {"monitor"})
      BY <3>1, FS_Singleton, FS_Union
    <3>3. ({"pipeline"} \cup {"rebalance"}) \cup {"monitor"}
            = {"pipeline", "rebalance", "monitor"}
      OBVIOUS
    <3> QED BY <3>2, <3>3
  <2> QED BY <2>1, FS_Subset DEF AllTasks
<1> QED BY <1>1, <1>2, FS_Subset, FS_CardinalityType

LEMMA NoFrameType == NoFrame \in FrameRec
BY DEF NoFrame, FrameRec, Uid, Xid

LEMMA SilentType == Silent \in ReplyRec /\ Silent.status = "none"
BY DEF Silent, ReplyRec, Xid

(* A job that resumes or suspends leaves pc, frame and reply of their type.*)
LEMMA ReturnType ==
  ASSUME TypeOK, NEW t \in Task, NEW l \in Labels, Return(t, l)
  PROVE  pc' \in [Task -> Labels] /\ frame' \in [Task -> FrameRec]
BY NoFrameType DEF Return, Goto, TypeOK

LEMMA GotoType ==
  ASSUME TypeOK, NEW t \in Task, NEW l \in Labels, Goto(t, l)
  PROVE  pc' \in [Task -> Labels]
BY DEF Goto, TypeOK

LEMMA ConsumeType ==
  ASSUME TypeOK, NEW t \in Task, Consume(t)
  PROVE  reply' \in [Task -> ReplyRec]
BY SilentType DEF Consume, TypeOK

LEMMA CreateType ==
  ASSUME TypeOK, NEW a \in Asset, NEW side \in {"BUY", "SELL"},
         NEW priority \in 0..3, NEW usd \in Nat,
         NEW why \in AllEvents \cup {"rebalance"},
         Create(a, side, priority, usd, why)
  PROVE  /\ made' \in 0..MaxOrders /\ order' \in [Uid -> OrderRec]
         /\ queue' \in [Uid -> Nat]
<1>1. made + 1 \in Uid /\ made' = made + 1
  BY DEF Create, TypeOK, Uid
<1>2. [asset |-> a, side |-> side, priority |-> priority,
       usd |-> usd, why |-> why, resub |-> 0] \in OrderRec
  BY DEF OrderRec
<1>3. Added(queue, made + 1) \in [Uid -> Nat]
  BY <1>1 DEF Added, TypeOK
<1>4. queue' \in [Uid -> Nat]
  <2>1. queue' = Added(queue, made + 1) \/ queue' = queue
    BY DEF Create
  <2> QED BY <2>1, <1>3 DEF TypeOK
<1>5. order' \in [Uid -> OrderRec]
  BY <1>2 DEF Create, TypeOK
<1>6. made' \in 0..MaxOrders
  BY <1>1 DEF Uid
<1> QED BY <1>4, <1>5, <1>6

LEMMA OnFillType ==
  ASSUME TypeOK, NEW u \in Uid, NEW q \in Nat, NEW p \in Nat, OnFill(u, q, p)
  PROVE  pos' \in [Asset -> Int] /\ cash' \in Int
<1>1. q * p \in Int
  OBVIOUS
<1>2. order[u].asset \in Asset
  BY DEF TypeOK, OrderRec
<1> QED BY <1>1, <1>2 DEF OnFill, TypeOK, book

LEMMA SyncType ==
  ASSUME TypeOK, NEW t \in Task, Sync(t)
  PROVE  pos' \in [Asset -> Int] /\ cash' \in Int
BY DEF Sync, TypeOK, ReplyRec

-----------------------------------------------------------------------------
(* The initial states are of their types.                                  *)
LEMMA InitType == Init => TypeOK
<1> SUFFICES ASSUME Init PROVE TypeOK
  OBVIOUS
<1>1. PICK a \in Asset : a = CHOOSE b \in Asset : TRUE
  OBVIOUS
<1>2. order \in [Uid -> OrderRec]
  BY <1>1 DEF Init, OrderRec, SIZE_ADJUSTMENT
<1>3. xord \in [Xid -> XordRec]
  BY DEF Init, XordRec, Uid
<1>4. pc \in [Task -> Labels]
  BY DEF Init, Labels
<1>5. frame \in [Task -> FrameRec] /\ reply \in [Task -> ReplyRec]
  BY NoFrameType, SilentType DEF Init
<1>6. price \in [Asset -> Nat]
  BY DEF Init
<1> QED BY <1>2, <1>3, <1>4, <1>5, <1>6 DEF Init, TypeOK

-----------------------------------------------------------------------------
(* Every step preserves the types; one lemma per group of actions.         *)

LEMMA RiskType ==
  ASSUME TypeOK, NEW t \in Task, Risk(t)
  PROVE  TypeOK'
<1>1. CASE StartTick(t)
  <2>1. price' \in [Asset -> Nat]
    BY <1>1 DEF StartTick
  <2>2. pc' \in [Task -> Labels]
    BY <1>1, GotoType DEF StartTick, Labels, Running
  <2>3. frame' \in [Task -> FrameRec]
    BY <1>1 DEF StartTick, TypeOK, FrameRec
  <2> QED BY <1>1, <2>1, <2>2, <2>3
          DEF StartTick, TypeOK, decisions, book, check, exchange
<1>2. CASE RiskDone(t)
  <2>1. pc' \in [Task -> Labels] /\ frame' \in [Task -> FrameRec]
    BY <1>2, ReturnType DEF RiskDone, Labels, Running
  <2> QED BY <1>2, <2>1 DEF RiskDone, TypeOK, decisions, book, check, exchange
<1>3. ASSUME NEW a \in Asset, NEW e \in Events, RiskExit(t, a, e)
      PROVE  TypeOK'
  <2>1. pos[a] * price[a] \in Nat
    BY <1>3 DEF RiskExit, TypeOK
  <2>2. PriorityOf(e) \in 0..3 /\ e \in AllEvents
    BY DEF PriorityOf, POSITION_REDUCTION, CRITICAL_EXIT
  <2>3. Create(a, "SELL", PriorityOf(e), pos[a] * price[a], e)
    BY <1>3 DEF RiskExit
  <2> QED BY <1>3, <2>1, <2>2, <2>3, CreateType
          DEF RiskExit, TypeOK, decisions, book, check, exchange
<1> QED BY <1>1, <1>2, <1>3 DEF Risk

(* process_queue hands over to the poll, or ends the job.                  *)
LEMMA LeaveDrainType ==
  ASSUME TypeOK, NEW t \in Task, LeaveDrain(t)
  PROVE  /\ pc' \in [Task -> Labels] /\ frame' \in [Task -> FrameRec]
         /\ seen' \in SUBSET Xid /\ size' \in Nat /\ toRemove' \in SUBSET Xid
<1>1. Cardinality(active) \in Nat
  BY Finite DEF TypeOK
<1>2. CASE t = "pipeline"
  BY <1>1, <1>2, ReturnType DEF LeaveDrain, Labels, Running
<1>3. CASE t # "pipeline"
  BY <1>3, ReturnType DEF LeaveDrain, Labels, TypeOK, check
<1> QED BY <1>2, <1>3

(* The exception leaves the job.                                           *)
LEMMA AbortType ==
  ASSUME TypeOK, NEW t \in Task, Abort(t)
  PROVE  TypeOK'
<1>1. pc' \in [Task -> Labels] /\ frame' \in [Task -> FrameRec]
  BY ReturnType DEF Abort, Labels
<1>2. reply' \in [Task -> ReplyRec]
  BY ConsumeType DEF Abort
<1> QED BY <1>1, <1>2 DEF Abort, TypeOK, decisions, book, exchange

(* What a quantity sent to the exchange may be.                            *)
LEMMA LimitQuantityNat ==
  ASSUME TypeOK, NEW u \in Uid, NEW p \in Nat, ~Suppressed(u, p)
  PROVE  LimitQuantity(u, p) \in Nat
<1>1. order[u].usd \in Nat /\ p \in Nat \ {0}
  BY DEF TypeOK, OrderRec, Suppressed
<1>2. Quantity(order[u].usd, p) \in Nat
  BY <1>1, QuantityNat
<1>3. pos[order[u].asset] \in Int
  BY DEF TypeOK, OrderRec
<1> QED BY <1>2, <1>3 DEF LimitQuantity

LEMMA DrainType ==
  ASSUME TypeOK, NEW t \in Task, Drain(t)
  PROVE  TypeOK'
<1>1. CASE DrainEmpty(t)
  BY <1>1, LeaveDrainType DEF DrainEmpty, TypeOK, decisions, book, exchange
<1>2. ASSUME NEW u \in Uid, Defer(t, u)
      PROVE  TypeOK'
  <2>1. queue[u] \in Nat \ {0}
    BY <1>2 DEF Defer, IsHead, Queued, TypeOK
  <2>2. queue' = queue \/ queue' = Popped(queue, u)
    BY <1>2 DEF Defer
  <2>3. queue' \in [Uid -> Nat]
    BY <2>1, <2>2 DEF Popped, TypeOK
  <2> QED BY <1>2, <2>3, LeaveDrainType DEF Defer, TypeOK, decisions, book, exchange
<1>3. ASSUME NEW u \in Uid, Pop(t, u)
      PROVE  TypeOK'
  <2>1. queue[u] \in Nat \ {0}
    BY <1>3 DEF Pop, IsHead, Queued, TypeOK
  <2>2. queue' \in [Uid -> Nat]
    BY <1>3, <2>1 DEF Pop, Popped, TypeOK
  <2>3. frame' \in [Task -> FrameRec]
    BY <1>3 DEF Pop, TypeOK, FrameRec, OrderRec
  <2>4. pc' \in [Task -> Labels]
    BY <1>3, GotoType DEF Pop, Labels, Running, Calls
  <2> QED BY <1>3, <2>2, <2>3, <2>4
          DEF Pop, TypeOK, decisions, book, check, exchange
<1>4. CASE CancelPairDone(t)
  <2>1. pc' \in [Task -> Labels] /\ reply' \in [Task -> ReplyRec]
    BY <1>4, GotoType, ConsumeType DEF CancelPairDone, Labels, Running
  <2> QED BY <1>4, <2>1
          DEF CancelPairDone, TypeOK, decisions, book, check, exchange
<1>5. CASE CancelPairRaised(t)
  BY <1>5, AbortType DEF CancelPairRaised
<1>6. CASE Suppress(t)
  <2>1. pc' \in [Task -> Labels] /\ frame' \in [Task -> FrameRec]
    BY <1>6, ReturnType DEF Suppress, Labels, Running
  <2> QED BY <1>6, <2>1 DEF Suppress, TypeOK, decisions, book, check, exchange
<1>7. CASE Submit(t)
  <2>1. frame[t].uid \in Uid /\ frame[t].px \in Nat
    BY DEF TypeOK, FrameRec
  <2>2. LimitQuantity(frame[t].uid, frame[t].px) \in Nat
    BY <1>7, <2>1, LimitQuantityNat DEF Submit
  <2>3. frame' \in [Task -> FrameRec]
    BY <1>7, <2>2 DEF Submit, TypeOK, FrameRec
  <2>4. pc' \in [Task -> Labels]
    BY <1>7, GotoType DEF Submit, Labels, Calls
  <2> QED BY <1>7, <2>3, <2>4
          DEF Submit, TypeOK, decisions, book, check, exchange
<1>8. CASE PlaceFilled(t)
  <2>1. frame[t].uid \in Uid /\ reply[t].qty \in Nat /\ xord[reply[t].xid].px \in Nat
    BY DEF TypeOK, FrameRec, ReplyRec, XordRec
  <2>2. pos' \in [Asset -> Int] /\ cash' \in Int
    BY <1>8, <2>1, OnFillType DEF PlaceFilled
  <2>3. pc' \in [Task -> Labels] /\ frame' \in [Task -> FrameRec]
    BY <1>8, ReturnType DEF PlaceFilled, Labels, Running
  <2>4. reply' \in [Task -> ReplyRec]
    BY <1>8, ConsumeType DEF PlaceFilled
  <2> QED BY <1>8, <2>2, <2>3, <2>4
          DEF PlaceFilled, TypeOK, decisions, check, exchange
<1>9. CASE PlacePending(t)
  <2>1. reply[t].xid \in Xid
    BY DEF TypeOK, ReplyRec
  <2>2. pc' \in [Task -> Labels] /\ frame' \in [Task -> FrameRec]
    BY <1>9, ReturnType DEF PlacePending, Labels, Running
  <2>3. reply' \in [Task -> ReplyRec]
    BY <1>9, ConsumeType DEF PlacePending
  <2> QED BY <1>9, <2>1, <2>2, <2>3
          DEF PlacePending, TypeOK, decisions, book, check, exchange
<1>10. CASE PlaceFailed(t)
  <2>1. pc' \in [Task -> Labels] /\ frame' \in [Task -> FrameRec]
    BY <1>10, ReturnType DEF PlaceFailed, Labels, Running
  <2>2. reply' \in [Task -> ReplyRec]
    BY <1>10, ConsumeType DEF PlaceFailed
  <2> QED BY <1>10, <2>1, <2>2
          DEF PlaceFailed, TypeOK, decisions, book, check, exchange
<1> QED BY <1>1, <1>2, <1>3, <1>4, <1>5, <1>6, <1>7, <1>8, <1>9, <1>10 DEF Drain

LEMMA CheckType ==
  ASSUME TypeOK, NEW t \in Task, Check(t)
  PROVE  TypeOK'
<1>0. frame[t].xid \in Xid /\ xord[frame[t].xid] \in XordRec
  BY DEF TypeOK, FrameRec
<1>1. CASE CheckDone(t)
  <2>1. pc' \in [Task -> Labels] /\ frame' \in [Task -> FrameRec]
    BY <1>1, ReturnType DEF CheckDone, Labels
  <2> QED BY <1>1, <2>1 DEF CheckDone, TypeOK, decisions, book, exchange
<1>2. CASE CheckMutated(t)
  BY <1>2, AbortType DEF CheckMutated
<1>3. ASSUME NEW x \in Xid, NEW g \in 0..2, Visit(t, x, g)
      PROVE  TypeOK'
  <2>1. xord' \in [Xid -> XordRec]
    BY <1>3 DEF Visit, TypeOK, XordRec
  <2>2. CASE g = 0
    BY <1>3, <2>1, <2>2 DEF Visit, TypeOK, decisions, book
  <2>3. CASE g # 0
    <3>1. pc' \in [Task -> Labels]
      BY <1>3, <2>3, GotoType DEF Visit, Labels, Calls
    <3>2. frame' \in [Task -> FrameRec]
      BY <1>3, <2>3 DEF Visit, TypeOK, FrameRec
    <3> QED BY <1>3, <2>1, <3>1, <3>2 DEF Visit, TypeOK, decisions, book
  <2> QED BY <2>2, <2>3
<1>4. CASE QueryFilled(t)
  <2>1. /\ xord[frame[t].xid].uid \in Uid /\ xord[frame[t].xid].px \in Nat
        /\ reply[t].qty \in Nat
    BY <1>0 DEF TypeOK, ReplyRec, XordRec
  <2>2. pos' \in [Asset -> Int] /\ cash' \in Int
    BY <1>4, <2>1, OnFillType DEF QueryFilled
  <2>3. pc' \in [Task -> Labels] /\ frame' \in [Task -> FrameRec]
    BY <1>4, ReturnType DEF QueryFilled, Labels, Running
  <2>4. reply' \in [Task -> ReplyRec]
    BY <1>4, ConsumeType DEF QueryFilled
  <2> QED BY <1>0, <1>4, <2>2, <2>3, <2>4
          DEF QueryFilled, TypeOK, decisions, exchange
<1>5. CASE QueryUnfilled(t)
  <2>1. pc' \in [Task -> Labels] /\ frame' \in [Task -> FrameRec]
    BY <1>5, ReturnType, GotoType DEF QueryUnfilled, Labels, Running, Calls, TypeOK
  <2>2. reply' \in [Task -> ReplyRec]
    BY <1>5, ConsumeType DEF QueryUnfilled
  <2> QED BY <1>5, <2>1, <2>2
          DEF QueryUnfilled, TypeOK, decisions, book, check, exchange
<1>6. CASE QueryFailed(t)
  BY <1>6, AbortType DEF QueryFailed
<1>7. ASSUME TimedOut(t)
      PROVE  /\ toRemove' \in SUBSET Xid /\ reply' \in [Task -> ReplyRec]
             /\ xord[frame[t].xid].uid \in Uid
  BY <1>0, <1>7, ConsumeType DEF TimedOut, TypeOK, XordRec
<1>8. CASE Escalate(t)
  <2> DEFINE u == xord[frame[t].xid].uid
             now == price[order[u].asset]
  <2>1. TimedOut(t) /\ u \in Uid
    BY <1>7, <1>8 DEF Escalate
  <2>2. now \in Nat /\ order[u].usd \in Nat
    BY <2>1 DEF TypeOK, OrderRec
  <2>3. CASE now = 0
    <3>1. pc' \in [Task -> Labels] /\ frame' \in [Task -> FrameRec]
      BY <1>8, <2>3, ReturnType DEF Escalate, Labels, Running, AssetOf
    <3> QED BY <1>7, <1>8, <2>1, <3>1
            DEF Escalate, TimedOut, TypeOK, book, exchange
  <2>4. CASE now # 0
    <3>1. Quantity(order[u].usd, now) \in Nat
      BY <2>2, <2>4, QuantityNat
    <3>2. frame' = [frame EXCEPT ![t].uid = u, ![t].px = now,
                                 ![t].qty = Quantity(order[u].usd, now)]
      BY <1>8, <2>4 DEF Escalate, AssetOf
    <3> HIDE DEF u, now
    <3>3. frame' \in [Task -> FrameRec]
      BY <2>1, <2>2, <3>1, <3>2 DEF TypeOK, FrameRec
    <3>4. pc' \in [Task -> Labels]
      BY <1>8, <2>4, GotoType DEF Escalate, Labels, Calls, AssetOf, u, now
    <3> QED BY <1>7, <1>8, <2>1, <3>3, <3>4
            DEF Escalate, TimedOut, TypeOK, book, exchange
  <2> QED BY <2>3, <2>4
<1>9. CASE Abandon(t)
  <2>1. pc' \in [Task -> Labels] /\ frame' \in [Task -> FrameRec]
    BY <1>9, ReturnType DEF Abandon, Labels, Running
  <2> QED BY <1>7, <1>9, <2>1 DEF Abandon, TimedOut, TypeOK, book, exchange
<1>10. CASE Resubmit(t)
  <2> DEFINE u == xord[frame[t].xid].uid
  <2>1. TimedOut(t) /\ u \in Uid
    BY <1>7, <1>10 DEF Resubmit
  <2>2. xord[frame[t].xid].resub + 1 \in 0..MaxResub
    BY <1>0, <1>10 DEF Resubmit, Exhausted, XordRec
  <2>3. order' \in [Uid -> OrderRec]
    <3>1. order' = [order EXCEPT ![u].resub = xord[frame[t].xid].resub + 1]
      BY <1>10 DEF Resubmit
    <3> HIDE DEF u
    <3> QED BY <2>1, <2>2, <3>1 DEF TypeOK, OrderRec
  <2>4. queue' = Added(queue, u) \/ queue' = queue
    BY <1>10 DEF Resubmit
  <2>5. queue' \in [Uid -> Nat]
    BY <2>1, <2>4 DEF Added, TypeOK
  <2>6. pc' \in [Task -> Labels] /\ frame' \in [Task -> FrameRec]
    BY <1>10, ReturnType DEF Resubmit, Labels, Running
  <2> QED BY <1>7, <2>1, <2>3, <2>5, <2>6 DEF TimedOut, TypeOK, book, exchange
<1>11. CASE CancelRaised(t)
  BY <1>11, AbortType DEF CancelRaised
<1>12. CASE MarketFilled(t)
  <2>1. frame[t].uid \in Uid /\ reply[t].qty \in Nat /\ xord[reply[t].xid].px \in Nat
    BY DEF TypeOK, FrameRec, ReplyRec, XordRec
  <2>2. pos' \in [Asset -> Int] /\ cash' \in Int
    BY <1>12, <2>1, OnFillType DEF MarketFilled
  <2>3. pc' \in [Task -> Labels] /\ frame' \in [Task -> FrameRec]
    BY <1>12, ReturnType DEF MarketFilled, Labels, Running
  <2>4. reply' \in [Task -> ReplyRec]
    BY <1>12, ConsumeType DEF MarketFilled
  <2> QED BY <1>12, <2>2, <2>3, <2>4
          DEF MarketFilled, TypeOK, decisions, check, exchange
<1>13. CASE MarketFailed(t)
  <2>1. pc' \in [Task -> Labels] /\ frame' \in [Task -> FrameRec]
    BY <1>13, ReturnType DEF MarketFailed, Labels, Running
  <2>2. reply' \in [Task -> ReplyRec]
    BY <1>13, ConsumeType DEF MarketFailed
  <2> QED BY <1>13, <2>1, <2>2
          DEF MarketFailed, TypeOK, decisions, book, check, exchange
<1> QED BY <1>1, <1>2, <1>3, <1>4, <1>5, <1>6, <1>8, <1>9, <1>10, <1>11, <1>12,
           <1>13 DEF Check

LEMMA RebalanceType ==
  ASSUME TypeOK, NEW t \in Task, Rebalance(t)
  PROVE  TypeOK'
<1>0. ASSUME frame' = [frame EXCEPT ![t].qty = made]
      PROVE  frame' \in [Task -> FrameRec]
  BY <1>0 DEF TypeOK, FrameRec
<1>1. CASE StartRebalance(t)
  <2>1. pc' \in [Task -> Labels]
    BY <1>1, GotoType DEF StartRebalance, Labels, Calls
  <2> QED BY <1>1, <2>1
          DEF StartRebalance, TypeOK, decisions, book, check, exchange
<1>2. CASE SweepFailed(t)
  <2>1. pc' \in [Task -> Labels] /\ reply' \in [Task -> ReplyRec]
    BY <1>2, GotoType, ConsumeType DEF SweepFailed, Labels, Running
  <2> QED BY <1>0, <1>2, <2>1
          DEF SweepFailed, TypeOK, decisions, book, check, exchange
<1>3. CASE PendingDone(t)
  <2> DEFINE orphans == reply[t].pairs \ KnownPairs
  <2>1. orphans \in SUBSET Asset
    BY DEF TypeOK, ReplyRec
  <2>2. reply' \in [Task -> ReplyRec]
    BY <1>3, ConsumeType DEF PendingDone
  <2>3. stuck' = orphans
    BY <1>3 DEF PendingDone
  <2>4. CASE orphans = {}
    <3>1. Goto(t, "build") /\ frame' = [frame EXCEPT ![t].qty = made]
      BY <1>3, <2>4 DEF PendingDone
    <3>2. pc' \in [Task -> Labels]
      BY <3>1, GotoType DEF Labels, Running
    <3> QED BY <1>0, <1>3, <2>1, <2>2, <2>3, <3>1, <3>2
            DEF PendingDone, TypeOK, decisions, book, check, exchange
  <2>5. CASE orphans # {}
    <3>1. Goto(t, "sweepcancel") /\ UNCHANGED frame
      BY <1>3, <2>5 DEF PendingDone
    <3>2. pc' \in [Task -> Labels]
      BY <3>1, GotoType DEF Labels, Calls
    <3> QED BY <1>3, <2>1, <2>2, <2>3, <3>1, <3>2
            DEF PendingDone, TypeOK, decisions, book, check, exchange
  <2> QED BY <2>4, <2>5
<1>4. CASE SweepCancelDone(t)
  <2>1. stuck' \in SUBSET Asset
    BY <1>4 DEF SweepCancelDone, TypeOK
  <2>2. pc' \in [Task -> Labels]
    BY <1>4, GotoType DEF SweepCancelDone, Labels, Calls
  <2>3. reply' \in [Task -> ReplyRec]
    BY <1>4, ConsumeType DEF SweepCancelDone
  <2> QED BY <1>4, <2>1, <2>2, <2>3
          DEF SweepCancelDone, TypeOK, decisions, book, check, exchange
<1>5. CASE SweepBalanceDone(t)
  <2>1. pc' \in [Task -> Labels] /\ reply' \in [Task -> ReplyRec]
    BY <1>5, GotoType, ConsumeType DEF SweepBalanceDone, Labels, Running
  <2>2. pos' \in [Asset -> Int] /\ cash' \in Int
    BY <1>5, SyncType DEF SweepBalanceDone
  <2> QED BY <1>0, <1>5, <2>1, <2>2
          DEF SweepBalanceDone, TypeOK, decisions, check, exchange
<1>6. CASE BuildDone(t)
  <2>1. pc' \in [Task -> Labels] /\ frame' \in [Task -> FrameRec]
    BY <1>6, ReturnType DEF BuildDone, Labels, Running
  <2> QED BY <1>6, <2>1 DEF BuildDone, TypeOK, decisions, book, check, exchange
<1>7. ASSUME NEW a \in Asset, NEW side \in {"BUY", "SELL"}, NEW usd \in Sizes,
             Build(t, a, side, usd)
      PROVE  TypeOK'
  <2>1. PICK priority \in {NEW_ENTRY, POSITION_REDUCTION, SIZE_ADJUSTMENT} :
          Create(a, side, priority, usd, "rebalance")
    BY <1>7 DEF Build
  <2>2. priority \in 0..3 /\ usd \in Nat
    BY DEF NEW_ENTRY, POSITION_REDUCTION, SIZE_ADJUSTMENT
  <2>3. /\ made' \in 0..MaxOrders /\ order' \in [Uid -> OrderRec]
        /\ queue' \in [Uid -> Nat]
    BY <2>1, <2>2, CreateType
  <2> QED BY <1>7, <2>3 DEF Build, TypeOK, book, check, exchange
<1> QED BY <1>1, <1>2, <1>3, <1>4, <1>5, <1>6, <1>7 DEF Rebalance

LEMMA MonitorType ==
  ASSUME TypeOK, NEW t \in Task, Monitor(t)
  PROVE  TypeOK'
<1>1. CASE StartMonitor(t)
  <2>1. pc' \in [Task -> Labels]
    BY <1>1, GotoType DEF StartMonitor, Labels, Calls
  <2> QED BY <1>1, <2>1
          DEF StartMonitor, TypeOK, decisions, book, check, exchange
<1>2. CASE BalanceDone(t)
  <2>1. pc' \in [Task -> Labels] /\ frame' \in [Task -> FrameRec]
    BY <1>2, ReturnType DEF BalanceDone, Labels
  <2>2. reply' \in [Task -> ReplyRec]
    BY <1>2, ConsumeType DEF BalanceDone
  <2>3. pos' \in [Asset -> Int] /\ cash' \in Int
    BY <1>2, SyncType DEF BalanceDone, TypeOK, book
  <2> QED BY <1>2, <2>1, <2>2, <2>3
          DEF BalanceDone, TypeOK, decisions, check, exchange
<1> QED BY <1>1, <1>2 DEF Monitor

(* The exchange's side of a step.                                          *)
LEMMA AnswerType ==
  ASSUME TypeOK, NEW t \in Task, NEW r \in ReplyRec, Answer(t, r)
  PROVE  reply' \in [Task -> ReplyRec]
<1>1. [Silent EXCEPT !.status = "raised"] \in ReplyRec
  BY SilentType DEF ReplyRec
<1> QED BY <1>1 DEF Answer, TypeOK

LEMMA NewOrderType ==
  ASSUME TypeOK, NEW t \in Task, Affordable(t),
         NEW status \in {"open", "filled"}, NEW done \in Nat,
         NewOrder(t, status, done)
  PROVE  /\ placed' \in 0..MaxPlaced /\ placed + 1 \in Xid
         /\ xord' \in [Xid -> XordRec]
<1>1. placed + 1 \in Xid
  BY DEF Affordable, TypeOK, Xid
<1>2. [uid |-> frame[t].uid, px |-> frame[t].px, qty |-> frame[t].qty,
       done |-> done, resub |-> order[frame[t].uid].resub, age |-> 0,
       status |-> status] \in XordRec
  BY DEF TypeOK, FrameRec, OrderRec, XordRec
<1>3. xord' \in [Xid -> XordRec]
  BY <1>2 DEF NewOrder, TypeOK
<1> QED BY <1>1, <1>3 DEF NewOrder, Xid, TypeOK

LEMMA TradeType ==
  ASSUME TypeOK, NEW u \in Uid, NEW q \in Nat, NEW p \in Nat, Trade(u, q, p)
  PROVE  xpos' \in [Asset -> Int] /\ xcash' \in Int
<1>1. q * p \in Int
  OBVIOUS
<1> QED BY <1>1 DEF Trade, TypeOK

LEMMA CancelledType ==
  ASSUME TypeOK, NEW S
  PROVE  Cancelled(S) \in [Xid -> XordRec]
BY DEF Cancelled, TypeOK, XordRec

LEMMA DoneType == Done \in ReplyRec
BY SilentType DEF Done, ReplyRec

LEMMA ServeType ==
  ASSUME TypeOK, NEW t \in Task, Serve(t)
  PROVE  TypeOK'
<1>0. frame[t].uid \in Uid /\ frame[t].xid \in Xid /\ frame[t].px \in Nat
        /\ frame[t].qty \in Nat
  BY DEF TypeOK, FrameRec
<1>1. CASE XPlaceOpen(t)
  <2>1. /\ placed' \in 0..MaxPlaced /\ placed + 1 \in Xid
        /\ xord' \in [Xid -> XordRec]
    BY <1>1, NewOrderType DEF XPlaceOpen
  <2>2. [Done EXCEPT !.xid = placed + 1] \in ReplyRec
    BY <2>1, DoneType DEF ReplyRec
  <2>3. reply' \in [Task -> ReplyRec]
    BY <1>1, <2>2, AnswerType DEF XPlaceOpen
  <2> QED BY <1>1, <2>1, <2>3
          DEF XPlaceOpen, TypeOK, Client, decisions, book, check
<1>2. CASE XPlaceFilled(t)
  <2>1. /\ placed' \in 0..MaxPlaced /\ placed + 1 \in Xid
        /\ xord' \in [Xid -> XordRec]
    BY <1>0, <1>2, NewOrderType DEF XPlaceFilled
  <2>2. [Done EXCEPT !.xid = placed + 1, !.qty = frame[t].qty] \in ReplyRec
    BY <1>0, <2>1, DoneType DEF ReplyRec
  <2>3. reply' \in [Task -> ReplyRec]
    BY <1>2, <2>2, AnswerType DEF XPlaceFilled
  <2>4. xpos' \in [Asset -> Int] /\ xcash' \in Int
    BY <1>0, <1>2, TradeType DEF XPlaceFilled
  <2> QED BY <1>2, <2>1, <2>3, <2>4
          DEF XPlaceFilled, TypeOK, Client, decisions, book, check
<1>3. CASE XReject(t)
  <2>1. [Silent EXCEPT !.status = "refused"] \in ReplyRec
    BY SilentType DEF ReplyRec
  <2> QED BY <1>3, <2>1
          DEF XReject, TypeOK, Client, decisions, book, check, exchange
<1>4. ASSUME NEW status \in {"refused", "raised"}, XFail(t, status)
      PROVE  TypeOK'
  <2>1. [Silent EXCEPT !.status = status] \in ReplyRec
    BY SilentType DEF ReplyRec
  <2> QED BY <1>4, <2>1
          DEF XFail, TypeOK, Client, decisions, book, check, exchange
<1>5. CASE XCancelPair(t)
  <2>1. xord' \in [Xid -> XordRec]
    BY <1>5, CancelledType DEF XCancelPair
  <2>2. reply' \in [Task -> ReplyRec]
    BY <1>5, DoneType, AnswerType DEF XCancelPair
  <2> QED BY <1>5, <2>1, <2>2
          DEF XCancelPair, TypeOK, Client, decisions, book, check
<1>6. ASSUME NEW a \in Asset, XSweepCancel(t, a)
      PROVE  TypeOK'
  <2>1. xord' \in [Xid -> XordRec]
    BY <1>6, CancelledType DEF XSweepCancel
  <2>2. [Done EXCEPT !.pairs = {a}] \in ReplyRec
    BY DoneType DEF ReplyRec
  <2>3. reply' \in [Task -> ReplyRec]
    BY <1>6, <2>2, AnswerType DEF XSweepCancel
  <2> QED BY <1>6, <2>1, <2>3
          DEF XSweepCancel, TypeOK, Client, decisions, book, check
<1>7. CASE XCancel(t)
  <2>1. xord' \in [Xid -> XordRec]
    BY <1>7, CancelledType DEF XCancel
  <2>2. reply' \in [Task -> ReplyRec]
    BY <1>7, DoneType, AnswerType DEF XCancel
  <2> QED BY <1>7, <2>1, <2>2
          DEF XCancel, TypeOK, Client, decisions, book, check
<1>8. CASE XQuery(t)
  <2> DEFINE n == IF xord[frame[t].xid].status = "filled"
                  THEN xord[frame[t].xid].done ELSE 0
  <2>1. n \in Nat
    BY <1>0 DEF TypeOK, XordRec
  <2>2. [Done EXCEPT !.xid = frame[t].xid, !.qty = n] \in ReplyRec
    BY <1>0, <2>1, DoneType DEF ReplyRec
  <2>3. reply' \in [Task -> ReplyRec]
    BY <1>8, <2>2, AnswerType DEF XQuery
  <2> QED BY <1>8, <2>3
          DEF XQuery, TypeOK, Client, decisions, book, check, exchange
<1>9. CASE XPending(t)
  <2>1. {AssetOf(x) : x \in Open} \in SUBSET Asset
    BY DEF AssetOf, Open, TypeOK, XordRec, OrderRec
  <2>2. [Done EXCEPT !.pairs = {AssetOf(x) : x \in Open}] \in ReplyRec
    BY <2>1, DoneType DEF ReplyRec
  <2>3. reply' \in [Task -> ReplyRec]
    BY <1>9, <2>2, AnswerType DEF XPending
  <2> QED BY <1>9, <2>3
          DEF XPending, TypeOK, Client, decisions, book, check, exchange
<1>10. CASE XBalance(t)
  <2>1. [Done EXCEPT !.pos = xpos, !.cash = xcash] \in ReplyRec
    BY DoneType DEF ReplyRec, TypeOK
  <2>2. reply' \in [Task -> ReplyRec]
    BY <1>10, <2>1, AnswerType DEF XBalance
  <2> QED BY <1>10, <2>2
          DEF XBalance, TypeOK, Client, decisions, book, check, exchange
<1> QED BY <1>1, <1>2, <1>3, <1>4, <1>5, <1>6, <1>7, <1>8, <1>9, <1>10 DEF Serve

LEMMA FillType ==
  ASSUME TypeOK, NEW x \in Xid, NEW q \in 1..Left(x), Fill(x, q)
  PROVE  TypeOK'
<1>1. xord[x] \in XordRec
  BY DEF TypeOK
<1>2. Left(x) \in Int
  BY <1>1 DEF Left, XordRec
<1>3. q \in Nat /\ xord[x].px \in Nat /\ xord[x].uid \in Uid /\ xord[x].done + q \in Nat
  BY <1>1, <1>2 DEF XordRec
<1>4. xord' \in [Xid -> XordRec]
  BY <1>1, <1>3 DEF Fill, TypeOK, XordRec
<1>5. xpos' \in [Asset -> Int] /\ xcash' \in Int
  BY <1>3, TradeType DEF Fill
<1> QED BY <1>4, <1>5 DEF Fill, TypeOK, Client, decisions, book, check

-----------------------------------------------------------------------------
(* The variables keep their types.                                         *)
LEMMA StutterType ==
  ASSUME TypeOK, UNCHANGED vars
  PROVE  TypeOK'
BY DEF TypeOK, vars, decisions, book, check, exchange

LEMMA NextType ==
  ASSUME TypeOK, [Next]_vars
  PROVE  TypeOK'
BY RiskType, DrainType, CheckType, RebalanceType, MonitorType, ServeType,
   FillType, StutterType DEF Next

(* Whatever the jobs, the exchange and the failures do, the state of the   *)
(* engine keeps its shape: the order book of the exchange, the queue, the  *)
(* tracked ids and the locals of every suspended job.                      *)
THEOREM TypeCorrect == Spec => []TypeOK
<1>1. TypeOK /\ [Next]_vars => TypeOK'
  BY NextType
<1> QED BY InitType, <1>1, PTL DEF Spec

-----------------------------------------------------------------------------
(* The bound on simultaneous orders is not inductive as it stands: what a  *)
(* job is about to track must be what it was counted for while submitting, *)
(* and the priority that decides whether an order counts must not change.  *)
(* References says that every reference the engine holds is to a decision  *)
(* already taken, or an order already accepted, whose records are not      *)
(* written again; that an answer belongs to the call that is outstanding;  *)
(* and that only the callers of process_queue submit.                      *)

QueueKnown  == \A u \in Uid : queue[u] > 0 => u <= made
OrdersKnown == \A x \in Xid : x <= placed => xord[x].uid <= made
ActiveKnown == \A x \in active : x <= placed

CallKnown(t) ==
  /\ pc[t] \notin {"idle", "balance"} => t \in Drainers
  /\ pc[t] \notin Calls => reply[t].status = "none"
  /\ pc[t] \in {"cancelpair", "submit", "place", "market"} => frame[t].uid <= made
  /\ pc[t] \in {"query", "cancel"} => frame[t].xid <= placed
  /\ pc[t] = "place" /\ reply[t].status = "ok"
       => reply[t].xid <= placed /\ xord[reply[t].xid].uid = frame[t].uid

References == /\ QueueKnown /\ OrdersKnown /\ ActiveKnown
              /\ \A t \in Task : CallKnown(t)

LEMMA InitReferences == Init => References
<1> SUFFICES ASSUME Init PROVE References
  OBVIOUS
<1>1. QueueKnown /\ OrdersKnown /\ ActiveKnown
  BY DEF Init, QueueKnown, OrdersKnown, ActiveKnown, Xid
<1>2. \A t \in Task : CallKnown(t)
  BY SilentType DEF Init, CallKnown
<1> QED BY <1>1, <1>2 DEF References

(* A step of job t that takes no new decision and leaves the exchange alone*)
(* keeps References if what it adds to the queue and to active_orders is   *)
(* known, and if its own call is.                                          *)
LEMMA OwnStep ==
  ASSUME TypeOK, References, NEW t \in Task, NEW l \in Labels, Goto(t, l),
         \A s \in Task \ {t} : frame'[s] = frame[s] /\ reply'[s] = reply[s],
         made' = made, placed' = placed,
         \A x \in Xid : xord'[x].uid = xord[x].uid,
         QueueKnown', ActiveKnown', CallKnown(t)'
  PROVE  References'
<1>1. OrdersKnown'
  BY DEF References, OrdersKnown
<1>2. ASSUME NEW s \in Task \ {t}
      PROVE  CallKnown(s)'
  <2>1. CallKnown(s) /\ reply[s].xid \in Xid
    BY DEF References, TypeOK, ReplyRec
  <2>2. pc'[s] = pc[s]
    BY DEF Goto, TypeOK
  <2> QED BY <2>1, <2>2 DEF CallKnown
<1> QED BY <1>1, <1>2 DEF References

(* Silence is the reply of a job that is not in a call.                    *)
LEMMA ReturnKnown ==
  ASSUME TypeOK, NEW t \in Drainers, NEW l \in {"idle", "risk", "build", "drain", "scan"},
         Goto(t, l), reply'[t].status = "none"
  PROVE  CallKnown(t)'
<1>1. pc'[t] = l
  BY DEF Goto, TypeOK, Drainers
<1> QED BY <1>1 DEF CallKnown

LEMMA ConsumeSilent ==
  ASSUME TypeOK, NEW t \in Task, Consume(t)
  PROVE  /\ reply'[t].status = "none"
         /\ \A s \in Task \ {t} : reply'[s] = reply[s]
BY SilentType DEF Consume, TypeOK

LEMMA ReturnOthers ==
  ASSUME TypeOK, NEW t \in Task, NEW l, Return(t, l)
  PROVE  Goto(t, l) /\ \A s \in Task \ {t} : frame'[s] = frame[s]
BY DEF Return, TypeOK

LEMMA CreateKnown ==
  ASSUME TypeOK, References, NEW a \in Asset, NEW side, NEW priority,
         NEW usd, NEW why,
         Create(a, side, priority, usd, why),
         UNCHANGED <<active, pc, frame, reply, exchange>>
  PROVE  /\ References'
         /\ \A u \in Uid : u <= made => order'[u] = order[u]
<1>1. made + 1 \in Uid /\ made' = made + 1 /\ made \in Nat
  BY DEF Create, TypeOK, Uid
<1>2. \A u \in Uid : u <= made => order'[u] = order[u]
  BY <1>1 DEF Create, TypeOK, Uid
<1>3. queue' = Added(queue, made + 1) \/ queue' = queue
  BY DEF Create
<1>4. \A u \in Uid : queue'[u] = queue[u] \/ u = made + 1
  BY <1>1, <1>3 DEF Added, TypeOK
<1>5. QueueKnown'
  BY <1>1, <1>4 DEF References, QueueKnown, Uid
<1>6. OrdersKnown' /\ ActiveKnown'
  BY <1>1 DEF References, OrdersKnown, ActiveKnown, exchange, TypeOK, XordRec, Uid
<1>7. ASSUME NEW t \in Task
      PROVE  CallKnown(t)'
  <2>1. CallKnown(t) /\ frame[t].uid \in Uid
    BY DEF References, TypeOK, FrameRec
  <2> QED BY <1>1, <2>1 DEF CallKnown, exchange, Uid
<1> QED BY <1>2, <1>5, <1>6, <1>7 DEF References

(* A step that tracks no order and submits none it did not submit before   *)
(* can only lower the count.                                               *)
Calm ==
  /\ active' \subseteq active
  /\ \A x \in active : xord'[x].uid = xord[x].uid
  /\ \A u \in Uid : u <= made => order'[u].priority = order[u].priority
  /\ \A t \in Submitting' : t \in Submitting /\ frame'[t].uid = frame[t].uid

LEMMA CountsFinite ==
  ASSUME TypeOK
  PROVE  /\ IsFiniteSet(active) /\ Cardinality(active) \in Nat
         /\ IsFiniteSet(LesserActive) /\ Cardinality(LesserActive) \in Nat
         /\ IsFiniteSet(LesserSubmitting) /\ Cardinality(LesserSubmitting) \in Nat
         /\ IsFiniteSet(Drainers) /\ Cardinality(Drainers) \in Nat
         /\ Cardinality(LesserActive) <= Cardinality(active)
         /\ Cardinality(LesserSubmitting) <= Cardinality(Drainers)
<1>1. active \in SUBSET Xid /\ LesserActive \in SUBSET active
  BY DEF TypeOK, LesserActive
<1>2. Drainers \in SUBSET Task /\ LesserSubmitting \in SUBSET Drainers
  BY DEF Drainers, LesserSubmitting, Submitting
<1>3. LesserActive \in SUBSET Xid /\ LesserSubmitting \in SUBSET Task
  BY <1>1, <1>2
<1>4. /\ IsFiniteSet(active) /\ Cardinality(active) \in Nat
      /\ IsFiniteSet(LesserActive) /\ Cardinality(LesserActive) \in Nat
      /\ IsFiniteSet(LesserSubmitting) /\ Cardinality(LesserSubmitting) \in Nat
      /\ IsFiniteSet(Drainers) /\ Cardinality(Drainers) \in Nat
  BY <1>1, <1>2, <1>3, Finite
<1>5. Cardinality(LesserActive) <= Cardinality(active)
  BY <1>1, <1>4, FS_Subset
<1>6. Cardinality(LesserSubmitting) <= Cardinality(Drainers)
  BY <1>2, <1>4, FS_Subset
<1> QED BY <1>4, <1>5, <1>6

LEMMA CalmBound ==
  ASSUME TypeOK, TypeOK', References, ActiveBound, Calm
  PROVE  ActiveBound'
<1>1. LesserActive' \in SUBSET LesserActive
  <2> SUFFICES ASSUME NEW x \in LesserActive'
               PROVE  x \in LesserActive
    OBVIOUS
  <2>1. x \in active /\ x \in Xid /\ x <= placed
    BY DEF LesserActive, Calm, TypeOK, References, ActiveKnown
  <2>2. xord[x].uid \in Uid /\ xord[x].uid <= made /\ xord'[x].uid = xord[x].uid
    BY <2>1 DEF Calm, TypeOK, References, OrdersKnown, XordRec
  <2>3. order'[xord'[x].uid].priority = order[xord[x].uid].priority
    BY <2>2 DEF Calm
  <2> QED BY <2>1, <2>3 DEF LesserActive, Critical
<1>2. LesserSubmitting' \in SUBSET LesserSubmitting
  <2> SUFFICES ASSUME NEW t \in LesserSubmitting'
               PROVE  t \in LesserSubmitting
    OBVIOUS
  <2>1. t \in Submitting' /\ ~Critical(frame[t].uid)'
    BY DEF LesserSubmitting
  <2>2. t \in Submitting /\ frame'[t].uid = frame[t].uid /\ t \in Task
    BY <2>1 DEF Calm, Submitting, Drainers
  <2>3. frame[t].uid \in Uid /\ frame[t].uid <= made
    BY <2>2 DEF TypeOK, FrameRec, References, CallKnown, Submitting
  <2>4. order'[frame'[t].uid].priority = order[frame[t].uid].priority
    BY <2>2, <2>3 DEF Calm
  <2> QED BY <2>1, <2>2, <2>4 DEF LesserSubmitting, Critical
<1>3. /\ Cardinality(LesserActive)' <= Cardinality(LesserActive)
      /\ Cardinality(LesserActive)' \in Nat
  BY <1>1, CountsFinite, FS_Subset, FS_CardinalityType
<1>4. /\ Cardinality(LesserSubmitting)' <= Cardinality(LesserSubmitting)
      /\ Cardinality(LesserSubmitting)' \in Nat
  BY <1>2, CountsFinite, FS_Subset, FS_CardinalityType
<1> QED BY <1>3, <1>4, CountsFinite DEF ActiveBound

(* The steps of a job that leaves the submission of an order, or goes on   *)
(* with it, and tracks nothing new.                                        *)
LEMMA CalmStep ==
  ASSUME TypeOK, NEW t \in Task, NEW l \in Labels, Goto(t, l),
         \A s \in Task \ {t} : frame'[s] = frame[s],
         active' \subseteq active,
         \A x \in Xid : xord'[x].uid = xord[x].uid,
         \A u \in Uid : order'[u].priority = order[u].priority,
         l \in {"cancelpair", "submit", "place"}
           => pc[t] \in {"cancelpair", "submit", "place"} /\ frame'[t].uid = frame[t].uid
  PROVE  Calm
<1>1. \A s \in Task : pc'[s] = IF s = t THEN l ELSE pc[s]
  BY DEF Goto, TypeOK
<1>2. \A s \in Submitting' : s \in Submitting /\ frame'[s].uid = frame[s].uid
  BY <1>1 DEF Submitting, Drainers
<1>3. \A x \in active : xord'[x].uid = xord[x].uid
  BY DEF TypeOK
<1> QED BY <1>2, <1>3 DEF Calm

(* The steps that end outside a call: most of them.                        *)
LEMMA RestStep ==
  ASSUME TypeOK, TypeOK', References, ActiveBound, NEW t \in Drainers,
         NEW l \in {"idle", "risk", "build", "drain", "scan"}, Goto(t, l),
         \A s \in Task \ {t} : frame'[s] = frame[s] /\ reply'[s] = reply[s],
         reply'[t].status = "none",
         made' = made, placed' = placed,
         \A x \in Xid : xord'[x].uid = xord[x].uid,
         \A u \in Uid : order'[u].priority = order[u].priority,
         active' \subseteq active,
         QueueKnown'
  PROVE  References' /\ ActiveBound'
<1>1. t \in Task /\ l \in Labels
  BY DEF Drainers, Labels, Running
<1>2. CallKnown(t)'
  BY ReturnKnown
<1>3. ActiveKnown'
  BY DEF References, ActiveKnown
<1>4. References'
  BY <1>1, <1>2, <1>3, OwnStep
<1>5. Calm
  BY <1>1, CalmStep
<1> QED BY <1>4, <1>5, CalmBound

(* A job at an action of the drain, of the poll or of the rebalance is one *)
(* of the callers of process_queue.                                        *)
LEMMA Busy ==
  ASSUME References, NEW t \in Task, pc[t] \notin {"idle", "balance"}
  PROVE  t \in Drainers
BY DEF References, CallKnown

LEMMA Silenced ==
  ASSUME References, NEW t \in Task, pc[t] \notin Calls
  PROVE  reply[t].status = "none"
BY DEF References, CallKnown

LEMMA AbortSafe ==
  ASSUME TypeOK, TypeOK', References, ActiveBound, NEW t \in Drainers, Abort(t)
  PROVE  References' /\ ActiveBound'
<1>1. t \in Task
  BY DEF Drainers
<1>2. Goto(t, "idle") /\ \A s \in Task \ {t} : frame'[s] = frame[s]
  BY <1>1, ReturnOthers DEF Abort
<1>3. reply'[t].status = "none" /\ \A s \in Task \ {t} : reply'[s] = reply[s]
  BY <1>1, ConsumeSilent DEF Abort
<1>4. UNCHANGED <<made, order, queue, active, placed, xord>>
  BY DEF Abort, decisions, exchange
<1>5. QueueKnown'
  BY <1>4 DEF References, QueueKnown
<1> QED BY <1>2, <1>3, <1>4, <1>5, RestStep

LEMMA RiskSafe ==
  ASSUME TypeOK, TypeOK', References, ActiveBound, NEW t \in Task, Risk(t)
  PROVE  References' /\ ActiveBound'
<1>1. CASE StartTick(t)
  <2>1. /\ Goto(t, "risk") /\ pc[t] = "idle" /\ t \in Drainers
        /\ UNCHANGED <<made, order, queue, active, reply, placed, xord>>
    BY <1>1 DEF StartTick, At, Drainers, decisions, exchange
  <2>2. \A s \in Task \ {t} : frame'[s] = frame[s]
    BY <1>1 DEF StartTick, TypeOK
  <2>3. reply[t].status = "none"
    BY <2>1, Silenced DEF Calls
  <2>4. QueueKnown'
    BY <2>1 DEF References, QueueKnown
  <2> QED BY <2>1, <2>2, <2>3, <2>4, RestStep
<1>2. CASE RiskDone(t)
  <2>1. /\ Return(t, "drain") /\ pc[t] = "risk"
        /\ UNCHANGED <<made, order, queue, active, reply, placed, xord>>
    BY <1>2 DEF RiskDone, At, decisions, exchange
  <2>2. t \in Drainers /\ reply[t].status = "none"
    BY <2>1, Busy, Silenced DEF Calls
  <2>3. QueueKnown'
    BY <2>1 DEF References, QueueKnown
  <2> QED BY <2>1, <2>2, <2>3, ReturnOthers, RestStep
<1>3. ASSUME NEW a \in Asset, NEW e \in Events, RiskExit(t, a, e)
      PROVE  References' /\ ActiveBound'
  <2>1. /\ Create(a, "SELL", PriorityOf(e), pos[a] * price[a], e)
        /\ UNCHANGED <<active, pc, frame, reply, exchange>>
    BY <1>3 DEF RiskExit
  <2>2. References' /\ \A u \in Uid : u <= made => order'[u] = order[u]
    BY <2>1, CreateKnown
  <2>3. Calm
    BY <2>1, <2>2 DEF Calm, Submitting, exchange
  <2> QED BY <2>2, <2>3, CalmBound
<1> QED BY <1>1, <1>2, <1>3 DEF Risk

LEMMA MonitorSafe ==
  ASSUME TypeOK, TypeOK', References, ActiveBound, NEW t \in Task, Monitor(t)
  PROVE  References' /\ ActiveBound'
<1>1. CASE StartMonitor(t)
  <2>1. /\ Goto(t, "balance") /\ pc[t] = "idle"
        /\ UNCHANGED <<made, order, queue, active, frame, reply, placed, xord>>
    BY <1>1 DEF StartMonitor, At, decisions, exchange
  <2>2. pc'[t] = "balance"
    BY <2>1 DEF Goto, TypeOK
  <2>3. CallKnown(t)'
    BY <2>2 DEF CallKnown, Calls
  <2>4. QueueKnown' /\ ActiveKnown'
    BY <2>1 DEF References, QueueKnown, ActiveKnown
  <2>5. References'
    BY <2>1, <2>3, <2>4, OwnStep DEF Labels, Calls
  <2>6. Calm
    BY <2>1, CalmStep DEF Labels, Calls
  <2> QED BY <2>5, <2>6, CalmBound
<1>2. CASE BalanceDone(t)
  <2>1. /\ Return(t, "idle") /\ Consume(t)
        /\ UNCHANGED <<made, order, queue, active, placed, xord>>
    BY <1>2 DEF BalanceDone, decisions, exchange
  <2>2. /\ Goto(t, "idle")
        /\ \A s \in Task \ {t} : frame'[s] = frame[s] /\ reply'[s] = reply[s]
        /\ reply'[t].status = "none"
    BY <2>1, ReturnOthers, ConsumeSilent
  <2>3. pc'[t] = "idle"
    BY <2>2 DEF Goto, TypeOK
  <2>4. CallKnown(t)'
    BY <2>2, <2>3 DEF CallKnown
  <2>5. QueueKnown' /\ ActiveKnown'
    BY <2>1 DEF References, QueueKnown, ActiveKnown
  <2>6. References'
    BY <2>1, <2>2, <2>4, <2>5, OwnStep DEF Labels
  <2>7. Calm
    BY <2>1, <2>2, CalmStep DEF Labels
  <2> QED BY <2>6, <2>7, CalmBound
<1> QED BY <1>1, <1>2 DEF Monitor

LEMMA PoppedKnown ==
  ASSUME TypeOK, References, NEW u \in Uid, u \in Queued, UNCHANGED made,
         queue' = Popped(queue, u) \/ queue' = queue
  PROVE  QueueKnown'
<1>1. queue[u] \in Nat \ {0}
  BY DEF Queued, TypeOK
<1>2. \A v \in Uid : queue'[v] > 0 => queue[v] > 0
  BY <1>1 DEF Popped, TypeOK
<1> QED BY <1>2 DEF References, QueueKnown

LEMMA LeaveDrainLabel ==
  ASSUME NEW t, LeaveDrain(t)
  PROVE  \E l \in {"scan", "idle"} : Return(t, l)
BY DEF LeaveDrain

(* Popping an order that counts: the cap was not reached, so the tracked   *)
(* orders are fewer than the cap, and the callers bound the submissions.   *)
LEMMA PopSafe ==
  ASSUME TypeOK, TypeOK', References, ActiveBound, NEW t \in Task,
         NEW u \in Uid, Pop(t, u)
  PROVE  References' /\ ActiveBound'
<1>1. /\ pc[t] = "drain" /\ u \in Queued /\ ~AtCap(u)
      /\ queue' = Popped(queue, u)
      /\ frame' = [frame EXCEPT ![t].uid = u, ![t].px = price[order[u].asset]]
      /\ UNCHANGED <<made, order, active, reply, placed, xord>>
  BY DEF Pop, At, IsHead, decisions, exchange
<1>2. PICK l \in {"cancelpair", "submit"} : Goto(t, l)
  BY DEF Pop
<1>3. t \in Drainers /\ reply[t].status = "none"
  BY <1>1, Busy, Silenced DEF Calls
<1>4. pc' = [pc EXCEPT ![t] = l]
  BY <1>2 DEF Goto
<1>5. frame'[t].uid = u /\ \A s \in Task \ {t} : frame'[s] = frame[s]
  BY <1>1 DEF TypeOK, FrameRec
<1>6. u <= made
  BY <1>1 DEF Queued, References, QueueKnown
<1>7. References'
  <2>1. CallKnown(t)'
    BY <1>1, <1>3, <1>4, <1>5, <1>6 DEF CallKnown, Calls, TypeOK
  <2>2. ActiveKnown' /\ QueueKnown'
    BY <1>1, PoppedKnown DEF References, ActiveKnown
  <2> QED BY <1>1, <1>2, <1>5, <2>1, <2>2, OwnStep DEF Labels, Running, Calls
<1>8. LesserActive' = LesserActive
  BY <1>1 DEF LesserActive, Critical
<1>9. CASE Critical(u)
  <2>1. LesserSubmitting' \in SUBSET LesserSubmitting
    BY <1>1, <1>4, <1>5, <1>9
       DEF LesserSubmitting, Submitting, Critical, Drainers, TypeOK
  <2>2. /\ Cardinality(LesserSubmitting)' <= Cardinality(LesserSubmitting)
        /\ Cardinality(LesserSubmitting)' \in Nat
    BY <2>1, CountsFinite, FS_Subset, FS_CardinalityType
  <2> QED BY <1>7, <1>8, <2>2, CountsFinite DEF ActiveBound
<1>10. CASE ~Critical(u)
  <2>1. Cardinality(active) < MaxActive
    BY <1>1, <1>10, CountsFinite DEF AtCap, Critical
  <2>2. LesserSubmitting' \in SUBSET Drainers
    BY DEF LesserSubmitting, Submitting
  <2>3. /\ Cardinality(LesserSubmitting)' <= Cardinality(Drainers)
        /\ Cardinality(LesserSubmitting)' \in Nat
    BY <2>2, CountsFinite, FS_Subset, FS_CardinalityType
  <2> QED BY <1>7, <1>8, <2>1, <2>3, CountsFinite DEF ActiveBound
<1> QED BY <1>9, <1>10

(* An order that was being submitted is tracked: it was counted before.    *)
LEMMA PlacePendingSafe ==
  ASSUME TypeOK, TypeOK', References, ActiveBound, NEW t \in Task, PlacePending(t)
  PROVE  References' /\ ActiveBound'
<1> DEFINE x == reply[t].xid
<1>1. /\ pc[t] = "place" /\ reply[t].status = "ok"
      /\ active' = active \cup {x}
      /\ Return(t, "drain") /\ Consume(t)
      /\ UNCHANGED <<made, order, queue, placed, xord>>
  BY DEF PlacePending, Answered, Failed, At, TypeOK, ReplyRec, decisions, exchange
<1>2. t \in Drainers /\ x \in Xid /\ x <= placed /\ xord[x].uid = frame[t].uid
  BY <1>1 DEF References, CallKnown, TypeOK, ReplyRec
<1>3. /\ Goto(t, "drain") /\ reply'[t].status = "none"
      /\ \A s \in Task \ {t} : frame'[s] = frame[s] /\ reply'[s] = reply[s]
  BY <1>1, ReturnOthers, ConsumeSilent
<1>4. pc' = [pc EXCEPT ![t] = "drain"]
  BY <1>3 DEF Goto
<1>5. References'
  <2>1. CallKnown(t)'
    BY <1>2, <1>3, ReturnKnown
  <2>2. QueueKnown'
    BY <1>1 DEF References, QueueKnown
  <2>3. ActiveKnown'
    BY <1>1, <1>2 DEF References, ActiveKnown
  <2> QED BY <1>1, <1>3, <2>1, <2>2, <2>3, OwnStep DEF Labels, Running
<1>6. LesserActive' \in SUBSET (LesserActive \cup {x})
  BY <1>1 DEF LesserActive, Critical
<1>7. LesserSubmitting' \in SUBSET (LesserSubmitting \ {t})
  BY <1>1, <1>3, <1>4 DEF LesserSubmitting, Submitting, Critical, Drainers, TypeOK
<1>8. CASE Critical(frame[t].uid)
  <2>1. LesserActive' \in SUBSET LesserActive
    BY <1>1, <1>2, <1>8 DEF LesserActive, Critical
  <2>2. /\ Cardinality(LesserActive)' <= Cardinality(LesserActive)
        /\ Cardinality(LesserActive)' \in Nat
    BY <2>1, CountsFinite, FS_Subset, FS_CardinalityType
  <2>3. LesserSubmitting' \in SUBSET LesserSubmitting
    BY <1>7
  <2>4. /\ Cardinality(LesserSubmitting)' <= Cardinality(LesserSubmitting)
        /\ Cardinality(LesserSubmitting)' \in Nat
    BY <2>3, CountsFinite, FS_Subset, FS_CardinalityType
  <2> QED BY <1>5, <2>2, <2>4, CountsFinite DEF ActiveBound
<1>9. CASE ~Critical(frame[t].uid)
  <2>1. t \in LesserSubmitting
    BY <1>1, <1>2, <1>9 DEF LesserSubmitting, Submitting
  <2>2. /\ IsFiniteSet(LesserActive \cup {x})
        /\ Cardinality(LesserActive \cup {x}) <= Cardinality(LesserActive) + 1
    <3> HIDE DEF x
    <3>1. /\ IsFiniteSet(LesserActive \cup {x})
          /\ Cardinality(LesserActive \cup {x})
               = IF x \in LesserActive THEN Cardinality(LesserActive)
                                       ELSE Cardinality(LesserActive) + 1
      BY CountsFinite, FS_AddElement
    <3> QED BY <3>1, CountsFinite
  <2>3. /\ Cardinality(LesserActive)' <= Cardinality(LesserActive) + 1
        /\ Cardinality(LesserActive)' \in Nat
    <3>1. /\ Cardinality(LesserActive)' <= Cardinality(LesserActive \cup {x})
          /\ Cardinality(LesserActive)' \in Nat
          /\ Cardinality(LesserActive \cup {x}) \in Nat
      BY <1>6, <2>2, FS_Subset, FS_CardinalityType
    <3> QED BY <2>2, <3>1, CountsFinite
  <2>4. /\ IsFiniteSet(LesserSubmitting \ {t})
        /\ Cardinality(LesserSubmitting \ {t}) = Cardinality(LesserSubmitting) - 1
    BY <2>1, CountsFinite, FS_RemoveElement
  <2>5. /\ Cardinality(LesserSubmitting)' <= Cardinality(LesserSubmitting) - 1
        /\ Cardinality(LesserSubmitting)' \in Nat
    BY <1>7, <2>4, FS_Subset, FS_CardinalityType
  <2> QED BY <1>5, <2>3, <2>5, CountsFinite DEF ActiveBound
<1> QED BY <1>8, <1>9

(* The steps that consume an answer and end outside a call.                *)
LEMMA AnsweredStep ==
  ASSUME TypeOK, TypeOK', References, ActiveBound, NEW t \in Task,
         pc[t] \notin {"idle", "balance"},
         NEW l \in {"idle", "risk", "build", "drain", "scan"},
         Return(t, l), Consume(t),
         made' = made, placed' = placed, xord' = xord,
         \A u \in Uid : order'[u].priority = order[u].priority,
         active' \subseteq active,
         QueueKnown'
  PROVE  References' /\ ActiveBound'
BY Busy, ReturnOthers, ConsumeSilent, RestStep

LEMMA SameQueue ==
  ASSUME References, UNCHANGED <<made, queue>>
  PROVE  QueueKnown'
BY DEF References, QueueKnown

LEMMA DrainSafe ==
  ASSUME TypeOK, TypeOK', References, ActiveBound, NEW t \in Task, Drain(t)
  PROVE  References' /\ ActiveBound'
<1>1. CASE DrainEmpty(t)
  <2>1. /\ pc[t] = "drain"
        /\ UNCHANGED <<made, order, queue, active, reply, placed, xord>>
    BY <1>1 DEF DrainEmpty, At, decisions, exchange
  <2>2. PICK l \in {"scan", "idle"} : Return(t, l)
    BY <1>1, LeaveDrainLabel DEF DrainEmpty
  <2>3. t \in Drainers /\ reply[t].status = "none"
    BY <2>1, Busy, Silenced DEF Calls
  <2> QED BY <2>1, <2>2, <2>3, ReturnOthers, SameQueue, RestStep
<1>2. ASSUME NEW u \in Uid, Defer(t, u)
      PROVE  References' /\ ActiveBound'
  <2>1. /\ pc[t] = "drain" /\ u \in Queued
        /\ queue' = queue \/ queue' = Popped(queue, u)
        /\ UNCHANGED <<made, order, active, reply, placed, xord>>
    BY <1>2 DEF Defer, At, IsHead, decisions, exchange
  <2>2. PICK l \in {"scan", "idle"} : Return(t, l)
    BY <1>2, LeaveDrainLabel DEF Defer
  <2>3. t \in Drainers /\ reply[t].status = "none"
    BY <2>1, Busy, Silenced DEF Calls
  <2>4. QueueKnown'
    BY <2>1, PoppedKnown
  <2> QED BY <2>1, <2>2, <2>3, <2>4, ReturnOthers, RestStep
<1>3. ASSUME NEW u \in Uid, Pop(t, u)
      PROVE  References' /\ ActiveBound'
  BY <1>3, PopSafe
<1>4. CASE CancelPairDone(t)
  <2>1. /\ pc[t] = "cancelpair" /\ active' \subseteq active
        /\ Goto(t, "submit") /\ Consume(t)
        /\ UNCHANGED <<made, order, queue, frame, placed, xord>>
    BY <1>4 DEF CancelPairDone, Answered, At, decisions, exchange
  <2>2. pc'[t] = "submit"
    BY <2>1 DEF Goto, TypeOK
  <2>3. /\ reply'[t].status = "none"
        /\ \A s \in Task \ {t} : reply'[s] = reply[s]
    BY <2>1, ConsumeSilent
  <2>4. CallKnown(t)'
    BY <2>1, <2>2, <2>3, Busy DEF References, CallKnown
  <2>5. ActiveKnown' /\ QueueKnown'
    BY <2>1, SameQueue DEF References, ActiveKnown
  <2>6. References'
    BY <2>1, <2>3, <2>4, <2>5, OwnStep DEF Labels, Running
  <2>7. Calm
    BY <2>1, CalmStep DEF Labels, Running
  <2> QED BY <2>6, <2>7, CalmBound
<1>5. CASE CancelPairRaised(t)
  BY <1>5, Busy, AbortSafe DEF CancelPairRaised, Answered, At
<1>6. CASE Suppress(t)
  <2>1. /\ pc[t] = "submit" /\ Return(t, "drain")
        /\ UNCHANGED <<made, order, queue, active, reply, placed, xord>>
    BY <1>6 DEF Suppress, At, decisions, exchange
  <2>2. t \in Drainers /\ reply[t].status = "none"
    BY <2>1, Busy, Silenced DEF Calls
  <2> QED BY <2>1, <2>2, ReturnOthers, SameQueue, RestStep
<1>7. CASE Submit(t)
  <2>1. /\ pc[t] = "submit" /\ Goto(t, "place")
        /\ UNCHANGED <<made, order, queue, active, reply, placed, xord>>
    BY <1>7 DEF Submit, At, decisions, exchange
  <2>2. /\ frame'[t].uid = frame[t].uid
        /\ \A s \in Task \ {t} : frame'[s] = frame[s]
    BY <1>7 DEF Submit, TypeOK, FrameRec
  <2>3. pc'[t] = "place" /\ t \in Drainers /\ reply[t].status = "none"
    BY <2>1, Busy, Silenced DEF Goto, TypeOK, Calls
  <2>4. CallKnown(t)'
    BY <2>1, <2>2, <2>3 DEF References, CallKnown
  <2>5. ActiveKnown' /\ QueueKnown'
    BY <2>1, SameQueue DEF References, ActiveKnown
  <2>6. References'
    BY <2>1, <2>2, <2>4, <2>5, OwnStep DEF Labels, Calls
  <2>7. Calm
    BY <2>1, <2>2, CalmStep DEF Labels, Calls
  <2> QED BY <2>6, <2>7, CalmBound
<1>8. CASE PlaceFilled(t)
  BY <1>8, SameQueue, AnsweredStep
     DEF PlaceFilled, Answered, At, decisions, exchange
<1>9. CASE PlacePending(t)
  BY <1>9, PlacePendingSafe
<1>10. CASE PlaceFailed(t)
  BY <1>10, SameQueue, AnsweredStep
     DEF PlaceFailed, Answered, At, decisions, exchange
<1> QED BY <1>1, <1>2, <1>3, <1>4, <1>5, <1>6, <1>7, <1>8, <1>9, <1>10 DEF Drain

LEMMA CheckSafe ==
  ASSUME TypeOK, TypeOK', References, ActiveBound, NEW t \in Task, Check(t)
  PROVE  References' /\ ActiveBound'
<1>1. CASE CheckDone(t)
  <2>1. /\ pc[t] = "scan" /\ Return(t, "idle") /\ active' \subseteq active
        /\ UNCHANGED <<made, order, queue, reply, placed, xord>>
    BY <1>1 DEF CheckDone, At, decisions, exchange
  <2>2. t \in Drainers /\ reply[t].status = "none"
    BY <2>1, Busy, Silenced DEF Calls
  <2> QED BY <2>1, <2>2, ReturnOthers, SameQueue, RestStep
<1>2. CASE CheckMutated(t)
  BY <1>2, Busy, AbortSafe DEF CheckMutated, At
<1>3. ASSUME NEW x \in Xid, NEW g \in 0..2, Visit(t, x, g)
      PROVE  References' /\ ActiveBound'
  <2>1. /\ pc[t] = "scan" /\ x \in active
        /\ UNCHANGED <<made, order, queue, active, reply, placed>>
    BY <1>3 DEF Visit, At, Unvisited, decisions
  <2>2. \A y \in Xid : xord'[y].uid = xord[y].uid
    BY <1>3 DEF Visit, TypeOK, XordRec
  <2>3. t \in Drainers /\ reply[t].status = "none"
    BY <2>1, Busy, Silenced DEF Calls
  <2>4. ActiveKnown' /\ QueueKnown'
    BY <2>1, SameQueue DEF References, ActiveKnown
  <2>5. CASE g = 0
    <3>1. Goto(t, "scan") /\ UNCHANGED frame
      BY <1>3, <2>1, <2>5 DEF Visit, Goto, TypeOK
    <3> QED BY <2>1, <2>2, <2>3, <2>4, <3>1, RestStep
  <2>6. CASE g # 0
    <3>1. /\ Goto(t, "query")
          /\ frame' = [frame EXCEPT ![t].xid = x, ![t].late = (g = 2)]
      BY <1>3, <2>6 DEF Visit
    <3>2. frame'[t].xid = x /\ \A s \in Task \ {t} : frame'[s] = frame[s]
      BY <3>1 DEF TypeOK, FrameRec
    <3>3. pc'[t] = "query"
      BY <3>1 DEF Goto, TypeOK
    <3>4. CallKnown(t)'
      BY <2>1, <2>3, <3>2, <3>3 DEF CallKnown, Calls, References, ActiveKnown
    <3>5. References'
      BY <2>1, <2>2, <2>4, <3>1, <3>2, <3>4, OwnStep DEF Labels, Calls
    <3>6. Calm
      BY <2>1, <2>2, <3>1, <3>2, CalmStep DEF Labels, Calls
    <3> QED BY <3>5, <3>6, CalmBound
  <2> QED BY <2>5, <2>6
<1>4. CASE QueryFilled(t)
  BY <1>4, SameQueue, AnsweredStep
     DEF QueryFilled, Answered, At, decisions, exchange
<1>5. CASE QueryUnfilled(t)
  <2>1. /\ pc[t] = "query" /\ Consume(t)
        /\ UNCHANGED <<made, order, queue, active, placed, xord>>
    BY <1>5 DEF QueryUnfilled, Answered, At, decisions, exchange
  <2>2. CASE Return(t, "scan")
    BY <2>1, <2>2, SameQueue, AnsweredStep
  <2>3. CASE Goto(t, "cancel") /\ UNCHANGED frame
    <3>1. /\ reply'[t].status = "none"
          /\ \A s \in Task \ {t} : reply'[s] = reply[s]
      BY <2>1, ConsumeSilent
    <3>2. pc'[t] = "cancel"
      BY <2>3 DEF Goto, TypeOK
    <3>3. CallKnown(t)'
      BY <2>1, <2>3, <3>1, <3>2, Busy DEF References, CallKnown, Calls
    <3>4. ActiveKnown' /\ QueueKnown'
      BY <2>1, SameQueue DEF References, ActiveKnown
    <3>5. References'
      BY <2>1, <2>3, <3>1, <3>3, <3>4, OwnStep DEF Labels, Calls
    <3>6. Calm
      BY <2>1, <2>3, CalmStep DEF Labels, Calls
    <3> QED BY <3>5, <3>6, CalmBound
  <2> QED BY <1>5, <2>2, <2>3 DEF QueryUnfilled
<1>6. CASE QueryFailed(t)
  BY <1>6, Busy, AbortSafe DEF QueryFailed, Answered, At
<1>7. ASSUME TimedOut(t)
      PROVE  /\ pc[t] = "cancel" /\ Consume(t)
             /\ UNCHANGED <<made, active, placed, xord>>
             /\ xord[frame[t].xid].uid \in Uid /\ xord[frame[t].xid].uid <= made
  BY <1>7 DEF TimedOut, Answered, At, exchange, References, CallKnown, OrdersKnown,
              TypeOK, FrameRec, XordRec
<1>8. CASE Escalate(t)
  <2> DEFINE u == xord[frame[t].xid].uid
             now == price[AssetOf(frame[t].xid)]
  <2>1. TimedOut(t) /\ UNCHANGED <<order, queue>>
    BY <1>8 DEF Escalate
  <2>2. QueueKnown' /\ ActiveKnown'
    BY <1>7, <2>1, SameQueue DEF References, ActiveKnown
  <2>3. CASE Return(t, "scan")
    BY <1>7, <2>1, <2>2, <2>3, AnsweredStep
  <2>4. CASE /\ frame' = [frame EXCEPT ![t].uid = u, ![t].px = now,
                                       ![t].qty = Quantity(order[u].usd, now)]
             /\ Goto(t, "market")
    <3>1. /\ reply'[t].status = "none"
          /\ \A s \in Task \ {t} : reply'[s] = reply[s]
      BY <1>7, <2>1, ConsumeSilent
    <3>2. frame'[t].uid = u /\ \A s \in Task \ {t} : frame'[s] = frame[s]
      BY <2>4 DEF TypeOK, FrameRec
    <3>3. pc'[t] = "market"
      BY <2>4 DEF Goto, TypeOK
    <3>4. CallKnown(t)'
      BY <1>7, <2>1, <3>1, <3>2, <3>3, Busy DEF CallKnown, Calls
    <3>5. References'
      BY <1>7, <2>1, <2>2, <2>4, <3>1, <3>2, <3>4, OwnStep DEF Labels, Calls
    <3>6. Calm
      BY <1>7, <2>1, <2>4, <3>2, CalmStep DEF Labels, Calls
    <3> QED BY <3>5, <3>6, CalmBound
  <2> QED BY <1>8, <2>3, <2>4 DEF Escalate
<1>9. CASE Abandon(t)
  <2>1. TimedOut(t) /\ Return(t, "scan") /\ UNCHANGED <<order, queue>>
    BY <1>9 DEF Abandon
  <2> QED BY <1>7, <2>1, SameQueue, AnsweredStep
<1>10. CASE Resubmit(t)
  <2> DEFINE u == xord[frame[t].xid].uid
  <2>1. TimedOut(t) /\ Return(t, "scan")
    BY <1>10 DEF Resubmit
  <2>2. queue' = Added(queue, u) \/ queue' = queue
    BY <1>10 DEF Resubmit
  <2>3. \A v \in Uid : order'[v].priority = order[v].priority
    <3>1. order' = [order EXCEPT ![u].resub = xord[frame[t].xid].resub + 1]
      BY <1>10 DEF Resubmit
    <3>2. order \in [Uid -> OrderRec]
      BY DEF TypeOK
    <3> QED BY ONLY <3>1, <3>2 DEF OrderRec
  <2>4. u \in Uid /\ u <= made /\ made' = made
    BY <1>7, <2>1
  <2>5. QueueKnown'
    BY <2>2, <2>4 DEF Added, References, QueueKnown, TypeOK
  <2> QED BY <1>7, <2>1, <2>3, <2>5, AnsweredStep
<1>11. CASE CancelRaised(t)
  BY <1>11, Busy, AbortSafe DEF CancelRaised, Answered, At
<1>12. CASE MarketFilled(t)
  BY <1>12, SameQueue, AnsweredStep
     DEF MarketFilled, Answered, At, decisions, exchange
<1>13. CASE MarketFailed(t)
  BY <1>13, SameQueue, AnsweredStep
     DEF MarketFailed, Answered, At, decisions, exchange
<1> QED BY <1>1, <1>2, <1>3, <1>4, <1>5, <1>6, <1>8, <1>9, <1>10, <1>11, <1>12,
           <1>13 DEF Check

LEMMA RebalanceSafe ==
  ASSUME TypeOK, TypeOK', References, ActiveBound, NEW t \in Task, Rebalance(t)
  PROVE  References' /\ ActiveBound'
\* the steps of the sweep that end before the orders are built
<1>0. ASSUME pc[t] \notin {"idle", "balance"}, Goto(t, "build"), Consume(t),
             frame' = [frame EXCEPT ![t].qty = made],
             UNCHANGED <<made, order, queue, active, placed, xord>>
      PROVE  References' /\ ActiveBound'
  <2>1. \A s \in Task \ {t} : frame'[s] = frame[s]
    BY <1>0 DEF TypeOK
  <2> QED BY <1>0, <2>1, Busy, ConsumeSilent, SameQueue, RestStep
\* the steps that go on to another call
<1>1. ASSUME NEW c \in {"pending", "sweepcancel", "sweepbalance"}, Goto(t, c),
             t \in Drainers, UNCHANGED frame,
             \A s \in Task \ {t} : reply'[s] = reply[s],
             UNCHANGED <<made, order, queue, active, placed, xord>>
      PROVE  References' /\ ActiveBound'
  <2>1. pc'[t] = c
    BY <1>1 DEF Goto, TypeOK
  <2>2. CallKnown(t)'
    BY <1>1, <2>1 DEF CallKnown, Calls
  <2>3. ActiveKnown' /\ QueueKnown'
    BY <1>1, SameQueue DEF References, ActiveKnown
  <2>4. References'
    BY <1>1, <2>2, <2>3, OwnStep DEF Labels, Calls
  <2>5. Calm
    BY <1>1, CalmStep DEF Labels, Calls
  <2> QED BY <2>4, <2>5, CalmBound
<1>2. CASE StartRebalance(t)
  <2>1. /\ t \in Drainers /\ Goto(t, "pending")
        /\ UNCHANGED <<made, order, queue, active, frame, reply, placed, xord>>
    BY <1>2 DEF StartRebalance, Drainers, decisions, exchange
  <2> QED BY <1>1, <2>1
<1>3. CASE SweepFailed(t)
  <2>1. /\ pc[t] \in {"pending", "sweepcancel", "sweepbalance"}
        /\ Goto(t, "build") /\ Consume(t)
        /\ frame' = [frame EXCEPT ![t].qty = made]
        /\ UNCHANGED <<made, order, queue, active, placed, xord>>
    BY <1>3 DEF SweepFailed, Answered, At, decisions, exchange
  <2> QED BY <1>0, <2>1
<1>4. CASE PendingDone(t)
  <2>1. /\ pc[t] = "pending" /\ Consume(t)
        /\ UNCHANGED <<made, order, queue, active, placed, xord>>
    BY <1>4 DEF PendingDone, Answered, At, decisions, exchange
  <2>2. \/ Goto(t, "build") /\ frame' = [frame EXCEPT ![t].qty = made]
        \/ Goto(t, "sweepcancel") /\ UNCHANGED frame
    BY <1>4 DEF PendingDone
  <2> QED BY <1>0, <1>1, <2>1, <2>2, Busy, ConsumeSilent
<1>5. CASE SweepCancelDone(t)
  <2>1. /\ pc[t] = "sweepcancel" /\ Consume(t)
        /\ UNCHANGED <<made, order, queue, active, frame, placed, xord>>
    BY <1>5 DEF SweepCancelDone, Answered, At, decisions, exchange
  <2>2. \E c \in {"sweepbalance", "sweepcancel"} : Goto(t, c)
    BY <1>5 DEF SweepCancelDone
  <2> QED BY <1>1, <2>1, <2>2, Busy, ConsumeSilent
<1>6. CASE SweepBalanceDone(t)
  <2>1. /\ pc[t] = "sweepbalance" /\ Goto(t, "build") /\ Consume(t)
        /\ frame' = [frame EXCEPT ![t].qty = made]
        /\ UNCHANGED <<made, order, queue, active, placed, xord>>
    BY <1>6 DEF SweepBalanceDone, Answered, At, decisions, exchange
  <2> QED BY <1>0, <2>1
<1>7. CASE BuildDone(t)
  <2>1. /\ pc[t] = "build" /\ Return(t, "drain")
        /\ UNCHANGED <<made, order, queue, active, reply, placed, xord>>
    BY <1>7 DEF BuildDone, At, decisions, exchange
  <2>2. t \in Drainers /\ reply[t].status = "none"
    BY <2>1, Busy, Silenced DEF Calls
  <2> QED BY <2>1, <2>2, ReturnOthers, SameQueue, RestStep
<1>8. ASSUME NEW a \in Asset, NEW side \in {"BUY", "SELL"}, NEW usd \in Sizes,
             Build(t, a, side, usd)
      PROVE  References' /\ ActiveBound'
  <2>1. PICK priority : Create(a, side, priority, usd, "rebalance")
    BY <1>8 DEF Build
  <2>2. UNCHANGED <<active, pc, frame, reply, exchange>>
    BY <1>8 DEF Build
  <2>3. References' /\ \A u \in Uid : u <= made => order'[u] = order[u]
    BY <2>1, <2>2, CreateKnown
  <2>4. Calm
    BY <2>2, <2>3 DEF Calm, Submitting, exchange
  <2> QED BY <2>3, <2>4, CalmBound
<1> QED BY <1>2, <1>3, <1>4, <1>5, <1>6, <1>7, <1>8 DEF Rebalance

(* The exchange accepts orders of known decisions, and tells the job that  *)
(* placed one its own order's id.                                          *)
LEMMA ExchangeStep ==
  ASSUME TypeOK, TypeOK', References, ActiveBound, NEW t \in Task, pc[t] \in Calls,
         UNCHANGED Client,
         \A s \in Task \ {t} : reply'[s] = reply[s],
         placed <= placed',
         \A x \in Xid : x <= placed => xord'[x].uid = xord[x].uid,
         \A x \in Xid : placed < x /\ x <= placed' => xord'[x].uid <= made,
         pc[t] = "place" /\ reply'[t].status = "ok"
           => reply'[t].xid <= placed' /\ xord'[reply'[t].xid].uid = frame[t].uid
  PROVE  References' /\ ActiveBound'
<1>1. UNCHANGED <<made, order, queue, active, pc, frame>>
  BY DEF Client, decisions
<1>2. placed \in Int /\ placed' \in Int /\ Xid \subseteq Int
  BY DEF TypeOK, Xid
<1>3. QueueKnown'
  BY <1>1, SameQueue
<1>4. OrdersKnown' /\ ActiveKnown'
  BY <1>1, <1>2 DEF References, OrdersKnown, ActiveKnown, TypeOK
<1>5. ASSUME NEW s \in Task
      PROVE  CallKnown(s)'
  <2>1. CallKnown(s)
    BY DEF References
  <2>2. frame[s].xid \in Int /\ reply[s].xid \in Xid /\ reply[s].xid \in Int
    BY <1>2 DEF TypeOK, FrameRec, ReplyRec
  <2>3. pc[s] \notin Calls => reply'[s].status = "none"
    BY <2>1 DEF CallKnown
  <2>4. pc[s] \in {"query", "cancel"} => frame[s].xid <= placed'
    BY <1>2, <2>1, <2>2 DEF CallKnown
  <2>5. pc[s] = "place" /\ reply'[s].status = "ok"
          => reply'[s].xid <= placed' /\ xord'[reply'[s].xid].uid = frame[s].uid
    <3>1. CASE s = t
      BY <3>1
    <3>2. CASE s # t
      BY <1>2, <2>1, <2>2, <3>2 DEF CallKnown
    <3> QED BY <3>1, <3>2
  <2> QED BY <1>1, <2>1, <2>3, <2>4, <2>5 DEF CallKnown
<1>6. Calm
  BY <1>1 DEF Calm, Submitting, References, ActiveKnown, TypeOK
<1> QED BY <1>3, <1>4, <1>5, <1>6, CalmBound DEF References

LEMMA AnswerOthers ==
  ASSUME TypeOK, NEW t \in Task, NEW r, Answer(t, r)
  PROVE  /\ \A s \in Task \ {t} : reply'[s] = reply[s]
         /\ reply'[t] = r \/ reply'[t].status = "raised"
BY DEF Answer, TypeOK, Silent

LEMMA PlacedKnown ==
  ASSUME TypeOK, References, NEW t \in Task, pc[t] \in {"place", "market"},
         Affordable(t), NEW status \in {"open", "filled"}, NEW done \in Nat,
         NewOrder(t, status, done)
  PROVE  /\ placed + 1 \in Xid /\ placed' = placed + 1 /\ placed <= placed'
         /\ \A x \in Xid : x <= placed => xord'[x].uid = xord[x].uid
         /\ xord'[placed + 1].uid = frame[t].uid
         /\ \A x \in Xid : placed < x /\ x <= placed' => xord'[x].uid <= made
<1>1. placed + 1 \in Xid /\ placed' = placed + 1 /\ placed \in Nat
  <2>1. placed + 1 \in Xid
    BY NewOrderType
  <2> QED BY <2>1 DEF NewOrder, TypeOK
<1>2. xord' = [xord EXCEPT ![placed + 1] =
                [uid |-> frame[t].uid, px |-> frame[t].px, qty |-> frame[t].qty,
                 done |-> done, resub |-> order[frame[t].uid].resub, age |-> 0,
                 status |-> status]]
  BY DEF NewOrder
<1>3. xord'[placed + 1].uid = frame[t].uid
        /\ \A x \in Xid \ {placed + 1} : xord'[x] = xord[x]
  BY <1>1, <1>2 DEF TypeOK
<1>4. frame[t].uid <= made
  BY DEF References, CallKnown
<1>5. \A x \in Xid : placed < x /\ x <= placed' => x = placed + 1
  BY <1>1 DEF Xid
<1>6. \A x \in Xid : x <= placed => x # placed + 1
  BY <1>1 DEF Xid
<1> QED BY <1>1, <1>3, <1>4, <1>5, <1>6

LEMMA ServeSafe ==
  ASSUME TypeOK, TypeOK', References, ActiveBound, NEW t \in Task, Serve(t)
  PROVE  References' /\ ActiveBound'
<1> placed \in Nat
  BY DEF TypeOK
\* the calls that leave the ids of the exchange's orders alone
<1>0. ASSUME NEW r, Answer(t, r), pc[t] \in Calls, pc[t] # "place",
             UNCHANGED Client, UNCHANGED placed,
             \A x \in Xid : xord'[x].uid = xord[x].uid
      PROVE  References' /\ ActiveBound'
  BY <1>0, AnswerOthers, ExchangeStep DEF Xid
<1>1. CASE XPlaceOpen(t)
  <2>1. /\ pc[t] = "place" /\ Affordable(t) /\ NewOrder(t, "open", 0)
        /\ Answer(t, [Done EXCEPT !.xid = placed + 1]) /\ UNCHANGED Client
    BY <1>1 DEF XPlaceOpen, Pending
  <2>2. reply'[t].status = "ok" => reply'[t].xid = placed + 1
    BY <2>1, AnswerOthers, DoneType DEF ReplyRec
  <2> QED BY <2>1, <2>2, AnswerOthers, PlacedKnown, ExchangeStep DEF Calls
<1>2. CASE XPlaceFilled(t)
  <2>1. /\ pc[t] \in {"place", "market"} /\ Affordable(t)
        /\ NewOrder(t, "filled", frame[t].qty) /\ frame[t].qty \in Nat
        /\ Answer(t, [Done EXCEPT !.xid = placed + 1, !.qty = frame[t].qty])
        /\ UNCHANGED Client
    BY <1>2 DEF XPlaceFilled, Pending, TypeOK, FrameRec
  <2>2. reply'[t].status = "ok" => reply'[t].xid = placed + 1
    <3> DEFINE r == [Done EXCEPT !.xid = placed + 1, !.qty = frame[t].qty]
    <3>1. r.xid = placed + 1
      BY DoneType DEF ReplyRec
    <3> HIDE DEF r
    <3>2. reply'[t] = r \/ reply'[t].status = "raised"
      BY <2>1, AnswerOthers DEF r
    <3> QED BY <3>1, <3>2
  <2> QED BY <2>1, <2>2, AnswerOthers, PlacedKnown, ExchangeStep DEF Calls
<1>3. ASSUME NEW status \in {"refused", "raised"},
             reply' = [reply EXCEPT ![t] = [Silent EXCEPT !.status = status]],
             pc[t] \in Calls, UNCHANGED <<Client, exchange>>
      PROVE  References' /\ ActiveBound'
  <2>1. reply'[t].status = status /\ \A s \in Task \ {t} : reply'[s] = reply[s]
    BY <1>3 DEF TypeOK, Silent
  <2> QED BY <1>3, <2>1, ExchangeStep DEF exchange, Xid
<1>4. CASE XReject(t)
  BY <1>3, <1>4 DEF XReject, Pending, Calls
<1>5. ASSUME NEW status \in {"refused", "raised"}, XFail(t, status)
      PROVE  References' /\ ActiveBound'
  BY <1>3, <1>5 DEF XFail
<1>6. ASSUME NEW S, xord' = Cancelled(S)
      PROVE  \A x \in Xid : xord'[x].uid = xord[x].uid
  BY <1>6 DEF Cancelled, TypeOK, XordRec
<1>7. CASE XCancelPair(t)
  BY <1>0, <1>6, <1>7 DEF XCancelPair, Pending, Calls
<1>8. ASSUME NEW a \in Asset, XSweepCancel(t, a)
      PROVE  References' /\ ActiveBound'
  BY <1>0, <1>6, <1>8 DEF XSweepCancel, Pending, Calls
<1>9. CASE XCancel(t)
  BY <1>0, <1>6, <1>9 DEF XCancel, Pending, Calls
<1>10. CASE XQuery(t)
  BY <1>0, <1>10 DEF XQuery, Pending, Calls, exchange
<1>11. CASE XPending(t)
  BY <1>0, <1>11 DEF XPending, Pending, Calls, exchange
<1>12. CASE XBalance(t)
  BY <1>0, <1>12 DEF XBalance, Pending, Calls, exchange
<1> QED BY <1>1, <1>2, <1>4, <1>5, <1>7, <1>8, <1>9, <1>10, <1>11, <1>12 DEF Serve

LEMMA FillSafe ==
  ASSUME TypeOK, TypeOK', References, ActiveBound, NEW x \in Xid,
         NEW q \in 1..Left(x), Fill(x, q)
  PROVE  References' /\ ActiveBound'
<1>1. UNCHANGED <<made, order, queue, active, pc, frame, reply, placed>>
  BY DEF Fill, Client, decisions
<1>2. \A y \in Xid : xord'[y].uid = xord[y].uid
  BY DEF Fill, TypeOK, XordRec
<1>3. QueueKnown' /\ OrdersKnown' /\ ActiveKnown'
  BY <1>1, <1>2, SameQueue DEF References, OrdersKnown, ActiveKnown
<1>4. ASSUME NEW s \in Task
      PROVE  CallKnown(s)'
  <2>1. CallKnown(s) /\ reply[s].xid \in Xid
    BY DEF References, TypeOK, ReplyRec
  <2> QED BY <1>1, <1>2, <2>1 DEF CallKnown
<1>5. Calm
  BY <1>1, <1>2 DEF Calm, Submitting, TypeOK
<1> QED BY <1>3, <1>4, <1>5, CalmBound DEF References

LEMMA StutterSafe ==
  ASSUME References, ActiveBound, UNCHANGED vars
  PROVE  References' /\ ActiveBound'
BY DEF vars, decisions, exchange, References, QueueKnown, OrdersKnown, ActiveKnown,
       CallKnown, ActiveBound, LesserActive, LesserSubmitting, Submitting, Critical

LEMMA NextSafe ==
  ASSUME TypeOK, TypeOK', References, ActiveBound, [Next]_vars
  PROVE  References' /\ ActiveBound'
BY RiskSafe, DrainSafe, CheckSafe, RebalanceSafe, MonitorSafe, ServeSafe,
   FillSafe, StutterSafe DEF Next

LEMMA InitBound ==
  ASSUME Init
  PROVE  ActiveBound
<1>1. TypeOK
  BY InitType
<1>2. LesserActive = {} /\ LesserSubmitting = {}
  BY DEF Init, LesserActive, LesserSubmitting, Submitting, Drainers
<1>3. Cardinality(LesserActive) = 0 /\ Cardinality(LesserSubmitting) = 0
  BY <1>2, FS_EmptySet
<1> QED BY <1>1, <1>3, CountsFinite DEF ActiveBound

(* Whatever the failures, the lost answers and the interleavings, the      *)
(* orders that process_queue tracks or submits under the cap exceed it by  *)
(* at most the number of jobs that drain the queue, less one; with a       *)
(* single job the cap is exact.                                            *)
THEOREM CapOvershoot == Spec => []ActiveBound
<1> DEFINE IInv == TypeOK /\ References /\ ActiveBound
<1>1. Init => IInv
  BY InitType, InitReferences, InitBound
<1>2. IInv /\ [Next]_vars => IInv'
  BY NextType, NextSafe
<1>3. IInv => ActiveBound
  OBVIOUS
<1> QED BY <1>1, <1>2, <1>3, PTL DEF Spec

-----------------------------------------------------------------------------
(* The drain of the queue.                                                 *)

(* The head of the queue is CRITICAL if any order in it is: the order of   *)
(* the list is first by priority.                                          *)
LEMMA HeadCritical ==
  ASSUME TypeOK, NEW u \in Uid, IsHead(u), NEW v \in Queued, Critical(v)
  PROVE  Critical(u)
<1>1. order[u].priority \in 0..3 /\ order[v].priority = 0 /\ Before(u, v)
  BY DEF TypeOK, OrderRec, IsHead, Queued, Critical, CRITICAL_EXIT
<1> QED BY <1>1 DEF Before, Critical, CRITICAL_EXIT

(* A job that stands in the drain leaves it in one of three ways.          *)
LEMMA DrainExits ==
  ASSUME TypeOK, NEW t \in Task, pc[t] = "drain", Step(t)
  PROVE  DrainEmpty(t) \/ \E u \in Uid : Defer(t, u) \/ Pop(t, u)
<1>1. ~Risk(t)
  BY DEF Risk, StartTick, RiskDone, RiskExit, At
<1>2. ~Check(t)
  BY DEF Check, CheckDone, CheckMutated, Visit, QueryFilled, QueryUnfilled,
         QueryFailed, Escalate, Abandon, Resubmit, TimedOut, CancelRaised,
         MarketFilled, MarketFailed, Answered, At
<1>3. ~Rebalance(t)
  BY DEF Rebalance, StartRebalance, SweepFailed, PendingDone, SweepCancelDone,
         SweepBalanceDone, Build, BuildDone, Answered, At
<1>4. ~Monitor(t)
  BY DEF Monitor, StartMonitor, BalanceDone, Answered, At
<1> QED BY <1>1, <1>2, <1>3, <1>4
        DEF Step, Drain, CancelPairDone, CancelPairRaised, Suppress, Submit,
            PlaceFilled, PlacePending, PlaceFailed, Answered, At

(* The other jobs and the exchange do not move a job that is in the drain: *)
(* it holds the event loop.                                                *)
LEMMA DrainHoldsLoop ==
  ASSUME TypeOK, NEW t \in Task, pc[t] = "drain"
  PROVE  /\ \A s \in Task \ {t} : ~Step(s)
         /\ \A s \in Task : ~Serve(s)
         /\ \A x \in Xid : \A q \in 1..Left(x) : ~Fill(x, q)
<1>1. ~LoopFree
  BY DEF LoopFree, Running
<1>2. ASSUME NEW s \in Task \ {t}, NEW l
      PROVE  ~At(s, l)
  BY DEF At, HasLoop, Running
<1>3. ASSUME NEW s \in Task \ {t}
      PROVE  ~Step(s)
  <2>1. ~Risk(s) /\ ~Rebalance(s) /\ ~Monitor(s)
    BY <1>2 DEF Risk, StartTick, RiskDone, RiskExit,
                Rebalance, StartRebalance, SweepFailed, PendingDone,
                SweepCancelDone, SweepBalanceDone, Build, BuildDone,
                Monitor, StartMonitor, BalanceDone, Answered
  <2>2. ~Drain(s)
    BY <1>2 DEF Drain, DrainEmpty, Defer, Pop, CancelPairDone, CancelPairRaised,
                Suppress, Submit, PlaceFilled, PlacePending, PlaceFailed, Answered
  <2>3. ~Check(s)
    BY <1>2 DEF Check, CheckDone, CheckMutated, Visit, QueryFilled, QueryUnfilled,
                QueryFailed, Escalate, Abandon, Resubmit, TimedOut, CancelRaised,
                MarketFilled, MarketFailed, Answered
  <2> QED BY <2>1, <2>2, <2>3 DEF Step
<1>4. ASSUME NEW s \in Task
      PROVE  ~Serve(s)
  BY <1>1 DEF Serve, XPlaceOpen, XPlaceFilled, XReject, XFail, XCancelPair,
              XSweepCancel, XCancel, XQuery, XPending, XBalance, Pending
<1>5. \A x \in Xid : \A q \in 1..Left(x) : ~Fill(x, q)
  BY <1>1 DEF Fill
<1> QED BY <1>3, <1>4, <1>5

(* process_queue does not end while a CRITICAL exit is queued, whatever    *)
(* the cap and however full the queue: the order that the cap defers is    *)
(* the head, so it is not CRITICAL, and neither is any order behind it.    *)
THEOREM CriticalFirst == Spec => CriticalDrained
<1> DEFINE Leaves(t) == pc[t] = "drain" /\ pc'[t] \in {"scan", "idle"}
           A == \A t \in Task : Leaves(t) => \A u \in Queued : ~Critical(u)
<1>1. TypeOK /\ [Next]_vars => [A]_vars
  <2> SUFFICES ASSUME TypeOK, Next, NEW t \in Task, Leaves(t), NEW v \in Queued,
                      Critical(v)
               PROVE  FALSE
    OBVIOUS
  <2>1. Step(t)
    BY DrainHoldsLoop DEF Next, Step
  <2>2. CASE DrainEmpty(t)
    BY <2>2 DEF DrainEmpty
  <2>3. ASSUME NEW u \in Uid, Defer(t, u)
        PROVE  FALSE
    BY <2>3, HeadCritical DEF Defer, AtCap, Critical
  <2>4. ASSUME NEW u \in Uid, Pop(t, u)
        PROVE  FALSE
    BY <2>4 DEF Pop, Goto, TypeOK
  <2> QED BY <2>1, <2>2, <2>3, <2>4, DrainExits
<1>2. Spec => [][A]_vars
  BY TypeCorrect, <1>1, PTL DEF Spec
<1> QED BY <1>2 DEF CriticalDrained
-----------------------------------------------------------------------------
(* One place for each decision.  While polls are answered, a decision is in*)
(* one place at a time: in the queue once, being submitted, or tracked as  *)
(* one order that the poll has not yet dealt with (OneToken).  With it go  *)
(* the number of limit orders the exchange has accepted for it (Attempts)  *)
(* and, if cancels are accepted, the one that may be open (Live).          *)

Tracked  == active \ toRemove
Checking == {"scan", "query", "cancel", "market"}
Sweeping == {"pending", "sweepcancel", "sweepbalance", "build"}

(* The poll visits what is tracked when it began, and is not interrupted.  *)
PollKnown ==
  /\ \A t \in Task : pc[t] \in Checking =>
       seen \subseteq active /\ toRemove \subseteq seen /\ size = Cardinality(active)
  /\ (\A t \in Task : pc[t] \notin Checking) => toRemove = {}
  /\ \A t \in Task : pc[t] \in {"query", "cancel"} => frame[t].xid \in seen \ toRemove
  /\ \A t \in Task : /\ pc[t] = "query" => ~Failed(t)
                     /\ pc[t] = "cancel" => reply[t].status # "raised"
                     /\ pc[t] \notin Sweeping

\* a job with an order it has not placed, and one whose order was accepted
Awaiting(t) == t \in Submitting /\ (pc[t] = "place" => reply[t].status = "none")
Accepted(t) == pc[t] = "place" /\ reply[t].status = "ok" /\ reply[t].qty = 0

OneToken ==
  /\ \A u \in Uid : queue[u] <= 1
  /\ \A u \in Queued : /\ \A x \in Tracked : xord[x].uid # u
                       /\ \A t \in Submitting : frame[t].uid # u
  /\ \A t \in Submitting, x \in Tracked : xord[x].uid # frame[t].uid
  /\ \A x, y \in Tracked : xord[x].uid = xord[y].uid => x = y
  /\ \A t \in Task : pc[t] = "market" =>
       /\ queue[frame[t].uid] = 0
       /\ \A x \in Tracked : xord[x].uid # frame[t].uid

AtMost(u, n) == Cardinality(Limits(u)) <= n

Attempts ==
  /\ \A u \in Queued : AtMost(u, order[u].resub) /\ order[u].resub < MaxResub
  /\ \A t \in Task : Awaiting(t) => /\ AtMost(frame[t].uid, order[frame[t].uid].resub)
                                    /\ order[frame[t].uid].resub < MaxResub
  /\ \A x \in Tracked : AtMost(xord[x].uid, xord[x].resub + 1)
  /\ \A t \in Task : Accepted(t) => AtMost(frame[t].uid, xord[reply[t].xid].resub + 1)
  /\ \A x \in Xid : x > placed => xord[x].status = "none"

Live ==
  \A y \in Open :
    /\ queue[xord[y].uid] = 0
    /\ \A t \in Task : Awaiting(t) => xord[y].uid # frame[t].uid
    /\ \A x \in Tracked \cup Open : xord[x].uid = xord[y].uid => x = y
    /\ \A t \in Task : Accepted(t) /\ xord[y].uid = frame[t].uid => y = reply[t].xid

(* A step that brings no decision to a new place can only lose some.       *)
SameOrders ==
  /\ placed' = placed
  /\ \A x \in Xid : /\ xord'[x].uid = xord[x].uid /\ xord'[x].resub = xord[x].resub
                    /\ xord'[x].status = "none" <=> xord[x].status = "none"
                    /\ xord'[x].status = "open" => xord[x].status = "open"

Quiet ==
  /\ SameOrders
  /\ \A u \in Uid : queue'[u] <= queue[u]
  /\ \A u \in Queued' : order'[u].resub = order[u].resub
  /\ Tracked' \subseteq Tracked
  /\ \A t \in Submitting' : t \in Submitting /\ frame'[t].uid = frame[t].uid
  /\ \A t \in Task : /\ Awaiting(t)' => /\ Awaiting(t)
                                        /\ order'[frame[t].uid].resub = order[frame[t].uid].resub
                     /\ Accepted(t)' => Accepted(t) /\ reply'[t].xid = reply[t].xid
                     /\ pc'[t] = "market" => pc[t] = "market" /\ frame'[t].uid = frame[t].uid

LEMMA SameLimits ==
  ASSUME SameOrders
  PROVE  \A u \in Uid : Limits(u)' = Limits(u)
BY DEF SameOrders, Limits

LEMMA QuietToken ==
  ASSUME TypeOK, TypeOK', OneToken, Quiet
  PROVE  OneToken'
<1>1. Tracked' \subseteq Tracked /\ Tracked \subseteq Xid
  BY DEF Quiet, Tracked, TypeOK
<1>2. Queued' \subseteq Queued
  <2>1. \A u \in Uid : queue[u] \in Nat /\ queue'[u] \in Nat /\ queue'[u] <= queue[u]
    BY DEF TypeOK, Quiet
  <2> QED BY <2>1 DEF Queued
<1>3. \A x \in Xid : xord'[x].uid = xord[x].uid
  BY DEF Quiet, SameOrders
<1>4. \A u \in Uid : queue'[u] <= 1
  BY DEF OneToken, Quiet, TypeOK
<1>5. \A u \in Queued' : /\ \A x \in Tracked' : xord'[x].uid # u
                         /\ \A t \in Submitting' : frame'[t].uid # u
  BY <1>1, <1>2, <1>3 DEF OneToken, Quiet
<1>6. \A t \in Submitting', x \in Tracked' : xord'[x].uid # frame'[t].uid
  BY <1>1, <1>3 DEF OneToken, Quiet
<1>7. \A x, y \in Tracked' : xord'[x].uid = xord'[y].uid => x = y
  BY <1>1, <1>3 DEF OneToken
<1>8. ASSUME NEW t \in Task, pc'[t] = "market"
      PROVE  queue'[frame'[t].uid] = 0 /\ \A x \in Tracked' : xord'[x].uid # frame'[t].uid
  <2>1. pc[t] = "market" /\ frame'[t].uid = frame[t].uid /\ frame[t].uid \in Uid
    BY <1>8 DEF Quiet, TypeOK, FrameRec
  <2>2. queue'[frame[t].uid] <= 0 /\ queue'[frame[t].uid] \in Nat
    BY <2>1 DEF OneToken, Quiet, TypeOK
  <2> QED BY <1>1, <1>3, <2>1, <2>2 DEF OneToken
<1> QED BY <1>4, <1>5, <1>6, <1>7, <1>8 DEF OneToken

LEMMA QuietAttempts ==
  ASSUME TypeOK, TypeOK', References, Attempts, Quiet
  PROVE  Attempts'
<1>1. \A u \in Uid : \A n : AtMost(u, n)' <=> AtMost(u, n)
  BY SameLimits DEF AtMost, Quiet
<1>2. Queued' \subseteq Queued
  <2>1. \A u \in Uid : queue[u] \in Nat /\ queue'[u] \in Nat /\ queue'[u] <= queue[u]
    BY DEF TypeOK, Quiet
  <2> QED BY <2>1 DEF Queued
<1>3. Tracked' \subseteq Tracked /\ Tracked \subseteq Xid /\ Queued \subseteq Uid
  BY DEF Quiet, Tracked, TypeOK, Queued
<1>4. \A x \in Xid : xord'[x].uid = xord[x].uid /\ xord'[x].resub = xord[x].resub
                       /\ xord[x].uid \in Uid
  BY DEF Quiet, SameOrders, TypeOK, XordRec
<1>5. \A u \in Queued' : AtMost(u, order[u].resub)' /\ order'[u].resub < MaxResub
  BY <1>1, <1>2, <1>3 DEF Attempts, Quiet
<1>6. ASSUME NEW t \in Task, Awaiting(t)'
      PROVE  AtMost(frame[t].uid, order[frame[t].uid].resub)' /\ order'[frame'[t].uid].resub < MaxResub
  <2>1. /\ Awaiting(t) /\ frame'[t].uid = frame[t].uid /\ frame[t].uid \in Uid
        /\ order'[frame[t].uid].resub = order[frame[t].uid].resub
    BY <1>6 DEF Quiet, Awaiting, TypeOK, FrameRec
  <2> QED BY <1>1, <2>1 DEF Attempts
<1>7. \A x \in Tracked' : AtMost(xord[x].uid, xord[x].resub + 1)'
  BY <1>1, <1>3, <1>4 DEF Attempts
<1>8. ASSUME NEW t \in Task, Accepted(t)'
      PROVE  AtMost(frame[t].uid, xord[reply[t].xid].resub + 1)'
  <2>1. Accepted(t) /\ reply'[t].xid = reply[t].xid /\ reply[t].xid \in Xid
    BY <1>8 DEF Quiet, TypeOK, ReplyRec
  <2>2. t \in Submitting'
    BY <1>8, Busy, <2>1 DEF Accepted, Submitting
  <2>3. frame'[t].uid = frame[t].uid /\ frame[t].uid \in Uid
    BY <2>2 DEF Quiet, TypeOK, FrameRec
  <2> QED BY <1>1, <1>4, <2>1, <2>3 DEF Attempts
<1>9. \A x \in Xid : x > placed' => xord'[x].status = "none"
  BY DEF Attempts, Quiet, SameOrders
<1> QED BY <1>5, <1>6, <1>7, <1>8, <1>9 DEF Attempts

LEMMA QuietLive ==
  ASSUME TypeOK, TypeOK', References, Live, Quiet
  PROVE  Live'
<1>1. Tracked' \subseteq Tracked /\ Tracked \subseteq Xid /\ Open' \subseteq Open /\ Open \subseteq Xid
  BY DEF Quiet, SameOrders, Tracked, TypeOK, Open
<1>2. \A x \in Xid : xord'[x].uid = xord[x].uid /\ xord[x].uid \in Uid
  BY DEF Quiet, SameOrders, TypeOK, XordRec
<1> SUFFICES ASSUME NEW y \in Open'
             PROVE  /\ queue'[xord[y].uid] = 0
                    /\ \A t \in Task : Awaiting(t)' => xord[y].uid # frame'[t].uid
                    /\ \A x \in Tracked' \cup Open' : xord[x].uid = xord[y].uid => x = y
                    /\ \A t \in Task : Accepted(t)' /\ xord[y].uid = frame'[t].uid
                                         => y = reply'[t].xid
  BY <1>1, <1>2 DEF Live
<1>3. y \in Open /\ xord[y].uid \in Uid
  BY <1>1, <1>2
<1>4. queue'[xord[y].uid] = 0
  <2>1. queue'[xord[y].uid] <= queue[xord[y].uid] /\ queue'[xord[y].uid] \in Nat
    BY <1>3 DEF Quiet, TypeOK
  <2> QED BY <1>3, <2>1 DEF Live
<1>5. ASSUME NEW t \in Task, Awaiting(t)'
      PROVE  xord[y].uid # frame'[t].uid
  BY <1>3, <1>5 DEF Live, Quiet, Awaiting
<1>6. \A x \in Tracked' \cup Open' : xord[x].uid = xord[y].uid => x = y
  BY <1>1, <1>3 DEF Live
<1>7. ASSUME NEW t \in Task, Accepted(t)', xord[y].uid = frame'[t].uid
      PROVE  y = reply'[t].xid
  <2>1. Accepted(t) /\ reply'[t].xid = reply[t].xid
    BY <1>7 DEF Quiet
  <2>2. t \in Submitting'
    BY <1>7, Busy, <2>1 DEF Accepted, Submitting
  <2>3. frame'[t].uid = frame[t].uid
    BY <2>2 DEF Quiet
  <2> QED BY <1>3, <1>7, <2>1, <2>3 DEF Live
<1> QED BY <1>4, <1>5, <1>6, <1>7

(* What a step must show: the places, and the open orders if cancels work. *)
CancelKnown == \A t \in Task :
  /\ pc[t] = "cancel" \/ (pc[t] = "query" /\ frame[t].late)
       => xord[frame[t].xid].age = 2
  /\ pc[t] = "cancel" /\ reply[t].status \notin {"none", "raised"}
       => xord[frame[t].xid].status # "open"

Places == PollKnown /\ OneToken /\ Attempts
PlacesKept == Places' /\ (Live /\ CancelKnown => Live')

LEMMA QuietKept ==
  ASSUME TypeOK, TypeOK', References, Places, Quiet, PollKnown'
  PROVE  PlacesKept
BY QuietToken, QuietAttempts, QuietLive DEF Places, PlacesKept

(* A step of job t that is quiet for its own sake is quiet.                *)
LEMMA QuietStep ==
  ASSUME TypeOK, NEW t \in Task, NEW l, Goto(t, l), l # "market",
         \A s \in Task \ {t} : frame'[s] = frame[s] /\ reply'[s] = reply[s],
         SameOrders, order' = order,
         \A u \in Uid : queue'[u] <= queue[u],
         Tracked' \subseteq Tracked,
         l \in {"cancelpair", "submit", "place"}
           => /\ pc[t] \in {"cancelpair", "submit"}
              /\ frame'[t].uid = frame[t].uid
              /\ l = "place" => reply'[t].status = "none"
  PROVE  Quiet
<1>1. \A s \in Task : pc'[s] = IF s = t THEN l ELSE pc[s]
  BY DEF Goto, TypeOK
<1>2. \A s \in Submitting' : s \in Submitting /\ frame'[s].uid = frame[s].uid
  BY <1>1 DEF Submitting, Drainers
<1>3. ASSUME NEW s \in Task
      PROVE  /\ Awaiting(s)' => Awaiting(s)
             /\ Accepted(s)' => Accepted(s) /\ reply'[s].xid = reply[s].xid
             /\ pc'[s] = "market" => pc[s] = "market" /\ frame'[s].uid = frame[s].uid
  BY <1>1 DEF Awaiting, Accepted, Submitting
<1> QED BY <1>2, <1>3 DEF Quiet

(* So is an answer of the exchange that accepts no order.                  *)
LEMMA QuietServe ==
  ASSUME TypeOK, NEW t \in Task, UNCHANGED Client, SameOrders,
         \A s \in Task \ {t} : reply'[s] = reply[s],
         reply[t].status = "none",
         pc[t] = "place" => reply'[t].status \in {"refused", "raised"}
  PROVE  Quiet
<1>1. UNCHANGED <<order, queue, active, toRemove, pc, frame>>
  BY DEF Client, decisions, check
<1>2. Tracked' = Tracked /\ Submitting' = Submitting
  BY <1>1 DEF Tracked, Submitting
<1>3. ASSUME NEW s \in Task
      PROVE  /\ Awaiting(s)' => Awaiting(s)
             /\ Accepted(s)' => Accepted(s) /\ reply'[s].xid = reply[s].xid
  <2>1. CASE s = t
    BY <1>1, <1>2, <2>1 DEF Awaiting, Accepted
  <2>2. CASE s # t
    BY <1>1, <1>2, <2>2 DEF Awaiting, Accepted
  <2> QED BY <2>1, <2>2
<1>4. \A u \in Uid : queue'[u] <= queue[u]
  BY <1>1 DEF TypeOK
<1> QED BY <1>1, <1>2, <1>3, <1>4 DEF Quiet

(* A job that is neither idle nor syncing balances is the only one.        *)
LEMMA Alone ==
  ASSUME PollsAnswered, References, NEW t \in Task, pc[t] \notin {"idle", "balance"}
  PROVE  /\ t = "pipeline"
         /\ \A s \in Task \ {t} : pc[s] \in {"idle", "balance"}
BY DEF PollsAnswered, References, CallKnown

(* The poll's own variables between the polls, ...                         *)
LEMMA PollRest ==
  ASSUME TypeOK, NEW t \in Task, NEW l, Goto(t, l), l \notin Checking \cup Sweeping,
         \A s \in Task \ {t} : pc[s] \in {"idle", "balance"},
         toRemove' = {}
  PROVE  PollKnown'
<1>1. \A s \in Task : pc'[s] = l \/ pc'[s] \in {"idle", "balance"}
  BY DEF Goto, TypeOK
<1> QED BY <1>1 DEF PollKnown, Checking, Sweeping

(* ... and during one.                                                     *)
LEMMA PollGoes ==
  ASSUME TypeOK, NEW t \in Task, NEW l \in Checking, Goto(t, l),
         \A s \in Task \ {t} : pc[s] \in {"idle", "balance"},
         seen' \subseteq active', toRemove' \subseteq seen',
         size' = Cardinality(active'),
         l \in {"query", "cancel"} => /\ frame'[t].xid \in seen' \ toRemove'
                                      /\ reply'[t].status = "none"
  PROVE  PollKnown'
<1>1. \A s \in Task : (s = t /\ pc'[s] = l) \/ (s # t /\ pc'[s] \in {"idle", "balance"})
  BY DEF Goto, TypeOK
<1>2. \E s \in Task : pc'[s] \in Checking
  BY <1>1
<1> QED BY <1>1, <1>2 DEF PollKnown, Checking, Sweeping, Failed

(* A job that leaves its exception behind leaves no order half forgotten:  *)
(* nothing is removed yet when the exception comes from outside the poll.  *)
LEMMA Outside ==
  ASSUME References, PollsAnswered, PollKnown, NEW t \in Task,
         pc[t] \notin Checking \cup {"idle", "balance"}
  PROVE  toRemove = {} /\ Tracked = active
<1>1. \A s \in Task : pc[s] \notin Checking
  BY Alone DEF Checking
<1> QED BY <1>1 DEF PollKnown, Tracked

(* The exchange knows no orders but those it accepted.                     *)
LEMMA Unplaced ==
  ASSUME TypeOK, Places
  PROVE  \A x \in Xid : x <= placed \/ xord[x].status = "none"
<1>1. \A x \in Xid : x > placed => xord[x].status = "none"
  BY DEF Places, Attempts
<1>2. placed \in Int /\ \A x \in Xid : x \in Int
  BY DEF TypeOK, Xid
<1> QED BY <1>1, <1>2

(* A new decision has no place and no order of the exchange yet.           *)
LEMMA CreatePlaces ==
  ASSUME TypeOK, TypeOK', References, Places, NEW a \in Asset, NEW side,
         NEW priority, NEW usd, NEW why,
         Create(a, side, priority, usd, why),
         UNCHANGED <<active, pc, frame, reply, check, exchange>>
  PROVE  PlacesKept
<1>0. PICK n : n = made + 1
  OBVIOUS
<1>1. /\ n \in Uid /\ made \in Nat /\ made' = n
      /\ UNCHANGED <<active, pc, frame, reply, seen, size, toRemove, placed, xord>>
      /\ \A u \in Uid : u <= made => u # n
  BY <1>0 DEF Create, TypeOK, Uid, check, exchange
<1>2. /\ \A u \in Uid : u # n => order'[u] = order[u] /\ queue'[u] = queue[u]
      /\ order'[n].resub = 0 /\ queue[n] = 0 /\ queue'[n] \in {0, 1}
  <2>1. queue[n] = 0 /\ n \in Uid
    BY <1>1 DEF References, QueueKnown, TypeOK
  <2>2. queue' = Added(queue, n) \/ queue' = queue
    BY <1>0 DEF Create
  <2> QED BY <1>0, <1>1, <2>1, <2>2 DEF Create, Added, TypeOK
<1>3. \A x \in Xid : xord[x].status # "none" => xord[x].uid # n
  <2>1. \A x \in Xid : x <= placed \/ xord[x].status = "none"
    BY Unplaced
  <2>2. \A x \in Xid : xord[x].uid \in Uid
    BY DEF TypeOK, XordRec
  <2> QED BY <1>1, <2>1, <2>2 DEF References, OrdersKnown
<1>4. \A x \in active : xord[x].uid # n /\ x \in Xid /\ xord[x].uid \in Uid
  <2>1. \A x \in active : x \in Xid /\ x <= placed /\ xord[x].uid \in Uid
    BY DEF References, ActiveKnown, TypeOK, XordRec
  <2> QED BY <1>1, <2>1 DEF References, OrdersKnown
<1>5. \A t \in Submitting : frame[t].uid # n /\ frame[t].uid \in Uid /\ t \in Task
  <2>1. \A t \in Submitting : t \in Task /\ frame[t].uid \in Uid
    BY DEF Submitting, Drainers, TypeOK, FrameRec
  <2> QED BY <1>1, <2>1 DEF References, CallKnown, Submitting
<1>6. \A t \in Task : pc[t] = "market" => frame[t].uid # n /\ frame[t].uid \in Uid
  <2>1. \A t \in Task : frame[t].uid \in Uid
    BY DEF TypeOK, FrameRec
  <2> QED BY <1>1, <2>1 DEF References, CallKnown
<1>7. Tracked' = Tracked /\ Tracked \subseteq active /\ Submitting' = Submitting
  BY <1>1 DEF Tracked, Submitting
<1>8. Queued' \subseteq Queued \cup {n}
  BY <1>2 DEF Queued
<1>9. \A t \in Task : (Awaiting(t)' <=> Awaiting(t)) /\ (Accepted(t)' <=> Accepted(t))
  BY <1>1, <1>7 DEF Awaiting, Accepted
<1>10. PollKnown'
  BY <1>1 DEF Places, PollKnown, Failed
<1>11. OneToken'
  <2>1. \A u \in Uid : queue'[u] <= 1
    BY <1>2 DEF Places, OneToken
  <2>2. \A u \in Queued' : /\ \A x \in Tracked' : xord'[x].uid # u
                           /\ \A t \in Submitting' : frame'[t].uid # u
    BY <1>1, <1>4, <1>5, <1>7, <1>8 DEF Places, OneToken
  <2>3. ASSUME NEW t \in Task, pc'[t] = "market"
        PROVE  queue'[frame'[t].uid] = 0 /\ \A x \in Tracked' : xord'[x].uid # frame'[t].uid
    BY <1>1, <1>2, <1>6, <1>7, <2>3 DEF Places, OneToken
  <2> QED BY <1>1, <1>7, <2>1, <2>2, <2>3 DEF Places, OneToken
<1>12. Attempts'
  <2>1. \A u \in Uid : Limits(u)' = Limits(u)
    BY <1>1 DEF Limits
  <2>2. AtMost(n, 0)' /\ 0 < MaxResub
    <3>1. Limits(n)' = {}
      BY <1>3, <2>1, <1>1 DEF Limits
    <3> QED BY <3>1, FS_EmptySet DEF AtMost
  <2>3. \A u \in Uid : \A m : AtMost(u, m)' <=> AtMost(u, m)
    BY <2>1 DEF AtMost
  <2>4. ASSUME NEW u \in Queued'
        PROVE  AtMost(u, order[u].resub)' /\ order'[u].resub < MaxResub
    <3>1. CASE u = n
      BY <1>2, <2>2, <3>1
    <3>2. CASE u # n
      <4>1. u \in Queued /\ u \in Uid /\ order'[u] = order[u]
        BY <1>2, <1>8, <3>2 DEF Queued
      <4> QED BY <2>3, <4>1 DEF Places, Attempts
    <3> QED BY <3>1, <3>2
  <2>5. ASSUME NEW t \in Task, Awaiting(t)'
        PROVE  /\ AtMost(frame[t].uid, order[frame[t].uid].resub)'
               /\ order'[frame'[t].uid].resub < MaxResub
    <3>1. Awaiting(t) /\ frame[t].uid \in Uid /\ frame[t].uid # n
      BY <1>5, <1>9, <2>5 DEF Awaiting
    <3>2. order'[frame[t].uid] = order[frame[t].uid]
      BY <1>2, <3>1
    <3> QED BY <1>1, <2>3, <3>1, <3>2 DEF Places, Attempts
  <2>6. \A x \in Tracked' : AtMost(xord[x].uid, xord[x].resub + 1)'
    BY <1>1, <1>4, <1>7, <2>3 DEF Places, Attempts
  <2>7. \A t \in Task : Accepted(t)' => AtMost(frame[t].uid, xord[reply[t].xid].resub + 1)'
    BY <1>1, <1>9, <2>3 DEF Places, Attempts, TypeOK, FrameRec
  <2>8. \A x \in Xid : x > placed' => xord'[x].status = "none"
    BY <1>1 DEF Places, Attempts
  <2> QED BY <2>4, <2>5, <2>6, <2>7, <2>8 DEF Attempts
<1>13. Live => Live'
  <2>1. Open' = Open /\ \A y \in Open : xord[y].uid # n /\ xord[y].uid \in Uid
    BY <1>1, <1>3 DEF Open, TypeOK, XordRec
  <2> QED BY <1>1, <1>2, <1>7, <1>9, <2>1 DEF Live
<1> QED BY <1>10, <1>11, <1>12, <1>13 DEF PlacesKept, Places

LEMMA RiskPlaces ==
  ASSUME PollsAnswered, TypeOK, TypeOK', References, Places, NEW t \in Task, Risk(t)
  PROVE  PlacesKept
<1>1. CASE StartTick(t)
  <2>1. /\ Goto(t, "risk") /\ t = "pipeline" /\ pc[t] = "idle"
        /\ UNCHANGED <<made, order, queue, active, reply, seen, size, toRemove, placed, xord>>
    BY <1>1 DEF StartTick, At, decisions, check, exchange
  <2>2. \A s \in Task \ {t} : frame'[s] = frame[s] /\ pc[s] \in {"idle", "balance"}
    BY <1>1, <2>1 DEF StartTick, TypeOK, PollsAnswered, References, CallKnown
  <2>3. toRemove = {}
    BY <2>1, <2>2 DEF Places, PollKnown, Checking
  <2>4. PollKnown'
    BY <2>1, <2>2, <2>3, PollRest DEF Checking, Sweeping
  <2>5. Quiet
    BY <2>1, <2>2, QuietStep DEF SameOrders, Tracked, TypeOK
  <2> QED BY <2>4, <2>5, QuietKept
<1>2. CASE RiskDone(t)
  <2>1. /\ Return(t, "drain") /\ pc[t] = "risk"
        /\ UNCHANGED <<made, order, queue, active, reply, seen, size, toRemove, placed, xord>>
    BY <1>2 DEF RiskDone, At, decisions, check, exchange
  <2>2. toRemove = {} /\ Goto(t, "drain")
    BY <2>1, Outside DEF Places, Checking, Return
  <2>3. PollKnown'
    BY <2>1, <2>2, Alone, PollRest DEF Checking, Sweeping
  <2>4. Quiet
    BY <2>1, <2>2, ReturnOthers, QuietStep DEF SameOrders, Tracked, TypeOK
  <2> QED BY <2>3, <2>4, QuietKept
<1>3. ASSUME NEW a \in Asset, NEW e \in Events, RiskExit(t, a, e)
      PROVE  PlacesKept
  BY <1>3, CreatePlaces DEF RiskExit
<1> QED BY <1>1, <1>2, <1>3 DEF Risk

LEMMA MonitorPlaces ==
  ASSUME PollsAnswered, TypeOK, TypeOK', References, Places, NEW t \in Task, Monitor(t)
  PROVE  PlacesKept
<1>1. PICK l \in {"idle", "balance"} :
        /\ Goto(t, l) /\ pc[t] \in {"idle", "balance"}
        /\ UNCHANGED <<made, order, queue, active, seen, size, toRemove, placed, xord>>
        /\ \A s \in Task \ {t} : frame'[s] = frame[s] /\ reply'[s] = reply[s]
  <2>1. CASE StartMonitor(t)
    BY <2>1 DEF StartMonitor, At, decisions, check, exchange
  <2>2. CASE BalanceDone(t)
    BY <2>2, ReturnOthers, ConsumeSilent
       DEF BalanceDone, Answered, At, decisions, check, exchange
  <2> QED BY <2>1, <2>2 DEF Monitor
<1>2. \A s \in Task : pc'[s] = IF s = t THEN l ELSE pc[s]
  BY <1>1 DEF Goto, TypeOK
<1>3. PollKnown'
  BY <1>1, <1>2 DEF Places, PollKnown, Checking, Sweeping, Failed
<1>4. Quiet
  BY <1>1, QuietStep DEF SameOrders, Tracked, TypeOK
<1> QED BY <1>3, <1>4, QuietKept

(* The exchange does not disturb the poll: it answers what it is asked.    *)
LEMMA ServePoll ==
  ASSUME PollsAnswered, TypeOK, References, PollKnown, NEW t \in Task,
         UNCHANGED Client,
         \A s \in Task \ {t} : reply'[s] = reply[s],
         pc[t] \in {"query", "cancel"} =>
           \/ reply'[t].status = "ok"
           \/ pc[t] = "cancel" /\ reply'[t].status = "refused"
  PROVE  PollKnown'
<1>1. UNCHANGED <<active, seen, size, toRemove, pc, frame>>
  BY DEF Client, check
<1> QED BY <1>1 DEF PollKnown, Failed

(* The exchange's new order takes the place its decision had: it is being  *)
(* submitted, or is sent to the market.                                    *)
LEMMA NewOrderPlaces ==
  ASSUME PollsAnswered, TypeOK, TypeOK', References, Places, PollKnown',
         NEW t \in Task, pc[t] \in {"place", "market"}, reply[t].status = "none",
         UNCHANGED Client, Affordable(t),
         NEW status \in {"open", "filled"}, NEW done \in Nat, NewOrder(t, status, done),
         \A s \in Task \ {t} : reply'[s] = reply[s],
         status = "open" => pc[t] = "place",
         reply'[t].status = "raised"
           \/ /\ reply'[t].status = "ok" /\ reply'[t].xid = placed + 1
              /\ reply'[t].qty = 0 <=> status = "open"
  PROVE  PlacesKept
<1>0. PICK n, v : n = placed + 1 /\ v = frame[t].uid
  OBVIOUS
<1>1. /\ UNCHANGED <<order, queue, active, toRemove, pc, frame>>
      /\ Tracked' = Tracked /\ Submitting' = Submitting
  BY DEF Client, decisions, check, Tracked, Submitting
<1>2. /\ n \in Xid /\ placed' = n /\ placed \in Nat /\ v \in Uid
      /\ \A x \in Xid : x # n => xord'[x] = xord[x]
      /\ xord'[n].uid = v /\ xord'[n].status = status /\ xord'[n].resub = order[v].resub
  <2>1. n \in Xid
    BY <1>0, NewOrderType
  <2> QED BY <1>0, <2>1 DEF NewOrder, TypeOK, FrameRec
<1>3. xord[n].status = "none" /\ \A x \in Tracked : x \in Xid /\ x # n /\ xord[x].uid \in Uid
  <2>1. xord[n].status = "none" /\ ~(n <= placed)
    BY <1>0, <1>2, Unplaced
  <2>2. \A x \in Tracked : x \in Xid /\ x <= placed /\ xord[x].uid \in Uid
    BY DEF Tracked, References, ActiveKnown, TypeOK, XordRec
  <2> QED BY <2>1, <2>2
<1>4. /\ \A s \in Task \ {t} : ~Accepted(s) /\ ~Accepted(s)' /\ s \notin Submitting
      /\ ~Awaiting(t)'
      /\ Accepted(t)' => reply'[t].xid = n /\ status = "open" /\ pc[t] = "place"
  <2>1. \A s \in Task \ {t} : pc[s] \in {"idle", "balance"}
    BY Alone
  <2>2. reply'[t].status # "none"
    OBVIOUS
  <2> QED BY <1>0, <1>1, <2>1, <2>2 DEF Accepted, Awaiting, Submitting
<1>5. queue[v] = 0 /\ \A x \in Tracked : xord[x].uid # v
  <2>1. CASE pc[t] = "place"
    <3>1. t \in Submitting
      BY <2>1, Busy DEF Submitting
    <3> QED BY <1>0, <1>2, <3>1 DEF Places, OneToken, Queued, TypeOK
  <2>2. CASE pc[t] = "market"
    BY <1>0, <2>2 DEF Places, OneToken
  <2> QED BY <2>1, <2>2
<1>6. OneToken'
  BY <1>1, <1>2, <1>3 DEF Places, OneToken, Queued
<1>7. /\ \A u \in Uid : u # v => Limits(u)' = Limits(u)
      /\ Limits(v)' = Limits(v) \cup {n}
  <2>1. \A x \in Xid : xord'[x].status # "none" <=> (xord[x].status # "none" \/ x = n)
    BY <1>2
  <2>2. \A x \in Xid : x # n => xord'[x].uid = xord[x].uid
    BY <1>2
  <2> QED BY <1>2, <1>3, <2>1, <2>2 DEF Limits
<1>8. \A u \in Uid : \A m : u # v => (AtMost(u, m)' <=> AtMost(u, m))
  BY <1>7 DEF AtMost
<1>9. \A m \in Nat : AtMost(v, m) => AtMost(v, m + 1)'
  <2>1. Limits(v) \in SUBSET Xid
    BY DEF Limits
  <2>2. IsFiniteSet(Limits(v)) /\ Cardinality(Limits(v)) \in Nat
    BY <2>1, Finite
  <2>3. Cardinality(Limits(v) \cup {n})
          = IF n \in Limits(v) THEN Cardinality(Limits(v)) ELSE Cardinality(Limits(v)) + 1
    BY <2>2, FS_AddElement
  <2>4. Cardinality(Limits(v))' = Cardinality(Limits(v) \cup {n})
    BY <1>7
  <2>5. Cardinality(Limits(v))' <= Cardinality(Limits(v)) + 1
    BY <2>2, <2>3, <2>4
  <2>6. Cardinality(Limits(v))' \in Nat
    BY <2>2, <2>3, <2>4
  <2> QED BY <2>2, <2>5, <2>6 DEF AtMost
<1>10. Attempts'
  <2>1. ASSUME NEW u \in Queued'
        PROVE  AtMost(u, order[u].resub)' /\ order'[u].resub < MaxResub
    <3>1. u \in Queued /\ u \in Uid /\ u # v
      BY <1>1, <1>5 DEF Queued
    <3> QED BY <1>1, <1>8, <3>1 DEF Places, Attempts
  <2>2. \A s \in Task : ~Awaiting(s)'
    BY <1>1, <1>4 DEF Awaiting
  <2>3. \A x \in Tracked' : AtMost(xord[x].uid, xord[x].resub + 1)'
    BY <1>1, <1>2, <1>3, <1>5, <1>8 DEF Places, Attempts
  <2>4. ASSUME NEW s \in Task, Accepted(s)'
        PROVE  AtMost(frame[s].uid, xord[reply[s].xid].resub + 1)'
    <3>1. s = t /\ reply'[t].xid = n /\ pc[t] = "place"
      BY <1>4, <2>4
    <3>2. Awaiting(t)
      BY <3>1, Busy DEF Awaiting, Submitting
    <3>3. AtMost(v, order[v].resub) /\ order[v].resub \in Nat
      BY <1>0, <1>2, <3>2 DEF Places, Attempts, TypeOK, OrderRec
    <3> QED BY <1>0, <1>1, <1>2, <1>9, <3>1, <3>3
  <2>5. \A x \in Xid : x > placed' => xord'[x].status = "none"
    <3>1. \A x \in Xid : x > n => x # n /\ ~(x <= placed)
      BY <1>0, <1>2 DEF Xid
    <3> QED BY <1>2, <3>1, Unplaced
  <2> QED BY <2>1, <2>2, <2>3, <2>4, <2>5 DEF Attempts
<1>11. ASSUME Live
       PROVE  Live'
  <2>1. Open' = IF status = "open" THEN Open \cup {n} ELSE Open
    BY <1>2, <1>3 DEF Open
  <2>2. \A y \in Open : y # n /\ xord'[y] = xord[y] /\ y \in Xid
    BY <1>2, <1>3 DEF Open
  <2>3. status = "open" => \A y \in Open : xord[y].uid # v
    <3>1. status = "open" => Awaiting(t)
      BY Busy DEF Awaiting, Submitting
    <3> QED BY <1>0, <1>11, <3>1 DEF Live
  <2>4. ASSUME NEW y \in Open'
        PROVE  /\ queue'[xord'[y].uid] = 0
               /\ \A s \in Task : Awaiting(s)' => xord'[y].uid # frame'[s].uid
               /\ \A x \in Tracked' \cup Open' : xord'[x].uid = xord'[y].uid => x = y
               /\ \A s \in Task : Accepted(s)' /\ xord'[y].uid = frame'[s].uid
                                    => y = reply'[s].xid
    <3>1. \A s \in Task : ~Awaiting(s)'
      BY <1>1, <1>4 DEF Awaiting
    <3>2. \A x \in Tracked' : x \in Tracked /\ xord'[x] = xord[x] /\ x # n
      BY <1>1, <1>2, <1>3
    <3>3. CASE y \in Open
      <4>1. xord'[y] = xord[y] /\ y # n
        BY <2>2, <3>3
      <4>2. \A s \in Task : Accepted(s)' /\ xord'[y].uid = frame'[s].uid
                                    => y = reply'[s].xid
        BY <1>0, <1>1, <1>4, <2>3, <3>3, <4>1
      <4>3. \A x \in Tracked' \cup Open' : xord'[x].uid = xord'[y].uid => x = y
        BY <1>2, <1>11, <2>1, <2>2, <2>3, <3>2, <3>3, <4>1 DEF Live
      <4> QED BY <1>1, <1>11, <3>1, <3>3, <4>1, <4>2, <4>3 DEF Live
    <3>4. CASE y \notin Open
      <4>1. y = n /\ status = "open" /\ xord'[y].uid = v
        BY <1>2, <2>1, <2>4, <3>4
      <4>2. \A x \in Tracked' \cup Open' : xord'[x].uid = xord'[y].uid => x = y
        BY <1>5, <2>1, <2>2, <2>3, <3>2, <4>1
      <4>3. \A s \in Task : Accepted(s)' => y = reply'[s].xid
        BY <1>4, <4>1
      <4> QED BY <1>1, <1>5, <3>1, <4>1, <4>2, <4>3
    <3> QED BY <3>3, <3>4
  <2> QED BY <2>4 DEF Live
<1> QED BY <1>6, <1>10, <1>11 DEF PlacesKept, Places
(* Cancelling orders accepts none and reopens none.                        *)
LEMMA CancelledSame ==
  ASSUME TypeOK, NEW S \in SUBSET Open, xord' = Cancelled(S), placed' = placed
  PROVE  SameOrders
<1>1. \A x \in Xid : x \in S => xord[x].status = "open"
  BY DEF Open
<1>2. \A x \in Xid : xord'[x] = IF x \in S THEN [xord[x] EXCEPT !.status = "canceled"]
                                           ELSE xord[x]
  BY DEF Cancelled
<1>3. \A x \in Xid : x \in S => /\ xord'[x].status = "canceled"
                                /\ xord'[x].uid = xord[x].uid
                                /\ xord'[x].resub = xord[x].resub
  BY <1>2 DEF TypeOK, XordRec
<1> QED BY <1>1, <1>2, <1>3 DEF SameOrders

LEMMA ServePlaces ==
  ASSUME PollsAnswered, TypeOK, TypeOK', References, Places, NEW t \in Task, Serve(t)
  PROVE  PlacesKept
\* an answer that brings no order
<1>0. ASSUME UNCHANGED Client, SameOrders, reply[t].status = "none",
             \A s \in Task \ {t} : reply'[s] = reply[s],
             pc[t] = "place" => reply'[t].status \in {"refused", "raised"},
             pc[t] \in {"query", "cancel"} =>
               \/ reply'[t].status = "ok"
               \/ pc[t] = "cancel" /\ reply'[t].status = "refused"
      PROVE  PlacesKept
  <2>1. PollKnown'
    BY <1>0, ServePoll DEF Places
  <2>2. Quiet
    BY <1>0, QuietServe
  <2> QED BY <2>1, <2>2, QuietKept
<1>1. ASSUME NEW r, Answer(t, r), r.status = "ok", pc[t] # "place",
             UNCHANGED Client, SameOrders, reply[t].status = "none"
      PROVE  PlacesKept
  <2>1. pc[t] \in {"query", "cancel"} => reply'[t].status = "ok"
    BY <1>1 DEF Answer, PollsAnswered, TypeOK
  <2> QED BY <1>0, <1>1, <2>1, AnswerOthers
<1>2. SameOrders \/ ~UNCHANGED exchange
  BY DEF SameOrders, exchange
<1>3. Done.status = "ok" /\ Done \in ReplyRec
  BY DoneType DEF Done, Silent
<1>4. CASE XPlaceOpen(t)
  <2> DEFINE r == [Done EXCEPT !.xid = placed + 1]
  <2>1. /\ pc[t] = "place" /\ reply[t].status = "none" /\ Affordable(t)
        /\ NewOrder(t, "open", 0) /\ UNCHANGED Client /\ Answer(t, r)
    BY <1>4 DEF XPlaceOpen, Pending
  <2>2. r.status = "ok" /\ r.xid = placed + 1 /\ r.qty = 0
    BY DEF Done, Silent
  <2> HIDE DEF r
  <2>3. reply'[t] = r \/ reply'[t].status = "raised"
    BY <2>1, AnswerOthers
  <2>4. \A s \in Task \ {t} : reply'[s] = reply[s]
    BY <2>1, AnswerOthers
  <2>5. PollKnown'
    BY <2>1, <2>4, ServePoll DEF Places
  <2> QED BY <2>1, <2>2, <2>3, <2>4, <2>5, NewOrderPlaces
<1>5. CASE XPlaceFilled(t)
  <2> DEFINE r == [Done EXCEPT !.xid = placed + 1, !.qty = frame[t].qty]
  <2>1. /\ pc[t] \in {"place", "market"} /\ reply[t].status = "none" /\ Affordable(t)
        /\ NewOrder(t, "filled", frame[t].qty) /\ UNCHANGED Client /\ Answer(t, r)
    BY <1>5 DEF XPlaceFilled, Pending
  <2>2. r.status = "ok" /\ r.xid = placed + 1 /\ r.qty = frame[t].qty
    BY DEF Done, Silent
  <2>3. frame[t].qty # 0 /\ frame[t].qty \in Nat
    BY <2>1 DEF Affordable, TypeOK, FrameRec
  <2> HIDE DEF r
  <2>4. reply'[t] = r \/ reply'[t].status = "raised"
    BY <2>1, AnswerOthers
  <2>5. \A s \in Task \ {t} : reply'[s] = reply[s]
    BY <2>1, AnswerOthers
  <2>6. PollKnown'
    BY <2>1, <2>5, ServePoll DEF Places
  <2> QED BY <2>1, <2>2, <2>3, <2>4, <2>5, <2>6, NewOrderPlaces
<1>6. CASE XReject(t)
  <2>1. reply'[t].status = "refused" /\ \A s \in Task \ {t} : reply'[s] = reply[s]
    BY <1>6 DEF XReject, TypeOK, Silent
  <2> QED BY <1>0, <1>2, <1>6, <2>1 DEF XReject, Pending
<1>7. ASSUME NEW status \in {"refused", "raised"}, XFail(t, status)
      PROVE  PlacesKept
  <2>1. reply'[t].status = status /\ \A s \in Task \ {t} : reply'[s] = reply[s]
    BY <1>7 DEF XFail, TypeOK, Silent
  <2>2. /\ pc[t] # "query" /\ (pc[t] = "cancel" => status = "refused")
        /\ reply[t].status = "none" /\ UNCHANGED <<Client, exchange>>
    BY <1>7 DEF XFail, PollsAnswered
  <2> QED BY <1>0, <1>2, <2>1, <2>2
<1>8. CASE XCancelPair(t)
  <2>1. SameOrders
    BY <1>8, CancelledSame DEF XCancelPair
  <2> QED BY <1>1, <1>3, <1>8, <2>1 DEF XCancelPair, Pending
<1>9. ASSUME NEW a \in Asset, XSweepCancel(t, a)
      PROVE  PlacesKept
  BY <1>9 DEF XSweepCancel, Pending, Places, PollKnown, Sweeping
<1>10. CASE XCancel(t)
  <2>1. SameOrders
    BY <1>10, CancelledSame DEF XCancel
  <2> QED BY <1>1, <1>3, <1>10, <2>1 DEF XCancel, Pending
<1>11. CASE XQuery(t)
  <2> DEFINE q == IF xord[frame[t].xid].status = "filled" THEN xord[frame[t].xid].done ELSE 0
             r == [Done EXCEPT !.xid = frame[t].xid, !.qty = q]
  <2>1. Answer(t, r) /\ pc[t] = "query" /\ reply[t].status = "none"
          /\ UNCHANGED <<Client, exchange>>
    BY <1>11 DEF XQuery, Pending
  <2>2. r.status = "ok"
    BY DEF Done, Silent
  <2> QED BY <1>1, <1>2, <2>1, <2>2
<1>12. CASE XPending(t)
  BY <1>12 DEF XPending, Pending, Places, PollKnown, Sweeping
<1>13. CASE XBalance(t)
  <2>1. [Done EXCEPT !.pos = xpos, !.cash = xcash].status = "ok"
    BY DEF Done, Silent
  <2> QED BY <1>1, <1>2, <1>13, <2>1 DEF XBalance, Pending
<1> QED BY <1>4, <1>5, <1>6, <1>7, <1>8, <1>9, <1>10, <1>11, <1>12, <1>13 DEF Serve

LEMMA FillPlaces ==
  ASSUME TypeOK, TypeOK', References, Places, NEW x \in Xid,
         NEW q \in 1..Left(x), Fill(x, q)
  PROVE  PlacesKept
<1>1. /\ UNCHANGED <<order, queue, active, seen, size, toRemove, pc, frame, reply, placed>>
      /\ x \in Open
      /\ xord' = [xord EXCEPT ![x].done = @ + q,
                              ![x].status = IF q = Left(x) THEN "filled" ELSE @]
  BY DEF Fill, Client, decisions, check
<1>2. SameOrders
  BY <1>1 DEF SameOrders, Open, TypeOK, XordRec
<1>3. Quiet
  BY <1>1, <1>2 DEF Quiet, Tracked, Submitting, Awaiting, Accepted, TypeOK
<1>4. PollKnown'
  BY <1>1 DEF Places, PollKnown, Failed
<1> QED BY <1>3, <1>4, QuietKept

LEMMA StutterPlaces ==
  ASSUME Places, UNCHANGED vars
  PROVE  PlacesKept
BY DEF vars, decisions, check, exchange, Places, PlacesKept, PollKnown, OneToken,
       Attempts, Live, Failed, Queued, Tracked, Submitting, Awaiting, Accepted,
       AtMost, Limits, Open

(* An order taken from the queue is in it no more.                         *)
LEMMA PopPlaces ==
  ASSUME PollsAnswered, TypeOK, TypeOK', References, Places, NEW t \in Task,
         NEW u \in Uid, Pop(t, u)
  PROVE  PlacesKept
<1>1. /\ pc[t] = "drain" /\ u \in Queued /\ queue' = Popped(queue, u)
      /\ frame' = [frame EXCEPT ![t].uid = u, ![t].px = price[order[u].asset]]
      /\ UNCHANGED <<order, active, reply, seen, size, toRemove, placed, xord>>
  BY DEF Pop, At, IsHead, decisions, check, exchange
<1>2. PICK l \in {"cancelpair", "submit"} : Goto(t, l)
  BY DEF Pop
<1>3. /\ \A s \in Task \ {t} : pc[s] \in {"idle", "balance"} /\ frame'[s] = frame[s]
      /\ t \in Drainers /\ frame'[t].uid = u
      /\ \A s \in Task : pc'[s] = IF s = t THEN l ELSE pc[s]
  BY <1>1, <1>2, Alone, Busy DEF TypeOK, FrameRec, Goto
<1>4. Submitting' = {t} /\ \A s \in Task : Awaiting(s)' => s = t
  BY <1>3 DEF Submitting, Drainers, Awaiting
<1>5. \A s \in Task : ~Accepted(s)' /\ pc'[s] # "market"
  BY <1>3 DEF Accepted
<1>6. queue[u] = 1 /\ queue'[u] = 0 /\ \A v \in Uid : v # u => queue'[v] = queue[v]
  <2>1. queue[u] = 1
    BY <1>1 DEF Places, OneToken, Queued, TypeOK
  <2> QED BY <1>1, <2>1 DEF Popped, TypeOK
<1>7. Queued' = Queued \ {u} /\ Tracked' = Tracked /\ Open' = Open
  BY <1>1, <1>6 DEF Queued, Tracked, Open
<1>8. \A x \in Tracked : xord[x].uid # u
  BY <1>1 DEF Places, OneToken
<1>9. PollKnown'
  <2>1. toRemove' = {}
    BY <1>1, Outside DEF Places, Checking
  <2> QED BY <1>2, <1>3, <2>1, PollRest DEF Checking, Sweeping
<1>10. OneToken'
  <2>1. \A v \in Uid : queue'[v] <= 1
    BY <1>6 DEF Places, OneToken
  <2>2. ASSUME NEW v \in Queued'
        PROVE  /\ \A x \in Tracked' : xord'[x].uid # v
               /\ \A s \in Submitting' : frame'[s].uid # v
    <3>1. v \in Queued /\ v # u
      BY <1>7
    <3> QED BY <1>1, <1>3, <1>4, <1>7, <3>1 DEF Places, OneToken
  <2>3. \A s \in Submitting', x \in Tracked' : xord'[x].uid # frame'[s].uid
    BY <1>1, <1>3, <1>4, <1>7, <1>8
  <2>4. \A x, y \in Tracked' : xord'[x].uid = xord'[y].uid => x = y
    BY <1>1, <1>7 DEF Places, OneToken
  <2> QED BY <1>5, <2>1, <2>2, <2>3, <2>4 DEF OneToken
<1>11. Attempts'
  <2>1. \A v \in Uid : \A m : AtMost(v, m)' <=> AtMost(v, m)
    BY <1>1 DEF AtMost, Limits
  <2>2. AtMost(u, order[u].resub) /\ order[u].resub < MaxResub
    BY <1>1 DEF Places, Attempts
  <2>3. ASSUME NEW v \in Queued'
        PROVE  AtMost(v, order[v].resub)' /\ order'[v].resub < MaxResub
    <3>1. v \in Queued /\ v \in Uid
      BY <1>7 DEF Queued
    <3> QED BY <1>1, <2>1, <3>1 DEF Places, Attempts
  <2>4. ASSUME NEW s \in Task, Awaiting(s)'
        PROVE  /\ AtMost(frame[s].uid, order[frame[s].uid].resub)'
               /\ order'[frame'[s].uid].resub < MaxResub
    BY <1>1, <1>3, <1>4, <2>1, <2>2, <2>4
  <2>5. \A x \in Tracked' : AtMost(xord[x].uid, xord[x].resub + 1)'
    BY <1>1, <1>7, <2>1 DEF Places, Attempts, Tracked, TypeOK, XordRec
  <2>6. \A x \in Xid : x > placed' => xord'[x].status = "none"
    BY <1>1 DEF Places, Attempts
  <2> QED BY <1>5, <2>3, <2>4, <2>5, <2>6 DEF Attempts
<1>12. ASSUME Live
       PROVE  Live'
  <2>1. \A y \in Open : xord[y].uid # u /\ xord[y].uid \in Uid
    BY <1>6, <1>12 DEF Live, Open, TypeOK, XordRec
  <2>2. \A y \in Open : queue'[xord[y].uid] = 0
    BY <1>6, <1>12, <2>1 DEF Live
  <2>3. \A y \in Open : \A s \in Task : Awaiting(s)' => xord[y].uid # frame'[s].uid
    BY <1>3, <1>4, <2>1
  <2>4. \A y \in Open : \A x \in Tracked \cup Open : xord[x].uid = xord[y].uid => x = y
    BY <1>12 DEF Live
  <2> QED BY <1>1, <1>5, <1>7, <2>2, <2>3, <2>4 DEF Live
<1> QED BY <1>9, <1>10, <1>11, <1>12 DEF PlacesKept, Places

(* An accepted order is tracked: its decision is no longer submitted.      *)
LEMMA PendingPlaces ==
  ASSUME PollsAnswered, TypeOK, TypeOK', References, Places, NEW t \in Task,
         PlacePending(t)
  PROVE  PlacesKept
<1>0. PICK x, u : x = reply[t].xid /\ u = frame[t].uid
  OBVIOUS
<1>1. /\ pc[t] = "place" /\ reply[t].status = "ok" /\ reply[t].qty = 0
      /\ active' = active \cup {x} /\ Return(t, "drain") /\ Consume(t)
      /\ UNCHANGED <<order, queue, seen, size, toRemove, placed, xord>>
  BY <1>0 DEF PlacePending, Answered, At, Failed, decisions, check, exchange,
              TypeOK, ReplyRec
<1>2. t \in Drainers /\ x \in Xid /\ u \in Uid /\ xord[x].uid = u /\ t \in Submitting
  <2>1. t \in Drainers
    BY <1>1, Busy
  <2> QED BY <1>0, <1>1, <2>1
          DEF References, CallKnown, TypeOK, ReplyRec, FrameRec, Submitting
<1>3. /\ Goto(t, "drain")
      /\ \A s \in Task \ {t} : pc[s] \in {"idle", "balance"} /\ frame'[s] = frame[s]
                                 /\ reply'[s] = reply[s]
      /\ \A s \in Task : pc'[s] = IF s = t THEN "drain" ELSE pc[s]
  BY <1>1, Alone, ReturnOthers, ConsumeSilent DEF Goto, TypeOK
<1>4. toRemove = {} /\ Tracked = active /\ Tracked' = Tracked \cup {x}
  <2>1. toRemove = {} /\ Tracked = active
    BY <1>1, Outside DEF Places, Checking
  <2> QED BY <1>1, <2>1 DEF Tracked
<1>5. /\ Submitting' = {} /\ Queued' = Queued /\ Open' = Open
      /\ \A s \in Task : ~Awaiting(s)' /\ ~Accepted(s)' /\ pc'[s] # "market"
  BY <1>1, <1>3 DEF Submitting, Drainers, Queued, Open, Awaiting, Accepted
<1>6. queue[u] = 0 /\ u \notin Queued /\ \A y \in Tracked : xord[y].uid # u
  BY <1>0, <1>2 DEF Places, OneToken, Queued, TypeOK
<1>7. PollKnown'
  BY <1>1, <1>3, <1>4, PollRest DEF Checking, Sweeping
<1>8. OneToken'
  BY <1>1, <1>2, <1>4, <1>5, <1>6 DEF Places, OneToken
<1>9. Attempts'
  <2>1. \A v \in Uid : \A m : AtMost(v, m)' <=> AtMost(v, m)
    BY <1>1 DEF AtMost, Limits
  <2>2. AtMost(u, xord[x].resub + 1)
    BY <1>0, <1>1 DEF Places, Attempts, Accepted
  <2>3. ASSUME NEW v \in Queued'
        PROVE  AtMost(v, order[v].resub)' /\ order'[v].resub < MaxResub
    <3>1. v \in Queued /\ v \in Uid
      BY <1>5 DEF Queued
    <3> QED BY <1>1, <2>1, <3>1 DEF Places, Attempts
  <2>4. \A y \in Tracked : AtMost(xord[y].uid, xord[y].resub + 1) /\ xord[y].uid \in Uid
    BY DEF Places, Attempts, Tracked, TypeOK, XordRec
  <2>5. \A y \in Tracked' : AtMost(xord[y].uid, xord[y].resub + 1)'
    BY <1>1, <1>2, <1>4, <2>1, <2>2, <2>4
  <2>6. \A y \in Xid : y > placed' => xord'[y].status = "none"
    BY <1>1 DEF Places, Attempts
  <2> QED BY <1>5, <2>3, <2>5, <2>6 DEF Attempts
<1>10. ASSUME Live
       PROVE  Live'
  <2>1. \A y \in Open : xord[y].uid = u => y = x
    BY <1>0, <1>1, <1>10 DEF Live, Accepted
  <2>2. ASSUME NEW y \in Open, NEW z \in Tracked' \cup Open', xord[z].uid = xord[y].uid
        PROVE  z = y
    <3>1. CASE z = x
      BY <1>2, <2>1, <2>2, <3>1
    <3>2. CASE z # x
      BY <1>4, <1>5, <1>10, <2>2, <3>2 DEF Live
    <3> QED BY <3>1, <3>2
  <2> QED BY <1>1, <1>5, <1>10, <2>2 DEF Live
<1> QED BY <1>7, <1>8, <1>9, <1>10 DEF PlacesKept, Places

(* The steps of the drain that lose, at most, an order.                    *)
LEMMA DropPlaces ==
  ASSUME PollsAnswered, TypeOK, TypeOK', References, Places, NEW t \in Task,
         NEW l, l \notin Checking \cup Sweeping,
         pc[t] \notin Checking \cup {"idle", "balance"},
         Goto(t, l), toRemove' = {}, active' \subseteq active,
         \A s \in Task \ {t} : frame'[s] = frame[s] /\ reply'[s] = reply[s],
         UNCHANGED <<order, queue, placed, xord>>,
         l \in {"cancelpair", "submit", "place"}
           => /\ pc[t] \in {"cancelpair", "submit"}
              /\ frame'[t].uid = frame[t].uid
              /\ l = "place" => reply'[t].status = "none"
  PROVE  PlacesKept
<1>1. Tracked' \subseteq Tracked
  BY Outside DEF Tracked, Places
<1>2. PollKnown'
  BY Alone, PollRest DEF Checking
<1>3. SameOrders /\ \A u \in Uid : queue'[u] <= queue[u]
  BY DEF SameOrders, TypeOK
<1>4. Quiet
  BY <1>1, <1>3, QuietStep DEF Checking
<1> QED BY <1>2, <1>4, QuietKept

(* process_queue returns, and the poll begins with nothing to remove.      *)
LEMMA LeavePlaces ==
  ASSUME PollsAnswered, TypeOK, TypeOK', References, Places, NEW t \in Task,
         pc[t] = "drain", LeaveDrain(t), \A u \in Uid : queue'[u] <= queue[u],
         UNCHANGED <<order, active, reply, placed, xord>>
  PROVE  PlacesKept
<1>1. Return(t, "scan") /\ seen' = {} /\ toRemove' = {} /\ size' = Cardinality(active)
  BY Alone DEF LeaveDrain
<1>2. Goto(t, "scan") /\ \A s \in Task \ {t} : frame'[s] = frame[s]
  BY <1>1, ReturnOthers
<1>3. PollKnown'
  BY <1>1, <1>2, Alone, PollGoes DEF Checking
<1>4. Tracked' = Tracked
  BY <1>1, Outside DEF Tracked, Places, Checking
<1>5. Quiet
  BY <1>2, <1>4, QuietStep DEF SameOrders
<1> QED BY <1>3, <1>5, QuietKept

LEMMA DrainPlaces ==
  ASSUME PollsAnswered, TypeOK, TypeOK', References, Places, NEW t \in Task, Drain(t)
  PROVE  PlacesKept
<1>1. CASE DrainEmpty(t)
  BY <1>1, LeavePlaces DEF DrainEmpty, At, decisions, exchange, TypeOK
<1>2. ASSUME NEW u \in Uid, Defer(t, u)
      PROVE  PlacesKept
  <2>1. queue' = queue \/ queue' = Popped(queue, u)
    BY <1>2 DEF Defer
  <2>2. \A v \in Uid : queue'[v] <= queue[v]
    BY <2>1 DEF Popped, TypeOK
  <2> QED BY <1>2, <2>2, LeavePlaces DEF Defer, At, decisions, exchange
<1>3. ASSUME NEW u \in Uid, Pop(t, u)
      PROVE  PlacesKept
  BY <1>3, PopPlaces
<1>4. CASE CancelPairDone(t)
  <2>1. /\ pc[t] = "cancelpair" /\ active' \subseteq active /\ Goto(t, "submit")
        /\ Consume(t) /\ UNCHANGED <<order, queue, frame, toRemove, placed, xord>>
    BY <1>4 DEF CancelPairDone, Answered, At, decisions, check, exchange
  <2>2. toRemove' = {}
    BY <2>1, Outside DEF Places, Checking
  <2> QED BY <2>1, <2>2, ConsumeSilent, DropPlaces DEF Checking, Sweeping
<1>5. CASE CancelPairRaised(t)
  <2>1. /\ pc[t] = "cancelpair" /\ Return(t, "idle") /\ Consume(t) /\ toRemove' = {}
        /\ UNCHANGED <<order, queue, active, placed, xord>>
    BY <1>5 DEF CancelPairRaised, Abort, Answered, At, decisions, exchange
  <2> QED BY <2>1, ReturnOthers, ConsumeSilent, DropPlaces DEF Checking, Sweeping
<1>6. CASE Suppress(t)
  <2>1. /\ pc[t] = "submit" /\ Return(t, "drain")
        /\ UNCHANGED <<order, queue, active, reply, toRemove, placed, xord>>
    BY <1>6 DEF Suppress, At, decisions, check, exchange
  <2>2. toRemove' = {}
    BY <2>1, Outside DEF Places, Checking
  <2> QED BY <2>1, <2>2, ReturnOthers, DropPlaces DEF Checking, Sweeping
<1>7. CASE Submit(t)
  <2>1. /\ pc[t] = "submit" /\ Goto(t, "place")
        /\ UNCHANGED <<order, queue, active, reply, toRemove, placed, xord>>
    BY <1>7 DEF Submit, At, decisions, check, exchange
  <2>2. frame'[t].uid = frame[t].uid /\ \A s \in Task \ {t} : frame'[s] = frame[s]
    BY <1>7 DEF Submit, TypeOK, FrameRec
  <2>3. toRemove' = {} /\ reply'[t].status = "none"
    BY <2>1, Outside, Silenced DEF Places, Checking, Calls
  <2> QED BY <2>1, <2>2, <2>3, DropPlaces DEF Checking, Sweeping
<1>8. ASSUME pc[t] = "place", Return(t, "drain"), Consume(t),
             UNCHANGED <<order, queue, active, toRemove, placed, xord>>
      PROVE  PlacesKept
  <2>1. toRemove' = {}
    BY <1>8, Outside DEF Places, Checking
  <2> QED BY <1>8, <2>1, ReturnOthers, ConsumeSilent, DropPlaces DEF Checking, Sweeping
<1>9. CASE PlaceFilled(t)
  BY <1>8, <1>9 DEF PlaceFilled, Answered, At, decisions, check, exchange
<1>10. CASE PlacePending(t)
  BY <1>10, PendingPlaces
<1>11. CASE PlaceFailed(t)
  BY <1>8, <1>11 DEF PlaceFailed, Answered, At, decisions, check, exchange
<1> QED BY <1>1, <1>2, <1>3, <1>4, <1>5, <1>6, <1>7, <1>9, <1>10, <1>11 DEF Drain

(* The steps of the poll that put no order back.                           *)
LEMMA PollPlaces ==
  ASSUME PollsAnswered, TypeOK, TypeOK', References, Places, NEW t \in Task,
         pc[t] \in Checking, NEW l \in Checking \ {"market"}, Goto(t, l),
         \A s \in Task \ {t} : frame'[s] = frame[s] /\ reply'[s] = reply[s],
         UNCHANGED <<order, queue, active, size>>, SameOrders,
         seen' \subseteq active, toRemove \subseteq toRemove', toRemove' \subseteq seen',
         l \in {"query", "cancel"} => /\ frame'[t].xid \in seen' \ toRemove'
                                      /\ reply'[t].status = "none"
  PROVE  PlacesKept
<1>1. PollKnown'
  BY Alone, PollGoes DEF Places, PollKnown, Checking
<1>2. Quiet
  BY QuietStep DEF Tracked, Checking, TypeOK
<1> QED BY <1>1, <1>2, QuietKept

(* A poll that is not interrupted sees the entries it began with.          *)
LEMMA PollIntact ==
  ASSUME TypeOK, Places, NEW t \in Task, pc[t] = "scan"
  PROVE  ~Mutated
<1>1. seen \subseteq active /\ size = Cardinality(active)
  BY DEF Places, PollKnown, Checking
<1>2. active \in SUBSET Xid
  BY DEF TypeOK
<1>3. IsFiniteSet(active)
  BY <1>2, Finite
<1>4. Cardinality(seen) = Cardinality(active) => seen = active
  BY <1>1, <1>3, FS_Subset
<1> QED BY <1>1, <1>4 DEF Mutated, Unvisited

(* The answer to a cancel: the poll is done with the order.                *)
LEMMA TimedOutPlaces ==
  ASSUME PollsAnswered, TypeOK, References, Places, NEW t \in Task, TimedOut(t)
  PROVE  /\ pc[t] = "cancel" /\ reply[t].status \notin {"none", "raised"}
         /\ toRemove' = toRemove \cup {frame[t].xid} /\ seen' = seen
         /\ UNCHANGED <<made, active, size, placed, xord>>
         /\ \A s \in Task \ {t} : reply'[s] = reply[s] /\ pc[s] \in {"idle", "balance"}
         /\ frame[t].xid \in Tracked /\ frame[t].xid \in Xid
         /\ seen \subseteq active /\ toRemove' \subseteq seen /\ size = Cardinality(active)
<1>1. /\ pc[t] = "cancel" /\ reply[t].status \notin {"none", "raised"}
      /\ toRemove' = toRemove \cup {frame[t].xid} /\ Consume(t)
      /\ UNCHANGED <<made, active, seen, size, placed, xord>>
  BY DEF TimedOut, Answered, At, Swallowed, exchange
<1>2. frame[t].xid \in seen \ toRemove /\ seen \subseteq active
        /\ toRemove \subseteq seen /\ size = Cardinality(active)
  BY <1>1 DEF Places, PollKnown, Checking
<1>3. frame[t].xid \in Tracked /\ frame[t].xid \in Xid
  BY <1>2 DEF Tracked, TypeOK
<1> QED BY <1>1, <1>2, <1>3, Alone, ConsumeSilent

(* An exit that goes to the market has left the queue and the tracking.    *)
LEMMA EscalatePlaces ==
  ASSUME PollsAnswered, TypeOK, TypeOK', References, Places, NEW t \in Task, Escalate(t)
  PROVE  PlacesKept
<1>0. PICK x, u : x = frame[t].xid /\ u = xord[x].uid
  OBVIOUS
<1>1. TimedOut(t) /\ UNCHANGED <<order, queue>>
  BY DEF Escalate
<1>2. /\ pc[t] = "cancel" /\ toRemove' = toRemove \cup {x} /\ x \in Tracked /\ x \in Xid
      /\ UNCHANGED <<active, seen, size, placed, xord>> /\ seen \subseteq active
      /\ \A s \in Task \ {t} : reply'[s] = reply[s] /\ pc[s] \in {"idle", "balance"}
      /\ toRemove' \subseteq seen /\ size = Cardinality(active)
  BY <1>0, <1>1, TimedOutPlaces
<1>3. CASE Return(t, "scan")
  BY <1>1, <1>2, <1>3, ReturnOthers, PollPlaces DEF SameOrders, Checking
<1>4. CASE ~Return(t, "scan")
  <2>1. Goto(t, "market") /\ frame'[t].uid = u /\ \A s \in Task \ {t} : frame'[s] = frame[s]
    BY <1>0, <1>4 DEF Escalate, TypeOK, FrameRec
  <2>2. \A s \in Task : pc'[s] = IF s = t THEN "market" ELSE pc[s]
    BY <2>1 DEF Goto, TypeOK
  <2>3. /\ Tracked' = Tracked \ {x} /\ Submitting' = {} /\ Queued' = Queued /\ Open' = Open
        /\ \A s \in Task : ~Awaiting(s)' /\ ~Accepted(s)'
    BY <1>1, <1>2, <2>2
       DEF Tracked, Submitting, Queued, Open, Awaiting, Accepted, Drainers
  <2>4. u \in Uid /\ queue[u] = 0
    BY <1>0, <1>2 DEF Places, OneToken, Queued, TypeOK, XordRec
  <2>5. \A y \in Tracked' : xord[y].uid # u
    BY <1>0, <1>2, <2>3 DEF Places, OneToken
  <2>6. PollKnown'
    BY <1>2, <2>1, PollGoes DEF Checking
  <2>7. OneToken'
    BY <1>1, <1>2, <2>1, <2>2, <2>3, <2>4, <2>5 DEF Places, OneToken
  <2>8. Attempts'
    <3>1. \A v \in Uid : \A m : AtMost(v, m)' <=> AtMost(v, m)
      BY <1>2 DEF AtMost, Limits
    <3>2. ASSUME NEW v \in Queued'
          PROVE  AtMost(v, order[v].resub)' /\ order'[v].resub < MaxResub
      <4>1. v \in Queued /\ v \in Uid
        BY <2>3 DEF Queued
      <4> QED BY <1>1, <3>1, <4>1 DEF Places, Attempts
    <3>3. \A y \in Tracked : AtMost(xord[y].uid, xord[y].resub + 1) /\ xord[y].uid \in Uid
      BY DEF Places, Attempts, Tracked, TypeOK, XordRec
    <3>4. \A y \in Tracked' : AtMost(xord[y].uid, xord[y].resub + 1)'
      BY <1>2, <2>3, <3>1, <3>3
    <3>5. \A y \in Xid : y > placed' => xord'[y].status = "none"
      BY <1>2 DEF Places, Attempts
    <3> QED BY <2>3, <3>2, <3>4, <3>5 DEF Attempts
  <2>9. Live => Live'
    BY <1>1, <1>2, <2>3 DEF Live
  <2> QED BY <2>6, <2>7, <2>8, <2>9 DEF PlacesKept, Places
<1> QED BY <1>3, <1>4

(* A timed out order that is put back in the queue is tracked no more, and *)
(* its decision has at most one more order at the exchange than before.    *)
LEMMA ResubmitPlaces ==
  ASSUME PollsAnswered, TypeOK, TypeOK', References, Places, NEW t \in Task, Resubmit(t)
  PROVE  PlacesKept
<1>0. PICK x, u : x = frame[t].xid /\ u = xord[x].uid
  OBVIOUS
<1>1. /\ TimedOut(t) /\ ~Exhausted(x) /\ Return(t, "scan")
      /\ order' = [order EXCEPT ![u].resub = xord[x].resub + 1]
      /\ queue' = Added(queue, u) \/ queue' = queue
  BY <1>0 DEF Resubmit
<1>2. /\ pc[t] = "cancel" /\ toRemove' = toRemove \cup {x} /\ x \in Tracked /\ x \in Xid
      /\ UNCHANGED <<active, seen, size, placed, xord>> /\ seen \subseteq active
      /\ \A s \in Task \ {t} : reply'[s] = reply[s] /\ pc[s] \in {"idle", "balance"}
      /\ toRemove' \subseteq seen /\ size = Cardinality(active)
      /\ reply[t].status \notin {"none", "raised"}
  BY <1>0, <1>1, TimedOutPlaces
<1>3. Goto(t, "scan") /\ \A s \in Task : pc'[s] = IF s = t THEN "scan" ELSE pc[s]
  BY <1>1, ReturnOthers DEF Goto, TypeOK
<1>4. /\ Tracked' = Tracked \ {x} /\ Submitting' = {} /\ Open' = Open
      /\ \A s \in Task : ~Awaiting(s)' /\ ~Accepted(s)' /\ pc'[s] # "market"
  BY <1>2, <1>3 DEF Tracked, Submitting, Open, Awaiting, Accepted, Drainers
<1>5. /\ u \in Uid /\ queue[u] = 0 /\ queue'[u] \in {0, 1}
      /\ \A v \in Uid : v # u => queue'[v] = queue[v] /\ order'[v] = order[v]
      /\ order'[u].resub = xord[x].resub + 1
  <2>1. u \in Uid /\ queue[u] \in Nat
    BY <1>0, <1>2 DEF TypeOK, XordRec
  <2>2. u \notin Queued
    BY <1>0, <1>2 DEF Places, OneToken
  <2>3. queue[u] = 0
    BY <2>1, <2>2 DEF Queued
  <2> QED BY <1>1, <2>1, <2>3 DEF Added, TypeOK, OrderRec
<1>6. \A y \in Tracked' : xord[y].uid # u
  BY <1>0, <1>2, <1>4 DEF Places, OneToken
<1>7. PollKnown'
  BY <1>2, <1>3, PollGoes DEF Checking
<1>8. OneToken'
  <2>1. \A v \in Uid : queue'[v] <= 1
    BY <1>5 DEF Places, OneToken
  <2>2. ASSUME NEW v \in Queued'
        PROVE  \A y \in Tracked' : xord'[y].uid # v
    <3>1. v = u \/ v \in Queued
      BY <1>5 DEF Queued
    <3> QED BY <1>2, <1>4, <1>6, <3>1 DEF Places, OneToken
  <2>3. \A y, z \in Tracked' : xord'[y].uid = xord'[z].uid => y = z
    BY <1>2, <1>4 DEF Places, OneToken
  <2> QED BY <1>4, <2>1, <2>2, <2>3 DEF OneToken
<1>9. Attempts'
  <2>1. \A v \in Uid : \A m : AtMost(v, m)' <=> AtMost(v, m)
    BY <1>2 DEF AtMost, Limits
  <2>2. AtMost(u, xord[x].resub + 1) /\ xord[x].resub + 1 < MaxResub
    BY <1>0, <1>1, <1>2 DEF Places, Attempts, Exhausted, TypeOK, XordRec
  <2>3. ASSUME NEW v \in Queued'
        PROVE  AtMost(v, order[v].resub)' /\ order'[v].resub < MaxResub
    <3>1. CASE v = u
      BY <1>5, <2>1, <2>2, <3>1
    <3>2. CASE v # u
      <4>1. v \in Queued /\ v \in Uid /\ order'[v] = order[v]
        BY <1>5, <3>2 DEF Queued
      <4> QED BY <2>1, <4>1 DEF Places, Attempts
    <3> QED BY <3>1, <3>2
  <2>4. \A y \in Tracked : AtMost(xord[y].uid, xord[y].resub + 1) /\ xord[y].uid \in Uid
    BY DEF Places, Attempts, Tracked, TypeOK, XordRec
  <2>5. \A y \in Tracked' : AtMost(xord[y].uid, xord[y].resub + 1)'
    BY <1>2, <1>4, <2>1, <2>4
  <2>6. \A y \in Xid : y > placed' => xord'[y].status = "none"
    BY <1>2 DEF Places, Attempts
  <2> QED BY <1>4, <2>3, <2>5, <2>6 DEF Attempts
<1>10. ASSUME Live, CancelKnown
       PROVE  Live'
  <2>1. \A y \in Open : xord[y].uid # u /\ xord[y].uid \in Uid
    <3>1. x \notin Open
      BY <1>0, <1>2, <1>10 DEF CancelKnown, Open
    <3>2. \A y \in Open : xord[y].uid = u => x = y
      BY <1>0, <1>2, <1>10 DEF Live
    <3> QED BY <3>1, <3>2 DEF Open, TypeOK, XordRec
  <2> QED BY <1>2, <1>4, <1>5, <1>10, <2>1 DEF Live
<1> QED BY <1>7, <1>8, <1>9, <1>10 DEF PlacesKept, Places

LEMMA CheckPlaces ==
  ASSUME PollsAnswered, TypeOK, TypeOK', References, Places, NEW t \in Task, Check(t)
  PROVE  PlacesKept
<1>0. pc[t] \in Checking => /\ seen \subseteq active /\ toRemove \subseteq seen
                            /\ size = Cardinality(active)
                            /\ \A s \in Task \ {t} : pc[s] \in {"idle", "balance"}
  BY Alone DEF Places, PollKnown, Checking
\* the steps that consume an answer and go on with the next order
<1>1. ASSUME pc[t] \in Checking, Return(t, "scan"), Consume(t), seen' = seen,
             UNCHANGED <<order, queue, active, size, placed, xord>>,
             toRemove \subseteq toRemove', toRemove' \subseteq seen
      PROVE  PlacesKept
  BY <1>0, <1>1, ReturnOthers, ConsumeSilent, PollPlaces DEF SameOrders, Checking
<1>2. CASE CheckDone(t)
  <2>1. /\ pc[t] = "scan" /\ Return(t, "idle") /\ active' = active \ toRemove
        /\ toRemove' = {} /\ UNCHANGED <<order, queue, reply, placed, xord>>
    BY <1>2 DEF CheckDone, At, decisions, exchange
  <2>2. PollKnown'
    BY <1>0, <2>1, ReturnOthers, PollRest DEF Checking, Sweeping
  <2>3. Tracked' = Tracked
    BY <2>1 DEF Tracked
  <2>4. Quiet
    BY <2>1, <2>3, ReturnOthers, QuietStep DEF SameOrders, TypeOK
  <2> QED BY <2>2, <2>4, QuietKept
<1>3. ~CheckMutated(t)
  BY PollIntact DEF CheckMutated, At
<1>4. ASSUME NEW x \in Xid, NEW g \in 0..2, Visit(t, x, g)
      PROVE  PlacesKept
  <2>1. /\ pc[t] = "scan" /\ x \in active \ seen /\ seen' = seen \cup {x}
        /\ xord' = [xord EXCEPT ![x].age = g]
        /\ UNCHANGED <<order, queue, active, reply, size, toRemove, placed>>
    BY <1>4 DEF Visit, At, Unvisited, decisions
  <2>2. SameOrders
    BY <2>1 DEF SameOrders, TypeOK, XordRec
  <2>3. CASE g = 0
    <3>1. Goto(t, "scan") /\ UNCHANGED frame
      BY <1>4, <2>1, <2>3 DEF Visit, Goto, TypeOK
    <3> QED BY <1>0, <2>1, <2>2, <3>1, PollPlaces DEF Checking
  <2>4. CASE g # 0
    <3>1. /\ Goto(t, "query")
          /\ frame' = [frame EXCEPT ![t].xid = x, ![t].late = (g = 2)]
      BY <1>4, <2>4 DEF Visit
    <3>2. frame'[t].xid = x /\ \A s \in Task \ {t} : frame'[s] = frame[s]
      BY <3>1 DEF TypeOK, FrameRec
    <3>3. reply'[t].status = "none"
      BY <2>1, Silenced DEF Calls
    <3>4. /\ frame'[t].xid \in seen' \ toRemove' /\ seen' \subseteq active
          /\ toRemove' \subseteq seen' /\ toRemove \subseteq toRemove'
          /\ pc[t] \in Checking /\ "query" \in Checking \ {"market"}
      BY <1>0, <2>1, <3>2 DEF Checking
    <3> QED BY <2>1, <2>2, <3>1, <3>2, <3>3, <3>4, PollPlaces
  <2> QED BY <2>3, <2>4
<1>5. CASE QueryFilled(t)
  <2>1. /\ pc[t] = "query" /\ Return(t, "scan") /\ Consume(t) /\ seen' = seen
        /\ UNCHANGED <<order, queue, active, size, placed, xord>>
        /\ toRemove' = toRemove \cup {frame[t].xid}
    BY <1>5 DEF QueryFilled, Answered, At, decisions, exchange
  <2>2. frame[t].xid \in seen
    BY <2>1 DEF Places, PollKnown
  <2> QED BY <1>0, <1>1, <2>1, <2>2 DEF Checking
<1>6. CASE QueryUnfilled(t)
  <2>1. /\ pc[t] = "query" /\ Consume(t)
        /\ UNCHANGED <<order, queue, active, seen, size, toRemove, placed, xord>>
    BY <1>6 DEF QueryUnfilled, Answered, At, decisions, check, exchange
  <2>2. CASE Return(t, "scan")
    BY <1>0, <1>1, <2>1, <2>2 DEF Checking
  <2>3. CASE Goto(t, "cancel") /\ UNCHANGED frame
    <3>1. frame[t].xid \in seen \ toRemove
      BY <2>1 DEF Places, PollKnown
    <3> QED BY <1>0, <2>1, <2>3, <3>1, ConsumeSilent, PollPlaces DEF SameOrders, Checking
  <2> QED BY <1>6, <2>2, <2>3 DEF QueryUnfilled
<1>7. ~QueryFailed(t)
  BY DEF QueryFailed, Answered, At, Places, PollKnown
<1>8. CASE Escalate(t)
  BY <1>8, EscalatePlaces
<1>9. CASE Abandon(t)
  <2>1. TimedOut(t) /\ Return(t, "scan") /\ UNCHANGED <<order, queue>> /\ Consume(t)
    BY <1>9 DEF Abandon, TimedOut
  <2>2. /\ pc[t] \in Checking /\ toRemove \subseteq toRemove' /\ toRemove' \subseteq seen
        /\ seen' = seen /\ UNCHANGED <<active, size, placed, xord>>
    BY <2>1, TimedOutPlaces DEF Checking
  <2> QED BY <1>1, <2>1, <2>2
<1>10. CASE Resubmit(t)
  BY <1>10, ResubmitPlaces
<1>11. ~CancelRaised(t)
  BY DEF CancelRaised, Answered, At, Swallowed, Places, PollKnown
<1>12. CASE MarketFilled(t)
  BY <1>0, <1>1, <1>12
     DEF MarketFilled, Answered, At, decisions, check, exchange, Checking
<1>13. CASE MarketFailed(t)
  BY <1>0, <1>1, <1>13
     DEF MarketFailed, Answered, At, decisions, check, exchange, Checking
<1> QED BY <1>2, <1>3, <1>4, <1>5, <1>6, <1>7, <1>8, <1>9, <1>10, <1>11, <1>12, <1>13
        DEF Check

(* No job rebalances.                                                      *)
LEMMA RebalancePlaces ==
  ASSUME PollsAnswered, References, Places, NEW t \in Task, Rebalance(t)
  PROVE  FALSE
<1>1. t # "rebalance" /\ pc[t] \notin Sweeping
  BY DEF PollsAnswered, Drainers, Places, PollKnown
<1> QED BY <1>1 DEF Rebalance, StartRebalance, SweepFailed, PendingDone, SweepCancelDone,
            SweepBalanceDone, BuildDone, Build, Answered, At, Sweeping

LEMMA NextPlaces ==
  ASSUME PollsAnswered, TypeOK, TypeOK', References, Places, [Next]_vars
  PROVE  PlacesKept
BY RiskPlaces, DrainPlaces, CheckPlaces, RebalancePlaces, MonitorPlaces, ServePlaces,
   FillPlaces, StutterPlaces DEF Next

LEMMA InitPlaces ==
  ASSUME Init
  PROVE  Places /\ Live
<1>1. TypeOK /\ References
  BY InitType, InitReferences
<1>2. /\ active = {} /\ toRemove = {} /\ Tracked = {} /\ Queued = {} /\ Open = {}
      /\ \A u \in Uid : queue[u] = 0
      /\ \A x \in Xid : xord[x].status = "none"
      /\ \A t \in Task : pc[t] = "idle"
  BY DEF Init, Tracked, Queued, Open
<1>3. Submitting = {} /\ \A t \in Task : ~Awaiting(t) /\ ~Accepted(t)
  BY <1>2 DEF Submitting, Awaiting, Accepted, Drainers
<1>4. PollKnown
  BY <1>2 DEF PollKnown, Checking, Sweeping
<1>5. OneToken
  BY <1>2, <1>3 DEF OneToken
<1>6. Attempts
  BY <1>2, <1>3 DEF Attempts
<1>7. Live
  BY <1>2 DEF Live
<1> QED BY <1>4, <1>5, <1>6, <1>7 DEF Places

(* A decision is in the queue once, and not while an order of it is        *)
(* tracked, as long as one job drains the queue and its polls are answered.*)
THEOREM QueuedAtMostOnce ==
  ASSUME PollsAnswered
  PROVE  Spec => []QueuedOnce
<1> DEFINE IInv == TypeOK /\ References /\ ActiveBound /\ Places
<1>1. Init => IInv
  BY InitType, InitReferences, InitBound, InitPlaces
<1>2. IInv /\ [Next]_vars => IInv'
  BY NextType, NextSafe, NextPlaces DEF PlacesKept
<1>3. IInv => QueuedOnce
  <2> SUFFICES ASSUME IInv, Suspended, NEW u \in Uid
               PROVE  /\ queue[u] <= 1
                      /\ queue[u] = 1 => \A x \in active : xord[x].uid # u
    BY DEF QueuedOnce
  <2>1. Tracked = active
    BY DEF Places, PollKnown, Suspended, Checking, Tracked
  <2> QED BY <2>1 DEF Places, OneToken, Queued
<1> QED BY <1>1, <1>2, <1>3, PTL DEF Spec

(* A decision is never placed as a limit order more than max_resubmissions *)
(* times, whatever fills, is refused or is cancelled in between, as long   *)
(* as one job drains the queue and its polls are answered.                 *)
THEOREM PlacedBounded ==
  ASSUME PollsAnswered
  PROVE  Spec => PlacementsBounded
<1> DEFINE IInv == TypeOK /\ References /\ ActiveBound /\ Places
           A == \A t \in Task :
                  (pc[t] = "submit" /\ pc'[t] = "place")
                    => Cardinality(Limits(frame[t].uid)) < MaxResub
<1>1. Init => IInv
  BY InitType, InitReferences, InitBound, InitPlaces
<1>2. IInv /\ [Next]_vars => IInv'
  BY NextType, NextSafe, NextPlaces DEF PlacesKept
<1>3. IInv => A
  <2> SUFFICES ASSUME IInv, NEW t \in Task, pc[t] = "submit"
               PROVE  Cardinality(Limits(frame[t].uid)) < MaxResub
    OBVIOUS
  <2>1. Awaiting(t)
    BY Busy DEF Awaiting, Submitting
  <2>2. /\ AtMost(frame[t].uid, order[frame[t].uid].resub)
        /\ order[frame[t].uid].resub < MaxResub
    BY <2>1 DEF Places, Attempts
  <2>3. Limits(frame[t].uid) \in SUBSET Xid
    BY DEF Limits
  <2>4. Cardinality(Limits(frame[t].uid)) \in Nat
    BY <2>3, Finite
  <2>5. order[frame[t].uid].resub \in Int
    BY DEF TypeOK, FrameRec, OrderRec
  <2> QED BY <2>2, <2>4, <2>5 DEF AtMost
<1>4. IInv /\ [Next]_vars => [A]_vars
  BY <1>3
<1> QED BY <1>1, <1>2, <1>4, PTL DEF Spec, PlacementsBounded

-----------------------------------------------------------------------------
(* What the job that cancels a timed out order knows of it, whatever the   *)
(* jobs and the failures, as long as no cancel is refused: an order whose  *)
(* cancel was answered is not open.                                        *)

LEMMA OrdersAge ==
  ASSUME TypeOK, References, CancelKnown, NEW t \in Task, NEW l, Goto(t, l),
         l \notin {"query", "cancel"},
         \A s \in Task \ {t} : frame'[s] = frame[s] /\ reply'[s] = reply[s],
         \A x \in Xid : /\ xord[x].age = 2 => xord'[x].age = 2
                        /\ xord'[x].status = "open" => xord[x].status = "open"
  PROVE  CancelKnown'
<1>1. \A s \in Task : pc'[s] = IF s = t THEN l ELSE pc[s]
  BY DEF Goto, TypeOK
<1>2. \A s \in Task : frame[s].xid \in Xid
  BY DEF TypeOK, FrameRec
<1> QED BY <1>1, <1>2 DEF CancelKnown

LEMMA CancelRisk ==
  ASSUME TypeOK, References, CancelKnown, NEW t \in Task, Risk(t)
  PROVE  CancelKnown'
<1>1. CASE StartTick(t)
  <2>1. Goto(t, "risk") /\ UNCHANGED <<reply, xord>>
    BY <1>1 DEF StartTick, exchange
  <2>2. \A s \in Task \ {t} : frame'[s] = frame[s]
    BY <1>1 DEF StartTick, TypeOK
  <2> QED BY <2>1, <2>2, OrdersAge
<1>2. CASE RiskDone(t)
  BY <1>2, ReturnOthers, OrdersAge DEF RiskDone, exchange
<1>3. ASSUME NEW a \in Asset, NEW e \in Events, RiskExit(t, a, e)
      PROVE  CancelKnown'
  BY <1>3 DEF RiskExit, CancelKnown, exchange
<1> QED BY <1>1, <1>2, <1>3 DEF Risk

\* the steps of a job that end outside the poll of an order
LEMMA CancelAway ==
  ASSUME TypeOK, References, CancelKnown, NEW t \in Task, NEW l, Return(t, l),
         l \notin {"query", "cancel"}, Consume(t) \/ reply' = reply, xord' = xord
  PROVE  CancelKnown'
BY ReturnOthers, ConsumeSilent, OrdersAge

LEMMA CancelDrain ==
  ASSUME TypeOK, References, CancelKnown, NEW t \in Task, Drain(t)
  PROVE  CancelKnown'
<1>1. CASE DrainEmpty(t)
  BY <1>1, LeaveDrainLabel, CancelAway DEF DrainEmpty, exchange
<1>2. ASSUME NEW u \in Uid, Defer(t, u)
      PROVE  CancelKnown'
  BY <1>2, LeaveDrainLabel, CancelAway DEF Defer, exchange
<1>3. ASSUME NEW u \in Uid, Pop(t, u)
      PROVE  CancelKnown'
  <2>1. PICK l \in {"cancelpair", "submit"} : Goto(t, l)
    BY <1>3 DEF Pop
  <2>2. UNCHANGED <<reply, xord>> /\ \A s \in Task \ {t} : frame'[s] = frame[s]
    BY <1>3 DEF Pop, TypeOK, exchange
  <2> QED BY <2>1, <2>2, OrdersAge
<1>4. CASE CancelPairDone(t)
  BY <1>4, ConsumeSilent, OrdersAge DEF CancelPairDone, exchange
<1>5. CASE CancelPairRaised(t)
  BY <1>5, CancelAway DEF CancelPairRaised, Abort, exchange
<1>6. CASE Suppress(t)
  BY <1>6, CancelAway DEF Suppress, exchange
<1>7. CASE Submit(t)
  <2>1. Goto(t, "place") /\ UNCHANGED <<reply, xord>>
    BY <1>7 DEF Submit, exchange
  <2>2. \A s \in Task \ {t} : frame'[s] = frame[s]
    BY <1>7 DEF Submit, TypeOK
  <2> QED BY <2>1, <2>2, OrdersAge
<1>8. CASE PlaceFilled(t)
  BY <1>8, CancelAway DEF PlaceFilled, exchange
<1>9. CASE PlacePending(t)
  BY <1>9, CancelAway DEF PlacePending, exchange
<1>10. CASE PlaceFailed(t)
  BY <1>10, CancelAway DEF PlaceFailed, exchange
<1> QED BY <1>1, <1>2, <1>3, <1>4, <1>5, <1>6, <1>7, <1>8, <1>9, <1>10 DEF Drain

LEMMA CancelCheck ==
  ASSUME TypeOK, References, CancelKnown, NEW t \in Task, Check(t)
  PROVE  CancelKnown'
<1>1. CASE CheckDone(t)
  BY <1>1, CancelAway DEF CheckDone, exchange
<1>2. CASE CheckMutated(t)
  BY <1>2, CancelAway DEF CheckMutated, Abort, exchange
<1>3. ASSUME NEW x \in Xid, NEW g \in 0..2, Visit(t, x, g)
      PROVE  CancelKnown'
  <2>1. /\ pc[t] = "scan" /\ UNCHANGED reply /\ xord[x].age <= g
        /\ xord' = [xord EXCEPT ![x].age = g]
    BY <1>3 DEF Visit, At, TypeOK, XordRec
  <2>2. \A y \in Xid : /\ xord'[y].status = xord[y].status
                       /\ xord'[y].age = IF y = x THEN g ELSE xord[y].age
                       /\ xord[y].age = 2 => xord'[y].age = 2
    BY <2>1 DEF TypeOK, XordRec
  <2>3. CASE g = 0
    <3>1. Goto(t, "scan") /\ UNCHANGED frame
      BY <1>3, <2>1, <2>3 DEF Visit, Goto, TypeOK
    <3> QED BY <2>1, <2>2, <3>1, OrdersAge
  <2>4. CASE g # 0
    <3>1. /\ pc' = [pc EXCEPT ![t] = "query"]
          /\ frame' = [frame EXCEPT ![t].xid = x, ![t].late = (g = 2)]
      BY <1>3, <2>4 DEF Visit, Goto
    <3>2. /\ frame'[t].xid = x /\ frame'[t].late = (g = 2)
          /\ \A s \in Task \ {t} : frame'[s] = frame[s]
      BY <3>1 DEF TypeOK, FrameRec
    <3>3. \A s \in Task : pc'[s] = IF s = t THEN "query" ELSE pc[s]
      BY <3>1 DEF TypeOK
    <3>4. \A s \in Task : frame[s].xid \in Xid
      BY DEF TypeOK, FrameRec
    <3>5. ASSUME NEW s \in Task
          PROVE  /\ pc'[s] = "cancel" \/ (pc'[s] = "query" /\ frame'[s].late)
                      => xord'[frame'[s].xid].age = 2
                 /\ pc'[s] = "cancel" /\ reply'[s].status \notin {"none", "raised"}
                      => xord'[frame'[s].xid].status # "open"
      <4>1. CASE s = t
        BY <2>2, <3>2, <3>3, <4>1
      <4>2. CASE s # t
        BY <2>1, <2>2, <3>2, <3>3, <3>4, <4>2 DEF CancelKnown
      <4> QED BY <4>1, <4>2
    <3> QED BY <3>5 DEF CancelKnown
  <2> QED BY <2>3, <2>4
<1>4. CASE QueryFilled(t)
  BY <1>4, CancelAway DEF QueryFilled, exchange
<1>5. CASE QueryUnfilled(t)
  <2>1. pc[t] = "query" /\ Consume(t) /\ UNCHANGED xord
    BY <1>5 DEF QueryUnfilled, Answered, At, exchange
  <2>2. CASE Return(t, "scan")
    BY <2>1, <2>2, CancelAway
  <2>3. CASE frame[t].late /\ Goto(t, "cancel") /\ UNCHANGED frame
    <3>1. \A s \in Task : pc'[s] = IF s = t THEN "cancel" ELSE pc[s]
      BY <2>3 DEF Goto, TypeOK
    <3>2. reply'[t].status = "none" /\ \A s \in Task \ {t} : reply'[s] = reply[s]
      BY <2>1, ConsumeSilent
    <3> QED BY <2>1, <2>3, <3>1, <3>2 DEF CancelKnown
  <2> QED BY <1>5, <2>2, <2>3 DEF QueryUnfilled
<1>6. CASE QueryFailed(t)
  BY <1>6, CancelAway DEF QueryFailed, Abort, exchange
<1>7. CASE Escalate(t)
  <2>1. Consume(t) /\ UNCHANGED xord
    BY <1>7 DEF Escalate, TimedOut, exchange
  <2>2. CASE Return(t, "scan")
    BY <2>1, <2>2, CancelAway
  <2>3. CASE ~Return(t, "scan")
    <3>1. Goto(t, "market") /\ \A s \in Task \ {t} : frame'[s] = frame[s]
      BY <1>7, <2>3 DEF Escalate, TypeOK
    <3> QED BY <2>1, <3>1, ConsumeSilent, OrdersAge
  <2> QED BY <2>2, <2>3
<1>8. CASE Abandon(t)
  BY <1>8, CancelAway DEF Abandon, TimedOut, exchange
<1>9. CASE Resubmit(t)
  BY <1>9, CancelAway DEF Resubmit, TimedOut, exchange
<1>10. CASE CancelRaised(t)
  BY <1>10, CancelAway DEF CancelRaised, Abort, exchange
<1>11. CASE MarketFilled(t)
  BY <1>11, CancelAway DEF MarketFilled, exchange
<1>12. CASE MarketFailed(t)
  BY <1>12, CancelAway DEF MarketFailed, exchange
<1> QED BY <1>1, <1>2, <1>3, <1>4, <1>5, <1>6, <1>7, <1>8, <1>9, <1>10, <1>11, <1>12
        DEF Check

LEMMA CancelRebalance ==
  ASSUME TypeOK, References, CancelKnown, NEW t \in Task, Rebalance(t)
  PROVE  CancelKnown'
\* the steps of the sweep go on to another call, or to build the orders
<1>0. ASSUME NEW l, Goto(t, l), l \notin {"query", "cancel"}, Consume(t) \/ reply' = reply,
             frame' = [frame EXCEPT ![t].qty = made] \/ frame' = frame, xord' = xord
      PROVE  CancelKnown'
  <2>1. \A s \in Task \ {t} : frame'[s] = frame[s]
    BY <1>0 DEF TypeOK
  <2> QED BY <1>0, <2>1, ConsumeSilent, OrdersAge
<1>1. CASE StartRebalance(t)
  BY <1>0, <1>1 DEF StartRebalance, exchange
<1>2. CASE SweepFailed(t)
  BY <1>0, <1>2 DEF SweepFailed, exchange
<1>3. CASE PendingDone(t)
  BY <1>0, <1>3 DEF PendingDone, exchange
<1>4. CASE SweepCancelDone(t)
  BY <1>0, <1>4 DEF SweepCancelDone, exchange
<1>5. CASE SweepBalanceDone(t)
  BY <1>0, <1>5 DEF SweepBalanceDone, exchange
<1>6. CASE BuildDone(t)
  BY <1>6, CancelAway DEF BuildDone, exchange
<1>7. ASSUME NEW a \in Asset, NEW side \in {"BUY", "SELL"}, NEW usd \in Sizes,
             Build(t, a, side, usd)
      PROVE  CancelKnown'
  BY <1>7 DEF Build, CancelKnown, exchange
<1> QED BY <1>1, <1>2, <1>3, <1>4, <1>5, <1>6, <1>7 DEF Rebalance

LEMMA CancelMonitor ==
  ASSUME TypeOK, References, CancelKnown, NEW t \in Task, Monitor(t)
  PROVE  CancelKnown'
<1>1. CASE StartMonitor(t)
  BY <1>1, OrdersAge DEF StartMonitor, exchange
<1>2. CASE BalanceDone(t)
  BY <1>2, CancelAway DEF BalanceDone, exchange
<1> QED BY <1>1, <1>2 DEF Monitor

(* The exchange leaves an order that it was asked to cancel cancelled, or  *)
(* as it was if it was open no more; other orders only grow older.         *)
LEMMA CancelServe ==
  ASSUME CancelsAccepted, TypeOK, TypeOK', References, CancelKnown, NEW t \in Task, Serve(t)
  PROVE  CancelKnown'
\* only the answer to a cancel is of interest
<1>0. ASSUME UNCHANGED Client, \A s \in Task \ {t} : reply'[s] = reply[s],
             \A x \in Xid : x <= placed =>
               /\ xord'[x].age = xord[x].age
               /\ xord'[x].status = "open" => xord[x].status = "open",
             pc[t] = "cancel" => \/ reply'[t].status = "raised"
                                 \/ xord'[frame[t].xid].status # "open"
      PROVE  CancelKnown'
  <2>1. UNCHANGED <<pc, frame>>
    BY <1>0 DEF Client
  <2>2. \A s \in Task : pc[s] \in {"query", "cancel"}
                           => frame[s].xid \in Xid /\ frame[s].xid <= placed
    BY DEF References, CallKnown, TypeOK, FrameRec
  <2>3. ASSUME NEW s \in Task
        PROVE  /\ pc'[s] = "cancel" \/ (pc'[s] = "query" /\ frame'[s].late)
                    => xord'[frame'[s].xid].age = 2
               /\ pc'[s] = "cancel" /\ reply'[s].status \notin {"none", "raised"}
                    => xord'[frame'[s].xid].status # "open"
    <3>1. CASE s = t
      BY <1>0, <2>1, <2>2, <3>1 DEF CancelKnown
    <3>2. CASE s # t
      BY <1>0, <2>1, <2>2, <3>2 DEF CancelKnown
    <3> QED BY <3>1, <3>2
  <2> QED BY <2>3 DEF CancelKnown
\* the calls that leave the orders alone
<1>1. ASSUME UNCHANGED Client, \A s \in Task \ {t} : reply'[s] = reply[s],
             UNCHANGED xord, pc[t] # "cancel" \/ reply'[t].status = "raised"
      PROVE  CancelKnown'
  BY <1>0, <1>1
<1>2. ASSUME pc[t] \in {"place", "market"}, Affordable(t), UNCHANGED Client,
             \A s \in Task \ {t} : reply'[s] = reply[s],
             NEW status \in {"open", "filled"}, NEW done \in Nat,
             NewOrder(t, status, done)
      PROVE  CancelKnown'
  <2>1. placed + 1 \in Xid /\ placed \in Nat
    BY <1>2, NewOrderType DEF TypeOK
  <2>2. \A x \in Xid : x <= placed => xord'[x] = xord[x]
    BY <1>2, <2>1 DEF NewOrder, TypeOK, Xid
  <2> QED BY <1>0, <1>2, <2>2
<1>3. CASE XPlaceOpen(t)
  <2>1. PICK r : Answer(t, r)
    BY <1>3 DEF XPlaceOpen
  <2> QED BY <1>2, <1>3, <2>1, AnswerOthers DEF XPlaceOpen, Pending
<1>4. CASE XPlaceFilled(t)
  <2>1. PICK r : Answer(t, r)
    BY <1>4 DEF XPlaceFilled
  <2>2. frame[t].qty \in Nat
    BY DEF TypeOK, FrameRec
  <2> QED BY <1>2, <1>4, <2>1, <2>2, AnswerOthers DEF XPlaceFilled, Pending
<1>5. CASE XReject(t)
  BY <1>1, <1>5 DEF XReject, Pending, exchange, TypeOK
<1>6. ASSUME NEW status \in {"refused", "raised"}, XFail(t, status)
      PROVE  CancelKnown'
  <2>1. reply'[t].status = status /\ \A s \in Task \ {t} : reply'[s] = reply[s]
    BY <1>6 DEF XFail, TypeOK, Silent
  <2> QED BY <1>1, <1>6, <2>1 DEF XFail, exchange, CancelsAccepted
<1>7. ASSUME NEW S \in SUBSET Open, xord' = Cancelled(S)
      PROVE  /\ \A x \in Xid : /\ xord'[x].age = xord[x].age
                               /\ xord'[x].status = "open" => xord[x].status = "open"
             /\ \A x \in S : xord'[x].status = "canceled"
  <2>1. S \subseteq Xid
    BY DEF Open
  <2>2. \A x \in Xid : xord'[x] = IF x \in S THEN [xord[x] EXCEPT !.status = "canceled"]
                                             ELSE xord[x]
    BY <1>7 DEF Cancelled
  <2> QED BY <2>1, <2>2 DEF TypeOK, XordRec
<1>8. CASE XCancelPair(t)
  <2>1. pc[t] = "cancelpair" /\ Answer(t, Done) /\ UNCHANGED Client
    BY <1>8 DEF XCancelPair, Pending
  <2>2. \A x \in Xid : /\ xord'[x].age = xord[x].age
                       /\ xord'[x].status = "open" => xord[x].status = "open"
    BY <1>7, <1>8 DEF XCancelPair
  <2> QED BY <1>0, <2>1, <2>2, AnswerOthers
<1>9. ASSUME NEW a \in Asset, XSweepCancel(t, a)
      PROVE  CancelKnown'
  <2>1. pc[t] = "sweepcancel" /\ UNCHANGED Client
    BY <1>9 DEF XSweepCancel, Pending
  <2>2. PICK r : Answer(t, r)
    BY <1>9 DEF XSweepCancel
  <2>3. \A x \in Xid : /\ xord'[x].age = xord[x].age
                       /\ xord'[x].status = "open" => xord[x].status = "open"
    BY <1>7, <1>9 DEF XSweepCancel
  <2> QED BY <1>0, <2>1, <2>2, <2>3, AnswerOthers
<1>10. CASE XCancel(t)
  <2>1. pc[t] = "cancel" /\ Answer(t, Done) /\ UNCHANGED Client
          /\ xord' = Cancelled(Open \cap {frame[t].xid})
    BY <1>10 DEF XCancel, Pending
  <2>2. /\ \A x \in Xid : /\ xord'[x].age = xord[x].age
                          /\ xord'[x].status = "open" => xord[x].status = "open"
        /\ \A x \in Open \cap {frame[t].xid} : xord'[x].status = "canceled"
    BY <1>7, <2>1
  <2>3. frame[t].xid \in Xid
    BY DEF TypeOK, FrameRec
  <2>4. xord'[frame[t].xid].status # "open"
    BY <2>2, <2>3 DEF Open
  <2> QED BY <1>0, <2>1, <2>2, <2>4, AnswerOthers
<1>11. CASE XQuery(t) \/ XPending(t) \/ XBalance(t)
  <2>1. PICK r : Answer(t, r)
    BY <1>11 DEF XQuery, XPending, XBalance
  <2>2. pc[t] # "cancel" /\ UNCHANGED Client /\ UNCHANGED xord
    BY <1>11 DEF XQuery, XPending, XBalance, Pending, exchange
  <2> QED BY <1>1, <2>1, <2>2, AnswerOthers
<1> QED BY <1>3, <1>4, <1>5, <1>6, <1>8, <1>9, <1>10, <1>11 DEF Serve

LEMMA CancelFill ==
  ASSUME TypeOK, References, CancelKnown, NEW x \in Xid, NEW q \in 1..Left(x), Fill(x, q)
  PROVE  CancelKnown'
<1>1. /\ UNCHANGED <<pc, frame, reply>> /\ x \in Open
      /\ xord' = [xord EXCEPT ![x].done = @ + q,
                              ![x].status = IF q = Left(x) THEN "filled" ELSE @]
  BY DEF Fill, Client
<1>2. \A y \in Xid : xord'[y].age = xord[y].age
                       /\ (xord'[y].status = "open" => xord[y].status = "open")
  BY <1>1 DEF Open, TypeOK, XordRec
<1>3. \A s \in Task : frame[s].xid \in Xid
  BY DEF TypeOK, FrameRec
<1>4. ASSUME NEW s \in Task
      PROVE  /\ pc'[s] = "cancel" \/ (pc'[s] = "query" /\ frame'[s].late)
                  => xord'[frame'[s].xid].age = 2
             /\ pc'[s] = "cancel" /\ reply'[s].status \notin {"none", "raised"}
                  => xord'[frame'[s].xid].status # "open"
  <2>1. UNCHANGED <<pc, frame, reply>>
    BY <1>1
  <2> QED BY <1>2, <1>3, <2>1 DEF CancelKnown
<1> QED BY <1>4 DEF CancelKnown

LEMMA NextCancel ==
  ASSUME CancelsAccepted, TypeOK, TypeOK', References, CancelKnown, [Next]_vars
  PROVE  CancelKnown'
<1>1. UNCHANGED vars => CancelKnown'
  BY DEF vars, exchange, CancelKnown
<1> QED BY <1>1, CancelRisk, CancelDrain, CancelCheck, CancelRebalance, CancelMonitor,
           CancelServe, CancelFill DEF Next

LEMMA InitCancel == Init => CancelKnown
BY DEF Init, CancelKnown

(* A decision has one open order at a time, as long as one job drains the  *)
(* queue, its polls are answered and its cancels are not refused.          *)
THEOREM OneOpen ==
  ASSUME PollsAnswered, CancelsAccepted
  PROVE  Spec => []OneOpenPerDecision
<1> DEFINE IInv == TypeOK /\ References /\ ActiveBound /\ Places /\ CancelKnown /\ Live
<1>1. Init => IInv
  BY InitType, InitReferences, InitBound, InitPlaces, InitCancel
<1>2. IInv /\ [Next]_vars => IInv'
  BY NextType, NextSafe, NextPlaces, NextCancel DEF PlacesKept
<1>3. IInv => OneOpenPerDecision
  BY DEF Live, OneOpenPerDecision
<1> QED BY <1>1, <1>2, <1>3, PTL DEF Spec

(* The only way to the market is the escalation of a timed out order.      *)
LEMMA MarketMoves ==
  ASSUME TypeOK, Next, NEW s \in Task, pc[s] # "market", pc'[s] = "market"
  PROVE  Escalate(s)
<1> DEFINE Elsewhere(t) == pc' = pc \/ \E l : l # "market" /\ Goto(t, l)
<1>1. ASSUME NEW t \in Task
      PROVE  ~Elsewhere(t)
  BY <1>1 DEF Goto, TypeOK
<1> HIDE DEF Elsewhere
<1>2. ASSUME NEW t \in Task, NEW l, l # "market", Goto(t, l) \/ Return(t, l)
      PROVE  Elsewhere(t)
  BY <1>2 DEF Elsewhere, Return
<1>3. ASSUME NEW t \in Task, pc' = pc
      PROVE  Elsewhere(t)
  BY <1>3 DEF Elsewhere
<1>4. ASSUME NEW t \in Task, Risk(t)
      PROVE  Elsewhere(t)
  BY <1>2, <1>3, <1>4 DEF Risk, StartTick, RiskDone, RiskExit
<1>5. ASSUME NEW t \in Task, Drain(t)
      PROVE  Elsewhere(t)
  <2>1. LeaveDrain(t) => Elsewhere(t)
    BY <1>2, LeaveDrainLabel
  <2>2. \A u \in Uid : Defer(t, u) \/ Pop(t, u) => Elsewhere(t)
    BY <1>2, <2>1 DEF Defer, Pop
  <2> QED BY <1>2, <1>5, <2>1, <2>2
          DEF Drain, DrainEmpty, CancelPairDone, CancelPairRaised, Abort,
              Suppress, Submit, PlaceFilled, PlacePending, PlaceFailed
<1>6. ASSUME NEW t \in Task, Check(t)
      PROVE  Elsewhere(t) \/ (Escalate(t) /\ Goto(t, "market"))
  <2>1. \A x \in Xid, g \in 0..2 : Visit(t, x, g) => Elsewhere(t)
    BY <1>2, <1>3 DEF Visit
  <2>2. QueryUnfilled(t) => Elsewhere(t)
    BY <1>2 DEF QueryUnfilled
  <2>3. Escalate(t) => Elsewhere(t) \/ Goto(t, "market")
    BY <1>2 DEF Escalate
  <2> QED BY <1>2, <1>6, <2>1, <2>2, <2>3
          DEF Check, CheckDone, CheckMutated, Abort, QueryFilled, QueryFailed,
              Abandon, Resubmit, CancelRaised, MarketFilled, MarketFailed
<1>7. ASSUME NEW t \in Task, Rebalance(t)
      PROVE  Elsewhere(t)
  <2>1. PendingDone(t) \/ SweepCancelDone(t) => Elsewhere(t)
    BY <1>2 DEF PendingDone, SweepCancelDone
  <2> QED BY <1>2, <1>3, <1>7, <2>1
          DEF Rebalance, StartRebalance, SweepFailed, SweepBalanceDone, BuildDone, Build
<1>8. ASSUME NEW t \in Task, Monitor(t)
      PROVE  Elsewhere(t)
  BY <1>2, <1>8 DEF Monitor, StartMonitor, BalanceDone
<1>9. ASSUME NEW t \in Task, Serve(t)
      PROVE  Elsewhere(t)
  BY <1>3, <1>9 DEF Serve, XPlaceOpen, XPlaceFilled, XReject, XFail, XCancelPair,
                    XSweepCancel, XCancel, XQuery, XPending, XBalance, Client
<1>10. \A x \in Xid : \A q \in 1..Left(x) : ~Fill(x, q)
  <2>1. UNCHANGED Client => pc' = pc
    BY DEF Client
  <2> QED BY <2>1 DEF Fill
<1>11. PICK t \in Task : Check(t)
  BY <1>1, <1>4, <1>5, <1>7, <1>8, <1>9, <1>10 DEF Next
<1>12. Escalate(t) /\ Goto(t, "market")
  BY <1>1, <1>6, <1>11
<1>13. s = t
  BY <1>12 DEF Goto, TypeOK
<1> QED BY <1>12, <1>13

(* Whatever the jobs and their interleavings, the market is only reached   *)
(* by a CRITICAL exit whose limit order timed out and is no longer open,   *)
(* as long as no cancel is refused: a cancel that raises, or whose answer  *)
(* is lost, ends the poll before the market order.                         *)
THEOREM MarketReplaces ==
  ASSUME CancelsAccepted
  PROVE  Spec => MarketReplacesLimit
<1> DEFINE IInv == TypeOK /\ References /\ ActiveBound /\ CancelKnown
           Sent(t) == /\ Critical(frame'[t].uid)
                      /\ xord[frame[t].xid].uid = frame'[t].uid
                      /\ xord[frame[t].xid].age = 2
                      /\ xord[frame[t].xid].status # "open"
           A == \A t \in Task : (pc[t] # "market" /\ pc'[t] = "market") => Sent(t)
<1>1. Init => IInv
  BY InitType, InitReferences, InitBound, InitCancel
<1>2. IInv /\ [Next]_vars => IInv'
  BY NextType, NextSafe, NextCancel
<1>3. IInv /\ [Next]_vars => [A]_vars
  <2> SUFFICES ASSUME IInv, Next, NEW t \in Task, pc[t] # "market", pc'[t] = "market"
               PROVE  Sent(t)
    OBVIOUS
  <2>1. Escalate(t)
    BY MarketMoves
  <2>2. pc[t] = "cancel" /\ reply[t].status \notin {"none", "raised"}
    BY <2>1 DEF Escalate, TimedOut, Answered, At, Swallowed
  <2>3. xord[frame[t].xid].age = 2 /\ xord[frame[t].xid].status # "open"
    BY <2>2 DEF CancelKnown
  <2>4. frame'[t].uid = xord[frame[t].xid].uid
    <3>1. ~Return(t, "scan")
      BY DEF Return, Goto, TypeOK
    <3> QED BY <2>1, <3>1 DEF Escalate, TypeOK, FrameRec
  <2>5. Critical(xord[frame[t].xid].uid)
    BY <2>1 DEF Escalate, Accelerates, Severe, Critical
  <2> QED BY <2>3, <2>4, <2>5 DEF Critical
<1> QED BY <1>1, <1>2, <1>3, PTL DEF Spec, MarketReplacesLimit

-----------------------------------------------------------------------------
(* Where the open orders are, when no answer is lost: tracked and not yet  *)
(* dealt with by the poll, or in the answer that tells of their acceptance.*)
(* When a pair's orders were cancelled none of them is open, and an order  *)
(* that a query calls filled is.                                           *)

Clear(t) == \A y \in Open : AssetOf(y) # order[frame[t].uid].asset

Found ==
  /\ \A y \in Open : y \in Tracked \/ \E t \in Task : Accepted(t) /\ reply[t].xid = y
  /\ \A t \in Task : /\ pc[t] = "cancelpair" /\ reply[t].status # "none"
                          => reply[t].status = "ok" /\ Clear(t)
                     /\ pc[t] = "query" /\ reply[t].status = "ok" /\ reply[t].qty > 0
                          => xord[frame[t].xid].status = "filled"

(* A step of job t that leaves the exchange alone loses no open order if   *)
(* it stops tracking none, and tracks the one it was told of.              *)
LEMMA FoundStep ==
  ASSUME TypeOK, Found, NEW t \in Task, NEW l, Goto(t, l),
         \A s \in Task \ {t} : frame'[s] = frame[s] /\ reply'[s] = reply[s],
         \A x \in Xid : xord'[x].status = xord[x].status,
         \A x \in Open : AssetOf(x)' = AssetOf(x),
         \A s \in Task : pc[s] = "cancelpair"
                           => order'[frame[s].uid].asset = order[frame[s].uid].asset,
         \A y \in Tracked : y \in Open => y \in Tracked',
         Accepted(t) => reply[t].xid \in Tracked',
         l \in {"cancelpair", "query"} => reply'[t].status = "none"
  PROVE  Found'
<1>1. \A s \in Task : pc'[s] = IF s = t THEN l ELSE pc[s]
  BY DEF Goto, TypeOK
<1>2. Open' = Open
  BY DEF Open
<1>3. ASSUME NEW y \in Open'
      PROVE  y \in Tracked' \/ \E s \in Task : Accepted(s)' /\ reply'[s].xid = y
  <2>1. CASE y \in Tracked
    BY <1>2, <2>1
  <2>2. ASSUME NEW s \in Task, Accepted(s), reply[s].xid = y
        PROVE  y \in Tracked' \/ (Accepted(s)' /\ reply'[s].xid = y)
    BY <1>1, <2>2 DEF Accepted
  <2> QED BY <1>2, <2>1, <2>2 DEF Found
<1>4. ASSUME NEW s \in Task, pc'[s] = "cancelpair", reply'[s].status # "none"
      PROVE  reply'[s].status = "ok" /\ Clear(s)'
  <2>1. s # t /\ pc[s] = "cancelpair" /\ reply[s].status = "ok" /\ Clear(s)
          /\ reply'[s] = reply[s] /\ frame'[s] = frame[s]
    BY <1>1, <1>4 DEF Found
  <2>2. order'[frame[s].uid].asset = order[frame[s].uid].asset
    BY <2>1
  <2> QED BY <1>2, <2>1, <2>2 DEF Clear
<1>5. ASSUME NEW s \in Task, pc'[s] = "query", reply'[s].status = "ok", reply'[s].qty > 0
      PROVE  xord'[frame'[s].xid].status = "filled"
  <2>1. s # t /\ pc[s] = "query" /\ reply'[s] = reply[s] /\ frame'[s] = frame[s]
          /\ frame[s].xid \in Xid
    BY <1>1, <1>5 DEF TypeOK, FrameRec
  <2> QED BY <1>5, <2>1 DEF Found
<1> QED BY <1>3, <1>4, <1>5 DEF Found

\* most steps leave the decisions and what is tracked alone too
LEMMA FoundSame ==
  ASSUME TypeOK, Found, NEW t \in Task, NEW l, Goto(t, l),
         \A s \in Task \ {t} : frame'[s] = frame[s] /\ reply'[s] = reply[s],
         UNCHANGED <<order, xord>>,
         \A y \in Tracked : y \in Open => y \in Tracked', ~Accepted(t),
         l \in {"cancelpair", "query"} => reply'[t].status = "none"
  PROVE  Found'
BY FoundStep DEF AssetOf

(* An answer keeps it, if it tells the truth of the orders it is about.    *)
LEMMA FoundServe ==
  ASSUME TypeOK, Found, NEW t \in Task, UNCHANGED Client,
         \A s \in Task \ {t} : reply'[s] = reply[s],
         reply[t].status = "none",
         \A x \in Xid : /\ xord'[x].uid = xord[x].uid
                        /\ xord'[x].status = "open" => xord[x].status = "open"
                        /\ xord[x].status = "filled" => xord'[x].status = "filled",
         pc[t] = "cancelpair" => reply'[t].status = "ok" /\ Clear(t)',
         pc[t] = "query" /\ reply'[t].status = "ok" /\ reply'[t].qty > 0
           => xord'[frame[t].xid].status = "filled"
  PROVE  Found'
<1>1. UNCHANGED <<order, active, toRemove, pc, frame>> /\ Tracked' = Tracked
  BY DEF Client, decisions, check, Tracked
<1>2. \A y \in Open' : y \in Open /\ AssetOf(y)' = AssetOf(y)
  BY <1>1 DEF Open, AssetOf
<1>3. ASSUME NEW y \in Open'
      PROVE  y \in Tracked' \/ \E s \in Task : Accepted(s)' /\ reply'[s].xid = y
  <2>1. CASE y \in Tracked
    BY <1>1, <2>1
  <2>2. ASSUME NEW s \in Task, Accepted(s), reply[s].xid = y
        PROVE  Accepted(s)' /\ reply'[s].xid = y
    BY <1>1, <2>2 DEF Accepted
  <2> QED BY <1>2, <2>1, <2>2 DEF Found
<1>4. ASSUME NEW s \in Task, pc'[s] = "cancelpair", reply'[s].status # "none"
      PROVE  reply'[s].status = "ok" /\ Clear(s)'
  <2>1. CASE s = t
    BY <1>1, <1>4, <2>1
  <2>2. CASE s # t
    <3>1. reply[s].status = "ok" /\ Clear(s) /\ reply'[s].status = "ok"
      BY <1>1, <1>4, <2>2 DEF Found
    <3> QED BY <1>1, <1>2, <3>1 DEF Clear
  <2> QED BY <2>1, <2>2
<1>5. ASSUME NEW s \in Task, pc'[s] = "query", reply'[s].status = "ok", reply'[s].qty > 0
      PROVE  xord'[frame'[s].xid].status = "filled"
  <2>1. CASE s = t
    BY <1>1, <1>5, <2>1
  <2>2. CASE s # t
    <3>1. frame[s].xid \in Xid
      BY DEF TypeOK, FrameRec
    <3> QED BY <1>1, <1>5, <2>2, <3>1 DEF Found
  <2> QED BY <2>1, <2>2
<1> QED BY <1>3, <1>4, <1>5 DEF Found

LEMMA FoundRisk ==
  ASSUME NothingLost, TypeOK, References, Places, Found, NEW t \in Task, Risk(t)
  PROVE  Found'
<1>1. CASE StartTick(t)
  <2>1. /\ Goto(t, "risk") /\ pc[t] = "idle"
        /\ UNCHANGED <<order, active, toRemove, reply, xord>>
    BY <1>1 DEF StartTick, At, decisions, check, exchange
  <2>2. \A s \in Task \ {t} : frame'[s] = frame[s]
    BY <1>1 DEF StartTick, TypeOK
  <2> QED BY <2>1, <2>2, FoundSame DEF Accepted, Tracked
<1>2. CASE RiskDone(t)
  <2>1. /\ Return(t, "drain") /\ pc[t] = "risk"
        /\ UNCHANGED <<order, active, toRemove, reply, xord>>
    BY <1>2 DEF RiskDone, At, decisions, check, exchange
  <2> QED BY <2>1, ReturnOthers, FoundSame DEF Accepted, Tracked
<1>3. ASSUME NEW a \in Asset, NEW e \in Events, RiskExit(t, a, e)
      PROVE  Found'
  <2>1. /\ Create(a, "SELL", PriorityOf(e), pos[a] * price[a], e) /\ pc[t] = "risk"
        /\ UNCHANGED <<active, toRemove, pc, frame, reply, exchange, xord>>
    BY <1>3 DEF RiskExit, At, check, exchange
  <2>2. \A u \in Uid : u <= made => order'[u] = order[u]
    BY <2>1, CreateKnown
  <2>3. Goto(t, "risk") /\ ~Accepted(t)
    BY <2>1 DEF Goto, Accepted, TypeOK
  <2>4. \A x \in Open : xord[x].uid \in Uid /\ xord[x].uid <= made
    <3>1. \A x \in Open : x \in Xid /\ xord[x].status = "open"
      BY DEF Open
    <3>2. \A x \in Open : x \in Xid /\ x <= placed
      BY <3>1, Unplaced
    <3> QED BY <3>2 DEF References, OrdersKnown, TypeOK, XordRec
  <2>5. \A x \in Open : AssetOf(x)' = AssetOf(x)
    BY <2>1, <2>2, <2>4 DEF AssetOf
  <2>6. \A s \in Task : pc[s] = "cancelpair"
                          => order'[frame[s].uid].asset = order[frame[s].uid].asset
    BY <2>2 DEF References, CallKnown, TypeOK, FrameRec
  <2> QED BY <2>1, <2>3, <2>5, <2>6, FoundStep DEF Tracked
<1> QED BY <1>1, <1>2, <1>3 DEF Risk

LEMMA FoundDrain ==
  ASSUME NothingLost, TypeOK, References, Places, Found, NEW t \in Task, Drain(t)
  PROVE  Found'
<1>0. pc[t] \in {"drain", "cancelpair", "submit", "place"}
        => toRemove = {} /\ Tracked = active
  BY Outside DEF NothingLost, Places, Checking
\* the steps that end outside a call, with an order of their own at most
<1>1. ASSUME pc[t] \in {"drain", "submit", "place"}, NEW l \in {"scan", "idle", "drain"},
             Return(t, l), Consume(t) \/ reply' = reply, UNCHANGED <<order, xord>>,
             active \subseteq active', toRemove' = {},
             Accepted(t) => reply[t].xid \in active'
      PROVE  Found'
  BY <1>0, <1>1, ReturnOthers, ConsumeSilent, FoundStep DEF Tracked, AssetOf
<1>2. ASSUME LeaveDrain(t), pc[t] = "drain", UNCHANGED <<order, active, reply, xord>>
      PROVE  Found'
  <2>1. toRemove' = {}
    BY <1>0, <1>2 DEF LeaveDrain, check
  <2> QED BY <1>1, <1>2, <2>1, LeaveDrainLabel DEF Accepted
<1>3. CASE DrainEmpty(t)
  BY <1>2, <1>3 DEF DrainEmpty, At, decisions, exchange
<1>4. ASSUME NEW u \in Uid, Defer(t, u)
      PROVE  Found'
  BY <1>2, <1>4 DEF Defer, At, decisions, exchange
<1>5. ASSUME NEW u \in Uid, Pop(t, u)
      PROVE  Found'
  <2>1. /\ pc[t] = "drain" /\ UNCHANGED <<order, active, reply, toRemove, xord>>
    BY <1>5 DEF Pop, At, decisions, check, exchange
  <2>2. PICK l : Goto(t, l)
    BY <1>5 DEF Pop
  <2>3. \A s \in Task \ {t} : frame'[s] = frame[s]
    BY <1>5 DEF Pop, TypeOK
  <2>4. reply'[t].status = "none"
    BY <2>1, Silenced DEF Calls
  <2> QED BY <2>1, <2>2, <2>3, <2>4, FoundSame DEF Accepted, Tracked
<1>6. CASE CancelPairDone(t)
  <2>1. /\ pc[t] = "cancelpair" /\ reply[t].status # "none" /\ Goto(t, "submit")
        /\ Consume(t) /\ active' = active \ OfPair(order[frame[t].uid].asset)
        /\ UNCHANGED <<order, frame, toRemove, xord>>
    BY <1>6 DEF CancelPairDone, Answered, At, decisions, check, exchange
  <2>2. \A y \in Open : AssetOf(y) # order[frame[t].uid].asset
    BY <2>1 DEF Found, Clear
  <2>3. \A y \in Tracked : y \in Open => y \in Tracked'
    BY <2>1, <2>2 DEF Tracked, OfPair
  <2> QED BY <2>1, <2>3, ConsumeSilent, FoundSame DEF Accepted
<1>7. ~CancelPairRaised(t)
  BY DEF CancelPairRaised, Answered, At, Swallowed, Found
<1>8. CASE Suppress(t)
  BY <1>0, <1>1, <1>8 DEF Suppress, At, decisions, check, exchange, Accepted
<1>9. CASE Submit(t)
  <2>1. /\ pc[t] = "submit" /\ Goto(t, "place")
        /\ UNCHANGED <<order, active, reply, toRemove, xord>>
    BY <1>9 DEF Submit, At, decisions, check, exchange
  <2>2. \A s \in Task \ {t} : frame'[s] = frame[s]
    BY <1>9 DEF Submit, TypeOK
  <2> QED BY <2>1, <2>2, FoundSame DEF Accepted, Tracked
<1>10. CASE PlaceFilled(t)
  <2>1. /\ pc[t] = "place" /\ reply[t].qty > 0 /\ Return(t, "drain") /\ Consume(t)
        /\ UNCHANGED <<order, active, toRemove, xord>>
    BY <1>10 DEF PlaceFilled, Answered, At, decisions, check, exchange
  <2> QED BY <1>0, <1>1, <2>1 DEF Accepted
<1>11. CASE PlacePending(t)
  <2>1. /\ pc[t] = "place" /\ active' = active \cup {reply[t].xid}
        /\ Return(t, "drain") /\ Consume(t) /\ UNCHANGED <<order, toRemove, xord>>
    BY <1>11 DEF PlacePending, Answered, At, decisions, check, exchange
  <2> QED BY <1>0, <1>1, <2>1
<1>12. CASE PlaceFailed(t)
  <2>1. /\ pc[t] = "place" /\ ~Accepted(t) /\ Return(t, "drain") /\ Consume(t)
        /\ UNCHANGED <<order, active, toRemove, xord>>
    BY <1>12 DEF PlaceFailed, Answered, At, Failed, Accepted, decisions, check, exchange
  <2> QED BY <1>0, <1>1, <2>1
<1> QED BY <1>3, <1>4, <1>5, <1>6, <1>7, <1>8, <1>9, <1>10, <1>11, <1>12 DEF Drain

LEMMA FoundCheck ==
  ASSUME NothingLost, TypeOK, References, Places, CancelKnown, Found,
         NEW t \in Task, Check(t)
  PROVE  Found'
\* the steps that go on with the next order after dealing with one not open
<1>1. ASSUME pc[t] \in Checking, NEW l \in {"scan", "market"}, Goto(t, l), Consume(t),
             \A s \in Task \ {t} : frame'[s] = frame[s],
             UNCHANGED <<active, xord>>, \A u \in Uid : order'[u].asset = order[u].asset,
             \/ toRemove' = toRemove
             \/ toRemove' = toRemove \cup {frame[t].xid} /\ frame[t].xid \notin Open
      PROVE  Found'
  <2>1. \A y \in Tracked : y \in Open => y \in Tracked'
    BY <1>1 DEF Tracked
  <2>2. ~Accepted(t)
    BY <1>1 DEF Accepted, Checking
  <2>3. \A x \in Open : AssetOf(x)' = AssetOf(x)
    BY <1>1 DEF AssetOf, Open, TypeOK, XordRec
  <2>4. \A s \in Task : pc[s] = "cancelpair"
                          => order'[frame[s].uid].asset = order[frame[s].uid].asset
    BY <1>1 DEF TypeOK, FrameRec
  <2> QED BY <1>1, <2>1, <2>2, <2>3, <2>4, ConsumeSilent, FoundStep
<1>2. CASE CheckDone(t)
  <2>1. /\ pc[t] = "scan" /\ Return(t, "idle") /\ active' = active \ toRemove
        /\ toRemove' = {} /\ UNCHANGED <<order, reply, xord>>
    BY <1>2 DEF CheckDone, At, decisions, exchange
  <2> QED BY <2>1, ReturnOthers, FoundSame DEF Tracked, Accepted
<1>3. ~CheckMutated(t)
  BY PollIntact DEF CheckMutated, At
<1>4. ASSUME NEW x \in Xid, NEW g \in 0..2, Visit(t, x, g)
      PROVE  Found'
  <2>1. /\ pc[t] = "scan" /\ xord' = [xord EXCEPT ![x].age = g]
        /\ UNCHANGED <<order, active, reply, toRemove>>
    BY <1>4 DEF Visit, At, decisions
  <2>2. \A y \in Xid : xord'[y].status = xord[y].status /\ xord'[y].uid = xord[y].uid
    BY <2>1 DEF TypeOK, XordRec
  <2>3. PICK l : Goto(t, l)
    BY <1>4, <2>1 DEF Visit, Goto, TypeOK
  <2>4. \A s \in Task \ {t} : frame'[s] = frame[s]
    BY <1>4 DEF Visit, TypeOK
  <2>5. reply'[t].status = "none" /\ ~Accepted(t)
    BY <2>1, Silenced DEF Calls, Accepted
  <2>6. \A y \in Open : AssetOf(y)' = AssetOf(y)
    BY <2>1, <2>2 DEF AssetOf, Open
  <2> QED BY <2>1, <2>2, <2>3, <2>4, <2>5, <2>6, FoundStep DEF Tracked
<1>5. CASE QueryFilled(t)
  <2>1. /\ pc[t] = "query" /\ ~Failed(t) /\ reply[t].status # "none" /\ reply[t].qty > 0
        /\ Return(t, "scan") /\ Consume(t) /\ toRemove' = toRemove \cup {frame[t].xid}
        /\ UNCHANGED <<order, active, xord>>
    BY <1>5 DEF QueryFilled, Answered, At, decisions, exchange
  <2>2. reply[t].status = "ok"
    BY <2>1 DEF Failed, TypeOK, ReplyRec
  <2>3. frame[t].xid \notin Open
    BY <2>1, <2>2 DEF Found, Open
  <2> QED BY <1>1, <2>1, <2>3, ReturnOthers DEF Checking
<1>6. CASE QueryUnfilled(t)
  <2>1. /\ pc[t] = "query" /\ Consume(t) /\ UNCHANGED <<order, active, toRemove, xord>>
    BY <1>6 DEF QueryUnfilled, Answered, At, decisions, check, exchange
  <2>2. PICK l \in {"cancel", "scan"} : Goto(t, l) /\ \A s \in Task \ {t} : frame'[s] = frame[s]
    BY <1>6, ReturnOthers DEF QueryUnfilled
  <2> QED BY <2>1, <2>2, ConsumeSilent, FoundSame DEF Accepted, Tracked
<1>7. ~QueryFailed(t)
  BY DEF QueryFailed, Answered, At, Places, PollKnown
<1>8. ASSUME TimedOut(t)
      PROVE  /\ pc[t] \in Checking /\ Consume(t) /\ UNCHANGED <<active, xord>>
             /\ toRemove' = toRemove \cup {frame[t].xid} /\ frame[t].xid \notin Open
  <2>1. /\ pc[t] = "cancel" /\ reply[t].status \notin {"none", "raised"} /\ Consume(t)
        /\ toRemove' = toRemove \cup {frame[t].xid} /\ UNCHANGED <<active, xord>>
    BY <1>8 DEF TimedOut, Answered, At, Swallowed, exchange
  <2> QED BY <2>1 DEF CancelKnown, Open, Checking
<1>9. CASE Escalate(t)
  <2>1. TimedOut(t) /\ order' = order
    BY <1>9 DEF Escalate
  <2>2. PICK l \in {"scan", "market"} : Goto(t, l) /\ \A s \in Task \ {t} : frame'[s] = frame[s]
    <3>1. CASE Return(t, "scan")
      BY <3>1, ReturnOthers
    <3>2. CASE ~Return(t, "scan")
      BY <1>9, <3>2 DEF Escalate, TypeOK
    <3> QED BY <3>1, <3>2
  <2> QED BY <1>1, <1>8, <2>1, <2>2
<1>10. CASE Abandon(t)
  BY <1>1, <1>8, <1>10, ReturnOthers DEF Abandon
<1>11. CASE Resubmit(t)
  <2>1. TimedOut(t) /\ Return(t, "scan")
    BY <1>11 DEF Resubmit
  <2>2. \A u \in Uid : order'[u].asset = order[u].asset
    BY <1>11 DEF Resubmit, TypeOK, OrderRec
  <2> QED BY <1>1, <1>8, <2>1, <2>2, ReturnOthers
<1>12. ~CancelRaised(t)
  BY DEF CancelRaised, Answered, At, Swallowed, Places, PollKnown
<1>13. CASE MarketFilled(t)
  BY <1>1, <1>13, ReturnOthers
     DEF MarketFilled, Answered, At, decisions, check, exchange, Checking
<1>14. CASE MarketFailed(t)
  BY <1>1, <1>14, ReturnOthers
     DEF MarketFailed, Answered, At, decisions, check, exchange, Checking
<1> QED BY <1>2, <1>3, <1>4, <1>5, <1>6, <1>7, <1>9, <1>10, <1>11, <1>12, <1>13, <1>14
        DEF Check

LEMMA FoundMonitor ==
  ASSUME TypeOK, References, Found, NEW t \in Task, Monitor(t)
  PROVE  Found'
<1>1. CASE StartMonitor(t)
  BY <1>1, FoundSame
     DEF StartMonitor, At, decisions, check, exchange, Accepted, Tracked
<1>2. CASE BalanceDone(t)
  BY <1>2, ReturnOthers, ConsumeSilent, FoundSame
     DEF BalanceDone, Answered, At, decisions, check, exchange, Accepted, Tracked
<1> QED BY <1>1, <1>2 DEF Monitor

(* An accepted order is in the answer, which is not lost.                  *)
LEMMA FoundPlaced ==
  ASSUME NothingLost, TypeOK, References, Places, Found, NEW t \in Task, XPlaceOpen(t)
  PROVE  Found'
<1>0. PICK n : n = placed + 1
  OBVIOUS
<1>1. /\ pc[t] = "place" /\ reply[t].status = "none" /\ Affordable(t)
      /\ NewOrder(t, "open", 0) /\ UNCHANGED Client
      /\ Answer(t, [Done EXCEPT !.xid = n])
  BY <1>0 DEF XPlaceOpen, Pending
<1>2. UNCHANGED <<order, active, toRemove, pc, frame>> /\ Tracked' = Tracked
  BY <1>1 DEF Client, decisions, check, Tracked
<1>3. n \in Xid /\ \A x \in Xid : x # n => xord'[x] = xord[x]
  <2>1. n \in Xid
    BY <1>0, <1>1, NewOrderType
  <2> QED BY <1>0, <1>1, <2>1 DEF NewOrder, TypeOK
<1>4. /\ reply'[t].status = "ok" /\ reply'[t].xid = n /\ reply'[t].qty = 0
      /\ \A s \in Task \ {t} : reply'[s] = reply[s]
  <2>1. pc[t] \notin Losable
    BY <1>1 DEF NothingLost
  <2>2. reply' = [reply EXCEPT ![t] = [Done EXCEPT !.xid = n]]
    BY <1>1, <2>1 DEF Answer
  <2>3. reply'[t] = [Done EXCEPT !.xid = n] /\ \A s \in Task \ {t} : reply'[s] = reply[s]
    BY <2>2 DEF TypeOK
  <2>4. reply'[t].status = "ok" /\ reply'[t].xid = n /\ reply'[t].qty = 0
    BY <2>3 DEF Done, Silent
  <2> QED BY <2>3, <2>4
<1>5. \A s \in Task \ {t} : pc[s] \in {"idle", "balance"}
  BY <1>1, Alone DEF NothingLost
<1>6. Accepted(t)' /\ \A s \in Task : ~Accepted(s)
  BY <1>1, <1>2, <1>4, <1>5 DEF Accepted
<1>7. ASSUME NEW y \in Open'
      PROVE  y \in Tracked' \/ \E s \in Task : Accepted(s)' /\ reply'[s].xid = y
  <2>1. CASE y = n
    BY <1>4, <1>6, <2>1
  <2>2. CASE y # n
    <3>1. y \in Open
      BY <1>3, <2>2 DEF Open
    <3> QED BY <1>2, <1>6, <3>1 DEF Found
  <2> QED BY <2>1, <2>2
<1>8. \A s \in Task : pc'[s] \notin {"cancelpair", "query"}
  BY <1>1, <1>2, <1>5
<1> QED BY <1>7, <1>8 DEF Found

LEMMA FoundServes ==
  ASSUME NothingLost, TypeOK, TypeOK', References, Places, Found, NEW t \in Task, Serve(t)
  PROVE  Found'
\* the answers that are about no order
<1>1. ASSUME pc[t] \notin {"cancelpair", "query"}, UNCHANGED Client,
             reply[t].status = "none", \A s \in Task \ {t} : reply'[s] = reply[s],
             \A x \in Xid : /\ xord'[x].uid = xord[x].uid
                            /\ xord'[x].status = "open" => xord[x].status = "open"
                            /\ xord[x].status = "filled" => xord'[x].status = "filled"
      PROVE  Found'
  BY <1>1, FoundServe
<1>2. CASE XPlaceOpen(t)
  BY <1>2, FoundPlaced
<1>3. CASE XPlaceFilled(t)
  <2>1. /\ pc[t] \in {"place", "market"} /\ reply[t].status = "none" /\ Affordable(t)
        /\ NewOrder(t, "filled", frame[t].qty) /\ UNCHANGED Client
    BY <1>3 DEF XPlaceFilled, Pending
  <2>2. PICK n : n = placed + 1 /\ n \in Xid
    BY <2>1, NewOrderType DEF TypeOK, FrameRec
  <2>3. /\ \A x \in Xid : x # n => xord'[x] = xord[x]
        /\ xord'[n].status = "filled"
    BY <2>1, <2>2 DEF NewOrder, TypeOK
  <2>4. UNCHANGED <<order, active, toRemove, pc, frame>> /\ Tracked' = Tracked
    BY <2>1 DEF Client, decisions, check, Tracked
  <2>5. \A y \in Open' : y \in Open
    BY <2>3 DEF Open
  <2>6. \A s \in Task \ {t} : pc[s] \in {"idle", "balance"}
    BY <2>1, Alone DEF NothingLost
  <2>7. \A s \in Task : ~Accepted(s) /\ pc'[s] \notin {"cancelpair", "query"}
    BY <2>1, <2>4, <2>6 DEF Accepted
  <2> QED BY <2>4, <2>5, <2>7 DEF Found
<1>4. CASE XReject(t)
  <2>1. \A s \in Task \ {t} : reply'[s] = reply[s]
    BY <1>4 DEF XReject, TypeOK
  <2> QED BY <1>1, <1>4, <2>1 DEF XReject, Pending, exchange
<1>5. ASSUME NEW status \in {"refused", "raised"}, XFail(t, status)
      PROVE  Found'
  <2>1. \A s \in Task \ {t} : reply'[s] = reply[s]
    BY <1>5 DEF XFail, TypeOK
  <2>2. pc[t] \notin {"cancelpair", "query"}
    BY <1>5 DEF XFail, NothingLost, PollsAnswered
  <2> QED BY <1>1, <1>5, <2>1, <2>2 DEF XFail, exchange
<1>6. ASSUME NEW S \in SUBSET Open, xord' = Cancelled(S)
      PROVE  /\ \A x \in Xid : /\ xord'[x].uid = xord[x].uid
                               /\ xord'[x].status = "open" => xord[x].status = "open"
                               /\ xord[x].status = "filled" => xord'[x].status = "filled"
             /\ \A x \in S : xord'[x].status = "canceled"
  <2>1. S \subseteq Xid /\ \A x \in S : xord[x].status = "open"
    BY DEF Open
  <2>2. \A x \in Xid : xord'[x] = IF x \in S THEN [xord[x] EXCEPT !.status = "canceled"]
                                             ELSE xord[x]
    BY <1>6 DEF Cancelled
  <2> QED BY <2>1, <2>2 DEF TypeOK, XordRec
<1>7. CASE XCancelPair(t)
  <2>0. PICK S : S = {x \in Open : AssetOf(x) = order[frame[t].uid].asset}
    OBVIOUS
  <2>1. /\ pc[t] = "cancelpair" /\ reply[t].status = "none" /\ Answer(t, Done)
        /\ UNCHANGED Client /\ xord' = Cancelled(S)
    BY <1>7, <2>0 DEF XCancelPair, Pending
  <2>2. /\ \A x \in Xid : /\ xord'[x].uid = xord[x].uid
                          /\ xord'[x].status = "open" => xord[x].status = "open"
                          /\ xord[x].status = "filled" => xord'[x].status = "filled"
        /\ \A x \in S : xord'[x].status = "canceled"
    BY <1>6, <2>0, <2>1
  <2>3. reply'[t].status = "ok"
    BY <2>1, DoneType DEF Answer, NothingLost, Done, Silent, TypeOK
  <2>4. Clear(t)'
    <3>1. UNCHANGED <<order, frame>>
      BY <2>1 DEF Client, decisions
    <3>2. \A y \in Open' : y \in Open /\ y \notin S /\ xord'[y].uid = xord[y].uid
      BY <2>2 DEF Open
    <3> QED BY <2>0, <3>1, <3>2 DEF Clear, AssetOf
  <2> QED BY <2>1, <2>2, <2>3, <2>4, AnswerOthers, FoundServe
<1>8. ASSUME NEW a \in Asset, XSweepCancel(t, a)
      PROVE  Found'
  BY <1>8 DEF XSweepCancel, Pending, Places, PollKnown, Sweeping
<1>9. CASE XCancel(t)
  <2>1. /\ pc[t] = "cancel" /\ reply[t].status = "none" /\ Answer(t, Done)
        /\ UNCHANGED Client /\ xord' = Cancelled(Open \cap {frame[t].xid})
    BY <1>9 DEF XCancel, Pending
  <2>2. \A x \in Xid : /\ xord'[x].uid = xord[x].uid
                       /\ xord'[x].status = "open" => xord[x].status = "open"
                       /\ xord[x].status = "filled" => xord'[x].status = "filled"
    BY <1>6, <2>1
  <2> QED BY <1>1, <2>1, <2>2, AnswerOthers
<1>10. CASE XQuery(t)
  <2> DEFINE q == IF xord[frame[t].xid].status = "filled" THEN xord[frame[t].xid].done ELSE 0
             r == [Done EXCEPT !.xid = frame[t].xid, !.qty = q]
  <2>1. /\ pc[t] = "query" /\ reply[t].status = "none" /\ Answer(t, r)
        /\ UNCHANGED Client /\ UNCHANGED xord
    BY <1>10 DEF XQuery, Pending, exchange
  <2>2. r.qty = q
    BY DEF Done, Silent
  <2>3. q > 0 => xord[frame[t].xid].status = "filled"
    OBVIOUS
  <2> HIDE DEF r, q
  <2>4. reply'[t].status = "ok" /\ reply'[t].qty > 0 => xord[frame[t].xid].status = "filled"
    BY <2>1, <2>2, <2>3, AnswerOthers
  <2> QED BY <2>1, <2>4, AnswerOthers, FoundServe
<1>11. CASE XPending(t) \/ XBalance(t)
  <2>1. PICK r : Answer(t, r)
    BY <1>11 DEF XPending, XBalance
  <2> QED BY <1>1, <1>11, <2>1, AnswerOthers DEF XPending, XBalance, Pending, exchange
<1> QED BY <1>2, <1>3, <1>4, <1>5, <1>7, <1>8, <1>9, <1>10, <1>11 DEF Serve

LEMMA FoundFill ==
  ASSUME TypeOK, Found, NEW x \in Xid, NEW q \in 1..Left(x), Fill(x, q)
  PROVE  Found'
<1>1. UNCHANGED <<order, active, toRemove, pc, frame, reply>> /\ Tracked' = Tracked
  BY DEF Fill, Client, decisions, check, Tracked
<1>2. /\ x \in Open
      /\ xord' = [xord EXCEPT ![x].done = @ + q,
                              ![x].status = IF q = Left(x) THEN "filled" ELSE @]
  BY DEF Fill
<1>3. \A y \in Xid : /\ xord'[y].uid = xord[y].uid
                     /\ xord'[y].status = "open" => xord[y].status = "open"
                     /\ xord[y].status = "filled" => xord'[y].status = "filled"
  BY <1>2 DEF Open, TypeOK, XordRec
<1>4. \A y \in Open' : y \in Open /\ AssetOf(y)' = AssetOf(y)
  BY <1>1, <1>3 DEF Open, AssetOf
<1>5. \A y \in Open' : y \in Tracked' \/ \E s \in Task : Accepted(s)' /\ reply'[s].xid = y
  BY <1>1, <1>4 DEF Found, Accepted
<1>6. \A s \in Task : Clear(s) => Clear(s)'
  BY <1>1, <1>4 DEF Clear
<1>7. \A s \in Task : frame[s].xid \in Xid
  BY DEF TypeOK, FrameRec
<1> QED BY <1>1, <1>3, <1>5, <1>6, <1>7 DEF Found

LEMMA NextFound ==
  ASSUME NothingLost, TypeOK, TypeOK', References, Places, CancelKnown, Found, [Next]_vars
  PROVE  Found'
<1>1. UNCHANGED vars => Found'
  BY DEF vars, decisions, check, exchange, Found, Clear, Tracked, Accepted, Open, AssetOf
<1>2. \A t \in Task : ~Rebalance(t)
  BY RebalancePlaces DEF NothingLost
<1> QED BY <1>1, <1>2, FoundRisk, FoundDrain, FoundCheck, FoundMonitor, FoundServes,
           FoundFill DEF Next

(* Between two ticks the order manager tracks every open order, as long as *)
(* one job drains the queue, no answer to an order, a query or a cancel is *)
(* lost and no cancel is refused: placements and market orders may be      *)
(* refused, and a market order's answer lost.                              *)
THEOREM NoneOrphaned ==
  ASSUME NothingLost
  PROVE  Spec => []NoOrphans
<1> DEFINE IInv == TypeOK /\ References /\ ActiveBound /\ Places /\ CancelKnown /\ Found
<1>0. PollsAnswered /\ CancelsAccepted
  BY DEF NothingLost
<1>1. Init => IInv
  <2>1. Init => Found
    BY DEF Init, Found, Open
  <2> QED BY <2>1, InitType, InitReferences, InitBound, InitPlaces, InitCancel
<1>2. IInv /\ [Next]_vars => IInv'
  BY <1>0, NextType, NextSafe, NextPlaces, NextCancel, NextFound DEF PlacesKept
<1>3. IInv => NoOrphans
  BY DEF Found, NoOrphans, Suspended, Accepted, Tracked
<1> QED BY <1>1, <1>2, <1>3, PTL DEF Spec

-----------------------------------------------------------------------------
(* Sums over finite sets.  SumFunctionOnSet is a fold: a recursive         *)
(* function that is chosen, so that one exists, and that its value does    *)
(* not depend on the order in which the elements are taken, is proved from *)
(* a least set without the property.                                       *)

(* What holds of the empty set, and of a set when it holds of the set less *)
(* any one of its elements, holds of every finite set.                     *)
LEMMA OneByOne ==
  ASSUME NEW S, IsFiniteSet(S), NEW T, {} \in T,
         \A s \in SUBSET S : (s # {} /\ \A x \in s : s \ {x} \in T) => s \in T
  PROVE  \A s \in SUBSET S : s \in T
<1> DEFINE R == {s \in SUBSET S : s \notin T}
<1> SUFFICES ASSUME R # {} PROVE FALSE
  OBVIOUS
<1>1. IsWellFoundedOn(StrictSubsetOrdering(S), FiniteSubsetsOf(S))
  BY FS_StrictSubsetOrderingWellFounded
<1>2. R \subseteq FiniteSubsetsOf(S)
  BY FS_Subset DEF FiniteSubsetsOf
<1>3. PICK s \in R : \A r \in R : <<r, s>> \notin StrictSubsetOrdering(S)
  <2> HIDE DEF R
  <2> QED BY <1>1, <1>2, WFMin
<1>4. s \in SUBSET S /\ s \notin T /\ s # {}
  BY <1>3
<1>5. ASSUME NEW x \in s PROVE s \ {x} \in T
  <2>1. s \ {x} \in SUBSET S /\ s \ {x} \subseteq s /\ s \ {x} # s
    BY <1>4, <1>5
  <2>2. <<s \ {x}, s>> \in StrictSubsetOrdering(S)
    BY <1>4, <2>1 DEF StrictSubsetOrdering
  <2> QED BY <1>3, <2>1, <2>2
<1> QED BY <1>4, <1>5

(* What holds of 0 and of the successor of each number below n that it     *)
(* holds of, holds up to n.                                                *)
Less == {p \in Nat \X Nat : p[1] < p[2]}

LEMMA Rising ==
  ASSUME NEW n \in Nat, NEW S, 0 \in S, \A i \in 0..(n - 1) : i \in S => i + 1 \in S
  PROVE  n \in S
<1> DEFINE R == (0..n) \ S
<1> SUFFICES ASSUME R # {} PROVE FALSE
  OBVIOUS
<1>1. IsWellFoundedOn(Less, Nat)
  BY NatLessThanWellFounded DEF OpToRel, Less
<1>2. PICK x \in R : \A y \in R : <<y, x>> \notin Less
  <2>1. R \subseteq Nat
    OBVIOUS
  <2> HIDE DEF R
  <2> QED BY <1>1, <2>1, WFMin
<1>3. x \in 0..n /\ x \notin S /\ x # 0 /\ x - 1 \in 0..(n - 1) /\ x \in Nat
  BY <1>2
<1>4. <<x - 1, x>> \in Less
  BY <1>3 DEF Less
<1>5. x - 1 \in S
  BY <1>2, <1>3, <1>4
<1>6. x - 1 + 1 \in S
  BY <1>3, <1>5
<1> QED BY <1>3, <1>6

Summed(f, g, s) == IF s = {} THEN 0 ELSE LET x == CHOOSE x \in s : TRUE IN f[x] + g[s \ {x}]

\* g holds the sum of each subset of S
Totals(f, g, S) == \A s \in SUBSET S : g[s] = Summed(f, g, s)

LEMMA SumDefined ==
  ASSUME NEW f, NEW S, IsFiniteSet(S)
  PROVE  \E g : Totals(f, g, S) /\ SumFunctionOnSet(f, S) = g[S]
<1> DEFINE Upto(k) == {s \in SUBSET S : Cardinality(s) <= k}
           T == {k \in Nat : \E g : g = [s \in Upto(k) |-> Summed(f, g, s)]}
<1>1. 0 \in T
  <2> DEFINE g == [s \in Upto(0) |-> 0]
  <2>1. \A s \in Upto(0) : s = {}
    <3> TAKE s \in Upto(0)
    <3>1. IsFiniteSet(s) /\ Cardinality(s) \in Nat /\ Cardinality(s) <= 0
      BY FS_Subset, FS_CardinalityType
    <3> QED BY <3>1, FS_EmptySet
  <2>2. \A s \in Upto(0) : g[s] = Summed(f, g, s)
    BY <2>1 DEF Summed
  <2>3. g = [s \in Upto(0) |-> Summed(f, g, s)]
    BY <2>2
  <2> HIDE DEF g
  <2> QED BY <2>3
<1>2. ASSUME NEW k \in 0..(Cardinality(S) - 1), k \in T PROVE k + 1 \in T
  <2>1. PICK g : g = [s \in Upto(k) |-> Summed(f, g, s)]
    BY <1>2
  <2> DEFINE h == [s \in Upto(k + 1) |-> IF s \in Upto(k) THEN g[s] ELSE Summed(f, g, s)]
  <2>2. \A s \in Upto(k + 1) : h[s] = Summed(f, h, s)
    <3> SUFFICES ASSUME NEW s \in Upto(k + 1) PROVE h[s] = Summed(f, h, s)
      OBVIOUS
    <3>1. h[s] = Summed(f, g, s)
      <4>1. CASE s \in Upto(k)
        <5>1. h[s] = g[s]
          BY <4>1
        <5> HIDE DEF h, Upto
        <5> QED BY <2>1, <4>1, <5>1
      <4>2. CASE s \notin Upto(k)
        BY <4>2
      <4> QED BY <4>1, <4>2
    <3>2. \A x \in s : h[s \ {x}] = g[s \ {x}]
      <4> TAKE x \in s
      <4>1. IsFiniteSet(s) /\ Cardinality(s) \in Nat
        BY FS_Subset, FS_CardinalityType
      <4>2. Cardinality(s \ {x}) = Cardinality(s) - 1
        BY <4>1, FS_RemoveElement
      <4>3. s \ {x} \in Upto(k) /\ s \ {x} \in Upto(k + 1)
        BY <4>1, <4>2
      <4> QED BY <4>3
    <3> HIDE DEF h
    <3> QED BY <3>1, <3>2 DEF Summed
  <2>3. h = [s \in Upto(k + 1) |-> Summed(f, h, s)]
    BY <2>2
  <2>4. k + 1 \in Nat
    OBVIOUS
  <2> HIDE DEF h
  <2> QED BY <2>3, <2>4
<1>3. Cardinality(S) \in Nat
  BY FS_CardinalityType
<1>4. Cardinality(S) \in T
  <2> HIDE DEF T
  <2> QED BY <1>1, <1>2, <1>3, Rising
<1>5. Upto(Cardinality(S)) = SUBSET S
  BY FS_Subset
<1>6. \E g : g = [s \in SUBSET S |-> Summed(f, g, s)]
  <2> HIDE DEF Upto
  <2> QED BY <1>4, <1>5
<1> DEFINE g == CHOOSE g : g = [s \in SUBSET S |-> Summed(f, g, s)]
<1>7. g = [s \in SUBSET S |-> Summed(f, g, s)]
  BY <1>6
<1>8. SumFunctionOnSet(f, S) = g[S]
  BY DEF SumFunctionOnSet, FoldFunctionOnSet, MapThenFoldSet, Summed
<1> HIDE DEF g
<1>9. Totals(f, g, S)
  BY <1>7 DEF Totals
<1> QED BY <1>8, <1>9

(* The sum over a set is the sum over the set less one element, chosen by  *)
(* the fold, and the value there.                                          *)
LEMMA SumAgrees ==
  ASSUME NEW f, NEW S, IsFiniteSet(S), NEW R \in SUBSET S, NEW g, NEW h,
         Totals(f, g, S), Totals(f, h, R)
  PROVE  g[R] = h[R]
<1> DEFINE T == {s \in SUBSET R : g[s] = h[s]}
<1>1. \A s \in SUBSET R : g[s] = Summed(f, g, s) /\ h[s] = Summed(f, h, s)
  <2> TAKE s \in SUBSET R
  <2>1. s \in SUBSET S
    OBVIOUS
  <2> QED BY <2>1 DEF Totals
<1>2. {} \in T
  BY <1>1 DEF Summed
<1>3. \A s \in SUBSET R : (s # {} /\ \A x \in s : s \ {x} \in T) => s \in T
  <2> SUFFICES ASSUME NEW s \in SUBSET R, s # {}, \A x \in s : s \ {x} \in T
               PROVE  g[s] = h[s]
    OBVIOUS
  <2>1. \A x \in s : g[s \ {x}] = h[s \ {x}]
    OBVIOUS
  <2>2. g[s] = Summed(f, g, s) /\ h[s] = Summed(f, h, s)
    BY <1>1
  <2> DEFINE x == CHOOSE x \in s : TRUE
  <2>3. x \in s
    OBVIOUS
  <2>4. g[s \ {x}] = h[s \ {x}]
    BY <2>1, <2>3
  <2>5. g[s] = f[x] + g[s \ {x}] /\ h[s] = f[x] + h[s \ {x}]
    BY <2>2 DEF Summed
  <2> QED BY <2>4, <2>5
<1>4. IsFiniteSet(R)
  BY FS_Subset
<1>5. \A s \in SUBSET R : s \in T
  <2> HIDE DEF T
  <2> QED BY <1>2, <1>3, <1>4, OneByOne
<1> QED BY <1>5

LEMMA SumOut ==
  ASSUME NEW f, NEW S, IsFiniteSet(S)
  PROVE  /\ S = {} => SumFunctionOnSet(f, S) = 0
         /\ S # {} => \E x \in S : SumFunctionOnSet(f, S) = f[x] + SumFunctionOnSet(f, S \ {x})
<1>1. PICK g : Totals(f, g, S) /\ SumFunctionOnSet(f, S) = g[S]
  BY SumDefined
<1>2. g[S] = Summed(f, g, S)
  BY <1>1 DEF Totals
<1>3. ASSUME S # {} PROVE \E x \in S : g[S] = f[x] + SumFunctionOnSet(f, S \ {x})
  <2> DEFINE x == CHOOSE x \in S : TRUE
  <2>1. x \in S
    BY <1>3
  <2>2. g[S] = f[x] + g[S \ {x}]
    BY <1>2, <1>3 DEF Summed
  <2> HIDE DEF x
  <2> DEFINE R == S \ {x}
  <2>3. IsFiniteSet(R) /\ R \in SUBSET S
    BY FS_RemoveElement
  <2> HIDE DEF R
  <2>4. PICK h : Totals(f, h, R) /\ SumFunctionOnSet(f, R) = h[R]
    BY <2>3, SumDefined
  <2>5. g[R] = h[R]
    BY <1>1, <2>3, <2>4, SumAgrees
  <2> QED BY <2>1, <2>2, <2>4, <2>5 DEF R
<1> QED BY <1>1, <1>2, <1>3 DEF Summed

LEMMA SumInt ==
  ASSUME NEW f, NEW S, IsFiniteSet(S), \A x \in S : f[x] \in Int
  PROVE  SumFunctionOnSet(f, S) \in Int
<1> DEFINE T == {s \in SUBSET S : SumFunctionOnSet(f, s) \in Int}
<1>1. {} \in T
  BY SumOut, FS_EmptySet
<1>2. \A s \in SUBSET S : (s # {} /\ \A x \in s : s \ {x} \in T) => s \in T
  <2> SUFFICES ASSUME NEW s \in SUBSET S, s # {}, \A x \in s : s \ {x} \in T
               PROVE  SumFunctionOnSet(f, s) \in Int
    OBVIOUS
  <2>1. IsFiniteSet(s)
    BY FS_Subset
  <2>2. PICK x \in s : SumFunctionOnSet(f, s) = f[x] + SumFunctionOnSet(f, s \ {x})
    BY <2>1, SumOut
  <2>3. SumFunctionOnSet(f, s \ {x}) \in Int /\ f[x] \in Int
    OBVIOUS
  <2> QED BY <2>2, <2>3
<1>3. \A s \in SUBSET S : s \in T
  <2> HIDE DEF T
  <2> QED BY <1>1, <1>2, OneByOne
<1> QED BY <1>3

(* The order of the terms does not matter: any element may be taken out.   *)
LEMMA SumTakeOut ==
  ASSUME NEW f, NEW S, IsFiniteSet(S), \A x \in S : f[x] \in Int, NEW y \in S
  PROVE  SumFunctionOnSet(f, S) = f[y] + SumFunctionOnSet(f, S \ {y})
<1> DEFINE Sum(s) == SumFunctionOnSet(f, s)
           T == {s \in SUBSET S : \A z \in s : Sum(s) = f[z] + Sum(s \ {z})}
<1>1. {} \in T
  OBVIOUS
<1>2. \A s \in SUBSET S : IsFiniteSet(s) /\ Sum(s) \in Int
  BY FS_Subset, SumInt
<1>3. \A s \in SUBSET S : s # {} => \E x \in s : Sum(s) = f[x] + Sum(s \ {x})
  BY <1>2, SumOut
<1> HIDE DEF Sum
<1>4. \A s \in SUBSET S : (s # {} /\ \A x \in s : s \ {x} \in T) => s \in T
  <2> SUFFICES ASSUME NEW s \in SUBSET S, s # {}, \A x \in s : s \ {x} \in T, NEW z \in s
               PROVE  Sum(s) = f[z] + Sum(s \ {z})
    OBVIOUS
  <2>1. PICK x \in s : Sum(s) = f[x] + Sum(s \ {x})
    BY <1>3
  <2>2. CASE x = z
    BY <2>1, <2>2
  <2>3. CASE x # z
    <3>1. z \in s \ {x} /\ x \in s \ {z} /\ s \ {x} \in T /\ s \ {z} \in T
      BY <2>3
    <3>2. Sum(s \ {x}) = f[z] + Sum((s \ {x}) \ {z})
      BY <3>1
    <3>3. Sum(s \ {z}) = f[x] + Sum((s \ {z}) \ {x})
      BY <3>1
    <3>4. Sum((s \ {x}) \ {z}) = Sum((s \ {z}) \ {x})
      <4>1. (s \ {x}) \ {z} = (s \ {z}) \ {x}
        OBVIOUS
      <4> QED BY <4>1, Zenon
    <3>5. f[x] \in Int /\ f[z] \in Int /\ Sum((s \ {z}) \ {x}) \in Int
      BY <1>2
    <3> HIDE DEF T
    <3> QED BY <2>1, <3>2, <3>3, <3>4, <3>5
  <2> QED BY <2>2, <2>3
<1>5. \A s \in SUBSET S : s \in T
  <2> HIDE DEF T
  <2> QED BY <1>1, <1>4, OneByOne
<1>6. Sum(S) = f[y] + Sum(S \ {y})
  BY <1>5
<1> QED BY <1>6 DEF Sum

(* A sum of naturals is one.                                               *)
LEMMA SumNat ==
  ASSUME NEW f, NEW S, IsFiniteSet(S), \A x \in S : f[x] \in Nat
  PROVE  SumFunctionOnSet(f, S) \in Nat
<1> DEFINE T == {s \in SUBSET S : SumFunctionOnSet(f, s) \in Nat}
<1>1. {} \in T
  BY SumOut, FS_EmptySet
<1>2. \A s \in SUBSET S : (s # {} /\ \A x \in s : s \ {x} \in T) => s \in T
  <2> SUFFICES ASSUME NEW s \in SUBSET S, s # {}, \A x \in s : s \ {x} \in T
               PROVE  SumFunctionOnSet(f, s) \in Nat
    OBVIOUS
  <2>1. IsFiniteSet(s)
    BY FS_Subset
  <2>2. PICK x \in s : SumFunctionOnSet(f, s) = f[x] + SumFunctionOnSet(f, s \ {x})
    BY <2>1, SumOut
  <2>3. SumFunctionOnSet(f, s \ {x}) \in Nat /\ f[x] \in Nat
    OBVIOUS
  <2> QED BY <2>2, <2>3
<1>3. \A s \in SUBSET S : s \in T
  <2> HIDE DEF T
  <2> QED BY <1>1, <1>2, OneByOne
<1> QED BY <1>3

(* A sum over more elements, of larger terms, is larger.                   *)
LEMMA SumGrows ==
  ASSUME NEW f, NEW g, NEW R, IsFiniteSet(R), NEW S \in SUBSET R,
         \A x \in R : f[x] \in Nat /\ g[x] \in Nat,
         \A x \in S : f[x] <= g[x]
  PROVE  SumFunctionOnSet(f, S) <= SumFunctionOnSet(g, R)
<1> DEFINE F(s) == SumFunctionOnSet(f, S \cap s)
           G(s) == SumFunctionOnSet(g, s)
           T == {s \in SUBSET R : F(s) <= G(s)}
<1>1. {} \in T
  <2>1. S \cap {} = {}
    OBVIOUS
  <2>2. F({}) = 0 /\ G({}) = 0
    BY <2>1, SumOut, FS_EmptySet
  <2> QED BY <2>2
<1>2. \A s \in SUBSET R : (s # {} /\ \A x \in s : s \ {x} \in T) => s \in T
  <2> SUFFICES ASSUME NEW s \in SUBSET R, s # {}, \A x \in s : s \ {x} \in T
               PROVE  F(s) <= G(s)
    OBVIOUS
  <2>1. IsFiniteSet(s)
    BY FS_Subset
  <2>2. PICK x \in s : G(s) = g[x] + G(s \ {x})
    BY <2>1, SumOut
  <2>3. F(s \ {x}) <= G(s \ {x}) /\ f[x] \in Nat /\ g[x] \in Nat
    OBVIOUS
  <2>4. IsFiniteSet(S \cap s) /\ IsFiniteSet(S \cap (s \ {x})) /\ IsFiniteSet(s \ {x})
    BY <2>1, FS_Subset
  <2>5. F(s \ {x}) \in Nat /\ G(s \ {x}) \in Nat
    BY <2>4, SumNat
  <2>6. CASE x \in S
    <3>1. (S \cap s) \ {x} = S \cap (s \ {x}) /\ x \in S \cap s
      BY <2>6
    <3>2. \A z \in S \cap s : f[z] \in Int
      OBVIOUS
    <3>3. SumFunctionOnSet(f, S \cap s) = f[x] + SumFunctionOnSet(f, (S \cap s) \ {x})
      BY <2>4, <3>1, <3>2, SumTakeOut
    <3>4. F(s) = f[x] + F(s \ {x}) /\ f[x] <= g[x]
      BY <2>6, <3>1, <3>3
    <3> HIDE DEF F, G
    <3> QED BY <2>2, <2>3, <2>5, <3>4
  <2>7. CASE x \notin S
    <3>1. S \cap s = S \cap (s \ {x})
      BY <2>7
    <3>2. F(s) = F(s \ {x})
      BY <3>1
    <3> HIDE DEF F, G
    <3> QED BY <2>2, <2>3, <2>5, <3>2
  <2> QED BY <2>6, <2>7
<1>3. \A s \in SUBSET R : s \in T
  <2> HIDE DEF T
  <2> QED BY <1>1, <1>2, OneByOne
<1>4. F(R) <= G(R)
  BY <1>3
<1>5. S \cap R = S
  OBVIOUS
<1> QED BY <1>4, <1>5

(* ... by the terms it has more.                                           *)
LEMMA SumGains ==
  ASSUME NEW f, NEW R, IsFiniteSet(R), NEW S \in SUBSET R, NEW y \in R, y \notin S,
         \A x \in R : f[x] \in Nat
  PROVE  SumFunctionOnSet(f, S) + f[y] <= SumFunctionOnSet(f, R)
<1> DEFINE Q == R \ {y}
<1>1. IsFiniteSet(Q) /\ S \in SUBSET Q /\ \A x \in Q : f[x] \in Nat
  BY FS_Subset
<1>2. SumFunctionOnSet(f, R) = f[y] + SumFunctionOnSet(f, Q)
  <2>1. \A x \in R : f[x] \in Int
    OBVIOUS
  <2> QED BY <2>1, SumTakeOut
<1> HIDE DEF Q
<1>3. SumFunctionOnSet(f, S) <= SumFunctionOnSet(f, Q)
  <2>1. \A x \in S : f[x] <= f[x]
    BY <1>1
  <2> QED BY <1>1, <2>1, SumGrows
<1>4. SumFunctionOnSet(f, S) \in Nat /\ SumFunctionOnSet(f, Q) \in Nat /\ f[y] \in Nat
  <2>1. IsFiniteSet(S) /\ \A x \in S : f[x] \in Nat
    BY FS_Subset
  <2> QED BY <1>1, <2>1, SumNat
<1> QED BY <1>2, <1>3, <1>4

-----------------------------------------------------------------------------
(* No fill is booked twice.  An order that no job is still to book counts  *)
(* with what it traded; all others count for nothing.                      *)

(* A job is told of an order that the exchange accepted, and until it has  *)
(* resumed, or the poll has dealt with the order, its fill is not booked.  *)
Told(t) == pc[t] \in {"place", "market"} /\ reply[t].status = "ok"
Unbooked == Tracked \cup {reply[t].xid : t \in {s \in Task : Told(s)}}

Amounts == [x \in Xid |-> xord[x].done]
Amount(S) == SumFunctionOnSet(Amounts, S)
Booked(a, side) == {x \in Xid \ Unbooked : /\ xord[x].status # "none"
                                           /\ AssetOf(x) = a /\ SideOf(x) = side}

(* The book shows no more than the fills of the orders done with.          *)
Balanced ==
  \A a \in Asset : pos[a] \in (InitPos - Amount(Booked(a, "SELL")))..(InitPos + Amount(Booked(a, "BUY")))

(* What a job is told of an order filled is what was filled.               *)
Answers ==
  \A t \in Task :
    /\ Told(t) => /\ reply[t].xid <= placed /\ reply[t].xid \notin active
                  /\ xord[reply[t].xid].uid = frame[t].uid
                  /\ xord[reply[t].xid].status # "none"
                  /\ (reply[t].qty > 0 \/ pc[t] = "market")
                       => /\ xord[reply[t].xid].status = "filled"
                          /\ reply[t].qty = xord[reply[t].xid].done
    /\ pc[t] = "query" /\ reply[t].status = "ok" /\ reply[t].qty > 0
         => /\ xord[frame[t].xid].status = "filled"
            /\ reply[t].qty = xord[frame[t].xid].done

\* the only job that touches the book: no balances are synced
PipelineOnly == Task \subseteq {"pipeline"}

LEMMA AmountsNat ==
  ASSUME TypeOK
  PROVE  /\ \A x \in Xid : Amounts[x] \in Nat /\ Amounts[x] = xord[x].done
         /\ \A S \in SUBSET Xid : IsFiniteSet(S) /\ Amount(S) \in Nat
<1>1. \A x \in Xid : Amounts[x] \in Nat /\ Amounts[x] = xord[x].done
  BY DEF Amounts, TypeOK, XordRec
<1>2. ASSUME NEW S \in SUBSET Xid PROVE IsFiniteSet(S) /\ Amount(S) \in Nat
  <2>1. IsFiniteSet(S)
    BY Finite
  <2>2. \A x \in S : Amounts[x] \in Nat
    BY <1>1
  <2> HIDE DEF Amounts
  <2> QED BY <2>1, <2>2, SumNat DEF Amount
<1> QED BY <1>1, <1>2

\* what an order of the exchange keeps
Lasting(x) == /\ xord'[x].status # "none" /\ xord'[x].done >= xord[x].done
              /\ AssetOf(x)' = AssetOf(x) /\ SideOf(x)' = SideOf(x)

(* An order done with stays so: what may be booked only grows.             *)
LEMMA BookedGrows ==
  ASSUME TypeOK, TypeOK', NEW a, NEW side,
         \A x \in Xid \ Unbooked : xord[x].status # "none" => Lasting(x) /\ x \notin Unbooked'
  PROVE  /\ Booked(a, side) \in SUBSET Xid /\ Booked(a, side)' \in SUBSET Xid
         /\ Booked(a, side) \subseteq Booked(a, side)'
         /\ Amount(Booked(a, side)) \in Nat /\ Amount(Booked(a, side))' \in Nat
         /\ Amount(Booked(a, side)) <= Amount(Booked(a, side))'
<1> DEFINE f == Amounts
           g == Amounts'
           S == Booked(a, side)
           R == Booked(a, side)'
<1>1. S \in SUBSET Xid /\ R \in SUBSET Xid
  BY DEF Booked
<1>2. S \subseteq R
  BY DEF Booked, Lasting
<1>3. /\ \A x \in Xid : f[x] \in Nat /\ f[x] = xord[x].done
      /\ \A x \in Xid : g[x] \in Nat /\ g[x] = xord'[x].done
  BY DEF Amounts, TypeOK, XordRec
<1>4. \A x \in S : f[x] <= g[x]
  <2> TAKE x \in S
  <2>1. x \in Xid \ Unbooked /\ xord[x].status # "none"
    BY DEF Booked
  <2>2. xord'[x].done >= xord[x].done
    BY <2>1 DEF Lasting
  <2> QED BY <1>3, <2>1, <2>2
<1>5. IsFiniteSet(R) /\ IsFiniteSet(S)
  BY <1>1, Finite
<1> HIDE DEF f, g, S, R
<1>6. S \in SUBSET R /\ \A x \in R : f[x] \in Nat /\ g[x] \in Nat
  BY <1>1, <1>2, <1>3
<1>7. SumFunctionOnSet(f, S) <= SumFunctionOnSet(g, R)
  BY <1>4, <1>5, <1>6, SumGrows
<1>8. SumFunctionOnSet(f, S) \in Nat /\ SumFunctionOnSet(g, R) \in Nat
  <2>1. \A x \in S : f[x] \in Nat
    BY <1>6
  <2> QED BY <1>5, <1>6, <2>1, SumNat
<1> QED BY <1>1, <1>2, <1>7, <1>8 DEF f, g, S, R, Amount

(* A step that books nothing.                                              *)
LEMMA BalancedKept ==
  ASSUME TypeOK, TypeOK', Balanced, pos' = pos,
         \A x \in Xid \ Unbooked : xord[x].status # "none" => Lasting(x) /\ x \notin Unbooked'
  PROVE  Balanced'
<1> SUFFICES ASSUME NEW a \in Asset
             PROVE  pos'[a] \in (InitPos - Amount(Booked(a, "SELL"))')..(InitPos + Amount(Booked(a, "BUY"))')
  BY DEF Balanced
<1> DEFINE lo == Amount(Booked(a, "SELL"))
           hi == Amount(Booked(a, "BUY"))
<1>1. lo \in Nat /\ lo' \in Nat /\ lo <= lo'
  BY BookedGrows
<1>2. hi \in Nat /\ hi' \in Nat /\ hi <= hi'
  BY BookedGrows
<1>3. pos[a] \in (InitPos - lo)..(InitPos + hi) /\ pos[a] \in Int
  BY DEF Balanced, TypeOK
<1> HIDE DEF lo, hi
<1>4. pos[a] \in (InitPos - lo')..(InitPos + hi')
  BY <1>1, <1>2, <1>3
<1> QED BY <1>4 DEF lo, hi

(* A step that books what an order traded, when it is done with the order. *)
LEMMA BalancedBooks ==
  ASSUME TypeOK, TypeOK', Balanced, NEW y \in Xid, NEW p,
         OnFill(xord[y].uid, xord[y].done, p),
         xord[y].status # "none", y \in Unbooked, Unbooked' \subseteq Unbooked \ {y},
         UNCHANGED <<order, xord>>
  PROVE  Balanced'
<1> SUFFICES ASSUME NEW a \in Asset
             PROVE  pos'[a] \in (InitPos - Amount(Booked(a, "SELL"))')..(InitPos + Amount(Booked(a, "BUY"))')
  BY DEF Balanced
<1> DEFINE Lo == Booked(a, "SELL")
           Hi == Booked(a, "BUY")
           q == xord[y].done
<1>0. \A x \in Xid \ Unbooked : xord[x].status # "none" => Lasting(x) /\ x \notin Unbooked'
  BY DEF Lasting, AssetOf, SideOf, TypeOK, XordRec
<1>1. /\ Amount(Lo) \in Nat /\ Amount(Lo)' \in Nat /\ Amount(Lo) <= Amount(Lo)'
      /\ Lo \in SUBSET Lo' /\ Lo' \in SUBSET Xid
  BY <1>0, BookedGrows
<1>2. /\ Amount(Hi) \in Nat /\ Amount(Hi)' \in Nat /\ Amount(Hi) <= Amount(Hi)'
      /\ Hi \in SUBSET Hi' /\ Hi' \in SUBSET Xid
  BY <1>0, BookedGrows
<1>3. Amounts' = Amounts
  BY DEF Amounts
<1>4. q \in Nat /\ Amounts[y] = q
  BY AmountsNat
<1>5. ASSUME NEW side, AssetOf(y) = a, SideOf(y) = side
      PROVE  Amount(Booked(a, side)) + q <= Amount(Booked(a, side))'
  <2> DEFINE S == Booked(a, side)
             R == Booked(a, side)'
             f == Amounts
  <2>1. S \in SUBSET R /\ R \in SUBSET Xid
    BY <1>0, BookedGrows
  <2>2. y \in R /\ y \notin S
    BY <1>5 DEF Booked, AssetOf, SideOf
  <2>3. IsFiniteSet(R) /\ \A x \in R : f[x] \in Nat
    BY <2>1, AmountsNat, Finite
  <2> HIDE DEF S, R, f
  <2>4. SumFunctionOnSet(f, S) + f[y] <= SumFunctionOnSet(f, R)
    BY <2>1, <2>2, <2>3, SumGains
  <2> QED BY <1>3, <1>4, <2>4 DEF f, S, R, Amount
<1>6. pos[a] \in (InitPos - Amount(Lo))..(InitPos + Amount(Hi)) /\ pos[a] \in Int
  BY DEF Balanced, TypeOK
<1>7. \/ pos'[a] = pos[a]
      \/ AssetOf(y) = a /\ SideOf(y) = "BUY" /\ pos'[a] = pos[a] + q
      \/ AssetOf(y) = a /\ SideOf(y) = "SELL" /\ pos'[a] \in {0, pos[a] - q}
           /\ (pos'[a] = 0 => pos[a] <= q)
  BY DEF OnFill, AssetOf, SideOf, TypeOK, OrderRec, XordRec, book
<1>8. CASE pos'[a] = pos[a]
  <2> DEFINE lo == Amount(Lo)
             hi == Amount(Hi)
             lo2 == Amount(Lo)'
             hi2 == Amount(Hi)'
  <2>1. lo \in Nat /\ lo2 \in Nat /\ lo <= lo2 /\ hi \in Nat /\ hi2 \in Nat /\ hi <= hi2
    BY <1>1, <1>2
  <2> HIDE DEF lo, hi, lo2, hi2
  <2>2. pos[a] \in (InitPos - lo)..(InitPos + hi)
    BY <1>6 DEF lo, hi
  <2>3. pos'[a] \in (InitPos - lo2)..(InitPos + hi2)
    BY <1>6, <1>8, <2>1, <2>2
  <2> QED BY <2>3 DEF lo2, hi2
<1>9. CASE AssetOf(y) = a /\ SideOf(y) = "BUY" /\ pos'[a] = pos[a] + q
  <2> DEFINE lo == Amount(Lo)
             hi == Amount(Hi)
             lo2 == Amount(Lo)'
             hi2 == Amount(Hi)'
  <2>1. lo \in Nat /\ lo2 \in Nat /\ lo <= lo2 /\ hi \in Nat /\ hi2 \in Nat /\ hi + q <= hi2
    BY <1>1, <1>2, <1>5, <1>9
  <2> HIDE DEF lo, hi, lo2, hi2, q
  <2>2. pos[a] \in (InitPos - lo)..(InitPos + hi)
    BY <1>6 DEF lo, hi
  <2>3. pos'[a] \in (InitPos - lo2)..(InitPos + hi2)
    BY <1>4, <1>6, <1>9, <2>1, <2>2
  <2> QED BY <2>3 DEF lo2, hi2
<1>10. CASE AssetOf(y) = a /\ SideOf(y) = "SELL" /\ pos'[a] \in {0, pos[a] - q}
              /\ (pos'[a] = 0 => pos[a] <= q)
  <2> DEFINE lo == Amount(Lo)
             hi == Amount(Hi)
             lo2 == Amount(Lo)'
             hi2 == Amount(Hi)'
  <2>1. lo \in Nat /\ lo2 \in Nat /\ lo + q <= lo2 /\ hi \in Nat /\ hi2 \in Nat /\ hi <= hi2
    BY <1>1, <1>2, <1>5, <1>10
  <2> HIDE DEF lo, hi, lo2, hi2, q
  <2>2. pos[a] \in (InitPos - lo)..(InitPos + hi)
    BY <1>6 DEF lo, hi
  <2>3. pos'[a] \in (InitPos - lo2)..(InitPos + hi2)
    BY <1>4, <1>6, <1>10, <2>1, <2>2
  <2> QED BY <2>3 DEF lo2, hi2
<1> HIDE DEF q
<1> QED BY <1>7, <1>8, <1>9, <1>10

Books == Balanced /\ Answers

\* the decisions and the exchange's orders, but for their ages and counts
SameFills ==
  /\ \A u \in Uid : u <= made => /\ order'[u].asset = order[u].asset
                                 /\ order'[u].side = order[u].side
  /\ \A x \in Xid : /\ xord'[x].uid = xord[x].uid /\ xord'[x].status = xord[x].status
                    /\ xord'[x].done = xord[x].done

LEMMA OnlyOne ==
  ASSUME PipelineOnly, NEW t \in Task
  PROVE  t = "pipeline" /\ Task = {t}
BY DEF PipelineOnly

LEMMA FillsLast ==
  ASSUME TypeOK, References, Places, SameFills, NEW x \in Xid, xord[x].status # "none"
  PROVE  Lasting(x)
<1>1. x <= placed
  BY Unplaced
<1>2. xord[x].uid \in Uid /\ xord[x].uid <= made /\ xord[x].done \in Nat
  BY <1>1 DEF References, OrdersKnown, TypeOK, XordRec
<1> QED BY <1>2 DEF SameFills, Lasting, AssetOf, SideOf

(* A step of the job that books nothing, and tracks no order but the one   *)
(* it was told of.                                                         *)
LEMMA BooksStep ==
  ASSUME PipelineOnly, TypeOK, TypeOK', References, Places, Books, NEW t \in Task,
         reply'[t].status = "none", pos' = pos, SameFills, Tracked' \subseteq Unbooked
  PROVE  Books'
<1>1. Task = {t}
  BY OnlyOne
<1>2. ~Told(t)'
  BY DEF Told
<1>3. Unbooked' = Tracked'
  BY <1>1, <1>2 DEF Unbooked
<1>4. \A x \in Xid \ Unbooked : xord[x].status # "none" => Lasting(x) /\ x \notin Unbooked'
  BY <1>3, FillsLast
<1>5. Balanced'
  BY <1>4, BalancedKept DEF Books
<1>6. Answers'
  BY <1>1, <1>2 DEF Answers
<1> QED BY <1>5, <1>6 DEF Books

\* most steps leave orders and exchange alone
LEMMA BooksSame ==
  ASSUME PipelineOnly, TypeOK, TypeOK', References, Places, Books, NEW t \in Task,
         reply'[t].status = "none", UNCHANGED <<pos, order, xord>>, Tracked' \subseteq Unbooked
  PROVE  Books'
BY BooksStep DEF SameFills

(* A step of the job that books the fill it was told of.                   *)
LEMMA BooksFill ==
  ASSUME PipelineOnly, TypeOK, TypeOK', References, Places, Books, NEW t \in Task,
         NEW y \in Xid, NEW p, OnFill(xord[y].uid, xord[y].done, p),
         xord[y].status # "none", y \in Unbooked,
         reply'[t].status = "none", Tracked' \subseteq Unbooked \ {y},
         UNCHANGED <<order, xord>>
  PROVE  Books'
<1>1. Task = {t}
  BY OnlyOne
<1>2. ~Told(t)'
  BY DEF Told
<1>3. Unbooked' = Tracked'
  BY <1>1, <1>2 DEF Unbooked
<1>4. Balanced'
  BY <1>3, BalancedBooks DEF Books
<1>5. Answers'
  BY <1>1, <1>2 DEF Answers
<1> QED BY <1>4, <1>5 DEF Books

LEMMA TrackedUnbooked == Tracked \subseteq Unbooked
BY DEF Unbooked

LEMMA BooksRisk ==
  ASSUME PipelineOnly, TypeOK, TypeOK', References, Places, Books, NEW t \in Task, Risk(t)
  PROVE  Books'
<1>1. CASE StartTick(t)
  <2>1. pc[t] = "idle" /\ UNCHANGED <<order, active, toRemove, pos, reply, xord>>
    BY <1>1 DEF StartTick, At, decisions, check, book, exchange
  <2>2. reply'[t].status = "none"
    BY <2>1, Silenced DEF Calls
  <2> QED BY <2>1, <2>2, TrackedUnbooked, BooksSame DEF Tracked
<1>2. CASE RiskDone(t)
  <2>1. pc[t] = "risk" /\ UNCHANGED <<order, active, toRemove, pos, reply, xord>>
    BY <1>2 DEF RiskDone, At, decisions, check, book, exchange
  <2>2. reply'[t].status = "none"
    BY <2>1, Silenced DEF Calls
  <2> QED BY <2>1, <2>2, TrackedUnbooked, BooksSame DEF Tracked
<1>3. ASSUME NEW a \in Asset, NEW e \in Events, RiskExit(t, a, e)
      PROVE  Books'
  <2>1. /\ Create(a, "SELL", PriorityOf(e), pos[a] * price[a], e) /\ pc[t] = "risk"
        /\ UNCHANGED <<active, toRemove, pos, pc, frame, reply, exchange, xord>>
    BY <1>3 DEF RiskExit, At, check, book, exchange
  <2>2. \A u \in Uid : u <= made => order'[u] = order[u]
    BY <2>1, CreateKnown
  <2>3. SameFills
    BY <2>1, <2>2 DEF SameFills
  <2>4. reply'[t].status = "none"
    BY <2>1, Silenced DEF Calls
  <2> QED BY <2>1, <2>3, <2>4, TrackedUnbooked, BooksStep DEF Tracked
<1> QED BY <1>1, <1>2, <1>3 DEF Risk

LEMMA BooksDrain ==
  ASSUME PollsAnswered, PipelineOnly, TypeOK, TypeOK', References, Places, Books,
         NEW t \in Task, Drain(t)
  PROVE  Books'
<1>0. pc[t] \in {"drain", "cancelpair", "submit", "place"}
        => toRemove = {} /\ Tracked = active
  BY Outside DEF Places, Checking
\* the steps that track no more than before
<1>1. ASSUME pc[t] \in {"drain", "cancelpair", "submit", "place"},
             Consume(t) \/ (reply' = reply /\ pc[t] \notin Calls),
             UNCHANGED <<order, pos, xord>>,
             active' \subseteq active
      PROVE  Books'
  <2>1. reply'[t].status = "none"
    BY <1>1, Silenced, ConsumeSilent
  <2>2. Tracked' \subseteq Tracked
    BY <1>0, <1>1 DEF Tracked
  <2> QED BY <1>1, <2>1, <2>2, TrackedUnbooked, BooksSame
<1>3. CASE DrainEmpty(t)
  BY <1>1, <1>3 DEF DrainEmpty, At, decisions, book, exchange, Calls
<1>4. ASSUME NEW u \in Uid, Defer(t, u)
      PROVE  Books'
  BY <1>1, <1>4 DEF Defer, At, decisions, book, exchange, Calls
<1>5. ASSUME NEW u \in Uid, Pop(t, u)
      PROVE  Books'
  BY <1>1, <1>5 DEF Pop, At, decisions, book, exchange, Calls
<1>6. CASE CancelPairDone(t)
  BY <1>1, <1>6 DEF CancelPairDone, Answered, At, decisions, book, exchange
<1>7. CASE CancelPairRaised(t)
  BY <1>1, <1>7 DEF CancelPairRaised, Abort, Answered, At, decisions, book, exchange
<1>8. CASE Suppress(t)
  BY <1>1, <1>8 DEF Suppress, At, decisions, book, exchange, Calls
<1>9. CASE Submit(t)
  BY <1>1, <1>9 DEF Submit, At, decisions, book, exchange, Calls
<1>10. CASE PlaceFilled(t)
  <2> DEFINE y == reply[t].xid
  <2>1. /\ pc[t] = "place" /\ reply[t].status # "none" /\ ~Failed(t) /\ reply[t].qty > 0
        /\ OnFill(frame[t].uid, reply[t].qty, xord[y].px) /\ Consume(t)
        /\ UNCHANGED <<order, active, toRemove, xord>>
    BY <1>10 DEF PlaceFilled, Answered, At, decisions, check, exchange
  <2>2. Told(t) /\ y \in Xid
    BY <2>1 DEF Told, Failed, TypeOK, ReplyRec
  <2>3. /\ y \notin active /\ xord[y].uid = frame[t].uid /\ xord[y].status # "none"
        /\ reply[t].qty = xord[y].done
    BY <2>1, <2>2 DEF Books, Answers
  <2>4. y \in Unbooked /\ Tracked' \subseteq Unbooked \ {y}
    BY <2>1, <2>2, <2>3 DEF Unbooked, Tracked
  <2>5. reply'[t].status = "none"
    BY <2>1, ConsumeSilent
  <2>6. OnFill(xord[y].uid, xord[y].done, xord[y].px)
    BY <2>1, <2>3
  <2> HIDE DEF y
  <2> QED BY <2>1, <2>2, <2>3, <2>4, <2>5, <2>6, BooksFill
<1>11. CASE PlacePending(t)
  <2>1. /\ pc[t] = "place" /\ reply[t].status # "none" /\ ~Failed(t)
        /\ active' = active \cup {reply[t].xid} /\ Consume(t)
        /\ UNCHANGED <<order, pos, toRemove, xord>>
    BY <1>11 DEF PlacePending, Answered, At, decisions, check, book, exchange
  <2>2. Told(t)
    BY <2>1 DEF Told, Failed, TypeOK, ReplyRec
  <2>3. Tracked' \subseteq Unbooked
    BY <2>1, <2>2 DEF Unbooked, Tracked
  <2>4. reply'[t].status = "none"
    BY <2>1, ConsumeSilent
  <2> QED BY <2>1, <2>3, <2>4, BooksSame
<1>12. CASE PlaceFailed(t)
  BY <1>1, <1>12 DEF PlaceFailed, Answered, At, decisions, book, exchange
<1> QED BY <1>3, <1>4, <1>5, <1>6, <1>7, <1>8, <1>9, <1>10, <1>11, <1>12 DEF Drain

LEMMA BooksCheck ==
  ASSUME PollsAnswered, PipelineOnly, TypeOK, TypeOK', References, Places, Books,
         NEW t \in Task, Check(t)
  PROVE  Books'
\* the steps of the poll that book nothing
<1>1. ASSUME Consume(t) \/ (reply' = reply /\ pc[t] \notin Calls),
             SameFills, pos' = pos, active' = active, toRemove \subseteq toRemove'
      PROVE  Books'
  <2>1. reply'[t].status = "none"
    BY <1>1, Silenced, ConsumeSilent
  <2>2. Tracked' \subseteq Tracked
    BY <1>1 DEF Tracked
  <2> QED BY <1>1, <2>1, <2>2, TrackedUnbooked, BooksStep
<1>S. UNCHANGED <<order, xord>> => SameFills
  BY DEF SameFills
<1>2. CASE CheckDone(t)
  <2>1. /\ pc[t] = "scan" /\ active' = active \ toRemove /\ toRemove' = {}
        /\ UNCHANGED <<order, pos, reply, xord>>
    BY <1>2 DEF CheckDone, At, decisions, book, exchange
  <2>2. reply'[t].status = "none"
    BY <2>1, Silenced DEF Calls
  <2> QED BY <2>1, <2>2, TrackedUnbooked, BooksSame DEF Tracked
<1>3. ~CheckMutated(t)
  BY PollIntact DEF CheckMutated, At
<1>4. ASSUME NEW x \in Xid, NEW g \in 0..2, Visit(t, x, g)
      PROVE  Books'
  <2>1. /\ pc[t] = "scan" /\ xord' = [xord EXCEPT ![x].age = g]
        /\ UNCHANGED <<order, pos, active, reply, toRemove>>
    BY <1>4 DEF Visit, At, decisions, book
  <2>2. SameFills
    BY <2>1 DEF SameFills, TypeOK, XordRec
  <2> QED BY <1>1, <2>1, <2>2 DEF Calls
<1>5. CASE QueryFilled(t)
  <2> DEFINE y == frame[t].xid
  <2>1. /\ pc[t] = "query" /\ ~Failed(t) /\ reply[t].status # "none" /\ reply[t].qty > 0
        /\ OnFill(xord[y].uid, reply[t].qty, xord[y].px)
        /\ Consume(t) /\ toRemove' = toRemove \cup {y}
        /\ UNCHANGED <<order, active, xord>>
    BY <1>5 DEF QueryFilled, Answered, At, decisions, exchange
  <2>2. reply[t].status = "ok" /\ y \in Xid
    BY <2>1 DEF Failed, TypeOK, ReplyRec, FrameRec
  <2>3. xord[y].status # "none" /\ reply[t].qty = xord[y].done
    BY <2>1, <2>2 DEF Books, Answers
  <2>4. y \in Tracked
    BY <2>1 DEF Places, PollKnown, Tracked, Checking
  <2>5. y \in Unbooked /\ Tracked' \subseteq Unbooked \ {y}
    BY <2>1, <2>4 DEF Unbooked, Tracked
  <2>6. reply'[t].status = "none"
    BY <2>1, ConsumeSilent
  <2>7. OnFill(xord[y].uid, xord[y].done, xord[y].px)
    BY <2>1, <2>3
  <2> HIDE DEF y
  <2> QED BY <2>1, <2>2, <2>3, <2>5, <2>6, <2>7, BooksFill
<1>6. CASE QueryUnfilled(t)
  BY <1>1, <1>S, <1>6 DEF QueryUnfilled, decisions, check, book, exchange
<1>7. ~QueryFailed(t)
  BY DEF QueryFailed, Answered, At, Places, PollKnown
<1>8. ASSUME TimedOut(t)
      PROVE  /\ Consume(t) /\ UNCHANGED <<pos, active, xord>>
             /\ toRemove \subseteq toRemove'
  BY <1>8 DEF TimedOut, book, exchange
<1>9. CASE Escalate(t)
  BY <1>1, <1>S, <1>8, <1>9 DEF Escalate
<1>10. CASE Abandon(t)
  BY <1>1, <1>S, <1>8, <1>10 DEF Abandon
<1>11. CASE Resubmit(t)
  <2>1. TimedOut(t)
    BY <1>11 DEF Resubmit
  <2>2. \A u \in Uid : order'[u].asset = order[u].asset /\ order'[u].side = order[u].side
    BY <1>11 DEF Resubmit, TypeOK, OrderRec
  <2>3. SameFills
    BY <1>8, <2>1, <2>2 DEF SameFills
  <2> QED BY <1>1, <1>8, <2>1, <2>3
<1>12. ~CancelRaised(t)
  BY DEF CancelRaised, Answered, At, Swallowed, Places, PollKnown
<1>13. CASE MarketFilled(t)
  <2> DEFINE y == reply[t].xid
  <2>1. /\ pc[t] = "market" /\ reply[t].status # "none" /\ ~Failed(t)
        /\ OnFill(frame[t].uid, reply[t].qty, xord[y].px) /\ Consume(t)
        /\ UNCHANGED <<order, active, toRemove, xord>>
    BY <1>13 DEF MarketFilled, Answered, At, decisions, check, exchange
  <2>2. Told(t) /\ y \in Xid
    BY <2>1 DEF Told, Failed, TypeOK, ReplyRec
  <2>3. /\ y \notin active /\ xord[y].uid = frame[t].uid /\ xord[y].status # "none"
    BY <2>1, <2>2 DEF Books, Answers
  <2>4. reply[t].qty = xord[y].done
    BY <2>1, <2>2 DEF Books, Answers
  <2>5. y \in Unbooked /\ Tracked' \subseteq Unbooked \ {y}
    BY <2>1, <2>2, <2>3 DEF Unbooked, Tracked
  <2>6. reply'[t].status = "none"
    BY <2>1, ConsumeSilent
  <2>7. OnFill(xord[y].uid, xord[y].done, xord[y].px)
    BY <2>1, <2>3, <2>4
  <2> HIDE DEF y
  <2> QED BY <2>1, <2>2, <2>3, <2>5, <2>6, <2>7, BooksFill
<1>14. CASE MarketFailed(t)
  BY <1>1, <1>S, <1>14 DEF MarketFailed, decisions, check, book, exchange
<1> QED BY <1>2, <1>3, <1>4, <1>5, <1>6, <1>7, <1>9, <1>10, <1>11, <1>12, <1>13, <1>14
        DEF Check

(* An answer of the exchange: the only order it can be about that was not  *)
(* tracked is the one just accepted.                                       *)
LEMMA BooksAnswer ==
  ASSUME PipelineOnly, TypeOK, TypeOK', References, Places, Books, NEW t \in Task,
         UNCHANGED Client, reply[t].status = "none",
         \A x \in Xid : xord[x].status # "none" =>
           /\ xord'[x].status # "none" /\ xord'[x].uid = xord[x].uid
           /\ xord'[x].done = xord[x].done,
         Told(t)' => reply'[t].xid = placed + 1,
         Answers'
  PROVE  Books'
<1>1. Task = {t}
  BY OnlyOne
<1>2. UNCHANGED <<order, active, toRemove, pos, pc, frame>>
  BY DEF Client, decisions, check, book
<1>3. Unbooked = Tracked
  BY <1>1 DEF Unbooked, Told
<1>4. Unbooked' \subseteq Tracked \cup {placed + 1}
  BY <1>1, <1>2 DEF Unbooked, Tracked
<1>5. ASSUME NEW x \in Xid \ Unbooked, xord[x].status # "none"
      PROVE  Lasting(x) /\ x \notin Unbooked'
  <2>0. x <= placed
    BY <1>5, Unplaced
  <2>1. x <= placed /\ placed \in Int /\ x \in Int
    BY <2>0 DEF TypeOK, Xid
  <2>2. x # placed + 1
    BY <2>1
  <2>3. xord[x].done \in Nat
    BY DEF TypeOK, XordRec
  <2> QED BY <1>2, <1>3, <1>4, <1>5, <2>2, <2>3 DEF Lasting, AssetOf, SideOf
<1>6. Balanced'
  BY <1>2, <1>5, BalancedKept DEF Books
<1> QED BY <1>6 DEF Books

\* an answer that is about no order
LEMMA BooksOther ==
  ASSUME PipelineOnly, TypeOK, TypeOK', References, Places, Books, NEW t \in Task,
         UNCHANGED Client, reply[t].status = "none",
         \A x \in Xid : xord[x].status # "none" =>
           /\ xord'[x].status # "none" /\ xord'[x].uid = xord[x].uid
           /\ xord'[x].done = xord[x].done,
         pc[t] \in {"place", "market", "query"} => reply'[t].status # "ok"
  PROVE  Books'
<1>1. Task = {t}
  BY OnlyOne
<1>2. pc' = pc
  BY DEF Client
<1>3. ~Told(t)'
  BY <1>2 DEF Told
<1>4. Answers'
  BY <1>1, <1>2, <1>3 DEF Answers
<1> QED BY <1>3, <1>4, BooksAnswer

\* an order is accepted
LEMMA BooksPlaced ==
  ASSUME PipelineOnly, TypeOK, TypeOK', References, Places, Books, NEW t \in Task,
         pc[t] \in {"place", "market"}, UNCHANGED Client, reply[t].status = "none",
         Affordable(t), NEW status \in {"open", "filled"}, NEW done \in Nat,
         NewOrder(t, status, done), NEW r, Answer(t, r),
         r.xid = placed + 1, r.qty = 0 \/ r.qty = done,
         status = "filled" => r.qty = done,
         status = "open" => r.qty = 0 /\ pc[t] = "place"
  PROVE  Books'
<1>1. Task = {t}
  BY OnlyOne
<1>2. UNCHANGED <<active, pc, frame>>
  BY DEF Client
<1>3. /\ placed + 1 \in Xid /\ placed' = placed + 1
      /\ xord'[placed + 1].uid = frame[t].uid
  BY PlacedKnown
<1>4. /\ xord'[placed + 1].status = status /\ xord'[placed + 1].done = done
      /\ \A x \in Xid \ {placed + 1} : xord'[x] = xord[x]
  BY <1>3 DEF NewOrder, TypeOK
<1>5. xord[placed + 1].status = "none" /\ placed + 1 \notin active
  <2>1. placed \in Int /\ ~(placed + 1 <= placed)
    BY DEF TypeOK
  <2> QED BY <1>3, <2>1, Unplaced DEF References, ActiveKnown
<1>6. \A x \in Xid : xord[x].status # "none" =>
        /\ xord'[x].status # "none" /\ xord'[x].uid = xord[x].uid
        /\ xord'[x].done = xord[x].done
  BY <1>4, <1>5
<1>7. Told(t)' => reply'[t] = r
  BY AnswerOthers DEF Told
<1>8. Told(t)' => reply'[t].xid = placed + 1
  BY <1>7
<1>9. Told(t)' => /\ reply'[t].xid <= placed' /\ reply'[t].xid \notin active'
                  /\ xord'[reply'[t].xid].uid = frame'[t].uid
                  /\ xord'[reply'[t].xid].status # "none"
  <2>1. placed + 1 <= placed'
    BY <1>3 DEF TypeOK
  <2> QED BY <1>2, <1>3, <1>4, <1>5, <1>8, <2>1
<1>10. Told(t)' /\ (reply'[t].qty > 0 \/ pc'[t] = "market")
         => /\ xord'[reply'[t].xid].status = "filled"
            /\ reply'[t].qty = xord'[reply'[t].xid].done
  <2> SUFFICES ASSUME Told(t)', reply'[t].qty > 0 \/ pc'[t] = "market"
               PROVE  status = "filled"
    BY <1>4, <1>7
  <2>1. ~(status = "open")
    BY <1>2, <1>7
  <2> QED BY <2>1
<1>11. Answers'
  BY <1>1, <1>2, <1>9, <1>10 DEF Answers
<1> QED BY <1>6, <1>8, <1>11, BooksAnswer

\* orders are cancelled
LEMMA BooksCancel ==
  ASSUME PipelineOnly, TypeOK, TypeOK', References, Places, Books, NEW t \in Task,
         pc[t] \notin {"place", "market", "query"}, UNCHANGED Client,
         reply[t].status = "none", NEW S, xord' = Cancelled(S), S \subseteq Open
  PROVE  Books'
<1>1. \A x \in Xid : xord[x].status # "none" =>
        /\ xord'[x].status # "none" /\ xord'[x].uid = xord[x].uid
        /\ xord'[x].done = xord[x].done
  <2> TAKE x \in Xid
  <2>1. xord'[x] = IF x \in S THEN [xord[x] EXCEPT !.status = "canceled"] ELSE xord[x]
    BY DEF Cancelled
  <2> QED BY <2>1 DEF TypeOK, XordRec
<1> QED BY <1>1, BooksOther

LEMMA BooksServe ==
  ASSUME PollsAnswered, PipelineOnly, TypeOK, TypeOK', References, Places, Books,
         NEW t \in Task, Serve(t)
  PROVE  Books'
<1>0. xord' = xord => \A x \in Xid : xord[x].status # "none" =>
        /\ xord'[x].status # "none" /\ xord'[x].uid = xord[x].uid
        /\ xord'[x].done = xord[x].done
  OBVIOUS
<1>1. CASE XPlaceOpen(t)
  <2> DEFINE r == [Done EXCEPT !.xid = placed + 1]
  <2>1. /\ pc[t] = "place" /\ reply[t].status = "none" /\ Affordable(t)
        /\ NewOrder(t, "open", 0) /\ UNCHANGED Client /\ Answer(t, r)
    BY <1>1 DEF XPlaceOpen, Pending
  <2>2. r.xid = placed + 1 /\ r.qty = 0
    BY DEF Done, Silent
  <2> HIDE DEF r
  <2> QED BY <2>1, <2>2, BooksPlaced
<1>2. CASE XPlaceFilled(t)
  <2> DEFINE r == [Done EXCEPT !.xid = placed + 1, !.qty = frame[t].qty]
  <2>1. /\ pc[t] \in {"place", "market"} /\ reply[t].status = "none" /\ Affordable(t)
        /\ NewOrder(t, "filled", frame[t].qty) /\ UNCHANGED Client /\ Answer(t, r)
    BY <1>2 DEF XPlaceFilled, Pending
  <2>2. r.xid = placed + 1 /\ r.qty = frame[t].qty
    BY DEF Done, Silent
  <2>3. frame[t].qty \in Nat
    BY DEF TypeOK, FrameRec
  <2> HIDE DEF r
  <2> QED BY <2>1, <2>2, <2>3, BooksPlaced
<1>3. CASE XReject(t)
  <2>1. reply'[t].status = "refused" /\ reply[t].status = "none"
          /\ UNCHANGED <<Client, xord>>
    BY <1>3 DEF XReject, Pending, exchange, TypeOK, Silent
  <2> QED BY <1>0, <2>1, BooksOther
<1>4. ASSUME NEW status \in {"refused", "raised"}, XFail(t, status)
      PROVE  Books'
  <2>1. reply'[t].status = status /\ reply[t].status = "none"
          /\ UNCHANGED <<Client, xord>>
    BY <1>4 DEF XFail, exchange, TypeOK, Silent
  <2> QED BY <1>0, <2>1, BooksOther
<1>5. CASE XCancelPair(t)
  BY <1>5, BooksCancel DEF XCancelPair, Pending
<1>6. ASSUME NEW a \in Asset, XSweepCancel(t, a)
      PROVE  Books'
  BY <1>6 DEF XSweepCancel, Pending, Places, PollKnown, Sweeping
<1>7. CASE XCancel(t)
  BY <1>7, BooksCancel DEF XCancel, Pending
<1>8. CASE XQuery(t)
  <2> DEFINE x == frame[t].xid
             q == IF xord[x].status = "filled" THEN xord[x].done ELSE 0
             r == [Done EXCEPT !.xid = x, !.qty = q]
  <2>1. /\ pc[t] = "query" /\ reply[t].status = "none" /\ Answer(t, r)
        /\ UNCHANGED <<Client, exchange>>
    BY <1>8 DEF XQuery, Pending
  <2>2. UNCHANGED <<pc, frame, xord>>
    BY <2>1 DEF Client, exchange
  <2>3. r.qty = q /\ (q > 0 => xord[x].status = "filled" /\ q = xord[x].done)
    BY DEF Done, Silent
  <2>4. ~Told(t)'
    BY <2>1, <2>2 DEF Told
  <2> HIDE DEF r, q
  <2>5. reply'[t].status = "ok" => reply'[t].qty = q
    BY <2>1, <2>3, AnswerOthers
  <2>6. Answers'
    BY <2>2, <2>3, <2>4, <2>5, OnlyOne DEF Answers
  <2> QED BY <1>0, <2>1, <2>2, <2>4, <2>6, BooksAnswer
<1>9. CASE XPending(t)
  BY <1>9 DEF XPending, Pending, Places, PollKnown, Sweeping
<1>10. CASE XBalance(t)
  <2>1. /\ pc[t] \in {"balance", "sweepbalance"} /\ reply[t].status = "none"
        /\ UNCHANGED <<Client, xord>>
    BY <1>10 DEF XBalance, Pending, exchange
  <2> QED BY <1>0, <2>1, BooksOther
<1> QED BY <1>1, <1>2, <1>3, <1>4, <1>5, <1>6, <1>7, <1>8, <1>9, <1>10 DEF Serve

(* A fill: the order was open, and what a job was told filled was not.     *)
LEMMA BooksTrade ==
  ASSUME PipelineOnly, TypeOK, TypeOK', References, Places, Books, NEW x \in Xid,
         NEW q \in 1..Left(x), Fill(x, q)
  PROVE  Books'
<1>1. /\ UNCHANGED <<order, active, toRemove, pos, pc, frame, reply, placed>>
      /\ x \in Open
      /\ xord' = [xord EXCEPT ![x].done = @ + q,
                              ![x].status = IF q = Left(x) THEN "filled" ELSE @]
  BY DEF Fill, Client, decisions, check, book
<1>2. Unbooked' = Unbooked
  BY <1>1 DEF Unbooked, Tracked, Told
<1>3. q \in Nat /\ xord[x].done \in Nat /\ xord[x].status = "open"
  BY <1>1 DEF Open, TypeOK, XordRec, Left
<1>4. /\ \A y \in Xid \ {x} : xord'[y] = xord[y]
      /\ xord'[x].uid = xord[x].uid /\ xord'[x].done = xord[x].done + q
      /\ xord'[x].status \in {"open", "filled"}
  BY <1>1, <1>3 DEF TypeOK, XordRec
<1>5. ASSUME NEW y \in Xid, xord[y].status # "none"
      PROVE  Lasting(y)
  <2>1. CASE y = x
    BY <1>1, <1>3, <1>4, <2>1 DEF Lasting, AssetOf, SideOf
  <2>2. CASE y # x
    <3>1. xord'[y] = xord[y] /\ xord[y].done \in Nat
      BY <1>4, <2>2 DEF TypeOK, XordRec
    <3> QED BY <1>1, <1>5, <3>1 DEF Lasting, AssetOf, SideOf
  <2> QED BY <2>1, <2>2
<1>6. Balanced'
  BY <1>1, <1>2, <1>5, BalancedKept DEF Books
<1>7. ASSUME NEW y \in Xid
      PROVE  /\ xord'[y].uid = xord[y].uid
             /\ xord[y].status # "none" => xord'[y].status # "none"
             /\ xord[y].status = "filled" => xord'[y] = xord[y]
  BY <1>3, <1>4
<1>8. Answers'
  <2>0. UNCHANGED <<active, pc, frame, reply, placed>>
    BY <1>1
  <2> SUFFICES ASSUME NEW t \in Task
               PROVE  /\ Told(t) => /\ reply[t].xid <= placed /\ reply[t].xid \notin active
                                    /\ xord'[reply[t].xid].uid = frame[t].uid
                                    /\ xord'[reply[t].xid].status # "none"
                                    /\ (reply[t].qty > 0 \/ pc[t] = "market")
                                         => /\ xord'[reply[t].xid].status = "filled"
                                            /\ reply[t].qty = xord'[reply[t].xid].done
                      /\ pc[t] = "query" /\ reply[t].status = "ok" /\ reply[t].qty > 0
                           => /\ xord'[frame[t].xid].status = "filled"
                              /\ reply[t].qty = xord'[frame[t].xid].done
    BY <2>0 DEF Answers, Told
  <2>1. reply[t].xid \in Xid /\ frame[t].xid \in Xid
    BY DEF TypeOK, ReplyRec, FrameRec
  <2> QED BY <1>7, <2>1 DEF Books, Answers
<1> QED BY <1>6, <1>8 DEF Books

LEMMA InitBooks ==
  ASSUME Init
  PROVE  Books
<1>0. TypeOK
  BY InitType
<1>1. \A t \in Task : pc[t] = "idle"
  BY DEF Init
<1>2. Answers
  <2>1. \A t \in Task : ~Told(t) /\ pc[t] # "query"
    BY <1>1 DEF Told
  <2> QED BY <2>1 DEF Answers
<1>3. ASSUME NEW a \in Asset
      PROVE  pos[a] \in (InitPos - Amount(Booked(a, "SELL")))..(InitPos + Amount(Booked(a, "BUY")))
  <2> DEFINE lo == Amount(Booked(a, "SELL"))
             hi == Amount(Booked(a, "BUY"))
  <2>1. Booked(a, "SELL") \in SUBSET Xid /\ Booked(a, "BUY") \in SUBSET Xid
    BY DEF Booked
  <2>2. lo \in Nat /\ hi \in Nat
    BY <1>0, <2>1, AmountsNat
  <2>3. pos[a] = InitPos /\ InitPos \in Nat
    BY DEF Init
  <2> HIDE DEF lo, hi
  <2>4. pos[a] \in (InitPos - lo)..(InitPos + hi)
    BY <2>2, <2>3
  <2> QED BY <2>4 DEF lo, hi
<1> QED BY <1>2, <1>3 DEF Books, Balanced

\* no job asks for the balances
NoSync == \A t \in Task : pc[t] # "balance"

LEMMA NextNoSync ==
  ASSUME PollsAnswered, PipelineOnly, TypeOK, References, Places, NoSync, [Next]_vars
  PROVE  NoSync'
<1>1. ASSUME NEW t \in Task, NEW l, Goto(t, l), l # "balance"
      PROVE  NoSync'
  BY <1>1 DEF NoSync, Goto, TypeOK
<1>2. pc' = pc => NoSync'
  BY DEF NoSync
<1>3. ASSUME NEW t \in Task, Risk(t) PROVE NoSync'
  <2>1. ASSUME NEW a \in Asset, NEW e \in Events, RiskExit(t, a, e) PROVE pc' = pc
    BY <2>1 DEF RiskExit
  <2>2. StartTick(t) => Goto(t, "risk")
    BY DEF StartTick
  <2>3. RiskDone(t) => Goto(t, "drain")
    BY DEF RiskDone, Return
  <2> QED BY <1>1, <1>2, <1>3, <2>1, <2>2, <2>3 DEF Risk
<1>4. ASSUME NEW t \in Task, Abort(t) PROVE NoSync'
  BY <1>1, <1>4 DEF Abort, Return
<1>5. ASSUME NEW t \in Task, LeaveDrain(t) PROVE NoSync'
  BY <1>1, <1>5 DEF LeaveDrain, Return
<1>6. ASSUME NEW t \in Task, Drain(t) PROVE NoSync'
  <2>1. ASSUME DrainEmpty(t) \/ \E u \in Uid : Defer(t, u) PROVE LeaveDrain(t)
    BY <2>1 DEF DrainEmpty, Defer
  <2>2. ASSUME NEW u \in Uid, Pop(t, u) PROVE \E l \in {"cancelpair", "submit"} : Goto(t, l)
    BY <2>2 DEF Pop
  <2>3. ASSUME CancelPairDone(t) \/ Suppress(t) \/ Submit(t) \/ PlaceFilled(t)
                 \/ PlacePending(t) \/ PlaceFailed(t)
        PROVE  \E l \in {"submit", "drain", "place"} : Goto(t, l)
    BY <2>3 DEF CancelPairDone, Suppress, Submit, PlaceFilled, PlacePending, PlaceFailed, Return
  <2>4. CancelPairRaised(t) => Abort(t)
    BY DEF CancelPairRaised
  <2>5. ASSUME NEW l \in {"cancelpair", "submit", "drain", "place"}, Goto(t, l) PROVE NoSync'
    BY <1>1, <2>5
  <2>6. (\E l \in {"cancelpair", "submit"} : Goto(t, l)) => NoSync'
    BY <2>5
  <2>7. (\E l \in {"submit", "drain", "place"} : Goto(t, l)) => NoSync'
    BY <2>5
  <2> QED BY <1>4, <1>5, <1>6, <2>1, <2>2, <2>3, <2>4, <2>6, <2>7 DEF Drain
<1>7. ASSUME NEW t \in Task, Check(t) PROVE NoSync'
  <2>1. ASSUME NEW x \in Xid, NEW g \in 0..2, Visit(t, x, g) PROVE NoSync'
    <3>1. pc' = pc \/ Goto(t, "query")
      BY <2>1 DEF Visit
    <3> QED BY <1>1, <1>2, <3>1
  <2>2. ASSUME \/ CheckDone(t) \/ QueryFilled(t) \/ Abandon(t) \/ Resubmit(t)
               \/ MarketFilled(t) \/ MarketFailed(t)
        PROVE  Goto(t, "idle") \/ Goto(t, "scan")
    BY <2>2 DEF CheckDone, QueryFilled, Abandon, Resubmit, MarketFilled, MarketFailed, Return
  <2>3. ASSUME QueryUnfilled(t) PROVE Goto(t, "scan") \/ Goto(t, "cancel")
    BY <2>3 DEF QueryUnfilled, Return
  <2>4. ASSUME Escalate(t) PROVE Goto(t, "scan") \/ Goto(t, "market")
    BY <2>4 DEF Escalate, Return
  <2>5. CheckMutated(t) \/ QueryFailed(t) \/ CancelRaised(t) => Abort(t)
    BY DEF CheckMutated, QueryFailed, CancelRaised
  <2>6. (Goto(t, "idle") \/ Goto(t, "scan") \/ Goto(t, "cancel") \/ Goto(t, "market"))
          => NoSync'
    BY <1>1
  <2> QED BY <1>4, <1>7, <2>1, <2>2, <2>3, <2>4, <2>5, <2>6 DEF Check
<1>8. ASSUME NEW t \in Task PROVE ~Monitor(t)
  <2>1. t = "pipeline" /\ pc[t] # "balance"
    BY OnlyOne DEF NoSync
  <2> QED BY <2>1 DEF Monitor, StartMonitor, BalanceDone, Answered, At
<1>9. \A t \in Task : ~Rebalance(t)
  BY RebalancePlaces
<1>10. (UNCHANGED vars \/ UNCHANGED Client) => NoSync'
  BY <1>2 DEF vars, Client
<1>11. ASSUME NEW t \in Task, Serve(t) PROVE UNCHANGED Client
  BY <1>11 DEF Serve, XPlaceOpen, XPlaceFilled, XReject, XFail, XCancelPair, XSweepCancel,
               XCancel, XQuery, XPending, XBalance
<1>12. ASSUME NEW x \in Xid, NEW q \in 1..Left(x), Fill(x, q) PROVE UNCHANGED Client
  BY <1>12 DEF Fill
<1> QED BY <1>3, <1>6, <1>7, <1>8, <1>9, <1>10, <1>11, <1>12 DEF Next

LEMMA NextBooks ==
  ASSUME PollsAnswered, PipelineOnly, TypeOK, TypeOK', References, Places, NoSync, Books,
         [Next]_vars
  PROVE  Books'
<1>1. CASE UNCHANGED vars
  <2>1. UNCHANGED <<order, active, toRemove, pos, pc, frame, reply, placed, xord>>
    BY <1>1 DEF vars, decisions, book, check, exchange
  <2>2. Unbooked' = Unbooked
    BY <2>1 DEF Unbooked, Tracked, Told
  <2>3. SameFills
    BY <2>1 DEF SameFills
  <2>4. Balanced'
    BY <2>1, <2>2, <2>3, FillsLast, BalancedKept DEF Books
  <2>5. Answers'
    BY <2>1 DEF Books, Answers, Told
  <2> QED BY <2>4, <2>5 DEF Books
<1>2. \A t \in Task : ~Rebalance(t)
  BY RebalancePlaces
<1>3. ASSUME NEW t \in Task PROVE ~Monitor(t)
  <2>1. t = "pipeline" /\ pc[t] # "balance"
    BY OnlyOne DEF NoSync
  <2> QED BY <2>1 DEF Monitor, StartMonitor, BalanceDone, Answered, At
<1> QED BY <1>1, <1>2, <1>3, BooksRisk, BooksDrain, BooksCheck, BooksServe, BooksTrade
        DEF Next

(* No fill is booked twice: as long as one job drains the queue, its polls *)
(* are answered and no balances are synced, the book shows no more than    *)
(* was held at the start and bought since, and no less than what was not   *)
(* sold.                                                                   *)
THEOREM BookedOnce ==
  ASSUME PollsAnswered, PipelineOnly
  PROVE  Spec => []FillsBookedOnce
<1> DEFINE IInv == TypeOK /\ References /\ ActiveBound /\ Places /\ NoSync /\ Books
<1>1. Init => IInv
  <2>1. Init => NoSync
    BY DEF Init, NoSync
  <2> QED BY <2>1, InitType, InitReferences, InitBound, InitPlaces, InitBooks
<1>2. IInv /\ [Next]_vars => IInv'
  BY NextType, NextSafe, NextPlaces, NextNoSync, NextBooks DEF PlacesKept
<1>3. ASSUME TypeOK, Books PROVE FillsBookedOnce
  <2>1. ASSUME NEW a \in Asset, NEW side
        PROVE  /\ Amount(Booked(a, side)) \in Nat /\ Traded(a, side) \in Nat
               /\ Amount(Booked(a, side)) <= Traded(a, side)
    <3> DEFINE S == Booked(a, side)
               R == {x \in Xid : xord[x].status # "none" /\ AssetOf(x) = a /\ SideOf(x) = side}
               f == Amounts
    <3>1. S \in SUBSET R /\ S \in SUBSET Xid /\ R \in SUBSET Xid
      BY DEF Booked
    <3>2. IsFiniteSet(R) /\ \A x \in R : f[x] \in Nat /\ f[x] <= f[x]
      BY <1>3, <3>1, AmountsNat
    <3>3. SumFunctionOnSet(f, R) = Traded(a, side)
      BY DEF Traded, Amounts
    <3>4. SumFunctionOnSet(f, R) \in Nat /\ SumFunctionOnSet(f, S) \in Nat
      BY <1>3, <3>1, AmountsNat DEF Amount
    <3> HIDE DEF S, R, f
    <3>5. SumFunctionOnSet(f, S) <= SumFunctionOnSet(f, R)
      BY <3>1, <3>2, SumGrows
    <3> QED BY <3>3, <3>4, <3>5 DEF S, f, Amount
  <2> SUFFICES ASSUME NEW a \in Asset
               PROVE  pos[a] \in (InitPos - Traded(a, "SELL"))..(InitPos + Traded(a, "BUY"))
    BY DEF FillsBookedOnce
  <2> DEFINE lo == Amount(Booked(a, "SELL"))
             hi == Amount(Booked(a, "BUY"))
             lo2 == Traded(a, "SELL")
             hi2 == Traded(a, "BUY")
  <2>2. pos[a] \in (InitPos - lo)..(InitPos + hi) /\ pos[a] \in Int
    BY <1>3 DEF Books, Balanced, TypeOK
  <2>3. lo \in Nat /\ hi \in Nat /\ lo2 \in Nat /\ hi2 \in Nat /\ lo <= lo2 /\ hi <= hi2
    BY <2>1
  <2> HIDE DEF lo, hi, lo2, hi2
  <2>4. pos[a] \in (InitPos - lo2)..(InitPos + hi2)
    BY <2>2, <2>3
  <2> QED BY <2>4 DEF lo2, hi2
<1> QED BY <1>1, <1>2, <1>3, PTL DEF Spec

=============================================================================
