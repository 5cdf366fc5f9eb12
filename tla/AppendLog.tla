------------------------------- MODULE AppendLog -------------------------------
(***************************************************************************)
(* What a buffered log of decisions promises: an entry is accepted once,   *)
(* waits in memory, and becomes durable; what is durable stays durable.    *)
(* An entry that waits is only ever lost when the process ends or after a  *)
(* write was interrupted.                                                  *)
(***************************************************************************)
EXTENDS Naturals

CONSTANT Entry
VARIABLES pending, durable, broken
vars == <<pending, durable, broken>>

Init == pending = {} /\ durable = {} /\ broken = FALSE

Accept(e) ==
  /\ e \notin pending \cup durable
  /\ pending' = pending \cup {e}
  /\ UNCHANGED <<durable, broken>>

Commit(e) ==
  /\ e \in pending
  /\ pending' = pending \ {e} /\ durable' = durable \cup {e}
  /\ UNCHANGED broken

Interrupt == broken' = TRUE /\ UNCHANGED <<pending, durable>>

\* the process ends, or a line was spoiled by the remains of another
Lose ==
  /\ broken
  /\ \E lost \in SUBSET pending : pending' = pending \ lost
  /\ UNCHANGED <<durable, broken>>

Die == pending' = {} /\ broken' = TRUE /\ UNCHANGED durable

Next == (\E e \in Entry : Accept(e) \/ Commit(e)) \/ Interrupt \/ Lose \/ Die

Spec == Init /\ [][Next]_vars
=============================================================================
