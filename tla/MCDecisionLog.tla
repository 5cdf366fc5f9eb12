----------------------------- MODULE MCDecisionLog -----------------------------
(* DecisionLog with a buffer of two entries.                               *)
EXTENDS DecisionLog
=============================================================================
