----------------------------- MODULE MCExecution -----------------------------
(* Execution at small sizes.  The configurations give the constants.       *)
EXTENDS ExecutionProperties
=============================================================================
