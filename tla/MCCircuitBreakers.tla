-------------------------- MODULE MCCircuitBreakers --------------------------
(* PerformanceLog and the CircuitBreakers it extends, with the limits of   *)
(* config.yaml, values of the portfolio on both sides of each limit, and a *)
(* clock that crosses cooldowns and midnights.                             *)
EXTENDS PerformanceLog
=============================================================================
