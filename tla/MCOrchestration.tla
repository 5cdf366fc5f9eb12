---------------------------- MODULE MCOrchestration ----------------------------
(* Orchestration with the jobs main.py schedules.                          *)
EXTENDS Orchestration

ScheduledJobs == {Pipeline, "regime_update", Rebalance, "monitoring"}
=============================================================================
