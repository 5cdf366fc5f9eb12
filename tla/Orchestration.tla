----------------------------- MODULE Orchestration -----------------------------
(***************************************************************************)
(* The scheduler's jobs and the safe state: Scheduler                      *)
(* (src/orchestration/scheduler.py), SystemState                           *)
(* (src/orchestration/safe_state.py) and what the ticks of src/main.py do  *)
(* about them.  A job runs, awaits and ends or raises; only a rebalance    *)
(* asks whether it may start, and the entries it queued are drained by     *)
(* itself and by the pipeline.                                             *)
(***************************************************************************)
EXTENDS Integers, FiniteSets

CONSTANTS
  Job,          \* names given to schedule_job
  MaxFailures,  \* max_consecutive_failures
  MaxEntries    \* bound on the entries a rebalance leaves in the queue

Pipeline  == "main_pipeline"
Rebalance == "rebalance"
DataJob   == "data_ingestion"   \* the names the safe state knows
RiskJob   == "risk_check"

ASSUME OrchestrationAssumption ==
  /\ {Pipeline, Rebalance} \subseteq Job
  /\ MaxFailures \in Nat \ {0} /\ MaxEntries \in Nat

VARIABLES
  phase,     \* what each job is awaiting: its sleep, its first call, the drain
  failing,   \* JobStatus.is_failing
  failures,  \* JobStatus.consecutive_failures
  safe,      \* is_global_safe_mode
  stale,     \* is_stale_data
  entries    \* entry orders in the queue

status == <<failing, failures>>
system == <<safe, stale>>
vars == <<phase, status, system, entries>>

(* The variables hold values of their types.                               *)
TypeOK ==
  /\ phase \in [Job -> {"asleep", "calling", "draining"}]
  /\ failing \in [Job -> BOOLEAN] /\ failures \in [Job -> 0..MaxFailures + 1]
  /\ safe \in BOOLEAN /\ stale \in BOOLEAN
  /\ entries \in 0..MaxEntries

-----------------------------------------------------------------------------
(* SystemState.                                                            *)

ReportSuccess(j) ==
  /\ failing'  = [failing EXCEPT ![j] = FALSE]
  /\ failures' = [failures EXCEPT ![j] = IF failing[j] THEN 0 ELSE @]
  /\ UNCHANGED system

Trips(j) == j = RiskJob \/ failures'[j] >= MaxFailures

\* (bound: the count stops one above the threshold, which nothing tells from more)
ReportFailure(j) ==
  /\ failing'  = [failing EXCEPT ![j] = TRUE]
  /\ failures' = [failures EXCEPT ![j] = IF @ > MaxFailures THEN @ ELSE @ + 1]
  /\ stale' = (stale \/ j = DataJob)
  /\ safe'  = (safe \/ Trips(j))

\* mutants: a failing rebalance may run; safe mode is not looked at
CanRebalanceFailing == ~safe /\ ~stale
CanRebalanceUnsafe  == ~stale /\ ~failing[Rebalance]

CanRebalance == ~safe /\ ~stale /\ ~failing[Rebalance]

-----------------------------------------------------------------------------
(* The scheduler's loop: one task per name, so a job never overlaps itself.*)

Goto(j, p) == phase' = [phase EXCEPT ![j] = p]

Begin(j) ==
  /\ phase[j] = "asleep"
  /\ j = Rebalance => CanRebalance
  /\ Goto(j, "calling")
  /\ UNCHANGED <<status, system, entries>>

\* mutant: a skipped rebalance is not reported
SkipSilently ==
  /\ phase[Rebalance] = "asleep" /\ ~CanRebalance
  /\ UNCHANGED vars

\* rebalance_tick returns at its first test, which the scheduler takes for a
\* success
Skip ==
  /\ phase[Rebalance] = "asleep" /\ ~CanRebalance
  /\ ReportSuccess(Rebalance)
  /\ UNCHANGED <<phase, entries>>

\* a failed fetch makes data_ingestion_tick return, and the pipeline goes on
Drain(j) ==
  /\ phase[j] = "calling" /\ j \in {Pipeline, Rebalance}
  /\ Goto(j, "draining")
  /\ entries' \in (IF j = Rebalance THEN entries..MaxEntries ELSE {entries})
  /\ UNCHANGED <<status, system>>

\* process_queue sends an entry to the exchange, whoever queued it
Enter(j) ==
  /\ phase[j] = "draining" /\ entries > 0
  /\ entries' = entries - 1
  /\ UNCHANGED <<phase, status, system>>

\* the queue is empty or the cap is reached
Succeed(j) ==
  /\ phase[j] = IF j \in {Pipeline, Rebalance} THEN "draining" ELSE "calling"
  /\ Goto(j, "asleep")
  /\ ReportSuccess(j)
  /\ UNCHANGED entries

\* any exception but CancelledError
Raise(j) ==
  /\ phase[j] # "asleep"
  /\ Goto(j, "asleep")
  /\ ReportFailure(j)
  /\ UNCHANGED entries

-----------------------------------------------------------------------------
\* register_job, in a new process; the rebalance at startup, before any job is
\* scheduled, may have left entries in the queue
Init ==
  /\ phase = [j \in Job |-> "asleep"]
  /\ failing = [j \in Job |-> FALSE] /\ failures = [j \in Job |-> 0]
  /\ safe = FALSE /\ stale = FALSE
  /\ entries \in 0..MaxEntries

Next ==
  \/ Skip
  \/ \E j \in Job : Begin(j) \/ Drain(j) \/ Enter(j) \/ Succeed(j) \/ Raise(j)

Spec == Init /\ [][Next]_vars

(* A job that is asleep wakes up, and one that awaits a call ends: the     *)
(* scheduler loops for ever and aiohttp gives up after 10 s.               *)
Fairness ==
  /\ WF_vars(Skip)
  /\ \A j \in Job : WF_vars(Begin(j)) /\ WF_vars(Drain(j) \/ Succeed(j) \/ Raise(j))

FairSpec == Spec /\ Fairness

-----------------------------------------------------------------------------
(* Safe mode is entered at the threshold and not before or after: outside  *)
(* it no job has failed that often in a row, and a job is failing exactly  *)
(* when it has failed since its last success.                              *)
Threshold ==
  \A j \in Job : /\ ~safe => failures[j] < MaxFailures
                 /\ failing[j] <=> failures[j] > 0

(* A rebalance that fails every time never trips the safe mode: the tick   *)
(* after a failure is skipped, and skipping counts as a success.           *)
RebalanceNeverTrips == failures[Rebalance] <= 1

(* A failed rebalance does not block rebalancing for good, although it is  *)
(* its own failure that keeps it from running and clearing it.             *)
RebalanceUnblocked == failing[Rebalance] ~> ~failing[Rebalance]

(* In safe mode a rebalance under way ends and none follows.               *)
SafeModeSettles == safe ~> [](phase[Rebalance] = "asleep")
=============================================================================
