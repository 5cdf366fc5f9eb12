-------------------------- MODULE OrchestrationProofs --------------------------
(***************************************************************************)
(* The safe state keeps its accounts, and a failing rebalance never trips  *)
(* it, for any jobs and threshold.  Each action is sorted into what it     *)
(* does to the accounts: a success, a failure, or nothing.                 *)
(***************************************************************************)
EXTENDS Orchestration, TLAPS

\* a rebalance that runs has not failed since its last success
RunsHealthy == phase[Rebalance] # "asleep" => ~failing[Rebalance]

IInv == TypeOK /\ Threshold /\ RunsHealthy /\ RebalanceNeverTrips

LEMMA Names == Pipeline \in Job /\ Rebalance \in Job
  BY OrchestrationAssumption

LEMMA InitHolds == Init => IInv
<1> SUFFICES ASSUME Init PROVE IInv
  OBVIOUS
<1>1. TypeOK
  <2>1. 0 \in 0..(MaxFailures + 1) /\ 0 \in 0..MaxEntries
    BY OrchestrationAssumption
  <2>2. phase \in [Job -> {"asleep", "calling", "draining"}]
    BY DEF Init
  <2>3. failing \in [Job -> BOOLEAN]
    BY DEF Init
  <2>4. failures \in [Job -> 0..(MaxFailures + 1)]
    BY <2>1 DEF Init
  <2> QED BY <2>1, <2>2, <2>3, <2>4 DEF Init, TypeOK
<1>2. \A j \in Job : failures[j] = 0 /\ ~failing[j]
  BY DEF Init
<1> QED BY <1>1, <1>2, Names, OrchestrationAssumption
        DEF IInv, Threshold, RunsHealthy, RebalanceNeverTrips

(* A success leaves the accounts in order.                                 *)
LEMMA SuccessAccounts ==
  ASSUME TypeOK, Threshold, NEW j \in Job, ReportSuccess(j)
  PROVE  /\ failing' \in [Job -> BOOLEAN] /\ failures' \in [Job -> 0..MaxFailures + 1]
         /\ safe' \in BOOLEAN /\ stale' \in BOOLEAN
         /\ Threshold'
         /\ ~failing'[j] /\ failures'[j] = 0
         /\ \A k \in Job : k # j => failing'[k] = failing[k] /\ failures'[k] = failures[k]
  BY OrchestrationAssumption DEF TypeOK, Threshold, ReportSuccess, system

(* A failure leaves the accounts in order.                                 *)
LEMMA FailureAccounts ==
  ASSUME TypeOK, Threshold, NEW j \in Job, ReportFailure(j)
  PROVE  /\ failing' \in [Job -> BOOLEAN] /\ failures' \in [Job -> 0..MaxFailures + 1]
         /\ safe' \in BOOLEAN /\ stale' \in BOOLEAN
         /\ Threshold'
         /\ ~failing[j] => failures'[j] = 1
         /\ \A k \in Job : k # j => failing'[k] = failing[k] /\ failures'[k] = failures[k]
<1>1. /\ failing' = [failing EXCEPT ![j] = TRUE]
      /\ failures' = [failures EXCEPT ![j] = IF @ > MaxFailures THEN @ ELSE @ + 1]
      /\ stale' = (stale \/ j = DataJob) /\ safe' = (safe \/ Trips(j))
  BY DEF ReportFailure
<1>2. failures' \in [Job -> 0..MaxFailures + 1]
  BY <1>1, OrchestrationAssumption DEF TypeOK
<1>3. failing' \in [Job -> BOOLEAN] /\ safe' \in BOOLEAN /\ stale' \in BOOLEAN
  BY <1>1 DEF TypeOK, Trips
<1>4. ASSUME NEW k \in Job, ~safe' PROVE failures'[k] < MaxFailures
  <2>1. ~safe /\ ~Trips(j)
    BY <1>1, <1>4
  <2>2. CASE k = j
    <3>1. failures'[j] \in Nat /\ MaxFailures \in Nat /\ ~(failures'[j] >= MaxFailures)
      BY <1>2, <2>1, OrchestrationAssumption DEF Trips
    <3> QED BY <2>2, <3>1
  <2>3. CASE k # j
    BY <1>1, <2>1, <2>3 DEF TypeOK, Threshold
  <2> QED BY <2>2, <2>3
<1>5. ASSUME NEW k \in Job PROVE failing'[k] <=> failures'[k] > 0
  BY <1>1, OrchestrationAssumption DEF TypeOK, Threshold
<1>6. ~failing[j] => failures'[j] = 1
  BY <1>1, OrchestrationAssumption DEF TypeOK, Threshold
<1> QED BY <1>1, <1>2, <1>3, <1>4, <1>5, <1>6 DEF TypeOK, Threshold

LEMMA NextHolds == IInv /\ [Next]_vars => IInv'
<1> SUFFICES ASSUME IInv, [Next]_vars PROVE IInv'
  OBVIOUS
<1> USE Names
<1>1. CASE Skip
  <2>1. ReportSuccess(Rebalance) /\ UNCHANGED <<phase, entries>>
    BY <1>1 DEF Skip
  <2> QED BY <2>1, SuccessAccounts DEF IInv, TypeOK, RunsHealthy, RebalanceNeverTrips
<1>2. ASSUME NEW j \in Job, Begin(j) PROVE IInv'
  <2>1. /\ phase' = [phase EXCEPT ![j] = "calling"]
        /\ j = Rebalance => ~failing[Rebalance]
        /\ UNCHANGED <<failing, failures, safe, stale, entries>>
    BY <1>2 DEF Begin, Goto, CanRebalance, status, system
  <2> QED BY <2>1 DEF IInv, TypeOK, Threshold, RunsHealthy, RebalanceNeverTrips
<1>3. ASSUME NEW j \in Job, Drain(j) PROVE IInv'
  <2>1. /\ phase[j] = "calling" /\ phase' = [phase EXCEPT ![j] = "draining"]
        /\ entries' \in (IF j = Rebalance THEN entries..MaxEntries ELSE {entries})
        /\ UNCHANGED <<failing, failures, safe, stale>>
    BY <1>3 DEF Drain, Goto, status, system
  <2>2. entries' \in 0..MaxEntries
    BY <2>1, OrchestrationAssumption DEF IInv, TypeOK
  <2> QED BY <2>1, <2>2 DEF IInv, TypeOK, Threshold, RunsHealthy, RebalanceNeverTrips
<1>4. ASSUME NEW j \in Job, Enter(j) PROVE IInv'
  <2>1. entries > 0 /\ entries' = entries - 1
        /\ UNCHANGED <<phase, failing, failures, safe, stale>>
    BY <1>4 DEF Enter, status, system
  <2>2. entries' \in 0..MaxEntries
    BY <2>1, OrchestrationAssumption DEF IInv, TypeOK
  <2> QED BY <2>1, <2>2 DEF IInv, TypeOK, Threshold, RunsHealthy, RebalanceNeverTrips
<1>5. ASSUME NEW j \in Job, Succeed(j) PROVE IInv'
  <2>1. /\ phase' = [phase EXCEPT ![j] = "asleep"]
        /\ ReportSuccess(j) /\ UNCHANGED entries
    BY <1>5 DEF Succeed, Goto
  <2> QED BY <2>1, SuccessAccounts DEF IInv, TypeOK, RunsHealthy, RebalanceNeverTrips
<1>6. ASSUME NEW j \in Job, Raise(j) PROVE IInv'
  <2>1. /\ phase[j] # "asleep" /\ phase' = [phase EXCEPT ![j] = "asleep"]
        /\ ReportFailure(j) /\ UNCHANGED entries
    BY <1>6 DEF Raise, Goto
  <2>2. TypeOK' /\ Threshold'
    BY <2>1, FailureAccounts DEF IInv, TypeOK
  <2>3. CASE j = Rebalance
    <3>1. ~failing[Rebalance]
      BY <2>1, <2>3 DEF IInv, RunsHealthy
    <3>2. failures'[Rebalance] = 1 /\ phase'[Rebalance] = "asleep"
      BY <2>1, <2>3, <3>1, FailureAccounts DEF IInv, TypeOK
    <3> QED BY <2>2, <3>2 DEF IInv, RunsHealthy, RebalanceNeverTrips
  <2>4. CASE j # Rebalance
    <3>1. /\ failing'[Rebalance] = failing[Rebalance]
          /\ failures'[Rebalance] = failures[Rebalance]
          /\ phase'[Rebalance] = phase[Rebalance]
      BY <2>1, <2>4, FailureAccounts DEF IInv, TypeOK
    <3> QED BY <2>2, <3>1 DEF IInv, RunsHealthy, RebalanceNeverTrips
  <2> QED BY <2>3, <2>4
<1>7. CASE UNCHANGED vars
  <2>1. UNCHANGED <<phase, failing, failures, safe, stale, entries>>
    BY <1>7 DEF vars, status, system
  <2> QED BY <2>1 DEF IInv, TypeOK, Threshold, RunsHealthy, RebalanceNeverTrips
<1> QED BY <1>1, <1>2, <1>3, <1>4, <1>5, <1>6, <1>7 DEF Next

(* Every variable of the safe state and the scheduler keeps its type.      *)
THEOREM SystemTypes == Spec => []TypeOK
<1>1. IInv => TypeOK
  BY DEF IInv
<1> QED BY <1>1, InitHolds, NextHolds, PTL DEF Spec

(* Safe mode is entered exactly at the threshold, and the failing flags    *)
(* agree with the counts, whatever the jobs and their outcomes.            *)
THEOREM SafeAtThreshold == Spec => []Threshold
<1>1. IInv => Threshold
  BY DEF IInv
<1> QED BY <1>1, InitHolds, NextHolds, PTL DEF Spec

(* The rebalance never fails twice in a row as the safe state counts, so   *)
(* that with a threshold above one it never trips the safe mode.           *)
THEOREM RebalanceUncounted == Spec => []RebalanceNeverTrips
<1>1. IInv => RebalanceNeverTrips
  BY DEF IInv
<1> QED BY <1>1, InitHolds, NextHolds, PTL DEF Spec
=============================================================================
