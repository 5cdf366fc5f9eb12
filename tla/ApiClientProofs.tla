---------------------------- MODULE ApiClientProofs -----------------------------
(***************************************************************************)
(* The limiter's promises, for every set of jobs, bucket and reserve.  A   *)
(* job that sleeps has not taken its token yet, and takes it there or not. *)
(* The argument: whatever the bucket lacks, the sleeps are long enough for *)
(* its refill to make up for it (Backed), so that at most the jobs         *)
(* themselves overdraw it, and what the exchange has seen is what the      *)
(* bucket has lost (Balanced).                                             *)
(***************************************************************************)
EXTENDS ApiClient, FiniteSetTheorems, TLAPS

N == Cardinality(Task)

Asleep(k) == {t \in Task : calls[t].at = "waiting" /\ calls[t].wait <= k}

(* After k refills the tokens suffice for the jobs awake by then, up to    *)
(* one token for each job.                                                 *)
Backed == \A k \in Nat : Cardinality(Asleep(k)) < tokens + k + N

Balanced == load + tokens <= Limit

ClientInv == TypeOK /\ Backed /\ Balanced /\ DelayBounded

LEMMA Jobs ==
  /\ N \in Nat /\ Limit \in Nat \ {0} /\ Reserve \in 0..Limit /\ Threshold \in Nat \ {0}
  /\ \A S \in SUBSET Task : IsFiniteSet(S) /\ Cardinality(S) \in Nat /\ Cardinality(S) <= N
<1>1. N \in Nat
  BY FS_CardinalityType, ApiAssumption DEF N
<1>2. ASSUME NEW S \in SUBSET Task
      PROVE  IsFiniteSet(S) /\ Cardinality(S) \in Nat /\ Cardinality(S) <= N
  <2>1. IsFiniteSet(S) /\ Cardinality(S) <= N
    BY FS_Subset, ApiAssumption DEF N
  <2> QED BY <2>1, FS_CardinalityType
<1> QED BY <1>1, <1>2, ApiAssumption

LEMMA Minimum == \A e : MinTokens(e) \in 0..Reserve /\ (e \in OrderEndpoints => MinTokens(e) = 0)
BY Jobs DEF MinTokens

LEMMA InitHolds == Init => ClientInv
<1> SUFFICES ASSUME Init PROVE ClientInv
  OBVIOUS
<1>1. /\ tokens = Limit /\ strikes = 0 /\ safeMode = FALSE /\ load = 0
      /\ \A t \in Task : calls[t] = Idle
      /\ calls = [t \in Task |-> Idle]
  BY DEF Init
<1>2. \A k \in Nat : Asleep(k) = {}
  BY <1>1 DEF Asleep, Idle
<1>3. Backed
  BY <1>1, <1>2, Jobs, FS_EmptySet DEF Backed
<1>4. TypeOK
  <2>1. Idle \in [at : {"idle", "waiting", "sent"}, endpoint : Endpoint \cup {"none"},
                  wait : 0..(Limit + N + 1)]
    BY Jobs DEF Idle
  <2>2. tokens \in -N..Limit /\ strikes \in 0..Threshold
    BY <1>1, Jobs
  <2> QED BY <1>1, <2>1, <2>2 DEF TypeOK, N
<1>5. DelayBounded
  BY <1>1, Jobs DEF DelayBounded, Idle, N
<1> QED BY <1>1, <1>3, <1>4, <1>5, Jobs DEF ClientInv, Balanced

(* A job that sends is no longer asleep.                                   *)
LEMMA SendKeeps ==
  ASSUME ClientInv, NEW t \in Task, NEW e \in Endpoint \cup {"none"}, Send(t, e),
         \/ tokens > 0 /\ calls[t].at = "idle"
         \/ calls[t].at = "waiting" /\ calls[t].wait = 0
  PROVE  ClientInv'
<1>0. TypeOK /\ Backed /\ Balanced /\ DelayBounded
  BY DEF ClientInv
<1>1. /\ tokens \in -N..Limit /\ load \in Nat
      /\ calls \in [Task -> [at : {"idle", "waiting", "sent"}, endpoint : Endpoint \cup {"none"},
                             wait : 0..(Limit + N + 1)]]
  BY <1>0 DEF TypeOK, N
<1>2. /\ calls' = [calls EXCEPT ![t] = [at |-> "sent", endpoint |-> e, wait |-> 0]]
      /\ tokens' = tokens - 1 /\ load' = load + 1
      /\ strikes' = strikes /\ safeMode' = safeMode
  BY DEF Send
<1>3. ASSUME NEW k \in Nat PROVE Cardinality(Asleep(k)') < tokens' + k + N
  <2>1. Asleep(k)' = Asleep(k) \ {t} /\ Asleep(k) \in SUBSET Task /\ Asleep(k)' \in SUBSET Task
    BY <1>1, <1>2 DEF Asleep
  <2>2. IsFiniteSet(Asleep(k)) /\ Cardinality(Asleep(k)) \in Nat /\ Cardinality(Asleep(k)) < tokens + k + N
    BY <1>0, <2>1, Jobs DEF Backed
  <2>3. Cardinality(Asleep(k)') = IF t \in Asleep(k) THEN Cardinality(Asleep(k)) - 1
                                  ELSE Cardinality(Asleep(k))
    BY <2>1, <2>2, FS_RemoveElement
  <2>4. CASE calls[t].at = "waiting" /\ calls[t].wait = 0
    <3>1. t \in Asleep(k)
      BY <2>4 DEF Asleep
    <3> QED BY <1>1, <1>2, <2>2, <2>3, <3>1, Jobs
  <2>5. CASE tokens > 0 /\ calls[t].at = "idle"
    <3>1. Asleep(k)' \in SUBSET (Task \ {t})
      BY <1>1, <2>1 DEF Asleep
    <3>2. IsFiniteSet(Task \ {t}) /\ Cardinality(Task \ {t}) = N - 1
      BY FS_RemoveElement, ApiAssumption DEF N
    <3>3. Cardinality(Asleep(k)') <= N - 1 /\ Cardinality(Asleep(k)') \in Nat
      BY <2>1, <3>1, <3>2, FS_Subset, Jobs
    <3> QED BY <1>1, <1>2, <2>5, <3>3, Jobs
  <2> QED BY <2>4, <2>5
<1>4. Backed'
  BY <1>3 DEF Backed
<1>5. tokens' >= -N
  <2>1. Cardinality(Asleep(0)') \in Nat /\ Cardinality(Asleep(0)') < tokens' + 0 + N
    <3>1. Asleep(0)' \in SUBSET Task
      BY DEF Asleep
    <3> QED BY <1>3, <3>1, Jobs
  <2> QED BY <2>1, <1>1, <1>2, Jobs
<1>6. TypeOK'
  <2>1. tokens' \in -N..Limit /\ load' \in Nat
    BY <1>1, <1>2, <1>5, Jobs
  <2>2. calls' \in [Task -> [at : {"idle", "waiting", "sent"}, endpoint : Endpoint \cup {"none"},
                             wait : 0..(Limit + N + 1)]]
    BY <1>1, <1>2, Jobs
  <2> QED BY <1>0, <1>2, <2>1, <2>2 DEF TypeOK, N
<1>7. Balanced'
  BY <1>0, <1>1, <1>2, Jobs DEF Balanced
<1>8. DelayBounded'
  <2> SUFFICES ASSUME NEW u \in Task
               PROVE  calls'[u].wait <= N + (IF calls'[u].endpoint \in OrderEndpoints THEN 0 ELSE Reserve)
    BY DEF DelayBounded, N
  <2>1. CASE u = t
    BY <1>1, <1>2, <2>1, Jobs
  <2>2. CASE u # t
    BY <1>0, <1>1, <1>2, <2>2 DEF DelayBounded, N
  <2> QED BY <2>1, <2>2
<1> QED BY <1>4, <1>6, <1>7, <1>8 DEF ClientInv

(* A job that goes to sleep sleeps until the refill has made up for what   *)
(* the bucket lacked at the time.                                          *)
LEMMA RequestKeeps ==
  ASSUME ClientInv, NEW t \in Task, Request(t)
  PROVE  ClientInv'
<1>0. TypeOK /\ Backed /\ Balanced /\ DelayBounded
  BY DEF ClientInv
<1>1. /\ tokens \in -N..Limit /\ load \in Nat
      /\ calls \in [Task -> [at : {"idle", "waiting", "sent"}, endpoint : Endpoint \cup {"none"},
                             wait : 0..(Limit + N + 1)]]
  BY <1>0 DEF TypeOK, N
<1>2. calls[t].at = "idle"
  BY DEF Request
<1>3. PICK e \in Endpoint :
        \/ tokens > MinTokens(e) /\ Send(t, e)
        \/ /\ tokens <= MinTokens(e)
           /\ calls' = [calls EXCEPT ![t] = [at |-> "waiting", endpoint |-> e,
                                             wait |-> 1 - (tokens - MinTokens(e))]]
           /\ UNCHANGED <<tokens, strikes, safeMode, load>>
  BY DEF Request
<1>4. CASE tokens > MinTokens(e) /\ Send(t, e)
  <2>1. tokens > 0
    BY <1>1, <1>4, Minimum, Jobs
  <2> QED BY <1>2, <1>4, <2>1, SendKeeps
<1>5. CASE /\ tokens <= MinTokens(e)
           /\ calls' = [calls EXCEPT ![t] = [at |-> "waiting", endpoint |-> e,
                                             wait |-> 1 - (tokens - MinTokens(e))]]
           /\ UNCHANGED <<tokens, strikes, safeMode, load>>
  <2> DEFINE w == 1 - (tokens - MinTokens(e))
  <2>1. tokens > -N
    <3>1. Asleep(0) \in SUBSET Task
      BY DEF Asleep
    <3>2. Cardinality(Asleep(0)) \in Nat /\ Cardinality(Asleep(0)) < tokens + 0 + N
      BY <1>0, <3>1, Jobs DEF Backed
    <3> QED BY <1>1, <3>2, Jobs
  <2>2. /\ w \in 1..(N + Reserve) /\ w + tokens >= 1
        /\ e \in OrderEndpoints => w <= N
    BY <1>1, <1>5, <2>1, Minimum, Jobs
  <2>3. /\ calls'[t] = [at |-> "waiting", endpoint |-> e, wait |-> w]
        /\ \A u \in Task \ {t} : calls'[u] = calls[u]
        /\ tokens' = tokens /\ load' = load /\ strikes' = strikes /\ safeMode' = safeMode
    BY <1>1, <1>5
  <2>3a. calls' = [calls EXCEPT ![t] = [at |-> "waiting", endpoint |-> e, wait |-> w]]
    BY <1>5
  <2> HIDE DEF w
  <2>4. ASSUME NEW k \in Nat PROVE Cardinality(Asleep(k)') < tokens' + k + N
    <3>0. Asleep(k) \in SUBSET Task /\ Asleep(k)' \in SUBSET Task
      BY DEF Asleep
    <3>1. CASE w <= k
      <4>1. Cardinality(Asleep(k)') \in Nat /\ Cardinality(Asleep(k)') <= N
        BY <3>0, Jobs
      <4> QED BY <1>1, <2>2, <2>3, <3>1, <4>1, Jobs
    <3>2. CASE ~(w <= k)
      <4>1. Asleep(k)' = Asleep(k)
        BY <1>2, <2>3, <3>2 DEF Asleep
      <4> QED BY <1>0, <2>3, <4>1 DEF Backed
    <3> QED BY <3>1, <3>2
  <2>5. Backed'
    BY <2>4 DEF Backed
  <2>6. TypeOK'
    <3>1. w \in 0..(Limit + N + 1)
      BY <2>2, Jobs
    <3>2. calls' \in [Task -> [at : {"idle", "waiting", "sent"}, endpoint : Endpoint \cup {"none"},
                               wait : 0..(Limit + N + 1)]]
      BY <1>1, <2>3a, <3>1
    <3> QED BY <1>0, <2>3, <3>2 DEF TypeOK, N
  <2>7. Balanced'
    BY <1>0, <2>3 DEF Balanced
  <2>8. DelayBounded'
    <3> SUFFICES ASSUME NEW u \in Task
                 PROVE  calls'[u].wait <= N + (IF calls'[u].endpoint \in OrderEndpoints THEN 0 ELSE Reserve)
      BY DEF DelayBounded, N
    <3>1. CASE u = t
      BY <2>2, <2>3, <3>1, Jobs
    <3>2. CASE u # t
      BY <1>0, <2>3, <3>2 DEF DelayBounded, N
    <3> QED BY <3>1, <3>2
  <2> QED BY <2>5, <2>6, <2>7, <2>8 DEF ClientInv
<1> QED BY <1>3, <1>4, <1>5

(* A refill is one step of every sleep.                                    *)
LEMMA ElapseKeeps == ASSUME ClientInv, Elapse PROVE ClientInv'
<1>0. TypeOK /\ Backed /\ Balanced /\ DelayBounded
  BY DEF ClientInv
<1>1. /\ tokens \in -N..Limit /\ load \in Nat
      /\ calls \in [Task -> [at : {"idle", "waiting", "sent"}, endpoint : Endpoint \cup {"none"},
                             wait : 0..(Limit + N + 1)]]
  BY <1>0 DEF TypeOK, N
<1>2. /\ tokens' = IF Limit < tokens + 1 THEN Limit ELSE tokens + 1
      /\ load' = IF 0 < load - 1 THEN load - 1 ELSE 0
      /\ calls' = [t \in Task |-> [calls[t] EXCEPT !.wait = Larger(0, @ - 1)]]
      /\ strikes' = strikes /\ safeMode' = safeMode
  BY <1>1, Jobs DEF Elapse, Refill, Smaller, Larger
<1>3. \A t \in Task : /\ calls'[t].at = calls[t].at /\ calls'[t].endpoint = calls[t].endpoint
                      /\ calls[t].wait \in 0..(Limit + N + 1)
                      /\ calls'[t].wait = IF calls[t].wait = 0 THEN 0 ELSE calls[t].wait - 1
  <2> SUFFICES ASSUME NEW t \in Task
               PROVE  /\ calls'[t].at = calls[t].at /\ calls'[t].endpoint = calls[t].endpoint
                      /\ calls[t].wait \in 0..(Limit + N + 1)
                      /\ calls'[t].wait = IF calls[t].wait = 0 THEN 0 ELSE calls[t].wait - 1
    OBVIOUS
  <2>1. calls[t] \in [at : {"idle", "waiting", "sent"}, endpoint : Endpoint \cup {"none"},
                      wait : 0..(Limit + N + 1)]
    BY <1>1
  <2>2. calls'[t] = [calls[t] EXCEPT !.wait = Larger(0, calls[t].wait - 1)]
    BY <1>2
  <2>3. /\ calls'[t].at = calls[t].at /\ calls'[t].endpoint = calls[t].endpoint
        /\ calls'[t].wait = Larger(0, calls[t].wait - 1)
    BY <2>1, <2>2
  <2> QED BY <2>1, <2>3, Jobs DEF Larger
<1>4. ASSUME NEW k \in Nat PROVE Cardinality(Asleep(k)') < tokens' + k + N
  <2>1. Asleep(k)' = Asleep(k + 1)
    <3>1. \A t \in Task : calls'[t].wait <= k <=> calls[t].wait <= k + 1
      BY <1>3, Jobs
    <3> QED BY <1>3, <3>1 DEF Asleep
  <2>2. Asleep(k + 1) \in SUBSET Task
    BY DEF Asleep
  <2>3. Cardinality(Asleep(k + 1)) \in Nat /\ Cardinality(Asleep(k + 1)) <= N
    BY <2>2, Jobs
  <2>4. Cardinality(Asleep(k + 1)) < tokens + (k + 1) + N
    BY <1>0 DEF Backed
  <2>5. Cardinality(Asleep(k)') = Cardinality(Asleep(k + 1))
    BY <2>1
  <2>6. Cardinality(Asleep(k + 1)) < tokens' + k + N
    <3> DEFINE c == Cardinality(Asleep(k + 1))
    <3>1. c \in Nat /\ c <= N /\ c < tokens + (k + 1) + N
      BY <2>3, <2>4
    <3>2. tokens \in Int /\ tokens' = IF Limit < tokens + 1 THEN Limit ELSE tokens + 1
      BY <1>1, <1>2, Jobs
    <3> HIDE DEF c
    <3>3. N \in Nat /\ Limit \in Nat \ {0}
      BY Jobs
    <3>4. c < tokens' + k + N
      BY <3>1, <3>2, <3>3
    <3> QED BY <3>4 DEF c
  <2> QED BY <2>5, <2>6
<1>5. Backed'
  BY <1>4 DEF Backed
<1>6. TypeOK'
  <2>1. tokens' \in -N..Limit /\ load' \in Nat
    BY <1>1, <1>2, Jobs
  <2>2. calls' \in [Task -> [at : {"idle", "waiting", "sent"}, endpoint : Endpoint \cup {"none"},
                             wait : 0..(Limit + N + 1)]]
    <3> SUFFICES ASSUME NEW t \in Task
                 PROVE  [calls[t] EXCEPT !.wait = Larger(0, @ - 1)]
                          \in [at : {"idle", "waiting", "sent"}, endpoint : Endpoint \cup {"none"},
                               wait : 0..(Limit + N + 1)]
      BY <1>2
    <3>1. calls[t] \in [at : {"idle", "waiting", "sent"}, endpoint : Endpoint \cup {"none"},
                        wait : 0..(Limit + N + 1)]
      BY <1>1
    <3>2. Larger(0, calls[t].wait - 1) \in 0..(Limit + N + 1)
      BY <3>1, Jobs DEF Larger
    <3> QED BY <3>1, <3>2
  <2> QED BY <1>0, <1>2, <2>1, <2>2 DEF TypeOK, N
<1>7. Balanced'
  BY <1>0, <1>1, <1>2, Jobs DEF Balanced
<1>8. DelayBounded'
  <2> SUFFICES ASSUME NEW u \in Task
               PROVE  calls'[u].wait <= N + (IF calls'[u].endpoint \in OrderEndpoints THEN 0 ELSE Reserve)
    BY DEF DelayBounded, N
  <2>1. calls[u].wait <= N + (IF calls[u].endpoint \in OrderEndpoints THEN 0 ELSE Reserve)
    BY <1>0 DEF DelayBounded, N
  <2> QED BY <1>3, <2>1, Jobs
<1> QED BY <1>5, <1>6, <1>7, <1>8 DEF ClientInv

(* The answer of a call touches neither bucket nor sleeps.                 *)
LEMMA ReturnKeeps ==
  ASSUME ClientInv, NEW t \in Task, Return(t), strikes' \in 0..Threshold, safeMode' \in BOOLEAN
  PROVE  ClientInv'
<1>0. TypeOK /\ Backed /\ Balanced /\ DelayBounded
  BY DEF ClientInv
<1>1. calls \in [Task -> [at : {"idle", "waiting", "sent"}, endpoint : Endpoint \cup {"none"},
                          wait : 0..(Limit + N + 1)]]
  BY <1>0 DEF TypeOK, N
<1>2. /\ calls[t].at = "sent" /\ calls' = [calls EXCEPT ![t] = Idle]
      /\ tokens' = tokens /\ load' = load
  BY DEF Return
<1>3. \A k : Asleep(k)' = Asleep(k)
  BY <1>1, <1>2 DEF Asleep, Idle
<1>4. Backed'
  BY <1>0, <1>2, <1>3 DEF Backed
<1>5. TypeOK'
  <2>1. calls' \in [Task -> [at : {"idle", "waiting", "sent"}, endpoint : Endpoint \cup {"none"},
                             wait : 0..(Limit + N + 1)]]
    BY <1>1, <1>2, Jobs DEF Idle
  <2> QED BY <1>0, <1>2, <2>1 DEF TypeOK, N
<1>6. DelayBounded'
  <2> SUFFICES ASSUME NEW u \in Task
               PROVE  calls'[u].wait <= N + (IF calls'[u].endpoint \in OrderEndpoints THEN 0 ELSE Reserve)
    BY DEF DelayBounded, N
  <2>1. CASE u = t
    BY <1>1, <1>2, <2>1, Jobs DEF Idle
  <2>2. CASE u # t
    BY <1>0, <1>1, <1>2, <2>2 DEF DelayBounded, N
  <2> QED BY <2>1, <2>2
<1> QED BY <1>0, <1>2, <1>4, <1>5, <1>6 DEF ClientInv, Balanced

LEMMA StepKeeps == ASSUME ClientInv, Next PROVE ClientInv'
<1>0. /\ strikes \in 0..Threshold /\ safeMode \in BOOLEAN
      /\ \A t \in Task : calls[t].at = "waiting" => calls[t].endpoint \in Endpoint \cup {"none"}
  BY DEF ClientInv, TypeOK
<1>1. CASE Elapse
  BY <1>1, ElapseKeeps
<1>2. ASSUME NEW t \in Task, Request(t) PROVE ClientInv'
  BY <1>2, RequestKeeps
<1>3. ASSUME NEW t \in Task, Wake(t) PROVE ClientInv'
  <2>1. calls[t].at = "waiting" /\ calls[t].wait = 0 /\ Send(t, calls[t].endpoint)
    BY <1>3 DEF Wake
  <2> QED BY <2>1, SendKeeps, <1>0
<1>4. ASSUME NEW t \in Task, Reply429(t) PROVE ClientInv'
  <2>1. Return(t) /\ strikes' \in 0..Threshold
    BY <1>0, <1>4, Jobs DEF Reply429, Smaller
  <2>2. safeMode' \in BOOLEAN
    BY <1>0, <1>4 DEF Reply429
  <2> QED BY <2>1, <2>2, ReturnKeeps
<1>5. ASSUME NEW t \in Task, ReplyOther(t) PROVE ClientInv'
  <2>1. Return(t) /\ strikes' \in 0..Threshold /\ safeMode' \in BOOLEAN
    BY <1>0, <1>5, Jobs DEF ReplyOther
  <2> QED BY <2>1, ReturnKeeps
<1>6. ASSUME NEW t \in Task, NoReply(t) PROVE ClientInv'
  <2>1. Return(t) /\ strikes' \in 0..Threshold /\ safeMode' \in BOOLEAN
    BY <1>0, <1>6 DEF NoReply
  <2> QED BY <2>1, ReturnKeeps
<1> QED BY <1>1, <1>2, <1>3, <1>4, <1>5, <1>6 DEF Next

LEMMA StutterKeeps == ClientInv /\ UNCHANGED vars => ClientInv'
BY DEF ClientInv, TypeOK, Backed, Balanced, DelayBounded, Asleep, vars

LEMMA ClientInvariant == Spec => []ClientInv
<1>1. ClientInv /\ [Next]_vars => ClientInv'
  BY StepKeeps, StutterKeeps
<1> QED BY InitHolds, <1>1, PTL DEF Spec

(* Every variable of the limiter and its callers keeps its type: the       *)
(* balance stays above minus the number of jobs (acquire).                 *)
THEOREM ClientTypes == Spec => []TypeOK
<1>1. ClientInv => TypeOK
  BY DEF ClientInv
<1> QED BY ClientInvariant, <1>1, PTL

(* "calls_per_minute: Maximum API calls allowed per minute", overrun by    *)
(* less than one call for each job (RateLimiter.acquire).                  *)
THEOREM RateIsKept == Spec => []RateKept
<1>1. ASSUME ClientInv PROVE RateKept
  <2>1. Asleep(0) \in SUBSET Task
    BY DEF Asleep
  <2>2. Cardinality(Asleep(0)) \in Nat /\ Cardinality(Asleep(0)) < tokens + 0 + N
    BY <2>1, Jobs, <1>1 DEF ClientInv, Backed
  <2>3. tokens \in Int /\ load \in Nat /\ load + tokens <= Limit
    BY <1>1, Jobs DEF ClientInv, TypeOK, Balanced, N
  <2> QED BY <2>2, <2>3, Jobs DEF RateKept, N
<1> QED BY ClientInvariant, <1>1, PTL

(* The sleep of a call is bounded, that of an order call independently of  *)
(* the reserve (RateLimiter.acquire).                                      *)
THEOREM DelayIsBounded == Spec => []DelayBounded
<1>1. ClientInv => DelayBounded
  BY DEF ClientInv
<1> QED BY ClientInvariant, <1>1, PTL
=============================================================================
