------------------------------- MODULE ApiClient -------------------------------
(***************************************************************************)
(* RoostooClient (src/data/api_client.py) and the token bucket every call  *)
(* of it goes through (src/data/rate_limiter.py), used by the jobs at the  *)
(* same time.  The unit of time is the refill of one token, and calls      *)
(* start and end between two refills.  Execution models what the callers   *)
(* do with the outcome of a call.                                          *)
(***************************************************************************)
EXTENDS Integers, FiniteSets

CONSTANTS
  Task,        \* the jobs; each makes one call at a time
  Endpoint,    \* the endpoints they call
  Limit,       \* calls_per_minute, the size of the bucket
  Reserve,     \* reserve_headroom
  Threshold    \* safe_mode_threshold

DataEndpoints == {"/v3/serverTime", "/v3/exchangeInfo", "/v3/ticker"}
OrderEndpoints == {"/v3/balance", "/v3/pending_count", "/v3/place_order",
                   "/v3/query_order", "/v3/cancel_order"}

ASSUME ApiAssumption ==
  /\ IsFiniteSet(Task) /\ Endpoint \subseteq DataEndpoints \cup OrderEndpoints
  /\ Limit \in Nat \ {0} /\ Reserve \in 0..Limit /\ Threshold \in Nat \ {0}

VARIABLES
  tokens,      \* tokens of the bucket, as of now
  calls,       \* what each task is doing: [at, endpoint, wait]
  strikes,     \* consecutive_429s, up to Threshold
  safeMode,    \* safe_mode of the limiter, which nothing reads
  load         \* history: calls sent, draining at the rate of the limit

vars == <<tokens, calls, strikes, safeMode, load>>

Idle == [at |-> "idle", endpoint |-> "none", wait |-> 0]
Smaller(x, y) == IF x < y THEN x ELSE y
Larger(x, y) == IF x < y THEN y ELSE x

(* Types.                                                                  *)
TypeOK ==
  /\ tokens \in -Cardinality(Task)..Limit
  /\ calls \in [Task -> [at : {"idle", "waiting", "sent"}, endpoint : Endpoint \cup {"none"},
                         wait : 0..(Limit + Cardinality(Task) + 1)]]
  /\ strikes \in 0..Threshold /\ safeMode \in BOOLEAN
  /\ load \in Nat

Init == /\ tokens = Limit /\ calls = [t \in Task |-> Idle]
        /\ strikes = 0 /\ safeMode = FALSE /\ load = 0

-----------------------------------------------------------------------------

MinTokens(endpoint) == IF endpoint \in OrderEndpoints THEN 0 ELSE Reserve

\* the call leaves for the exchange
Send(t, endpoint) ==
  /\ calls' = [calls EXCEPT ![t] = [at |-> "sent", endpoint |-> endpoint, wait |-> 0]]
  /\ tokens' = tokens - 1
  /\ load' = load + 1
  /\ UNCHANGED <<strikes, safeMode>>

\* _request, up to the first await of acquire
Request(t) ==
  /\ calls[t].at = "idle"
  /\ \E e \in Endpoint :
       \/ tokens > MinTokens(e) /\ Send(t, e)
       \/ /\ tokens <= MinTokens(e)
          /\ calls' = [calls EXCEPT ![t] = [at |-> "waiting", endpoint |-> e,
                                            wait |-> 1 - (tokens - MinTokens(e))]]
          /\ UNCHANGED <<tokens, strikes, safeMode, load>>

\* mutant: after the sleep the tokens are looked at again
WakePolitely(t) ==
  /\ calls[t].at = "waiting" /\ calls[t].wait = 0
  /\ IF tokens > MinTokens(calls[t].endpoint) THEN Send(t, calls[t].endpoint)
     ELSE /\ calls' = [calls EXCEPT ![t].wait = 1 - (tokens - MinTokens(calls[t].endpoint))]
          /\ UNCHANGED <<tokens, strikes, safeMode, load>>

\* the sleep is over: the token is taken, there or not
Wake(t) == calls[t].at = "waiting" /\ calls[t].wait = 0 /\ Send(t, calls[t].endpoint)

\* mutant: the bucket overflows
RefillUncapped == tokens' = tokens + 1

\* _refill, once per token of elapsed time
Refill == tokens' = Smaller(Limit, tokens + 1)

Elapse ==
  /\ Refill
  /\ calls' = [t \in Task |-> [calls[t] EXCEPT !.wait = Larger(0, @ - 1)]]
  /\ load' = Larger(0, load - 1)
  /\ UNCHANGED <<strikes, safeMode>>

Return(t) == /\ calls[t].at = "sent" /\ calls' = [calls EXCEPT ![t] = Idle]
             /\ UNCHANGED <<tokens, load>>

\* _handle_response and record_429; the backoff delay is only logged
Reply429(t) == /\ Return(t)
               /\ strikes' = Smaller(Threshold, strikes + 1)
               /\ safeMode' = (safeMode \/ strikes + 1 >= Threshold)

\* record_success: any other status, refusals and errors included
ReplyOther(t) == Return(t) /\ strikes' = 0 /\ UNCHANGED safeMode

\* a ClientError or the timeout of the session
NoReply(t) == Return(t) /\ UNCHANGED <<strikes, safeMode>>

Next == Elapse \/ \E t \in Task : \/ Request(t) \/ Wake(t)
                                  \/ Reply429(t) \/ ReplyOther(t) \/ NoReply(t)

Spec == Init /\ [][Next]_vars

\* time passes, sleeps end, and the timeout of the session ends every call
FairSpec ==
  /\ Spec /\ WF_vars(Elapse)
  /\ \A t \in Task : WF_vars(Wake(t)) /\ WF_vars(Reply429(t) \/ ReplyOther(t) \/ NoReply(t))

-----------------------------------------------------------------------------
(* "calls_per_minute: Maximum API calls allowed per minute": however the   *)
(* waiting callers interleave, what the exchange sees exceeds the bucket   *)
(* and its refill by less than one call per job.                           *)
RateKept == load < Limit + Cardinality(Task) /\ tokens > -Cardinality(Task)

(* "Calls reserved for orders": the sleep of an order call does not grow   *)
(* with the reserve, nor with the number of data calls already waiting     *)
(* beyond one token for each job.                                          *)
DelayBounded ==
  \A t \in Task :
    calls[t].wait <= Cardinality(Task)
                       + (IF calls[t].endpoint \in OrderEndpoints THEN 0 ELSE Reserve)

(* A data call is not starved by the order calls that are served before    *)
(* it: every call ends.                                                    *)
CallsEnd == \A t \in Task : []<>(calls[t].at = "idle")
=============================================================================
