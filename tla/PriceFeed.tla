------------------------------- MODULE PriceFeed -------------------------------
(***************************************************************************)
(* The price of one asset from the market to the bot: fetch_prices of      *)
(* DataIngestionManager (src/data/ingestion.py) with the DataValidator     *)
(* (src/data/validators.py).  A bar whose return is out of proportion to   *)
(* the recent volatility is discarded and replaced by the last price, and  *)
(* so is a missing one for a while; the volatility is taken from the same  *)
(* buffer, which the replacements flatten.                                 *)
(***************************************************************************)
EXTENDS Integers, Sequences, Functions

CONSTANTS
  Market,       \* prices the market may show
  Window,       \* bars _estimate_simple_vol looks at
  MinBars,      \* bars it needs
  Sigmas,       \* price_anomaly_threshold_std
  MinMovePct,   \* min_absolute_move, in percent
  FillLimit,    \* missing_bar_fill_forward_limit
  MaxAge,       \* stale_data_max_age_sec, in bars
  MaxBars       \* bound on the bars missed, and on the age of the data

ASSUME FeedAssumption ==
  /\ Market \subseteq Nat \ {0}
  /\ MinBars \in Nat \ {0, 1} /\ Window \in Nat /\ MinBars <= Window
  /\ Sigmas \in Nat /\ MinMovePct \in Nat
  /\ FillLimit \in Nat /\ MaxAge \in Nat
  /\ MaxBars \in Nat /\ FillLimit < MaxBars /\ MaxAge < MaxBars

VARIABLES
  buffer,      \* the last Window prices of price_buffers
  status,      \* DataValidator._statuses
  missing,     \*   _missing_counts
  flagged,     \*   _anomaly_flags
  fetched,     \* a fetch has succeeded (_last_fetch_utc > 0)
  age,         \* bars since then
  globalStale, \* _global_stale
  shown,       \* history: the price of the last bar received (0: none)
  rejected     \* history: bars discarded in a row

validator == <<status, missing, flagged>>
freshness == <<fetched, age, globalStale>>
vars == <<buffer, validator, freshness, shown, rejected>>

(* The variables hold values of their types.                               *)
TypeOK ==
  /\ buffer \in Seq(Market) /\ Len(buffer) <= Window
  /\ status \in {"ACTIVE", "STALE", "ANOMALY"}
  /\ missing \in 0..MaxBars /\ flagged \in BOOLEAN
  /\ fetched \in BOOLEAN /\ age \in 0..MaxBars /\ globalStale \in BOOLEAN
  /\ shown \in Market \cup {0} /\ rejected \in Nat

-----------------------------------------------------------------------------
Known  == buffer # <<>>
Latest == buffer[Len(buffer)]              \* get_latest_price

Appended(p) == IF Len(buffer) < Window THEN Append(buffer, p)
               ELSE Append(Tail(buffer), p)

Size(x) == IF x < 0 THEN -x ELSE x

\* one-bar returns of the buffer, in basis points
Returns == [i \in 1..(Len(buffer) - 1) |->
              (10000 * (buffer[i + 1] - buffer[i])) \div buffer[i]]

\* n * (n - 1) * variance of the n returns: np.std(returns, ddof=1) squared
Spread(r, n) == n * SumFunction([i \in DOMAIN r |-> r[i] * r[i]])
                  - SumFunction(r) * SumFunction(r)

\* the return exceeds Sigmas standard deviations and the minimum move (also the
\* mutant of Exceeds that does not skip the check when there is no volatility)
ExceedsFlat(p) ==
  LET n    == Len(buffer) - 1
      move == (10000 * (p - Latest)) \div Latest
  IN /\ Len(buffer) >= MinBars
     /\ n * (n - 1) * move * move > Sigmas * Sigmas * Spread(Returns, n)
     /\ 100 * Size(p - Latest) > MinMovePct * Latest

\* with no volatility, or too few bars to tell, nothing is anomalous
Exceeds(p) == Spread(Returns, Len(buffer) - 1) > 0 /\ ExceedsFlat(p)

Anomalous(p) == Known /\ Exceeds(p)

-----------------------------------------------------------------------------
Fresh == fetched' = TRUE /\ age' = 0 /\ globalStale' = FALSE

Restored(p) == missing' = 0

\* the asset's loop body: check_anomaly, then check_missing_bar(received=True)
Receive(p) ==
  /\ Fresh
  /\ flagged' = Anomalous(p)
  /\ status' = IF Anomalous(p) THEN "ANOMALY" ELSE "ACTIVE"
  /\ Restored(p)
  /\ buffer' = Appended(IF Anomalous(p) THEN Latest ELSE p)
  /\ shown' = p
  /\ rejected' = IF Anomalous(p) THEN rejected + 1 ELSE 0

\* mutant: a bar that fills the gap confirms the move
FlagCleared == flagged' = FALSE

FlagKept == flagged' = flagged

\* check_missing_bar(received=False): filled forward up to the limit
Miss ==
  /\ missing < MaxBars
  /\ Fresh
  /\ missing' = missing + 1
  /\ status' = IF missing' > FillLimit THEN "STALE" ELSE status
  /\ buffer' = IF status' # "STALE" /\ Known THEN Appended(Latest) ELSE buffer
  /\ FlagKept
  /\ UNCHANGED <<shown, rejected>>

\* _handle_fetch_failure; the bars of this minute are not filled in
FetchFails ==
  /\ age < MaxBars
  /\ age' = age + 1
  /\ globalStale' = (globalStale \/ ~fetched \/ age' > MaxAge)
  /\ UNCHANGED <<buffer, validator, fetched, shown, rejected>>

-----------------------------------------------------------------------------
\* buffers are empty, or seeded with history
Init ==
  /\ buffer \in {<<>>} \cup [1..Window -> Market]
  /\ status = "ACTIVE" /\ missing = 0 /\ flagged = FALSE
  /\ fetched = FALSE /\ age = 0 /\ globalStale = FALSE
  /\ shown = 0 /\ rejected = 0

Next == (\E p \in Market : Receive(p)) \/ Miss \/ FetchFails

Spec == Init /\ [][Next]_vars

-----------------------------------------------------------------------------
(* However the market moves, the feed is blind to it for fewer bars than   *)
(* the volatility window has: the replacements flatten the window, and a   *)
(* flat window lets the next bar through.  (60 bars: an hour, during which *)
(* no stop of the asset can fire.)                                         *)
BlindBounded == rejected < Window

(* An asset is STALE exactly when more bars in a row were missing than are *)
(* filled forward, whatever anomalies and failed fetches came between.     *)
StaleWhenMissing == status = "STALE" <=> missing > FillLimit

(* A discarded move is remembered: the flag is set as long as the status   *)
(* says ANOMALY, and only a received bar clears it.                        *)
AnomalyFlagged == status = "ANOMALY" => flagged /\ rejected > 0

(* The status agrees with the counter and the flag behind it, in whatever  *)
(* order anomalies, missing bars and failed fetches come.                  *)
StatusAgrees == StaleWhenMissing /\ AnomalyFlagged
=============================================================================
