------------------------------- MODULE Features -------------------------------
(***************************************************************************)
(* The feature engine (src/data/features.py) behind the feed of BTC: its   *)
(* series of one-minute returns and the volatility percentile the regime   *)
(* detector is given.  on_new_bar looks at the end of the price buffer and *)
(* takes it for news.  It is called after each fetch that succeeds, also   *)
(* when the asset is STALE and nothing was appended; by warm_start, which  *)
(* has just been over the same bars; and by a rebalance that finds no      *)
(* regime inputs.  Each of these adds the last return once more.           *)
(*                                                                         *)
(* A return is the pair of the prices it relates.  The ring buffer holds   *)
(* Window prices, all that the validator looks at.                         *)
(***************************************************************************)
EXTENDS PriceFeed, FiniteSets

CONSTANTS
  Kept,         \* returns kept (maxlen of _returns_1m)
  VolWindow,    \* returns in vol_60m
  SampleEvery,  \* _btc_vol_sample_interval
  MinSamples,   \* samples of a percentile
  MaxAgain      \* bound on the bars taken for news again

ASSUME FeatureAssumption ==
  /\ Kept \in Nat /\ VolWindow \in Nat \ {0} /\ VolWindow <= Kept
  /\ SampleEvery \in Nat \ {0} /\ MinSamples \in Nat /\ MaxAgain \in Nat

VARIABLES
  phase,        \* main: before its first fetch, before warm_start, scheduling
  returns,      \* _returns_1m["BTC"]
  barCount,     \* _bar_count, modulo SampleEvery
  samples,      \* length of _btc_vol_samples, up to MinSamples
  ready,        \* _regime_inputs is not None
  volKnown,     \*   and its btc_vol_percentile is not None
  again         \* history: calls of on_new_bar with nothing appended

features == <<returns, barCount, samples, ready, volKnown, again>>
featureVars == <<phase, features>>
allVars == <<vars, featureVars>>

(* The variables hold values of their types.                               *)
FeatureTypeOK ==
  /\ TypeOK
  /\ phase \in {"starting", "warming", "running"}
  /\ returns \in Seq(Market \X Market) /\ Len(returns) <= Kept
  /\ barCount \in 0..(SampleEvery - 1) /\ samples \in 0..MinSamples
  /\ ready \in BOOLEAN /\ volKnown \in BOOLEAN /\ (volKnown => ready)
  /\ again \in 0..MaxAgain

-----------------------------------------------------------------------------
LastOf(s, n) == IF Len(s) <= n THEN s ELSE SubSeq(s, Len(s) - n + 1, Len(s))

AtMost(n, bound) == IF n < bound THEN n ELSE bound

\* mutant: the return is taken from the oldest price
MoveFromFirst(prices) == <<prices[1], prices[Len(prices)]>>

\* the return of the last bar
Move(prices) == <<prices[Len(prices) - 1], prices[Len(prices)]>>

\* mutant: the percentile is given at the bars that are sampled
PercentileSampled(bar, n) == bar = 0 /\ n >= MinSamples

\* _update_btc_vol_percentile: there is one
Percentile(bar, n) == n >= MinSamples

\* on_new_bar over the prices, after the returns rs and n samples
Computed(prices, rs, n) ==
  LET after == IF Len(prices) < 2 THEN rs ELSE LastOf(Append(rs, Move(prices)), Kept)
      bar   == (barCount + 1) % SampleEvery
      vol   == Len(after) >= VolWindow
      count == IF vol /\ bar = 0 THEN AtMost(n + 1, MinSamples) ELSE n
  IN /\ returns' = after /\ barCount' = bar /\ samples' = count
     /\ ready' = TRUE /\ volKnown' = (vol /\ Percentile(bar, count))

OnNewBar == Computed(buffer', returns, samples)

\* the same bars once more
Repeats == again < MaxAgain /\ again' = again + 1

\* the samples warm_start takes of n returns
Backfilled(n) == IF n > VolWindow THEN (n - VolWindow + SampleEvery - 1) \div SampleEvery ELSE 0

-----------------------------------------------------------------------------
Fetched == (\E p \in Market : Receive(p)) \/ Miss

\* what main does before it schedules the jobs: one fetch, no features; then
\* warm_start if the buffers are full
StartupFetch ==
  /\ phase = "starting" /\ (Fetched \/ FetchFails)
  /\ phase' = "warming" /\ UNCHANGED features

WarmStart ==
  /\ phase = "warming" /\ phase' = "running"
  /\ IF Len(buffer) < Window THEN UNCHANGED features
     ELSE LET rebuilt == [i \in 1..(Window - 1) |-> <<buffer[i], buffer[i + 1]>>]
              kept == LastOf(rebuilt, Kept)
          IN /\ Computed(buffer, kept, AtMost(Backfilled(Len(kept)), MinSamples))
             /\ Repeats
  /\ UNCHANGED vars

\* data_ingestion_tick, with a price for the asset (received or filled
\* forward) or with none
Bar ==
  /\ phase = "running" /\ Fetched
  /\ OnNewBar
  /\ IF missing' > FillLimit \/ buffer' = <<>> THEN Repeats ELSE again' = again
  /\ UNCHANGED phase

\* mutant: the features are computed after a failed fetch as well
FailedBarPushed == phase = "running" /\ FetchFails /\ OnNewBar /\ UNCHANGED <<phase, again>>

FailedBar == phase = "running" /\ FetchFails /\ UNCHANGED featureVars

\* rebalance_tick before the first bar was computed
Recompute ==
  /\ phase = "running" /\ ~ready /\ Known
  /\ Computed(buffer, returns, samples) /\ Repeats
  /\ UNCHANGED <<vars, phase>>

-----------------------------------------------------------------------------
FeatureInit ==
  /\ Init
  /\ phase = "starting" /\ returns = <<>> /\ barCount = 0 /\ samples = 0
  /\ ready = FALSE /\ volKnown = FALSE /\ again = 0

FeatureNext == StartupFetch \/ WarmStart \/ Bar \/ FailedBar \/ Recompute

FeatureSpec == FeatureInit /\ [][FeatureNext]_allVars

\* the process gets through its startup, and the feed does not fail, or leave
\* the asset out, for ever (each bar changes barCount)
Received == phase = "running" /\ (\E p \in Market : Receive(p)) /\ OnNewBar /\ UNCHANGED <<phase, again>>
Fairness == WF_allVars(StartupFetch) /\ WF_allVars(WarmStart) /\ []<><<Received>>_allVars
FairFeatureSpec == FeatureSpec /\ Fairness

-----------------------------------------------------------------------------
(* The returns are those of the feed: each starts at the price where the   *)
(* one before it ended, or is the one before it again, whatever was        *)
(* discarded, filled forward or missing between them.                      *)
ReturnsFollow ==
  \A i \in 1..(Len(returns) - 1) : returns[i + 1][1] = returns[i][2] \/ returns[i + 1] = returns[i]

(* A move of the market is counted again only where the engine was called  *)
(* with nothing new: a failed fetch repeats nothing ("skip on failed fetch *)
(* to avoid pushing a stale bar").                                         *)
RepeatsBounded ==
  Cardinality({i \in 1..(Len(returns) - 1) : /\ returns[i + 1] = returns[i]
                                             /\ returns[i][1] # returns[i][2]}) <= again

(* The detector is given a volatility percentile in the end, and from then *)
(* on always: the crisis threshold does not go blind again when the asset  *)
(* goes STALE or its bars are discarded.                                   *)
VolLearned == <>[]volKnown
=============================================================================
