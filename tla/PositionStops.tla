----------------------------- MODULE PositionStops -----------------------------
(***************************************************************************)
(* The trailing stops and what feeds them: prices and peaks of Position    *)
(* (src/execution/position_tracker.py), PositionStop and                   *)
(* TrailingStopManager (src/risk/trailing_stops.py), RiskManager's         *)
(* _sync_stops (src/risk/manager.py) and the endgame's override.           *)
(*                                                                         *)
(* Fills, balance syncs and restarts change the positions between two      *)
(* ticks; the stops follow at the next tick only.  Distances and gains are *)
(* in basis points; a level is the stop price times Unit.                  *)
(***************************************************************************)
EXTENDS Endgame

CONSTANTS
  Asset,
  Prices,              \* prices the feed and the fills may show
  BaseStop,            \* base stop distance of each asset
  Floor,               \* min_stop_floor
  MidGain, HighGain,   \* tighten_mid_threshold, tighten_high_threshold
  MidPct, HighPct,     \* tighten_mid_factor, tighten_high_factor, in percent
  RoundLeft,           \* time left when the program starts
  Steps,               \* time that may pass between two ticks
  Restarts             \* the program may be restarted (run.sh)

Unit == 10000
Overtime == 1   \* bound: time the program runs after the end of the round

ASSUME StopsAssumption ==
  /\ Prices \subseteq Nat \ {0}
  /\ BaseStop \in [Asset -> 0..Unit] /\ Floor \in 0..Unit
  /\ MidGain \in Nat /\ HighGain \in Nat /\ MidGain <= HighGain
  /\ HighPct \in 0..100 /\ MidPct \in HighPct..100
  /\ \A e \in Schedule : e.override <= Unit
  /\ RoundLeft \in Nat /\ Steps \subseteq Nat
  /\ Restarts \in BOOLEAN

VARIABLES
  left,       \* time left in the round
  price,      \* the feed's latest prices (0: none yet)
  held,       \* assets with a Position
  cost,       \* Position.cost_basis (0: unknown)
  peakSince,  \* Position.peak_price_since_entry
  stop,       \* TrailingStopManager.positions: entry_price, peak_price
  tracked,    \*   and its keys
  stopped,    \* assets with a TRAILING_STOP event at the last tick
  high        \* history: highest price the program saw since the position was opened

position == <<held, cost, peakSince>>
stops    == <<stop, tracked, stopped>>
vars == <<left, price, position, stops, high>>

StopRec == [entry : Nat, peak : Nat]
NoStop  == [entry |-> 0, peak |-> 0]

(* The variables hold values of their types.                               *)
TypeOK ==
  /\ left \in Int
  /\ price \in [Asset -> Nat]
  /\ held \subseteq Asset
  /\ cost \in [Asset -> Nat] /\ peakSince \in [Asset -> Nat]
  /\ stop \in [Asset -> StopRec] /\ tracked \subseteq Asset
  /\ stopped \subseteq Asset
  /\ high \in [Asset -> Nat]

Larger(x, y)  == IF x > y THEN x ELSE y

-----------------------------------------------------------------------------
(* get_effective_stop_distance and compute_effective_stop.                 *)

Gained(s, gain) == s.entry > 0 /\ Unit * (s.peak - s.entry) > gain * s.entry

TightenPct(s) == IF Gained(s, HighGain) THEN HighPct
                 ELSE IF Gained(s, MidGain) THEN MidPct ELSE 100

\* the override replaces the tightened distance; the floor holds for both
Distance(a, s, override) ==
  Larger(Floor, IF override # NoOverride THEN override
                ELSE (BaseStop[a] * TightenPct(s)) \div 100)

Level(a, s, override) == s.peak * (Unit - Distance(a, s, override))

-----------------------------------------------------------------------------
(* RiskManager.tick: _sync_stops, then check_all.                          *)

Entry(a) == IF cost[a] > 0 THEN cost[a] ELSE price'[a]

\* mutant: the peak of the position book is ignored
SyncedWithoutPeak(a) ==
  IF a \in tracked THEN stop[a] ELSE [entry |-> Entry(a), peak |-> Entry(a)]

\* the stop of a held asset after _sync_stops
Synced(a) ==
  IF a \in tracked
  THEN [stop[a] EXCEPT !.peak = Larger(@, peakSince'[a])]
  ELSE [entry |-> Entry(a), peak |-> Larger(Entry(a), peakSince'[a])]

\* mutant: the peak follows the price down
Followed(s, p) == IF p > 0 THEN [s EXCEPT !.peak = p] ELSE s

\* update_peak; an asset without a price is skipped
Raised(s, p) == [s EXCEPT !.peak = Larger(@, p)]

RiskTick ==
  /\ tracked' = held
  /\ stop' = [a \in Asset |-> IF a \in held THEN Raised(Synced(a), price'[a]) ELSE NoStop]
  /\ stopped' = {a \in held : /\ price'[a] > 0
                              /\ Unit * price'[a] <= Level(a, stop'[a], StopOverride(left'))}

\* an asset that is missing from a fetch keeps its price
Fetch == {f \in [Asset -> Prices \cup {0}] : \A a \in Asset : f[a] \in Prices \cup {price[a]}}

\* one tick: the fetch, update_prices unless it failed, the risk checks
Tick(fetched, elapsed) ==
  /\ left - elapsed >= -Overtime
  /\ left' = left - elapsed
  /\ price' \in (IF fetched THEN Fetch ELSE {price})
  /\ peakSince' = [a \in Asset |-> IF fetched /\ a \in held
                                   THEN Larger(peakSince[a], price'[a]) ELSE peakSince[a]]
  /\ high' = [a \in Asset |-> IF a \in held THEN Larger(high[a], price'[a]) ELSE high[a]]
  /\ RiskTick
  /\ UNCHANGED <<held, cost>>

-----------------------------------------------------------------------------
(* What happens to the positions between two ticks.                        *)

\* on_buy_fill: the average cost lies between the old one and the fill's
BuyFill(a, p, average) ==
  /\ price[a] > 0
  /\ IF a \in held
     THEN /\ average \in {cost[a], p} \cup {c \in Prices : (c - cost[a]) * (c - p) <= 0}
          /\ peakSince' = [peakSince EXCEPT ![a] = Larger(@, p)]
          /\ high' = [high EXCEPT ![a] = Larger(@, p)]
     ELSE /\ average = p
          /\ peakSince' = [peakSince EXCEPT ![a] = p]
          /\ high' = [high EXCEPT ![a] = p]
  /\ held' = held \cup {a}
  /\ cost' = [cost EXCEPT ![a] = average]
  /\ UNCHANGED <<left, price, stops>>

\* on_sell_fill of the whole position, or the sync finding it gone
Close(a) ==
  /\ a \in held
  /\ held' = held \ {a}
  /\ cost' = [cost EXCEPT ![a] = 0] /\ peakSince' = [peakSince EXCEPT ![a] = 0]
  /\ high' = [high EXCEPT ![a] = 0]
  /\ UNCHANGED <<left, price, stops>>

\* sync_from_exchange discovers a position
Discover(a) ==
  /\ a \notin held
  /\ held' = held \cup {a}
  /\ UNCHANGED <<left, price, cost, peakSince, stops, high>>

\* the process is started again: balances are synced, prices seeded or fetched,
\* and the held assets get the current price as cost and peak; the stops are gone
Restart ==
  /\ Restarts
  /\ price' \in [Asset -> Prices \cup {0}]
  /\ cost' = [a \in Asset |-> IF a \in held THEN price'[a] ELSE 0]
  /\ peakSince' = cost'
  /\ tracked' = {} /\ stop' = [a \in Asset |-> NoStop] /\ stopped' = {}
  /\ high' = cost'
  /\ UNCHANGED <<left, held>>

-----------------------------------------------------------------------------
Init ==
  /\ left = RoundLeft
  /\ price \in [Asset -> Prices \cup {0}]
  /\ held = {}
  /\ cost = [a \in Asset |-> 0] /\ peakSince = [a \in Asset |-> 0]
  /\ stop = [a \in Asset |-> NoStop] /\ tracked = {} /\ stopped = {}
  /\ high = [a \in Asset |-> 0]

Next ==
  \/ \E fetched \in BOOLEAN, elapsed \in Steps : Tick(fetched, elapsed)
  \/ \E a \in Asset : Close(a) \/ Discover(a)
  \/ \E a \in Asset, p \in Prices, average \in Prices \cup {0} : BuyFill(a, p, average)
  \/ Restart

Spec == Init /\ [][Next]_vars

Ticks == \E fetched \in BOOLEAN : Tick(fetched, left - left')

-----------------------------------------------------------------------------
(* The stop of a tracked position never falls while the same override (or  *)
(* none) applies: the peak ratchets up, the distance is taken at the peak, *)
(* and fills that average the cost up or down do not loosen it.            *)
StopRatchets ==
  [][StopOverride(left') = StopOverride(left)
       => \A a \in tracked \cap tracked' :
            Level(a, stop'[a], StopOverride(left'))
              >= Level(a, stop[a], StopOverride(left))]_vars

(* At every tick a position whose price is down by its base stop distance  *)
(* or more from the highest price it was seen at since it was opened (or   *)
(* since a restart, which forgets the peaks) is signalled, whichever fill, *)
(* sync or failed fetch came between.                                      *)
Guarded ==
  [][Ticks => \A a \in held :
       /\ price'[a] > 0
       /\ Unit * price'[a] <= high'[a] * (Unit - BaseStop[a])
       => a \in stopped']_vars

(* With less time left the portfolio may be exposed no more.               *)
ExposureTightens == [][MaxExposure(left') <= MaxExposure(left)]_vars

=============================================================================
