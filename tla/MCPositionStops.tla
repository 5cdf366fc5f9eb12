--------------------------- MODULE MCPositionStops ---------------------------
(* PositionStops with the thresholds and the schedule of config.yaml, for  *)
(* one asset of tiers 1-3: the stops of two assets do not interact.        *)
EXTENDS PositionStops

OneAsset   == {"BTC"}
MajorStop  == [a \in OneAsset |-> 800]
ConfiguredSchedule ==
  {[left |-> 192, exposure |-> 100, override |-> NoOverride],
   [left |-> 96,  exposure |-> 70,  override |-> NoOverride],
   [left |-> 48,  exposure |-> 45,  override |-> NoOverride],
   [left |-> 16,  exposure |-> 25,  override |-> 300],
   [left |-> 4,   exposure |-> 15,  override |-> 200],
   [left |-> 1,   exposure |-> 0,   override |-> NoOverride]}
=============================================================================
