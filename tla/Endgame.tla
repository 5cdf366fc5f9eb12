-------------------------------- MODULE Endgame --------------------------------
(***************************************************************************)
(* EndgameManager (src/portfolio/endgame.py): the constraints that apply   *)
(* with a given time left in the round.  Time is in quarters of an hour.   *)
(***************************************************************************)
EXTENDS Integers

CONSTANTS
  Schedule,   \* entries [left, exposure (percent), override (basis points)]
  FinalSell   \* _FINAL_SELL_HOURS

NoOverride == -1    \* stop_override is None

ASSUME EndgameAssumption ==
  /\ Schedule \subseteq [left : Nat, exposure : 0..100, override : Nat \cup {NoOverride}]
  /\ FinalSell \in Nat

Crossed(left) == {e \in Schedule : e.left <= left}

\* the loop over the schedule in descending order stops at the first entry met
Applicable(left) == CHOOSE e \in Crossed(left) : \A f \in Crossed(left) : f.left <= e.left

\* get_constraints, for a configured round end
SellAll(left)  == left <= FinalSell
Unlisted(left) == SellAll(left) \/ Crossed(left) = {}
MaxExposure(left)  == IF Unlisted(left) THEN 0 ELSE Applicable(left).exposure
StopOverride(left) == IF Unlisted(left) THEN NoOverride ELSE Applicable(left).override
=============================================================================
