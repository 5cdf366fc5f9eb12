----------------------------- MODULE MCPriceFeed -----------------------------
(* Features over PriceFeed, with short windows and prices that move by     *)
(* less and by more than the minimum move.                                 *)
EXTENDS Features
=============================================================================
