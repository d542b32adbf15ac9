------------------------------ MODULE MCMines ------------------------------
(* Mines for TLC: two mines of one cell, the first of which is enriched    *)
(* and enlarged to a square of four, so that the blasts of one swing       *)
(* overlap each other and the holes, and a Jackhammer leaves cells a Nuke  *)
(* does not; the value block takes a tick more to break than the common    *)
(* one.  The second mine opens at the top of both ladders.                 *)
EXTENDS Mines

MCGateLevel == [k \in {"stone", "coal"} |-> IF k = "coal" THEN 2 ELSE 1]
MCGateTier == [k \in {"stone", "coal"} |-> IF k = "coal" THEN 1 ELSE 0]
MCWidth == [s \in 0..1 |-> s + 1]
MCHeight == MCWidth
MCMaxPurchases == [k \in {"stone", "coal"} |-> IF k = "stone" THEN 2 ELSE 0]
MCToughness ==
    [k \in {"stone", "coal"} |-> [b \in Blocks |-> IF b = "common" THEN 1 ELSE 2]]
=============================================================================
