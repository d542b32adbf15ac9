------------------------------- MODULE MCRun -------------------------------
(* Run for TLC: the permille is the game's own; the ladder, the prices,     *)
(* the drops and the auto-miner are scaled down so that a climb is a swing  *)
(* or two and a block of the auto-miner's forty ticks, and the multiplier   *)
(* of a rank up so that its fractions make a whole item in them.            *)
EXTENDS Run

MCOre == [l \in 2..3 |-> IF l = 2 THEN 0 ELSE 1]
MCEfficiencyCap == [t \in 0..1 |-> t]
MCFortuneCap == [l \in 1..3 |-> IF l = 3 THEN 1 ELSE 0]
MCPrice == [what \in {"efficiency", "tier", "fortune", "boost"} |->
                CASE what = "boost" -> 5 [] what = "efficiency" -> 3 [] OTHER -> 2]
=============================================================================
