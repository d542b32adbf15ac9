------------------------------- MODULE MCShop -------------------------------
(* Shop for TLC: two materials, a Compressed unit worth two, a road of two    *)
(* tiers (powers 2 4 7, then 3 5: the jump costs power and nothing earns it  *)
(* back), one enchant that the second level uncaps, one paid track of a mine *)
(* that has to be entered, the boost, and one rank.                           *)
EXTENDS UpgradesView

Iron(n) == [m \in {"iron"} |-> n]
Gold(n) == [m \in {"gold"} |-> n]

MCCap == <<2, 1>>
MCBase == <<2, 3>>
MCEfficiencyPrice == <<[e \in 0..1 |-> Iron(e + 1)],
                       [e \in 0..0 |-> Composite("iron", "gold", 3, 0, 1, 700)]>>
MCTierPrice == <<Iron(3)>>
MCMineLevel == [mine \in {"stone", "coal"} |-> IF mine = "coal" THEN 2 ELSE 1]
MCMineTier == [mine \in {"stone", "coal"} |-> IF mine = "coal" THEN 2 ELSE 1]
MCEnchantCap == <<1, 2>>
MCMineOf == [t \in {"size"} |-> "coal"]
MCTrackPrice == [t \in Tracks |-> [n \in 0..2 |->
                    CASE t = "fortune" -> Fuelled("iron", "gold", "coal", 2 * n + 1)
                      [] t = "size" -> Composite("iron", "gold", n + 2, n + 1, 2, 0)
                      [] t = "boost" -> Iron(3)]]
MCMaxWorth == [m \in {"iron", "gold"} |-> IF m = "iron" THEN 4 ELSE 2]
MCRankPrice == [r \in 0..1 |-> Gold(2 + r)]
=============================================================================
