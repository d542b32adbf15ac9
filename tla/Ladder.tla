------------------------------- MODULE Ladder -------------------------------
(* The pickaxe and its roadmap: every rung in climbing order, what arriving *)
(* at each costs, how far a purse reaches and what a climb does to power.   *)
(*                                                                          *)
(* Efficiency rises to the tier's cap, then the next purchase resets it and *)
(* moves to the next tier; no rung can be skipped.  Tiers are numbered from *)
(* 1.  Power leaves out the Haste multiplier, the same positive factor on   *)
(* every rung of a comparison.                                              *)
EXTENDS Till

CONSTANTS
    Tiers,              (* how many tiers there are                         *)
    EfficiencyCap,      (* tier |-> the last Efficiency of it               *)
    BasePower,          (* tier |-> power with no Efficiency                *)
    EfficiencyPrice,    (* tier, level left |-> the price of the next level *)
    TierPrice           (* tier left |-> the price of the jump out of it    *)

ASSUME LadderAssumption ==
    /\ Tiers \in Nat \ {0}
    /\ EfficiencyCap \in [1..Tiers -> Nat]
    /\ BasePower \in [1..Tiers -> Nat]
    /\ DOMAIN EfficiencyPrice = 1..Tiers
    /\ \A t \in 1..Tiers : \A e \in 0..EfficiencyCap[t] - 1 :
           IsPrice(EfficiencyPrice[t][e])
    /\ \A t \in 1..Tiers - 1 : IsPrice(TierPrice[t])

Pickaxe == {p \in [tier : 1..Tiers, efficiency : Nat] :
                p.efficiency <= EfficiencyCap[p.tier]}
Bare == [tier |-> 1, efficiency |-> 0]
AtCap(p) == p.efficiency = EfficiencyCap[p.tier]

(* Pickaxe::upgrade, and whether it refuses with PickaxeFullyUpgraded.      *)
FullyUpgraded(p) == AtCap(p) /\ p.tier = Tiers
Upgraded(p) == IF AtCap(p) THEN [tier |-> p.tier + 1, efficiency |-> 0]
                           ELSE [p EXCEPT !.efficiency = @ + 1]

(* buy_pickaxe_rung: the cap decides which of the two purchases is next,    *)
(* each priced by what is being left.                                       *)
NextPrice(p) == IF AtCap(p) THEN TierPrice[p.tier]
                            ELSE EfficiencyPrice[p.tier][p.efficiency]

Power(p) == LET e == p.efficiency
            IN  BasePower[p.tier] + IF e > 0 THEN e * e + 1 ELSE 0

(* buy_repeatedly over buy_pickaxe_rung, on purse and pickaxe: a refusal     *)
(* leaves both alone, so every later call is refused too.                   *)
Climb(purse, pickaxe, wanted) ==
    LET after[n \in 0..wanted] ==
            IF n = 0 THEN [purse |-> purse, pickaxe |-> pickaxe]
            ELSE LET r == after[n - 1]
                 IN  IF FullyUpgraded(r.pickaxe) THEN r
                     ELSE IF ~CanPay(r.purse, NextPrice(r.pickaxe)) THEN r
                     ELSE [purse |-> Pay(r.purse, NextPrice(r.pickaxe)),
                           pickaxe |-> Upgraded(r.pickaxe)]
    IN  after[wanted]

-----------------------------------------------------------------------------
(* upgrade::ladder: the rungs, each with the price of arriving at it.       *)
FirstRung[t \in 1..Tiers] ==
    IF t = 1 THEN 0 ELSE FirstRung[t - 1] + EfficiencyCap[t - 1] + 1
Top == FirstRung[Tiers] + EfficiencyCap[Tiers]
Rung == 0..Top
Position(p) == FirstRung[p.tier] + p.efficiency
PickaxeAt == [k \in Rung |-> CHOOSE p \in [tier : 1..Tiers, efficiency : Rung] :
                                 p \in Pickaxe /\ Position(p) = k]
IsTierJump(k) == k > 0 /\ PickaxeAt[k].efficiency = 0
ArrivalPrice == [k \in 1..Top |->
    LET p == PickaxeAt[k]
    IN  IF IsTierJump(k) THEN TierPrice[p.tier - 1]
        ELSE EfficiencyPrice[p.tier][p.efficiency - 1]]

(* The purse after the rungs from + 1 .. k are paid in order: the chain is  *)
(* simulated, never summed and split again.                                 *)
PurseAt(purse, from) ==
    LET paid[k \in from..Top] == IF k = from THEN purse
                                 ELSE Pay(paid[k - 1], ArrivalPrice[k])
    IN  paid

(* upgrade::max_affordable: the last rung of the affordable prefix.         *)
Reaches(purse, from, k) ==
    LET paid == PurseAt(purse, from)
    IN  \A j \in from + 1..k : CanPay(paid[j - 1], ArrivalPrice[j])
Furthest(purse, from) ==
    CHOOSE k \in from..Top : /\ Reaches(purse, from, k)
                             /\ k < Top => ~Reaches(purse, from, k + 1)

(* upgrade::chain_affordability: the first refusal is the chain's verdict.  *)
ChainVerdict(purse, from, to) ==
    LET paid == PurseAt(purse, from)
        verdict(k) == Affordability(paid[k - 1], ArrivalPrice[k])
        refused == {k \in from + 1..(IF to < Top THEN to ELSE Top) :
                        /\ verdict(k) # "affordable"
                        /\ \A j \in from + 1..k - 1 : verdict(j) = "affordable"}
    IN  IF refused = {} THEN "affordable"
                        ELSE verdict(CHOOSE k \in refused : TRUE)

(* upgrade::preview: whether the clamped target is a net loss of power.      *)
Target(from, to) == IF to < from THEN from ELSE IF to > Top THEN Top ELSE to
IsDip(from, to) == Power(PickaxeAt[Target(from, to)]) < Power(PickaxeAt[from])
=============================================================================
