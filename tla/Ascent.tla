------------------------------- MODULE Ascent -------------------------------
(* The climb a run is, over the real tables of Catalogue: two axes, the level *)
(* that opens worlds and raises the caps of enchants, and the pickaxe that    *)
(* opens mines, each sold in what the other gives access to.                  *)
(*                                                                            *)
(* Ore is free for the digging, so a price is in reach as soon as an open     *)
(* mine yields each of its materials: how many, and what level rewards add,   *)
(* is in Run and Shop.  Levels between two gates are not told apart.          *)
EXTENDS Catalogue

CONSTANTS
    Tracked,        (* bound: the mines whose size and richness are followed *)
    MaxTrack,       (* bound: levels of each                                 *)
    MaxRank         (* bound: prestiges                                      *)

ASSUME AscentAssumption ==
    /\ Tracked \subseteq DOMAIN MineKind
    /\ MaxTrack \in 0..MaxTrackLevel /\ MaxRank \in Nat

VARIABLES level, tier, efficiency, enchants, tracks, rank
vars == <<level, tier, efficiency, enchants, tracks, rank>>

Gates == {World[w].level : w \in DOMAIN World} \union {LevelCap}

NoEnchants == [e \in Enchants |-> 0]
NoTracks == [k \in Tracked |-> 0]
Init == /\ level = 1
        /\ tier = Wooden /\ efficiency = 0
        /\ enchants = NoEnchants
        /\ tracks = NoTracks
        /\ rank = 0

OpenAt == [l \in Gates |-> [t \in Wooden..Netherite |->
               {k \in DOMAIN MineKind : LockOpen(k, l, t)}]]
YieldedAt == [l \in Gates |-> [t \in Wooden..Netherite |->
                  UNION {Yields(k) : k \in OpenAt[l][t]}]]
Open == OpenAt[level][tier]
InReach == YieldedAt[level][tier]
AtCap == efficiency = EfficiencyCap(tier)

(* add_experience: any open mine levels the player up.                        *)
LevelUp == /\ Open # {}
           /\ level < LevelCap
           /\ level' = CHOOSE g \in Gates : /\ g > level
                                            /\ \A h \in Gates : h > level => g <= h
           /\ UNCHANGED <<tier, efficiency, enchants, tracks, rank>>

(* The price of the next rung, of which there is none past the last.          *)
RoadPrice == IF ~AtCap THEN EfficiencyPrice(tier, efficiency)
             ELSE IF tier < Netherite THEN TierPrice(tier) ELSE {}
BuyPickaxeEfficiency == /\ ~AtCap
                        /\ RoadPrice \subseteq InReach
                        /\ efficiency' = efficiency + 1
                        /\ UNCHANGED <<level, tier, enchants, tracks, rank>>
BuyPickaxeTier == /\ AtCap /\ tier < Netherite
                  /\ RoadPrice \subseteq InReach
                  /\ tier' = tier + 1
                  /\ efficiency' = 0
                  /\ UNCHANGED <<level, enchants, tracks, rank>>

OnOffer(e) == enchants[e] < EnchantCap(level)
BuyEnchant(e) == /\ OnOffer(e)
                 /\ EnchantPrice(e, enchants[e]) \subseteq InReach
                 /\ enchants' = [enchants EXCEPT ![e] = @ + 1]
                 /\ UNCHANGED <<level, tier, efficiency, tracks, rank>>

(* buy_mine_size and buy_mine_richness of a mine that has been entered.       *)
BuyTrack(k) == /\ k \in Open
               /\ tracks[k] < MaxTrack
               /\ TrackPrice(k, tracks[k]) \subseteq InReach
               /\ tracks' = [tracks EXCEPT ![k] = @ + 1]
               /\ UNCHANGED <<level, tier, efficiency, enchants, rank>>

Prestige == /\ level = LevelCap /\ tier = Netherite
            /\ "Amethyst" \in InReach
            /\ rank < MaxRank
            /\ level' = 1
            /\ tier' = Wooden /\ efficiency' = 0
            /\ enchants' = NoEnchants
            /\ tracks' = NoTracks
            /\ rank' = rank + 1

Next == \/ LevelUp
        \/ BuyPickaxeEfficiency
        \/ BuyPickaxeTier
        \/ \E e \in Enchants : BuyEnchant(e)
        \/ \E k \in Tracked : BuyTrack(k)
        \/ Prestige

(* The player goes on with something of what is on offer.                     *)
Spec == Init /\ [][Next]_vars /\ WF_vars(Next)

-----------------------------------------------------------------------------
Realised == /\ level = LevelCap
            /\ tier = Netherite /\ AtCap
            /\ \A e \in Enchants : enchants[e] = World.End.cap
            /\ \A k \in Tracked : tracks[k] = MaxTrack

(* No order of purchases strands a run: whatever is bought first, everything  *)
(* there is to buy comes into reach, at every rank.  The gates of block.rs    *)
(* and world.rs and the prices of economy.rs meet nowhere but here.           *)
EveryClimbCanBeFinished == <>(rank = MaxRank /\ Realised)

(* The axes do not wait on themselves (economy.rs on pickaxe_material: "one   *)
(* the previous tier can already mine"; on enchant_fuel: the ores of mines    *)
(* worked now): a rung of the pickaxe waits at most for a level, an enchant   *)
(* under its cap at most for a pickaxe, an open mine's tracks for nothing.    *)
Mines(m) == {k \in DOMAIN MineKind : m \in Yields(k)}
Missing(price) == price \ InReach
NoAxisWaitsOnItself ==
    /\ \A m \in Missing(RoadPrice) : \E k \in Mines(m) : TierOpens(k, tier)
    /\ \A e \in Enchants : OnOffer(e) =>
           \A m \in Missing(EnchantPrice(e, enchants[e])) :
               \E k \in Mines(m) : LevelOpens(k, level)
    /\ \A k \in Open \intersect Tracked : Missing(TrackPrice(k, tracks[k])) = {}
=============================================================================
