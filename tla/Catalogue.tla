------------------------------ MODULE Catalogue ------------------------------
(* The fixed tables of the game: what the ground is made of, which mine holds *)
(* which blocks, what opens what, and the materials every price asks for.     *)
(*                                                                            *)
(* Tiers are numbered along PickaxeTier, Wooden = 1.  A price is the set of   *)
(* the materials of its lines: every total is at least COST_BASE raw, so a    *)
(* line is dropped only where its share is zero.  Hardness, experience, drop  *)
(* counts and names are left out.                                             *)
EXTENDS Integers, Sequences

(* World: its level, the cap of its enchants and the material they take.      *)
World == [Overworld |-> [level |-> 1,  cap |-> 3,  enchant |-> "Lapis"],
          Nether    |-> [level |-> 15, cap |-> 6,  enchant |-> "Quartz"],
          End       |-> [level |-> 30, cap |-> 10, enchant |-> "Amethyst"]]
LevelCap == 50
IsUnlockedAt(w, l) == l >= World[w].level
WorldsAt(l) == {w \in DOMAIN World : IsUnlockedAt(w, l)}

(* Block::material, world and min_pickaxe_tier, ore and dense form alike.     *)
Cell(m, w, t) == [material |-> m, world |-> w, tier |-> t]
Wooden == 1
Stone == 2
Iron == 3
Gold == 4
Diamond == 5
Netherite == 6
Block == [
    Stone          |-> Cell("Stone", "Overworld", Wooden),
    Cobblestone    |-> Cell("Stone", "Overworld", Wooden),
    CoalOre        |-> Cell("Coal", "Overworld", Wooden),
    CoalBlock      |-> Cell("Coal", "Overworld", Wooden),
    IronOre        |-> Cell("Iron", "Overworld", Stone),
    IronBlock      |-> Cell("Iron", "Overworld", Stone),
    GoldOre        |-> Cell("Gold", "Overworld", Iron),
    GoldBlock      |-> Cell("Gold", "Overworld", Iron),
    LapisOre       |-> Cell("Lapis", "Overworld", Stone),
    LapisBlock     |-> Cell("Lapis", "Overworld", Stone),
    RedstoneOre    |-> Cell("Redstone", "Overworld", Iron),
    RedstoneBlock  |-> Cell("Redstone", "Overworld", Iron),
    EmeraldOre     |-> Cell("Emerald", "Overworld", Iron),
    EmeraldBlock   |-> Cell("Emerald", "Overworld", Iron),
    DiamondOre     |-> Cell("Diamond", "Overworld", Iron),
    DiamondBlock   |-> Cell("Diamond", "Overworld", Iron),
    Netherrack     |-> Cell("Netherrack", "Nether", Diamond),
    QuartzOre      |-> Cell("Quartz", "Nether", Diamond),
    AncientDebris  |-> Cell("AncientDebris", "Nether", Diamond),
    NetheriteBlock |-> Cell("AncientDebris", "Nether", Diamond),
    Obsidian       |-> Cell("Obsidian", "Nether", Diamond),
    CryingObsidian |-> Cell("CryingObsidian", "Nether", Diamond),
    Endstone       |-> Cell("Endstone", "End", Netherite),
    Amethyst       |-> Cell("Amethyst", "End", Netherite)]

(* MineKind: its common cell and its cell of value.                           *)
MineKind == [
    Stone         |-> <<"Stone", "Cobblestone">>,
    Coal          |-> <<"CoalOre", "CoalBlock">>,
    Iron          |-> <<"IronOre", "IronBlock">>,
    Gold          |-> <<"GoldOre", "GoldBlock">>,
    Lapis         |-> <<"LapisOre", "LapisBlock">>,
    Redstone      |-> <<"RedstoneOre", "RedstoneBlock">>,
    Emerald       |-> <<"EmeraldOre", "EmeraldBlock">>,
    Diamond       |-> <<"DiamondOre", "DiamondBlock">>,
    Quartz        |-> <<"Netherrack", "QuartzOre">>,
    AncientDebris |-> <<"AncientDebris", "NetheriteBlock">>,
    Obsidian      |-> <<"Obsidian", "CryingObsidian">>,
    Amethyst      |-> <<"Endstone", "Amethyst">>]
CommonBlock(kind) == Block[MineKind[kind][1]]
ValueBlock(kind) == Block[MineKind[kind][2]]

(* MineKind::lock: both gates are read off the common cell.                   *)
TierOpens(kind, t) == t >= CommonBlock(kind).tier
LevelOpens(kind, l) == IsUnlockedAt(CommonBlock(kind).world, l)
LockOpen(kind, l, t) == LevelOpens(kind, l) /\ TierOpens(kind, t)

(* mutant: a mine that is not enriched draws no cell of value *)
YieldsCommonOnly(kind) == {CommonBlock(kind).material}

(* value_weight: at every setting of the dial both cells have a weight.  Dig  *)
(* does not ask the tier of a block again.                                    *)
Yields(kind) == {CommonBlock(kind).material, ValueBlock(kind).material}

-----------------------------------------------------------------------------
(* PickaxeTier::efficiency_cap, economy::pickaxe_material and the two prices  *)
(* of the pickaxe: a tier is left in its own material, and Netherite's        *)
(* Efficiency is paid out of the Obsidian mine after its fifth level.         *)
EfficiencyCap(t) == IF t = Netherite THEN 15 ELSE 5
PickaxeMaterial == <<"Stone", "Coal", "Iron", "Gold", "Diamond", "AncientDebris">>
EfficiencyPrice(t, held) ==
    IF t = Netherite /\ held >= 5 THEN {"Obsidian", "CryingObsidian"}
    ELSE {PickaxeMaterial[t]}
TierPrice(t) == {PickaxeMaterial[t]}

(* World::for_enchant_level, EnchantType::max_level of all but Efficiency,    *)
(* economy::enchant_fuel and enchant_cost.  Explosive, Jackhammer, Nuke,      *)
(* Excavator and Haste share one list of prices.                              *)
Enchants == {"Fortune", "Special"}
EnchantCap(l) == LET caps == {World[w].cap : w \in WorldsAt(l)}
                 IN  CHOOSE c \in caps : \A d \in caps : d <= c
BandOf(next) == CHOOSE w \in DOMAIN World :
                    /\ next <= World[w].cap
                    /\ \A v \in DOMAIN World :
                           next <= World[v].cap => World[w].cap <= World[v].cap
EnchantFuel == <<{"Stone", "Coal"}, {"Iron", "Gold"}, {"Gold", "Diamond"},
                 {"Netherrack", "AncientDebris"}, {"AncientDebris", "Obsidian"},
                 {"Obsidian", "CryingObsidian"}>>
(* mutant: fuelled by the ores of the rung after *)
EnchantPriceOneRungUp(enchant, held) ==
    IF enchant = "Fortune" THEN {"Emerald"}
    ELSE {World[BandOf(held + 1)].enchant} \union
         IF held + 2 <= Len(EnchantFuel) THEN EnchantFuel[held + 2]
         ELSE {CommonBlock("Amethyst").material}

EnchantPrice(enchant, held) ==
    IF enchant = "Fortune" THEN {"Emerald"}
    ELSE {World[BandOf(held + 1)].enchant} \union
         IF held + 1 <= Len(EnchantFuel) THEN EnchantFuel[held + 1]
         ELSE {CommonBlock("Amethyst").material}

(* economy::mine_cost, of size and of richness: the rare share of the first   *)
(* level is zero.                                                             *)
MaxTrackLevel == 9  (* MAX_SIZE_LEVEL and MAX_RICHNESS_LEVEL *)
TrackPrice(kind, held) ==
    {CommonBlock(kind).material} \union
    IF held > 0 THEN {ValueBlock(kind).material} ELSE {}
=============================================================================
