--------------------------- MODULE Ascent_proofs ---------------------------
(* Theorems about Ascent, over the tables of Catalogue as they stand: for     *)
(* every set of mines whose tracks are followed, up to all of them and to     *)
(* their last level, and any number of prestiges.                             *)
(*                                                                            *)
(* Everything rests on Lodes: what each material of a price takes to be dug.  *)
(* A price of the pickaxe is then a tier's worth of lodes, one of an enchant  *)
(* a level's.                                                                 *)
EXTENDS Ascent, TLAPS

-----------------------------------------------------------------------------
(* The tables of Catalogue. *)

(* A mine that holds m opens at level l and tier t.                           *)
Lode(m, l, t) == \E k \in Mines(m) : LevelOpens(k, l) /\ TierOpens(k, t)

(* The levels that change something, and the cap of an enchant at each.       *)
LEMMA Levels ==
  /\ Gates = {1, 15, 30, 50} /\ LevelCap = 50
  /\ World.End.cap = 10
  /\ \A l \in Gates : EnchantCap(l) = IF l < 15 THEN 3 ELSE IF l < 30 THEN 6 ELSE 10
<1>1. Gates = {1, 15, 30, 50}
  BY DEF Gates, World, LevelCap
<1>2. World["Overworld"].cap = 3 /\ World["Nether"].cap = 6 /\ World["End"].cap = 10
  BY DEF World
<1>3. \A l \in Gates : WorldsAt(l) = IF l < 15 THEN {"Overworld"}
                                     ELSE IF l < 30 THEN {"Overworld", "Nether"}
                                     ELSE {"Overworld", "Nether", "End"}
  BY <1>1 DEF WorldsAt, World, IsUnlockedAt
<1>4. \A l \in Gates : EnchantCap(l) = IF l < 15 THEN 3 ELSE IF l < 30 THEN 6 ELSE 10
  BY <1>1, <1>2, <1>3 DEF EnchantCap
<1>. QED  BY <1>1, <1>2, <1>4 DEF LevelCap, World

(* The world an enchant's next level is paid in.                              *)
LEMMA Bands ==
  \A n \in 1..10 : World[BandOf(n)].enchant = IF n <= 3 THEN "Lapis"
                                              ELSE IF n <= 6 THEN "Quartz" ELSE "Amethyst"
<1>1. DOMAIN World = {"Overworld", "Nether", "End"}
  BY DEF World
<1>2. World["Overworld"].cap = 3 /\ World["Nether"].cap = 6 /\ World["End"].cap = 10
  BY DEF World
<1>3. \A n \in 1..10 : BandOf(n) = IF n <= 3 THEN "Overworld"
                                   ELSE IF n <= 6 THEN "Nether" ELSE "End"
  BY <1>1, <1>2 DEF BandOf
<1>4. /\ World["Overworld"].enchant = "Lapis" /\ World["Nether"].enchant = "Quartz"
      /\ World["End"].enchant = "Amethyst"
  BY DEF World
<1>. QED  BY <1>3, <1>4

(* Where the mines that prices need stand, and what they hold.                *)
LEMMA Grounds ==
  /\ CommonBlock("Stone") = Cell("Stone", "Overworld", 1)
  /\ CommonBlock("Coal") = Cell("Coal", "Overworld", 1)
  /\ CommonBlock("Iron") = Cell("Iron", "Overworld", 2)
  /\ CommonBlock("Lapis") = Cell("Lapis", "Overworld", 2)
  /\ CommonBlock("Gold") = Cell("Gold", "Overworld", 3)
  /\ CommonBlock("Emerald") = Cell("Emerald", "Overworld", 3)
  /\ CommonBlock("Diamond") = Cell("Diamond", "Overworld", 3)
  /\ CommonBlock("Quartz") = Cell("Netherrack", "Nether", 5)
  /\ ValueBlock("Quartz") = Cell("Quartz", "Nether", 5)
  /\ CommonBlock("AncientDebris") = Cell("AncientDebris", "Nether", 5)
  /\ CommonBlock("Obsidian") = Cell("Obsidian", "Nether", 5)
  /\ ValueBlock("Obsidian") = Cell("CryingObsidian", "Nether", 5)
  /\ CommonBlock("Amethyst") = Cell("Endstone", "End", 6)
  /\ ValueBlock("Amethyst") = Cell("Amethyst", "End", 6)
BY DEF CommonBlock, ValueBlock, MineKind, Block, Wooden, Stone, Iron, Diamond, Netherite

(* What each material takes to be dug. *)
LEMMA Lodes ==
  ASSUME NEW l \in Nat, NEW t \in Nat
  PROVE  /\ l >= 1 /\ t >= 1 => Lode("Stone", l, t) /\ Lode("Coal", l, t)
         /\ l >= 1 /\ t >= 2 => Lode("Iron", l, t) /\ Lode("Lapis", l, t)
         /\ l >= 1 /\ t >= 3 => /\ Lode("Gold", l, t) /\ Lode("Emerald", l, t)
                                /\ Lode("Diamond", l, t)
         /\ l >= 15 /\ t >= 5 => /\ Lode("Netherrack", l, t) /\ Lode("Quartz", l, t)
                                 /\ Lode("AncientDebris", l, t)
                                 /\ Lode("Obsidian", l, t) /\ Lode("CryingObsidian", l, t)
         /\ l >= 30 /\ t >= 6 => Lode("Endstone", l, t) /\ Lode("Amethyst", l, t)
<1>. DEFINE Holds(k, m) == k \in DOMAIN MineKind /\ m \in Yields(k)
            Opens(k, w, at) == /\ CommonBlock(k).world = w /\ CommonBlock(k).tier = at
<1>1. /\ Holds("Stone", "Stone") /\ Holds("Coal", "Coal") /\ Holds("Iron", "Iron")
      /\ Holds("Lapis", "Lapis") /\ Holds("Gold", "Gold") /\ Holds("Emerald", "Emerald")
      /\ Holds("Diamond", "Diamond")
      /\ Holds("Quartz", "Netherrack") /\ Holds("Quartz", "Quartz")
      /\ Holds("AncientDebris", "AncientDebris")
      /\ Holds("Obsidian", "Obsidian") /\ Holds("Obsidian", "CryingObsidian")
      /\ Holds("Amethyst", "Endstone") /\ Holds("Amethyst", "Amethyst")
  <2>1. {"Stone", "Coal", "Iron", "Lapis", "Gold", "Emerald", "Diamond", "Quartz",
         "AncientDebris", "Obsidian", "Amethyst"} \subseteq DOMAIN MineKind
    BY DEF MineKind
  <2>. QED  BY <2>1, Grounds DEF Yields, Cell
<1>2. /\ World["Overworld"].level = 1 /\ World["Nether"].level = 15
      /\ World["End"].level = 30
  BY DEF World
<1>3. ASSUME NEW m, NEW k, NEW w, NEW at, Holds(k, m), Opens(k, w, at),
             l >= World[w].level, t >= at
      PROVE  Lode(m, l, t)
  BY <1>3 DEF Lode, Mines, LevelOpens, TierOpens, IsUnlockedAt
<1>4. /\ Opens("Stone", "Overworld", 1) /\ Opens("Coal", "Overworld", 1)
      /\ Opens("Iron", "Overworld", 2) /\ Opens("Lapis", "Overworld", 2)
      /\ Opens("Gold", "Overworld", 3) /\ Opens("Emerald", "Overworld", 3)
      /\ Opens("Diamond", "Overworld", 3)
      /\ Opens("Quartz", "Nether", 5) /\ Opens("AncientDebris", "Nether", 5)
      /\ Opens("Obsidian", "Nether", 5) /\ Opens("Amethyst", "End", 6)
  BY Grounds DEF Cell
<1>. HIDE DEF Holds, Opens
<1>5. l >= 1 /\ t >= 1 => Lode("Stone", l, t) /\ Lode("Coal", l, t)
  BY <1>1, <1>2, <1>3, <1>4
<1>6. l >= 1 /\ t >= 2 => Lode("Iron", l, t) /\ Lode("Lapis", l, t)
  BY <1>1, <1>2, <1>3, <1>4
<1>7. l >= 1 /\ t >= 3 => /\ Lode("Gold", l, t) /\ Lode("Emerald", l, t)
                          /\ Lode("Diamond", l, t)
  BY <1>1, <1>2, <1>3, <1>4
<1>8. l >= 15 /\ t >= 5 => /\ Lode("Netherrack", l, t) /\ Lode("Quartz", l, t)
                           /\ Lode("AncientDebris", l, t)
                           /\ Lode("Obsidian", l, t) /\ Lode("CryingObsidian", l, t)
  BY <1>1, <1>2, <1>3, <1>4
<1>9. l >= 30 /\ t >= 6 => Lode("Endstone", l, t) /\ Lode("Amethyst", l, t)
  BY <1>1, <1>2, <1>3, <1>4
<1>. QED  BY <1>5, <1>6, <1>7, <1>8, <1>9

-----------------------------------------------------------------------------
(* Prices. *)

(* A rung of the pickaxe is paid out of mines the pickaxe in hand opens, once *)
(* the player's level does.                                                   *)
LEMMA RoadIsDug ==
  ASSUME NEW t \in Wooden..Netherite, NEW held \in Nat,
         NEW m \in EfficiencyPrice(t, held) \union TierPrice(t)
  PROVE  Lode(m, LevelCap, t)
<1>1. t \in 1..6 /\ LevelCap = 50
  BY DEF Wooden, Netherite, LevelCap
<1>2. \/ t = 1 /\ m = "Stone"
      \/ t = 2 /\ m = "Coal"
      \/ t = 3 /\ m = "Iron"
      \/ t = 4 /\ m = "Gold"
      \/ t = 5 /\ m = "Diamond"
      \/ t = 6 /\ m \in {"AncientDebris", "Obsidian", "CryingObsidian"}
  BY <1>1 DEF EfficiencyPrice, TierPrice, PickaxeMaterial, Netherite
<1>. QED  BY <1>1, <1>2, Lodes

(* An enchant under its cap is paid out of mines the player's level opens,    *)
(* once the pickaxe does.                                                     *)
LEMMA FuelIsDug ==
  ASSUME NEW l \in Gates, NEW e \in Enchants, NEW held \in Nat, held < EnchantCap(l),
         NEW m \in EnchantPrice(e, held)
  PROVE  Lode(m, l, Netherite)
<1>1. /\ l \in {1, 15, 30, 50} /\ Netherite = 6 /\ held + 1 \in 1..10
      /\ held < (IF l < 15 THEN 3 ELSE IF l < 30 THEN 6 ELSE 10)
  BY Levels DEF Netherite
<1>2. CASE e = "Fortune"
  BY <1>1, <1>2, Lodes DEF EnchantPrice
<1>3. CASE e # "Fortune"
  <2>1. CASE m = World[BandOf(held + 1)].enchant
    <3>1. m = IF held + 1 <= 3 THEN "Lapis" ELSE IF held + 1 <= 6 THEN "Quartz" ELSE "Amethyst"
      BY <1>1, <2>1, Bands
    <3>. QED  BY <1>1, <3>1, Lodes
  <2>2. CASE m # World[BandOf(held + 1)].enchant
    <3>1. m \in IF held + 1 <= 6 THEN EnchantFuel[held + 1] ELSE {CommonBlock("Amethyst").material}
      BY <1>3, <2>2 DEF EnchantPrice, EnchantFuel
    <3>2. CommonBlock("Amethyst").material = "Endstone"
      BY Grounds DEF Cell
    <3>3. \/ held < 3 /\ m \in {"Stone", "Coal", "Iron", "Gold", "Diamond"}
          \/ held \in 3..5 /\ m \in {"Netherrack", "AncientDebris", "Obsidian", "CryingObsidian"}
          \/ held >= 6 /\ m = "Endstone"
      BY <1>1, <3>1, <3>2 DEF EnchantFuel
    <3>. QED  BY <1>1, <3>3, Lodes
  <2>. QED  BY <2>1, <2>2
<1>. QED  BY <1>2, <1>3

(* The tracks of a mine are paid out of that mine. *)
LEMMA TracksAreDug ==
  ASSUME NEW k, NEW held
  PROVE  TrackPrice(k, held) \subseteq Yields(k)
BY DEF TrackPrice, Yields

-----------------------------------------------------------------------------
(* The invariant. *)

(* A run stands at a gate, with a tier, and under every cap.                  *)
TypeOK == /\ level \in Gates
          /\ tier \in Wooden..Netherite /\ efficiency \in 0..EfficiencyCap(tier)
          /\ enchants \in [Enchants -> Nat]
          /\ \A e \in Enchants : enchants[e] <= EnchantCap(level)
          /\ tracks \in [Tracked -> 0..MaxTrack]
          /\ rank \in 0..MaxRank

(* Init => TypeOK. *)
LEMMA InitType == Init => TypeOK
BY Levels, AscentAssumption
   DEF Init, TypeOK, NoEnchants, NoTracks, Wooden, Netherite, EfficiencyCap, MaxTrackLevel

(* Every action preserves TypeOK. *)
LEMMA NextType == TypeOK /\ [Next]_vars => TypeOK'
<1>. SUFFICES ASSUME TypeOK, [Next]_vars PROVE TypeOK'
  OBVIOUS
<1>. USE DEF TypeOK
<1>1. CASE LevelUp
  <2>1. PICK g \in Gates : level' = g /\ g > level
    <3>1. \E g \in Gates : g > level /\ \A h \in Gates : h > level => g <= h
      BY <1>1, Levels DEF LevelUp
    <3>. QED  BY <1>1, <3>1 DEF LevelUp
  <2>2. EnchantCap(level) <= EnchantCap(level') /\ EnchantCap(level) \in Nat
        /\ EnchantCap(level') \in Nat
    BY <2>1, Levels
  <2>3. \A e \in Enchants : enchants'[e] <= EnchantCap(level')
    BY <1>1, <2>2 DEF LevelUp
  <2>. QED  BY <1>1, <2>1, <2>3 DEF LevelUp
<1>2. CASE BuyPickaxeEfficiency
  BY <1>2 DEF BuyPickaxeEfficiency, AtCap, EfficiencyCap
<1>3. CASE BuyPickaxeTier
  BY <1>3 DEF BuyPickaxeTier, EfficiencyCap, Wooden, Netherite
<1>4. ASSUME NEW e \in Enchants, BuyEnchant(e) PROVE TypeOK'
  <2>1. enchants[e] \in Nat /\ EnchantCap(level) \in Nat /\ enchants[e] < EnchantCap(level)
    BY <1>4, Levels DEF BuyEnchant, OnOffer
  <2>. QED  BY <1>4, <2>1 DEF BuyEnchant
<1>5. ASSUME NEW k \in Tracked, BuyTrack(k) PROVE TypeOK'
  BY <1>5, AscentAssumption DEF BuyTrack, MaxTrackLevel
<1>6. CASE Prestige
  BY <1>6, Levels, AscentAssumption
     DEF Prestige, NoEnchants, NoTracks, Wooden, Netherite, EfficiencyCap, MaxTrackLevel
<1>7. CASE UNCHANGED vars
  BY <1>7 DEF vars
<1>. QED  BY <1>1, <1>2, <1>3, <1>4, <1>5, <1>6, <1>7 DEF Next

(* The type invariant of Ascent, with every enchant under the cap of the      *)
(* player's level.                                                            *)
THEOREM TypeCorrect == Spec => []TypeOK
<1>. QED  BY InitType, NextType, PTL DEF Spec

-----------------------------------------------------------------------------
(* The climb. *)

(* What is in reach is what some mine that has opened holds. *)
LEMMA ReachIsDug ==
  ASSUME TypeOK
  PROVE  /\ Open = {k \in DOMAIN MineKind : LockOpen(k, level, tier)}
         /\ \A m : m \in InReach <=> Lode(m, level, tier)
<1>1. Open = {k \in DOMAIN MineKind : LockOpen(k, level, tier)}
  BY DEF TypeOK, Open, OpenAt
<1>2. InReach = UNION {Yields(k) : k \in Open}
  BY DEF TypeOK, InReach, YieldedAt, Open
<1>. QED  BY <1>1, <1>2 DEF Lode, Mines, LockOpen

(* The mine a run starts in never closes. *)
LEMMA HomeIsOpen == TypeOK => "Stone" \in Open
<1>. SUFFICES ASSUME TypeOK PROVE "Stone" \in Open
  OBVIOUS
<1>1. level >= 1 /\ tier >= 1
  BY Levels DEF TypeOK, Wooden, Netherite
<1>2. CommonBlock("Stone").world = "Overworld" /\ CommonBlock("Stone").tier = 1
  BY Grounds DEF Cell
<1>3. World["Overworld"].level = 1 /\ "Stone" \in DOMAIN MineKind
  BY DEF World, MineKind
<1>. QED  BY <1>1, <1>2, <1>3, ReachIsDug DEF LockOpen, LevelOpens, TierOpens, IsUnlockedAt

(* The price of the next rung, if there is one. *)
LEMMA RoadPriced ==
  TypeOK => \A m \in RoadPrice : Lode(m, LevelCap, tier)
BY RoadIsDug DEF TypeOK, RoadPrice, EfficiencyCap

(* No axis waits on itself, in a state that TypeOK describes. *)
LEMMA AxesStandApart == TypeOK => NoAxisWaitsOnItself
<1>. SUFFICES ASSUME TypeOK PROVE NoAxisWaitsOnItself
  OBVIOUS
<1>1. \A m \in Missing(RoadPrice) : \E k \in Mines(m) : TierOpens(k, tier)
  BY RoadPriced DEF Missing, Lode
<1>2. ASSUME NEW e \in Enchants, OnOffer(e), NEW m \in Missing(EnchantPrice(e, enchants[e]))
      PROVE  \E k \in Mines(m) : LevelOpens(k, level)
  <2>1. Lode(m, level, Netherite)
    BY <1>2, FuelIsDug DEF TypeOK, OnOffer, Missing
  <2>. QED  BY <2>1 DEF Lode
<1>3. ASSUME NEW k \in Open \intersect Tracked
      PROVE  Missing(TrackPrice(k, tracks[k])) = {}
  <2>1. Yields(k) \subseteq InReach
    BY ReachIsDug DEF Lode, Mines, LockOpen
  <2>. QED  BY <2>1, TracksAreDug DEF Missing
<1>. QED  BY <1>1, <1>2, <1>3 DEF NoAxisWaitsOnItself

(* Neither axis of the climb waits on itself: a rung of the pickaxe waits at  *)
(* most for a level, an enchant at most for a pickaxe, tracks for nothing.    *)
THEOREM NoAxis == Spec => []NoAxisWaitsOnItself
<1>. QED  BY TypeCorrect, AxesStandApart, PTL

(* The guards of Next.                                                        *)
OnSale == \/ Open # {} /\ level < LevelCap
          \/ ~AtCap /\ RoadPrice \subseteq InReach
          \/ AtCap /\ tier < Netherite /\ RoadPrice \subseteq InReach
          \/ \E e \in Enchants : OnOffer(e) /\ EnchantPrice(e, enchants[e]) \subseteq InReach
          \/ \E k \in Open \intersect Tracked :
                 tracks[k] < MaxTrack /\ TrackPrice(k, tracks[k]) \subseteq InReach
          \/ /\ level = LevelCap /\ tier = Netherite
             /\ "Amethyst" \in InReach /\ rank < MaxRank

(* No order of purchases strands a run: until it is realised at the last      *)
(* rank, something can be done.                                               *)
NeverStranded == (rank = MaxRank /\ Realised) \/ OnSale

(* At the last gate a rung is never refused, nor, with the last pickaxe, any  *)
(* other purchase.                                                            *)
LEMMA SomethingIsOnSale == TypeOK => NeverStranded
<1>. SUFFICES ASSUME TypeOK, ~ OnSale PROVE rank = MaxRank /\ Realised
  BY DEF NeverStranded
<1>1. level = LevelCap
  BY HomeIsOpen, Levels DEF TypeOK, OnSale
<1>2. RoadPrice \subseteq InReach
  BY <1>1, RoadPriced, ReachIsDug
<1>3. AtCap /\ tier = Netherite
  BY <1>2 DEF OnSale, TypeOK, Wooden, Netherite
<1>4. \A m : Lode(m, LevelCap, Netherite) => m \in InReach
  BY <1>1, <1>3, ReachIsDug
<1>5. "Amethyst" \in InReach
  <2>1. Lode("Amethyst", LevelCap, Netherite)
    BY Lodes, Levels DEF Netherite
  <2>. QED  BY <1>4, <2>1
<1>6. rank = MaxRank
  BY <1>1, <1>3, <1>5, AscentAssumption DEF OnSale, TypeOK
<1>7. ASSUME NEW e \in Enchants PROVE enchants[e] = World.End.cap
  <2>1. EnchantCap(level) = 10 /\ World.End.cap = 10 /\ enchants[e] \in Nat /\ enchants[e] <= 10
    BY <1>1, Levels DEF TypeOK
  <2>2. ASSUME enchants[e] < 10 PROVE FALSE
    <3>1. \A m \in EnchantPrice(e, enchants[e]) : Lode(m, level, Netherite)
      BY <2>1, <2>2, FuelIsDug DEF TypeOK
    <3>2. EnchantPrice(e, enchants[e]) \subseteq InReach
      BY <1>1, <1>4, <3>1
    <3>. QED  BY <2>1, <2>2, <3>2 DEF OnSale, OnOffer
  <2>. QED  BY <2>1, <2>2
<1>8. ASSUME NEW k \in Tracked PROVE tracks[k] = MaxTrack
  <2>1. k \in Open
    <3>1. k \in DOMAIN MineKind
      BY AscentAssumption
    <3>2. CommonBlock(k).world \in DOMAIN World /\ CommonBlock(k).tier \in 1..6
      BY <3>1 DEF CommonBlock, MineKind, Block, World, Cell,
                  Wooden, Stone, Iron, Diamond, Netherite, Gold
    <3>3. World[CommonBlock(k).world].level \in 1..30
      BY <3>2 DEF World
    <3>. QED
      BY <1>1, <1>3, <3>1, <3>2, <3>3, ReachIsDug, Levels
         DEF LockOpen, LevelOpens, TierOpens, IsUnlockedAt, Netherite
  <2>2. TrackPrice(k, tracks[k]) \subseteq InReach
    <3>1. Yields(k) \subseteq InReach
      BY <2>1, ReachIsDug DEF Lode, Mines, LockOpen
    <3>. QED  BY <3>1, TracksAreDug
  <2>3. tracks[k] \in 0..MaxTrack /\ MaxTrack \in Nat
    BY AscentAssumption DEF TypeOK, MaxTrackLevel
  <2>. QED  BY <2>1, <2>2, <2>3 DEF OnSale
<1>. QED  BY <1>1, <1>3, <1>6, <1>7, <1>8 DEF Realised

(* A run is never stranded. *)
THEOREM SomethingIsOnOffer == Spec => []NeverStranded
<1>. QED  BY TypeCorrect, SomethingIsOnSale, PTL
=============================================================================
