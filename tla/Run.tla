-------------------------------- MODULE Run --------------------------------
(***************************************************************************)
(* skylode-core/src/game.rs: one run of the game - the player's climb, the *)
(* purse, the boosts, the auto-miner, the lifetime counters - under every  *)
(* call a front-end may make of it, and the audit a save must pass to be   *)
(* opened again (`GameState::validate`).                                   *)
(*                                                                         *)
(* The mine is reduced to what a swing brings down (how many blocks, the   *)
(* experience and the ore in them) and to its dial.  The materials are     *)
(* reduced to one, in its two denominations, and the six enchants the      *)
(* world caps to Fortune, the one whose level multiplies ore.              *)
(***************************************************************************)
EXTENDS Integers, FiniteSets, FiniteSetsExt

CONSTANTS
    LevelCap,           \* LEVEL_CAP
    XpStep,             \* experience level 1 asks for; level n asks n times that
    Ore,                \* Ore[l]: ore the reward of level l pays, 0 for a world
    ChargeEvery,        \* LEVEL_REWARD_BOOST_EVERY
    MaxOre,             \* the audit's bound on one reward
    Permille,           \* PERMILLE
    MultPerRank,        \* PRESTIGE_MULT_PER_RANK_PERMILLE
    ClimbPrice,         \* AMETHYST_PER_CLIMB
    SurchargeBase,      \* PRESTIGE_SURCHARGE_BASE
    SurchargePerRank,   \* PRESTIGE_SURCHARGE_PER_RANK_PERMILLE
    EfficiencyCap,      \* EfficiencyCap[t]: PickaxeTier::efficiency_cap
    FortuneCap,         \* FortuneCap[l]: enchant_cap of the best world at level l
    Price,              \* Price[what]: raw total of a purchase
    RawPerCompressed,   \* RAW_PER_COMPRESSED
    MaxCount,           \* u32::MAX: where a pile stops growing
    BoostTicks,         \* BOOST_DURATION_TICKS
    MaxCells,           \* MAX_CELLS: blocks a swing can bring down
    MaxXp, MaxDrop,     \* most experience, most ore, in one block
    Dials,              \* value weights the dial can be at, in percent
    CommonDrop, ValueDrop,  \* ore in the auto-miner's two blocks
    AutoRate,           \* microblocks the auto-miner digs in a tick
    Block,              \* MICROBLOCKS_PER_BLOCK
    Schemas,            \* versions a run may have been started under
    OlderAbsence,       \* length of an absence under an older build
    Absences,           \* lengths of an absence, in ticks, under OFFLINE_CAP
    MaxPlaytime,        \* bound: ticks played
    MaxAbsences,        \* bound: absences
    MaxPrestige         \* bound: ranks

Levels == 1..LevelCap
Tiers == DOMAIN EfficiencyCap
TopTier == Max(Tiers)
Rewarded == 2..LevelCap
SaveVersion == 3

ASSUME RunConstants ==
    /\ LevelCap \in Nat \ {0} /\ XpStep \in Nat \ {0}
    /\ Ore \in [Rewarded -> 0..MaxOre] /\ MaxOre \in Nat
    /\ ChargeEvery \in Nat \ {0}
    /\ Permille \in Nat \ {0} /\ MultPerRank \in Nat
    /\ ClimbPrice \in Nat /\ SurchargeBase \in Nat /\ SurchargePerRank \in Nat
    /\ EfficiencyCap \in [Tiers -> Nat] /\ TopTier \in Nat /\ Tiers = 0..TopTier
    /\ FortuneCap \in [Levels -> Nat]
    /\ \A l \in Levels : \A m \in Levels : l <= m => FortuneCap[l] <= FortuneCap[m]
    /\ Price \in [{"efficiency", "tier", "fortune", "boost"} -> Nat]
    /\ RawPerCompressed \in Nat \ {0} /\ MaxCount \in Nat
    /\ BoostTicks \in Nat \ {0}
    /\ MaxCells \in Nat \ {0} /\ MaxXp \in Nat \ {0} /\ MaxDrop \in Nat \ {0}
    /\ Dials \subseteq 0..100 /\ Dials # {}
    /\ CommonDrop \in 1..MaxDrop /\ ValueDrop \in 1..MaxDrop
    /\ AutoRate \in Nat /\ Block \in Nat \ {0}
    /\ Schemas \subseteq 1..SaveVersion /\ OlderAbsence \in Nat
    /\ Absences \subseteq Nat \ {0}
    /\ MaxPlaytime \in Nat /\ MaxAbsences \in Nat /\ MaxPrestige \in Nat

(* The rates of tunables.rs divide exactly, at every rank: 11,000          *)
(* microblocks times 1,000 + 100 * rank permille is a number of percents.  *)
ASSUME RatesAreExact ==
    /\ (AutoRate * MultPerRank) % (Permille * 100) = 0
    /\ (AutoRate * Permille) % (Permille * 100) = 0

VARIABLES
    player,         \* level, experience, xpCarry, prestige, tier, efficiency, fortune
    inventory,      \* the pile, in its two denominations
    unclaimed,      \* levels whose reward is waiting
    charges,        \* boost_charges
    boost,          \* active_boost: ticks left and ticks granted, 0 left for none
    dial,           \* the mine's value weight, in percent
    auto,           \* auto_common_progress and auto_value_progress
    yieldCarry,     \* yield_carry, one per denomination
    broken,         \* blocks_broken
    playtime,       \* playtime
    runPlaytime,    \* run_playtime
    autoRaw,        \* auto_raw_credited
    absences,       \* absences so far
    schema,         \* version of the format the run is written in
    ledger          \* history of the climb, read by no action: see Ledger

vars == <<player, inventory, unclaimed, charges, boost, dial, auto, yieldCarry,
          broken, playtime, runPlaytime, autoRaw, absences, schema, ledger>>

(***************************************************************************)
(* What the climb is owed: the levels it has claimed; the experience its   *)
(* blocks held, in permille; all the ore given to it, less all it spent    *)
(* and what a pile at its ceiling lost, in permille of raw items; charges  *)
(* bought or granted and not fired; boost ticks fired and not run down;    *)
(* microblocks dug and not paid for, in permille.                          *)
(***************************************************************************)
Ledger == [claimed : SUBSET Rewarded, xp : Nat, ore : Int, charges : Int,
           boost : Int, auto : Int]

Purse == [raw : Nat, compressed : Nat]
Empty == [raw |-> 0, compressed |-> 0]
NoBoost == [left |-> 0, granted |-> 0]

NewPlayer(rank) ==
    [level |-> 1, experience |-> 0, xpCarry |-> 0, prestige |-> rank,
     tier |-> 0, efficiency |-> 0, fortune |-> 0]

NewLedger ==
    [claimed |-> {}, xp |-> 0, ore |-> 0, charges |-> 0, boost |-> 0, auto |-> 0]

TypeOK ==
    /\ player \in [level : Levels, experience : Nat, xpCarry : Nat, prestige : Nat,
                   tier : Tiers, efficiency : Nat, fortune : Nat]
    /\ inventory \in [raw : 0..MaxCount, compressed : 0..MaxCount]
    /\ unclaimed \subseteq Rewarded
    /\ charges \in Nat
    /\ boost \in [left : Nat, granted : Nat]
    /\ dial \in Dials
    /\ auto \in [common : Nat, value : Nat]
    /\ yieldCarry \in Purse
    /\ broken \in Nat /\ playtime \in Nat /\ runPlaytime \in Nat /\ autoRaw \in Nat
    /\ absences \in Nat
    /\ schema \in 1..SaveVersion
    /\ ledger \in Ledger

Init ==
    /\ player = NewPlayer(0)
    /\ inventory = Empty
    /\ unclaimed = {}
    /\ charges = 0
    /\ boost = NoBoost
    /\ dial \in Dials
    /\ auto = [common |-> 0, value |-> 0]
    /\ yieldCarry = Empty
    /\ broken = 0 /\ playtime = 0 /\ runPlaytime = 0 /\ autoRaw = 0
    /\ absences = 0
    /\ schema \in Schemas
    /\ ledger = NewLedger
----------------------------------------------------------------------------
(* The purse. *)

(* `Inventory::add`, which saturates. *)
Saturated(count) == IF count > MaxCount THEN MaxCount ELSE count

Added(purse, raw, compressed) ==
    [raw |-> Saturated(purse.raw + raw),
     compressed |-> Saturated(purse.compressed + compressed)]

(* `CostLine::from_raw_total`: the price in whole compressed units and raw *)
(* change; `pay` takes each from its own pile and makes no change.         *)
Cost(total) ==
    [raw |-> total % RawPerCompressed, compressed |-> total \div RawPerCompressed]

CanAfford(cost) == inventory.raw >= cost.raw /\ inventory.compressed >= cost.compressed

Debited(cost) ==
    [raw |-> inventory.raw - cost.raw, compressed |-> inventory.compressed - cost.compressed]

TotalRaw(purse) == purse.raw + RawPerCompressed * purse.compressed

(* What the purse stands for in permille of raw items, carries included.   *)
Standing == Permille * TotalRaw(inventory)
            + yieldCarry.raw + RawPerCompressed * yieldCarry.compressed

(* The ledger of a step that gives the purse permille more ore.  Ore is    *)
(* written off only in a step that leaves a pile at its ceiling, and only  *)
(* what is missing.                                                        *)
AtCeiling == inventory.raw = MaxCount \/ inventory.compressed = MaxCount
Booked(owed, permille) ==
    [owed EXCEPT !.ore = IF AtCeiling' /\ Standing' < @ + permille THEN Standing'
                                                                   ELSE @ + permille]
----------------------------------------------------------------------------
(* The multiplier and what is paid through it. *)

Multiplier(rank) == Permille + MultPerRank * rank    \* multiplier_permille

(* `apply_with_carry`: what is paid now, and what is carried to next time. *)
PaidNowAlone(amount, carry) ==       \* mutant: the carry is kept and never paid
    (amount * Multiplier(player.prestige)) \div Permille
PaidNow(amount, carry) == (amount * Multiplier(player.prestige) + carry) \div Permille
CarriedOn(amount, carry) == (amount * Multiplier(player.prestige) + carry) % Permille

FortuneMultiplier == 1 + player.fortune

(* Experience: `xp_for_level`, and the sum of it `xp_to_reach` walks.      *)
XpForLevel(level) == level * XpStep
XpToReach(level) == XpStep * ((level * (level - 1)) \div 2)

(* Where the `while` of `add_experience` stops: as far as the experience   *)
(* buys levels; at the cap what is left over is discarded.                 *)
Climbs(reached, experience) ==
    /\ XpToReach(reached) <= XpToReach(player.level) + experience
    /\ reached = LevelCap \/ XpToReach(player.level) + experience < XpToReach(reached + 1)

(* Mutant: a level gained empties the bar. *)
LeftoverDropped(reached, experience) ==
    IF reached > player.level THEN 0 ELSE experience

Leftover(reached, experience) ==
    IF reached = LevelCap THEN 0
    ELSE XpToReach(player.level) + experience - XpToReach(reached)

(* `reward_for_level`, of several levels: a charge every few of them, and   *)
(* the sum of their Ore, counted item by item.                             *)
RewardCharges(levels) == Cardinality({l \in levels : l % ChargeEvery = 0})
RewardOre(levels) == Cardinality({x \in levels \X (1..MaxOre) : x[2] <= Ore[x[1]]})

(* Mutant: only the level a swing ends on is filed. *)
FiledLastLevel(reached) ==
    IF reached > player.level THEN unclaimed \cup {reached} ELSE unclaimed

(* `file_crossed_levels`: a swing that crosses several files them all.     *)
Filed(reached) == unclaimed \cup (player.level + 1)..reached
----------------------------------------------------------------------------
(* The auto-miner: `credit_auto_mining` of a number of ticks.              *)
PerPercent(ticks) ==
    ((ticks * AutoRate * Multiplier(player.prestige)) \div Permille) \div 100

Progress(ticks) ==
    [common |-> auto.common + PerPercent(ticks) * (100 - dial),
     value |-> auto.value + PerPercent(ticks) * dial]

(* Whole blocks are paid, the rest of each kind is carried. *)
AutoCarried(ticks) ==
    [common |-> Progress(ticks).common % Block, value |-> Progress(ticks).value % Block]

AutoDug(ticks) ==
    FortuneMultiplier * (CommonDrop * (Progress(ticks).common \div Block)
                         + ValueDrop * (Progress(ticks).value \div Block))

(* Each kind is counted in a u32, and so is their sum when both drop the   *)
(* same; the u64 counters are taken to have no end.                        *)
AutoPaid(ticks) ==
    Saturated(
        Saturated(FortuneMultiplier * (CommonDrop * (Progress(ticks).common \div Block)))
        + Saturated(FortuneMultiplier * (ValueDrop * (Progress(ticks).value \div Block))))

(* What is still owed for them, with no division: in microblocks, permille. *)
AutoOwed(ticks) ==
    ticks * AutoRate * Multiplier(player.prestige)
        - Permille * Block
            * ((Progress(ticks).common \div Block) + (Progress(ticks).value \div Block))

Ticked == IF boost.left <= 1 THEN NoBoost ELSE [boost EXCEPT !.left = @ - 1]

(***************************************************************************)
(* The clocks, the boost and the auto-miner of a tick, whatever the key is *)
(* doing; more ore, raw and compressed, comes from the swing.              *)
(***************************************************************************)
TickAround(raw, compressed, swung) ==
    /\ playtime < MaxPlaytime
    /\ playtime' = playtime + 1
    /\ runPlaytime' = runPlaytime + 1
    /\ boost' = Ticked
    /\ auto' = AutoCarried(1)
    /\ autoRaw' = autoRaw + AutoPaid(1)
    /\ inventory' = Added(Added(inventory, AutoPaid(1), 0), raw, compressed)
    /\ ledger' = Booked([swung EXCEPT !.auto = @ + AutoOwed(1),
                                      !.boost = @ - (IF boost.left > 0 THEN 1 ELSE 0)],
                        Permille * AutoDug(1))
    /\ UNCHANGED <<charges, dial, absences>>

(* A tick without the key, or whose swing does not finish the block.       *)
Tick ==
    /\ UNCHANGED <<player, unclaimed, yieldCarry, broken>>
    /\ TickAround(0, 0, ledger)

(***************************************************************************)
(* A tick whose swing brings down count blocks holding xp experience.  The *)
(* Excavator may have fired: the block it fired on gives a Compressed item *)
(* and not its drop.  ore is the drops of the others, before Fortune.      *)
(***************************************************************************)
Broken(count, xp, excavated, ore, reached) ==
    LET raw == ore * FortuneMultiplier
        compressed == IF excavated THEN 1 ELSE 0
        gained == PaidNow(xp, player.xpCarry)
        paid == [raw |-> PaidNow(raw, yieldCarry.raw),
                 compressed |-> PaidNow(compressed, yieldCarry.compressed)]
    IN  /\ Climbs(reached, player.experience + gained)
        /\ player' = [player EXCEPT
                !.level = reached,
                !.experience = Leftover(reached, player.experience + gained),
                !.xpCarry = CarriedOn(xp, player.xpCarry)]
        /\ unclaimed' = Filed(reached)
        /\ broken' = broken + count
        /\ yieldCarry' = [raw |-> CarriedOn(raw, yieldCarry.raw),
                          compressed |-> CarriedOn(compressed, yieldCarry.compressed)]
        /\ TickAround(paid.raw, paid.compressed,
                [ledger EXCEPT
                    !.xp = @ + xp * Multiplier(player.prestige),
                    !.ore = @ + (raw + RawPerCompressed * compressed)
                                    * Multiplier(player.prestige)])

Swing ==
    \E count \in 1..MaxCells, excavated \in BOOLEAN :
        \E xp \in count..(count * MaxXp) :
            LET dropping == IF excavated THEN count - 1 ELSE count
            IN  \E ore \in dropping..(dropping * MaxDrop), reached \in player.level..LevelCap :
                    Broken(count, xp, excavated, ore, reached)

(* `resume` after an absence, by as many ticks as the cap let count.       *)
Resume(ticks) ==
    /\ absences < MaxAbsences
    /\ absences' = absences + 1
    /\ auto' = AutoCarried(ticks)
    /\ autoRaw' = autoRaw + AutoPaid(ticks)
    /\ inventory' = Added(inventory, AutoPaid(ticks), 0)
    /\ UNCHANGED <<player, unclaimed, charges, boost, dial, yieldCarry, broken,
                   playtime, runPlaytime>>
    /\ ledger' = Booked([ledger EXCEPT !.auto = @ + AutoOwed(ticks)],
                        Permille * AutoDug(ticks))

(* Mutant: moving the dial forfeits what the auto-miner was digging. *)
SetDialForfeiting(weight) ==
    /\ weight # dial
    /\ dial' = weight
    /\ auto' = [common |-> 0, value |-> 0]
    /\ UNCHANGED <<player, inventory, unclaimed, charges, boost, yieldCarry,
                   broken, playtime, runPlaytime, autoRaw, absences, ledger>>

(* The dial is moved, or another mine is entered. *)
SetDial(weight) ==
    /\ weight # dial
    /\ dial' = weight
    /\ UNCHANGED <<player, inventory, unclaimed, charges, boost, auto, yieldCarry,
                   broken, playtime, runPlaytime, autoRaw, absences, ledger>>
----------------------------------------------------------------------------
(* Rewards and boosts. *)

Claim(levels) ==
    /\ unclaimed' = unclaimed \ levels
    /\ inventory' = Added(inventory, RewardOre(levels), 0)
    /\ charges' = charges + RewardCharges(levels)
    /\ UNCHANGED <<player, boost, dial, auto, yieldCarry, broken, playtime,
                   runPlaytime, autoRaw, absences>>
    /\ ledger' = Booked([ledger EXCEPT !.claimed = @ \cup levels,
                                       !.charges = @ + RewardCharges(levels)],
                        Permille * RewardOre(levels))

(* `claim_level`, and `claim_all`: every waiting level, in one call.       *)
ClaimLevel == \E level \in unclaimed : Claim({level})
ClaimAll == unclaimed # {} /\ Claim(unclaimed)

BuyBoostCharge ==
    /\ CanAfford(Cost(Price.boost))
    /\ inventory' = Debited(Cost(Price.boost))
    /\ charges' = charges + 1
    /\ UNCHANGED <<player, unclaimed, boost, dial, auto, yieldCarry, broken, playtime,
                   runPlaytime, autoRaw, absences>>
    /\ ledger' = Booked([ledger EXCEPT !.charges = @ + 1], -(Permille * Price.boost))

(* Mutant: the reserve is not looked at. *)
FireBoostUnchecked ==
    /\ charges' = charges - 1
    /\ boost' = [left |-> boost.left + BoostTicks, granted |-> boost.granted + BoostTicks]
    /\ ledger' = [ledger EXCEPT !.charges = @ - 1, !.boost = @ + BoostTicks]
    /\ UNCHANGED <<player, inventory, unclaimed, dial, auto, yieldCarry, broken, playtime,
                   runPlaytime, autoRaw, absences>>

(* Mutant: firing onto a running boost refreshes it. *)
FireBoostRefreshing ==
    /\ charges > 0
    /\ charges' = charges - 1
    /\ boost' = [left |-> BoostTicks, granted |-> BoostTicks]
    /\ ledger' = [ledger EXCEPT !.charges = @ - 1, !.boost = @ + BoostTicks]
    /\ UNCHANGED <<player, inventory, unclaimed, dial, auto, yieldCarry, broken, playtime,
                   runPlaytime, autoRaw, absences>>

(* `fire_boost`: a new boost, or a longer one; both counters move.         *)
FireBoost ==
    /\ charges > 0
    /\ charges' = charges - 1
    /\ boost' = [left |-> boost.left + BoostTicks, granted |-> boost.granted + BoostTicks]
    /\ ledger' = [ledger EXCEPT !.charges = @ - 1, !.boost = @ + BoostTicks]
    /\ UNCHANGED <<player, inventory, unclaimed, dial, auto, yieldCarry, broken, playtime,
                   runPlaytime, autoRaw, absences>>
----------------------------------------------------------------------------
(* The counter and the pickaxe. *)

Exchange(purse) ==
    /\ inventory' = purse
    /\ UNCHANGED <<player, unclaimed, charges, boost, dial, auto, yieldCarry, broken,
                   playtime, runPlaytime, autoRaw, absences>>
    /\ ledger' = Booked(ledger, 0)

(* The dialog asks for at least one unit, and at most what the pile gives. *)
Compress ==
    \E units \in 1..(inventory.raw \div RawPerCompressed) :
        Exchange(Added([inventory EXCEPT !.raw = @ - units * RawPerCompressed], 0, units))

Decompress ==
    \E units \in 1..inventory.compressed :
        Exchange(Added([inventory EXCEPT !.compressed = @ - units], units * RawPerCompressed, 0))

Buy(what, upgraded) ==
    /\ CanAfford(Cost(Price[what]))
    /\ inventory' = Debited(Cost(Price[what]))
    /\ player' = upgraded
    /\ UNCHANGED <<unclaimed, charges, boost, dial, auto, yieldCarry, broken, playtime,
                   runPlaytime, autoRaw, absences>>
    /\ ledger' = Booked(ledger, -(Permille * Price[what]))

BuyPickaxeEfficiency ==
    /\ player.efficiency < EfficiencyCap[player.tier]
    /\ Buy("efficiency", [player EXCEPT !.efficiency = @ + 1])

(* The jump resets Efficiency, and is sold only once it is maxed.          *)
BuyPickaxeTier ==
    /\ player.efficiency >= EfficiencyCap[player.tier]
    /\ player.tier < TopTier
    /\ Buy("tier", [player EXCEPT !.tier = @ + 1, !.efficiency = 0])

BuyEnchant ==
    /\ player.fortune < FortuneCap[player.level]
    /\ Buy("fortune", [player EXCEPT !.fortune = @ + 1])

PrestigePrice(rank) ==
    ClimbPrice + (SurchargeBase * (Permille + SurchargePerRank * rank)) \div Permille

(***************************************************************************)
(* `prestige`: the top level and the top tier (Efficiency does not count), *)
(* paid for in ore; everything starts over but the lifetime counters.      *)
(***************************************************************************)
Prestige ==
    /\ player.level >= LevelCap /\ player.tier >= TopTier
    /\ CanAfford(Cost(PrestigePrice(player.prestige)))
    /\ player.prestige < MaxPrestige
    /\ player' = NewPlayer(player.prestige + 1)
    /\ inventory' = Empty
    /\ unclaimed' = {}
    /\ charges' = 0
    /\ boost' = NoBoost
    /\ dial' = Min(Dials)
    /\ auto' = [common |-> 0, value |-> 0]
    /\ yieldCarry' = Empty
    /\ runPlaytime' = 0
    /\ ledger' = NewLedger
    /\ UNCHANGED <<broken, playtime, autoRaw, absences>>

(* Mutant: the missing totals start from nothing. *)
MigrateFromNothing ==
    /\ schema < SaveVersion
    /\ schema' = SaveVersion
    /\ autoRaw' = IF schema = 1 THEN 0 ELSE autoRaw
    /\ boost' = [boost EXCEPT !.granted = boost.left]
    /\ UNCHANGED <<player, inventory, unclaimed, charges, dial, auto, yieldCarry,
                   broken, playtime, runPlaytime, absences, ledger>>

(***************************************************************************)
(* save.rs, migrate: a run an older build wrote is opened by this one.     *)
(* Version 1 has no total of the auto-miner: the ore held stands for it.   *)
(* Neither 1 nor 2 has a total of the boost: what is left stands for it.   *)
(***************************************************************************)
Migrate ==
    /\ schema < SaveVersion
    /\ schema' = SaveVersion
    /\ autoRaw' = IF schema = 1 THEN TotalRaw(inventory) ELSE autoRaw
    /\ boost' = [boost EXCEPT !.granted = boost.left]
    /\ UNCHANGED <<player, inventory, unclaimed, charges, dial, auto, yieldCarry,
                   broken, playtime, runPlaytime, absences, ledger>>

Play ==
    \/ Tick \/ Swing
    \/ \E ticks \in Absences : Resume(ticks)
    \/ \E weight \in Dials : SetDial(weight)
    \/ ClaimLevel \/ ClaimAll \/ BuyBoostCharge \/ FireBoost
    \/ Compress \/ Decompress
    \/ BuyPickaxeEfficiency \/ BuyPickaxeTier \/ BuyEnchant
    \/ Prestige

(* A run that an older build left alone for long, and then boosted with     *)
(* what its auto-miner had dug.  It is taken to have played by these rules; *)
(* the totals it did not write are in the model all the same, and Migrate   *)
(* replaces them.                                                           *)
Older == Resume(OlderAbsence) \/ Compress \/ BuyBoostCharge \/ FireBoost \/ Tick

Next ==
    \/ schema = SaveVersion /\ Play /\ UNCHANGED schema
    \/ schema < SaveVersion /\ Older /\ UNCHANGED schema
    \/ Migrate

Spec == Init /\ [][Next]_vars
----------------------------------------------------------------------------
(* `GameState::validate` and what it calls: what a file must satisfy to be *)
(* opened.  First what it asks of each part, *)
PlayerIsValid ==
    /\ player.level \in Levels
    /\ player.xpCarry < Permille
    /\ player.level < LevelCap => player.experience < XpForLevel(player.level)
    /\ player.efficiency <= EfficiencyCap[player.tier]
    /\ player.fortune <= FortuneCap[player.level]

PartsAreValid ==
    /\ boost.left <= boost.granted
    /\ auto.common < Block /\ auto.value < Block
    /\ yieldCarry.raw < Permille /\ yieldCarry.compressed < Permille
    /\ \A level \in unclaimed : level <= player.level /\ level \in Rewarded
    /\ runPlaytime <= playtime

(* then `audit`: blocks against the clock, the climb against the blocks,   *)
(* the purse against the blocks, the rewards and the auto-miner.           *)
BlocksAreAccounted == broken <= playtime * MaxCells

Climbed ==
    XpToReach(LevelCap) * player.prestige + XpToReach(player.level) + player.experience

ClimbIsAccounted ==
    Climbed <= (broken * MaxXp * Multiplier(player.prestige)) \div Permille + 1

MaxRawPerBlock == Max({MaxDrop * (1 + FortuneCap[LevelCap]), RawPerCompressed})

PurseIsAccounted ==
    TotalRaw(inventory) <=
        ((broken * MaxRawPerBlock + MaxOre * LevelCap * (player.prestige + 1))
            * Multiplier(player.prestige)) \div Permille + autoRaw

(***************************************************************************)
(* Whatever the player does, the run they have can be saved and opened     *)
(* again: no order of swings, absences, purchases, claims and prestiges    *)
(* reaches a state that `validate` (game.rs:432-570) would refuse, and a   *)
(* run that an older build began is no exception once it is migrated.      *)
(***************************************************************************)
RunAlwaysLoads == schema = SaveVersion =>
    PlayerIsValid /\ PartsAreValid /\ BlocksAreAccounted /\ ClimbIsAccounted /\ PurseIsAccounted

(***************************************************************************)
(* Each level of a climb pays its reward exactly once: every rewarded      *)
(* level reached is waiting or claimed, and none is both, however many a   *)
(* swing crosses and in whatever order they are claimed                    *)
(* (file_crossed_levels, game.rs:1242-1250).                               *)
(***************************************************************************)
RewardsArePaidOnce ==
    /\ unclaimed \cap ledger.claimed = {}
    /\ unclaimed \cup ledger.claimed = 2..player.level

(***************************************************************************)
(* No experience is lost or made up below the cap: what the blocks of this *)
(* climb held, multiplied, is what the level, the experience and the carry *)
(* stand for (grant_break_experience, player.rs:211-221).                  *)
(***************************************************************************)
ExperienceIsConserved ==
    LET standing == Permille * (XpToReach(player.level) + player.experience) + player.xpCarry
    IN  /\ standing <= ledger.xp
        /\ player.level < LevelCap => standing = ledger.xp

(***************************************************************************)
(* The purse is what the climb was given less what it spent, to the        *)
(* thousandth of an item: what the swings felled and the auto-miner dug,   *)
(* multiplied, with the fractions still carried, and the rewards, less the *)
(* list price of every purchase, whatever was compressed and decompressed  *)
(* in between.  A step that leaves a pile at its ceiling may lose some of  *)
(* it and makes none up (credit_loot, game.rs:1297-1307; add, decompress,  *)
(* inventory.rs:62-65, 150-157).                                           *)
(***************************************************************************)
LootIsConserved == Standing = ledger.ore

(***************************************************************************)
(* Every charge, bought or granted, is in reserve or was fired, and every  *)
(* one fired buys its whole duration: ticks run down and ticks left add up *)
(* to what was fired, however charges are stacked (boost.rs, extend).      *)
(***************************************************************************)
BoostsRunInFull ==
    /\ charges = ledger.charges
    /\ boost.left = ledger.boost

(***************************************************************************)
(* The auto-miner pays for every microblock it digs, one tick at a time or *)
(* a whole absence at once, and whatever the dial was moved to in between  *)
(* (credit_auto_mining, game.rs:1360-1412).                                *)
(***************************************************************************)
AutoMiningIsConserved == Permille * (auto.common + auto.value) = ledger.auto
=============================================================================
