----------------------------- MODULE Run_proofs -----------------------------
(* Proofs about Run, for any ladder, any prices, any drops and any absence.  *)
EXTENDS Run, FiniteSetTheorems, WellFoundedInduction, TLAPS

(***************************************************************************)
(* What the audit allows, kept exactly.  In permille, the climb and its    *)
(* carry are paid for by the blocks; the purse, with the carry of each     *)
(* denomination, by the blocks, the claimed rewards and the auto-miner.    *)
(* The bounds of `audit` are these with the fractions rounded away, and    *)
(* would not survive a step as they stand.                                 *)
(***************************************************************************)
ClimbIsEarned ==
    Permille * Climbed + player.xpCarry
        <= broken * MaxXp * Multiplier(player.prestige)

PurseIsEarned ==
    Permille * TotalRaw(inventory) + yieldCarry.raw + RawPerCompressed * yieldCarry.compressed
        <= broken * MaxRawPerBlock * Multiplier(player.prestige)
           + Permille * (MaxOre * Cardinality(ledger.claimed))
           + Permille * autoRaw

(* An older build leaves no carry: a run is swung for under this one only.  *)
NothingCarriedBefore == schema < SaveVersion => yieldCarry = Empty

Inv ==
    /\ TypeOK
    /\ RewardsArePaidOnce
    /\ ExperienceIsConserved
    /\ LootIsConserved
    /\ BoostsRunInFull
    /\ AutoMiningIsConserved
    /\ PlayerIsValid
    /\ PartsAreValid
    /\ BlocksAreAccounted
    /\ ClimbIsEarned
    /\ PurseIsEarned
    /\ NothingCarriedBefore
-----------------------------------------------------------------------------
(* Arithmetic. *)

LEMMA DivMod ==
  ASSUME NEW x \in Nat, NEW d \in Nat \ {0}
  PROVE  /\ x = d * (x \div d) + (x % d)
         /\ x % d \in 0..(d - 1)
         /\ x \div d \in Nat
OBVIOUS

LEMMA DivOf ==
  ASSUME NEW k \in Nat, NEW d \in Nat \ {0}
  PROVE  (d * k) \div d = k
OBVIOUS

LEMMA DivBound ==
  ASSUME NEW x \in Nat, NEW d \in Nat \ {0}, NEW k \in Int, d * k <= x
  PROVE  k <= x \div d
OBVIOUS

LEMMA MulMono ==
  ASSUME NEW a \in Nat, NEW b \in Nat, NEW c \in Nat, a <= b
  PROVE  a * c <= b * c
OBVIOUS

LEMMA MulNat ==
  ASSUME NEW a \in Nat, NEW b \in Nat
  PROVE  a * b \in Nat
OBVIOUS
-----------------------------------------------------------------------------
(* The operators. *)

(* The constants that are numbers, without the tables.                      *)
LEMMA Numbers ==
    /\ LevelCap \in Nat \ {0} /\ XpStep \in Nat \ {0}
    /\ Permille \in Nat \ {0} /\ MultPerRank \in Nat
    /\ RawPerCompressed \in Nat \ {0} /\ MaxCount \in Nat
    /\ MaxCells \in Nat \ {0} /\ MaxXp \in Nat \ {0} /\ MaxDrop \in Nat \ {0}
    /\ CommonDrop \in Nat /\ ValueDrop \in Nat /\ MaxOre \in Nat
    /\ AutoRate \in Nat /\ Block \in Nat \ {0}
    /\ BoostTicks \in Nat \ {0}
BY RunConstants


LEMMA MultiplierIsNat ==
  ASSUME NEW rank \in Nat
  PROVE  /\ Multiplier(rank) \in Nat
         /\ Permille <= Multiplier(rank)
         /\ Multiplier(rank) <= Multiplier(rank + 1)
<1>1. MultPerRank * rank \in Nat /\ MultPerRank * (rank + 1) = MultPerRank * rank + MultPerRank
  BY Numbers
<1>. QED  BY <1>1, Numbers DEF Multiplier

(* The threshold of the next level is a level's experience further on.      *)
LEMMA NextThreshold ==
  ASSUME NEW n \in Nat \ {0}
  PROVE  /\ XpForLevel(n) \in Nat
         /\ XpToReach(n) \in Nat
         /\ XpToReach(n + 1) = XpToReach(n) + XpForLevel(n)
         /\ XpToReach(1) = 0
<1>. DEFINE below == (n * (n - 1)) \div 2
<1>1. ((n + 1) * n) \div 2 = below + n
  OBVIOUS
<1>2. below \in Nat
  <2>1. n * (n - 1) \in Nat
    BY n - 1 \in Nat, MulNat
  <2>. QED  BY <2>1, DivMod
<1>3. XpStep * (below + n) = XpStep * below + XpStep * n
  BY <1>2, Numbers
<1>4. (1 * (1 - 1)) \div 2 = 0
  OBVIOUS
<1>5. XpStep * below \in Nat /\ n * XpStep \in Nat /\ n * XpStep = XpStep * n
  BY <1>2, Numbers
<1>6. (n + 1) - 1 = n
  OBVIOUS
<1>. HIDE DEF below
<1>7. XpToReach(n) = XpStep * below
  BY DEF XpToReach, below
<1>8. XpToReach(n + 1) = XpStep * (below + n)
  BY <1>1, <1>6 DEF XpToReach
<1>9. XpToReach(1) = 0
  BY <1>4, Numbers DEF XpToReach
<1>. QED  BY <1>3, <1>5, <1>7, <1>8, <1>9 DEF XpForLevel

(* What is owed is paid now or carried: the multiplier loses no fraction.   *)
LEMMA Carrying ==
  ASSUME TypeOK, NEW amount \in Nat, NEW carry \in Nat
  PROVE  /\ PaidNow(amount, carry) \in Nat
         /\ CarriedOn(amount, carry) \in 0..(Permille - 1)
         /\ Permille * PaidNow(amount, carry) + CarriedOn(amount, carry)
                = amount * Multiplier(player.prestige) + carry
<1>1. player.prestige \in Nat
  BY DEF TypeOK
<1>2. amount * Multiplier(player.prestige) + carry \in Nat
  BY <1>1, MultiplierIsNat, MulNat
<1>. QED  BY <1>2, DivMod, Numbers DEF PaidNow, CarriedOn

LEMMA FortuneIsBounded ==
  ASSUME TypeOK, PlayerIsValid
  PROVE  FortuneMultiplier \in 1..(1 + FortuneCap[LevelCap])
<1>1. /\ player.fortune \in Nat /\ player.fortune <= FortuneCap[player.level]
      /\ player.level \in 1..LevelCap
  BY DEF TypeOK, PlayerIsValid, Levels
<1>2. FortuneCap[player.level] <= FortuneCap[LevelCap] /\ FortuneCap \in [1..LevelCap -> Nat]
  BY <1>1, RunConstants DEF Levels
<1>. QED  BY <1>1, <1>2, Numbers DEF FortuneMultiplier

(* The auto-miner's rate divides exactly, at every rank: calls of one tick  *)
(* add up to one call of many.                                              *)
LEMMA RateIsExact ==
  ASSUME TypeOK, NEW ticks \in Nat
  PROVE  /\ PerPercent(ticks) \in Nat
         /\ Permille * (100 * PerPercent(ticks))
                = ticks * AutoRate * Multiplier(player.prestige)
<1>. DEFINE rank == player.prestige
            whole == Permille * 100
            byRank == (AutoRate * MultPerRank) \div whole
            byBase == (AutoRate * Permille) \div whole
            share == ticks * (byBase + byRank * rank)
<1>1. rank \in Nat /\ whole \in Nat \ {0}
  BY Numbers DEF TypeOK
<1>2. byRank \in Nat /\ AutoRate * MultPerRank = whole * byRank
  <2>1. AutoRate * MultPerRank \in Nat
    BY Numbers, MulNat
  <2>2. (AutoRate * MultPerRank) % whole = 0
    BY RatesAreExact
  <2>. HIDE DEF whole
  <2>3. AutoRate * MultPerRank = whole * ((AutoRate * MultPerRank) \div whole) + ((AutoRate * MultPerRank) % whole)
    BY <1>1, <2>1, DivMod
  <2>4. (AutoRate * MultPerRank) \div whole \in Nat
    BY <1>1, <2>1, DivMod
  <2>. QED  BY <1>1, <2>2, <2>3, <2>4
<1>3. byBase \in Nat /\ AutoRate * Permille = whole * byBase
  <2>1. AutoRate * Permille \in Nat
    BY Numbers, MulNat
  <2>2. (AutoRate * Permille) % whole = 0
    BY RatesAreExact
  <2>. HIDE DEF whole
  <2>3. AutoRate * Permille = whole * ((AutoRate * Permille) \div whole) + ((AutoRate * Permille) % whole)
    BY <1>1, <2>1, DivMod
  <2>4. (AutoRate * Permille) \div whole \in Nat
    BY <1>1, <2>1, DivMod
  <2>. QED  BY <1>1, <2>2, <2>3, <2>4
<1>. HIDE DEF byRank, byBase, whole, rank
<1>4. AutoRate * (Permille + MultPerRank * rank) = whole * (byBase + byRank * rank)
  <2>1. AutoRate * (Permille + MultPerRank * rank)
          = AutoRate * Permille + (AutoRate * MultPerRank) * rank
    BY <1>1, Numbers
  <2>2. whole * (byBase + byRank * rank) = whole * byBase + (whole * byRank) * rank
    BY <1>1, <1>2, <1>3
  <2>. QED  BY <1>2, <1>3, <2>1, <2>2
<1>5. share \in Nat
  BY <1>1, <1>2, <1>3
<1>6. ticks * AutoRate * (Permille + MultPerRank * rank) = Permille * (100 * share)
  <2>1. ticks * AutoRate * (Permille + MultPerRank * rank)
          = ticks * (AutoRate * (Permille + MultPerRank * rank))
    BY <1>1, Numbers
  <2>2. ticks * (whole * (byBase + byRank * rank)) = whole * share
    BY <1>1, <1>2, <1>3
  <2>3. whole * share = Permille * (100 * share)
    BY <1>5, Numbers DEF whole
  <2>. QED  BY <1>4, <2>1, <2>2, <2>3
<1>. HIDE DEF share
<1>7. PerPercent(ticks) = share
  <2>1. 100 * share \in Nat /\ Permille \in Nat \ {0}
    BY <1>5, Numbers
  <2>2. (Permille * (100 * share)) \div Permille = 100 * share
    BY <2>1, DivOf
  <2>3. (100 * share) \div 100 = share
    BY <1>5, DivOf
  <2>. QED  BY <1>6, <2>2, <2>3 DEF PerPercent, Multiplier, rank
<1>. QED  BY <1>5, <1>6, <1>7 DEF Multiplier, rank

(* What the auto-miner is owed for a number of ticks is paid or carried.    *)
LEMMA AutoMined ==
  ASSUME TypeOK, NEW ticks \in Nat
  PROVE  /\ AutoCarried(ticks) \in [common : 0..(Block - 1), value : 0..(Block - 1)]
         /\ AutoOwed(ticks) \in Int
         /\ Permille * (AutoCarried(ticks).common + AutoCarried(ticks).value)
                = Permille * (auto.common + auto.value) + AutoOwed(ticks)
         /\ AutoPaid(ticks) \in Nat /\ AutoDug(ticks) \in Nat
         /\ AutoPaid(ticks) <= AutoDug(ticks)
         /\ AutoPaid(ticks) = AutoDug(ticks) \/ AutoPaid(ticks) = MaxCount
<1>. DEFINE p == PerPercent(ticks)
            c == Progress(ticks).common
            v == Progress(ticks).value
            kept == (c % Block) + (v % Block)
            blocks == c \div Block + (v \div Block)
<1>1. /\ dial \in 0..100 /\ 100 - dial \in Nat
      /\ auto.common \in Nat /\ auto.value \in Nat
      /\ player.fortune \in Nat
  <2>1. dial \in Dials /\ auto \in [common : Nat, value : Nat] /\ player.fortune \in Nat
    BY DEF TypeOK
  <2>2. Dials \subseteq 0..100
    BY RunConstants
  <2>. QED  BY <2>1, <2>2
<1>2. p \in Nat /\ Permille * (100 * p) = ticks * AutoRate * Multiplier(player.prestige)
  BY RateIsExact
<1>. HIDE DEF p
<1>3. c = auto.common + p * (100 - dial) /\ v = auto.value + p * dial
  BY DEF Progress, p
<1>4. c \in Nat /\ v \in Nat /\ c + v = auto.common + auto.value + 100 * p
  <2>1. p * (100 - dial) \in Nat /\ p * dial \in Nat
    BY <1>1, <1>2, MulNat
  <2>2. p * (100 - dial) + p * dial = 100 * p
    BY <1>1, <1>2
  <2>. QED  BY <1>1, <1>3, <2>1, <2>2
<1>. HIDE DEF c, v
<1>5. /\ c \div Block \in Nat /\ c % Block \in 0..(Block - 1)
      /\ v \div Block \in Nat /\ v % Block \in 0..(Block - 1)
      /\ c = Block * (c \div Block) + (c % Block)
      /\ v = Block * (v \div Block) + (v % Block)
  BY <1>4, DivMod, Numbers
<1>6. AutoCarried(ticks) = [common |-> c % Block, value |-> v % Block]
  BY DEF AutoCarried, c, v
<1>. DEFINE common == FortuneMultiplier * (CommonDrop * (c \div Block))
            value == FortuneMultiplier * (ValueDrop * (v \div Block))
<1>7. /\ common \in Nat /\ value \in Nat /\ AutoDug(ticks) = common + value
      /\ AutoPaid(ticks) = Saturated(Saturated(common) + Saturated(value))
  <2>1. /\ FortuneMultiplier \in Nat
        /\ CommonDrop * (c \div Block) \in Nat /\ ValueDrop * (v \div Block) \in Nat
    BY <1>1, <1>5, Numbers, MulNat DEF FortuneMultiplier
  <2>2. AutoDug(ticks)
            = FortuneMultiplier * (CommonDrop * (c \div Block) + ValueDrop * (v \div Block))
    BY DEF AutoDug, c, v
  <2>3. AutoPaid(ticks) = Saturated(Saturated(common) + Saturated(value))
    BY DEF AutoPaid, c, v
  <2>. QED  BY <2>1, <2>2, <2>3, MulNat
<1>. HIDE DEF common, value
<1>8. /\ AutoPaid(ticks) \in Nat /\ AutoDug(ticks) \in Nat
      /\ AutoPaid(ticks) <= AutoDug(ticks)
      /\ AutoPaid(ticks) = AutoDug(ticks) \/ AutoPaid(ticks) = MaxCount
  BY <1>7, Numbers DEF Saturated
<1>9. AutoOwed(ticks) = Permille * (100 * p) - Permille * Block * blocks
  BY <1>2 DEF AutoOwed, c, v
<1>10. kept \in Nat /\ blocks \in Nat /\ c + v = Block * blocks + kept
  <2>1. Block * blocks = Block * (c \div Block) + Block * (v \div Block)
    BY <1>5, Numbers
  <2>2. kept \in Nat /\ blocks \in Nat
    BY <1>5, Numbers
  <2>3. Block * (c \div Block) \in Nat /\ Block * (v \div Block) \in Nat
    BY <1>5, MulNat, Numbers
  <2>. QED  BY <1>5, <2>1, <2>2, <2>3
<1>11. AutoCarried(ticks).common + AutoCarried(ticks).value = kept
  BY <1>6
<1>. HIDE DEF kept, blocks
<1>12. Permille * kept = Permille * (auto.common + auto.value) + AutoOwed(ticks)
  <2>1. kept = auto.common + auto.value + 100 * p - Block * blocks
    <3>1. Block * blocks \in Nat /\ 100 * p \in Nat
      BY <1>2, <1>10, MulNat, Numbers
    <3>. QED  BY <1>1, <1>4, <1>10, <3>1
  <2>2. Permille * kept = Permille * (auto.common + auto.value) + Permille * (100 * p)
                              - Permille * (Block * blocks)
    <3>1. auto.common + auto.value \in Nat /\ 100 * p \in Nat /\ Block * blocks \in Nat
      BY <1>1, <1>2, <1>10, MulNat, Numbers
    <3>. QED  BY <2>1, <3>1, Numbers
  <2>3. Permille * (Block * blocks) = Permille * Block * blocks
    BY <1>10, Numbers
  <2>. QED  BY <1>9, <2>2, <2>3
<1>13. AutoOwed(ticks) \in Int
  BY <1>2, <1>9, <1>10, Numbers
<1>. QED  BY <1>5, <1>6, <1>8, <1>11, <1>12, <1>13

(* A pile only saturates: what is added to it is what it is worth at most.  *)
Purses == [raw : 0..MaxCount, compressed : 0..MaxCount]

LEMMA AddedIsBounded ==
  ASSUME NEW purse \in Purse, NEW raw \in Nat, NEW compressed \in Nat
  PROVE  /\ Added(purse, raw, compressed) \in Purses
         /\ TotalRaw(Added(purse, raw, compressed)) \in Nat
         /\ TotalRaw(Added(purse, raw, compressed))
                <= TotalRaw(purse) + raw + RawPerCompressed * compressed
<1>. DEFINE r == Saturated(purse.raw + raw)
            k == Saturated(purse.compressed + compressed)
<1>1. /\ purse.raw \in Nat /\ purse.compressed \in Nat
  BY DEF Purse
<1>2. /\ r \in 0..MaxCount /\ r <= purse.raw + raw
      /\ k \in 0..MaxCount /\ k <= purse.compressed + compressed
  BY <1>1, Numbers DEF Saturated
<1>3. Added(purse, raw, compressed) = [raw |-> r, compressed |-> k]
  BY DEF Added
<1>. HIDE DEF r, k
<1>4. RawPerCompressed * k <= RawPerCompressed * purse.compressed + RawPerCompressed * compressed
  <2>1. k * RawPerCompressed <= (purse.compressed + compressed) * RawPerCompressed
    BY <1>1, <1>2, MulMono, Numbers
  <2>. QED  BY <1>1, <1>2, <2>1, Numbers
<1>5. /\ RawPerCompressed * k \in Nat /\ RawPerCompressed * compressed \in Nat
      /\ RawPerCompressed * purse.compressed \in Nat
  BY <1>1, <1>2, MulNat, Numbers
<1>. QED  BY <1>1, <1>2, <1>3, <1>4, <1>5 DEF TotalRaw, Purses

(* Only a pile at its ceiling loses anything of what is added.              *)
Full(pile) == pile.raw = MaxCount \/ pile.compressed = MaxCount

LEMMA AddedExactly ==
  ASSUME NEW pile \in Purse, NEW raw \in Nat, NEW compressed \in Nat
  PROVE  /\ Full(pile) \/ raw >= MaxCount => Full(Added(pile, raw, compressed))
         /\ ~Full(Added(pile, raw, compressed)) =>
               TotalRaw(Added(pile, raw, compressed))
                   = TotalRaw(pile) + raw + RawPerCompressed * compressed
<1>. DEFINE r == Saturated(pile.raw + raw)
            k == Saturated(pile.compressed + compressed)
            added == Added(pile, raw, compressed)
<1>1. pile.raw \in Nat /\ pile.compressed \in Nat
  BY DEF Purse
<1>2. /\ r = pile.raw + raw \/ r = MaxCount
      /\ k = pile.compressed + compressed \/ k = MaxCount
      /\ pile.raw >= MaxCount \/ raw >= MaxCount => r = MaxCount
      /\ pile.compressed >= MaxCount => k = MaxCount
  BY <1>1, Numbers DEF Saturated
<1>3. added.raw = r /\ added.compressed = k
  BY DEF Added
<1>4. RawPerCompressed * (pile.compressed + compressed)
          = RawPerCompressed * pile.compressed + RawPerCompressed * compressed
  BY <1>1, Numbers
<1>5. RawPerCompressed * pile.compressed \in Nat /\ RawPerCompressed * compressed \in Nat
  BY <1>1, MulNat, Numbers
<1>6. TotalRaw(added) = added.raw + RawPerCompressed * added.compressed
  BY DEF TotalRaw
<1>. HIDE DEF r, k, added
<1>7. Full(pile) \/ raw >= MaxCount => Full(added)
  BY <1>1, <1>2, <1>3, Numbers DEF Full
<1>8. ~Full(added) => TotalRaw(added) = TotalRaw(pile) + raw + RawPerCompressed * compressed
  BY <1>1, <1>2, <1>3, <1>4, <1>5, <1>6 DEF Full, TotalRaw
<1>. QED  BY <1>7, <1>8 DEF added

(* The rewards of some levels: at most a charge and MaxOre for each.        *)
LEMMA RewardsAreBounded ==
  ASSUME NEW levels \in SUBSET Rewarded
  PROVE  /\ IsFiniteSet(levels)
         /\ Cardinality(levels) \in 0..LevelCap
         /\ RewardCharges(levels) \in Nat
         /\ RewardOre(levels) \in Nat
         /\ RewardOre(levels) <= MaxOre * Cardinality(levels)
<1>1. IsFiniteSet(levels) /\ Cardinality(levels) \in 0..LevelCap
  <2>1. IsFiniteSet(1..LevelCap) /\ Cardinality(1..LevelCap) = LevelCap
    BY FS_Interval, Numbers
  <2>2. levels \in SUBSET (1..LevelCap)
    BY Numbers DEF Rewarded
  <2>3. IsFiniteSet(levels) /\ Cardinality(levels) <= LevelCap
    BY <2>1, <2>2, FS_Subset
  <2>. QED  BY <2>3, FS_CardinalityType, Numbers
<1>2. RewardCharges(levels) \in Nat
  <2>1. {l \in levels : l % ChargeEvery = 0} \in SUBSET levels
    OBVIOUS
  <2>. QED  BY <1>1, <2>1, FS_Subset, FS_CardinalityType DEF RewardCharges
<1>3. IsFiniteSet(1..MaxOre) /\ Cardinality(1..MaxOre) = MaxOre
  BY FS_Interval, Numbers
<1>4. /\ IsFiniteSet(levels \X (1..MaxOre))
      /\ Cardinality(levels \X (1..MaxOre)) = Cardinality(levels) * MaxOre
  BY <1>1, <1>3, FS_Product
<1>5. /\ IsFiniteSet({x \in levels \X (1..MaxOre) : x[2] <= Ore[x[1]]})
      /\ Cardinality({x \in levels \X (1..MaxOre) : x[2] <= Ore[x[1]]})
             <= Cardinality(levels \X (1..MaxOre))
  <2>1. {x \in levels \X (1..MaxOre) : x[2] <= Ore[x[1]]} \in SUBSET (levels \X (1..MaxOre))
    OBVIOUS
  <2>. QED  BY <1>4, <2>1, FS_Subset
<1>6. RewardOre(levels) \in Nat
  BY <1>5, FS_CardinalityType DEF RewardOre
<1>7. Cardinality(levels) * MaxOre = MaxOre * Cardinality(levels)
  BY <1>1, Numbers
<1>. QED  BY <1>1, <1>2, <1>4, <1>5, <1>6, <1>7 DEF RewardOre

LEMMA RawPerBlockIsBounded ==
  /\ MaxRawPerBlock \in Nat
  /\ RawPerCompressed <= MaxRawPerBlock
  /\ MaxDrop * (1 + FortuneCap[LevelCap]) <= MaxRawPerBlock
<1>. DEFINE a == MaxDrop * (1 + FortuneCap[LevelCap])
            b == RawPerCompressed
<1>1. a \in Nat /\ b \in Nat
  <2>1. FortuneCap[LevelCap] \in Nat
    BY RunConstants DEF Levels
  <2>. QED  BY <2>1, Numbers
<1>. HIDE DEF a, b
<1>2. \E m \in {a, b} : \A n \in {a, b} : m >= n
  <2>1. CASE a >= b
    BY <1>1, <2>1
  <2>2. CASE b >= a
    BY <1>1, <2>2
  <2>. QED  BY <1>1, <2>1, <2>2
<1>3. Max({a, b}) \in {a, b} /\ \A n \in {a, b} : Max({a, b}) >= n
  BY <1>2 DEF Max
<1>. QED  BY <1>1, <1>3 DEF MaxRawPerBlock, a, b
-----------------------------------------------------------------------------
(* What several actions do alike. *)

(* Nothing of the climb moves.                                              *)
LEMMA ClimbKept ==
  ASSUME Inv, UNCHANGED <<unclaimed, broken>>,
         ledger'.claimed = ledger.claimed, ledger'.xp = ledger.xp,
         player'.level = player.level, player'.experience = player.experience,
         player'.xpCarry = player.xpCarry, player'.prestige = player.prestige
  PROVE  RewardsArePaidOnce' /\ ExperienceIsConserved' /\ ClimbIsEarned'
BY DEF Inv, RewardsArePaidOnce, ExperienceIsConserved, ClimbIsEarned, Climbed

LEMMA InventoryTyped ==
  ASSUME Inv
  PROVE  inventory \in Purses /\ inventory \in Purse /\ TotalRaw(inventory) \in Nat
<1>1. inventory \in Purses
  BY DEF Inv, TypeOK, Purses
<1>2. inventory \in Purse
  BY <1>1, Numbers DEF Purses, Purse
<1>. QED  BY <1>1, <1>2, MulNat, Numbers DEF TotalRaw, Purses

(* The purse gains at most what blocks, rewards and the auto-miner account  *)
(* for, in permille.                                                        *)
LEMMA PurseAccounted ==
  ASSUME Inv, NEW blocks \in Nat, NEW rewards \in Nat, NEW mined \in Nat,
         broken' = broken + blocks, autoRaw' = autoRaw + mined,
         Cardinality(ledger'.claimed) = Cardinality(ledger.claimed) + rewards,
         player'.prestige = player.prestige,
         Permille * TotalRaw(inventory)' + yieldCarry'.raw
                + RawPerCompressed * yieldCarry'.compressed
            <= Permille * TotalRaw(inventory) + yieldCarry.raw
                + RawPerCompressed * yieldCarry.compressed
                + blocks * MaxRawPerBlock * Multiplier(player.prestige)
                + Permille * (MaxOre * rewards) + Permille * mined,
         Permille * TotalRaw(inventory)' + yieldCarry'.raw
                + RawPerCompressed * yieldCarry'.compressed \in Nat
  PROVE  PurseIsEarned'
<1>. DEFINE mult == Multiplier(player.prestige)
            had == Permille * TotalRaw(inventory) + yieldCarry.raw
                       + RawPerCompressed * yieldCarry.compressed
            has == Permille * TotalRaw(inventory)' + yieldCarry'.raw
                       + RawPerCompressed * yieldCarry'.compressed
            card == Cardinality(ledger.claimed)
            owed == broken * MaxRawPerBlock * mult + Permille * (MaxOre * card)
                       + Permille * autoRaw
            more == blocks * MaxRawPerBlock * mult + Permille * (MaxOre * rewards)
                       + Permille * mined
<1>1. mult \in Nat /\ card \in Nat /\ broken \in Nat /\ autoRaw \in Nat
  BY MultiplierIsNat, RewardsAreBounded DEF Inv, TypeOK, Ledger
<1>2. had \in Nat
  BY InventoryTyped, MulNat, Numbers DEF Inv, TypeOK, Purse
<1>3. had <= owed
  BY DEF Inv, PurseIsEarned
<1>4. owed \in Nat /\ more \in Nat
  BY <1>1, MulNat, RawPerBlockIsBounded, Numbers
<1>5. has \in Nat /\ has <= had + more
  <2>1. /\ blocks * MaxRawPerBlock * mult \in Nat /\ Permille * (MaxOre * rewards) \in Nat
        /\ Permille * mined \in Nat
    BY <1>1, MulNat, RawPerBlockIsBounded, Numbers
  <2>2. has <= had + blocks * MaxRawPerBlock * mult + Permille * (MaxOre * rewards)
                  + Permille * mined
    OBVIOUS
  <2>. HIDE DEF had
  <2>. QED  BY <1>2, <2>1, <2>2
<1>6. (broken + blocks) * MaxRawPerBlock * mult + Permille * (MaxOre * (card + rewards))
          + Permille * (autoRaw + mined) = owed + more
  <2>1. (broken + blocks) * MaxRawPerBlock * mult
          = broken * MaxRawPerBlock * mult + blocks * MaxRawPerBlock * mult
    BY <1>1, RawPerBlockIsBounded
  <2>2. Permille * (MaxOre * (card + rewards))
          = Permille * (MaxOre * card) + Permille * (MaxOre * rewards)
    BY <1>1, Numbers
  <2>3. Permille * (autoRaw + mined) = Permille * autoRaw + Permille * mined
    BY <1>1, Numbers
  <2>4. /\ broken * MaxRawPerBlock * mult \in Nat /\ blocks * MaxRawPerBlock * mult \in Nat
        /\ Permille * (MaxOre * card) \in Nat /\ Permille * (MaxOre * rewards) \in Nat
        /\ Permille * autoRaw \in Nat /\ Permille * mined \in Nat
    BY <1>1, MulNat, RawPerBlockIsBounded, Numbers
  <2>. QED  BY <2>1, <2>2, <2>3, <2>4
<1>7. PurseIsEarned' <=>
        has <= (broken + blocks) * MaxRawPerBlock * mult
                  + Permille * (MaxOre * (card + rewards)) + Permille * (autoRaw + mined)
  BY DEF PurseIsEarned, Multiplier
<1>. HIDE DEF had, has, owed, more
<1>8. has <= owed + more
  BY <1>2, <1>3, <1>4, <1>5
<1>. QED  BY <1>6, <1>7, <1>8

(* No swing: the purse gains at most its rewards and what was mined.       *)
LEMMA PurseGains ==
  ASSUME Inv, NEW rewards \in Nat, NEW mined \in Nat,
         inventory' \in Purses,
         TotalRaw(inventory)' <= TotalRaw(inventory) + MaxOre * rewards + mined,
         UNCHANGED <<yieldCarry, broken>>, autoRaw' = autoRaw + mined,
         Cardinality(ledger'.claimed) = Cardinality(ledger.claimed) + rewards,
         player'.prestige = player.prestige
  PROVE  PurseIsEarned'
<1>. DEFINE had == TotalRaw(inventory)
            has == TotalRaw(inventory)'
            paid == MaxOre * rewards
<1>1. had \in Nat /\ has \in Nat /\ paid \in Nat /\ Permille \in Nat
  <2>1. has \in Nat
    BY MulNat, Numbers DEF TotalRaw, Purses
  <2>. QED  BY <2>1, InventoryTyped, MulNat, Numbers
<1>2. has <= had + paid + mined /\ broken' = broken + 0
  BY DEF Inv, TypeOK
<1>3. /\ yieldCarry.raw \in Nat /\ RawPerCompressed * yieldCarry.compressed \in Nat
      /\ Multiplier(player.prestige) \in Nat
      /\ 0 * MaxRawPerBlock * Multiplier(player.prestige) = 0
  <2>1. Multiplier(player.prestige) \in Nat
    BY MultiplierIsNat DEF Inv, TypeOK
  <2>. QED  BY <2>1, MulNat, RawPerBlockIsBounded, Numbers DEF Inv, TypeOK, Purse
<1>. HIDE DEF had, has, paid
<1>4. /\ Permille * has <= Permille * had + Permille * paid + Permille * mined
      /\ Permille * has \in Nat /\ Permille * had \in Nat
      /\ Permille * paid \in Nat /\ Permille * mined \in Nat
  <2>1. had + paid + mined \in Nat
    BY <1>1
  <2>2. has * Permille <= (had + paid + mined) * Permille
    BY <1>1, <1>2, <2>1, MulMono
  <2>3. (had + paid + mined) * Permille = Permille * had + Permille * paid + Permille * mined
    BY <1>1
  <2>4. has * Permille = Permille * has
    BY <1>1
  <2>. QED  BY <1>1, <2>2, <2>3, <2>4, MulNat
<1>5. /\ Permille * has + yieldCarry'.raw + RawPerCompressed * yieldCarry'.compressed
            <= Permille * had + yieldCarry.raw + RawPerCompressed * yieldCarry.compressed
                + 0 * MaxRawPerBlock * Multiplier(player.prestige)
                + Permille * paid + Permille * mined
      /\ Permille * has + yieldCarry'.raw + RawPerCompressed * yieldCarry'.compressed \in Nat
  BY <1>3, <1>4
<1>. QED
  BY <1>2, <1>5, 0 \in Nat, PurseAccounted DEF had, has, paid

(* The purse is worth no more than it was.                                  *)
LEMMA PurseKept ==
  ASSUME Inv, inventory' \in Purses, TotalRaw(inventory)' <= TotalRaw(inventory),
         UNCHANGED <<yieldCarry, broken, autoRaw>>,
         ledger'.claimed = ledger.claimed, player'.prestige = player.prestige
  PROVE  PurseIsEarned'
<1>1. autoRaw' = autoRaw + 0
  BY DEF Inv, TypeOK
<1>2. Cardinality(ledger'.claimed) = Cardinality(ledger.claimed) + 0
  BY RewardsAreBounded DEF Inv, TypeOK, Ledger
<1>3. TotalRaw(inventory)' <= TotalRaw(inventory) + MaxOre * 0 + 0
  BY InventoryTyped, Numbers
<1>. QED  BY <1>1, <1>2, <1>3, 0 \in Nat, PurseGains

(* A step that gives the purse what it books, or is at its ceiling.         *)
LEMMA BookedKeeps ==
  ASSUME NEW owed \in Ledger, NEW permille \in Int, ledger' = Booked(owed, permille),
         Standing' \in Int, Standing' <= owed.ore + permille,
         ~Full(inventory') => Standing' = owed.ore + permille
  PROVE  /\ LootIsConserved' /\ ledger' \in Ledger
         /\ ledger'.claimed = owed.claimed /\ ledger'.xp = owed.xp
         /\ ledger'.charges = owed.charges /\ ledger'.boost = owed.boost
         /\ ledger'.auto = owed.auto
<1>. DEFINE stands == Standing'
            ore == IF AtCeiling' /\ stands < owed.ore + permille THEN stands
                                                                ELSE owed.ore + permille
            new == ledger'
<1>1. owed.ore \in Int
  BY DEF Ledger
<1>2. AtCeiling' <=> Full(inventory')
  BY DEF AtCeiling, Full
<1>3. new = [owed EXCEPT !.ore = ore]
  BY Zenon DEF Booked
<1>. HIDE DEF stands, new
<1>4. ore \in Int /\ ore = stands
  BY <1>1, <1>2 DEF stands
<1>. HIDE DEF ore
<1>5. /\ new \in Ledger /\ new.ore = ore
      /\ new.claimed = owed.claimed /\ new.xp = owed.xp
      /\ new.charges = owed.charges /\ new.boost = owed.boost /\ new.auto = owed.auto
  BY <1>3, <1>4, ZenonT(60) DEF Ledger
<1>6. LootIsConserved'
  BY <1>4, <1>5, Zenon DEF LootIsConserved, stands, new
<1>. QED  BY <1>5, <1>6, Zenon DEF new

(* The same, for a step that leaves what is carried alone.                  *)
LEMMA PileKeeps ==
  ASSUME Inv, UNCHANGED yieldCarry, NEW owed \in Ledger, owed.ore = ledger.ore,
         NEW gain \in Int, ledger' = Booked(owed, Permille * gain),
         inventory' \in Purses,
         TotalRaw(inventory)' <= TotalRaw(inventory) + gain,
         ~Full(inventory') => TotalRaw(inventory)' = TotalRaw(inventory) + gain
  PROVE  /\ LootIsConserved' /\ ledger' \in Ledger
         /\ ledger'.claimed = owed.claimed /\ ledger'.xp = owed.xp
         /\ ledger'.charges = owed.charges /\ ledger'.boost = owed.boost
         /\ ledger'.auto = owed.auto
<1>. DEFINE had == TotalRaw(inventory)
            has == TotalRaw(inventory)'
            carried == yieldCarry.raw + RawPerCompressed * yieldCarry.compressed
<1>1. had \in Nat /\ has \in Nat /\ carried \in Nat /\ Permille \in Nat
  <2>1. has \in Nat
    BY MulNat, Numbers DEF TotalRaw, Purses
  <2>2. yieldCarry.raw \in Nat /\ RawPerCompressed * yieldCarry.compressed \in Nat
    BY MulNat, Numbers DEF Inv, TypeOK, Purse
  <2>. QED  BY <2>1, <2>2, InventoryTyped, Numbers
<1>2. Standing = Permille * had + carried /\ Standing' = Permille * has + carried
  <2>1. /\ Standing = Permille * had + yieldCarry.raw
                          + RawPerCompressed * yieldCarry.compressed
        /\ Standing' = Permille * has + yieldCarry.raw
                          + RawPerCompressed * yieldCarry.compressed
    BY DEF Standing
  <2>2. yieldCarry.raw \in Nat /\ RawPerCompressed * yieldCarry.compressed \in Nat
    BY MulNat, Numbers DEF Inv, TypeOK, Purse
  <2>3. Permille * had \in Nat /\ Permille * has \in Nat
    BY <1>1, MulNat
  <2>. HIDE DEF had, has
  <2>. QED  BY <2>1, <2>2, <2>3
<1>3. has <= had + gain /\ (~Full(inventory') => has = had + gain)
  OBVIOUS
<1>4. Standing = owed.ore
  BY DEF Inv, LootIsConserved
<1>. HIDE DEF had, has, carried
<1>5. Permille * (had + gain) = Permille * had + Permille * gain
  BY <1>1
<1>6. Permille * has <= Permille * (had + gain)
  <2>1. had + gain \in Nat
    BY <1>1, <1>3
  <2>2. has * Permille <= (had + gain) * Permille
    BY <1>1, <1>3, <2>1, MulMono
  <2>. QED  BY <1>1, <2>1, <2>2
<1>7. Permille * has \in Nat /\ Permille * had \in Nat /\ Permille * gain \in Int
  BY <1>1, MulNat
<1>8. /\ Standing' \in Int /\ Standing' <= owed.ore + Permille * gain
      /\ ~Full(inventory') => Standing' = owed.ore + Permille * gain
  BY <1>1, <1>2, <1>3, <1>4, <1>5, <1>6, <1>7
<1>. QED  BY <1>7, <1>8, BookedKeeps

(* Where no swing is made, a run is under this build or carries nothing.    *)
LEMMA CarriesNothing ==
  ASSUME Inv, UNCHANGED yieldCarry, schema' = schema \/ schema' = SaveVersion
  PROVE  NothingCarriedBefore'
BY Numbers DEF Inv, NothingCarriedBefore, SaveVersion

(* A tick, whatever the swing in it brought: the clocks, the boost, the     *)
(* auto-miner and what it pays.                                             *)
LEMMA TickKeeps ==
  ASSUME Inv, NEW raw \in Nat, NEW compressed \in Nat, NEW swung \in Ledger,
         swung.charges = ledger.charges, swung.boost = ledger.boost,
         swung.auto = ledger.auto, TickAround(raw, compressed, swung),
         yieldCarry' \in Purse,
         swung.ore = Permille * (TotalRaw(inventory) + raw + RawPerCompressed * compressed)
                        + yieldCarry'.raw + RawPerCompressed * yieldCarry'.compressed
  PROVE  /\ playtime' = playtime + 1 /\ runPlaytime' \in Nat /\ runPlaytime' <= playtime'
         /\ boost' \in [left : Nat, granted : Nat] /\ boost'.left <= boost'.granted
         /\ auto' \in [common : 0..(Block - 1), value : 0..(Block - 1)]
         /\ autoRaw' \in Nat /\ autoRaw <= autoRaw'
         /\ inventory' \in Purses
         /\ TotalRaw(inventory)' <= TotalRaw(inventory) + (autoRaw' - autoRaw)
                                        + raw + RawPerCompressed * compressed
         /\ ledger' \in Ledger
         /\ BoostsRunInFull' /\ AutoMiningIsConserved'
         /\ ledger'.claimed = swung.claimed /\ ledger'.xp = swung.xp
         /\ LootIsConserved'
         /\ UNCHANGED <<charges, dial, absences>>
<1>1. TypeOK /\ boost \in [left : Nat, granted : Nat] /\ boost.left <= boost.granted
  BY DEF Inv, TypeOK, PartsAreValid
<1>2. /\ AutoCarried(1) \in [common : 0..(Block - 1), value : 0..(Block - 1)]
      /\ AutoOwed(1) \in Int
      /\ Permille * (AutoCarried(1).common + AutoCarried(1).value)
            = Permille * (auto.common + auto.value) + AutoOwed(1)
      /\ AutoPaid(1) \in Nat /\ AutoDug(1) \in Nat /\ AutoPaid(1) <= AutoDug(1)
      /\ AutoPaid(1) = AutoDug(1) \/ AutoPaid(1) = MaxCount
  BY <1>1, AutoMined
<1>3. boost' \in [left : Nat, granted : Nat] /\ boost'.left <= boost'.granted
  BY <1>1 DEF TickAround, Ticked, NoBoost
<1>4. ledger' = Booked([swung EXCEPT !.auto = @ + AutoOwed(1),
                                     !.boost = @ - (IF boost.left > 0 THEN 1 ELSE 0)],
                       Permille * AutoDug(1))
  BY DEF TickAround
<1>5. PICK owed \in Ledger :
         /\ ledger' = Booked(owed, Permille * AutoDug(1))
         /\ owed.claimed = swung.claimed /\ owed.xp = swung.xp
         /\ owed.ore = swung.ore /\ owed.charges = swung.charges
         /\ owed.auto = ledger.auto + AutoOwed(1)
         /\ owed.boost = ledger.boost - (IF boost.left > 0 THEN 1 ELSE 0)
  <2>. DEFINE burnt == IF boost.left > 0 THEN 1 ELSE 0
              autoNow == swung.auto + AutoOwed(1)
              boostNow == swung.boost - burnt
              owed == [swung EXCEPT !.auto = autoNow, !.boost = boostNow]
  <2>1. autoNow \in Int /\ boostNow \in Int
    BY <1>2 DEF Ledger
  <2>2. ledger' = Booked(owed, Permille * AutoDug(1))
    BY <1>4, Zenon
  <2>. HIDE DEF burnt, autoNow, boostNow
  <2>3. /\ owed \in Ledger
        /\ owed.claimed = swung.claimed /\ owed.xp = swung.xp
        /\ owed.ore = swung.ore /\ owed.charges = swung.charges
        /\ owed.auto = autoNow /\ owed.boost = boostNow
    BY <2>1, ZenonT(60) DEF Ledger
  <2>. HIDE DEF owed
  <2>4. autoNow = ledger.auto + AutoOwed(1) /\ boostNow = ledger.boost - burnt
    BY DEF autoNow, boostNow
  <2>. QED  BY <2>2, <2>3, <2>4, Zenon DEF burnt
<1>8. /\ inventory' = Added(Added(inventory, AutoPaid(1), 0), raw, compressed)
      /\ inventory \in Purse /\ TotalRaw(inventory) \in Nat /\ 0 \in Nat
  BY InventoryTyped DEF TickAround
<1>. DEFINE mined == Added(inventory, AutoPaid(1), 0)
            paid == Added(mined, raw, compressed)
<1>9. /\ mined \in Purse /\ TotalRaw(mined) \in Nat
      /\ TotalRaw(mined) <= TotalRaw(inventory) + AutoPaid(1)
      /\ AutoPaid(1) >= MaxCount => Full(mined)
      /\ ~Full(mined) => TotalRaw(mined) = TotalRaw(inventory) + AutoPaid(1)
  <2>1. /\ mined \in Purses /\ TotalRaw(mined) \in Nat
        /\ TotalRaw(mined) <= TotalRaw(inventory) + AutoPaid(1) + RawPerCompressed * 0
    BY <1>2, <1>8, AddedIsBounded
  <2>2. /\ AutoPaid(1) >= MaxCount => Full(mined)
        /\ ~Full(mined) =>
              TotalRaw(mined) = TotalRaw(inventory) + AutoPaid(1) + RawPerCompressed * 0
    BY <1>2, <1>8, AddedExactly
  <2>3. mined \in Purse
    BY <2>1, Numbers DEF Purses, Purse
  <2>4. TotalRaw(inventory) + AutoPaid(1) + RawPerCompressed * 0
            = TotalRaw(inventory) + AutoPaid(1)
    BY <1>2, <1>8, Numbers
  <2>. QED  BY <2>1, <2>2, <2>3, <2>4
<1>10. /\ paid \in Purses /\ TotalRaw(paid) \in Nat
       /\ TotalRaw(paid) <= TotalRaw(mined) + raw + RawPerCompressed * compressed
       /\ Full(mined) => Full(paid)
       /\ ~Full(paid) => TotalRaw(paid) = TotalRaw(mined) + raw + RawPerCompressed * compressed
  <2>. HIDE DEF mined
  <2>. QED  BY <1>9, AddedIsBounded, AddedExactly
<1>11. inventory' = paid /\ TotalRaw(inventory)' = TotalRaw(paid)
  BY <1>8 DEF TotalRaw
<1>. HIDE DEF mined, paid
<1>12. RawPerCompressed * compressed \in Nat
  BY MulNat, Numbers
<1>13. /\ inventory' \in Purses
       /\ TotalRaw(inventory)' <= TotalRaw(inventory) + AutoPaid(1)
                                     + raw + RawPerCompressed * compressed
       /\ ~Full(inventory') =>
             TotalRaw(inventory)' = TotalRaw(inventory) + AutoDug(1)
                                     + raw + RawPerCompressed * compressed
  <2>1. ~Full(paid) => AutoPaid(1) = AutoDug(1)
    BY <1>2, <1>9, <1>10, Numbers
  <2>. QED  BY <1>2, <1>8, <1>9, <1>10, <1>11, <1>12, <2>1
<1>14. /\ Standing' \in Int
       /\ Standing' <= owed.ore + Permille * AutoDug(1)
       /\ ~Full(inventory') => Standing' = owed.ore + Permille * AutoDug(1)
  <2>. DEFINE has == TotalRaw(inventory)'
              had == TotalRaw(inventory) + raw + RawPerCompressed * compressed
              dug == AutoDug(1)
              keptR == yieldCarry'.raw
              keptC == RawPerCompressed * yieldCarry'.compressed
  <2>1. /\ has \in Nat /\ had \in Nat /\ dug \in Nat /\ keptR \in Nat /\ keptC \in Nat
        /\ Permille \in Nat
    BY <1>2, <1>8, <1>10, <1>11, <1>12, MulNat, Numbers DEF Purse
  <2>2. has <= had + dug /\ (~Full(inventory') => has = had + dug)
    BY <1>2, <1>8, <1>11, <1>12, <1>13, <2>1
  <2>3. Standing' = Permille * has + keptR + keptC
    BY DEF Standing
  <2>4. owed.ore = Permille * had + keptR + keptC
    BY <1>5
  <2>. HIDE DEF has, had, dug, keptR, keptC
  <2>5. Permille * (had + dug) = Permille * had + Permille * dug
    BY <2>1
  <2>6. Permille * has <= Permille * (had + dug)
    <3>1. has * Permille <= (had + dug) * Permille
      BY <2>1, <2>2, MulMono
    <3>. QED  BY <2>1, <3>1
  <2>7. Permille * has \in Nat /\ Permille * had \in Nat /\ Permille * dug \in Nat
    BY <2>1, MulNat
  <2>8. /\ Standing' \in Int /\ Standing' <= owed.ore + Permille * dug
        /\ ~Full(inventory') => Standing' = owed.ore + Permille * dug
    BY <2>1, <2>2, <2>3, <2>4, <2>5, <2>6, <2>7
  <2>. QED  BY <2>8 DEF dug
<1>15. /\ LootIsConserved' /\ ledger' \in Ledger
       /\ ledger'.claimed = swung.claimed /\ ledger'.xp = swung.xp
       /\ ledger'.charges = swung.charges
       /\ ledger'.auto = ledger.auto + AutoOwed(1)
       /\ ledger'.boost = ledger.boost - (IF boost.left > 0 THEN 1 ELSE 0)
  <2>1. Permille * AutoDug(1) \in Int
    BY <1>2, Numbers
  <2>. QED  BY <1>5, <1>14, <2>1, BookedKeeps
<1>16. BoostsRunInFull'
  <2>1. boost'.left = boost.left - (IF boost.left > 0 THEN 1 ELSE 0)
    BY <1>1 DEF TickAround, Ticked, NoBoost
  <2>2. charges' = charges /\ charges = ledger.charges /\ boost.left = ledger.boost
    BY DEF Inv, BoostsRunInFull, TickAround
  <2>. QED  BY <1>15, <2>1, <2>2 DEF BoostsRunInFull
<1>17. AutoMiningIsConserved'
  BY <1>2, <1>15 DEF Inv, AutoMiningIsConserved, TickAround
<1>18. /\ autoRaw' = autoRaw + AutoPaid(1) /\ playtime' = playtime + 1
       /\ runPlaytime' = runPlaytime + 1 /\ auto' = AutoCarried(1)
       /\ autoRaw \in Nat /\ playtime \in Nat /\ runPlaytime \in Nat
       /\ runPlaytime <= playtime
       /\ UNCHANGED <<charges, dial, absences>>
  BY DEF TickAround, Inv, TypeOK, PartsAreValid
<1>19. autoRaw' - autoRaw = AutoPaid(1) /\ autoRaw' \in Nat /\ autoRaw <= autoRaw'
  BY <1>2, <1>18
<1>20. playtime' = playtime + 1 /\ runPlaytime' \in Nat /\ runPlaytime' <= playtime'
  BY <1>18
<1>. QED  BY <1>2, <1>3, <1>13, <1>15, <1>16, <1>17, <1>18, <1>19, <1>20
-----------------------------------------------------------------------------
(* One lemma for each action. *)

LEMMA TickKeepsInv ==
  ASSUME Inv, Tick, UNCHANGED schema
  PROVE  Inv'
<1>1. /\ playtime' = playtime + 1 /\ runPlaytime' \in Nat /\ runPlaytime' <= playtime'
      /\ boost' \in [left : Nat, granted : Nat] /\ boost'.left <= boost'.granted
      /\ auto' \in [common : 0..(Block - 1), value : 0..(Block - 1)]
      /\ autoRaw' \in Nat /\ autoRaw <= autoRaw'
      /\ inventory' \in Purses
      /\ TotalRaw(inventory)' <= TotalRaw(inventory) + (autoRaw' - autoRaw)
                                    + 0 + RawPerCompressed * 0
      /\ ledger' \in Ledger
      /\ BoostsRunInFull' /\ AutoMiningIsConserved'
      /\ ledger'.claimed = ledger.claimed /\ ledger'.xp = ledger.xp
      /\ LootIsConserved'
      /\ UNCHANGED <<charges, dial, absences>>
  <2>1. TickAround(0, 0, ledger) /\ ledger \in Ledger /\ 0 \in Nat /\ yieldCarry' \in Purse
    BY DEF Tick, Inv, TypeOK
  <2>2. ledger.ore = Permille * (TotalRaw(inventory) + 0 + RawPerCompressed * 0)
                        + yieldCarry'.raw + RawPerCompressed * yieldCarry'.compressed
    <3>1. TotalRaw(inventory) + 0 + RawPerCompressed * 0 = TotalRaw(inventory)
      BY InventoryTyped, Numbers
    <3>2. yieldCarry' = yieldCarry /\ ledger.ore = Standing
      BY DEF Tick, Inv, LootIsConserved
    <3>. QED  BY <3>1, <3>2 DEF Standing
  <2>. QED  BY <2>1, <2>2, TickKeeps
<1>2. UNCHANGED <<player, unclaimed, yieldCarry, broken>>
  BY DEF Tick
<1>3. TypeOK'
  BY <1>1, <1>2 DEF Inv, TypeOK, Purses
<1>4. RewardsArePaidOnce' /\ ExperienceIsConserved' /\ ClimbIsEarned'
  BY <1>1, <1>2, ClimbKept
<1>5. LootIsConserved' /\ PlayerIsValid' /\ PartsAreValid' /\ NothingCarriedBefore'
  <2>1. LootIsConserved'
    BY <1>1
  <2>2. PlayerIsValid'
    BY <1>2 DEF Inv, PlayerIsValid, XpForLevel
  <2>3. auto'.common < Block /\ auto'.value < Block
    BY <1>1, Numbers
  <2>4. PartsAreValid'
    BY <1>1, <1>2, <2>3 DEF Inv, PartsAreValid
  <2>5. NothingCarriedBefore'
    BY <1>2 DEF Inv, NothingCarriedBefore
  <2>. QED  BY <2>1, <2>2, <2>4, <2>5
<1>6. BlocksAreAccounted'
  <2>1. playtime * MaxCells <= playtime' * MaxCells
    BY <1>1, MulMono, Numbers DEF Inv, TypeOK
  <2>2. playtime * MaxCells \in Nat /\ playtime' * MaxCells \in Nat
    BY <1>1, MulNat, Numbers DEF Inv, TypeOK
  <2>. QED  BY <1>2, <2>1, <2>2 DEF Inv, TypeOK, BlocksAreAccounted
<1>7. PurseIsEarned'
  <2>. DEFINE mined == autoRaw' - autoRaw
  <2>1. mined \in Nat /\ autoRaw' = autoRaw + mined
    <3>. DEFINE now == autoRaw'
    <3>1. autoRaw \in Nat
      BY DEF Inv, TypeOK
    <3>2. now \in Nat /\ autoRaw <= now
      BY <1>1, Zenon
    <3>. HIDE DEF now
    <3>3. now - autoRaw \in Nat /\ now = autoRaw + (now - autoRaw)
      BY <3>1, <3>2
    <3>. QED  BY <3>3 DEF now
  <2>2. TotalRaw(inventory)' <= TotalRaw(inventory) + MaxOre * 0 + mined
    <3>1. TotalRaw(inventory)' \in Nat
      BY <1>1, MulNat, Numbers DEF TotalRaw, Purses
    <3>. QED  BY <1>1, <2>1, <3>1, InventoryTyped, Numbers
  <2>. HIDE DEF mined
  <2>3. Cardinality(ledger'.claimed) = Cardinality(ledger.claimed) + 0
    BY <1>1, RewardsAreBounded DEF Inv, TypeOK, Ledger
  <2>. QED  BY <1>1, <1>2, <2>1, <2>2, <2>3, 0 \in Nat, PurseGains
<1>. QED  BY <1>1, <1>3, <1>4, <1>5, <1>6, <1>7 DEF Inv

Players == [level : Levels, experience : Nat, xpCarry : Nat, prestige : Nat,
            tier : Tiers, efficiency : Nat, fortune : Nat]

LEMMA PlayerGrows ==
  ASSUME NEW p \in Players, NEW q, NEW level \in Levels, NEW experience \in Nat, NEW carry \in Nat,
         q = [p EXCEPT !.level = level, !.experience = experience, !.xpCarry = carry]
  PROVE  /\ q \in Players
         /\ q.level = level /\ q.experience = experience /\ q.xpCarry = carry
         /\ q.prestige = p.prestige /\ q.tier = p.tier
         /\ q.efficiency = p.efficiency /\ q.fortune = p.fortune
BY Zenon DEF Players

(* The climb a swing makes: from what it holds to where the experience goes. *)
LEMMA SwingClimbs ==
  ASSUME Inv, NEW count \in Nat, NEW xp \in Nat, xp <= count * MaxXp,
         NEW reached \in player.level..LevelCap,
         Climbs(reached, player.experience + PaidNow(xp, player.xpCarry)),
         broken' = broken + count,
         player' = [player EXCEPT
            !.level = reached,
            !.experience = Leftover(reached, player.experience + PaidNow(xp, player.xpCarry)),
            !.xpCarry = CarriedOn(xp, player.xpCarry)],
         ledger'.xp = ledger.xp + xp * Multiplier(player.prestige)
  PROVE  /\ player' \in [level : Levels, experience : Nat, xpCarry : Nat, prestige : Nat,
                          tier : Tiers, efficiency : Nat, fortune : Nat]
         /\ player'.level = reached /\ player'.prestige = player.prestige
         /\ player'.fortune = player.fortune
         /\ ledger'.xp \in Nat
         /\ ExperienceIsConserved' /\ PlayerIsValid' /\ ClimbIsEarned'
<1>. DEFINE gained == PaidNow(xp, player.xpCarry)
            carry == CarriedOn(xp, player.xpCarry)
            left == Leftover(reached, player.experience + gained)
            mult == Multiplier(player.prestige)
            from == XpToReach(player.level)
            to == XpToReach(reached)
<1>1. /\ player.level \in 1..LevelCap /\ player.experience \in Nat /\ player.xpCarry \in Nat
      /\ player.prestige \in Nat /\ player.tier \in Tiers
      /\ player.efficiency \in Nat /\ player.fortune \in Nat
      /\ ledger.xp \in Nat /\ broken \in Nat
  BY DEF Inv, TypeOK, Levels, Ledger
<1>2. reached \in 1..LevelCap /\ player.level <= reached
  BY <1>1, Numbers
<1>3. /\ gained \in Nat /\ carry \in 0..(Permille - 1)
      /\ Permille * gained + carry = xp * mult + player.xpCarry
  BY <1>1, Carrying DEF Inv
<1>4. mult \in Nat
  BY <1>1, MultiplierIsNat
<1>5. from \in Nat /\ to \in Nat
  BY <1>1, <1>2, NextThreshold
<1>6. /\ to <= from + (player.experience + gained)
      /\ reached # LevelCap =>
            from + (player.experience + gained) < XpToReach(reached + 1)
  BY DEF Climbs
<1>7. left = IF reached = LevelCap THEN 0 ELSE from + (player.experience + gained) - to
  BY DEF Leftover
<1>. HIDE DEF gained, carry, mult, from, to
<1>8. /\ left \in Nat /\ to + left <= from + player.experience + gained
      /\ reached < LevelCap => to + left = from + player.experience + gained
  BY <1>1, <1>2, <1>3, <1>5, <1>6, <1>7, Numbers
<1>9. reached < LevelCap => left < XpForLevel(reached)
  <2>1. XpToReach(reached + 1) = to + XpForLevel(reached) /\ XpForLevel(reached) \in Nat
    BY <1>2, NextThreshold DEF to
  <2>. QED  BY <1>1, <1>2, <1>3, <1>5, <1>6, <1>7, <2>1, Numbers
<1>. HIDE DEF left
<1>10. player' = [player EXCEPT !.level = reached, !.experience = left, !.xpCarry = carry]
  BY Zenon DEF left, carry, gained
<1>11. /\ player' \in [level : Levels, experience : Nat, xpCarry : Nat, prestige : Nat,
                       tier : Tiers, efficiency : Nat, fortune : Nat]
       /\ player'.level = reached /\ player'.experience = left /\ player'.xpCarry = carry
       /\ player'.prestige = player.prestige /\ player'.tier = player.tier
       /\ player'.efficiency = player.efficiency /\ player'.fortune = player.fortune
  <2>1. reached \in Levels /\ carry \in Nat
    BY <1>2, <1>3, Numbers DEF Levels
  <2>2. left \in Nat
    BY <1>8
  <2>3. player \in Players
    BY DEF Inv, TypeOK, Players
  <2>. QED  BY <1>10, <2>1, <2>2, <2>3, PlayerGrows, Zenon DEF Players
<1>12. xp * mult \in Nat /\ ledger'.xp = ledger.xp + xp * mult
  BY <1>4, MulNat DEF mult
<1>. DEFINE stood == from + player.experience
            stands == to + left
<1>13. /\ stood \in Nat /\ stands \in Nat
       /\ Permille * stood \in Nat /\ Permille * stands \in Nat
       /\ Permille * stands + carry <= Permille * stood + player.xpCarry + xp * mult
       /\ reached < LevelCap =>
             Permille * stands + carry = Permille * stood + player.xpCarry + xp * mult
  <2>1. stood \in Nat /\ stands \in Nat /\ stands <= stood + gained
        /\ (reached < LevelCap => stands = stood + gained)
    <3>1. left \in Nat
      BY <1>8
    <3>. QED  BY <1>1, <1>3, <1>5, <1>8, <3>1
  <2>. HIDE DEF stood, stands
  <2>2. /\ Permille * (stood + gained) = Permille * stood + Permille * gained
        /\ Permille * stands <= Permille * (stood + gained)
    <3>1. stands * Permille <= (stood + gained) * Permille
      <4>1. stood + gained \in Nat /\ Permille \in Nat
        BY <1>3, <2>1, Numbers
      <4>. QED  BY <2>1, <4>1, MulMono
    <3>. QED  BY <1>3, <2>1, <3>1, Numbers
  <2>3. /\ Permille * stands \in Nat /\ Permille * stood \in Nat /\ Permille * gained \in Nat
    BY <1>3, <2>1, MulNat, Numbers
  <2>4. reached < LevelCap => Permille * stands = Permille * (stood + gained)
    BY <2>1
  <2>5. carry \in Nat
    BY <1>3, Numbers
  <2>. QED  BY <1>1, <1>3, <1>12, <2>1, <2>2, <2>3, <2>4, <2>5
<1>14. ExperienceIsConserved'
  <2>1. /\ Permille * stood + player.xpCarry <= ledger.xp
        /\ player.level < LevelCap => Permille * stood + player.xpCarry = ledger.xp
    BY DEF Inv, ExperienceIsConserved, from
  <2>2. XpToReach(player.level)' + player'.experience = stands
    BY <1>11 DEF to, XpToReach
  <2>. HIDE DEF stood, stands
  <2>3. reached < LevelCap => player.level < LevelCap
    BY <1>1, <1>2, Numbers
  <2>4. carry \in Nat
    BY <1>3, Numbers
  <2>5. /\ Permille * stands + carry <= ledger.xp + xp * mult
        /\ reached < LevelCap => Permille * stands + carry = ledger.xp + xp * mult
    BY <1>1, <1>12, <1>13, <2>1, <2>3, <2>4
  <2>. QED  BY <1>11, <1>12, <2>2, <2>5 DEF ExperienceIsConserved
<1>15. PlayerIsValid'
  <2>1. player'.efficiency <= EfficiencyCap[player'.tier]
    BY <1>11 DEF Inv, PlayerIsValid
  <2>2. player'.fortune <= FortuneCap[player'.level]
    <3>1. player.fortune <= FortuneCap[player.level]
      BY DEF Inv, PlayerIsValid
    <3>2. FortuneCap[player.level] <= FortuneCap[reached] /\ FortuneCap \in [1..LevelCap -> Nat]
      BY <1>1, <1>2, RunConstants DEF Levels
    <3>3. player.fortune <= FortuneCap[reached]
      BY <1>1, <1>2, <3>1, <3>2
    <3>. QED  BY <1>11, <3>3
  <2>3. player'.level < LevelCap => player'.experience < XpForLevel(player.level)'
    BY <1>9, <1>11 DEF XpForLevel
  <2>4. player'.xpCarry < Permille
    BY <1>3, <1>11, Numbers
  <2>5. player'.level \in Levels
    BY <1>2, <1>11 DEF Levels
  <2>. QED  BY <2>1, <2>2, <2>3, <2>4, <2>5 DEF PlayerIsValid
<1>16. ClimbIsEarned'
  <2>. DEFINE before == XpToReach(LevelCap) * player.prestige
  <2>1. before \in Nat
    BY <1>1, NextThreshold, MulNat, Numbers
  <2>2. Climbed' = before + stands
    <3>1. Climbed' = before + to + left
      BY <1>11 DEF Climbed, to, XpToReach
    <3>. HIDE DEF before
    <3>2. left \in Nat
      BY <1>8
    <3>. QED  BY <1>5, <2>1, <3>1, <3>2
  <2>3. Permille * (before + stood) + player.xpCarry <= broken * MaxXp * mult
    <3>1. Climbed = before + from + player.experience
      BY DEF Climbed, from
    <3>. HIDE DEF before
    <3>2. Climbed = before + stood
      BY <1>1, <1>5, <2>1, <3>1
    <3>. QED  BY <3>2 DEF Inv, ClimbIsEarned, mult
  <2>. HIDE DEF before, stood, stands
  <2>4. /\ Permille * (before + stood) = Permille * before + Permille * stood
        /\ Permille * (before + stands) = Permille * before + Permille * stands
    BY <1>13, <2>1, Numbers
  <2>5. xp * mult <= count * MaxXp * mult
    BY <1>4, MulMono, MulNat, Numbers
  <2>6. (broken + count) * MaxXp * mult = broken * MaxXp * mult + count * MaxXp * mult
    BY <1>1, <1>4, Numbers
  <2>7. /\ broken * MaxXp * mult \in Nat /\ count * MaxXp * mult \in Nat
        /\ Permille * before \in Nat
    BY <1>1, <1>4, <2>1, MulNat, Numbers
  <2>8. carry \in Nat
    BY <1>3, Numbers
  <2>9. Permille * (before + stands) + carry <= (broken + count) * MaxXp * mult
    BY <1>1, <1>12, <1>13, <2>3, <2>4, <2>5, <2>6, <2>7, <2>8
  <2>10. Multiplier(player.prestige)' = mult
    BY <1>11 DEF mult, Multiplier
  <2>. QED  BY <1>11, <2>2, <2>9, <2>10 DEF ClimbIsEarned
<1>17. ledger'.xp \in Nat
  BY <1>1, <1>12
<1>. QED  BY <1>1, <1>11, <1>14, <1>15, <1>16, <1>17

(* A block gives at most what the audit allows it: its drop times the best  *)
(* Fortune, or a Compressed item in its place.                              *)
LEMMA SwingIsBounded ==
  ASSUME Inv, NEW count \in Nat, NEW compressed \in 0..1, compressed <= count,
         NEW ore \in Nat, ore <= (count - compressed) * MaxDrop
  PROVE  /\ ore * FortuneMultiplier \in Nat
         /\ ore * FortuneMultiplier + RawPerCompressed * compressed <= count * MaxRawPerBlock
<1>. DEFINE best == 1 + FortuneCap[LevelCap]
            dropping == count - compressed
<1>1. FortuneMultiplier \in 1..best /\ best \in Nat
  <2>1. FortuneCap[LevelCap] \in Nat
    BY RunConstants DEF Levels
  <2>. QED  BY <2>1, FortuneIsBounded DEF Inv
<1>2. FortuneMultiplier \in Nat /\ FortuneMultiplier <= best
  BY <1>1
<1>3. MaxDrop * best <= MaxRawPerBlock
  BY RawPerBlockIsBounded
<1>. HIDE DEF best
<1>4. dropping \in Nat /\ count = dropping + compressed
  OBVIOUS
<1>5. ore <= dropping * MaxDrop /\ compressed \in Nat
  OBVIOUS
<1>. HIDE DEF dropping
<1>6. ore * FortuneMultiplier <= dropping * MaxRawPerBlock
  <2>1. ore * FortuneMultiplier <= (dropping * MaxDrop) * FortuneMultiplier
    BY <1>2, <1>4, <1>5, MulMono, MulNat, Numbers
  <2>2. FortuneMultiplier * (dropping * MaxDrop) <= best * (dropping * MaxDrop)
    BY <1>1, <1>2, <1>4, MulMono, MulNat, Numbers
  <2>3. (MaxDrop * best) * dropping <= MaxRawPerBlock * dropping
    <3>1. MaxDrop * best \in Nat
      BY <1>1, MulNat, Numbers
    <3>. QED  BY <1>3, <1>4, <3>1, MulMono, RawPerBlockIsBounded
  <2>4. /\ FortuneMultiplier * (dropping * MaxDrop) = (dropping * MaxDrop) * FortuneMultiplier
        /\ best * (dropping * MaxDrop) = (MaxDrop * best) * dropping
        /\ MaxRawPerBlock * dropping = dropping * MaxRawPerBlock
    BY <1>1, <1>2, <1>4, Numbers, RawPerBlockIsBounded
  <2>5. /\ ore * FortuneMultiplier \in Nat
        /\ (dropping * MaxDrop) * FortuneMultiplier \in Nat
        /\ (MaxDrop * best) * dropping \in Nat
        /\ dropping * MaxRawPerBlock \in Nat
    BY <1>1, <1>2, <1>4, MulNat, Numbers, RawPerBlockIsBounded
  <2>. QED  BY <2>1, <2>2, <2>3, <2>4, <2>5
<1>7. RawPerCompressed * compressed <= compressed * MaxRawPerBlock
  <2>1. RawPerCompressed * compressed <= MaxRawPerBlock * compressed
    BY <1>5, MulMono, Numbers, RawPerBlockIsBounded
  <2>. QED  BY <1>5, <2>1, Numbers, RawPerBlockIsBounded
<1>8. count * MaxRawPerBlock = dropping * MaxRawPerBlock + compressed * MaxRawPerBlock
  BY <1>4, <1>5, RawPerBlockIsBounded
<1>9. /\ ore * FortuneMultiplier \in Nat /\ RawPerCompressed * compressed \in Nat
      /\ dropping * MaxRawPerBlock \in Nat /\ compressed * MaxRawPerBlock \in Nat
  BY <1>2, <1>4, <1>5, MulNat, Numbers, RawPerBlockIsBounded
<1>. QED  BY <1>6, <1>7, <1>8, <1>9

(* The loot a swing makes, paid and carried: the purse stays accounted for. *)
LEMMA SwingLoots ==
  ASSUME Inv, NEW count \in Nat, NEW raw \in Nat, NEW compressed \in Nat, NEW mined \in Nat,
         raw + RawPerCompressed * compressed <= count * MaxRawPerBlock,
         broken' = broken + count, autoRaw' = autoRaw + mined,
         ledger'.claimed = ledger.claimed, player'.prestige = player.prestige,
         inventory' \in Purses,
         TotalRaw(inventory)' <= TotalRaw(inventory) + mined
             + PaidNow(raw, yieldCarry.raw)
             + RawPerCompressed * PaidNow(compressed, yieldCarry.compressed),
         yieldCarry' = [raw |-> CarriedOn(raw, yieldCarry.raw),
                        compressed |-> CarriedOn(compressed, yieldCarry.compressed)]
  PROVE  PurseIsEarned'
<1>. DEFINE mult == Multiplier(player.prestige)
            paidR == PaidNow(raw, yieldCarry.raw)
            paidC == PaidNow(compressed, yieldCarry.compressed)
            keptR == CarriedOn(raw, yieldCarry.raw)
            keptC == CarriedOn(compressed, yieldCarry.compressed)
            had == TotalRaw(inventory)
            has == TotalRaw(inventory)'
            R == RawPerCompressed
            P == Permille
<1>1. /\ yieldCarry.raw \in Nat /\ yieldCarry.compressed \in Nat /\ mult \in Nat
      /\ Cardinality(ledger.claimed) \in Nat
  BY MultiplierIsNat, RewardsAreBounded DEF Inv, TypeOK, Purse, Ledger
<1>2. /\ paidR \in Nat /\ keptR \in Nat /\ P * paidR + keptR = raw * mult + yieldCarry.raw
      /\ paidC \in Nat /\ keptC \in Nat
      /\ P * paidC + keptC = compressed * mult + yieldCarry.compressed
  <2>1. TypeOK
    BY DEF Inv
  <2>2. paidR \in Nat /\ keptR \in 0..(P - 1) /\ P * paidR + keptR = raw * mult + yieldCarry.raw
    BY <1>1, <2>1, Carrying
  <2>3. /\ paidC \in Nat /\ keptC \in 0..(P - 1)
        /\ P * paidC + keptC = compressed * mult + yieldCarry.compressed
    BY <1>1, <2>1, Carrying
  <2>4. 0..(P - 1) \subseteq Nat
    BY Numbers
  <2>. QED  BY <2>2, <2>3, <2>4
<1>3. had \in Nat /\ has \in Nat
  <2>1. has \in Nat
    BY MulNat, Numbers DEF TotalRaw, Purses
  <2>. QED  BY <2>1, InventoryTyped
<1>4. has <= had + mined + paidR + R * paidC /\ R * paidC \in Nat
  BY <1>2, MulNat, Numbers
<1>5. yieldCarry'.raw = keptR /\ yieldCarry'.compressed = keptC
  OBVIOUS
<1>6. R \in Nat /\ P \in Nat
  BY Numbers
<1>7. raw * mult + (R * compressed) * mult <= count * MaxRawPerBlock * mult
  <2>1. /\ R * compressed \in Nat /\ raw + R * compressed \in Nat
        /\ count * MaxRawPerBlock \in Nat
    <3>1. R * compressed \in Nat /\ count * MaxRawPerBlock \in Nat
      BY <1>6, MulNat, RawPerBlockIsBounded
    <3>. QED  BY <3>1
  <2>2. (raw + R * compressed) * mult <= count * MaxRawPerBlock * mult
    BY <1>1, <2>1, MulMono
  <2>3. (raw + R * compressed) * mult = raw * mult + (R * compressed) * mult
    BY <1>1, <2>1
  <2>. QED  BY <2>2, <2>3
<1>. HIDE DEF mult, paidR, paidC, keptR, keptC, had, has, R, P
<1>8. P * has <= P * had + P * mined + P * paidR + R * (P * paidC)
  <2>1. had + mined + paidR + R * paidC \in Nat
    BY <1>2, <1>3, <1>4
  <2>2. has * P <= (had + mined + paidR + R * paidC) * P
    BY <1>3, <1>4, <1>6, <2>1, MulMono
  <2>3. (had + mined + paidR + R * paidC) * P = P * had + P * mined + P * paidR + R * (P * paidC)
    BY <1>2, <1>3, <1>6
  <2>4. has * P = P * has
    BY <1>3, <1>6
  <2>. QED  BY <2>2, <2>3, <2>4
<1>9. R * (P * paidC) + R * keptC = (R * compressed) * mult + R * yieldCarry.compressed
  <2>1. R * (P * paidC + keptC) = R * (compressed * mult + yieldCarry.compressed)
    BY <1>2
  <2>2. R * (P * paidC + keptC) = R * (P * paidC) + R * keptC
    BY <1>2, <1>6
  <2>3. R * (compressed * mult + yieldCarry.compressed)
            = (R * compressed) * mult + R * yieldCarry.compressed
    BY <1>1, <1>6
  <2>. QED  BY <2>1, <2>2, <2>3
<1>10. /\ P * has \in Nat /\ P * had \in Nat /\ P * mined \in Nat /\ P * paidR \in Nat
       /\ R * (P * paidC) \in Nat /\ R * keptC \in Nat /\ R * yieldCarry.compressed \in Nat
       /\ raw * mult \in Nat /\ (R * compressed) * mult \in Nat
       /\ count * MaxRawPerBlock * mult \in Nat
  BY <1>1, <1>2, <1>3, <1>6, MulNat, RawPerBlockIsBounded
<1>11. /\ P * has + keptR + R * keptC
              <= P * had + yieldCarry.raw + R * yieldCarry.compressed
                  + count * MaxRawPerBlock * mult + P * mined
       /\ P * has + keptR + R * keptC \in Nat
  BY <1>1, <1>2, <1>7, <1>8, <1>9, <1>10
<1>12. P * (MaxOre * 0) = 0
  BY <1>6, Numbers
<1>13. Cardinality(ledger'.claimed) = Cardinality(ledger.claimed) + 0
  BY <1>1
<1>14. P * has + keptR + R * keptC
              <= P * had + yieldCarry.raw + R * yieldCarry.compressed
                  + count * MaxRawPerBlock * mult + P * (MaxOre * 0) + P * mined
  BY <1>1, <1>10, <1>11, <1>12
<1>. QED
  BY <1>5, <1>11, <1>13, <1>14, 0 \in Nat, PurseAccounted DEF P, R, has, had, mult

(* The levels a swing crosses join those that wait.                         *)
LEMMA FiledKeeps ==
  ASSUME Inv, NEW reached \in player.level..LevelCap,
         player'.level = reached, unclaimed' = Filed(reached),
         ledger'.claimed = ledger.claimed
  PROVE  /\ unclaimed' \subseteq Rewarded
         /\ \A level \in unclaimed' : level <= reached
         /\ RewardsArePaidOnce'
<1>1. player.level \in 1..LevelCap /\ unclaimed \subseteq Rewarded
  BY DEF Inv, TypeOK, Levels
<1>2. /\ unclaimed \cap ledger.claimed = {}
      /\ unclaimed \cup ledger.claimed = 2..player.level
  BY DEF Inv, RewardsArePaidOnce
<1>3. unclaimed' = unclaimed \cup (player.level + 1)..reached
  BY DEF Filed
<1>4. /\ ((player.level + 1)..reached) \cap (2..player.level) = {}
      /\ (2..player.level) \cup ((player.level + 1)..reached) = 2..reached
  BY <1>1, Numbers
<1>5. unclaimed' \cup ledger.claimed = 2..reached /\ unclaimed' \cap ledger.claimed = {}
  BY <1>2, <1>3, <1>4
<1>6. unclaimed' \subseteq 2..reached
  BY <1>5
<1>7. unclaimed' \subseteq Rewarded /\ \A level \in unclaimed' : level <= reached
  BY <1>1, <1>6, Numbers DEF Rewarded
<1>. QED  BY <1>5, <1>7 DEF RewardsArePaidOnce

LEMMA SwingKeepsInv ==
  ASSUME Inv, schema = SaveVersion, UNCHANGED schema, Swing
  PROVE  Inv'
<1>1. PICK count \in 1..MaxCells, excavated \in BOOLEAN :
         \E xp \in count..(count * MaxXp) :
            LET dropping == IF excavated THEN count - 1 ELSE count
            IN  \E ore \in dropping..(dropping * MaxDrop), reached \in player.level..LevelCap :
                    Broken(count, xp, excavated, ore, reached)
  BY DEF Swing
<1>. DEFINE compressed == IF excavated THEN 1 ELSE 0
<1>2. PICK xp \in count..(count * MaxXp) :
         \E ore \in (count - compressed)..((count - compressed) * MaxDrop),
            reached \in player.level..LevelCap :
                Broken(count, xp, excavated, ore, reached)
  BY <1>1, Numbers
<1>3. PICK ore \in (count - compressed)..((count - compressed) * MaxDrop),
           reached \in player.level..LevelCap :
                Broken(count, xp, excavated, ore, reached)
  BY <1>2
<1>. DEFINE raw == ore * FortuneMultiplier
            paidR == PaidNow(raw, yieldCarry.raw)
            paidC == PaidNow(compressed, yieldCarry.compressed)
            gained == PaidNow(xp, player.xpCarry)
            mult == Multiplier(player.prestige)
            xpNow == ledger.xp + xp * mult
            oreNow == ledger.ore + (raw + RawPerCompressed * compressed) * mult
            swung == [ledger EXCEPT !.xp = xpNow, !.ore = oreNow]
<1>4. /\ count \in Nat \ {0} /\ compressed \in 0..1 /\ compressed \in Nat /\ compressed <= count
      /\ ore \in Nat /\ ore <= (count - compressed) * MaxDrop
      /\ xp \in Nat /\ xp <= count * MaxXp /\ count <= MaxCells
  BY Numbers
<1>5. /\ Climbs(reached, player.experience + gained)
      /\ player' = [player EXCEPT !.level = reached,
                                  !.experience = Leftover(reached, player.experience + gained),
                                  !.xpCarry = CarriedOn(xp, player.xpCarry)]
      /\ unclaimed' = Filed(reached)
      /\ broken' = broken + count
      /\ yieldCarry' = [raw |-> CarriedOn(raw, yieldCarry.raw),
                        compressed |-> CarriedOn(compressed, yieldCarry.compressed)]
      /\ TickAround(paidR, paidC, swung)
  BY <1>3, Zenon DEF Broken
<1>6. /\ TypeOK /\ ledger \in Ledger /\ player.prestige \in Nat
      /\ yieldCarry.raw \in Nat /\ yieldCarry.compressed \in Nat
      /\ ledger.ore = Standing /\ ledger.ore \in Int
      /\ ledger.xp \in Nat /\ player.xpCarry \in Nat
      /\ broken \in Nat /\ autoRaw \in Nat /\ playtime \in Nat
  BY DEF Inv, TypeOK, LootIsConserved, Purse, Ledger
<1>7. /\ raw \in Nat /\ raw + RawPerCompressed * compressed <= count * MaxRawPerBlock
  BY <1>4, SwingIsBounded
<1>. HIDE DEF compressed, raw
<1>8. mult \in Nat /\ xp * mult \in Nat
  BY <1>4, <1>6, MultiplierIsNat, MulNat
<1>9. /\ paidR \in Nat /\ CarriedOn(raw, yieldCarry.raw) \in 0..(Permille - 1)
      /\ Permille * paidR + CarriedOn(raw, yieldCarry.raw) = raw * mult + yieldCarry.raw
  BY <1>6, <1>7, Carrying
<1>10. /\ paidC \in Nat /\ CarriedOn(compressed, yieldCarry.compressed) \in 0..(Permille - 1)
       /\ Permille * paidC + CarriedOn(compressed, yieldCarry.compressed)
             = compressed * mult + yieldCarry.compressed
  BY <1>4, <1>6, Carrying
<1>11. oreNow = Permille * (TotalRaw(inventory) + paidR + RawPerCompressed * paidC)
                  + yieldCarry'.raw + RawPerCompressed * yieldCarry'.compressed
  <2>. DEFINE P == Permille
              R == RawPerCompressed
              keptR == CarriedOn(raw, yieldCarry.raw)
              keptC == CarriedOn(compressed, yieldCarry.compressed)
              had == TotalRaw(inventory)
              fromR == yieldCarry.raw
              fromC == yieldCarry.compressed
  <2>1. /\ P \in Nat /\ R \in Nat /\ had \in Nat /\ keptR \in Nat /\ keptC \in Nat
        /\ fromR \in Nat /\ fromC \in Nat
    BY <1>6, <1>9, <1>10, InventoryTyped, Numbers
  <2>2. P * paidR + keptR = raw * mult + fromR /\ P * paidC + keptC = compressed * mult + fromC
    BY <1>9, <1>10
  <2>3. yieldCarry'.raw = keptR /\ yieldCarry'.compressed = keptC
    BY <1>5
  <2>4. ledger.ore = P * had + fromR + R * fromC
    BY <1>6 DEF Standing
  <2>. HIDE DEF P, R, keptR, keptC, had, fromR, fromC, mult, paidR, paidC
  <2>5. (raw + R * compressed) * mult = raw * mult + R * (compressed * mult)
    BY <1>4, <1>7, <1>8, <2>1
  <2>6. P * (had + paidR + R * paidC) = P * had + P * paidR + R * (P * paidC)
    BY <1>9, <1>10, <2>1
  <2>7. R * (P * paidC) + R * keptC = R * (compressed * mult) + R * fromC
    <3>1. R * (P * paidC + keptC) = R * (compressed * mult + fromC)
      BY <2>2
    <3>2. /\ R * (P * paidC + keptC) = R * (P * paidC) + R * keptC
          /\ R * (compressed * mult + fromC) = R * (compressed * mult) + R * fromC
      BY <1>4, <1>8, <1>10, <2>1
    <3>. QED  BY <3>1, <3>2
  <2>8. /\ P * had \in Nat /\ P * paidR \in Nat /\ R * (P * paidC) \in Nat
        /\ R * keptC \in Nat /\ R * fromC \in Nat
        /\ raw * mult \in Nat /\ R * (compressed * mult) \in Nat
    BY <1>4, <1>7, <1>8, <1>9, <1>10, <2>1, MulNat
  <2>9. ledger.ore + (raw + R * compressed) * mult
            = P * (had + paidR + R * paidC) + keptR + R * keptC
    <3>. DEFINE pHad == P * had
                pPaidR == P * paidR
                pPaidC == R * (P * paidC)
                rKept == R * keptC
                rFrom == R * fromC
                owedR == raw * mult
                owedC == R * (compressed * mult)
    <3>1. /\ pHad \in Nat /\ pPaidR \in Nat /\ pPaidC \in Nat /\ rKept \in Nat
          /\ rFrom \in Nat /\ owedR \in Nat /\ owedC \in Nat
      BY <2>8
    <3>2. /\ pPaidR + keptR = owedR + fromR /\ pPaidC + rKept = owedC + rFrom
          /\ ledger.ore = pHad + fromR + rFrom
          /\ (raw + R * compressed) * mult = owedR + owedC
          /\ P * (had + paidR + R * paidC) = pHad + pPaidR + pPaidC
      BY <2>2, <2>4, <2>5, <2>6, <2>7
    <3>. HIDE DEF pHad, pPaidR, pPaidC, rKept, rFrom, owedR, owedC
    <3>3. pHad + fromR + rFrom + (owedR + owedC) = pHad + pPaidR + pPaidC + keptR + rKept
      BY <2>1, <3>1, <3>2
    <3>. QED  BY <3>2, <3>3, Zenon DEF rKept
  <2>. QED  BY <2>3, <2>9 DEF P, R, had
<1>12. yieldCarry' \in Purse /\ yieldCarry'.raw < Permille /\ yieldCarry'.compressed < Permille
  <2>1. /\ CarriedOn(raw, yieldCarry.raw) \in Nat /\ CarriedOn(raw, yieldCarry.raw) < Permille
        /\ CarriedOn(compressed, yieldCarry.compressed) \in Nat
        /\ CarriedOn(compressed, yieldCarry.compressed) < Permille
    BY <1>9, <1>10, Numbers
  <2>. QED  BY <1>5, <2>1, Zenon DEF Purse
<1>13. /\ swung \in Ledger /\ swung.xp = ledger.xp + xp * mult /\ swung.ore = oreNow
       /\ swung.claimed = ledger.claimed /\ swung.charges = ledger.charges
       /\ swung.boost = ledger.boost /\ swung.auto = ledger.auto
  <2>1. xpNow \in Nat /\ oreNow \in Int
    <3>1. (raw + RawPerCompressed * compressed) * mult \in Int
      BY <1>4, <1>7, <1>8, MulNat, Numbers
    <3>. HIDE DEF mult
    <3>. QED  BY <1>6, <1>8, <3>1
  <2>. HIDE DEF xpNow, oreNow
  <2>2. /\ swung \in Ledger /\ swung.xp = xpNow /\ swung.ore = oreNow
        /\ swung.claimed = ledger.claimed /\ swung.charges = ledger.charges
        /\ swung.boost = ledger.boost /\ swung.auto = ledger.auto
    BY <1>6, <2>1, ZenonT(60) DEF Ledger
  <2>. QED  BY <2>2 DEF xpNow
<1>. HIDE DEF swung, paidR, paidC, xpNow, oreNow
<1>14. TickAround(paidR, paidC, swung) /\ paidR \in Nat /\ paidC \in Nat
  BY <1>5, <1>9, <1>10
<1>15. /\ playtime' = playtime + 1 /\ runPlaytime' \in Nat /\ runPlaytime' <= playtime'
       /\ boost' \in [left : Nat, granted : Nat] /\ boost'.left <= boost'.granted
       /\ auto' \in [common : 0..(Block - 1), value : 0..(Block - 1)]
       /\ autoRaw' \in Nat /\ autoRaw <= autoRaw'
       /\ inventory' \in Purses
       /\ TotalRaw(inventory)' <= TotalRaw(inventory) + (autoRaw' - autoRaw)
                                    + paidR + RawPerCompressed * paidC
       /\ ledger' \in Ledger
       /\ BoostsRunInFull' /\ AutoMiningIsConserved'
       /\ ledger'.claimed = ledger.claimed /\ ledger'.xp = ledger.xp + xp * mult
       /\ LootIsConserved'
       /\ UNCHANGED <<charges, dial, absences>>
  BY <1>11, <1>12, <1>13, <1>14, TickKeeps
<1>16. /\ player' \in [level : Levels, experience : Nat, xpCarry : Nat, prestige : Nat,
                        tier : Tiers, efficiency : Nat, fortune : Nat]
       /\ player'.level = reached /\ player'.prestige = player.prestige
       /\ ExperienceIsConserved' /\ PlayerIsValid' /\ ClimbIsEarned'
  BY <1>4, <1>5, <1>15, SwingClimbs, Zenon
<1>17. /\ unclaimed' \subseteq Rewarded
       /\ \A level \in unclaimed' : level <= reached
       /\ RewardsArePaidOnce'
  BY <1>5, <1>15, <1>16, FiledKeeps, Zenon
<1>18. LootIsConserved'
  BY <1>15
<1>19. BlocksAreAccounted'
  <2>1. broken <= playtime * MaxCells /\ playtime * MaxCells \in Nat
    BY <1>6, MulNat, Numbers DEF Inv, BlocksAreAccounted
  <2>2. (playtime + 1) * MaxCells = playtime * MaxCells + MaxCells
    BY <1>6, Numbers
  <2>3. broken + count <= (playtime + 1) * MaxCells
    BY <1>4, <1>6, <2>1, <2>2, Numbers
  <2>. QED  BY <1>5, <1>15, <2>3, Zenon DEF BlocksAreAccounted
<1>20. PurseIsEarned'
  <2>. DEFINE mined == autoRaw' - autoRaw
  <2>1. mined \in Nat /\ autoRaw' = autoRaw + mined
    <3>1. autoRaw \in Nat /\ autoRaw' \in Nat /\ autoRaw <= autoRaw'
      BY <1>6, <1>15, Zenon
    <3>. DEFINE now == autoRaw'
    <3>2. now \in Nat /\ autoRaw <= now
      BY <3>1
    <3>. HIDE DEF now
    <3>3. now - autoRaw \in Nat /\ now = autoRaw + (now - autoRaw)
      BY <3>1, <3>2
    <3>. QED  BY <3>3 DEF now
  <2>2. TotalRaw(inventory)' <= TotalRaw(inventory) + mined + paidR + RawPerCompressed * paidC
    BY <1>15
  <2>. HIDE DEF mined
  <2>. QED
    BY <1>4, <1>5, <1>7, <1>15, <1>16, <2>1, <2>2, SwingLoots DEF paidR, paidC
<1>21. broken' \in Nat /\ player'.level = reached
  BY <1>4, <1>5, <1>6, <1>16
<1>22. TypeOK'
  <2>1. /\ inventory' \in [raw : 0..MaxCount, compressed : 0..MaxCount]
        /\ auto' \in [common : Nat, value : Nat]
        /\ playtime' \in Nat
    BY <1>6, <1>15, Numbers DEF Purses
  <2>2. charges' \in Nat /\ dial' \in Dials /\ absences' \in Nat /\ schema' \in 1..SaveVersion
    BY <1>15 DEF Inv, TypeOK
  <2>. QED  BY <1>12, <1>15, <1>16, <1>17, <1>21, <2>1, <2>2, Zenon DEF TypeOK
<1>23. PartsAreValid'
  <2>1. auto'.common < Block /\ auto'.value < Block
    BY <1>15, Numbers
  <2>2. \A level \in unclaimed' : level <= player'.level /\ level \in Rewarded
    BY <1>17, <1>21, Zenon
  <2>. QED  BY <1>12, <1>15, <2>1, <2>2, Zenon DEF PartsAreValid
<1>24. NothingCarriedBefore'
  <2>1. ~(schema' < SaveVersion)
    BY DEF SaveVersion
  <2>. QED  BY <2>1, Zenon DEF NothingCarriedBefore
<1>. QED
  BY <1>15, <1>16, <1>17, <1>18, <1>19, <1>20, <1>22, <1>23, <1>24, Zenon DEF Inv

(* What stays as it is when nothing but the auto-miner or the purse moves.  *)
LEMMA ResumeKeepsInv ==
  ASSUME Inv, UNCHANGED schema, NEW ticks \in Nat, Resume(ticks)
  PROVE  Inv'
<1>1. /\ AutoCarried(ticks) \in [common : 0..(Block - 1), value : 0..(Block - 1)]
      /\ AutoOwed(ticks) \in Int
      /\ Permille * (AutoCarried(ticks).common + AutoCarried(ticks).value)
             = Permille * (auto.common + auto.value) + AutoOwed(ticks)
      /\ AutoPaid(ticks) \in Nat /\ AutoDug(ticks) \in Nat
      /\ AutoPaid(ticks) <= AutoDug(ticks)
      /\ AutoPaid(ticks) = AutoDug(ticks) \/ AutoPaid(ticks) = MaxCount
  BY AutoMined DEF Inv
<1>2. /\ absences' = absences + 1 /\ auto' = AutoCarried(ticks)
      /\ autoRaw' = autoRaw + AutoPaid(ticks)
      /\ inventory' = Added(inventory, AutoPaid(ticks), 0)
      /\ ledger' = Booked([ledger EXCEPT !.auto = ledger.auto + AutoOwed(ticks)],
                          Permille * AutoDug(ticks))
      /\ UNCHANGED <<player, unclaimed, charges, boost, dial, yieldCarry, broken,
                     playtime, runPlaytime, schema>>
  BY DEF Resume
<1>3. /\ inventory' \in Purses
      /\ TotalRaw(inventory)' <= TotalRaw(inventory) + AutoPaid(ticks)
      /\ ~Full(inventory') => TotalRaw(inventory)' = TotalRaw(inventory) + AutoDug(ticks)
  <2>. DEFINE mined == Added(inventory, AutoPaid(ticks), 0)
  <2>1. /\ mined \in Purses
        /\ TotalRaw(mined) <= TotalRaw(inventory) + AutoPaid(ticks) + RawPerCompressed * 0
    BY <1>1, 0 \in Nat, InventoryTyped, AddedIsBounded
  <2>2. /\ AutoPaid(ticks) >= MaxCount => Full(mined)
        /\ ~Full(mined) =>
              TotalRaw(mined) = TotalRaw(inventory) + AutoPaid(ticks) + RawPerCompressed * 0
    BY <1>1, 0 \in Nat, InventoryTyped, AddedExactly
  <2>3. inventory' = mined /\ TotalRaw(inventory)' = TotalRaw(mined)
    BY <1>2 DEF TotalRaw
  <2>4. TotalRaw(inventory) + AutoPaid(ticks) + RawPerCompressed * 0
            = TotalRaw(inventory) + AutoPaid(ticks)
    BY <1>1, InventoryTyped, Numbers
  <2>. HIDE DEF mined
  <2>5. ~Full(mined) => AutoPaid(ticks) = AutoDug(ticks)
    BY <1>1, <2>2, Numbers
  <2>. QED  BY <2>1, <2>2, <2>3, <2>4, <2>5
<1>4. /\ LootIsConserved' /\ ledger' \in Ledger
      /\ ledger'.auto = ledger.auto + AutoOwed(ticks)
      /\ ledger'.claimed = ledger.claimed /\ ledger'.xp = ledger.xp
      /\ ledger'.charges = ledger.charges /\ ledger'.boost = ledger.boost
  <2>. DEFINE autoNow == ledger.auto + AutoOwed(ticks)
              owed == [ledger EXCEPT !.auto = autoNow]
  <2>1. ledger \in Ledger /\ autoNow \in Int
    BY <1>1 DEF Inv, TypeOK, Ledger
  <2>. HIDE DEF autoNow
  <2>2. /\ owed \in Ledger /\ owed.auto = autoNow /\ owed.ore = ledger.ore
        /\ owed.claimed = ledger.claimed /\ owed.xp = ledger.xp
        /\ owed.charges = ledger.charges /\ owed.boost = ledger.boost
    BY <2>1, ZenonT(60) DEF Ledger
  <2>3. ledger' = Booked(owed, Permille * AutoDug(ticks))
    BY <1>2, Zenon DEF autoNow
  <2>. HIDE DEF owed
  <2>4. /\ AutoDug(ticks) \in Int
        /\ TotalRaw(inventory)' <= TotalRaw(inventory) + AutoDug(ticks)
    <3>1. TotalRaw(inventory)' \in Nat
      BY <1>3, MulNat, Numbers DEF TotalRaw, Purses
    <3>. QED  BY <1>1, <1>3, <3>1, InventoryTyped
  <2>5. UNCHANGED yieldCarry
    BY <1>2
  <2>6. /\ LootIsConserved' /\ ledger' \in Ledger
        /\ ledger'.auto = owed.auto /\ ledger'.claimed = owed.claimed
        /\ ledger'.xp = owed.xp /\ ledger'.charges = owed.charges
        /\ ledger'.boost = owed.boost
    BY <1>3, <2>2, <2>3, <2>4, <2>5, PileKeeps
  <2>. QED  BY <2>2, <2>6, Zenon DEF autoNow
<1>5. TypeOK'
  <2>1. auto' \in [common : Nat, value : Nat]
    BY <1>1, <1>2, Numbers
  <2>2. absences' \in Nat /\ autoRaw' \in Nat
    BY <1>1, <1>2 DEF Inv, TypeOK
  <2>. QED  BY <1>2, <1>3, <1>4, <2>1, <2>2 DEF Inv, TypeOK, Purses
<1>6. RewardsArePaidOnce' /\ ExperienceIsConserved' /\ ClimbIsEarned'
  BY <1>2, <1>4, ClimbKept
<1>7. LootIsConserved' /\ BoostsRunInFull'
  BY <1>2, <1>4 DEF Inv, BoostsRunInFull
<1>8. AutoMiningIsConserved'
  BY <1>1, <1>2, <1>4 DEF Inv, AutoMiningIsConserved
<1>9. PlayerIsValid' /\ BlocksAreAccounted'
  BY <1>2 DEF Inv, PlayerIsValid, XpForLevel, BlocksAreAccounted
<1>10. PartsAreValid'
  <2>1. auto'.common < Block /\ auto'.value < Block
    BY <1>1, <1>2, Numbers
  <2>. QED  BY <1>2, <2>1 DEF Inv, PartsAreValid
<1>11. PurseIsEarned'
  <2>1. Cardinality(ledger'.claimed) = Cardinality(ledger.claimed) + 0
    BY <1>4, RewardsAreBounded DEF Inv, TypeOK, Ledger
  <2>2. TotalRaw(inventory)' <= TotalRaw(inventory) + MaxOre * 0 + AutoPaid(ticks)
    BY <1>1, <1>3, InventoryTyped, Numbers
  <2>. QED  BY <1>1, <1>2, <1>3, <2>1, <2>2, 0 \in Nat, PurseGains
<1>12. NothingCarriedBefore'
  BY <1>2, CarriesNothing
<1>. QED  BY <1>5, <1>6, <1>7, <1>8, <1>9, <1>10, <1>11, <1>12 DEF Inv

(* Nothing but the purse, the charges and the running boost moves, and the  *)
(* purse is worth no more for it.                                           *)
LEMMA PurseSpent ==
  ASSUME Inv, inventory' \in Purses, TotalRaw(inventory)' <= TotalRaw(inventory),
         dial' \in Dials, charges' \in Nat,
         boost' \in [left : Nat, granted : Nat], boost'.left <= boost'.granted,
         ledger' \in Ledger, ledger'.claimed = ledger.claimed, ledger'.xp = ledger.xp,
         ledger'.auto = ledger.auto,
         LootIsConserved', BoostsRunInFull', PlayerIsValid',
         player' \in Players,
         player'.level = player.level, player'.experience = player.experience,
         player'.xpCarry = player.xpCarry, player'.prestige = player.prestige,
         UNCHANGED <<unclaimed, auto, yieldCarry, broken, playtime, runPlaytime,
                     autoRaw, absences, schema>>
  PROVE  Inv'
<1>1. TypeOK'
  BY DEF Inv, TypeOK, Purses, Players
<1>2. RewardsArePaidOnce' /\ ExperienceIsConserved' /\ ClimbIsEarned'
  BY ClimbKept
<1>3. AutoMiningIsConserved' /\ BlocksAreAccounted'
  BY DEF Inv, AutoMiningIsConserved, BlocksAreAccounted
<1>4. PartsAreValid'
  BY DEF Inv, PartsAreValid
<1>5. PurseIsEarned'
  BY PurseKept
<1>6. NothingCarriedBefore'
  BY CarriesNothing
<1>. QED  BY <1>1, <1>2, <1>3, <1>4, <1>5, <1>6 DEF Inv

(* The same, with the player and the boosts as they were.                   *)
LEMMA PurseOnly ==
  ASSUME Inv, inventory' \in Purses, TotalRaw(inventory)' <= TotalRaw(inventory),
         dial' \in Dials,
         ledger' \in Ledger, ledger'.claimed = ledger.claimed, ledger'.xp = ledger.xp,
         ledger'.charges = ledger.charges, ledger'.boost = ledger.boost,
         ledger'.auto = ledger.auto, LootIsConserved',
         UNCHANGED <<player, unclaimed, charges, boost, auto, yieldCarry, broken, playtime,
                     runPlaytime, autoRaw, absences, schema>>
  PROVE  Inv'
<1>1. /\ charges' \in Nat /\ boost' \in [left : Nat, granted : Nat]
      /\ boost'.left <= boost'.granted
      /\ player' \in Players
  BY DEF Inv, TypeOK, PartsAreValid, Players
<1>2. BoostsRunInFull' /\ PlayerIsValid'
  BY DEF Inv, BoostsRunInFull, PlayerIsValid, XpForLevel
<1>. QED  BY <1>1, <1>2, PurseSpent

(* Nothing moves but the dial, or nothing at all.                           *)
LEMMA DialOnly ==
  ASSUME Inv, dial' \in Dials,
         UNCHANGED <<player, inventory, unclaimed, charges, boost, auto, yieldCarry, broken,
                     playtime, runPlaytime, autoRaw, absences, schema, ledger>>
  PROVE  Inv'
<1>1. inventory' \in Purses /\ TotalRaw(inventory)' <= TotalRaw(inventory)
  BY InventoryTyped DEF TotalRaw
<1>2. ledger' \in Ledger
  BY DEF Inv, TypeOK
<1>3. LootIsConserved'
  BY DEF Inv, LootIsConserved, Standing, TotalRaw
<1>. QED  BY <1>1, <1>2, <1>3, PurseOnly

LEMMA SetDialKeepsInv ==
  ASSUME Inv, UNCHANGED schema, NEW weight \in Dials, SetDial(weight)
  PROVE  Inv'
BY DialOnly DEF SetDial

(* An exchange of piles of the same worth, or that ends at the ceiling.     *)
LEMMA ExchangeKeepsInv ==
  ASSUME Inv, UNCHANGED schema, NEW pile \in Purses, Exchange(pile),
         TotalRaw(pile) <= TotalRaw(inventory),
         ~Full(pile) => TotalRaw(pile) = TotalRaw(inventory)
  PROVE  Inv'
<1>1. /\ inventory' = pile /\ ledger' = Booked(ledger, 0)
      /\ UNCHANGED <<player, unclaimed, charges, boost, dial, auto, yieldCarry, broken,
                     playtime, runPlaytime, autoRaw, absences>>
  BY DEF Exchange
<1>2. TotalRaw(inventory)' = TotalRaw(pile) /\ TotalRaw(pile) \in Nat
  BY <1>1, MulNat, Numbers DEF TotalRaw, Purses
<1>3. /\ inventory' \in Purses /\ TotalRaw(inventory)' <= TotalRaw(inventory)
      /\ TotalRaw(inventory)' <= TotalRaw(inventory) + 0
      /\ ~Full(inventory') => TotalRaw(inventory)' = TotalRaw(inventory) + 0
  BY <1>1, <1>2, InventoryTyped
<1>4. ledger \in Ledger /\ dial' \in Dials /\ 0 \in Int /\ Permille * 0 = 0
  BY <1>1, Numbers DEF Inv, TypeOK
<1>5. ledger' = Booked(ledger, Permille * 0)
  BY <1>1, <1>4, Zenon
<1>6. /\ LootIsConserved' /\ ledger' \in Ledger
      /\ ledger'.claimed = ledger.claimed /\ ledger'.xp = ledger.xp
      /\ ledger'.charges = ledger.charges /\ ledger'.boost = ledger.boost
      /\ ledger'.auto = ledger.auto
  BY <1>1, <1>3, <1>4, <1>5, PileKeeps
<1>. QED  BY <1>1, <1>3, <1>4, <1>6, PurseOnly

(* Compressing and decompressing make nothing of nothing.                   *)
LEMMA CompressKeepsInv ==
  ASSUME Inv, UNCHANGED schema, Compress
  PROVE  Inv'
<1>. DEFINE R == RawPerCompressed
<1>1. PICK units \in 1..(inventory.raw \div R) :
        Exchange(Added([inventory EXCEPT !.raw = @ - units * R], 0, units))
  BY DEF Compress
<1>2. /\ inventory.raw \in Nat /\ inventory.compressed \in Nat
      /\ TotalRaw(inventory) = inventory.raw + R * inventory.compressed
      /\ R \in Nat \ {0} /\ R * inventory.compressed \in Nat
  BY InventoryTyped, MulNat, Numbers DEF Purse, TotalRaw
<1>3. /\ inventory.raw \div R \in Nat
      /\ inventory.raw = R * (inventory.raw \div R) + (inventory.raw % R)
      /\ inventory.raw % R \in 0..(R - 1)
  BY <1>2, DivMod
<1>. HIDE DEF R
<1>4. units \in Nat /\ units * R \in Nat /\ units * R <= inventory.raw
  <2>1. units \in Nat /\ units <= inventory.raw \div R
    BY <1>3
  <2>2. units * R <= (inventory.raw \div R) * R
    BY <1>2, <1>3, <2>1, MulMono
  <2>3. (inventory.raw \div R) * R = R * (inventory.raw \div R)
        /\ R * (inventory.raw \div R) \in Nat /\ units * R \in Nat
    BY <1>2, <1>3, <2>1, MulNat
  <2>4. inventory.raw % R \in Nat
    BY <1>2, <1>3
  <2>. QED  BY <1>2, <1>3, <2>1, <2>2, <2>3, <2>4
<1>. DEFINE taken == [inventory EXCEPT !.raw = @ - units * R]
<1>5. taken \in Purse /\ taken.raw = inventory.raw - units * R
      /\ taken.compressed = inventory.compressed
  BY <1>2, <1>4, InventoryTyped DEF Purse
<1>. HIDE DEF taken
<1>6. /\ Added(taken, 0, units) \in Purses
      /\ TotalRaw(Added(taken, 0, units)) <= TotalRaw(taken) + 0 + R * units
      /\ ~Full(Added(taken, 0, units)) =>
            TotalRaw(Added(taken, 0, units)) = TotalRaw(taken) + 0 + R * units
  BY <1>4, <1>5, 0 \in Nat, AddedIsBounded, AddedExactly DEF R
<1>7. TotalRaw(taken) + 0 + R * units = TotalRaw(inventory)
  <2>1. TotalRaw(taken) = inventory.raw - units * R + R * inventory.compressed
    BY <1>5 DEF TotalRaw, R
  <2>2. R * units = units * R
    BY <1>2, <1>4
  <2>. QED  BY <1>2, <1>4, <2>1, <2>2
<1>8. Exchange(Added(taken, 0, units))
  BY <1>1 DEF taken
<1>. QED  BY <1>6, <1>7, <1>8, ExchangeKeepsInv

LEMMA DecompressKeepsInv ==
  ASSUME Inv, UNCHANGED schema, Decompress
  PROVE  Inv'
<1>. DEFINE R == RawPerCompressed
<1>1. PICK units \in 1..inventory.compressed :
        Exchange(Added([inventory EXCEPT !.compressed = @ - units], units * R, 0))
  BY DEF Decompress
<1>2. /\ inventory.raw \in Nat /\ inventory.compressed \in Nat
      /\ TotalRaw(inventory) = inventory.raw + R * inventory.compressed
      /\ R \in Nat \ {0} /\ R * inventory.compressed \in Nat
  BY InventoryTyped, MulNat, Numbers DEF Purse, TotalRaw
<1>. HIDE DEF R
<1>3. units \in Nat /\ units <= inventory.compressed /\ units * R \in Nat
  BY <1>2, MulNat
<1>. DEFINE left == inventory.compressed - units
            taken == [inventory EXCEPT !.compressed = @ - units]
<1>4. taken \in Purse /\ taken.raw = inventory.raw /\ taken.compressed = left
      /\ left \in Nat
  BY <1>2, <1>3, InventoryTyped DEF Purse
<1>5. R * left = R * inventory.compressed - units * R
  BY <1>2, <1>3
<1>. HIDE DEF taken, left
<1>6. /\ Added(taken, units * R, 0) \in Purses
      /\ TotalRaw(Added(taken, units * R, 0)) <= TotalRaw(taken) + units * R + R * 0
      /\ ~Full(Added(taken, units * R, 0)) =>
            TotalRaw(Added(taken, units * R, 0)) = TotalRaw(taken) + units * R + R * 0
  BY <1>3, <1>4, 0 \in Nat, AddedIsBounded, AddedExactly DEF R
<1>7. TotalRaw(taken) + units * R + R * 0 = TotalRaw(inventory)
  <2>1. TotalRaw(taken) = inventory.raw + R * left
    BY <1>4 DEF TotalRaw, R
  <2>2. R * 0 = 0
    BY <1>2
  <2>. QED  BY <1>2, <1>3, <1>5, <2>1, <2>2
<1>8. Exchange(Added(taken, units * R, 0))
  BY <1>1 DEF taken
<1>. QED  BY <1>6, <1>7, <1>8, ExchangeKeepsInv

(* A price that can be paid leaves piles, worth the price less.            *)
LEMMA DebitedExactly ==
  ASSUME Inv, NEW total \in Nat, CanAfford(Cost(total)), inventory' = Debited(Cost(total))
  PROVE  /\ inventory' \in Purses
         /\ TotalRaw(inventory)' = TotalRaw(inventory) - total
<1>. DEFINE r == Cost(total).raw
            k == Cost(total).compressed
            R == RawPerCompressed
<1>1. r \in Nat /\ k \in Nat /\ total = R * k + r /\ R \in Nat
  <2>1. /\ total \div R \in Nat /\ total % R \in 0..(R - 1)
        /\ total = R * (total \div R) + (total % R)
    BY DivMod, Numbers
  <2>2. total % R \in Nat
    BY <2>1, Numbers
  <2>. QED  BY <2>1, <2>2, Numbers DEF Cost
<1>2. /\ inventory.raw \in 0..MaxCount /\ inventory.compressed \in 0..MaxCount
      /\ inventory.raw >= r /\ inventory.compressed >= k
      /\ inventory' = [raw |-> inventory.raw - r, compressed |-> inventory.compressed - k]
  BY InventoryTyped DEF Purses, CanAfford, Debited
<1>3. /\ TotalRaw(inventory)' = inventory.raw - r + R * (inventory.compressed - k)
      /\ TotalRaw(inventory) = inventory.raw + R * inventory.compressed
  BY <1>2 DEF TotalRaw
<1>. HIDE DEF r, k, R
<1>4. inventory.raw - r \in 0..MaxCount /\ inventory.compressed - k \in 0..MaxCount
  BY <1>1, <1>2, Numbers
<1>5. /\ R * (inventory.compressed - k) = R * inventory.compressed - R * k
      /\ R * inventory.compressed \in Nat /\ R * k \in Nat
  BY <1>1, <1>2, MulNat, Numbers
<1>6. inventory' \in Purses
  BY <1>2, <1>4 DEF Purses
<1>. QED  BY <1>1, <1>2, <1>3, <1>5, <1>6

(* What is bought is paid for at its list price, to the item.               *)
LEMMA PricePaid ==
  ASSUME Inv, UNCHANGED yieldCarry, NEW owed \in Ledger, owed.ore = ledger.ore,
         NEW total \in Nat, CanAfford(Cost(total)), inventory' = Debited(Cost(total)),
         ledger' = Booked(owed, -(Permille * total))
  PROVE  /\ inventory' \in Purses /\ TotalRaw(inventory)' <= TotalRaw(inventory)
         /\ LootIsConserved' /\ ledger' \in Ledger
         /\ ledger'.claimed = owed.claimed /\ ledger'.xp = owed.xp
         /\ ledger'.charges = owed.charges /\ ledger'.boost = owed.boost
         /\ ledger'.auto = owed.auto
<1>. DEFINE gain == -total
<1>1. /\ gain \in Int /\ -(Permille * total) = Permille * gain
      /\ inventory' \in Purses
      /\ TotalRaw(inventory)' = TotalRaw(inventory) + gain
      /\ TotalRaw(inventory)' <= TotalRaw(inventory)
  <2>1. Permille * (-total) = -(Permille * total)
    BY Numbers
  <2>2. inventory' \in Purses /\ TotalRaw(inventory)' = TotalRaw(inventory) - total
    BY DebitedExactly
  <2>. QED  BY <2>1, <2>2, InventoryTyped
<1>2. ledger' = Booked(owed, Permille * gain)
  BY <1>1, Zenon
<1>. HIDE DEF gain
<1>3. TotalRaw(inventory)' <= TotalRaw(inventory) + gain
  BY <1>1, InventoryTyped
<1>4. /\ LootIsConserved' /\ ledger' \in Ledger
      /\ ledger'.claimed = owed.claimed /\ ledger'.xp = owed.xp
      /\ ledger'.charges = owed.charges /\ ledger'.boost = owed.boost
      /\ ledger'.auto = owed.auto
  BY <1>1, <1>2, <1>3, PileKeeps
<1>. QED  BY <1>1, <1>4

LEMMA BuyBoostChargeKeepsInv ==
  ASSUME Inv, UNCHANGED schema, BuyBoostCharge
  PROVE  Inv'
<1>. DEFINE reserve == ledger.charges + 1
            owed == [ledger EXCEPT !.charges = reserve]
<1>1. /\ CanAfford(Cost(Price.boost)) /\ inventory' = Debited(Cost(Price.boost))
      /\ charges' = charges + 1 /\ ledger' = Booked(owed, -(Permille * Price.boost))
      /\ UNCHANGED <<player, unclaimed, boost, dial, auto, yieldCarry, broken, playtime,
                     runPlaytime, autoRaw, absences>>
  BY Zenon DEF BuyBoostCharge
<1>2. /\ owed \in Ledger /\ owed.charges = reserve /\ owed.ore = ledger.ore
      /\ owed.claimed = ledger.claimed /\ owed.xp = ledger.xp
      /\ owed.boost = ledger.boost /\ owed.auto = ledger.auto
  <2>1. ledger \in Ledger /\ reserve \in Int
    BY DEF Inv, TypeOK, Ledger
  <2>. HIDE DEF reserve
  <2>. QED  BY <2>1, ZenonT(60) DEF Ledger
<1>. HIDE DEF owed
<1>3. /\ inventory' \in Purses /\ TotalRaw(inventory)' <= TotalRaw(inventory)
      /\ LootIsConserved' /\ ledger' \in Ledger
      /\ ledger'.charges = ledger.charges + 1
      /\ ledger'.claimed = ledger.claimed /\ ledger'.xp = ledger.xp
      /\ ledger'.boost = ledger.boost /\ ledger'.auto = ledger.auto
  <2>1. Price.boost \in Nat
    <3>1. Price \in [{"efficiency", "tier", "fortune", "boost"} -> Nat]
      BY RunConstants
    <3>. QED  BY <3>1
  <2>. QED  BY <1>1, <1>2, <2>1, PricePaid
<1>4. /\ charges' \in Nat /\ dial' \in Dials /\ boost' \in [left : Nat, granted : Nat]
      /\ boost'.left <= boost'.granted /\ player' \in Players
  BY <1>1 DEF Inv, TypeOK, PartsAreValid, Players
<1>5. BoostsRunInFull'
  BY <1>1, <1>3 DEF Inv, BoostsRunInFull
<1>6. PlayerIsValid'
  BY <1>1 DEF Inv, PlayerIsValid, XpForLevel
<1>. QED  BY <1>1, <1>3, <1>4, <1>5, <1>6, PurseSpent

LEMMA FireBoostKeepsInv ==
  ASSUME Inv, UNCHANGED schema, FireBoost
  PROVE  Inv'
<1>1. /\ charges > 0 /\ charges' = charges - 1
      /\ boost' = [left |-> boost.left + BoostTicks, granted |-> boost.granted + BoostTicks]
      /\ UNCHANGED <<player, inventory, unclaimed, dial, auto, yieldCarry, broken, playtime,
                     runPlaytime, autoRaw, absences>>
  BY DEF FireBoost
<1>2. /\ boost.left \in Nat /\ boost.granted \in Nat /\ boost.left <= boost.granted
      /\ charges \in Nat /\ charges = ledger.charges /\ boost.left = ledger.boost
  BY DEF Inv, TypeOK, PartsAreValid, BoostsRunInFull
<1>3. /\ ledger' \in Ledger /\ ledger'.charges = charges' /\ ledger'.boost = boost'.left
      /\ ledger'.claimed = ledger.claimed /\ ledger'.xp = ledger.xp
      /\ ledger'.ore = ledger.ore /\ ledger'.auto = ledger.auto
  <2>. DEFINE spent == charges - 1
              running == boost.left + BoostTicks
              new == ledger'
  <2>1. spent \in Int /\ running \in Int /\ charges' = spent /\ boost'.left = running
    BY <1>1, <1>2, Numbers
  <2>2. ledger \in Ledger
    BY DEF Inv, TypeOK
  <2>3. new = [ledger EXCEPT !.charges = spent, !.boost = running]
    <3>1. ledger' = [ledger EXCEPT !.charges = ledger.charges - 1,
                                   !.boost = ledger.boost + BoostTicks]
      BY Zenon DEF FireBoost
    <3>. QED  BY <1>2, <3>1, Zenon
  <2>. HIDE DEF spent, running, new
  <2>4. /\ new \in Ledger /\ new.charges = spent /\ new.boost = running
        /\ new.claimed = ledger.claimed /\ new.xp = ledger.xp
        /\ new.ore = ledger.ore /\ new.auto = ledger.auto
    BY <2>1, <2>2, <2>3, ZenonT(60) DEF Ledger
  <2>. QED  BY <2>1, <2>4, Zenon DEF new
<1>4. /\ charges' \in Nat /\ boost' \in [left : Nat, granted : Nat]
      /\ boost'.left <= boost'.granted
  BY <1>1, <1>2, Numbers
<1>5. /\ dial' \in Dials /\ player' \in Players /\ inventory' \in Purses
      /\ TotalRaw(inventory)' <= TotalRaw(inventory)
  <2>1. TotalRaw(inventory)' = TotalRaw(inventory)
    BY <1>1 DEF TotalRaw
  <2>. QED  BY <1>1, <2>1, InventoryTyped DEF Inv, TypeOK, Players
<1>6. BoostsRunInFull' /\ LootIsConserved'
  BY <1>1, <1>3 DEF Inv, BoostsRunInFull, LootIsConserved, Standing, TotalRaw
<1>7. PlayerIsValid'
  BY <1>1 DEF Inv, PlayerIsValid, XpForLevel
<1>. QED  BY <1>1, <1>3, <1>4, <1>5, <1>6, <1>7, PurseSpent

(* A claim moves levels from those that wait to those that are claimed.     *)
LEMMA ClaimKeepsInv ==
  ASSUME Inv, UNCHANGED schema, NEW levels \in SUBSET unclaimed, Claim(levels)
  PROVE  Inv'
<1>1. /\ unclaimed' = unclaimed \ levels
      /\ inventory' = Added(inventory, RewardOre(levels), 0)
      /\ charges' = charges + RewardCharges(levels)
      /\ UNCHANGED <<player, boost, dial, auto, yieldCarry, broken, playtime,
                     runPlaytime, autoRaw, absences>>
  BY DEF Claim
<1>2. /\ unclaimed \subseteq Rewarded /\ ledger \in Ledger /\ charges \in Nat
      /\ ledger.claimed \subseteq Rewarded
  BY DEF Inv, TypeOK, Ledger
<1>3. levels \in SUBSET Rewarded
  BY <1>2
<1>4. /\ IsFiniteSet(levels) /\ Cardinality(levels) \in Nat
      /\ RewardCharges(levels) \in Nat /\ RewardOre(levels) \in Nat
      /\ RewardOre(levels) <= MaxOre * Cardinality(levels)
  BY <1>3, RewardsAreBounded, Numbers
<1>5. /\ inventory' \in Purses
      /\ TotalRaw(inventory)' <= TotalRaw(inventory) + RewardOre(levels)
      /\ ~Full(inventory') => TotalRaw(inventory)' = TotalRaw(inventory) + RewardOre(levels)
  <2>. DEFINE paid == Added(inventory, RewardOre(levels), 0)
  <2>1. /\ paid \in Purses
        /\ TotalRaw(paid) <= TotalRaw(inventory) + RewardOre(levels) + RawPerCompressed * 0
        /\ ~Full(paid) =>
              TotalRaw(paid) = TotalRaw(inventory) + RewardOre(levels) + RawPerCompressed * 0
    BY <1>4, 0 \in Nat, InventoryTyped, AddedIsBounded, AddedExactly
  <2>2. inventory' = paid /\ TotalRaw(inventory)' = TotalRaw(paid)
    BY <1>1 DEF TotalRaw
  <2>3. TotalRaw(inventory) + RewardOre(levels) + RawPerCompressed * 0
            = TotalRaw(inventory) + RewardOre(levels)
    BY <1>4, InventoryTyped, Numbers
  <2>. HIDE DEF paid
  <2>. QED  BY <2>1, <2>2, <2>3
<1>6. /\ LootIsConserved' /\ ledger' \in Ledger
      /\ ledger'.claimed = ledger.claimed \cup levels
      /\ ledger'.charges = charges' /\ ledger'.boost = ledger.boost
      /\ ledger'.xp = ledger.xp /\ ledger'.auto = ledger.auto
  <2>. DEFINE claimed == ledger.claimed \cup levels
              granted == ledger.charges + RewardCharges(levels)
              owed == [ledger EXCEPT !.claimed = claimed, !.charges = granted]
  <2>1. claimed \in SUBSET Rewarded /\ granted \in Int
    BY <1>2, <1>3, <1>4 DEF Ledger
  <2>2. charges' = granted
    BY <1>1 DEF Inv, BoostsRunInFull
  <2>3. ledger' = Booked(owed, Permille * RewardOre(levels))
    BY Zenon DEF Claim
  <2>. HIDE DEF claimed, granted
  <2>4. /\ owed \in Ledger /\ owed.claimed = claimed /\ owed.charges = granted
        /\ owed.boost = ledger.boost /\ owed.xp = ledger.xp
        /\ owed.ore = ledger.ore /\ owed.auto = ledger.auto
    BY <1>2, <2>1, ZenonT(60) DEF Ledger
  <2>. HIDE DEF owed
  <2>5. RewardOre(levels) \in Int /\ UNCHANGED yieldCarry
    BY <1>1, <1>4
  <2>6. /\ LootIsConserved' /\ ledger' \in Ledger
        /\ ledger'.claimed = owed.claimed /\ ledger'.charges = owed.charges
        /\ ledger'.boost = owed.boost /\ ledger'.xp = owed.xp /\ ledger'.auto = owed.auto
    BY <1>5, <2>3, <2>4, <2>5, PileKeeps
  <2>. QED  BY <2>2, <2>4, <2>6, Zenon DEF claimed
<1>7. Cardinality(ledger'.claimed) = Cardinality(ledger.claimed) + Cardinality(levels)
  <2>1. ledger.claimed \cap levels = {}
    BY DEF Inv, RewardsArePaidOnce
  <2>2. IsFiniteSet(ledger.claimed) /\ Cardinality(ledger.claimed) \in Nat
    BY <1>2, RewardsAreBounded, Numbers
  <2>3. Cardinality(ledger.claimed \cup levels)
            = Cardinality(ledger.claimed) + Cardinality(levels)
                - Cardinality(ledger.claimed \cap levels)
    BY <1>4, <2>2, FS_Union
  <2>4. Cardinality(ledger.claimed \cap levels) = 0
    BY <2>1, FS_EmptySet
  <2>. QED  BY <1>4, <1>6, <2>2, <2>3, <2>4
<1>8. TypeOK'
  <2>1. charges' \in Nat /\ unclaimed' \subseteq Rewarded
    BY <1>1, <1>2, <1>4
  <2>. QED  BY <1>1, <1>5, <1>6, <2>1 DEF Inv, TypeOK, Purses
<1>9. RewardsArePaidOnce'
  <2>1. unclaimed' \cup ledger'.claimed = 2..player.level
    BY <1>1, <1>6 DEF Inv, RewardsArePaidOnce
  <2>2. unclaimed' \cap ledger'.claimed = {}
    BY <1>1, <1>6 DEF Inv, RewardsArePaidOnce
  <2>. QED  BY <1>1, <2>1, <2>2 DEF RewardsArePaidOnce
<1>10. ExperienceIsConserved' /\ ClimbIsEarned'
  BY <1>1, <1>6 DEF Inv, ExperienceIsConserved, ClimbIsEarned, Climbed
<1>11. AutoMiningIsConserved' /\ BoostsRunInFull'
  BY <1>1, <1>6 DEF Inv, AutoMiningIsConserved, BoostsRunInFull
<1>12. PlayerIsValid' /\ BlocksAreAccounted'
  BY <1>1 DEF Inv, PlayerIsValid, XpForLevel, BlocksAreAccounted
<1>13. PartsAreValid'
  BY <1>1 DEF Inv, PartsAreValid
<1>14. PurseIsEarned'
  <2>1. autoRaw' = autoRaw + 0
    BY <1>1 DEF Inv, TypeOK
  <2>2. TotalRaw(inventory)' <= TotalRaw(inventory) + MaxOre * Cardinality(levels) + 0
    <3>1. TotalRaw(inventory)' \in Nat
      BY <1>5, MulNat, Numbers DEF TotalRaw, Purses
    <3>2. MaxOre * Cardinality(levels) \in Nat
      BY <1>4, MulNat, Numbers
    <3>. QED  BY <1>4, <1>5, <3>1, <3>2, InventoryTyped
  <2>. QED  BY <1>1, <1>4, <1>5, <1>7, <2>1, <2>2, 0 \in Nat, PurseGains
<1>15. NothingCarriedBefore'
  BY <1>1, CarriesNothing
<1>. QED  BY <1>6, <1>8, <1>9, <1>10, <1>11, <1>12, <1>13, <1>14, <1>15 DEF Inv

(* The pickaxe and the enchant: the tier's cap and the level's hold.        *)
LEMMA BoughtIsWellMade ==
  ASSUME Inv, UNCHANGED schema, NEW what \in {"efficiency", "tier", "fortune"},
         NEW upgraded \in Players, Buy(what, upgraded),
         upgraded.level = player.level, upgraded.experience = player.experience,
         upgraded.xpCarry = player.xpCarry, upgraded.prestige = player.prestige,
         upgraded.efficiency <= EfficiencyCap[upgraded.tier],
         upgraded.fortune <= FortuneCap[player.level]
  PROVE  Inv'
<1>1. /\ CanAfford(Cost(Price[what])) /\ inventory' = Debited(Cost(Price[what]))
      /\ player' = upgraded /\ ledger' = Booked(ledger, -(Permille * Price[what]))
      /\ UNCHANGED <<unclaimed, charges, boost, dial, auto, yieldCarry, broken, playtime,
                     runPlaytime, autoRaw, absences>>
  BY DEF Buy
<1>2. /\ inventory' \in Purses /\ TotalRaw(inventory)' <= TotalRaw(inventory)
      /\ LootIsConserved' /\ ledger' \in Ledger
      /\ ledger'.claimed = ledger.claimed /\ ledger'.xp = ledger.xp
      /\ ledger'.charges = ledger.charges /\ ledger'.boost = ledger.boost
      /\ ledger'.auto = ledger.auto
  <2>1. Price[what] \in Nat
    <3>1. Price \in [{"efficiency", "tier", "fortune", "boost"} -> Nat]
      BY RunConstants
    <3>. QED  BY <3>1
  <2>2. ledger \in Ledger
    BY DEF Inv, TypeOK
  <2>. QED  BY <1>1, <2>1, <2>2, PricePaid
<1>3. /\ charges' \in Nat /\ dial' \in Dials /\ boost' \in [left : Nat, granted : Nat]
      /\ boost'.left <= boost'.granted
  BY <1>1 DEF Inv, TypeOK, PartsAreValid
<1>4. BoostsRunInFull'
  BY <1>1, <1>2 DEF Inv, BoostsRunInFull
<1>5. PlayerIsValid'
  BY <1>1 DEF Inv, PlayerIsValid, XpForLevel
<1>. QED  BY <1>1, <1>2, <1>3, <1>4, <1>5, PurseSpent

LEMMA BuyKeepsInv ==
  ASSUME Inv, UNCHANGED schema, BuyPickaxeEfficiency \/ BuyPickaxeTier \/ BuyEnchant
  PROVE  Inv'
<1>1. /\ player \in Players /\ player.efficiency \in Nat /\ player.fortune \in Nat
      /\ player.tier \in Tiers /\ player.level \in Levels
      /\ player.efficiency <= EfficiencyCap[player.tier]
      /\ player.fortune <= FortuneCap[player.level]
  BY DEF Inv, TypeOK, PlayerIsValid, Players
<1>2. /\ EfficiencyCap \in [Tiers -> Nat] /\ Tiers = 0..TopTier /\ TopTier \in Nat
      /\ FortuneCap \in [Levels -> Nat]
  BY RunConstants
<1>3. ASSUME BuyPickaxeEfficiency PROVE Inv'
  <2>. DEFINE upgraded == [player EXCEPT !.efficiency = @ + 1]
  <2>1. /\ upgraded \in Players /\ upgraded.efficiency = player.efficiency + 1
        /\ upgraded.level = player.level /\ upgraded.experience = player.experience
        /\ upgraded.xpCarry = player.xpCarry /\ upgraded.prestige = player.prestige
        /\ upgraded.tier = player.tier /\ upgraded.fortune = player.fortune
    BY <1>1 DEF Players
  <2>2. player.efficiency < EfficiencyCap[player.tier] /\ Buy("efficiency", upgraded)
    BY <1>3 DEF BuyPickaxeEfficiency
  <2>. HIDE DEF upgraded
  <2>3. upgraded.efficiency <= EfficiencyCap[upgraded.tier]
    BY <1>1, <1>2, <2>1, <2>2
  <2>. QED  BY <1>1, <2>1, <2>2, <2>3, BoughtIsWellMade
<1>4. ASSUME BuyPickaxeTier PROVE Inv'
  <2>. DEFINE next == player.tier + 1
              zero == 0
              upgraded == [player EXCEPT !.tier = next, !.efficiency = zero]
  <2>1. next \in Tiers /\ zero \in Nat /\ zero <= EfficiencyCap[next]
    BY <1>1, <1>2, <1>4 DEF BuyPickaxeTier
  <2>2. Buy("tier", upgraded)
    BY <1>4, Zenon DEF BuyPickaxeTier
  <2>. HIDE DEF next, zero
  <2>3. /\ upgraded \in Players /\ upgraded.efficiency = zero
        /\ upgraded.level = player.level /\ upgraded.experience = player.experience
        /\ upgraded.xpCarry = player.xpCarry /\ upgraded.prestige = player.prestige
        /\ upgraded.tier = next /\ upgraded.fortune = player.fortune
    BY <1>1, <2>1, ZenonT(60) DEF Players
  <2>. HIDE DEF upgraded
  <2>. QED  BY <1>1, <2>1, <2>2, <2>3, BoughtIsWellMade
<1>5. ASSUME BuyEnchant PROVE Inv'
  <2>. DEFINE upgraded == [player EXCEPT !.fortune = @ + 1]
  <2>1. /\ upgraded \in Players /\ upgraded.fortune = player.fortune + 1
        /\ upgraded.level = player.level /\ upgraded.experience = player.experience
        /\ upgraded.xpCarry = player.xpCarry /\ upgraded.prestige = player.prestige
        /\ upgraded.tier = player.tier /\ upgraded.efficiency = player.efficiency
    BY <1>1 DEF Players
  <2>2. player.fortune < FortuneCap[player.level] /\ Buy("fortune", upgraded)
    BY <1>5 DEF BuyEnchant
  <2>. HIDE DEF upgraded
  <2>3. upgraded.fortune <= FortuneCap[player.level]
    BY <1>1, <1>2, <2>1, <2>2
  <2>. QED  BY <1>1, <2>1, <2>2, <2>3, BoughtIsWellMade
<1>. QED  BY <1>3, <1>4, <1>5

(* A set of numbers has a least member. *)
LEMMA LeastDial ==
  Min(Dials) \in Dials
<1>1. Dials \subseteq Nat /\ Dials # {}
  BY RunConstants
<1>. DEFINE before == {pair \in Nat \X Nat : pair[1] < pair[2]}
<1>2. IsWellFoundedOn(before, Nat)
  BY NatLessThanWellFounded, Zenon DEF OpToRel
<1>3. PICK x \in Dials : \A y \in Dials : ~ (<<y, x>> \in before)
  <2>. HIDE DEF before
  <2>. QED  BY <1>1, <1>2, WFMin
<1>4. ASSUME NEW y \in Dials PROVE x <= y
  <2>1. x \in Nat /\ y \in Nat
    BY <1>1
  <2>2. ~ (y < x)
    <3>1. y < x => <<y, x>> \in before
      BY <2>1
    <3>. QED  BY <1>3, <3>1, Zenon
  <2>. QED  BY <2>1, <2>2
<1>. QED  BY <1>4 DEF Min

(* Prestige starts the climb over; the blocks and the auto-miner's total    *)
(* outlive it, and pay for a purse that is empty.                           *)
LEMMA PrestigeKeepsInv ==
  ASSUME Inv, UNCHANGED schema, Prestige
  PROVE  Inv'
<1>. DEFINE rank == player.prestige
<1>1. /\ player.level >= LevelCap /\ player' = NewPlayer(rank + 1)
      /\ inventory' = Empty /\ unclaimed' = {} /\ charges' = 0 /\ boost' = NoBoost
      /\ dial' = Min(Dials) /\ auto' = [common |-> 0, value |-> 0]
      /\ yieldCarry' = Empty /\ runPlaytime' = 0 /\ ledger' = NewLedger
      /\ UNCHANGED <<broken, playtime, autoRaw, absences>>
  BY DEF Prestige
<1>2. /\ rank \in Nat /\ player.level \in 1..LevelCap /\ player.experience \in Nat
      /\ player.xpCarry \in Nat /\ broken \in Nat /\ autoRaw \in Nat /\ playtime \in Nat
  BY DEF Inv, TypeOK, Levels
<1>3. /\ player'.level = 1 /\ player'.experience = 0 /\ player'.xpCarry = 0
      /\ player'.prestige = rank + 1 /\ player'.tier = 0 /\ player'.efficiency = 0
      /\ player'.fortune = 0
  BY <1>1 DEF NewPlayer
<1>4. 1 \in Levels /\ 0 \in Tiers /\ EfficiencyCap[0] \in Nat /\ FortuneCap[1] \in Nat
  BY RunConstants DEF Levels
<1>5. player' \in Players
  <2>1. rank + 1 \in Nat
    BY <1>2
  <2>. QED  BY <1>1, <1>4, <2>1 DEF NewPlayer, Players
<1>6. /\ inventory'.raw = 0 /\ inventory'.compressed = 0
      /\ yieldCarry'.raw = 0 /\ yieldCarry'.compressed = 0
      /\ boost'.left = 0 /\ boost'.granted = 0 /\ auto'.common = 0 /\ auto'.value = 0
  BY <1>1 DEF Empty, NoBoost
<1>7. TypeOK'
  <2>1. inventory' \in [raw : 0..MaxCount, compressed : 0..MaxCount] /\ yieldCarry' \in Purse
    BY <1>1, Numbers DEF Empty, Purse
  <2>2. boost' \in [left : Nat, granted : Nat] /\ auto' \in [common : Nat, value : Nat]
    BY <1>1 DEF NoBoost
  <2>3. ledger' \in Ledger
    BY <1>1 DEF NewLedger, Ledger, Empty
  <2>4. dial' \in Dials
    BY <1>1, LeastDial
  <2>5. /\ unclaimed' \subseteq Rewarded /\ charges' \in Nat /\ broken' \in Nat
        /\ playtime' \in Nat /\ runPlaytime' \in Nat /\ autoRaw' \in Nat
        /\ absences' \in Nat /\ schema' \in 1..SaveVersion
    BY <1>1 DEF Inv, TypeOK
  <2>. QED  BY <1>5, <2>1, <2>2, <2>3, <2>4, <2>5, Zenon DEF TypeOK, Players
<1>8. /\ ledger'.claimed = {} /\ ledger'.xp = 0 /\ ledger'.ore = 0
      /\ ledger'.charges = 0 /\ ledger'.boost = 0 /\ ledger'.auto = 0
  BY <1>1 DEF NewLedger
<1>9. RewardsArePaidOnce'
  BY <1>1, <1>3, <1>8 DEF RewardsArePaidOnce
<1>10. XpToReach(player.level)' = 0
  <2>1. XpToReach(player.level)' = XpToReach(1)
    BY <1>3 DEF XpToReach
  <2>2. 1 \in Nat \ {0}
    OBVIOUS
  <2>. QED  BY <2>1, <2>2, NextThreshold
<1>11. ExperienceIsConserved'
  <2>1. Permille * (0 + 0) + 0 = 0
    BY Numbers
  <2>. QED  BY <1>3, <1>8, <1>10, <2>1 DEF ExperienceIsConserved
<1>12. LootIsConserved' /\ BoostsRunInFull'
  <2>1. Permille * (0 + RawPerCompressed * 0) + 0 + RawPerCompressed * 0 = 0
    BY Numbers
  <2>. QED
    BY <1>1, <1>6, <1>8, <2>1 DEF LootIsConserved, Standing, TotalRaw, BoostsRunInFull
<1>13. AutoMiningIsConserved'
  <2>1. Permille * (0 + 0) = 0
    BY Numbers
  <2>. QED  BY <1>6, <1>8, <2>1 DEF AutoMiningIsConserved
<1>14. PlayerIsValid'
  <2>1. XpForLevel(player.level)' = 1 * XpStep /\ 1 * XpStep > 0
    BY <1>3, Numbers DEF XpForLevel
  <2>2. 0 < Permille
    BY Numbers
  <2>. QED  BY <1>3, <1>4, <2>1, <2>2 DEF PlayerIsValid
<1>15. PartsAreValid'
  <2>1. 0 < Block /\ 0 < Permille
    BY Numbers
  <2>. QED  BY <1>1, <1>2, <1>6, <2>1 DEF PartsAreValid
<1>16. BlocksAreAccounted'
  BY <1>1 DEF Inv, BlocksAreAccounted
<1>17. ClimbIsEarned'
  <2>. DEFINE top == XpToReach(LevelCap)
              mult == Multiplier(rank)
              more == Multiplier(rank + 1)
  <2>1. top \in Nat /\ top * rank \in Nat
    BY <1>2, NextThreshold, MulNat, Numbers
  <2>2. mult \in Nat /\ more \in Nat /\ mult <= more
    <3>1. rank + 1 \in Nat
      BY <1>2
    <3>. QED  BY <1>2, <3>1, MultiplierIsNat
  <2>3. Permille * Climbed + player.xpCarry <= broken * MaxXp * mult
    BY DEF Inv, ClimbIsEarned
  <2>4. Climbed = top * rank + top + player.experience
    <3>1. player.level = LevelCap
      BY <1>1, <1>2, Numbers
    <3>. QED  BY <3>1 DEF Climbed
  <2>5. Climbed' = top * (rank + 1)
    <3>1. Climbed' = XpToReach(LevelCap) * (rank + 1) + 0 + 0
      BY <1>3, <1>10 DEF Climbed, XpToReach
    <3>. HIDE DEF top
    <3>2. Climbed' = top * (rank + 1) + 0 + 0
      BY <3>1 DEF top
    <3>. QED  BY <1>2, <2>1, <3>2
  <2>6. Multiplier(player.prestige)' = more
    BY <1>3 DEF Multiplier
  <2>. HIDE DEF top, mult, more
  <2>7. top * (rank + 1) = top * rank + top
    BY <1>2, <2>1
  <2>8. Permille * (top * (rank + 1)) <= Permille * Climbed
    <3>1. Climbed \in Nat /\ top * (rank + 1) \in Nat /\ top * (rank + 1) <= Climbed
      BY <1>2, <2>1, <2>4, <2>7
    <3>2. (top * (rank + 1)) * Permille <= Climbed * Permille
      BY <3>1, MulMono, Numbers
    <3>. QED  BY <3>1, <3>2, Numbers
  <2>9. broken * MaxXp * mult <= broken * MaxXp * more
    <3>1. broken * MaxXp \in Nat
      BY <1>2, MulNat, Numbers
    <3>2. mult * (broken * MaxXp) <= more * (broken * MaxXp)
      BY <2>2, <3>1, MulMono
    <3>. QED  BY <2>2, <3>1, <3>2
  <2>10. /\ Permille * (top * (rank + 1)) \in Nat /\ Permille * Climbed \in Nat
         /\ broken * MaxXp * mult \in Nat /\ broken * MaxXp * more \in Nat
    <3>1. Climbed \in Nat /\ top * (rank + 1) \in Nat
      BY <1>2, <2>1, <2>4, <2>7
    <3>. QED  BY <1>2, <2>2, <3>1, MulNat, Numbers
  <2>11. Permille * (top * (rank + 1)) + 0 <= broken * MaxXp * more
    BY <1>2, <2>3, <2>8, <2>9, <2>10
  <2>. QED  BY <1>1, <1>3, <2>5, <2>6, <2>11 DEF ClimbIsEarned
<1>18. PurseIsEarned'
  <2>. DEFINE owed == broken * MaxRawPerBlock * Multiplier(rank + 1)
                        + Permille * (MaxOre * 0) + Permille * autoRaw
  <2>1. owed \in Nat
    <3>1. Multiplier(rank + 1) \in Nat
      BY <1>2, MultiplierIsNat, rank + 1 \in Nat
    <3>. QED  BY <1>2, <3>1, MulNat, RawPerBlockIsBounded, Numbers
  <2>2. TotalRaw(inventory)' = 0
    BY <1>6, Numbers DEF TotalRaw
  <2>3. Permille * 0 + 0 + RawPerCompressed * 0 = 0
    BY Numbers
  <2>4. Cardinality(ledger'.claimed) = 0
    BY <1>8, FS_EmptySet
  <2>5. PurseIsEarned' <=> Permille * TotalRaw(inventory)' + 0 + RawPerCompressed * 0 <= owed
    BY <1>1, <1>3, <1>6, <2>4 DEF PurseIsEarned, Multiplier
  <2>. HIDE DEF owed
  <2>. QED  BY <2>1, <2>2, <2>3, <2>5
<1>19. NothingCarriedBefore'
  BY <1>1 DEF NothingCarriedBefore
<1>. QED
  BY <1>7, <1>9, <1>11, <1>12, <1>13, <1>14, <1>15, <1>16, <1>17, <1>18, <1>19 DEF Inv

(* A migrated run holds no more than the totals it is given.                *)
LEMMA MigrateKeepsInv ==
  ASSUME Inv, Migrate
  PROVE  Inv'
<1>1. /\ schema < SaveVersion /\ schema' = SaveVersion
      /\ autoRaw' = IF schema = 1 THEN TotalRaw(inventory) ELSE autoRaw
      /\ boost' = [boost EXCEPT !.granted = boost.left]
      /\ UNCHANGED <<player, inventory, unclaimed, charges, dial, auto, yieldCarry,
                     broken, playtime, runPlaytime, absences, ledger>>
  BY DEF Migrate
<1>2. /\ boost'.left = boost.left /\ boost'.granted = boost.left
      /\ boost' \in [left : Nat, granted : Nat]
  BY <1>1 DEF Inv, TypeOK
<1>3. autoRaw' \in Nat /\ TotalRaw(inventory) \in Nat /\ autoRaw \in Nat
  BY <1>1, InventoryTyped DEF Inv, TypeOK
<1>4. TypeOK'
  <2>1. schema' \in 1..SaveVersion
    BY <1>1 DEF SaveVersion
  <2>. QED  BY <1>1, <1>2, <1>3, <2>1 DEF Inv, TypeOK
<1>5. RewardsArePaidOnce' /\ ExperienceIsConserved' /\ ClimbIsEarned'
  BY <1>1, ClimbKept
<1>6. LootIsConserved' /\ AutoMiningIsConserved' /\ BlocksAreAccounted'
  BY <1>1 DEF Inv, LootIsConserved, Standing, TotalRaw, AutoMiningIsConserved,
              BlocksAreAccounted
<1>7. BoostsRunInFull'
  BY <1>1, <1>2 DEF Inv, BoostsRunInFull
<1>8. PlayerIsValid'
  BY <1>1 DEF Inv, PlayerIsValid, XpForLevel
<1>9. PartsAreValid'
  <2>1. boost'.left <= boost'.granted
    BY <1>2 DEF TypeOK, Inv
  <2>. QED  BY <1>1, <2>1 DEF Inv, PartsAreValid
<1>10. PurseIsEarned'
  <2>1. CASE autoRaw' = autoRaw
    <3>1. inventory' \in Purses /\ TotalRaw(inventory)' <= TotalRaw(inventory)
      BY <1>1, InventoryTyped DEF TotalRaw
    <3>. QED  BY <1>1, <2>1, <3>1, PurseKept
  <2>2. CASE autoRaw' = TotalRaw(inventory)
    <3>. DEFINE owed == broken * MaxRawPerBlock * Multiplier(player.prestige)
                          + Permille * (MaxOre * Cardinality(ledger.claimed))
                had == TotalRaw(inventory)
    <3>1. owed \in Nat
      <4>1. /\ Multiplier(player.prestige) \in Nat /\ broken \in Nat
            /\ Cardinality(ledger.claimed) \in Nat
        BY MultiplierIsNat, RewardsAreBounded DEF Inv, TypeOK, Ledger
      <4>. QED  BY <4>1, MulNat, RawPerBlockIsBounded, Numbers
    <3>2. yieldCarry.raw = 0 /\ yieldCarry.compressed = 0
      BY <1>1 DEF Inv, NothingCarriedBefore, Empty
    <3>3. PurseIsEarned' <=> Permille * had + 0 + RawPerCompressed * 0 <= owed + Permille * had
      BY <1>1, <2>2, <3>2 DEF PurseIsEarned, TotalRaw, Multiplier
    <3>. HIDE DEF owed, had
    <3>4. RawPerCompressed * 0 = 0 /\ Permille * had \in Nat
      BY <1>3, MulNat, Numbers DEF had
    <3>. QED  BY <3>1, <3>3, <3>4
  <2>. QED  BY <1>1, <2>1, <2>2
<1>11. NothingCarriedBefore'
  BY <1>1, CarriesNothing
<1>. QED  BY <1>4, <1>5, <1>6, <1>7, <1>8, <1>9, <1>10, <1>11 DEF Inv

LEMMA NextKeepsInv ==
  ASSUME Inv, [Next]_vars
  PROVE  Inv'
<1>1. ASSUME schema = SaveVersion, Play, UNCHANGED schema
      PROVE  Inv'
  <2>1. CASE Tick
    BY <1>1, <2>1, TickKeepsInv
  <2>2. CASE Swing
    BY <1>1, <2>2, SwingKeepsInv
  <2>3. CASE \E ticks \in Absences : Resume(ticks)
    <3>1. PICK ticks \in Absences : Resume(ticks)
      BY <2>3
    <3>2. ticks \in Nat
      BY RunConstants
    <3>. QED  BY <1>1, <3>1, <3>2, ResumeKeepsInv
  <2>4. CASE \E weight \in Dials : SetDial(weight)
    BY <1>1, <2>4, SetDialKeepsInv
  <2>5. CASE ClaimLevel \/ ClaimAll
    <3>1. PICK levels \in SUBSET unclaimed : Claim(levels)
      BY <2>5 DEF ClaimLevel, ClaimAll
    <3>. QED  BY <1>1, <3>1, ClaimKeepsInv
  <2>6. CASE BuyBoostCharge
    BY <1>1, <2>6, BuyBoostChargeKeepsInv
  <2>7. CASE FireBoost
    BY <1>1, <2>7, FireBoostKeepsInv
  <2>8. CASE Compress
    BY <1>1, <2>8, CompressKeepsInv
  <2>9. CASE Decompress
    BY <1>1, <2>9, DecompressKeepsInv
  <2>10. CASE BuyPickaxeEfficiency \/ BuyPickaxeTier \/ BuyEnchant
    BY <1>1, <2>10, BuyKeepsInv
  <2>11. CASE Prestige
    BY <1>1, <2>11, PrestigeKeepsInv
  <2>. QED
    BY <1>1, <2>1, <2>2, <2>3, <2>4, <2>5, <2>6, <2>7, <2>8, <2>9, <2>10, <2>11 DEF Play
<1>2. ASSUME Older, UNCHANGED schema
      PROVE  Inv'
  <2>1. CASE Resume(OlderAbsence)
    <3>1. OlderAbsence \in Nat
      BY RunConstants
    <3>. QED  BY <1>2, <2>1, <3>1, ResumeKeepsInv
  <2>2. CASE Compress
    BY <1>2, <2>2, CompressKeepsInv
  <2>3. CASE BuyBoostCharge
    BY <1>2, <2>3, BuyBoostChargeKeepsInv
  <2>4. CASE FireBoost
    BY <1>2, <2>4, FireBoostKeepsInv
  <2>5. CASE Tick
    BY <1>2, <2>5, TickKeepsInv
  <2>. QED  BY <1>2, <2>1, <2>2, <2>3, <2>4, <2>5 DEF Older
<1>3. CASE Migrate
  BY <1>3, MigrateKeepsInv
<1>4. ASSUME UNCHANGED vars
      PROVE  Inv'
  BY <1>4, DialOnly DEF Inv, TypeOK, vars
<1>. QED  BY <1>1, <1>2, <1>3, <1>4 DEF Next

LEMMA InitEstablishesInv ==
  Init => Inv
<1>. SUFFICES ASSUME Init PROVE Inv
  OBVIOUS
<1>1. /\ player = NewPlayer(0) /\ inventory = Empty /\ unclaimed = {} /\ charges = 0
      /\ boost = NoBoost /\ dial \in Dials /\ auto = [common |-> 0, value |-> 0]
      /\ yieldCarry = Empty /\ broken = 0 /\ playtime = 0 /\ runPlaytime = 0
      /\ autoRaw = 0 /\ absences = 0 /\ schema \in Schemas /\ ledger = NewLedger
  BY DEF Init
<1>2. /\ player.level = 1 /\ player.experience = 0 /\ player.xpCarry = 0
      /\ player.prestige = 0 /\ player.tier = 0 /\ player.efficiency = 0
      /\ player.fortune = 0
  BY <1>1 DEF NewPlayer
<1>3. 1 \in Levels /\ 0 \in Tiers /\ EfficiencyCap[0] \in Nat /\ FortuneCap[1] \in Nat
  BY RunConstants DEF Levels
<1>4. /\ inventory.raw = 0 /\ inventory.compressed = 0
      /\ yieldCarry.raw = 0 /\ yieldCarry.compressed = 0
      /\ boost.left = 0 /\ boost.granted = 0 /\ auto.common = 0 /\ auto.value = 0
  BY <1>1 DEF Empty, NoBoost
<1>5. /\ ledger.claimed = {} /\ ledger.xp = 0 /\ ledger.ore = 0
      /\ ledger.charges = 0 /\ ledger.boost = 0 /\ ledger.auto = 0
  BY <1>1 DEF NewLedger
<1>6. TypeOK
  <2>1. player \in Players
    BY <1>1, <1>3 DEF NewPlayer, Players
  <2>2. inventory \in [raw : 0..MaxCount, compressed : 0..MaxCount] /\ yieldCarry \in Purse
    BY <1>1, Numbers DEF Empty, Purse
  <2>3. boost \in [left : Nat, granted : Nat] /\ auto \in [common : Nat, value : Nat]
    BY <1>1 DEF NoBoost
  <2>4. ledger \in Ledger
    BY <1>1 DEF NewLedger, Ledger, Empty
  <2>5. schema \in 1..SaveVersion
    BY <1>1, RunConstants
  <2>. QED  BY <1>1, <2>1, <2>2, <2>3, <2>4, <2>5 DEF TypeOK, Players
<1>7. XpToReach(player.level) = 0
  <2>1. 1 \in Nat \ {0}
    OBVIOUS
  <2>. QED  BY <1>2, <2>1, NextThreshold
<1>8. RewardsArePaidOnce
  BY <1>1, <1>2, <1>5 DEF RewardsArePaidOnce
<1>9. ExperienceIsConserved
  <2>1. Permille * (0 + 0) + 0 = 0
    BY Numbers
  <2>. QED  BY <1>2, <1>5, <1>7, <2>1 DEF ExperienceIsConserved
<1>10. LootIsConserved /\ BoostsRunInFull
  <2>1. Permille * (0 + RawPerCompressed * 0) + 0 + RawPerCompressed * 0 = 0
    BY Numbers
  <2>. QED
    BY <1>1, <1>4, <1>5, <2>1 DEF LootIsConserved, Standing, TotalRaw, BoostsRunInFull
<1>11. AutoMiningIsConserved
  <2>1. Permille * (0 + 0) = 0
    BY Numbers
  <2>. QED  BY <1>4, <1>5, <2>1 DEF AutoMiningIsConserved
<1>12. PlayerIsValid
  <2>1. XpForLevel(player.level) = 1 * XpStep /\ 1 * XpStep > 0 /\ 0 < Permille
    BY <1>2, Numbers DEF XpForLevel
  <2>. QED  BY <1>2, <1>3, <2>1 DEF PlayerIsValid
<1>13. PartsAreValid
  <2>1. 0 < Block /\ 0 < Permille
    BY Numbers
  <2>. QED  BY <1>1, <1>4, <2>1 DEF PartsAreValid
<1>14. BlocksAreAccounted
  BY <1>1, Numbers DEF BlocksAreAccounted
<1>15. Multiplier(0) \in Nat /\ 0 \in Nat
  BY 0 \in Nat, MultiplierIsNat
<1>16. ClimbIsEarned
  <2>1. XpToReach(LevelCap) * 0 = 0
    BY NextThreshold, Numbers
  <2>2. Climbed = 0
    BY <1>2, <1>7, <2>1 DEF Climbed
  <2>3. Permille * 0 + 0 = 0 /\ 0 * MaxXp * Multiplier(0) = 0
    BY <1>15, Numbers
  <2>. QED  BY <1>1, <1>2, <2>2, <2>3 DEF ClimbIsEarned
<1>17. PurseIsEarned
  <2>1. Cardinality(ledger.claimed) = 0
    BY <1>5, FS_EmptySet
  <2>2. TotalRaw(inventory) = 0
    BY <1>4, Numbers DEF TotalRaw
  <2>3. /\ Permille * 0 + 0 + RawPerCompressed * 0 = 0
        /\ 0 * MaxRawPerBlock * Multiplier(0) + Permille * (MaxOre * 0) + Permille * 0 = 0
    BY <1>15, RawPerBlockIsBounded, Numbers
  <2>. QED  BY <1>1, <1>2, <1>4, <2>1, <2>2, <2>3 DEF PurseIsEarned
<1>18. NothingCarriedBefore
  BY <1>1 DEF NothingCarriedBefore
<1>. QED
  BY <1>6, <1>8, <1>9, <1>10, <1>11, <1>12, <1>13, <1>14, <1>16, <1>17, <1>18 DEF Inv

(* The audit's own bounds follow: the fractions only help.                  *)
LEMMA InvPassesTheAudit ==
  Inv => RunAlwaysLoads
<1>. SUFFICES ASSUME Inv PROVE RunAlwaysLoads
  OBVIOUS
<1>. DEFINE mult == Multiplier(player.prestige)
            card == Cardinality(ledger.claimed)
            rewards == LevelCap * (player.prestige + 1)
<1>1. /\ player.level \in 1..LevelCap /\ player.experience \in Nat /\ player.xpCarry \in Nat
      /\ player.prestige \in Nat /\ broken \in Nat /\ autoRaw \in Nat
      /\ yieldCarry.raw \in Nat /\ yieldCarry.compressed \in Nat
  BY DEF Inv, TypeOK, Levels, Purse
<1>2. mult \in Nat /\ Permille <= mult
  BY <1>1, MultiplierIsNat
<1>3. ClimbIsAccounted
  <2>. DEFINE earned == broken * MaxXp * mult
  <2>1. earned \in Nat
    BY <1>1, <1>2, MulNat, Numbers
  <2>2. Climbed \in Nat
    <3>1. XpToReach(LevelCap) * player.prestige \in Nat /\ XpToReach(player.level) \in Nat
      BY <1>1, NextThreshold, MulNat, Numbers
    <3>. QED  BY <1>1, <3>1 DEF Climbed
  <2>3. Permille * Climbed + player.xpCarry <= earned /\ Permille * Climbed \in Nat
    BY <2>2, MulNat, Numbers DEF Inv, ClimbIsEarned
  <2>. HIDE DEF earned
  <2>4. Permille * Climbed <= earned
    BY <1>1, <2>1, <2>3
  <2>5. Climbed <= earned \div Permille /\ earned \div Permille \in Nat
    BY <2>1, <2>2, <2>4, DivBound, DivMod, Numbers
  <2>6. Climbed <= earned \div Permille + 1
    BY <2>2, <2>5
  <2>. QED  BY <2>6 DEF ClimbIsAccounted, earned
<1>4. card \in Nat /\ card <= rewards
  <2>1. card \in 0..LevelCap
    BY RewardsAreBounded DEF Inv, TypeOK, Ledger
  <2>2. LevelCap * 1 <= LevelCap * (player.prestige + 1)
    <3>1. 1 * LevelCap <= (player.prestige + 1) * LevelCap
      BY <1>1, 1 \in Nat, MulMono, Numbers
    <3>. QED  BY <1>1, <3>1, Numbers
  <2>3. rewards \in Nat
    BY <1>1, MulNat, Numbers
  <2>. QED  BY <2>1, <2>2, <2>3, Numbers
<1>5. PurseIsAccounted
  <2>. DEFINE total == TotalRaw(inventory)
              blocks == broken * MaxRawPerBlock
              claims == MaxOre * LevelCap * (player.prestige + 1)
  <2>1. total \in Nat /\ blocks \in Nat /\ claims \in Nat
    BY <1>1, InventoryTyped, MulNat, RawPerBlockIsBounded, Numbers
  <2>2. Permille * total <= blocks * mult + Permille * (MaxOre * card) + Permille * autoRaw
    <3>1. /\ yieldCarry.raw \in Nat /\ RawPerCompressed * yieldCarry.compressed \in Nat
          /\ Permille * total \in Nat
      BY <1>1, <2>1, MulNat, Numbers
    <3>2. Permille * total + yieldCarry.raw + RawPerCompressed * yieldCarry.compressed
              <= blocks * mult + Permille * (MaxOre * card) + Permille * autoRaw
      BY DEF Inv, PurseIsEarned
    <3>. HIDE DEF total, blocks, mult, card
    <3>3. /\ blocks * mult \in Nat /\ Permille * (MaxOre * card) \in Nat
          /\ Permille * autoRaw \in Nat
      BY <1>1, <1>2, <1>4, <2>1, MulNat, Numbers
    <3>. QED  BY <3>1, <3>2, <3>3
  <2>3. Permille * (MaxOre * card) <= claims * mult
    <3>1. MaxOre * card <= claims
      <4>1. card * MaxOre <= rewards * MaxOre
        BY <1>1, <1>4, MulMono, MulNat, Numbers
      <4>2. rewards * MaxOre = claims
        BY <1>1, Numbers
      <4>. QED  BY <1>4, <4>1, <4>2, Numbers
    <3>2. MaxOre * card \in Nat
      BY <1>4, MulNat, Numbers
    <3>. HIDE DEF claims, card, mult
    <3>3. (MaxOre * card) * Permille <= claims * Permille
      BY <2>1, <3>1, <3>2, MulMono, Numbers
    <3>4. Permille * claims <= mult * claims
      BY <1>2, <2>1, MulMono, Numbers
    <3>5. /\ (MaxOre * card) * Permille = Permille * (MaxOre * card)
          /\ claims * Permille = Permille * claims /\ mult * claims = claims * mult
      BY <1>2, <2>1, <3>2, Numbers
    <3>6. Permille * (MaxOre * card) \in Nat /\ Permille * claims \in Nat
          /\ claims * mult \in Nat
      BY <1>2, <2>1, <3>2, MulNat, Numbers
    <3>. QED  BY <3>3, <3>4, <3>5, <3>6
  <2>4. (blocks + claims) * mult \in Nat
        /\ (blocks + claims) * mult = blocks * mult + claims * mult
    <3>. HIDE DEF claims, blocks, mult
    <3>1. blocks + claims \in Nat
      BY <2>1
    <3>. QED  BY <1>2, <2>1, <3>1, MulNat
  <2>. DEFINE paid == (blocks + claims) * mult
  <2>5. Permille * (total - autoRaw) <= paid
    <3>1. Permille * (total - autoRaw) = Permille * total - Permille * autoRaw
      BY <1>1, <2>1, Numbers
    <3>2. /\ Permille * total \in Nat /\ Permille * autoRaw \in Nat /\ blocks * mult \in Nat
          /\ claims * mult \in Nat /\ Permille * (MaxOre * card) \in Nat
      <4>. HIDE DEF total, blocks, claims, mult, card
      <4>1. MaxOre * card \in Nat
        BY <1>4, MulNat, Numbers
      <4>. QED  BY <1>1, <1>2, <2>1, <4>1, MulNat, Numbers
    <3>. HIDE DEF total, blocks, claims, mult, card
    <3>. QED  BY <2>2, <2>3, <2>4, <3>1, <3>2
  <2>6. total - autoRaw <= paid \div Permille
    <3>1. paid \in Nat /\ total - autoRaw \in Int
      BY <1>1, <2>1, <2>4
    <3>. HIDE DEF paid, total
    <3>. QED  BY <2>5, <3>1, DivBound, Numbers
  <2>7. total <= paid \div Permille + autoRaw
    <3>1. paid \div Permille \in Nat
      BY <2>4, DivMod, Numbers
    <3>. HIDE DEF paid, total
    <3>. QED  BY <1>1, <2>1, <2>6, <3>1
  <2>. QED  BY <2>7 DEF PurseIsAccounted
<1>. QED  BY <1>3, <1>5 DEF Inv, RunAlwaysLoads
-----------------------------------------------------------------------------
LEMMA Invariance ==
  Spec => []Inv
<1>1. Init => Inv
  BY InitEstablishesInv
<1>2. Inv /\ [Next]_vars => Inv'
  BY NextKeepsInv
<1>. QED  BY <1>1, <1>2, PTL DEF Spec

(* Every part of the state keeps its kind: a pile between 0 and the most a  *)
(* u32 counts, a carry below one permille, a level of the ladder.           *)
THEOREM TypeCorrect == Spec => []TypeOK
<1>1. Inv => TypeOK
  BY DEF Inv
<1>. QED  BY <1>1, Invariance, PTL

(* GameState::validate (game.rs:432-570) accepts every run of the game that *)
(* is written in this version's format, whoever began it: a save is never   *)
(* refused for what playing did to it.                                      *)
THEOREM AlwaysLoads == Spec => []RunAlwaysLoads
BY Invariance, InvPassesTheAudit, PTL

(* file_crossed_levels and claim_level: a rewarded level reached is waiting *)
(* or claimed, never both.                                                  *)
THEOREM PaidOnce == Spec => []RewardsArePaidOnce
<1>1. Inv => RewardsArePaidOnce
  BY DEF Inv
<1>. QED  BY <1>1, Invariance, PTL

(* grant_break_experience: below the cap the level, the experience and the  *)
(* carry stand for exactly what the blocks held.                            *)
THEOREM ExperienceConserved == Spec => []ExperienceIsConserved
<1>1. Inv => ExperienceIsConserved
  BY DEF Inv
<1>. QED  BY <1>1, Invariance, PTL

(* The whole purse (credit_loot, credit_auto_mining, claim_reward, the      *)
(* purchases, compress and decompress): what it holds and carries is what   *)
(* was felled and dug, multiplied, and rewarded, less the list prices; only *)
(* a step that leaves a pile at its ceiling writes anything off.            *)
THEOREM LootConserved == Spec => []LootIsConserved
<1>1. Inv => LootIsConserved
  BY DEF Inv
<1>. QED  BY <1>1, Invariance, PTL

(* fire_boost and the boost's tick: a charge buys its whole duration.       *)
THEOREM BoostsInFull == Spec => []BoostsRunInFull
<1>1. Inv => BoostsRunInFull
  BY DEF Inv
<1>. QED  BY <1>1, Invariance, PTL

(* credit_auto_mining: ticks one by one and an absence at once mine alike.  *)
THEOREM AutoMiningConserved == Spec => []AutoMiningIsConserved
<1>1. Inv => AutoMiningIsConserved
  BY DEF Inv
<1>. QED  BY <1>1, Invariance, PTL
=============================================================================
