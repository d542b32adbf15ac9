CONSTANTS
    Material = {"iron", "gold"}
    RawPerCompressed = 2
    Tiers = 2
    EfficiencyCap <- MCCap
    BasePower <- MCBase
    EfficiencyPrice <- MCEfficiencyPrice
    TierPrice <- MCTierPrice
    LevelCap = 2
    Mines = {"stone", "coal"}
    Home = "stone"
    MineLevel <- MCMineLevel
    MineTier <- MCMineTier
    Enchants = {"fortune"}
    EnchantCap <- MCEnchantCap
    MineTracks = {"size"}
    MineOf <- MCMineOf
    MineTrackCap = 1
    TrackPrice <- MCTrackPrice
    RankPrice <- MCRankPrice
    MaxWorth <- MCMaxWorth
    MaxOwned = 2
    MaxRank = 1
SPECIFICATION Spec
INVARIANTS
    MarksArePromises
    CompressFirstIsRepairable
    HintIsAffordable
    NothingOfferedIsRefused
PROPERTIES
    IsWallet
