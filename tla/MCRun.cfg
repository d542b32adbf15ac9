CONSTANTS
    LevelCap = 3
    XpStep = 1
    Ore <- MCOre
    ChargeEvery = 2
    MaxOre = 1
    Permille = 1000
    MultPerRank = 500
    ClimbPrice = 1
    SurchargeBase = 1
    SurchargePerRank = 200
    EfficiencyCap <- MCEfficiencyCap
    FortuneCap <- MCFortuneCap
    Price <- MCPrice
    RawPerCompressed = 2
    MaxCount = 5
    BoostTicks = 2
    MaxCells = 1
    MaxXp = 3
    MaxDrop = 1
    Dials = {10, 91}
    CommonDrop = 1
    ValueDrop = 1
    AutoRate = 200
    Block = 8000
    Schemas = {1, 2, 3}
    Absences = {41}
    OlderAbsence = 160
    MaxPlaytime = 3
    MaxAbsences = 1
    MaxPrestige = 1
SPECIFICATION Spec
INVARIANTS
    TypeOK
    RunAlwaysLoads
    RewardsArePaidOnce
    ExperienceIsConserved
    LootIsConserved
    BoostsRunInFull
    AutoMiningIsConserved
CHECK_DEADLOCK FALSE
