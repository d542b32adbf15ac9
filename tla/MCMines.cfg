CONSTANTS
    None = None
    Kinds = {"stone", "coal"}
    Stone = "stone"
    GateLevel <- MCGateLevel
    GateTier <- MCGateTier
    LevelCap = 2
    TopTier = 1
    Width <- MCWidth
    Height <- MCHeight
    MaxSizeLevel = 1
    MaxRichness = 1
    Toughness <- MCToughness
    Powers = {1}
    Radii = {1}
    MaxPurchases <- MCMaxPurchases
SPECIFICATION Spec
INVARIANTS
    MinesAreValid
    ProgressIsEarned
    NoMineIsEmpty
    NoMineIsShut
PROPERTIES
    SwingPaysWhatFell
    NothingIsUnbroken
    AimIsKept
