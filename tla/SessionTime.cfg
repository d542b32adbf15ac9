CONSTANTS
    Missing = Missing
    Bad = Bad
    NoApp = NoApp
    Builds = {1}
    Faults = {"full", "cramped"}
    Second = 1
    AutosavePeriod = 2
    OfflineCap = 2
    MaxClock = 3
    MaxSetBack = 1
    MaxRuns = 1
    MaxDeeds = 1
SPECIFICATION FairSpec
INVARIANTS
    TimeIsPaidOnce
    LossIsBounded
PROPERTIES
    PlayReachesTheDisk
    SavingRecovers
