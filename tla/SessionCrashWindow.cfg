CONSTANTS
    Missing = Missing
    Bad = Bad
    NoApp = NoApp
    Builds = {1}
    Faults = {"damage"}
    Second = 1
    AutosavePeriod = 1
    OfflineCap = 1
    MaxClock = 1
    MaxSetBack = 0
    MaxRuns = 1
    MaxDeeds = 1
SPECIFICATION Spec
PROPERTY
    CrashLeavesAGoodBackup
