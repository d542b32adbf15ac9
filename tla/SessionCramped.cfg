CONSTANTS
    Missing = Missing
    Bad = Bad
    NoApp = NoApp
    Builds = {1}
    Faults = {"cramped"}
    Second = 1
    AutosavePeriod = 2
    OfflineCap = 1
    MaxClock = 2
    MaxSetBack = 0
    MaxRuns = 1
    MaxDeeds = 1
SPECIFICATION Spec
PROPERTY
    EveryExitSaves
