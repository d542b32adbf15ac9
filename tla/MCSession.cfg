CONSTANTS
    Missing = Missing
    Bad = Bad
    NoApp = NoApp
    Builds = {1, 2}
    Faults = {"damage", "edit", "full", "gone", "cramped"}
    Second = 1
    AutosavePeriod = 1
    OfflineCap = 1
    MaxClock = 1
    MaxSetBack = 1
    MaxRuns = 2
    MaxDeeds = 1
SPECIFICATION Spec
INVARIANTS
    NeverSavesBackwards
PROPERTIES
    OnlyDamageLosesProgress
    EnterAloneKeepsTheRun
    LeavingKeepsTheRun
