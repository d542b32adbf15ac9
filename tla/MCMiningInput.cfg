CONSTANTS
    None = None
    HoldWindow = 3
    AbsenceTimeout = 4
    RepeatDelay = 1
    Lag = 1
    Reporting = {TRUE, FALSE}
    Keys = {"digit", "esc", "help", "settings", "arrow"}
    Resizing = {TRUE, FALSE}
    MaxQueue = 1
SPECIFICATION FairSpec
INVARIANTS
    MiningFollowsTheHand
PROPERTIES
    HoldNeverStutters
    APressTurnsTheLatchOnce
    NoTapIsLost
    MiningEndsAlone
