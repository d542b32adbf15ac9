CONSTANTS
    Tracked = {"Stone", "Obsidian", "Amethyst"}
    MaxTrack = 2
    MaxRank = 1
SPECIFICATION Spec
INVARIANTS
    NoAxisWaitsOnItself
PROPERTIES
    EveryClimbCanBeFinished
CHECK_DEADLOCK FALSE
