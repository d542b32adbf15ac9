CONSTANTS
    FramePeriod = 2
    SimPeriod = 3
    Ttl = 4
    MaxQueue = 2
SPECIFICATION Spec
INVARIANTS
    NoEventOvertakesAKey
PROPERTIES
    NothingStaysStale
    AFailingSaveIsTold
    WhatWasTypedIsAnswered
CHECK_DEADLOCK FALSE
