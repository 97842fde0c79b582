SPECIFICATION SetupFairSpec
CONSTANTS
    p1 = p1
    p2 = p2
    handler = handler
    Procs <- TwoProcs
    Tasks <- OneTask
    MaxLaunches = 2
    MaxFaults = 1
    MaxPolls = 1
    MaxTries = 1
CHECK_DEADLOCK FALSE
PROPERTIES
    CommandsDo
    FailsForAReason
    EverythingEnds
