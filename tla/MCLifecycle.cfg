SPECIFICATION LifecycleSpec
CONSTANTS
    call1 = call1
    call2 = call2
    Calls <- TwoCalls
    NoCall = NoCall
    MaxFaults = 2
ACTION_CONSTRAINT InOrder
CHECK_DEADLOCK FALSE
INVARIANTS
    TransientOwned
    OwnResult
    RunningHasCore
    StoppedHasNoChild
    HeartbeatWhileServing
PROPERTIES
    ResultIsState
    CallsEndUnlessHung
