SPECIFICATION JobsSpec
CONSTANTS
    call1 = call1
    call2 = call2
    Calls <- TwoCalls
    NoCall = NoCall
    MaxFaults = 1
    MaxSaves = 1
    MaxChunks = 2
    Unix = TRUE
    Original = Original
    NoFile = NoFile
ACTION_CONSTRAINT InOrder
CHECK_DEADLOCK FALSE
INVARIANTS
    OneIsUsable
PROPERTIES
    BackupsDo
    UpdatesDo
