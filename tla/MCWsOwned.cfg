CHECK_DEADLOCK FALSE
SPECIFICATION StreamsFairSpec
CONSTANTS
    Order <- TwoStreams
    Early <- ByThePage
    Switchable <- TheLog
    CoreMayHang = TRUE
    MaxStarts = 2
    MaxSwitches = 3
INVARIANTS
    ClientOwnsConnections
PROPERTIES
    StopEndsUnlessHung
    LeftOversEnd
