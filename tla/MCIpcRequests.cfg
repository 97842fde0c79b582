SPECIFICATION CallsFairSpec
CONSTANTS
    put1 = put1
    put2 = put2
    get1 = get1
    get2 = get2
    test = test
    conn1 = conn1
    conn2 = conn2
    conn3 = conn3
    Calls <- TwoPuts
    PutCalls <- TwoPuts
    Requests <- Numbered
    Updates <- NumberedPuts
    Tests <- OneTest
    Conns <- ThreeConns
    NoConn = noConn
    MaxPool = 1
    MaxConnecting = 1
    MaxConnects = 2
    MaxRetries = 1
    Attempts <- FirstTwice
    Windows = FALSE
    CoreMayHang = TRUE
    MaxFaults = 1
CHECK_DEADLOCK FALSE
INVARIANTS
    NothingOwed
    OwnAnswer
    AnsweredOnce
    OneUpdate
PROPERTIES
    AnsweredUnlessStuck
