SPECIFICATION DelayFairSpec
CONSTANTS
    b1 = b1
    b2 = b2
    b3 = b3
    Batches <- ThreeBatches
    NodeCount = 2
    Concurrency = 1
    None = None
ACTION_CONSTRAINT InOrder
INVARIANTS
    NothingMissed
PROPERTIES
    NothingAfterCancel
    SecondOnlyAfterLateEnd
    BatchesEnd
