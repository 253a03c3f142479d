SPECIFICATION FairSpec
CONSTANTS
    Worker = {w1, w2}
    Master = Master
    Check = {c1, c2, c3, c4}
    Good = {c1, c2, c3}
    nBatchSize = 2
CHECK_DEADLOCK FALSE
INVARIANTS
    IdleCounted
    QueueUnused
    TodoCounted
PROPERTIES
    SessionSpec
    WaitEnds
