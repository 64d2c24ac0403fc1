CONSTANTS
    Capacity = 1
    MaxChunks = 2
SPECIFICATION FairSpec
INVARIANTS TypeOK InOrder Complete
PROPERTY StreamEnds
CHECK_DEADLOCK FALSE
