SPECIFICATION Spec
CONSTANTS
    MaxFaults = 0
    MaxCalls = 3
    OP_POLLS = 2
    ID_POLLS = 2
    MAX_TUNING = 2
    Boards <- MCBoards
    NewCards <- MCNewCards
    BlkCnts <- MCBlkCnts
INVARIANTS
    BusyIsInProgress
CHECK_DEADLOCK FALSE
