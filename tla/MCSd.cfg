SPECIFICATION Spec
CONSTANTS
    MaxFaults = 1
    MaxCalls = 4
    OP_POLLS = 2
    ID_POLLS = 2
    MAX_TUNING = 2
    Boards <- MCBoards
    NewCards <- MCNewCards
    BlkCnts <- MCBlkCnts
INVARIANTS
    IInv
    InitAgrees
    ClockWithinMode
    CleanCallSucceeds
    OwnData
PROPERTIES
    CallReturns
CHECK_DEADLOCK FALSE
