CONSTANTS
    NUM_MASTERS = 2
    Val = {0, 1}
    ZeroVal = 0
    OnesVal = 1
    Requests <- MCRequests
SPECIFICATION FairSpec
INVARIANTS
    IInv
    AnswersReachOwner
    IoServedOnce
    SnoopedOnce
PROPERTIES
    EveryMasterServed
