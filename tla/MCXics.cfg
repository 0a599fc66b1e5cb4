CONSTANTS
    NCPUS = 1
    SRC_NUM = 2
    PRIO_BITS = 2
    FF = 4
    Wired = {0, 1}
    AccessPri = {0, 1, 4}
    FreeRegs = {"xive", "XIRR", "MFRR"}
SPECIFICATION Spec
INVARIANTS
    IInv
    SettledPresentsBest
PROPERTIES
    RaisedIsServiced
    AcceptTakesItsPriority
