CONSTANTS
    Adr = {0, 1, 2, 3, 4, 5, 6, 7}
    Lanes = {l0}
    Byte = {b0, b1}
    Resp = {okay}
    ZeroAdr = 0
    ZeroByte = b0
    OKAY = okay
    AddrSize = 8
    DRAM_SIZE = 4
    MasterAdr = {0, 3, 7}
    PsBase = 1
    CurVersion = 7
    Reg <- MCReg
    RegLane = {0}
    RegByte = {0, 1, 2, 3, 4, 5, 6, 7}
    ZeroReg = "CTR_REG"
    RegReset <- MCRegReset
SPECIFICATION Spec
INVARIANTS
    IInv
    ReleasedConfigured
    PsMemoryKept
    ReadAnswersOwn
PROPERTY ImplementsPort
