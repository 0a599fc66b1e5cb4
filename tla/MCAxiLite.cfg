CONSTANTS
    r0 = r0
    r1 = r1
    l0 = l0
    b0 = b0
    b1 = b1
    Reg = {r0, r1}
    RegLane = {l0}
    RegByte = {b0, b1}
    ZeroReg = r0
    RegReset <- MCRegReset
    MaxAhead = 2
    Writes <- MCWrites
SPECIFICATION FairSpec
INVARIANTS
    IInv
    LatchesPaired
PROPERTIES
    ImplementsRegFile
    AccessesAnswered
