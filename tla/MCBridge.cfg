CONSTANTS
    Adr = {a0, a1}
    Lanes = {l0}
    Byte = {b0, b1}
    Resp = {okay, slverr}
    ZeroAdr = a0
    ZeroByte = b0
    OKAY = okay
SPECIFICATION FairSpec
INVARIANT IInv
PROPERTIES
    AxiStable
    ImplementsPort
    EveryStrobeAnswered
