CONSTANTS
    Tag = {0, 1}
    Index = {0}
    ROW_PER_LINE = 2
    NUM_WAYS = 1
    MAX_ACKS = 2
    MaxOwed = 3
    Junk = {1}
    PageOf <- MCPageOf
    Programs <- MCPrograms
    Writes = {0}
    Foreign <- BothRows
    Avoids = {"dcbz", "touch", "mmu", "quad", "lwarx", "refused"}
SPECIFICATION Spec
INVARIANTS
    IInv
    LoadsCoherent
    CompletesAsked
    BusKept
    SyncAfterStores
PROPERTY StcxAtomic
VIEW LiveState
