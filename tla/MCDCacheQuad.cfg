CONSTANTS
    Tag = {0, 1}
    Index = {0}
    ROW_PER_LINE = 2
    NUM_WAYS = 2
    MAX_ACKS = 3
    MaxOwed = 2
    Junk = {1}
    PageOf <- MCPageOf
    Programs <- QuadPrograms
    Writes = {1}
    Foreign <- NoRow
    Avoids = {"dcbz", "touch", "mmu", "lwarx"}
SPECIFICATION Spec
INVARIANT LoadsCoherent
VIEW LiveState
