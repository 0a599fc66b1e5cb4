CONSTANTS
    Tag = {0, 1}
    Index = {0}
    ROW_PER_LINE = 2
    NUM_WAYS = 2
    MAX_ACKS = 3
    MaxOwed = 2
    Junk = {1}
    PageOf <- MCPageOf
    Programs <- LwarxPrograms
    Writes = {1}
    Foreign <- OneRow
    Avoids = {"dcbz", "touch", "mmu", "quad"}
SPECIFICATION Spec
PROPERTY StcxAtomic
VIEW LiveState
