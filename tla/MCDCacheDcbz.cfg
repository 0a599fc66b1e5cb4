CONSTANTS
    Tag = {0, 1}
    Index = {0}
    ROW_PER_LINE = 2
    NUM_WAYS = 1
    MAX_ACKS = 3
    MaxOwed = 2
    Junk = {1}
    PageOf <- MCPageOf
    Programs <- DcbzPrograms
    Writes = {1}
    Foreign <- NoRow
    Avoids = {"touch", "mmu", "quad", "lwarx"}
SPECIFICATION Spec
PROPERTY DcbzWritesZeroes
