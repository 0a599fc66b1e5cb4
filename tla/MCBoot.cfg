SPECIFICATION Spec
CONSTANTS
    Addr <- MCAddr
    SectorSize = 2
    MaxBlocks = 3
    OS_SIZE_BYTES = 7
    SECTOR_OFFSET = 1
    PS_DRAM_BASE_OFFSET = 2
    ELF_OS_BASE_OFFSET = 12
    CUR_VER = 7
    Cell <- MCCell
    Program <- MCProgram
    Memories <- MCMemories
    DiskSize = 12
    Disks <- MCDisks
    KERNEL_ADDR = 3
    Messages <- MCMessages
    LineBreaks <- MCLineBreaks
    TX_DEPTH = 2
    RX_DEPTH = 2
    Keys = {0, 65}
    MAX_KEYS = 2
INVARIANTS
    IInv
    WritesConfined
    ImageLoaded
    ScreenShows
PROPERTIES
    KeyStarts
CHECK_DEADLOCK FALSE
