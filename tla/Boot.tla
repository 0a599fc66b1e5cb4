-------------------------------- MODULE Boot --------------------------------
(***************************************************************************)
(* The boot program of the PS (bootloader.c): it copies the welcome        *)
(* program into the soft core's memory, reads the ELF file of the system   *)
(* from the SD card, extracts its segments, opens the address window and   *)
(* releases the core.                                                      *)
(*                                                                         *)
(* Memory and card are made of cells.  A cell is a byte, or one of the two *)
(* structures the program reads from the file, each taken to be one cell:  *)
(*   [kind |-> "data", v |-> n]                                            *)
(*   [kind |-> "Elf64_Ehdr", phoff, phnum]                                 *)
(*   [kind |-> "Elf64_Phdr", type, offset, vaddr, filesz, memsz]           *)
(* The SD driver is what SdSystem shows of it: a read that succeeds has    *)
(* moved every block, one that fails may have moved some.                  *)
(***************************************************************************)
EXTENDS Integers, Sequences

CONSTANTS
    Addr,                   \* addresses of DRAM
    SectorSize,             \* bytes of a block
    MaxBlocks,              \* blocks of MAX_BYTES_PER_TRANSFER
    OS_SIZE_BYTES, SECTOR_OFFSET, PS_DRAM_BASE_OFFSET, ELF_OS_BASE_OFFSET,
    CUR_VER,
    Cell,                   \* what a cell can hold
    Program,                \* the welcome program, a sequence of cells
    Memories,               \* what DRAM may hold at first
    DiskSize, Disks         \* bytes of a card, contents it may have

VARIABLES
    pc,                     \* where main is
    mem,                    \* DRAM
    disk, hc,               \* the card: its contents, its capacity class
    HCS,                    \* the flag of the driver
    BytesRemaining, CurrentMemAddr, CurrentSectorOffset, seg,
    MemReg, VerReg, CtrReg  \* registers of the wrapper

sdVars   == <<disk, hc, HCS>>
loopVars == <<BytesRemaining, CurrentMemAddr, CurrentSectorOffset, seg>>
regVars  == <<MemReg, VerReg, CtrReg>>
bootVars == <<pc, mem, sdVars, loopVars, regVars>>

Zero == [kind |-> "data", v |-> 0]

MAX_BYTES_PER_TRANSFER == MaxBlocks * SectorSize

\* Bytes the read loop writes: whole blocks
Rounded(n) == ((n + SectorSize - 1) \div SectorSize) * SectorSize

\* Sizes are positive, DRAM and cards are large enough for whole blocks, the
\* welcome program ends before the buffer begins
ASSUME BootAssumption ==
    /\ SectorSize \in Nat \ {0} /\ MaxBlocks \in Nat \ {0}
    /\ OS_SIZE_BYTES \in Nat \ {0} /\ SECTOR_OFFSET \in Nat
    /\ PS_DRAM_BASE_OFFSET \in Nat /\ ELF_OS_BASE_OFFSET \in Nat
    /\ Addr \subseteq Nat /\ Program \in Seq(Cell) /\ Zero \in Cell
    /\ PS_DRAM_BASE_OFFSET + Len(Program) <= ELF_OS_BASE_OFFSET
    /\ PS_DRAM_BASE_OFFSET .. ELF_OS_BASE_OFFSET + OS_SIZE_BYTES + SectorSize \subseteq Addr
    /\ SECTOR_OFFSET * SectorSize + OS_SIZE_BYTES + SectorSize <= DiskSize
    /\ DiskSize \in Nat /\ Disks \subseteq [0 .. DiskSize - 1 -> Cell]
    /\ Memories \subseteq [Addr -> Cell]

\* The program checks nothing of an ELF file but its magic number.  What it
\* relies on: header table and segments lie in the file, segments are placed
\* behind the welcome program, below the buffer and apart from each other.
WellFormed(d) ==
    LET file(k) == d[SECTOR_OFFSET * SectorSize + k]
        h       == file(0)
        p(i)    == file(h.phoff + i)
        loads   == {i \in 0 .. h.phnum - 1 : p(i).type = "PT_LOAD"}
    IN  h.kind = "Elf64_Ehdr" =>
          /\ h.phoff \in Nat /\ h.phnum \in Nat /\ h.phoff + h.phnum <= OS_SIZE_BYTES
          /\ \A i \in loads :
               /\ p(i).offset \in Nat /\ p(i).vaddr \in Nat
               /\ p(i).filesz \in Nat /\ p(i).memsz \in Nat
               /\ p(i).filesz <= p(i).memsz
               /\ p(i).offset + p(i).filesz <= OS_SIZE_BYTES
               /\ Len(Program) <= p(i).vaddr
               /\ PS_DRAM_BASE_OFFSET + p(i).vaddr + p(i).memsz <= ELF_OS_BASE_OFFSET
          /\ \A i, j \in loads :
               i # j => \/ p(i).vaddr + p(i).memsz <= p(j).vaddr
                        \/ p(j).vaddr + p(j).memsz <= p(i).vaddr

ASSUME FilesAssumption == \A d \in Disks : WellFormed(d)

BootInit ==
    /\ pc = "main"
    /\ mem \in Memories
    /\ disk \in Disks /\ hc \in BOOLEAN /\ HCS = FALSE
    /\ BytesRemaining = 0 /\ CurrentMemAddr = 0 /\ CurrentSectorOffset = 0 /\ seg = 0
    /\ MemReg = 0 /\ VerReg \in {CUR_VER, 0} /\ CtrReg = 0

Goes(there) == pc' = there

-----------------------------------------------------------------------------
(* Memory utilities                                                        *)

\* Byte by byte upwards: a source that reaches into its destination repeats
my_memcpy(m, dest, src, n) ==
    [a \in DOMAIN m |->
        IF a \notin dest .. dest + n - 1 THEN m[a]
        ELSE IF src < dest THEN m[src + ((a - dest) % (dest - src))]
        ELSE m[src + (a - dest)]]

my_memset(m, s, n, c) == [a \in DOMAIN m |-> IF a \in s .. s + n - 1 THEN c ELSE m[a]]

\* From an array of the program itself, outside of DRAM's part used here
prog_mem_directly ==
    /\ pc = "main"
    /\ mem' = [a \in Addr |->
                 IF a \in PS_DRAM_BASE_OFFSET .. PS_DRAM_BASE_OFFSET + Len(Program) - 1
                 THEN Program[a - PS_DRAM_BASE_OFFSET + 1] ELSE mem[a]]
    /\ Goes("init")
    /\ UNCHANGED <<sdVars, loopVars, regVars>>

-----------------------------------------------------------------------------
(* Reading from the card                                                   *)

\* Driver and card are initialized; a failure ends the program
InitializeSd ==
    /\ pc = "init"
    /\ \/ /\ HCS' = hc
          /\ BytesRemaining' = OS_SIZE_BYTES
          /\ CurrentMemAddr' = ELF_OS_BASE_OFFSET
          /\ CurrentSectorOffset' = SECTOR_OFFSET
          /\ Goes("read")
       \/ Goes("failed") /\ UNCHANGED <<HCS, loopVars>>
    /\ UNCHANGED <<mem, disk, hc, seg, regVars>>

\* A chunk: as much as the driver can move, or all the rest in whole blocks
BytesToReadInChunk ==
    IF BytesRemaining > MAX_BYTES_PER_TRANSFER THEN MAX_BYTES_PER_TRANSFER
    ELSE BytesRemaining

BlocksToRead ==
    IF BytesRemaining > MAX_BYTES_PER_TRANSFER THEN MaxBlocks
    ELSE (BytesRemaining + SectorSize - 1) \div SectorSize

\* High capacity cards are addressed by sector, the others by byte
ReadArg == IF HCS THEN CurrentSectorOffset ELSE CurrentSectorOffset * SectorSize

\* Memory after blkcnt blocks from arg on went to buff
XSdPs_ReadPolled(arg, blkcnt, buff) ==
    LET first == IF hc THEN arg * SectorSize ELSE arg
    IN  [a \in Addr |-> IF buff <= a /\ a < buff + blkcnt * SectorSize
                        THEN disk[first + (a - buff)] ELSE mem[a]]

\* Mutant: the address moves on by the bytes that were wanted
ReadChunkBytes ==
    /\ pc = "read" /\ BytesRemaining > 0
    /\ mem' = XSdPs_ReadPolled(ReadArg, BlocksToRead, CurrentMemAddr)
    /\ BytesRemaining' = BytesRemaining - BytesToReadInChunk
    /\ CurrentMemAddr' = CurrentMemAddr + BytesToReadInChunk
    /\ CurrentSectorOffset' = CurrentSectorOffset + BlocksToRead
    /\ UNCHANGED <<pc, sdVars, seg, regVars>>

ReadChunk ==
    /\ pc = "read" /\ BytesRemaining > 0
    /\ mem' = XSdPs_ReadPolled(ReadArg, BlocksToRead, CurrentMemAddr)
    /\ BytesRemaining' = BytesRemaining - BytesToReadInChunk
    /\ CurrentMemAddr' = CurrentMemAddr + BlocksToRead * SectorSize
    /\ CurrentSectorOffset' = CurrentSectorOffset + BlocksToRead
    /\ UNCHANGED <<pc, sdVars, seg, regVars>>

ReadFails ==
    /\ pc = "read" /\ BytesRemaining > 0
    /\ \E n \in 0 .. BlocksToRead : mem' = XSdPs_ReadPolled(ReadArg, n, CurrentMemAddr)
    /\ Goes("failed")
    /\ UNCHANGED <<sdVars, loopVars, regVars>>

ReadDone ==
    /\ pc = "read" /\ BytesRemaining = 0
    /\ Goes("load")
    /\ UNCHANGED <<mem, sdVars, loopVars, regVars>>

read_elf_from_sd == InitializeSd \/ ReadChunk \/ ReadFails \/ ReadDone

-----------------------------------------------------------------------------
(* Extracting the segments.  The headers are read from the buffer each     *)
(* time they are needed.                                                   *)

ehdr == mem[ELF_OS_BASE_OFFSET]
phdr(i) == mem[ELF_OS_BASE_OFFSET + ehdr.phoff + i]

CheckMagic ==
    /\ pc = "load"
    /\ IF ehdr.kind = "Elf64_Ehdr" THEN Goes("segments") /\ seg' = 0
       ELSE Goes("failed") /\ UNCHANGED seg
    /\ UNCHANGED <<mem, sdVars, BytesRemaining, CurrentMemAddr, CurrentSectorOffset, regVars>>

\* Mutant: clears as many bytes as the segment has in memory
LoadedClearsAll(p) ==
    LET dest == PS_DRAM_BASE_OFFSET + p.vaddr
        copied == my_memcpy(mem, dest, ELF_OS_BASE_OFFSET + p.offset, p.filesz)
    IN  IF p.memsz > p.filesz
        THEN my_memset(copied, dest + p.filesz, p.memsz, Zero)
        ELSE copied

\* Mutant: what the file does not have stays as it is
LoadedUncleared(p) ==
    my_memcpy(mem, PS_DRAM_BASE_OFFSET + p.vaddr, ELF_OS_BASE_OFFSET + p.offset, p.filesz)

\* Memory with a segment extracted: its bytes of the file, the rest cleared
Loaded(p) ==
    LET dest == PS_DRAM_BASE_OFFSET + p.vaddr
        copied == my_memcpy(mem, dest, ELF_OS_BASE_OFFSET + p.offset, p.filesz)
    IN  IF p.memsz > p.filesz
        THEN my_memset(copied, dest + p.filesz, p.memsz - p.filesz, Zero)
        ELSE copied

LoadSegment ==
    /\ pc = "segments" /\ seg < ehdr.phnum
    /\ mem' = IF phdr(seg).type = "PT_LOAD" THEN Loaded(phdr(seg)) ELSE mem
    /\ seg' = seg + 1
    /\ UNCHANGED <<pc, sdVars, BytesRemaining, CurrentMemAddr, CurrentSectorOffset, regVars>>

LoadDone ==
    /\ pc = "segments" /\ seg >= ehdr.phnum
    /\ Goes("configure")
    /\ UNCHANGED <<mem, sdVars, loopVars, regVars>>

load_and_run_elf == CheckMagic \/ LoadSegment \/ LoadDone

-----------------------------------------------------------------------------
(* The wrapper's registers                                                 *)

\* Reads back what it wrote, and the version of the hardware
Configure ==
    /\ pc = "configure"
    /\ MemReg' = PS_DRAM_BASE_OFFSET
    /\ Goes(IF MemReg' = PS_DRAM_BASE_OFFSET /\ VerReg = CUR_VER THEN "release"
            ELSE "failed")
    /\ UNCHANGED <<mem, sdVars, loopVars, VerReg, CtrReg>>

Release ==
    /\ pc = "release"
    /\ CtrReg' = 1
    /\ Goes("wfi")
    /\ UNCHANGED <<mem, sdVars, loopVars, MemReg, VerReg>>

main == prog_mem_directly \/ read_elf_from_sd \/ load_and_run_elf \/ Configure \/ Release

BootSpec == BootInit /\ [][main]_bootVars

-----------------------------------------------------------------------------
(* The file on the card, and the segments its headers ask for              *)

File(k) == disk[SECTOR_OFFSET * SectorSize + k]
IsElf == File(0).kind = "Elf64_Ehdr"
Header(i) == File(File(0).phoff + i)
ToLoad == {i \in 0 .. File(0).phnum - 1 : Header(i).type = "PT_LOAD"}

\* The core's memory, through the window
Core(a) == mem[MemReg + a]

\* A segment at its place: what the file has of it, then zeroes
InPlace(s) ==
    \A k \in 0 .. s.memsz - 1 :
      mem[PS_DRAM_BASE_OFFSET + s.vaddr + k] =
        IF k < s.filesz THEN File(s.offset + k) ELSE Zero

-----------------------------------------------------------------------------
(* Properties                                                              *)

TypeOK ==
    /\ pc \in {"main", "init", "read", "load", "segments", "configure", "release",
               "wfi", "failed"}
    /\ mem \in [Addr -> Cell] /\ disk \in Disks /\ hc \in BOOLEAN /\ HCS \in BOOLEAN
    /\ BytesRemaining \in Nat /\ CurrentMemAddr \in Nat
    /\ CurrentSectorOffset \in Nat /\ seg \in Nat
    /\ MemReg \in Nat /\ CtrReg \in {0, 1}

\* read_elf_from_sd, bootloader.c:226: memory address, sector and rest stay in
\* step from chunk to chunk, also over the rounded last one, and everything up
\* to the address is the file.
InStep ==
    LET done == CurrentMemAddr - ELF_OS_BASE_OFFSET
    IN  pc = "read" =>
          /\ HCS = hc
          /\ CurrentMemAddr >= ELF_OS_BASE_OFFSET
          /\ CurrentSectorOffset >= SECTOR_OFFSET
          /\ done = (CurrentSectorOffset - SECTOR_OFFSET) * SectorSize
          /\ BytesRemaining > 0 => BytesRemaining + done = OS_SIZE_BYTES
          /\ BytesRemaining = 0 => done >= OS_SIZE_BYTES
          /\ \A k \in 0 .. OS_SIZE_BYTES - 1 :
               k < done => mem[ELF_OS_BASE_OFFSET + k] = File(k)

\* load_and_run_elf, bootloader.c:96: extracting segments leaves the file in
\* the buffer alone, so that the headers read there stay those of the file.
BufferIsFile ==
    pc \in {"load", "segments", "configure", "release", "wfi"} =>
        \A k \in 0 .. OS_SIZE_BYTES - 1 : mem[ELF_OS_BASE_OFFSET + k] = File(k)

\* prog_mem_directly, bootloader.c:281: nothing is written over the welcome
\* program once it is in place.
ProgramKept ==
    pc # "main" =>
        \A k \in 1 .. Len(Program) : mem[PS_DRAM_BASE_OFFSET + k - 1] = Program[k]

\* load_and_run_elf: the segments extracted so far stay in place.
Extracted ==
    pc \in {"segments", "configure", "release", "wfi"} =>
        /\ IsElf
        /\ \A i \in ToLoad : pc # "segments" \/ i < seg => InPlace(Header(i))

\* main, bootloader.c:289: window and version when the core is released.
Checked ==
    /\ pc \in {"release", "wfi"} => MemReg = PS_DRAM_BASE_OFFSET /\ VerReg = CUR_VER
    /\ CtrReg = 1 => pc = "wfi"

IInv == TypeOK /\ InStep /\ BufferIsFile /\ ProgramKept /\ Extracted /\ Checked

\* bootloader.c: nothing is written but the program, the buffer, up to the end
\* of its last block, and the segments; a failing read does not change that.
WritesConfined ==
    \A a \in Addr :
        \/ \E m \in Memories : mem[a] = m[a]
        \/ a - PS_DRAM_BASE_OFFSET \in 0 .. Len(Program) - 1
        \/ a - ELF_OS_BASE_OFFSET \in 0 .. Rounded(OS_SIZE_BYTES) - 1
        \/ /\ IsElf
           /\ \E i \in ToLoad : LET s == Header(i) IN
                a - PS_DRAM_BASE_OFFSET \in s.vaddr .. s.vaddr + s.memsz - 1

\* main, bootloader.c:289: once the core is released its window is open, the
\* hardware is the expected one, the welcome program is in place and every
\* loadable segment of the file on the card is where the core will find it,
\* cleared where the file has nothing; otherwise the core is never released.
ImageLoaded ==
    CtrReg = 1 =>
        /\ MemReg = PS_DRAM_BASE_OFFSET /\ VerReg = CUR_VER /\ IsElf
        /\ \A k \in 1 .. Len(Program) : Core(k - 1) = Program[k]
        /\ \A i \in ToLoad : LET s == Header(i) IN
             \A k \in 0 .. s.memsz - 1 :
               Core(s.vaddr + k) = IF k < s.filesz THEN File(s.offset + k) ELSE Zero
=============================================================================
