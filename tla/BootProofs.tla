----------------------------- MODULE BootProofs ------------------------------
(***************************************************************************)
(* Proofs about the boot program, for every size of block, chunk and file, *)
(* every card and every well-formed ELF file.                              *)
(***************************************************************************)
EXTENDS BootSystem, TLAPS

-----------------------------------------------------------------------------
(* Numbers                                                                 *)

\* Rounding up to whole blocks
LEMMA Ceiling ==
    ASSUME NEW n \in Nat, NEW s \in Nat \ {0}
    PROVE  LET b == (n + s - 1) \div s IN
           b \in Nat /\ b * s \in Nat /\ b * s >= n /\ b * s < n + s
<1> DEFINE b == (n + s - 1) \div s
<1>1. n + s - 1 = s * b + ((n + s - 1) % s) /\ b \in Nat
  OBVIOUS
<1>2. (n + s - 1) % s \in 0 .. s - 1
  OBVIOUS
<1>3. b * s = s * b /\ b * s \in Nat
  BY <1>1
<1>4. QED
  BY <1>1, <1>2, <1>3

\* Bytes of blocks
LEMMA Times ==
    ASSUME NEW a \in Nat, NEW b \in Nat, NEW s \in Nat
    PROVE  /\ (a + b) * s = a * s + b * s
           /\ a >= b => (a - b) * s = a * s - b * s /\ b * s <= a * s
           /\ a * s \in Nat
OBVIOUS

\* A chunk is whole blocks, reaches at most into the block in which the rest
\* ends, and is exactly what was wanted unless it is the last one.
LEMMA Chunk ==
    ASSUME BytesRemaining \in Nat \ {0}
    PROVE  /\ BlocksToRead \in Nat /\ BlocksToRead * SectorSize \in Nat
           /\ BytesToReadInChunk \in 1 .. BytesRemaining
           /\ BlocksToRead * SectorSize >= BytesToReadInChunk
           /\ BlocksToRead * SectorSize < BytesRemaining + SectorSize
           /\ BytesToReadInChunk < BytesRemaining =>
                BlocksToRead * SectorSize = BytesToReadInChunk
<1>1. SectorSize \in Nat \ {0} /\ MaxBlocks \in Nat \ {0}
  BY BootAssumption
<1>2. CASE BytesRemaining > MAX_BYTES_PER_TRANSFER
  <2>1. MAX_BYTES_PER_TRANSFER \in Nat \ {0}
    BY <1>1 DEF MAX_BYTES_PER_TRANSFER
  <2>2. BlocksToRead = MaxBlocks /\ BytesToReadInChunk = MAX_BYTES_PER_TRANSFER
    BY <1>2 DEF BlocksToRead, BytesToReadInChunk
  <2>3. BlocksToRead * SectorSize = BytesToReadInChunk
    BY <2>2 DEF MAX_BYTES_PER_TRANSFER
  <2>4. QED
    BY <1>1, <1>2, <2>1, <2>2, <2>3
<1>3. CASE ~(BytesRemaining > MAX_BYTES_PER_TRANSFER)
  <2>1. /\ BlocksToRead = (BytesRemaining + SectorSize - 1) \div SectorSize
        /\ BytesToReadInChunk = BytesRemaining
    BY <1>3 DEF BlocksToRead, BytesToReadInChunk
  <2>2. BlocksToRead \in Nat /\ BlocksToRead * SectorSize \in Nat
        /\ BlocksToRead * SectorSize >= BytesRemaining
        /\ BlocksToRead * SectorSize < BytesRemaining + SectorSize
    BY <1>1, <2>1, Ceiling
  <2>3. QED
    BY <2>1, <2>2
<1>4. QED
  BY <1>2, <1>3

-----------------------------------------------------------------------------
(* The file                                                                *)

\* The file, and the block it ends in, are on the card.
LEMMA FileOnCard ==
    ASSUME TypeOK, NEW k \in 0 .. OS_SIZE_BYTES + SectorSize
    PROVE  k < OS_SIZE_BYTES + SectorSize => File(k) \in Cell
<1>1. disk \in [0 .. DiskSize - 1 -> Cell]
  BY BootAssumption DEF TypeOK
<1>2. SECTOR_OFFSET * SectorSize \in Nat
  BY BootAssumption, Times
<1>3. QED
  BY <1>1, <1>2, BootAssumption DEF File

\* What a well-formed file promises of a segment.
LEMMA Promised ==
    ASSUME TypeOK, IsElf
    PROVE  /\ File(0).phoff \in Nat /\ File(0).phnum \in Nat
           /\ File(0).phoff + File(0).phnum <= OS_SIZE_BYTES
           /\ \A i \in ToLoad : LET s == Header(i) IN
                /\ s.offset \in Nat /\ s.vaddr \in Nat /\ s.filesz \in Nat /\ s.memsz \in Nat
                /\ s.filesz <= s.memsz /\ s.offset + s.filesz <= OS_SIZE_BYTES
                /\ Len(Program) <= s.vaddr
                /\ PS_DRAM_BASE_OFFSET + s.vaddr + s.memsz <= ELF_OS_BASE_OFFSET
           /\ \A i, j \in ToLoad :
                i # j => \/ Header(i).vaddr + Header(i).memsz <= Header(j).vaddr
                         \/ Header(j).vaddr + Header(j).memsz <= Header(i).vaddr
<1>1. WellFormed(disk)
  BY FilesAssumption DEF TypeOK
<1>2. QED
  BY <1>1, Zenon DEF WellFormed, IsElf, ToLoad, Header, File

\* The headers in the buffer are those of the file.
LEMMA HeadersOfFile ==
    ASSUME IInv, pc \in {"load", "segments"}
    PROVE  /\ ehdr = File(0)
           /\ IsElf => \A i \in 0 .. File(0).phnum - 1 : phdr(i) = Header(i)
<1>1. \A k \in 0 .. OS_SIZE_BYTES - 1 : mem[ELF_OS_BASE_OFFSET + k] = File(k)
  BY DEF IInv, BufferIsFile
<1>2. ehdr = File(0)
  BY <1>1, BootAssumption DEF ehdr
<1>3. ASSUME IsElf, NEW i \in 0 .. File(0).phnum - 1
      PROVE  phdr(i) = Header(i)
  <2>1. /\ File(0).phoff \in Nat /\ File(0).phnum \in Nat
        /\ File(0).phoff + File(0).phnum <= OS_SIZE_BYTES
    BY <1>3, Promised DEF IInv
  <2>2. File(0).phoff + i \in 0 .. OS_SIZE_BYTES - 1
    BY <2>1, BootAssumption
  <2>3. ELF_OS_BASE_OFFSET + File(0).phoff + i = ELF_OS_BASE_OFFSET + (File(0).phoff + i)
    BY <2>1, BootAssumption
  <2>4. QED
    BY <1>1, <1>2, <2>2, <2>3 DEF phdr, Header
<1>4. QED
  BY <1>2, <1>3

-----------------------------------------------------------------------------
(* What the two ways of writing memory do                                  *)

\* The blocks read are the next of the file, and go to their place in the
\* buffer.
LEMMA BlocksRead ==
    ASSUME IInv, pc = "read", BytesRemaining > 0, NEW n \in 0 .. BlocksToRead
    PROVE  LET m == XSdPs_ReadPolled(ReadArg, n, CurrentMemAddr) IN
           /\ CurrentMemAddr + n * SectorSize < ELF_OS_BASE_OFFSET + OS_SIZE_BYTES + SectorSize
           /\ m \in [Addr -> Cell]
           /\ \A a \in Addr :
                m[a] = IF CurrentMemAddr <= a /\ a < CurrentMemAddr + n * SectorSize
                       THEN File(a - ELF_OS_BASE_OFFSET) ELSE mem[a]
<1> DEFINE m == XSdPs_ReadPolled(ReadArg, n, CurrentMemAddr)
           first == IF hc THEN ReadArg * SectorSize ELSE ReadArg
<1> USE BootAssumption
<1>1. /\ TypeOK /\ InStep /\ BytesRemaining \in Nat \ {0} /\ CurrentMemAddr \in Nat
      /\ CurrentSectorOffset \in Nat /\ mem \in [Addr -> Cell]
  BY DEF IInv, TypeOK
<1>2. /\ BlocksToRead \in Nat /\ BlocksToRead * SectorSize \in Nat
      /\ BlocksToRead * SectorSize < BytesRemaining + SectorSize
  BY <1>1, Chunk
<1>3. n * SectorSize \in Nat /\ n * SectorSize <= BlocksToRead * SectorSize
  BY <1>2, Times
<1>4. /\ CurrentMemAddr >= ELF_OS_BASE_OFFSET
      /\ CurrentMemAddr - ELF_OS_BASE_OFFSET =
           (CurrentSectorOffset - SECTOR_OFFSET) * SectorSize
      /\ BytesRemaining + (CurrentMemAddr - ELF_OS_BASE_OFFSET) = OS_SIZE_BYTES
      /\ CurrentSectorOffset >= SECTOR_OFFSET /\ HCS = hc
  BY <1>1 DEF InStep
<1>5. first = CurrentSectorOffset * SectorSize
  BY <1>4 DEF ReadArg
<1>6. /\ first = SECTOR_OFFSET * SectorSize + (CurrentMemAddr - ELF_OS_BASE_OFFSET)
      /\ SECTOR_OFFSET * SectorSize \in Nat
  BY <1>1, <1>4, <1>5, Times
<1>7. CurrentMemAddr + n * SectorSize < ELF_OS_BASE_OFFSET + OS_SIZE_BYTES + SectorSize
  BY <1>1, <1>2, <1>3, <1>4
<1>8. ASSUME NEW a \in Addr
      PROVE  /\ m[a] \in Cell
             /\ m[a] = IF CurrentMemAddr <= a /\ a < CurrentMemAddr + n * SectorSize
                       THEN File(a - ELF_OS_BASE_OFFSET) ELSE mem[a]
  <2>1. CASE CurrentMemAddr <= a /\ a < CurrentMemAddr + n * SectorSize
    <3>1. m[a] = disk[first + (a - CurrentMemAddr)]
      BY <2>1 DEF XSdPs_ReadPolled
    <3>2. first + (a - CurrentMemAddr) = SECTOR_OFFSET * SectorSize + (a - ELF_OS_BASE_OFFSET)
      BY <1>1, <1>6
    <3>3. m[a] = File(a - ELF_OS_BASE_OFFSET)
      BY <3>1, <3>2 DEF File
    <3>4. /\ a - ELF_OS_BASE_OFFSET \in 0 .. OS_SIZE_BYTES + SectorSize
          /\ a - ELF_OS_BASE_OFFSET < OS_SIZE_BYTES + SectorSize
      BY <1>1, <1>3, <1>4, <1>7, <2>1
    <3>5. QED
      BY <1>1, <2>1, <3>3, <3>4, FileOnCard
  <2>2. CASE ~(CurrentMemAddr <= a /\ a < CurrentMemAddr + n * SectorSize)
    BY <1>1, <2>2 DEF XSdPs_ReadPolled
  <2>3. QED
    BY <2>1, <2>2
<1>9. m \in [Addr -> Cell]
  BY <1>8 DEF XSdPs_ReadPolled
<1>10. QED
  BY <1>7, <1>8, <1>9

\* A segment of the file is copied and cleared where it belongs, and nowhere
\* else.
LEMMA SegmentLoaded ==
    ASSUME IInv, pc = "segments", NEW i \in ToLoad
    PROVE  LET s    == Header(i)
               dest == PS_DRAM_BASE_OFFSET + s.vaddr
           IN  /\ Loaded(s) \in [Addr -> Cell]
               /\ \A a \in Addr :
                    Loaded(s)[a] = IF a \in dest .. dest + s.memsz - 1
                                   THEN IF a - dest < s.filesz
                                        THEN File(s.offset + (a - dest)) ELSE Zero
                                   ELSE mem[a]
<1> DEFINE s == Header(i)
           dest == PS_DRAM_BASE_OFFSET + s.vaddr
           src == ELF_OS_BASE_OFFSET + s.offset
           l == Loaded(s)
<1> USE BootAssumption
<1>1. /\ TypeOK /\ IsElf /\ mem \in [Addr -> Cell] /\ Addr \subseteq Nat
      /\ \A k \in 0 .. OS_SIZE_BYTES - 1 : mem[ELF_OS_BASE_OFFSET + k] = File(k)
  BY DEF IInv, TypeOK, Extracted, BufferIsFile
<1>2. /\ s.offset \in Nat /\ s.vaddr \in Nat /\ s.filesz \in Nat /\ s.memsz \in Nat
      /\ s.filesz <= s.memsz /\ s.offset + s.filesz <= OS_SIZE_BYTES
      /\ dest + s.memsz <= ELF_OS_BASE_OFFSET /\ dest \in Nat /\ src \in Nat
  BY SMTT(30), <1>1, Promised
<1>3. l = IF s.memsz > s.filesz
            THEN my_memset(my_memcpy(mem, dest, src, s.filesz), dest + s.filesz,
                           s.memsz - s.filesz, Zero)
            ELSE my_memcpy(mem, dest, src, s.filesz)
  BY DEF Loaded
<1> HIDE DEF s, dest, src, l
<1>4. l = [a \in Addr |-> IF a \in dest .. dest + s.memsz - 1
                          THEN IF a - dest < s.filesz THEN mem[src + (a - dest)] ELSE Zero
                          ELSE mem[a]]
  <2> DEFINE c == my_memcpy(mem, dest, src, s.filesz)
  <2>1. ~(src < dest) /\ DOMAIN mem = Addr /\ Addr \subseteq Nat
    BY <1>1, <1>2 DEF src
  <2>2. c = [a \in Addr |-> IF a \in dest .. dest + s.filesz - 1
                            THEN mem[src + (a - dest)] ELSE mem[a]]
    BY <2>1 DEF my_memcpy
  <2> HIDE DEF c
  <2>3. CASE s.memsz > s.filesz
    <3>1. dest + s.filesz + (s.memsz - s.filesz) - 1 = dest + s.memsz - 1
      BY <1>2
    <3>2. l = [a \in Addr |-> IF a \in dest + s.filesz .. dest + s.memsz - 1
                              THEN Zero ELSE c[a]]
      BY <1>3, <2>2, <2>3, <3>1 DEF my_memset, c
    <3>3. ASSUME NEW a \in Addr
          PROVE  l[a] = IF a \in dest .. dest + s.memsz - 1
                        THEN IF a - dest < s.filesz THEN mem[src + (a - dest)] ELSE Zero
                        ELSE mem[a]
      <4>1. l[a] = IF a \in dest + s.filesz .. dest + s.memsz - 1 THEN Zero
                   ELSE IF a \in dest .. dest + s.filesz - 1
                   THEN mem[src + (a - dest)] ELSE mem[a]
        BY <2>2, <3>2
      <4>2. a \in Nat /\ dest \in Nat /\ s.filesz \in Nat /\ s.memsz \in Nat
        BY <1>2, <2>1
      <4>3. QED
        BY <2>3, <4>1, <4>2
    <3>4. QED
      BY <3>2, <3>3
  <2>4. CASE ~(s.memsz > s.filesz)
    <3>1. l = c /\ s.memsz = s.filesz
      BY <1>2, <1>3, <2>4 DEF c
    <3>2. QED
      BY <1>2, <2>1, <2>2, <3>1
  <2>5. QED
    BY <2>3, <2>4
<1>5. ASSUME NEW a \in Addr
      PROVE  /\ l[a] \in Cell
             /\ l[a] = IF a \in dest .. dest + s.memsz - 1
                       THEN IF a - dest < s.filesz THEN File(s.offset + (a - dest)) ELSE Zero
                       ELSE mem[a]
  <2>1. CASE a \in dest .. dest + s.memsz - 1 /\ a - dest < s.filesz
    <3>1. l[a] = mem[src + (a - dest)]
      BY <1>1, <1>4, <2>1
    <3>2. /\ s.offset + (a - dest) \in 0 .. OS_SIZE_BYTES - 1
          /\ src + (a - dest) = ELF_OS_BASE_OFFSET + (s.offset + (a - dest))
      <4>1. a - dest \in Nat /\ a - dest < s.filesz
        BY <1>2, <2>1
      <4>2. s.offset \in Nat /\ s.filesz \in Nat /\ s.offset + s.filesz <= OS_SIZE_BYTES
        BY <1>2
      <4>3. QED
        BY <4>1, <4>2 DEF src
    <3>3. l[a] = File(s.offset + (a - dest))
      BY <1>1, <3>1, <3>2
    <3>4. /\ s.offset + (a - dest) \in 0 .. OS_SIZE_BYTES + SectorSize
          /\ s.offset + (a - dest) < OS_SIZE_BYTES + SectorSize
      BY <3>2
    <3>5. File(s.offset + (a - dest)) \in Cell
      BY <1>1, <3>4, FileOnCard
    <3>6. QED
      BY <2>1, <3>3, <3>5
  <2>2. CASE a \in dest .. dest + s.memsz - 1 /\ ~(a - dest < s.filesz)
    BY <1>1, <1>4, <2>2
  <2>3. CASE a \notin dest .. dest + s.memsz - 1
    BY <1>1, <1>4, <2>3
  <2>4. QED
    BY <2>1, <2>2, <2>3
<1>6. l \in [Addr -> Cell]
  BY <1>4, <1>5
<1>7. QED
  BY <1>5, <1>6 DEF s, dest, l
-----------------------------------------------------------------------------
(* The invariant                                                           *)

LEMMA InitInv == BootInit => IInv
<1> SUFFICES ASSUME BootInit PROVE IInv
  OBVIOUS
<1>1. TypeOK
  BY BootAssumption DEF BootInit, TypeOK
<1>2. InStep /\ BufferIsFile /\ ProgramKept /\ Extracted /\ Checked
  BY DEF BootInit, InStep, BufferIsFile, ProgramKept, Extracted, Checked
<1>3. QED
  BY <1>1, <1>2 DEF IInv

\* The card is not written: the file, its headers and segments stay.
LEMMA FileStays ==
    ASSUME disk' = disk
    PROVE  /\ \A k : File(k)' = File(k)
           /\ IsElf' = IsElf /\ ToLoad' = ToLoad
           /\ \A i : Header(i)' = Header(i)
BY DEF File, IsElf, ToLoad, Header

LEMMA StepProgram == IInv /\ prog_mem_directly => IInv'
<1> SUFFICES ASSUME IInv, prog_mem_directly PROVE IInv'
  OBVIOUS
<1> USE BootAssumption DEF prog_mem_directly, Goes, sdVars, loopVars, regVars
<1>1. ASSUME NEW a \in PS_DRAM_BASE_OFFSET .. PS_DRAM_BASE_OFFSET + Len(Program) - 1
      PROVE  Program[a - PS_DRAM_BASE_OFFSET + 1] \in Cell
  BY a - PS_DRAM_BASE_OFFSET + 1 \in 1 .. Len(Program)
<1>2. mem' \in [Addr -> Cell]
  BY <1>1 DEF IInv, TypeOK
<1>3. TypeOK'
  BY <1>2 DEF IInv, TypeOK
<1>4. ASSUME NEW k \in 1 .. Len(Program)
      PROVE  mem'[PS_DRAM_BASE_OFFSET + k - 1] = Program[k]
  <2> DEFINE a == PS_DRAM_BASE_OFFSET + k - 1
  <2>1. /\ a \in PS_DRAM_BASE_OFFSET .. PS_DRAM_BASE_OFFSET + Len(Program) - 1
        /\ a \in Addr /\ a - PS_DRAM_BASE_OFFSET + 1 = k
    OBVIOUS
  <2> HIDE DEF a
  <2>2. mem'[a] = Program[a - PS_DRAM_BASE_OFFSET + 1]
    BY <2>1
  <2>3. QED
    BY <2>1, <2>2 DEF a
<1>5. QED
  BY <1>3, <1>4 DEF IInv, InStep, BufferIsFile, ProgramKept, Extracted, Checked

LEMMA StepInitialize == IInv /\ InitializeSd => IInv'
<1> SUFFICES ASSUME IInv, InitializeSd PROVE IInv'
  OBVIOUS
<1> USE BootAssumption DEF InitializeSd, Goes, regVars, loopVars
<1>1. TypeOK'
  BY DEF IInv, TypeOK
<1>2. InStep'
  BY DEF IInv, TypeOK, InStep
<1>3. ProgramKept' /\ BufferIsFile' /\ Extracted' /\ Checked'
  BY DEF IInv, ProgramKept, BufferIsFile, Extracted, Checked
<1>4. QED
  BY <1>1, <1>2, <1>3 DEF IInv

LEMMA StepRead == IInv /\ ReadChunk => IInv'
<1> SUFFICES ASSUME IInv, ReadChunk PROVE IInv'
  OBVIOUS
<1> USE BootAssumption
<1>1. /\ pc = "read" /\ pc' = "read" /\ BytesRemaining > 0 /\ disk' = disk
      /\ BytesRemaining \in Nat \ {0} /\ CurrentMemAddr \in Nat
      /\ CurrentSectorOffset \in Nat /\ HCS' = HCS /\ hc' = hc
      /\ mem' = XSdPs_ReadPolled(ReadArg, BlocksToRead, CurrentMemAddr)
      /\ BytesRemaining' = BytesRemaining - BytesToReadInChunk
      /\ CurrentMemAddr' = CurrentMemAddr + BlocksToRead * SectorSize
      /\ CurrentSectorOffset' = CurrentSectorOffset + BlocksToRead
  BY DEF IInv, TypeOK, ReadChunk, sdVars
<1>2. /\ BlocksToRead \in Nat /\ BlocksToRead * SectorSize \in Nat
      /\ BytesToReadInChunk \in 1 .. BytesRemaining
      /\ BlocksToRead * SectorSize >= BytesToReadInChunk
      /\ BytesToReadInChunk < BytesRemaining =>
           BlocksToRead * SectorSize = BytesToReadInChunk
  BY <1>1, Chunk
<1>3. BlocksToRead \in 0 .. BlocksToRead
  BY <1>2
<1>4. /\ CurrentMemAddr + BlocksToRead * SectorSize
           < ELF_OS_BASE_OFFSET + OS_SIZE_BYTES + SectorSize
      /\ mem' \in [Addr -> Cell]
      /\ \A a \in Addr :
           mem'[a] = IF CurrentMemAddr <= a /\ a < CurrentMemAddr + BlocksToRead * SectorSize
                     THEN File(a - ELF_OS_BASE_OFFSET) ELSE mem[a]
  BY <1>1, <1>3, BlocksRead
<1>5. TypeOK'
  BY <1>1, <1>2, <1>4 DEF IInv, TypeOK, ReadChunk, regVars, sdVars
<1> DEFINE done == CurrentMemAddr - ELF_OS_BASE_OFFSET
<1>6. /\ HCS = hc /\ CurrentMemAddr >= ELF_OS_BASE_OFFSET
      /\ CurrentSectorOffset >= SECTOR_OFFSET
      /\ done = (CurrentSectorOffset - SECTOR_OFFSET) * SectorSize
      /\ BytesRemaining + done = OS_SIZE_BYTES
      /\ \A k \in 0 .. OS_SIZE_BYTES - 1 : k < done => mem[ELF_OS_BASE_OFFSET + k] = File(k)
  BY <1>1 DEF IInv, InStep
<1>7. InStep'
  <2>1. HCS' = hc' /\ CurrentMemAddr' >= ELF_OS_BASE_OFFSET /\ CurrentSectorOffset' >= SECTOR_OFFSET
    BY <1>1, <1>2, <1>6
  <2>2. done' = (CurrentSectorOffset' - SECTOR_OFFSET) * SectorSize
    <3>1. done' = done + BlocksToRead * SectorSize
      BY <1>1, <1>2
    <3>2. /\ CurrentSectorOffset' - SECTOR_OFFSET
              = (CurrentSectorOffset - SECTOR_OFFSET) + BlocksToRead
          /\ CurrentSectorOffset - SECTOR_OFFSET \in Nat
      BY <1>1, <1>2, <1>6
    <3>3. QED
      BY <1>2, <1>6, <3>1, <3>2, Times
  <2>3. /\ BytesRemaining' > 0 => BytesRemaining' + done' = OS_SIZE_BYTES
        /\ BytesRemaining' = 0 => done' >= OS_SIZE_BYTES
    BY <1>1, <1>2, <1>6
  <2>4. ASSUME NEW k \in 0 .. OS_SIZE_BYTES - 1, k < done'
        PROVE  mem'[ELF_OS_BASE_OFFSET + k] = File(k)
    <3>1. /\ ELF_OS_BASE_OFFSET + k \in Addr
          /\ (ELF_OS_BASE_OFFSET + k) - ELF_OS_BASE_OFFSET = k
      OBVIOUS
    <3>2. CASE k < done
      BY <1>1, <1>4, <1>6, <3>1, <3>2
    <3>3. CASE ~(k < done)
      BY <1>1, <1>2, <1>4, <2>4, <3>1, <3>3
    <3>4. QED
      BY <3>2, <3>3
  <2>5. \A k : File(k)' = File(k)
    BY <1>1, FileStays
  <2>6. QED
    BY <2>1, <2>2, <2>3, <2>4, <2>5 DEF InStep
<1>8. ProgramKept'
  <2>1. ASSUME NEW k \in 1 .. Len(Program)
        PROVE  mem'[PS_DRAM_BASE_OFFSET + k - 1] = mem[PS_DRAM_BASE_OFFSET + k - 1]
    <3>1. /\ PS_DRAM_BASE_OFFSET + k - 1 \in Addr
          /\ PS_DRAM_BASE_OFFSET + k - 1 < ELF_OS_BASE_OFFSET
      OBVIOUS
    <3>2. ASSUME NEW a \in Addr, a < ELF_OS_BASE_OFFSET PROVE mem'[a] = mem[a]
      <4>1. CurrentMemAddr >= ELF_OS_BASE_OFFSET /\ CurrentMemAddr \in Nat /\ a \in Nat
        BY <1>1, <1>6
      <4>2. ~(CurrentMemAddr <= a)
        BY <3>2, <4>1
      <4>3. QED
        BY <1>4, <4>2
    <3>3. QED
      BY <3>1, <3>2
  <2>2. QED
    BY <1>1, <2>1 DEF IInv, ProgramKept
<1>9. BufferIsFile' /\ Extracted' /\ Checked'
  BY <1>1 DEF IInv, BufferIsFile, Extracted, Checked, ReadChunk, regVars
<1>10. QED
  BY <1>5, <1>7, <1>8, <1>9 DEF IInv

LEMMA StepReadFails == IInv /\ ReadFails => IInv'
<1> SUFFICES ASSUME IInv, ReadFails PROVE IInv'
  OBVIOUS
<1> USE BootAssumption DEF ReadFails, Goes, sdVars, loopVars, regVars
<1>1. pc = "read" /\ pc' = "failed" /\ BytesRemaining > 0 /\ CurrentMemAddr \in Nat
  BY DEF IInv, TypeOK
<1>2. PICK n \in 0 .. BlocksToRead : mem' = XSdPs_ReadPolled(ReadArg, n, CurrentMemAddr)
  OBVIOUS
<1>3. /\ mem' \in [Addr -> Cell]
      /\ \A a \in Addr :
           mem'[a] = IF CurrentMemAddr <= a /\ a < CurrentMemAddr + n * SectorSize
                     THEN File(a - ELF_OS_BASE_OFFSET) ELSE mem[a]
  BY <1>1, <1>2, BlocksRead
<1>4. TypeOK'
  BY <1>3 DEF IInv, TypeOK
<1>5. ProgramKept'
  <2>1. CurrentMemAddr >= ELF_OS_BASE_OFFSET
    BY <1>1 DEF IInv, InStep
  <2>2. ASSUME NEW k \in 1 .. Len(Program)
        PROVE  mem'[PS_DRAM_BASE_OFFSET + k - 1] = mem[PS_DRAM_BASE_OFFSET + k - 1]
    <3>1. /\ PS_DRAM_BASE_OFFSET + k - 1 \in Addr
          /\ PS_DRAM_BASE_OFFSET + k - 1 < ELF_OS_BASE_OFFSET
      OBVIOUS
    <3>2. QED
      BY <1>1, <1>3, <2>1, <3>1
  <2>3. QED
    BY <1>1, <2>2 DEF IInv, ProgramKept
<1>6. InStep' /\ BufferIsFile' /\ Extracted' /\ Checked'
  BY <1>1 DEF IInv, InStep, BufferIsFile, Extracted, Checked
<1>7. QED
  BY <1>4, <1>5, <1>6 DEF IInv

LEMMA StepReadDone == IInv /\ ReadDone => IInv'
<1> SUFFICES ASSUME IInv, ReadDone PROVE IInv'
  OBVIOUS
<1> USE BootAssumption DEF ReadDone, Goes, sdVars, loopVars, regVars
<1>1. TypeOK'
  BY DEF IInv, TypeOK
<1>2. BufferIsFile'
  <2>1. CurrentMemAddr - ELF_OS_BASE_OFFSET >= OS_SIZE_BYTES
    BY DEF IInv, InStep
  <2>2. CurrentMemAddr \in Nat
    BY DEF IInv, TypeOK
  <2>3. \A k : File(k)' = File(k)
    BY FileStays
  <2>4. QED
    BY <2>1, <2>2, <2>3 DEF IInv, InStep, BufferIsFile
<1>3. InStep' /\ ProgramKept' /\ Extracted' /\ Checked'
  BY DEF IInv, InStep, ProgramKept, Extracted, Checked
<1>4. QED
  BY <1>1, <1>2, <1>3 DEF IInv

LEMMA StepCheckMagic == IInv /\ CheckMagic => IInv'
<1> SUFFICES ASSUME IInv, CheckMagic PROVE IInv'
  OBVIOUS
<1> USE BootAssumption DEF CheckMagic, Goes, sdVars, regVars
<1>1. TypeOK'
  BY DEF IInv, TypeOK
<1>2. /\ \A k : File(k)' = File(k)
      /\ IsElf' = IsElf /\ ToLoad' = ToLoad /\ mem' = mem
  BY FileStays
<1>3. BufferIsFile'
  BY <1>2 DEF IInv, BufferIsFile
<1>4. Extracted'
  <2>1. pc' = "segments" => IsElf
    BY HeadersOfFile DEF IsElf
  <2>2. ASSUME pc' = "segments", NEW i \in ToLoad PROVE ~(i < seg')
    BY <2>1, <2>2, Promised DEF IInv, ToLoad
  <2>3. QED
    BY <1>2, <2>1, <2>2 DEF Extracted
<1>5. InStep' /\ ProgramKept' /\ Checked'
  BY DEF IInv, InStep, ProgramKept, Checked
<1>6. QED
  BY <1>1, <1>3, <1>4, <1>5 DEF IInv
\* Headers of the file are the ones the loop looks at.
LEMMA LoopHeader ==
    ASSUME IInv, pc = "segments"
    PROVE  /\ IsElf /\ ehdr = File(0) /\ seg \in Nat
           /\ seg < ehdr.phnum => phdr(seg) = Header(seg) /\ seg \in 0 .. File(0).phnum - 1
<1>1. IsElf /\ seg \in Nat /\ ehdr = File(0)
  BY HeadersOfFile DEF IInv, TypeOK, Extracted
<1>2. File(0).phnum \in Nat
  BY <1>1, Promised DEF IInv
<1>3. seg < ehdr.phnum => seg \in 0 .. File(0).phnum - 1
  BY <1>1, <1>2
<1>4. QED
  BY <1>1, <1>3, HeadersOfFile

LEMMA StepLoadSegment == IInv /\ LoadSegment => IInv'
<1> SUFFICES ASSUME IInv, LoadSegment PROVE IInv'
  OBVIOUS
<1> USE BootAssumption
<1>1. /\ pc = "segments" /\ pc' = "segments" /\ disk' = disk /\ seg' = seg + 1
      /\ TypeOK /\ IsElf /\ seg \in Nat /\ seg \in 0 .. File(0).phnum - 1
      /\ mem \in [Addr -> Cell]
      /\ mem' = IF Header(seg).type = "PT_LOAD" THEN Loaded(Header(seg)) ELSE mem
  BY LoopHeader DEF LoadSegment, sdVars, IInv, TypeOK
<1>2. /\ \A k : File(k)' = File(k)
      /\ IsElf' = IsElf /\ ToLoad' = ToLoad
      /\ \A i : Header(i)' = Header(i)
  BY <1>1, FileStays
<1> DEFINE From(i) == PS_DRAM_BASE_OFFSET + Header(i).vaddr
           Behind(i) == From(i) + Header(i).memsz
<1>3. ASSUME NEW i \in ToLoad
      PROVE  /\ From(i) \in Nat /\ Behind(i) \in Nat /\ Header(i).memsz \in Nat
             /\ From(i) >= PS_DRAM_BASE_OFFSET + Len(Program)
             /\ Behind(i) = From(i) + Header(i).memsz
             /\ Behind(i) <= ELF_OS_BASE_OFFSET
             /\ i # seg /\ seg \in ToLoad => Behind(i) <= From(seg) \/ Behind(seg) <= From(i)
  <2>1. /\ Header(i).vaddr \in Nat /\ Header(i).memsz \in Nat
        /\ Len(Program) <= Header(i).vaddr
        /\ PS_DRAM_BASE_OFFSET + Header(i).vaddr + Header(i).memsz <= ELF_OS_BASE_OFFSET
    BY <1>1, Promised
  <2>2. i # seg /\ seg \in ToLoad =>
          /\ Header(seg).vaddr \in Nat /\ Header(seg).memsz \in Nat
          /\ \/ Header(i).vaddr + Header(i).memsz <= Header(seg).vaddr
             \/ Header(seg).vaddr + Header(seg).memsz <= Header(i).vaddr
    BY <1>1, Promised
  <2>3. ASSUME i # seg, seg \in ToLoad PROVE Behind(i) <= From(seg) \/ Behind(seg) <= From(i)
    BY SMTT(30), <2>1, <2>2, <2>3
  <2>4. QED
    BY <2>1, <2>3
<1> HIDE DEF From, Behind
\* What the step leaves alone
<1>4. /\ mem' \in [Addr -> Cell]
      /\ \A a \in Addr : \/ mem'[a] = mem[a]
                         \/ seg \in ToLoad /\ From(seg) <= a /\ a < Behind(seg)
  <2>1. CASE seg \in ToLoad
    <3>1. /\ Loaded(Header(seg)) \in [Addr -> Cell]
          /\ \A a \in Addr :
               a \in From(seg) .. From(seg) + Header(seg).memsz - 1
                 \/ Loaded(Header(seg))[a] = mem[a]
      BY <1>1, <2>1, SegmentLoaded DEF From
    <3>2. mem' = Loaded(Header(seg))
      BY <1>1, <2>1 DEF ToLoad
    <3>3. QED
      BY <1>3, <2>1, <3>1, <3>2
  <2>2. CASE seg \notin ToLoad
    BY <1>1, <2>2 DEF ToLoad
  <2>3. QED
    BY <2>1, <2>2
<1>5. TypeOK'
  BY <1>1, <1>4 DEF LoadSegment, sdVars, regVars, IInv, TypeOK
<1>6. BufferIsFile'
  <2>1. ASSUME NEW k \in 0 .. OS_SIZE_BYTES - 1
        PROVE  mem'[ELF_OS_BASE_OFFSET + k] = mem[ELF_OS_BASE_OFFSET + k]
    <3>1. ELF_OS_BASE_OFFSET + k \in Addr
      OBVIOUS
    <3>2. seg \in ToLoad => ~(ELF_OS_BASE_OFFSET + k < Behind(seg))
      BY <1>3
    <3>3. QED
      BY <1>4, <3>1, <3>2
  <2>2. QED
    BY <1>1, <1>2, <2>1 DEF IInv, BufferIsFile
<1>7. ProgramKept'
  <2>1. ASSUME NEW k \in 1 .. Len(Program)
        PROVE  mem'[PS_DRAM_BASE_OFFSET + k - 1] = mem[PS_DRAM_BASE_OFFSET + k - 1]
    <3>1. PS_DRAM_BASE_OFFSET + k - 1 \in Addr
      OBVIOUS
    <3>2. seg \in ToLoad => ~(From(seg) <= PS_DRAM_BASE_OFFSET + k - 1)
      BY <1>3
    <3>3. QED
      BY <1>4, <3>1, <3>2
  <2>2. QED
    BY <1>1, <2>1 DEF IInv, ProgramKept
<1>8. ASSUME NEW i \in ToLoad, i < seg
      PROVE  InPlace(Header(i))'
  <2> DEFINE s == Header(i)
  <2>1. /\ \A k \in 0 .. s.memsz - 1 :
             mem[PS_DRAM_BASE_OFFSET + s.vaddr + k] =
               IF k < s.filesz THEN File(s.offset + k) ELSE Zero
        /\ i \in Nat /\ i # seg
    BY <1>1, <1>8 DEF IInv, Extracted, InPlace, ToLoad
  <2>2. ASSUME NEW k \in 0 .. s.memsz - 1
        PROVE  mem'[From(i) + k] = mem[From(i) + k]
    <3>1. From(i) + k \in Addr
      BY <1>3
    <3>2. ASSUME seg \in ToLoad, From(seg) <= From(i) + k, From(i) + k < Behind(seg)
          PROVE  FALSE
      <4>1. /\ From(i) \in Nat /\ From(seg) \in Nat /\ Behind(i) \in Nat /\ Behind(seg) \in Nat
            /\ Behind(i) <= From(seg) \/ Behind(seg) <= From(i)
        BY <1>3, <2>1, <3>2
      <4>2. From(i) + k < Behind(i) /\ k \in Nat
        BY <1>3
      <4>3. QED
        BY <3>2, <4>1, <4>2
    <3>3. QED
      BY <1>4, <3>1, <3>2
  <2>3. QED
    BY <1>2, <2>1, <2>2 DEF InPlace, From
<1>9. ASSUME NEW i \in ToLoad, i = seg
      PROVE  InPlace(Header(i))'
  <2> DEFINE s == Header(i)
  <2>1. mem' = Loaded(s)
    BY <1>1, <1>9 DEF ToLoad
  <2>2. ASSUME NEW k \in 0 .. s.memsz - 1
        PROVE  mem'[From(i) + k] = IF k < s.filesz THEN File(s.offset + k) ELSE Zero
    <3> DEFINE a == From(i) + k
    <3>1. /\ a \in Addr /\ a - From(i) = k
          /\ a \in From(i) .. From(i) + s.memsz - 1
      BY <1>3, <1>9
    <3> HIDE DEF a
    <3>2. mem'[a] = IF a - From(i) < s.filesz
                    THEN File(s.offset + (a - From(i))) ELSE Zero
      BY <1>1, <1>9, <2>1, <3>1, SegmentLoaded DEF From
    <3>3. QED
      BY <3>1, <3>2 DEF a
  <2>3. QED
    BY <1>2, <2>2 DEF InPlace, From
<1>10. Extracted'
  <2>1. ASSUME NEW i \in ToLoad, i < seg' PROVE InPlace(Header(i))'
    <3>1. i < seg \/ i = seg
      BY <1>1, <2>1 DEF ToLoad
    <3>2. QED
      BY <1>8, <1>9, <3>1
  <2>2. QED
    BY <1>1, <1>2, <2>1 DEF Extracted
<1>11. InStep' /\ Checked'
  BY <1>1 DEF IInv, InStep, Checked, LoadSegment, regVars
<1>12. QED
  BY <1>5, <1>6, <1>7, <1>10, <1>11 DEF IInv

LEMMA StepLoadDone == IInv /\ LoadDone => IInv'
<1> SUFFICES ASSUME IInv, LoadDone PROVE IInv'
  OBVIOUS
<1> USE DEF LoadDone, Goes, sdVars, loopVars, regVars
<1>1. TypeOK'
  BY DEF IInv, TypeOK
<1>2. /\ \A k : File(k)' = File(k)
      /\ IsElf' = IsElf /\ ToLoad' = ToLoad /\ mem' = mem
      /\ \A i : Header(i)' = Header(i)
  BY FileStays
<1>3. Extracted'
  <2>1. /\ IsElf /\ seg \in Nat /\ File(0).phnum \in Nat /\ seg >= File(0).phnum
        /\ \A i \in ToLoad : i < seg => InPlace(Header(i))
    BY LoopHeader, Promised DEF IInv, TypeOK, Extracted
  <2>2. ASSUME NEW i \in ToLoad PROVE InPlace(Header(i))'
    <3>1. i < seg
      BY <2>1 DEF ToLoad
    <3>2. QED
      BY <1>2, <2>1, <3>1 DEF InPlace
  <2>3. QED
    BY <1>2, <2>1, <2>2 DEF Extracted
<1>4. BufferIsFile' /\ ProgramKept'
  BY <1>2 DEF IInv, BufferIsFile, ProgramKept
<1>5. InStep' /\ Checked'
  BY DEF IInv, InStep, Checked
<1>6. QED
  BY <1>1, <1>3, <1>4, <1>5 DEF IInv

LEMMA StepRegisters == IInv /\ (Configure \/ Release) => IInv'
<1> SUFFICES ASSUME IInv, Configure \/ Release PROVE IInv'
  OBVIOUS
<1>1. /\ disk' = disk /\ mem' = mem /\ seg' = seg
      /\ pc \in {"configure", "release"} /\ pc' \in {"release", "wfi", "failed"}
  BY DEF Configure, Release, Goes, sdVars, loopVars
<1>2. TypeOK'
  BY BootAssumption DEF Configure, Release, Goes, sdVars, loopVars, IInv, TypeOK
<1>3. /\ \A k : File(k)' = File(k)
      /\ IsElf' = IsElf /\ ToLoad' = ToLoad
      /\ \A i : Header(i)' = Header(i)
  BY <1>1, FileStays
<1>4. Extracted'
  <2>1. \A i \in ToLoad : InPlace(Header(i))' = InPlace(Header(i))
    BY <1>1, <1>3 DEF InPlace
  <2>2. QED
    BY <1>1, <1>3, <2>1 DEF IInv, Extracted
<1>5. BufferIsFile' /\ ProgramKept' /\ InStep'
  BY <1>1, <1>3 DEF IInv, BufferIsFile, ProgramKept, InStep
<1>6. Checked'
  BY DEF Configure, Release, Goes, IInv, Checked
<1>7. QED
  BY <1>2, <1>4, <1>5, <1>6 DEF IInv

LEMMA StepInv == IInv /\ [main]_bootVars => IInv'
<1> SUFFICES ASSUME IInv, [main]_bootVars PROVE IInv'
  OBVIOUS
<1>1. CASE main
  BY <1>1, StepProgram, StepInitialize, StepRead, StepReadFails, StepReadDone,
     StepCheckMagic, StepLoadSegment, StepLoadDone, StepRegisters
     DEF main, read_elf_from_sd, load_and_run_elf
<1>2. CASE UNCHANGED bootVars
  BY <1>2 DEF bootVars, sdVars, loopVars, regVars, IInv, TypeOK, InStep, BufferIsFile,
     ProgramKept, Extracted, Checked, File, IsElf, ToLoad, Header, InPlace
<1>3. QED
  BY <1>1, <1>2
\* A step of the whole system is one of the boot program, or leaves it alone.
LEMMA BootOfSystem == [Next]_vars => [main]_bootVars
BY DEF Next, vars

\* No step writes the card.
LEMMA DiskStays == [main]_bootVars => disk' = disk
BY DEF main, read_elf_from_sd, load_and_run_elf, prog_mem_directly, InitializeSd, ReadChunk,
   ReadFails, ReadDone, CheckMagic, LoadSegment, LoadDone, Configure, Release, bootVars, sdVars

\* The end of a chunk, whole blocks of the file counted from the buffer's start
LEMMA ReadWithin ==
    ASSUME IInv, pc = "read", BytesRemaining > 0, NEW n \in 0 .. BlocksToRead
    PROVE  CurrentMemAddr + n * SectorSize <= ELF_OS_BASE_OFFSET + Rounded(OS_SIZE_BYTES)
<1> USE BootAssumption
<1> DEFINE q == CurrentSectorOffset - SECTOR_OFFSET
           b == (OS_SIZE_BYTES + SectorSize - 1) \div SectorSize
<1>1. /\ CurrentMemAddr + n * SectorSize < ELF_OS_BASE_OFFSET + OS_SIZE_BYTES + SectorSize
      /\ BytesRemaining \in Nat \ {0} /\ CurrentMemAddr \in Nat /\ q \in Nat
      /\ CurrentMemAddr = ELF_OS_BASE_OFFSET + q * SectorSize /\ q * SectorSize \in Nat
  BY BlocksRead, Times DEF IInv, TypeOK, InStep
<1>2. n \in Nat /\ n * SectorSize \in Nat
  BY <1>1, Chunk, Times
<1>3. q * SectorSize + n * SectorSize = (q + n) * SectorSize
  BY <1>1, <1>2, Times
<1>4. b \in Nat /\ b * SectorSize \in Nat /\ b * SectorSize >= OS_SIZE_BYTES
  BY Ceiling
<1> HIDE DEF q, b
<1>5. (q + n) * SectorSize < b * SectorSize + SectorSize
  BY <1>1, <1>2, <1>3, <1>4
<1>6. q + n <= b
  <2>1. b * SectorSize + SectorSize = (b + 1) * SectorSize
    BY <1>4
  <2>2. ASSUME q + n > b PROVE FALSE
    <3>1. q + n >= b + 1 /\ q + n \in Nat /\ b + 1 \in Nat
      BY <1>1, <1>2, <1>4, <2>2
    <3>2. (b + 1) * SectorSize <= (q + n) * SectorSize
      BY <3>1, Times
    <3>3. QED
      BY <1>4, <1>5, <2>1, <3>1, <3>2
  <2>3. QED
    BY <1>1, <1>2, <1>4, <2>2
<1>7. (q + n) * SectorSize <= b * SectorSize
  BY <1>1, <1>2, <1>4, <1>6, Times
<1>8. QED
  BY <1>1, <1>2, <1>3, <1>4, <1>7 DEF Rounded, b

-----------------------------------------------------------------------------
(* Theorems                                                                *)

\* In every reachable state of the system the read loop is in step with the
\* card, the buffer and the welcome program are kept while segments are
\* extracted, and what has been extracted stays (bootloader.c:96, 226, 281).
THEOREM BootInvariant == Spec => []IInv
<1>1. Init => IInv
  BY InitInv DEF Init
<1>2. IInv /\ [Next]_vars => IInv'
  BY StepInv, BootOfSystem
<1>3. QED
  BY <1>1, <1>2, PTL DEF Spec

\* When the core is released, its window is open, and the welcome program and
\* every loadable segment of the file on the card are where the core finds
\* them, for every well-formed file (main, bootloader.c:289).
THEOREM BootLoadsImage == Spec => []ImageLoaded
<1>1. IInv => ImageLoaded
  <2> SUFFICES ASSUME IInv, CtrReg = 1
               PROVE  /\ MemReg = PS_DRAM_BASE_OFFSET /\ VerReg = CUR_VER /\ IsElf
                      /\ \A k \in 1 .. Len(Program) : Core(k - 1) = Program[k]
                      /\ \A i \in ToLoad : LET s == Header(i) IN
                           \A k \in 0 .. s.memsz - 1 :
                             Core(s.vaddr + k) =
                               IF k < s.filesz THEN File(s.offset + k) ELSE Zero
    BY DEF ImageLoaded
  <2>1. pc = "wfi" /\ MemReg = PS_DRAM_BASE_OFFSET /\ VerReg = CUR_VER /\ IsElf /\ TypeOK
    BY DEF IInv, Checked, Extracted
  <2>2. ASSUME NEW k \in 1 .. Len(Program) PROVE Core(k - 1) = Program[k]
    <3>1. PS_DRAM_BASE_OFFSET + (k - 1) = PS_DRAM_BASE_OFFSET + k - 1
      BY BootAssumption
    <3>2. QED
      BY <2>1, <3>1 DEF Core, IInv, ProgramKept
  <2>3. ASSUME NEW i \in ToLoad, NEW k \in 0 .. Header(i).memsz - 1
        PROVE  Core(Header(i).vaddr + k) =
                 IF k < Header(i).filesz THEN File(Header(i).offset + k) ELSE Zero
    <3>1. InPlace(Header(i)) /\ Header(i).vaddr \in Nat
      BY <2>1, Promised DEF IInv, Extracted
    <3>2. PS_DRAM_BASE_OFFSET + (Header(i).vaddr + k) = PS_DRAM_BASE_OFFSET + Header(i).vaddr + k
      BY <3>1, BootAssumption
    <3>3. QED
      BY <2>1, <3>1, <3>2 DEF InPlace, Core
  <2>4. QED
    BY <2>1, <2>2, <2>3
<1>2. QED
  BY <1>1, BootInvariant, PTL

\* Nothing is written but the welcome program, the buffer up to the end of the
\* block in which the file ends, and the segments of the file, whether or not
\* reading succeeds (bootloader.c:77-92, 255).
THEOREM BootWritesConfined == Spec => []WritesConfined
<1> USE BootAssumption
<1> DEFINE Mine(a) == \/ a - PS_DRAM_BASE_OFFSET \in 0 .. Len(Program) - 1
                      \/ a - ELF_OS_BASE_OFFSET \in 0 .. Rounded(OS_SIZE_BYTES) - 1
                      \/ /\ IsElf
                         /\ \E i \in ToLoad : LET s == Header(i) IN
                              a - PS_DRAM_BASE_OFFSET \in s.vaddr .. s.vaddr + s.memsz - 1
<1>1. Init => WritesConfined
  BY DEF Init, BootInit, WritesConfined
<1>2. ASSUME IInv, [Next]_vars, NEW a \in Addr
      PROVE  mem'[a] = mem[a] \/ Mine(a)
  <2>1. [main]_bootVars /\ mem \in [Addr -> Cell] /\ TypeOK /\ a \in Nat
    BY <1>2, BootOfSystem DEF IInv, TypeOK
  <2>2. CASE prog_mem_directly
    <3>1. CASE a \in PS_DRAM_BASE_OFFSET .. PS_DRAM_BASE_OFFSET + Len(Program) - 1
      BY <3>1
    <3>2. CASE a \notin PS_DRAM_BASE_OFFSET .. PS_DRAM_BASE_OFFSET + Len(Program) - 1
      BY <2>2, <3>2 DEF prog_mem_directly
    <3>3. QED
      BY <3>1, <3>2
  <2>3. CASE ReadChunk \/ ReadFails
    <3>1. /\ pc = "read" /\ BytesRemaining > 0 /\ BytesRemaining \in Nat \ {0}
          /\ CurrentMemAddr \in Nat /\ CurrentMemAddr >= ELF_OS_BASE_OFFSET
      BY <1>2, <2>1, <2>3 DEF ReadChunk, ReadFails, IInv, InStep, TypeOK
    <3>2. BlocksToRead \in 0 .. BlocksToRead
      BY <3>1, Chunk
    <3>3. PICK n \in 0 .. BlocksToRead : mem' = XSdPs_ReadPolled(ReadArg, n, CurrentMemAddr)
      BY <2>3, <3>2 DEF ReadChunk, ReadFails
    <3>4. mem'[a] = IF CurrentMemAddr <= a /\ a < CurrentMemAddr + n * SectorSize
                    THEN File(a - ELF_OS_BASE_OFFSET) ELSE mem[a]
      BY <1>2, <3>1, <3>3, BlocksRead
    <3>5. CurrentMemAddr + n * SectorSize <= ELF_OS_BASE_OFFSET + Rounded(OS_SIZE_BYTES)
      BY <1>2, <3>1, ReadWithin
    <3>6. n * SectorSize \in Nat
      BY <3>2, Times
    <3>7. Rounded(OS_SIZE_BYTES) \in Nat
      BY Ceiling DEF Rounded
    <3>8. CASE CurrentMemAddr <= a /\ a < CurrentMemAddr + n * SectorSize
      BY <2>1, <3>1, <3>5, <3>6, <3>7, <3>8
    <3>9. QED
      BY <3>4, <3>8
  <2>4. CASE LoadSegment
    <3>1. /\ IsElf /\ seg \in 0 .. File(0).phnum - 1 /\ pc = "segments"
          /\ mem' = IF Header(seg).type = "PT_LOAD" THEN Loaded(Header(seg)) ELSE mem
      BY <1>2, <2>4, LoopHeader DEF LoadSegment
    <3>2. CASE seg \in ToLoad
      <4> DEFINE s == Header(seg)
                 dest == PS_DRAM_BASE_OFFSET + s.vaddr
      <4>1. a \in dest .. dest + s.memsz - 1 \/ mem'[a] = mem[a]
        BY <1>2, <3>1, <3>2, SegmentLoaded DEF ToLoad
      <4>2. s.vaddr \in Nat /\ s.memsz \in Nat
        BY <2>1, <3>1, <3>2, Promised
      <4>3. a \in dest .. dest + s.memsz - 1 =>
              a - PS_DRAM_BASE_OFFSET \in s.vaddr .. s.vaddr + s.memsz - 1
        BY <2>1, <4>2
      <4>4. QED
        BY <3>1, <3>2, <4>1, <4>3
    <3>3. QED
      BY <3>1, <3>2 DEF ToLoad
  <2>5. CASE mem' = mem
    BY <2>5
  <2>6. QED
    BY <2>1, <2>2, <2>3, <2>4, <2>5
       DEF main, read_elf_from_sd, load_and_run_elf, InitializeSd, ReadDone, CheckMagic,
           LoadDone, Configure, Release, bootVars
<1>3. ASSUME [Next]_vars, NEW a \in Addr PROVE Mine(a)' = Mine(a)
  <2>1. disk' = disk
    BY <1>3, BootOfSystem, DiskStays
  <2>2. QED
    BY <2>1, FileStays
<1>4. IInv /\ WritesConfined /\ [Next]_vars => WritesConfined'
  BY <1>2, <1>3 DEF WritesConfined
<1>5. QED
  BY <1>1, <1>4, BootInvariant, PTL DEF Spec
=============================================================================
