---------------------------- MODULE WrapperProofs ----------------------------
(***************************************************************************)
(* Proofs about the wrapper, for every address width, window, word and     *)
(* response code: the window by itself, and the release of the core by the *)
(* boot program with registers, window, bridge and memory of the PS        *)
(* together.                                                               *)
(***************************************************************************)
EXTENDS WrapperSystem, TLAPS

\* With an offset within DRAM the comparison does not wrap.
LEMMA MovedExact ==
    ASSUME NEW base \in 0..DRAM_SIZE, base > 0, NEW a \in Address
    PROVE  Moved(base, a) <=> a < DRAM_SIZE - base
<1>1. DRAM_SIZE - base \in 0..(AddrSize - 1)
  BY SizeAssumption DEF Address
<1>2. (DRAM_SIZE - base) % AddrSize = DRAM_SIZE - base
  BY <1>1, SizeAssumption
<1>3. QED
  BY <1>1, <1>2, SizeAssumption DEF Moved, Address

\* A moved address stays within DRAM, and the sum does not overflow.
LEMMA MovedSum ==
    ASSUME NEW base \in 0..DRAM_SIZE, base > 0, NEW a \in Address, Moved(base, a)
    PROVE  Translate(base, a) = a + base /\ a + base \in 0..(DRAM_SIZE - 1)
<1>1. a < DRAM_SIZE - base
  BY MovedExact
<1>2. a + base \in 0..(AddrSize - 1)
  BY <1>1, SizeAssumption DEF Address
<1>3. (a + base) % AddrSize = a + base
  BY <1>2, SizeAssumption
<1>4. QED
  BY <1>1, <1>3, SizeAssumption DEF Translate, Address

\* The PS keeps what is below the window to itself: with an offset of at most
\* half of DRAM no address, moved or not, reaches below the offset
\* (microwatt_wrapper.v:97-101; the boot program sets a quarter).
THEOREM WindowProtects ==
    ASSUME NEW base \in Address, base > 0, 2 * base <= DRAM_SIZE, NEW a \in Address
    PROVE  Translate(base, a) \in Address /\ Translate(base, a) >= base
<1>1. base \in 0..DRAM_SIZE
  BY SizeAssumption DEF Address
<1>2. CASE Moved(base, a)
  BY <1>1, <1>2, MovedSum, SizeAssumption DEF Address
<1>3. CASE ~Moved(base, a)
  <2>1. Translate(base, a) = a
    BY <1>3 DEF Translate
  <2>2. a >= DRAM_SIZE - base
    BY <1>1, <1>3, MovedExact, SizeAssumption DEF Address
  <2>3. QED
    BY <2>1, <2>2, SizeAssumption DEF Address
<1>4. QED
  BY <1>2, <1>3

\* Two addresses meet in the PS only if one is moved and the other is one of
\* the unmoved addresses at the top of DRAM (microwatt_wrapper.v:100-101).
THEOREM WindowInjective ==
    ASSUME NEW base \in 0..DRAM_SIZE, base > 0, NEW a \in Address, NEW b \in Address,
           a \notin (DRAM_SIZE - base)..(DRAM_SIZE - 1),
           b \notin (DRAM_SIZE - base)..(DRAM_SIZE - 1),
           Translate(base, a) = Translate(base, b)
    PROVE  a = b
<1>1. ASSUME NEW x \in Address, x \notin (DRAM_SIZE - base)..(DRAM_SIZE - 1)
      PROVE  IF x < DRAM_SIZE THEN Translate(base, x) = x + base /\ x + base < DRAM_SIZE
             ELSE Translate(base, x) = x
  <2>1. CASE x < DRAM_SIZE
    <3>1. x < DRAM_SIZE - base
      BY <1>1, <2>1, SizeAssumption DEF Address
    <3>2. Moved(base, x)
      BY <3>1, MovedExact
    <3>3. QED
      BY <2>1, <3>2, MovedSum, SizeAssumption DEF Address
  <2>2. CASE ~(x < DRAM_SIZE)
    <3>1. ~Moved(base, x)
      BY <2>2, MovedExact, SizeAssumption DEF Address
    <3>2. QED
      BY <2>2, <3>1 DEF Translate
  <2>3. QED
    BY <2>1, <2>2
<1>2. CASE a < DRAM_SIZE /\ b < DRAM_SIZE
  BY <1>1, <1>2, SizeAssumption DEF Address
<1>3. CASE ~(a < DRAM_SIZE) /\ ~(b < DRAM_SIZE)
  BY <1>1, <1>3
<1>4. CASE a < DRAM_SIZE /\ ~(b < DRAM_SIZE)
  BY <1>1, <1>4, SizeAssumption DEF Address
<1>5. CASE ~(a < DRAM_SIZE) /\ b < DRAM_SIZE
  BY <1>1, <1>5, SizeAssumption DEF Address
<1>6. QED
  BY <1>2, <1>3, <1>4, <1>5

------------------------------------------------------------------------------
LEMMA Addresses ==
    /\ 0 \in Adr /\ 1 \in Adr /\ PsBase \in Adr /\ CurVersion \in Adr
    /\ PsBase \in Address /\ PsBase > 0 /\ 2 * PsBase <= DRAM_SIZE
    /\ PsBase # 0
BY WrapperAssumption, PsBaseAssumption, SizeAssumption DEF Address

LEMMA Registered ==
    /\ RegLane = {0} /\ "CTR_REG" \in Reg /\ "MEM_REG" \in Reg /\ "VER_REG" \in Reg
    /\ RegWord = [{0} -> Adr]
BY WrapperAssumption DEF RegWord

LEMMA ZeroTypes == ZeroWord \in Word /\ ResetReq \in Request
BY ZeroAssumption DEF ZeroWord, Word, ResetReq, Request

\* The reset bit
LEMMA Released ==
    ASSUME NEW offset, NEW ctr \in {0, 1}, Registers(ctr, offset)
    PROVE  mw_aresetn <=> ctr = 1
<1>1. CASE ctr = 0
  BY <1>1 DEF mw_aresetn, Registers
<1>2. CASE ctr = 1
  BY <1>2 DEF mw_aresetn, Registers
<1>3. QED
  BY <1>1, <1>2

LEMMA InitInv == Init => IInv
<1> SUFFICES ASSUME Init PROVE IInv
  OBVIOUS
<1> USE ZeroAssumption, RespAssumption, ZeroTypes, Addresses, Registered
    DEF Init, BridgeInit, WbRegsReset, AxiRegsReset, MemInit, MasterInit, SlaveInit, PsInit, PsIdle
<1>1. RegReset \in [Reg -> RegWord] /\ ZeroReg \in Reg
  BY RegAssumption
<1>2. TypeOK
  <2>1. BridgeTypeOK
    BY DEF BridgeTypeOK
  <2>2. MemTypeOK
    BY DEF MemTypeOK
  <2>3. SlaveTypeOK
    BY <1>1 DEF SlaveTypeOK, WData
  <2>4. wbm \in WbMaster /\ owed \in Int
    BY DEF WbMaster
  <2>5. QED
    BY <2>1, <2>2, <2>3, <2>4 DEF TypeOK
<1>3. Registers(0, 0)
  BY WrapperAssumption DEF Registers
<1>4. InSequence
  BY <1>3 DEF InSequence, NoWrite, NoRead, WriteIdle, ReadIdle
<1>5. ResetQuiet /\ RequestsOwn /\ PsMemoryKept
  BY WindowAssumption DEF ResetQuiet, RequestsOwn, PsMemoryKept, ResetReq
<1>6. Handover /\ WriteInFlight(PsAdr) /\ ReadInFlight(PsAdr)
  BY DEF Handover, WriteInFlight, ReadInFlight, WriteQuiet, ReadQuiet
<1>7. QED
  BY <1>2, <1>4, <1>5, <1>6 DEF IInv

------------------------------------------------------------------------------
\* What the registers hold after a write
LEMMA Written ==
    ASSUME TypeOK, NEW reg \in {"CTR_REG", "MEM_REG"}, NEW val, NEW ctr, NEW offset,
           Registers(ctr, offset),
           mm_dev' = WriteReg(mm_dev, reg,
                       [data |-> [l \in RegLane |-> val], strb |-> RegLane])
    PROVE  Registers(IF reg = "CTR_REG" THEN val ELSE ctr,
                     IF reg = "MEM_REG" THEN val ELSE offset)'
<1>1. mm_dev \in [Reg -> RegWord]
  BY DEF TypeOK, SlaveTypeOK
<1>2. mm_dev' = [mm_dev EXCEPT ![reg] = [l \in {0} |-> val]]
  BY <1>1, Registered DEF WriteReg
<1>3. QED
  BY <1>1, <1>2, Registered DEF Registers

\* An edge of the slave with nothing offered to one of its halves
LEMMA IdleWrite ==
    ASSUME NoWrite, NEW a, NEW w, NEW bready,
           SlaveWrite(ps.bus.aw, a, ps.bus.w, w, bready)
    PROVE  WriteIdle' /\ mm_dev' = mm_dev
BY DEF NoWrite, WriteIdle, SlaveWrite, TakesAw, TakesW, Performs

LEMMA IdleRead ==
    ASSUME NoRead, NEW a, NEW rready, SlaveRead(ps.bus.ar, a, rready)
    PROVE  ReadIdle'
BY DEF NoRead, ReadIdle, SlaveRead, TakesAr, Samples

\* What PsWait makes of the access under way
LEMMA Waits ==
    ASSUME TypeOK, PsWait
    PROVE  /\ ps'.pc = ps.pc /\ ps'.reg = ps.reg /\ ps'.val = ps.val
           /\ ps'.bus.aw = (ps.bus.aw /\ ~s_axi_awready)
           /\ ps'.bus.w = (ps.bus.w /\ ~s_axi_wready)
           /\ ps'.bus.ar = (ps.bus.ar /\ ~s_axi_arready)
BY DEF TypeOK, PsWait

\* An edge of a write that has to make ctr1 and offset1 of the registers
LEMMA WritingStep ==
    ASSUME TypeOK, NEW reg \in {"CTR_REG", "MEM_REG"}, NEW val,
           NEW ctr0, NEW offset0, NEW ctr1, NEW offset1,
           ctr1 = IF reg = "CTR_REG" THEN val ELSE ctr0,
           offset1 = IF reg = "MEM_REG" THEN val ELSE offset0,
           Writing(reg, val, ctr0, offset0, ctr1, offset1),
           NEW bready \in BOOLEAN, NEW rready \in BOOLEAN,
           SlaveWrite(ps.bus.aw, ps.reg, ps.bus.w,
                      [data |-> [l \in RegLane |-> ps.val], strb |-> RegLane], bready),
           SlaveRead(ps.bus.ar, ps.reg, rready)
    PROVE  /\ s_axi_bvalid /\ bready =>
                WriteIdle' /\ ReadIdle' /\ Registers(ctr1, offset1)'
           /\ ~(s_axi_bvalid /\ bready) /\ PsWait =>
                Writing(reg, val, ctr0, offset0, ctr1, offset1)'
<1>1. NoRead /\ ps.reg = reg /\ ps.val = val
  BY DEF Writing
<1>2. ReadIdle'
  BY <1>1, IdleRead
<1>3. PsWait => NoRead' /\ ps'.reg = reg /\ ps'.val = val
  BY <1>1, <1>2, Waits DEF NoRead
<1> USE DEF SlaveWrite, TakesAw, TakesW, Performs
<1>4. CASE ps.bus.aw /\ ps.bus.w /\ WriteIdle /\ Registers(ctr0, offset0)
  <2>1. mm_dev' = mm_dev
    BY <1>4 DEF WriteIdle
  <2>2. Registers(ctr0, offset0)'
    BY <1>4, <2>1 DEF Registers
  <2>3. WriteLatched' /\ awaddr_latched' = reg
        /\ w_latched' = [data |-> [l \in RegLane |-> val], strb |-> RegLane]
    BY <1>1, <1>4 DEF WriteIdle, WriteLatched
  <2>4. PsWait => ps'.bus.aw /\ ps'.bus.w
    BY <1>4, Waits DEF WriteIdle
  <2>5. ~s_axi_bvalid
    BY <1>4 DEF WriteIdle
  <2>6. QED
    BY <1>3, <2>2, <2>3, <2>4, <2>5 DEF Writing
<1>5. CASE /\ ps.bus.aw /\ ps.bus.w /\ WriteLatched /\ Registers(ctr0, offset0)
           /\ awaddr_latched = reg
           /\ w_latched = [data |-> [l \in RegLane |-> val], strb |-> RegLane]
  <2>1. mm_dev' = WriteReg(mm_dev, reg, [data |-> [l \in RegLane |-> val], strb |-> RegLane])
    BY <1>5 DEF WriteLatched
  <2>2. Registers(ctr1, offset1)'
    BY <1>5, <2>1, Written
  <2>3. WriteDone' /\ ~s_axi_bvalid
    BY <1>5 DEF WriteLatched, WriteDone
  <2>4. PsWait => ~ps'.bus.aw /\ ~ps'.bus.w
    BY <1>5, Waits DEF WriteLatched
  <2>5. QED
    BY <1>3, <2>2, <2>3, <2>4 DEF Writing
<1>6. CASE ~ps.bus.aw /\ ~ps.bus.w /\ WriteDone /\ Registers(ctr1, offset1)
  <2>1. mm_dev' = mm_dev
    BY <1>6 DEF WriteDone
  <2>2. Registers(ctr1, offset1)'
    BY <1>6, <2>1 DEF Registers
  <2>3. IF bready THEN WriteIdle' ELSE WriteDone'
    BY <1>6 DEF WriteDone, WriteIdle
  <2>4. PsWait => ~ps'.bus.aw /\ ~ps'.bus.w
    BY <1>6, Waits
  <2>5. s_axi_bvalid
    BY <1>6 DEF WriteDone
  <2>6. QED
    BY <1>2, <1>3, <2>2, <2>3, <2>4, <2>5 DEF Writing
<1>7. QED
  BY <1>4, <1>5, <1>6 DEF Writing

\* An edge of a read: what is taken is what the register holds
LEMMA ReadingStep ==
    ASSUME TypeOK, NEW reg \in Reg, NEW ctr, NEW offset, Reading(reg, ctr, offset),
           NEW bready \in BOOLEAN, NEW rready \in BOOLEAN,
           SlaveWrite(ps.bus.aw, ps.reg, ps.bus.w,
                      [data |-> [l \in RegLane |-> ps.val], strb |-> RegLane], bready),
           SlaveRead(ps.bus.ar, ps.reg, rready)
    PROVE  /\ s_axi_rvalid => s_axi_rdata[0] = mm_dev[reg][0]
           /\ Registers(ctr, offset)' /\ WriteIdle'
           /\ s_axi_rvalid /\ rready => ReadIdle'
           /\ ~(s_axi_rvalid /\ rready) /\ PsWait => Reading(reg, ctr, offset)'
<1>1. NoWrite /\ ps.reg = reg /\ Registers(ctr, offset)
  BY DEF Reading
<1>2. WriteIdle' /\ mm_dev' = mm_dev
  BY <1>1, IdleWrite
<1>3. Registers(ctr, offset)'
  BY <1>1, <1>2 DEF Registers
<1>4. PsWait => NoWrite' /\ ps'.reg = reg
  BY <1>1, <1>2, Waits DEF NoWrite
<1> USE DEF SlaveRead, TakesAr, Samples
<1>5. CASE ps.bus.ar /\ ReadIdle
  <2>1. ~s_axi_rvalid /\ s_axi_arready' /\ ar_en' /\ ~s_axi_rvalid' /\ araddr_latched' = reg
    BY <1>1, <1>5 DEF ReadIdle
  <2>2. PsWait => ps'.bus.ar
    BY <1>5, Waits DEF ReadIdle
  <2>3. QED
    BY <1>2, <1>3, <1>4, <2>1, <2>2 DEF Reading
<1>6. CASE ps.bus.ar /\ s_axi_arready /\ ar_en /\ ~s_axi_rvalid /\ araddr_latched = reg
  <2>1. ~s_axi_arready' /\ ar_en' /\ s_axi_rvalid' /\ s_axi_rdata' = mm_dev[reg]
    BY <1>6
  <2>2. PsWait => ~ps'.bus.ar
    BY <1>6, Waits
  <2>3. QED
    BY <1>2, <1>3, <1>4, <1>6, <2>1, <2>2 DEF Reading
<1>7. CASE /\ ~ps.bus.ar /\ ~s_axi_arready /\ ar_en /\ s_axi_rvalid
           /\ s_axi_rdata[0] = mm_dev[reg][0]
  <2>1. CASE rready
    BY <1>2, <1>3, <1>7, <2>1 DEF ReadIdle
  <2>2. CASE ~rready
    <3>1. ~s_axi_arready' /\ ar_en' /\ s_axi_rvalid' /\ s_axi_rdata' = s_axi_rdata
      BY <1>7, <2>2
    <3>2. PsWait => ~ps'.bus.ar
      BY <1>7, Waits
    <3>3. QED
      BY <1>2, <1>3, <1>4, <1>7, <2>2, <3>1, <3>2 DEF Reading
  <2>3. QED
    BY <2>1, <2>2
<1>8. QED
  BY <1>5, <1>6, <1>7 DEF Reading

------------------------------------------------------------------------------
\* The program starts an access
LEMMA Starts ==
    ASSUME TypeOK, WriteIdle', ReadIdle', NEW pc, NEW reg, NEW val, NEW ctr, NEW offset,
           Registers(ctr, offset)'
    PROVE  /\ Out32(pc, reg, val) => \A c, o : Writing(reg, val, ctr, offset, c, o)'
           /\ In32(pc, reg) => Reading(reg, ctr, offset)'
           /\ Out32(pc, reg, val) \/ In32(pc, reg) => ps'.pc = pc
<1>1. ASSUME Out32(pc, reg, val) PROVE \A c, o : Writing(reg, val, ctr, offset, c, o)'
  BY <1>1 DEF Out32, Writing, NoRead
<1>2. ASSUME In32(pc, reg) PROVE Reading(reg, ctr, offset)'
  BY <1>2 DEF In32, Reading, NoWrite
<1>3. QED
  BY <1>1, <1>2 DEF Out32, In32

\* The program goes on in its sequence, and the reset bit stays set
LEMMA StepSequence ==
    ASSUME TypeOK, InSequence, NEW bready \in BOOLEAN, NEW rready \in BOOLEAN,
           SlaveWrite(ps.bus.aw, ps.reg, ps.bus.w,
                      [data |-> [l \in RegLane |-> ps.val], strb |-> RegLane], bready),
           SlaveRead(ps.bus.ar, ps.reg, rready),
           BootStep(bready, rready)
    PROVE  InSequence' /\ (mw_aresetn => mw_aresetn')
<1>1. CASE ps.pc = "setMem"  /\ NoWrite /\ NoRead /\ Registers(0, 0)
  <2>1. WriteIdle' /\ ReadIdle' /\ mm_dev' = mm_dev
    BY <1>1, IdleWrite, IdleRead
  <2>2. Registers(0, 0)'
    BY <1>1, <2>1 DEF Registers
  <2>3. Out32("memSet", "MEM_REG", PsBase)
    BY <1>1 DEF BootStep
  <2>4. ps'.pc = "memSet" /\ Writing("MEM_REG", PsBase, 0, 0, 0, PsBase)'
    BY <2>1, <2>2, <2>3, Starts
  <2>5. ~mw_aresetn
    BY <1>1, Released
  <2>6. QED
    BY <2>4, <2>5 DEF InSequence
<1>2. CASE ps.pc = "memSet"  /\ Writing("MEM_REG", PsBase, 0, 0, 0, PsBase)
  <2>1. /\ s_axi_bvalid /\ bready => WriteIdle' /\ ReadIdle' /\ Registers(0, PsBase)'
        /\ ~(s_axi_bvalid /\ bready) /\ PsWait => Writing("MEM_REG", PsBase, 0, 0, 0, PsBase)'
    BY <1>2, WritingStep
  <2>2. ASSUME s_axi_bvalid /\ bready PROVE InSequence'
    <3>1. In32("memGet", "MEM_REG")
      BY <1>2, <2>2 DEF BootStep
    <3>2. ps'.pc = "memGet" /\ Reading("MEM_REG", 0, PsBase)'
      BY <2>1, <2>2, <3>1, Starts
    <3>3. QED
      BY <3>2 DEF InSequence
  <2>3. ASSUME ~(s_axi_bvalid /\ bready) PROVE InSequence'
    <3>1. PsWait
      BY <1>2, <2>3 DEF BootStep
    <3>2. QED
      BY <1>2, <2>1, <2>3, <3>1, Waits DEF InSequence
  <2>4. ~mw_aresetn
    BY <1>2, Released DEF Writing
  <2>5. QED
    BY <2>2, <2>3, <2>4
<1>3. CASE ps.pc = "memGet"  /\ Reading("MEM_REG", 0, PsBase)
  <2>1. /\ s_axi_rvalid => s_axi_rdata[0] = mm_dev["MEM_REG"][0]
        /\ Registers(0, PsBase)' /\ WriteIdle'
        /\ s_axi_rvalid /\ rready => ReadIdle'
        /\ ~(s_axi_rvalid /\ rready) /\ PsWait => Reading("MEM_REG", 0, PsBase)'
    BY <1>3, ReadingStep, Registered
  <2>2. ASSUME s_axi_rvalid /\ rready PROVE InSequence'
    <3>1. s_axi_rdata[0] = PsBase
      BY <1>3, <2>1, <2>2 DEF Reading, Registers
    <3>2. In32("verGet", "VER_REG")
      BY <1>3, <2>2, <3>1 DEF BootStep
    <3>3. ps'.pc = "verGet" /\ Reading("VER_REG", 0, PsBase)'
      BY <2>1, <2>2, <3>2, Starts
    <3>4. QED
      BY <3>3 DEF InSequence
  <2>3. ASSUME ~(s_axi_rvalid /\ rready) PROVE InSequence'
    <3>1. PsWait
      BY <1>3, <2>3 DEF BootStep
    <3>2. QED
      BY <1>3, <2>1, <2>3, <3>1, Waits DEF InSequence
  <2>4. ~mw_aresetn
    BY <1>3, Released DEF Reading
  <2>5. QED
    BY <2>2, <2>3, <2>4
<1>4. CASE ps.pc = "verGet"  /\ Reading("VER_REG", 0, PsBase)
  <2>1. /\ s_axi_rvalid => s_axi_rdata[0] = mm_dev["VER_REG"][0]
        /\ Registers(0, PsBase)' /\ WriteIdle'
        /\ s_axi_rvalid /\ rready => ReadIdle'
        /\ ~(s_axi_rvalid /\ rready) /\ PsWait => Reading("VER_REG", 0, PsBase)'
    BY <1>4, ReadingStep, Registered
  <2>2. ASSUME s_axi_rvalid /\ rready PROVE InSequence'
    <3>1. s_axi_rdata[0] = CurVersion
      BY <1>4, <2>1, <2>2 DEF Reading, Registers
    <3>2. Out32("release", "CTR_REG", 1)
      BY <1>4, <2>2, <3>1 DEF BootStep
    <3>3. ps'.pc = "release" /\ Writing("CTR_REG", 1, 0, PsBase, 1, PsBase)'
      BY <2>1, <2>2, <3>2, Starts
    <3>4. QED
      BY <3>3 DEF InSequence
  <2>3. ASSUME ~(s_axi_rvalid /\ rready) PROVE InSequence'
    <3>1. PsWait
      BY <1>4, <2>3 DEF BootStep
    <3>2. QED
      BY <1>4, <2>1, <2>3, <3>1, Waits DEF InSequence
  <2>4. ~mw_aresetn
    BY <1>4, Released DEF Reading
  <2>5. QED
    BY <2>2, <2>3, <2>4
<1>5. CASE ps.pc = "release" /\ Writing("CTR_REG", 1, 0, PsBase, 1, PsBase)
  <2>1. /\ s_axi_bvalid /\ bready => WriteIdle' /\ ReadIdle' /\ Registers(1, PsBase)'
        /\ ~(s_axi_bvalid /\ bready) /\ PsWait => Writing("CTR_REG", 1, 0, PsBase, 1, PsBase)'
    BY <1>5, WritingStep
  <2>2. CASE s_axi_bvalid /\ bready
    <3>1. ps' = [ps EXCEPT !.pc = "wfi"] /\ ~ps.bus.aw /\ ~ps.bus.w /\ ~ps.bus.ar
      BY <1>5, <2>2 DEF BootStep, PsGoTo, Writing, NoRead, WriteIdle, WriteLatched
    <3>2. ps'.pc = "wfi" /\ NoWrite' /\ NoRead'
      BY <2>1, <2>2, <3>1 DEF TypeOK, NoWrite, NoRead
    <3>3. mw_aresetn'
      BY <2>1, <2>2 DEF mw_aresetn, Registers
    <3>4. QED
      BY <2>1, <2>2, <3>2, <3>3 DEF InSequence
  <2>3. CASE ~(s_axi_bvalid /\ bready)
    <3>1. PsWait
      BY <1>5, <2>3 DEF BootStep
    <3>2. InSequence'
      BY <1>5, <2>1, <2>3, <3>1, Waits DEF InSequence
    <3>3. mw_aresetn => mm_dev["CTR_REG"][0] = 1 /\ ~(aw_en /\ w_en)
      BY <1>5, Released DEF Writing, WriteIdle, WriteLatched, WriteDone, Registers
    <3>4. mw_aresetn => mm_dev' = mm_dev
      BY <3>3 DEF SlaveWrite, Performs
    <3>5. QED
      BY <3>2, <3>4 DEF mw_aresetn
  <2>4. QED
    BY <2>2, <2>3
<1>6. CASE ps.pc = "wfi" /\ NoWrite /\ NoRead /\ Registers(1, PsBase)
  <2>1. WriteIdle' /\ ReadIdle' /\ mm_dev' = mm_dev
    BY <1>6, IdleWrite, IdleRead
  <2>2. ps' = ps
    BY <1>6 DEF BootStep
  <2>3. NoWrite' /\ NoRead' /\ Registers(1, PsBase)'
    BY <1>6, <2>1, <2>2 DEF NoWrite, NoRead, Registers
  <2>4. QED
    BY <1>6, <2>1, <2>2, <2>3 DEF InSequence, mw_aresetn
<1>7. QED
  BY <1>1, <1>2, <1>3, <1>4, <1>5, <1>6 DEF InSequence

------------------------------------------------------------------------------
\* Typing, process by process
LEMMA MergeType ==
    ASSUME NEW old \in Word, NEW new \in Word, NEW sel
    PROVE  Merge(old, new, sel) \in Word
BY DEF Merge, Word

LEMMA CoreType == TypeOK /\ CoreEdge => (wbm \in WbMaster /\ owed \in Int /\ rst_core \in BOOLEAN)'
<1> SUFFICES ASSUME TypeOK, CoreEdge
             PROVE  wbm' \in WbMaster /\ owed' \in Int /\ rst_core' \in BOOLEAN
  OBVIOUS
<1> USE DEF CoreEdge
<1>1. OwedNext(stall, s_wb_ack) \in Int
  BY DEF TypeOK, OwedNext
<1>2. rst_core' \in BOOLEAN
  BY DEF mw_aresetn
<1>3. CASE rst_core
  <2>1. MasterReset
    BY <1>3
  <2>2. [cyc |-> FALSE, stb |-> FALSE, req |-> ResetReq] \in WbMaster
    BY ZeroTypes DEF WbMaster
  <2>3. QED
    BY <1>2, <2>1, <2>2 DEF MasterReset
<1>4. CASE MasterHold(stall, s_wb_ack)
  BY <1>1, <1>2, <1>4 DEF MasterHold, TypeOK
<1>5. CASE MasterStrobe(stall, s_wb_ack, CoreRequest)
  BY <1>1, <1>2, <1>5 DEF MasterStrobe, WbMaster, CoreRequest
<1>6. CASE MasterPause(stall, s_wb_ack)
  BY <1>1, <1>2, <1>6 DEF MasterPause, TypeOK, WbMaster
<1>7. QED
  BY <1>3, <1>4, <1>5, <1>6 DEF MasterProcess

LEMMA BridgeType ==
    ASSUME TypeOK, NEW awready \in BOOLEAN, NEW wready \in BOOLEAN, NEW arready \in BOOLEAN,
           BridgeEdge(awready, wready, arready)
    PROVE  BridgeTypeOK'
<1> USE DEF TypeOK, BridgeTypeOK
<1>1. CASE BridgeReset
  BY <1>1, ZeroTypes, ZeroAssumption, RespAssumption
     DEF BridgeReset, WbResetEdge, AxiResetEdge
<1>2. CASE WbProcess(wbm) /\ AxiProcess(awready, wready, ps_b, arready, ps_r)
  <2>1. (/\ wb_state \in {"IDLE", "WAIT"} /\ s_wb_ack \in BOOLEAN
         /\ s_wb_dat_o \in Word /\ axi_start \in BOOLEAN /\ axi_req \in Request)'
    BY <1>2 DEF WbMaster, WbProcess, WbIdle, WbAccept, WbWait, WbRespond
  <2>2. CASE AxiIdle
    BY <2>1, <2>2 DEF AxiIdle
  <2>3. CASE AxiStartWrite
    BY <2>1, <2>3 DEF AxiStartWrite, Request
  <2>4. CASE AxiStartRead
    BY <2>1, <2>4 DEF AxiStartRead, Request
  <2>5. CASE AxiWrite(awready, wready, ps_b.valid, ps_b.resp)
    BY <2>1, <2>5 DEF AxiWrite, MemTypeOK
  <2>6. CASE AxiRead(arready, ps_r.valid, ps_r.data, ps_r.resp)
    BY ZenonT(60), <2>1, <2>6 DEF AxiRead, MemTypeOK
  <2>7. QED
    BY <1>2, <2>2, <2>3, <2>4, <2>5, <2>6 DEF AxiProcess
<1>3. QED
  BY <1>1, <1>2 DEF BridgeEdge

LEMMA SlaveType ==
    ASSUME TypeOK, NEW bready \in BOOLEAN, NEW rready \in BOOLEAN,
           SlaveWrite(ps.bus.aw, ps.reg, ps.bus.w,
                      [data |-> [l \in RegLane |-> ps.val], strb |-> RegLane], bready),
           SlaveRead(ps.bus.ar, ps.reg, rready)
    PROVE  SlaveTypeOK'
<1> USE DEF TypeOK, SlaveTypeOK
<1>1. [data |-> [l \in RegLane |-> ps.val], strb |-> RegLane] \in WData
  BY WrapperAssumption DEF WData, RegWord
<1>2. WriteReg(mm_dev, awaddr_latched, w_latched) \in [Reg -> RegWord]
  BY DEF WriteReg, WData, RegWord
<1>3. (/\ mm_dev \in [Reg -> RegWord] /\ awaddr_latched \in Reg /\ w_latched \in WData
       /\ s_axi_awready \in BOOLEAN /\ aw_en \in BOOLEAN
       /\ s_axi_wready \in BOOLEAN /\ w_en \in BOOLEAN /\ s_axi_bvalid \in BOOLEAN)'
  <2> HIDE DEF WriteReg, WData
  <2>1. mm_dev' \in [Reg -> RegWord] /\ w_latched' \in WData
    BY <1>1, <1>2 DEF SlaveWrite
  <2>2. QED
    BY <2>1 DEF SlaveWrite, TakesAw, TakesW, Performs
<1>4. (/\ s_axi_arready \in BOOLEAN /\ ar_en \in BOOLEAN /\ araddr_latched \in Reg
       /\ s_axi_rvalid \in BOOLEAN /\ s_axi_rdata \in RegWord)'
  BY DEF SlaveRead, TakesAr, Samples
<1>5. QED
  BY <1>3, <1>4

LEMMA ProgramType ==
    ASSUME TypeOK, NEW bready \in BOOLEAN, NEW rready \in BOOLEAN, BootStep(bready, rready)
    PROVE  (ps \in [pc : {"setMem", "memSet", "memGet", "verGet", "release", "wfi", "failed"},
                    bus : [aw : BOOLEAN, w : BOOLEAN, ar : BOOLEAN], reg : Reg, val : Adr])'
<1> USE Addresses, Registered DEF TypeOK
<1>1. ASSUME NEW pc \in {"setMem", "memSet", "memGet", "verGet", "release", "wfi", "failed"},
             NEW reg \in Reg, NEW val \in Adr,
             Out32(pc, reg, val) \/ In32(pc, reg) \/ PsGoTo(pc) \/ PsWait \/ UNCHANGED ps
      PROVE  (ps \in [pc : {"setMem", "memSet", "memGet", "verGet", "release", "wfi", "failed"},
                      bus : [aw : BOOLEAN, w : BOOLEAN, ar : BOOLEAN], reg : Reg, val : Adr])'
  <2>1. CASE Out32(pc, reg, val)
    BY <2>1 DEF Out32
  <2>2. CASE In32(pc, reg)
    BY <2>2 DEF In32
  <2>3. CASE PsGoTo(pc)
    BY <2>3 DEF PsGoTo
  <2>4. CASE PsWait
    BY <2>4 DEF PsWait
  <2>5. QED
    BY <1>1, <2>1, <2>2, <2>3, <2>4
<1>2. QED
  BY <1>1 DEF BootStep

------------------------------------------------------------------------------
\* A bridge that is at work is out of reset.
LEMMA AtWork ==
    ASSUME IInv, m_aw.valid \/ m_ar.valid \/ wb_state = "WAIT" \/ axi_state # "IDLE"
    PROVE  mw_aresetn
BY DEF IInv, ResetQuiet, BridgeInit, WbRegsReset, AxiRegsReset

\* While the bridge offers an address, it goes through the window
LEMMA ThroughWindow ==
    ASSUME IInv, NEW a \in Adr, mw_aresetn
    PROVE  slv_reg1 = PsBase /\ Translate(slv_reg1, a) \in Adr /\ Translate(slv_reg1, a) >= PsBase
<1>1. Registers(0, 0) \/ Registers(0, PsBase) \/ Registers(1, PsBase)
  BY DEF IInv, InSequence, Writing, Reading
<1>2. slv_reg1 = PsBase
  BY <1>1, Released DEF slv_reg1, Registers
<1>3. QED
  BY <1>2, Addresses, WindowProtects, WrapperAssumption

LEMMA PsType ==
    ASSUME IInv, NEW awready \in BOOLEAN, NEW wready \in BOOLEAN, NEW arready \in BOOLEAN,
           PsProcess(awready, wready, arready, m_axi_aw, m_w, m_bready, m_axi_ar, m_rready)
    PROVE  MemTypeOK' /\ PsMemoryKept'
<1> USE DEF IInv, TypeOK, BridgeTypeOK, MemTypeOK, PsMemoryKept
<1>1. /\ m_axi_aw.valid => m_axi_aw.addr \in Adr /\ m_axi_aw.addr >= PsBase
      /\ m_axi_ar.valid => m_axi_ar.addr \in Adr /\ m_axi_ar.addr >= PsBase
  BY ThroughWindow, AtWork DEF m_axi_aw, m_axi_ar
<1>2. (/\ mem \in [Adr -> Word] /\ ps_aw \in [full : BOOLEAN, addr : Adr]
       /\ ps_w \in [full : BOOLEAN, data : Word, strb : SUBSET Lanes]
       /\ ps_b \in [valid : BOOLEAN, resp : Resp]
       /\ ps_aw.full => ps_aw.addr >= PsBase)'
  <2>1. CASE CollectWrite(awready, wready, m_axi_aw, m_w, m_bready)
    <3> HIDE DEF m_axi_aw
    <3>1. QED
      BY <1>1, <2>1 DEF CollectWrite
  <2>2. CASE PerformWrite(awready, wready)
    <3>1. Store(mem, ps_aw.addr, ps_w.data, ps_w.strb) \in [Adr -> Word]
      BY MergeType DEF Store
    <3>2. PICK resp \in Resp :
            /\ ps_b' = [valid |-> TRUE, resp |-> resp]
            /\ mem' = IF resp = OKAY
                        THEN Store(mem, ps_aw.addr, ps_w.data, ps_w.strb) ELSE mem
      BY <2>2 DEF PerformWrite
    <3>3. mem' \in [Adr -> Word]
      BY <3>1, <3>2
    <3>4. QED
      BY <2>2, <3>2, <3>3 DEF PerformWrite
  <2>3. QED
    BY <2>1, <2>2 DEF PsProcess
<1>3. (/\ ps_ar \in [full : BOOLEAN, addr : Adr]
       /\ ps_r \in [valid : BOOLEAN, data : Word, resp : Resp]
       /\ ps_ar.full => ps_ar.addr >= PsBase)'
  <2>1. CASE CollectRead(arready, m_axi_ar, m_rready)
    BY <1>1, <2>1 DEF CollectRead
  <2>2. CASE PerformRead(arready)
    <3>1. PICK resp \in Resp, d \in Word : ps_r' = [valid |-> TRUE, data |-> d, resp |-> resp]
      BY ZenonT(60), <2>2 DEF PerformRead
    <3>2. QED
      BY <2>2, <3>1 DEF PerformRead
  <2>3. QED
    BY <2>1, <2>2 DEF PsProcess
<1>4. QED
  BY <1>2, <1>3

\* What the PS sees on the address channels
LEMMA Translated ==
    ASSUME IInv
    PROVE  /\ m_axi_aw.valid = m_aw.valid /\ m_axi_ar.valid = m_ar.valid
           /\ m_aw.valid /\ m_aw.addr = axi_req.adr => m_axi_aw.addr = PsAdr
           /\ m_ar.valid /\ m_ar.addr = axi_req.adr => m_axi_ar.addr = PsAdr
<1>1. m_aw.valid \/ m_ar.valid => slv_reg1 = PsBase
  BY AtWork, ThroughWindow DEF IInv, TypeOK, BridgeTypeOK
<1>2. QED
  BY <1>1 DEF m_axi_aw, m_axi_ar, PsAdr

------------------------------------------------------------------------------
(***************************************************************************)
(* The transaction behind the window: as in BridgeProofs, with the address *)
(* the PS sees, and with the reset.                                        *)
(***************************************************************************)
\* An edge in reset leaves the bridge as it is, and the PS with nothing to do.
LEMMA EdgeInReset ==
    ASSUME IInv, NEW awready \in BOOLEAN, NEW wready \in BOOLEAN, NEW arready \in BOOLEAN,
           BridgeEdge(awready, wready, arready), ~mw_aresetn
    PROVE  BridgeInit /\ BridgeInit' /\ UNCHANGED bridgeVars
BY DEF IInv, ResetQuiet, BridgeEdge, BridgeReset, WbResetEdge, AxiResetEdge, BridgeInit,
       WbRegsReset, AxiRegsReset, bridgeVars, wbVars, axiVars

LEMMA StepReset ==
    ASSUME IInv, NEW awready \in BOOLEAN, NEW wready \in BOOLEAN, NEW arready \in BOOLEAN,
           BridgeEdge(awready, wready, arready), mw_aresetn => mw_aresetn'
    PROVE  ResetQuiet'
BY EdgeInReset DEF ResetQuiet

LEMMA StepRequests ==
    ASSUME IInv, NEW awready \in BOOLEAN, NEW wready \in BOOLEAN, NEW arready \in BOOLEAN,
           BridgeEdge(awready, wready, arready), CoreEdge
    PROVE  RequestsOwn'
<1> USE DEF IInv, RequestsOwn
<1>1. wbm'.stb => wbm'.req.adr \in MasterAdr
  BY WindowAssumption DEF CoreEdge, MasterReset, MasterProcess, MasterHold, MasterStrobe,
     MasterPause, CoreRequest, ResetReq
<1>2. axi_req'.adr \in MasterAdr
  <2>1. CASE mw_aresetn
    BY <2>1 DEF BridgeEdge, WbProcess, WbIdle, WbAccept, WbWait, WbRespond, WbRequested
  <2>2. CASE ~mw_aresetn
    BY <2>2, EdgeInReset DEF bridgeVars, wbVars
  <2>3. QED
    BY <2>1, <2>2
<1>3. QED
  BY <1>1, <1>2

LEMMA StepHandover ==
    ASSUME IInv, NEW awready \in BOOLEAN, NEW wready \in BOOLEAN, NEW arready \in BOOLEAN,
           BridgeEdge(awready, wready, arready)
    PROVE  Handover'
<1>1. CASE ~mw_aresetn
  BY <1>1, EdgeInReset DEF BridgeInit, WbRegsReset, AxiRegsReset, Handover
<1>2. CASE mw_aresetn
  <2> USE <1>2 DEF Handover, IInv, TypeOK, BridgeTypeOK, BridgeEdge, AxiProcess,
              AxiIdle, AxiStartWrite, AxiStartRead, AxiWrite, AxiRead
  <2>1. CASE WbIdle(wbm)
    BY <2>1 DEF WbIdle
  <2>2. CASE WbAccept(wbm)
    BY <2>2 DEF WbAccept
  <2>3. CASE WbWait
    BY <2>3 DEF WbWait
  <2>4. CASE WbRespond
    BY <2>4 DEF WbRespond
  <2>5. QED
    BY <2>1, <2>2, <2>3, <2>4 DEF WbProcess
<1>3. QED
  BY <1>1, <1>2

\* While the AXI FSM is not idle the latched request does not change.
LEMMA RequestHeld ==
    ASSUME IInv, NEW awready \in BOOLEAN, NEW wready \in BOOLEAN, NEW arready \in BOOLEAN,
           BridgeEdge(awready, wready, arready), wb_state = "WAIT"
    PROVE  axi_req' = axi_req /\ PsAdr' = PsAdr
<1>1. axi_req' = axi_req
  BY AtWork DEF BridgeEdge, WbProcess, WbIdle, WbAccept, WbWait, WbRespond
<1>2. QED
  BY <1>1 DEF PsAdr

LEMMA StepWriteInFlight ==
    ASSUME IInv, NEW awready \in BOOLEAN, NEW wready \in BOOLEAN, NEW arready \in BOOLEAN,
           BridgeEdge(awready, wready, arready),
           PsProcess(awready, wready, arready, m_axi_aw, m_w, m_bready, m_axi_ar, m_rready)
    PROVE  WriteInFlight(PsAdr)'
<1>1. /\ m_axi_aw.valid = m_aw.valid
      /\ m_aw.valid /\ m_aw.addr = axi_req.adr => m_axi_aw.addr = PsAdr
  BY Translated
<1>2. ~mw_aresetn => axi_state = "IDLE" /\ UNCHANGED <<axi_state, m_aw, m_w>>
  BY EdgeInReset DEF BridgeInit, AxiRegsReset, bridgeVars, axiVars
<1> USE DEF IInv, TypeOK, BridgeTypeOK, MemTypeOK, WriteInFlight, WriteQuiet, Handover
<1>3. CASE ~mw_aresetn
  BY <1>1, <1>2, <1>3 DEF PsProcess, CollectWrite, PerformWrite
<1>4. CASE mw_aresetn
  <2> USE <1>1, <1>4
  <2>1. AxiProcess(awready, wready, ps_b, arready, ps_r)
    BY DEF BridgeEdge
  <2>2. CASE AxiIdle
    BY <2>2 DEF PsProcess, CollectWrite, PerformWrite, AxiIdle
  <2>3. CASE AxiStartWrite
    BY <2>3, RequestHeld DEF PsProcess, CollectWrite, PerformWrite, AxiStartWrite
  <2>4. CASE AxiStartRead
    BY <2>4 DEF PsProcess, CollectWrite, PerformWrite, AxiStartRead
  <2>5. CASE AxiWrite(awready, wready, ps_b.valid, ps_b.resp)
    <3>1. wb_state = "WAIT" /\ axi_req' = axi_req /\ PsAdr' = PsAdr
      BY <2>5, RequestHeld DEF AxiWrite
    <3>2. CASE CollectWrite(awready, wready, m_axi_aw, m_w, m_bready)
      BY <2>5, <3>1, <3>2 DEF AxiWrite, CollectWrite
    <3>3. CASE PerformWrite(awready, wready)
      BY <2>5, <3>1, <3>3 DEF AxiWrite, PerformWrite
    <3>4. QED
      BY <3>2, <3>3 DEF PsProcess
  <2>6. CASE AxiRead(arready, ps_r.valid, ps_r.data, ps_r.resp)
    BY <2>6 DEF PsProcess, CollectWrite, PerformWrite, AxiRead
  <2>7. QED
    BY <2>1, <2>2, <2>3, <2>4, <2>5, <2>6 DEF AxiProcess
<1>5. QED
  BY <1>3, <1>4

LEMMA StepReadInFlight ==
    ASSUME IInv, NEW awready \in BOOLEAN, NEW wready \in BOOLEAN, NEW arready \in BOOLEAN,
           BridgeEdge(awready, wready, arready),
           PsProcess(awready, wready, arready, m_axi_aw, m_w, m_bready, m_axi_ar, m_rready)
    PROVE  ReadInFlight(PsAdr)'
<1>1. /\ m_axi_ar.valid = m_ar.valid
      /\ m_ar.valid /\ m_ar.addr = axi_req.adr => m_axi_ar.addr = PsAdr
  BY Translated
<1>2. ~mw_aresetn => axi_state = "IDLE" /\ UNCHANGED <<axi_state, m_ar>>
  BY EdgeInReset DEF BridgeInit, AxiRegsReset, bridgeVars, axiVars
<1> USE DEF IInv, TypeOK, BridgeTypeOK, MemTypeOK, ReadInFlight, ReadQuiet, Handover
<1>3. CASE ~mw_aresetn
  BY <1>1, <1>2, <1>3 DEF PsProcess, CollectRead, PerformRead
<1>4. CASE mw_aresetn
  <2> USE <1>1, <1>4
  <2>1. AxiProcess(awready, wready, ps_b, arready, ps_r)
    BY DEF BridgeEdge
  <2>2. CASE AxiIdle
    BY <2>2 DEF PsProcess, CollectRead, PerformRead, AxiIdle
  <2>3. CASE AxiStartWrite
    BY <2>3 DEF PsProcess, CollectRead, PerformRead, AxiStartWrite
  <2>4. CASE AxiStartRead
    BY <2>4, RequestHeld DEF PsProcess, CollectRead, PerformRead, AxiStartRead
  <2>5. CASE AxiWrite(awready, wready, ps_b.valid, ps_b.resp)
    BY <2>5 DEF PsProcess, CollectRead, PerformRead, AxiWrite
  <2>6. CASE AxiRead(arready, ps_r.valid, ps_r.data, ps_r.resp)
    <3>1. wb_state = "WAIT" /\ axi_req' = axi_req /\ PsAdr' = PsAdr
      BY <2>6, RequestHeld DEF AxiRead
    <3>2. CASE CollectRead(arready, m_axi_ar, m_rready)
      BY <2>6, <3>1, <3>2 DEF AxiRead, CollectRead
    <3>3. CASE PerformRead(arready)
      BY <2>6, <3>1, <3>3 DEF AxiRead, PerformRead
    <3>4. QED
      BY <3>2, <3>3 DEF PsProcess
  <2>7. QED
    BY <2>1, <2>2, <2>3, <2>4, <2>5, <2>6 DEF AxiProcess
<1>5. QED
  BY <1>3, <1>4

LEMMA StepInv == IInv /\ [BootNext]_vars => IInv'
<1> SUFFICES ASSUME IInv, [BootNext]_vars PROVE IInv'
  OBVIOUS
<1>1. CASE BootNext
  <2>1. PICK awready, wready, arready, bready, rready \in BOOLEAN :
          Edge(awready, wready, arready, bready, rready) /\ BootStep(bready, rready)
    BY <1>1 DEF BootNext
  <2> USE <2>1 DEF Edge
  <2>2. InSequence' /\ (mw_aresetn => mw_aresetn')
    BY StepSequence DEF IInv
  <2>3. MemTypeOK' /\ PsMemoryKept'
    BY PsType
  <2>4. BridgeTypeOK' /\ SlaveTypeOK'
    BY BridgeType, SlaveType DEF IInv
  <2>5. TypeOK'
    BY <2>3, <2>4, CoreType, ProgramType DEF IInv, TypeOK
  <2>6. ResetQuiet' /\ RequestsOwn'
    BY <2>2, StepReset, StepRequests
  <2>7. Handover' /\ WriteInFlight(PsAdr)' /\ ReadInFlight(PsAdr)'
    BY StepHandover, StepWriteInFlight, StepReadInFlight
  <2>8. QED
    BY <2>2, <2>3, <2>5, <2>6, <2>7 DEF IInv
<1>2. CASE UNCHANGED vars
  <2>1. UNCHANGED <<bridgeVars, psVars, masterVars, slaveVars, rst_core, ps>>
    BY <1>2 DEF vars
  <2>2. TypeOK'
    BY <2>1 DEF IInv, TypeOK, BridgeTypeOK, MemTypeOK, SlaveTypeOK, bridgeVars, wbVars, axiVars,
                psVars, masterVars, slaveVars, slaveWriteVars, slaveReadVars
  <2>3. InSequence'
    BY <2>1 DEF IInv, InSequence, Writing, Reading, NoWrite, NoRead, WriteIdle, ReadIdle,
                WriteLatched, WriteDone, Registers, slaveVars, slaveWriteVars, slaveReadVars
  <2>4. ResetQuiet' /\ PsMemoryKept' /\ RequestsOwn'
    BY <2>1 DEF IInv, ResetQuiet, BridgeInit, WbRegsReset, AxiRegsReset, PsMemoryKept, RequestsOwn,
                mw_aresetn, bridgeVars, wbVars, axiVars, psVars, masterVars, slaveVars,
                slaveWriteVars
  <2>5. Handover' /\ WriteInFlight(PsAdr)' /\ ReadInFlight(PsAdr)'
    BY <2>1 DEF IInv, Handover, WriteInFlight, WriteQuiet, ReadInFlight, ReadQuiet, PsAdr,
                bridgeVars, wbVars, axiVars, psVars
  <2>6. QED
    BY <2>2, <2>3, <2>4, <2>5 DEF IInv
<1>3. QED
  BY <1>1, <1>2

\* Every access of the boot program is answered before its next one, its
\* checks never fail, and all types hold (bootloader.c:306-319 with
\* s_axi_lite.v and microwatt_wrapper.v).
THEOREM WrapperInvariant == Spec => []IInv
BY InitInv, StepInv, PTL DEF Spec

\* The core runs only behind the window the program has set and read back,
\* and with the version it was checked against (bootloader.c:306-319).
THEOREM WrapperReleases == Spec => []ReleasedConfigured
<1>1. IInv => ReleasedConfigured
  <2>1. SUFFICES ASSUME IInv, mw_aresetn
                 PROVE  /\ slv_reg1 = PsBase /\ mm_dev["VER_REG"][0] = CurVersion
                        /\ ps.pc \in {"release", "wfi"}
    BY DEF ReleasedConfigured
  <2>2. Registers(0, 0) \/ Registers(0, PsBase) \/ Registers(1, PsBase)
    BY <2>1 DEF IInv, InSequence, Writing, Reading
  <2>3. Registers(1, PsBase)
    BY <2>1, <2>2, Released
  <2>4. mm_dev["CTR_REG"][0] = 1 /\ mm_dev["CTR_REG"][0] # 0
    BY <2>3 DEF Registers
  <2>5. ps.pc \in {"release", "wfi"}
    BY <2>1, <2>4 DEF IInv, InSequence, Writing, Reading, Registers
  <2>6. QED
    BY <2>3, <2>5 DEF Registers, slv_reg1
<1>2. QED
  BY WrapperInvariant, <1>1, PTL

\* No access of the core that the PS accepts lies below the window
\* (microwatt_wrapper.v:96-101).
THEOREM WrapperKeepsPsMemory == Spec => []PsMemoryKept
<1>1. IInv => PsMemoryKept
  BY DEF IInv
<1>2. QED
  BY WrapperInvariant, <1>1, PTL

\* A read is answered by its own data, behind the window as well.
THEOREM WrapperReadsOwn == Spec => []ReadAnswersOwn
<1>1. IInv => ReadAnswersOwn
  BY DEF IInv, ReadAnswersOwn, ReadInFlight, ReadQuiet
<1>2. QED
  BY WrapperInvariant, <1>1, PTL

------------------------------------------------------------------------------
(***************************************************************************)
(* Refinement.  An edge out of reset is one of Take, ServeWrite, ServeRead *)
(* and Answer of the core's port, or a stutter; an edge in reset is a      *)
(* stutter.                                                                *)
(***************************************************************************)
\* The instance has its own copies of the definitions of BusTypes.
LEMMA SameTypes ==
    /\ Window!Word = Word
    /\ Window!Request = {r \in Request : r.adr \in MasterAdr}
    /\ \A old, new, sel : Window!Merge(old, new, sel) = Merge(old, new, sel)
BY WrapperAssumption DEF Window!Word, Word, Window!Request, Request, Window!Merge, Merge

\* The core's memory
Seen(m) == [a \in MasterAdr |-> m[Translate(PsBase, a)]]

LEMMA SeenIn ==
    ASSUME NEW a \in MasterAdr
    PROVE  Translate(PsBase, a) \in Adr
BY Addresses, WindowProtects, WrapperAssumption

\* A write to a translated address writes that one word of the core's memory:
\* the window is injective on the core's addresses.
LEMMA SeenStore ==
    ASSUME NEW r \in Window!Request, mem \in [Adr -> Word]
    PROVE  Seen(Store(mem, Translate(PsBase, r.adr), r.dat, r.sel))
             = Window!Written(Seen(mem), r)
<1>1. r.adr \in MasterAdr
  BY SameTypes
<1>2. ASSUME NEW a \in MasterAdr
      PROVE  Seen(Store(mem, Translate(PsBase, r.adr), r.dat, r.sel))[a]
               = Window!Written(Seen(mem), r)[a]
  <2>1. Translate(PsBase, a) \in Adr
    BY SeenIn
  <2>2. CASE a = r.adr
    BY <1>1, <2>1, <2>2, SameTypes DEF Seen, Store, Window!Written
  <2>3. CASE a # r.adr
    <3>1. Translate(PsBase, a) # Translate(PsBase, r.adr)
      BY <1>1, <2>3, WindowAssumption
    <3>2. QED
      BY <1>1, <2>1, <2>3, <3>1 DEF Seen, Store, Window!Written
  <2>4. QED
    BY <2>2, <2>3
<1>3. QED
  BY <1>2 DEF Seen, Window!Written

LEMMA WindowInit == Init => Window!PortInit
<1> SUFFICES ASSUME Init PROVE Window!PortInit
  OBVIOUS
<1> USE ZeroAssumption, ZeroTypes
    DEF Init, BridgeInit, WbRegsReset, AxiRegsReset, MemInit
<1>1. mem \in [Adr -> Word] /\ axi_req \in Request /\ s_wb_dat_o \in Word
  OBVIOUS
<1>2. axi_req \in Window!Request
  BY <1>1, SameTypes, WindowAssumption DEF ResetReq
<1>3. [a \in MasterAdr |-> mem[Translate(PsBase, a)]] \in [MasterAdr -> Window!Word]
  BY <1>1, SeenIn, SameTypes
<1>4. ps_b.valid = FALSE /\ ps_r.valid = FALSE /\ axi_rdata \in Word
  OBVIOUS
<1>5. QED
  BY <1>1, <1>2, <1>3, <1>4, SameTypes DEF Window!PortInit

\* Between transactions nothing the port is made of moves.
LEMMA IdlePort ==
    ASSUME IInv, NEW awready \in BOOLEAN, NEW wready \in BOOLEAN, NEW arready \in BOOLEAN,
           BridgeEdge(awready, wready, arready), axi_state = "IDLE",
           PsProcess(awready, wready, arready, m_axi_aw, m_w, m_bready, m_axi_ar, m_rready)
    PROVE  /\ mem' = mem /\ ~ps_b'.valid /\ ~ps_r'.valid /\ ~ps_b.valid /\ ~ps_r.valid
           /\ axi_rdata' = axi_rdata /\ axi_resp' = axi_resp /\ axi_done' = FALSE
<1>1. ~mw_aresetn => /\ axi_rdata' = axi_rdata /\ axi_resp' = axi_resp /\ axi_done' = FALSE
  BY EdgeInReset DEF BridgeInit, AxiRegsReset, bridgeVars, axiVars
<1> USE DEF IInv, TypeOK, BridgeTypeOK, MemTypeOK, WriteInFlight, WriteQuiet,
        ReadInFlight, ReadQuiet, PsProcess
<1>2. mem' = mem /\ ~ps_b'.valid /\ ~ps_b.valid
  BY DEF CollectWrite, PerformWrite
<1>3. ~ps_r'.valid /\ ~ps_r.valid
  BY DEF CollectRead, PerformRead
<1>4. mw_aresetn => axi_rdata' = axi_rdata /\ axi_resp' = axi_resp /\ axi_done' = FALSE
  BY DEF BridgeEdge, AxiProcess, AxiIdle, AxiStartWrite, AxiStartRead, AxiWrite, AxiRead
<1>5. QED
  BY <1>1, <1>2, <1>3, <1>4

LEMMA WindowStep ==
    ASSUME IInv, IInv', NEW awready \in BOOLEAN, NEW wready \in BOOLEAN, NEW arready \in BOOLEAN,
           BridgeEdge(awready, wready, arready),
           PsProcess(awready, wready, arready, m_axi_aw, m_w, m_bready, m_axi_ar, m_rready)
    PROVE  [Window!PortNext]_(Window!portVars)
<1> USE DEF Window!PortNext, Window!portVars
<1>0. axi_req' \in Window!Request /\ axi_req \in Window!Request
  BY SameTypes DEF IInv, RequestsOwn, TypeOK, BridgeTypeOK
<1>1. CASE wb_state = "IDLE"
  <2>1. axi_state = "IDLE" /\ ~axi_done
    BY <1>1 DEF IInv, Handover
  <2>2. CASE ~mw_aresetn
    <3>1. UNCHANGED <<wb_state, axi_req, s_wb_dat_o>>
      BY <2>2, EdgeInReset DEF bridgeVars, wbVars
    <3>2. QED
      BY <1>1, <2>1, <3>1, IdlePort
  <2>3. CASE mw_aresetn /\ WbIdle(wbm)
    BY <1>1, <2>1, <2>3, IdlePort DEF WbIdle
  <2>4. CASE mw_aresetn /\ WbAccept(wbm)
    BY <1>0, <1>1, <2>1, <2>4, IdlePort DEF WbAccept, Window!Take
  <2>5. QED
    BY <1>1, <2>2, <2>3, <2>4 DEF BridgeEdge, WbProcess, WbWait, WbRespond
<1>2. CASE wb_state = "WAIT"
  <2>1. /\ mw_aresetn /\ WbProcess(wbm)
        /\ AxiProcess(awready, wready, ps_b, arready, ps_r)
        /\ axi_req' = axi_req
    BY <1>2, AtWork, RequestHeld DEF BridgeEdge
  <2>2. CASE axi_state = "IDLE"
    <3>1. CASE WbWait
      BY <1>2, <2>2, <3>1, IdlePort DEF WbWait
    <3>2. CASE WbRespond
      BY <1>2, <2>2, <3>2, IdlePort DEF WbRespond, Window!Answer
    <3>3. QED
      BY <1>2, <2>1, <3>1, <3>2 DEF WbProcess, WbIdle, WbAccept
  <2>3. CASE axi_state = "WRITE"
    <3>1. /\ wb_state' = wb_state /\ s_wb_dat_o' = s_wb_dat_o
          /\ ~axi_done /\ axi_req.we /\ axi_rdata' = axi_rdata /\ m_bready
          /\ ~ps_r.valid /\ ~ps_r'.valid
      BY <1>2, <2>1, <2>3 DEF IInv, Handover, WriteInFlight, ReadInFlight, ReadQuiet, WbProcess,
         WbIdle, WbAccept, WbWait, WbRespond, AxiProcess, AxiIdle, AxiStartWrite, AxiStartRead,
         AxiWrite, AxiRead, PsProcess, CollectRead, PerformRead, TypeOK, MemTypeOK
    <3>2. AxiWrite(awready, wready, ps_b.valid, ps_b.resp)
      BY <2>1, <2>3 DEF AxiProcess, AxiIdle, AxiStartWrite, AxiStartRead, AxiRead
    <3>3. CASE PerformWrite(awready, wready)
      <4>1. PICK resp \in Resp :
              /\ ps_b' = [valid |-> TRUE, resp |-> resp]
              /\ mem' = IF resp = OKAY
                          THEN Store(mem, ps_aw.addr, ps_w.data, ps_w.strb) ELSE mem
        BY <3>3 DEF PerformWrite
      <4>2. /\ ~ps_b.valid /\ ps_aw.addr = PsAdr
            /\ ps_w.data = axi_req.dat /\ ps_w.strb = axi_req.sel
        BY <2>3, <3>3 DEF PerformWrite, IInv, WriteInFlight
      <4>3. Seen(mem') = IF resp = OKAY THEN Window!Written(Seen(mem), axi_req) ELSE Seen(mem)
        BY <1>0, <4>1, <4>2, SeenStore DEF PsAdr, IInv, TypeOK, MemTypeOK
      <4>4. axi_done' = axi_done /\ ps_b'.valid /\ (OKAY = ps_b'.resp) = (resp = OKAY)
        BY <3>2, <4>1, <4>2 DEF AxiWrite
      <4>5. Window!ServeWrite
        BY <1>2, <2>1, <2>3, <3>1, <4>2, <4>3, <4>4 DEF Window!ServeWrite, Seen
      <4>6. QED
        BY <4>5
    <3>4. CASE CollectWrite(awready, wready, m_axi_aw, m_w, m_bready)
      <4>1. mem' = mem /\ ~ps_b'.valid
        BY <3>1, <3>4 DEF CollectWrite, IInv, TypeOK, MemTypeOK
      <4>2. CASE ps_b.valid
        BY <1>2, <2>1, <2>3, <3>1, <3>2, <4>1, <4>2 DEF AxiWrite
      <4>3. CASE ~ps_b.valid
        BY <1>2, <2>1, <2>3, <3>1, <3>2, <4>1, <4>3 DEF AxiWrite
      <4>4. QED
        BY <4>2, <4>3
    <3>5. QED
      BY <3>3, <3>4 DEF PsProcess
  <2>4. CASE axi_state = "READ"
    <3>1. /\ wb_state' = wb_state /\ s_wb_dat_o' = s_wb_dat_o
          /\ ~axi_done /\ ~axi_req.we /\ m_rready
          /\ ~ps_b.valid /\ ~ps_b'.valid /\ mem' = mem
      BY <1>2, <2>1, <2>4 DEF IInv, Handover, ReadInFlight, WriteInFlight, WriteQuiet, WbProcess,
         WbIdle, WbAccept, WbWait, WbRespond,
         PsProcess, CollectWrite, PerformWrite, TypeOK, MemTypeOK
    <3>2. AxiRead(arready, ps_r.valid, ps_r.data, ps_r.resp)
      BY <2>1, <2>4 DEF AxiProcess, AxiIdle, AxiStartWrite, AxiStartRead, AxiWrite
    <3>3. CASE PerformRead(arready)
      <4>1. PICK resp \in Resp, d \in Word :
              /\ resp = OKAY => d = mem[ps_ar.addr]
              /\ ps_r' = [valid |-> TRUE, data |-> d, resp |-> resp]
        BY <3>3 DEF PerformRead
      <4>2. ~ps_r.valid /\ mem[ps_ar.addr] = Seen(mem)[axi_req.adr]
        BY <1>0, <2>4, <3>3, SameTypes DEF PerformRead, IInv, ReadInFlight, PsAdr, Seen
      <4>3. axi_done' = axi_done
        BY <3>2, <4>2 DEF AxiRead
      <4>4. Window!ServeRead
        BY <1>2, <2>1, <2>4, <3>1, <4>1, <4>2, <4>3, SameTypes DEF Window!ServeRead, Seen
      <4>5. QED
        BY <4>4
    <3>4. CASE CollectRead(arready, m_axi_ar, m_rready)
      <4>1. ~ps_r'.valid
        BY <3>1, <3>4 DEF CollectRead, IInv, TypeOK, MemTypeOK
      <4>2. CASE ps_r.valid
        BY <1>2, <2>1, <2>4, <3>1, <3>2, <4>1, <4>2 DEF AxiRead
      <4>3. CASE ~ps_r.valid
        BY <1>2, <2>1, <2>4, <3>1, <3>2, <4>1, <4>3 DEF AxiRead
      <4>4. QED
        BY <4>2, <4>3
    <3>5. QED
      BY <3>3, <3>4 DEF PsProcess
  <2>5. QED
    BY <2>2, <2>3, <2>4 DEF IInv, TypeOK, BridgeTypeOK
<1>3. QED
  BY <1>1, <1>2 DEF IInv, TypeOK, BridgeTypeOK

\* Through the window, with bridge and PS behind it, the core has a memory port
\* of its own: each request is served once, at the core's address, and answered
\* with what it was served; before its release nothing of it moves.
THEOREM WrapperRefinement == Spec => ImplementsPort
<1>1. IInv /\ IInv' /\ [BootNext]_vars => [Window!PortNext]_(Window!portVars)
  <2> SUFFICES ASSUME IInv, IInv', [BootNext]_vars PROVE [Window!PortNext]_(Window!portVars)
    OBVIOUS
  <2>1. CASE BootNext
    BY <2>1, WindowStep DEF BootNext, Edge
  <2>2. CASE UNCHANGED vars
    BY <2>2 DEF vars, bridgeVars, wbVars, axiVars, psVars, Window!portVars
  <2>3. QED
    BY <2>1, <2>2
<1>2. QED
  BY <1>1, WindowInit, WrapperInvariant, PTL DEF Spec, ImplementsPort, Window!PortSpec

==============================================================================
