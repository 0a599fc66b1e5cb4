---------------------------- MODULE WrapperSystem ----------------------------
(***************************************************************************)
(* The wrapper, rtl/microwatt_wrapper.v: the control registers the PS      *)
(* writes (AxiLiteSlave) hold the soft core in reset and set the offset of *)
(* the window through which the bridge (AxiBridge) reaches the memory of   *)
(* the PS (AxiMemory).  With it the end of the boot program of the PS,     *)
(* sw/ps_bootloader/bootloader.c:306-319, which sets the offset, reads it  *)
(* and the version back, and releases the core.                            *)
(*                                                                         *)
(* Addresses are AddrBits wide and wrap; a control register is one lane,   *)
(* as wide as an address, since the program writes whole registers.        *)
(***************************************************************************)
EXTENDS InFlight, PipelinedMaster, AxiLiteSlave

CONSTANTS AddrSize,     \* 2^ADDR_WIDTH
          DRAM_SIZE,
          MasterAdr,    \* addresses the soft core uses
          PsBase,       \* PS_DRAM_BASE_OFFSET
          CurVersion    \* CUR_VER

ASSUME SizeAssumption ==
    /\ AddrSize \in Nat \ {0}
    /\ DRAM_SIZE \in 1..(AddrSize - 1)

Address == 0..(AddrSize - 1)

(***************************************************************************)
(* The window onto the memory of the PS, microwatt_wrapper.v:96-101:       *)
(* addresses below DRAM_SIZE minus the offset are moved up by the offset,  *)
(* all others pass as they are, modulo AddrSize like the code's wires.     *)
(***************************************************************************)
\* A faulty variant, the one the comment of the code warns of: the sum is
\* compared after it has overflowed.
MovedBySum(offset, a) == DRAM_SIZE > (a + offset) % AddrSize

\* Addresses that are moved.
Moved(offset, a) == (DRAM_SIZE - offset) % AddrSize > a

\* Another: every address is moved.
MovesAll(offset, a) == a + offset

Translate(offset, a) ==
    IF Moved(offset, a) THEN (a + offset) % AddrSize ELSE a

ASSUME WrapperAssumption ==
    /\ Adr = Address /\ MasterAdr \subseteq Adr /\ PsBase \in Adr /\ CurVersion \in Adr
    /\ RegLane = {0} /\ RegByte = Adr
    /\ Reg = {"CTR_REG", "MEM_REG", "VER_REG"} /\ ZeroReg = "CTR_REG"
    /\ RegReset = [r \in Reg |-> [l \in RegLane |->
                                    IF r = "VER_REG" THEN CurVersion ELSE 0]]

\* The boot program sets the offset to a quarter of DRAM (bootloader.c:21)
ASSUME PsBaseAssumption == 0 < PsBase /\ 2 * PsBase <= DRAM_SIZE

\* The core starts at address 0, and keeps to one of the two addresses of each
\* word at the top of DRAM: those in DRAM_SIZE - PsBase..DRAM_SIZE - 1 are not
\* moved and meet moved ones.
ASSUME WindowAssumption ==
    /\ ZeroAdr \in MasterAdr
    /\ \A a, b \in MasterAdr : Translate(PsBase, a) = Translate(PsBase, b) => a = b

VARIABLES
    rst_core,   \* the core's reset, one cycle behind the bridge's
    ps          \* the PS program: where it is, and the access it has under way

vars == <<bridgeVars, psVars, masterVars, slaveVars, rst_core, ps>>

------------------------------------------------------------------------------
(***************************************************************************)
(* Faulty variants of the definitions below.                               *)
(***************************************************************************)

\* reads go to the address as it is
ReadNotTranslated == m_ar

------------------------------------------------------------------------------
\* slv_reg0[0] and slv_reg1, wired to the reset and to the address adders.
mw_aresetn == mm_dev["CTR_REG"][0] % 2 = 1
slv_reg1   == mm_dev["MEM_REG"][0]

m_axi_aw == [valid |-> m_aw.valid, addr |-> Translate(slv_reg1, m_aw.addr)]
m_axi_ar == [valid |-> m_ar.valid, addr |-> Translate(slv_reg1, m_ar.addr)]

stall == mw_aresetn /\ WbStall(wbm)

BridgeEdge(awready, wready, arready) ==
    IF mw_aresetn
      THEN WbProcess(wbm) /\ AxiProcess(awready, wready, ps_b, arready, ps_r)
      ELSE BridgeReset

\* The core: in reset its bus outputs are idle.
CoreRequest == {r \in Request : r.adr \in MasterAdr}

CoreEdge ==
    /\ rst_core' = ~mw_aresetn
    /\ IF rst_core THEN MasterReset
       ELSE MasterProcess(stall, s_wb_ack, CoreRequest)

------------------------------------------------------------------------------
(***************************************************************************)
(* The PS program.  It makes one access at a time: it offers address and   *)
(* data until each is accepted, then waits for the answer.                 *)
(***************************************************************************)
PsIdle == [aw |-> FALSE, w |-> FALSE, ar |-> FALSE]

PsInit == ps = [pc |-> "setMem", bus |-> PsIdle, reg |-> "CTR_REG", val |-> 0]

Out32(pc, reg, val) ==
    ps' = [pc |-> pc, bus |-> [aw |-> TRUE, w |-> TRUE, ar |-> FALSE],
           reg |-> reg, val |-> val]

In32(pc, reg) ==
    ps' = [pc |-> pc, bus |-> [aw |-> FALSE, w |-> FALSE, ar |-> TRUE],
           reg |-> reg, val |-> 0]

\* The access under way goes on: channels drop when they are accepted.
PsWait ==
    ps' = [ps EXCEPT !.bus = [aw |-> ps.bus.aw /\ ~s_axi_awready,
                              w  |-> ps.bus.w /\ ~s_axi_wready,
                              ar |-> ps.bus.ar /\ ~s_axi_arready]]

PsGoTo(pc) == ps' = [ps EXCEPT !.pc = pc]

\* A faulty variant of the next: the core is released before the window is set.
ReleasesFirst(bready, rready) ==
    LET written == s_axi_bvalid /\ bready
    IN \/ ps.pc = "setMem"  /\ Out32("release", "CTR_REG", 1)
       \/ ps.pc = "release" /\ written /\ Out32("memSet", "MEM_REG", PsBase)
       \/ ps.pc = "memSet"  /\ written /\ PsGoTo("wfi")
       \/ ps.pc \in {"memSet", "release"} /\ ~written /\ PsWait
       \/ ps.pc = "wfi" /\ UNCHANGED ps

BootStep(bready, rready) ==
    LET written == s_axi_bvalid /\ bready
        got(v)  == s_axi_rvalid /\ rready /\ s_axi_rdata[0] = v
        other(v) == s_axi_rvalid /\ rready /\ s_axi_rdata[0] # v
    IN \/ ps.pc = "setMem"  /\ Out32("memSet", "MEM_REG", PsBase)
       \/ ps.pc = "memSet"  /\ written /\ In32("memGet", "MEM_REG")
       \/ ps.pc = "memGet"  /\ got(PsBase) /\ In32("verGet", "VER_REG")
       \/ ps.pc = "memGet"  /\ other(PsBase) /\ PsGoTo("failed")
       \/ ps.pc = "verGet"  /\ got(CurVersion) /\ Out32("release", "CTR_REG", 1)
       \/ ps.pc = "verGet"  /\ other(CurVersion) /\ PsGoTo("failed")
       \/ ps.pc = "release" /\ written /\ PsGoTo("wfi")
       \/ ps.pc \in {"memSet", "release"} /\ ~written /\ PsWait
       \/ ps.pc \in {"memGet", "verGet"} /\ ~(s_axi_rvalid /\ rready) /\ PsWait
       \/ ps.pc \in {"wfi", "failed"} /\ UNCHANGED ps

------------------------------------------------------------------------------
Init ==
    /\ BridgeInit
    /\ MemInit(ZeroAdr, ZeroWord)
    /\ MasterInit
    /\ SlaveInit
    /\ rst_core = TRUE
    /\ PsInit

Edge(awready, wready, arready, bready, rready) ==
    /\ BridgeEdge(awready, wready, arready)
    /\ CoreEdge
    /\ PsProcess(awready, wready, arready,
                 m_axi_aw, m_w, m_bready, m_axi_ar, m_rready)
    /\ SlaveWrite(ps.bus.aw, ps.reg, ps.bus.w,
                  [data |-> [l \in RegLane |-> ps.val], strb |-> RegLane], bready)
    /\ SlaveRead(ps.bus.ar, ps.reg, rready)

BootNext ==
    \E awready, wready, arready, bready, rready \in BOOLEAN :
        Edge(awready, wready, arready, bready, rready) /\ BootStep(bready, rready)

Spec == Init /\ [][BootNext]_vars

TypeOK ==
    /\ BridgeTypeOK /\ MemTypeOK /\ SlaveTypeOK
    /\ wbm \in WbMaster /\ owed \in Int
    /\ rst_core \in BOOLEAN
    /\ ps \in [pc : {"setMem", "memSet", "memGet", "verGet", "release", "wfi", "failed"},
               bus : [aw : BOOLEAN, w : BOOLEAN, ar : BOOLEAN], reg : Reg, val : Adr]

------------------------------------------------------------------------------
\* The core only runs behind a window that was set and read back, with the
\* version it was checked against, and stays so.
ReleasedConfigured ==
    mw_aresetn => /\ slv_reg1 = PsBase
                  /\ mm_dev["VER_REG"][0] = CurVersion
                  /\ ps.pc \in {"release", "wfi"}

\* The PS keeps its memory below the window to itself: no access of the core
\* is accepted there.
PsMemoryKept ==
    /\ ps_aw.full => ps_aw.addr >= PsBase
    /\ ps_ar.full => ps_ar.addr >= PsBase

(***************************************************************************)
(* The invariant of the proofs: where the program is in its sequence, how  *)
(* far the slave is with the access it makes, and what the registers hold  *)
(* then.                                                                   *)
(***************************************************************************)
\* The registers, but for the version, which nobody writes
Registers(ctr, offset) ==
    /\ mm_dev["CTR_REG"][0] = ctr /\ mm_dev["MEM_REG"][0] = offset
    /\ mm_dev["VER_REG"][0] = CurVersion

WriteIdle == ~s_axi_awready /\ ~aw_en /\ ~s_axi_wready /\ ~w_en /\ ~s_axi_bvalid
ReadIdle  == ~s_axi_arready /\ ~ar_en /\ ~s_axi_rvalid
NoWrite   == ~ps.bus.aw /\ ~ps.bus.w /\ WriteIdle
NoRead    == ~ps.bus.ar /\ ReadIdle

\* Address and data are offered together, latched together and then written
WriteLatched == s_axi_awready /\ aw_en /\ s_axi_wready /\ w_en /\ ~s_axi_bvalid
WriteDone == ~s_axi_awready /\ ~aw_en /\ ~s_axi_wready /\ ~w_en /\ s_axi_bvalid

Writing(reg, val, ctr0, offset0, ctr1, offset1) ==
    /\ NoRead /\ ps.reg = reg /\ ps.val = val
    /\ \/ ps.bus.aw /\ ps.bus.w /\ WriteIdle /\ Registers(ctr0, offset0)
       \/ /\ ps.bus.aw /\ ps.bus.w /\ WriteLatched /\ Registers(ctr0, offset0)
          /\ awaddr_latched = reg
          /\ w_latched = [data |-> [l \in RegLane |-> val], strb |-> RegLane]
       \/ ~ps.bus.aw /\ ~ps.bus.w /\ WriteDone /\ Registers(ctr1, offset1)

Reading(reg, ctr, offset) ==
    /\ NoWrite /\ ps.reg = reg /\ Registers(ctr, offset)
    /\ \/ ps.bus.ar /\ ReadIdle
       \/ ps.bus.ar /\ s_axi_arready /\ ar_en /\ ~s_axi_rvalid /\ araddr_latched = reg
       \/ /\ ~ps.bus.ar /\ ~s_axi_arready /\ ar_en /\ s_axi_rvalid
          /\ s_axi_rdata[0] = mm_dev[reg][0]

InSequence ==
    \/ ps.pc = "setMem"  /\ NoWrite /\ NoRead /\ Registers(0, 0)
    \/ ps.pc = "memSet"  /\ Writing("MEM_REG", PsBase, 0, 0, 0, PsBase)
    \/ ps.pc = "memGet"  /\ Reading("MEM_REG", 0, PsBase)
    \/ ps.pc = "verGet"  /\ Reading("VER_REG", 0, PsBase)
    \/ ps.pc = "release" /\ Writing("CTR_REG", 1, 0, PsBase, 1, PsBase)
    \/ ps.pc = "wfi"     /\ NoWrite /\ NoRead /\ Registers(1, PsBase)

\* The bridge stays as reset has left it until the core is released.
ResetQuiet == ~mw_aresetn => BridgeInit

\* What is strobed, and what the bridge has taken, is the core's.
RequestsOwn == (wbm.stb => wbm.req.adr \in MasterAdr) /\ axi_req.adr \in MasterAdr

\* Where the PS sees the request of the bridge
PsAdr == Translate(PsBase, axi_req.adr)

\* Every access the boot program makes is answered before its next one, with
\* what the register holds, and its checks never fail (bootloader.c:306-319).
\* Behind the window the bridge does what it does alone (BridgeSystem).
IInv ==
    /\ TypeOK
    /\ InSequence
    /\ ResetQuiet
    /\ PsMemoryKept
    /\ RequestsOwn
    /\ Handover
    /\ WriteInFlight(PsAdr)
    /\ ReadInFlight(PsAdr)

\* Through the window the core sees a memory port of its own.
Window == INSTANCE MemPort WITH
    Adr    <- MasterAdr,
    mem    <- [a \in MasterAdr |-> mem[Translate(PsBase, a)]],
    phase  <- IF wb_state = "IDLE" THEN "idle"
              ELSE IF ps_b.valid \/ ps_r.valid \/ axi_done THEN "served" ELSE "taken",
    req    <- axi_req,
    ok     <- OKAY = IF ps_b.valid THEN ps_b.resp
                     ELSE IF ps_r.valid THEN ps_r.resp ELSE axi_resp,
    result <- IF ps_r.valid THEN ps_r.data ELSE axi_rdata,
    answer <- s_wb_dat_o

ImplementsPort == Window!PortSpec

\* A read is answered by its own data: no response is up for a read whose
\* address has not been accepted (s_wb_2_m_axi_lite.v:37-38, "in-order").
ReadAnswersOwn == axi_state = "READ" /\ ps_r.valid => ~m_ar.valid

==============================================================================
