---------------------------- MODULE AxiLiteSlave -----------------------------
(***************************************************************************)
(* The AXI4-Lite slave through which the PS controls the soft core,        *)
(* rtl/s_axi_lite.v: a few registers, a latch for each of AW, W and AR,    *)
(* and the B and R responses.  One clocked process; its branches touch     *)
(* the write side, the read side and the two latches independently, so     *)
(* the process is the conjunction of its write half and its read half.     *)
(*                                                                         *)
(* The responses are always OKAY and are left out, and so is the protection *)
(* input, which the code ignores.                                          *)
(***************************************************************************)
EXTENDS Integers

CONSTANTS Reg,          \* the registers, mm_dev[0] to mm_dev[DEV_SIZE-1]
          RegLane,      \* byte lanes of a register
          RegByte,      \* values of a byte
          ZeroReg,      \* the register at offset 0
          RegReset      \* the values after reset: 0, and the version

RegWord == [RegLane -> RegByte]

ASSUME RegAssumption == ZeroReg \in Reg /\ RegReset \in [Reg -> RegWord]

VARIABLES
    mm_dev,             \* the registers
    s_axi_awready, aw_en, awaddr_latched,
    s_axi_wready, w_en, w_latched,      \* wdata_latched and wstrb_latched
    s_axi_bvalid,
    s_axi_arready, ar_en, araddr_latched,
    s_axi_rvalid, s_axi_rdata

slaveWriteVars == <<mm_dev, s_axi_awready, aw_en, awaddr_latched,
                    s_axi_wready, w_en, w_latched, s_axi_bvalid>>
slaveReadVars  == <<s_axi_arready, ar_en, araddr_latched, s_axi_rvalid, s_axi_rdata>>
slaveVars      == <<slaveWriteVars, slaveReadVars>>

WData == [data : RegWord, strb : SUBSET RegLane]

SlaveTypeOK ==
    /\ mm_dev \in [Reg -> RegWord]
    /\ s_axi_awready \in BOOLEAN /\ aw_en \in BOOLEAN /\ awaddr_latched \in Reg
    /\ s_axi_wready \in BOOLEAN /\ w_en \in BOOLEAN /\ w_latched \in WData
    /\ s_axi_bvalid \in BOOLEAN
    /\ s_axi_arready \in BOOLEAN /\ ar_en \in BOOLEAN /\ araddr_latched \in Reg
    /\ s_axi_rvalid \in BOOLEAN /\ s_axi_rdata \in RegWord

\* What every register holds after an edge with aresetn low.
SlaveInit ==
    /\ mm_dev = RegReset
    /\ s_axi_awready = FALSE /\ aw_en = FALSE /\ awaddr_latched = ZeroReg
    /\ s_axi_wready = FALSE /\ w_en = FALSE
    /\ w_latched = [data |-> RegReset[ZeroReg], strb |-> {}]
    /\ s_axi_bvalid = FALSE
    /\ s_axi_arready = FALSE /\ ar_en = FALSE /\ araddr_latched = ZeroReg
    /\ s_axi_rvalid = FALSE /\ s_axi_rdata = RegReset[ZeroReg]

\* The register file m with the selected lanes of register a overwritten.
WriteReg(m, a, d) ==
    [m EXCEPT ![a] = [l \in RegLane |-> IF l \in d.strb THEN d.data[l] ELSE @[l]]]

------------------------------------------------------------------------------
(***************************************************************************)
(* Faulty variants of the definitions below.                               *)
(***************************************************************************)

\* a latched address is overwritten by the next one
TakesAwOverHeld(awvalid) == awvalid /\ ~s_axi_awready

\* the data follows the register while it waits to be taken
ReadResamples(arvalid, araddr, rready) ==
    LET take == arvalid /\ ~ar_en /\ ~s_axi_arready
    IN /\ s_axi_arready' = take
       /\ araddr_latched' = IF take THEN araddr ELSE araddr_latched
       /\ ar_en' = (take \/ (ar_en /\ ~(s_axi_rvalid /\ rready)))
       /\ s_axi_rdata' = mm_dev[araddr_latched]
       /\ s_axi_rvalid' = IF s_axi_rvalid THEN ~rready ELSE ar_en

\* the two halves of a write must come in the same cycle
PerformsTogether == s_axi_awready /\ s_axi_wready /\ ~s_axi_bvalid

\* an address is enough
PerformsUnpaired == aw_en /\ ~s_axi_bvalid

------------------------------------------------------------------------------
\* The latches take what is valid, unless they are full or the handshake of
\* what they took is under way: ready comes up one cycle after the latch.
TakesAw(awvalid) == awvalid /\ ~aw_en /\ ~s_axi_awready
TakesW(wvalid)   == wvalid /\ ~w_en /\ ~s_axi_wready

\* Both latches are full and the last response has been taken.
Performs == aw_en /\ w_en /\ ~s_axi_bvalid

SlaveWrite(awvalid, awaddr, wvalid, w, bready) ==
    /\ s_axi_awready' = TakesAw(awvalid)
    /\ awaddr_latched' = IF TakesAw(awvalid) THEN awaddr ELSE awaddr_latched
    /\ aw_en' = IF Performs THEN FALSE ELSE aw_en \/ TakesAw(awvalid)
    /\ s_axi_wready' = TakesW(wvalid)
    /\ w_latched' = IF TakesW(wvalid) THEN w ELSE w_latched
    /\ w_en' = IF Performs THEN FALSE ELSE w_en \/ TakesW(wvalid)
    /\ mm_dev' = IF Performs THEN WriteReg(mm_dev, awaddr_latched, w_latched) ELSE mm_dev
    /\ s_axi_bvalid' = IF s_axi_bvalid THEN ~bready ELSE Performs

TakesAr(arvalid) == arvalid /\ ~ar_en /\ ~s_axi_arready
Samples == ar_en /\ ~s_axi_rvalid

SlaveRead(arvalid, araddr, rready) ==
    /\ s_axi_arready' = TakesAr(arvalid)
    /\ araddr_latched' = IF TakesAr(arvalid) THEN araddr ELSE araddr_latched
    /\ ar_en' = IF s_axi_rvalid /\ rready THEN FALSE ELSE ar_en \/ TakesAr(arvalid)
    /\ s_axi_rdata' = IF Samples THEN mm_dev[araddr_latched] ELSE s_axi_rdata
    /\ s_axi_rvalid' = IF s_axi_rvalid THEN ~rready ELSE Samples

==============================================================================
