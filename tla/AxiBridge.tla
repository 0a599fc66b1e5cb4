------------------------------ MODULE AxiBridge ------------------------------
(***************************************************************************)
(* The Wishbone to AXI4-Lite bridge, rtl/s_wb_2_m_axi_lite.v.              *)
(*                                                                         *)
(* Two clocked processes share one clock: the Wishbone slave FSM, which    *)
(* latches a request and stalls the bus until the answer is there, and     *)
(* the AXI master FSM, which turns the latched request into one write      *)
(* (AW + W + B) or one read (AR + R).  They talk through axi_start and     *)
(* axi_done.                                                               *)
(*                                                                         *)
(* The module holds the registers and one operator per process.  A process *)
(* takes its input wires as parameters and gives the value of each of its  *)
(* registers after the clock edge, so that a system is the conjunction of  *)
(* the processes that see the same edge.                                   *)
(* The constant PROT outputs are left out.                                 *)
(***************************************************************************)
EXTENDS BusTypes

VARIABLES
    wb_state,       \* Wishbone FSM: "IDLE" or "WAIT"
    s_wb_ack,       \* one-cycle answer to the master
    s_wb_dat_o,     \* read data to the master
    axi_start,      \* pulse that starts the AXI FSM
    axi_req,        \* axi_we, axi_addr, axi_wdata, axi_wstrb
    axi_state,      \* AXI FSM: "IDLE", "WRITE" or "READ"
    axi_done,       \* pulse that ends the Wishbone wait
    axi_rdata,      \* data of the last read
    axi_resp,       \* response code of the last transaction
    m_aw,           \* write address channel, as driven by the bridge
    m_w,            \* write data channel
    m_bready,
    m_ar,           \* read address channel
    m_rready

wbVars  == <<wb_state, s_wb_ack, s_wb_dat_o, axi_start, axi_req>>
axiVars == <<axi_state, axi_done, axi_rdata, axi_resp,
             m_aw, m_w, m_bready, m_ar, m_rready>>
bridgeVars == <<wbVars, axiVars>>

BridgeTypeOK ==
    /\ wb_state \in {"IDLE", "WAIT"}
    /\ s_wb_ack \in BOOLEAN
    /\ s_wb_dat_o \in Word
    /\ axi_start \in BOOLEAN
    /\ axi_req \in Request
    /\ axi_state \in {"IDLE", "WRITE", "READ"}
    /\ axi_done \in BOOLEAN
    /\ axi_rdata \in Word
    /\ axi_resp \in Resp
    /\ m_aw \in [valid : BOOLEAN, addr : Adr]
    /\ m_w \in [valid : BOOLEAN, data : Word, strb : SUBSET Lanes]
    /\ m_bready \in BOOLEAN
    /\ m_ar \in [valid : BOOLEAN, addr : Adr]
    /\ m_rready \in BOOLEAN

------------------------------------------------------------------------------
(***************************************************************************)
(* Reset.  A system starts as it is after an edge with aresetn low.        *)
(***************************************************************************)
WbRegsReset ==
    /\ wb_state = "IDLE"
    /\ s_wb_ack = FALSE
    /\ s_wb_dat_o = ZeroWord
    /\ axi_start = FALSE
    /\ axi_req = ResetReq

AxiRegsReset ==
    /\ axi_state = "IDLE"
    /\ axi_done = FALSE
    /\ axi_rdata = ZeroWord
    /\ axi_resp = OKAY
    /\ m_aw = [valid |-> FALSE, addr |-> ZeroAdr]
    /\ m_w = [valid |-> FALSE, data |-> ZeroWord, strb |-> {}]
    /\ m_bready = FALSE
    /\ m_ar = [valid |-> FALSE, addr |-> ZeroAdr]
    /\ m_rready = FALSE

BridgeInit == WbRegsReset /\ AxiRegsReset

\* An edge with aresetn low.
WbResetEdge ==
    /\ wb_state' = "IDLE"
    /\ s_wb_ack' = FALSE
    /\ s_wb_dat_o' = ZeroWord
    /\ axi_start' = FALSE
    /\ axi_req' = ResetReq

AxiResetEdge ==
    /\ axi_state' = "IDLE"
    /\ axi_done' = FALSE
    /\ axi_rdata' = ZeroWord
    /\ axi_resp' = OKAY
    /\ m_aw' = [valid |-> FALSE, addr |-> ZeroAdr]
    /\ m_w' = [valid |-> FALSE, data |-> ZeroWord, strb |-> {}]
    /\ m_bready' = FALSE
    /\ m_ar' = [valid |-> FALSE, addr |-> ZeroAdr]
    /\ m_rready' = FALSE

BridgeReset == WbResetEdge /\ AxiResetEdge

------------------------------------------------------------------------------
(***************************************************************************)
(* Faulty variants of the definitions below, each the shape of a bug the   *)
(* properties of BridgeSystem are there to exclude.                        *)
(***************************************************************************)

\* the start pulse stays up
WaitKeepsStart ==
    /\ wb_state = "WAIT"
    /\ ~axi_done
    /\ UNCHANGED <<wb_state, s_wb_ack, s_wb_dat_o, axi_start, axi_req>>

\* done is not a pulse
IdleKeepsDone ==
    /\ axi_state = "IDLE"
    /\ ~axi_start
    /\ UNCHANGED axiVars

\* the write data channel is not started
StartWithoutData ==
    /\ axi_state = "IDLE"
    /\ axi_start
    /\ axi_req.we
    /\ axi_done' = FALSE
    /\ m_aw' = [valid |-> TRUE, addr |-> axi_req.adr]
    /\ m_bready' = TRUE
    /\ axi_state' = "WRITE"
    /\ UNCHANGED <<axi_rdata, axi_resp, m_w, m_ar, m_rready>>

\* rready only comes up with the response, which is then left on the channel
StartReadNotReady ==
    /\ axi_state = "IDLE"
    /\ axi_start
    /\ ~axi_req.we
    /\ axi_done' = FALSE
    /\ m_ar' = [valid |-> TRUE, addr |-> axi_req.adr]
    /\ axi_state' = "READ"
    /\ UNCHANGED <<axi_rdata, axi_resp, m_aw, m_w, m_bready, m_rready>>

\* both write channels are dropped when the address is taken
WriteDropsBoth(awready, wready, bvalid, bresp) ==
    /\ axi_state = "WRITE"
    /\ m_aw' = [m_aw EXCEPT !.valid = @ /\ ~awready]
    /\ m_w' = [m_w EXCEPT !.valid = @ /\ ~awready]
    /\ IF bvalid
         THEN /\ m_bready' = FALSE
              /\ axi_resp' = bresp
              /\ axi_done' = TRUE
              /\ axi_state' = "IDLE"
         ELSE UNCHANGED <<m_bready, axi_resp, axi_done, axi_state>>
    /\ UNCHANGED <<axi_rdata, m_ar, m_rready>>

------------------------------------------------------------------------------
(***************************************************************************)
(* Wishbone slave process.                                                 *)
(***************************************************************************)

\* s_wb_stall is combinational: it follows stb until the ack cycle.
WbStall(wb) == wb.cyc /\ wb.stb /\ ~s_wb_ack

\* A request the bridge takes: not the one it is acknowledging now.
WbRequested(wb) == wb.cyc /\ wb.stb /\ ~s_wb_ack

WbIdle(wb) ==
    /\ wb_state = "IDLE"
    /\ ~WbRequested(wb)
    /\ s_wb_ack' = FALSE
    /\ UNCHANGED <<wb_state, s_wb_dat_o, axi_start, axi_req>>

WbAccept(wb) ==
    /\ wb_state = "IDLE"
    /\ WbRequested(wb)
    /\ s_wb_ack' = FALSE
    /\ axi_start' = TRUE
    /\ axi_req' = wb.req
    /\ wb_state' = "WAIT"
    /\ UNCHANGED s_wb_dat_o

WbWait ==
    /\ wb_state = "WAIT"
    /\ ~axi_done
    /\ axi_start' = FALSE
    /\ UNCHANGED <<wb_state, s_wb_ack, s_wb_dat_o, axi_req>>

WbRespond ==
    /\ wb_state = "WAIT"
    /\ axi_done
    /\ axi_start' = FALSE
    /\ s_wb_dat_o' = IF axi_req.we THEN s_wb_dat_o ELSE axi_rdata
    /\ s_wb_ack' = TRUE
    /\ wb_state' = "IDLE"
    /\ UNCHANGED axi_req

WbProcess(wb) == WbIdle(wb) \/ WbAccept(wb) \/ WbWait \/ WbRespond

------------------------------------------------------------------------------
(***************************************************************************)
(* AXI master process.  The inputs are the slave's side of the channels.   *)
(***************************************************************************)

AxiIdle ==
    /\ axi_state = "IDLE"
    /\ ~axi_start
    /\ axi_done' = FALSE
    /\ UNCHANGED <<axi_state, axi_rdata, axi_resp,
                   m_aw, m_w, m_bready, m_ar, m_rready>>

AxiStartWrite ==
    /\ axi_state = "IDLE"
    /\ axi_start
    /\ axi_req.we
    /\ axi_done' = FALSE
    /\ m_aw' = [valid |-> TRUE, addr |-> axi_req.adr]
    /\ m_w' = [valid |-> TRUE, data |-> axi_req.dat, strb |-> axi_req.sel]
    /\ m_bready' = TRUE
    /\ axi_state' = "WRITE"
    /\ UNCHANGED <<axi_rdata, axi_resp, m_ar, m_rready>>

AxiStartRead ==
    /\ axi_state = "IDLE"
    /\ axi_start
    /\ ~axi_req.we
    /\ axi_done' = FALSE
    /\ m_ar' = [valid |-> TRUE, addr |-> axi_req.adr]
    /\ m_rready' = TRUE
    /\ axi_state' = "READ"
    /\ UNCHANGED <<axi_rdata, axi_resp, m_aw, m_w, m_bready>>

AxiWrite(awready, wready, bvalid, bresp) ==
    /\ axi_state = "WRITE"
    /\ m_aw' = [m_aw EXCEPT !.valid = @ /\ ~awready]
    /\ m_w' = [m_w EXCEPT !.valid = @ /\ ~wready]
    /\ IF bvalid
         THEN /\ m_bready' = FALSE
              /\ axi_resp' = bresp
              /\ axi_done' = TRUE
              /\ axi_state' = "IDLE"
         ELSE UNCHANGED <<m_bready, axi_resp, axi_done, axi_state>>
    /\ UNCHANGED <<axi_rdata, m_ar, m_rready>>

AxiRead(arready, rvalid, rdata, rresp) ==
    /\ axi_state = "READ"
    /\ m_ar' = [m_ar EXCEPT !.valid = @ /\ ~arready]
    /\ IF rvalid
         THEN /\ m_rready' = FALSE
              /\ axi_rdata' = rdata
              /\ axi_resp' = rresp
              /\ axi_done' = TRUE
              /\ axi_state' = "IDLE"
         ELSE UNCHANGED <<m_rready, axi_rdata, axi_resp, axi_done, axi_state>>
    /\ UNCHANGED <<m_aw, m_w, m_bready>>

AxiProcess(awready, wready, b, arready, r) ==
    \/ AxiIdle
    \/ AxiStartWrite
    \/ AxiStartRead
    \/ AxiWrite(awready, wready, b.valid, b.resp)
    \/ AxiRead(arready, r.valid, r.data, r.resp)

==============================================================================
