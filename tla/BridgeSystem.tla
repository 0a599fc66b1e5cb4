---------------------------- MODULE BridgeSystem -----------------------------
(***************************************************************************)
(* The bridge between a Wishbone master and the memory of the PS, all on   *)
(* one clock.                                                              *)
(***************************************************************************)
EXTENDS InFlight, PipelinedMaster

vars == <<bridgeVars, psVars, masterVars>>

Init == BridgeInit /\ MemInit(ZeroAdr, ZeroWord) /\ MasterInit

------------------------------------------------------------------------------
stall    == WbStall(wbm)
Accepted == StrobeAccepted(stall)

\* One clock edge.
Tick(awready, wready, arready) ==
    /\ WbProcess(wbm)
    /\ AxiProcess(awready, wready, ps_b, arready, ps_r)
    /\ PsProcess(awready, wready, arready, m_aw, m_w, m_bready, m_ar, m_rready)
    /\ MasterProcess(stall, s_wb_ack, Request)

Next == \E awready, wready, arready \in BOOLEAN : Tick(awready, wready, arready)

\* The clock runs, and the PS answers: it leaves no channel up for ever, and
\* performs what it has accepted.
Fairness ==
    /\ WF_vars(Next)
    /\ []<>~m_aw.valid /\ []<>~m_w.valid /\ []<>~m_ar.valid
    /\ []<>~(ps_aw.full /\ ps_w.full) /\ []<>~ps_ar.full

Spec     == Init /\ [][Next]_vars
FairSpec == Spec /\ Fairness

TypeOK ==
    /\ BridgeTypeOK
    /\ MemTypeOK
    /\ wbm \in WbMaster
    /\ owed \in Int

------------------------------------------------------------------------------
(***************************************************************************)
(* Safety.                                                                 *)
(***************************************************************************)

\* The request in flight is the one the master is still presenting, from the
\* cycle after it was taken to the cycle of its ack: the bridge never answers
\* a request with the transaction of another, and never runs a request twice
\* (s_wb_2_m_axi_lite.v:155, the !s_wb_ack of the accept condition).
ServesWhatIsPresented ==
    wb_state = "WAIT" \/ s_wb_ack => wbm.cyc /\ wbm.stb /\ axi_req = wbm.req

\* An ack comes exactly in the cycle the strobe is accepted, so no master is
\* ever owed an answer and none gets an answer it did not ask for.
AckMeetsStrobe == owed = 0 /\ (s_wb_ack <=> Accepted)

\* AXI channel rule: once up, valid and its payload stay until ready.
AxiHeld(ch, taken) == ch.valid /\ ~taken => ch' = ch
AxiStable ==
    [][/\ AxiHeld(m_aw, ps_aw'.full)
       /\ AxiHeld(m_w, ps_w'.full)
       /\ AxiHeld(m_ar, ps_ar'.full)]_vars

\* A pending response is always awaited: the bridge keeps bready (rready) up
\* from the start of the transaction, and the AXI FSM is back in IDLE, with
\* nothing of the transaction left on any channel, when it reports done.
ResponseAwaited ==
    /\ ps_b.valid => axi_state = "WRITE" /\ m_bready /\ ~m_aw.valid /\ ~m_w.valid
    /\ ps_r.valid => axi_state = "READ" /\ m_rready /\ ~m_ar.valid
    /\ axi_state = "IDLE" => /\ ~m_aw.valid /\ ~m_w.valid /\ ~m_ar.valid
                             /\ ~ps_aw.full /\ ~ps_w.full /\ ~ps_ar.full

\* The bridge with the PS behind it is a memory port.
Port == INSTANCE MemPort WITH
    phase  <- IF wb_state = "IDLE" THEN "idle"
              ELSE IF ps_b.valid \/ ps_r.valid \/ axi_done THEN "served" ELSE "taken",
    req    <- axi_req,
    ok     <- OKAY = IF ps_b.valid THEN ps_b.resp
                     ELSE IF ps_r.valid THEN ps_r.resp ELSE axi_resp,
    result <- IF ps_r.valid THEN ps_r.data ELSE axi_rdata,
    answer <- s_wb_dat_o

ImplementsPort == Port!PortSpec

\* The inductive invariant: the transaction is where its address says, and the
\* master is served what it presents.
IInv ==
    /\ TypeOK
    /\ Handover
    /\ WriteInFlight(axi_req.adr)
    /\ ReadInFlight(axi_req.adr)
    /\ ServesWhatIsPresented
    /\ AckMeetsStrobe

\* Every strobe is answered, if the PS answers.
EveryStrobeAnswered == (wbm.cyc /\ wbm.stb) ~> s_wb_ack

==============================================================================
