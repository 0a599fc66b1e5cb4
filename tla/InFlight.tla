------------------------------ MODULE InFlight -------------------------------
(***************************************************************************)
(* Where a transaction is while the bridge (AxiBridge) and its slave       *)
(* (AxiMemory) work on it: the parts of the invariants of the systems that *)
(* put the two together.                                                   *)
(***************************************************************************)
EXTENDS AxiBridge, AxiMemory

\* At most one of the two FSMs is the one to move: the AXI FSM is idle, about
\* to start, at work, or done, and the Wishbone FSM waits for it exactly while
\* it is not idle for good.
Handover ==
    /\ wb_state = "IDLE" => axi_state = "IDLE" /\ ~axi_start /\ ~axi_done
    /\ wb_state = "WAIT" => ~s_wb_ack
    /\ wb_state = "WAIT" /\ axi_state = "IDLE" => (axi_start <=> ~axi_done)
    /\ axi_state # "IDLE" => ~axi_start /\ ~axi_done

WriteQuiet == ~m_aw.valid /\ ~m_w.valid /\ ~ps_aw.full /\ ~ps_w.full
ReadQuiet  == ~m_ar.valid /\ ~ps_ar.full

\* The address (data) of the write is in one place: offered on its channel, or
\* accepted by the PS, as psAdr, until the write has been performed.
WriteInFlight(psAdr) ==
    IF axi_state = "WRITE"
      THEN /\ axi_req.we
           /\ m_bready
           /\ m_aw.addr = axi_req.adr
           /\ m_w.data = axi_req.dat /\ m_w.strb = axi_req.sel
           /\ ps_aw.full => ps_aw.addr = psAdr
           /\ ps_w.full => ps_w.data = axi_req.dat /\ ps_w.strb = axi_req.sel
           /\ IF ps_b.valid THEN WriteQuiet
              ELSE (m_aw.valid <=> ~ps_aw.full) /\ (m_w.valid <=> ~ps_w.full)
      ELSE WriteQuiet /\ ~ps_b.valid

ReadInFlight(psAdr) ==
    IF axi_state = "READ"
      THEN /\ ~axi_req.we
           /\ m_rready
           /\ m_ar.addr = axi_req.adr
           /\ ps_ar.full => ps_ar.addr = psAdr
           /\ IF ps_r.valid THEN ReadQuiet ELSE m_ar.valid <=> ~ps_ar.full
      ELSE ReadQuiet /\ ~ps_r.valid

==============================================================================
