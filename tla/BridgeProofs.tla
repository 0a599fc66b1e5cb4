---------------------------- MODULE BridgeProofs -----------------------------
(***************************************************************************)
(* Proofs about the bridge, for all addresses, words and response codes.   *)
(***************************************************************************)
EXTENDS BridgeSystem, TLAPS

LEMMA ZeroWordType == ZeroWord \in Word /\ ResetReq \in Request
BY ZeroAssumption DEF ZeroWord, Word, ResetReq, Request

LEMMA InitInv == Init => IInv
<1> SUFFICES ASSUME Init PROVE IInv
  OBVIOUS
<1> USE ZeroAssumption, RespAssumption, ZeroWordType
    DEF Init, BridgeInit, WbRegsReset, AxiRegsReset, MemInit, MasterInit
<1>1. TypeOK
  <2>1. BridgeTypeOK
    BY DEF BridgeTypeOK
  <2>2. MemTypeOK
    BY DEF MemTypeOK
  <2>3. wbm \in WbMaster /\ owed \in Int
    BY DEF WbMaster
  <2>4. QED
    BY <2>1, <2>2, <2>3 DEF TypeOK
<1>2. Handover /\ WriteInFlight(axi_req.adr) /\ ReadInFlight(axi_req.adr)
  BY DEF Handover, WriteInFlight, ReadInFlight, WriteQuiet, ReadQuiet
<1>3. ServesWhatIsPresented /\ AckMeetsStrobe
  BY DEF ServesWhatIsPresented, AckMeetsStrobe, Accepted, StrobeAccepted, stall, WbStall
<1>4. QED
  BY <1>1, <1>2, <1>3 DEF IInv

LEMMA MergeType ==
    ASSUME NEW old \in Word, NEW new \in Word, NEW sel
    PROVE  Merge(old, new, sel) \in Word
BY DEF Merge, Word

\* Typing, process by process.
LEMMA MasterType == TypeOK /\ MasterProcess(stall, s_wb_ack, Request) => (wbm \in WbMaster /\ owed \in Int)'
<1> SUFFICES ASSUME TypeOK, MasterProcess(stall, s_wb_ack, Request) PROVE wbm' \in WbMaster /\ owed' \in Int
  OBVIOUS
<1>1. OwedNext(stall, s_wb_ack) \in Int
  BY DEF TypeOK, OwedNext
<1>2. CASE MasterHold(stall, s_wb_ack)
  BY <1>1, <1>2 DEF MasterHold, TypeOK
<1>3. CASE MasterStrobe(stall, s_wb_ack, Request)
  BY <1>1, <1>3 DEF MasterStrobe, WbMaster
<1>4. CASE MasterPause(stall, s_wb_ack)
  BY <1>1, <1>4 DEF MasterPause, TypeOK, WbMaster
<1>5. QED
  BY <1>2, <1>3, <1>4 DEF MasterProcess

LEMMA WbType ==
    TypeOK /\ WbProcess(wbm) =>
      (/\ wb_state \in {"IDLE", "WAIT"} /\ s_wb_ack \in BOOLEAN
       /\ s_wb_dat_o \in Word /\ axi_start \in BOOLEAN /\ axi_req \in Request)'
BY DEF TypeOK, BridgeTypeOK, WbMaster, WbProcess, WbIdle, WbAccept, WbWait, WbRespond

LEMMA AxiType ==
    ASSUME TypeOK, NEW awready \in BOOLEAN, NEW wready \in BOOLEAN, NEW arready \in BOOLEAN,
           AxiProcess(awready, wready, ps_b, arready, ps_r)
    PROVE  (/\ axi_state \in {"IDLE", "WRITE", "READ"} /\ axi_done \in BOOLEAN
            /\ axi_rdata \in Word /\ axi_resp \in Resp
            /\ m_aw \in [valid : BOOLEAN, addr : Adr]
            /\ m_w \in [valid : BOOLEAN, data : Word, strb : SUBSET Lanes]
            /\ m_bready \in BOOLEAN
            /\ m_ar \in [valid : BOOLEAN, addr : Adr] /\ m_rready \in BOOLEAN)'
<1> USE DEF TypeOK, BridgeTypeOK
<1>1. CASE AxiIdle
  BY <1>1 DEF AxiIdle
<1>2. CASE AxiStartWrite
  BY <1>2 DEF AxiStartWrite, Request
<1>3. CASE AxiStartRead
  BY <1>3 DEF AxiStartRead, Request
<1>4. CASE AxiWrite(awready, wready, ps_b.valid, ps_b.resp)
  BY <1>4 DEF AxiWrite, MemTypeOK
<1>5. CASE AxiRead(arready, ps_r.valid, ps_r.data, ps_r.resp)
  BY <1>5 DEF AxiRead, MemTypeOK
<1>6. QED
  BY <1>1, <1>2, <1>3, <1>4, <1>5 DEF AxiProcess

LEMMA PsType ==
    ASSUME TypeOK, NEW awready \in BOOLEAN, NEW wready \in BOOLEAN, NEW arready \in BOOLEAN,
           PsProcess(awready, wready, arready, m_aw, m_w, m_bready, m_ar, m_rready)
    PROVE  MemTypeOK'
<1> USE DEF TypeOK, BridgeTypeOK, MemTypeOK
<1>1. (/\ mem \in [Adr -> Word] /\ ps_aw \in [full : BOOLEAN, addr : Adr]
       /\ ps_w \in [full : BOOLEAN, data : Word, strb : SUBSET Lanes]
       /\ ps_b \in [valid : BOOLEAN, resp : Resp])'
  <2>1. CASE CollectWrite(awready, wready, m_aw, m_w, m_bready)
    BY <2>1 DEF CollectWrite
  <2>2. CASE PerformWrite(awready, wready)
    <3>1. Store(mem, ps_aw.addr, ps_w.data, ps_w.strb) \in [Adr -> Word]
      BY MergeType DEF Store
    <3>2. PICK resp \in Resp :
            /\ ps_b' = [valid |-> TRUE, resp |-> resp]
            /\ mem' = IF resp = OKAY
                        THEN Store(mem, ps_aw.addr, ps_w.data, ps_w.strb) ELSE mem
      BY <2>2 DEF PerformWrite
    <3>3. mem' \in [Adr -> Word]
      BY <3>1, <3>2
    <3>4. QED
      BY <2>2, <3>2, <3>3 DEF PerformWrite
  <2>3. QED
    BY <2>1, <2>2 DEF PsProcess
<1>2. (/\ ps_ar \in [full : BOOLEAN, addr : Adr]
       /\ ps_r \in [valid : BOOLEAN, data : Word, resp : Resp])'
  <2>1. CASE CollectRead(arready, m_ar, m_rready)
    BY <2>1 DEF CollectRead
  <2>2. CASE PerformRead(arready)
    <3>1. PICK resp \in Resp, d \in Word : ps_r' = [valid |-> TRUE, data |-> d, resp |-> resp]
      BY <2>2 DEF PerformRead
    <3>2. QED
      BY <2>2, <3>1 DEF PerformRead
  <2>3. QED
    BY <2>1, <2>2 DEF PsProcess
<1>3. QED
  BY <1>1, <1>2

LEMMA StepType == TypeOK /\ Next => TypeOK'
BY MasterType, WbType, AxiType, PsType DEF Next, Tick, TypeOK, BridgeTypeOK

------------------------------------------------------------------------------
\* The handover between the two FSMs, one case per action of the Wishbone FSM.
LEMMA StepHandover ==
    ASSUME IInv, NEW awready \in BOOLEAN, NEW wready \in BOOLEAN, NEW arready \in BOOLEAN,
           Tick(awready, wready, arready)
    PROVE  Handover'
<1> USE DEF Handover, IInv, TypeOK, BridgeTypeOK, Tick, AxiProcess,
            AxiIdle, AxiStartWrite, AxiStartRead, AxiWrite, AxiRead
<1>1. CASE WbIdle(wbm)
  BY <1>1 DEF WbIdle
<1>2. CASE WbAccept(wbm)
  BY <1>2 DEF WbAccept
<1>3. CASE WbWait
  BY <1>3 DEF WbWait
<1>4. CASE WbRespond
  BY <1>4 DEF WbRespond
<1>5. QED
  BY <1>1, <1>2, <1>3, <1>4 DEF WbProcess

\* While the AXI FSM is not idle the latched request does not change.
LEMMA RequestHeld ==
    ASSUME IInv, WbProcess(wbm), wb_state = "WAIT"
    PROVE  axi_req' = axi_req
BY DEF IInv, Handover, WbProcess, WbIdle, WbAccept, WbWait, WbRespond

LEMMA StepWriteInFlight ==
    ASSUME IInv, NEW awready \in BOOLEAN, NEW wready \in BOOLEAN, NEW arready \in BOOLEAN,
           Tick(awready, wready, arready)
    PROVE  WriteInFlight(axi_req.adr)'
<1> USE DEF IInv, TypeOK, BridgeTypeOK, MemTypeOK, WriteInFlight, WriteQuiet, Handover
<1>1. CASE AxiIdle
  BY <1>1 DEF Tick, PsProcess, CollectWrite, PerformWrite, AxiIdle
<1>2. CASE AxiStartWrite
  BY <1>2, RequestHeld DEF Tick, PsProcess, CollectWrite, PerformWrite, AxiStartWrite
<1>3. CASE AxiStartRead
  BY <1>3 DEF Tick, PsProcess, CollectWrite, PerformWrite, AxiStartRead
<1>4. CASE AxiWrite(awready, wready, ps_b.valid, ps_b.resp)
  <2>1. wb_state = "WAIT" /\ axi_req' = axi_req
    BY <1>4, RequestHeld DEF Tick, AxiWrite
  <2>2. CASE CollectWrite(awready, wready, m_aw, m_w, m_bready)
    BY <1>4, <2>1, <2>2 DEF AxiWrite, CollectWrite
  <2>3. CASE PerformWrite(awready, wready)
    BY <1>4, <2>1, <2>3 DEF AxiWrite, PerformWrite
  <2>4. QED
    BY <2>2, <2>3 DEF Tick, PsProcess
<1>5. CASE AxiRead(arready, ps_r.valid, ps_r.data, ps_r.resp)
  BY <1>5 DEF Tick, PsProcess, CollectWrite, PerformWrite, AxiRead
<1>6. QED
  BY <1>1, <1>2, <1>3, <1>4, <1>5 DEF Tick, AxiProcess

LEMMA StepReadInFlight ==
    ASSUME IInv, NEW awready \in BOOLEAN, NEW wready \in BOOLEAN, NEW arready \in BOOLEAN,
           Tick(awready, wready, arready)
    PROVE  ReadInFlight(axi_req.adr)'
<1> USE DEF IInv, TypeOK, BridgeTypeOK, MemTypeOK, ReadInFlight, ReadQuiet, Handover
<1>1. CASE AxiIdle
  BY <1>1 DEF Tick, PsProcess, CollectRead, PerformRead, AxiIdle
<1>2. CASE AxiStartWrite
  BY <1>2 DEF Tick, PsProcess, CollectRead, PerformRead, AxiStartWrite
<1>3. CASE AxiStartRead
  BY <1>3, RequestHeld DEF Tick, PsProcess, CollectRead, PerformRead, AxiStartRead
<1>4. CASE AxiWrite(awready, wready, ps_b.valid, ps_b.resp)
  BY <1>4 DEF Tick, PsProcess, CollectRead, PerformRead, AxiWrite
<1>5. CASE AxiRead(arready, ps_r.valid, ps_r.data, ps_r.resp)
  <2>1. wb_state = "WAIT" /\ axi_req' = axi_req
    BY <1>5, RequestHeld DEF Tick, AxiRead
  <2>2. CASE CollectRead(arready, m_ar, m_rready)
    BY <1>5, <2>1, <2>2 DEF AxiRead, CollectRead
  <2>3. CASE PerformRead(arready)
    BY <1>5, <2>1, <2>3 DEF AxiRead, PerformRead
  <2>4. QED
    BY <2>2, <2>3 DEF Tick, PsProcess
<1>6. QED
  BY <1>1, <1>2, <1>3, <1>4, <1>5 DEF Tick, AxiProcess

\* The master holds what the bridge serves: it is stalled until the ack.
LEMMA MasterHeld ==
    ASSUME IInv, MasterProcess(stall, s_wb_ack, Request), wb_state = "WAIT"
    PROVE  wbm' = wbm
<1>1. wbm.stb /\ stall
  BY DEF IInv, ServesWhatIsPresented, Handover, stall, WbStall
<1>2. QED
  BY <1>1 DEF MasterProcess, MasterHold, MasterStrobe, MasterPause

LEMMA StepMaster ==
    ASSUME IInv, MasterProcess(stall, s_wb_ack, Request), WbProcess(wbm), wbm' \in WbMaster
    PROVE  (ServesWhatIsPresented /\ AckMeetsStrobe)'
<1>1. owed' = 0
  <2>1. owed' = OwedNext(stall, s_wb_ack)
    BY DEF MasterProcess, MasterHold, MasterStrobe, MasterPause
  <2>2. QED
    BY <2>1 DEF OwedNext, IInv, AckMeetsStrobe, Accepted
<1>2. ServesWhatIsPresented'
  <2>1. CASE WbIdle(wbm)
    BY <2>1 DEF WbIdle, ServesWhatIsPresented
  <2>2. CASE WbAccept(wbm)
    <3>1. wbm.stb /\ stall
      BY <2>2 DEF WbAccept, WbRequested, stall, WbStall
    <3>2. wbm' = wbm
      BY <3>1 DEF MasterProcess, MasterHold, MasterStrobe, MasterPause
    <3>3. QED
      BY <2>2, <3>2 DEF WbAccept, WbRequested, ServesWhatIsPresented
  <2>3. CASE WbWait
    BY <2>3, MasterHeld DEF WbWait, IInv, ServesWhatIsPresented
  <2>4. CASE WbRespond
    BY <2>4, MasterHeld DEF WbRespond, IInv, ServesWhatIsPresented
  <2>5. QED
    BY <2>1, <2>2, <2>3, <2>4 DEF WbProcess
<1>3. (s_wb_ack <=> Accepted)'
  <2>1. s_wb_ack' \in BOOLEAN
    BY WbType DEF IInv
  <2>2. QED
    BY <1>2, <2>1 DEF ServesWhatIsPresented, Accepted, StrobeAccepted, stall, WbStall
<1>4. QED
  BY <1>1, <1>3, <1>2 DEF AckMeetsStrobe

LEMMA StepInv == IInv /\ [Next]_vars => IInv'
<1> SUFFICES ASSUME IInv, [Next]_vars PROVE IInv'
  OBVIOUS
<1>1. CASE Next
  <2>1. PICK awready \in BOOLEAN, wready \in BOOLEAN, arready \in BOOLEAN :
          Tick(awready, wready, arready)
    BY <1>1 DEF Next
  <2>2. TypeOK'
    BY <1>1, StepType DEF IInv
  <2>3. Handover' /\ WriteInFlight(axi_req.adr)' /\ ReadInFlight(axi_req.adr)'
    BY <2>1, StepHandover, StepWriteInFlight, StepReadInFlight
  <2>4. ServesWhatIsPresented' /\ AckMeetsStrobe'
    BY <2>1, <2>2, StepMaster DEF Tick, TypeOK
  <2>5. QED
    BY <2>2, <2>3, <2>4 DEF IInv
<1>2. CASE UNCHANGED vars
  BY <1>2 DEF vars, bridgeVars, wbVars, axiVars, psVars, masterVars, IInv, TypeOK,
     BridgeTypeOK, MemTypeOK, Handover, WriteInFlight, WriteQuiet, ReadInFlight, ReadQuiet,
     ServesWhatIsPresented, AckMeetsStrobe, Accepted, StrobeAccepted, stall, WbStall
<1>3. QED
  BY <1>1, <1>2

\* The inductive invariant, for every number of addresses, lanes and values.
THEOREM BridgeInvariant == Spec => []IInv
BY InitInv, StepInv, PTL DEF Spec

\* The bridge serves the request its master is presenting, and acknowledges
\* exactly the strobe that is accepted.
THEOREM BridgeServes == Spec => [](ServesWhatIsPresented /\ AckMeetsStrobe)
<1>1. IInv => ServesWhatIsPresented /\ AckMeetsStrobe
  BY DEF IInv
<1>2. QED
  BY <1>1, BridgeInvariant, PTL

\* No response of the PS comes when the bridge does not wait for it, and no
\* trace of a transaction is left when the AXI FSM is idle again.
THEOREM BridgeResponses == Spec => []ResponseAwaited
<1>1. IInv => ResponseAwaited
  BY DEF IInv, ResponseAwaited, WriteInFlight, WriteQuiet, ReadInFlight, ReadQuiet,
         TypeOK, BridgeTypeOK
<1>2. QED
  BY <1>1, BridgeInvariant, PTL

\* The AXI channels of the bridge keep valid and payload up until ready.
THEOREM BridgeAxiStable == Spec => AxiStable
<1> DEFINE Stable == /\ AxiHeld(m_aw, ps_aw'.full)
                     /\ AxiHeld(m_w, ps_w'.full)
                     /\ AxiHeld(m_ar, ps_ar'.full)
<1>1. ASSUME IInv, [Next]_vars PROVE [Stable]_vars
  <2>1. SUFFICES ASSUME Next PROVE Stable
    BY <1>1
  <2>2. PICK awready \in BOOLEAN, wready \in BOOLEAN, arready \in BOOLEAN :
          Tick(awready, wready, arready)
    BY <2>1 DEF Next
  <2> USE <1>1, <2>2 DEF IInv, TypeOK, BridgeTypeOK, MemTypeOK, AxiHeld, Tick, PsProcess,
          WriteInFlight, WriteQuiet, ReadInFlight, ReadQuiet,
          CollectWrite, PerformWrite, CollectRead, PerformRead
  <2>3. CASE AxiIdle
    BY <2>3 DEF AxiIdle
  <2>4. CASE AxiStartWrite
    BY <2>4 DEF AxiStartWrite
  <2>5. CASE AxiStartRead
    BY <2>5 DEF AxiStartRead
  <2>6. CASE AxiWrite(awready, wready, ps_b.valid, ps_b.resp)
    BY <2>6 DEF AxiWrite
  <2>7. CASE AxiRead(arready, ps_r.valid, ps_r.data, ps_r.resp)
    BY <2>7 DEF AxiRead
  <2>8. QED
    BY <2>3, <2>4, <2>5, <2>6, <2>7 DEF AxiProcess
<1>2. QED
  BY <1>1, BridgeInvariant, PTL DEF Spec, AxiStable

------------------------------------------------------------------------------
(***************************************************************************)
(* Refinement.  A clock edge is one of Take, ServeWrite, ServeRead and     *)
(* Answer of the port, or a stutter; which one is told by the Wishbone FSM *)
(* and, while it waits, by the AXI FSM.                                    *)
(***************************************************************************)
\* The instance has its own copies of the definitions of BusTypes.
LEMMA SameTypes ==
    /\ Port!Word = Word /\ Port!Request = Request
    /\ \A old, new, sel : Port!Merge(old, new, sel) = Merge(old, new, sel)
BY DEF Port!Word, Word, Port!Request, Request, Port!Merge, Merge

LEMMA PortInit == Init => Port!PortInit
<1> SUFFICES ASSUME Init PROVE Port!PortInit
  OBVIOUS
<1> USE ZeroAssumption, ZeroWordType
    DEF Init, BridgeInit, WbRegsReset, AxiRegsReset, MemInit
<1>1. mem \in [Adr -> Word] /\ axi_req \in Request /\ s_wb_dat_o \in Word
  OBVIOUS
<1>2. ps_b.valid = FALSE /\ ps_r.valid = FALSE /\ axi_rdata \in Word
  OBVIOUS
<1>3. QED
  BY <1>1, <1>2, SameTypes DEF Port!PortInit

\* Between transactions nothing the port is made of moves.
LEMMA IdlePort ==
    ASSUME IInv, NEW awready \in BOOLEAN, NEW wready \in BOOLEAN, NEW arready \in BOOLEAN,
           Tick(awready, wready, arready), axi_state = "IDLE"
    PROVE  /\ mem' = mem /\ ~ps_b'.valid /\ ~ps_r'.valid /\ ~ps_b.valid /\ ~ps_r.valid
           /\ axi_rdata' = axi_rdata /\ axi_resp' = axi_resp /\ axi_done' = FALSE
<1> USE DEF IInv, TypeOK, BridgeTypeOK, MemTypeOK, WriteInFlight, WriteQuiet,
        ReadInFlight, ReadQuiet, Tick, PsProcess
<1>1. mem' = mem /\ ~ps_b'.valid /\ ~ps_b.valid
  BY DEF CollectWrite, PerformWrite
<1>2. ~ps_r'.valid /\ ~ps_r.valid
  BY DEF CollectRead, PerformRead
<1>3. axi_rdata' = axi_rdata /\ axi_resp' = axi_resp /\ axi_done' = FALSE
  BY DEF AxiProcess, AxiIdle, AxiStartWrite, AxiStartRead, AxiWrite, AxiRead
<1>4. QED
  BY <1>1, <1>2, <1>3

LEMMA PortStep ==
    ASSUME IInv, IInv', NEW awready \in BOOLEAN, NEW wready \in BOOLEAN, NEW arready \in BOOLEAN,
           Tick(awready, wready, arready)
    PROVE  [Port!PortNext]_(Port!portVars)
<1> USE DEF Port!PortNext, Port!portVars
<1>1. CASE wb_state = "IDLE"
  <2>1. axi_state = "IDLE" /\ ~axi_done
    BY <1>1 DEF IInv, Handover
  <2>2. CASE WbIdle(wbm)
    BY <1>1, <2>1, <2>2, IdlePort DEF WbIdle
  <2>3. CASE WbAccept(wbm)
    BY <1>1, <2>1, <2>3, IdlePort, SameTypes DEF WbAccept, Port!Take, IInv, TypeOK, WbMaster
  <2>4. QED
    BY <1>1, <2>2, <2>3 DEF Tick, WbProcess, WbWait, WbRespond
<1>2. CASE wb_state = "WAIT" /\ axi_state = "IDLE"
  <2>1. CASE WbWait
    BY <1>2, <2>1, IdlePort DEF WbWait
  <2>2. CASE WbRespond
    BY <1>2, <2>2, IdlePort DEF WbRespond, Port!Answer
  <2>3. QED
    BY <1>2, <2>1, <2>2 DEF Tick, WbProcess, WbIdle, WbAccept
<1>3. CASE wb_state = "WAIT" /\ axi_state = "WRITE"
  <2>1. /\ wb_state' = wb_state /\ axi_req' = axi_req /\ s_wb_dat_o' = s_wb_dat_o
        /\ ~axi_done /\ axi_req.we /\ axi_rdata' = axi_rdata /\ m_bready
        /\ ~ps_r.valid /\ ~ps_r'.valid
    BY <1>3 DEF IInv, Handover, WriteInFlight, ReadInFlight, ReadQuiet, Tick, WbProcess,
       WbIdle, WbAccept, WbWait, WbRespond, AxiProcess, AxiIdle, AxiStartWrite, AxiStartRead,
       AxiWrite, AxiRead, PsProcess, CollectRead, PerformRead, TypeOK, MemTypeOK
  <2>2. AxiWrite(awready, wready, ps_b.valid, ps_b.resp)
    BY <1>3 DEF Tick, AxiProcess, AxiIdle, AxiStartWrite, AxiStartRead, AxiRead
  <2>3. CASE PerformWrite(awready, wready)
    <3>1. PICK resp \in Resp :
            /\ ps_b' = [valid |-> TRUE, resp |-> resp]
            /\ mem' = IF resp = OKAY
                        THEN Store(mem, ps_aw.addr, ps_w.data, ps_w.strb) ELSE mem
      BY <2>3 DEF PerformWrite
    <3>2. /\ ~ps_b.valid /\ ps_aw.addr = axi_req.adr
          /\ ps_w.data = axi_req.dat /\ ps_w.strb = axi_req.sel
      BY <1>3, <2>3 DEF PerformWrite, IInv, WriteInFlight
    <3>3. Store(mem, ps_aw.addr, ps_w.data, ps_w.strb) = Port!Written(mem, axi_req)
      BY <3>2, SameTypes DEF Store, Port!Written
    <3>4. axi_done' = axi_done /\ ps_b'.valid /\ (OKAY = ps_b'.resp) = (resp = OKAY)
      BY <2>2, <3>1, <3>2 DEF AxiWrite
    <3>5. Port!ServeWrite
      BY <1>3, <2>1, <3>1, <3>2, <3>3, <3>4 DEF Port!ServeWrite
    <3>6. QED
      BY <3>5
  <2>4. CASE CollectWrite(awready, wready, m_aw, m_w, m_bready)
    <3>1. mem' = mem /\ ~ps_b'.valid
      BY <2>1, <2>4 DEF CollectWrite, IInv, TypeOK, MemTypeOK
    <3>2. CASE ps_b.valid
      BY <1>3, <2>1, <2>2, <3>1, <3>2 DEF AxiWrite
    <3>3. CASE ~ps_b.valid
      BY <1>3, <2>1, <2>2, <3>1, <3>3 DEF AxiWrite
    <3>4. QED
      BY <3>2, <3>3
  <2>5. QED
    BY <2>3, <2>4 DEF Tick, PsProcess
<1>4. CASE wb_state = "WAIT" /\ axi_state = "READ"
  <2>1. /\ wb_state' = wb_state /\ axi_req' = axi_req /\ s_wb_dat_o' = s_wb_dat_o
        /\ ~axi_done /\ ~axi_req.we /\ m_rready
        /\ ~ps_b.valid /\ ~ps_b'.valid /\ mem' = mem
    BY <1>4 DEF IInv, Handover, ReadInFlight, WriteInFlight, WriteQuiet, Tick, WbProcess,
       WbIdle, WbAccept, WbWait, WbRespond,
       PsProcess, CollectWrite, PerformWrite, TypeOK, MemTypeOK
  <2>2. AxiRead(arready, ps_r.valid, ps_r.data, ps_r.resp)
    BY <1>4 DEF Tick, AxiProcess, AxiIdle, AxiStartWrite, AxiStartRead, AxiWrite
  <2>3. CASE PerformRead(arready)
    <3>1. PICK resp \in Resp, d \in Word :
            /\ resp = OKAY => d = mem[ps_ar.addr]
            /\ ps_r' = [valid |-> TRUE, data |-> d, resp |-> resp]
      BY <2>3 DEF PerformRead
    <3>2. ~ps_r.valid /\ ps_ar.addr = axi_req.adr
      BY <1>4, <2>3 DEF PerformRead, IInv, ReadInFlight
    <3>3. axi_done' = axi_done
      BY <2>2, <3>2 DEF AxiRead
    <3>4. Port!ServeRead
      BY <1>4, <2>1, <3>1, <3>2, <3>3, SameTypes DEF Port!ServeRead
    <3>5. QED
      BY <3>4
  <2>4. CASE CollectRead(arready, m_ar, m_rready)
    <3>1. ~ps_r'.valid
      BY <2>1, <2>4 DEF CollectRead, IInv, TypeOK, MemTypeOK
    <3>2. CASE ps_r.valid
      BY <1>4, <2>1, <2>2, <3>1, <3>2 DEF AxiRead
    <3>3. CASE ~ps_r.valid
      BY <1>4, <2>1, <2>2, <3>1, <3>3 DEF AxiRead
    <3>4. QED
      BY <3>2, <3>3
  <2>5. QED
    BY <2>3, <2>4 DEF Tick, PsProcess
<1>5. QED
  BY <1>1, <1>2, <1>3, <1>4 DEF IInv, TypeOK, BridgeTypeOK

\* The bridge and the PS together implement the memory port: one request at a
\* time, each served exactly once, and answered with what it was served.
THEOREM BridgeRefinement == Spec => ImplementsPort
<1>1. IInv /\ IInv' /\ [Next]_vars => [Port!PortNext]_(Port!portVars)
  <2> SUFFICES ASSUME IInv, IInv', [Next]_vars PROVE [Port!PortNext]_(Port!portVars)
    OBVIOUS
  <2>1. CASE Next
    BY <2>1, PortStep DEF Next
  <2>2. CASE UNCHANGED vars
    BY <2>2 DEF vars, bridgeVars, wbVars, axiVars, psVars, Port!portVars
  <2>3. QED
    BY <2>1, <2>2
<1>2. QED
  BY <1>1, PortInit, BridgeInvariant, PTL DEF Spec, ImplementsPort, Port!PortSpec

==============================================================================
