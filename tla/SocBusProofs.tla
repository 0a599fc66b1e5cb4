----------------------------- MODULE SocBusProofs ----------------------------
(***************************************************************************)
(* Proofs about the bus of the SoC with its two masters: for all requests  *)
(* and all values, answers reach the master that is owed them, each half   *)
(* is served once, and each write is snooped once by the other cache.      *)
(***************************************************************************)
EXTENDS SocBusSystem, SequenceTheorems, TLAPS

\* The data cache is 0, the instruction cache 1.
LEMMA TwoMasters == Master = {0, 1}
BY MastersAssumption DEF Master

\* Short queues
LEMMA Queues ==
    ASSUME NEW S, NEW q \in S, NEW r \in S
    PROVE  /\ Append(<<>>, r) = <<r>> /\ Tail(<<r>>) = <<>> /\ Head(<<r>>) = r
           /\ <<r>> # <<>> /\ <<r>> \in Seq(S) /\ <<>> \in Seq(S)
           /\ Append(<<q>>, r) # <<>> /\ Tail(Append(<<q>>, r)) = <<r>>
<1>1. <<q>> \in Seq(S) /\ Len(<<q>>) = 1 /\ <<q, r>> \in Seq(S) /\ Len(<<q, r>>) = 2
  OBVIOUS
<1>2. Append(<<q>>, r) \in Seq(S) /\ Len(Append(<<q>>, r)) = 2
      /\ \A i \in 1..2 : Append(<<q>>, r)[i] = <<q, r>>[i]
  BY <1>1, AppendProperties
<1>3. Append(<<q>>, r) = <<q, r>>
  BY <1>1, <1>2, SeqEqual
<1>4. Tail(<<q, r>>) = <<r>> /\ <<q, r>> # <<>>
  OBVIOUS
<1>5. Append(<<>>, r) = <<r>> /\ Tail(<<r>>) = <<>> /\ Head(<<r>>) = r
  OBVIOUS
<1>6. <<r>> # <<>> /\ <<r>> \in Seq(S) /\ <<>> \in Seq(S)
  OBVIOUS
<1>7. QED
  BY <1>3, <1>4, <1>5, <1>6

------------------------------------------------------------------------------
\* Arbiter: one master has the bus, and keeps it while it has cyc.
LEMMA Grants ==
    ASSUME TypeOK
    PROVE  /\ EarlySel \in Master
           /\ wb_masters[selected].cyc => EarlySel = selected
           /\ \A m \in Master : Granted(m) <=> m = EarlySel /\ Bus.cyc
           /\ ArbiterEdge => selected' = EarlySel
<1>1. selected \in Master /\ Wanting \subseteq {0, 1}
  BY TwoMasters DEF TypeOK, BusTypeOK, Wanting
<1>2. Wanting # {} => Lowest(Wanting) \in Wanting
  <2>1. ASSUME Wanting # {} PROVE \E m \in Wanting : \A n \in Wanting : m <= n
    <3>1. CASE 0 \in Wanting
      <4>1. \A n \in Wanting : 0 <= n
        BY <1>1
      <4>2. QED
        BY <3>1, <4>1
    <3>2. CASE 0 \notin Wanting
      <4>1. Wanting = {1}
        BY <1>1, <2>1, <3>2
      <4>2. QED
        BY <4>1
    <3>3. QED
      BY <3>1, <3>2
  <2>2. QED
    BY <2>1 DEF Lowest
<1>3. EarlySel \in Master
  BY <1>1, <1>2 DEF EarlySel, Candidate, Wanting
<1>4. QED
  BY <1>3 DEF EarlySel, Busy, Granted, Bus, ArbiterEdge

\* Only that master sees an ack, or a strobe go through.
LEMMA OthersWait ==
    ASSUME TypeOK, NEW m \in Master, m # EarlySel
    PROVE  ~Accepted(m) /\ ~Ack(m)
BY Grants DEF Accepted, Ack, Stall, MasterAck, MasterStall

\* That master sees the slave its address decodes to.
LEMMA GrantedSees ==
    ASSUME TypeOK, StrobesHaveCyc
    PROVE  /\ Ack(EarlySel) <=> Bus.cyc /\ SlaveAck(mem.ack)
           /\ Accepted(EarlySel) <=> Bus.cyc /\ Bus.stb /\ ~SlaveStall(MemStall)
           /\ Bus.cyc => (Stall(EarlySel) <=> SlaveStall(MemStall))
           /\ Bus \in WbMaster /\ (Bus.stb => Bus.cyc)
BY Grants DEF Accepted, Ack, Stall, MasterAck, MasterStall, Bus, StrobesHaveCyc, TypeOK, BusTypeOK

\* A master holds a stalled strobe, and keeps cyc and slave while it is owed.
LEMMA MasterStep ==
    ASSUME TypeOK, StrobesHaveCyc, MastersEdge, NEW m \in Master
    PROVE  /\ wb_masters'[m] \in WbMaster
           /\ wb_masters'[m].stb => wb_masters'[m].cyc
           /\ wb_masters[m].stb /\ Stall(m) => wb_masters'[m] = wb_masters[m]
           /\ OwedNext(m) # <<>> =>
                (wb_masters[m].cyc => wb_masters'[m].cyc)
                /\ wb_masters'[m].req.slave = wb_masters[m].req.slave
           /\ owed'[m] = OwedNext(m)
<1>1. wb_masters'[m] \in MasterNext(m) /\ owed'[m] = OwedNext(m)
  BY TwoMasters DEF MastersEdge
<1>2. wb_masters[m] \in WbMaster /\ (wb_masters[m].stb => wb_masters[m].cyc)
  BY DEF TypeOK, BusTypeOK, StrobesHaveCyc
<1>3. CASE wb_masters[m].stb /\ Stall(m)
  BY <1>1, <1>2, <1>3 DEF MasterNext
<1>4. CASE ~(wb_masters[m].stb /\ Stall(m))
  <2>1. CASE wb_masters'[m] \in [cyc : {TRUE}, stb : BOOLEAN, req : {r \in Requests[m] : SameSlave(m, r)}]
    BY <1>1, <1>2, <1>4, <2>1, RequestsAssumption DEF SameSlave, WbMaster
  <2>2. CASE wb_masters'[m] \in [cyc : {OwedNext(m) # <<>>}, stb : {FALSE}, req : {wb_masters[m].req}]
    BY <1>1, <1>2, <1>4, <2>2 DEF WbMaster
  <2>3. QED
    BY <1>1, <1>4, <2>1, <2>2 DEF MasterNext
<1>5. QED
  BY <1>3, <1>4

\* What is owed after the edge: nothing but to the selected master, a request
\* that is taken or that the latch is at work on.
LEMMA OwedStep ==
    ASSUME TypeOK, StrobesHaveCyc, MemoryForSelected, LatchForSelected, MastersEdge
    PROVE  /\ \A m \in Master : m # EarlySel => owed'[m] = <<>>
           /\ Working => /\ EarlySel = selected /\ owed'[selected] = owed[selected]
                         /\ IsIo /\ Bus.cyc /\ Bus.req.slave = Oldest.slave
           /\ ~Working /\ IoStrobe => owed'[EarlySel] = <<Bus.req>>
           /\ ~Working /\ ~IoStrobe => owed'[EarlySel] = <<>>
<1>0. /\ EarlySel \in Master /\ selected \in Master /\ Bus \in WbMaster
      /\ Bus = wb_masters[EarlySel] /\ Bus.req \in Request
      /\ \A m \in Master : owed[m] \in Seq(Request)
  BY Grants, GrantedSees DEF TypeOK, BusTypeOK, Bus, WbMaster
<1>1. \A m \in Master : m # selected => owed[m] = <<>>
  BY DEF LatchForSelected
<1>2. wb_masters[selected].cyc => EarlySel = selected
  BY Grants
<1>3. owed[selected] # <<>> => /\ EarlySel = selected /\ IsIo /\ Bus.cyc
                              /\ Bus.req.slave = Oldest.slave
  BY <1>2 DEF LatchForSelected, IsIo, Bus
<1>4. \A m \in Master : owed'[m] = OwedNext(m)
  BY DEF MastersEdge
<1>5. ASSUME NEW m \in Master, m # EarlySel PROVE owed'[m] = <<>>
  <2>1. owed[m] = <<>>
    BY <1>1, <1>3, <1>5
  <2>2. QED
    BY <1>4, <1>5, <2>1, OthersWait DEF OwedNext
<1>6. CASE Working
  <2>1. owed[selected] # <<>> /\ ~wb_io_out.ack /\ wb_io_out.stall
    BY <1>6 DEF LatchForSelected
  <2>2. ~Accepted(EarlySel) /\ ~Ack(EarlySel)
    BY <1>3, <2>1, GrantedSees DEF SlaveAck, SlaveStall
  <2>3. owed'[selected] = owed[selected]
    BY <1>0, <1>3, <1>4, <2>1, <2>2 DEF OwedNext
  <2>4. QED
    BY <1>3, <1>5, <1>6, <2>1, <2>3
<1>7. CASE ~Working /\ IoStrobe
  <2>1. IsIo /\ Bus.cyc /\ Bus.stb /\ ~wb_io_out.stall
    BY <1>7 DEF IoStrobe, LatchForSelected, TypeOK, BusTypeOK
  <2>2. Accepted(EarlySel) /\ (Ack(EarlySel) <=> wb_io_out.ack)
    BY <2>1, GrantedSees DEF SlaveAck, SlaveStall
  <2>3. CASE wb_io_out.ack
    <3>1. EarlySel = selected /\ owed[selected] = <<Oldest>> /\ Oldest \in Request
      BY <1>3, <2>3 DEF LatchForSelected
    <3>2. OwedNext(EarlySel) = <<Bus.req>>
      BY <1>0, <2>2, <2>3, <3>1, Queues DEF OwedNext
    <3>3. QED
      BY <1>0, <1>4, <1>5, <1>7, <3>2
  <2>4. CASE ~wb_io_out.ack
    <3>1. owed[EarlySel] = <<>>
      BY <1>0, <1>1, <1>7, <2>4 DEF LatchForSelected
    <3>2. OwedNext(EarlySel) = <<Bus.req>>
      BY <1>0, <2>2, <2>4, <3>1, Queues DEF OwedNext
    <3>3. QED
      BY <1>0, <1>4, <1>5, <1>7, <3>2
  <2>5. QED
    BY <2>3, <2>4
<1>8. CASE ~Working /\ ~IoStrobe
  <2>1. CASE IsIo /\ wb_io_out.ack
    <3>0. Bus.cyc /\ EarlySel = selected /\ owed[selected] = <<Oldest>> /\ Oldest \in Request
      BY <1>3, <2>1 DEF LatchForSelected
    <3>1. ~Accepted(EarlySel) /\ Ack(EarlySel)
      BY <1>8, <2>1, <3>0, GrantedSees DEF IoStrobe, SlaveAck
    <3>2. OwedNext(EarlySel) = <<>>
      BY <1>0, <3>0, <3>1, Queues DEF OwedNext
    <3>3. QED
      BY <1>0, <1>4, <1>5, <1>8, <3>2
  <2>2. CASE IsIo /\ ~wb_io_out.ack
    <3>1. owed[EarlySel] = <<>> /\ ~Accepted(EarlySel)
      BY <1>0, <1>1, <1>8, <2>2, GrantedSees DEF LatchForSelected, IoStrobe
    <3>2. QED
      BY <1>0, <1>4, <1>5, <1>8, <3>1 DEF OwedNext
  <2>3. CASE ~IsIo
    <3>1. owed[EarlySel] = <<>>
      BY <1>0, <1>1, <1>3, <2>3
    <3>2. Accepted(EarlySel) => Ack(EarlySel)
      BY <2>3, GrantedSees DEF SlaveAck, SlaveStall, MemStall, MemStrobe
    <3>3. OwedNext(EarlySel) = <<>>
      BY <1>0, <3>1, <3>2, Queues DEF OwedNext
    <3>4. QED
      BY <1>0, <1>4, <1>5, <1>8, <3>3
  <2>4. QED
    BY <2>1, <2>2, <2>3
<1>9. QED
  BY <1>6, <1>7, <1>8

------------------------------------------------------------------------------
\* The part of TypeOK that the latch and the devices write.
LatchTypeOK ==
    /\ io \in [state : {"IDLE", "WAIT_ACK_BOT", "WAIT_ACK_TOP"},
               has_top : BOOLEAN, dat_latch : Val, sel_latch : BOOLEAN]
    /\ wb_io_out \in [ack : BOOLEAN, stall : BOOLEAN, dat : Dword]
    /\ wb_sio_out \in [cyc : BOOLEAN, stb : BOOLEAN, we : BOOLEAN, half : Half,
                       sel : BOOLEAN, dat : Val]
    /\ io_cycle \in Device \cup {"none", "unmapped"}
    /\ current_io_decode \in Device
    /\ dev \in [Device -> [ack : BOOLEAN, dat : Val, regs : Dword]]
    /\ accesses \in [Half -> 0..1]
    /\ kept \in Dword

\* Reset: no request anywhere.
LEMMA InitInv == Init => IInv
<1> SUFFICES ASSUME Init PROVE IInv
  OBVIOUS
<1> USE DEF Init, BusInit
<1>1. ZeroVal \in Val /\ ZeroDword \in Dword /\ 0 \in Master
  BY BusAssumption, TwoMasters DEF ZeroDword, Dword
<1>2. ResetReq \in Request /\ ResetWb \in WbMaster /\ ResetWb.stb = FALSE
  BY <1>1 DEF ResetReq, ResetWb, Request, WbMaster, Slave
<1>3. TypeOK
  BY <1>1, <1>2 DEF TypeOK, BusTypeOK, Half, Device, Dword
<1>4. StrobesHaveCyc /\ MemoryForSelected
  BY <1>1, <1>2 DEF StrobesHaveCyc, MemoryForSelected
<1>5. LatchForSelected /\ HalfUnderWay /\ HalvesSeen
  BY <1>1 DEF LatchForSelected, HalfUnderWay, HalvesSeen, Working
<1>6. InsnReads /\ UnseenIsDue
  BY TwoMasters DEF InsnReads, UnseenIsDue, Due, Working, ResetWb, ResetReq
<1>7. QED
  BY <1>3, <1>4, <1>5, <1>6 DEF IInv

\* The masters' outputs stay well formed.
LEMMA StepMasters ==
    ASSUME TypeOK, StrobesHaveCyc, MastersEdge
    PROVE  wb_masters' \in [Master -> WbMaster] /\ StrobesHaveCyc'
<1>1. wb_masters' = [m \in Master |-> wb_masters'[m]]
  BY DEF MastersEdge
<1>2. QED
  BY <1>1, MasterStep DEF StrobesHaveCyc

\* The memory is at work only on the strobe of the selected master.
LEMMA StepMemory ==
    ASSUME TypeOK, StrobesHaveCyc, MemoryForSelected, NEW done \in BOOLEAN,
           MemEdge(done), ArbiterEdge, MastersEdge
    PROVE  mem' \in [busy : BOOLEAN, ack : BOOLEAN] /\ MemoryForSelected'
<1>0. /\ selected' = EarlySel /\ EarlySel \in Master /\ Bus = wb_masters[EarlySel]
      /\ Bus \in WbMaster /\ (wb_masters[selected].cyc => EarlySel = selected)
      /\ Bus.req.slave \in Slave
  BY Grants, GrantedSees DEF Bus, WbMaster, Request
<1>1. mem \in [busy : BOOLEAN, ack : BOOLEAN]
  BY DEF TypeOK
<1>2. CASE mem.busy
  <2>1. mem' = [busy |-> ~done, ack |-> done]
    BY <1>2 DEF MemEdge
  <2>2. /\ ~mem.ack /\ EarlySel = selected /\ Bus.cyc /\ Bus.stb /\ Bus.req.slave = "mem"
    BY <1>0, <1>1, <1>2 DEF MemoryForSelected
  <2>3. Stall(EarlySel)
    BY <2>2, GrantedSees DEF SlaveStall, IsIo, Device, MemStall, MemStrobe
  <2>4. wb_masters'[EarlySel] = Bus
    BY <1>0, <2>2, <2>3, MasterStep
  <2>5. QED
    BY <1>0, <2>1, <2>2, <2>4 DEF MemoryForSelected
<1>3. CASE ~mem.busy
  <2>1. mem' = [busy |-> MemStrobe /\ ~mem.ack, ack |-> FALSE]
    BY <1>3 DEF MemEdge
  <2>2. CASE MemStrobe /\ ~mem.ack
    <3>1. Bus.cyc /\ Bus.stb /\ Bus.req.slave = "mem" /\ ~IsIo /\ MemStall
      BY <1>0, <2>2 DEF MemStrobe, MemStall, IsIo, Slave
    <3>2. Stall(EarlySel)
      BY <3>1, GrantedSees DEF SlaveStall
    <3>3. wb_masters'[EarlySel] = Bus
      BY <1>0, <3>1, <3>2, MasterStep
    <3>4. mem' = [busy |-> TRUE, ack |-> FALSE]
      BY <2>1, <2>2
    <3>5. QED
      BY <1>0, <3>1, <3>3, <3>4 DEF MemoryForSelected
  <2>3. CASE ~(MemStrobe /\ ~mem.ack)
    <3>1. mem' = [busy |-> FALSE, ack |-> FALSE]
      BY <2>1, <2>3
    <3>2. QED
      BY <3>1 DEF MemoryForSelected
  <2>4. QED
    BY <2>2, <2>3
<1>4. QED
  BY <1>1, <1>2, <1>3

\* What the latch and the devices do while a request is in the latch.
LEMMA AtWork ==
    ASSUME TypeOK, LatchForSelected, HalfUnderWay, Working
    PROVE  /\ Oldest \in Request /\ Oldest.slave \in Device /\ NowHalf \in Half
           /\ SioAck <=> ~wb_sio_out.stb
           /\ SioDat = dev[Oldest.slave].dat
           /\ \A d \in Device : DeviceStrobe(d) <=> d = Oldest.slave /\ wb_sio_out.stb
           /\ wb_sio_out.half = NowHalf
<1>1. Oldest \in Request /\ Oldest.slave \in Device
  BY DEF LatchForSelected
<1>2. io_cycle # "unmapped" /\ current_io_decode = Oldest.slave /\ io_cycle = Oldest.slave
  BY <1>1 DEF HalfUnderWay, Device
<1>3. SioAck = dev[Oldest.slave].ack /\ SioDat = dev[Oldest.slave].dat
  BY <1>2 DEF SioAck, SioDat
<1>4. dev[Oldest.slave].ack \in BOOLEAN /\ wb_sio_out.stb \in BOOLEAN
  BY <1>1 DEF TypeOK, BusTypeOK
<1>5. QED
  BY <1>1, <1>2, <1>3, <1>4 DEF HalfUnderWay, DeviceStrobe, NowHalf, Half

\* Without a strobe the devices keep their registers.
LEMMA NoStrobe ==
    ASSUME TypeOK, DeviceEdge, HistoryEdge, \A d \in Device : ~DeviceStrobe(d)
    PROVE  /\ \A d \in Device : dev'[d].regs = dev[d].regs /\ ~dev'[d].ack
           /\ dev' \in [Device -> [ack : BOOLEAN, dat : Val, regs : Dword]]
           /\ ~(io.state = "IDLE" /\ IoStrobe) => kept' = kept /\ accesses' = accesses
<1>1. dev' = [d \in Device |-> [ack |-> FALSE, dat |-> ZeroVal, regs |-> dev[d].regs]]
  <2>1. \A d \in Device : DeviceStrobe(d) = FALSE
    BY DEF DeviceStrobe
  <2>2. QED
    BY <2>1, Zenon DEF DeviceEdge
<1>2. \A d \in Device : dev[d].regs \in Dword
  BY DEF TypeOK, BusTypeOK
<1>3. ASSUME ~(io.state = "IDLE" /\ IoStrobe) PROVE kept' = kept /\ accesses' = accesses
  <2>1. accesses \in [Half -> 0..1]
    BY DEF TypeOK
  <2>2. accesses' = [h \in Half |-> accesses[h] + 0]
    BY <1>3 DEF HistoryEdge
  <2>3. accesses' = accesses
    BY <2>1, <2>2
  <2>4. QED
    BY <1>3, <2>3 DEF HistoryEdge
<1>4. QED
  BY <1>1, <1>2, <1>3, BusAssumption

\* While the latch works, its master keeps the bus and is owed the same answer.
LEMMA KeepWorking ==
    ASSUME TypeOK, StrobesHaveCyc, MemoryForSelected, LatchForSelected, Working,
           ArbiterEdge, MastersEdge
    PROVE  /\ selected' = selected /\ selected \in Master
           /\ Oldest' = Oldest /\ owed'[selected'] = owed[selected] /\ owed[selected] # <<>>
           /\ \A m \in Master : owed'[m] # <<>> => m = selected'
           /\ wb_masters'[selected'].cyc
           /\ wb_masters'[selected'].req.slave = Oldest.slave
<1>1. /\ selected' = EarlySel /\ EarlySel = selected /\ selected \in Master
      /\ owed'[selected] = owed[selected]
      /\ Bus.cyc /\ Bus.req.slave = Oldest.slave
      /\ \A m \in Master : m # EarlySel => owed'[m] = <<>>
  BY OwedStep, Grants
<1>2. owed[selected] # <<>> /\ OwedNext(selected) # <<>>
  BY <1>1, MasterStep DEF LatchForSelected
<1>3. QED
  BY <1>1, <1>2, MasterStep DEF Oldest, Bus

------------------------------------------------------------------------------
\* The strobe of a half, and its effect.
LEMMA StepWait ==
    ASSUME IInv, IoWait, ArbiterEdge, MastersEdge, DeviceEdge, HistoryEdge
    PROVE  LatchTypeOK' /\ LatchForSelected' /\ HalfUnderWay' /\ HalvesSeen'
<1>0. TypeOK /\ StrobesHaveCyc /\ MemoryForSelected /\ LatchForSelected /\ HalfUnderWay
      /\ HalvesSeen
  BY DEF IInv
<1>1. Working /\ ~SioAck
  BY DEF IoWait, Working
<1>2. /\ io' = io /\ wb_io_out' = wb_io_out /\ io_cycle' = io_cycle
      /\ current_io_decode' = current_io_decode
      /\ wb_sio_out' = [wb_sio_out EXCEPT !.stb = FALSE]
  BY DEF IoWait
<1>3. /\ selected' = selected /\ selected \in Master
      /\ Oldest' = Oldest /\ owed'[selected'] = owed[selected] /\ owed[selected] # <<>>
      /\ \A m \in Master : owed'[m] # <<>> => m = selected'
      /\ wb_masters'[selected'].cyc
      /\ wb_masters'[selected'].req.slave = Oldest.slave
  BY <1>0, <1>1, KeepWorking
<1>4. /\ Oldest \in Request /\ Oldest.slave \in Device /\ NowHalf \in Half
      /\ wb_sio_out.stb
      /\ \A d \in Device : DeviceStrobe(d) <=> d = Oldest.slave
      /\ wb_sio_out.half = NowHalf
  BY <1>0, <1>1, AtWork
<1>5. Working' /\ NowHalf' = NowHalf /\ Before' = Before
  BY <1>1, <1>2, <1>3 DEF Working, NowHalf, Before
<1>6. /\ wb_sio_out'.stb = FALSE /\ wb_sio_out'.half = NowHalf
      /\ wb_sio_out'.dat = wb_sio_out.dat /\ wb_sio_out'.we = wb_sio_out.we
      /\ wb_sio_out'.sel = wb_sio_out.sel
      /\ wb_sio_out' \in [cyc : BOOLEAN, stb : BOOLEAN, we : BOOLEAN, half : Half,
                               sel : BOOLEAN, dat : Val]
  BY <1>0, <1>2, <1>4 DEF TypeOK, BusTypeOK
<1>7. Seen = Before /\ Seen' = Before \cup {NowHalf} /\ NowHalf \notin Before
      /\ Before \subseteq {"bot"}
  BY <1>1, <1>4, <1>5, <1>6 DEF Seen, Before, NowHalf
<1>8. LatchForSelected'
  BY <1>0, <1>2, <1>3, <1>5 DEF LatchForSelected, Working
<1>9. /\ dev' \in [Device -> [ack : BOOLEAN, dat : Val, regs : Dword]]
      /\ \A d \in Device : dev'[d].ack <=> d = Oldest.slave
      /\ dev'[Oldest.slave].dat = dev[Oldest.slave].regs[NowHalf]
      /\ dev'[Oldest.slave].regs =
           IF wb_sio_out.we /\ wb_sio_out.sel
             THEN [dev[Oldest.slave].regs EXCEPT ![NowHalf] = wb_sio_out.dat]
             ELSE dev[Oldest.slave].regs
  <2> DEFINE new(d) == [ack |-> DeviceStrobe(d),
                        dat |-> IF DeviceStrobe(d) THEN dev[d].regs[wb_sio_out.half] ELSE ZeroVal,
                        regs |-> IF DeviceStrobe(d) /\ wb_sio_out.we /\ wb_sio_out.sel
                          THEN [dev[d].regs EXCEPT ![wb_sio_out.half] = wb_sio_out.dat]
                          ELSE dev[d].regs]
  <2>1. dev' = [d \in Device |-> new(d)]
    BY DEF DeviceEdge
  <2>2. /\ \A d \in Device : dev[d].regs \in Dword
        /\ wb_sio_out.dat \in Val
    BY <1>0 DEF TypeOK, BusTypeOK
  <2>3. ASSUME NEW d \in Device, d # Oldest.slave
        PROVE  new(d) = [ack |-> FALSE, dat |-> ZeroVal, regs |-> dev[d].regs]
    <3>1. DeviceStrobe(d) = FALSE
      BY <1>4, <2>3 DEF DeviceStrobe
    <3>2. QED
      BY <3>1, Zenon
  <2>4. new(Oldest.slave) =
          [ack |-> TRUE, dat |-> dev[Oldest.slave].regs[NowHalf],
           regs |-> IF wb_sio_out.we /\ wb_sio_out.sel
                      THEN [dev[Oldest.slave].regs EXCEPT ![NowHalf] = wb_sio_out.dat]
                      ELSE dev[Oldest.slave].regs]
    <3>1. DeviceStrobe(Oldest.slave) = TRUE
      BY <1>4 DEF DeviceStrobe
    <3>2. QED
      BY <1>4, <3>1, Zenon
  <2>5. ASSUME NEW d \in Device
        PROVE  new(d) \in [ack : BOOLEAN, dat : Val, regs : Dword]
    <3>1. CASE d # Oldest.slave
      BY <2>2, <2>3, <3>1, BusAssumption
    <3>2. CASE d = Oldest.slave
      BY <1>4, <2>2, <2>4, <3>2 DEF Dword
    <3>3. QED
      BY <3>1, <3>2
  <2> HIDE DEF new
  <2>6. QED
    BY <1>4, <2>1, <2>3, <2>4, <2>5
<1>10. HalfUnderWay'
  BY <1>0, <1>1, <1>2, <1>3, <1>5, <1>6, <1>9 DEF HalfUnderWay, Working
<1>11. /\ kept' = kept /\ kept \in Dword
       /\ accesses' = [h \in Half |-> accesses[h] + IF h = NowHalf THEN 1 ELSE 0]
  <2>1. ~(io.state = "IDLE" /\ IoStrobe)
    BY <1>1 DEF Working
  <2>2. \E d \in Device : DeviceStrobe(d)
    BY <1>4
  <2>3. QED
    BY <1>0, <1>4, <2>1, <2>2 DEF HistoryEdge, TypeOK
<1>12. /\ accesses = [h \in Half |-> IF h \in Before THEN 1 ELSE 0]
       /\ dev[Oldest.slave].regs =
            [h \in Half |-> IF Oldest.we /\ h \in Oldest.sel /\ h \in Before
                               THEN Oldest.dat[h] ELSE kept[h]]
       /\ \A h \in Before : wb_io_out.dat[h] = kept[h]
  BY <1>0, <1>3, <1>7 DEF HalvesSeen
<1>13. accesses' = [h \in Half |-> IF h \in Seen' THEN 1 ELSE 0]
  BY <1>7, <1>11, <1>12
<1>14. dev'[Oldest.slave].dat = kept[NowHalf]
  BY <1>4, <1>7, <1>9, <1>12
<1>15. dev'[Oldest.slave].regs =
         [h \in Half |-> IF Oldest.we /\ h \in Oldest.sel /\ h \in Seen'
                            THEN Oldest.dat[h] ELSE kept[h]]
  <2>1. /\ wb_sio_out.we <=> Oldest.we
        /\ wb_sio_out.sel <=> NowHalf \in Oldest.sel
        /\ wb_sio_out.dat = Oldest.dat[NowHalf]
    BY <1>0, <1>1 DEF HalfUnderWay
  <2>2. CASE Oldest.we /\ NowHalf \in Oldest.sel
    BY <1>4, <1>7, <1>9, <1>12, <2>1, <2>2
  <2>3. CASE ~(Oldest.we /\ NowHalf \in Oldest.sel)
    BY <1>4, <1>7, <1>9, <1>12, <2>1, <2>3
  <2>4. QED
    BY <2>2, <2>3
<1>16. HalvesSeen'
  <2>1. ASSUME NEW h \in Seen'
        PROVE  IF Working' /\ h = NowHalf' THEN dev'[Oldest.slave].dat = kept'[h]
               ELSE wb_io_out'.dat[h] = kept'[h]
    BY <1>2, <1>5, <1>7, <1>11, <1>12, <1>14
  <2>2. dev'[Oldest.slave].regs =
         [h \in Half |-> IF Oldest.we /\ h \in Oldest.sel /\ h \in Seen'
                            THEN Oldest.dat[h] ELSE kept'[h]]
    BY <1>11, <1>15
  <2>3. QED
    BY <1>3, <1>13, <2>1, <2>2, Zenon DEF HalvesSeen
<1>17. accesses' \in [Half -> 0..1]
  BY <1>13
<1>18. QED
  BY <1>0, <1>2, <1>6, <1>8, <1>9, <1>10, <1>11, <1>16, <1>17
  DEF TypeOK, BusTypeOK, LatchTypeOK

\* What has been served when a half is answered.
LEMMA Answered ==
    ASSUME IInv, Working, SioAck, ArbiterEdge, MastersEdge, DeviceEdge, HistoryEdge
    PROVE  /\ Oldest \in Request /\ Oldest.slave \in Device /\ NowHalf \in Strobed(Oldest)
           /\ Seen = Before \cup {NowHalf} /\ NowHalf \notin Before
           /\ SioDat = kept[NowHalf] /\ SioDat \in Val
           /\ \A h \in Before : wb_io_out.dat[h] = kept[h]
           /\ accesses' = [h \in Half |-> IF h \in Seen THEN 1 ELSE 0]
           /\ kept' = kept
           /\ dev'[Oldest.slave].regs =
                [h \in Half |-> IF Oldest.we /\ h \in Oldest.sel /\ h \in Seen
                                   THEN Oldest.dat[h] ELSE kept[h]]
           /\ \A d \in Device : ~dev'[d].ack
           /\ dev' \in [Device -> [ack : BOOLEAN, dat : Val, regs : Dword]]
<1>0. TypeOK /\ LatchForSelected /\ HalfUnderWay /\ HalvesSeen
  BY DEF IInv
<1>1. /\ Oldest \in Request /\ Oldest.slave \in Device
      /\ ~wb_sio_out.stb /\ SioDat = dev[Oldest.slave].dat
      /\ \A d \in Device : ~DeviceStrobe(d)
  BY <1>0, AtWork
<1>2. Seen = Before \cup {NowHalf} /\ NowHalf \notin Before
  BY <1>1 DEF Seen, Before, NowHalf
<1>3. owed[selected] # <<>> /\ NowHalf \in Strobed(Oldest)
  BY <1>0 DEF LatchForSelected, HalfUnderWay
<1>4. /\ accesses = [h \in Half |-> IF h \in Seen THEN 1 ELSE 0]
      /\ dev[Oldest.slave].regs =
           [h \in Half |-> IF Oldest.we /\ h \in Oldest.sel /\ h \in Seen
                              THEN Oldest.dat[h] ELSE kept[h]]
      /\ dev[Oldest.slave].dat = kept[NowHalf]
      /\ \A h \in Before : wb_io_out.dat[h] = kept[h]
  BY <1>0, <1>2, <1>3 DEF HalvesSeen
<1>5. /\ \A d \in Device : dev'[d].regs = dev[d].regs /\ ~dev'[d].ack
      /\ dev' \in [Device -> [ack : BOOLEAN, dat : Val, regs : Dword]]
      /\ kept' = kept /\ accesses' = accesses
  BY <1>0, <1>1, NoStrobe DEF Working
<1>6. SioDat \in Val
  BY <1>0, <1>1 DEF TypeOK, BusTypeOK
<1>7. QED
  BY <1>1, <1>2, <1>3, <1>4, <1>5, <1>6

\* The bottom half is answered and the top one goes out.
LEMMA StepSecondHalf ==
    ASSUME IInv, IoSecondHalf, ArbiterEdge, MastersEdge, DeviceEdge, HistoryEdge
    PROVE  LatchTypeOK' /\ LatchForSelected' /\ HalfUnderWay' /\ HalvesSeen'
<1>0. TypeOK /\ StrobesHaveCyc /\ MemoryForSelected /\ LatchForSelected /\ HalfUnderWay
  BY DEF IInv
<1>1. Working /\ SioAck /\ io.state = "WAIT_ACK_BOT" /\ io.has_top
  BY DEF IoSecondHalf, Working
<1>2. /\ wb_io_out' = [wb_io_out EXCEPT !.dat["bot"] = SioDat]
      /\ wb_sio_out' = [cyc |-> wb_sio_out.cyc, stb |-> TRUE, we |-> wb_sio_out.we,
                        half |-> "top", sel |-> io.sel_latch, dat |-> io.dat_latch]
      /\ io' = [io EXCEPT !.state = "WAIT_ACK_TOP"]
      /\ io_cycle' = io_cycle /\ current_io_decode' = current_io_decode
  BY DEF IoSecondHalf
<1>3. /\ selected' = selected /\ selected \in Master
      /\ Oldest' = Oldest /\ owed'[selected'] = owed[selected] /\ owed[selected] # <<>>
      /\ \A m \in Master : owed'[m] # <<>> => m = selected'
      /\ wb_masters'[selected'].cyc
      /\ wb_masters'[selected'].req.slave = Oldest.slave
  BY <1>0, <1>1, KeepWorking
<1>4. /\ Oldest \in Request /\ Oldest.slave \in Device /\ NowHalf \in Strobed(Oldest)
      /\ Seen = Before \cup {NowHalf}
      /\ SioDat = kept[NowHalf] /\ SioDat \in Val
      /\ accesses' = [h \in Half |-> IF h \in Seen THEN 1 ELSE 0]
      /\ kept' = kept
      /\ dev'[Oldest.slave].regs =
           [h \in Half |-> IF Oldest.we /\ h \in Oldest.sel /\ h \in Seen
                              THEN Oldest.dat[h] ELSE kept[h]]
      /\ \A d \in Device : ~dev'[d].ack
      /\ dev' \in [Device -> [ack : BOOLEAN, dat : Val, regs : Dword]]
  BY <1>1, Answered
<1>5. /\ io'.state = "WAIT_ACK_TOP"
      /\ io' \in [state : {"IDLE", "WAIT_ACK_BOT", "WAIT_ACK_TOP"},
                  has_top : BOOLEAN, dat_latch : Val, sel_latch : BOOLEAN]
      /\ wb_io_out'.dat["bot"] = SioDat
      /\ wb_io_out'.ack = wb_io_out.ack /\ wb_io_out'.stall = wb_io_out.stall
      /\ wb_io_out' \in [ack : BOOLEAN, stall : BOOLEAN, dat : Dword]
  BY <1>0, <1>2, <1>4 DEF TypeOK, BusTypeOK, Dword, Half
<1>6. wb_sio_out' \in [cyc : BOOLEAN, stb : BOOLEAN, we : BOOLEAN, half : Half,
                       sel : BOOLEAN, dat : Val]
  BY <1>0, <1>2 DEF TypeOK, BusTypeOK, Half
<1>7. /\ "top" \in Oldest.sel /\ (io.sel_latch <=> "top" \in Oldest.sel)
      /\ io.dat_latch = Oldest.dat["top"]
      /\ NowHalf = "bot" /\ Before = {}
      /\ wb_sio_out.we <=> Oldest.we
  BY <1>0, <1>1 DEF HalfUnderWay, NowHalf, Before
<1>8. "bot" \in Oldest.sel
  BY <1>4, <1>7 DEF Strobed
<1>9. Working' /\ NowHalf' = "top" /\ Before' = {"bot"} /\ Seen' = {"bot"} /\ Seen = {"bot"}
  BY <1>2, <1>3, <1>4, <1>5, <1>7, <1>8 DEF Working, NowHalf, Before, Seen
<1>10. LatchForSelected'
  BY <1>0, <1>1, <1>3, <1>5, <1>9 DEF LatchForSelected
<1>11. HalfUnderWay'
  <2>1. /\ io_cycle = Oldest.slave /\ current_io_decode = Oldest.slave
    BY <1>0, <1>1 DEF HalfUnderWay
  <2>2. "top" \in Strobed(Oldest)
    BY <1>7 DEF Strobed
  <2>3. /\ wb_sio_out'.stb /\ wb_sio_out'.half = "top" /\ wb_sio_out'.dat = Oldest.dat["top"]
        /\ wb_sio_out'.we <=> Oldest.we
        /\ wb_sio_out'.sel
    BY <1>2, <1>7
  <2>4. \A d \in Device : dev'[d].ack <=> d = Oldest.slave /\ ~wb_sio_out'.stb
    BY <1>4, <2>3
  <2>5. Strobed(Oldest)' = Strobed(Oldest)
    BY <1>3 DEF Strobed
  <2>6. QED
    BY <1>2, <1>3, <1>5, <1>7, <1>9, <2>1, <2>2, <2>3, <2>4, <2>5 DEF HalfUnderWay
<1>12. HalvesSeen'
  <2>1. ASSUME NEW h \in Seen'
        PROVE  IF Working' /\ h = NowHalf' THEN dev'[Oldest.slave].dat = kept'[h]
               ELSE wb_io_out'.dat[h] = kept'[h]
    BY <1>4, <1>5, <1>7, <1>9
  <2>2. /\ accesses' = [h \in Half |-> IF h \in Seen' THEN 1 ELSE 0]
        /\ dev'[Oldest.slave].regs =
             [h \in Half |-> IF Oldest.we /\ h \in Oldest.sel /\ h \in Seen'
                                THEN Oldest.dat[h] ELSE kept'[h]]
    BY <1>4, <1>9
  <2>3. QED
    BY <1>3, <2>1, <2>2, Zenon DEF HalvesSeen
<1>13. accesses' \in [Half -> 0..1] /\ kept' \in Dword
  BY <1>0, <1>4 DEF TypeOK
<1>14. io_cycle' \in Device \cup {"none", "unmapped"} /\ current_io_decode' \in Device
  BY <1>0, <1>2 DEF TypeOK, BusTypeOK
<1>15. QED
  BY <1>4, <1>5, <1>6, <1>10, <1>11, <1>12, <1>13, <1>14 DEF LatchTypeOK

\* The last half is answered: the latch answers.
LEMMA StepFinish ==
    ASSUME IInv, IoFinish, ArbiterEdge, MastersEdge, DeviceEdge, HistoryEdge
    PROVE  LatchTypeOK' /\ LatchForSelected' /\ HalfUnderWay' /\ HalvesSeen'
<1>0. TypeOK /\ StrobesHaveCyc /\ MemoryForSelected /\ LatchForSelected /\ HalfUnderWay
  BY DEF IInv
<1>1. Working /\ SioAck /\ (io.state = "WAIT_ACK_BOT" => ~io.has_top)
  BY DEF IoFinish, Working
<1>2. /\ wb_io_out' = [ack |-> TRUE, stall |-> FALSE,
                       dat |-> [wb_io_out.dat EXCEPT ![NowHalf] = SioDat]]
      /\ wb_sio_out' = [wb_sio_out EXCEPT !.stb = FALSE, !.cyc = FALSE]
      /\ io' = [io EXCEPT !.state = "IDLE"]
      /\ io_cycle' = "none" /\ current_io_decode' = current_io_decode
  BY Zenon DEF IoFinish, NowHalf
<1>3. /\ selected' = selected /\ selected \in Master
      /\ Oldest' = Oldest /\ owed'[selected'] = owed[selected] /\ owed[selected] # <<>>
      /\ \A m \in Master : owed'[m] # <<>> => m = selected'
      /\ wb_masters'[selected'].cyc
      /\ wb_masters'[selected'].req.slave = Oldest.slave
  BY <1>0, <1>1, KeepWorking
<1>4. /\ Oldest \in Request /\ Oldest.slave \in Device /\ NowHalf \in Strobed(Oldest)
      /\ Seen = Before \cup {NowHalf} /\ NowHalf \notin Before
      /\ SioDat = kept[NowHalf] /\ SioDat \in Val
      /\ \A h \in Before : wb_io_out.dat[h] = kept[h]
      /\ accesses' = [h \in Half |-> IF h \in Seen THEN 1 ELSE 0]
      /\ kept' = kept
      /\ dev'[Oldest.slave].regs =
           [h \in Half |-> IF Oldest.we /\ h \in Oldest.sel /\ h \in Seen
                              THEN Oldest.dat[h] ELSE kept[h]]
      /\ \A d \in Device : ~dev'[d].ack
      /\ dev' \in [Device -> [ack : BOOLEAN, dat : Val, regs : Dword]]
  BY <1>1, Answered
<1>5. /\ io' \in [state : {"IDLE", "WAIT_ACK_BOT", "WAIT_ACK_TOP"},
                  has_top : BOOLEAN, dat_latch : Val, sel_latch : BOOLEAN]
      /\ io'.state = "IDLE" /\ ~Working'
  BY <1>0, <1>2 DEF TypeOK, BusTypeOK, Working
<1>6. /\ wb_sio_out' \in [cyc : BOOLEAN, stb : BOOLEAN, we : BOOLEAN, half : Half,
                          sel : BOOLEAN, dat : Val]
      /\ wb_sio_out'.stb = FALSE
  BY <1>0, <1>2 DEF TypeOK, BusTypeOK
<1>7. NowHalf \in Half /\ wb_io_out.dat \in Dword
  BY <1>0 DEF TypeOK, BusTypeOK, NowHalf, Half
<1>8. /\ wb_io_out' \in [ack : BOOLEAN, stall : BOOLEAN, dat : Dword]
      /\ wb_io_out'.ack = TRUE /\ wb_io_out'.stall = FALSE
      /\ wb_io_out'.dat = [wb_io_out.dat EXCEPT ![NowHalf] = SioDat]
  BY <1>2, <1>4, <1>7 DEF Dword
\* Nothing is left of the request.
<1>9. Seen = Strobed(Oldest) /\ Seen' = Seen
  <2>1. Oldest.sel \subseteq {"bot", "top"}
    BY <1>4 DEF Request, Half
  <2>2. ASSUME io.state = "WAIT_ACK_BOT" PROVE Seen = Strobed(Oldest)
    <3>1. "top" \notin Oldest.sel /\ NowHalf = "bot" /\ Before = {}
      BY <1>0, <1>1, <2>2 DEF HalfUnderWay, NowHalf, Before
    <3>2. Oldest.sel = {"bot"}
      BY <1>4, <2>1, <3>1 DEF Strobed
    <3>3. Strobed(Oldest) = {"bot"} /\ Seen = {"bot"}
      BY <1>4, <3>1, <3>2 DEF Strobed
    <3>4. QED
      BY <3>3
  <2>3. ASSUME io.state # "WAIT_ACK_BOT" PROVE Seen = Strobed(Oldest)
    <3>1. NowHalf = "top" /\ Before = Oldest.sel \cap {"bot"}
      BY <1>0, <1>1, <2>3 DEF TypeOK, BusTypeOK, Working, NowHalf, Before
    <3>2. Strobed(Oldest) = Before \cup {"top"}
      <4>1. CASE Oldest.sel = {}
        BY <3>1, <4>1 DEF Strobed
      <4>2. CASE Oldest.sel # {}
        <5>1. Strobed(Oldest) = Oldest.sel /\ "top" \in Oldest.sel
          BY <1>4, <3>1, <4>2 DEF Strobed
        <5>2. QED
          BY <2>1, <3>1, <5>1
      <4>3. QED
        BY <4>1, <4>2
    <3>3. QED
      BY <1>4, <3>1, <3>2
  <2>4. Seen = Strobed(Oldest)
    BY <2>2, <2>3
  <2>5. QED
    BY <1>3, <1>5, <2>4 DEF Seen, Strobed
<1>10. LatchForSelected'
  BY <1>0, <1>3, <1>5, <1>8 DEF LatchForSelected
<1>11. HalfUnderWay'
  BY <1>2, <1>4, <1>5, <1>6 DEF HalfUnderWay
<1>12. HalvesSeen'
  <2>1. ASSUME NEW h \in Seen' PROVE wb_io_out'.dat[h] = kept'[h]
    BY <1>4, <1>7, <1>8, <1>9 DEF Dword, Strobed, Request
  <2>2. /\ accesses' = [h \in Half |-> IF h \in Seen' THEN 1 ELSE 0]
        /\ dev'[Oldest.slave].regs =
             [h \in Half |-> IF Oldest.we /\ h \in Oldest.sel /\ h \in Seen'
                                THEN Oldest.dat[h] ELSE kept'[h]]
    BY <1>4, <1>9
  <2>3. QED
    BY <1>3, <1>5, <2>1, <2>2, Zenon DEF HalvesSeen
<1>13. accesses' \in [Half -> 0..1] /\ kept' \in Dword
  BY <1>0, <1>4 DEF TypeOK
<1>14. io_cycle' \in Device \cup {"none", "unmapped"} /\ current_io_decode' \in Device
  BY <1>0, <1>2 DEF TypeOK, BusTypeOK
<1>15. QED
  BY <1>4, <1>5, <1>6, <1>8, <1>10, <1>11, <1>12, <1>13, <1>14 DEF LatchTypeOK

\* The latch is idle and has nothing to take.
LEMMA StepIdle ==
    ASSUME IInv, IoIdle, ArbiterEdge, MastersEdge, DeviceEdge, HistoryEdge
    PROVE  LatchTypeOK' /\ LatchForSelected' /\ HalfUnderWay' /\ HalvesSeen'
<1>0. TypeOK /\ StrobesHaveCyc /\ MemoryForSelected /\ LatchForSelected /\ HalfUnderWay
  BY DEF IInv
<1>1. ~Working /\ ~IoStrobe /\ io.state = "IDLE"
  BY DEF IoIdle, Working
<1>2. /\ wb_io_out' = [wb_io_out EXCEPT !.ack = FALSE]
      /\ io' = io /\ wb_sio_out' = wb_sio_out
      /\ io_cycle' = io_cycle /\ current_io_decode' = current_io_decode
  BY DEF IoIdle
<1>3. /\ wb_io_out' \in [ack : BOOLEAN, stall : BOOLEAN, dat : Dword]
      /\ wb_io_out'.ack = FALSE /\ wb_io_out'.stall = wb_io_out.stall
  BY <1>0, <1>2 DEF TypeOK, BusTypeOK
<1>4. ~wb_sio_out.stb /\ io_cycle = "none" /\ ~wb_io_out.stall
  BY <1>0, <1>1 DEF HalfUnderWay, LatchForSelected, TypeOK, BusTypeOK
<1>5. \A d \in Device : ~DeviceStrobe(d)
  BY <1>4 DEF DeviceStrobe
<1>6. /\ \A d \in Device : ~dev'[d].ack
      /\ dev' \in [Device -> [ack : BOOLEAN, dat : Val, regs : Dword]]
      /\ kept' = kept /\ accesses' = accesses
  BY <1>0, <1>1, <1>5, NoStrobe
<1>7. selected' \in Master /\ (\A m \in Master : owed'[m] = <<>>)
  BY <1>0, <1>1, OwedStep, Grants
<1>8. ~Working'
  BY <1>1, <1>2 DEF Working
<1>9. LatchForSelected'
  BY <1>3, <1>4, <1>7, <1>8 DEF LatchForSelected
<1>10. HalfUnderWay' /\ HalvesSeen'
  BY <1>2, <1>4, <1>6, <1>7, <1>8, <1>1 DEF HalfUnderWay, HalvesSeen
<1>11. QED
  BY <1>0, <1>2, <1>3, <1>6, <1>9, <1>10 DEF TypeOK, BusTypeOK, LatchTypeOK

\* A request enters the latch, and its first half goes out.
LEMMA StepTake ==
    ASSUME IInv, IoTake, ArbiterEdge, MastersEdge, DeviceEdge, HistoryEdge
    PROVE  LatchTypeOK' /\ LatchForSelected' /\ HalfUnderWay' /\ HalvesSeen'
<1> DEFINE half == IF "bot" \in Bus.req.sel THEN "bot" ELSE "top"
           req == Bus.req
<1>0. TypeOK /\ StrobesHaveCyc /\ MemoryForSelected /\ LatchForSelected /\ HalfUnderWay
  BY DEF IInv
<1>1. ~Working /\ IoStrobe /\ io.state = "IDLE"
  BY DEF IoTake, Working
<1>2. /\ wb_sio_out' = [cyc |-> TRUE, stb |-> TRUE, we |-> req.we, half |-> half,
                        sel |-> half \in req.sel, dat |-> req.dat[half]]
      /\ io' = [state |-> IF half = "bot" THEN "WAIT_ACK_BOT" ELSE "WAIT_ACK_TOP",
                has_top |-> "top" \in req.sel,
                dat_latch |-> req.dat["top"], sel_latch |-> "top" \in req.sel]
      /\ wb_io_out' = [ack |-> FALSE, stall |-> TRUE, dat |-> wb_io_out.dat]
      /\ io_cycle' = req.slave /\ current_io_decode' = req.slave
  BY DEF IoTake
<1>3. /\ EarlySel \in Master /\ selected' = EarlySel /\ Bus = wb_masters[EarlySel]
      /\ req \in Request /\ Bus.cyc
  BY <1>0, <1>1, Grants, GrantedSees DEF Bus, WbMaster, IoStrobe
<1>4. req.slave \in Device
  BY <1>1 DEF IoStrobe, IsIo
<1> HIDE DEF req
<1>5. /\ owed'[EarlySel] = <<req>>
      /\ \A m \in Master : m # EarlySel => owed'[m] = <<>>
  BY <1>0, <1>1, OwedStep DEF req
<1>6. Oldest' = req /\ owed'[EarlySel] # <<>>
  BY <1>3, <1>5, Queues DEF Oldest
<1>7. wb_masters'[EarlySel].cyc /\ wb_masters'[EarlySel].req.slave = req.slave
  BY <1>0, <1>3, <1>6, MasterStep DEF req
<1>8. /\ half \in Half /\ half \in Strobed(req)
      /\ req.dat[half] \in Val /\ req.dat["top"] \in Val /\ req.we \in BOOLEAN
      /\ half = "top" => "bot" \notin req.sel
  BY <1>3 DEF Half, Strobed, Request, Dword, req
<1>9. /\ wb_sio_out' \in [cyc : BOOLEAN, stb : BOOLEAN, we : BOOLEAN, half : Half,
                          sel : BOOLEAN, dat : Val]
      /\ wb_sio_out'.stb = TRUE /\ wb_sio_out'.half = half
      /\ wb_sio_out'.dat = req.dat[half]
      /\ (wb_sio_out'.we <=> req.we) /\ (wb_sio_out'.sel <=> half \in req.sel)
  <2> DEFINE sel == half \in req.sel
  <2>1. sel \in BOOLEAN
    OBVIOUS
  <2>2. wb_sio_out' = [cyc |-> TRUE, stb |-> TRUE, we |-> req.we, half |-> half,
                       sel |-> sel, dat |-> req.dat[half]]
    BY <1>2
  <2> HIDE DEF sel, half
  <2>3. wb_sio_out'.sel = sel
    BY <2>2
  <2>4. QED
    BY <1>8, <2>1, <2>2, <2>3 DEF sel
<1>10. /\ io' \in [state : {"IDLE", "WAIT_ACK_BOT", "WAIT_ACK_TOP"},
                   has_top : BOOLEAN, dat_latch : Val, sel_latch : BOOLEAN]
       /\ io'.state = IF half = "bot" THEN "WAIT_ACK_BOT" ELSE "WAIT_ACK_TOP"
       /\ (io'.has_top <=> "top" \in req.sel) /\ (io'.sel_latch <=> "top" \in req.sel)
       /\ io'.dat_latch = req.dat["top"]
  <2> DEFINE top == "top" \in req.sel
             state == IF half = "bot" THEN "WAIT_ACK_BOT" ELSE "WAIT_ACK_TOP"
  <2>1. top \in BOOLEAN /\ state \in {"IDLE", "WAIT_ACK_BOT", "WAIT_ACK_TOP"}
    OBVIOUS
  <2>2. io' = [state |-> state, has_top |-> top, dat_latch |-> req.dat["top"], sel_latch |-> top]
    BY <1>2
  <2> HIDE DEF top, state
  <2>3. /\ io' \in [state : {"IDLE", "WAIT_ACK_BOT", "WAIT_ACK_TOP"},
                    has_top : BOOLEAN, dat_latch : Val, sel_latch : BOOLEAN]
        /\ io'.state = state /\ io'.has_top = top /\ io'.sel_latch = top
        /\ io'.dat_latch = req.dat["top"]
    BY <1>8, <2>1, <2>2
  <2>4. QED
    BY <2>3 DEF top, state
<1>11. /\ wb_io_out' \in [ack : BOOLEAN, stall : BOOLEAN, dat : Dword]
       /\ wb_io_out'.ack = FALSE /\ wb_io_out'.stall = TRUE
  BY <1>0, <1>2 DEF TypeOK, BusTypeOK
<1>12. \A d \in Device : ~DeviceStrobe(d)
  BY <1>0, <1>1 DEF HalfUnderWay, DeviceStrobe
<1>13. /\ \A d \in Device : dev'[d].regs = dev[d].regs /\ ~dev'[d].ack
       /\ dev' \in [Device -> [ack : BOOLEAN, dat : Val, regs : Dword]]
  BY <1>0, <1>12, NoStrobe
<1>14. kept' = dev[req.slave].regs /\ accesses' = [h \in Half |-> 0]
  BY <1>1 DEF HistoryEdge, req
<1>15. dev[req.slave].regs \in Dword
  BY <1>0, <1>4 DEF TypeOK, BusTypeOK
<1>16. Working' /\ NowHalf' = half /\ Before' = {} /\ Seen' = {}
  <2>1. Working' /\ NowHalf' = half
    BY <1>10 DEF Working, NowHalf
  <2>2. Before' = {}
    BY <1>6, <1>8, <1>10 DEF Before
  <2>3. QED
    BY <1>9, <2>1, <2>2 DEF Seen
<1> HIDE DEF half
<1>17. LatchForSelected'
  BY <1>3, <1>4, <1>5, <1>6, <1>7, <1>11, <1>16 DEF LatchForSelected
<1>18. HalfUnderWay'
  <2>1. Strobed(Oldest)' = Strobed(req)
    BY <1>6 DEF Strobed
  <2>2. \A d \in Device : dev'[d].ack <=> d = req.slave /\ ~wb_sio_out'.stb
    BY <1>9, <1>13
  <2>3. QED
    BY <1>2, <1>6, <1>8, <1>9, <1>10, <1>16, <2>1, <2>2 DEF HalfUnderWay
<1>19. HalvesSeen'
  <2>1. /\ accesses' = [h \in Half |-> IF h \in Seen' THEN 1 ELSE 0]
        /\ dev'[req.slave].regs =
             [h \in Half |-> IF req.we /\ h \in req.sel /\ h \in Seen'
                                THEN req.dat[h] ELSE kept'[h]]
    BY <1>4, <1>13, <1>14, <1>15, <1>16 DEF Dword
  <2>2. QED
    BY <1>6, <1>16, <2>1 DEF HalvesSeen
<1>20. accesses' \in [Half -> 0..1] /\ kept' \in Dword
  BY <1>14, <1>15
<1>21. QED
  BY <1>2, <1>4, <1>9, <1>10, <1>11, <1>13, <1>17, <1>18, <1>19, <1>20 DEF LatchTypeOK

------------------------------------------------------------------------------
\* The instruction cache goes on reading.
LEMMA StepReads ==
    ASSUME TypeOK, InsnReads, MastersEdge
    PROVE  InsnReads'
<1>1. 1 \in Master /\ wb_masters[1] \in WbMaster
  BY TwoMasters DEF TypeOK, BusTypeOK
<1>2. wb_masters'[1] \in MasterNext(1)
  BY TwoMasters DEF MastersEdge
<1>3. wb_masters'[1].req = wb_masters[1].req \/ wb_masters'[1].req \in Requests[1]
  <2>1. CASE wb_masters'[1] = wb_masters[1]
    BY <2>1
  <2>2. CASE wb_masters'[1] \in [cyc : {TRUE}, stb : BOOLEAN, req : {r \in Requests[1] : SameSlave(1, r)}]
    BY <2>2
  <2>3. CASE wb_masters'[1] \in [cyc : {OwedNext(1) # <<>>}, stb : {FALSE}, req : {wb_masters[1].req}]
    BY <2>3
  <2>4. QED
    BY <1>2, <2>1, <2>2, <2>3 DEF MasterNext
<1>4. QED
  BY <1>3, InsnAssumption DEF InsnReads

\* Nobody snoops a write of its own, and everyone else does.
LEMMA WhoSnoops ==
    ASSUME TypeOK, StrobesHaveCyc, InsnReads
    PROVE  /\ ~Snooped(EarlySel)
           /\ \A c \in Master : c # EarlySel => (Snooped(c) <=> SnoopStb(MemStall) /\ Bus.req.we)
<1>1. EarlySel \in Master /\ Bus = wb_masters[EarlySel]
  BY Grants DEF Bus
<1>2. SnoopStb(MemStall) => Bus.cyc /\ ~Stall(EarlySel)
  BY GrantedSees DEF SnoopStb
<1>3. ~Snooped(EarlySel)
  <2>1. CASE EarlySel = 0
    BY <1>1, <1>2, <2>1 DEF Snooped
  <2>2. CASE EarlySel = 1
    BY <1>1, <2>2 DEF Snooped, InsnReads
  <2>3. QED
    BY <1>1, <2>1, <2>2, TwoMasters
<1>4. ASSUME NEW c \in Master, c # EarlySel
      PROVE  Snooped(c) <=> SnoopStb(MemStall) /\ Bus.req.we
  <2>1. Stall(c)
    BY <1>4, Grants DEF Stall, MasterStall
  <2>2. c = 0 => Stall(0)
    BY <2>1
  <2>3. QED
    BY <2>2 DEF Snooped
<1>5. QED
  BY <1>3, <1>4

\* What is due once the bus is free for the next master.
LEMMA NothingDue ==
    ASSUME TypeOK, StrobesHaveCyc, MemoryForSelected, LatchForSelected, EarlySel # selected
    PROVE  Due = 0 /\ ~Working /\ ~mem.busy
<1>1. ~wb_masters[selected].cyc
  BY Grants
<1>2. QED
  BY <1>1 DEF MemoryForSelected, LatchForSelected, Due

\* The write that is carried out at this edge is the selected master's.
DoneNow(done) == \/ mem.busy /\ done /\ Bus.req.we
                 \/ Working /\ ~Working' /\ Oldest.we

LEMMA WhoseWrite ==
    ASSUME TypeOK, StrobesHaveCyc, MemoryForSelected, LatchForSelected,
           NEW done \in BOOLEAN, NEW m \in Master
    PROVE  WriteDone(m, done) <=> m = EarlySel /\ DoneNow(done)
<1>1. Working => EarlySel = selected /\ owed[selected] # <<>>
  BY Grants DEF LatchForSelected
<1>2. owed[m] # <<>> => m = selected
  BY DEF LatchForSelected
<1>3. selected \in Master
  BY DEF TypeOK, BusTypeOK
<1>4. CASE m = EarlySel
  BY <1>1, <1>2, <1>3, <1>4 DEF WriteDone, DoneNow, Working, Oldest
<1>5. CASE m # EarlySel
  BY <1>1, <1>2, <1>5 DEF WriteDone, Working
<1>6. QED
  BY <1>4, <1>5

\* What is due changes by what is carried out and by what is snooped.
LEMMA StepDue ==
    ASSUME IInv, NEW done \in BOOLEAN, Tick(done)
    PROVE  Due' = Due + (IF DoneNow(done) THEN 1 ELSE 0)
                      - (IF SnoopStb(MemStall) /\ Bus.req.we THEN 1 ELSE 0)
<1>0. /\ TypeOK /\ StrobesHaveCyc /\ MemoryForSelected /\ LatchForSelected
      /\ MemEdge(done) /\ ArbiterEdge /\ IoLatchEdge /\ MastersEdge
  BY DEF IInv, Tick
<1>1. /\ mem \in [busy : BOOLEAN, ack : BOOLEAN] /\ Bus \in WbMaster
      /\ Bus = wb_masters[EarlySel] /\ selected' = EarlySel
      /\ wb_masters[selected].cyc => EarlySel = selected
  BY <1>0, Grants, GrantedSees DEF Bus, TypeOK
<1>2. /\ mem.busy \/ mem.ack => MemStrobe /\ ~IsIo /\ EarlySel = selected
      /\ ~(mem.busy /\ mem.ack)
  BY <1>0, <1>1 DEF MemoryForSelected, MemStrobe, IsIo, Device
<1>3. CASE Working
  <2>1. IsIo /\ ~mem.busy /\ ~mem.ack /\ ~MemStrobe
    BY <1>0, <1>2, <1>3, OwedStep DEF MemStrobe
  <2>2. ~SnoopStb(MemStall) /\ ~mem'.ack
    BY <1>0, <1>3, <2>1 DEF SnoopStb, SlaveStall, LatchForSelected, MemEdge
  <2>3. Oldest' = Oldest
    BY <1>0, <1>3, KeepWorking
  <2>4. Due = IF Oldest.we THEN -1 ELSE 0
    BY <1>3, <2>1 DEF Due
  <2>5. Due' = IF Working' /\ Oldest.we THEN -1 ELSE 0
    BY <2>2, <2>3 DEF Due
  <2>6. DoneNow(done) <=> ~Working' /\ Oldest.we
    BY <1>3, <2>1 DEF DoneNow
  <2>7. QED
    BY <2>2, <2>4, <2>5, <2>6
<1>4. CASE IoTake
  <2>1. ~Working /\ IoStrobe /\ Working'
    BY <1>4 DEF IoTake, Working
  <2>2. IsIo /\ Bus.cyc /\ Bus.stb /\ ~mem.busy /\ ~mem.ack /\ ~MemStrobe
    BY <1>2, <2>1 DEF IoStrobe, MemStrobe
  <2>3. SnoopStb(MemStall) /\ ~mem'.ack
    BY <1>0, <2>1, <2>2 DEF SnoopStb, SlaveStall, LatchForSelected, MemEdge
  <2>4. Oldest' = Bus.req
    BY <1>0, <1>1, <2>1, OwedStep, Queues DEF Oldest
  <2>5. Due = 0 /\ Due' = IF Bus.req.we THEN -1 ELSE 0
    BY <2>1, <2>2, <2>3, <2>4 DEF Due
  <2>6. ~DoneNow(done)
    BY <2>1, <2>2 DEF DoneNow
  <2>7. QED
    BY <2>3, <2>5, <2>6
<1>5. CASE IoIdle
  <2>1. ~Working /\ ~Working' /\ ~IoStrobe
    BY <1>5 DEF IoIdle, Working
  <2>2. CASE mem.busy
    <3>1. MemStrobe /\ ~IsIo /\ ~mem.ack /\ MemStall /\ ~SnoopStb(MemStall)
      BY <1>2, <2>2 DEF MemStall, SnoopStb, SlaveStall
    <3>2. mem'.ack = done /\ Due = 0
      BY <1>0, <2>1, <2>2, <3>1 DEF MemEdge, Due
    <3>3. Stall(EarlySel) /\ Bus.stb /\ EarlySel \in Master
      BY <1>0, <3>1, Grants, GrantedSees DEF SlaveStall, MemStrobe
    <3>4. wb_masters'[selected'] = Bus
      BY <1>0, <1>1, <3>3, MasterStep
    <3>5. Due' = IF done /\ Bus.req.we THEN 1 ELSE 0
      BY <2>1, <3>2, <3>4 DEF Due
    <3>6. DoneNow(done) <=> done /\ Bus.req.we
      BY <2>1, <2>2 DEF DoneNow
    <3>7. QED
      BY <3>1, <3>2, <3>5, <3>6
  <2>3. CASE mem.ack
    <3>1. MemStrobe /\ ~IsIo /\ ~mem.busy /\ SnoopStb(MemStall) /\ EarlySel = selected
      BY <1>2, <2>3 DEF MemStall, SnoopStb, SlaveStall, MemStrobe
    <3>2. ~mem'.ack /\ ~DoneNow(done)
      BY <1>0, <2>1, <3>1 DEF MemEdge, DoneNow
    <3>3. Due = (IF Bus.req.we THEN 1 ELSE 0) /\ Due' = 0
      BY <1>1, <2>1, <2>3, <3>1, <3>2 DEF Due
    <3>4. QED
      BY <3>1, <3>2, <3>3
  <2>4. CASE ~mem.busy /\ ~mem.ack
    <3>1. ~SnoopStb(MemStall)
      BY <1>1, <2>1, <2>4 DEF SnoopStb, SlaveStall, MemStall, MemStrobe, IoStrobe
    <3>2. ~mem'.ack /\ ~DoneNow(done)
      BY <1>0, <2>1, <2>4 DEF MemEdge, DoneNow
    <3>3. Due = 0 /\ Due' = 0
      BY <2>1, <2>4, <3>2 DEF Due
    <3>4. QED
      BY <3>1, <3>2, <3>3
  <2>5. QED
    BY <2>2, <2>3, <2>4
<1>6. Working \/ IoTake \/ IoIdle
  BY <1>0 DEF IoLatchEdge, IoWait, IoSecondHalf, IoFinish, Working
<1>7. QED
  BY <1>3, <1>4, <1>5, <1>6

\* The caches stay told.
LEMMA StepUnseen ==
    ASSUME IInv, NEW done \in BOOLEAN, Tick(done)
    PROVE  UnseenIsDue' /\ unseen' \in [Master -> Int]
<1>0. /\ TypeOK /\ StrobesHaveCyc /\ MemoryForSelected /\ LatchForSelected
      /\ InsnReads /\ UnseenIsDue /\ ArbiterEdge
  BY DEF IInv, Tick
<1>1. EarlySel \in Master /\ selected' = EarlySel
  BY <1>0, Grants
<1> DEFINE done1(c) == IF \E m \in Master \ {c} : WriteDone(m, done) THEN 1 ELSE 0
           told1(c) == IF Snooped(c) THEN 1 ELSE 0
<1>2. unseen' = [c \in Master |-> unseen[c] + done1(c) - told1(c)]
  BY DEF Tick, SnoopEdge
<1>3. \A c \in Master : unseen[c] \in Int /\ done1(c) \in Int /\ told1(c) \in Int
  BY <1>0 DEF TypeOK
<1>4. ASSUME NEW c \in Master PROVE unseen'[c] = IF c = EarlySel THEN 0 ELSE Due'
  <2>1. unseen[c] = IF c = EarlySel THEN 0 ELSE Due
    <3>1. CASE EarlySel = selected
      BY <1>0, <3>1 DEF UnseenIsDue
    <3>2. CASE EarlySel # selected
      BY <1>0, <3>2, NothingDue DEF UnseenIsDue
    <3>3. QED
      BY <3>1, <3>2
  <2>2. \A m \in Master : WriteDone(m, done) <=> m = EarlySel /\ DoneNow(done)
    BY <1>0, WhoseWrite
  <2>3. CASE c = EarlySel
    <3>1. done1(c) = 0 /\ told1(c) = 0
      BY <1>0, <2>2, <2>3, WhoSnoops
    <3>2. QED
      BY <1>2, <1>3, <2>1, <2>3, <3>1
  <2>4. CASE c # EarlySel
    <3>1. /\ done1(c) = IF DoneNow(done) THEN 1 ELSE 0
          /\ told1(c) = IF SnoopStb(MemStall) /\ Bus.req.we THEN 1 ELSE 0
      BY <1>0, <1>1, <2>2, <2>4, WhoSnoops
    <3>2. unseen'[c] = Due + done1(c) - told1(c)
      BY <1>2, <2>1, <2>4
    <3> HIDE DEF done1, told1
    <3>3. QED
      BY <2>4, <3>1, <3>2, StepDue
  <2>5. QED
    BY <2>3, <2>4
<1> HIDE DEF done1, told1
<1>5. unseen' \in [Master -> Int]
  BY <1>2, <1>3
<1>6. UnseenIsDue'
  BY <1>1, <1>4 DEF UnseenIsDue
<1>7. QED
  BY <1>5, <1>6

\* Every edge keeps the invariant.
LEMMA TickInv ==
    ASSUME IInv, NEW done \in BOOLEAN, Tick(done)
    PROVE  IInv'
<1>0. TypeOK /\ StrobesHaveCyc /\ MemoryForSelected /\ LatchForSelected
  BY DEF IInv
<1>1. /\ MemEdge(done) /\ ArbiterEdge /\ IoLatchEdge /\ DeviceEdge /\ MastersEdge
      /\ HistoryEdge
  BY DEF Tick
<1>2. wb_masters' \in [Master -> WbMaster] /\ StrobesHaveCyc'
  BY <1>0, <1>1, StepMasters
<1>3. mem' \in [busy : BOOLEAN, ack : BOOLEAN] /\ MemoryForSelected'
  BY <1>0, <1>1, StepMemory
<1>4. selected' \in Master
  BY <1>0, <1>1, Grants
<1>5. LatchTypeOK' /\ LatchForSelected' /\ HalfUnderWay' /\ HalvesSeen'
  <2>1. CASE IoIdle
    BY <1>1, <2>1, StepIdle
  <2>2. CASE IoTake
    BY <1>1, <2>2, StepTake
  <2>3. CASE IoWait
    BY <1>1, <2>3, StepWait
  <2>4. CASE IoSecondHalf
    BY <1>1, <2>4, StepSecondHalf
  <2>5. CASE IoFinish
    BY <1>1, <2>5, StepFinish
  <2>6. QED
    BY <1>1, <2>1, <2>2, <2>3, <2>4, <2>5 DEF IoLatchEdge
<1>6. \A m \in Master : owed'[m] \in Seq(Request)
  <2>1. ASSUME NEW m \in Master, owed'[m] # <<>> PROVE owed'[m] \in Seq(Request)
    <3>1. Oldest' \in Request /\ owed'[m] = <<Oldest'>>
      BY <1>5, <2>1 DEF LatchForSelected
    <3>2. QED
      BY <3>1
  <2>2. <<>> \in Seq(Request)
    OBVIOUS
  <2>3. QED
    BY <2>1, <2>2
<1>7. InsnReads' /\ UnseenIsDue' /\ unseen' \in [Master -> Int]
  BY <1>0, <1>1, StepReads, StepUnseen DEF IInv
<1>8. TypeOK'
  BY <1>2, <1>3, <1>4, <1>5, <1>6, <1>7 DEF TypeOK, BusTypeOK, LatchTypeOK
<1>9. QED
  BY <1>2, <1>3, <1>5, <1>7, <1>8 DEF IInv

------------------------------------------------------------------------------
\* The bus keeps its invariant: one half of one request of the selected
\* master at a time (wishbone_arbiter.vhdl:36-60, soc.vhdl:186-391).
THEOREM BusInvariant == Spec => []IInv
<1>1. ASSUME IInv, UNCHANGED vars PROVE IInv'
  BY SMTT(30), <1>1 DEF IInv, TypeOK, BusTypeOK, StrobesHaveCyc, MemoryForSelected, LatchForSelected,
     HalfUnderWay, HalvesSeen, Working, Oldest, NowHalf, Before, Seen, Strobed, InsnReads,
     UnseenIsDue, Due, vars, busVars, latchVars
<1>2. IInv /\ [Next]_vars => IInv'
  BY <1>1, TickInv DEF Next
<1>3. QED
  BY InitInv, <1>2, PTL DEF Spec

\* Every answer reaches the master that is owed it (wishbone_arbiter.vhdl:36-46,
\* soc.vhdl:186-199).
THEOREM BusAnswersReachOwner == Spec => []AnswersReachOwner
<1>1. ASSUME IInv PROVE AnswersReachOwner
  <2>0. TypeOK /\ StrobesHaveCyc /\ MemoryForSelected /\ LatchForSelected
    BY <1>1 DEF IInv
  <2>1. /\ EarlySel \in Master /\ selected \in Master
        /\ wb_masters[selected].cyc => EarlySel = selected
        /\ \A m \in Master : Granted(m) <=> m = EarlySel /\ Bus.cyc
        /\ \A m \in Master : m # EarlySel => ~Ack(m)
        /\ Bus = wb_masters[EarlySel]
    BY <2>0, Grants, OthersWait DEF Bus, TypeOK, BusTypeOK
  <2>2. owed[selected] # <<>> => EarlySel = selected /\ Bus.cyc /\ IsIo
    BY <2>0, <2>1 DEF LatchForSelected, IsIo
  <2>3. mem.busy \/ mem.ack => /\ EarlySel = selected /\ Bus.cyc /\ Bus.stb /\ ~IsIo
                               /\ MemStrobe
    BY <2>0, <2>1 DEF MemoryForSelected, IsIo, Device, MemStrobe
  <2>4. wb_io_out.ack => Ack(selected) /\ owed[selected] # <<>>
    BY <2>0, <2>1, <2>2, GrantedSees DEF SlaveAck, LatchForSelected
  <2>5. mem.ack => Ack(selected) /\ Accepted(selected)
    BY <2>0, <2>3, GrantedSees DEF SlaveAck, SlaveStall, MemStall
  <2>6. ASSUME NEW m \in Master, Ack(m) PROVE owed[m] # <<>> \/ Accepted(m)
    <3>1. m = EarlySel /\ Bus.cyc /\ SlaveAck(mem.ack)
      BY <2>0, <2>1, <2>6, GrantedSees
    <3>2. wb_io_out.ack \/ mem.ack
      BY <3>1 DEF SlaveAck
    <3>3. QED
      BY <2>2, <2>3, <2>4, <2>5, <3>1, <3>2
  <2>7. ASSUME NEW m \in Master, owed[m] # <<>> PROVE Granted(m) /\ IsIo
    BY <2>0, <2>1, <2>2, <2>7 DEF LatchForSelected
  <2>8. QED
    BY <2>1, <2>3, <2>4, <2>5, <2>6, <2>7 DEF AnswersReachOwner
<1>2. QED
  BY <1>1, BusInvariant, PTL

\* A 64-bit access is atomic although it is two on the 32-bit bus
\* (soc.vhdl:249-391).
THEOREM BusServesOnce == Spec => []IoServedOnce
<1>1. ASSUME IInv PROVE IoServedOnce
  <2> SUFFICES ASSUME wb_io_out.ack PROVE IoServedOnce
    BY DEF IoServedOnce
  <2>1. ~Working /\ owed[selected] # <<>> /\ Oldest \in Request
    BY <1>1 DEF IInv, LatchForSelected
  <2>2. Seen = Strobed(Oldest)
    BY <2>1 DEF Seen
  <2>3. /\ accesses = [h \in Half |-> IF h \in Strobed(Oldest) THEN 1 ELSE 0]
        /\ dev[Oldest.slave].regs =
             [h \in Half |-> IF Oldest.we /\ h \in Oldest.sel /\ h \in Strobed(Oldest)
                                THEN Oldest.dat[h] ELSE kept[h]]
        /\ \A h \in Strobed(Oldest) : wb_io_out.dat[h] = kept[h]
    BY <1>1, <2>1, <2>2 DEF IInv, HalvesSeen
  <2>4. Oldest.sel \subseteq Strobed(Oldest)
    BY <2>1 DEF Strobed
  <2>5. dev[Oldest.slave].regs =
          [h \in Half |-> IF Oldest.we /\ h \in Oldest.sel THEN Oldest.dat[h] ELSE kept[h]]
    BY <2>3, <2>4
  <2>6. ~Oldest.we => \A h \in Oldest.sel : wb_io_out.dat[h] = kept[h]
    BY <2>3, <2>4
  <2>7. QED
    BY <2>3, <2>5, <2>6, Zenon DEF IoServedOnce, Oldest
<1>2. QED
  BY <1>1, BusInvariant, PTL

\* Each write is snooped once by the other cache and never by the writer's
\* own (soc.vhdl:156-166, dcache.vhdl:900-903, icache.vhdl:675-677).
THEOREM BusSnoopsOnce == Spec => []SnoopedOnce
<1>1. ASSUME IInv PROVE SnoopedOnce
  <2> SUFFICES ASSUME NEW c \in Master, Granted(c) \/ ~Bus.cyc
               PROVE  unseen[c] = 0
    BY DEF SnoopedOnce
  <2>0. /\ TypeOK /\ StrobesHaveCyc /\ MemoryForSelected /\ LatchForSelected /\ UnseenIsDue
    BY <1>1 DEF IInv
  <2>1. CASE c = selected
    BY <2>0, <2>1 DEF UnseenIsDue
  <2>2. CASE c # selected /\ EarlySel # selected
    BY <2>0, <2>2, NothingDue DEF UnseenIsDue
  <2>3. CASE c # selected /\ EarlySel = selected
    <3>1. ~wb_masters[selected].cyc
      BY <2>0, <2>3, Grants DEF Bus
    <3>2. Due = 0
      BY <2>0, <3>1 DEF MemoryForSelected, LatchForSelected, Due
    <3>3. QED
      BY <2>0, <2>3, <3>2 DEF UnseenIsDue
  <2>4. QED
    BY <2>1, <2>2, <2>3
<1>2. QED
  BY <1>1, BusInvariant, PTL

==============================================================================
