---------------------------- MODULE SocBusSystem -----------------------------
(***************************************************************************)
(* The bus with its masters, the data cache (0) and the instruction cache  *)
(* (1), and the memory behind the bridge.                                  *)
(*                                                                         *)
(* The memory is what BridgeSystem shows of the bridge: it stalls a        *)
(* request until it answers it, and answers one per transaction.           *)
(*                                                                         *)
(* A master is any that keeps to the rules of the caches: it holds a       *)
(* strobe until it is not stalled, keeps cyc until every accepted strobe   *)
(* is answered, and while an answer is outstanding stays in one 4K page,   *)
(* hence with one slave (dcache.vhdl:765-781, 1779-1812).                  *)
(***************************************************************************)
EXTENDS SocBus

CONSTANTS Requests      \* what each master may ask

ASSUME RequestsAssumption == Requests \in [Master -> SUBSET Request]
ASSUME MastersAssumption == NUM_MASTERS = 2
\* The instruction cache never writes (icache.vhdl:676).
ASSUME InsnAssumption == \A r \in Requests[1] : ~r.we

VARIABLES
    mem,        \* the memory port: whether it is at work, its ack
    owed,       \* requests of each master accepted and not yet answered
    accesses,   \* strobes the devices have seen of the request in the latch,
                \* by half (history)
    kept,       \* the device registers before that request (history)
    unseen      \* writes of other masters that have been carried out, less the
                \* writes each cache has snooped (history)

vars == <<busVars, mem, owed, accesses, kept, unseen>>

MemStall == MemStrobe /\ ~mem.ack
Ack(m)   == MasterAck(m, mem.ack)
Stall(m) == MasterStall(m, MemStall)
Accepted(m) == wb_masters[m].cyc /\ wb_masters[m].stb /\ ~Stall(m)

\* What a cache takes for a write of another master.  The data cache leaves
\* out what it sees while its own bus is not stalled (dcache.vhdl:900-903); the
\* instruction cache leaves out nothing (icache.vhdl:675-677).
Snooped(c) == /\ SnoopStb(MemStall) /\ Bus.req.we
              /\ c = 0 => ~(wb_masters[0].cyc /\ ~Stall(0))

Init ==
    /\ BusInit
    /\ mem = [busy |-> FALSE, ack |-> FALSE]
    /\ owed = [m \in Master |-> <<>>]
    /\ accesses = [h \in Half |-> 0]
    /\ kept = ZeroDword
    /\ unseen = [c \in Master |-> 0]

------------------------------------------------------------------------------
MemEdge(done) ==
    mem' = IF mem.busy THEN [busy |-> ~done, ack |-> done]
           ELSE [busy |-> MemStrobe /\ ~mem.ack, ack |-> FALSE]

OwedNext(m) ==
    LET all == IF Accepted(m) THEN Append(owed[m], wb_masters[m].req) ELSE owed[m]
    IN IF Ack(m) /\ all # <<>> THEN Tail(all) ELSE all

\* Faulty: the slave may change while an answer is outstanding.
AnySlave(m, r) == TRUE

SameSlave(m, r) == OwedNext(m) # <<>> => r.slave = wb_masters[m].req.slave

\* What a master may put on the bus next.  It may want the bus before its
\* strobe, with the address up (dcache.vhdl:1840-1858, DO_STCX).
MasterNext(m) ==
    IF wb_masters[m].stb /\ Stall(m) THEN {wb_masters[m]}
    ELSE [cyc : {TRUE}, stb : BOOLEAN, req : {r \in Requests[m] : SameSlave(m, r)}]
         \cup [cyc : {OwedNext(m) # <<>>}, stb : {FALSE}, req : {wb_masters[m].req}]

MastersEdge ==
    /\ \E data \in MasterNext(0), insn \in MasterNext(1) :
         wb_masters' = [m \in Master |-> IF m = 0 THEN data ELSE insn]
    /\ owed' = [m \in Master |-> OwedNext(m)]

\* A request enters the latch; the device strobes are counted from there on.
HistoryEdge ==
    IF io.state = "IDLE" /\ IoStrobe
      THEN accesses' = [h \in Half |-> 0] /\ kept' = dev[Bus.req.slave].regs
      ELSE /\ accesses' = [h \in Half |-> accesses[h] +
                  IF h = wb_sio_out.half /\ \E d \in Device : DeviceStrobe(d) THEN 1 ELSE 0]
           /\ UNCHANGED kept

\* A write of m is carried out: by the memory when the bridge is done, by a
\* device when the latch has seen the last half answered.
WriteDone(m, done) ==
    \/ mem.busy /\ done /\ EarlySel = m /\ Bus.req.we
    \/ io.state # "IDLE" /\ io'.state = "IDLE" /\ owed[m] # <<>> /\ Head(owed[m]).we

SnoopEdge(done) ==
    unseen' = [c \in Master |->
                 unseen[c] + (IF \E m \in Master \ {c} : WriteDone(m, done) THEN 1 ELSE 0)
                           - (IF Snooped(c) THEN 1 ELSE 0)]

Tick(done) ==
    /\ MemEdge(done)
    /\ ArbiterEdge
    /\ IoLatchEdge
    /\ DeviceEdge
    /\ MastersEdge
    /\ HistoryEdge
    /\ SnoopEdge(done)

Next == \E done \in BOOLEAN : Tick(done)

Spec == Init /\ [][Next]_vars

\* The clock runs and the bridge answers (EveryStrobeAnswered of BridgeSystem).
FairSpec   == Spec /\ WF_vars(Next) /\ []<>~mem.busy

TypeOK ==
    /\ BusTypeOK
    /\ mem \in [busy : BOOLEAN, ack : BOOLEAN]
    /\ \A m \in Master : owed[m] \in Seq(Request)
    /\ accesses \in [Half -> 0..1]
    /\ kept \in Dword
    /\ unseen \in [Master -> Int]

------------------------------------------------------------------------------
\* Whatever the slaves answer reaches the one master that is owed it, though
\* neither the arbiter nor the decoder keeps track of requests: both go by what
\* is on the bus in the cycle of the answer (wishbone_arbiter.vhdl:36-46,
\* soc.vhdl:186-199).
AnswersReachOwner ==
    /\ \A m \in Master :
         /\ Ack(m) => owed[m] # <<>> \/ Accepted(m)
         /\ owed[m] # <<>> => Granted(m) /\ IsIo
    /\ wb_io_out.ack => \E m \in Master : Ack(m) /\ owed[m] # <<>>
    /\ mem.ack => \E m \in Master : Ack(m) /\ Accepted(m)
    /\ mem.busy => MemStrobe

\* The halves that are strobed for a request.
Strobed(r) == IF r.sel = {} THEN {"top"} ELSE r.sel

\* When the latch answers, the devices have seen each selected half of the
\* oldest request exactly once and no other half; a write has changed exactly
\* those, a read returns what they held when it came in, so a 64-bit access is
\* atomic although it is two on the 32-bit bus (soc.vhdl:249-391).
IoServedOnce ==
    wb_io_out.ack =>
      LET r == Head(owed[selected])
          regs == dev[r.slave].regs
      IN /\ accesses = [h \in Half |-> IF h \in Strobed(r) THEN 1 ELSE 0]
         /\ regs = [h \in Half |-> IF r.we /\ h \in r.sel THEN r.dat[h] ELSE kept[h]]
         /\ ~r.we => \A h \in r.sel : wb_io_out.dat[h] = kept[h]

\* Each write is snooped exactly once by the caches of the other masters and
\* never by the writer's own: whenever a cache has the bus or nobody does, it
\* has snooped as many writes as the others have carried out.  The snoop bus
\* names no master, and memory and latch stall at different ends of an access:
\* a write to memory is snooped as it is answered, one to a device when the
\* latch takes it (soc.vhdl:156-166, dcache.vhdl:900-903, icache.vhdl:675-677).
SnoopedOnce == \A c \in Master : Granted(c) \/ ~Bus.cyc => unseen[c] = 0

(***************************************************************************)
(* The invariant of the proofs: whom the memory and the latch work for,    *)
(* and which halves of the request in the latch have been strobed.         *)
(***************************************************************************)
Working == io.state # "IDLE"
Oldest  == Head(owed[selected])
NowHalf == IF io.state = "WAIT_ACK_BOT" THEN "bot" ELSE "top"
Before  == IF io.state = "WAIT_ACK_TOP" THEN Oldest.sel \cap {"bot"} ELSE {}
Seen    == IF Working THEN Before \cup (IF wb_sio_out.stb THEN {} ELSE {NowHalf})
           ELSE Strobed(Oldest)

StrobesHaveCyc == \A m \in Master : wb_masters[m].stb => wb_masters[m].cyc

\* The memory works for the selected master, whose strobe is held.
MemoryForSelected ==
    /\ ~(mem.busy /\ mem.ack)
    /\ mem.busy \/ mem.ack => /\ wb_masters[selected].cyc /\ wb_masters[selected].stb
                              /\ wb_masters[selected].req.slave = "mem"

\* So does the latch, for one request at a time.
LatchForSelected ==
    /\ \A m \in Master : owed[m] # <<>> => m = selected
    /\ wb_io_out.stall <=> Working
    /\ Working => ~wb_io_out.ack
    /\ owed[selected] # <<>> <=> Working \/ wb_io_out.ack
    /\ owed[selected] # <<>> =>
         /\ Oldest \in Request /\ owed[selected] = <<Oldest>>
         /\ Oldest.slave \in Device
         /\ wb_masters[selected].cyc
         /\ wb_masters[selected].req.slave = Oldest.slave

HalfUnderWay ==
    /\ ~Working => ~wb_sio_out.stb /\ io_cycle = "none" /\ \A d \in Device : ~dev[d].ack
    /\ Working =>
         /\ io_cycle = Oldest.slave /\ current_io_decode = Oldest.slave
         /\ \A d \in Device : dev[d].ack <=> d = Oldest.slave /\ ~wb_sio_out.stb
         /\ wb_sio_out.half = NowHalf /\ wb_sio_out.dat = Oldest.dat[NowHalf]
         /\ wb_sio_out.we <=> Oldest.we
         /\ wb_sio_out.sel <=> NowHalf \in Oldest.sel
         /\ NowHalf \in Strobed(Oldest)
    /\ io.state = "WAIT_ACK_BOT" =>
         /\ io.has_top <=> "top" \in Oldest.sel
         /\ io.sel_latch <=> "top" \in Oldest.sel
         /\ io.dat_latch = Oldest.dat["top"]

HalvesSeen ==
    owed[selected] # <<>> =>
      /\ accesses = [h \in Half |-> IF h \in Seen THEN 1 ELSE 0]
      /\ dev[Oldest.slave].regs =
           [h \in Half |-> IF Oldest.we /\ h \in Oldest.sel /\ h \in Seen THEN Oldest.dat[h]
                           ELSE kept[h]]
      /\ \A h \in Seen : IF Working /\ h = NowHalf THEN dev[Oldest.slave].dat = kept[h]
                         ELSE wb_io_out.dat[h] = kept[h]

InsnReads == ~wb_masters[1].req.we

\* What the caches of the other masters have yet to snoop of the selected
\* master's accesses: a device write is snooped before it is carried out, a
\* memory write after.
Due == IF Working /\ Oldest.we THEN -1
       ELSE IF mem.ack /\ wb_masters[selected].req.we THEN 1 ELSE 0

UnseenIsDue == \A c \in Master : unseen[c] = IF c = selected THEN 0 ELSE Due

\* What the registers of the bus stand for between any two edges
\* (wishbone_arbiter.vhdl:36-60, soc.vhdl:186-391).
IInv == TypeOK /\ StrobesHaveCyc /\ MemoryForSelected /\ LatchForSelected
        /\ HalfUnderWay /\ HalvesSeen /\ InsnReads /\ UnseenIsDue

\* Every strobe is answered, if the other masters give the bus up again and
\* again.  The arbiter itself is not fair (wishbone_arbiter.vhdl:50-53): a
\* master that keeps the bus starves the other.
EveryMasterServed ==
    \A m \in Master :
        (\A o \in Master \ {m} : []<>~wb_masters[o].cyc)
            => ((wb_masters[m].stb \/ owed[m] # <<>>) ~> Ack(m))

==============================================================================
