-------------------------------- MODULE SocBus -------------------------------
(***************************************************************************)
(* The bus of the SoC: the arbiter (rtl/wishbone_arbiter.vhdl), the main   *)
(* address decoder, the latch that turns one 64-bit I/O request into one   *)
(* or two 32-bit ones, and the I/O interconnect (rtl/soc.vhdl).            *)
(*                                                                         *)
(* A 64-bit request selects a set of halves; a half stands for its byte    *)
(* lanes.  Addresses are told apart by the slave they decode to.  Of the   *)
(* two I/O devices only the bus side is here, registers that are read and  *)
(* written; what the interrupt controller does with them is in Xics.       *)
(***************************************************************************)
EXTENDS Integers, Sequences

CONSTANTS NUM_MASTERS,
          Val,          \* values of a half
          ZeroVal,      \* the value of reset
          OnesVal       \* the answer of no device

ASSUME BusAssumption ==
    /\ NUM_MASTERS \in 1..4         \* selects early (wishbone_arbiter.vhdl:34)
    /\ {ZeroVal, OnesVal} \subseteq Val

Master == 0..(NUM_MASTERS - 1)
Device == {"icp", "ics"}
Slave  == {"mem"} \cup Device
Half   == {"bot", "top"}
Dword  == [Half -> Val]
ZeroDword == [h \in Half |-> ZeroVal]

Request   == [we : BOOLEAN, slave : Slave, sel : SUBSET Half, dat : Dword]
ResetReq  == [we |-> FALSE, slave |-> "mem", sel |-> {}, dat |-> ZeroDword]
WbMaster  == [cyc : BOOLEAN, stb : BOOLEAN, req : Request]
ResetWb   == [cyc |-> FALSE, stb |-> FALSE, req |-> ResetReq]

VARIABLES
    wb_masters,         \* the registered bus outputs of each master
    selected,           \* the master the arbiter holds the bus for
    io,                 \* the latch: state and what it keeps of the request
    wb_io_out,          \* its answer to the 64-bit bus: ack, stall, data
    wb_sio_out,         \* its request on the 32-bit bus
    io_cycle,           \* the device selected by cyc, or "none"
    current_io_decode,  \* the device whose answer is taken
    dev                 \* each device: registered ack and data, registers

latchVars == <<io, wb_io_out, wb_sio_out, io_cycle, current_io_decode>>
busVars   == <<wb_masters, selected, latchVars, dev>>

BusTypeOK ==
    /\ wb_masters \in [Master -> WbMaster]
    /\ selected \in Master
    /\ io \in [state : {"IDLE", "WAIT_ACK_BOT", "WAIT_ACK_TOP"},
               has_top : BOOLEAN, dat_latch : Val, sel_latch : BOOLEAN]
    /\ wb_io_out \in [ack : BOOLEAN, stall : BOOLEAN, dat : Dword]
    /\ wb_sio_out \in [cyc : BOOLEAN, stb : BOOLEAN, we : BOOLEAN, half : Half,
                       sel : BOOLEAN, dat : Val]
    /\ io_cycle \in Device \cup {"none", "unmapped"}
    /\ current_io_decode \in Device
    /\ dev \in [Device -> [ack : BOOLEAN, dat : Val, regs : Dword]]

BusInit ==
    /\ wb_masters = [m \in Master |-> ResetWb]
    /\ selected = 0
    /\ io = [state |-> "IDLE", has_top |-> FALSE, dat_latch |-> ZeroVal, sel_latch |-> FALSE]
    /\ wb_io_out = [ack |-> FALSE, stall |-> FALSE, dat |-> ZeroDword]
    /\ wb_sio_out = [cyc |-> FALSE, stb |-> FALSE, we |-> FALSE, half |-> "bot",
                     sel |-> FALSE, dat |-> ZeroVal]
    /\ io_cycle = "none"
    /\ current_io_decode = "icp"
    /\ dev = [d \in Device |-> [ack |-> FALSE, dat |-> ZeroVal, regs |-> ZeroDword]]

------------------------------------------------------------------------------
(***************************************************************************)
(* Arbiter: the lowest-numbered master that wants the bus gets it once the *)
(* selected one has given it up.                                           *)
(***************************************************************************)
Busy    == wb_masters[selected].cyc
Wanting == {m \in Master : wb_masters[m].cyc}
Lowest(S) == CHOOSE m \in S : \A n \in S : m <= n

Candidate == IF Wanting # {} THEN Lowest(Wanting) ELSE selected

\* Faulty: the bus goes to the candidate whether or not it is given up.
SelAlways == Candidate

EarlySel  == IF Busy THEN selected ELSE Candidate
Granted(m) == EarlySel = m /\ wb_masters[m].cyc

\* What the slaves see.
Bus == wb_masters[EarlySel]

ArbiterEdge == selected' = IF Busy THEN selected ELSE Candidate

------------------------------------------------------------------------------
(***************************************************************************)
(* Decoder: requests and answers go by the address on the bus now.         *)
(***************************************************************************)
IsIo == Bus.req.slave \in Device
IoStrobe  == Bus.cyc /\ Bus.stb /\ IsIo
MemStrobe == Bus.cyc /\ Bus.stb /\ ~IsIo

SlaveAck(memAck)     == IF IsIo THEN wb_io_out.ack ELSE memAck
SlaveStall(memStall) == IF IsIo THEN wb_io_out.stall ELSE memStall

\* What each master sees.
MasterAck(m, memAck)     == Granted(m) /\ SlaveAck(memAck)
MasterStall(m, memStall) == IF Granted(m) THEN SlaveStall(memStall) ELSE TRUE

\* Faulty: strobes that are stalled are snooped.
SnoopUngated(memStall) == Bus.cyc /\ Bus.stb

\* The strobe the caches snoop.
SnoopStb(memStall) == Bus.cyc /\ Bus.stb /\ ~SlaveStall(memStall)

------------------------------------------------------------------------------
(***************************************************************************)
(* Devices: never stall, answer one cycle after the strobe                 *)
(* (xics.vhdl:90-119, 394-418).  The answer the latch sees is by the       *)
(* decode it keeps; no device answers at once, with ones.                  *)
(***************************************************************************)
DeviceStrobe(d) == io_cycle = d /\ wb_sio_out.stb

DeviceEdge ==
    dev' = [d \in Device |->
              [ack  |-> DeviceStrobe(d),
               dat  |-> IF DeviceStrobe(d) THEN dev[d].regs[wb_sio_out.half] ELSE ZeroVal,
               regs |-> IF DeviceStrobe(d) /\ wb_sio_out.we /\ wb_sio_out.sel
                          THEN [dev[d].regs EXCEPT ![wb_sio_out.half] = wb_sio_out.dat]
                          ELSE dev[d].regs]]

SioAck == IF io_cycle = "unmapped" THEN wb_sio_out.stb /\ wb_sio_out.cyc
          ELSE dev[current_io_decode].ack
SioDat == IF io_cycle = "unmapped" THEN OnesVal ELSE dev[current_io_decode].dat

------------------------------------------------------------------------------
(***************************************************************************)
(* I/O latch.                                                              *)
(***************************************************************************)

\* Faulty: the top half goes to the address of the bottom one.
TopAtBot ==
    /\ io.state = "WAIT_ACK_BOT" /\ SioAck /\ io.has_top
    /\ wb_io_out' = [wb_io_out EXCEPT !.dat["bot"] = SioDat]
    /\ wb_sio_out' = [wb_sio_out EXCEPT !.dat = io.dat_latch, !.sel = io.sel_latch,
                                        !.stb = TRUE]
    /\ io' = [io EXCEPT !.state = "WAIT_ACK_TOP"]
    /\ UNCHANGED <<io_cycle, current_io_decode>>

\* Faulty: the strobe stays up until the ack.
StbUntilAck ==
    /\ io.state # "IDLE" /\ ~SioAck
    /\ UNCHANGED latchVars

IoIdle ==
    /\ io.state = "IDLE" /\ ~IoStrobe
    /\ wb_io_out' = [wb_io_out EXCEPT !.ack = FALSE]
    /\ UNCHANGED <<io, wb_sio_out, io_cycle, current_io_decode>>

\* The bottom half goes first if it is selected; a request that selects nothing
\* is sent to the top.  The decoder lets nothing but the two devices through,
\* so the unmapped cycle of the code is never started.
IoTake ==
    /\ io.state = "IDLE" /\ IoStrobe
    /\ LET half == IF "bot" \in Bus.req.sel THEN "bot" ELSE "top"
       IN /\ wb_sio_out' = [cyc |-> TRUE, stb |-> TRUE, we |-> Bus.req.we, half |-> half,
                            sel |-> half \in Bus.req.sel, dat |-> Bus.req.dat[half]]
          /\ io' = [state |-> IF half = "bot" THEN "WAIT_ACK_BOT" ELSE "WAIT_ACK_TOP",
                    has_top |-> "top" \in Bus.req.sel,
                    dat_latch |-> Bus.req.dat["top"], sel_latch |-> "top" \in Bus.req.sel]
    /\ wb_io_out' = [ack |-> FALSE, stall |-> TRUE, dat |-> wb_io_out.dat]
    /\ io_cycle' = Bus.req.slave
    /\ current_io_decode' = Bus.req.slave

IoWait ==
    /\ io.state # "IDLE" /\ ~SioAck
    /\ wb_sio_out' = [wb_sio_out EXCEPT !.stb = FALSE]
    /\ UNCHANGED <<io, wb_io_out, io_cycle, current_io_decode>>

IoSecondHalf ==
    /\ io.state = "WAIT_ACK_BOT" /\ SioAck /\ io.has_top
    /\ wb_io_out' = [wb_io_out EXCEPT !.dat["bot"] = SioDat]
    /\ wb_sio_out' = [cyc |-> wb_sio_out.cyc, stb |-> TRUE, we |-> wb_sio_out.we,
                      half |-> "top", sel |-> io.sel_latch, dat |-> io.dat_latch]
    /\ io' = [io EXCEPT !.state = "WAIT_ACK_TOP"]
    /\ UNCHANGED <<io_cycle, current_io_decode>>

\* The last half is answered: ack, and take the next request.
IoFinish ==
    /\ io.state # "IDLE" /\ SioAck
    /\ io.state = "WAIT_ACK_BOT" => ~io.has_top
    /\ wb_io_out' = [ack |-> TRUE, stall |-> FALSE,
                     dat |-> [wb_io_out.dat EXCEPT
                                ![IF io.state = "WAIT_ACK_BOT" THEN "bot" ELSE "top"] = SioDat]]
    /\ wb_sio_out' = [wb_sio_out EXCEPT !.stb = FALSE, !.cyc = FALSE]
    /\ io' = [io EXCEPT !.state = "IDLE"]
    /\ io_cycle' = "none"
    /\ UNCHANGED current_io_decode

IoLatchEdge == IoIdle \/ IoTake \/ IoWait \/ IoSecondHalf \/ IoFinish

==============================================================================
