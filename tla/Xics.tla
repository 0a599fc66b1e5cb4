-------------------------------- MODULE Xics ---------------------------------
(***************************************************************************)
(* The interrupt controller, rtl/xics.vhdl: the source unit (ICS), which   *)
(* latches the interrupt lines, masks them and picks the most favoured     *)
(* one for each cpu, and the presentation unit (ICP), where the cpu reads, *)
(* accepts and ends interrupts.                                            *)
(*                                                                         *)
(* The two are clocked processes in a row: a line is latched, one cycle    *)
(* later the pick is registered, one later it is presented, one later the  *)
(* core sees it.  Lower numbers are more favoured; a source at the lowest  *)
(* favour is masked.  A bus access is what the 32-bit bus carries in the   *)
(* one cycle a device sees its strobe; data comes back the cycle after.    *)
(* Byte swapping and the configuration word are left out.                  *)
(***************************************************************************)
EXTENDS Integers

CONSTANTS NCPUS,
          SRC_NUM,      \* interrupt lines
          PRIO_BITS,    \* bits of a priority in the ICS
          FF            \* the 8-bit priority that masks, 255

ASSUME XicsAssumption ==
    /\ NCPUS \in Nat \ {0} /\ SRC_NUM \in Nat \ {0} /\ PRIO_BITS \in Nat \ {0}
    /\ FF \in Nat /\ FF >= 2^PRIO_BITS - 1

Cpu   == 0..(NCPUS - 1)
Src   == 0..(SRC_NUM - 1)
Pri8  == 0..FF                      \* priorities on the bus and in the ICP
Pri   == 0..(2^PRIO_BITS - 1)       \* priorities in the ICS
pri_masked == 2^PRIO_BITS - 1

NoSource   == 0                     \* XISR of no interrupt
MfrrSource == 2                     \* XISR of an interrupt between processors
XisrOf(s)  == 16 + s                \* XISR of line s
Xisr       == {NoSource, MfrrSource} \cup {XisrOf(s) : s \in Src}

VARIABLES
    int_level_l,    \* the latched lines
    xives,          \* priority and server of each source
    ics_to_icp,     \* the registered pick of each cpu: source and priority
    ics_rd,         \* read port of the ICS: ack and data
    icp,            \* presentation registers of each cpu
    icp_rd,         \* read port of the ICP: ack and data
    core_irq_out    \* the interrupt wires to the cores

icsVars  == <<int_level_l, xives, ics_to_icp, ics_rd>>
icpVars  == <<icp, icp_rd, core_irq_out>>
xicsVars == <<icsVars, icpVars>>

NoData == [kind |-> "zero"]

\* What a bus access of the ICS or the ICP can be.
IcsAccess ==
    [we : BOOLEAN, reg : {"xive"}, idx : Src,
     selPri : BOOLEAN, pri : Pri8, selServer : BOOLEAN, server : 0..FF]
\* cpu NCPUS stands for every index for which there is no cpu.
IcpAccess ==
    [we : BOOLEAN, cpu : 0..NCPUS, reg : {"XIRR_POLL", "XIRR", "RESV0", "MFRR"},
     word : BOOLEAN, val : Pri8]
NoAccess == [we |-> FALSE, reg |-> "none"]

XicsTypeOK ==
    /\ int_level_l \in [Src -> BOOLEAN]
    /\ xives \in [Src -> [pri : Pri, server : Cpu]]
    /\ ics_to_icp \in [Cpu -> [src : Src, pri : Pri8]]
    /\ icp \in [Cpu -> [xisr : Xisr, cppr : Pri8, mfrr : Pri8, irq : BOOLEAN]]
    /\ core_irq_out \in [Cpu -> BOOLEAN]

XicsInit ==
    /\ int_level_l = [s \in Src |-> FALSE]
    /\ xives = [s \in Src |-> [pri |-> pri_masked, server |-> 0]]
    /\ ics_to_icp = [c \in Cpu |-> [src |-> SRC_NUM - 1, pri |-> FF]]
    /\ ics_rd = [ack |-> FALSE, dat |-> NoData]
    /\ icp = [c \in Cpu |-> [xisr |-> NoSource, cppr |-> 0, mfrr |-> FF, irq |-> FALSE]]
    /\ icp_rd = [ack |-> FALSE, dat |-> NoData]
    /\ core_irq_out = [c \in Cpu |-> FALSE]

------------------------------------------------------------------------------
(***************************************************************************)
(* Faulty variants of the definitions below.                               *)
(***************************************************************************)

\* an accept leaves the current priority as it is
AcceptKeeps(cpu, a) ==
    IF a.reg \in {"XIRR_POLL", "XIRR"} /\ a.we /\ a.cpu = cpu
      THEN a.val ELSE icp[cpu].cppr

\* a write of the current priority can only make it more favoured
WriteNeverRaises(cpu, a) ==
    IF a.reg \in {"XIRR_POLL", "XIRR"} /\ a.we /\ a.cpu = cpu /\ a.val < icp[cpu].cppr
      THEN a.val ELSE icp[cpu].cppr

\* a source keeps all bits of the priority written to it
XiveUnpacked(x, a) == [pri |-> a.pri, server |-> a.server % NCPUS]

------------------------------------------------------------------------------
(***************************************************************************)
(* ICS.                                                                    *)
(***************************************************************************)
prio_pack(pri8)  == IF pri8 >= pri_masked THEN pri_masked ELSE pri8
prio_unpack(pri) == IF pri = pri_masked THEN FF ELSE pri
server_check(n)  == IF n < NCPUS THEN n ELSE 0

\* The lowest set bit; the highest-numbered bit counts as set.
priority_encoder(v, last) == CHOOSE n \in v \cup {last} : \A m \in v \cup {last} : n <= m

\* The priorities of what is pending for a cpu, and what is pending at one.
PendingPri(cpu) == {xives[s].pri : s \in {t \in Src : int_level_l[t] /\ xives[t].server = cpu}}
PendingAtPri(cpu, pri) ==
    {s \in Src : int_level_l[s] /\ xives[s].pri = pri /\ xives[s].server = cpu}

irq_gen(cpu) ==
    LET max_pri == priority_encoder(PendingPri(cpu), pri_masked)
    IN [src |-> priority_encoder(PendingAtPri(cpu, max_pri), SRC_NUM - 1),
        pri |-> prio_unpack(max_pri)]

WriteXive(x, a) ==
    [pri    |-> IF a.selPri THEN prio_pack(a.pri) ELSE x.pri,
     server |-> IF a.selServer THEN server_check(a.server) ELSE x.server]

ReadXive(s) == [kind |-> "xive", input |-> int_level_l[s],
                server |-> xives[s].server, pri |-> prio_unpack(xives[s].pri)]

IcsEdge(levels, a) ==
    /\ int_level_l' = levels
    /\ ics_to_icp' = [c \in Cpu |-> irq_gen(c)]
    /\ xives' = IF a.we THEN [xives EXCEPT ![a.idx] = WriteXive(@, a)] ELSE xives
    /\ ics_rd' = [ack |-> a.reg # "none",
                  dat |-> IF a.reg = "xive" THEN ReadXive(a.idx) ELSE NoData]

------------------------------------------------------------------------------
(***************************************************************************)
(* ICP.                                                                    *)
(***************************************************************************)

\* What a cpu has pending: the pick of the ICS, or its own message if that is
\* more favoured.
Pending(cpu) ==
    LET ics == IF ics_to_icp[cpu].pri # FF
                 THEN [xisr |-> XisrOf(ics_to_icp[cpu].src), pri |-> ics_to_icp[cpu].pri]
                 ELSE [xisr |-> NoSource, pri |-> FF]
    IN IF icp[cpu].mfrr < ics.pri
         THEN [xisr |-> MfrrSource, pri |-> icp[cpu].mfrr] ELSE ics

\* A word read of XIRR accepts.
Accepts(cpu, a) == a.reg = "XIRR" /\ a.cpu = cpu /\ ~a.we /\ a.word

\* CPPR is set by a write to either XIRR, of any width, and by an accept.
CpprNext(cpu, a) ==
    IF a.reg \in {"XIRR_POLL", "XIRR"} /\ a.cpu = cpu /\ a.we THEN a.val
    ELSE IF Accepts(cpu, a) THEN Pending(cpu).pri
    ELSE icp[cpu].cppr

MfrrNext(cpu, a) == IF a.reg = "MFRR" /\ a.cpu = cpu /\ a.we THEN a.val ELSE icp[cpu].mfrr

\* Faulty: compares with the priority before the write of this cycle.
IrqOfOld(cpu, a) == Pending(cpu).pri < icp[cpu].cppr

IrqNext(cpu, a) == Pending(cpu).pri < CpprNext(cpu, a)

\* A read returns what is registered, not what is being picked.
IcpRead(a) ==
    IF a.we \/ a.cpu \notin Cpu THEN NoData
    ELSE CASE a.reg \in {"XIRR_POLL", "XIRR"} ->
                [kind |-> "xirr", cppr |-> icp[a.cpu].cppr, xisr |-> icp[a.cpu].xisr]
           [] a.reg = "MFRR" -> [kind |-> "mfrr", mfrr |-> icp[a.cpu].mfrr]
           [] OTHER -> NoData

IcpEdge(a) ==
    /\ icp' = [c \in Cpu |-> [xisr |-> Pending(c).xisr, cppr |-> CpprNext(c, a),
                              mfrr |-> MfrrNext(c, a), irq |-> IrqNext(c, a)]]
    /\ icp_rd' = [ack |-> a.reg # "none", dat |-> IF a.reg = "none" THEN NoData ELSE IcpRead(a)]
    /\ core_irq_out' = [c \in Cpu |-> icp[c].irq]

==============================================================================
