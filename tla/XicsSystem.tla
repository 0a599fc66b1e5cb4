----------------------------- MODULE XicsSystem ------------------------------
(***************************************************************************)
(* The interrupt controller between the devices and the software.  Two     *)
(* environments, chosen at reset: FreeNext, where lines and bus accesses   *)
(* are arbitrary, for what the hardware alone promises, and DriverNext,    *)
(* where the lines are level interrupts a device holds up until it is      *)
(* serviced and the software is an interrupt handler, for what the two     *)
(* promise together.                                                       *)
(***************************************************************************)
EXTENDS Xics, FiniteSets

CONSTANTS Wired,        \* the lines that are connected (soc.vhdl:230-238)
          AccessPri,    \* the priorities software writes
          FreeRegs      \* the registers FreeNext accesses

ASSUME WiredAssumption ==
    Wired \subseteq Src /\ AccessPri \subseteq Pri8

VARIABLES
    level,      \* the interrupt lines
    quiet,      \* edges since a line, a mask or a message changed, up to Depth
    held,       \* edges since a line fell or a source was changed, up to Depth
    handler     \* the software of cpu 0: pc ("none" if it is arbitrary), the
                \* CPPR to restore, the source

vars == <<xicsVars, level, quiet, held, handler>>

\* Edges from a change of a line to the registers of the ICP.
Depth == 3

Init ==
    /\ XicsInit
    /\ level = [s \in Src |-> FALSE]
    /\ quiet = 0
    /\ held = 0
    /\ \E pc \in {"none", "setup"} : handler = [pc |-> pc, cppr |-> FF, src |-> NoSource]

Changed == \/ level' # level
           \/ xives' # xives
           \/ \E c \in Cpu : icp'[c].mfrr # icp[c].mfrr

\* What is pending may be so no longer.
Weakened == \/ \E s \in Src : level[s] /\ ~level'[s]
            \/ xives' # xives

\* The edges since something happened.
Since(happened, edges) == IF happened THEN 0 ELSE IF edges = Depth THEN Depth ELSE edges + 1

\* One clock edge with an access of the ICS or of the ICP, or with neither.
Edge(icsAcc, icpAcc) ==
    /\ IcsEdge(level, icsAcc)
    /\ IcpEdge(icpAcc)
    /\ quiet' = Since(Changed, quiet)
    /\ held' = Since(Weakened, held)

\* Accesses are writes, and the reads that accept: a read of anything else has
\* no effect but its answer.  A server or a cpu that does not exist comes with
\* one value: it has the same effect with any.
FreeIcs ==
    {a \in IcsAccess : /\ a.reg \in FreeRegs /\ a.we
                       /\ a.pri \in AccessPri /\ a.server \in 0..NCPUS
                       /\ a.server \notin Cpu => a.pri = FF
                       /\ a.selPri /\ a.selServer}
FreeIcp ==
    {a \in IcpAccess : /\ a.reg \in FreeRegs /\ a.we # a.word
                       /\ a.val \in IF a.we /\ a.cpu \in Cpu THEN AccessPri ELSE {0}}

FreeNext ==
    /\ handler.pc = "none"
    /\ UNCHANGED level \/ \E s \in Wired : level' = [level EXCEPT ![s] = ~@]
    /\ UNCHANGED handler
    /\ \/ Edge(NoAccess, NoAccess)
       \/ \E a \in FreeIcs : Edge(a, NoAccess)
       \/ \E a \in FreeIcp : Edge(NoAccess, a)

TypeOK ==
    /\ XicsTypeOK
    /\ level \in [Src -> BOOLEAN]
    /\ quiet \in 0..Depth
    /\ held \in 0..Depth

------------------------------------------------------------------------------
(***************************************************************************)
(* An interrupt handler on cpu 0, not part of the repository: it opens     *)
(* CPPR, and on an interrupt accepts, services the source it is told, and  *)
(* ends the interrupt by writing back the CPPR it read, also when it is    *)
(* told of no source.  It takes its time between any two steps.            *)
(***************************************************************************)
XirrRead     == [we |-> FALSE, cpu |-> 0, reg |-> "XIRR", word |-> TRUE, val |-> 0]
XirrWrite(p) == [we |-> TRUE, cpu |-> 0, reg |-> "XIRR", word |-> TRUE, val |-> p]
MfrrWrite(p) == [we |-> TRUE, cpu |-> 0, reg |-> "MFRR", word |-> FALSE, val |-> p]
XiveWrite(s, p) == [we |-> TRUE, reg |-> "xive", idx |-> s, selPri |-> TRUE, pri |-> p,
                    selServer |-> TRUE, server |-> 0]

Lines == \/ UNCHANGED level
         \/ \E s \in Wired : level' = [level EXCEPT ![s] = TRUE]

HandlerWait == handler.pc \notin {"none", "reply"} /\ Lines /\ UNCHANGED handler /\ Edge(NoAccess, NoAccess)

\* Priorities first, one source at a time, then CPPR.
Unmask ==
    /\ handler.pc = "setup"
    /\ Lines
    /\ \E s \in Wired, p \in AccessPri :
         /\ xives[s].pri = pri_masked /\ p < pri_masked
         /\ Edge(XiveWrite(s, p), NoAccess)
    /\ UNCHANGED handler

Open ==
    /\ handler.pc = "setup"
    /\ \A s \in Wired : xives[s].pri # pri_masked
    /\ Lines
    /\ Edge(NoAccess, XirrWrite(FF))
    /\ handler' = [handler EXCEPT !.pc = "run"]

Accept ==
    /\ handler.pc = "run"
    /\ core_irq_out[0]
    /\ Lines
    /\ Edge(NoAccess, XirrRead)
    /\ handler' = [handler EXCEPT !.pc = "reply"]

Reply ==
    /\ handler.pc = "reply"
    /\ Lines
    /\ Edge(NoAccess, NoAccess)
    /\ handler' = [pc |-> "service", cppr |-> icp_rd.dat.cppr, src |-> icp_rd.dat.xisr]

\* The device drops its line, or the handler the message.
Service ==
    /\ handler.pc = "service"
    /\ level' = [s \in Src |-> level[s] /\ handler.src # XisrOf(s)]
    /\ Edge(NoAccess, IF handler.src = MfrrSource THEN MfrrWrite(FF) ELSE NoAccess)
    /\ handler' = [handler EXCEPT !.pc = "eoi"]

EndOfInterrupt ==
    /\ handler.pc = "eoi"
    /\ Lines
    /\ Edge(NoAccess, XirrWrite(handler.cppr))
    /\ handler' = [handler EXCEPT !.pc = "run"]

\* A message to the cpu itself.
Message ==
    /\ handler.pc = "run"
    /\ Lines
    /\ \E p \in AccessPri : Edge(NoAccess, MfrrWrite(p))
    /\ UNCHANGED handler

HandlerStep == Unmask \/ Open \/ Accept \/ Reply \/ Service \/ EndOfInterrupt
DriverNext  == HandlerWait \/ HandlerStep \/ Message

Next == FreeNext \/ DriverNext

\* The clock runs, and the handler does what it has to do.
Spec ==
    /\ Init
    /\ [][Next]_vars
    /\ WF_vars(DriverNext)
    /\ WF_vars(Unmask) /\ WF_vars(Open) /\ WF_vars(Accept)
    /\ WF_vars(Reply) /\ WF_vars(Service) /\ WF_vars(EndOfInterrupt)

------------------------------------------------------------------------------
\* The most favoured of what is pending for a cpu: lines by priority, then by
\* number; a message counts if it is strictly more favoured than any line.
Candidates(c) == {s \in Src : level[s] /\ xives[s].server = c /\ xives[s].pri # pri_masked}
Best(c) == CHOOSE s \in Candidates(c) : \A t \in Candidates(c) :
               \/ xives[s].pri < xives[t].pri
               \/ xives[s].pri = xives[t].pri /\ s <= t
BestPri(c) == IF Candidates(c) = {} THEN FF ELSE xives[Best(c)].pri

\* Once nothing has changed for as long as a change takes to get through, each
\* cpu is presented with the most favoured interrupt of all pending for it, and
\* interrupted exactly if that is more favoured than its CPPR: latching,
\* masking, picking and presenting agree though each works on older state than
\* the one before (xics.vhdl:180-212, 386-392, 454-497).
SettledPresentsBest ==
    quiet = Depth =>
      \A c \in Cpu :
        LET pri == IF icp[c].mfrr < BestPri(c) THEN icp[c].mfrr ELSE BestPri(c)
        IN /\ icp[c].xisr = IF icp[c].mfrr < BestPri(c) THEN MfrrSource
                            ELSE IF Candidates(c) = {} THEN NoSource ELSE XisrOf(Best(c))
           /\ icp[c].irq <=> pri < icp[c].cppr

(***************************************************************************)
(* The invariant of the proofs: how far a change has come through the      *)
(* registers.                                                              *)
(***************************************************************************)
Presented(c) == /\ icp[c].xisr = Pending(c).xisr
                /\ icp[c].irq <=> Pending(c).pri < icp[c].cppr

Settling ==
    /\ quiet >= 1 => int_level_l = level
    /\ quiet >= 2 => \A c \in Cpu : ics_to_icp[c] = irq_gen(c)
    /\ quiet >= 3 => \A c \in Cpu : Presented(c)

\* The pick of a cpu is of a source that is latched.
PickLatched(c) ==
    LET s == ics_to_icp[c].src
    IN ics_to_icp[c].pri # FF => /\ int_level_l[s] /\ xives[s].server = c
                                 /\ xives[s].pri = ics_to_icp[c].pri
                                 /\ xives[s].pri # pri_masked

\* What is pending is at least as favoured as what is presented.
NoneLost(c) == \A s \in Src : icp[c].xisr = XisrOf(s) => Pending(c).pri <= xives[s].pri

Holding ==
    /\ held >= 1 => \A s \in Src : int_level_l[s] => level[s]
    /\ held >= 2 => \A c \in Cpu : PickLatched(c)
    /\ held >= 3 => \A c \in Cpu : NoneLost(c)

\* What the handler holds: the CPPR to restore and the source it was told of,
\* both from the answer that is up when it takes them.
HandlerHolds ==
    /\ handler \in [pc : {"none", "setup", "run", "reply", "service", "eoi"}, cppr : Pri8,
                    src : Xisr]
    /\ handler.pc = "reply" => icp_rd.dat.cppr \in Pri8 /\ icp_rd.dat.xisr \in Xisr

\* Each stage agrees with the one before it an edge after that has come to
\* rest, and shows nothing that has gone an edge after that has lost nothing
\* (xics.vhdl:180-212, 386-392, 454-497).
IInv == TypeOK /\ Settling /\ Holding /\ HandlerHolds

\* With the handler every interrupt raised on a wired line is serviced,
\* whatever less favoured ones come in between a pick, its accept and its end,
\* provided the more favoured ones do not come without end (xics.vhdl:165-202,
\* 454-497).
Serviced(s) == handler.pc = "service" /\ handler.src = XisrOf(s)
MoreFavoured(t, s) == \/ xives[t].pri < xives[s].pri
                      \/ xives[t].pri = xives[s].pri /\ t < s
RaisedIsServiced ==
    \A s \in Wired :
        handler.pc # "none" /\ <>[](/\ \A t \in Wired : MoreFavoured(t, s) => ~level[t]
                                    /\ icp[0].mfrr >= xives[s].pri)
            => (level[s] ~> Serviced(s))

\* An accept returns the registered pick but takes the priority of the current
\* one (xics.vhdl:165-202).  Lines may rise and messages be written at any
\* moment: an accept then leaves CPPR at least as favoured as the source it
\* reports, so that no less favoured interrupt nests in its service, unless a
\* line fell or a source was changed in the last edges.  Once everything has
\* settled the two picks are the same, so more favoured interrupts do nest.
PriOf(c, xisr) ==
    IF xisr = NoSource THEN FF
    ELSE IF xisr = MfrrSource THEN icp[c].mfrr
    ELSE LET s == CHOOSE t \in Src : xisr = XisrOf(t) IN xives[s].pri
Accepting(c) == IcpEdge([XirrRead EXCEPT !.cpu = c])
AcceptTakesItsPriority ==
    [][\A c \in Cpu : held = Depth /\ Accepting(c) =>
         /\ icp'[c].cppr <= PriOf(c, icp[c].xisr)
         /\ quiet = Depth => icp'[c].cppr = PriOf(c, icp[c].xisr)]_vars

==============================================================================
