--------------------------- MODULE PipelinedMaster ---------------------------
(***************************************************************************)
(* A pipelined Wishbone master that keeps to the rules the caches keep to  *)
(* (rtl/icache.vhdl, rtl/dcache.vhdl) and to no more: a strobe is held     *)
(* until it is not stalled, another may follow at once, and cyc stays up   *)
(* until every accepted strobe has been answered.                          *)
(***************************************************************************)
EXTENDS BusTypes

VARIABLES
    wbm,        \* the master's registered bus outputs
    owed        \* strobes accepted and not yet answered

masterVars == <<wbm, owed>>

MasterInit ==
    /\ wbm = [cyc |-> FALSE, stb |-> FALSE, req |-> ResetReq]
    /\ owed = 0

MasterReset ==
    /\ wbm' = [cyc |-> FALSE, stb |-> FALSE, req |-> ResetReq]
    /\ owed' = 0

StrobeAccepted(stall) == wbm.cyc /\ wbm.stb /\ ~stall

OwedNext(stall, ack) ==
    owed + (IF StrobeAccepted(stall) THEN 1 ELSE 0) - (IF ack THEN 1 ELSE 0)

MasterHold(stall, ack) ==
    /\ wbm.stb /\ stall
    /\ UNCHANGED wbm
    /\ owed' = OwedNext(stall, ack)

MasterStrobe(stall, ack, requests) ==
    /\ ~(wbm.stb /\ stall)
    /\ \E r \in requests : wbm' = [cyc |-> TRUE, stb |-> TRUE, req |-> r]
    /\ owed' = OwedNext(stall, ack)

\* No further strobe: keep the bus, for outstanding answers or (the dcache for
\* a store conditional) to be the only one on it, or give it back.
MasterPause(stall, ack) ==
    /\ ~(wbm.stb /\ stall)
    /\ \E c \in BOOLEAN :
         /\ OwedNext(stall, ack) # 0 => c
         /\ wbm' = [cyc |-> c, stb |-> FALSE, req |-> wbm.req]
    /\ owed' = OwedNext(stall, ack)

MasterProcess(stall, ack, requests) ==
    \/ MasterHold(stall, ack)
    \/ MasterStrobe(stall, ack, requests)
    \/ MasterPause(stall, ack)

==============================================================================
