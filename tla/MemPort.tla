------------------------------- MODULE MemPort -------------------------------
(***************************************************************************)
(* What the bridge promises to the Wishbone bus: a memory port that takes  *)
(* one request at a time, serves each exactly once, and answers it after   *)
(* it was served.  A request may fail: a failed write leaves the memory    *)
(* alone, a failed read returns anything, and both are answered all the    *)
(* same (s_wb_2_m_axi_lite.v:39-40).                                       *)
(***************************************************************************)
EXTENDS BusTypes

VARIABLES
    mem,        \* the memory
    phase,      \* "idle", "taken" or "served"
    req,        \* the request taken last
    ok,         \* whether the request served last succeeded
    result,     \* what the last read returned
    answer      \* the read data the master sees

portVars == <<mem, phase, req, ok, result, answer>>

Written(m, r) ==
    [m EXCEPT ![r.adr] = Merge(@, r.dat, r.sel)]

PortInit ==
    /\ mem \in [Adr -> Word]
    /\ phase = "idle"
    /\ req \in Request
    /\ ok \in BOOLEAN
    /\ result \in Word
    /\ answer \in Word

Take ==
    /\ phase = "idle"
    /\ phase' = "taken"
    /\ req' \in Request
    /\ UNCHANGED <<mem, ok, result, answer>>

ServeWrite ==
    /\ phase = "taken"
    /\ req.we
    /\ phase' = "served"
    /\ ok' \in BOOLEAN
    /\ mem' = IF ok' THEN Written(mem, req) ELSE mem
    /\ UNCHANGED <<req, result, answer>>

ServeRead ==
    /\ phase = "taken"
    /\ ~req.we
    /\ phase' = "served"
    /\ ok' \in BOOLEAN
    /\ result' \in Word
    /\ ok' => result' = mem[req.adr]
    /\ UNCHANGED <<mem, req, answer>>

Answer ==
    /\ phase = "served"
    /\ phase' = "idle"
    /\ answer' = IF req.we THEN answer ELSE result
    /\ UNCHANGED <<mem, req, ok, result>>

PortNext == Take \/ ServeWrite \/ ServeRead \/ Answer

PortSpec == PortInit /\ [][PortNext]_portVars

==============================================================================
