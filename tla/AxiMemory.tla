------------------------------ MODULE AxiMemory ------------------------------
(***************************************************************************)
(* The AXI slave behind the bridge: the memory and devices of the Zynq PS. *)
(* It is not part of the repository.  The module says no more than what    *)
(* the bridge may rely on, an AXI4-Lite slave that accepts each channel    *)
(* when it likes, performs a write after it has both its address and its   *)
(* data, keeps a response up until it is taken, and holds one write and    *)
(* one read at a time.  rtl/s_axi_lite.v and sim/s_axi_lite_sim.v are      *)
(* slaves of this kind.                                                    *)
(***************************************************************************)
EXTENDS BusTypes

VARIABLES
    mem,        \* contents, one word per address
    ps_aw,      \* accepted write address, if full
    ps_w,       \* accepted write data, if full
    ps_b,       \* write response channel
    ps_ar,      \* accepted read address, if full
    ps_r        \* read data channel

psVars == <<mem, ps_aw, ps_w, ps_b, ps_ar, ps_r>>

MemTypeOK ==
    /\ mem \in [Adr -> Word]
    /\ ps_aw \in [full : BOOLEAN, addr : Adr]
    /\ ps_w \in [full : BOOLEAN, data : Word, strb : SUBSET Lanes]
    /\ ps_b \in [valid : BOOLEAN, resp : Resp]
    /\ ps_ar \in [full : BOOLEAN, addr : Adr]
    /\ ps_r \in [valid : BOOLEAN, data : Word, resp : Resp]

Store(m, a, d, strb) == [m EXCEPT ![a] = Merge(@, d, strb)]

MemInit(zeroAdr, zeroWord) ==
    /\ mem = [a \in Adr |-> zeroWord]
    /\ ps_aw = [full |-> FALSE, addr |-> zeroAdr]
    /\ ps_w = [full |-> FALSE, data |-> zeroWord, strb |-> {}]
    /\ ps_b = [valid |-> FALSE, resp |-> OKAY]
    /\ ps_ar = [full |-> FALSE, addr |-> zeroAdr]
    /\ ps_r = [valid |-> FALSE, data |-> zeroWord, resp |-> OKAY]

------------------------------------------------------------------------------
\* Accept what is offered on AW and W; drop the response once it is taken.
CollectWrite(awready, wready, aw, w, bready) ==
    /\ awready => ~ps_aw.full /\ ~ps_b.valid
    /\ wready => ~ps_w.full /\ ~ps_b.valid
    /\ ps_aw' = IF awready /\ aw.valid
                  THEN [full |-> TRUE, addr |-> aw.addr] ELSE ps_aw
    /\ ps_w' = IF wready /\ w.valid
                 THEN [full |-> TRUE, data |-> w.data, strb |-> w.strb] ELSE ps_w
    /\ ps_b' = [ps_b EXCEPT !.valid = @ /\ ~bready]
    /\ UNCHANGED mem

\* Perform the write and raise its response; a write that fails has no effect.
PerformWrite(awready, wready) ==
    /\ ~awready /\ ~wready
    /\ ps_aw.full /\ ps_w.full /\ ~ps_b.valid
    /\ ps_aw' = [full |-> FALSE, addr |-> ps_aw.addr]
    /\ ps_w' = [full |-> FALSE, data |-> ps_w.data, strb |-> ps_w.strb]
    /\ \E resp \in Resp :
         /\ ps_b' = [valid |-> TRUE, resp |-> resp]
         /\ mem' = IF resp = OKAY
                     THEN Store(mem, ps_aw.addr, ps_w.data, ps_w.strb) ELSE mem

CollectRead(arready, ar, rready) ==
    /\ arready => ~ps_ar.full /\ ~ps_r.valid
    /\ ps_ar' = IF arready /\ ar.valid
                  THEN [full |-> TRUE, addr |-> ar.addr] ELSE ps_ar
    /\ ps_r' = [ps_r EXCEPT !.valid = @ /\ ~rready]

\* Raise the data of the accepted address; a read that fails returns anything.
PerformRead(arready) ==
    /\ ~arready
    /\ ps_ar.full /\ ~ps_r.valid
    /\ ps_ar' = [full |-> FALSE, addr |-> ps_ar.addr]
    /\ \E resp \in Resp, d \in Word :
         /\ resp = OKAY => d = mem[ps_ar.addr]
         /\ ps_r' = [valid |-> TRUE, data |-> d, resp |-> resp]

PsProcess(awready, wready, arready, aw, w, bready, ar, rready) ==
    /\ \/ CollectWrite(awready, wready, aw, w, bready)
       \/ PerformWrite(awready, wready)
    /\ \/ CollectRead(arready, ar, rready)
       \/ PerformRead(arready)

==============================================================================
