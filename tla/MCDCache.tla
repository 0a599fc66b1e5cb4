------------------------------- MODULE MCDCache ------------------------------
(***************************************************************************)
(* DCacheSystem with two lines of two rows that share their set.           *)
(***************************************************************************)
EXTENDS DCacheInvariant
A(t, r) == [tag |-> t, index |-> 0, row |-> r]
MCPageOf == [l \in [tag : Tag, index : Index] |-> l.tag]
Base(op, a) == [op |-> op, adr |-> a, sel |-> TRUE, nc |-> FALSE, reserve |-> FALSE,
                half |-> "whole", ok |-> TRUE, mmu |-> FALSE]
CachedProgram ==
    {Base("load", A(0, 0)), Base("store", A(0, 0)),
     Base("dcbz", A(0, 0)), Base("flush", A(0, 0)), Base("touch", A(1, 0)),
     [Base("load", A(0, 0)) EXCEPT !.ok = FALSE], [Base("store", A(1, 0)) EXCEPT !.sel = FALSE],
     [Base("load", A(0, 1)) EXCEPT !.mmu = TRUE]}
Quad(op, a, half) == [Base(op, a) EXCEPT !.reserve = TRUE, !.half = half]
AtomicProgram ==
    {Quad("store", A(1, 0), "whole"),
     Quad("load", A(0, 0), "whole"), Quad("store", A(0, 0), "whole"),
     Quad("load", A(0, 0), "first"), Quad("store", A(0, 0), "first"),
     Quad("load", A(0, 1), "second"), Quad("store", A(0, 1), "second"),
     Base("sync", A(0, 0)), [Base("load", A(1, 1)) EXCEPT !.nc = TRUE]}
DcbzProgram   == {Base("load", A(0, 0)), Base("store", A(0, 0)), Base("dcbz", A(0, 0))}
MCPrograms    == {CachedProgram, AtomicProgram}
DcbzPrograms  == {DcbzProgram}
QuadProgram   == {Base("load", A(1, 0)), Base("store", A(1, 1)),
                  [Base("load", A(0, 0)) EXCEPT !.half = "first"],
                  [Base("load", A(0, 1)) EXCEPT !.half = "second"]}
QuadPrograms  == {QuadProgram}
LwarxProgram  == {Base("touch", A(1, 0)), Base("load", A(1, 1)),
                  Quad("load", A(0, 0), "whole"), Quad("store", A(0, 0), "whole")}
LwarxPrograms == {LwarxProgram}
NoRow    == {}
OneRow   == {[valid |-> TRUE, adr |-> A(0, 0), dat |-> 1]}
BothRows == {[valid |-> TRUE, adr |-> A(0, r), dat |-> 1] : r \in Row}

\* States are told apart by what some later step can still read; a register whose
\* content is overwritten before it is read again is left out.
Live(cond, x) == IF cond THEN <<x>> ELSE <<>>
LoadDone == (done.ls_valid \/ done.mmu_done) /\ asked # <<>> /\ asked[1].req.op = "load"
Refill   == state = "RELOAD_WAIT_ACK"
LiveState ==
    <<Live(r0.full, <<r0.d_valid, tag_set, dout>>),
      Live(r0.full \/ half_open, r0.req),
      Live(r0.full, IF r0.d_valid THEN r0.dat ELSE d_data),
      state, full, mmu_req, fill, write_bram, atomic_more, done,
      Live(full \/ write_bram \/ fill.dcbz \/ Refill,
           [r1_req EXCEPT !.same_page = @ /\ full /\ state = "STORE_WAIT_ACK"]),
      Live(wb.cyc, <<wb, acks>>),
      Live(write_bram \/ state \in {"RELOAD_WAIT_ACK", "DO_STCX", "FLUSH_CYCLE"}, line),
      line.ways, Live(NUM_WAYS > 1, <<line.way, victim>>),
      Live(half_open \/ r0.req.half = "second", prev_ways),
      Live(fwd.valid, fwd), Live(LoadDone, data_out),
      reservation.valid, Live(reservation.valid \/ full \/ Refill, reservation.line),
      Live(snoop.valid, snoop), tags, valids, ram,
      busVars, program, asked, half_open, linked, Live(halved.rest # {}, halved)>>
==============================================================================
