---------------------------- MODULE DCacheSystem -----------------------------
(***************************************************************************)
(* The data cache between a load-store unit, an MMU and the bus.           *)
(*                                                                         *)
(* The bus is any that SocBus is: it is given to the cache when it asks    *)
(* (cyc) and kept until cyc falls; while it is not, other masters may      *)
(* store, and the cache snoops them.  A strobe is accepted when it is not  *)
(* stalled and answered in turn; never in its first cycle.                 *)
(***************************************************************************)
EXTENDS DCache, Sequences

CONSTANTS Programs,     \* the sets of requests a program may make of the
                        \* load-store unit and the MMU
          Writes,       \* the values their stores write
          Foreign,      \* stores of other masters [adr, dat]
          MaxOwed,      \* answers the slave may owe
          Junk,         \* what its data wires carry with the answer of a write
          Avoids        \* what the requesters do not do (see Allowed)

Requests == UNION Programs

\* A request of the MMU is a load (dcache.vhdl:605-611), lwarx and stwcx only
\* are atomic, and quadwords are loaded and stored (loadstore1.vhdl:661).
ASSUME RequestsAssumption ==
    /\ Requests \subseteq Req /\ Writes \subseteq Val /\ MaxOwed \in Nat
    /\ Junk \subseteq Val /\ Junk # {}
    /\ Foreign \subseteq [valid : {TRUE}, adr : Adr, dat : Val]
    /\ \A r \in Requests :
         /\ r.mmu => r.op = "load" /\ r.half = "whole" /\ ~r.reserve /\ ~r.nc
         /\ r.reserve \/ r.half # "whole" => r.op \in {"load", "store"}

VARIABLES
    mem,        \* memory
    mine,       \* the cache has been given the bus
    answers,    \* page and data of the strobes accepted and not yet answered
    d_data,     \* the data wire, of the request accepted last
    program,    \* what the program that runs asks
    asked,      \* requests taken and not yet completed, with the values a
                \* load may return (history)
    half_open,  \* the first half of a quadword has been taken, the second not
    halved,     \* the first half of the last quadword load (history)
    linked      \* the last lwarx (history)

busVars == <<mem, mine, answers>>
history == <<asked, half_open, halved, linked>>
vars    == <<cacheVars, busVars, d_data, program, history>>

NoReq  == [op |-> "sync", adr |-> CHOOSE a \in Adr : TRUE, sel |-> FALSE, nc |-> FALSE,
           reserve |-> FALSE, half |-> "whole", ok |-> TRUE, mmu |-> FALSE]
NoWire == [valid |-> FALSE, req |-> NoReq, dat |-> 0]

NotLinked == [live |-> FALSE, adr |-> NoReq.adr, val |-> 0]
NotHalved == [adr |-> NoReq.adr, val |-> 0, rest |-> {}]

CacheInit ==
    /\ r0 = [full |-> FALSE, d_valid |-> FALSE, req |-> NoReq, dat |-> 0]
    /\ tag_set = [w \in Way |-> NoReq.adr.tag] /\ tags = [i \in Index |-> tag_set]
    /\ dout = [w \in Way |-> 0]
    /\ ram = [w \in Way |-> [i \in Index |-> [r \in Row |-> 0]]]
    /\ valids = [i \in Index |-> {}]
    /\ state = "IDLE" /\ full = FALSE
    /\ r1_req = [op |-> "none", adr |-> NoReq.adr, dat |-> 0, sel |-> FALSE,
                 dcbz |-> FALSE, touch |-> FALSE, reserve |-> FALSE, first |-> TRUE,
                 last |-> TRUE, nc |-> FALSE, mmu |-> FALSE, hit |-> FALSE, way |-> 0,
                 ways |-> {}, reload |-> FALSE, same_page |-> FALSE]
    /\ mmu_req = FALSE
    /\ wb = [cyc |-> FALSE, stb |-> FALSE, we |-> FALSE, adr |-> NoReq.adr, dat |-> 0,
             sel |-> FALSE]
    /\ acks = [pending |-> 0, stalled |-> FALSE, dec |-> FALSE]
    /\ line = [index |-> NoReq.adr.index, tag |-> NoReq.adr.tag, row |-> RowOf(NoReq.adr),
               end |-> 0, rows_valid |-> {}, way |-> 0, ways |-> {}]
    /\ fill = [reloading |-> FALSE, write_tag |-> FALSE, dcbz |-> FALSE]
    /\ write_bram = FALSE /\ atomic_more = FALSE
    /\ victim = [choose |-> FALSE, way |-> 0]
    /\ prev_ways = {}
    /\ fwd = [valid |-> FALSE, row |-> RowOf(NoReq.adr), way |-> 0, dat |-> 0, sel |-> FALSE]
    /\ done = [ls_valid |-> FALSE, mmu_done |-> FALSE, ls_error |-> FALSE,
               mmu_error |-> FALSE, hit_load_valid |-> FALSE, slow_valid |-> FALSE,
               stcx_fail |-> FALSE]
    /\ data_out = 0
    /\ reservation = [valid |-> FALSE, line |-> LineOf(NoReq.adr)]
    /\ snoop = [valid |-> FALSE, line |-> LineOf(NoReq.adr), tags |-> tag_set]

Init ==
    /\ CacheInit
    /\ mem = [a \in Adr |-> 0] /\ mine = FALSE /\ answers = <<>>
    /\ d_data = 0 /\ program \in Programs
    /\ asked = <<>>
    /\ half_open = FALSE /\ halved = NotHalved /\ linked = NotLinked

------------------------------------------------------------------------------
(***************************************************************************)
(* The bus.  given: whether the cache has it in this cycle.                *)
(***************************************************************************)
Accepted(given, stall) == given /\ wb.stb /\ ~stall

\* The answers owed with the one for what is accepted now.  The answer of a
\* write brings whatever the slave has on its data wires.
Owed(given, stall, junk) ==
    IF Accepted(given, stall)
    THEN Append(answers, [page |-> PageOf[LineOf(wb.adr)], dat |-> IF wb.we THEN junk ELSE mem[wb.adr]])
    ELSE answers

\* Answers of the slave in this cycle: in turn, and not before the second
\* cycle of a strobe.
Answers(given, stall) ==
    IF answers # <<>> \/ (Accepted(given, stall) /\ acks.stalled) THEN BOOLEAN ELSE {FALSE}

BusEdge(given, stall, ack, junk, f) ==
    /\ mine' = (given /\ wb'.cyc)
    /\ answers' = IF ack THEN Tail(Owed(given, stall, junk)) ELSE Owed(given, stall, junk)
    /\ mem' = IF Accepted(given, stall) /\ wb.we /\ wb.sel THEN [mem EXCEPT ![wb.adr] = wb.dat]
              ELSE IF f.valid THEN [mem EXCEPT ![f.adr] = f.dat] ELSE mem

------------------------------------------------------------------------------
(***************************************************************************)
(* The requesters and what their loads may return.                         *)
(***************************************************************************)
\* The completion wires of this cycle, and a request behind an error, which
\* stage 0 drops and the unit asks again.
Completing == done.ls_valid \/ done.mmu_done \/ done.ls_error \/ done.mmu_error
Dropped    == done.ls_error /\ r0.full
Remaining  == IF ~Completing THEN asked ELSE IF Dropped THEN <<>> ELSE Tail(asked)

\* The values that own stores which are not in memory yet leave at a, when m is
\* in memory: for a request that is in the cache (last = FALSE), the store on
\* the bus and the one stage 1 keeps; for the one taken now, also the one in
\* stage 0.  A store conditional may fail.
Covers(req, dcbz, a) == IF dcbz THEN LineOf(req.adr) = LineOf(a) ELSE req.sel /\ req.adr = a

Left(a, m, last) ==
    LET bus == IF state = "RELOAD_WAIT_ACK" /\ fill.dcbz /\ LineOf(wb.adr) = LineOf(a) THEN {0}
               ELSE IF wb.stb /\ wb.we /\ Covers(wb, FALSE, a) THEN {wb.dat}
               ELSE {m[a]}
        stage1 == IF full /\ r1_req.op = "store" /\ Covers(r1_req, r1_req.dcbz, a)
                  THEN {r1_req.dat} \cup (IF r1_req.reserve THEN bus ELSE {})
                  ELSE bus
        r == r0.req
    IN IF /\ last /\ r0.full /\ ~Dropped /\ r.ok /\ r.op \in {"store", "dcbz"}
          /\ Covers(r, r.op = "dcbz", a)
       THEN {IF r.op = "dcbz" THEN 0 ELSE IF r0.d_valid THEN r0.dat ELSE d_data}
            \cup (IF r.reserve THEN stage1 ELSE {})
       ELSE stage1

\* The other half of a quadword, and what a request reads at once.
Partner(a) == [a EXCEPT !.row = NextRow(@)]
Reads(req) == IF req.op # "load" \/ (req.half = "second" /\ ~req.nc) THEN {}
              ELSE IF req.half = "first" /\ ~req.nc THEN {req.adr, Partner(req.adr)} ELSE {req.adr}

\* What a load may return: what is left when it is taken, and, for each store
\* of another master until it completes, what is left after that one.
Snapshots(req, m, last) ==
    {s \in [Reads(req) -> Val] : \A a \in Reads(req) : s[a] \in Left(a, m, last)}

\* What the first half of a quadword load returned, and what the second may.
HalvedNext(q) ==
    IF q.req.op = "load" /\ q.req.half = "first" /\ ~q.req.nc
    THEN LET b == Partner(q.req.adr)
         IN [adr |-> q.req.adr, val |-> data_out,
             rest |-> {s[b] : s \in {v \in q.vals : v[q.req.adr] = data_out}}]
    ELSE IF q.req.half = "second" THEN [halved EXCEPT !.rest = {}] ELSE halved

\* The row and value of the last lwarx or lqarx, and whether no store
\* conditional has come since.
LinkedNext(q) ==
    IF q.req.reserve /\ q.req.op = "store" THEN NotLinked
    ELSE IF q.req.reserve /\ q.req.half # "second"
      THEN [adr |-> q.req.adr, val |-> data_out, live |-> TRUE]
    ELSE linked

HistoryEdge(in, f, given, stall) ==
    LET taken == [req |-> in.req, vals |-> Snapshots(in.req, mem, TRUE)]
        next  == IF in.valid THEN Append(Remaining, taken) ELSE Remaining
        link  == IF done.ls_valid THEN LinkedNext(asked[1]) ELSE linked
        halves == IF done.ls_valid THEN HalvedNext(asked[1]) ELSE halved
    IN /\ asked' = [i \in DOMAIN next |->
              IF ~f.valid \/ f.adr \notin Reads(next[i].req) THEN next[i]
              ELSE [next[i] EXCEPT !.vals =
                       @ \cup Snapshots(next[i].req, mem', in.valid /\ i = Len(next))]]
       /\ half_open' = IF in.valid THEN in.req.half = "first" ELSE half_open /\ ~done.ls_error
       /\ halved' = [halves EXCEPT
              !.rest = IF f.valid /\ @ # {} /\ halves.val \in Left(halves.adr, mem', FALSE)
                       THEN @ \cup Left(Partner(halves.adr), mem', FALSE) ELSE @]
       /\ linked' = [link EXCEPT
              !.val = IF link.live /\ Accepted(given, stall) /\ wb.we /\ wb.sel /\ wb.adr = link.adr
                      THEN wb.dat ELSE @]

\* Requests are presented while the cache does not stall, the halves of a
\* quadword one behind the other.  The MMU asks when the load-store unit waits
\* for it, and nothing else is asked then.
Ready(req) ==
    /\ ~full /\ ~done.ls_error
    /\ (req.half = "second") = half_open
    /\ req.half = "second" =>
         req = [r0.req EXCEPT !.half = "second", !.adr = Partner(r0.req.adr)]
    /\ req.mmu \/ (\E i \in DOMAIN Remaining : Remaining[i].req.mmu) => Remaining = <<>>

\* What requesters may avoid doing:
\*   "dcbz"   to store behind a dcbz before its line is filled, or to load from
\*            that line,
\*   "touch"  to ask before the tag of a touched line is written,
\*   "mmu"    to ask for the one while a line is being filled for the other,
\*   "quad"   to load a quadword while a line is being filled,
\*   "lwarx"  to load and reserve while a line is being filled,
\*   "refused" to ask for a lwarx or stwcx that is refused.
Filling == state = "RELOAD_WAIT_ACK" \/ full \/ (r0.full /\ ~Dropped)
Zeroing == {LineOf(asked[i].req.adr) : i \in {j \in DOMAIN asked : asked[j].req.op = "dcbz"}}
           \cup (IF fill.dcbz THEN {LineOf(wb.adr)} ELSE {})
Allowed(in) ==
    /\ "dcbz" \in Avoids /\ Zeroing # {} =>
         in.dat = 0 /\ (in.req.op = "load" => LineOf(in.req.adr) \notin Zeroing)
    /\ "touch" \in Avoids => ~(fill.write_tag \/ (r0.full /\ r0.req.op = "touch"))
    /\ "mmu" \in Avoids => (in.req.mmu = mmu_req \/ ~Filling)
    /\ "quad" \in Avoids => ~(Filling /\ in.req.op = "load" /\ in.req.half = "first")
    /\ "lwarx" \in Avoids => ~(/\ Filling /\ in.req.op = "load"
                                /\ in.req.reserve /\ in.req.half # "second")
    /\ "refused" \in Avoids => (in.req.reserve => in.req.ok /\ ~in.req.nc)

Offered == {w \in [valid : {TRUE}, req : program, dat : Val] :
                w.dat \in IF w.req.op = "store" THEN Writes ELSE {0}}
Wires   == {NoWire} \cup {w \in Offered : Ready(w.req) /\ Allowed(w)}

\* What the cache sees of the bus in a cycle, and of the stores of others.
WbIn(given, stall, ack, junk) ==
    [stall |-> ~given \/ stall, ack |-> ack,
     dat |-> IF ack THEN Head(Owed(given, stall, junk)).dat ELSE 0]
Snooped(f) == [valid |-> f.valid, line |-> LineOf(f.adr)]

Tick(given, stall, ack, junk, in, f, plru) ==
    /\ Edge(in, d_data, FALSE, WbIn(given, stall, ack, junk), Snooped(f), plru)
    /\ BusEdge(given, stall, ack, junk, f)
    /\ UNCHANGED program /\ d_data' = IF in.valid THEN in.dat ELSE 0
    /\ HistoryEdge(in, f, given, stall)

NoStore == [valid |-> FALSE, adr |-> NoReq.adr, dat |-> 0]

Next ==
    \E in \in Wires :
    \E given \in IF mine THEN {TRUE} ELSE {FALSE, wb.cyc} :
    \E stall \in IF given /\ Len(answers) < MaxOwed THEN BOOLEAN ELSE {given} :
    \E ack \in Answers(given, stall), junk \in Junk :
    \E f \in {NoStore} \cup (IF given THEN {} ELSE Foreign) :
    \E plru \in Way :
        Tick(given, stall, ack, junk, in, f, plru)

Spec == Init /\ [][Next]_vars

------------------------------------------------------------------------------
State == {"IDLE", "RELOAD_WAIT_ACK", "STORE_WAIT_ACK", "NC_LOAD_WAIT_ACK", "DO_STCX",
          "FLUSH_CYCLE"}
SlowReq == [op : {"none", "nop", "bad", "load_hit", "load_miss", "store", "flush", "sync"},
            adr : Adr, dat : Val, sel : BOOLEAN, dcbz : BOOLEAN, touch : BOOLEAN,
            reserve : BOOLEAN, first : BOOLEAN, last : BOOLEAN, nc : BOOLEAN, mmu : BOOLEAN,
            hit : BOOLEAN, way : Way, ways : SUBSET Way, reload : BOOLEAN, same_page : BOOLEAN]
RowAdr  == [index : Index, row : Row]

\* The types of the registers that are records
BusReg    == [cyc : BOOLEAN, stb : BOOLEAN, we : BOOLEAN, adr : Adr, dat : Val, sel : BOOLEAN]
AcksReg   == [pending : 0..MAX_ACKS, stalled : BOOLEAN, dec : BOOLEAN]
LineReg   == [index : Index, tag : Tag, row : RowAdr, end : Row, rows_valid : SUBSET Row,
              way : Way, ways : SUBSET Way]
FillReg   == [reloading : BOOLEAN, write_tag : BOOLEAN, dcbz : BOOLEAN]
VictimReg == [choose : BOOLEAN, way : Way]
FwdReg    == [valid : BOOLEAN, row : RowAdr, way : Way, dat : Val, sel : BOOLEAN]
DoneReg   == [ls_valid : BOOLEAN, mmu_done : BOOLEAN, ls_error : BOOLEAN, mmu_error : BOOLEAN,
              hit_load_valid : BOOLEAN, slow_valid : BOOLEAN, stcx_fail : BOOLEAN]
RsrvReg   == [valid : BOOLEAN, line : Line]
SnoopReg  == [valid : BOOLEAN, line : Line, tags : [Way -> Tag]]

CacheTypeOK ==
    /\ r0 \in [full : BOOLEAN, d_valid : BOOLEAN, req : Requests \cup {NoReq}, dat : Val]
    /\ tag_set \in [Way -> Tag] /\ dout \in [Way -> Val]
    /\ state \in State /\ full \in BOOLEAN /\ r1_req \in SlowReq /\ mmu_req \in BOOLEAN
    /\ wb \in BusReg
    /\ acks \in AcksReg
    /\ line \in LineReg
    /\ fill \in FillReg
    /\ write_bram \in BOOLEAN /\ atomic_more \in BOOLEAN
    /\ victim \in VictimReg /\ prev_ways \in SUBSET Way
    /\ fwd \in FwdReg
    /\ done \in DoneReg
    /\ data_out \in Val
    /\ reservation \in RsrvReg
    /\ snoop \in SnoopReg
    /\ tags \in [Index -> [Way -> Tag]] /\ valids \in [Index -> SUBSET Way]
    /\ ram \in [Way -> [Index -> [Row -> Val]]]

Owing == [page : {PageOf[l] : l \in Line}, dat : Val]
Taken == [req : Requests, vals : SUBSET (UNION {[S -> Val] : S \in SUBSET Adr})]

\* The cache, the bus and the requests under way have their types.
TypeOK ==
    /\ CacheTypeOK
    /\ mem \in [Adr -> Val] /\ mine \in BOOLEAN /\ answers \in Seq(Owing)
    /\ d_data \in Val /\ program \in Programs
    /\ asked \in Seq(Taken) /\ half_open \in BOOLEAN

\* Every load, of the load-store unit or the MMU, completes with a value that
\* its address had at some time since the load was taken, own stores before it
\* included: through refills, the two forwarding stages, stores that pass to
\* memory, snooped stores, flushes, dcbz and touch.  The second half of a
\* quadword is of a time at which the first half had the value it returned.
LoadsCoherent ==
    (done.ls_valid \/ done.mmu_done) /\ asked # <<>> /\ asked[1].req.op = "load"
        => LET a == asked[1].req.adr
           IN IF asked[1].req.half = "second" /\ ~asked[1].req.nc THEN data_out \in halved.rest
              ELSE \E s \in asked[1].vals : s[a] = data_out

\* The stages complete requests at different distances, yet a completion is
\* always that of the oldest request, of the unit that asked it, in the way it
\* can end, and one at a time (the assertions in dcache.vhdl:1203-1206).
CompletesAsked ==
    /\ Completing => asked # <<>>
    /\ done.ls_valid \/ done.ls_error => ~asked[1].req.mmu
    /\ done.mmu_done \/ done.mmu_error => asked[1].req.mmu
    /\ done.stcx_fail => asked[1].req.op = "store" /\ asked[1].req.reserve
    /\ done.ls_error \/ done.mmu_error => ~asked[1].req.ok \/ asked[1].req.nc
    /\ ~(done.ls_valid /\ done.ls_error) /\ ~(done.mmu_done /\ done.mmu_error)
    /\ ~(done.slow_valid /\ done.stcx_fail)
    /\ ~((done.slow_valid \/ done.stcx_fail) /\ done.hit_load_valid)

\* A sync completes when all stores before it are in memory and answered.
SyncAfterStores ==
    done.ls_valid /\ asked[1].req.op = "sync" => answers = <<>> /\ ~wb.cyc

\* acks_pending counts strobes and answers a cycle apart, and still the cache
\* keeps the bus while an answer is owed, all answers owed are of one page (so
\* of one slave of the SoC bus), and the bus is kept between the two halves of
\* a stqcx.
BusKept ==
    /\ answers # <<>> => wb.cyc
    /\ \A i \in DOMAIN answers : answers[i].page = PageOf[LineOf(wb.adr)]
    /\ state = "STORE_WAIT_ACK" /\ atomic_more => wb.cyc

\* A store conditional that succeeds follows a lwarx of its line with no other
\* store conditional between, has the bus, and no other master has stored to
\* what the lwarx returned: not in the cycle the bus is granted either.
StcxAtomic ==
    [][state = "DO_STCX" /\ state' = "STORE_WAIT_ACK"
         => /\ linked.live /\ LineOf(r1_req.adr) = LineOf(linked.adr)
            /\ mem'[linked.adr] = linked.val /\ mine']_vars

\* dcache.vhdl:257-259: dcbz is done like a cache miss, and "zeroes are written
\* to the cache data RAM".
DcbzWritesZeroes ==
    [][fill.dcbz /\ fill.reloading /\ fwd'.valid => fwd'.dat = 0]_vars

==============================================================================
