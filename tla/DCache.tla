------------------------------- MODULE DCache --------------------------------
(***************************************************************************)
(* The data cache, rtl/dcache.vhdl: a write-through cache with a two-stage *)
(* pipeline.  Stage 0 holds a request while tags are compared; what is not *)
(* a load hit goes to the machine of stage 1, which owns the bus.          *)
(*                                                                         *)
(* Every operator is about one clock cycle; Edge is the edge that ends it. *)
(* All selects of data are by byte and by bit, so a row of 64 bits stands  *)
(* for one of its bits, and sel for the byte it is in.                     *)
(*                                                                         *)
(* Left out: the TLB (a request says whether its access is permitted) and  *)
(* the replacement tree (any way may be the victim).  A register that      *)
(* follows its wires while nothing is asked keeps its value here.          *)
(***************************************************************************)
EXTENDS Integers, FiniteSets, FiniteSetsExt

CONSTANTS Tag, Index, ROW_PER_LINE, NUM_WAYS,
          PageOf,     \* the page each line is in
          MAX_ACKS    \* what acks_pending can count, 7

Row  == 0..ROW_PER_LINE - 1
Way  == 0..NUM_WAYS - 1
Val  == 0..1
Line == [tag : Tag, index : Index]
Adr  == [tag : Tag, index : Index, row : Row]

ASSUME CacheAssumption ==
    /\ ROW_PER_LINE \in Nat \ {0, 1} /\ NUM_WAYS \in Nat \ {0} /\ MAX_ACKS \in Nat \ {0}
    /\ Tag # {} /\ Index # {} /\ DOMAIN PageOf = Line

VARIABLES
    r0,             \* the request in stage 0 [full, d_valid, req, dat]
    tag_set,        \* cache_tag_set: the tags of its set, as they were read
    dout,           \* the rows of its set, as they were read
    state,
    full,           \* r1.full: the machine has a request it has not completed
    r1_req,         \* r1.req: the last request that left stage 0
    mmu_req,        \* r1.mmu_req
    wb,             \* wishbone_out
    acks,           \* acks_pending, stalled, dec_acks
    line,           \* what is refilled or stored: store_index, reload_tag,
                    \* store_row, end_row_ix, store_way(s), rows_valid
    fill,           \* reloading, write_tag, dcbz
    write_bram,
    atomic_more,
    victim,         \* choose_victim, victim_way
    prev_ways,      \* prev_hit_ways
    fwd,            \* what the last edge wrote to the data RAM
    done,           \* the completion wires
    data_out,
    reservation,
    snoop,          \* the store snooped in the last cycle
    tags, valids, ram   \* the cache

stageVars == <<r0, tag_set, dout, r1_req, mmu_req, victim, fwd, data_out, snoop>>
slowVars  == <<state, full, wb, acks, line, fill, write_bram, atomic_more, prev_ways,
               done, reservation>>
cacheVars == <<stageVars, slowVars, tags, valids, ram>>

\* A request of the load-store unit or (mmu) of the MMU.  half tells the
\* doublewords of an atomic quadword apart.
Req == [op : {"load", "store", "dcbz", "touch", "flush", "sync"}, adr : Adr, sel : BOOLEAN,
        nc : BOOLEAN, reserve : BOOLEAN, half : {"whole", "first", "second"},
        ok : BOOLEAN, mmu : BOOLEAN]

LineOf(a) == [tag |-> a.tag, index |-> a.index]
RowOf(a)  == [index |-> a.index, row |-> a.row]
NextRow(n) == (n + 1) % ROW_PER_LINE
\* Faulty: the row before the first is not the last.
PrevRowUnwrapped(n) == n - 1

PrevRow(n) == (n + ROW_PER_LINE - 1) % ROW_PER_LINE

------------------------------------------------------------------------------
(***************************************************************************)
(* Stage 0: hit detection and decoding.                                    *)
(***************************************************************************)
Stall0(hold) == full \/ hold
Go(hold)     == r0.full /\ ~Stall0(hold) /\ ~done.ls_error

\* The ways of the line being refilled that do not count as hits yet.
IdxReload(hold) ==
    {w \in line.ways : /\ Go(hold) /\ fill.reloading /\ r0.req.adr.index = line.index
                       /\ r0.req.op \in {"load", "flush"}
                       /\ r0.req.adr.row \notin line.rows_valid}

\* The second half of a quadword load takes the way of the first.
HitWays(hold) ==
    {w \in Way : \/ /\ r0.req.op = "load" /\ r0.req.half = "second"
                    /\ w \in prev_ways
                 \/ /\ Go(hold) /\ w \in valids[r0.req.adr.index]
                    /\ tag_set[w] = r0.req.adr.tag}

HitWay(hold)    == IF HitWays(hold) = {} THEN 0 ELSE Max(HitWays(hold))
IsHit(hold)     == Go(hold) /\ HitWay(hold) \in HitWays(hold) \ IdxReload(hold)
HitReload(hold) == Go(hold) /\ HitWay(hold) \in HitWays(hold) \cap IdxReload(hold)

\* A snooped store is matched the cycle after it was seen.
SnoopHits == {w \in Way : snoop.valid /\ snoop.tags[w] = snoop.line.tag}
KillRsrv  == snoop.valid /\ reservation.valid /\ snoop.line = reservation.line
SnoopHit(hold) == Go(hold) /\ snoop.line.index = r0.req.adr.index
                           /\ SnoopHits \cap HitWays(hold) # {}

\* What the request in stage 0 is to do.
AccessOp(hold) ==
    LET r   == r0.req
        bad == ~r.ok \/ (r.nc /\ (IsHit(hold) \/ r.reserve))
    IN CASE r.op = "touch" -> IF ~r.ok \/ r.nc THEN "nop"
                              ELSE IF IsHit(hold) THEN "load_hit" ELSE "load_miss"
         [] r.op = "flush" -> IF ~r.ok THEN "bad" ELSE IF IsHit(hold) THEN "flush" ELSE "nop"
         [] r.op \in {"store", "dcbz"} -> IF bad THEN "bad" ELSE "store"
         [] OTHER -> IF bad THEN "bad" ELSE IF IsHit(hold) THEN "load_hit" ELSE "load_miss"

\* Faulty: a sync completes like a hit.
OpSyncHits(hold) ==
    IF ~Go(hold) THEN "none" ELSE IF r0.req.op = "sync" THEN "nop" ELSE AccessOp(hold)

Op(hold) ==
    IF ~Go(hold) THEN "none" ELSE IF r0.req.op = "sync" THEN "sync" ELSE AccessOp(hold)

SlowOp(hold) == Op(hold) \in {"load_miss", "store", "flush", "sync"}

\* The request in stage 0 as the machine takes it; its data may only be on
\* the wire d_data by now.
Decoded(hold, d_data) ==
    [op     |-> Op(hold),
     adr    |-> r0.req.adr,
     dat    |-> IF r0.req.op = "dcbz" THEN 0 ELSE IF r0.d_valid THEN r0.dat ELSE d_data,
     sel    |-> \/ r0.req.sel
                \/ r0.req.op = "dcbz"
                \/ r0.req.op = "load" /\ ~r0.req.nc,
     dcbz   |-> r0.req.op = "dcbz",
     touch  |-> r0.req.op = "touch",
     reserve |-> r0.req.reserve,
     first  |-> r0.req.half # "second",
     last   |-> r0.req.half # "first",
     nc     |-> r0.req.nc,
     mmu    |-> r0.req.mmu,
     hit    |-> IsHit(hold),
     way    |-> HitWay(hold),
     ways   |-> HitWays(hold),
     reload |-> HitReload(hold) /\ Op(hold) = "load_miss",
     same_page |-> PageOf[LineOf(r0.req.adr)] = PageOf[LineOf(wb.adr)]]

\* The request the machine looks at, and whether there is one.
Pending(hold, d_data) == IF full THEN r1_req ELSE Decoded(hold, d_data)
Asked(hold)           == full \/ Go(hold)

------------------------------------------------------------------------------
(***************************************************************************)
(* The data RAM.                                                           *)
(***************************************************************************)
ReplaceWay(plru) ==
    IF ~fill.write_tag THEN line.way ELSE IF victim.choose THEN plru ELSE victim.way

RamWrite(wbin) == write_bram \/ (fill.reloading /\ wbin.ack)
RamDat(wbin)   == IF write_bram \/ fill.dcbz THEN r1_req.dat ELSE wbin.dat
RamSel         == write_bram => r1_req.sel

\* Faulty: only the store of this edge is forwarded.
CacheOutOneStage(w) ==
    IF write_bram /\ r1_req.sel /\ w \in line.ways /\ line.row = RowOf(r0.req.adr) THEN r1_req.dat
    ELSE dout[w]

\* The row of a way, with what this edge and the last one store to it.
CacheOut(w) ==
    IF write_bram /\ r1_req.sel /\ w \in line.ways /\ line.row = RowOf(r0.req.adr) THEN r1_req.dat
    ELSE IF fwd.valid /\ fwd.sel /\ w = fwd.way /\ fwd.row = RowOf(r0.req.adr) THEN fwd.dat
    ELSE dout[w]

\* The outputs of all ways that hit are ored.
DataOut(hold, wbin) ==
    IF ~IsHit(hold) THEN wbin.dat
    ELSE IF \E w \in HitWays(hold) : CacheOut(w) = 1 THEN 1 ELSE 0

RamEdge(plru, wbin) ==
    /\ ram' = IF RamWrite(wbin) /\ RamSel
              THEN [ram EXCEPT ![ReplaceWay(plru)][line.row.index][line.row.row] = RamDat(wbin)]
              ELSE ram
    /\ fwd' = IF RamWrite(wbin)
              THEN [valid |-> TRUE, row |-> line.row, way |-> ReplaceWay(plru),
                    dat |-> RamDat(wbin), sel |-> RamSel]
              ELSE [fwd EXCEPT !.valid = FALSE]

\* Tags and rows are read at the edge at which a request enters stage 0, and
\* again at each edge while it waits there.
ReadEdge(in, hold) ==
    LET adr  == IF Stall0(hold) THEN r0.req.adr ELSE in.req.adr
        read == IF Stall0(hold) THEN r0.full ELSE in.valid
    IN /\ tag_set' = IF read THEN tags[adr.index] ELSE tag_set
       /\ dout' = IF read THEN [w \in Way |-> ram[w][adr.index][adr.row]] ELSE dout

Stage0Edge(in, d_data, hold) ==
    r0' = IF ~Stall0(hold)
          THEN [full |-> in.valid, d_valid |-> in.req.mmu,
                req |-> IF in.valid THEN in.req ELSE r0.req, dat |-> 0]
          ELSE IF r0.full /\ ~r0.d_valid THEN [r0 EXCEPT !.d_valid = TRUE, !.dat = d_data]
          ELSE r0

SnoopEdge(snooped) ==
    snoop' = IF snooped.valid
             THEN [valid |-> TRUE, line |-> snooped.line, tags |-> tags[snooped.line.index]]
             ELSE [snoop EXCEPT !.valid = FALSE]

------------------------------------------------------------------------------
(***************************************************************************)
(* Stage 1.  What an edge does in every state of the machine.              *)
(***************************************************************************)
RequestEdge(hold, d_data, plru) ==
    /\ r1_req' = LET r == IF ~full /\ Go(hold) THEN Decoded(hold, d_data) ELSE r1_req
                 IN IF state = "IDLE" THEN [r EXCEPT !.reload = TRUE] ELSE r
    /\ mmu_req' = IF r0.full /\ ~Stall0(hold) THEN r0.req.mmu ELSE mmu_req
    /\ victim' = [choose |-> \/ Op(hold) = "load_miss"
                             \/ r0.req.op = "dcbz" /\ ~IsHit(hold),
                  way |-> IF victim.choose THEN plru ELSE victim.way]

TagEdge(plru) ==
    tags' = IF fill.write_tag THEN [tags EXCEPT ![line.index][ReplaceWay(plru)] = line.tag]
            ELSE tags

\* The valid bits without what was snooped, with the line whose tag is written.
ValidsNext(plru) ==
    [i \in Index |->
        (valids[i] \ (IF snoop.valid /\ i = snoop.line.index THEN SnoopHits ELSE {}))
        \cup (IF fill.write_tag /\ i = line.index THEN {ReplaceWay(plru)} ELSE {})]

\* A strobe counts in its first cycle, an answer in the cycle after it.
AcksNow ==
    IF ~wb.cyc THEN 0
    ELSE LET first == wb.stb /\ ~acks.stalled
         IN (acks.pending + (IF first /\ ~acks.dec THEN 1 ELSE 0)
                          + (IF ~first /\ acks.dec THEN MAX_ACKS ELSE 0)) % (MAX_ACKS + 1)

AcksEdge(wbin) ==
    acks' = [pending |-> AcksNow, stalled |-> wbin.stall /\ wb.cyc, dec |-> wbin.ack /\ wb.cyc]

\* A lwarx of stage 0 sets the reservation if it hits, and a store of someone
\* else to the line takes it away.
ReservationNow(hold) ==
    IF /\ Go(hold) /\ r0.req.ok
       /\ r0.req.op = "load" /\ r0.req.reserve /\ r0.req.half # "second"
    THEN [valid |-> IsHit(hold) /\ ~SnoopHit(hold), line |-> LineOf(r0.req.adr)]
    ELSE [reservation EXCEPT !.valid = @ /\ ~KillRsrv]

\* What completes: what stage 0 completes, and how the machine does: "none",
\* "ls" and "mmu" (to either of the two), "fail" (a store conditional).
Completes(how, hold) ==
    done' = [ls_valid  |-> \/ Op(hold) \in {"load_hit", "nop"} /\ ~r0.req.mmu
                           \/ how \in {"ls", "fail"},
             mmu_done  |-> \/ Op(hold) = "load_hit" /\ r0.req.mmu
                           \/ how = "mmu",
             ls_error  |-> Op(hold) = "bad" /\ ~r0.req.mmu,
             mmu_error |-> Op(hold) = "bad" /\ r0.req.mmu,
             hit_load_valid |-> Op(hold) = "load_hit",
             slow_valid |-> how \in {"ls", "mmu"},
             stcx_fail |-> how = "fail"]

\* Faulty: what the machine completes is the load-store unit's.
ToLoadStore == "ls"

ToRequester == IF mmu_req THEN "mmu" ELSE "ls"

FullNext(hold) == full \/ SlowOp(hold)

\* What the machine does not touch in this state: the defaults.
NoWrite           == write_bram' = FALSE
ValidsEdge(plru)  == valids' = ValidsNext(plru)
PrevEdge(hold)    == prev_ways' = IF Go(hold) THEN HitWays(hold) ELSE prev_ways
RsrvEdge(hold)    == reservation' = ReservationNow(hold)
NoFill            == fill' = [reloading |-> FALSE, write_tag |-> FALSE, dcbz |-> FALSE]

------------------------------------------------------------------------------
(***************************************************************************)
(* IDLE: start what is asked.                                              *)
(***************************************************************************)
\* Keep track of the line and its way for the strobes to come.
Track(q) ==
    line' = [index |-> q.adr.index, tag |-> q.adr.tag, row |-> RowOf(q.adr),
             end |-> PrevRow(q.adr.row), rows_valid |-> {},
             way |-> IF q.hit THEN q.way ELSE line.way,
             ways |-> IF q.hit THEN q.ways ELSE line.ways]

Bus(q, we, stb) ==
    wb' = [cyc |-> TRUE, stb |-> stb, we |-> we, adr |-> q.adr, dat |-> q.dat, sel |-> q.sel]

\* Nothing for the machine; a hit is remembered in store_way.
IdleStay(q, hold) ==
    /\ ~full /\ ~SlowOp(hold)
    /\ line' = [line EXCEPT !.rows_valid = {},
                           !.way = IF IsHit(hold) THEN q.way ELSE @,
                           !.ways = IF IsHit(hold) THEN q.ways ELSE @]
    /\ NoFill /\ Completes("none", hold)
    /\ UNCHANGED <<state, full, wb, atomic_more>>

\* A touch completes at once, and so lets the next request into stage 0.
IdleMiss(q, hold) ==
    /\ q.op = "load_miss" /\ ~q.nc
    /\ state' = "RELOAD_WAIT_ACK"
    /\ Bus(q, FALSE, TRUE) /\ Track(q)
    /\ fill' = [reloading |-> TRUE, write_tag |-> TRUE, dcbz |-> FALSE]
    /\ full' = ~q.touch
    /\ Completes(IF q.touch THEN "ls" ELSE "none", hold)
    /\ atomic_more' = ~q.last

IdleNcLoad(q, hold) ==
    /\ q.op = "load_miss" /\ q.nc
    /\ state' = "NC_LOAD_WAIT_ACK"
    /\ Bus(q, FALSE, TRUE) /\ Track(q)
    /\ full' = TRUE
    /\ NoFill /\ Completes("none", hold)
    /\ atomic_more' = ~q.last

\* A store conditional fails at once without a reservation; with one it first
\* asks for the bus, and strobes when it has it.
IdleStcx(q, hold) ==
    /\ q.op = "store" /\ q.reserve
    /\ IF ~reservation.valid \/ KillRsrv
         THEN /\ full' = FALSE /\ Completes("fail", hold)
              /\ UNCHANGED <<state, wb>>
         ELSE /\ state' = "DO_STCX" /\ full' = TRUE
              /\ Bus(q, TRUE, FALSE) /\ Completes("none", hold)
    /\ Track(q) /\ NoFill
    /\ atomic_more' = ~q.last

\* A store completes when it is put on the bus.
IdleStore(q, hold) ==
    /\ q.op = "store" /\ ~q.reserve /\ ~q.dcbz
    /\ state' = "STORE_WAIT_ACK" /\ full' = FALSE
    /\ Bus(q, TRUE, TRUE) /\ Track(q)
    /\ NoFill /\ Completes(IF q.mmu THEN "mmu" ELSE "ls", hold)
    /\ atomic_more' = ~q.last

\* dcbz refills a line with zeroes and writes them to memory.
IdleDcbz(q, hold) ==
    /\ q.op = "store" /\ ~q.reserve /\ q.dcbz
    /\ state' = "RELOAD_WAIT_ACK" /\ full' = TRUE
    /\ Bus(q, TRUE, TRUE) /\ Track(q)
    /\ fill' = [reloading |-> ~q.nc, write_tag |-> ~q.nc /\ ~q.hit, dcbz |-> TRUE]
    /\ Completes("none", hold)
    /\ atomic_more' = ~q.last

IdleFlush(q, hold) ==
    /\ q.op = "flush"
    /\ state' = "FLUSH_CYCLE" /\ full' = TRUE
    /\ Track(q) /\ NoFill /\ Completes("none", hold)
    /\ atomic_more' = ~q.last /\ UNCHANGED wb

IdleSync(q, hold) ==
    /\ q.op = "sync"
    /\ full' = FALSE
    /\ Track(q) /\ NoFill /\ Completes("ls", hold)
    /\ atomic_more' = ~q.last /\ UNCHANGED <<state, wb>>

Idle(q, hold, plru) ==
    /\ state = "IDLE"
    /\ \/ IdleStay(q, hold)  \/ IdleMiss(q, hold)  \/ IdleNcLoad(q, hold)
       \/ IdleStcx(q, hold)  \/ IdleStore(q, hold) \/ IdleDcbz(q, hold)
       \/ IdleFlush(q, hold) \/ IdleSync(q, hold)
    /\ write_bram' = (q.op = "store" /\ ~q.reserve /\ ~q.dcbz /\ q.hit)
    /\ ValidsEdge(plru) /\ PrevEdge(hold) /\ RsrvEdge(hold)

------------------------------------------------------------------------------
(***************************************************************************)
(* RELOAD_WAIT_ACK: strobe the rows of the line from the one asked for     *)
(* around to the one before it, and take the answers in the same order.    *)
(***************************************************************************)
\* The answer is the row of a request that waits for it, or that finds it
\* arriving.
Arrives(q, wbin) == wbin.ack /\ q.reload /\ line.row.row = q.adr.row

LastAck(wbin) == wbin.ack /\ line.row.row = line.end

ReloadBus(wbin) ==
    LET sent == wb.stb /\ ~wbin.stall
    IN wb' = [wb EXCEPT !.cyc = ~LastAck(wbin),
                        !.stb = @ /\ ~(sent /\ wb.adr.row = line.end),
                        !.adr = IF sent THEN [wb.adr EXCEPT !.row = NextRow(@)] ELSE @]

Reload(q, hold, plru, wbin) ==
    /\ state = "RELOAD_WAIT_ACK"
    /\ ReloadBus(wbin)
    /\ line' = [line EXCEPT !.rows_valid = IF wbin.ack THEN @ \cup {line.row.row} ELSE @,
                           !.row.row = IF wbin.ack THEN NextRow(@) ELSE @,
                           !.way = ReplaceWay(plru),
                           !.ways = IF fill.write_tag THEN {ReplaceWay(plru)} ELSE @]
    /\ fill' = [fill EXCEPT !.write_tag = FALSE, !.reloading = @ /\ ~LastAck(wbin)]
    /\ state' = IF LastAck(wbin) THEN "IDLE" ELSE state
    /\ full' = (FullNext(hold) /\ ~Arrives(q, wbin))
    /\ Completes(IF Arrives(q, wbin) THEN ToRequester ELSE "none", hold)
    /\ reservation' = [ReservationNow(hold) EXCEPT !.valid =
                          @ \/ (Arrives(q, wbin) /\ r1_req.reserve /\ r1_req.first)]
    /\ prev_ways' = IF LastAck(wbin) THEN line.ways
                    ELSE IF Go(hold) THEN HitWays(hold)
                    ELSE IF fill.write_tag THEN {ReplaceWay(plru)} ELSE prev_ways
    /\ NoWrite /\ ValidsEdge(plru)
    /\ UNCHANGED atomic_more

------------------------------------------------------------------------------
(***************************************************************************)
(* STORE_WAIT_ACK: further stores to the page may follow on the bus.       *)
(***************************************************************************)
Joins(q, wbin) ==
    /\ ~wbin.stall
    /\ q.op = "store" /\ q.same_page /\ ~q.dcbz /\ (q.reserve => atomic_more)

\* Faulty: stores follow however many answers are owed.
FollowsUncounted(q, wbin) == Joins(q, wbin)

Follows(q, wbin) == Joins(q, wbin) /\ AcksNow < MAX_ACKS

StrobesDone(q, wbin) ==
    IF wbin.stall \/ Joins(q, wbin) THEN ~wb.stb /\ ~Follows(q, wbin) ELSE TRUE

StoresDone(q, wbin) ==
    /\ StrobesDone(q, wbin) /\ ~atomic_more
    /\ AcksNow = 0 \/ (wbin.ack /\ AcksNow = 1)

Store(q, hold, d_data, plru, wbin) ==
    /\ state = "STORE_WAIT_ACK"
    /\ IF Follows(q, wbin)
         THEN /\ Bus(q, TRUE, TRUE) /\ full' = FALSE /\ Completes("ls", hold)
              /\ line' = [line EXCEPT !.way = q.way, !.ways = q.ways, !.row = RowOf(q.adr)]
              /\ write_bram' = q.hit /\ atomic_more' = ~q.last
         ELSE /\ wb' = [wb EXCEPT !.cyc = ~StoresDone(q, wbin),
                                  !.stb = @ /\ wbin.stall /\ ~StoresDone(q, wbin)]
              /\ full' = FullNext(hold) /\ Completes("none", hold)
              /\ atomic_more' = (atomic_more /\ (~wbin.stall /\ Asked(hold) => Joins(q, wbin)))
              /\ NoWrite /\ UNCHANGED line
    /\ state' = IF StoresDone(q, wbin) THEN "IDLE" ELSE state
    /\ ValidsEdge(plru) /\ PrevEdge(hold) /\ RsrvEdge(hold)
    /\ UNCHANGED fill

------------------------------------------------------------------------------
NcLoad(hold, plru, wbin) ==
    /\ state = "NC_LOAD_WAIT_ACK"
    /\ wb' = [wb EXCEPT !.cyc = ~wbin.ack, !.stb = @ /\ wbin.stall /\ ~wbin.ack]
    /\ state' = IF wbin.ack THEN "IDLE" ELSE state
    /\ full' = (FullNext(hold) /\ ~wbin.ack)
    /\ Completes(IF wbin.ack THEN ToRequester ELSE "none", hold)
    /\ NoWrite /\ ValidsEdge(plru) /\ PrevEdge(hold) /\ RsrvEdge(hold)
    /\ UNCHANGED <<line, fill, atomic_more>>

\* Faulty: the store snooped in the last cycle is not looked at.
LostSnoopless == ~reservation.valid \/ LineOf(r1_req.adr) # reservation.line

Lost == ~reservation.valid \/ KillRsrv \/ LineOf(r1_req.adr) # reservation.line

\* The bus is had when it does not stall: nobody else can store from here on.
DoStcx(hold, plru, wbin) ==
    /\ state = "DO_STCX"
    /\ \/ /\ Lost
          /\ state' = "IDLE" /\ full' = FALSE /\ Completes("fail", hold)
          /\ wb' = [wb EXCEPT !.cyc = FALSE]
          /\ reservation' = [ReservationNow(hold) EXCEPT !.valid = FALSE]
          /\ NoWrite
       \/ /\ ~Lost /\ ~wbin.stall
          /\ state' = "STORE_WAIT_ACK" /\ full' = FALSE /\ Completes("ls", hold)
          /\ wb' = [wb EXCEPT !.stb = TRUE]
          /\ reservation' = [ReservationNow(hold) EXCEPT !.valid = FALSE]
          /\ write_bram' = r1_req.hit
       \/ /\ ~Lost /\ wbin.stall
          /\ full' = FullNext(hold) /\ Completes("none", hold)
          /\ RsrvEdge(hold) /\ NoWrite /\ UNCHANGED <<state, wb>>
    /\ ValidsEdge(plru) /\ PrevEdge(hold)
    /\ UNCHANGED <<line, fill, atomic_more>>

Flush(hold, plru) ==
    /\ state = "FLUSH_CYCLE"
    /\ valids' = [ValidsNext(plru) EXCEPT ![line.index] = @ \ {line.way}]
    /\ state' = "IDLE" /\ full' = FALSE /\ Completes("ls", hold)
    /\ NoWrite /\ PrevEdge(hold) /\ RsrvEdge(hold)
    /\ UNCHANGED <<wb, line, fill, atomic_more>>

Machine(hold, d_data, plru, wbin) ==
    LET q == Pending(hold, d_data)
    IN \/ Idle(q, hold, plru)
       \/ Reload(q, hold, plru, wbin)
       \/ Store(q, hold, d_data, plru, wbin)
       \/ NcLoad(hold, plru, wbin)
       \/ DoStcx(hold, plru, wbin)
       \/ Flush(hold, plru)

\* One clock edge.  in is the request wire, d_data the data of the request
\* before it, snooped the snoop bus, plru the victim the tree would choose.
Edge(in, d_data, hold, wbin, snooped, plru) ==
    /\ Stage0Edge(in, d_data, hold) /\ ReadEdge(in, hold)
    /\ SnoopEdge(snooped)
    /\ RequestEdge(hold, d_data, plru)
    /\ RamEdge(plru, wbin) /\ TagEdge(plru)
    /\ data_out' = DataOut(hold, wbin)
    /\ AcksEdge(wbin)
    /\ Machine(hold, d_data, plru, wbin)

==============================================================================
