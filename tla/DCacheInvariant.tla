--------------------------- MODULE DCacheInvariant ---------------------------
(***************************************************************************)
(* The invariant of the proofs about the data cache: what is under way on  *)
(* the bus and in the two stages, and, for requesters that keep clear of   *)
(* the cache's faults, that cache, memory and the values loads may return  *)
(* agree.                                                                  *)
(***************************************************************************)
EXTENDS DCacheSystem

(***************************************************************************)
(* First the bus: how many answers are owed in each state of the machine.  *)
(***************************************************************************)
\* Rows from n around to the last one of the line, without the first of them
Ahead(n) == IF n <= line.end THEN line.end - n ELSE line.end - n + ROW_PER_LINE

OwedInReload == (Ahead(line.row.row) + 1) - (IF wb.stb THEN Ahead(wb.adr.row) + 1 ELSE 0)
Strobing     == IF wb.stb THEN 1 ELSE 0

\* acks_pending is what is owed, with a strobe that has been stalled and the
\* answer of the last cycle.
Counted ==
    /\ acks.pending = Len(answers) + (IF wb.stb /\ acks.stalled THEN 1 ELSE 0)
                                   + (IF acks.dec THEN 1 ELSE 0)
    /\ Len(answers) + Strobing <= MAX_ACKS

BusCounted ==
    /\ wb.cyc <=> state \notin {"IDLE", "FLUSH_CYCLE"}
    /\ wb.stb \/ mine => wb.cyc
    /\ state = "RELOAD_WAIT_ACK" => Len(answers) = OwedInReload
    /\ state = "STORE_WAIT_ACK" => Counted
    /\ state = "NC_LOAD_WAIT_ACK" => Len(answers) + Strobing = 1
    /\ state = "DO_STCX" => ~wb.stb /\ acks.pending = 0 /\ ~acks.dec
    /\ state \in {"IDLE", "DO_STCX", "FLUSH_CYCLE"} => answers = <<>>

\* A store may follow on the bus when it is of the page the bus is in.
PagesKept ==
    /\ \A i \in DOMAIN answers : answers[i].page = PageOf[LineOf(wb.adr)]
    /\ state = "STORE_WAIT_ACK" /\ full =>
         (r1_req.same_page <=> PageOf[LineOf(r1_req.adr)] = PageOf[LineOf(wb.adr)])

\* Then the requests: what is asked and not completed is the request of the
\* machine, if it is full, and the one in stage 0 behind it.
Count(b) == IF b THEN 1 ELSE 0

\* The request the machine looks at, and the one that was asked of the cache.
Serves(q, req) ==
    /\ q.adr = req.adr /\ q.nc = req.nc /\ q.mmu = req.mmu /\ q.reserve = req.reserve
    /\ q.first = (req.half # "second") /\ q.last = (req.half # "first")
    /\ q.touch = (req.op = "touch")
    /\ \/ q.op = "load_miss" /\ req.op \in {"load", "touch"} /\ ~q.dcbz
       \/ q.op = "store" /\ req.op = "store" /\ ~q.dcbz
       \/ q.op = "store" /\ req.op = "dcbz" /\ q.dcbz
       \/ q.op = "flush" /\ req.op = "flush" /\ ~q.dcbz
       \/ q.op = "sync" /\ req.op = "sync" /\ ~q.dcbz

InOrder ==
    /\ Len(asked) = Count(Completing) + Count(full) + Count(r0.full)
    /\ full => Serves(r1_req, asked[Count(Completing) + 1].req)
    /\ r0.full => asked[Len(asked)].req = r0.req
    /\ done.ls_error => ~full

\* What the machine is at in each state.
AtWork ==
    /\ state = "NC_LOAD_WAIT_ACK" => full /\ r1_req.op = "load_miss"
    /\ state = "DO_STCX" => full /\ r1_req.op = "store" /\ r1_req.reserve
    /\ state = "FLUSH_CYCLE" => full /\ r1_req.op = "flush"
    /\ state = "RELOAD_WAIT_ACK" /\ full /\ r1_req.reload => r1_req.op = "load_miss" \/ r1_req.dcbz

\* Whom the machine works for, as it is told by mmu_req.
RequesterKept ==
    /\ full => r1_req.mmu = mmu_req
    /\ full /\ r0.full => ~r1_req.mmu /\ ~r0.req.mmu
    /\ "mmu" \in Avoids /\ state = "RELOAD_WAIT_ACK" /\ r0.full => r0.req.mmu = mmu_req

BusInv ==
    /\ TypeOK
    /\ BusCounted /\ PagesKept
    /\ InOrder /\ AtWork /\ RequesterKept
    /\ SyncAfterStores

------------------------------------------------------------------------------
(***************************************************************************)
(* Then what is in the cache.                                              *)
(***************************************************************************)
Careful == {"dcbz", "touch", "quad", "lwarx", "refused"} \subseteq Avoids

InWay(w, l) == w \in valids[l.index] /\ tags[l.index][w] = l.tag

\* The line the machine refills, and its rows.  Those behind the row it waits
\* for have come.
Target         == [tag |-> line.tag, index |-> line.index]
TargetRow(r)   == [tag |-> line.tag, index |-> line.index, row |-> r]
Refilling(l)   == fill.reloading /\ ~fill.write_tag /\ l = Target
Strobed(r)        == wb.stb => Ahead(r) > Ahead(wb.adr.row)
Come(r)        == Ahead(r) > Ahead(line.row.row)

\* A line another master has stored to in the last cycle.
Stale(l) == snoop.valid /\ snoop.line = l

\* What a way holds at a, with the store that is being written to it, and what
\* memory does, with the store on the bus.
RowVal(w, a) ==
    IF write_bram /\ r1_req.sel /\ w = line.way /\ line.row = RowOf(a) THEN r1_req.dat
    ELSE ram[w][a.index][a.row]
NowIn(m, a) == IF wb.stb /\ wb.we /\ Covers(wb, FALSE, a) THEN wb.dat ELSE m[a]
Now(a)      == NowIn(mem, a)

\* What stage 0 has read, but for the store this edge makes.
ReadRow(w) ==
    IF fwd.valid /\ fwd.sel /\ w = fwd.way /\ fwd.row = RowOf(r0.req.adr) THEN fwd.dat ELSE dout[w]

\* Stage 0 works on the tags and the rows as they are.
StageRead ==
    r0.full => /\ ~full => tag_set = tags[r0.req.adr.index]
               /\ \A w \in Way : ReadRow(w) = ram[w][r0.req.adr.index][r0.req.adr.row]

Unique == \A l \in Line : \A v, w \in Way : InWay(v, l) /\ InWay(w, l) => v = w

\* The snooped line is matched with the tags as they are, but for the tag that
\* was written as it was snooped.
SnoopRead ==
    snoop.valid => \A w \in Way :
        \/ snoop.tags[w] = tags[snoop.line.index][w]
        \/ /\ fill.reloading /\ ~fill.write_tag /\ w = line.way /\ line.rows_valid = {}
           /\ snoop.line.index = line.index

\* A store is written to the way that holds its line as it is put on the bus.
StoreHits(q) ==
    IF q.hit THEN /\ ~q.nc /\ q.ways = {q.way} /\ tags[q.adr.index][q.way] = q.adr.tag
                  /\ \A w \in Way : InWay(w, LineOf(q.adr)) => w = q.way
    ELSE \A w \in Way : ~InWay(w, LineOf(q.adr))

WritesStore ==
    write_bram =>
        /\ state = "STORE_WAIT_ACK" /\ wb.stb /\ wb.we
        /\ wb.adr = r1_req.adr /\ wb.dat = r1_req.dat /\ wb.sel = r1_req.sel
        /\ line.row = RowOf(wb.adr) /\ line.ways = {line.way}
        /\ tags[wb.adr.index][line.way] = wb.adr.tag
        /\ \A w \in Way : InWay(w, LineOf(wb.adr)) => w = line.way

\* A refill: its strobes, its tag, its rows.
FillState ==
    /\ fill.reloading => state = "RELOAD_WAIT_ACK"
    /\ fill.write_tag => /\ fill.reloading /\ answers = <<>> /\ ~acks.stalled
                         /\ line.rows_valid = {} /\ (full => r1_req.reload) /\ (~full => ~r0.full)
                         /\ wb.stb /\ wb.adr.row = line.row.row
    /\ state = "RELOAD_WAIT_ACK" =>
         /\ LineOf(wb.adr) = Target /\ line.row.index = line.index
         /\ (wb.we <=> fill.dcbz) /\ (fill.dcbz => wb.sel /\ wb.dat = 0)
         /\ ~fill.dcbz => fill.reloading
         /\ line.rows_valid = {r \in Row : Come(r)}
         /\ line.rows_valid # {} \/ answers # <<>> => mine
         /\ line.rows_valid # {} => ~snoop.valid
    /\ state = "RELOAD_WAIT_ACK" /\ (fill.write_tag \/ ~fill.reloading) =>
         \A w \in Way : ~InWay(w, Target)
    /\ fill.reloading /\ ~fill.write_tag =>
         /\ line.ways = {line.way} /\ tags[line.index][line.way] = line.tag
         /\ \A w \in Way : InWay(w, Target) => w = line.way

\* What is sent and has not come: the rows of memory, or zeroes.
AnswersHold ==
    /\ state = "RELOAD_WAIT_ACK" => \A r \in Row : Strobed(r) =>
         IF fill.dcbz THEN mem[TargetRow(r)] = 0
         ELSE ~Come(r) => answers[Ahead(line.row.row) - Ahead(r) + 1].dat = mem[TargetRow(r)]
    /\ state = "NC_LOAD_WAIT_ACK" =>
         /\ wb.adr = r1_req.adr /\ ~wb.we
         /\ answers # <<>> => mine /\ answers[1].dat = mem[wb.adr]
    /\ state = "DO_STCX" => /\ wb.adr = r1_req.adr /\ wb.dat = r1_req.dat /\ wb.sel = r1_req.sel
                            /\ wb.we /\ line.row = RowOf(wb.adr)
                            /\ r1_req.hit => line.way = r1_req.way /\ line.ways = r1_req.ways

\* The request that waits in stage 1 still fits the cache, or its row is yet to
\* come.
Waits ==
    full =>
      /\ r1_req.touch => ~r0.full
      /\ IF state = "RELOAD_WAIT_ACK" /\ r1_req.reload
        THEN /\ LineOf(r1_req.adr) = Target /\ Ahead(r1_req.adr.row) <= Ahead(line.row.row)
             /\ fill.dcbz <=> r1_req.dcbz
        ELSE /\ r1_req.op = "store" => StoreHits(r1_req)
             /\ r1_req.op = "load_miss" => \A w \in Way : ~InWay(w, LineOf(r1_req.adr))

\* A row that is in the cache is what memory is about to be.
Backed ==
    \A w \in Way, a \in Adr :
        /\ InWay(w, LineOf(a)) /\ ~Stale(LineOf(a))
        /\ Refilling(LineOf(a)) => a.row \in line.rows_valid
        => RowVal(w, a) = Now(a)

------------------------------------------------------------------------------
(***************************************************************************)
(* The values that loads may return.                                       *)
(***************************************************************************)
R0Dat == IF r0.d_valid THEN r0.dat ELSE d_data

\* While a line is zeroed, nothing but zeroes is stored, and it is not loaded.
Zeroes ==
    /\ r0.full /\ r0.req.op # "store" => R0Dat = 0
    /\ full /\ r1_req.dcbz => r1_req.dat = 0 /\ r1_req.sel
    /\ (full /\ r1_req.dcbz) \/ (state = "RELOAD_WAIT_ACK" /\ fill.dcbz) =>
         /\ r1_req.dat = 0
         /\ r0.full => R0Dat = 0
    /\ full /\ r1_req.dcbz /\ r0.full /\ r0.req.op = "load" => LineOf(r0.req.adr) # LineOf(r1_req.adr)
    /\ state = "RELOAD_WAIT_ACK" /\ fill.dcbz /\ r0.full /\ r0.req.op = "load"
         => LineOf(r0.req.adr) # Target

HistoryTyped ==
    /\ DOMAIN halved = {"adr", "val", "rest"}
    /\ linked \in [live : BOOLEAN, adr : Adr, val : Val]

Has(vals, req) == Snapshots(req, mem, FALSE) \subseteq vals

\* A request under way may return what memory and the stores ahead of it leave.
\* One whose line was stored to in the last cycle may return what it was.
MayReturn ==
    /\ r0.full /\ ~Dropped /\ r0.req.op = "load" => Has(asked[Len(asked)].vals, r0.req)
    /\ full /\ r1_req.op = "load_miss" /\ ~r1_req.touch =>
         LET q == asked[Count(Completing) + 1] IN Has(q.vals, q.req)
    /\ r0.full /\ ~full /\ ~Dropped /\ r0.req.op = "load" /\ Stale(LineOf(r0.req.adr)) =>
         \A w \in Way :
            InWay(w, LineOf(r0.req.adr)) /\ ~Refilling(LineOf(r0.req.adr)) =>
              [x \in Reads(r0.req) |-> RowVal(w, x)] \in asked[Len(asked)].vals

\* The first half of a quadword load, and a lwarx, go at once.  The second half
\* is yet to come while the first is in stage 0.
AtOnce ==
    /\ r0.full /\ r0.req.op = "load" /\ r0.req.half # "second"
         /\ (r0.req.half = "first" \/ r0.req.reserve)
       => ~full /\ ~done.ls_error /\ state \in {"IDLE", "STORE_WAIT_ACK"}
    /\ half_open => r0.req.half = "first"
    /\ r0.full /\ r0.req.half = "first" => half_open
    /\ r0.full /\ r0.req.reserve => r0.req.ok /\ ~r0.req.nc

\* The halves of a quadword, once the first has left stage 0 without an error:
\* r0.req is the first, or the second behind it.
Open(op) == /\ r0.req.op = op /\ ~done.ls_error
            /\ \/ half_open /\ ~r0.full
               \/ r0.full /\ r0.req.half = "second"
Second   == IF r0.req.half = "first" THEN Partner(r0.req.adr) ELSE r0.req.adr
Parted   == Open("load") /\ ~r0.req.nc
FirstDone == done.ls_valid /\ asked[1].req.op = "load" /\ asked[1].req.half = "first"
             /\ ~asked[1].req.nc
Halving  == full /\ r1_req.op = "load_miss" /\ ~r1_req.first /\ ~r1_req.nc

\* The first half of a quadword load is the last thing that was done; the second
\* will read the way of the first.
PairKept ==
    /\ full => ~Completing
    /\ Open("load") =>
         /\ state \in {"IDLE", "STORE_WAIT_ACK"}
                      \cup IF r0.req.nc THEN {"NC_LOAD_WAIT_ACK"} ELSE {"RELOAD_WAIT_ACK"}
         /\ full => /\ r1_req.op = "load_miss" /\ ~r1_req.last /\ r1_req.first /\ ~r1_req.touch
                    /\ r1_req.nc = r0.req.nc /\ Second = Partner(r1_req.adr)
    /\ Parted /\ state = "RELOAD_WAIT_ACK" =>
         /\ LineOf(Second) = Target /\ ~fill.dcbz
         /\ ~fill.write_tag => prev_ways = {line.way}
         /\ IF full THEN r1_req.reload /\ line.rows_valid = {} /\ line.row.row = r1_req.adr.row
            ELSE ~fill.write_tag /\ line.rows_valid # {}
    /\ Parted /\ ~full =>
         /\ Completing => FirstDone /\ Second = Partner(asked[1].req.adr)
         /\ \E w \in Way : prev_ways = {w} /\ \A v \in Way : InWay(v, LineOf(Second)) => v = w
    /\ Halving => state = "RELOAD_WAIT_ACK" /\ r1_req.reload /\ line.rows_valid # {}

\* The value the second half will read, and that it may.
SecondVal(w) ==
    IF state = "RELOAD_WAIT_ACK" /\ Second.row \notin line.rows_valid THEN mem[Second]
    ELSE RowVal(w, Second)

PairReads ==
    /\ Parted /\ ~full => \A w \in Way : prev_ways = {w} =>
         IF FirstDone
         THEN \E s \in asked[1].vals : s[asked[1].req.adr] = data_out /\ s[Second] = SecondVal(w)
         ELSE SecondVal(w) \in halved.rest
    /\ Halving => mem[r1_req.adr] \in halved.rest

\* The bus is kept for the second half of a quadword store, and nothing is
\* reserved when that of a store conditional comes.
StorePairs ==
    /\ Open("store") =>
         /\ r0.req.ok /\ ~(r0.req.nc /\ r0.req.reserve)
         /\ full => /\ r1_req.op = "store" /\ ~r1_req.dcbz /\ ~r1_req.last
                    /\ r1_req.reserve = r0.req.reserve
         /\ ~full => state \in {"IDLE", "STORE_WAIT_ACK"} /\ (r0.req.reserve => ~reservation.valid)
         /\ r0.req.nc => ~fill.write_tag /\ \A w \in Way : ~InWay(w, LineOf(Second))
    /\ state = "STORE_WAIT_ACK" /\ atomic_more =>
         \/ Open("store") /\ ~full
         \/ full /\ r1_req.op = "store" /\ ~r1_req.first
    /\ full /\ r1_req.op = "store" /\ ~r1_req.last => Open("store")
    /\ state = "DO_STCX" /\ atomic_more => ~r1_req.last
    /\ full /\ r1_req.op = "store" /\ r1_req.reserve /\ ~r1_req.first =>
         state \in {"IDLE", "STORE_WAIT_ACK"} /\ ~reservation.valid
    /\ done.ls_valid /\ asked[1].req.op = "store" /\ asked[1].req.reserve => ~reservation.valid

LwarxDone == done.ls_valid /\ asked[1].req.op = "load" /\ asked[1].req.reserve
             /\ asked[1].req.half # "second"

\* A reservation is of the last lwarx, whose row is as it was.
Reserved ==
    /\ reservation.valid /\ ~Stale(reservation.line) =>
         IF LwarxDone
         THEN LineOf(asked[1].req.adr) = reservation.line /\ data_out = Now(asked[1].req.adr)
         ELSE /\ linked.live /\ LineOf(linked.adr) = reservation.line
              /\ linked.val \in {mem[linked.adr], Now(linked.adr)}
    /\ full /\ r1_req.op = "load_miss" /\ r1_req.reserve /\ r1_req.first =>
         ~reservation.valid /\ reservation.line = LineOf(r1_req.adr)
    /\ state = "RELOAD_WAIT_ACK" /\ ~full /\ r1_req.reserve /\ r1_req.first =>
         reservation.valid /\ line.rows_valid # {}

CoherenceInv ==
    /\ StageRead /\ Unique /\ SnoopRead /\ WritesStore /\ FillState /\ AnswersHold /\ Waits
    /\ HistoryTyped /\ Backed /\ Zeroes /\ MayReturn /\ AtOnce /\ PairKept /\ PairReads /\ StorePairs
    /\ Reserved /\ LoadsCoherent

IInv == BusInv /\ (Careful => CoherenceInv)

------------------------------------------------------------------------------
(***************************************************************************)
(* A cycle, in the parts the proofs take it in: consequences of the edges, *)
(* what the invariant needs of them.                                       *)
(***************************************************************************)
\* What is asked, and what the registers hold before.
Reqs == Requests \cup {NoReq}

\* What the wires of a cycle may carry.
BusWire == [stall : BOOLEAN, ack : BOOLEAN, dat : Val]

\* What the requester, the bus and the snooped bus put on them.
Wired(in, wbin, snooped) ==
    /\ in \in [valid : BOOLEAN, req : Reqs, dat : Val]
    /\ wbin \in BusWire
    /\ snooped \in [valid : BOOLEAN, line : Line]

\* The registers of the machine have their types after an edge.
SlowTypeOK ==
    /\ state \in State /\ full \in BOOLEAN
    /\ wb \in BusReg
    /\ line \in LineReg
    /\ fill \in FillReg
    /\ write_bram \in BOOLEAN /\ atomic_more \in BOOLEAN
    /\ prev_ways \in SUBSET Way
    /\ done \in DoneReg
    /\ reservation \in RsrvReg
    /\ valids \in [Index -> SUBSET Way]

\* A step of the system with its choices (see Next).
Cycle(given, stall, ack, junk, in, f, plru) ==
    /\ in \in Wires
    /\ given \in IF mine THEN {TRUE} ELSE {FALSE, wb.cyc}
    /\ stall \in IF given /\ Len(answers) < MaxOwed THEN BOOLEAN ELSE {given}
    /\ ack \in Answers(given, stall) /\ junk \in Junk
    /\ f \in {NoStore} \cup (IF given THEN {} ELSE Foreign)
    /\ plru \in Way
    /\ Tick(given, stall, ack, junk, in, f, plru)

\* A strobe is taken by the bus.
Sent(wbin) == wb.stb /\ ~wbin.stall

\* How the answers owed change, whatever the machine does.
Beat(wbin) ==
    /\ answers' \in Seq(Owing)
    /\ Len(answers') = Len(answers) + Count(Sent(wbin)) - Count(wbin.ack)
    /\ \A i \in DOMAIN answers' : answers'[i].page = PageOf[LineOf(wb.adr)]
    /\ acks' = [pending |-> AcksNow, stalled |-> wbin.stall /\ wb.cyc, dec |-> wbin.ack /\ wb.cyc]
    /\ wbin.ack => wb.cyc
    /\ mine' => wb'.cyc

\* And what must be true of them then.
BusNext == BusCounted' /\ (\A i \in DOMAIN answers' : answers'[i].page = PageOf[LineOf(wb'.adr)])

\* The machine is in one of its states.
Works(q, d, plru, wbin) ==
    \/ Idle(q, FALSE, plru) \/ Reload(q, FALSE, plru, wbin)
    \/ Store(q, FALSE, d, plru, wbin) \/ NcLoad(FALSE, plru, wbin)
    \/ DoStcx(FALSE, plru, wbin) \/ Flush(FALSE, plru)

\* What is left of the queue after the completions of this cycle: the request
\* of the machine, if it is full, and the one in stage 0 behind it.
Waiting == r0.full /\ ~Dropped

\* How the machine ends a request, if it ends one in this cycle.
Ends(how) ==
    /\ how \in {"none", "ls", "mmu", "fail"}
    /\ Completes(how, FALSE)
    /\ full' = ((full \/ SlowOp(FALSE)) /\ how = "none")
    /\ how # "none" => full \/ SlowOp(FALSE)

\* And what it ends so: only what can end this way, a sync only when the bus is
\* idle, and, if no unit asks while a line is filled for the other, for the unit
\* that asked.
Answered(how, req) ==
    /\ how = "fail" => req.op = "store" /\ req.reserve
    /\ req.op = "sync" => how = "none" \/ (state = "IDLE" /\ state' = "IDLE" /\ wb' = wb)
    /\ "mmu" \in Avoids => /\ how \in {"ls", "fail"} => ~req.mmu
                           /\ how = "mmu" => req.mmu

\* The machine, with the request q, ends it as the one who asked it may expect.
Outcome(q) ==
    \E how : Ends(how) /\ \A req \in Requests : Serves(q, req) => Answered(how, req)

\* How the requests move: q is the request the machine looked at, how it ended.
Moved(in, q, how) ==
    /\ Ends(how)
    /\ Remaining \in Seq(Taken) /\ asked' \in Seq(Taken)
    /\ Len(Remaining) = Count(full) + Count(Waiting)
    /\ Len(asked') = Len(Remaining) + Count(in.valid)
    /\ \A i \in 1..Len(Remaining) : asked'[i].req = Remaining[i].req
    /\ in.valid => asked'[Len(asked')].req = in.req
    /\ Waiting => Remaining[Len(Remaining)].req = r0.req
    /\ full \/ SlowOp(FALSE) =>
         /\ Serves(q, asked'[1].req)
         /\ Answered(how, asked'[1].req)
         /\ Serves(r1_req', asked'[1].req)

\* What may be asked.
Asks(in) ==
    /\ in \in [valid : BOOLEAN, req : Reqs, dat : Val]
    /\ in.valid => in.req \in Requests /\ Ready(in.req) /\ Allowed(in)
    /\ in.valid /\ in.req.op # "store" => in.dat = 0
    /\ d_data' = IF in.valid THEN in.dat ELSE 0
    /\ half_open' = IF in.valid THEN in.req.half = "first" ELSE half_open /\ ~done.ls_error

\* The pipeline and the machine.
Clocked(in, wbin, f, plru, q) ==
    /\ wbin \in BusWire /\ plru \in Way /\ q \in SlowReq /\ q = Pending(FALSE, d_data)
    /\ Stage0Edge(in, d_data, FALSE) /\ ReadEdge(in, FALSE) /\ SnoopEdge(Snooped(f))
    /\ RequestEdge(FALSE, d_data, plru) /\ RamEdge(plru, wbin) /\ TagEdge(plru)
    /\ data_out' = DataOut(FALSE, wbin)
    /\ acks' = [pending |-> AcksNow, stalled |-> wbin.stall /\ wb.cyc, dec |-> wbin.ack /\ wb.cyc]
    /\ Works(q, d_data, plru, wbin)

\* The bus and the memory behind it; g: the cache is given the bus.
Fed(g, wbin, f) ==
    /\ g \in BOOLEAN /\ f \in [valid : BOOLEAN, adr : Adr, dat : Val]
    /\ mine => g
    /\ mine' <=> g /\ wb'.cyc
    /\ ~wbin.stall => g
    /\ f.valid => ~g
    /\ wbin.ack => answers # <<>> \/ (Sent(wbin) /\ acks.stalled)
    /\ wbin.ack /\ answers # <<>> => wbin.dat = answers[1].dat
    /\ wbin.ack /\ answers = <<>> /\ ~wb.we => wbin.dat = mem[wb.adr]
    /\ \A i \in DOMAIN answers' :
         /\ i + Count(wbin.ack) <= Len(answers) => answers'[i] = answers[i + Count(wbin.ack)]
         /\ i + Count(wbin.ack) > Len(answers) /\ ~wb.we => answers'[i].dat = mem[wb.adr]
    /\ Len(answers') = Len(answers) + Count(Sent(wbin)) - Count(wbin.ack)
    /\ mem' = IF Sent(wbin) /\ wb.we /\ wb.sel THEN [mem EXCEPT ![wb.adr] = wb.dat]
              ELSE IF f.valid THEN [mem EXCEPT ![f.adr] = f.dat] ELSE mem

\* What the history becomes.
Recorded(in, f, wbin) ==
    /\ \A i \in 1..Len(Remaining) :
         /\ Remaining[i].vals \subseteq asked'[i].vals
         /\ f.valid /\ f.adr \in Reads(Remaining[i].req) =>
              Snapshots(Remaining[i].req, mem', FALSE) \subseteq asked'[i].vals
    /\ in.valid =>
         /\ Snapshots(in.req, mem, TRUE) \subseteq asked'[Len(asked')].vals
         /\ f.valid /\ f.adr \in Reads(in.req) =>
              Snapshots(in.req, mem', TRUE) \subseteq asked'[Len(asked')].vals
    /\ LET halves == IF done.ls_valid THEN HalvedNext(asked[1]) ELSE halved
       IN halves.rest \subseteq halved'.rest
    /\ DOMAIN halved' = {"adr", "val", "rest"}
    /\ LET link == IF done.ls_valid THEN LinkedNext(asked[1]) ELSE linked
       IN linked' = [link EXCEPT
              !.val = IF link.live /\ Sent(wbin) /\ wb.we /\ wb.sel /\ wb.adr = link.adr
                      THEN wb.dat ELSE @]

\* A cycle from a state of the invariant.
Turn(g, in, wbin, f, plru, q, how) ==
    /\ Careful /\ BusInv /\ CoherenceInv /\ BusInv'
    /\ Asks(in) /\ Clocked(in, wbin, f, plru, q) /\ Fed(g, wbin, f) /\ Moved(in, q, how)
    /\ Recorded(in, f, wbin)

\* Stage 0 in this cycle: whether its request goes, whether the machine has to
\* do it, what it is, and as the machine takes it.
Goes   == Go(FALSE)
Slow   == SlowOp(FALSE)
ThisOp == Op(FALSE)
Taking == Decoded(FALSE, d_data)

\* A request but for its reload, which is set as it waits in IDLE.
SameReq(a, b) ==
    /\ a.op = b.op /\ a.adr = b.adr /\ a.dat = b.dat /\ a.sel = b.sel /\ a.dcbz = b.dcbz
    /\ a.touch = b.touch /\ a.reserve = b.reserve /\ a.first = b.first /\ a.last = b.last
    /\ a.nc = b.nc /\ a.mmu = b.mmu /\ a.hit = b.hit /\ a.way = b.way /\ a.ways = b.ways

\* The machine starts a refill.
Fills(q) ==
    /\ state = "IDLE" /\ state' = "RELOAD_WAIT_ACK" /\ ~write_bram'
    /\ full \/ Slow
    /\ Bus(q, fill'.dcbz, TRUE) /\ Track(q)
    /\ \/ /\ q.op = "load_miss" /\ ~q.nc
          /\ fill' = [reloading |-> TRUE, write_tag |-> TRUE, dcbz |-> FALSE]
          /\ full' = ~q.touch
       \/ /\ q.op = "store" /\ ~q.reserve /\ q.dcbz
          /\ fill' = [reloading |-> ~q.nc, write_tag |-> ~q.nc /\ ~q.hit, dcbz |-> TRUE]
          /\ full'

\* It puts a store on the bus.
Stores(q, wbin) ==
    /\ state \in {"IDLE", "STORE_WAIT_ACK", "DO_STCX"} /\ state' = "STORE_WAIT_ACK"
    /\ full \/ Slow
    /\ ~full' /\ q.op = "store" /\ ~q.dcbz
    /\ wb'.stb /\ wb'.we /\ wb'.adr = q.adr /\ wb'.dat = q.dat /\ wb'.sel = q.sel
    /\ write_bram' = q.hit /\ line'.row = RowOf(q.adr)
    /\ q.hit => line'.way = q.way /\ line'.ways = q.ways
    /\ ~fill'.reloading /\ ~fill'.write_tag
    /\ wb.stb => ~wbin.stall

\* It does neither, and does not refill: a store that is stalled stays.
Quiet(wbin) ==
    /\ state # "RELOAD_WAIT_ACK" /\ state' # "RELOAD_WAIT_ACK" /\ ~write_bram'
    /\ ~fill'.reloading /\ ~fill'.write_tag
    /\ wb'.stb /\ wb'.we <=> wb.stb /\ wb.we /\ wbin.stall
    /\ wb'.stb /\ wb'.we => wb'.adr = wb.adr /\ wb'.dat = wb.dat /\ wb'.sel = wb.sel

\* It strobes a line and takes its rows.
Reloads(q, plru, wbin) ==
    /\ state = "RELOAD_WAIT_ACK" /\ ~write_bram' /\ atomic_more' = atomic_more
    /\ ReloadBus(wbin)
    /\ line' = [line EXCEPT !.rows_valid = IF wbin.ack THEN @ \cup {line.row.row} ELSE @,
                           !.row.row = IF wbin.ack THEN NextRow(@) ELSE @,
                           !.way = ReplaceWay(plru),
                           !.ways = IF fill.write_tag THEN {ReplaceWay(plru)} ELSE @]
    /\ fill' = [fill EXCEPT !.write_tag = FALSE, !.reloading = @ /\ ~LastAck(wbin)]
    /\ state' = IF LastAck(wbin) THEN "IDLE" ELSE state
    /\ full' = ((full \/ Slow) /\ ~Arrives(q, wbin))

==============================================================================
