---------------------------- MODULE DCacheProofs -----------------------------
(***************************************************************************)
(* Proofs about the data cache, for every number of lines, rows and ways,  *)
(* every limit of the counter of answers, and every set of requests.       *)
(***************************************************************************)
EXTENDS DCacheInvariant, FiniteSetTheorems, WellFoundedInduction, TLAPS

LEMMA Sizes ==
    /\ ROW_PER_LINE \in Nat /\ ROW_PER_LINE > 1 /\ NUM_WAYS \in Nat /\ NUM_WAYS > 0
    /\ MAX_ACKS \in Nat /\ MAX_ACKS > 0 /\ 0 \in Way /\ 0 \in Row /\ 0 \in Val /\ 1 \in Val
    /\ DOMAIN PageOf = Line
BY CacheAssumption DEF Way, Row, Val

LEMMA Somewhere == NoReq \in Req /\ NoReq.adr \in Adr
<1>1. \E a : a \in Adr
  <2>1. PICK t \in Tag, i \in Index : TRUE
    BY CacheAssumption
  <2>2. [tag |-> t, index |-> i, row |-> 0] \in Adr
    BY Sizes DEF Adr
  <2>3. QED
    BY <2>2
<1>2. (CHOOSE a \in Adr : TRUE) \in Adr
  BY <1>1
<1>3. QED
  BY <1>2 DEF NoReq, Req

\* The largest way of a set of ways is one of them.
LEMMA Largest ==
    ASSUME NEW S \in SUBSET Way, S # {}
    PROVE  Max(S) \in S
<1> DEFINE Depth == {NUM_WAYS - w : w \in S}
<1>1. Depth \in SUBSET Nat /\ Depth # {}
  <2>1. ASSUME NEW w \in S PROVE NUM_WAYS - w \in Nat
    BY Sizes DEF Way
  <2>2. QED
    BY <2>1
<1>2. PICK d \in Depth : \A e \in Depth : ~(<<e, d>> \in OpToRel(<, Nat))
  BY <1>1, NatLessThanWellFounded, WFMin
<1>3. PICK w \in S : d = NUM_WAYS - w
  BY <1>2
<1>4. \A v \in S : w >= v
  <2>1. SUFFICES ASSUME NEW v \in S PROVE w >= v
    OBVIOUS
  <2>2. ~(NUM_WAYS - v < NUM_WAYS - w)
    BY <1>1, <1>2, <1>3 DEF OpToRel
  <2>3. QED
    BY <2>2, Sizes DEF Way
<1>5. QED
  BY <1>3, <1>4 DEF Max

\* Rows follow each other around the line.
LEMMA Rows ==
    ASSUME NEW n \in Row
    PROVE  /\ NextRow(n) = (IF n = ROW_PER_LINE - 1 THEN 0 ELSE n + 1) /\ NextRow(n) \in Row
           /\ PrevRow(n) = (IF n = 0 THEN ROW_PER_LINE - 1 ELSE n - 1) /\ PrevRow(n) \in Row
<1>1. n \in Nat /\ n < ROW_PER_LINE /\ ROW_PER_LINE \in Nat /\ ROW_PER_LINE > 1
  BY Sizes DEF Row
<1>2. NextRow(n) = (IF n = ROW_PER_LINE - 1 THEN 0 ELSE n + 1)
  BY <1>1 DEF NextRow
<1>3. PrevRow(n) = (IF n = 0 THEN ROW_PER_LINE - 1 ELSE n - 1)
  <2>1. CASE n = 0
    BY <1>1, <2>1 DEF PrevRow
  <2>2. CASE n # 0
    <3>1. n + ROW_PER_LINE - 1 = (n - 1) + ROW_PER_LINE /\ n - 1 \in 0..ROW_PER_LINE - 1
      BY <1>1, <2>2
    <3>2. ((n - 1) + ROW_PER_LINE) % ROW_PER_LINE = n - 1
      BY <1>1, <3>1
    <3>3. QED
      BY <2>2, <3>1, <3>2 DEF PrevRow
  <2>3. QED
    BY <2>1, <2>2
<1>4. QED
  BY <1>1, <1>2, <1>3 DEF Row

------------------------------------------------------------------------------
\* Types, process by process.

LEMMA ReqTypes ==
    /\ Reqs \subseteq Req
    /\ \A r \in Req : r.adr \in Adr /\ LineOf(r.adr) \in Line /\ RowOf(r.adr) \in RowAdr
    /\ \A a \in Adr : LineOf(a) \in Line /\ RowOf(a) \in RowAdr
                      /\ a.tag \in Tag /\ a.index \in Index /\ a.row \in Row
BY RequestsAssumption, Somewhere DEF Reqs, Req, Adr, LineOf, RowOf, Line, RowAdr

LEMMA InitType == Init => TypeOK
<1> SUFFICES ASSUME Init PROVE TypeOK
  OBVIOUS
<1> USE Sizes, Somewhere, ReqTypes DEF Init, CacheInit,
    BusReg, AcksReg, LineReg, FillReg, VictimReg, FwdReg, DoneReg, RsrvReg, SnoopReg
<1>1. /\ r0 \in [full : BOOLEAN, d_valid : BOOLEAN, req : Reqs, dat : Val]
      /\ tag_set \in [Way -> Tag] /\ dout \in [Way -> Val]
      /\ tags \in [Index -> [Way -> Tag]] /\ valids \in [Index -> SUBSET Way]
      /\ ram \in [Way -> [Index -> [Row -> Val]]]
      /\ snoop \in SnoopReg
  BY DEF Reqs
<1>2. r1_req \in SlowReq
  BY DEF SlowReq
<1>3. /\ wb \in BusReg
      /\ acks \in AcksReg
      /\ line \in LineReg
      /\ fwd \in FwdReg
  OBVIOUS
<1>4. /\ fill \in FillReg
      /\ victim \in VictimReg /\ prev_ways \in SUBSET Way
      /\ done \in DoneReg
      /\ reservation \in RsrvReg
  OBVIOUS
<1>5. /\ state \in State /\ full \in BOOLEAN /\ mmu_req \in BOOLEAN /\ write_bram \in BOOLEAN
      /\ atomic_more \in BOOLEAN /\ data_out \in Val
  BY DEF State
<1> HIDE DEF Init, CacheInit,
    BusReg, AcksReg, LineReg, FillReg, VictimReg, FwdReg, DoneReg, RsrvReg, SnoopReg
<1>6. CacheTypeOK
  BY <1>1, <1>2, <1>3, <1>4, <1>5 DEF CacheTypeOK, Reqs
<1>7. /\ mem \in [Adr -> Val] /\ mine \in BOOLEAN /\ d_data \in Val /\ half_open \in BOOLEAN
      /\ answers = <<>> /\ asked = <<>> /\ program \in Programs
  BY DEF Init
<1>8. <<>> \in Seq(Owing) /\ <<>> \in Seq(Taken)
  OBVIOUS
<1>9. QED
  BY <1>6, <1>7, <1>8 DEF TypeOK

LEMMA HitTypes ==
    ASSUME CacheTypeOK
    PROVE  /\ HitWays(FALSE) \in SUBSET Way /\ HitWay(FALSE) \in Way
           /\ IsHit(FALSE) \in BOOLEAN /\ HitReload(FALSE) \in BOOLEAN
<1>1. HitWays(FALSE) \in SUBSET Way
  BY DEF HitWays
<1>2. HitWay(FALSE) \in Way
  BY <1>1, Largest, Sizes DEF HitWay
<1>3. QED
  BY <1>1, <1>2 DEF IsHit, HitReload

LEMMA OpType ==
    Op(FALSE) \in {"none", "nop", "bad", "load_hit", "load_miss", "store", "flush", "sync"}
<1>1. AccessOp(FALSE) \in {"nop", "bad", "load_hit", "load_miss", "store", "flush"}
  BY DEF AccessOp
<1>2. QED
  BY <1>1 DEF Op

LEMMA DecodedType ==
    ASSUME CacheTypeOK, NEW d \in Val
    PROVE  Decoded(FALSE, d) \in SlowReq
<1>1. r0.req \in Req /\ r0.dat \in Val
  BY ReqTypes DEF CacheTypeOK, Reqs
<1>2. (IF r0.req.op = "dcbz" THEN 0 ELSE IF r0.d_valid THEN r0.dat ELSE d) \in Val
  BY <1>1, Sizes
<1>3. /\ r0.req.adr \in Adr /\ r0.req.reserve \in BOOLEAN /\ r0.req.nc \in BOOLEAN
      /\ r0.req.mmu \in BOOLEAN
  BY <1>1 DEF Req
<1>4. QED
  BY <1>2, <1>3, HitTypes, OpType DEF Decoded, SlowReq

LEMMA PendingType ==
    ASSUME CacheTypeOK, NEW d \in Val
    PROVE  Pending(FALSE, d) \in SlowReq
BY DecodedType DEF Pending, CacheTypeOK

LEMMA WayType ==
    ASSUME CacheTypeOK, NEW plru \in Way
    PROVE  ReplaceWay(plru) \in Way
BY DEF ReplaceWay, CacheTypeOK, LineReg, VictimReg

LEMMA StageType ==
    ASSUME CacheTypeOK, NEW in, NEW d \in Val, NEW wbin, NEW snooped, NEW plru \in Way,
           Wired(in, wbin, snooped),
           Stage0Edge(in, d, FALSE), ReadEdge(in, FALSE), SnoopEdge(snooped),
           RequestEdge(FALSE, d, plru)
    PROVE  /\ r0' \in [full : BOOLEAN, d_valid : BOOLEAN, req : Reqs, dat : Val]
           /\ tag_set' \in [Way -> Tag] /\ dout' \in [Way -> Val]
           /\ snoop' \in SnoopReg
           /\ r1_req' \in SlowReq /\ mmu_req' \in BOOLEAN
           /\ victim' \in VictimReg
<1>1. /\ r0 \in [full : BOOLEAN, d_valid : BOOLEAN, req : Reqs, dat : Val]
      /\ r0.req \in Req /\ in.req \in Req /\ in.req \in Reqs /\ in.valid \in BOOLEAN
  BY ReqTypes DEF CacheTypeOK, Reqs, Wired
<1>2. r0' \in [full : BOOLEAN, d_valid : BOOLEAN, req : Reqs, dat : Val]
  <2>1. in.req.mmu \in BOOLEAN
    BY <1>1 DEF Req
  <2>2. QED
    BY <1>1, <2>1, Sizes DEF Stage0Edge
<1>3. tag_set' \in [Way -> Tag] /\ dout' \in [Way -> Val]
  <2>1. PICK adr \in Adr, read \in BOOLEAN :
          /\ tag_set' = IF read THEN tags[adr.index] ELSE tag_set
          /\ dout' = IF read THEN [w \in Way |-> ram[w][adr.index][adr.row]] ELSE dout
    BY <1>1, ReqTypes DEF ReadEdge
  <2>2. adr.index \in Index /\ adr.row \in Row
    BY ReqTypes
  <2>3. ASSUME NEW w \in Way PROVE ram[w][adr.index][adr.row] \in Val
    BY <2>2 DEF CacheTypeOK
  <2>4. tags[adr.index] \in [Way -> Tag] /\ tag_set \in [Way -> Tag] /\ dout \in [Way -> Val]
    BY <2>2 DEF CacheTypeOK
  <2>5. QED
    BY <2>1, <2>3, <2>4
<1>4. snoop' \in SnoopReg
  BY DEF SnoopEdge, CacheTypeOK, Wired, Line, SnoopReg
<1>5. r1_req' \in SlowReq
  <2>1. (IF ~full /\ Go(FALSE) THEN Decoded(FALSE, d) ELSE r1_req) \in SlowReq
    BY DecodedType DEF CacheTypeOK
  <2>2. ASSUME NEW r \in SlowReq PROVE [r EXCEPT !.reload = TRUE] \in SlowReq
    BY DEF SlowReq
  <2>3. QED
    BY <2>1, <2>2 DEF RequestEdge
<1>6. mmu_req' \in BOOLEAN
  BY <1>1 DEF RequestEdge, CacheTypeOK, Req
<1>7. victim' \in VictimReg
  BY HitTypes DEF RequestEdge, CacheTypeOK, VictimReg
<1>8. QED
  BY <1>2, <1>3, <1>4, <1>5, <1>6, <1>7

LEMMA RamType ==
    ASSUME CacheTypeOK, NEW in, NEW wbin, NEW snooped, NEW plru \in Way,
           Wired(in, wbin, snooped), RamEdge(plru, wbin), TagEdge(plru),
           data_out' = DataOut(FALSE, wbin)
    PROVE  /\ ram' \in [Way -> [Index -> [Row -> Val]]]
           /\ fwd' \in FwdReg
           /\ tags' \in [Index -> [Way -> Tag]] /\ data_out' \in Val
           /\ ValidsNext(plru) \in [Index -> SUBSET Way]
<1>1. RamDat(wbin) \in Val /\ RamSel \in BOOLEAN /\ ReplaceWay(plru) \in Way
  BY WayType DEF RamDat, RamSel, CacheTypeOK, SlowReq, Wired, BusWire
<1>2. line.row.index \in Index /\ line.row.row \in Row /\ line.index \in Index /\ line.tag \in Tag
  BY DEF CacheTypeOK, RowAdr, LineReg
<1>3. ram' \in [Way -> [Index -> [Row -> Val]]]
  BY <1>1, <1>2 DEF RamEdge, CacheTypeOK
<1>4. fwd' \in FwdReg
  BY <1>1 DEF RamEdge, CacheTypeOK, FwdReg, LineReg
<1>5. tags' \in [Index -> [Way -> Tag]]
  BY <1>1, <1>2 DEF TagEdge, CacheTypeOK
<1>6. data_out' \in Val
  BY Sizes DEF DataOut, Wired, BusWire
<1>7. ValidsNext(plru) \in [Index -> SUBSET Way]
  <2>1. SnoopHits \in SUBSET Way
    BY DEF SnoopHits
  <2>2. QED
    BY <1>1, <2>1 DEF ValidsNext, CacheTypeOK
<1>8. QED
  BY <1>3, <1>4, <1>5, <1>6, <1>7

\* The counter of answers wraps at MAX_ACKS + 1.
LEMMA Wraps ==
    ASSUME NEW x \in Nat
    PROVE  /\ x % (MAX_ACKS + 1) \in 0..MAX_ACKS
           /\ x <= MAX_ACKS => /\ x % (MAX_ACKS + 1) = x
                              /\ (x + MAX_ACKS + 1) % (MAX_ACKS + 1) = x
<1>1. MAX_ACKS + 1 \in Nat /\ MAX_ACKS + 1 > 0
  BY Sizes
<1>2. x % (MAX_ACKS + 1) \in 0..MAX_ACKS
  BY <1>1, Sizes
<1>3. x <= MAX_ACKS => x % (MAX_ACKS + 1) = x
  BY <1>1, Sizes
<1>4. x <= MAX_ACKS => (x + (MAX_ACKS + 1)) % (MAX_ACKS + 1) = x
  BY <1>1, Sizes
<1>5. x + MAX_ACKS + 1 = x + (MAX_ACKS + 1)
  BY Sizes
<1>6. QED
  BY <1>2, <1>3, <1>4, <1>5

LEMMA AcksType ==
    ASSUME CacheTypeOK, NEW in, NEW wbin, NEW snooped, Wired(in, wbin, snooped), AcksEdge(wbin)
    PROVE  acks' \in AcksReg
<1>1. AcksNow \in 0..MAX_ACKS
  <2> DEFINE first == wb.stb /\ ~acks.stalled
             a == IF first /\ ~acks.dec THEN 1 ELSE 0
             b == IF ~first /\ acks.dec THEN MAX_ACKS ELSE 0
  <2>1. acks.pending \in Nat /\ a \in Nat /\ b \in Nat
    BY Sizes DEF CacheTypeOK, AcksReg
  <2>2. AcksNow = IF ~wb.cyc THEN 0 ELSE (acks.pending + a + b) % (MAX_ACKS + 1)
    BY DEF AcksNow
  <2> HIDE DEF a, b
  <2>3. acks.pending + a + b \in Nat
    BY <2>1
  <2>4. QED
    BY <2>2, <2>3, Wraps, Sizes
<1>2. QED
  BY <1>1 DEF AcksEdge, Wired, BusWire, CacheTypeOK, AcksReg, BusReg

LEMMA RsrvType ==
    ASSUME CacheTypeOK
    PROVE  ReservationNow(FALSE) \in RsrvReg
<1>1. LineOf(r0.req.adr) \in Line /\ KillRsrv \in BOOLEAN
  BY ReqTypes DEF CacheTypeOK, Reqs, KillRsrv, RsrvReg, SnoopReg
<1>2. QED
  BY <1>1, HitTypes DEF ReservationNow, CacheTypeOK, RsrvReg

LEMMA DoneType ==
    ASSUME CacheTypeOK, NEW how, Completes(how, FALSE)
    PROVE  done' \in DoneReg
<1>1. r0.req.mmu \in BOOLEAN
  BY ReqTypes DEF CacheTypeOK, Reqs, Req
<1>2. QED
  BY <1>1 DEF Completes, DoneReg

\* What a request leaves on the bus and in the tracked line.
LEMMA TrackType ==
    ASSUME CacheTypeOK, NEW q \in SlowReq
    PROVE  /\ Track(q) => line' \in LineReg
           /\ \A we, stb \in BOOLEAN : Bus(q, we, stb) =>
                wb' \in BusReg
<1>1. /\ q.adr \in Adr /\ q.adr.index \in Index /\ q.adr.tag \in Tag /\ RowOf(q.adr) \in RowAdr
      /\ PrevRow(q.adr.row) \in Row
      /\ (IF q.hit THEN q.way ELSE line.way) \in Way
      /\ (IF q.hit THEN q.ways ELSE line.ways) \in SUBSET Way
  BY ReqTypes, Rows DEF SlowReq, CacheTypeOK, LineReg
<1>2. Track(q) => line' \in LineReg
  BY <1>1 DEF Track, LineReg
<1>3. \A we, stb \in BOOLEAN : Bus(q, we, stb) =>
        wb' \in BusReg
  BY <1>1 DEF Bus, SlowReq, BusReg
<1>4. QED
  BY <1>2, <1>3

LEMMA IdleType ==
    ASSUME CacheTypeOK, NEW q \in SlowReq, NEW plru \in Way,
           ValidsNext(plru) \in [Index -> SUBSET Way], Idle(q, FALSE, plru)
    PROVE  SlowTypeOK'
<1>1. SlowTypeOK
  BY DEF SlowTypeOK, CacheTypeOK
<1>2. /\ write_bram' \in BOOLEAN /\ valids' \in [Index -> SUBSET Way]
      /\ prev_ways' \in SUBSET Way /\ reservation' \in RsrvReg
  BY <1>1, HitTypes, RsrvType DEF Idle, ValidsEdge, PrevEdge, RsrvEdge, SlowTypeOK, SlowReq
<1>3. \A how : Completes(how, FALSE) => 
        done' \in DoneReg
  BY DoneType
<1>4. NoFill => fill' \in FillReg
  BY DEF NoFill, FillReg
<1>5. /\ q.touch \in BOOLEAN /\ q.last \in BOOLEAN /\ q.nc \in BOOLEAN /\ q.hit \in BOOLEAN
      /\ q.way \in Way /\ q.ways \in SUBSET Way
  BY DEF SlowReq
<1>6. CASE IdleStay(q, FALSE)
  <2>1. line' \in LineReg
    BY <1>1, <1>5, <1>6 DEF IdleStay, SlowTypeOK, LineReg
  <2>2. QED
    BY <1>1, <1>2, <1>3, <1>4, <1>6, <2>1 DEF IdleStay, SlowTypeOK
<1>7. CASE IdleMiss(q, FALSE)
  BY <1>1, <1>2, <1>3, <1>4, <1>5, <1>7, TrackType DEF IdleMiss, SlowTypeOK, FillReg, State
<1>8. CASE IdleNcLoad(q, FALSE)
  BY <1>1, <1>2, <1>3, <1>4, <1>5, <1>8, TrackType DEF IdleNcLoad, SlowTypeOK, State
<1>9. CASE IdleStcx(q, FALSE)
  BY <1>1, <1>2, <1>3, <1>4, <1>5, <1>9, TrackType DEF IdleStcx, SlowTypeOK, State
<1>10. CASE IdleStore(q, FALSE)
  BY <1>1, <1>2, <1>3, <1>4, <1>5, <1>10, TrackType DEF IdleStore, SlowTypeOK, State
<1>11. CASE IdleDcbz(q, FALSE)
  BY <1>1, <1>2, <1>3, <1>4, <1>5, <1>11, TrackType DEF IdleDcbz, SlowTypeOK, FillReg, State
<1>12. CASE IdleFlush(q, FALSE)
  BY <1>1, <1>2, <1>3, <1>4, <1>5, <1>12, TrackType DEF IdleFlush, SlowTypeOK, State
<1>13. CASE IdleSync(q, FALSE)
  BY <1>1, <1>2, <1>3, <1>4, <1>5, <1>13, TrackType DEF IdleSync, SlowTypeOK, State
<1>14. QED
  BY <1>6, <1>7, <1>8, <1>9, <1>10, <1>11, <1>12, <1>13 DEF Idle

LEMMA ReloadType ==
    ASSUME CacheTypeOK, NEW q \in SlowReq, NEW plru \in Way, NEW wbin \in BusWire,
           ValidsNext(plru) \in [Index -> SUBSET Way], Reload(q, FALSE, plru, wbin)
    PROVE  SlowTypeOK'
<1>1. SlowTypeOK
  BY DEF SlowTypeOK, CacheTypeOK
<1>2. /\ write_bram' \in BOOLEAN /\ valids' \in [Index -> SUBSET Way] /\ atomic_more' \in BOOLEAN
      /\ state' \in State /\ full' \in BOOLEAN /\ done' \in DoneReg
  BY <1>1, DoneType DEF Reload, NoWrite, ValidsEdge, SlowTypeOK, State, FullNext, BusWire
<1>3. prev_ways' \in SUBSET Way
  BY <1>1, HitTypes, WayType DEF Reload, SlowTypeOK, LineReg
<1>4. reservation' \in RsrvReg
  <2>1. Arrives(q, wbin) \in BOOLEAN /\ r1_req.reserve \in BOOLEAN /\ r1_req.first \in BOOLEAN
    BY DEF Arrives, CacheTypeOK, SlowReq
  <2>2. QED
    BY <2>1, RsrvType DEF Reload, RsrvReg
<1>5. wb' \in BusReg
  <2>1. NextRow(wb.adr.row) \in Row
    BY <1>1, ReqTypes, Rows DEF SlowTypeOK, BusReg
  <2>2. [wb.adr EXCEPT !.row = NextRow(@)] \in Adr
    BY <1>1, <2>1 DEF SlowTypeOK, BusReg, Adr
  <2>3. PICK cyc, stb \in BOOLEAN, adr \in Adr :
          wb' = [wb EXCEPT !.cyc = cyc, !.stb = stb, !.adr = adr]
    <3>1. CASE wb.stb /\ ~wbin.stall
      <4>1. wb' = [wb EXCEPT !.cyc = ~LastAck(wbin), !.stb = wb.stb /\ ~(wb.adr.row = line.end),
                             !.adr = [wb.adr EXCEPT !.row = NextRow(@)]]
        BY <3>1 DEF Reload, ReloadBus
      <4>2. QED
        BY <2>2, <4>1
    <3>2. CASE ~(wb.stb /\ ~wbin.stall)
      <4>1. wb' = [wb EXCEPT !.cyc = ~LastAck(wbin), !.stb = wb.stb, !.adr = wb.adr]
        BY <1>1, <3>2 DEF Reload, ReloadBus, SlowTypeOK, BusReg
      <4>2. QED
        BY <1>1, <4>1 DEF SlowTypeOK, BusReg
    <3>3. QED
      BY <3>1, <3>2
  <2>4. QED
    BY <1>1, <2>3 DEF SlowTypeOK, BusReg
<1>6. line' \in LineReg
  <2>1. line.row.row \in Row /\ NextRow(line.row.row) \in Row
    BY <1>1, Rows DEF SlowTypeOK, LineReg, RowAdr
  <2>2. ReplaceWay(plru) \in Way
    BY WayType
  <2>3. QED
    BY <1>1, <2>1, <2>2 DEF Reload, SlowTypeOK, LineReg, RowAdr
<1>7. fill' \in FillReg
  BY <1>1 DEF Reload, LastAck, SlowTypeOK, FillReg
<1>8. QED
  BY <1>2, <1>3, <1>4, <1>5, <1>6, <1>7 DEF SlowTypeOK

LEMMA StoreType ==
    ASSUME CacheTypeOK, NEW q \in SlowReq, NEW plru \in Way, NEW wbin \in BusWire,
           NEW d, ValidsNext(plru) \in [Index -> SUBSET Way], Store(q, FALSE, d, plru, wbin)
    PROVE  SlowTypeOK'
<1>1. SlowTypeOK
  BY DEF SlowTypeOK, CacheTypeOK
<1>2. /\ valids' \in [Index -> SUBSET Way] /\ prev_ways' \in SUBSET Way
      /\ reservation' \in RsrvReg /\ fill' \in FillReg /\ state' \in State
  BY <1>1, HitTypes, RsrvType DEF Store, ValidsEdge, PrevEdge, RsrvEdge, SlowTypeOK, State
<1>3. /\ q.last \in BOOLEAN /\ q.hit \in BOOLEAN /\ q.way \in Way /\ q.ways \in SUBSET Way
      /\ RowOf(q.adr) \in RowAdr
  BY ReqTypes DEF SlowReq
<1>4. CASE Follows(q, wbin)
  <2>1. /\ wb' \in BusReg /\ full' \in BOOLEAN /\ done' \in DoneReg
        /\ write_bram' \in BOOLEAN /\ atomic_more' \in BOOLEAN
    BY <1>3, <1>4, TrackType, DoneType DEF Store
  <2>2. line' \in LineReg
    BY <1>1, <1>3, <1>4 DEF Store, SlowTypeOK, LineReg
  <2>3. QED
    BY <1>2, <2>1, <2>2 DEF SlowTypeOK
<1>5. CASE ~Follows(q, wbin)
  <2>1. StoresDone(q, wbin) \in BOOLEAN
    BY DEF StoresDone
  <2>2. wb' \in BusReg
    BY <1>1, <1>5, <2>1 DEF Store, SlowTypeOK, BusReg, BusWire
  <2>3. full' \in BOOLEAN /\ done' \in DoneReg /\ write_bram' \in BOOLEAN /\ atomic_more' \in BOOLEAN
    BY <1>1, <1>5, DoneType DEF Store, FullNext, NoWrite, SlowTypeOK
  <2>4. line' \in LineReg
    BY <1>1, <1>5 DEF Store, SlowTypeOK
  <2>5. QED
    BY <1>2, <2>2, <2>3, <2>4 DEF SlowTypeOK
<1>6. QED
  BY <1>4, <1>5

LEMMA NcLoadType ==
    ASSUME CacheTypeOK, NEW plru \in Way, NEW wbin \in BusWire,
           ValidsNext(plru) \in [Index -> SUBSET Way], NcLoad(FALSE, plru, wbin)
    PROVE  SlowTypeOK'
<1>1. SlowTypeOK
  BY DEF SlowTypeOK, CacheTypeOK
<1>2. /\ write_bram' \in BOOLEAN /\ valids' \in [Index -> SUBSET Way] /\ prev_ways' \in SUBSET Way
      /\ reservation' \in RsrvReg /\ done' \in DoneReg /\ state' \in State /\ full' \in BOOLEAN
  BY <1>1, HitTypes, RsrvType, DoneType
     DEF NcLoad, NoWrite, ValidsEdge, PrevEdge, RsrvEdge, SlowTypeOK, State, FullNext, BusWire
<1>3. wb' \in BusReg
  BY <1>1 DEF NcLoad, SlowTypeOK, BusReg, BusWire
<1>4. QED
  BY <1>1, <1>2, <1>3 DEF NcLoad, SlowTypeOK

LEMMA DoStcxType ==
    ASSUME CacheTypeOK, NEW plru \in Way, NEW wbin,
           ValidsNext(plru) \in [Index -> SUBSET Way], DoStcx(FALSE, plru, wbin)
    PROVE  SlowTypeOK'
<1>1. SlowTypeOK
  BY DEF SlowTypeOK, CacheTypeOK
<1>2. /\ valids' \in [Index -> SUBSET Way] /\ prev_ways' \in SUBSET Way
      /\ line' \in LineReg /\ fill' \in FillReg /\ atomic_more' \in BOOLEAN
  BY <1>1, HitTypes DEF DoStcx, ValidsEdge, PrevEdge, SlowTypeOK
<1>3. state' \in State /\ full' \in BOOLEAN /\ write_bram' \in BOOLEAN /\ done' \in DoneReg
  <2>1. r1_req.hit \in BOOLEAN
    BY DEF CacheTypeOK, SlowReq
  <2>2. QED
    BY <1>1, <2>1, DoneType DEF DoStcx, NoWrite, SlowTypeOK, State, FullNext
<1>4. wb' \in BusReg
  BY <1>1 DEF DoStcx, SlowTypeOK, BusReg
<1>5. reservation' \in RsrvReg
  BY RsrvType DEF DoStcx, RsrvEdge, RsrvReg
<1>6. QED
  BY <1>2, <1>3, <1>4, <1>5 DEF SlowTypeOK

LEMMA FlushType ==
    ASSUME CacheTypeOK, NEW plru \in Way,
           ValidsNext(plru) \in [Index -> SUBSET Way], Flush(FALSE, plru)
    PROVE  SlowTypeOK'
<1>1. SlowTypeOK
  BY DEF SlowTypeOK, CacheTypeOK
<1>2. /\ write_bram' \in BOOLEAN /\ prev_ways' \in SUBSET Way /\ reservation' \in RsrvReg
      /\ done' \in DoneReg /\ state' \in State /\ full' \in BOOLEAN
  BY <1>1, HitTypes, RsrvType, DoneType DEF Flush, NoWrite, PrevEdge, RsrvEdge, SlowTypeOK, State
<1>3. valids' \in [Index -> SUBSET Way]
  BY <1>1 DEF Flush, SlowTypeOK, LineReg
<1>4. QED
  BY <1>1, <1>2, <1>3 DEF Flush, SlowTypeOK

LEMMA EdgeType ==
    ASSUME CacheTypeOK, NEW in, NEW d \in Val, NEW wbin, NEW snooped, NEW plru \in Way,
           Wired(in, wbin, snooped), Edge(in, d, FALSE, wbin, snooped, plru)
    PROVE  CacheTypeOK'
<1>1. wbin \in BusWire
  BY DEF Wired
<1>2. /\ r0' \in [full : BOOLEAN, d_valid : BOOLEAN, req : Reqs, dat : Val]
      /\ tag_set' \in [Way -> Tag] /\ dout' \in [Way -> Val]
      /\ snoop' \in SnoopReg
      /\ r1_req' \in SlowReq /\ mmu_req' \in BOOLEAN
      /\ victim' \in VictimReg
  BY StageType DEF Edge
<1>3. /\ ram' \in [Way -> [Index -> [Row -> Val]]]
      /\ fwd' \in FwdReg
      /\ tags' \in [Index -> [Way -> Tag]] /\ data_out' \in Val
      /\ ValidsNext(plru) \in [Index -> SUBSET Way]
  BY RamType DEF Edge
<1>4. acks' \in AcksReg
  BY AcksType DEF Edge
<1>5. SlowTypeOK'
  <2>1. PICK q \in SlowReq : q = Pending(FALSE, d)
    BY PendingType
  <2>2. \/ Idle(q, FALSE, plru) \/ Reload(q, FALSE, plru, wbin)
        \/ Store(q, FALSE, d, plru, wbin) \/ NcLoad(FALSE, plru, wbin)
        \/ DoStcx(FALSE, plru, wbin) \/ Flush(FALSE, plru)
    BY <2>1 DEF Edge, Machine
  <2>3. CASE Idle(q, FALSE, plru)
    BY <1>3, <2>1, <2>3, IdleType
  <2>4. CASE Reload(q, FALSE, plru, wbin)
    BY <1>1, <1>3, <2>1, <2>4, ReloadType
  <2>5. CASE Store(q, FALSE, d, plru, wbin)
    BY <1>1, <1>3, <2>1, <2>5, StoreType
  <2>6. CASE NcLoad(FALSE, plru, wbin)
    BY <1>1, <1>3, <2>6, NcLoadType
  <2>7. CASE DoStcx(FALSE, plru, wbin)
    BY <1>3, <2>7, DoStcxType
  <2>8. CASE Flush(FALSE, plru)
    BY <1>3, <2>8, FlushType
  <2>9. QED
    BY <2>2, <2>3, <2>4, <2>5, <2>6, <2>7, <2>8
<1>6. QED
  BY <1>2, <1>3, <1>4, <1>5 DEF CacheTypeOK, SlowTypeOK, Reqs

------------------------------------------------------------------------------
\* A cycle of the system: its wires, and the guards under which they are.

LEMMA NextIsCycle == Next => \E given, stall, ack, junk, in, f, plru : Cycle(given, stall, ack, junk, in, f, plru)
<1> SUFFICES ASSUME Next PROVE \E given, stall, ack, junk, in, f, plru : Cycle(given, stall, ack, junk, in, f, plru)
  OBVIOUS
<1>1. PICK in \in Wires :
        \E given \in IF mine THEN {TRUE} ELSE {FALSE, wb.cyc} :
        \E stall \in IF given /\ Len(answers) < MaxOwed THEN BOOLEAN ELSE {given} :
        \E ack \in Answers(given, stall), junk \in Junk :
        \E f \in {NoStore} \cup (IF given THEN {} ELSE Foreign) :
        \E plru \in Way : Tick(given, stall, ack, junk, in, f, plru)
  BY DEF Next
<1>2. PICK given \in IF mine THEN {TRUE} ELSE {FALSE, wb.cyc} :
        \E stall \in IF given /\ Len(answers) < MaxOwed THEN BOOLEAN ELSE {given} :
        \E ack \in Answers(given, stall), junk \in Junk :
        \E f \in {NoStore} \cup (IF given THEN {} ELSE Foreign) :
        \E plru \in Way : Tick(given, stall, ack, junk, in, f, plru)
  BY <1>1
<1>3. QED
  BY <1>2 DEF Cycle

LEMMA CycleWires ==
    ASSUME TypeOK, NEW in, NEW given, NEW stall, NEW ack, NEW junk, NEW f, NEW plru,
           Cycle(given, stall, ack, junk, in, f, plru)
    PROVE  /\ given \in BOOLEAN /\ stall \in BOOLEAN /\ ack \in BOOLEAN
           /\ f \in [valid : BOOLEAN, adr : Adr, dat : Val]
           /\ in \in [valid : BOOLEAN, req : Reqs, dat : Val]
           /\ in.valid => in.req \in Requests /\ Ready(in.req) /\ Allowed(in)
           /\ Owed(given, stall, junk) \in Seq(Owing)
           /\ ack => Owed(given, stall, junk) # <<>>
           /\ Wired(in, WbIn(given, stall, ack, junk), Snooped(f))
<1>1. given \in BOOLEAN /\ stall \in BOOLEAN
  BY DEF Cycle, TypeOK, CacheTypeOK, BusReg
<1>2. ack \in BOOLEAN
  BY DEF Cycle, Answers
<1>3. f \in [valid : BOOLEAN, adr : Adr, dat : Val]
  <2>1. NoStore \in [valid : BOOLEAN, adr : Adr, dat : Val]
    BY Somewhere, Sizes DEF NoStore
  <2>2. \A e \in Foreign : e \in [valid : BOOLEAN, adr : Adr, dat : Val]
    BY RequestsAssumption
  <2>3. f = NoStore \/ f \in Foreign
    BY DEF Cycle
  <2>4. QED
    BY <2>1, <2>2, <2>3
<1>4. /\ in \in [valid : BOOLEAN, req : Reqs, dat : Val]
      /\ in.valid => in.req \in Requests /\ Ready(in.req) /\ Allowed(in)
  <2>1. CASE in = NoWire
    BY <2>1, Sizes DEF NoWire, Reqs
  <2>2. CASE in \in Offered /\ Ready(in.req) /\ Allowed(in)
    <3>1. in.req \in program /\ program \in Programs
      BY <2>2 DEF Offered, TypeOK
    <3>2. in.req \in Requests
      BY <3>1 DEF Requests
    <3>3. QED
      BY <2>2, <3>2 DEF Offered, Reqs
  <2>3. QED
    BY <2>1, <2>2 DEF Cycle, Wires
<1>5. Owed(given, stall, junk) \in Seq(Owing)
  <2>1. wb.adr \in Adr /\ answers \in Seq(Owing) /\ mem \in [Adr -> Val]
    BY DEF TypeOK, CacheTypeOK, BusReg
  <2>2. [page |-> PageOf[LineOf(wb.adr)], dat |-> IF wb.we THEN junk ELSE mem[wb.adr]] \in Owing
    BY <2>1, ReqTypes, Sizes, RequestsAssumption DEF Owing, Cycle
  <2>3. QED
    BY <2>1, <2>2 DEF Owed
<1>6. ack => Owed(given, stall, junk) # <<>>
  <2>1. answers \in Seq(Owing)
    BY DEF TypeOK
  <2>2. ack => answers # <<>> \/ Accepted(given, stall)
    BY DEF Cycle, Answers
  <2>3. QED
    BY <2>1, <2>2 DEF Owed
<1>7. WbIn(given, stall, ack, junk) \in BusWire
  <2>1. ack => Head(Owed(given, stall, junk)).dat \in Val
    <3>1. PICK owed \in Seq(Owing) : owed = Owed(given, stall, junk)
      BY <1>5
    <3>2. owed # <<>> => Head(owed) \in Owing
      OBVIOUS
    <3>3. QED
      BY <1>6, <3>1, <3>2 DEF Owing
  <2>2. QED
    BY <1>1, <1>2, <2>1, Sizes DEF WbIn, BusWire
<1>8. Snooped(f) \in [valid : BOOLEAN, line : Line]
  BY <1>3, ReqTypes DEF Snooped
<1>9. QED
  BY <1>1, <1>2, <1>3, <1>4, <1>5, <1>6, <1>7, <1>8 DEF Wired

LEMMA ReadsType ==
    ASSUME NEW req \in Req
    PROVE  Reads(req) \in SUBSET Adr
<1>1. req.adr \in Adr /\ Partner(req.adr) \in Adr
  BY ReqTypes, Rows DEF Partner, Adr
<1>2. QED
  BY <1>1 DEF Reads

\* A cycle takes the completed request, if any, from the front of the queue and
\* puts the one asked at its end.
LEMMA AskedNext ==
    ASSUME TypeOK, NEW in, NEW given, NEW stall, NEW ack, NEW junk, NEW f, NEW plru,
           Cycle(given, stall, ack, junk, in, f, plru),
           Remaining \in Seq(Taken)
    PROVE  /\ asked' \in Seq(Taken)
           /\ Len(asked') = Len(Remaining) + Count(in.valid)
           /\ \A i \in 1..Len(Remaining) : asked'[i].req = Remaining[i].req
           /\ in.valid => asked'[Len(asked')].req = in.req
<1> DEFINE taken == [req |-> in.req, vals |-> Snapshots(in.req, mem, TRUE)]
           next  == IF in.valid THEN Append(Remaining, taken) ELSE Remaining
           Item(i) == IF ~f.valid \/ f.adr \notin Reads(next[i].req) THEN next[i]
                      ELSE [next[i] EXCEPT !.vals =
                              @ \cup Snapshots(next[i].req, mem', in.valid /\ i = Len(next))]
<1>1. asked' = [i \in DOMAIN next |-> Item(i)]
  <2>1. HistoryEdge(in, f, given, stall)
    BY DEF Cycle, Tick
  <2>2. asked' = [i \in DOMAIN next |->
              IF ~f.valid \/ f.adr \notin Reads(next[i].req) THEN next[i]
              ELSE [next[i] EXCEPT !.vals =
                       @ \cup Snapshots(next[i].req, mem', in.valid /\ i = Len(next))]]
    BY <2>1 DEF HistoryEdge
  <2>3. QED
    BY <2>2
<1>2. ASSUME NEW req \in Req, NEW m, NEW last
      PROVE  Snapshots(req, m, last) \in SUBSET (UNION {[S -> Val] : S \in SUBSET Adr})
  BY <1>2, ReadsType DEF Snapshots
<1>3. in.valid => taken \in Taken
  <2>1. in.valid => in.req \in Requests /\ in.req \in Req
    BY CycleWires, ReqTypes DEF Reqs
  <2>2. QED
    BY <1>2, <2>1 DEF Taken
<1>4. in.valid \in BOOLEAN
  BY CycleWires
<1> HIDE DEF taken
<1>5. /\ next \in Seq(Taken) /\ Len(next) = Len(Remaining) + Count(in.valid)
      /\ \A i \in 1..Len(Remaining) : next[i] = Remaining[i]
      /\ in.valid => next[Len(next)] = taken
  BY <1>3, <1>4 DEF Count
<1> HIDE DEF next
<1>6. ASSUME NEW i \in 1..Len(next)
      PROVE  Item(i) \in Taken /\ Item(i).req = next[i].req
  <2>1. next[i] \in Taken /\ next[i].req \in Req
    <3>1. next[i] \in Taken
      BY <1>5
    <3>2. QED
      BY <3>1, ReqTypes DEF Taken, Reqs
  <2>2. PICK V : V = Snapshots(next[i].req, mem', in.valid /\ i = Len(next))
    OBVIOUS
  <2>3. V \in SUBSET (UNION {[S -> Val] : S \in SUBSET Adr})
    BY <1>2, <2>1, <2>2
  <2>4. Item(i) = next[i] \/ Item(i) = [next[i] EXCEPT !.vals = @ \cup V]
    BY <2>2
  <2>5. QED
    BY <2>1, <2>3, <2>4 DEF Taken
<1> HIDE DEF Item
<1>7. asked' \in Seq(Taken) /\ Len(asked') = Len(next)
      /\ \A i \in 1..Len(next) : asked'[i].req = next[i].req
  BY SMTT(30), <1>1, <1>5, <1>6
<1>8. taken.req = in.req
  BY DEF taken
<1>9. QED
  BY <1>4, <1>5, <1>7, <1>8 DEF Count

LEMMA TypeNext ==
    ASSUME TypeOK, NEW given, NEW stall, NEW ack, NEW junk, NEW in, NEW f, NEW plru,
           Cycle(given, stall, ack, junk, in, f, plru), Remaining \in Seq(Taken)
    PROVE  TypeOK'
<1>1. PICK wbin \in BusWire : wbin = WbIn(given, stall, ack, junk) /\ Wired(in, wbin, Snooped(f))
  BY CycleWires DEF Wired
<1>2. CacheTypeOK'
  BY <1>1, EdgeType DEF Cycle, Tick, TypeOK
<1>3. mem' \in [Adr -> Val]
  <2>1. BusEdge(given, stall, ack, junk, f)
    BY DEF Cycle, Tick
  <2>2. mem \in [Adr -> Val] /\ wb.dat \in Val /\ f.dat \in Val
    BY CycleWires DEF TypeOK, CacheTypeOK, BusReg
  <2>3. QED
    BY <2>1, <2>2 DEF BusEdge
<1>4. mine' \in BOOLEAN
  BY <1>2, CycleWires DEF Cycle, Tick, BusEdge, CacheTypeOK, BusReg
<1>5. answers' \in Seq(Owing)
  <2>1. PICK owed \in Seq(Owing) : owed = Owed(given, stall, junk) /\ (ack => owed # <<>>)
    BY CycleWires
  <2>2. answers' = IF ack THEN Tail(owed) ELSE owed
    BY <2>1 DEF Cycle, Tick, BusEdge
  <2>3. QED
    BY <2>1, <2>2
<1>6. d_data' \in Val
  BY CycleWires, Sizes DEF Cycle, Tick
<1>7. asked' \in Seq(Taken)
  BY AskedNext
<1>8. half_open' \in BOOLEAN
  <2>1. half_open' = IF in.valid THEN in.req.half = "first" ELSE half_open /\ ~done.ls_error
    BY DEF Cycle, Tick, HistoryEdge
  <2>2. QED
    BY <2>1, CycleWires DEF TypeOK
<1>9. program' \in Programs
  BY DEF Cycle, Tick, TypeOK
<1>10. QED
  BY <1>2, <1>3, <1>4, <1>5, <1>6, <1>7, <1>8, <1>9 DEF TypeOK

------------------------------------------------------------------------------
\* The bus: how the answers owed change in a cycle, whatever the machine
\* does, and then what it does with the count in each of its states.

LEMMA CycleBeats ==
    ASSUME TypeOK, BusCounted, PagesKept, NEW given, NEW stall, NEW ack, NEW junk, NEW in, NEW f, NEW plru,
           Cycle(given, stall, ack, junk, in, f, plru),
           NEW wbin, wbin = WbIn(given, stall, ack, junk)
    PROVE  Beat(wbin)
<1>1. /\ wbin.stall = (~given \/ stall) /\ wbin.ack = ack
      /\ given \in BOOLEAN /\ stall \in BOOLEAN /\ ack \in BOOLEAN
  BY CycleWires DEF WbIn
<1>2. Sent(wbin) = Accepted(given, stall)
  BY <1>1 DEF Sent, Accepted, TypeOK, CacheTypeOK, BusReg
<1>3. BusEdge(given, stall, ack, junk, f) /\ AcksEdge(wbin)
  BY DEF Cycle, Tick, Edge
<1>4. PICK owed \in Seq(Owing) : owed = Owed(given, stall, junk) /\ (ack => owed # <<>>)
  <2>1. Owed(given, stall, junk) \in Seq(Owing) /\ (ack => Owed(given, stall, junk) # <<>>)
    BY CycleWires
  <2>2. QED
    BY Zenon, <2>1
<1>5. ack => owed # <<>>
  BY <1>4
<1>6. /\ Len(owed) = Len(answers) + Count(Sent(wbin))
      /\ \A i \in DOMAIN owed : owed[i].page = PageOf[LineOf(wb.adr)]
  <2>1. answers \in Seq(Owing)
    BY DEF TypeOK
  <2>2. \A i \in DOMAIN answers : answers[i].page = PageOf[LineOf(wb.adr)]
    BY DEF PagesKept
  <2>3. CASE Accepted(given, stall)
    <3>1. PICK v : owed = Append(answers, [page |-> PageOf[LineOf(wb.adr)], dat |-> v])
      BY <1>4, <2>3 DEF Owed
    <3>2. QED
      BY <1>2, <2>1, <2>2, <2>3, <3>1 DEF Count
  <2>4. CASE ~Accepted(given, stall)
    BY <1>2, <1>4, <2>1, <2>2, <2>4 DEF Owed, Count
  <2>5. QED
    BY <2>3, <2>4
<1>7. answers' = IF ack THEN Tail(owed) ELSE owed
  BY <1>3, <1>4 DEF BusEdge
<1>8. /\ answers' \in Seq(Owing)
      /\ Len(answers') = Len(owed) - Count(wbin.ack)
      /\ \A i \in DOMAIN answers' : answers'[i].page = PageOf[LineOf(wb.adr)]
  BY <1>1, <1>5, <1>6, <1>7 DEF Count
<1>9. wbin.ack => wb.cyc
  <2>1. ack => answers # <<>> \/ Accepted(given, stall)
    BY DEF Cycle, Answers
  <2>2. QED
    BY <1>1, <2>1 DEF Accepted, BusCounted
<1>10. mine' => wb'.cyc
  BY <1>3 DEF BusEdge
<1>11. Len(answers') = Len(answers) + Count(Sent(wbin)) - Count(wbin.ack)
  <2>1. Len(answers') = Len(owed) - Count(wbin.ack) /\ Len(owed) = Len(answers) + Count(Sent(wbin))
    BY <1>6, <1>8
  <2>2. Len(answers) \in Int /\ Len(owed) \in Int
    BY DEF TypeOK
  <2>3. QED
    BY <2>1, <2>2 DEF Count
<1>12. QED
  BY <1>3, <1>8, <1>9, <1>10, <1>11 DEF Beat, AcksEdge

\* What is owed before and after a cycle, as numbers.
LEMMA Numbers ==
    ASSUME TypeOK, NEW wbin, Beat(wbin)
    PROVE  /\ Len(answers) \in Nat /\ (answers = <<>> <=> Len(answers) = 0)
           /\ Len(answers') \in Nat /\ (answers' = <<>> <=> Len(answers') = 0)
           /\ Len(answers') = Len(answers) + Count(Sent(wbin)) - Count(wbin.ack)
           /\ Len(answers') = Len(answers) + (IF wb.stb /\ ~wbin.stall THEN 1 ELSE 0)
                                           - (IF wbin.ack THEN 1 ELSE 0)
           /\ wb.stb \in BOOLEAN /\ wb.cyc \in BOOLEAN /\ wb.adr \in Adr
           /\ acks.stalled \in BOOLEAN /\ acks.dec \in BOOLEAN /\ acks.pending \in Nat
<1>1. /\ Len(answers) \in Nat /\ (answers = <<>> <=> Len(answers) = 0)
      /\ Len(answers') \in Nat /\ (answers' = <<>> <=> Len(answers') = 0)
      /\ wb.stb \in BOOLEAN /\ wb.cyc \in BOOLEAN /\ wb.adr \in Adr
      /\ acks.stalled \in BOOLEAN /\ acks.dec \in BOOLEAN /\ acks.pending \in Nat
  BY DEF TypeOK, CacheTypeOK, BusReg, AcksReg, Beat
<1>2. Len(answers') = Len(answers) + Count(Sent(wbin)) - Count(wbin.ack)
  BY DEF Beat
<1>3. /\ Count(Sent(wbin)) = IF wb.stb /\ ~wbin.stall THEN 1 ELSE 0
      /\ Count(wbin.ack) = IF wbin.ack THEN 1 ELSE 0
  BY DEF Count, Sent
<1>4. QED
  BY <1>1, <1>2, <1>3

LEMMA AheadSteps ==
    ASSUME TypeOK, NEW n \in Row
    PROVE  /\ Ahead(n) \in Nat /\ (Ahead(n) = 0 <=> n = line.end)
           /\ n # line.end => Ahead(NextRow(n)) = Ahead(n) - 1
<1>1. line.end \in Row
  BY DEF TypeOK, CacheTypeOK, LineReg
<1>2. PICK e \in Nat, m \in Nat : /\ e = line.end /\ m = n /\ e < ROW_PER_LINE /\ m < ROW_PER_LINE
                                /\ ROW_PER_LINE \in Nat
  BY <1>1, Sizes DEF Row
<1>3. Ahead(n) = IF m <= e THEN e - m ELSE e - m + ROW_PER_LINE
  BY <1>2 DEF Ahead
<1>4. NextRow(n) = IF m = ROW_PER_LINE - 1 THEN 0 ELSE m + 1
  BY <1>2, Rows
<1>5. Ahead(NextRow(n)) = IF NextRow(n) <= e THEN e - NextRow(n) ELSE e - NextRow(n) + ROW_PER_LINE
  BY <1>2 DEF Ahead
<1>6. QED
  BY <1>2, <1>3, <1>4, <1>5

\* The counter, with what the last cycle adds to it, is what is owed and the strobe.
LEMMA CountedNow ==
    ASSUME TypeOK, Counted, wb.cyc
    PROVE  AcksNow = Len(answers) + Strobing
<1>1. /\ Len(answers) \in Nat /\ wb.stb \in BOOLEAN /\ acks.stalled \in BOOLEAN
      /\ acks.dec \in BOOLEAN
  BY DEF TypeOK, CacheTypeOK, BusReg, AcksReg
<1> DEFINE total == Len(answers) + Strobing
<1>2. total \in Nat /\ total <= MAX_ACKS
  BY <1>1 DEF Counted, Strobing
<1>3. total % (MAX_ACKS + 1) = total /\ (total + MAX_ACKS + 1) % (MAX_ACKS + 1) = total
  BY <1>2, Wraps
<1>4. \/ AcksNow = total % (MAX_ACKS + 1)
      \/ AcksNow = (total + MAX_ACKS + 1) % (MAX_ACKS + 1)
  <2> DEFINE first == wb.stb /\ ~acks.stalled
             a == IF first /\ ~acks.dec THEN 1 ELSE 0
             b == IF ~first /\ acks.dec THEN MAX_ACKS ELSE 0
  <2>1. AcksNow = (acks.pending + a + b) % (MAX_ACKS + 1)
    BY DEF AcksNow
  <2>2. \/ acks.pending + a + b = total
        \/ acks.pending + a + b = total + MAX_ACKS + 1
    <3>1. PICK owed \in Nat : owed = Len(answers)
      BY <1>1
    <3>2. acks.pending = owed + (IF wb.stb /\ acks.stalled THEN 1 ELSE 0) + (IF acks.dec THEN 1 ELSE 0)
      BY <3>1 DEF Counted
    <3>3. total = owed + (IF wb.stb THEN 1 ELSE 0) /\ MAX_ACKS \in Nat
      BY <3>1, Sizes DEF Strobing
    <3> HIDE DEF total
    <3>4. CASE acks.dec
      BY <1>1, <3>2, <3>3, <3>4
    <3>5. CASE ~acks.dec
      BY <1>1, <3>2, <3>3, <3>5
    <3>6. QED
      BY <3>4, <3>5
  <2> HIDE DEF a, b, total
  <2>3. QED
    BY <2>1, <2>2
<1>5. QED
  BY <1>3, <1>4

LEMMA BusIdle ==
    ASSUME TypeOK, BusCounted, NEW q \in SlowReq, NEW plru, NEW wbin, Beat(wbin),
           Idle(q, FALSE, plru)
    PROVE  BusNext
<1>1. ~wb.cyc /\ ~wb.stb /\ ~wbin.ack /\ answers = <<>>
  BY DEF BusCounted, Idle, Beat
<1>2. answers' = <<>> /\ Len(answers') = 0
  BY <1>1, Numbers DEF Count, Sent
<1>3. acks' = [pending |-> 0, stalled |-> FALSE, dec |-> FALSE]
  BY <1>1 DEF Beat, AcksNow
<1>4. mine' => wb'.cyc
  BY DEF Beat
<1>5. \/ state' = "IDLE" /\ wb' = wb
      \/ state' = "FLUSH_CYCLE" /\ wb' = wb
      \/ state' = "RELOAD_WAIT_ACK" /\ Bus(q, (q.op # "load_miss"), TRUE) /\ Track(q)
      \/ state' = "NC_LOAD_WAIT_ACK" /\ Bus(q, FALSE, TRUE)
      \/ state' = "DO_STCX" /\ Bus(q, TRUE, FALSE)
      \/ state' = "STORE_WAIT_ACK" /\ Bus(q, TRUE, TRUE)
  BY DEF Idle, IdleStay, IdleMiss, IdleNcLoad, IdleStcx, IdleStore, IdleDcbz, IdleFlush, IdleSync
<1>6. BusCounted'
  <2>1. CASE state' = "IDLE" /\ wb' = wb
    BY <1>1, <1>2, <1>4, <2>1 DEF BusCounted
  <2>2. CASE state' = "FLUSH_CYCLE" /\ wb' = wb
    BY <1>1, <1>2, <1>4, <2>2 DEF BusCounted
  <2>3. CASE state' = "RELOAD_WAIT_ACK" /\ Bus(q, (q.op # "load_miss"), TRUE) /\ Track(q)
    <3>1. wb'.cyc /\ wb'.stb /\ wb'.adr.row = q.adr.row /\ line'.row.row = q.adr.row
      BY <2>3 DEF Bus, Track, RowOf
    <3>2. q.adr.row \in Row /\ line'.end \in Row
      BY <2>3, ReqTypes, Rows DEF Track, SlowReq
    <3>3. Ahead(q.adr.row)' \in Int
      BY <3>2, Sizes DEF Ahead, Row
    <3>4. OwedInReload' = (Ahead(q.adr.row)' + 1) - (Ahead(q.adr.row)' + 1)
      BY <3>1 DEF OwedInReload, Ahead
    <3>5. OwedInReload' = 0
      BY <3>3, <3>4
    <3>6. QED
      BY <1>2, <2>3, <3>1, <3>5 DEF BusCounted
  <2>4. CASE state' = "NC_LOAD_WAIT_ACK" /\ Bus(q, FALSE, TRUE)
    BY <1>2, <2>4 DEF BusCounted, Bus, Strobing
  <2>5. CASE state' = "DO_STCX" /\ Bus(q, TRUE, FALSE)
    BY <1>2, <1>3, <2>5 DEF BusCounted, Bus
  <2>6. CASE state' = "STORE_WAIT_ACK" /\ Bus(q, TRUE, TRUE)
    BY <1>2, <1>3, <2>6, Sizes DEF BusCounted, Bus, Strobing, Counted
  <2>7. QED
    BY <1>5, <2>1, <2>2, <2>3, <2>4, <2>5, <2>6
<1>7. QED
  BY <1>2, <1>6 DEF BusNext

\* While a line is refilled, the rows owed are those between the row expected
\* next and the row strobed next.
LEMMA BusReload ==
    ASSUME TypeOK, BusCounted, NEW q, NEW plru, NEW wbin \in BusWire, Beat(wbin),
           Reload(q, FALSE, plru, wbin)
    PROVE  BusNext
<1>1. /\ state = "RELOAD_WAIT_ACK" /\ wb.cyc
      /\ state' = (IF LastAck(wbin) THEN "IDLE" ELSE "RELOAD_WAIT_ACK")
  BY DEF Reload, BusCounted
<1>2. mine' => wb'.cyc
  BY DEF Beat
<1>3. /\ wb'.cyc = ~LastAck(wbin)
      /\ wb'.stb = (wb.stb /\ ~(Sent(wbin) /\ wb.adr.row = line.end))
      /\ LineOf(wb'.adr) = LineOf(wb.adr)
      /\ wb'.adr.row = IF Sent(wbin) THEN NextRow(wb.adr.row) ELSE wb.adr.row
  BY DEF Reload, ReloadBus, Sent, LineOf, TypeOK, CacheTypeOK, BusReg, Adr
<1>4. /\ line'.end = line.end
      /\ line'.row.row = IF wbin.ack THEN NextRow(line.row.row) ELSE line.row.row
  BY DEF Reload, TypeOK, CacheTypeOK, LineReg, RowAdr
<1>5. wb.adr.row \in Row /\ line.row.row \in Row
  BY ReqTypes DEF TypeOK, CacheTypeOK, BusReg, LineReg, RowAdr
<1>6. \A n : Ahead(n)' = Ahead(n)
  BY <1>4 DEF Ahead
<1>7. PICK a, b \in Nat :
        /\ a = Ahead(line.row.row) /\ b = Ahead(wb.adr.row)
        /\ (a = 0 <=> line.row.row = line.end) /\ (b = 0 <=> wb.adr.row = line.end)
        /\ line.row.row # line.end => Ahead(NextRow(line.row.row)) = a - 1
        /\ wb.adr.row # line.end => Ahead(NextRow(wb.adr.row)) = b - 1
  BY <1>5, AheadSteps
<1>8. PICK owed \in Nat, left \in Nat :
        /\ owed = Len(answers) /\ left = Len(answers')
        /\ left = owed + Count(Sent(wbin)) - Count(wbin.ack)
        /\ (answers' = <<>> <=> left = 0)
  BY Numbers
<1>9. owed = (a + 1) - (IF wb.stb THEN b + 1 ELSE 0)
  BY <1>1, <1>7, <1>8 DEF BusCounted, OwedInReload
<1>10. Sent(wbin) => wb.stb
  BY DEF Sent
<1>11. wb.stb \in BOOLEAN /\ wbin.ack \in BOOLEAN
  BY Numbers DEF BusWire
<1>12. CASE LastAck(wbin)
  <2>1. wbin.ack /\ a = 0
    BY <1>7, <1>12 DEF LastAck
  <2>2. left = 0 /\ (wb.stb => Sent(wbin) /\ b = 0)
    BY <1>8, <1>9, <1>10, <1>11, <2>1 DEF Count
  <2>3. answers' = <<>> /\ ~wb'.stb /\ ~wb'.cyc /\ state' = "IDLE"
    BY <1>1, <1>3, <1>7, <1>8, <1>12, <2>2
  <2>4. QED
    BY <1>2, <2>3 DEF BusNext, BusCounted
<1>13. CASE ~LastAck(wbin)
  <2>1. wbin.ack => a # 0
    BY <1>7, <1>13 DEF LastAck
  <2>2. Ahead(line'.row.row) = IF wbin.ack THEN a - 1 ELSE a
    BY <1>4, <1>7, <2>1
  <2>3. wb'.stb => Ahead(wb'.adr.row) = IF Sent(wbin) THEN b - 1 ELSE b
    BY <1>3, <1>7
  <2>4. wb'.stb = (wb.stb /\ ~(Sent(wbin) /\ b = 0))
    BY <1>3, <1>7
  <2>5. left = (Ahead(line'.row.row) + 1) - (IF wb'.stb THEN Ahead(wb'.adr.row) + 1 ELSE 0)
    BY <1>8, <1>9, <1>10, <1>11, <2>2, <2>3, <2>4 DEF Count
  <2>6. left = OwedInReload'
    BY <1>6, <2>5 DEF OwedInReload
  <2>7. BusCounted'
    BY <1>1, <1>2, <1>3, <1>8, <1>13, <2>6 DEF BusCounted
  <2>8. QED
    BY <1>3, <2>7 DEF BusNext, Beat
<1>14. QED
  BY <1>12, <1>13

\* A store follows on the bus only while the counter can count it.
LEMMA BusStore ==
    ASSUME TypeOK, BusCounted, NEW q \in SlowReq, NEW plru, NEW d, NEW wbin \in BusWire,
           Beat(wbin), Store(q, FALSE, d, plru, wbin),
           q.same_page => PageOf[LineOf(q.adr)] = PageOf[LineOf(wb.adr)]
    PROVE  BusNext
<1>1. state = "STORE_WAIT_ACK" /\ wb.cyc /\ Counted
  BY DEF Store, BusCounted
<1>2. mine' => wb'.cyc
  BY DEF Beat
<1>3. PICK owed \in Nat, left \in Nat :
        /\ owed = Len(answers) /\ left = Len(answers')
        /\ left = owed + Count(Sent(wbin)) - Count(wbin.ack)
        /\ left = owed + (IF wb.stb /\ ~wbin.stall THEN 1 ELSE 0) - (IF wbin.ack THEN 1 ELSE 0)
        /\ (answers' = <<>> <=> left = 0)
  BY Numbers
<1>4. AcksNow = owed + Strobing /\ owed + Strobing <= MAX_ACKS /\ MAX_ACKS \in Nat
  BY <1>1, <1>3, CountedNow, Sizes DEF Counted
<1>5. wb.stb \in BOOLEAN /\ wbin.stall \in BOOLEAN /\ wbin.ack \in BOOLEAN
  BY Numbers DEF BusWire
<1>6. acks' = [pending |-> AcksNow, stalled |-> wbin.stall, dec |-> wbin.ack]
  BY <1>1, <1>5 DEF Beat
<1>7. \A i \in DOMAIN answers' : answers'[i].page = PageOf[LineOf(wb.adr)]
  BY DEF Beat
<1>8. CASE Follows(q, wbin)
  <2>1. ~StoresDone(q, wbin)
    BY <1>8 DEF StoresDone, StrobesDone, Follows
  <2>2. state' = "STORE_WAIT_ACK" /\ wb'.cyc /\ wb'.stb /\ wb'.adr = q.adr
    BY <1>1, <1>8, <2>1 DEF Store, Bus
  <2>3. ~wbin.stall /\ q.same_page /\ AcksNow < MAX_ACKS
    BY <1>8 DEF Follows, Joins
  <2>4. left + Count(wbin.ack) = owed + Strobing
    BY <1>3, <1>5, <2>3 DEF Sent, Count, Strobing
  <2>5. Counted'
    <3>1. Strobing' = 1
      BY <2>2 DEF Strobing
    <3>2. /\ acks'.pending = left + Count(wbin.ack) /\ ~acks'.stalled /\ acks'.dec = wbin.ack
          /\ left + 1 <= MAX_ACKS
      BY <1>3, <1>4, <1>5, <1>6, <2>3, <2>4 DEF Count
    <3>3. QED
      <4>1. PICK n \in Nat, k \in Nat :
              /\ n = (IF wb'.stb /\ acks'.stalled THEN 1 ELSE 0) /\ n = 0
              /\ k = (IF acks'.dec THEN 1 ELSE 0) /\ k = Count(wbin.ack)
        BY <3>2 DEF Count
      <4>2. acks'.pending = left + n + k
        BY <3>2, <4>1
      <4>3. left + Strobing' <= MAX_ACKS
        BY Zenon, <3>1, <3>2
      <4>4. /\ acks'.pending = left + (IF wb'.stb /\ acks'.stalled THEN 1 ELSE 0)
                                   + (IF acks'.dec THEN 1 ELSE 0)
            /\ left + Strobing' <= MAX_ACKS
        BY Zenon, <4>1, <4>2, <4>3
      <4>5. QED
        BY <1>3, <4>4 DEF Counted
  <2>6. QED
    BY <1>2, <1>7, <2>2, <2>3, <2>5 DEF BusNext, BusCounted
<1>9. CASE ~Follows(q, wbin)
  <2>1. wb' = [wb EXCEPT !.cyc = ~StoresDone(q, wbin),
                         !.stb = @ /\ wbin.stall /\ ~StoresDone(q, wbin)]
    BY <1>9 DEF Store
  <2>2. /\ wb'.cyc = ~StoresDone(q, wbin) /\ wb'.adr = wb.adr
        /\ wb'.stb = (wb.stb /\ wbin.stall /\ ~StoresDone(q, wbin))
    BY <2>1 DEF TypeOK, CacheTypeOK, BusReg
  <2>3. CASE StoresDone(q, wbin)
    <3>1. state' = "IDLE"
      BY <2>3 DEF Store
    <3>2. wbin.stall => ~wb.stb
      BY <2>3 DEF StoresDone, StrobesDone
    <3>3. Count(Sent(wbin)) = Strobing
      BY <1>5, <3>2 DEF Count, Sent, Strobing
    <3>4. owed + Strobing = 0 \/ (wbin.ack /\ owed + Strobing = 1)
      BY <1>4, <2>3 DEF StoresDone
    <3>5. left = 0
      BY <1>3, <1>5, <3>3, <3>4 DEF Count, Strobing
    <3>6. ~wb'.cyc /\ ~wb'.stb /\ answers' = <<>>
      BY <1>3, <2>2, <2>3, <3>5
    <3>7. QED
      BY <1>2, <3>1, <3>6 DEF BusNext, BusCounted
  <2>4. CASE ~StoresDone(q, wbin)
    <3>1. state' = "STORE_WAIT_ACK"
      BY <1>1, <2>4 DEF Store
    <3>2. Strobing' = IF wb.stb /\ wbin.stall THEN 1 ELSE 0
      BY <2>2, <2>4 DEF Strobing
    <3>3. left + Count(wbin.ack) + Strobing' = owed + Strobing
      <4>1. Strobing = (IF wb.stb THEN 1 ELSE 0) /\ Count(wbin.ack) = (IF wbin.ack THEN 1 ELSE 0)
        BY DEF Strobing, Count
      <4>2. QED
        BY <1>3, <1>5, <3>2, <4>1
    <3>4. Counted'
      <4>1. acks'.stalled = wbin.stall /\ acks'.dec = wbin.ack /\ acks'.pending = owed + Strobing
        BY <1>4, <1>6
      <4>2. PICK k \in Nat, n \in Nat : k = Count(wbin.ack) /\ n = Strobing'
        BY <3>2 DEF Count
      <4>3. acks'.pending = left + k + n /\ left + n <= MAX_ACKS
        BY <1>3, <1>4, <3>3, <4>1, <4>2
      <4>4. n = IF wb'.stb /\ acks'.stalled THEN 1 ELSE 0
        BY <1>5, <2>2, <2>4, <3>2, <4>1, <4>2
      <4>5. k = IF acks'.dec THEN 1 ELSE 0
        BY <1>5, <4>1, <4>2 DEF Count
      <4>6. /\ acks'.pending = left + (IF wb'.stb /\ acks'.stalled THEN 1 ELSE 0)
                                   + (IF acks'.dec THEN 1 ELSE 0)
            /\ left + Strobing' <= MAX_ACKS
        <5>1. acks'.pending = left + n + k
          BY <4>2, <4>3
        <5>2. left + Strobing' <= MAX_ACKS
          BY Zenon, <4>2, <4>3
        <5>3. QED
          BY Zenon, <4>4, <4>5, <5>1, <5>2
      <4>7. QED
        BY <1>3, <4>6 DEF Counted
    <3>5. QED
      BY <1>2, <1>7, <2>2, <2>4, <3>1, <3>4 DEF BusNext, BusCounted
  <2>5. QED
    BY <2>3, <2>4
<1>10. QED
  BY <1>8, <1>9

LEMMA BusNcLoad ==
    ASSUME TypeOK, BusCounted, NEW plru, NEW wbin \in BusWire, Beat(wbin),
           NcLoad(FALSE, plru, wbin)
    PROVE  BusNext
<1>1. /\ state = "NC_LOAD_WAIT_ACK" /\ wb.cyc /\ Len(answers) + Strobing = 1
      /\ state' = (IF wbin.ack THEN "IDLE" ELSE state)
  BY DEF NcLoad, BusCounted
<1>2. /\ wb'.cyc = ~wbin.ack /\ wb'.stb = (wb.stb /\ wbin.stall /\ ~wbin.ack)
      /\ wb'.adr = wb.adr
  BY DEF NcLoad, TypeOK, CacheTypeOK, BusReg
<1>3. PICK owed \in Nat, left \in Nat :
        /\ owed = Len(answers) /\ left = Len(answers')
        /\ left = owed + Count(Sent(wbin)) - Count(wbin.ack)
        /\ left = owed + (IF wb.stb /\ ~wbin.stall THEN 1 ELSE 0) - (IF wbin.ack THEN 1 ELSE 0)
        /\ (answers' = <<>> <=> left = 0)
  BY Numbers
<1>4. wb.stb \in BOOLEAN /\ wbin.stall \in BOOLEAN /\ wbin.ack \in BOOLEAN
  BY Numbers DEF BusWire
<1>5. IF wbin.ack THEN left = 0 ELSE left + Strobing' = 1
  <2>1. owed + (IF wb.stb THEN 1 ELSE 0) = 1
    BY <1>1, <1>3 DEF Strobing
  <2>2. Strobing' = IF wb.stb /\ wbin.stall /\ ~wbin.ack THEN 1 ELSE 0
    BY <1>2 DEF Strobing
  <2>3. QED
    BY <1>3, <1>4, <2>1, <2>2
<1>6. BusCounted'
  BY <1>1, <1>2, <1>3, <1>4, <1>5 DEF BusCounted, Beat
<1>7. QED
  BY <1>2, <1>6 DEF BusNext, Beat

LEMMA BusStcx ==
    ASSUME TypeOK, BusCounted, NEW plru, NEW wbin \in BusWire, Beat(wbin),
           DoStcx(FALSE, plru, wbin)
    PROVE  BusNext
<1>1. /\ state = "DO_STCX" /\ wb.cyc /\ ~wb.stb /\ acks.pending = 0 /\ ~acks.dec /\ answers = <<>>
  BY DEF DoStcx, BusCounted
<1>2. answers' = <<>> /\ Len(answers') = 0 /\ ~wbin.ack
  BY <1>1, Numbers DEF Sent, Count, BusWire
<1>3. AcksNow = 0
  <2>1. 0 % (MAX_ACKS + 1) = 0
    BY Sizes, Wraps
  <2>2. QED
    BY <1>1, <2>1, Sizes DEF AcksNow
<1>4. acks' = [pending |-> 0, stalled |-> wbin.stall, dec |-> FALSE]
  BY <1>1, <1>2, <1>3 DEF Beat, BusWire
<1>5. mine' => wb'.cyc
  BY DEF Beat
<1>6. \/ state' = "IDLE" /\ ~wb'.cyc /\ ~wb'.stb
      \/ ~wbin.stall /\ state' = "STORE_WAIT_ACK" /\ wb'.cyc /\ wb'.stb
      \/ state' = "DO_STCX" /\ wb' = wb
  BY <1>1 DEF DoStcx, TypeOK, CacheTypeOK, BusReg
<1>7. BusCounted'
  BY <1>1, <1>2, <1>4, <1>5, <1>6, Sizes DEF BusCounted, Counted, Strobing
<1>8. QED
  BY <1>2, <1>7 DEF BusNext

LEMMA BusFlush ==
    ASSUME TypeOK, BusCounted, NEW plru, NEW wbin, Beat(wbin), Flush(FALSE, plru)
    PROVE  BusNext
<1>1. state' = "IDLE" /\ wb' = wb /\ ~wb.cyc /\ ~wb.stb /\ ~wbin.ack /\ answers = <<>>
  BY DEF BusCounted, Flush, Beat
<1>2. answers' = <<>>
  BY <1>1, Numbers DEF Count, Sent
<1>3. QED
  BY <1>1, <1>2 DEF BusNext, BusCounted, Beat

\* What a cycle is for the machine: its bus, the request it looks at and the
\* one it keeps.
LEMMA MachineCycle ==
    ASSUME TypeOK, BusCounted, PagesKept, NEW given, NEW stall, NEW ack, NEW junk, NEW in, NEW f, NEW plru,
           Cycle(given, stall, ack, junk, in, f, plru)
    PROVE  \E wbin \in BusWire, q \in SlowReq :
             /\ wbin = WbIn(given, stall, ack, junk) /\ Beat(wbin)
             /\ q = Pending(FALSE, d_data)
             /\ RequestEdge(FALSE, d_data, plru) /\ Stage0Edge(in, d_data, FALSE)
             /\ Works(q, d_data, plru, wbin)
<1>1. WbIn(given, stall, ack, junk) \in BusWire
  BY CycleWires DEF Wired
<1>2. Beat(WbIn(given, stall, ack, junk))
  BY CycleBeats
<1>3. Pending(FALSE, d_data) \in SlowReq
  BY PendingType DEF TypeOK
<1>4. /\ RequestEdge(FALSE, d_data, plru) /\ Stage0Edge(in, d_data, FALSE)
      /\ Works(Pending(FALSE, d_data), d_data, plru, WbIn(given, stall, ack, junk))
  <2>1. Edge(in, d_data, FALSE, WbIn(given, stall, ack, junk), Snooped(f), plru)
    BY DEF Cycle, Tick
  <2>2. QED
    BY <2>1 DEF Edge, Machine, Works
<1>5. QED
  BY <1>1, <1>2, <1>3, <1>4

\* The request the machine keeps: while it is full, the one it has.
LEMMA Kept ==
    ASSUME TypeOK, NEW d, NEW plru, RequestEdge(FALSE, d, plru)
    PROVE  /\ state # "IDLE" => r1_req' = IF ~full /\ Go(FALSE) THEN Decoded(FALSE, d) ELSE r1_req
           /\ full => Pending(FALSE, d) = r1_req
           /\ ~full => Pending(FALSE, d) = Decoded(FALSE, d)
           /\ SlowOp(FALSE) => Go(FALSE)
           /\ Go(FALSE) => ~full
BY DEF RequestEdge, Pending, SlowOp, Op, Go, Stall0

LEMMA BusStep ==
    ASSUME TypeOK, BusCounted, PagesKept, NEW given, NEW stall, NEW ack, NEW junk, NEW in, NEW f, NEW plru,
           Cycle(given, stall, ack, junk, in, f, plru)
    PROVE  BusCounted' /\ PagesKept'
<1>1. PICK wbin \in BusWire, q \in SlowReq :
        /\ wbin = WbIn(given, stall, ack, junk) /\ Beat(wbin)
        /\ q = Pending(FALSE, d_data)
        /\ RequestEdge(FALSE, d_data, plru) /\ Stage0Edge(in, d_data, FALSE)
        /\ Works(q, d_data, plru, wbin)
  BY MachineCycle
<1>2. /\ full => q = r1_req
      /\ ~full => q = Decoded(FALSE, d_data)
      /\ SlowOp(FALSE) => Go(FALSE) /\ ~full
      /\ state # "IDLE" => r1_req' = IF ~full /\ Go(FALSE) THEN Decoded(FALSE, d_data) ELSE r1_req
  BY <1>1, Kept
<1>3. Decoded(FALSE, d_data).same_page
        = (PageOf[LineOf(Decoded(FALSE, d_data).adr)] = PageOf[LineOf(wb.adr)])
  BY DEF Decoded
<1>4. CASE Store(q, FALSE, d_data, plru, wbin)
  <2>1. state = "STORE_WAIT_ACK"
    BY <1>4 DEF Store
  <2>2. q.same_page => PageOf[LineOf(q.adr)] = PageOf[LineOf(wb.adr)]
    BY <1>2, <1>3, <2>1 DEF PagesKept, TypeOK, CacheTypeOK
  <2>3. BusNext
    BY <1>1, <1>4, <2>2, BusStore
  <2>4. state' = "STORE_WAIT_ACK" /\ full' =>
          (r1_req'.same_page <=> PageOf[LineOf(r1_req'.adr)] = PageOf[LineOf(wb'.adr)])
    <3>1. SUFFICES ASSUME full' 
                   PROVE  r1_req'.same_page <=> PageOf[LineOf(r1_req'.adr)] = PageOf[LineOf(wb'.adr)]
      OBVIOUS
    <3>2. ~Follows(q, wbin) /\ full' = FullNext(FALSE)
      BY <1>4, <3>1 DEF Store
    <3>3. wb'.adr = wb.adr
      BY <1>4, <3>2 DEF Store, TypeOK, CacheTypeOK, BusReg
    <3>4. full \/ (~full /\ Go(FALSE))
      BY <1>2, <3>1, <3>2 DEF FullNext
    <3>5. QED
      BY <1>2, <1>3, <2>1, <3>3, <3>4 DEF PagesKept
  <2>5. QED
    BY <2>3, <2>4 DEF BusNext, PagesKept
<1>5. ASSUME ~Store(q, FALSE, d_data, plru, wbin)
      PROVE  BusNext /\ (state' = "STORE_WAIT_ACK" => ~full')
  <2>1. CASE Idle(q, FALSE, plru)
    <3>1. state' = "STORE_WAIT_ACK" => ~full'
      BY <2>1 DEF Idle, IdleStay, IdleMiss, IdleNcLoad, IdleStcx, IdleStore, IdleDcbz,
                  IdleFlush, IdleSync
    <3>2. QED
      BY <1>1, <2>1, <3>1, BusIdle
  <2>2. CASE Reload(q, FALSE, plru, wbin)
    BY <1>1, <2>2, BusReload DEF Reload
  <2>3. CASE NcLoad(FALSE, plru, wbin)
    BY <1>1, <2>3, BusNcLoad DEF NcLoad
  <2>4. CASE DoStcx(FALSE, plru, wbin)
    <3>1. state' = "STORE_WAIT_ACK" => ~full'
      BY <2>4 DEF DoStcx
    <3>2. QED
      BY <1>1, <2>4, <3>1, BusStcx
  <2>5. CASE Flush(FALSE, plru)
    BY <1>1, <2>5, BusFlush DEF Flush
  <2>6. QED
    BY <1>1, <1>5, <2>1, <2>2, <2>3, <2>4, <2>5 DEF Works
<1>6. QED
  BY <1>4, <1>5 DEF BusNext, PagesKept

------------------------------------------------------------------------------
\* The queue of requests.

LEMMA Queue ==
    ASSUME TypeOK, InOrder
    PROVE  /\ Remaining \in Seq(Taken)
           /\ Completing => asked # <<>>
           /\ Len(Remaining) = Count(full) + Count(Waiting)
           /\ full => Serves(r1_req, Remaining[1].req)
           /\ Waiting => Remaining[Len(Remaining)].req = r0.req
           /\ Go(FALSE) = (Waiting /\ ~full)
<1>1. /\ asked \in Seq(Taken) /\ Completing \in BOOLEAN /\ full \in BOOLEAN /\ r0.full \in BOOLEAN
      /\ done.ls_error \in BOOLEAN
  BY DEF TypeOK, CacheTypeOK, DoneReg, Completing
<1>2. Len(asked) = Count(Completing) + Count(full) + Count(r0.full)
  BY DEF InOrder
<1>3. /\ full => Serves(r1_req, asked[Count(Completing) + 1].req)
      /\ r0.full => asked[Len(asked)].req = r0.req
      /\ done.ls_error => ~full
  BY DEF InOrder
<1>4. done.ls_error => Completing
  BY DEF Completing
<1>5. Go(FALSE) = (Waiting /\ ~full)
  BY <1>1, <1>3 DEF Go, Stall0, Waiting, Dropped
<1>6. PICK c, m, n \in Nat : /\ c = Count(Completing) /\ m = Count(full) /\ n = Count(r0.full)
                             /\ c = (IF Completing THEN 1 ELSE 0)
                             /\ m = (IF full THEN 1 ELSE 0) /\ n = (IF r0.full THEN 1 ELSE 0)
  BY DEF Count
<1>7. /\ Len(asked) = c + m + n
      /\ full => Serves(r1_req, asked[c + 1].req)
  BY <1>2, <1>3, <1>6
<1>8. Completing => asked # <<>>
  BY <1>1, <1>6, <1>7
<1> DEFINE left == IF Dropped THEN 0 ELSE n
<1>9. left = Count(Waiting)
  BY <1>1, <1>6 DEF Count, Waiting
<1>10. /\ Remaining \in Seq(Taken) /\ Len(Remaining) = m + left
       /\ full => Remaining[1] = asked[c + 1]
       /\ Waiting => Remaining[Len(Remaining)] = asked[Len(asked)]
  <2>1. CASE ~Completing
    <3>1. Remaining = asked /\ ~Dropped
      BY <1>4, <2>1 DEF Remaining, Dropped
    <3>2. QED
      BY <1>1, <1>6, <1>7, <2>1, <3>1
  <2>2. CASE Completing /\ Dropped
    <3>1. Remaining = <<>> /\ ~full /\ ~Waiting
      BY <1>3, <2>2 DEF Remaining, Dropped, Waiting
    <3>2. Remaining \in Seq(Taken) /\ Len(Remaining) = 0
      BY <3>1
    <3>3. QED
      BY <1>6, <2>2, <3>1, <3>2
  <2>3. CASE Completing /\ ~Dropped
    <3>1. Remaining = Tail(asked) /\ (Waiting => r0.full)
      BY <2>3 DEF Remaining, Waiting
    <3>2. /\ Tail(asked) \in Seq(Taken) /\ Len(Tail(asked)) = m + n
          /\ full => Tail(asked)[1] = asked[c + 1]
          /\ r0.full => Tail(asked)[Len(Tail(asked))] = asked[Len(asked)]
      BY <1>1, <1>6, <1>7, <1>8, <2>3
    <3>3. QED
      BY <2>3, <3>1, <3>2
  <2>4. QED
    BY <2>1, <2>2, <2>3
<1>11. Waiting => Remaining[Len(Remaining)].req = r0.req
  BY <1>3, <1>10 DEF Waiting
<1>12. full => Serves(r1_req, Remaining[1].req)
  BY <1>7, <1>10
<1>13. Len(Remaining) = Count(full) + Count(Waiting)
  BY <1>6, <1>9, <1>10
<1>14. QED
  BY <1>5, <1>8, <1>10, <1>11, <1>12, <1>13

\* What stage 0 decides about the request in it.
LEMMA Decides ==
    ASSUME TypeOK, NEW d
    PROVE  /\ ~Go(FALSE) => Op(FALSE) = "none" /\ ~SlowOp(FALSE)
           /\ Go(FALSE) => \/ SlowOp(FALSE)
                           \/ Op(FALSE) \in {"nop", "bad", "load_hit"} /\ ~SlowOp(FALSE)
           /\ SlowOp(FALSE) => Serves(Decoded(FALSE, d), r0.req)
           /\ Op(FALSE) = "nop" => ~r0.req.mmu
           /\ Op(FALSE) = "bad" => ~r0.req.ok \/ r0.req.nc
           /\ Op(FALSE) \in {"nop", "bad", "load_hit"} => r0.req.op # "sync"
<1>1. ~Go(FALSE) => Op(FALSE) = "none" /\ ~SlowOp(FALSE)
  BY DEF Op, SlowOp
<1>2. AccessOp(FALSE) \in {"nop", "bad", "load_hit", "load_miss", "store", "flush"}
  BY DEF AccessOp
<1>3. Go(FALSE) => \/ SlowOp(FALSE)
                   \/ Op(FALSE) \in {"nop", "bad", "load_hit"} /\ ~SlowOp(FALSE)
  BY <1>2 DEF Op, SlowOp
<1>4. r0.req \in Req /\ (r0.req.mmu => r0.req.op = "load")
  BY ReqTypes, RequestsAssumption DEF TypeOK, CacheTypeOK, Reqs, NoReq
<1>5. r0.req.op \in {"load", "store", "dcbz", "touch", "flush", "sync"}
  BY <1>4 DEF Req
<1>6. Op(FALSE) = "nop" => ~r0.req.mmu
  BY <1>4 DEF Op, AccessOp
<1>7. Op(FALSE) = "bad" => ~r0.req.ok \/ r0.req.nc
  BY DEF Op, AccessOp
<1>8. Op(FALSE) \in {"nop", "bad", "load_hit"} => r0.req.op # "sync"
  BY DEF Op
<1>9. /\ Op(FALSE) = "load_miss" => r0.req.op \in {"load", "touch"}
      /\ Op(FALSE) = "store" => r0.req.op \in {"store", "dcbz"}
      /\ Op(FALSE) = "flush" => r0.req.op = "flush"
      /\ Op(FALSE) = "sync" => r0.req.op = "sync"
  BY <1>2, <1>5 DEF Op, AccessOp
<1>10. SlowOp(FALSE) => Serves(Decoded(FALSE, d), r0.req)
  BY <1>9 DEF SlowOp, Serves, Decoded
<1>11. QED
  BY <1>1, <1>3, <1>6, <1>7, <1>8, <1>10

LEMMA Units ==
    ASSUME NEW req \in Requests
    PROVE  /\ req.mmu \in BOOLEAN /\ (req.mmu => req.op = "load")
           /\ req.reserve => req.op \in {"load", "store"}
<1>1. req \in Req
  BY RequestsAssumption
<1>2. QED
  BY <1>1, RequestsAssumption DEF Req

LEMMA IdleOutcome ==
    ASSUME TypeOK, NEW q \in SlowReq, NEW plru, Idle(q, FALSE, plru),
           full \/ SlowOp(FALSE) \/ q.op \notin {"load_miss", "store", "flush", "sync"}
    PROVE  Outcome(q)
<1>1. full \in BOOLEAN /\ state = "IDLE"
  BY DEF TypeOK, CacheTypeOK, Idle
<1>2. CASE IdleStay(q, FALSE)
  <2>1. Ends("none")
    BY <1>1, <1>2 DEF IdleStay, Ends
  <2>2. \A req : Answered("none", req)
    BY DEF Answered
  <2>3. QED
    BY <2>1, <2>2 DEF Outcome
<1>3. CASE IdleMiss(q, FALSE)
  <2>1. Ends(IF q.touch THEN "ls" ELSE "none")
    BY <1>1, <1>3 DEF IdleMiss, Ends, SlowReq
  <2>2. ASSUME NEW req \in Requests, Serves(q, req)
        PROVE  Answered(IF q.touch THEN "ls" ELSE "none", req)
    BY <1>3, <2>2, Units DEF IdleMiss, Serves, Answered
  <2>3. QED
    BY <2>1, <2>2 DEF Outcome
<1>4. CASE IdleNcLoad(q, FALSE) \/ IdleDcbz(q, FALSE) \/ IdleFlush(q, FALSE)
  <2>1. Ends("none")
    BY <1>1, <1>4 DEF IdleNcLoad, IdleDcbz, IdleFlush, Ends
  <2>2. \A req : Answered("none", req)
    BY DEF Answered
  <2>3. QED
    BY <2>1, <2>2 DEF Outcome
<1>5. CASE IdleStcx(q, FALSE)
  <2>1. PICK how \in {"none", "fail"} : Ends(how)
    BY <1>1, <1>5 DEF IdleStcx, Ends
  <2>2. ASSUME NEW req \in Requests, Serves(q, req)
        PROVE  Answered(how, req)
    BY <1>5, <2>2, Units DEF IdleStcx, Serves, Answered
  <2>3. QED
    BY <2>1, <2>2 DEF Outcome
<1>6. CASE IdleStore(q, FALSE)
  <2>1. Ends(IF q.mmu THEN "mmu" ELSE "ls")
    BY <1>1, <1>6 DEF IdleStore, Ends
  <2>2. ASSUME NEW req \in Requests, Serves(q, req)
        PROVE  Answered(IF q.mmu THEN "mmu" ELSE "ls", req)
    BY <1>6, <2>2, Units DEF IdleStore, Serves, Answered
  <2>3. QED
    BY <2>1, <2>2 DEF Outcome
<1>7. CASE IdleSync(q, FALSE)
  <2>1. Ends("ls")
    BY <1>1, <1>7 DEF IdleSync, Ends
  <2>2. ASSUME NEW req \in Requests, Serves(q, req)
        PROVE  Answered("ls", req)
    BY <1>1, <1>7, <2>2, Units DEF IdleSync, Serves, Answered
  <2>3. QED
    BY <2>1, <2>2 DEF Outcome
<1>8. QED
  BY <1>2, <1>3, <1>4, <1>5, <1>6, <1>7 DEF Idle

\* The request the machine looks at is the one it is full of, or is one of
\* stage 0 that is for the machine, or is none for it.
LEMMA Looked ==
    ASSUME TypeOK, AtWork, RequesterKept, NEW d, NEW q \in SlowReq, q = Pending(FALSE, d)
    PROVE  /\ full => q = r1_req
           /\ ~full => q = Decoded(FALSE, d)
           /\ full \/ SlowOp(FALSE) \/ q.op \notin {"load_miss", "store", "flush", "sync"}
           /\ q.reload => full \/ SlowOp(FALSE)
           /\ state = "RELOAD_WAIT_ACK" /\ q.reload => q.op = "load_miss" \/ q.dcbz
           /\ full => q.mmu = mmu_req
           /\ "mmu" \in Avoids /\ state = "RELOAD_WAIT_ACK" /\ (full \/ SlowOp(FALSE))
                => q.mmu = mmu_req
<1>1. CASE full
  BY <1>1 DEF Pending, AtWork, RequesterKept
<1>2. CASE ~full
  <2>1. q = Decoded(FALSE, d)
    BY <1>2 DEF Pending
  <2>2. /\ Decoded(FALSE, d).op = Op(FALSE) /\ Decoded(FALSE, d).mmu = r0.req.mmu
        /\ Decoded(FALSE, d).reload => Op(FALSE) = "load_miss"
    BY DEF Decoded
  <2>3. q.op = Op(FALSE) /\ q.mmu = r0.req.mmu /\ (q.reload => Op(FALSE) = "load_miss")
    BY Zenon, <2>1, <2>2
  <2>4. SlowOp(FALSE) => r0.full
    BY DEF SlowOp, Op, Go
  <2>5. QED
    BY <1>2, <2>1, <2>2, <2>3, <2>4 DEF SlowOp, RequesterKept
<1>3. full \in BOOLEAN
  BY DEF TypeOK, CacheTypeOK
<1>4. QED
  BY <1>1, <1>2, <1>3

LEMMA WorkOutcome ==
    ASSUME TypeOK, AtWork, RequesterKept, NEW d, NEW q \in SlowReq, q = Pending(FALSE, d),
           NEW plru, NEW wbin \in BusWire, Works(q, d, plru, wbin)
    PROVE  Outcome(q)
<1>1. full \in BOOLEAN /\ wbin.ack \in BOOLEAN /\ mmu_req \in BOOLEAN
  BY DEF TypeOK, CacheTypeOK, BusWire
<1>2. /\ full => q = r1_req
      /\ full \/ SlowOp(FALSE) \/ q.op \notin {"load_miss", "store", "flush", "sync"}
      /\ q.reload => full \/ SlowOp(FALSE)
      /\ state = "RELOAD_WAIT_ACK" /\ q.reload => q.op = "load_miss" \/ q.dcbz
      /\ full => q.mmu = mmu_req
      /\ "mmu" \in Avoids /\ state = "RELOAD_WAIT_ACK" /\ (full \/ SlowOp(FALSE))
           => q.mmu = mmu_req
  BY Looked
<1>3. ToRequester = (IF mmu_req THEN "mmu" ELSE "ls")
  BY DEF ToRequester
<1>4. \A req : Answered("none", req)
  BY DEF Answered
<1>5. CASE Idle(q, FALSE, plru)
  BY <1>2, <1>5, IdleOutcome
<1>6. CASE Reload(q, FALSE, plru, wbin)
  <2>1. CASE Arrives(q, wbin)
    <3>1. q.reload /\ (q.op = "load_miss" \/ q.dcbz) /\ state = "RELOAD_WAIT_ACK"
      BY <1>2, <1>6, <2>1 DEF Arrives, Reload
    <3>2. Ends(ToRequester)
      BY <1>1, <1>2, <1>3, <1>6, <2>1, <3>1 DEF Reload, Ends, FullNext
    <3>3. ASSUME NEW req \in Requests, Serves(q, req)
          PROVE  Answered(ToRequester, req)
      <4>1. req.op # "sync"
        BY <3>1, <3>3 DEF Serves
      <4>2. "mmu" \in Avoids => req.mmu = mmu_req
        BY <1>2, <3>1, <3>3 DEF Serves
      <4>3. QED
        BY <1>1, <1>3, <4>1, <4>2 DEF Answered
    <3>4. QED
      BY <3>2, <3>3 DEF Outcome
  <2>2. CASE ~Arrives(q, wbin)
    <3>1. Ends("none")
      BY <1>1, <1>6, <2>2 DEF Reload, Ends, FullNext
    <3>2. QED
      BY <1>4, <3>1 DEF Outcome
  <2>3. QED
    BY <2>1, <2>2
<1>7. CASE Store(q, FALSE, d, plru, wbin)
  <2>1. CASE Follows(q, wbin)
    <3>1. q.op = "store"
      BY <2>1 DEF Follows, Joins
    <3>2. Ends("ls")
      BY <1>1, <1>2, <1>7, <2>1, <3>1 DEF Store, Ends
    <3>3. ASSUME NEW req \in Requests, Serves(q, req)
          PROVE  Answered("ls", req)
      BY <3>1, <3>3, Units DEF Serves, Answered
    <3>4. QED
      BY <3>2, <3>3 DEF Outcome
  <2>2. CASE ~Follows(q, wbin)
    <3>1. Ends("none")
      BY <1>1, <1>7, <2>2 DEF Store, Ends, FullNext
    <3>2. QED
      BY <1>4, <3>1 DEF Outcome
  <2>3. QED
    BY <2>1, <2>2
<1>8. CASE NcLoad(FALSE, plru, wbin)
  <2>1. full /\ q.op = "load_miss"
    BY <1>2, <1>8 DEF NcLoad, AtWork
  <2>2. CASE wbin.ack
    <3>1. Ends(ToRequester)
      BY <1>1, <1>3, <1>8, <2>1, <2>2 DEF NcLoad, Ends, FullNext
    <3>2. ASSUME NEW req \in Requests, Serves(q, req)
          PROVE  Answered(ToRequester, req)
      BY <1>1, <1>2, <1>3, <2>1, <3>2 DEF Serves, Answered
    <3>3. QED
      BY <3>1, <3>2 DEF Outcome
  <2>3. CASE ~wbin.ack
    <3>1. Ends("none")
      BY <1>1, <1>8, <2>3 DEF NcLoad, Ends, FullNext
    <3>2. QED
      BY <1>4, <3>1 DEF Outcome
  <2>4. QED
    BY <2>2, <2>3
<1>9. CASE DoStcx(FALSE, plru, wbin)
  <2>1. full /\ q.op = "store" /\ q.reserve
    BY <1>2, <1>9 DEF DoStcx, AtWork
  <2>2. PICK how \in {"none", "ls", "fail"} : Ends(how)
    BY <1>1, <1>9, <2>1 DEF DoStcx, Ends, FullNext
  <2>3. ASSUME NEW req \in Requests, Serves(q, req)
        PROVE  Answered(how, req)
    BY <2>1, <2>3, Units DEF Serves, Answered
  <2>4. QED
    BY <2>2, <2>3 DEF Outcome
<1>10. CASE Flush(FALSE, plru)
  <2>1. full /\ q.op = "flush"
    BY <1>2, <1>10 DEF Flush, AtWork
  <2>2. Ends("ls")
    BY <1>1, <1>10, <2>1 DEF Flush, Ends
  <2>3. ASSUME NEW req \in Requests, Serves(q, req)
        PROVE  Answered("ls", req)
    BY <2>1, <2>3, Units DEF Serves, Answered
  <2>4. QED
    BY <2>2, <2>3 DEF Outcome
<1>11. QED
  BY <1>5, <1>6, <1>7, <1>8, <1>9, <1>10 DEF Works

\* The completion wires after the edge.
LEMMA DoneWires ==
    ASSUME TypeOK, NEW how, Ends(how)
    PROVE  /\ done'.ls_error = (Op(FALSE) = "bad" /\ ~r0.req.mmu)
           /\ done'.mmu_error = (Op(FALSE) = "bad" /\ r0.req.mmu)
           /\ done'.ls_valid = \/ Op(FALSE) \in {"load_hit", "nop"} /\ ~r0.req.mmu
                               \/ how \in {"ls", "fail"}
           /\ done'.mmu_done = ((Op(FALSE) = "load_hit" /\ r0.req.mmu) \/ how = "mmu")
           /\ done'.hit_load_valid = (Op(FALSE) = "load_hit")
           /\ done'.slow_valid = (how \in {"ls", "mmu"})
           /\ done'.stcx_fail = (how = "fail")
           /\ Completing' = (how # "none" \/ Op(FALSE) \in {"load_hit", "nop", "bad"})
<1>1. /\ done'.ls_error = (Op(FALSE) = "bad" /\ ~r0.req.mmu)
      /\ done'.mmu_error = (Op(FALSE) = "bad" /\ r0.req.mmu)
      /\ done'.ls_valid = (\/ Op(FALSE) \in {"load_hit", "nop"} /\ ~r0.req.mmu
                           \/ how \in {"ls", "fail"})
      /\ done'.mmu_done = ((Op(FALSE) = "load_hit" /\ r0.req.mmu) \/ how = "mmu")
      /\ done'.hit_load_valid = (Op(FALSE) = "load_hit")
      /\ done'.slow_valid = (how \in {"ls", "mmu"})
      /\ done'.stcx_fail = (how = "fail")
  BY DEF Ends, Completes
<1>2. Op(FALSE) = "nop" => ~r0.req.mmu
  BY Decides
<1>3. Completing' = (how # "none" \/ Op(FALSE) \in {"load_hit", "nop", "bad"})
  <2>1. how \in {"none", "ls", "mmu", "fail"} /\ r0.req.mmu \in BOOLEAN
    BY ReqTypes DEF Ends, TypeOK, CacheTypeOK, Reqs, Req
  <2>2. QED
    BY <1>1, <1>2, <2>1 DEF Completing
<1>4. QED
  BY <1>1, <1>3

\* What a cycle does to the request in stage 0, the one of the machine, and
\* mmu_req.
LEMMA StageMoves ==
    ASSUME TypeOK, NEW given, NEW stall, NEW ack, NEW junk, NEW in, NEW f, NEW plru,
           Cycle(given, stall, ack, junk, in, f, plru)
    PROVE  /\ full => /\ ~in.valid /\ r0'.full = r0.full /\ r0'.req = r0.req
                      /\ mmu_req' = mmu_req
           /\ ~full => /\ r0'.full = in.valid /\ (in.valid => r0'.req = in.req)
                       /\ mmu_req' = IF r0.full THEN r0.req.mmu ELSE mmu_req
           /\ \A q \in SlowReq : q = Pending(FALSE, d_data) /\ (full \/ Go(FALSE)) =>
                r1_req' = IF state = "IDLE" THEN [q EXCEPT !.reload = TRUE] ELSE q
<1>1. RequestEdge(FALSE, d_data, plru) /\ Stage0Edge(in, d_data, FALSE)
  BY DEF Cycle, Tick, Edge
<1>2. in.valid => ~full
  BY CycleWires DEF Ready
<1>3. r0 \in [full : BOOLEAN, d_valid : BOOLEAN, req : Reqs, dat : Val] /\ full \in BOOLEAN
  BY DEF TypeOK, CacheTypeOK, Reqs
<1>4. full => r0'.full = r0.full /\ r0'.req = r0.req
  BY <1>1, <1>3 DEF Stage0Edge, Stall0
<1>5. ~full => r0'.full = in.valid /\ (in.valid => r0'.req = in.req)
  BY <1>1, <1>3 DEF Stage0Edge, Stall0
<1>6. /\ full => mmu_req' = mmu_req
      /\ ~full => mmu_req' = IF r0.full THEN r0.req.mmu ELSE mmu_req
  BY <1>1, <1>3 DEF RequestEdge, Stall0
<1>7. ASSUME NEW q \in SlowReq, q = Pending(FALSE, d_data), full \/ Go(FALSE)
      PROVE  r1_req' = IF state = "IDLE" THEN [q EXCEPT !.reload = TRUE] ELSE q
  <2>1. q = IF ~full /\ Go(FALSE) THEN Decoded(FALSE, d_data) ELSE r1_req
    BY <1>7 DEF Pending
  <2>2. QED
    BY <1>1, <2>1 DEF RequestEdge
<1>8. QED
  BY <1>2, <1>4, <1>5, <1>6, <1>7

LEMMA Moves ==
    ASSUME TypeOK, BusCounted, PagesKept, InOrder, AtWork, RequesterKept,
           NEW given, NEW stall, NEW ack, NEW junk, NEW in, NEW f, NEW plru,
           Cycle(given, stall, ack, junk, in, f, plru)
    PROVE  \E q, how : q \in SlowReq /\ q = Pending(FALSE, d_data) /\ Moved(in, q, how)
<1>1. PICK wbin \in BusWire, q \in SlowReq :
        /\ q = Pending(FALSE, d_data)
        /\ Works(q, d_data, plru, wbin)
  BY MachineCycle
<1>2. d_data \in Val /\ full \in BOOLEAN /\ in.valid \in BOOLEAN
  BY CycleWires DEF TypeOK, CacheTypeOK
<1>3. PICK how : Ends(how) /\ \A req \in Requests : Serves(q, req) => Answered(how, req)
  BY <1>1, WorkOutcome DEF Outcome
<1>4. /\ Remaining \in Seq(Taken)
      /\ Len(Remaining) = Count(full) + Count(Waiting)
      /\ full => Serves(r1_req, Remaining[1].req)
      /\ Waiting => Remaining[Len(Remaining)].req = r0.req
      /\ Go(FALSE) = (Waiting /\ ~full)
  BY Queue
<1>5. /\ asked' \in Seq(Taken)
      /\ Len(asked') = Len(Remaining) + Count(in.valid)
      /\ \A i \in 1..Len(Remaining) : asked'[i].req = Remaining[i].req
      /\ in.valid => asked'[Len(asked')].req = in.req
  BY <1>4, AskedNext
<1>6. /\ full => q = r1_req
      /\ ~full => q = Decoded(FALSE, d_data)
  BY <1>1, Looked
<1>7. SlowOp(FALSE) => Go(FALSE) /\ Serves(Decoded(FALSE, d_data), r0.req)
  BY Decides
<1>8. full \/ SlowOp(FALSE) => Len(Remaining) >= 1 /\ Serves(q, Remaining[1].req)
  <2>1. CASE full
    <3>1. PICK n \in Nat : Len(Remaining) = 1 + n
      <4>1. Count(full) = 1 /\ Count(Waiting) \in Nat
        BY <2>1 DEF Count
      <4>2. QED
        BY <1>4, <4>1
    <3>2. Serves(q, Remaining[1].req)
      BY Zenon, <1>4, <1>6, <2>1
    <3>3. QED
      BY <3>1, <3>2
  <2>2. CASE ~full /\ SlowOp(FALSE)
    <3>1. Waiting /\ ~full
      BY <1>4, <1>7, <2>2
    <3>2. Len(Remaining) = 1
      BY <1>4, <3>1 DEF Count
    <3>3. Remaining[1].req = r0.req
      BY <1>4, <3>1, <3>2
    <3>4. Serves(q, r0.req)
      BY Zenon, <1>6, <1>7, <2>2
    <3>5. QED
      BY <3>2, <3>3, <3>4
  <2>3. QED
    BY <2>1, <2>2
<1>9. full \/ SlowOp(FALSE) => Serves(q, asked'[1].req) /\ asked'[1].req \in Requests
  <2>1. SUFFICES ASSUME full \/ SlowOp(FALSE)
                 PROVE  Serves(q, asked'[1].req) /\ asked'[1].req \in Requests
    OBVIOUS
  <2>2. asked'[1].req = Remaining[1].req /\ Remaining[1] \in Taken
    <3>1. 1 \in 1..Len(Remaining)
      <4>1. Len(Remaining) >= 1
        BY Zenon, <1>8, <2>1
      <4>2. Len(Remaining) \in Nat
        BY <1>4
      <4>3. QED
        BY <4>1, <4>2
    <3>2. QED
      BY <1>4, <1>5, <3>1
  <2>3. QED
    BY <1>8, <2>1, <2>2 DEF Taken
<1>10. full \/ SlowOp(FALSE) => Serves(r1_req', asked'[1].req)
  <2>1. SUFFICES ASSUME full \/ SlowOp(FALSE)
                 PROVE  Serves(r1_req', asked'[1].req)
    OBVIOUS
  <2>2. r1_req' = q \/ r1_req' = [q EXCEPT !.reload = TRUE]
    BY <1>1, <1>7, <2>1, StageMoves
  <2>3. \A req : Serves(q, req) => Serves([q EXCEPT !.reload = TRUE], req)
    BY DEF Serves, SlowReq
  <2>4. QED
    BY <1>9, <2>1, <2>2, <2>3
<1>11. QED
  BY <1>1, <1>3, <1>4, <1>5, <1>9, <1>10 DEF Moved

\* Exactly one of the requests a cycle works on ends, or stays in the machine.
LEMMA OneEnds ==
    ASSUME TypeOK, InOrder, NEW in, NEW q, NEW how, Moved(in, q, how)
    PROVE  /\ full \/ Go(FALSE) =>
                /\ (Completing' <=> ~full')
                /\ Len(Remaining) = 1 + Count(full /\ Waiting)
           /\ ~full /\ ~Go(FALSE) => ~Completing' /\ ~full' /\ Len(Remaining) = 0
           /\ ~full => (how # "none" \/ full' => Go(FALSE))
<1>1. Ends(how) /\ Len(Remaining) = Count(full) + Count(Waiting)
  BY DEF Moved
<1>2. /\ full' <=> (full \/ SlowOp(FALSE)) /\ how = "none"
      /\ how # "none" => full \/ SlowOp(FALSE)
  BY <1>1 DEF Ends
<1>3. Completing' <=> (how # "none" \/ Op(FALSE) \in {"load_hit", "nop", "bad"})
  BY <1>1, DoneWires
<1>4. /\ ~Go(FALSE) => Op(FALSE) = "none" /\ ~SlowOp(FALSE)
      /\ Go(FALSE) => \/ SlowOp(FALSE)
                      \/ Op(FALSE) \in {"nop", "bad", "load_hit"} /\ ~SlowOp(FALSE)
      /\ SlowOp(FALSE) => Op(FALSE) \notin {"nop", "bad", "load_hit"}
  BY Decides DEF SlowOp
<1>5. Go(FALSE) <=> Waiting /\ ~full
  BY Queue
<1>6. PICK k, w, b \in Nat :
        /\ k = Count(full) /\ (full => k = 1) /\ (~full => k = 0)
        /\ w = Count(Waiting) /\ (Waiting => w = 1) /\ (~Waiting => w = 0)
        /\ b = Count(full /\ Waiting) /\ (full => b = w) /\ (~full => b = 0)
  BY DEF Count
<1>7. Len(Remaining) = k + w
  BY Zenon, <1>1, <1>6
<1>8. full \/ Go(FALSE) => (Completing' <=> ~full')
  <2>1. CASE full
    <3>1. Op(FALSE) = "none"
      BY Zenon, <1>4, <1>5, <2>1
    <3>2. Op(FALSE) \notin {"load_hit", "nop", "bad"}
      BY <3>1
    <3>3. QED
      BY Zenon, <1>2, <1>3, <2>1, <3>2
  <2>2. CASE Go(FALSE) /\ SlowOp(FALSE)
    <3>1. Op(FALSE) \notin {"load_hit", "nop", "bad"}
      BY <2>2 DEF SlowOp
    <3>2. QED
      BY Zenon, <1>2, <1>3, <2>2, <3>1
  <2>3. CASE Go(FALSE) /\ ~SlowOp(FALSE)
    <3>1. ~full /\ Op(FALSE) \in {"nop", "bad", "load_hit"}
      BY Zenon, <1>4, <1>5, <2>3
    <3>2. Op(FALSE) \in {"load_hit", "nop", "bad"}
      BY <3>1
    <3>3. QED
      BY Zenon, <1>2, <1>3, <2>3, <3>1, <3>2
  <2>4. QED
    BY Zenon, <2>1, <2>2, <2>3
<1>9. full \/ Go(FALSE) => Len(Remaining) = 1 + Count(full /\ Waiting)
  <2>1. full \/ Go(FALSE) => Len(Remaining) = 1 + b
    <3>1. CASE full
      BY <1>6, <1>7, <3>1
    <3>2. CASE Go(FALSE)
      <4>1. Waiting /\ ~full
        BY Zenon, <1>5, <3>2
      <4>2. k = 0 /\ w = 1 /\ b = 0
        BY Zenon, <1>6, <4>1
      <4>3. QED
        BY <1>7, <4>2
    <3>3. QED
      BY <3>1, <3>2
  <2>2. QED
    BY Zenon, <1>6, <2>1
<1>10. ~full /\ ~Go(FALSE) => ~Completing' /\ ~full'
  <2>1. SUFFICES ASSUME ~full, ~Go(FALSE) PROVE ~Completing' /\ ~full'
    BY Zenon
  <2>2. Op(FALSE) = "none" /\ ~SlowOp(FALSE)
    BY Zenon, <1>4, <2>1
  <2>3. Op(FALSE) \notin {"load_hit", "nop", "bad"}
    BY <2>2
  <2>4. QED
    BY Zenon, <1>2, <1>3, <2>1, <2>2, <2>3
<1>11. ~full /\ ~Go(FALSE) => Len(Remaining) = 0
  <2>1. SUFFICES ASSUME ~full, ~Go(FALSE) PROVE Len(Remaining) = 0
    BY Zenon
  <2>2. ~Waiting
    BY Zenon, <1>5, <2>1
  <2>3. QED
    BY <1>6, <1>7, <2>1, <2>2
<1>12. ~full => (how # "none" \/ full' => Go(FALSE))
  BY Zenon, <1>2, <1>4
<1>13. QED
  BY Zenon, <1>8, <1>9, <1>10, <1>11, <1>12

LEMMA OrderStep ==
    ASSUME TypeOK, BusCounted, PagesKept, InOrder, AtWork, RequesterKept,
           NEW given, NEW stall, NEW ack, NEW junk, NEW in, NEW f, NEW plru,
           Cycle(given, stall, ack, junk, in, f, plru),
           NEW q \in SlowReq, NEW how, Moved(in, q, how)
    PROVE  InOrder'
<1>1. /\ full => ~in.valid /\ r0'.full = r0.full /\ r0'.req = r0.req
      /\ ~full => r0'.full = in.valid /\ (in.valid => r0'.req = in.req)
  BY StageMoves
<1>2. /\ Remaining \in Seq(Taken) /\ asked' \in Seq(Taken)
      /\ Len(asked') = Len(Remaining) + Count(in.valid)
      /\ \A i \in 1..Len(Remaining) : asked'[i].req = Remaining[i].req
      /\ in.valid => asked'[Len(asked')].req = in.req
      /\ Waiting => Remaining[Len(Remaining)].req = r0.req
      /\ full \/ SlowOp(FALSE) => Serves(r1_req', asked'[1].req)
  BY DEF Moved
<1>3. /\ full \/ Go(FALSE) => /\ (Completing' <=> ~full')
                              /\ Len(Remaining) = 1 + Count(full /\ Waiting)
      /\ ~full /\ ~Go(FALSE) => ~Completing' /\ ~full' /\ Len(Remaining) = 0
  BY OneEnds
<1>4. full => Waiting = r0.full
  BY DEF InOrder, Waiting, Dropped, TypeOK, CacheTypeOK
<1>5. full' => (full \/ SlowOp(FALSE)) /\ how = "none"
  BY DEF Moved, Ends
<1>6. done'.ls_error => ~full'
  <2>1. done'.ls_error => Op(FALSE) = "bad"
    BY DoneWires DEF Moved
  <2>2. Op(FALSE) = "bad" => Go(FALSE) /\ ~SlowOp(FALSE)
    BY DEF Op, SlowOp
  <2>3. QED
    BY <1>5, <2>1, <2>2 DEF Go, Stall0
<1>7. Len(asked') = Count(Completing)' + Count(full)' + Count(r0.full)'
  <2>1. PICK c, k, n, v, w \in Nat :
          /\ c = Count(Completing)' /\ (Completing' => c = 1) /\ (~Completing' => c = 0)
          /\ k = Count(full)' /\ (full' => k = 1) /\ (~full' => k = 0)
          /\ n = Count(r0.full)' /\ (r0'.full => n = 1) /\ (~r0'.full => n = 0)
          /\ v = Count(in.valid) /\ (in.valid => v = 1) /\ (~in.valid => v = 0)
          /\ w = Count(full /\ Waiting) /\ (full /\ Waiting => w = 1) /\ (~full => w = 0)
          /\ (~Waiting => w = 0)
    BY DEF Count
  <2>2. /\ Len(asked') = Len(Remaining) + v
        /\ full \/ Go(FALSE) => Len(Remaining) = 1 + w
        /\ ~full /\ ~Go(FALSE) => Len(Remaining) = 0
    BY Zenon, <1>2, <1>3, <2>1
  <2>3. /\ full \/ Go(FALSE) => (Completing' <=> ~full')
        /\ ~full /\ ~Go(FALSE) => ~Completing' /\ ~full'
    BY Zenon, <1>3
  <2>4. Len(asked') = c + k + n
    <3>1. CASE full
      <4>1. /\ c + k = 1 /\ Len(asked') = 1 + w + v
        <5>1. (Completing' <=> ~full') /\ Len(Remaining) = 1 + w
          BY Zenon, <2>2, <2>3, <3>1
        <5>2. QED
          BY SMTT(30), <2>1, <2>2, <5>1
      <4>2. ~in.valid /\ (r0'.full <=> Waiting) /\ (full /\ Waiting <=> Waiting)
        BY Zenon, <1>1, <1>4, <3>1
      <4>3. v = 0 /\ n = w
        BY <2>1, <4>2
      <4>4. QED
        BY <2>1, <4>1, <4>3
    <3>2. CASE ~full /\ Go(FALSE)
      <4>1. (Completing' <=> ~full') /\ Len(Remaining) = 1 + w /\ (r0'.full <=> in.valid)
        BY Zenon, <1>1, <2>2, <2>3, <3>2
      <4>2. c + k = 1 /\ w = 0 /\ n = v
        BY <2>1, <3>2, <4>1
      <4>3. QED
        BY <2>1, <2>2, <4>1, <4>2
    <3>3. CASE ~full /\ ~Go(FALSE)
      <4>1. ~Completing' /\ ~full' /\ Len(Remaining) = 0 /\ (r0'.full <=> in.valid)
        BY Zenon, <1>1, <2>2, <2>3, <3>3
      <4>2. c + k = 0 /\ n = v
        BY <2>1, <4>1
      <4>3. QED
        BY <2>1, <2>2, <4>1, <4>2
    <3>4. QED
      BY Zenon, <3>1, <3>2, <3>3
  <2>5. QED
    BY Zenon, <2>1, <2>4
<1>8. full' => Serves(r1_req', asked'[Count(Completing)' + 1].req)
  <2>1. SUFFICES ASSUME full' PROVE Serves(r1_req', asked'[Count(Completing)' + 1].req)
    OBVIOUS
  <2>2. ~Completing'
    BY <1>3, <2>1
  <2>3. Count(Completing)' + 1 = 1
    BY <2>2 DEF Count
  <2>4. QED
    BY Zenon, <1>2, <1>5, <2>1, <2>3
<1>9. r0'.full => asked'[Len(asked')].req = r0'.req
  <2>1. CASE full
    <3>1. SUFFICES ASSUME r0'.full PROVE asked'[Len(asked')].req = r0'.req
      OBVIOUS
    <3>2. Waiting /\ r0'.req = r0.req /\ ~in.valid
      BY <1>1, <1>4, <2>1, <3>1
    <3>3. Len(Remaining) = 2 /\ Len(asked') = 2
      BY <1>2, <1>3, <2>1, <3>2 DEF Count
    <3>4. asked'[2].req = Remaining[2].req
      BY <1>2, <3>3
    <3>5. QED
      BY <1>2, <3>2, <3>3, <3>4
  <2>2. CASE ~full
    BY <1>1, <1>2, <2>2
  <2>3. QED
    BY <2>1, <2>2
<1>10. QED
  BY <1>6, <1>7, <1>8, <1>9 DEF InOrder

\* A request that leaves stage 0 is the only one that waits.
LEMMA Front ==
    ASSUME TypeOK, InOrder, NEW in, NEW q, NEW how, Moved(in, q, how), Go(FALSE)
    PROVE  ~full /\ Len(Remaining) = 1 /\ asked'[1].req = r0.req
<1>1. Waiting /\ ~full
  BY Queue
<1>2. Len(Remaining) = 1
  <2>1. Len(Remaining) = Count(full) + Count(Waiting)
    BY DEF Moved
  <2>2. Count(full) = 0 /\ Count(Waiting) = 1
    BY <1>1 DEF Count
  <2>3. QED
    BY <2>1, <2>2
<1>3. asked'[1].req = r0.req
  <2>1. 1 \in 1..Len(Remaining)
    BY <1>2
  <2>2. asked'[1].req = Remaining[1].req
    BY <2>1 DEF Moved
  <2>3. Remaining[Len(Remaining)].req = r0.req
    BY Zenon, <1>1 DEF Moved
  <2>4. QED
    BY Zenon, <1>2, <2>2, <2>3
<1>4. QED
  BY <1>1, <1>2, <1>3

LEMMA SyncStep ==
    ASSUME TypeOK, BusCounted, PagesKept, InOrder, AtWork, RequesterKept,
           NEW given, NEW stall, NEW ack, NEW junk, NEW in, NEW f, NEW plru,
           Cycle(given, stall, ack, junk, in, f, plru),
           NEW q \in SlowReq, NEW how, Moved(in, q, how)
    PROVE  SyncAfterStores'
<1>1. SUFFICES ASSUME done'.ls_valid, asked'[1].req.op = "sync"
               PROVE  answers' = <<>> /\ ~wb'.cyc
  BY DEF SyncAfterStores
<1>2. PICK wbin : Beat(wbin)
  BY MachineCycle
<1>3. \/ Op(FALSE) \in {"load_hit", "nop"}
      \/ how \in {"ls", "fail"}
  BY <1>1, DoneWires DEF Moved
<1>4. CASE how \in {"ls", "fail"}
  <2>1. full \/ SlowOp(FALSE)
    BY <1>4 DEF Moved, Ends
  <2>2. state = "IDLE" /\ wb' = wb
    BY <1>1, <1>4, <2>1 DEF Moved, Answered
  <2>3. ~wb.cyc /\ ~wb.stb /\ ~wbin.ack /\ answers = <<>>
    BY <1>2, <2>2 DEF BusCounted, Beat
  <2>4. answers' = <<>>
    BY <1>2, <2>3, Numbers DEF Count, Sent
  <2>5. QED
    BY <2>2, <2>3, <2>4
<1>5. CASE Op(FALSE) \in {"load_hit", "nop"}
  <2>1. Go(FALSE) /\ r0.req.op # "sync"
    BY <1>5, Decides
  <2>2. asked'[1].req = r0.req
    BY <2>1, Front
  <2>3. QED
    BY <1>1, <2>1, <2>2
<1>6. QED
  BY <1>3, <1>4, <1>5

\* In every state the machine is at the request it keeps.
LEMMA WorkStep ==
    ASSUME TypeOK, BusCounted, PagesKept, InOrder, AtWork, RequesterKept,
           NEW given, NEW stall, NEW ack, NEW junk, NEW in, NEW f, NEW plru,
           Cycle(given, stall, ack, junk, in, f, plru),
           NEW q \in SlowReq, NEW how, q = Pending(FALSE, d_data), Moved(in, q, how)
    PROVE  AtWork'
<1>1. PICK wbin \in BusWire : Works(q, d_data, plru, wbin)
  <2>1. PICK wbin \in BusWire, p \in SlowReq :
          p = Pending(FALSE, d_data) /\ Works(p, d_data, plru, wbin)
    BY MachineCycle
  <2>2. Works(q, d_data, plru, wbin)
    BY Zenon, <2>1
  <2>3. QED
    BY <2>2
<1>2. full \in BOOLEAN
  BY DEF TypeOK, CacheTypeOK
<1>3. full \/ SlowOp(FALSE) \/ q.op \notin {"load_miss", "store", "flush", "sync"}
  BY Looked
<1>4. SlowOp(FALSE) => Go(FALSE)
  BY DEF SlowOp, Op
<1>5. full \/ SlowOp(FALSE) =>
        /\ r1_req'.op = q.op /\ r1_req'.reserve = q.reserve /\ r1_req'.dcbz = q.dcbz
        /\ state # "IDLE" => r1_req' = q
  <2>1. SUFFICES ASSUME full \/ Go(FALSE)
                 PROVE  /\ r1_req'.op = q.op /\ r1_req'.reserve = q.reserve /\ r1_req'.dcbz = q.dcbz
                        /\ state # "IDLE" => r1_req' = q
    BY Zenon, <1>4
  <2>2. r1_req' = IF state = "IDLE" THEN [q EXCEPT !.reload = TRUE] ELSE q
    BY <2>1, StageMoves
  <2>3. QED
    BY <2>2 DEF SlowReq
<1>6. full => q = r1_req
  BY Looked
<1>7. full' => full \/ SlowOp(FALSE)
  BY DEF Moved, Ends
<1>8. CASE Idle(q, FALSE, plru)
  <2>1. /\ state' = "NC_LOAD_WAIT_ACK" => full' /\ q.op = "load_miss"
        /\ state' = "DO_STCX" => full' /\ q.op = "store" /\ q.reserve
        /\ state' = "FLUSH_CYCLE" => full' /\ q.op = "flush"
        /\ state' = "RELOAD_WAIT_ACK" => q.op = "load_miss" \/ q.dcbz
    BY <1>8 DEF Idle, IdleStay, IdleMiss, IdleNcLoad, IdleStcx, IdleStore, IdleDcbz,
                IdleFlush, IdleSync
  <2>2. QED
    BY <1>5, <1>7, <2>1 DEF AtWork
<1>9. CASE Reload(q, FALSE, plru, wbin)
  <2>1. state = "RELOAD_WAIT_ACK" /\ state' \in {"IDLE", "RELOAD_WAIT_ACK"}
    BY <1>9 DEF Reload
  <2>2. q.reload => q.op = "load_miss" \/ q.dcbz
    BY <2>1, Looked
  <2>3. full' => r1_req' = q
    BY <1>5, <1>7, <2>1
  <2>4. QED
    BY <2>1, <2>2, <2>3 DEF AtWork
<1>10. CASE Store(q, FALSE, d_data, plru, wbin)
  <2>1. state' \in {"IDLE", "STORE_WAIT_ACK"}
    BY <1>10 DEF Store
  <2>2. QED
    BY <2>1 DEF AtWork
<1>11. CASE NcLoad(FALSE, plru, wbin)
  <2>1. state = "NC_LOAD_WAIT_ACK" /\ full /\ r1_req.op = "load_miss"
    BY <1>11 DEF NcLoad, AtWork
  <2>2. state' = "IDLE" \/ (state' = "NC_LOAD_WAIT_ACK" /\ full')
    BY <1>11, <2>1 DEF NcLoad, FullNext
  <2>3. r1_req'.op = "load_miss"
    BY <1>5, <1>6, <2>1
  <2>4. QED
    BY <2>2, <2>3 DEF AtWork
<1>12. CASE DoStcx(FALSE, plru, wbin)
  <2>1. state = "DO_STCX" /\ full /\ r1_req.op = "store" /\ r1_req.reserve
    BY <1>12 DEF DoStcx, AtWork
  <2>2. state' \in {"IDLE", "STORE_WAIT_ACK"} \/ (state' = "DO_STCX" /\ full')
    BY <1>12, <2>1 DEF DoStcx, FullNext
  <2>3. r1_req'.op = "store" /\ r1_req'.reserve
    BY <1>5, <1>6, <2>1
  <2>4. QED
    BY <2>2, <2>3 DEF AtWork
<1>13. CASE Flush(FALSE, plru)
  <2>1. state' = "IDLE"
    BY <1>13 DEF Flush
  <2>2. QED
    BY <2>1 DEF AtWork
<1>14. QED
  BY <1>1, <1>8, <1>9, <1>10, <1>11, <1>12, <1>13 DEF Works

\* mmu_req tells for whom the machine works.
LEMMA RequesterStep ==
    ASSUME TypeOK, BusCounted, PagesKept, InOrder, AtWork, RequesterKept,
           NEW given, NEW stall, NEW ack, NEW junk, NEW in, NEW f, NEW plru,
           Cycle(given, stall, ack, junk, in, f, plru),
           NEW q \in SlowReq, NEW how, q = Pending(FALSE, d_data), Moved(in, q, how)
    PROVE  RequesterKept'
<1>1. PICK wbin \in BusWire : Works(q, d_data, plru, wbin)
  <2>1. PICK wbin \in BusWire, p \in SlowReq :
          p = Pending(FALSE, d_data) /\ Works(p, d_data, plru, wbin)
    BY MachineCycle
  <2>2. Works(q, d_data, plru, wbin)
    BY Zenon, <2>1
  <2>3. QED
    BY <2>2
<1>2. /\ full => /\ ~in.valid /\ r0'.full = r0.full /\ r0'.req = r0.req
                 /\ mmu_req' = mmu_req
      /\ ~full => /\ r0'.full = in.valid /\ (in.valid => r0'.req = in.req)
                  /\ mmu_req' = IF r0.full THEN r0.req.mmu ELSE mmu_req
      /\ full \/ Go(FALSE) =>
           r1_req' = IF state = "IDLE" THEN [q EXCEPT !.reload = TRUE] ELSE q
  BY StageMoves
<1>3. /\ full => q = r1_req
      /\ ~full => q = Decoded(FALSE, d_data)
  BY Looked
<1>4. full' => full \/ Go(FALSE)
  BY DEF Moved, Ends, SlowOp, Op
<1>5. full \/ Go(FALSE) => r1_req'.mmu = q.mmu
  BY <1>2 DEF SlowReq
<1>6. Decoded(FALSE, d_data).mmu = r0.req.mmu
  BY DEF Decoded
<1>7. Go(FALSE) => ~full /\ r0.full
  BY DEF Go, Stall0
<1>8. full' => r1_req'.mmu = mmu_req'
  <2>1. CASE full
    <3>1. r1_req.mmu = mmu_req
      BY <2>1 DEF RequesterKept
    <3>2. QED
      BY Zenon, <1>2, <1>3, <1>5, <2>1, <3>1
  <2>2. CASE ~full
    BY Zenon, <1>2, <1>3, <1>4, <1>5, <1>6, <1>7, <2>2
  <2>3. QED
    BY <2>1, <2>2
\* Nobody asks behind a request in stage 0 that is the MMU's, and the MMU not
\* behind any.
<1>9. Go(FALSE) /\ in.valid => ~in.req.mmu /\ ~r0.req.mmu
  <2>1. SUFFICES ASSUME Go(FALSE), in.valid PROVE ~in.req.mmu /\ ~r0.req.mmu
    BY Zenon
  <2>2. in.req.mmu \/ (\E i \in DOMAIN Remaining : Remaining[i].req.mmu) => Remaining = <<>>
    BY <2>1, CycleWires DEF Ready
  <2>3. Len(Remaining) = 1 /\ Remaining[Len(Remaining)].req = r0.req
    <3>1. Waiting
      BY <2>1, Queue
    <3>2. Len(Remaining) = 1
      BY <2>1, Front
    <3>3. QED
      BY Zenon, <3>1, <3>2 DEF Moved
  <2>4. Remaining \in Seq(Taken)
    BY DEF Moved
  <2>5. 1 \in DOMAIN Remaining /\ Remaining # <<>> /\ Remaining[1].req = r0.req
    <3>1. Len(Remaining) = 1
      BY <2>3
    <3>2. 1 \in DOMAIN Remaining /\ Remaining # <<>>
      <4>1. ASSUME NEW s \in Seq(Taken), Len(s) = 1 PROVE 1 \in DOMAIN s /\ s # <<>>
        BY <4>1
      <4>2. QED
        BY Zenon, <2>4, <3>1, <4>1
    <3>3. QED
      BY Zenon, <2>3, <3>1, <3>2
  <2>6. QED
    BY Zenon, <2>2, <2>5
<1>10. full' /\ r0'.full => ~r1_req'.mmu /\ ~r0'.req.mmu
  <2>1. SUFFICES ASSUME full', r0'.full PROVE ~r1_req'.mmu /\ ~r0'.req.mmu
    BY Zenon
  <2>2. CASE full
    <3>1. r0.full /\ ~r1_req.mmu /\ ~r0.req.mmu
      BY <1>2, <2>1, <2>2 DEF RequesterKept
    <3>2. QED
      BY Zenon, <1>2, <1>3, <1>5, <2>2, <3>1
  <2>3. CASE ~full
    <3>1. Go(FALSE) /\ in.valid /\ r0'.req = in.req
      BY Zenon, <1>2, <1>4, <2>1, <2>3
    <3>2. QED
      BY Zenon, <1>3, <1>5, <1>6, <1>9, <2>3, <3>1
  <2>4. QED
    BY <2>2, <2>3
<1>11. ASSUME "mmu" \in Avoids, state' = "RELOAD_WAIT_ACK", r0'.full
       PROVE  r0'.req.mmu = mmu_req'
  <2>1. CASE state = "RELOAD_WAIT_ACK"
    <3>1. r0.full => r0.req.mmu = mmu_req
      BY <1>11, <2>1 DEF RequesterKept
    <3>2. CASE full
      BY Zenon, <1>2, <1>11, <3>1, <3>2
    <3>3. CASE ~full
      <4>1. in.valid /\ r0'.req = in.req /\ mmu_req' = mmu_req
        BY Zenon, <1>2, <1>11, <3>1, <3>3
      <4>2. in.req.mmu = mmu_req
        BY <1>11, <2>1, <4>1, CycleWires DEF Allowed, Filling
      <4>3. QED
        BY <4>1, <4>2
    <3>4. QED
      BY <3>2, <3>3
  <2>2. CASE state # "RELOAD_WAIT_ACK"
    <3>1. full \/ SlowOp(FALSE)
      <4>1. Idle(q, FALSE, plru) /\ (IdleMiss(q, FALSE) \/ IdleDcbz(q, FALSE))
        BY <1>1, <1>11, <2>2 DEF Works, Idle, IdleStay, IdleMiss, IdleNcLoad, IdleStcx,
           IdleStore, IdleDcbz, IdleFlush, IdleSync, Reload, Store, NcLoad, DoStcx, Flush
      <4>2. q.op \in {"load_miss", "store"}
        BY <4>1 DEF IdleMiss, IdleDcbz
      <4>3. QED
        BY <4>2, Looked
    <3>2. CASE full
      <4>1. r0.full /\ ~r1_req.mmu /\ ~r0.req.mmu /\ r1_req.mmu = mmu_req
        BY <1>2, <1>11, <3>2 DEF RequesterKept
      <4>2. mmu_req \in BOOLEAN /\ r0.req \in Req
        BY ReqTypes DEF TypeOK, CacheTypeOK, Reqs
      <4>3. r0.req.mmu = mmu_req
        BY <4>1, <4>2 DEF Req
      <4>4. QED
        BY Zenon, <1>2, <3>2, <4>3
    <3>3. CASE ~full
      <4>1. Go(FALSE)
        BY <3>1, <3>3 DEF SlowOp, Op
      <4>2. in.valid /\ r0'.req = in.req /\ mmu_req' = r0.req.mmu
        BY Zenon, <1>2, <1>7, <1>11, <3>3, <4>1
      <4>3. ~in.req.mmu /\ ~r0.req.mmu
        BY Zenon, <1>9, <4>1, <4>2
      <4>4. in.req \in Req /\ r0.req \in Req
        BY CycleWires, ReqTypes DEF TypeOK, CacheTypeOK, Reqs
      <4>5. in.req.mmu = r0.req.mmu
        BY <4>3, <4>4 DEF Req
      <4>6. QED
        BY <4>2, <4>5
    <3>4. QED
      BY <3>2, <3>3
  <2>3. QED
    BY <2>1, <2>2
<1>12. QED
  BY <1>8, <1>10, <1>11 DEF RequesterKept

\* A completion is of the oldest request and of the unit that asked it, if no
\* unit asks while a line is filled for the other.
LEMMA CompletesStep ==
    ASSUME TypeOK, BusCounted, PagesKept, InOrder, AtWork, RequesterKept,
           NEW given, NEW stall, NEW ack, NEW junk, NEW in, NEW f, NEW plru,
           Cycle(given, stall, ack, junk, in, f, plru),
           NEW q \in SlowReq, NEW how, q = Pending(FALSE, d_data), Moved(in, q, how),
           "mmu" \in Avoids
    PROVE  CompletesAsked'
<1> DEFINE Early == Op(FALSE) \in {"load_hit", "nop", "bad"}
           r     == asked'[1].req
<1>1. /\ done'.ls_error = (Op(FALSE) = "bad" /\ ~r0.req.mmu)
      /\ done'.mmu_error = (Op(FALSE) = "bad" /\ r0.req.mmu)
      /\ done'.ls_valid = \/ Op(FALSE) \in {"load_hit", "nop"} /\ ~r0.req.mmu
                          \/ how \in {"ls", "fail"}
      /\ done'.mmu_done = ((Op(FALSE) = "load_hit" /\ r0.req.mmu) \/ how = "mmu")
      /\ done'.hit_load_valid = (Op(FALSE) = "load_hit")
      /\ done'.slow_valid = (how \in {"ls", "mmu"})
      /\ done'.stcx_fail = (how = "fail")
      /\ Completing' = (how # "none" \/ Early)
  BY DoneWires DEF Moved
<1>2. Early => Go(FALSE)
  BY Decides
<1>3. Early => ~full /\ Len(Remaining) = 1 /\ r = r0.req
  BY <1>2, Front
<1>4. how # "none" => (full \/ SlowOp(FALSE)) /\ ~Early
  BY <1>3 DEF Moved, Ends, SlowOp
<1>5. how # "none" => Answered(how, r)
  BY <1>4 DEF Moved
<1>6. Early => /\ Op(FALSE) = "bad" => ~r.ok \/ r.nc
               /\ r.mmu = r0.req.mmu
  BY <1>3, Decides
<1>7. how \in {"ls", "fail"} => ~r.mmu
  BY <1>5 DEF Answered
<1>8. how = "mmu" => r.mmu
  BY <1>5 DEF Answered
<1>9. how = "fail" => r.op = "store" /\ r.reserve
  BY <1>5 DEF Answered
<1>10. Completing' => asked' # <<>>
  <2>1. SUFFICES ASSUME Completing' PROVE asked' # <<>>
    OBVIOUS
  <2>2. how # "none" \/ Early
    BY <1>1, <2>1
  <2>3. full \/ Go(FALSE)
    BY <1>2, <1>4, <2>2 DEF SlowOp, Op
  <2>4. PICK n \in Nat : Len(Remaining) = 1 + n
    <3>1. Len(Remaining) = 1 + Count(full /\ Waiting)
      BY <2>3, OneEnds
    <3>2. Count(full /\ Waiting) \in Nat
      BY DEF Count
    <3>3. QED
      BY <3>1, <3>2
  <2>5. PICK v \in Nat : Len(asked') = Len(Remaining) + v
    <3>1. Len(asked') = Len(Remaining) + Count(in.valid)
      BY DEF Moved
    <3>2. Count(in.valid) \in Nat
      BY DEF Count
    <3>3. QED
      BY <3>1, <3>2
  <2>6. QED
    BY <2>4, <2>5
<1> HIDE DEF r
<1>11. /\ done'.ls_valid \/ done'.ls_error => ~r.mmu
       /\ done'.mmu_done \/ done'.mmu_error => r.mmu
  BY <1>1, <1>6, <1>7, <1>8
<1>12. /\ done'.stcx_fail => r.op = "store" /\ r.reserve
       /\ done'.ls_error \/ done'.mmu_error => ~r.ok \/ r.nc
  BY <1>1, <1>6, <1>9
<1>13. /\ ~(done'.ls_valid /\ done'.ls_error) /\ ~(done'.mmu_done /\ done'.mmu_error)
       /\ ~(done'.slow_valid /\ done'.stcx_fail)
       /\ ~((done'.slow_valid \/ done'.stcx_fail) /\ done'.hit_load_valid)
  BY <1>1, <1>4
<1>14. QED
  BY <1>10, <1>11, <1>12, <1>13 DEF CompletesAsked, r

------------------------------------------------------------------------------
\* The invariant and what follows from it.

LEMMA InitIInv == Init => BusInv /\ CompletesAsked
<1> SUFFICES ASSUME Init PROVE BusInv /\ CompletesAsked
  OBVIOUS
<1>1. TypeOK
  BY InitType
<1>2. /\ state = "IDLE" /\ ~full /\ ~r0.full /\ asked = <<>> /\ answers = <<>> /\ ~mine
      /\ ~wb.cyc /\ ~wb.stb
      /\ ~done.ls_valid /\ ~done.mmu_done /\ ~done.ls_error /\ ~done.mmu_error
      /\ ~done.slow_valid /\ ~done.stcx_fail
  BY DEF Init, CacheInit
<1>3. ~Completing
  BY <1>2 DEF Completing
<1>4. InOrder
  BY <1>2, <1>3 DEF InOrder, Count
<1>5. BusCounted /\ PagesKept
  BY <1>2 DEF BusCounted, PagesKept
<1>6. AtWork /\ RequesterKept /\ SyncAfterStores
  BY <1>2 DEF AtWork, RequesterKept, SyncAfterStores
<1>7. CompletesAsked
  BY <1>2, <1>3 DEF CompletesAsked
<1>8. QED
  BY <1>1, <1>4, <1>5, <1>6, <1>7 DEF BusInv

LEMMA NextIInv ==
    ASSUME BusInv, Next
    PROVE  BusInv' /\ ("mmu" \in Avoids => CompletesAsked')
<1>1. TypeOK /\ BusCounted /\ PagesKept /\ InOrder /\ AtWork /\ RequesterKept
  BY DEF BusInv
<1>2. PICK given, stall, ack, junk, in, f, plru : Cycle(given, stall, ack, junk, in, f, plru)
  BY NextIsCycle
<1>3. PICK q, how : q \in SlowReq /\ q = Pending(FALSE, d_data) /\ Moved(in, q, how)
  BY <1>1, <1>2, Moves
<1>4. TypeOK'
  <2>1. Remaining \in Seq(Taken)
    BY <1>1, Queue
  <2>2. QED
    BY <1>1, <1>2, <2>1, TypeNext
<1>5. BusCounted' /\ PagesKept'
  BY <1>1, <1>2, BusStep
<1>6. InOrder' /\ SyncAfterStores'
  BY <1>1, <1>2, <1>3, OrderStep, SyncStep
<1>7. AtWork'
  BY <1>1, <1>2, <1>3, WorkStep
<1>8. RequesterKept'
  BY <1>1, <1>2, <1>3, RequesterStep
<1>9. "mmu" \in Avoids => CompletesAsked'
  BY <1>1, <1>2, <1>3, CompletesStep
<1>10. QED
  BY <1>4, <1>5, <1>6, <1>7, <1>8, <1>9 DEF BusInv

LEMMA Stuttering ==
    ASSUME BusInv, UNCHANGED vars
    PROVE  BusInv' /\ (CompletesAsked => CompletesAsked')
<1> USE DEF vars, cacheVars, stageVars, slowVars, busVars, history
<1>1. TypeOK'
  <2>1. CacheTypeOK'
    BY DEF BusInv, TypeOK, CacheTypeOK
  <2>2. QED
    BY <2>1 DEF BusInv, TypeOK
<1>2. Completing' <=> Completing
  BY DEF Completing
<1>3. BusCounted'
  <2>1. Counted' <=> Counted
    BY DEF Counted, Strobing
  <2>2. OwedInReload' = OwedInReload /\ Strobing' = Strobing
    BY DEF OwedInReload, Strobing, Ahead
  <2>3. QED
    BY <2>1, <2>2 DEF BusInv, BusCounted
<1>4. PagesKept' /\ AtWork' /\ RequesterKept' /\ SyncAfterStores'
  BY DEF BusInv, PagesKept, AtWork, RequesterKept, SyncAfterStores
<1>5. InOrder'
  BY <1>2 DEF BusInv, InOrder, Count, Serves
<1>6. CompletesAsked => CompletesAsked'
  BY <1>2 DEF CompletesAsked
<1>7. QED
  BY <1>1, <1>3, <1>4, <1>5, <1>6 DEF BusInv

\* Requests are completed in order, the bus is counted in every state of the
\* machine, and the registers keep their types, whatever is asked and however
\* the bus answers (dcache.vhdl:1586-1877).
THEOREM DCacheInvariant == Spec => []BusInv
<1>1. Init => BusInv
  BY InitIInv
<1>2. BusInv /\ [Next]_vars => BusInv'
  BY NextIInv, Stuttering
<1>3. QED
  BY <1>1, <1>2, PTL DEF Spec

\* The bus is kept while an answer is owed, the answers owed are of one page,
\* and the bus is kept between the halves of a stqcx (dcache.vhdl:1573-1584,
\* 1769-1818).
THEOREM DCacheBusKept == Spec => []BusKept
<1>1. BusInv => BusKept
  <2>1. SUFFICES ASSUME BusInv PROVE BusKept
    OBVIOUS
  <2>2. answers # <<>> => wb.cyc
    BY <2>1 DEF BusInv, BusCounted
  <2>3. state = "STORE_WAIT_ACK" => wb.cyc
    BY <2>1 DEF BusInv, BusCounted
  <2>4. QED
    BY <2>1, <2>2, <2>3 DEF BusInv, PagesKept, BusKept
<1>2. QED
  BY <1>1, DCacheInvariant, PTL

\* A sync completes only when no store is on the bus or owed an answer
\* (dcache.vhdl:1691-1697).
THEOREM DCacheSync == Spec => []SyncAfterStores
<1>1. BusInv => SyncAfterStores
  BY DEF BusInv
<1>2. QED
  BY <1>1, DCacheInvariant, PTL

\* Every completion and every error is of the oldest request, goes to the unit
\* that asked it, and no two collide, if the MMU and the load-store unit do not
\* ask while a line is filled for the other (dcache.vhdl:1178-1206).
THEOREM DCacheCompletes ==
    ASSUME "mmu" \in Avoids
    PROVE  Spec => []CompletesAsked
<1>1. Init => BusInv /\ CompletesAsked
  BY InitIInv
<1>2. (BusInv /\ CompletesAsked) /\ [Next]_vars => (BusInv /\ CompletesAsked)'
  BY NextIInv, Stuttering
<1>3. QED
  BY <1>1, <1>2, PTL DEF Spec

------------------------------------------------------------------------------
\* What is in the cache, if the requesters keep clear of its faults: first that
\* every step is a Turn, whose parts are its wires, what the pipeline and the bus
\* make of them, and how the requests move.

\* A cycle of the system is one of these: its requests,
LEMMA CycleAsks ==
    ASSUME TypeOK, NEW given, NEW stall, NEW ack, NEW junk, NEW in, NEW f, NEW plru,
           Cycle(given, stall, ack, junk, in, f, plru)
    PROVE  Asks(in)
<1>1. /\ in \in [valid : BOOLEAN, req : Reqs, dat : Val]
      /\ in.valid => in.req \in Requests /\ Ready(in.req) /\ Allowed(in)
  BY CycleWires
<1>2. in.valid /\ in.req.op # "store" => in.dat = 0
  <2>1. in = NoWire \/ in \in Offered
    BY DEF Cycle, Wires
  <2>2. CASE in \in Offered
    <3>1. in.dat \in IF in.req.op = "store" THEN Writes ELSE {0}
      BY <2>2 DEF Offered
    <3>2. QED
      BY <3>1
  <2>3. QED
    BY <2>1, <2>2 DEF NoWire
<1>3. /\ d_data' = IF in.valid THEN in.dat ELSE 0
      /\ half_open' = IF in.valid THEN in.req.half = "first" ELSE half_open /\ ~done.ls_error
  <2>1. HistoryEdge(in, f, given, stall)
    BY DEF Cycle, Tick
  <2>2. QED
    BY <2>1 DEF Cycle, Tick, HistoryEdge
<1>4. QED
  BY <1>1, <1>2, <1>3 DEF Asks

\* its pipeline and machine,
LEMMA CycleClocked ==
    ASSUME TypeOK, BusCounted, PagesKept, NEW given, NEW stall, NEW ack, NEW junk, NEW in, NEW f, NEW plru,
           Cycle(given, stall, ack, junk, in, f, plru),
           NEW q, q = Pending(FALSE, d_data),
           NEW wbin, wbin = WbIn(given, stall, ack, junk)
    PROVE  Clocked(in, wbin, f, plru, q)
<1>1. /\ wbin \in BusWire /\ q \in SlowReq /\ plru \in Way
  BY CycleWires, PendingType DEF Wired, TypeOK, Cycle
<1>2. Edge(in, d_data, FALSE, wbin, Snooped(f), plru)
  BY DEF Cycle, Tick
<1>3. Works(q, d_data, plru, wbin)
  BY <1>2 DEF Edge, Machine, Works
<1>4. QED
  BY <1>1, <1>2, <1>3 DEF Edge, Clocked, AcksEdge

\* its bus,
LEMMA CycleFed ==
    ASSUME TypeOK, BusCounted, PagesKept, NEW given, NEW stall, NEW ack, NEW junk, NEW in, NEW f, NEW plru,
           Cycle(given, stall, ack, junk, in, f, plru),
           NEW wbin, wbin = WbIn(given, stall, ack, junk)
    PROVE  Fed(given, wbin, f) /\ Sent(wbin) = Accepted(given, stall)
<1>1. /\ wbin.stall = (~given \/ stall) /\ wbin.ack = ack
      /\ given \in BOOLEAN /\ stall \in BOOLEAN /\ ack \in BOOLEAN
      /\ f \in [valid : BOOLEAN, adr : Adr, dat : Val]
  BY CycleWires DEF WbIn
<1>2. Sent(wbin) = Accepted(given, stall)
  BY <1>1 DEF Sent, Accepted, TypeOK, CacheTypeOK, BusReg
<1>3. BusEdge(given, stall, ack, junk, f)
  BY DEF Cycle, Tick
<1>4. PICK owed \in Seq(Owing) : owed = Owed(given, stall, junk) /\ (ack => owed # <<>>)
  <2>1. Owed(given, stall, junk) \in Seq(Owing) /\ (ack => Owed(given, stall, junk) # <<>>)
    BY CycleWires
  <2>2. QED
    BY Zenon, <2>1
<1>5. answers \in Seq(Owing)
  BY DEF TypeOK
<1>6. /\ Len(owed) = Len(answers) + Count(Sent(wbin))
      /\ \A i \in 1..Len(answers) : owed[i] = answers[i]
      /\ Sent(wbin) /\ ~wb.we => owed[Len(answers) + 1].dat = mem[wb.adr]
  <2>1. CASE Accepted(given, stall)
    <3>1. PICK o : /\ owed = Append(answers, o)
                   /\ ~wb.we => o.dat = mem[wb.adr]
      BY <1>4, <2>1 DEF Owed
    <3>2. QED
      BY <1>2, <1>5, <2>1, <3>1 DEF Count
  <2>2. CASE ~Accepted(given, stall)
    BY <1>2, <1>4, <1>5, <2>2 DEF Owed, Count
  <2>3. QED
    BY <2>1, <2>2
<1>7. answers' = IF ack THEN Tail(owed) ELSE owed
  BY <1>3, <1>4 DEF BusEdge
<1>8. ack => answers # <<>> \/ (Accepted(given, stall) /\ acks.stalled)
  BY DEF Cycle, Answers
<1>9. ack => wbin.dat = owed[1].dat
  <2>1. ack => wbin.dat = Head(owed).dat
    BY <1>4 DEF WbIn
  <2>2. owed # <<>> => Head(owed) = owed[1]
    BY <1>4
  <2>3. QED
    BY <1>4, <2>1, <2>2
<1>10. /\ ack /\ answers # <<>> => wbin.dat = answers[1].dat
       /\ ack /\ answers = <<>> /\ ~wb.we => wbin.dat = mem[wb.adr]
  <2>1. answers # <<>> => 1 \in 1..Len(answers)
    BY <1>5
  <2>2. answers = <<>> => Len(answers) = 0
    OBVIOUS
  <2>3. QED
    BY <1>2, <1>6, <1>8, <1>9, <2>1, <2>2
<1>11. /\ Len(answers') = Len(answers) + Count(Sent(wbin)) - Count(ack)
       /\ \A i \in DOMAIN answers' :
            /\ i \in Nat \ {0} /\ i + Count(ack) \in 1..Len(owed)
            /\ answers'[i] = owed[i + Count(ack)]
  <2>1. Count(ack) = (IF ack THEN 1 ELSE 0) /\ Count(Sent(wbin)) = (IF Sent(wbin) THEN 1 ELSE 0)
        /\ Len(answers) \in Nat
    BY <1>5 DEF Count
  <2>2. CASE ack
    <3>1. /\ answers' = Tail(owed) /\ Len(owed) \in Nat /\ Len(owed) > 0
      BY <1>4, <1>7, <2>2
    <3>2. Len(answers') = Len(owed) - 1 /\ DOMAIN answers' = 1..Len(owed) - 1
          /\ \A i \in 1..Len(owed) - 1 : answers'[i] = owed[i + 1]
      BY <1>4, <3>1
    <3>3. Count(ack) = 1
      BY <2>1, <2>2
    <3>4. \A i \in 1..Len(owed) - 1 : i \in Nat \ {0} /\ i + 1 \in 1..Len(owed)
      BY <3>1
    <3>5. Len(answers') = Len(answers) + Count(Sent(wbin)) - 1
      <4>1. Count(Sent(wbin)) \in Nat /\ Len(answers) \in Nat
        BY <2>1
      <4>2. QED
        BY <1>6, <3>2, <4>1
    <3>6. QED
      BY <3>2, <3>3, <3>4, <3>5
  <2>3. CASE ~ack
    BY <1>4, <1>6, <1>7, <2>1, <2>3
  <2>4. QED
    BY <2>2, <2>3
<1>12. ASSUME NEW i \in DOMAIN answers'
       PROVE  /\ i + Count(ack) <= Len(answers) => answers'[i] = answers[i + Count(ack)]
              /\ i + Count(ack) > Len(answers) /\ ~wb.we => answers'[i].dat = mem[wb.adr]
  <2>1. PICK j : j = i + Count(ack)
    OBVIOUS
  <2>2. j \in 1..Len(owed) /\ answers'[i] = owed[j]
    BY <1>11, <2>1
  <2>3. j <= Len(answers) => answers'[i] = answers[j]
    BY <1>5, <1>6, <2>2
  <2>4. j > Len(answers) => Sent(wbin) /\ j = Len(answers) + 1
    BY <1>5, <1>6, <2>2 DEF Count
  <2>5. QED
    BY <1>6, <2>1, <2>2, <2>3, <2>4
<1>13. /\ mine => given
       /\ (mine' <=> given /\ wb'.cyc)
       /\ f.valid => ~given
       /\ mem' = IF Sent(wbin) /\ wb.we /\ wb.sel THEN [mem EXCEPT ![wb.adr] = wb.dat]
                 ELSE IF f.valid THEN [mem EXCEPT ![f.adr] = f.dat] ELSE mem
  <2>1. mine => given
    BY DEF Cycle
  <2>2. f = NoStore \/ ~given
    BY DEF Cycle
  <2>3. f.valid => ~given
    BY <2>2 DEF NoStore
  <2>4. mine' = (given /\ wb'.cyc)
    BY <1>3 DEF BusEdge
  <2>5. QED
    BY <1>2, <1>3, <2>1, <2>3, <2>4 DEF BusEdge
<1>14. QED
  BY <1>1, <1>2, <1>8, <1>10, <1>11, <1>12, <1>13 DEF Fed

\* and its history.
LEMMA CycleRecorded ==
    ASSUME TypeOK, HistoryTyped, Remaining \in Seq(Taken),
           NEW given, NEW stall, NEW ack, NEW junk, NEW in, NEW f, NEW plru,
           Cycle(given, stall, ack, junk, in, f, plru),
           NEW wbin, Sent(wbin) = Accepted(given, stall)
    PROVE  Recorded(in, f, wbin)
<1> DEFINE taken == [req |-> in.req, vals |-> Snapshots(in.req, mem, TRUE)]
           next  == IF in.valid THEN Append(Remaining, taken) ELSE Remaining
           link  == IF done.ls_valid THEN LinkedNext(asked[1]) ELSE linked
           halves == IF done.ls_valid THEN HalvedNext(asked[1]) ELSE halved
<1>1. /\ asked' = [i \in DOMAIN next |->
              IF ~f.valid \/ f.adr \notin Reads(next[i].req) THEN next[i]
              ELSE [next[i] EXCEPT !.vals =
                       @ \cup Snapshots(next[i].req, mem', in.valid /\ i = Len(next))]]
      /\ halved' = [halves EXCEPT
              !.rest = IF f.valid /\ @ # {} /\ halves.val \in Left(halves.adr, mem', FALSE)
                       THEN @ \cup Left(Partner(halves.adr), mem', FALSE) ELSE @]
      /\ linked' = [link EXCEPT
              !.val = IF link.live /\ Sent(wbin) /\ wb.we /\ wb.sel /\ wb.adr = link.adr
                      THEN wb.dat ELSE @]
  <2>1. HistoryEdge(in, f, given, stall)
    BY DEF Cycle, Tick
  <2>2. QED
    BY <2>1 DEF HistoryEdge
<1>2. in.valid \in BOOLEAN
  BY CycleWires
<1>3. /\ DOMAIN next = 1..Len(next) /\ Len(next) = Len(Remaining) + Count(in.valid)
      /\ Len(Remaining) \in Nat
      /\ \A i \in 1..Len(Remaining) : next[i] = Remaining[i]
      /\ in.valid => next[Len(next)] = taken
  BY <1>2 DEF Count
<1> HIDE DEF next
<1>4. ASSUME NEW i \in 1..Len(next), NEW last, last = (in.valid /\ i = Len(next)),
             "vals" \in DOMAIN next[i]
      PROVE  /\ next[i].vals \subseteq asked'[i].vals
             /\ f.valid /\ f.adr \in Reads(next[i].req) =>
                  Snapshots(next[i].req, mem', last) \subseteq asked'[i].vals
  <2> DEFINE S == Snapshots(next[i].req, mem', in.valid /\ i = Len(next))
  <2>0. S = Snapshots(next[i].req, mem', last)
    BY <1>4
  <2>1. CASE ~f.valid \/ f.adr \notin Reads(next[i].req)
    BY <1>1, <1>3, <2>1
  <2>2. CASE f.valid /\ f.adr \in Reads(next[i].req)
    <3>1. asked'[i] = [next[i] EXCEPT !.vals = @ \cup S]
      BY <1>1, <1>3, <2>2
    <3> HIDE DEF S
    <3>2. asked'[i].vals = next[i].vals \cup S
      BY <1>4, <3>1
    <3>3. QED
      BY <2>0, <3>2
  <2>3. QED
    BY <2>1, <2>2
<1>5. ASSUME NEW i \in 1..Len(Remaining)
      PROVE  /\ Remaining[i].vals \subseteq asked'[i].vals
             /\ f.valid /\ f.adr \in Reads(Remaining[i].req) =>
                  Snapshots(Remaining[i].req, mem', FALSE) \subseteq asked'[i].vals
  <2>1. i \in 1..Len(next) /\ (in.valid /\ i = Len(next)) = FALSE
    BY <1>2, <1>3 DEF Count
  <2>2. Remaining[i] \in Taken /\ next[i] = Remaining[i]
    BY <1>3
  <2>3. "vals" \in DOMAIN next[i]
    BY <2>2 DEF Taken
  <2>4. QED
    BY <1>4, <2>1, <2>2, <2>3
<1>6. in.valid =>
         /\ Snapshots(in.req, mem, TRUE) \subseteq asked'[Len(asked')].vals
         /\ f.valid /\ f.adr \in Reads(in.req) =>
              Snapshots(in.req, mem', TRUE) \subseteq asked'[Len(asked')].vals
  <2>1. SUFFICES ASSUME in.valid
                 PROVE  /\ Snapshots(in.req, mem, TRUE) \subseteq asked'[Len(asked')].vals
                        /\ f.valid /\ f.adr \in Reads(in.req) =>
                             Snapshots(in.req, mem', TRUE) \subseteq asked'[Len(asked')].vals
    OBVIOUS
  <2>2. Len(next) \in 1..Len(next) /\ Len(next) = Len(Remaining) + 1 /\ Len(next) \in Nat
    BY <1>3, <2>1 DEF Count
  <2>3. Len(asked') = Len(next)
    <3>1. Len(asked') = Len(Remaining) + Count(in.valid)
      BY AskedNext
    <3>2. QED
      BY <1>3, <3>1
  <2>4. next[Len(next)] = taken
    BY <1>3, <2>1
  <2>5. "vals" \in DOMAIN taken /\ taken.req = in.req /\ taken.vals = Snapshots(in.req, mem, TRUE)
    OBVIOUS
  <2> HIDE DEF taken
  <2>6. QED
    BY <1>4, <2>1, <2>2, <2>3, <2>4, <2>5
<1>7. halves.rest \subseteq halved'.rest /\ DOMAIN halved' = {"adr", "val", "rest"}
  <2>1. DOMAIN halves = {"adr", "val", "rest"}
    BY DEF HistoryTyped, HalvedNext
  <2> HIDE DEF halves
  <2>2. QED
    BY <1>1, <2>1
<1> HIDE DEF link, halves
<1>8. QED
  BY <1>1, <1>5, <1>6, <1>7 DEF Recorded, link, halves

\* Every step of requesters that keep clear is a Turn.
LEMMA NextTurns ==
    ASSUME Careful, BusInv, CoherenceInv, Next
    PROVE  \E g, in, wbin, f, plru, q, how : Turn(g, in, wbin, f, plru, q, how)
<1>1. TypeOK /\ BusCounted /\ PagesKept /\ InOrder /\ AtWork /\ RequesterKept
  BY DEF BusInv
<1>2. PICK given, stall, ack, junk, in, f, plru : Cycle(given, stall, ack, junk, in, f, plru)
  BY NextIsCycle
<1>3. PICK q, how : q = Pending(FALSE, d_data) /\ Moved(in, q, how)
  BY <1>1, <1>2, Moves
<1>4. PICK wbin : wbin = WbIn(given, stall, ack, junk)
  OBVIOUS
<1>5. Asks(in)
  BY <1>1, <1>2, CycleAsks
<1>6. Clocked(in, wbin, f, plru, q)
  BY <1>1, <1>2, <1>3, <1>4, CycleClocked
<1>7. Fed(given, wbin, f) /\ Sent(wbin) = Accepted(given, stall)
  BY <1>1, <1>2, <1>4, CycleFed
<1>8. Recorded(in, f, wbin)
  <2>1. Remaining \in Seq(Taken)
    BY <1>1, Queue
  <2>2. HistoryTyped
    BY DEF CoherenceInv
  <2>3. QED
    BY <1>1, <1>2, <1>7, <2>1, <2>2, CycleRecorded
<1>9. BusInv'
  BY NextIInv
<1>10. Turn(given, in, wbin, f, plru, q, how)
  BY <1>3, <1>5, <1>6, <1>7, <1>8, <1>9 DEF Turn
<1>11. QED
  BY <1>10

------------------------------------------------------------------------------
\* Stage 0 and the machine in a cycle.

\* How stage 0 moves, and which request the machine has then.
LEMMA Staged ==
    ASSUME NEW g, NEW in, NEW wbin, NEW f, NEW plru, NEW q, NEW how,
           Turn(g, in, wbin, f, plru, q, how)
    PROVE  /\ full => ~in.valid /\ r0'.full = r0.full /\ r0'.req = r0.req /\ q = r1_req
           /\ ~full => /\ r0'.full = in.valid /\ q = Taking
                       /\ r0'.req = IF in.valid THEN in.req ELSE r0.req
           /\ (Goes <=> r0.full /\ ~full /\ ~done.ls_error) /\ (Slow => Goes)
           /\ full \/ Goes =>
                SameReq(r1_req', q) /\ r1_req'.reload = (state = "IDLE" \/ q.reload)
           /\ ~full /\ ~Goes =>
                SameReq(r1_req', r1_req) /\ r1_req'.reload = (state = "IDLE" \/ r1_req.reload)
           /\ full => ~done.ls_error
           /\ in.valid => ~done.ls_error
<1>1. /\ full \in BOOLEAN /\ r0.full \in BOOLEAN /\ done.ls_error \in BOOLEAN
      /\ r1_req \in SlowReq /\ q \in SlowReq /\ q = Pending(FALSE, d_data)
      /\ r0 \in [full : BOOLEAN, d_valid : BOOLEAN, req : Reqs, dat : Val]
      /\ RequestEdge(FALSE, d_data, plru) /\ Stage0Edge(in, d_data, FALSE)
  BY DEF Turn, BusInv, TypeOK, CacheTypeOK, DoneReg, Reqs, Clocked
<1>2. /\ in.valid \in BOOLEAN
      /\ in.valid => ~full /\ ~done.ls_error
      /\ full => ~done.ls_error
  BY DEF Turn, Asks, Ready, BusInv, InOrder
<1>3. /\ (Goes <=> r0.full /\ ~full /\ ~done.ls_error) /\ (Slow => Goes)
  BY <1>1 DEF Goes, Slow, Go, Stall0, SlowOp, Op
<1>4. full => ~in.valid /\ r0'.full = r0.full /\ r0'.req = r0.req /\ q = r1_req
  <2>1. SUFFICES ASSUME full PROVE r0'.full = r0.full /\ r0'.req = r0.req
    BY <1>1, <1>2 DEF Pending, Taking
  <2>2. r0' = r0 \/ r0' = [r0 EXCEPT !.d_valid = TRUE, !.dat = d_data]
    BY <1>1, <2>1 DEF Stage0Edge, Stall0
  <2>3. QED
    BY <1>1, <2>2
<1>5. ~full => /\ r0'.full = in.valid /\ q = Taking
               /\ r0'.req = IF in.valid THEN in.req ELSE r0.req
  BY <1>1 DEF Stage0Edge, Stall0, Pending, Taking
<1>6. ASSUME NEW r \in SlowReq
      PROVE  /\ SameReq([r EXCEPT !.reload = TRUE], r) /\ [r EXCEPT !.reload = TRUE].reload
             /\ SameReq(r, r) /\ r.reload \in BOOLEAN
  BY DEF SameReq, SlowReq
<1>7. PICK r \in SlowReq : /\ r = IF full \/ Goes THEN q ELSE r1_req
                           /\ r1_req' = IF state = "IDLE" THEN [r EXCEPT !.reload = TRUE] ELSE r
  <2> DEFINE p == IF ~full /\ Goes THEN Taking ELSE r1_req
  <2>1. p = IF full \/ Goes THEN q ELSE r1_req
    BY <1>4, <1>5
  <2>2. r1_req' = IF state = "IDLE" THEN [p EXCEPT !.reload = TRUE] ELSE p
    BY Zenon, <1>1 DEF RequestEdge, Goes, Taking
  <2> HIDE DEF p
  <2>3. p \in SlowReq
    BY <1>1, <2>1
  <2>4. QED
    BY <2>1, <2>2, <2>3
<1>8. PICK r2 : r2 = r1_req'
  OBVIOUS
<1>9. SameReq(r2, r) /\ r2.reload = (state = "IDLE" \/ r.reload)
  <2>1. CASE state = "IDLE"
    <3>1. r2 = [r EXCEPT !.reload = TRUE]
      BY <1>7, <1>8, <2>1
    <3>2. r \in SlowReq
      OBVIOUS
    <3>3. SameReq([r EXCEPT !.reload = TRUE], r) /\ [r EXCEPT !.reload = TRUE].reload
      BY <1>6, <3>2
    <3>4. QED
      BY <2>1, <3>1, <3>3
  <2>2. CASE state # "IDLE"
    <3>1. r2 = r
      BY <1>7, <1>8, <2>2
    <3>2. r \in SlowReq
      OBVIOUS
    <3>3. SameReq(r, r) /\ r.reload \in BOOLEAN
      BY <1>6, <3>2
    <3>4. QED
      BY <2>2, <3>1, <3>3
  <2>3. QED
    BY <2>1, <2>2
<1>11. full \/ Goes => SameReq(r1_req', q) /\ r1_req'.reload = (state = "IDLE" \/ q.reload)
  <2>1. SUFFICES ASSUME full \/ Goes
                 PROVE  SameReq(r1_req', q) /\ r1_req'.reload = (state = "IDLE" \/ q.reload)
    OBVIOUS
  <2>2. r = q
    BY <1>7, <2>1
  <2>3. QED
    BY Zenon, <1>8, <1>9, <2>2
<1>12. ~full /\ ~Goes =>
         SameReq(r1_req', r1_req) /\ r1_req'.reload = (state = "IDLE" \/ r1_req.reload)
  <2>1. SUFFICES ASSUME ~full, ~Goes
                 PROVE  SameReq(r1_req', r1_req) /\ r1_req'.reload = (state = "IDLE" \/ r1_req.reload)
    OBVIOUS
  <2>2. r = r1_req
    BY <1>7, <2>1
  <2>3. QED
    BY Zenon, <1>8, <1>9, <2>2
<1>10. QED
  BY <1>2, <1>3, <1>4, <1>5, <1>11, <1>12

\* The machine looks at the request it has.
LEMMA Held ==
    ASSUME NEW g, NEW in, NEW wbin, NEW f, NEW plru, NEW q, NEW how,
           Turn(g, in, wbin, f, plru, q, how), full
    PROVE  q = r1_req
BY Staged

\* What the machine looks at, and how it ends.
LEMMA Served ==
    ASSUME NEW g, NEW in, NEW wbin, NEW f, NEW plru, NEW q, NEW how,
           Turn(g, in, wbin, f, plru, q, how)
    PROVE  /\ full \/ Slow \/ q.op \notin {"load_miss", "store", "flush", "sync"}
           /\ q.reload => full \/ Slow
           /\ state = "RELOAD_WAIT_ACK" /\ q.reload => q.op = "load_miss" \/ q.dcbz
           /\ full \/ Slow => /\ Serves(q, asked'[1].req) /\ Answered(how, asked'[1].req)
                             /\ Serves(r1_req', asked'[1].req)
           /\ full' = ((full \/ Slow) /\ how = "none") /\ (how # "none" => full \/ Slow)
           /\ how \in {"none", "ls", "mmu", "fail"}
<1>1. /\ TypeOK /\ AtWork /\ RequesterKept /\ q \in SlowReq /\ q = Pending(FALSE, d_data)
      /\ Moved(in, q, how)
  BY DEF Turn, BusInv, Clocked
<1>2. /\ full \/ Slow \/ q.op \notin {"load_miss", "store", "flush", "sync"}
      /\ q.reload => full \/ Slow
      /\ state = "RELOAD_WAIT_ACK" /\ q.reload => q.op = "load_miss" \/ q.dcbz
  BY Zenon, <1>1, Looked DEF Slow
<1>3. /\ full \/ Slow => /\ Serves(q, asked'[1].req) /\ Answered(how, asked'[1].req)
                        /\ Serves(r1_req', asked'[1].req)
      /\ full' = ((full \/ Slow) /\ how = "none") /\ (how # "none" => full \/ Slow)
      /\ how \in {"none", "ls", "mmu", "fail"}
  BY Zenon, <1>1 DEF Moved, Ends, Slow
<1>4. QED
  BY Zenon, <1>2, <1>3

\* Where its request is among those asked for.
LEMMA Placed ==
    ASSUME NEW g, NEW in, NEW wbin, NEW f, NEW plru, NEW q, NEW how,
           Turn(g, in, wbin, f, plru, q, how)
    PROVE  /\ asked' \in Seq(Taken) /\ Remaining \in Seq(Taken)
           /\ Len(asked') = Len(Remaining) + Count(in.valid)
           /\ full \/ Goes => /\ (Completing' <=> ~full')
                             /\ Len(Remaining) = 1 + Count(full /\ Waiting)
                             /\ asked'[1] \in Taken /\ asked'[1].req = Remaining[1].req
           /\ ~full /\ ~Goes => ~Completing' /\ ~full' /\ Len(Remaining) = 0
           /\ Goes => Waiting /\ asked'[1].req = r0.req
           /\ Goes <=> Waiting /\ ~full
           /\ Waiting => Remaining[Len(Remaining)].req = r0.req
           /\ in.valid => asked'[Len(asked')].req = in.req
           /\ \A i \in 1..Len(Remaining) : asked'[i].req = Remaining[i].req
<1>1. TypeOK /\ InOrder /\ Moved(in, q, how)
  BY DEF Turn, BusInv
<1>2. /\ asked' \in Seq(Taken) /\ Remaining \in Seq(Taken)
      /\ Len(asked') = Len(Remaining) + Count(in.valid)
      /\ Waiting => Remaining[Len(Remaining)].req = r0.req
      /\ in.valid => asked'[Len(asked')].req = in.req
      /\ \A i \in 1..Len(Remaining) : asked'[i].req = Remaining[i].req
  BY Zenon, <1>1 DEF Moved
<1>3. /\ full \/ Goes => /\ (Completing' <=> ~full')
                        /\ Len(Remaining) = 1 + Count(full /\ Waiting)
      /\ ~full /\ ~Goes => ~Completing' /\ ~full' /\ Len(Remaining) = 0
  BY Zenon, <1>1, OneEnds DEF Goes
<1>4. Goes => asked'[1].req = r0.req
  BY Zenon, <1>1, Front DEF Goes
<1>5. (Goes <=> Waiting /\ ~full) /\ (Goes => Waiting)
  BY Zenon, <1>1, Queue DEF Goes
<1>6. full \/ Goes => asked'[1] \in Taken /\ asked'[1].req = Remaining[1].req
  <2>1. SUFFICES ASSUME full \/ Goes PROVE asked'[1] \in Taken /\ asked'[1].req = Remaining[1].req
    OBVIOUS
  <2>2. Len(Remaining) \in Nat /\ Len(Remaining) >= 1 /\ Len(asked') >= 1
    BY <1>2, <1>3, <2>1 DEF Count
  <2>3. QED
    BY <1>2, <2>2
<1>7. QED
  BY Zenon, <1>2, <1>3, <1>4, <1>5, <1>6

\* What completes.
LEMMA Finished ==
    ASSUME NEW g, NEW in, NEW wbin, NEW f, NEW plru, NEW q, NEW how,
           Turn(g, in, wbin, f, plru, q, how)
    PROVE  /\ done'.ls_error = (ThisOp = "bad" /\ ~r0.req.mmu)
           /\ done'.mmu_error = (ThisOp = "bad" /\ r0.req.mmu)
           /\ done'.ls_valid = \/ ThisOp \in {"load_hit", "nop"} /\ ~r0.req.mmu
                               \/ how \in {"ls", "fail"}
           /\ done'.mmu_done = ((ThisOp = "load_hit" /\ r0.req.mmu) \/ how = "mmu")
           /\ Completing' = (how # "none" \/ ThisOp \in {"load_hit", "nop", "bad"})
           /\ Slow = (ThisOp \in {"load_miss", "store", "flush", "sync"})
           /\ Goes <=> ThisOp # "none"
           /\ ThisOp \in {"none", "nop", "bad", "load_hit", "load_miss", "store", "flush", "sync"}
<1>1. TypeOK /\ Ends(how)
  BY DEF Turn, BusInv, Moved
<1>2. /\ done'.ls_error = (ThisOp = "bad" /\ ~r0.req.mmu)
      /\ done'.mmu_error = (ThisOp = "bad" /\ r0.req.mmu)
      /\ done'.ls_valid = \/ ThisOp \in {"load_hit", "nop"} /\ ~r0.req.mmu
                          \/ how \in {"ls", "fail"}
      /\ done'.mmu_done = ((ThisOp = "load_hit" /\ r0.req.mmu) \/ how = "mmu")
      /\ Completing' = (how # "none" \/ ThisOp \in {"load_hit", "nop", "bad"})
  BY Zenon, <1>1, DoneWires DEF ThisOp
<1>3. Slow = (ThisOp \in {"load_miss", "store", "flush", "sync"})
  BY DEF Slow, SlowOp, ThisOp
<1>4. ThisOp \in {"none", "nop", "bad", "load_hit", "load_miss", "store", "flush", "sync"}
  BY Zenon, OpType DEF ThisOp
<1>5. Goes <=> ThisOp # "none"
  <2>1. Goes = Go(FALSE) /\ Go(FALSE) \in BOOLEAN
    BY DEF Goes, Go
  <2>2. AccessOp(FALSE) # "none"
    BY DEF AccessOp
  <2>3. QED
    BY <2>1, <2>2 DEF ThisOp, Op
<1>6. QED
  BY Zenon, <1>2, <1>3, <1>4, <1>5

\* The cycle in which a tag is written: nothing is asked, answered or done.
LEMMA Tagging ==
    ASSUME NEW g, NEW in, NEW wbin, NEW f, NEW plru, NEW q, NEW how,
           Turn(g, in, wbin, f, plru, q, how)
    PROVE  /\ Goes \/ in.valid \/ wbin.ack => ~fill.write_tag
           /\ fill.write_tag => full' = full /\ state = "RELOAD_WAIT_ACK" /\ fill.reloading
           /\ full' \in BOOLEAN /\ fill.write_tag \in BOOLEAN /\ fill.reloading \in BOOLEAN
<1>1. /\ full' \in BOOLEAN /\ full \in BOOLEAN /\ wbin.ack \in BOOLEAN
      /\ fill.write_tag \in BOOLEAN /\ fill.reloading \in BOOLEAN
  BY DEF Turn, BusInv, TypeOK, CacheTypeOK, FillReg, Clocked, BusWire
<1>2. fill.write_tag => /\ fill.reloading /\ answers = <<>> /\ ~acks.stalled
                        /\ (~full => ~r0.full) /\ state = "RELOAD_WAIT_ACK"
  BY DEF Turn, CoherenceInv, FillState
<1>3. wbin.ack => answers # <<>> \/ acks.stalled
  BY DEF Turn, Fed
<1>4. in.valid => ~fill.write_tag
  BY DEF Turn, Asks, Allowed, Careful
<1>5. fill.write_tag => ~Goes
  BY <1>1, <1>2, Staged
<1>6. ASSUME fill.write_tag PROVE full' = full
  <2>1. Reload(q, FALSE, plru, wbin)
    BY <1>2, <1>6 DEF Turn, Clocked, Works, Idle, Reload, Store, NcLoad, DoStcx, Flush
  <2>2. ~wbin.ack /\ ~Slow
    BY <1>2, <1>3, <1>5, <1>6, Staged
  <2>3. QED
    BY <1>1, <2>1, <2>2 DEF Reload, Arrives, FullNext, Slow
<1>7. QED
  BY <1>1, <1>2, <1>3, <1>4, <1>5, <1>6

\* What a way holds after a cycle: what it held, or the line whose tag is written.
LEMMA WaysStep ==
    ASSUME NEW g, NEW in, NEW wbin, NEW f, NEW plru, NEW q, NEW how,
           Turn(g, in, wbin, f, plru, q, how)
    PROVE  /\ ~fill.write_tag => tags' = tags
           /\ \A w \in Way, l \in Line : InWay(w, l)' =>
                \/ fill.write_tag /\ l = Target /\ w = ReplaceWay(plru)
                \/ /\ InWay(w, l)
                   /\ ~(fill.write_tag /\ l.index = line.index /\ w = ReplaceWay(plru))
                   /\ ~(snoop.valid /\ l.index = snoop.line.index /\ w \in SnoopHits)
<1>1. /\ tags \in [Index -> [Way -> Tag]] /\ valids \in [Index -> SUBSET Way]
      /\ line.index \in Index /\ line.tag \in Tag /\ line \in LineReg
      /\ plru \in Way /\ ReplaceWay(plru) \in Way
  BY WayType DEF Turn, BusInv, TypeOK, CacheTypeOK, LineReg, Clocked
<1>2. tags' = IF fill.write_tag THEN [tags EXCEPT ![line.index][ReplaceWay(plru)] = line.tag]
              ELSE tags
  BY DEF Turn, Clocked, TagEdge
<1>3. \A i \in Index : valids'[i] \subseteq ValidsNext(plru)[i]
  <2>1. Works(q, d_data, plru, wbin)
    BY DEF Turn, Clocked
  <2>2. \/ valids' = ValidsNext(plru)
        \/ valids' = [ValidsNext(plru) EXCEPT ![line.index] = @ \ {line.way}]
    BY <2>1 DEF Works, Idle, Reload, Store, NcLoad, DoStcx, Flush, ValidsEdge
  <2>3. \A i \in Index : ([ValidsNext(plru) EXCEPT ![line.index] = @ \ {line.way}])[i]
                            \subseteq ValidsNext(plru)[i]
    BY DEF ValidsNext
  <2>4. QED
    BY <2>2, <2>3
<1>4. \A i \in Index : ValidsNext(plru)[i] =
        (valids[i] \ (IF snoop.valid /\ i = snoop.line.index THEN SnoopHits ELSE {}))
        \cup (IF fill.write_tag /\ i = line.index THEN {ReplaceWay(plru)} ELSE {})
  BY DEF ValidsNext
<1>5. ASSUME NEW w \in Way, NEW l \in Line, InWay(w, l)'
      PROVE  \/ fill.write_tag /\ l = Target /\ w = ReplaceWay(plru)
             \/ /\ InWay(w, l)
                /\ ~(fill.write_tag /\ l.index = line.index /\ w = ReplaceWay(plru))
                /\ ~(snoop.valid /\ l.index = snoop.line.index /\ w \in SnoopHits)
  <2>1. /\ l.index \in Index /\ l.tag \in Tag /\ l = [tag |-> l.tag, index |-> l.index]
        /\ w \in valids'[l.index] /\ tags'[l.index][w] = l.tag
    BY <1>5 DEF Line, InWay
  <2>2. CASE fill.write_tag /\ l.index = line.index /\ w = ReplaceWay(plru)
    <3>1. tags'[l.index][w] = line.tag
      BY <1>1, <1>2, <2>1, <2>2
    <3>2. l = Target
      BY <2>1, <2>2, <3>1 DEF Target
    <3>3. QED
      BY <2>2, <3>2
  <2>3. CASE ~(fill.write_tag /\ l.index = line.index /\ w = ReplaceWay(plru))
    <3>1. tags'[l.index][w] = tags[l.index][w]
      BY <1>1, <1>2, <2>1, <2>3
    <3>2. w \in valids[l.index] /\ ~(snoop.valid /\ l.index = snoop.line.index /\ w \in SnoopHits)
      BY <1>3, <1>4, <2>1, <2>3
    <3>3. QED
      BY <2>1, <2>3, <3>1, <3>2 DEF InWay
  <2>4. QED
    BY <2>2, <2>3
<1>6. QED
  BY <1>2, <1>5

\* A line that was stored to from outside is only left in the way it is being
\* refilled to.
LEMMA StaleGoes ==
    ASSUME NEW g, NEW in, NEW wbin, NEW f, NEW plru, NEW q, NEW how,
           Turn(g, in, wbin, f, plru, q, how), NEW w \in Way, NEW l \in Line, Stale(l), InWay(w, l)'
    PROVE  \/ fill.write_tag /\ l = Target /\ w = ReplaceWay(plru)
           \/ InWay(w, l) /\ Refilling(l) /\ w = line.way
<1>1. SUFFICES ASSUME InWay(w, l), ~(snoop.valid /\ l.index = snoop.line.index /\ w \in SnoopHits)
               PROVE  Refilling(l) /\ w = line.way
  BY WaysStep
<1>2. snoop.valid /\ snoop.line = l
  BY DEF Stale
<1>3. snoop.tags[w] # l.tag
  BY <1>1, <1>2 DEF SnoopHits
<1>4. tags[l.index][w] = l.tag
  BY <1>1 DEF InWay
<1>5. /\ fill.reloading /\ ~fill.write_tag /\ w = line.way
      /\ l.index = line.index
  BY <1>2, <1>3, <1>4 DEF Turn, CoherenceInv, SnoopRead
<1>6. tags[line.index][line.way] = line.tag
  BY <1>5 DEF Turn, CoherenceInv, FillState
<1>7. l = Target
  BY <1>4, <1>5, <1>6 DEF Target, Line
<1>8. QED
  BY <1>5, <1>7 DEF Refilling

\* The machine starts a refill, puts a store on the bus, refills, or does none
\* of these.
LEMMA Kinds ==
    ASSUME NEW g, NEW in, NEW wbin, NEW f, NEW plru, NEW q, NEW how,
           Turn(g, in, wbin, f, plru, q, how)
    PROVE  \/ Fills(q)
           \/ Stores(q, wbin)
           \/ Reloads(q, plru, wbin)
           \/ Quiet(wbin)
<1>1. /\ full \in BOOLEAN /\ wb \in BusReg /\ fill \in FillReg /\ line \in LineReg
      /\ q \in SlowReq /\ write_bram \in BOOLEAN /\ wbin \in BusWire
      /\ wb'.stb \in BOOLEAN /\ wb'.we \in BOOLEAN
  BY DEF Turn, BusInv, TypeOK, CacheTypeOK, Clocked, BusReg
<1>2. /\ fill.reloading \/ fill.write_tag => state = "RELOAD_WAIT_ACK"
      /\ state \in {"IDLE", "FLUSH_CYCLE", "DO_STCX"} => ~wb.stb
      /\ state = "NC_LOAD_WAIT_ACK" => ~wb.we
      /\ state = "DO_STCX" => /\ full /\ r1_req.op = "store"
                              /\ wb.adr = r1_req.adr /\ wb.dat = r1_req.dat /\ wb.sel = r1_req.sel
                              /\ wb.we /\ line.row = RowOf(wb.adr)
                              /\ r1_req.hit => line.way = r1_req.way /\ line.ways = r1_req.ways
  BY DEF Turn, BusInv, BusCounted, AtWork, CoherenceInv, FillState, AnswersHold
<1>3. Works(q, d_data, plru, wbin)
  BY DEF Turn, Clocked
<1>4. full \/ Slow \/ q.op \notin {"load_miss", "store", "flush", "sync"}
  BY Served
<1>5. full \/ Slow => \E req \in Requests : Serves(q, req)
  <2>1. SUFFICES ASSUME full \/ Slow PROVE \E req \in Requests : Serves(q, req)
    OBVIOUS
  <2>2. full \/ Goes
    BY <2>1, Staged
  <2>3. Serves(q, asked'[1].req) /\ asked'[1] \in Taken
    BY <2>1, <2>2, Served, Placed
  <2>4. QED
    BY <2>3 DEF Taken
<1>6. (full \/ Slow) /\ q.op = "load_miss" => ~q.dcbz
  BY <1>5 DEF Serves
<1>7. (full \/ Slow) /\ q.op = "store" /\ q.reserve => ~q.dcbz
  BY <1>5, Units DEF Serves
<1>8. CASE Idle(q, FALSE, plru)
  <2>1. state = "IDLE" /\ ~wb.stb /\ write_bram' = (q.op = "store" /\ ~q.reserve /\ ~q.dcbz /\ q.hit)
    BY <1>2, <1>8 DEF Idle
  <2>2. CASE IdleStay(q, FALSE)
    <3>1. q.op # "store"
      BY <1>1, <1>4, <2>2 DEF IdleStay, Slow
    <3>2. Quiet(wbin)
      BY <1>1, <2>1, <2>2, <3>1 DEF IdleStay, NoFill, Quiet
    <3>3. QED
      BY <3>2
  <2>3. CASE IdleMiss(q, FALSE)
    <3>1. Fills(q)
      BY <1>4, <2>1, <2>3 DEF IdleMiss, Fills
    <3>2. QED
      BY <3>1
  <2>4. CASE IdleNcLoad(q, FALSE)
    <3>1. Quiet(wbin)
      BY <2>1, <2>4 DEF IdleNcLoad, NoFill, Quiet, Bus
    <3>2. QED
      BY <3>1
  <2>5. CASE IdleStcx(q, FALSE)
    <3>1. ~wb'.stb /\ state' # "RELOAD_WAIT_ACK" /\ ~write_bram'
      <4>1. CASE ~reservation.valid \/ KillRsrv
        BY <2>1, <2>5, <4>1 DEF IdleStcx
      <4>2. CASE ~(~reservation.valid \/ KillRsrv)
        <5>1. state' = "DO_STCX" /\ Bus(q, TRUE, FALSE)
          BY <2>5, <4>2 DEF IdleStcx
        <5>2. wb'.stb = FALSE
          BY <5>1 DEF Bus
        <5>3. ~write_bram'
          BY <2>1, <2>5 DEF IdleStcx
        <5>4. QED
          BY <5>1, <5>2, <5>3
      <4>3. QED
        BY <4>1, <4>2
    <3>2. Quiet(wbin)
      BY <2>1, <2>5, <3>1 DEF IdleStcx, NoFill, Quiet
    <3>3. QED
      BY <3>2
  <2>6. CASE IdleStore(q, FALSE)
    <3>1. Stores(q, wbin)
      BY <1>1, <1>4, <2>1, <2>6 DEF IdleStore, NoFill, Stores, Bus, Track, SlowReq
    <3>2. QED
      BY <3>1
  <2>7. CASE IdleDcbz(q, FALSE)
    <3>1. Fills(q)
      BY <1>4, <2>1, <2>7 DEF IdleDcbz, Fills
    <3>2. QED
      BY <3>1
  <2>8. CASE IdleFlush(q, FALSE)
    <3>1. Quiet(wbin)
      BY <2>1, <2>8 DEF IdleFlush, NoFill, Quiet
    <3>2. QED
      BY <3>1
  <2>9. CASE IdleSync(q, FALSE)
    <3>1. Quiet(wbin)
      BY <2>1, <2>9 DEF IdleSync, NoFill, Quiet
    <3>2. QED
      BY <3>1
  <2>10. QED
    BY <1>8, <2>2, <2>3, <2>4, <2>5, <2>6, <2>7, <2>8, <2>9 DEF Idle
<1>14. CASE Reload(q, FALSE, plru, wbin)
  <2>1. Reloads(q, plru, wbin)
    BY <1>14 DEF Reload, Reloads, NoWrite, FullNext, Slow
  <2>2. QED
    BY Zenon, <2>1
<1>9. CASE Store(q, FALSE, d_data, plru, wbin)
  <2>1. state = "STORE_WAIT_ACK" /\ fill' = fill /\ ~fill.reloading /\ ~fill.write_tag
    BY <1>1, <1>2, <1>9 DEF Store, FillReg
  <2>2. CASE Follows(q, wbin)
    <3>1. ~wbin.stall /\ q.op = "store" /\ ~q.dcbz
      BY <2>2 DEF Follows, Joins
    <3>2. state' = "STORE_WAIT_ACK"
      <4>1. ~StoresDone(q, wbin)
        BY <2>2 DEF StoresDone, StrobesDone, Follows
      <4>2. QED
        BY <1>9, <2>1, <4>1 DEF Store
    <3>3. Bus(q, TRUE, TRUE) /\ ~full' /\ write_bram' = q.hit
          /\ line' = [line EXCEPT !.way = q.way, !.ways = q.ways, !.row = RowOf(q.adr)]
      BY <1>9, <2>2 DEF Store
    <3>4. Stores(q, wbin)
      BY <1>1, <1>4, <2>1, <3>1, <3>2, <3>3 DEF Stores, Bus, LineReg
    <3>5. QED
      BY <3>4
  <2>3. CASE ~Follows(q, wbin)
    <3>1. /\ wb' = [wb EXCEPT !.cyc = ~StoresDone(q, wbin),
                              !.stb = wb.stb /\ wbin.stall /\ ~StoresDone(q, wbin)]
          /\ ~write_bram' /\ state' # "RELOAD_WAIT_ACK"
      BY <1>9, <2>1, <2>3 DEF Store, NoWrite
    <3>2. wb.stb /\ wbin.stall => ~StoresDone(q, wbin)
      BY DEF StoresDone, StrobesDone
    <3>3. Quiet(wbin)
      BY <1>1, <2>1, <3>1, <3>2 DEF Quiet, BusReg, BusWire
    <3>4. QED
      BY <3>3
  <2>4. QED
    BY <2>2, <2>3
<1>10. CASE NcLoad(FALSE, plru, wbin)
  <2>1. ~wb.we /\ ~fill.reloading /\ ~fill.write_tag
    BY <1>1, <1>2, <1>10 DEF NcLoad, FillReg
  <2>2. ~wb'.we
    BY <1>1, <1>10, <2>1 DEF NcLoad, BusReg
  <2>3. Quiet(wbin)
    BY <1>10, <2>1, <2>2 DEF NcLoad, Quiet, NoWrite
  <2>4. QED
    BY <2>3
<1>11. CASE DoStcx(FALSE, plru, wbin)
  <2>1. /\ state = "DO_STCX" /\ ~wb.stb /\ full /\ q = r1_req /\ r1_req.op = "store" /\ r1_req.reserve
        /\ ~fill.reloading /\ ~fill.write_tag /\ fill' = fill /\ line' = line
    <3>1. state = "DO_STCX" /\ fill' = fill /\ line' = line
      BY <1>11 DEF DoStcx
    <3>2. full /\ r1_req.op = "store" /\ r1_req.reserve
      BY <3>1 DEF Turn, BusInv, AtWork
    <3>3. ~fill.reloading /\ ~fill.write_tag
      <4>1. fill.reloading \in BOOLEAN /\ fill.write_tag \in BOOLEAN /\ state # "RELOAD_WAIT_ACK"
        BY <1>1, <3>1 DEF FillReg
      <4>2. fill.reloading \/ fill.write_tag => state = "RELOAD_WAIT_ACK"
        BY <1>2
      <4>3. QED
        BY <4>1, <4>2
    <3>4. q = r1_req
      <4>1. full => q = r1_req
        BY Held
      <4>2. QED
        BY <3>2, <4>1
    <3>5. QED
      BY <1>2, <3>1, <3>2, <3>3, <3>4
  <2>2. CASE state' = "STORE_WAIT_ACK"
    <3>1. wb' = [wb EXCEPT !.stb = TRUE] /\ ~full' /\ write_bram' = r1_req.hit
      BY <1>11, <2>1, <2>2 DEF DoStcx
    <3>2. Stores(q, wbin)
      BY <1>1, <1>2, <1>7, <2>1, <2>2, <3>1 DEF Stores, BusReg
    <3>3. QED
      BY <3>2
  <2>3. CASE state' # "STORE_WAIT_ACK"
    <3>1. ~wb'.stb /\ ~write_bram' /\ state' # "RELOAD_WAIT_ACK"
      BY <1>1, <1>11, <2>1, <2>3 DEF DoStcx, NoWrite, BusReg
    <3>2. Quiet(wbin)
      BY <2>1, <3>1 DEF Quiet
    <3>3. QED
      BY <3>2
  <2>4. QED
    BY <2>2, <2>3
<1>12. CASE Flush(FALSE, plru)
  <2>1. Quiet(wbin)
    BY <1>1, <1>2, <1>12 DEF Flush, Quiet, NoWrite, FillReg
  <2>2. QED
    BY <2>1
<1>13. QED
  BY Zenon, <1>3, <1>8, <1>9, <1>10, <1>11, <1>12, <1>14 DEF Works

------------------------------------------------------------------------------
\* What stage 0 finds.

Ways0   == HitWays(FALSE)
Way0    == HitWay(FALSE)
Hit0    == IsHit(FALSE)
Reload0 == HitReload(FALSE)
Line0   == LineOf(r0.req.adr)
Second0 == r0.req.op = "load" /\ r0.req.half = "second"

\* The request in stage 0 has its types.
LEMMA Request0 ==
    ASSUME TypeOK
    PROVE  /\ r0.req \in Reqs /\ r0.req \in Req /\ r0.req.adr \in Adr /\ Line0 \in Line
           /\ Line0.index = r0.req.adr.index /\ Line0.tag = r0.req.adr.tag
           /\ r0.req.adr.row \in Row /\ r0.req.op \in {"load", "store", "dcbz", "touch", "flush", "sync"}
           /\ r0.req.nc \in BOOLEAN /\ r0.req.ok \in BOOLEAN /\ r0.req.reserve \in BOOLEAN
           /\ r0.req.mmu \in BOOLEAN /\ r0.req.half \in {"whole", "first", "second"}
           /\ r0.full \in BOOLEAN
           /\ (r0.req \in Requests \/ r0.req = NoReq)
<1>1. r0.req \in Reqs /\ r0.full \in BOOLEAN
  BY DEF TypeOK, CacheTypeOK, Reqs
<1>2. r0.req \in Req
  BY <1>1, ReqTypes
<1>3. r0.req.adr \in Adr /\ Line0 \in Line /\ r0.req.adr.row \in Row
  BY <1>2, ReqTypes DEF Line0
<1>4. QED
  BY <1>1, <1>2, <1>3 DEF Req, Line0, LineOf, Reqs

\* Which ways hit, and what is known of the row in the way that does.
LEMMA Hits ==
    ASSUME NEW g, NEW in, NEW wbin, NEW f, NEW plru, NEW q, NEW how,
           Turn(g, in, wbin, f, plru, q, how), Goes
    PROVE  /\ Ways0 \in SUBSET Way /\ Way0 \in Way
           /\ \A w \in Way : InWay(w, Line0) => w \in Ways0
           /\ ~Second0 => \A w \in Ways0 : InWay(w, Line0)
           /\ Second0 /\ ~r0.req.nc => prev_ways = Ways0
           /\ ~(Second0 /\ r0.req.nc) => Ways0 = {} \/ Ways0 = {Way0}
           /\ Hit0 => Way0 \in Ways0
           /\ Hit0 /\ r0.req.op \in {"load", "flush"} /\ Refilling(Line0)
                /\ ~(Second0 /\ r0.req.nc)
                => r0.req.adr.row \in line.rows_valid
           /\ ~Hit0 /\ ~Reload0 => Ways0 = {}
           /\ Reload0 => /\ fill.reloading /\ ~fill.write_tag /\ Line0 = Target
                         /\ Way0 = line.way /\ r0.req.adr.row \notin line.rows_valid
                         /\ r0.req.op \in {"load", "flush"} /\ ~Hit0
           /\ Reload0 \in BOOLEAN /\ Hit0 \in BOOLEAN
<1> DEFINE a    == r0.req.adr
           Late == /\ fill.reloading /\ a.index = line.index /\ r0.req.op \in {"load", "flush"}
                   /\ a.row \notin line.rows_valid
<1>1. /\ TypeOK /\ CacheTypeOK /\ StageRead /\ Unique /\ FillState /\ PairKept /\ tag_set \in [Way -> Tag]
      /\ prev_ways \subseteq Way /\ line \in LineReg /\ fill \in FillReg
  BY DEF Turn, BusInv, TypeOK, CacheTypeOK, CoherenceInv
<1>2. /\ r0.full /\ ~full /\ ~done.ls_error /\ ~fill.write_tag
  BY Staged, Tagging
<1>3. /\ a \in Adr /\ Line0 \in Line /\ Line0.index = a.index /\ Line0.tag = a.tag /\ a.row \in Row
  BY <1>1, Request0
<1>4. Ways0 = {w \in Way : InWay(w, Line0) \/ (Second0 /\ w \in prev_ways)}
  <2>1. tag_set = tags[a.index]
    BY <1>1, <1>2 DEF StageRead
  <2>2. Go(FALSE)
    BY DEF Goes
  <2>3. QED
    BY <1>3, <2>1, <2>2 DEF Ways0, HitWays, InWay, Second0
<1>5. Ways0 \in SUBSET Way /\ (Ways0 # {} => Way0 \in Ways0) /\ Way0 \in Way
  <2>1. Ways0 \in SUBSET Way
    BY <1>4
  <2>2. Way0 = IF Ways0 = {} THEN 0 ELSE Max(Ways0)
    BY Zenon DEF Way0, HitWay, Ways0
  <2>3. QED
    BY <2>1, <2>2, Largest, Sizes
<1>6. /\ Hit0 = (Way0 \in Ways0 /\ ~(Way0 \in line.ways /\ Late))
      /\ Reload0 = (Way0 \in Ways0 /\ Way0 \in line.ways /\ Late)
  <2>1. Go(FALSE)
    BY DEF Goes
  <2>2. IdxReload(FALSE) = {w \in line.ways : Late}
    BY <2>1 DEF IdxReload
  <2>3. /\ Hit0 = (Go(FALSE) /\ Way0 \in Ways0 \ IdxReload(FALSE))
        /\ Reload0 = (Go(FALSE) /\ Way0 \in Ways0 \cap IdxReload(FALSE))
    BY Zenon DEF Hit0, Reload0, IsHit, HitReload, Way0, Ways0
  <2> HIDE DEF Late
  <2>4. PICK S, go : S = IdxReload(FALSE) /\ go = Go(FALSE)
    OBVIOUS
  <2>5. S = {w \in line.ways : Late}
    BY Zenon, <2>2, <2>4
  <2>6. /\ Hit0 = (go /\ Way0 \in Ways0 \ S) /\ Reload0 = (go /\ Way0 \in Ways0 \cap S) /\ go
    BY Zenon, <2>1, <2>3, <2>4
  <2>7. QED
    BY <2>5, <2>6
<1>7. Second0 => /\ Open("load") /\ Second = a /\ (~r0.req.nc => Parted)
  BY <1>2 DEF Second0, Open, Second, Parted
<1>8. Second0 /\ ~r0.req.nc => \E w \in Way : prev_ways = {w} /\ Ways0 = {w}
  <2>1. SUFFICES ASSUME Second0, ~r0.req.nc
                 PROVE  \E w \in Way : prev_ways = {w} /\ Ways0 = {w}
    OBVIOUS
  <2>2. PICK w \in Way : prev_ways = {w} /\ \A v \in Way : InWay(v, LineOf(Second)) => v = w
    BY <1>1, <1>2, <1>7, <2>1 DEF PairKept
  <2>3. LineOf(Second) = Line0
    BY <1>7, <2>1 DEF Line0
  <2>4. QED
    BY <1>4, <2>1, <2>2, <2>3
<1>9. ~Second0 => \A w \in Ways0 : InWay(w, Line0)
  BY <1>4
<1>10. ~Second0 => \A v, w \in Ways0 : v = w
  <2>1. \A v, w \in Way : InWay(v, Line0) /\ InWay(w, Line0) => v = w
    BY <1>1, <1>3 DEF Unique
  <2>2. QED
    BY <1>5, <1>9, <2>1
<1>11. ~(Second0 /\ r0.req.nc) => Ways0 = {} \/ Ways0 = {Way0}
  BY <1>5, <1>8, <1>10
<1>12. Second0 /\ r0.req.nc => ~fill.reloading
  <2>1. SUFFICES ASSUME Second0, r0.req.nc PROVE ~fill.reloading
    OBVIOUS
  <2>2. state # "RELOAD_WAIT_ACK"
    BY <1>1, <1>7, <2>1 DEF PairKept
  <2>3. QED
    BY <1>1, <2>2 DEF FillState
<1>13. fill.reloading => line.ways = {line.way} /\ tags[line.index][line.way] = line.tag
                         /\ \A w \in Way : InWay(w, Target) => w = line.way
  BY <1>1, <1>2 DEF FillState
<1>14. ASSUME Way0 \in Ways0, Way0 \in line.ways, Late
       PROVE  Line0 = Target /\ Way0 = line.way
  <2>1. Way0 = line.way /\ fill.reloading /\ ~(Second0 /\ r0.req.nc)
    BY <1>12, <1>13, <1>14
  <2>2. CASE Second0
    <3>1. Parted /\ Second = a /\ state = "RELOAD_WAIT_ACK"
      BY <1>1, <1>7, <2>1, <2>2 DEF FillState
    <3>2. LineOf(a) = Target
      BY <1>1, <3>1 DEF PairKept
    <3>3. QED
      BY <2>1, <3>2 DEF Line0
  <2>3. CASE ~Second0
    <3>1. tags[Line0.index][line.way] = Line0.tag
      BY <1>9, <1>14, <2>1, <2>3 DEF InWay
    <3>2. Line0 = Target
      BY <1>3, <1>13, <1>14, <2>1, <3>1 DEF Target, Line
    <3>3. QED
      BY <2>1, <3>2
  <2>4. QED
    BY <2>2, <2>3
<1>15. ASSUME Hit0, r0.req.op \in {"load", "flush"}, Refilling(Line0), ~(Second0 /\ r0.req.nc)
       PROVE  a.row \in line.rows_valid
  <2>1. fill.reloading /\ Line0 = Target /\ a.index = line.index
    BY <1>3, <1>15 DEF Refilling, Target
  <2>2. Way0 \in Ways0 /\ line.ways = {line.way}
    BY <1>6, <1>13, <1>15, <2>1
  <2>3. Way0 = line.way
    <3>1. CASE Second0
      <4>1. Parted /\ state = "RELOAD_WAIT_ACK"
        BY <1>1, <1>7, <1>15, <2>1, <3>1 DEF FillState
      <4>2. prev_ways = {line.way}
        BY <1>1, <1>2, <4>1 DEF PairKept
      <4>3. QED
        BY <1>8, <1>15, <2>2, <3>1, <4>2
    <3>2. CASE ~Second0
      BY <1>5, <1>9, <1>13, <2>1, <2>2, <3>2
    <3>3. QED
      BY <3>1, <3>2
  <2>4. QED
    BY <1>6, <1>15, <2>1, <2>2, <2>3
<1>16. ~Hit0 /\ ~Reload0 => Ways0 = {}
  BY <1>5, <1>6
<1>17. Reload0 => /\ fill.reloading /\ ~fill.write_tag /\ Line0 = Target
                  /\ Way0 = line.way /\ a.row \notin line.rows_valid
                  /\ r0.req.op \in {"load", "flush"} /\ ~Hit0
  BY <1>2, <1>6, <1>14
<1>18. /\ \A w \in Way : InWay(w, Line0) => w \in Ways0
       /\ Second0 /\ ~r0.req.nc => prev_ways = Ways0
       /\ Hit0 => Way0 \in Ways0
       /\ Reload0 \in BOOLEAN /\ Hit0 \in BOOLEAN
  BY <1>4, <1>6, <1>8
<1> HIDE DEF Late
<1>19. QED
  BY <1>5, <1>9, <1>11, <1>15, <1>16, <1>17, <1>18

\* The fields of a request of stage 0.
LEMMA Fields ==
    ASSUME NEW g, NEW in, NEW wbin, NEW f, NEW plru, NEW q, NEW how,
           Turn(g, in, wbin, f, plru, q, how), Goes
    PROVE  /\ ~full /\ r0.full
           /\ q.op = ThisOp /\ q.adr = r0.req.adr /\ q.nc = r0.req.nc /\ q.reserve = r0.req.reserve
           /\ q.dat = (IF r0.req.op = "dcbz" THEN 0 ELSE R0Dat)
           /\ q.sel <=> (r0.req.sel \/ r0.req.op = "dcbz" \/ (r0.req.op = "load" /\ ~r0.req.nc))
           /\ (q.dcbz <=> r0.req.op = "dcbz") /\ (q.touch <=> r0.req.op = "touch")
           /\ (q.first <=> r0.req.half # "second") /\ (q.last <=> r0.req.half # "first")
           /\ q.hit = Hit0 /\ q.way = Way0 /\ q.ways = Ways0 /\ q.mmu = r0.req.mmu
<1>1. r0.full /\ ~full /\ q = Taking
  BY Staged
<1>2. q = [op     |-> ThisOp,
     adr    |-> r0.req.adr,
     dat    |-> IF r0.req.op = "dcbz" THEN 0 ELSE R0Dat,
     sel    |-> \/ r0.req.sel
                \/ r0.req.op = "dcbz"
                \/ r0.req.op = "load" /\ ~r0.req.nc,
     dcbz   |-> r0.req.op = "dcbz",
     touch  |-> r0.req.op = "touch",
     reserve |-> r0.req.reserve,
     first  |-> r0.req.half # "second",
     last   |-> r0.req.half # "first",
     nc     |-> r0.req.nc,
     mmu    |-> r0.req.mmu,
     hit    |-> Hit0,
     way    |-> Way0,
     ways   |-> Ways0,
     reload |-> Reload0 /\ ThisOp = "load_miss",
     same_page |-> PageOf[LineOf(r0.req.adr)] = PageOf[LineOf(wb.adr)]]
  BY Zenon, <1>1 DEF Taking, Decoded, ThisOp, R0Dat, Hit0, Way0, Ways0, Reload0
<1>3. /\ q.op = ThisOp /\ q.adr = r0.req.adr /\ q.nc = r0.req.nc /\ q.reserve = r0.req.reserve
      /\ q.dat = (IF r0.req.op = "dcbz" THEN 0 ELSE R0Dat)
      /\ q.sel = (r0.req.sel \/ r0.req.op = "dcbz" \/ (r0.req.op = "load" /\ ~r0.req.nc))
      /\ q.dcbz = (r0.req.op = "dcbz") /\ q.touch = (r0.req.op = "touch")
      /\ q.first = (r0.req.half # "second") /\ q.last = (r0.req.half # "first")
      /\ q.hit = Hit0 /\ q.way = Way0 /\ q.ways = Ways0 /\ q.mmu = r0.req.mmu
      /\ q.reload = (Reload0 /\ ThisOp = "load_miss")
  BY <1>2
<1>4. QED
  BY <1>1, <1>3

\* And what it makes of it.
LEMMA Decode ==
    ASSUME NEW g, NEW in, NEW wbin, NEW f, NEW plru, NEW q, NEW how,
           Turn(g, in, wbin, f, plru, q, how), Goes
    PROVE  /\ q.op = ThisOp /\ q.adr = r0.req.adr /\ q.nc = r0.req.nc /\ q.reserve = r0.req.reserve
           /\ q.dat = (IF r0.req.op = "dcbz" THEN 0 ELSE R0Dat)
           /\ q.sel = (r0.req.sel \/ r0.req.op = "dcbz" \/ (r0.req.op = "load" /\ ~r0.req.nc))
           /\ q.dcbz = (r0.req.op = "dcbz") /\ q.touch = (r0.req.op = "touch")
           /\ q.first = (r0.req.half # "second") /\ q.last = (r0.req.half # "first")
           /\ q.hit = Hit0 /\ q.way = Way0 /\ q.ways = Ways0
           /\ ThisOp = "store" => r0.req.op \in {"store", "dcbz"} /\ r0.req.ok /\ StoreHits(q) /\ ~q.reload
           /\ ThisOp = "load_miss" =>
                /\ r0.req.op \in {"load", "touch"} /\ r0.req.ok /\ ~Hit0
                /\ q.reload = Reload0
                /\ ~q.reload => \A w \in Way : ~InWay(w, Line0)
                /\ q.reload => /\ r0.req.op = "load" /\ fill.reloading /\ ~fill.write_tag
                               /\ state = "RELOAD_WAIT_ACK" /\ Line0 = Target /\ ~fill.dcbz
                               /\ r0.req.adr.row \notin line.rows_valid
           /\ ThisOp = "load_hit" =>
                /\ r0.req.op \in {"load", "touch"} /\ r0.req.ok /\ Hit0 /\ ~r0.req.nc /\ Ways0 = {Way0}
           /\ ThisOp \in {"flush", "sync"} => ~q.reload
           /\ ThisOp = "flush" => r0.req.op = "flush"
           /\ ThisOp = "sync" => r0.req.op = "sync"
           /\ ThisOp = "nop" => r0.req.op \in {"touch", "flush"}
<1>1. /\ TypeOK /\ r0.full /\ ~full /\ q = Taking
  BY Staged DEF Turn, BusInv
<1>2. /\ q.op = ThisOp /\ q.adr = r0.req.adr /\ q.nc = r0.req.nc /\ q.reserve = r0.req.reserve
      /\ q.dat = (IF r0.req.op = "dcbz" THEN 0 ELSE R0Dat)
      /\ q.sel = (r0.req.sel \/ r0.req.op = "dcbz" \/ (r0.req.op = "load" /\ ~r0.req.nc))
      /\ q.dcbz = (r0.req.op = "dcbz") /\ q.touch = (r0.req.op = "touch")
      /\ q.first = (r0.req.half # "second") /\ q.last = (r0.req.half # "first")
      /\ q.hit = Hit0 /\ q.way = Way0 /\ q.ways = Ways0
      /\ q.reload = (Reload0 /\ ThisOp = "load_miss")
  <2>1. q = [op     |-> ThisOp,
     adr    |-> r0.req.adr,
     dat    |-> IF r0.req.op = "dcbz" THEN 0 ELSE R0Dat,
     sel    |-> \/ r0.req.sel
                \/ r0.req.op = "dcbz"
                \/ r0.req.op = "load" /\ ~r0.req.nc,
     dcbz   |-> r0.req.op = "dcbz",
     touch  |-> r0.req.op = "touch",
     reserve |-> r0.req.reserve,
     first  |-> r0.req.half # "second",
     last   |-> r0.req.half # "first",
     nc     |-> r0.req.nc,
     mmu    |-> r0.req.mmu,
     hit    |-> Hit0,
     way    |-> Way0,
     ways   |-> Ways0,
     reload |-> Reload0 /\ ThisOp = "load_miss",
     same_page |-> PageOf[LineOf(r0.req.adr)] = PageOf[LineOf(wb.adr)]]
    BY Zenon, <1>1 DEF Taking, Decoded, ThisOp, R0Dat, Hit0, Way0, Ways0, Reload0
  <2>2. QED
    BY <2>1
<1>3. /\ r0.req.op \in {"load", "store", "dcbz", "touch", "flush", "sync"}
      /\ r0.req.nc \in BOOLEAN /\ r0.req.ok \in BOOLEAN /\ r0.req.reserve \in BOOLEAN
      /\ Line0 = LineOf(q.adr) /\ Line0.index = q.adr.index /\ Line0.tag = q.adr.tag
  BY <1>1, <1>2, Request0 DEF Line0
<1>4. /\ Ways0 \in SUBSET Way /\ Way0 \in Way
      /\ \A w \in Way : InWay(w, Line0) => w \in Ways0
      /\ ~Second0 => \A w \in Ways0 : InWay(w, Line0)
      /\ ~(Second0 /\ r0.req.nc) => Ways0 = {} \/ Ways0 = {Way0}
      /\ Hit0 => Way0 \in Ways0
      /\ ~Hit0 /\ ~Reload0 => Ways0 = {}
      /\ Reload0 => /\ fill.reloading /\ ~fill.write_tag /\ Line0 = Target
                    /\ r0.req.adr.row \notin line.rows_valid
                    /\ r0.req.op \in {"load", "flush"} /\ ~Hit0
      /\ Reload0 \in BOOLEAN /\ Hit0 \in BOOLEAN
  BY Hits
<1>5. Go(FALSE)
  BY DEF Goes
<1>6. ThisOp = "store" => r0.req.op \in {"store", "dcbz"} /\ r0.req.ok /\ (Hit0 => ~r0.req.nc)
  <2>1. ThisOp = "store" => r0.req.op \in {"store", "dcbz"} /\ r0.req.ok
    BY Zenon, <1>3, <1>5 DEF ThisOp, Op, AccessOp, Hit0
  <2>2. ASSUME r0.req.op \in {"store", "dcbz"}, r0.req.ok, Hit0, r0.req.nc
        PROVE  ThisOp = "bad"
    BY Zenon, <1>3, <1>5, <2>2 DEF ThisOp, Op, AccessOp, Hit0
  <2>3. QED
    BY <1>3, <2>1, <2>2
<1>7. ThisOp = "load_miss" => /\ r0.req.op \in {"load", "touch"} /\ r0.req.ok /\ ~Hit0
  BY Zenon, <1>3, <1>5 DEF ThisOp, Op, AccessOp, Hit0
<1>8. ThisOp = "load_hit" => /\ r0.req.op \in {"load", "touch"} /\ r0.req.ok /\ Hit0 /\ ~r0.req.nc
  BY Zenon, <1>3, <1>5 DEF ThisOp, Op, AccessOp, Hit0
<1>9. /\ ThisOp = "flush" => r0.req.op = "flush"
      /\ ThisOp = "sync" => r0.req.op = "sync"
      /\ ThisOp = "nop" => r0.req.op \in {"touch", "flush"}
  BY Zenon, <1>3, <1>5 DEF ThisOp, Op, AccessOp, Hit0
<1>10. ThisOp = "store" => StoreHits(q) /\ ~q.reload
  <2>1. SUFFICES ASSUME ThisOp = "store" PROVE StoreHits(q) /\ ~q.reload
    OBVIOUS
  <2>2. ~Second0 /\ ~Reload0
    BY <1>4, <1>6, <2>1 DEF Second0
  <2>3. CASE Hit0
    <3>1. Ways0 = {Way0} /\ InWay(Way0, Line0) /\ ~r0.req.nc
      BY <1>4, <1>6, <2>1, <2>2, <2>3
    <3>2. tags[q.adr.index][q.way] = q.adr.tag
      BY <1>2, <1>3, <3>1 DEF InWay
    <3>3. QED
      BY <1>2, <1>3, <1>4, <2>2, <2>3, <3>1, <3>2 DEF StoreHits
  <2>4. CASE ~Hit0
    BY <1>2, <1>3, <1>4, <2>2, <2>4 DEF StoreHits
  <2>5. QED
    BY <2>3, <2>4
<1>11. ThisOp = "load_miss" =>
         /\ q.reload = Reload0
         /\ ~q.reload => \A w \in Way : ~InWay(w, Line0)
         /\ q.reload => /\ r0.req.op = "load" /\ fill.reloading /\ ~fill.write_tag
                        /\ state = "RELOAD_WAIT_ACK" /\ Line0 = Target /\ ~fill.dcbz
                               /\ r0.req.adr.row \notin line.rows_valid
  <2>1. SUFFICES ASSUME ThisOp = "load_miss"
                 PROVE  /\ q.reload = Reload0
                        /\ ~q.reload => \A w \in Way : ~InWay(w, Line0)
                        /\ q.reload => /\ r0.req.op = "load" /\ fill.reloading /\ ~fill.write_tag
                                       /\ state = "RELOAD_WAIT_ACK" /\ Line0 = Target /\ ~fill.dcbz
                               /\ r0.req.adr.row \notin line.rows_valid
    OBVIOUS
  <2>2. q.reload = Reload0
    BY <1>2, <1>4, <2>1
  <2>3. ~q.reload => \A w \in Way : ~InWay(w, Line0)
    BY <1>4, <1>7, <2>1, <2>2
  <2>4. q.reload => /\ r0.req.op = "load" /\ fill.reloading /\ ~fill.write_tag
                    /\ Line0 = Target /\ r0.req.adr.row \notin line.rows_valid
    BY <1>4, <1>7, <2>1, <2>2
  <2>5. q.reload => state = "RELOAD_WAIT_ACK"
    BY <2>4 DEF Turn, CoherenceInv, FillState
  <2>6. q.reload => ~fill.dcbz
    BY <1>1, <2>4, <2>5 DEF Turn, CoherenceInv, Zeroes, Line0
  <2>8. QED
    BY <2>2, <2>3, <2>4, <2>5, <2>6
<1>12. QED
  BY <1>2, <1>3, <1>4, <1>6, <1>7, <1>8, <1>9, <1>10, <1>11

------------------------------------------------------------------------------
\* Types, rows and memory in a cycle.

LEMMA Typed ==
    ASSUME NEW g, NEW in, NEW wbin, NEW f, NEW plru, NEW q, NEW how,
           Turn(g, in, wbin, f, plru, q, how)
    PROVE  /\ TypeOK /\ CacheTypeOK /\ full \in BOOLEAN /\ full' \in BOOLEAN
           /\ q \in SlowReq /\ r1_req \in SlowReq /\ r1_req' \in SlowReq
           /\ wb \in BusReg /\ wb' \in BusReg /\ fill \in FillReg /\ fill' \in FillReg
           /\ line \in LineReg /\ line' \in LineReg /\ wbin \in BusWire /\ plru \in Way
           /\ in.valid \in BOOLEAN /\ in.req \in Reqs /\ in.dat \in Val
           /\ f.valid \in BOOLEAN /\ f.adr \in Adr /\ f.dat \in Val
           /\ mem \in [Adr -> Val] /\ mem' \in [Adr -> Val] /\ g \in BOOLEAN
           /\ write_bram \in BOOLEAN /\ write_bram' \in BOOLEAN
           /\ tags \in [Index -> [Way -> Tag]] /\ valids \in [Index -> SUBSET Way]
           /\ ram \in [Way -> [Index -> [Row -> Val]]] /\ ReplaceWay(plru) \in Way
           /\ answers \in Seq(Owing) /\ answers' \in Seq(Owing)
           /\ snoop \in SnoopReg /\ snoop' \in SnoopReg
           /\ fwd \in FwdReg /\ dout \in [Way -> Val] /\ done \in DoneReg /\ done' \in DoneReg
<1>1. TypeOK /\ TypeOK' /\ CacheTypeOK /\ CacheTypeOK' /\ Asks(in) /\ Clocked(in, wbin, f, plru, q)
      /\ Fed(g, wbin, f)
  BY DEF Turn, BusInv, TypeOK
<1>2. ReplaceWay(plru) \in Way /\ plru \in Way
  BY <1>1, WayType DEF Clocked
<1>3. /\ full \in BOOLEAN /\ r1_req \in SlowReq
      /\ wb \in BusReg /\ fill \in FillReg /\ line \in LineReg /\ write_bram \in BOOLEAN
      /\ tags \in [Index -> [Way -> Tag]] /\ valids \in [Index -> SUBSET Way]
      /\ ram \in [Way -> [Index -> [Row -> Val]]]
      /\ snoop \in SnoopReg /\ fwd \in FwdReg /\ dout \in [Way -> Val] /\ done \in DoneReg
  BY Zenon, <1>1 DEF CacheTypeOK
<1>4. /\ full' \in BOOLEAN /\ r1_req' \in SlowReq
      /\ wb' \in BusReg /\ fill' \in FillReg /\ line' \in LineReg /\ write_bram' \in BOOLEAN
      /\ snoop' \in SnoopReg /\ done' \in DoneReg
  BY Zenon, <1>1 DEF CacheTypeOK
<1>5. mem \in [Adr -> Val] /\ mem' \in [Adr -> Val] /\ answers \in Seq(Owing) /\ answers' \in Seq(Owing)
  BY Zenon, <1>1 DEF TypeOK
<1>6. q \in SlowReq /\ wbin \in BusWire
  BY Zenon, <1>1 DEF Clocked
<1>7. in.valid \in BOOLEAN /\ in.req \in Reqs /\ in.dat \in Val
  BY <1>1 DEF Asks
<1>8. f.valid \in BOOLEAN /\ f.adr \in Adr /\ f.dat \in Val /\ g \in BOOLEAN
  BY <1>1 DEF Fed
<1>9. QED
  BY Zenon, <1>1, <1>2, <1>3, <1>4, <1>5, <1>6, <1>7, <1>8

\* Lines and rows as records.
LEMMA Records ==
    ASSUME TypeOK
    PROVE  /\ line.index \in Index /\ line.tag \in Tag /\ line.end \in Row /\ line.way \in Way
           /\ line.row \in RowAdr /\ line.row.index \in Index /\ line.row.row \in Row
           /\ line.rows_valid \subseteq Row /\ line.ways \subseteq Way
           /\ Target \in Line /\ Target.index = line.index /\ Target.tag = line.tag
           /\ \A r \in Row : /\ TargetRow(r) \in Adr /\ LineOf(TargetRow(r)) = Target
                             /\ TargetRow(r).row = r /\ TargetRow(r).index = line.index
           /\ \A a \in Adr : LineOf(a) = Target => a = TargetRow(a.row)
           /\ \A a, b \in Adr : a = b <=> LineOf(a) = LineOf(b) /\ a.row = b.row
           /\ \A a \in Adr : /\ a.index \in Index /\ a.tag \in Tag /\ a.row \in Row
                             /\ LineOf(a) \in Line /\ LineOf(a).index = a.index /\ LineOf(a).tag = a.tag
                             /\ RowOf(a) \in RowAdr
                             /\ line.row = RowOf(a) <=> line.row.index = a.index /\ line.row.row = a.row
           /\ \A x \in Way : line.row.row \in Row
<1>1. line \in LineReg
  BY DEF TypeOK, CacheTypeOK
<1>2. QED
  BY <1>1 DEF LineReg, Target, TargetRow, Line, Adr, LineOf, RowAdr, RowOf

\* Rows are told apart by how far they are ahead.
LEMMA AheadInjective ==
    ASSUME TypeOK, NEW m \in Row, NEW n \in Row
    PROVE  /\ Ahead(m) \in Nat /\ Ahead(n) \in Nat
           /\ Ahead(m) = Ahead(n) <=> m = n
<1>1. line.end \in Row
  BY Records
<1>2. QED
  BY <1>1, Sizes DEF Row, Ahead

\* What memory becomes, and when another master may have stored to it.
LEMMA Memory ==
    ASSUME NEW g, NEW in, NEW wbin, NEW f, NEW plru, NEW q, NEW how,
           Turn(g, in, wbin, f, plru, q, how)
    PROVE  /\ Sent(wbin) /\ wb.we /\ wb.sel => mem' = [mem EXCEPT ![wb.adr] = wb.dat]
           /\ ~(Sent(wbin) /\ wb.we /\ wb.sel) =>
                mem' = IF f.valid THEN [mem EXCEPT ![f.adr] = f.dat] ELSE mem
           /\ f.valid => ~g /\ ~Sent(wbin) /\ ~mine
           /\ Sent(wbin) => g
           /\ snoop'.valid = f.valid
           /\ f.valid => snoop'.line = LineOf(f.adr) /\ snoop'.tags = tags[LineOf(f.adr).index]
           /\ Sent(wbin) \in BOOLEAN
<1>1. /\ g \in BOOLEAN /\ f.valid \in BOOLEAN /\ wbin \in BusWire /\ wb \in BusReg /\ snoop \in SnoopReg
  BY Typed
<1>2. /\ mine => g
      /\ ~wbin.stall => g
      /\ f.valid => ~g
      /\ mem' = IF Sent(wbin) /\ wb.we /\ wb.sel THEN [mem EXCEPT ![wb.adr] = wb.dat]
                ELSE IF f.valid THEN [mem EXCEPT ![f.adr] = f.dat] ELSE mem
  BY Zenon DEF Turn, Fed
<1>3. Sent(wbin) => ~wbin.stall
  BY DEF Sent
<1>4. SnoopEdge(Snooped(f))
  BY DEF Turn, Clocked
<1>5. /\ snoop'.valid = f.valid
      /\ f.valid => snoop'.line = LineOf(f.adr) /\ snoop'.tags = tags[LineOf(f.adr).index]
  BY <1>1, <1>4 DEF SnoopEdge, Snooped, SnoopReg
<1>6. Sent(wbin) \in BOOLEAN
  BY DEF Sent
<1>7. QED
  BY <1>1, <1>2, <1>3, <1>5, <1>6

\* What a row of the data RAM becomes, and what is forwarded.
LEMMA RamStep ==
    ASSUME NEW g, NEW in, NEW wbin, NEW f, NEW plru, NEW q, NEW how,
           Turn(g, in, wbin, f, plru, q, how), NEW w \in Way, NEW i \in Index, NEW r \in Row
    PROVE  /\ ram'[w][i][r] =
                IF RamWrite(wbin) /\ RamSel /\ w = ReplaceWay(plru)
                   /\ line.row.index = i /\ line.row.row = r
                THEN RamDat(wbin) ELSE ram[w][i][r]
           /\ fwd'.valid = RamWrite(wbin)
           /\ RamWrite(wbin) => /\ fwd'.row = line.row /\ fwd'.way = ReplaceWay(plru)
                                /\ fwd'.dat = RamDat(wbin) /\ fwd'.sel = RamSel
<1>1. RamEdge(plru, wbin)
  BY DEF Turn, Clocked
<1>2. /\ line.row.index \in Index /\ line.row.row \in Row /\ ReplaceWay(plru) \in Way
      /\ ram \in [Way -> [Index -> [Row -> Val]]] /\ fwd \in FwdReg
  BY Typed, Records
<1>3. RamWrite(wbin) \in BOOLEAN
  BY Typed DEF RamWrite, FillReg, BusWire
<1>4. /\ ram' = IF RamWrite(wbin) /\ RamSel
                THEN [ram EXCEPT ![ReplaceWay(plru)][line.row.index][line.row.row] = RamDat(wbin)]
                ELSE ram
      /\ fwd' = IF RamWrite(wbin)
                THEN [valid |-> TRUE, row |-> line.row, way |-> ReplaceWay(plru),
                      dat |-> RamDat(wbin), sel |-> RamSel]
                ELSE [fwd EXCEPT !.valid = FALSE]
  BY Zenon, <1>1 DEF RamEdge
<1>5. ram'[w][i][r] =
        IF RamWrite(wbin) /\ RamSel /\ w = ReplaceWay(plru)
           /\ line.row.index = i /\ line.row.row = r
        THEN RamDat(wbin) ELSE ram[w][i][r]
  BY <1>2, <1>4
<1>6. CASE RamWrite(wbin)
  BY <1>4, <1>5, <1>6
<1>7. CASE ~RamWrite(wbin)
  BY <1>2, <1>3, <1>4, <1>5, <1>7 DEF FwdReg
<1>8. QED
  BY <1>6, <1>7

------------------------------------------------------------------------------
\* The strobes of a refill and their answers.

LEMMA Strobes ==
    ASSUME NEW g, NEW in, NEW wbin, NEW f, NEW plru, NEW q, NEW how,
           Turn(g, in, wbin, f, plru, q, how), Reloads(q, plru, wbin)
    PROVE  /\ \A r \in Row : Ahead(r)' = Ahead(r)
           /\ line'.row.row = IF wbin.ack THEN NextRow(line.row.row) ELSE line.row.row
           /\ line'.row.index = line.row.index /\ line'.index = line.index /\ line'.tag = line.tag
           /\ line'.way = ReplaceWay(plru)
           /\ line'.ways = IF fill.write_tag THEN {ReplaceWay(plru)} ELSE line.ways
           /\ line'.rows_valid = IF wbin.ack THEN line.rows_valid \cup {line.row.row} ELSE line.rows_valid
           /\ Target' = Target
           /\ \A r \in Row : TargetRow(r)' = TargetRow(r)
           /\ wb'.we = wb.we /\ wb'.sel = wb.sel /\ wb'.dat = wb.dat /\ LineOf(wb'.adr) = LineOf(wb.adr)
           /\ wb'.cyc = ~LastAck(wbin)
           /\ wb'.stb = (wb.stb /\ ~(Sent(wbin) /\ wb.adr.row = line.end))
           /\ wb'.adr.row = IF Sent(wbin) THEN NextRow(wb.adr.row) ELSE wb.adr.row
           /\ fill'.dcbz = fill.dcbz /\ ~fill'.write_tag
           /\ fill'.reloading = (fill.reloading /\ ~LastAck(wbin))
<1>1. /\ line \in LineReg /\ wb \in BusReg /\ fill \in FillReg /\ wbin \in BusWire
  BY Typed
<1>2. /\ line' = [line EXCEPT !.rows_valid = IF wbin.ack THEN @ \cup {line.row.row} ELSE @,
                           !.row.row = IF wbin.ack THEN NextRow(@) ELSE @,
                           !.way = ReplaceWay(plru),
                           !.ways = IF fill.write_tag THEN {ReplaceWay(plru)} ELSE @]
      /\ fill' = [fill EXCEPT !.write_tag = FALSE, !.reloading = @ /\ ~LastAck(wbin)]
      /\ wb' = [wb EXCEPT !.cyc = ~LastAck(wbin),
                        !.stb = @ /\ ~(Sent(wbin) /\ wb.adr.row = line.end),
                        !.adr = IF Sent(wbin) THEN [wb.adr EXCEPT !.row = NextRow(@)] ELSE @]
  BY DEF Reloads, ReloadBus, Sent
<1>3. /\ line'.row.row = IF wbin.ack THEN NextRow(line.row.row) ELSE line.row.row
      /\ line'.row.index = line.row.index /\ line'.index = line.index /\ line'.tag = line.tag
      /\ line'.way = ReplaceWay(plru) /\ line'.end = line.end
      /\ line'.ways = IF fill.write_tag THEN {ReplaceWay(plru)} ELSE line.ways
      /\ line'.rows_valid = IF wbin.ack THEN line.rows_valid \cup {line.row.row} ELSE line.rows_valid
  BY <1>1, <1>2 DEF LineReg, RowAdr
<1>4. \A r \in Row : Ahead(r)' = Ahead(r)
  BY <1>3 DEF Ahead
<1>5. Target' = Target /\ \A r \in Row : TargetRow(r)' = TargetRow(r)
  BY <1>3 DEF Target, TargetRow
<1>6. /\ wb'.we = wb.we /\ wb'.sel = wb.sel /\ wb'.dat = wb.dat /\ wb'.cyc = ~LastAck(wbin)
      /\ wb'.stb = (wb.stb /\ ~(Sent(wbin) /\ wb.adr.row = line.end))
      /\ wb'.adr = IF Sent(wbin) THEN [wb.adr EXCEPT !.row = NextRow(@)] ELSE wb.adr
  BY <1>1, <1>2 DEF BusReg
<1>7. wb.adr \in Adr
  BY <1>1 DEF BusReg
<1>8. /\ LineOf(wb'.adr) = LineOf(wb.adr)
      /\ wb'.adr.row = IF Sent(wbin) THEN NextRow(wb.adr.row) ELSE wb.adr.row
  <2>1. CASE Sent(wbin)
    BY <1>6, <1>7, <2>1 DEF LineOf, Adr
  <2>2. CASE ~Sent(wbin)
    BY <1>6, <2>2
  <2>3. QED
    BY <2>1, <2>2
<1>9. fill'.dcbz = fill.dcbz /\ ~fill'.write_tag /\ fill'.reloading = (fill.reloading /\ ~LastAck(wbin))
  BY <1>1, <1>2 DEF FillReg
<1>10. QED
  BY <1>3, <1>4, <1>5, <1>6, <1>8, <1>9

\* The rows it has strobed and those it has got, in numbers.
LEMMA Progress ==
    ASSUME NEW g, NEW in, NEW wbin, NEW f, NEW plru, NEW q, NEW how,
           Turn(g, in, wbin, f, plru, q, how), Reloads(q, plru, wbin)
    PROVE  /\ \A r \in Row : Strobed(r)' => Strobed(r) \/ (Sent(wbin) /\ r = wb.adr.row)
           /\ \A r \in Row : Strobed(r) \/ Come(r) => mine
           /\ wbin.ack => Strobed(line.row.row) \/ (Sent(wbin) /\ wb.adr.row = line.row.row)
           /\ wbin.ack \/ Sent(wbin) => g
           /\ ~LastAck(wbin) => \A r \in Row : Come(r)' <=> Come(r) \/ (wbin.ack /\ r = line.row.row)
           /\ LastAck(wbin) => \A r \in Row : Come(r) \/ r = line.row.row
           /\ wb.adr.row \in Row /\ wb.stb \in BOOLEAN
<1>1. /\ TypeOK /\ line.row.row \in Row /\ line.end \in Row /\ wb.adr \in Adr /\ wb.adr.row \in Row
      /\ wb.stb \in BOOLEAN /\ wbin.ack \in BOOLEAN /\ Sent(wbin) \in BOOLEAN /\ g \in BOOLEAN
  BY Typed, Records, Memory DEF BusReg, BusWire, Adr
<1>2. /\ \A r \in Row : Ahead(r) \in Nat /\ (Ahead(r) = 0 <=> r = line.end)
      /\ \A r \in Row : r # line.end => Ahead(NextRow(r)) = Ahead(r) - 1
      /\ \A r \in Row : NextRow(r) \in Row
  BY <1>1, AheadSteps, Rows
<1>3. \A m, n \in Row : Ahead(m) = Ahead(n) <=> m = n
  BY <1>1, AheadInjective
<1>4. /\ \A r \in Row : Ahead(r)' = Ahead(r)
      /\ line'.row.row = IF wbin.ack THEN NextRow(line.row.row) ELSE line.row.row
      /\ wb'.stb = (wb.stb /\ ~(Sent(wbin) /\ wb.adr.row = line.end))
      /\ wb'.adr.row = IF Sent(wbin) THEN NextRow(wb.adr.row) ELSE wb.adr.row
  BY Strobes
<1>5. state = "RELOAD_WAIT_ACK"
  BY DEF Reloads
<1>6. /\ Len(answers) \in Nat
      /\ Len(answers) = (Ahead(line.row.row) + 1) - (IF wb.stb THEN Ahead(wb.adr.row) + 1 ELSE 0)
      /\ answers # <<>> <=> Len(answers) # 0
  <2>1. answers \in Seq(Owing)
    BY Typed
  <2>2. BusCounted
    BY DEF Turn, BusInv
  <2>3. QED
    BY <1>5, <2>1, <2>2 DEF BusCounted, OwedInReload
<1>7. (\E r \in Row : Come(r)) \/ answers # <<>> => mine
  BY <1>5 DEF Turn, CoherenceInv, FillState
<1>8. Sent(wbin) => wb.stb
  BY DEF Sent
<1>9. \A r \in Row : Strobed(r)' => Strobed(r) \/ (Sent(wbin) /\ r = wb.adr.row)
  <2>1. SUFFICES ASSUME NEW r \in Row, Strobed(r)', ~Strobed(r)
                 PROVE  Sent(wbin) /\ r = wb.adr.row
    OBVIOUS
  <2>2. wb.stb /\ Ahead(r) <= Ahead(wb.adr.row)
    BY <1>1, <1>2, <2>1 DEF Strobed
  <2>3. Strobed(r)' = (wb'.stb => Ahead(r) > Ahead(wb'.adr.row))
    <3>1. PICK n \in Row : n = wb'.adr.row
      BY <1>1, <1>2, <1>4
    <3>2. Ahead(n)' = Ahead(n) /\ Ahead(r)' = Ahead(r)
      BY <1>4
    <3>3. QED
      BY <1>4, <3>1, <3>2 DEF Strobed, Ahead
  <2>4. CASE ~Sent(wbin)
    BY <1>1, <1>2, <1>4, <2>1, <2>2, <2>3, <2>4
  <2>5. CASE Sent(wbin) /\ wb.adr.row = line.end
    <3>1. Ahead(wb.adr.row) = 0 /\ Ahead(r) \in Nat
      BY <1>1, <1>2, <2>5
    <3>2. Ahead(r) = Ahead(wb.adr.row)
      BY <2>2, <3>1
    <3>3. QED
      BY <1>1, <1>3, <2>5, <3>2
  <2>6. CASE Sent(wbin) /\ wb.adr.row # line.end
    <3>1. Ahead(r) > Ahead(wb.adr.row) - 1
      BY <1>1, <1>2, <1>4, <2>1, <2>2, <2>3, <2>6
    <3>2. Ahead(r) \in Nat /\ Ahead(wb.adr.row) \in Nat
      BY <1>1, <1>2
    <3>3. Ahead(r) = Ahead(wb.adr.row)
      BY <2>2, <3>1, <3>2
    <3>4. QED
      BY <1>1, <1>3, <2>6, <3>3
  <2>7. QED
    BY <1>1, <2>4, <2>5, <2>6
<1>10. \A r \in Row : Strobed(r) \/ Come(r) => mine
  <2>1. SUFFICES ASSUME NEW r \in Row, Strobed(r), ~Come(r), answers = <<>> PROVE FALSE
    BY <1>7
  <2>2. /\ Ahead(r) \in Nat /\ Ahead(line.row.row) \in Nat /\ Ahead(wb.adr.row) \in Nat
    BY <1>1, <1>2
  <2>3. QED
    BY <1>1, <1>6, <2>1, <2>2 DEF Strobed, Come
<1>11. wbin.ack => answers # <<>> \/ Sent(wbin)
  BY DEF Turn, Fed
<1>12. wbin.ack => Strobed(line.row.row) \/ (Sent(wbin) /\ wb.adr.row = line.row.row)
  <2>1. SUFFICES ASSUME wbin.ack, ~Strobed(line.row.row)
                 PROVE  Sent(wbin) /\ wb.adr.row = line.row.row
    OBVIOUS
  <2>2. /\ Ahead(line.row.row) \in Nat /\ Ahead(wb.adr.row) \in Nat
    BY <1>1, <1>2
  <2>3. wb.stb /\ Ahead(line.row.row) <= Ahead(wb.adr.row)
    BY <1>1, <2>1, <2>2 DEF Strobed
  <2>4. Len(answers) = Ahead(line.row.row) - Ahead(wb.adr.row)
    BY <1>6, <2>2, <2>3
  <2>5. Ahead(line.row.row) = Ahead(wb.adr.row) /\ answers = <<>>
    BY <1>6, <2>2, <2>3, <2>4
  <2>6. QED
    BY <1>1, <1>3, <1>11, <2>1, <2>5
<1>13. wbin.ack \/ Sent(wbin) => g
  <2>1. mine => g
    BY DEF Turn, Fed
  <2>2. Sent(wbin) => g
    BY Memory
  <2>3. QED
    BY <1>1, <1>10, <1>12, <2>1, <2>2
<1>14. LastAck(wbin) <=> wbin.ack /\ line.row.row = line.end
  BY DEF LastAck
<1>15. ASSUME ~LastAck(wbin), NEW r \in Row
       PROVE  Come(r)' <=> Come(r) \/ (wbin.ack /\ r = line.row.row)
  <2>1. Come(r)' <=> Ahead(r) > Ahead(line'.row.row)
    <3>1. PICK n \in Row : n = line'.row.row
      BY <1>1, <1>2, <1>4
    <3>2. Ahead(n)' = Ahead(n) /\ Ahead(r)' = Ahead(r)
      BY <1>4
    <3>3. QED
      BY <1>4, <3>1, <3>2 DEF Come, Ahead
  <2>2. CASE wbin.ack
    <3>1. Ahead(line'.row.row) = Ahead(line.row.row) - 1
      BY <1>1, <1>2, <1>4, <1>14, <1>15, <2>2
    <3>2. Ahead(r) \in Nat /\ Ahead(line.row.row) \in Nat
      BY <1>1, <1>2
    <3>3. Ahead(r) > Ahead(line.row.row) - 1 <=> Ahead(r) > Ahead(line.row.row) \/ Ahead(r) = Ahead(line.row.row)
      BY <3>2
    <3>4. QED
      BY <1>1, <1>3, <2>1, <2>2, <3>1, <3>3 DEF Come
  <2>3. CASE ~wbin.ack
    BY <1>4, <2>1, <2>3 DEF Come
  <2>4. QED
    BY <1>1, <2>2, <2>3
<1>16. ASSUME LastAck(wbin), NEW r \in Row PROVE Come(r) \/ r = line.row.row
  <2>1. Ahead(line.row.row) = 0 /\ Ahead(r) \in Nat
    BY <1>1, <1>2, <1>14, <1>16
  <2>2. QED
    BY <1>1, <1>3, <2>1 DEF Come
<1>17. QED
  BY <1>1, <1>9, <1>10, <1>12, <1>13, <1>15, <1>16

------------------------------------------------------------------------------
\* Tags and rows as they are read, and the refill.

LEMMA StageReadStep ==
    ASSUME NEW g, NEW in, NEW wbin, NEW f, NEW plru, NEW q, NEW how,
           Turn(g, in, wbin, f, plru, q, how)
    PROVE  StageRead'
<1>1. SUFFICES ASSUME r0'.full
               PROVE  /\ ~full' => tag_set' = tags'[r0'.req.adr.index]
                      /\ \A w \in Way : ReadRow(w)' = ram'[w][r0'.req.adr.index][r0'.req.adr.row]
  BY Zenon DEF StageRead
<1>2. PICK a : a = r0'.req.adr
  OBVIOUS
<1>3. a \in Adr /\ a.index \in Index /\ a.row \in Row
  <2>1. r0'.req \in Reqs
    BY DEF Turn, BusInv, TypeOK, CacheTypeOK, Reqs
  <2>2. QED
    BY <1>2, <2>1, ReqTypes
<1>4. tag_set' = tags[a.index] /\ dout' = [w \in Way |-> ram[w][a.index][a.row]]
  <2>1. ReadEdge(in, FALSE)
    BY DEF Turn, Clocked
  <2>2. /\ full => r0.full /\ a = r0.req.adr
        /\ ~full => in.valid /\ a = in.req.adr
    BY <1>1, <1>2, Staged
  <2>3. full \in BOOLEAN
    BY Typed
  <2>4. QED
    BY <2>1, <2>2, <2>3 DEF ReadEdge, Stall0
<1>5. ~full' => tag_set' = tags'[a.index]
  <2>1. SUFFICES ASSUME ~full' PROVE ~fill.write_tag
    BY <1>4, WaysStep
  <2>2. ASSUME fill.write_tag PROVE FALSE
    <3>1. ~full /\ ~in.valid
      BY <2>1, <2>2, Tagging, Typed
    <3>2. ~r0'.full
      BY <3>1, Staged
    <3>3. QED
      BY <1>1, <3>2
  <2>3. QED
    BY <2>2
<1>6. ASSUME NEW w \in Way
      PROVE  ReadRow(w)' = ram'[w][a.index][a.row]
  <2>1. /\ ram'[w][a.index][a.row] =
             IF RamWrite(wbin) /\ RamSel /\ w = ReplaceWay(plru)
                /\ line.row.index = a.index /\ line.row.row = a.row
             THEN RamDat(wbin) ELSE ram[w][a.index][a.row]
        /\ fwd'.valid = RamWrite(wbin)
        /\ RamWrite(wbin) => /\ fwd'.row = line.row /\ fwd'.way = ReplaceWay(plru)
                             /\ fwd'.dat = RamDat(wbin) /\ fwd'.sel = RamSel
    BY <1>3, RamStep
  <2>2. line.row = RowOf(a) <=> line.row.index = a.index /\ line.row.row = a.row
    BY <1>3, Typed, Records
  <2>3. dout'[w] = ram[w][a.index][a.row]
    BY <1>4
  <2>4. ReadRow(w)' = IF fwd'.valid /\ fwd'.sel /\ w = fwd'.way /\ fwd'.row = RowOf(a)
                      THEN fwd'.dat ELSE dout'[w]
    BY <1>2 DEF ReadRow
  <2>5. QED
    BY <2>1, <2>2, <2>3, <2>4
<1>7. QED
  BY <1>2, <1>5, <1>6

\* Tags that are written only where no way has the line keep it unique.
LEMMA TagFree ==
    ASSUME NEW g, NEW in, NEW wbin, NEW f, NEW plru, NEW q, NEW how,
           Turn(g, in, wbin, f, plru, q, how), fill.write_tag \/ ~fill.reloading, state = "RELOAD_WAIT_ACK", NEW w \in Way
    PROVE  ~InWay(w, Target)
BY DEF Turn, CoherenceInv, FillState

\* A line that is in no way comes into none, but by a refill.
LEMMA NoWay ==
    ASSUME NEW g, NEW in, NEW wbin, NEW f, NEW plru, NEW q, NEW how,
           Turn(g, in, wbin, f, plru, q, how), NEW l \in Line, \A w \in Way : ~InWay(w, l), ~(fill.write_tag /\ l = Target),
           NEW w \in Way
    PROVE  ~InWay(w, l)'
BY WaysStep

\* A line stays in one way at most.
LEMMA UniqueStep ==
    ASSUME NEW g, NEW in, NEW wbin, NEW f, NEW plru, NEW q, NEW how,
           Turn(g, in, wbin, f, plru, q, how)
    PROVE  Unique'
<1>1. SUFFICES ASSUME NEW l \in Line, NEW v \in Way, NEW w \in Way, InWay(v, l)', InWay(w, l)'
               PROVE  v = w
  BY DEF Unique
<1>2. /\ \/ fill.write_tag /\ l = Target /\ v = ReplaceWay(plru)
         \/ InWay(v, l)
      /\ \/ fill.write_tag /\ l = Target /\ w = ReplaceWay(plru)
         \/ InWay(w, l)
  BY <1>1, WaysStep
<1>3. fill.write_tag => ~InWay(v, Target) /\ ~InWay(w, Target)
  BY Tagging, TagFree
<1>4. InWay(v, l) /\ InWay(w, l) => v = w
  BY DEF Turn, CoherenceInv, Unique
<1>5. QED
  BY <1>2, <1>3, <1>4

\* The tags that are snooped are those of the set, but for the one just written.
LEMMA SnoopReadStep ==
    ASSUME NEW g, NEW in, NEW wbin, NEW f, NEW plru, NEW q, NEW how,
           Turn(g, in, wbin, f, plru, q, how)
    PROVE  SnoopRead'
<1>1. SUFFICES ASSUME f.valid, NEW w \in Way
               PROVE  \/ snoop'.tags[w] = tags'[snoop'.line.index][w]
                      \/ /\ fill'.reloading /\ ~fill'.write_tag /\ w = line'.way /\ line'.rows_valid = {}
                         /\ snoop'.line.index = line'.index
  BY Memory DEF SnoopRead
<1>2. snoop'.line = LineOf(f.adr) /\ snoop'.tags = tags[LineOf(f.adr).index]
  BY <1>1, Memory
<1>3. ~fill.write_tag => tags' = tags
  BY WaysStep
<1>4. CASE fill.write_tag
  <2>1. Reloads(q, plru, wbin) /\ ~wbin.ack /\ fill.reloading /\ line.rows_valid = {}
    BY <1>4, Tagging, Kinds, Typed DEF Turn, CoherenceInv, FillState, Fills, Stores, Quiet
  <2>2. tags' = [tags EXCEPT ![line.index][ReplaceWay(plru)] = line.tag]
    BY <1>4 DEF Turn, Clocked, TagEdge
  <2>3. ~LastAck(wbin)
    BY <2>1 DEF LastAck
  <2>4. /\ fill'.reloading /\ ~fill'.write_tag /\ line'.way = ReplaceWay(plru)
        /\ line'.rows_valid = {} /\ line'.index = line.index
    BY <2>1, <2>3, Strobes
  <2>5. LineOf(f.adr).index \in Index
    BY Typed, Records
  <2>6. CASE LineOf(f.adr).index = line.index /\ w = ReplaceWay(plru)
    BY <1>2, <2>4, <2>6
  <2>7. CASE ~(LineOf(f.adr).index = line.index /\ w = ReplaceWay(plru))
    <3>1. tags'[LineOf(f.adr).index][w] = tags[LineOf(f.adr).index][w]
      BY <2>2, <2>5, <2>7, Typed
    <3>2. QED
      BY <1>2, <3>1
  <2>8. QED
    BY <2>6, <2>7
<1>5. QED
  BY <1>2, <1>3, <1>4, Typed

\* The store of the machine is to the way that has its line, whether it is kept
\* or comes from stage 0.
LEMMA StoreKnown ==
    ASSUME NEW g, NEW in, NEW wbin, NEW f, NEW plru, NEW q, NEW how,
           Turn(g, in, wbin, f, plru, q, how), full \/ Slow, state # "RELOAD_WAIT_ACK" \/ ~q.reload
    PROVE  /\ q.op = "store" => StoreHits(q)
           /\ q.op = "load_miss" => \A w \in Way : ~InWay(w, LineOf(q.adr))
<1>1. CASE full
  <2>1. q = r1_req
    BY <1>1, Staged
  <2>2. QED
    BY <1>1, <2>1 DEF Turn, CoherenceInv, Waits
<1>2. CASE ~full
  <2>1. Goes /\ q.op = ThisOp
    BY <1>2, Staged, Decode
  <2>2. /\ ThisOp = "store" => StoreHits(q)
        /\ ThisOp = "load_miss" /\ ~q.reload => \A w \in Way : ~InWay(w, Line0)
        /\ ThisOp = "load_miss" /\ q.reload => state = "RELOAD_WAIT_ACK"
        /\ q.adr = r0.req.adr
    BY <2>1, Decode
  <2>3. QED
    BY <2>1, <2>2 DEF Line0
<1>3. QED
  BY <1>1, <1>2

\* A store that waits keeps its way while no tag is written.
LEMMA KeepsHits ==
    ASSUME NEW g, NEW in, NEW wbin, NEW f, NEW plru, NEW q, NEW how,
           Turn(g, in, wbin, f, plru, q, how), ~fill.write_tag, StoreHits(q), SameReq(r1_req', q)
    PROVE  StoreHits(r1_req)'
<1>1. tags' = tags
  BY WaysStep
<1>2. q.adr \in Adr /\ LineOf(q.adr) \in Line
  BY Typed, Records DEF SlowReq
<1>3. \A w \in Way : InWay(w, LineOf(q.adr))' => InWay(w, LineOf(q.adr))
  BY <1>2, WaysStep
<1>4. PICK r : r = r1_req'
  OBVIOUS
<1>5. r.hit = q.hit /\ r.nc = q.nc /\ r.ways = q.ways /\ r.way = q.way /\ r.adr = q.adr
  BY <1>4 DEF SameReq
<1>6. IF q.hit THEN /\ ~q.nc /\ q.ways = {q.way} /\ tags'[q.adr.index][q.way] = q.adr.tag
                    /\ \A w \in Way : InWay(w, LineOf(q.adr))' => w = q.way
      ELSE \A w \in Way : ~InWay(w, LineOf(q.adr))'
  BY <1>1, <1>3 DEF StoreHits
<1>7. QED
  BY <1>4, <1>5, <1>6 DEF StoreHits, InWay

\* A store written to the data RAM is the one on the bus.
LEMMA WritesStoreStep ==
    ASSUME NEW g, NEW in, NEW wbin, NEW f, NEW plru, NEW q, NEW how,
           Turn(g, in, wbin, f, plru, q, how)
    PROVE  WritesStore'
<1>1. SUFFICES ASSUME write_bram' PROVE WritesStore'
  BY DEF WritesStore
<1>2. Stores(q, wbin)
  BY <1>1, Kinds DEF Fills, Reloads, Quiet
<1>3. /\ state' = "STORE_WAIT_ACK" /\ wb'.stb /\ wb'.we /\ (full \/ Slow)
      /\ wb'.adr = q.adr /\ wb'.dat = q.dat /\ wb'.sel = q.sel /\ line'.row = RowOf(q.adr)
      /\ q.hit /\ line'.way = q.way /\ line'.ways = q.ways
      /\ q.op = "store" /\ state # "RELOAD_WAIT_ACK"
  BY <1>1, <1>2, Typed DEF Stores, SlowReq
<1>4. StoreHits(q) /\ SameReq(r1_req', q)
  BY <1>3, StoreKnown, Staged
<1>5. ~fill.write_tag
  BY <1>3, Tagging
<1>6. StoreHits(r1_req)'
  BY <1>4, <1>5, KeepsHits
<1>7. PICK r : r = r1_req'
  OBVIOUS
<1>8. r.hit /\ r.way = q.way /\ r.adr = q.adr /\ r.dat = q.dat /\ r.sel = q.sel /\ r.ways = q.ways
  BY <1>3, <1>4, <1>7 DEF SameReq
<1>9. /\ r.ways = {r.way} /\ tags'[r.adr.index][r.way] = r.adr.tag
      /\ \A w \in Way : InWay(w, LineOf(r.adr))' => w = r.way
  BY <1>6, <1>7, <1>8 DEF StoreHits, InWay
<1>10. QED
  BY <1>3, <1>7, <1>8, <1>9 DEF WritesStore, InWay

\* A refill that starts.
LEMMA Starts ==
    ASSUME NEW g, NEW in, NEW wbin, NEW f, NEW plru, NEW q, NEW how,
           Turn(g, in, wbin, f, plru, q, how), Fills(q)
    PROVE  /\ q.adr \in Adr /\ Target' = LineOf(q.adr) /\ line'.index = q.adr.index
           /\ line'.tag = q.adr.tag /\ line'.row = RowOf(q.adr) /\ line'.rows_valid = {}
           /\ q.hit => line'.way = q.way /\ line'.ways = q.ways
           /\ \A r \in Row : Ahead(r)' <= Ahead(q.adr.row)'
           /\ wb'.adr = q.adr /\ wb'.stb /\ wb'.we = fill'.dcbz /\ wb'.dat = q.dat /\ wb'.sel = q.sel
           /\ ~fill.write_tag /\ ~fill.reloading /\ ~wb.stb /\ ~wb.cyc /\ answers = <<>> /\ answers' = <<>>
           /\ ~Sent(wbin) /\ ~wbin.ack /\ state = "IDLE"
           /\ SameReq(r1_req', q) /\ r1_req'.reload
<1>1. /\ state = "IDLE" /\ Bus(q, fill'.dcbz, TRUE) /\ Track(q) /\ (full \/ Slow)
  BY DEF Fills
<1>2. /\ q \in SlowReq /\ q.adr \in Adr /\ line' \in LineReg /\ q.adr.row \in Row
  BY Typed, Records DEF SlowReq
<1>3. /\ line'.index = q.adr.index
      /\ line'.tag = q.adr.tag /\ line'.row = RowOf(q.adr) /\ line'.rows_valid = {}
      /\ q.hit => line'.way = q.way /\ line'.ways = q.ways
      /\ line'.end = PrevRow(q.adr.row)
  BY <1>1, <1>2 DEF Track, SlowReq
<1>4. Target' = LineOf(q.adr)
  BY <1>3 DEF Target, LineOf
<1>5. \A r \in Row : Ahead(r)' <= Ahead(q.adr.row)'
  <2>1. PICK n \in Row : n = q.adr.row
    BY <1>2
  <2>2. line'.end = IF n = 0 THEN ROW_PER_LINE - 1 ELSE n - 1
    BY <1>3, <2>1, Rows
  <2>3. Ahead(n)' = ROW_PER_LINE - 1
    BY <2>2, Sizes DEF Ahead, Row
  <2>4. \A r \in Row : Ahead(r)' <= ROW_PER_LINE - 1
    BY <2>2, Sizes DEF Ahead, Row
  <2>5. Ahead(q.adr.row)' = Ahead(n)'
    BY <2>1 DEF Ahead
  <2>6. QED
    BY <2>3, <2>4, <2>5
<1>6. wb'.adr = q.adr /\ wb'.stb /\ wb'.we = fill'.dcbz /\ wb'.dat = q.dat /\ wb'.sel = q.sel
  BY <1>1 DEF Bus
<1>7. ~fill.write_tag /\ ~fill.reloading /\ ~wb.stb /\ ~wb.cyc /\ answers = <<>>
  <2>1. fill.reloading => state = "RELOAD_WAIT_ACK"
    BY DEF Turn, CoherenceInv, FillState
  <2>2. fill.write_tag => state = "RELOAD_WAIT_ACK"
    BY Tagging
  <2>3. ~wb.cyc /\ (wb.stb => wb.cyc) /\ answers = <<>>
    BY <1>1 DEF Turn, BusInv, BusCounted
  <2>4. QED
    BY <1>1, <2>1, <2>2, <2>3
<1>8. ~Sent(wbin) /\ ~wbin.ack
  <2>1. ~Sent(wbin)
    BY <1>7 DEF Sent
  <2>2. QED
    BY <1>7, <2>1 DEF Turn, Fed
<1>9. answers' = <<>>
  <2>1. Len(answers') = Len(answers) + Count(Sent(wbin)) - Count(wbin.ack)
    BY DEF Turn, Fed
  <2>2. Count(Sent(wbin)) = 0 /\ Count(wbin.ack) = 0 /\ Len(answers) = 0
    BY <1>7, <1>8 DEF Count
  <2>3. QED
    BY <2>1, <2>2, Typed
<1>10. SameReq(r1_req', q) /\ r1_req'.reload
  BY <1>1, Staged
<1>11. QED
  BY <1>1, <1>2, <1>3, <1>4, <1>5, <1>6, <1>7, <1>8, <1>9, <1>10

\* The two kinds of it.
LEMMA FillsFor ==
    ASSUME NEW g, NEW in, NEW wbin, NEW f, NEW plru, NEW q, NEW how,
           Turn(g, in, wbin, f, plru, q, how), Fills(q)
    PROVE  /\ state = "IDLE" /\ (full \/ Slow)
           /\ \/ /\ q.op = "load_miss" /\ ~q.nc /\ fill'.reloading /\ fill'.write_tag /\ ~fill'.dcbz
                 /\ full' = ~q.touch
              \/ /\ q.op = "store" /\ ~q.reserve /\ q.dcbz /\ full' /\ fill'.dcbz
                 /\ fill'.reloading = ~q.nc /\ fill'.write_tag = (~q.nc /\ ~q.hit)
<1>1. \/ /\ q.op = "load_miss" /\ ~q.nc
         /\ fill' = [reloading |-> TRUE, write_tag |-> TRUE, dcbz |-> FALSE]
         /\ full' = ~q.touch
      \/ /\ q.op = "store" /\ ~q.reserve /\ q.dcbz
         /\ fill' = [reloading |-> ~q.nc, write_tag |-> ~q.nc /\ ~q.hit, dcbz |-> TRUE]
         /\ full'
  BY Zenon DEF Fills
<1>2. state = "IDLE" /\ (full \/ Slow)
  BY Zenon DEF Fills
<1>3. ASSUME NEW a, NEW b, NEW c, fill' = [reloading |-> a, write_tag |-> b, dcbz |-> c]
      PROVE  fill'.reloading = a /\ fill'.write_tag = b /\ fill'.dcbz = c
  BY <1>3
<1>4. QED
  BY <1>1, <1>2, <1>3

\* What it starts for: a line that is not there, or one that is zeroed.
LEMMA StartsFor ==
    ASSUME NEW g, NEW in, NEW wbin, NEW f, NEW plru, NEW q, NEW how,
           Turn(g, in, wbin, f, plru, q, how), Fills(q)
    PROVE  /\ q.op = "load_miss" => \A w \in Way : ~InWay(w, LineOf(q.adr))
           /\ q.op = "store" => StoreHits(q) /\ q.dat = 0 /\ q.sel
           /\ fill'.dcbz <=> q.op = "store"
           /\ q.op \in {"load_miss", "store"}
<1>1. state = "IDLE" /\ (full \/ Slow)
      /\ (q.op = "load_miss" => ~fill'.dcbz)
      /\ (q.op = "store" => fill'.dcbz /\ q.dcbz) /\ q.op \in {"load_miss", "store"}
  BY FillsFor
<1>2. /\ q.op = "load_miss" => \A w \in Way : ~InWay(w, LineOf(q.adr))
      /\ q.op = "store" => StoreHits(q)
  BY <1>1, StoreKnown
<1>3. q.op = "store" => q.dat = 0 /\ q.sel
  <2>1. CASE full
    <3>1. q = r1_req
      BY <2>1, Staged
    <3>2. full /\ r1_req.dcbz => r1_req.dat = 0 /\ r1_req.sel
      BY DEF Turn, CoherenceInv, Zeroes
    <3>3. QED
      BY <1>1, <2>1, <3>1, <3>2
  <2>2. CASE ~full
    <3>1. Goes
      BY <1>1, <2>2, Staged
    <3>2. /\ q.dat = (IF r0.req.op = "dcbz" THEN 0 ELSE R0Dat)
          /\ q.sel = (r0.req.sel \/ r0.req.op = "dcbz" \/ (r0.req.op = "load" /\ ~r0.req.nc))
          /\ q.dcbz = (r0.req.op = "dcbz")
      BY Zenon, <3>1, Decode
    <3>3. q.op = "store" => r0.req.op = "dcbz"
      BY <1>1, <3>2
    <3>4. QED
      BY <3>2, <3>3
  <2>3. QED
    BY <2>1, <2>2
<1>4. QED
  BY <1>1, <1>2, <1>3

\* A tag is about to be written as a refill starts.
LEMMA TagStarts ==
    ASSUME NEW g, NEW in, NEW wbin, NEW f, NEW plru, NEW q, NEW how,
           Turn(g, in, wbin, f, plru, q, how), fill'.write_tag
    PROVE  /\ Fills(q) /\ fill'.reloading /\ answers' = <<>> /\ ~acks'.stalled
           /\ line'.rows_valid = {} /\ (full' => r1_req'.reload) /\ (~full' => ~r0'.full)
           /\ wb'.stb /\ wb'.adr.row = line'.row.row
<1>1. Fills(q)
  <2>1. Reloads(q, plru, wbin) => ~fill'.write_tag
    BY Strobes
  <2>2. Stores(q, wbin) \/ Quiet(wbin) => ~fill'.write_tag
    BY DEF Stores, Quiet
  <2>3. QED
    BY <2>1, <2>2, Kinds
<1>2. fill'.reloading
  BY <1>1, FillsFor, Typed DEF SlowReq
<1>3. /\ answers' = <<>> /\ line'.rows_valid = {} /\ r1_req'.reload /\ wb'.stb
      /\ wb'.adr.row = line'.row.row /\ ~wb.cyc
  <2>1. line'.row = RowOf(q.adr) /\ wb'.adr = q.adr
    BY <1>1, Starts
  <2>2. line'.row.row = q.adr.row
    BY <2>1 DEF RowOf
  <2>3. QED
    BY <1>1, <2>1, <2>2, Starts
<1>4. ~acks'.stalled
  BY <1>3 DEF Turn, Clocked
<1>5. ~full' => ~r0'.full
  <2>1. SUFFICES ASSUME ~full' PROVE ~r0'.full
    OBVIOUS
  <2>2. q.touch /\ (full \/ Slow)
    BY <1>1, <2>1, FillsFor, Typed DEF SlowReq
  <2>3. CASE full
    BY <2>2, <2>3, Staged DEF Turn, CoherenceInv, Waits
  <2>4. CASE ~full
    <3>1. Goes /\ r0.full /\ r0.req.op = "touch"
      BY <2>2, <2>4, Staged, Decode
    <3>2. ~in.valid
      BY <3>1 DEF Turn, Asks, Allowed, Careful
    <3>3. QED
      BY <2>4, <3>2, Staged
  <2>5. QED
    BY <2>3, <2>4
<1>6. QED
  BY <1>1, <1>2, <1>3, <1>4, <1>5

\* A refill keeps its strobes, its tag and its rows.
LEMMA FillStateStep ==
    ASSUME NEW g, NEW in, NEW wbin, NEW f, NEW plru, NEW q, NEW how,
           Turn(g, in, wbin, f, plru, q, how)
    PROVE  FillState'
<1>1. fill'.reloading => state' = "RELOAD_WAIT_ACK"
  BY Kinds, Strobes DEF Fills, Stores, Quiet, Reloads
<1>2. fill'.write_tag =>
        /\ fill'.reloading /\ answers' = <<>> /\ ~acks'.stalled
        /\ line'.rows_valid = {} /\ (full' => r1_req'.reload) /\ (~full' => ~r0'.full)
        /\ wb'.stb /\ wb'.adr.row = line'.row.row
  BY TagStarts
<1>3. state' = "RELOAD_WAIT_ACK" => Fills(q) \/ (Reloads(q, plru, wbin) /\ ~LastAck(wbin))
  <2>1. Reloads(q, plru, wbin) /\ LastAck(wbin) => state' # "RELOAD_WAIT_ACK"
    BY DEF Reloads
  <2>2. QED
    BY <2>1, Kinds DEF Stores, Quiet
<1>4. ASSUME Fills(q)
      PROVE  /\ LineOf(wb'.adr) = Target' /\ line'.row.index = line'.index
             /\ (wb'.we <=> fill'.dcbz) /\ (fill'.dcbz => wb'.sel /\ wb'.dat = 0)
             /\ ~fill'.dcbz => fill'.reloading
             /\ line'.rows_valid = {r \in Row : Come(r)'}
             /\ line'.rows_valid # {} \/ answers' # <<>> => mine'
             /\ line'.rows_valid # {} => ~snoop'.valid
             /\ fill'.write_tag \/ ~fill'.reloading => \A w \in Way : ~InWay(w, Target)'
             /\ fill'.reloading /\ ~fill'.write_tag =>
                  /\ line'.ways = {line'.way} /\ tags'[line'.index][line'.way] = line'.tag
                  /\ \A w \in Way : InWay(w, Target)' => w = line'.way
  <2>1. /\ q.adr \in Adr /\ Target' = LineOf(q.adr) /\ line'.index = q.adr.index
        /\ line'.tag = q.adr.tag /\ line'.row = RowOf(q.adr) /\ line'.rows_valid = {}
        /\ q.hit => line'.way = q.way /\ line'.ways = q.ways
        /\ \A r \in Row : Ahead(r)' <= Ahead(q.adr.row)'
        /\ wb'.adr = q.adr /\ wb'.we = fill'.dcbz /\ wb'.dat = q.dat /\ wb'.sel = q.sel
        /\ ~fill.write_tag /\ answers' = <<>>
    BY <1>4, Starts
  <2>2. /\ q.op = "load_miss" => \A w \in Way : ~InWay(w, LineOf(q.adr))
        /\ q.op = "store" => StoreHits(q) /\ q.dat = 0 /\ q.sel
        /\ fill'.dcbz <=> q.op = "store"
        /\ q.op \in {"load_miss", "store"}
    BY <1>4, StartsFor
  <2>3. ~fill'.dcbz => fill'.reloading
    BY <1>4, FillsFor
  <2>4. line'.rows_valid = {r \in Row : Come(r)'}
    <3>1. SUFFICES ASSUME NEW r \in Row PROVE ~Come(r)'
      BY <2>1
    <3>2. PICK n \in Row : n = q.adr.row /\ n = line'.row.row
      <4>1. q.adr.row \in Row
        BY <2>1, Typed, Records
      <4>2. line'.row.row = q.adr.row
        BY <2>1 DEF RowOf
      <4>3. QED
        BY <4>1, <4>2
    <3>3. Ahead(r)' <= Ahead(n)' /\ Ahead(r)' \in Int /\ Ahead(n)' \in Int
      <4>1. Ahead(n)' = Ahead(q.adr.row)'
        BY <3>2 DEF Ahead
      <4>2. line'.end \in Row
        BY Typed DEF LineReg
      <4>3. QED
        BY <2>1, <4>1, <4>2, Sizes DEF Ahead, Row
    <3>4. Come(r)' <=> Ahead(r)' > Ahead(n)'
      BY <3>2 DEF Come, Ahead
    <3>5. ~(Ahead(r)' > Ahead(n)')
      BY <3>3
    <3>6. QED
      BY <3>4, <3>5
  <2>5. \A w \in Way : InWay(w, LineOf(q.adr))' => InWay(w, LineOf(q.adr))
    <3>1. LineOf(q.adr) \in Line
      BY <2>1, Typed, Records
    <3>2. QED
      BY <2>1, <3>1, WaysStep
  <2>6. PICK l : l = LineOf(q.adr)
    OBVIOUS
  <2>7. \A w \in Way : InWay(w, Target)' <=> InWay(w, l)'
    BY <2>1, <2>6 DEF InWay
  <2>8. ASSUME fill'.write_tag \/ ~fill'.reloading, NEW w \in Way
        PROVE  ~InWay(w, l)
    <3>1. CASE q.op = "load_miss"
      BY <2>2, <2>6, <3>1
    <3>2. CASE q.op = "store"
      <4>1. q.nc \/ ~q.hit
        BY <1>4, <2>8, <3>2, FillsFor, Typed DEF SlowReq
      <4>2. QED
        BY <2>2, <2>6, <3>2, <4>1 DEF StoreHits
    <3>3. QED
      BY <2>2, <3>1, <3>2
  <2>9. ASSUME fill'.reloading, ~fill'.write_tag
        PROVE  /\ line'.ways = {line'.way} /\ tags'[line'.index][line'.way] = line'.tag
               /\ \A w \in Way : InWay(w, l) => w = line'.way
    <3>1. q.op = "store" /\ q.hit
      BY <1>4, <2>2, <2>9, FillsFor, Typed DEF SlowReq
    <3>2. tags' = tags
      BY <2>1, WaysStep
    <3>3. QED
      BY <2>1, <2>2, <2>6, <3>1, <3>2 DEF StoreHits
  <2>10. QED
    BY <2>1, <2>2, <2>3, <2>4, <2>5, <2>6, <2>7, <2>8, <2>9 DEF RowOf
<1>5. ASSUME Reloads(q, plru, wbin), ~LastAck(wbin)
      PROVE  /\ LineOf(wb'.adr) = Target' /\ line'.row.index = line'.index
             /\ (wb'.we <=> fill'.dcbz) /\ (fill'.dcbz => wb'.sel /\ wb'.dat = 0)
             /\ ~fill'.dcbz => fill'.reloading
             /\ line'.rows_valid = {r \in Row : Come(r)'}
             /\ line'.rows_valid # {} \/ answers' # <<>> => mine'
             /\ line'.rows_valid # {} => ~snoop'.valid
             /\ fill'.write_tag \/ ~fill'.reloading => \A w \in Way : ~InWay(w, Target)'
             /\ fill'.reloading /\ ~fill'.write_tag =>
                  /\ line'.ways = {line'.way} /\ tags'[line'.index][line'.way] = line'.tag
                  /\ \A w \in Way : InWay(w, Target)' => w = line'.way
  <2>1. /\ state = "RELOAD_WAIT_ACK" /\ LineOf(wb.adr) = Target /\ line.row.index = line.index
        /\ (wb.we <=> fill.dcbz) /\ (fill.dcbz => wb.sel /\ wb.dat = 0)
        /\ ~fill.dcbz => fill.reloading
        /\ line.rows_valid = {r \in Row : Come(r)}
        /\ line.rows_valid # {} \/ answers # <<>> => mine
        /\ line.rows_valid # {} => ~snoop.valid
    BY <1>5 DEF Reloads, Turn, CoherenceInv, FillState
  <2>2. /\ line'.row.index = line.row.index /\ line'.index = line.index /\ line'.tag = line.tag
        /\ line'.way = ReplaceWay(plru)
        /\ line'.ways = IF fill.write_tag THEN {ReplaceWay(plru)} ELSE line.ways
        /\ line'.rows_valid = IF wbin.ack THEN line.rows_valid \cup {line.row.row} ELSE line.rows_valid
        /\ Target' = Target
        /\ wb'.we = wb.we /\ wb'.sel = wb.sel /\ wb'.dat = wb.dat /\ LineOf(wb'.adr) = LineOf(wb.adr)
        /\ wb'.cyc /\ fill'.dcbz = fill.dcbz /\ ~fill'.write_tag
        /\ fill'.reloading = fill.reloading
    <3>1. /\ line'.row.index = line.row.index /\ line'.index = line.index /\ line'.tag = line.tag
          /\ line'.way = ReplaceWay(plru)
          /\ line'.ways = IF fill.write_tag THEN {ReplaceWay(plru)} ELSE line.ways
          /\ line'.rows_valid = IF wbin.ack THEN line.rows_valid \cup {line.row.row} ELSE line.rows_valid
          /\ Target' = Target
      BY Zenon, <1>5, Strobes
    <3>2. /\ wb'.we = wb.we /\ wb'.sel = wb.sel /\ wb'.dat = wb.dat /\ LineOf(wb'.adr) = LineOf(wb.adr)
          /\ wb'.cyc = ~LastAck(wbin) /\ fill'.dcbz = fill.dcbz /\ ~fill'.write_tag
          /\ fill'.reloading = (fill.reloading /\ ~LastAck(wbin))
      BY Zenon, <1>5, Strobes
    <3>3. fill.reloading \in BOOLEAN
      BY Typed DEF FillReg
    <3>4. wb'.cyc /\ fill'.reloading = fill.reloading
      BY <1>5, <3>2, <3>3
    <3>5. QED
      BY Zenon, <3>1, <3>2, <3>4
  <2>3. /\ \A r \in Row : Come(r)' <=> Come(r) \/ (wbin.ack /\ r = line.row.row)
        /\ wbin.ack \/ Sent(wbin) => g
    BY <1>5, Progress
  <2>4. line'.rows_valid = {r \in Row : Come(r)'}
    BY <2>1, <2>2, <2>3, Typed, Records
  <2>5. line'.rows_valid # {} \/ answers' # <<>> => g
    <3>1. mine => g
      BY DEF Turn, Fed
    <3>2. line'.rows_valid # {} => line.rows_valid # {} \/ wbin.ack
      BY <2>2
    <3>3. answers' # <<>> => answers # <<>> \/ Sent(wbin)
      <4>1. SUFFICES ASSUME answers = <<>>, ~Sent(wbin) PROVE answers' = <<>>
        OBVIOUS
      <4>2. Len(answers') = Len(answers) + Count(Sent(wbin)) - Count(wbin.ack) /\ Len(answers) = 0
        BY <4>1 DEF Turn, Fed
      <4>3. Count(Sent(wbin)) = 0 /\ Count(wbin.ack) \in {0, 1}
        BY <4>1 DEF Count
      <4>4. Len(answers') \in Nat
        BY Typed
      <4>5. Len(answers') = 0
        BY <4>2, <4>3, <4>4
      <4>6. QED
        BY <4>5, Typed
    <3>4. QED
      BY <2>1, <2>3, <3>1, <3>2, <3>3
  <2>6. line'.rows_valid # {} \/ answers' # <<>> => mine' /\ ~snoop'.valid
    <3>1. mine' <=> g /\ wb'.cyc
      BY DEF Turn, Fed
    <3>2. snoop'.valid = f.valid /\ (f.valid => ~g)
      BY Memory
    <3>3. QED
      BY <2>2, <2>5, <3>1, <3>2
  <2>8. PICK l \in Line : l = Target
    BY Typed, Records
  <2>9. \A w \in Way : InWay(w, Target)' <=> InWay(w, l)'
    BY <2>2, <2>8 DEF InWay
  <2>10. ASSUME ~fill.reloading, NEW w \in Way PROVE ~InWay(w, l)'
    <3>1. ~InWay(w, l) /\ ~fill.write_tag
      BY <2>1, <2>8, <2>10, TagFree, Tagging
    <3>2. QED
      BY <3>1, WaysStep
  <2>11. ASSUME fill.reloading
         PROVE  /\ line'.ways = {line'.way} /\ tags'[line'.index][line'.way] = line'.tag
                /\ \A w \in Way : InWay(w, l)' => w = line'.way
    <3>1. CASE fill.write_tag
      <4>1. \A w \in Way : ~InWay(w, l)
        BY <2>1, <2>8, <3>1, TagFree
      <4>2. tags' = [tags EXCEPT ![line.index][ReplaceWay(plru)] = line.tag]
        BY <3>1 DEF Turn, Clocked, TagEdge
      <4>3. tags'[line.index][ReplaceWay(plru)] = line.tag
        BY <4>2, Typed, Records
      <4>4. \A w \in Way : InWay(w, l)' => w = ReplaceWay(plru)
        BY <4>1, WaysStep
      <4>5. QED
        BY <2>2, <3>1, <4>3, <4>4
    <3>2. CASE ~fill.write_tag
      <4>1. /\ line.ways = {line.way} /\ tags[line.index][line.way] = line.tag
            /\ \A w \in Way : InWay(w, l) => w = line.way
        BY <2>8, <2>11, <3>2 DEF Turn, CoherenceInv, FillState
      <4>2. tags' = tags /\ ReplaceWay(plru) = line.way
        BY <3>2, WaysStep DEF ReplaceWay
      <4>3. \A w \in Way : InWay(w, l)' => InWay(w, l)
        BY <3>2, WaysStep
      <4>4. QED
        BY <2>2, <3>2, <4>1, <4>2, <4>3
    <3>3. QED
      BY <3>1, <3>2
  <2>12. QED
    BY <2>1, <2>2, <2>4, <2>6, <2>9, <2>10, <2>11
<1>6. QED
  BY <1>1, <1>2, <1>3, <1>4, <1>5 DEF FillState

------------------------------------------------------------------------------
\* What is sent, and what has not come yet.

LEMMA Starting ==
    ASSUME NEW g, NEW in, NEW wbin, NEW f, NEW plru, NEW q, NEW how,
           Turn(g, in, wbin, f, plru, q, how), state' \in {"NC_LOAD_WAIT_ACK", "DO_STCX"}, state # state'
    PROVE  /\ state = "IDLE" /\ (full \/ Slow) /\ answers' = <<>> /\ ~wb.stb
           /\ wb'.adr = q.adr /\ wb'.dat = q.dat /\ wb'.sel = q.sel
           /\ wb'.we <=> state' = "DO_STCX"
           /\ line'.row = RowOf(q.adr) /\ (q.hit => line'.way = q.way /\ line'.ways = q.ways)
           /\ SameReq(r1_req', q) /\ full'
           /\ state' = "NC_LOAD_WAIT_ACK" => q.op = "load_miss" /\ q.nc
           /\ state' = "DO_STCX" => q.op = "store" /\ q.reserve /\ reservation.valid /\ ~KillRsrv
<1>1. Works(q, d_data, plru, wbin) /\ q \in SlowReq
  BY Typed DEF Turn, Clocked
<1>2. Idle(q, FALSE, plru) /\ (IdleNcLoad(q, FALSE) \/ IdleStcx(q, FALSE))
  <2>1. Idle(q, FALSE, plru)
    BY Zenon, <1>1 DEF Works, Reload, Store, NcLoad, DoStcx, Flush
  <2>2. QED
    BY Zenon, <2>1 DEF Idle, IdleStay, IdleMiss, IdleStore, IdleDcbz, IdleFlush, IdleSync
<1>3. state = "IDLE"
  BY <1>2 DEF Idle
<1>4. full \/ Slow
  <2>1. q.op \in {"load_miss", "store"}
    BY <1>2 DEF IdleNcLoad, IdleStcx
  <2>2. QED
    BY <2>1, Served
<1>5. SameReq(r1_req', q)
  BY <1>4, Staged
<1>6. answers = <<>> /\ ~wb.stb
  BY <1>3 DEF Turn, BusInv, BusCounted
<1>7. answers' = <<>>
  <2>1. ~Sent(wbin)
    BY <1>6 DEF Sent
  <2>2. ~wbin.ack
    BY <1>6, <2>1 DEF Turn, Fed
  <2>3. Len(answers') = Len(answers) + Count(Sent(wbin)) - Count(wbin.ack)
    BY DEF Turn, Fed
  <2>4. Count(Sent(wbin)) = 0 /\ Count(wbin.ack) = 0 /\ Len(answers) = 0
    BY <1>6, <2>1, <2>2 DEF Count
  <2>5. QED
    BY <2>3, <2>4, Typed
<1>8. CASE IdleNcLoad(q, FALSE)
  <2>1. /\ q.op = "load_miss" /\ q.nc /\ state' = "NC_LOAD_WAIT_ACK" /\ Bus(q, FALSE, TRUE) /\ Track(q)
        /\ full' = TRUE
    BY Zenon, <1>8 DEF IdleNcLoad
  <2>2. wb'.adr = q.adr /\ wb'.dat = q.dat /\ wb'.sel = q.sel /\ ~wb'.we
    BY <2>1 DEF Bus
  <2>3. line'.row = RowOf(q.adr) /\ (q.hit => line'.way = q.way /\ line'.ways = q.ways)
    BY <2>1 DEF Track, Bus
  <2>4. QED
    BY Zenon, <1>3, <1>4, <1>5, <1>6, <1>7, <2>1, <2>2, <2>3
<1>9. CASE IdleStcx(q, FALSE)
  <2>1. q.op = "store" /\ q.reserve /\ Track(q)
    BY Zenon, <1>9 DEF IdleStcx
  <2>2. ~(~reservation.valid \/ KillRsrv)
    BY Zenon, <1>3, <1>9 DEF IdleStcx
  <2>3. state' = "DO_STCX" /\ Bus(q, TRUE, FALSE) /\ full' = TRUE
    BY Zenon, <1>9, <2>2 DEF IdleStcx
  <2>4. wb'.adr = q.adr /\ wb'.dat = q.dat /\ wb'.sel = q.sel /\ wb'.we
    BY <2>3 DEF Bus
  <2>5. line'.row = RowOf(q.adr) /\ (q.hit => line'.way = q.way /\ line'.ways = q.ways)
    BY <2>1 DEF Track
  <2>6. QED
    BY Zenon, <1>3, <1>4, <1>5, <1>6, <1>7, <2>1, <2>2, <2>3, <2>4, <2>5
<1>10. QED
  BY Zenon, <1>2, <1>8, <1>9

\* In the states that wait for the bus nothing changes until it answers.
LEMMA Staying ==
    ASSUME NEW g, NEW in, NEW wbin, NEW f, NEW plru, NEW q, NEW how,
           Turn(g, in, wbin, f, plru, q, how), state' = state, state \in {"NC_LOAD_WAIT_ACK", "DO_STCX"}
    PROVE  /\ full /\ full' /\ SameReq(r1_req', r1_req) /\ line' = line /\ q = r1_req
           /\ wb'.adr = wb.adr /\ wb'.we = wb.we /\ wb'.dat = wb.dat /\ wb'.sel = wb.sel /\ wb'.cyc
           /\ ~wbin.ack
<1>1. Works(q, d_data, plru, wbin) /\ q \in SlowReq /\ wb \in BusReg /\ wbin \in BusWire
  BY Typed DEF Turn, Clocked
<1>2. full /\ q = r1_req /\ SameReq(r1_req', q)
  <2>1. full
    BY DEF Turn, BusInv, AtWork
  <2>2. QED
    BY <2>1, Staged
<1>3. wb.cyc
  BY DEF Turn, BusInv, BusCounted
<1>4. full'
  BY DEF Turn, BusInv, AtWork
<1>5. CASE state = "NC_LOAD_WAIT_ACK"
  <2>1. NcLoad(FALSE, plru, wbin)
    BY Zenon, <1>1, <1>5 DEF Works, Idle, Reload, Store, DoStcx, Flush
  <2>2. /\ wb' = [wb EXCEPT !.cyc = ~wbin.ack, !.stb = wb.stb /\ wbin.stall /\ ~wbin.ack]
        /\ state' = IF wbin.ack THEN "IDLE" ELSE state
        /\ line' = line
    BY <2>1 DEF NcLoad
  <2>3. ~wbin.ack
    BY <1>5, <2>2
  <2>4. wb'.adr = wb.adr /\ wb'.we = wb.we /\ wb'.dat = wb.dat /\ wb'.sel = wb.sel /\ wb'.cyc
    BY <1>1, <2>2, <2>3 DEF BusReg
  <2>5. QED
    BY <1>2, <1>4, <2>2, <2>3, <2>4
<1>6. CASE state = "DO_STCX"
  <2>1. DoStcx(FALSE, plru, wbin)
    BY Zenon, <1>1, <1>6 DEF Works, Idle, Reload, Store, NcLoad, Flush
  <2>2. wb' = wb /\ line' = line
    BY <1>6, <2>1 DEF DoStcx
  <2>3. ~wb.stb /\ answers = <<>>
    BY <1>6 DEF Turn, BusInv, BusCounted
  <2>4. ~Sent(wbin)
    BY <2>3 DEF Sent
  <2>5. ~wbin.ack
    BY <2>3, <2>4 DEF Turn, Fed
  <2>6. QED
    BY <1>2, <1>3, <1>4, <2>2, <2>5
<1>7. QED
  BY <1>5, <1>6

\* The rows that are strobed are those of memory as they will come.
LEMMA SentHolds ==
    ASSUME NEW g, NEW in, NEW wbin, NEW f, NEW plru, NEW q, NEW how,
           Turn(g, in, wbin, f, plru, q, how), state' = "RELOAD_WAIT_ACK", NEW r \in Row, Strobed(r)'
    PROVE  IF fill'.dcbz THEN mem'[TargetRow(r)'] = 0
           ELSE ~Come(r)' => answers'[Ahead(line.row.row)' - Ahead(r)' + 1].dat = mem'[TargetRow(r)']
<1>1. Reloads(q, plru, wbin) /\ ~LastAck(wbin)
  <2>1. ASSUME Fills(q) PROVE FALSE
    <3>1. wb'.adr = q.adr /\ wb'.stb /\ Ahead(r)' <= Ahead(q.adr.row)' /\ q.adr \in Adr
      BY <2>1, Starts
    <3>2. PICK n \in Row : n = q.adr.row /\ n = wb'.adr.row
      BY <3>1, Typed, Records
    <3>3. Ahead(r)' > Ahead(n)'
      BY <3>1, <3>2 DEF Strobed, Ahead
    <3>4. Ahead(r)' <= Ahead(n)'
      BY <3>1, <3>2 DEF Ahead
    <3>5. line'.end \in Row
      BY Typed DEF LineReg
    <3>6. Ahead(r)' \in Int /\ Ahead(n)' \in Int
      BY <3>5, Sizes DEF Ahead, Row
    <3>7. QED
      BY <3>3, <3>4, <3>6
  <2>2. Reloads(q, plru, wbin) /\ LastAck(wbin) => state' # "RELOAD_WAIT_ACK"
    BY DEF Reloads
  <2>3. QED
    BY <2>1, <2>2, Kinds DEF Stores, Quiet
<1>2. /\ state = "RELOAD_WAIT_ACK" /\ LineOf(wb.adr) = Target
      /\ (wb.we <=> fill.dcbz) /\ (fill.dcbz => wb.sel /\ wb.dat = 0)
      /\ Strobed(r) => IF fill.dcbz THEN mem[TargetRow(r)] = 0
                       ELSE ~Come(r) => answers[Ahead(line.row.row) - Ahead(r) + 1].dat = mem[TargetRow(r)]
  BY <1>1 DEF Reloads, Turn, CoherenceInv, FillState, AnswersHold
<1>3. /\ Strobed(r) \/ (Sent(wbin) /\ r = wb.adr.row)
      /\ Strobed(r) \/ Sent(wbin) => g
      /\ Come(r)' <=> Come(r) \/ (wbin.ack /\ r = line.row.row)
  <2>1. mine => g
    BY DEF Turn, Fed
  <2>2. QED
    BY <1>1, <2>1, Progress
<1>4. /\ ~f.valid /\ fill'.dcbz = fill.dcbz /\ TargetRow(r)' = TargetRow(r) /\ TargetRow(r) \in Adr
      /\ wb.adr \in Adr /\ (wb.adr = TargetRow(r) <=> wb.adr.row = r)
  <2>1. ~f.valid
    BY <1>3, Memory
  <2>2. fill'.dcbz = fill.dcbz /\ TargetRow(r)' = TargetRow(r)
    BY <1>1, Strobes
  <2>3. wb.adr \in Adr
    BY Typed DEF BusReg
  <2>4. QED
    BY <1>2, <2>1, <2>2, <2>3, Typed, Records
<1>5. mem' = IF Sent(wbin) /\ fill.dcbz THEN [mem EXCEPT ![wb.adr] = wb.dat] ELSE mem
  BY <1>2, <1>4, Memory
<1>6. CASE fill.dcbz
  <2>1. mem'[TargetRow(r)] = 0
    <3>1. CASE Sent(wbin)
      <4>1. mem' = [mem EXCEPT ![wb.adr] = 0]
        BY <1>2, <1>5, <1>6, <3>1
      <4>2. wb.adr = TargetRow(r) \/ mem[TargetRow(r)] = 0
        BY <1>2, <1>3, <1>4, <1>6
      <4>3. QED
        BY <1>4, <4>1, <4>2, Typed
    <3>2. CASE ~Sent(wbin)
      BY <1>2, <1>3, <1>5, <1>6, <3>2
    <3>3. QED
      BY <3>1, <3>2
  <2>2. QED
    BY <1>4, <1>6, <2>1
<1>7. CASE ~fill.dcbz
  <2>1. mem' = mem
    BY <1>5, <1>7
  <2>2. SUFFICES ASSUME ~Come(r)'
                 PROVE  answers'[Ahead(line.row.row)' - Ahead(r)' + 1].dat = mem[TargetRow(r)]
    BY <1>4, <1>7, <2>1
  <2>3. /\ line.row.row \in Row /\ wb.adr.row \in Row /\ wb.stb \in BOOLEAN /\ wbin.ack \in BOOLEAN
        /\ NextRow(line.row.row) \in Row
    BY Typed, Records, Rows, <1>4 DEF BusReg, BusWire
  <2>4. PICK m, n, k \in Nat : /\ m = Ahead(line.row.row) /\ n = Ahead(r) /\ k = Ahead(wb.adr.row)
    BY <2>3, AheadInjective, Typed
  <2>5. /\ Len(answers) \in Nat /\ Len(answers') \in Nat
        /\ Len(answers) = (m + 1) - (IF wb.stb THEN k + 1 ELSE 0)
        /\ Len(answers') = Len(answers) + Count(Sent(wbin)) - Count(wbin.ack)
    <3>1. Len(answers) = OwedInReload
      BY <1>2 DEF Turn, BusInv, BusCounted
    <3>2. Len(answers') = Len(answers) + Count(Sent(wbin)) - Count(wbin.ack)
      BY DEF Turn, Fed
    <3>3. QED
      BY <2>4, <3>1, <3>2, Typed DEF OwedInReload
  <2>6. Ahead(r)' = n /\ Ahead(line.row.row)' = m - Count(wbin.ack)
    <3>1. /\ \A x \in Row : Ahead(x)' = Ahead(x)
          /\ line'.row.row = IF wbin.ack THEN NextRow(line.row.row) ELSE line.row.row
      BY <1>1, Strobes
    <3>2. PICK l \in Row : l = line'.row.row
      BY <2>3, <3>1
    <3>3. Ahead(line.row.row)' = Ahead(l)
      <4>1. Ahead(line.row.row)' = Ahead(l)'
        BY <3>2 DEF Ahead
      <4>2. QED
        BY <3>1, <4>1
    <3>4. CASE wbin.ack
      <4>1. line.row.row # line.end
        BY <1>1, <3>4 DEF LastAck
      <4>2. Ahead(NextRow(line.row.row)) = Ahead(line.row.row) - 1
        BY <2>3, <4>1, AheadSteps, Typed, Records
      <4>3. QED
        BY <2>4, <3>1, <3>2, <3>3, <3>4, <4>2 DEF Count
    <3>5. CASE ~wbin.ack
      BY <2>4, <3>1, <3>2, <3>3, <3>5 DEF Count
    <3>6. QED
      BY <2>3, <3>4, <3>5
  <2>7. ~Come(r) /\ ~(wbin.ack /\ r = line.row.row)
    BY <1>3, <2>2
  <2>8. n <= m - Count(wbin.ack)
    <3>1. n <= m
      BY <2>4, <2>7 DEF Come
    <3>2. n = m => r = line.row.row
      BY <2>3, <2>4, AheadInjective, Typed
    <3>3. QED
      BY <2>3, <2>4, <2>7, <3>1, <3>2 DEF Count
  <2>9. PICK c, j \in Int : c = Count(wbin.ack) /\ (c = 0 \/ c = 1) /\ j = m - c - n + 1
    <3>1. Count(wbin.ack) \in {0, 1}
      BY <2>3 DEF Count
    <3>2. QED
      BY <2>4, <3>1
  <2>10. PICK s \in Int : s = Count(Sent(wbin)) /\ (s = 0 \/ s = 1) /\ (s = 1 <=> Sent(wbin))
    BY DEF Count
  <2>11. j + c = m - n + 1 /\ j >= 1
    BY <2>4, <2>8, <2>9
  <2>14. PICK L, J \in Int : L = Len(answers) /\ J = Len(answers')
    BY <2>5
  <2>15. L = (m + 1) - (IF wb.stb THEN k + 1 ELSE 0) /\ J = L + s - c
    BY Zenon, <2>5, <2>9, <2>10, <2>14
  <2>16. (~wb.stb => L = m + 1) /\ (wb.stb => L = m - k)
    BY <2>4, <2>15
  <2>12. CASE Strobed(r)
    <3>1. wb.stb => n > k
      BY <2>4, <2>12 DEF Strobed
    <3>2. j + c <= Len(answers) /\ j <= Len(answers')
      <4>1. m - n + 1 <= L
        <5>1. CASE wb.stb
          BY <2>4, <2>14, <2>16, <3>1, <5>1
        <5>2. CASE ~wb.stb
          BY <2>4, <2>14, <2>16, <5>2
        <5>3. QED
          BY <2>3, <5>1, <5>2
      <4>2. j + c <= L /\ j <= J
        BY <2>4, <2>9, <2>10, <2>14, <2>15, <4>1
      <4>3. QED
        BY <2>14, <4>2
    <3>3. answers'[j] = answers[j + c]
      <4>1. j \in DOMAIN answers'
        BY <2>11, <3>2, Typed
      <4>2. QED
        BY <2>9, <3>2, <4>1 DEF Turn, Fed
    <3>4. answers[m - n + 1].dat = mem[TargetRow(r)]
      BY <1>2, <1>7, <2>4, <2>7, <2>12
    <3>5. QED
      BY <2>6, <2>9, <2>11, <3>3, <3>4
  <2>13. CASE ~Strobed(r)
    <3>1. Sent(wbin) /\ r = wb.adr.row /\ wb.stb /\ n = k /\ wb.adr = TargetRow(r)
      BY <1>3, <1>4, <2>4, <2>13 DEF Sent
    <3>2. j + c > Len(answers) /\ j <= Len(answers')
      <4>1. m - n = L /\ s = 1
        BY <2>4, <2>10, <2>14, <2>16, <3>1
      <4>2. j + c > L /\ j <= J
        BY <2>4, <2>9, <2>14, <2>15, <4>1
      <4>3. QED
        BY <2>14, <4>2
    <3>3. answers'[j].dat = mem[wb.adr]
      <4>1. j \in DOMAIN answers'
        BY <2>11, <3>2, Typed
      <4>2. ~wb.we
        BY <1>2, <1>7
      <4>3. QED
        BY <2>9, <3>2, <4>1, <4>2 DEF Turn, Fed
    <3>4. QED
      BY <2>6, <2>9, <3>1, <3>3
  <2>17. QED
    BY <2>12, <2>13
<1>8. QED
  BY <1>6, <1>7

\* What is owed is what is in memory.
LEMMA AnswersHoldStep ==
    ASSUME NEW g, NEW in, NEW wbin, NEW f, NEW plru, NEW q, NEW how,
           Turn(g, in, wbin, f, plru, q, how)
    PROVE  AnswersHold'
<1>1. state' = "RELOAD_WAIT_ACK" => \A r \in Row : Strobed(r)' =>
         IF fill'.dcbz THEN mem'[TargetRow(r)'] = 0
         ELSE ~Come(r)' => answers'[Ahead(line.row.row)' - Ahead(r)' + 1].dat = mem'[TargetRow(r)']
  BY SentHolds
<1>2. state' = "NC_LOAD_WAIT_ACK" =>
         /\ wb'.adr = r1_req'.adr /\ ~wb'.we
         /\ answers' # <<>> => mine' /\ answers'[1].dat = mem'[wb'.adr]
  <2>1. SUFFICES ASSUME state' = "NC_LOAD_WAIT_ACK"
                 PROVE  /\ wb'.adr = r1_req'.adr /\ ~wb'.we
                        /\ answers' # <<>> => mine' /\ answers'[1].dat = mem'[wb'.adr]
    OBVIOUS
  <2>2. CASE state # state'
    <3>1. wb'.adr = q.adr /\ ~wb'.we /\ answers' = <<>> /\ SameReq(r1_req', q)
      BY <2>1, <2>2, Starting
    <3>2. QED
      BY <3>1 DEF SameReq
  <2>3. CASE state = state'
    <3>1. /\ SameReq(r1_req', r1_req) /\ wb'.adr = wb.adr /\ wb'.we = wb.we /\ wb'.cyc /\ ~wbin.ack
      BY <2>1, <2>3, Staying
    <3>2. /\ wb.adr = r1_req.adr /\ ~wb.we
          /\ answers # <<>> => mine /\ answers[1].dat = mem[wb.adr]
      BY <2>1, <2>3 DEF Turn, CoherenceInv, AnswersHold
    <3>3. SUFFICES ASSUME answers' # <<>> PROVE mine' /\ answers'[1].dat = mem'[wb'.adr]
      BY <3>1, <3>2 DEF SameReq
    <3>4. Count(wbin.ack) = 0 /\ Len(answers') = Len(answers) + Count(Sent(wbin))
          /\ Len(answers) \in Nat /\ Len(answers') > 0 /\ 1 \in DOMAIN answers'
          /\ Count(Sent(wbin)) = (IF Sent(wbin) THEN 1 ELSE 0)
          /\ (answers = <<>> <=> Len(answers) = 0)
      <4>1. Count(wbin.ack) = 0 /\ Len(answers') = Len(answers) + Count(Sent(wbin)) - Count(wbin.ack)
        BY <3>1 DEF Count, Turn, Fed
      <4>2. Len(answers') \in Nat /\ Len(answers') > 0 /\ 1 \in DOMAIN answers'
        BY <3>3, Typed
      <4>3. Count(Sent(wbin)) = (IF Sent(wbin) THEN 1 ELSE 0)
        BY DEF Count
      <4>4. QED
        BY <4>1, <4>2, <4>3, Typed
    <3>5. g
      <4>1. mine => g
        BY DEF Turn, Fed
      <4>2. QED
        BY <3>2, <3>4, <4>1, Memory
    <3>6. mem' = mem
      BY <3>2, <3>5, Memory
    <3>7. mine'
      BY <3>1, <3>5 DEF Turn, Fed
    <3>8. /\ 1 + Count(wbin.ack) <= Len(answers) => answers'[1] = answers[1 + Count(wbin.ack)]
          /\ 1 + Count(wbin.ack) > Len(answers) /\ ~wb.we => answers'[1].dat = mem[wb.adr]
      BY <3>4 DEF Turn, Fed
    <3>9. answers'[1].dat = mem[wb.adr]
      <4>1. CASE answers = <<>>
        BY <3>2, <3>4, <3>8, <4>1
      <4>2. CASE answers # <<>>
        BY <3>2, <3>4, <3>8, <4>2
      <4>3. QED
        BY <4>1, <4>2
    <3>10. QED
      BY <3>1, <3>6, <3>7, <3>9
  <2>4. QED
    BY <2>2, <2>3
<1>3. state' = "DO_STCX" =>
         /\ wb'.adr = r1_req'.adr /\ wb'.dat = r1_req'.dat /\ wb'.sel = r1_req'.sel
         /\ wb'.we /\ line'.row = RowOf(wb'.adr)
         /\ r1_req'.hit => line'.way = r1_req'.way /\ line'.ways = r1_req'.ways
  <2>1. SUFFICES ASSUME state' = "DO_STCX"
                 PROVE  /\ wb'.adr = r1_req'.adr /\ wb'.dat = r1_req'.dat /\ wb'.sel = r1_req'.sel
                        /\ wb'.we /\ line'.row = RowOf(wb'.adr)
                        /\ r1_req'.hit => line'.way = r1_req'.way /\ line'.ways = r1_req'.ways
    OBVIOUS
  <2>2. CASE state # state'
    <3>1. /\ wb'.adr = q.adr /\ wb'.dat = q.dat /\ wb'.sel = q.sel /\ wb'.we
          /\ line'.row = RowOf(q.adr) /\ (q.hit => line'.way = q.way /\ line'.ways = q.ways)
          /\ SameReq(r1_req', q)
      BY <2>1, <2>2, Starting
    <3>2. QED
      BY <3>1 DEF SameReq
  <2>3. CASE state = state'
    <3>1. /\ SameReq(r1_req', r1_req) /\ wb'.adr = wb.adr /\ wb'.we = wb.we
          /\ wb'.dat = wb.dat /\ wb'.sel = wb.sel /\ line' = line
      BY <2>1, <2>3, Staying
    <3>2. /\ wb.adr = r1_req.adr /\ wb.dat = r1_req.dat /\ wb.sel = r1_req.sel
          /\ wb.we /\ line.row = RowOf(wb.adr)
          /\ r1_req.hit => line.way = r1_req.way /\ line.ways = r1_req.ways
      BY <2>1, <2>3 DEF Turn, CoherenceInv, AnswersHold
    <3>3. QED
      BY <3>1, <3>2 DEF SameReq
  <2>4. QED
    BY <2>2, <2>3
<1>4. QED
  BY Zenon, <1>1, <1>2, <1>3 DEF AnswersHold

------------------------------------------------------------------------------
\* The request that waits in stage 1.

\* A row that is asked of a refill has not come.
LEMMA Awaited ==
    ASSUME NEW g, NEW in, NEW wbin, NEW f, NEW plru, NEW q, NEW how,
           Turn(g, in, wbin, f, plru, q, how), state = "RELOAD_WAIT_ACK", q.reload
    PROVE  /\ full \/ Slow
           /\ q.adr \in Adr /\ LineOf(q.adr) = Target /\ ~Come(q.adr.row)
           /\ q.op = "load_miss" => ~fill.dcbz
           /\ fill.dcbz <=> q.dcbz
           /\ q.op = "load_miss" \/ q.dcbz
           /\ ~full => q.op = "load_miss"
<1>1. /\ q.adr \in Adr /\ q.adr.row \in Row /\ TypeOK
  BY Typed, Records DEF SlowReq
<1>2. (full \/ Slow) /\ (q.op = "load_miss" \/ q.dcbz) /\ (q.op = "load_miss" => ~q.dcbz)
  BY Served DEF Serves
<1>3. CASE full
  <2>1. q = r1_req
    BY <1>3, Staged
  <2>2. LineOf(q.adr) = Target /\ Ahead(q.adr.row) <= Ahead(line.row.row)
        /\ (fill.dcbz <=> q.dcbz)
    BY <1>3, <2>1 DEF Turn, CoherenceInv, Waits
  <2>3. Ahead(q.adr.row) \in Nat /\ Ahead(line.row.row) \in Nat
    BY <1>1, AheadInjective, Records
  <2>4. ~Come(q.adr.row)
    BY <2>2, <2>3 DEF Come
  <2>5. QED
    BY <1>1, <1>2, <1>3, <2>2, <2>4
<1>4. CASE ~full
  <2>1. Goes /\ q.op = ThisOp /\ q.adr = r0.req.adr
    BY <1>2, <1>4, Staged, Decode
  <2>2. q.op = "load_miss"
    <3>1. /\ ThisOp = "store" => ~q.reload
          /\ ThisOp \in {"flush", "sync"} => ~q.reload
      BY <2>1, Decode
    <3>2. Slow
      BY <1>2, <1>4
    <3>3. QED
      BY <2>1, <3>1, <3>2, Finished
  <2>3. Line0 = Target /\ ~fill.dcbz /\ r0.req.adr.row \notin line.rows_valid
    BY <2>1, <2>2, Decode
  <2>4. ~Come(q.adr.row)
    <3>1. line.rows_valid = {r \in Row : Come(r)}
      BY DEF Turn, CoherenceInv, FillState
    <3>2. QED
      BY <1>1, <2>1, <2>3, <3>1
  <2>5. QED
    BY <1>1, <1>2, <2>1, <2>2, <2>3, <2>4 DEF Line0
<1>5. QED
  BY <1>3, <1>4

\* It comes if it is the last.
LEMMA AwaitedLast ==
    ASSUME NEW g, NEW in, NEW wbin, NEW f, NEW plru, NEW q, NEW how,
           Turn(g, in, wbin, f, plru, q, how), Reloads(q, plru, wbin), q.reload, full'
    PROVE  ~LastAck(wbin) /\ ~Come(q.adr.row)'
<1>1. state = "RELOAD_WAIT_ACK" /\ ~Arrives(q, wbin)
  BY DEF Reloads
<1>2. q.adr \in Adr /\ ~Come(q.adr.row) /\ q.adr.row \in Row
  BY <1>1, Awaited, Typed, Records
<1>3. ~(wbin.ack /\ q.adr.row = line.row.row)
  BY <1>1 DEF Arrives
<1>4. ~LastAck(wbin)
  <2>1. LastAck(wbin) => wbin.ack
    BY DEF LastAck
  <2>2. LastAck(wbin) => Come(q.adr.row) \/ q.adr.row = line.row.row
    BY <1>2, Progress
  <2>3. QED
    BY <1>2, <1>3, <2>1, <2>2
<1>5. PICK n \in Row : n = q.adr.row
  BY <1>2
<1>6. Come(n)' <=> Come(n) \/ (wbin.ack /\ n = line.row.row)
  BY <1>4, Progress
<1>7. Come(q.adr.row)' <=> Come(n)'
  BY <1>5 DEF Come, Ahead
<1>8. QED
  BY <1>2, <1>3, <1>4, <1>5, <1>6, <1>7

\* The request of the machine keeps fitting the cache.
LEMMA WaitsStep ==
    ASSUME NEW g, NEW in, NEW wbin, NEW f, NEW plru, NEW q, NEW how,
           Turn(g, in, wbin, f, plru, q, how)
    PROVE  Waits'
<1>1. SUFFICES ASSUME full'
      PROVE  /\ r1_req'.touch => ~r0'.full
             /\ IF state' = "RELOAD_WAIT_ACK" /\ r1_req'.reload
                THEN /\ LineOf(r1_req'.adr) = Target' /\ Ahead(r1_req.adr.row)' <= Ahead(line.row.row)'
                     /\ fill'.dcbz <=> r1_req'.dcbz
                ELSE /\ r1_req'.op = "store" => StoreHits(r1_req)'
                     /\ r1_req'.op = "load_miss" => \A w \in Way : ~InWay(w, LineOf(r1_req.adr))'
  BY Zenon DEF Waits, LineOf
<1>2. full \/ Slow
  BY <1>1, Served
<1>3. PICK r : /\ r = r1_req' /\ SameReq(r, q) /\ r.reload = (state = "IDLE" \/ q.reload)
  BY <1>2, Staged
<1>4. r.touch = q.touch /\ r.op = q.op /\ r.adr = q.adr /\ q \in SlowReq /\ q.adr \in Adr
      /\ (r.dcbz <=> q.dcbz) /\ (q.op = "load_miss" => ~q.dcbz)
  BY <1>2, <1>3, Served, Typed DEF SameReq, SlowReq, Serves
<1>5. q.touch => ~r0'.full
  <2>1. SUFFICES ASSUME q.touch PROVE ~r0'.full
    OBVIOUS
  <2>2. CASE full
    BY <2>1, <2>2, Staged DEF Turn, CoherenceInv, Waits
  <2>3. CASE ~full
    <3>1. Goes /\ r0.full /\ r0.req.op = "touch"
      BY <1>2, <2>1, <2>3, Staged, Decode
    <3>2. ~in.valid
      BY <3>1 DEF Turn, Asks, Allowed, Careful
    <3>3. QED
      BY <2>3, <3>2, Staged
  <2>4. QED
    BY <2>2, <2>3
<1>6. ASSUME ~fill.write_tag, state # "RELOAD_WAIT_ACK" \/ ~q.reload
      PROVE  /\ r.op = "store" => StoreHits(r1_req)'
             /\ r.op = "load_miss" => \A w \in Way : ~InWay(w, LineOf(r1_req.adr))'
  <2>1. /\ q.op = "store" => StoreHits(q)
        /\ q.op = "load_miss" => \A w \in Way : ~InWay(w, LineOf(q.adr))
    BY <1>2, <1>6, StoreKnown
  <2>2. q.op = "store" => StoreHits(r1_req)'
    BY <1>3, <1>6, <2>1, KeepsHits
  <2>3. LineOf(q.adr) \in Line
    BY <1>4, Typed, Records
  <2>4. ASSUME q.op = "load_miss", NEW w \in Way
        PROVE  ~InWay(w, LineOf(r1_req.adr))'
    <3>1. ~InWay(w, LineOf(q.adr))'
      BY <1>6, <2>1, <2>3, <2>4, NoWay
    <3>2. QED
      BY <1>3, <1>4, <3>1 DEF InWay, LineOf
  <2>5. QED
    BY <1>4, <2>2, <2>4
<1>7. CASE Fills(q)
  <2>1. /\ LineOf(q.adr) = Target' /\ line'.row = RowOf(q.adr) /\ r.reload /\ state' = "RELOAD_WAIT_ACK"
    BY <1>3, <1>7, Starts DEF Fills, Bus, Track
  <2>2. fill'.dcbz <=> r.dcbz
    <3>1. \/ q.op = "load_miss" /\ ~fill'.dcbz
          \/ q.dcbz /\ fill'.dcbz
      BY <1>7, FillsFor
    <3>2. QED
      BY <1>4, <3>1
  <2>3. Ahead(r1_req.adr.row)' <= Ahead(line.row.row)'
    <3>1. q.adr.row \in Row /\ line'.row.row = q.adr.row
      BY <1>4, <2>1, Typed, Records DEF RowOf
    <3>2. PICK n \in Row : n = q.adr.row /\ n = line'.row.row
      BY <3>1
    <3>3. Ahead(r1_req.adr.row)' = Ahead(n)' /\ Ahead(line.row.row)' = Ahead(n)'
      BY <1>3, <1>4, <3>2 DEF Ahead
    <3>4. Ahead(n)' \in Int
      <4>1. line'.end \in Row
        BY Typed DEF LineReg
      <4>2. QED
        BY <4>1, Sizes DEF Ahead, Row
    <3>5. QED
      BY <3>3, <3>4
  <2>4. QED
    BY <1>3, <1>4, <1>5, <2>1, <2>2, <2>3
<1>8. CASE Reloads(q, plru, wbin) /\ q.reload
  <2>1. state = "RELOAD_WAIT_ACK" /\ ~LastAck(wbin) /\ ~Come(q.adr.row)'
    BY <1>1, <1>8, AwaitedLast DEF Reloads
  <2>2. LineOf(q.adr) = Target /\ (fill.dcbz <=> q.dcbz)
    BY <1>8, <2>1, Awaited
  <2>3. /\ Target' = Target /\ fill'.dcbz = fill.dcbz /\ state' = "RELOAD_WAIT_ACK"
    BY <1>8, <2>1, Strobes DEF Reloads
  <2>4. Ahead(r1_req.adr.row)' <= Ahead(line.row.row)'
    <3>1. Ahead(q.adr.row)' \in Int /\ Ahead(line.row.row)' \in Int
      <4>1. line' \in LineReg /\ q.adr.row \in Row
        BY <1>4, Typed, Records
      <4>2. line'.end \in Row /\ line'.row.row \in Row
        BY <4>1 DEF LineReg, RowAdr
      <4>3. QED
        BY <4>1, <4>2, Sizes DEF Ahead, Row
    <3>2. ~(Ahead(q.adr.row)' > Ahead(line.row.row)')
      BY <2>1 DEF Come
    <3>3. Ahead(r1_req.adr.row)' = Ahead(q.adr.row)'
      BY <1>3, <1>4 DEF Ahead
    <3>4. QED
      BY <3>1, <3>2, <3>3
  <2>5. QED
    BY <1>3, <1>4, <1>5, <1>8, <2>2, <2>3, <2>4
<1>9. CASE Reloads(q, plru, wbin) /\ ~q.reload
  <2>1. state = "RELOAD_WAIT_ACK" /\ ~r.reload
    BY <1>3, <1>9, Typed DEF Reloads, SlowReq
  <2>2. ~fill.write_tag
    <3>1. fill.write_tag /\ full => r1_req.reload
      BY DEF Turn, CoherenceInv, FillState
    <3>2. full => q = r1_req
      BY Held
    <3>3. ~full => Goes
      BY <1>2, Staged
    <3>4. QED
      BY <1>9, <3>1, <3>2, <3>3, Tagging, Typed
  <2>3. QED
    BY <1>3, <1>4, <1>5, <1>6, <1>9, <2>1, <2>2
<1>10. CASE Quiet(wbin)
  <2>1. state # "RELOAD_WAIT_ACK" /\ state' # "RELOAD_WAIT_ACK"
    BY <1>10 DEF Quiet
  <2>2. ~fill.write_tag
    BY <2>1, Tagging
  <2>3. QED
    BY <1>3, <1>4, <1>5, <1>6, <2>1, <2>2
<1>11. ~Stores(q, wbin)
  BY <1>1 DEF Stores
<1>12. QED
  BY <1>7, <1>8, <1>9, <1>10, <1>11, Kinds

------------------------------------------------------------------------------
\* What the requesters keep clear of.

\* The data of the request in stage 0, on its wire or kept.
LEMMA DatStep ==
    ASSUME NEW g, NEW in, NEW wbin, NEW f, NEW plru, NEW q, NEW how,
           Turn(g, in, wbin, f, plru, q, how)
    PROVE  /\ full /\ r0.full => R0Dat' = R0Dat
           /\ in.valid => R0Dat' = in.dat
<1>1. /\ Stage0Edge(in, d_data, FALSE) /\ d_data' = (IF in.valid THEN in.dat ELSE 0)
      /\ in.valid => in.req \in Requests /\ ~full
      /\ in.valid /\ in.req.op # "store" => in.dat = 0
  BY DEF Turn, Clocked, Asks, Ready
<1>2. r0 \in [full : BOOLEAN, d_valid : BOOLEAN, req : Reqs, dat : Val] /\ full \in BOOLEAN
      /\ in.valid \in BOOLEAN
  BY Typed DEF CacheTypeOK, Reqs
<1>3. ASSUME full, r0.full PROVE R0Dat' = R0Dat
  <2>1. r0' = IF ~r0.d_valid THEN [r0 EXCEPT !.d_valid = TRUE, !.dat = d_data] ELSE r0
    BY <1>1, <1>2, <1>3 DEF Stage0Edge, Stall0
  <2>2. QED
    BY <1>2, <2>1 DEF R0Dat
<1>4. ASSUME in.valid PROVE R0Dat' = in.dat
  <2>1. r0' = [full |-> in.valid, d_valid |-> in.req.mmu,
               req |-> IF in.valid THEN in.req ELSE r0.req, dat |-> 0]
    BY <1>1, <1>2, <1>4 DEF Stage0Edge, Stall0
  <2>2. r0'.d_valid = in.req.mmu /\ r0'.dat = 0
    BY <2>1
  <2>3. in.req.mmu => in.dat = 0
    BY <1>1, <1>4, Units
  <2>4. in.req.mmu \in BOOLEAN
    BY <1>1, <1>4, Units
  <2>5. QED
    BY <1>1, <1>4, <2>2, <2>3, <2>4 DEF R0Dat
<1>5. QED
  BY <1>3, <1>4

\* Nothing but zeroes is stored while a line is zeroed, and it is not loaded.
LEMMA ZeroingKept ==
    ASSUME NEW g, NEW in, NEW wbin, NEW f, NEW plru, NEW q, NEW how,
           Turn(g, in, wbin, f, plru, q, how), in.valid, (Goes /\ r0.req.op = "dcbz") \/ fill.dcbz
    PROVE  /\ in.dat = 0
           /\ Goes /\ r0.req.op = "dcbz" /\ in.req.op = "load" => LineOf(in.req.adr) # LineOf(r0.req.adr)
           /\ fill.dcbz /\ in.req.op = "load" => LineOf(in.req.adr) # LineOf(wb.adr)
<1>1. /\ Zeroing # {} => in.dat = 0 /\ (in.req.op = "load" => LineOf(in.req.adr) \notin Zeroing)
  BY DEF Turn, Asks, Allowed, Careful
<1>2. fill.dcbz => LineOf(wb.adr) \in Zeroing
  BY DEF Zeroing
<1>3. Goes /\ r0.req.op = "dcbz" => LineOf(r0.req.adr) \in Zeroing
  <2>1. SUFFICES ASSUME Goes, r0.req.op = "dcbz" PROVE LineOf(r0.req.adr) \in Zeroing
    OBVIOUS
  <2>2. r0.full
    BY <2>1, Staged
  <2>3. asked[Len(asked)].req = r0.req /\ asked \in Seq(Taken) /\ Len(asked) >= 1
    <3>1. /\ asked[Len(asked)].req = r0.req /\ asked \in Seq(Taken)
          /\ Len(asked) = Count(Completing) + Count(full) + Count(r0.full)
      BY <2>2 DEF Turn, BusInv, InOrder, TypeOK
    <3>2. Count(Completing) \in Nat /\ Count(full) \in Nat /\ Count(r0.full) = 1
      BY <2>2 DEF Count
    <3>3. QED
      BY <3>1, <3>2
  <2>4. Len(asked) \in DOMAIN asked
    BY <2>3
  <2>5. \E i \in {j \in DOMAIN asked : asked[j].req.op = "dcbz"} :
           LineOf(r0.req.adr) = LineOf(asked[i].req.adr)
    BY <2>1, <2>3, <2>4
  <2>6. QED
    BY <2>5 DEF Zeroing
<1>4. QED
  BY <1>1, <1>2, <1>3

\* While a line is zeroed, nothing but zeroes is under way.
LEMMA ZeroesStep ==
    ASSUME NEW g, NEW in, NEW wbin, NEW f, NEW plru, NEW q, NEW how,
           Turn(g, in, wbin, f, plru, q, how)
    PROVE  Zeroes'
<1>1. /\ r0.full /\ r0.req.op # "store" => R0Dat = 0
      /\ full /\ r1_req.dcbz => r1_req.dat = 0 /\ r1_req.sel
      /\ (full /\ r1_req.dcbz) \/ (state = "RELOAD_WAIT_ACK" /\ fill.dcbz) =>
           /\ r1_req.dat = 0
           /\ r0.full => R0Dat = 0
      /\ full /\ r1_req.dcbz /\ r0.full /\ r0.req.op = "load" => LineOf(r0.req.adr) # LineOf(r1_req.adr)
      /\ state = "RELOAD_WAIT_ACK" /\ fill.dcbz /\ r0.full /\ r0.req.op = "load"
           => LineOf(r0.req.adr) # Target
  BY DEF Turn, CoherenceInv, Zeroes
<1>2. /\ full => ~in.valid /\ r0'.full = r0.full /\ r0'.req = r0.req /\ q = r1_req
      /\ ~full => r0'.full = in.valid /\ (in.valid => r0'.req = in.req)
      /\ full' => full \/ Goes
      /\ full \/ Goes => SameReq(r1_req', q)
      /\ ~full /\ ~Goes => SameReq(r1_req', r1_req)
      /\ full \in BOOLEAN
  BY Staged, Served, Typed
<1>3. PICK r : r = r1_req'
  OBVIOUS
<1>4. /\ full \/ Goes => r.dat = q.dat /\ r.sel = q.sel /\ r.dcbz = q.dcbz /\ r.adr = q.adr
      /\ ~full /\ ~Goes => r.dat = r1_req.dat
  BY <1>2, <1>3 DEF SameReq
<1>5. Goes => /\ ~full /\ q.adr = r0.req.adr
              /\ q.dat = (IF r0.req.op = "dcbz" THEN 0 ELSE R0Dat)
              /\ (q.dcbz <=> r0.req.op = "dcbz") /\ (r0.req.op = "dcbz" => q.sel)
  BY Fields
<1>6. r0'.full /\ r0'.req.op # "store" => R0Dat' = 0
  <2>1. CASE full
    BY <1>1, <1>2, <2>1, DatStep
  <2>2. CASE ~full
    <3>1. in.valid /\ in.req.op # "store" => in.dat = 0
      BY DEF Turn, Asks
    <3>2. QED
      BY <1>2, <2>2, <3>1, DatStep
  <2>3. QED
    BY <1>2, <2>1, <2>2
<1>7. ASSUME full', r.dcbz
      PROVE  /\ r.dat = 0 /\ r.sel
             /\ r0'.full => R0Dat' = 0
             /\ r0'.full /\ r0'.req.op = "load" => LineOf(r0'.req.adr) # LineOf(r.adr)
  <2>1. CASE full
    BY <1>1, <1>2, <1>4, <1>7, <2>1, DatStep
  <2>2. CASE ~full
    <3>1. Goes /\ r0.req.op = "dcbz"
      BY <1>2, <1>4, <1>5, <1>7, <2>2
    <3>2. r.dat = 0 /\ r.sel /\ r.adr = r0.req.adr
      BY <1>4, <1>5, <3>1
    <3>3. in.valid => in.dat = 0 /\ (in.req.op = "load" => LineOf(in.req.adr) # LineOf(r0.req.adr))
      BY <3>1, ZeroingKept
    <3>4. QED
      BY <1>2, <2>2, <3>2, <3>3, DatStep
  <2>3. QED
    BY <1>2, <2>1, <2>2
<1>8. ASSUME state' = "RELOAD_WAIT_ACK", fill'.dcbz
      PROVE  /\ r.dat = 0
             /\ r0'.full => R0Dat' = 0
             /\ r0'.full /\ r0'.req.op = "load" => LineOf(r0'.req.adr) # Target'
  <2>1. CASE Fills(q)
    <3>1. full' /\ q.dcbz /\ q.op = "store"
      BY <1>8, <2>1, FillsFor
    <3>2. r.dcbz /\ r.adr = q.adr
      BY <1>2, <1>4, <3>1
    <3>3. Target' = LineOf(r.adr)
      BY <2>1, <3>2, Starts
    <3>4. QED
      BY <1>7, <3>1, <3>2, <3>3
  <2>2. CASE Reloads(q, plru, wbin)
    <3>1. state = "RELOAD_WAIT_ACK" /\ fill.dcbz /\ Target' = Target /\ LineOf(wb.adr) = Target
      <4>1. state = "RELOAD_WAIT_ACK"
        BY <2>2 DEF Reloads
      <4>2. LineOf(wb.adr) = Target
        BY <4>1 DEF Turn, CoherenceInv, FillState
      <4>3. QED
        BY <1>8, <2>2, <4>1, <4>2, Strobes
    <3>2. CASE full
      BY <1>1, <1>2, <1>4, <3>1, <3>2, DatStep
    <3>3. CASE ~full
      <4>1. Goes => r0.full
        BY Staged
      <4>2. r.dat = 0
        BY <1>1, <1>2, <1>4, <1>5, <3>1, <3>3, <4>1
      <4>3. in.valid => in.dat = 0 /\ (in.req.op = "load" => LineOf(in.req.adr) # Target)
        BY <3>1, ZeroingKept
      <4>4. QED
        BY <1>2, <3>1, <3>3, <4>2, <4>3, DatStep
    <3>4. QED
      BY <1>2, <3>2, <3>3
  <2>3. QED
    BY <1>8, <2>1, <2>2, Kinds DEF Stores, Quiet
<1>9. QED
  BY <1>3, <1>6, <1>7, <1>8 DEF Zeroes

\* When nothing is asked of the machine, it only ends what it does.
LEMMA NothingAsked ==
    ASSUME NEW g, NEW in, NEW wbin, NEW f, NEW plru, NEW q, NEW how,
           Turn(g, in, wbin, f, plru, q, how), ~full, ~Slow, state # "RELOAD_WAIT_ACK"
    PROVE  ~full' /\ state \in {"IDLE", "STORE_WAIT_ACK"} /\ state' \in {"IDLE", "STORE_WAIT_ACK"}
<1>1. ~full'
  BY Served
<1>2. state \in {"IDLE", "STORE_WAIT_ACK"}
  <2>1. state \in State
    BY Typed DEF CacheTypeOK
  <2>2. state \notin {"NC_LOAD_WAIT_ACK", "DO_STCX", "FLUSH_CYCLE"}
    BY DEF Turn, BusInv, AtWork
  <2>3. QED
    BY <2>1, <2>2 DEF State
<1>3. state' # "RELOAD_WAIT_ACK"
  BY Kinds DEF Fills, Stores, Reloads, Quiet
<1>4. state' \in State
  BY DEF Turn, BusInv, TypeOK, CacheTypeOK
<1>5. state' \notin {"NC_LOAD_WAIT_ACK", "DO_STCX", "FLUSH_CYCLE"}
  BY <1>1 DEF Turn, BusInv, AtWork
<1>6. QED
  BY <1>1, <1>2, <1>3, <1>4, <1>5 DEF State

\* The requests that must go at once, go at once.
LEMMA AtOnceStep ==
    ASSUME NEW g, NEW in, NEW wbin, NEW f, NEW plru, NEW q, NEW how,
           Turn(g, in, wbin, f, plru, q, how)
    PROVE  AtOnce'
<1>1. /\ full => ~in.valid /\ r0'.full = r0.full /\ r0'.req = r0.req
      /\ ~full => r0'.full = in.valid /\ r0'.req = IF in.valid THEN in.req ELSE r0.req
      /\ (Goes <=> r0.full /\ ~full /\ ~done.ls_error) /\ (Slow => Goes)
      /\ full => ~done.ls_error
      /\ in.valid => ~done.ls_error
      /\ full \in BOOLEAN /\ in.valid \in BOOLEAN
  BY Staged, Typed
<1>2. /\ half_open' = IF in.valid THEN in.req.half = "first" ELSE half_open /\ ~done.ls_error
      /\ in.valid => Allowed(in)
  BY DEF Turn, Asks
<1>3. AtOnce /\ half_open \in BOOLEAN
  BY DEF Turn, CoherenceInv, BusInv, TypeOK
<1>4. ASSUME r0'.full, r0'.req.op = "load", r0'.req.half # "second",
             r0'.req.half = "first" \/ r0'.req.reserve
      PROVE  ~full' /\ ~done'.ls_error /\ state' \in {"IDLE", "STORE_WAIT_ACK"}
  <2>1. ~full
    BY <1>1, <1>3, <1>4 DEF AtOnce
  <2>2. in.valid /\ r0'.req = in.req
    BY <1>1, <1>4, <2>1
  <2>3. ~Filling
    BY <1>2, <1>4, <2>2 DEF Allowed, Turn, Careful
  <2>4. state # "RELOAD_WAIT_ACK" /\ ~Goes
    BY <1>1, <2>2, <2>3 DEF Filling, Dropped
  <2>5. ~Slow
    BY <1>1, <2>4
  <2>6. ~done'.ls_error
    BY <2>4, Finished
  <2>7. QED
    BY <2>1, <2>4, <2>5, <2>6, NothingAsked
<1>5. half_open' => r0'.req.half = "first"
  BY <1>1, <1>2, <1>3 DEF AtOnce
<1>6. r0'.full /\ r0'.req.half = "first" => half_open'
  BY <1>1, <1>2, <1>3 DEF AtOnce
<1>7. r0'.full /\ r0'.req.reserve => r0'.req.ok /\ ~r0'.req.nc
  <2>1. CASE in.valid
    <3>1. in.req.reserve => in.req.ok /\ ~in.req.nc
      BY <1>2, <2>1 DEF Allowed, Turn, Careful
    <3>2. QED
      BY <1>1, <2>1, <3>1
  <2>2. CASE ~in.valid
    BY <1>1, <1>3, <2>2 DEF AtOnce
  <2>3. QED
    BY <1>1, <2>1, <2>2
<1>8. QED
  BY <1>4, <1>5, <1>6, <1>7 DEF AtOnce

------------------------------------------------------------------------------
\* The halves of a quadword.

\* The first half goes, without an error; or it has gone, and the machine works
\* on it or the second is yet to be asked.
Begins(op) == Goes /\ r0.req.half = "first" /\ r0.req.op = op /\ ThisOp # "bad"
Stands(op) == Open(op) /\ (full \/ ~r0.full)

\* The first half of a quadword is a load or store of the load-store unit.
LEMMA FirstHalf ==
    ASSUME NEW g, NEW in, NEW wbin, NEW f, NEW plru, NEW q, NEW how,
           Turn(g, in, wbin, f, plru, q, how), r0.full, r0.req.half = "first"
    PROVE  half_open /\ ~r0.req.mmu /\ r0.req.op \in {"load", "store"}
<1>1. half_open
  BY DEF Turn, CoherenceInv, AtOnce
<1>2. r0.req \in Requests
  <2>1. r0.req \in Requests \/ r0.req = NoReq
    BY Typed, Request0
  <2>2. NoReq.half = "whole"
    BY DEF NoReq
  <2>3. QED
    BY <2>1, <2>2
<1>3. QED
  BY <1>1, <1>2, RequestsAssumption DEF Req

\* What is asked while the second half is to come, is the second half.
LEMMA SecondHalf ==
    ASSUME NEW g, NEW in, NEW wbin, NEW f, NEW plru, NEW q, NEW how,
           Turn(g, in, wbin, f, plru, q, how), half_open, in.valid
    PROVE  /\ r0.req.half = "first" /\ in.req.half = "second"
           /\ in.req.adr = Partner(r0.req.adr) /\ in.req.op = r0.req.op
           /\ in.req.nc = r0.req.nc /\ in.req.reserve = r0.req.reserve
           /\ in.req.ok = r0.req.ok /\ in.req.mmu = r0.req.mmu
<1>1. r0.req.half = "first"
  BY DEF Turn, CoherenceInv, AtOnce
<1>2. half_open \in BOOLEAN /\ Ready(in.req)
  BY DEF Turn, Asks, BusInv, TypeOK
<1>3. in.req.half = "second"
  BY <1>2 DEF Ready
<1>4. in.req = [r0.req EXCEPT !.half = "second", !.adr = Partner(r0.req.adr)]
  BY <1>2, <1>3 DEF Ready
<1>5. r0.req \in Req
  BY Typed, Request0
<1>6. QED
  BY <1>1, <1>3, <1>4, <1>5 DEF Req

\* A quadword is open after a step if its first half goes now, or has gone.
LEMMA OpenStep ==
    ASSUME NEW g, NEW in, NEW wbin, NEW f, NEW plru, NEW q, NEW how,
           Turn(g, in, wbin, f, plru, q, how), NEW op
    PROVE  /\ Open(op)' <=> Begins(op) \/ Stands(op)
           /\ Open(op)' => /\ r0.req.op = op /\ r0'.req.op = op
                           /\ r0'.req.nc = r0.req.nc /\ r0'.req.reserve = r0.req.reserve
                           /\ r0'.req.ok = r0.req.ok /\ r0'.req.mmu = r0.req.mmu
           /\ Begins(op) => Second' = Partner(r0.req.adr)
           /\ Stands(op) => Second' = Second /\ ~Goes
<1>1. /\ full => ~in.valid /\ r0'.full = r0.full /\ r0'.req = r0.req /\ ~done.ls_error
      /\ ~full => r0'.full = in.valid /\ r0'.req = IF in.valid THEN in.req ELSE r0.req
      /\ (Goes <=> r0.full /\ ~full /\ ~done.ls_error)
      /\ in.valid => ~done.ls_error
  BY Staged
<1>2. /\ full \in BOOLEAN /\ r0.full \in BOOLEAN /\ in.valid \in BOOLEAN
      /\ half_open \in BOOLEAN /\ done.ls_error \in BOOLEAN
      /\ r0.req.half \in {"whole", "first", "second"}
      /\ half_open' = IF in.valid THEN in.req.half = "first" ELSE half_open /\ ~done.ls_error
  BY Typed, Request0 DEF TypeOK, DoneReg, Turn, Asks
<1>3. /\ half_open => r0.req.half = "first"
      /\ half_open /\ in.valid =>
           /\ in.req.half = "second"
           /\ in.req.adr = Partner(r0.req.adr) /\ in.req.op = r0.req.op
           /\ in.req.nc = r0.req.nc /\ in.req.reserve = r0.req.reserve
           /\ in.req.ok = r0.req.ok /\ in.req.mmu = r0.req.mmu
      /\ in.valid /\ in.req.half = "second" => half_open
      /\ r0.full /\ r0.req.half = "first" => half_open /\ ~r0.req.mmu
  BY <1>2, SecondHalf, FirstHalf DEF Turn, CoherenceInv, AtOnce, Asks, Ready
<1>4. /\ done'.ls_error = (ThisOp = "bad" /\ ~r0.req.mmu)
      /\ ThisOp = "bad" => Goes
  BY Finished
<1>5. /\ Open(op) <=> /\ r0.req.op = op /\ ~done.ls_error
                      /\ (half_open /\ ~r0.full) \/ (r0.full /\ r0.req.half = "second")
      /\ Second = IF r0.req.half = "first" THEN Partner(r0.req.adr) ELSE r0.req.adr
  BY DEF Open, Second
<1>6. /\ Open(op)' <=> /\ r0'.req.op = op /\ ~done'.ls_error
                       /\ (half_open' /\ ~r0'.full) \/ (r0'.full /\ r0'.req.half = "second")
      /\ Second' = IF r0'.req.half = "first" THEN Partner(r0'.req.adr) ELSE r0'.req.adr
  BY DEF Open, Second, Partner
<1>7. CASE full
  <2>1. ~Goes /\ ~done'.ls_error /\ half_open' = half_open
    BY <1>1, <1>2, <1>4, <1>7
  <2>2. ~Begins(op) /\ (Stands(op) <=> Open(op))
    BY <1>7, <2>1 DEF Begins, Stands
  <2>3. QED
    BY <1>1, <1>2, <1>3, <1>5, <1>6, <1>7, <2>1, <2>2
<1>8. CASE ~full /\ r0.full
  <2>1. ~Stands(op)
    BY <1>8 DEF Stands
  <2>2. Open(op)' => Begins(op)
    BY <1>1, <1>2, <1>3, <1>4, <1>6, <1>8 DEF Begins
  <2>3. ASSUME Begins(op)
        PROVE  /\ Open(op)' /\ r0.req.op = op /\ r0'.req.op = op
               /\ r0'.req.nc = r0.req.nc /\ r0'.req.reserve = r0.req.reserve
               /\ r0'.req.ok = r0.req.ok /\ r0'.req.mmu = r0.req.mmu
               /\ Second' = Partner(r0.req.adr)
    <3>1. half_open /\ r0.req.half = "first" /\ r0.req.op = op /\ ~done.ls_error /\ ~done'.ls_error
      BY <1>1, <1>3, <1>4, <1>8, <2>3 DEF Begins
    <3>2. CASE in.valid
      BY <1>1, <1>2, <1>3, <1>6, <1>8, <3>1, <3>2
    <3>3. CASE ~in.valid
      BY <1>1, <1>2, <1>3, <1>6, <1>8, <3>1, <3>3
    <3>4. QED
      BY <1>2, <3>2, <3>3
  <2>4. QED
    BY <2>1, <2>2, <2>3
<1>9. CASE ~full /\ ~r0.full
  <2>1. ~Goes /\ ~Begins(op) /\ ~done'.ls_error /\ (Stands(op) <=> Open(op))
    BY <1>1, <1>4, <1>9 DEF Begins, Stands
  <2>2. CASE in.valid
    BY <1>1, <1>2, <1>3, <1>5, <1>6, <1>9, <2>1, <2>2
  <2>3. CASE ~in.valid
    BY <1>1, <1>2, <1>3, <1>5, <1>6, <1>9, <2>1, <2>3
  <2>4. QED
    BY <1>2, <2>2, <2>3
<1>10. QED
  BY <1>2, <1>7, <1>8, <1>9

\* A load that is taken by the machine and waits for no row starts, or waits.
LEMMA MissWaits ==
    ASSUME NEW g, NEW in, NEW wbin, NEW f, NEW plru, NEW q, NEW how,
           Turn(g, in, wbin, f, plru, q, how), full \/ Slow, q.op = "load_miss", ~q.touch
    PROVE  /\ state = "IDLE" => full' /\ state' = IF q.nc THEN "NC_LOAD_WAIT_ACK" ELSE "RELOAD_WAIT_ACK"
           /\ state = "STORE_WAIT_ACK" => full' /\ state' \in {"IDLE", "STORE_WAIT_ACK"}
<1>1. Works(q, d_data, plru, wbin)
  BY DEF Turn, Clocked
<1>2. q.nc \in BOOLEAN /\ q.touch \in BOOLEAN
  BY Typed DEF SlowReq
<1>3. ASSUME state = "IDLE"
      PROVE  full' /\ state' = IF q.nc THEN "NC_LOAD_WAIT_ACK" ELSE "RELOAD_WAIT_ACK"
  <2>1. Idle(q, FALSE, plru)
    BY <1>1, <1>3 DEF Works, Reload, Store, NcLoad, DoStcx, Flush
  <2>2. ~IdleStay(q, FALSE)
    BY DEF IdleStay, Slow
  <2>3. IdleMiss(q, FALSE) \/ IdleNcLoad(q, FALSE)
    BY <2>1, <2>2 DEF Idle, IdleStcx, IdleStore, IdleDcbz, IdleFlush, IdleSync
  <2>4. QED
    BY <1>2, <2>3 DEF IdleMiss, IdleNcLoad
<1>4. ASSUME state = "STORE_WAIT_ACK"
      PROVE  full' /\ state' \in {"IDLE", "STORE_WAIT_ACK"}
  <2>1. Store(q, FALSE, d_data, plru, wbin)
    BY <1>1, <1>4 DEF Works, Reload, Idle, NcLoad, DoStcx, Flush
  <2>2. ~Follows(q, wbin)
    BY DEF Follows, Joins
  <2>3. QED
    BY <2>1, <2>2 DEF Store, FullNext, Slow
<1>5. QED
  BY <1>3, <1>4

\* The ways that hit last.
LEMMA PrevStep ==
    ASSUME NEW g, NEW in, NEW wbin, NEW f, NEW plru, NEW q, NEW how,
           Turn(g, in, wbin, f, plru, q, how)
    PROVE  /\ state # "RELOAD_WAIT_ACK" => prev_ways' = IF Goes THEN Ways0 ELSE prev_ways
           /\ state = "RELOAD_WAIT_ACK" =>
                prev_ways' = IF LastAck(wbin) THEN line.ways
                             ELSE IF Goes THEN Ways0
                             ELSE IF fill.write_tag THEN {ReplaceWay(plru)} ELSE prev_ways
<1>1. Works(q, d_data, plru, wbin)
  BY DEF Turn, Clocked
<1>2. ASSUME state # "RELOAD_WAIT_ACK"
      PROVE  prev_ways' = IF Goes THEN Ways0 ELSE prev_ways
  <2>1. PrevEdge(FALSE)
    BY Zenon, <1>1, <1>2 DEF Works, Idle, Reload, Store, NcLoad, DoStcx, Flush
  <2>2. QED
    BY Zenon, <2>1 DEF PrevEdge, Goes, Ways0
<1>3. ASSUME state = "RELOAD_WAIT_ACK"
      PROVE  prev_ways' = IF LastAck(wbin) THEN line.ways
                          ELSE IF Goes THEN Ways0
                          ELSE IF fill.write_tag THEN {ReplaceWay(plru)} ELSE prev_ways
  <2>1. Reload(q, FALSE, plru, wbin)
    BY <1>1, <1>3 DEF Works, Idle, Store, NcLoad, DoStcx, Flush
  <2>2. QED
    BY Zenon, <2>1 DEF Reload, Goes, Ways0
<1>4. QED
  BY <1>2, <1>3

\* What the machine completes in a refill.
LEMMA CompletesFor ==
    ASSUME NEW how, NEW hold, Completes(how, hold), how \in {"ls", "fail"}
    PROVE  done'.ls_valid
BY DEF Completes

\* A request completed by a refill finds its row arriving.
LEMMA ReloadEnds ==
    ASSUME NEW g, NEW in, NEW wbin, NEW f, NEW plru, NEW q, NEW how,
           Turn(g, in, wbin, f, plru, q, how), state = "RELOAD_WAIT_ACK", full, ~full', ~r1_req.mmu
    PROVE  Arrives(q, wbin) /\ done'.ls_valid
<1>1. Reload(q, FALSE, plru, wbin)
  BY DEF Turn, Clocked, Works, Idle, Store, NcLoad, DoStcx, Flush
<1>2. Arrives(q, wbin)
  BY <1>1 DEF Reload, FullNext, Arrives
<1>3. ToRequester = "ls"
  BY DEF Turn, BusInv, RequesterKept, ToRequester
<1>4. Completes(IF Arrives(q, wbin) THEN ToRequester ELSE "none", FALSE)
  BY Zenon, <1>1 DEF Reload
<1>5. Completes("ls", FALSE)
  BY Zenon, <1>2, <1>3, <1>4
<1>6. QED
  BY Zenon, <1>2, <1>5, CompletesFor

\* The other half of a quadword is another row of the line.
LEMMA PartnerOf ==
    ASSUME NEW a \in Adr
    PROVE  /\ Partner(a) \in Adr /\ LineOf(Partner(a)) = LineOf(a) /\ Partner(a).row = NextRow(a.row)
           /\ Partner(a) # a
<1>1. NextRow(a.row) \in Row /\ NextRow(a.row) # a.row
  BY Rows, CacheAssumption DEF Adr, NextRow, Row
<1>2. QED
  BY <1>1 DEF Partner, Adr, LineOf

\* A quadword load: its first half hits, or the machine starts on it.
LEMMA LoadBegins ==
    ASSUME NEW g, NEW in, NEW wbin, NEW f, NEW plru, NEW q, NEW how,
           Turn(g, in, wbin, f, plru, q, how), Begins("load")
    PROVE  /\ ~full /\ state \in {"IDLE", "STORE_WAIT_ACK"} /\ q.adr = r0.req.adr /\ q.nc = r0.req.nc
           /\ q.first /\ ~q.last /\ ~q.touch /\ ~r0.req.mmu
           /\ \/ ThisOp = "load_hit" /\ ~Slow /\ ~full' /\ state' \in {"IDLE", "STORE_WAIT_ACK"}
              \/ ThisOp = "load_miss" /\ Slow /\ q.op = "load_miss" /\ full'
<1>1. Goes /\ r0.req.half = "first" /\ r0.req.op = "load" /\ ThisOp # "bad"
  BY DEF Begins
<1>2. r0.full /\ ~full
  BY <1>1, Staged
<1>3. state \in {"IDLE", "STORE_WAIT_ACK"}
  BY <1>1, <1>2 DEF Turn, CoherenceInv, AtOnce
<1>4. /\ q.op = ThisOp /\ q.adr = r0.req.adr /\ q.nc = r0.req.nc
      /\ q.touch = (r0.req.op = "touch")
      /\ q.first = (r0.req.half # "second") /\ q.last = (r0.req.half # "first")
      /\ ThisOp = "store" => r0.req.op \in {"store", "dcbz"}
      /\ ThisOp = "flush" => r0.req.op = "flush"
      /\ ThisOp = "sync" => r0.req.op = "sync"
      /\ ThisOp = "nop" => r0.req.op \in {"touch", "flush"}
  BY <1>1, Decode
<1>5. ~r0.req.mmu
  BY <1>1, <1>2, FirstHalf
<1>6. ThisOp \in {"load_hit", "load_miss"}
  BY <1>1, <1>4, Finished
<1>7. CASE ThisOp = "load_hit"
  <2>1. ~Slow
    BY <1>7, Finished
  <2>2. ~full' /\ state' \in {"IDLE", "STORE_WAIT_ACK"}
    BY <1>2, <1>3, <2>1, NothingAsked
  <2>3. QED
    BY <1>1, <1>2, <1>3, <1>4, <1>5, <1>7, <2>1, <2>2
<1>8. CASE ThisOp = "load_miss"
  <2>1. Slow /\ q.op = "load_miss" /\ ~q.touch
    BY <1>1, <1>4, <1>8, Finished
  <2>2. full'
    BY <1>3, <2>1, MissWaits
  <2>3. QED
    BY <1>1, <1>2, <1>3, <1>4, <1>5, <1>8, <2>1, <2>2
<1>9. QED
  BY <1>6, <1>7, <1>8

\* The machine has the first half; the states it goes through.
LEMMA LoadOpen ==
    ASSUME NEW g, NEW in, NEW wbin, NEW f, NEW plru, NEW q, NEW how,
           Turn(g, in, wbin, f, plru, q, how), Open("load")'
    PROVE  /\ state' \in {"IDLE", "STORE_WAIT_ACK"}
                \cup IF r0'.req.nc THEN {"NC_LOAD_WAIT_ACK"} ELSE {"RELOAD_WAIT_ACK"}
           /\ full' => /\ q.op = "load_miss" /\ ~q.last /\ q.first /\ ~q.touch
                       /\ q.nc = r0'.req.nc /\ Second' = Partner(q.adr) /\ (full \/ Slow)
<1>1. /\ Begins("load") \/ Stands("load")
      /\ r0'.req.nc = r0.req.nc
      /\ Begins("load") => Second' = Partner(r0.req.adr)
      /\ Stands("load") => Second' = Second /\ ~Goes
  BY OpenStep
<1>2. r0.req.nc \in BOOLEAN /\ full \in BOOLEAN
  BY Typed, Request0
<1>3. CASE Begins("load")
  <2>1. /\ state \in {"IDLE", "STORE_WAIT_ACK"} /\ q.adr = r0.req.adr /\ q.nc = r0.req.nc
        /\ q.first /\ ~q.last /\ ~q.touch
        /\ \/ ~full' /\ state' \in {"IDLE", "STORE_WAIT_ACK"}
           \/ Slow /\ q.op = "load_miss" /\ full'
    BY <1>3, LoadBegins
  <2>2. CASE ~full' /\ state' \in {"IDLE", "STORE_WAIT_ACK"}
    BY <2>2
  <2>3. CASE Slow /\ q.op = "load_miss"
    <3>1. state' \in {"IDLE", "STORE_WAIT_ACK"}
                      \cup IF q.nc THEN {"NC_LOAD_WAIT_ACK"} ELSE {"RELOAD_WAIT_ACK"}
      BY <2>1, <2>3, MissWaits
    <3>2. QED
      BY <1>1, <1>3, <2>1, <2>3, <3>1
  <2>4. QED
    BY <2>1, <2>2, <2>3
<1>4. CASE Stands("load")
  <2>1. /\ Open("load") /\ (full \/ ~r0.full) /\ ~Goes /\ Second' = Second
        /\ state \in {"IDLE", "STORE_WAIT_ACK"}
                \cup IF r0.req.nc THEN {"NC_LOAD_WAIT_ACK"} ELSE {"RELOAD_WAIT_ACK"}
        /\ full => /\ r1_req.op = "load_miss" /\ ~r1_req.last /\ r1_req.first /\ ~r1_req.touch
                   /\ r1_req.nc = r0.req.nc /\ Second = Partner(r1_req.adr)
    BY <1>1, <1>4 DEF Stands, Turn, CoherenceInv, PairKept
  <2>2. full' => full
    BY <2>1, Staged, Served
  <2>3. full' => /\ q.op = "load_miss" /\ ~q.last /\ q.first /\ ~q.touch
                 /\ q.nc = r0'.req.nc /\ Second' = Partner(q.adr) /\ (full \/ Slow)
    BY <1>1, <2>1, <2>2, Held
  <2>4. CASE state = "RELOAD_WAIT_ACK"
    <3>1. state' \in {"IDLE", "RELOAD_WAIT_ACK"}
      BY <2>4, Kinds DEF Reloads, Fills, Stores, Quiet
    <3>2. QED
      BY <1>1, <2>1, <2>3, <2>4, <3>1
  <2>5. CASE state = "NC_LOAD_WAIT_ACK"
    <3>1. state' \in {"IDLE", "NC_LOAD_WAIT_ACK"}
      BY <2>5 DEF Turn, Clocked, Works, Idle, Reload, Store, NcLoad, DoStcx, Flush
    <3>2. QED
      BY <1>1, <2>1, <2>3, <2>5, <3>1
  <2>6. CASE state \in {"IDLE", "STORE_WAIT_ACK"}
    <3>1. CASE full
      <4>1. q.op = "load_miss" /\ ~q.touch /\ q.nc = r0.req.nc
        BY <2>1, <3>1, Held
      <4>2. state' \in {"IDLE", "STORE_WAIT_ACK"}
                      \cup IF q.nc THEN {"NC_LOAD_WAIT_ACK"} ELSE {"RELOAD_WAIT_ACK"}
        BY <2>6, <3>1, <4>1, MissWaits
      <4>3. QED
        BY <1>1, <2>3, <4>1, <4>2
    <3>2. CASE ~full
      <4>1. ~Slow
        BY <2>1, Staged
      <4>2. state' \in {"IDLE", "STORE_WAIT_ACK"}
        BY <2>6, <3>2, <4>1, NothingAsked
      <4>3. QED
        BY <2>3, <4>2
    <3>3. QED
      BY <1>2, <3>1, <3>2
  <2>7. QED
    BY <1>2, <2>1, <2>4, <2>5, <2>6
<1>5. QED
  BY <1>1, <1>3, <1>4

\* The line of a quadword is being refilled: the row of the first half is the
\* first to come.
LEMMA PairRefill ==
    ASSUME NEW g, NEW in, NEW wbin, NEW f, NEW plru, NEW q, NEW how,
           Turn(g, in, wbin, f, plru, q, how), Parted', state' = "RELOAD_WAIT_ACK"
    PROVE  /\ LineOf(Second)' = Target' /\ ~fill'.dcbz
           /\ ~fill'.write_tag => prev_ways' = {line'.way}
           /\ IF full' THEN r1_req'.reload /\ line'.rows_valid = {} /\ line'.row.row = r1_req'.adr.row
              ELSE ~fill'.write_tag /\ line'.rows_valid # {}
<1>1. /\ Open("load")' /\ ~r0'.req.nc
      /\ LineOf(Second)' = LineOf(Second')
  BY DEF Parted, LineOf
<1>2. /\ Begins("load") \/ Stands("load")
      /\ r0'.req.nc = r0.req.nc
      /\ Stands("load") => Second' = Second /\ ~Goes
  BY <1>1, OpenStep
<1>3. full' => /\ q.op = "load_miss" /\ ~q.touch
               /\ Second' = Partner(q.adr) /\ (full \/ Slow)
  BY <1>1, LoadOpen
<1>4. full \in BOOLEAN /\ full' \in BOOLEAN /\ wbin \in BusWire /\ q \in SlowReq
  BY Typed
<1>5. CASE Fills(q)
  <2>1. (full \/ Slow) /\ q.op = "load_miss" /\ ~q.touch
    <3>1. full \/ Slow
      BY <1>5 DEF Fills
    <3>2. CASE Begins("load")
      BY <3>1, <3>2, LoadBegins
    <3>3. CASE Stands("load")
      <4>1. full
        BY <1>2, <3>1, <3>3, Staged
      <4>2. r1_req.op = "load_miss" /\ ~r1_req.touch
        BY <3>3, <4>1 DEF Stands, Turn, CoherenceInv, PairKept
      <4>3. QED
        BY <3>1, <4>1, <4>2, Held
    <3>4. QED
      BY <1>2, <3>2, <3>3
  <2>2. full' /\ ~fill'.dcbz /\ fill'.write_tag
    BY <1>4, <1>5, <2>1, FillsFor
  <2>3. /\ q.adr \in Adr /\ Target' = LineOf(q.adr) /\ line'.row = RowOf(q.adr)
        /\ line'.rows_valid = {} /\ SameReq(r1_req', q) /\ r1_req'.reload
    BY <1>5, Starts
  <2>4. LineOf(Second') = LineOf(q.adr)
    BY <1>3, <2>2, <2>3, PartnerOf
  <2>5. line'.row.row = r1_req'.adr.row
    BY <2>3 DEF SameReq, RowOf
  <2>6. QED
    BY <1>1, <2>2, <2>3, <2>4, <2>5
<1>6. CASE Reloads(q, plru, wbin)
  <2>1. state = "RELOAD_WAIT_ACK" /\ ~LastAck(wbin)
    BY <1>6 DEF Reloads
  <2>2. Stands("load") /\ Second' = Second /\ ~Goes /\ Parted
    <3>1. ~Begins("load")
      BY <2>1, LoadBegins
    <3>2. QED
      BY <1>1, <1>2, <3>1 DEF Stands, Parted
  <2>3. /\ LineOf(Second) = Target /\ ~fill.dcbz
        /\ ~fill.write_tag => prev_ways = {line.way}
        /\ IF full THEN r1_req.reload /\ line.rows_valid = {} /\ line.row.row = r1_req.adr.row
           ELSE ~fill.write_tag /\ line.rows_valid # {}
    BY <2>1, <2>2 DEF Turn, CoherenceInv, PairKept
  <2>4. /\ line'.row.row = IF wbin.ack THEN NextRow(line.row.row) ELSE line.row.row
        /\ line'.way = ReplaceWay(plru)
        /\ line'.rows_valid = IF wbin.ack THEN line.rows_valid \cup {line.row.row} ELSE line.rows_valid
        /\ Target' = Target /\ fill'.dcbz = fill.dcbz /\ ~fill'.write_tag
    BY <1>6, Strobes
  <2>5. prev_ways' = IF fill.write_tag THEN {ReplaceWay(plru)} ELSE prev_ways
    BY <2>1, <2>2, PrevStep
  <2>6. prev_ways' = {line'.way}
    <3>1. ~fill.write_tag => ReplaceWay(plru) = line.way
      BY DEF ReplaceWay
    <3>2. QED
      BY <2>3, <2>4, <2>5, <3>1
  <2>7. full' = ((full \/ Slow) /\ ~Arrives(q, wbin)) /\ (Slow => Goes)
        /\ (full => q = r1_req /\ SameReq(r1_req', q) /\ r1_req'.reload = (state = "IDLE" \/ q.reload))
    BY <1>6, Staged DEF Reloads
  <2>8. CASE full'
    <3>1. full /\ ~Arrives(q, wbin) /\ q = r1_req
      BY <2>2, <2>7, <2>8
    <3>2. q.reload /\ line.row.row = q.adr.row /\ line.rows_valid = {}
      BY <2>3, <3>1
    <3>3. ~wbin.ack
      BY <3>1, <3>2 DEF Arrives
    <3>4. r1_req'.reload /\ r1_req'.adr = q.adr
      BY <2>7, <3>1, <3>2 DEF SameReq
    <3>5. QED
      BY <1>1, <2>2, <2>3, <2>4, <2>6, <2>8, <3>2, <3>3, <3>4
  <2>9. CASE ~full'
    <3>1. line'.rows_valid # {}
      <4>1. CASE full
        BY <2>4, <2>7, <2>9, <4>1 DEF Arrives
      <4>2. CASE ~full
        BY <2>3, <2>4, <4>2
      <4>3. QED
        BY <4>1, <4>2
    <3>2. QED
      BY <1>1, <2>2, <2>3, <2>4, <2>6, <2>9, <3>1
  <2>10. QED
    BY <2>8, <2>9
<1>7. QED
  BY <1>5, <1>6, Kinds DEF Stores, Quiet

\* The first half of a quadword load that waits for its row completes as it comes.
LEMMA FirstArrives ==
    ASSUME NEW g, NEW in, NEW wbin, NEW f, NEW plru, NEW q, NEW how,
           Turn(g, in, wbin, f, plru, q, how), Parted, full, ~full'
    PROVE  /\ state = "RELOAD_WAIT_ACK" /\ q = r1_req /\ Arrives(q, wbin) /\ wbin.ack
           /\ ~fill.write_tag /\ ~fill.dcbz /\ fill.reloading
           /\ prev_ways = {line.way} /\ LineOf(Second) = Target /\ Second = Partner(r1_req.adr)
           /\ line.rows_valid = {} /\ line.row.row = r1_req.adr.row
           /\ r1_req.op = "load_miss" /\ ~r1_req.touch
           /\ asked'[1].req.op = "load" /\ asked'[1].req.half = "first" /\ ~asked'[1].req.nc
           /\ asked'[1].req.adr = r1_req.adr /\ done'.ls_valid
<1>1. Open("load") /\ ~r0.req.nc
  BY DEF Parted
<1>2. /\ r1_req.op = "load_miss" /\ ~r1_req.last /\ r1_req.first /\ ~r1_req.touch
      /\ r1_req.nc = r0.req.nc /\ Second = Partner(r1_req.adr)
      /\ state \in {"IDLE", "STORE_WAIT_ACK", "RELOAD_WAIT_ACK"}
  BY <1>1 DEF Turn, CoherenceInv, PairKept
<1>3. q = r1_req
  BY Held
<1>4. state = "RELOAD_WAIT_ACK"
  BY <1>1, <1>2, <1>3, MissWaits
<1>5. Serves(q, asked'[1].req) /\ asked'[1] \in Taken
  BY Served, Placed
<1>6. /\ asked'[1].req.op = "load" /\ asked'[1].req.half = "first" /\ ~asked'[1].req.nc
      /\ asked'[1].req.adr = r1_req.adr /\ asked'[1].req.mmu = r1_req.mmu
  <2>1. asked'[1].req \in Req
    BY <1>5, RequestsAssumption DEF Taken
  <2>2. QED
    BY <1>1, <1>2, <1>3, <1>5, <2>1 DEF Serves, Req
<1>7. ~r1_req.mmu
  <2>1. asked'[1].req \in Requests
    BY <1>5 DEF Taken
  <2>2. asked'[1].req.mmu => asked'[1].req.half = "whole"
    BY <2>1, RequestsAssumption
  <2>3. QED
    BY <1>6, <2>2
<1>8. Arrives(q, wbin) /\ done'.ls_valid
  BY <1>4, <1>7, ReloadEnds
<1>9. wbin.ack /\ ~fill.write_tag
  BY <1>8, Tagging DEF Arrives
<1>10. /\ prev_ways = {line.way} /\ LineOf(Second) = Target /\ ~fill.dcbz
       /\ line.rows_valid = {} /\ line.row.row = r1_req.adr.row
  BY <1>4, <1>9 DEF Turn, CoherenceInv, PairKept
<1>11. fill.reloading
  BY <1>4, <1>10 DEF Turn, CoherenceInv, FillState
<1>12. QED
  BY <1>2, <1>3, <1>4, <1>6, <1>8, <1>9, <1>10, <1>11

\* The first half of a quadword load completes, and the second will read its way.
LEMMA PairWay ==
    ASSUME NEW g, NEW in, NEW wbin, NEW f, NEW plru, NEW q, NEW how,
           Turn(g, in, wbin, f, plru, q, how), Parted', ~full'
    PROVE  /\ Completing' => FirstDone' /\ Second' = Partner(asked'[1].req.adr)
           /\ \E w \in Way : prev_ways' = {w} /\ \A v \in Way : InWay(v, LineOf(Second))' => v = w
<1>1. /\ Open("load")' /\ ~r0'.req.nc
      /\ LineOf(Second)' = LineOf(Second')
      /\ FirstDone' <=> done'.ls_valid /\ asked'[1].req.op = "load" /\ asked'[1].req.half = "first"
                        /\ ~asked'[1].req.nc
  BY DEF Parted, FirstDone, LineOf
<1>2. /\ Begins("load") \/ Stands("load")
      /\ r0'.req.nc = r0.req.nc
      /\ Begins("load") => Second' = Partner(r0.req.adr)
      /\ Stands("load") => Second' = Second /\ ~Goes
  BY <1>1, OpenStep
<1>3. \A v \in Way, l \in Line : InWay(v, l)' /\ ~fill.write_tag => InWay(v, l)
  BY WaysStep
<1>4. ASSUME NEW w \in Way, prev_ways' = {w}, ~fill.write_tag, NEW l \in Line, l = LineOf(Second'),
             \A v \in Way : InWay(v, l) => v = w
      PROVE  \E x \in Way : prev_ways' = {x} /\ \A v \in Way : InWay(v, LineOf(Second))' => v = x
  <2>1. \A v \in Way : InWay(v, l)' => v = w
    BY <1>3, <1>4
  <2>2. \A v \in Way : InWay(v, LineOf(Second))' <=> InWay(v, l)'
    BY <1>1, <1>4 DEF InWay
  <2>3. QED
    BY <1>4, <2>1, <2>2
<1>5. CASE Begins("load")
  <2>1. /\ state \in {"IDLE", "STORE_WAIT_ACK"} /\ ~r0.req.mmu /\ ThisOp = "load_hit"
        /\ Goes /\ r0.req.half = "first" /\ r0.req.op = "load"
    BY <1>5, LoadBegins DEF Begins
  <2>2. done'.ls_valid
    BY <2>1, Finished
  <2>3. asked'[1].req = r0.req
    BY <2>1, Placed
  <2>4. Ways0 = {Way0} /\ Way0 \in Way /\ (\A w \in Way : InWay(w, Line0) => w \in Ways0)
    BY <2>1, Decode, Hits
  <2>5. prev_ways' = Ways0
    BY <2>1, PrevStep
  <2>6. ~fill.write_tag /\ Line0 \in Line /\ r0.req.adr \in Adr
    BY <2>1, Tagging, Typed, Request0
  <2>7. Line0 = LineOf(Second')
    BY <1>2, <1>5, <2>6, PartnerOf DEF Line0
  <2>8. QED
    BY <1>1, <1>2, <1>4, <1>5, <2>1, <2>2, <2>3, <2>4, <2>5, <2>6, <2>7
<1>6. CASE Stands("load")
  <2>1. /\ Open("load") /\ (full \/ ~r0.full) /\ ~Goes /\ Second' = Second /\ Parted
    BY <1>1, <1>2, <1>6 DEF Stands, Parted
  <2>2. Second \in Adr
    <3>1. r0.req.adr \in Adr
      BY Typed, Request0
    <3>2. QED
      BY <3>1, PartnerOf DEF Second
  <2>3. LineOf(Second) \in Line
    BY <2>2, Typed, Records
  <2>4. /\ state # "RELOAD_WAIT_ACK" => ~fill.write_tag
        /\ fill.reloading /\ ~fill.write_tag => line.ways = {line.way}
             /\ \A w \in Way : InWay(w, Target) => w = line.way
        /\ state = "RELOAD_WAIT_ACK" /\ ~fill.dcbz => fill.reloading
        /\ line.way \in Way
    BY Typed, Records DEF Turn, CoherenceInv, FillState, FillReg
  <2>5. CASE full
    <3>1. /\ state = "RELOAD_WAIT_ACK" /\ wbin.ack /\ ~fill.write_tag /\ ~fill.dcbz
          /\ prev_ways = {line.way} /\ LineOf(Second) = Target /\ Second = Partner(r1_req.adr)
          /\ asked'[1].req.op = "load" /\ asked'[1].req.half = "first" /\ ~asked'[1].req.nc
          /\ asked'[1].req.adr = r1_req.adr /\ done'.ls_valid
      BY <2>1, <2>5, FirstArrives
    <3>2. prev_ways' = {line.way}
      BY <2>1, <2>4, <3>1, PrevStep
    <3>3. \A v \in Way : InWay(v, LineOf(Second')) => v = line.way
      BY <2>1, <2>4, <3>1
    <3>4. QED
      BY <1>1, <1>4, <2>1, <2>3, <2>4, <3>1, <3>2, <3>3
  <2>6. CASE ~full
    <3>1. ~Completing'
      BY <2>1, <2>6, Placed
    <3>2. PICK w \in Way : prev_ways = {w} /\ \A v \in Way : InWay(v, LineOf(Second)) => v = w
      BY <2>1, <2>6 DEF Turn, CoherenceInv, PairKept
    <3>3. state = "RELOAD_WAIT_ACK" => /\ ~fill.write_tag /\ prev_ways = {line.way} /\ ~fill.dcbz
      BY <2>1, <2>6 DEF Turn, CoherenceInv, PairKept
    <3>4. prev_ways' = {w} /\ ~fill.write_tag
      BY <2>1, <2>4, <3>2, <3>3, PrevStep
    <3>5. QED
      BY <1>4, <2>1, <2>3, <3>1, <3>2, <3>4
  <2>7. QED
    BY <2>5, <2>6, Typed
<1>7. QED
  BY <1>2, <1>5, <1>6

\* The second half that is not there yet waits for its row.
LEMMA SecondAwaits ==
    ASSUME NEW g, NEW in, NEW wbin, NEW f, NEW plru, NEW q, NEW how,
           Turn(g, in, wbin, f, plru, q, how), ~full, Slow, q.op = "load_miss", ~q.first, ~q.nc
    PROVE  Parted /\ Goes /\ q.reload /\ state = "RELOAD_WAIT_ACK" /\ line.rows_valid # {}
<1>1. Goes /\ r0.full /\ ~done.ls_error
  BY Staged
<1>2. /\ q.op = ThisOp /\ ~r0.req.nc /\ r0.req.half = "second" /\ r0.req.op \in {"load", "touch"}
      /\ ~Hit0 /\ q.reload = Reload0
  <2>1. q.op = ThisOp /\ q.nc = r0.req.nc /\ q.first = (r0.req.half # "second")
    BY <1>1, Decode
  <2>2. r0.req.op \in {"load", "touch"} /\ ~Hit0 /\ q.reload = Reload0
    BY <1>1, <2>1, Decode
  <2>3. QED
    BY <2>1, <2>2
<1>3. r0.req.op = "load"
  <2>1. r0.req \in Requests
    <3>1. r0.req \in Requests \/ r0.req = NoReq
      BY Typed, Request0
    <3>2. NoReq.half = "whole"
      BY DEF NoReq
    <3>3. QED
      BY <1>2, <3>1, <3>2
  <2>2. r0.req.op \in {"load", "store"}
    BY <1>2, <2>1, RequestsAssumption
  <2>3. QED
    BY <1>2, <2>2
<1>4. Parted
  BY <1>1, <1>2, <1>3 DEF Parted, Open
<1>5. \E w \in Way : prev_ways = {w}
  BY <1>4 DEF Turn, CoherenceInv, PairKept
<1>6. prev_ways = Ways0
  BY <1>1, <1>2, <1>3, Hits DEF Second0
<1>7. Reload0
  BY <1>1, <1>2, <1>5, <1>6, Hits
<1>8. state = "RELOAD_WAIT_ACK"
  BY <1>1, <1>2, <1>7, Decode
<1>9. line.rows_valid # {}
  BY <1>4, <1>8 DEF Turn, CoherenceInv, PairKept
<1>10. QED
  BY <1>1, <1>2, <1>4, <1>7, <1>8, <1>9

\* The second half of a quadword load waits only for a row of the line that is
\* being refilled.
LEMMA HalvingStep ==
    ASSUME NEW g, NEW in, NEW wbin, NEW f, NEW plru, NEW q, NEW how,
           Turn(g, in, wbin, f, plru, q, how), Halving'
    PROVE  /\ (full \/ Slow) /\ q.reload /\ state = "RELOAD_WAIT_ACK"
           /\ Reloads(q, plru, wbin) /\ ~LastAck(wbin)
           /\ state' = "RELOAD_WAIT_ACK" /\ r1_req'.reload /\ line'.rows_valid # {}
           /\ r1_req'.adr = q.adr
           /\ full => Halving
           /\ ~full => Parted /\ Goes
<1>1. full' /\ r1_req'.op = "load_miss" /\ ~r1_req'.first /\ ~r1_req'.nc
  BY DEF Halving
<1>2. (full \/ Slow) /\ (Slow => Goes) /\ SameReq(r1_req', q)
      /\ r1_req'.reload = (state = "IDLE" \/ q.reload)
  BY <1>1, Staged, Served
<1>3. PICK r : r = r1_req'
  OBVIOUS
<1>4. q.op = "load_miss" /\ ~q.first /\ ~q.nc /\ r.adr = q.adr
  BY <1>1, <1>2, <1>3 DEF SameReq
<1>5. /\ q.reload /\ state = "RELOAD_WAIT_ACK" /\ line.rows_valid # {}
      /\ full => Halving
      /\ ~full => Parted /\ Goes
  <2>1. CASE full
    <3>1. Halving
      BY <1>4, <2>1, Held DEF Halving
    <3>2. QED
      BY <2>1, <3>1, Held DEF Turn, CoherenceInv, PairKept
  <2>2. CASE ~full
    BY <1>2, <1>4, <2>2, SecondAwaits
  <2>3. QED
    BY <2>1, <2>2
<1>6. Reloads(q, plru, wbin)
  BY <1>5, Kinds DEF Fills, Stores, Quiet
<1>7. ~LastAck(wbin)
  BY <1>1, <1>5, <1>6, AwaitedLast
<1>8. state' = "RELOAD_WAIT_ACK"
  BY <1>5, <1>6, <1>7 DEF Reloads
<1>9. line'.rows_valid # {}
  BY <1>5, <1>6, Strobes
<1>10. QED
  BY <1>2, <1>3, <1>4, <1>5, <1>6, <1>7, <1>8, <1>9

\* The halves of a quadword load stay together.
LEMMA PairKeptStep ==
    ASSUME NEW g, NEW in, NEW wbin, NEW f, NEW plru, NEW q, NEW how,
           Turn(g, in, wbin, f, plru, q, how)
    PROVE  PairKept'
<1>1. full' => ~Completing'
  BY Placed
<1>2. ASSUME Open("load")'
      PROVE  /\ state' \in {"IDLE", "STORE_WAIT_ACK"}
                      \cup IF r0'.req.nc THEN {"NC_LOAD_WAIT_ACK"} ELSE {"RELOAD_WAIT_ACK"}
             /\ full' => /\ r1_req'.op = "load_miss" /\ ~r1_req'.last /\ r1_req'.first /\ ~r1_req'.touch
                         /\ r1_req'.nc = r0'.req.nc /\ Second' = Partner(r1_req'.adr)
  <2>1. /\ state' \in {"IDLE", "STORE_WAIT_ACK"}
                \cup IF r0'.req.nc THEN {"NC_LOAD_WAIT_ACK"} ELSE {"RELOAD_WAIT_ACK"}
        /\ full' => /\ q.op = "load_miss" /\ ~q.last /\ q.first /\ ~q.touch
                    /\ q.nc = r0'.req.nc /\ Second' = Partner(q.adr) /\ (full \/ Slow)
    BY <1>2, LoadOpen
  <2>2. full \/ Slow => SameReq(r1_req', q)
    BY Staged
  <2>3. QED
    BY <2>1, <2>2 DEF SameReq
<1>3. ASSUME Parted', state' = "RELOAD_WAIT_ACK"
      PROVE  /\ LineOf(Second)' = Target' /\ ~fill'.dcbz
             /\ ~fill'.write_tag => prev_ways' = {line'.way}
             /\ IF full' THEN r1_req'.reload /\ line'.rows_valid = {} /\ line'.row.row = r1_req'.adr.row
                ELSE ~fill'.write_tag /\ line'.rows_valid # {}
  BY <1>3, PairRefill
<1>4. ASSUME Parted', ~full'
      PROVE  /\ Completing' => FirstDone' /\ Second' = Partner(asked'[1].req.adr)
             /\ \E w \in Way : prev_ways' = {w} /\ \A v \in Way : InWay(v, LineOf(Second))' => v = w
  BY <1>4, PairWay
<1>5. Halving' => state' = "RELOAD_WAIT_ACK" /\ r1_req'.reload /\ line'.rows_valid # {}
  BY HalvingStep
<1>6. QED
  BY <1>1, <1>2, <1>3, <1>4, <1>5 DEF PairKept, Partner

------------------------------------------------------------------------------
\* The halves of a quadword store, and the reservation.

LEMMA StoreAccess ==
    ASSUME NEW hold
    PROVE  /\ Op(hold) = "store" => ~(r0.req.nc /\ (IsHit(hold) \/ r0.req.reserve))
           /\ /\ Go(hold) /\ r0.req.op = "store" /\ r0.req.ok
              /\ ~(r0.req.nc /\ (IsHit(hold) \/ r0.req.reserve))
              => Op(hold) = "store"
BY DEF Op, AccessOp

\* The same, for stage 0 of this cycle.
LEMMA StoreOp ==
    /\ ThisOp = "store" => ~(r0.req.nc /\ (Hit0 \/ r0.req.reserve))
    /\ Goes /\ r0.req.op = "store" /\ r0.req.ok /\ ~(r0.req.nc /\ (Hit0 \/ r0.req.reserve))
         => ThisOp = "store"
BY Zenon, StoreAccess DEF ThisOp, Hit0, Goes

\* What is not a load leaves the reservation, but for a snooped store.
LEMMA ReservationHolds ==
    ASSUME NEW hold, ~Go(hold) \/ r0.req.op # "load"
    PROVE  ReservationNow(hold) = [reservation EXCEPT !.valid = @ /\ ~KillRsrv]
BY DEF ReservationNow

\* A lwarx in stage 0 makes the reservation if it hits.
Reserves  == /\ Goes /\ r0.req.ok
             /\ r0.req.op = "load" /\ r0.req.reserve /\ r0.req.half # "second"
SnoopHit0 == SnoopHit(FALSE)

\* What stage 0 makes of the reservation.
LEMMA ReservationIs ==
    ASSUME NEW r, r = ReservationNow(FALSE)
    PROVE  /\ Reserves => r = [valid |-> Hit0 /\ ~SnoopHit0, line |-> Line0]
           /\ ~Reserves => r = [reservation EXCEPT !.valid = @ /\ ~KillRsrv]
<1>1. CASE Reserves
  <2>1. r = [valid |-> Hit0 /\ ~SnoopHit0, line |-> Line0]
    BY Zenon, <1>1 DEF ReservationNow, Reserves, Goes, Hit0, SnoopHit0, Line0
  <2>2. QED
    BY Zenon, <1>1, <2>1
<1>2. CASE ~Reserves
  <2>1. r = [reservation EXCEPT !.valid = @ /\ ~KillRsrv]
    BY Zenon, <1>2 DEF ReservationNow, Reserves, Goes
  <2>2. QED
    BY Zenon, <1>2, <2>1
<1>3. QED
  BY Zenon, <1>1, <1>2

\* What the reservation becomes.
LEMMA RsrvNext ==
    ASSUME NEW g, NEW in, NEW wbin, NEW f, NEW plru, NEW q, NEW how,
           Turn(g, in, wbin, f, plru, q, how)
    PROVE  /\ ~Reserves =>
                /\ reservation'.line = reservation.line
                /\ state # "RELOAD_WAIT_ACK" /\ reservation'.valid => reservation.valid /\ ~KillRsrv
                /\ state = "RELOAD_WAIT_ACK" =>
                     (reservation'.valid <=> \/ reservation.valid /\ ~KillRsrv
                                             \/ Arrives(q, wbin) /\ r1_req.reserve /\ r1_req.first)
           /\ Reserves => /\ ~full /\ state \in {"IDLE", "STORE_WAIT_ACK"}
                          /\ reservation'.line = Line0
                          /\ reservation'.valid <=> Hit0 /\ ~SnoopHit0
<1>1. Works(q, d_data, plru, wbin) /\ reservation \in RsrvReg
  BY Typed DEF Turn, Clocked, CacheTypeOK
<1>2. PICK r : r = ReservationNow(FALSE)
  OBVIOUS
<1>3. /\ Reserves => r.line = Line0 /\ (r.valid <=> Hit0 /\ ~SnoopHit0)
      /\ ~Reserves => r.line = reservation.line /\ (r.valid <=> reservation.valid /\ ~KillRsrv)
      /\ DOMAIN r = {"valid", "line"}
  <2>1. /\ Reserves => r = [valid |-> Hit0 /\ ~SnoopHit0, line |-> Line0]
        /\ ~Reserves => r = [reservation EXCEPT !.valid = @ /\ ~KillRsrv]
    BY <1>2, ReservationIs
  <2>2. CASE Reserves
    <3>1. r = [valid |-> Hit0 /\ ~SnoopHit0, line |-> Line0]
      BY <2>1, <2>2
    <3>2. QED
      BY <2>2, <3>1
  <2>3. CASE ~Reserves
    <3>1. r = [reservation EXCEPT !.valid = @ /\ ~KillRsrv]
      BY <2>1, <2>3
    <3>2. r.line = reservation.line /\ (r.valid <=> reservation.valid /\ ~KillRsrv)
          /\ DOMAIN r = {"valid", "line"}
      BY <1>1, <3>1 DEF RsrvReg, KillRsrv
    <3>3. QED
      BY <2>3, <3>2
  <2>4. QED
    BY <2>2, <2>3
<1>4. Reserves => ~full /\ state \in {"IDLE", "STORE_WAIT_ACK"}
  <2>1. Goes => r0.full
    BY Staged
  <2>2. QED
    BY <2>1 DEF Reserves, Turn, CoherenceInv, AtOnce
<1>5. state \in {"IDLE", "STORE_WAIT_ACK", "NC_LOAD_WAIT_ACK", "FLUSH_CYCLE"} => reservation' = r
  BY Zenon, <1>1, <1>2 DEF Works, Idle, Reload, Store, NcLoad, DoStcx, Flush, RsrvEdge
<1>6. state = "DO_STCX" => reservation' = r \/ reservation' = [r EXCEPT !.valid = FALSE]
  BY Zenon, <1>1, <1>2 DEF Works, Idle, Reload, Store, NcLoad, DoStcx, Flush, RsrvEdge
<1>7. state = "RELOAD_WAIT_ACK" =>
        reservation' = [r EXCEPT !.valid = @ \/ (Arrives(q, wbin) /\ r1_req.reserve /\ r1_req.first)]
  <2>1. SUFFICES ASSUME state = "RELOAD_WAIT_ACK"
        PROVE  reservation' =
                 [r EXCEPT !.valid = @ \/ (Arrives(q, wbin) /\ r1_req.reserve /\ r1_req.first)]
    OBVIOUS
  <2>2. Reload(q, FALSE, plru, wbin)
    BY <1>1, <2>1 DEF Works, Idle, Store, NcLoad, DoStcx, Flush
  <2>3. QED
    BY Zenon, <1>2, <2>2 DEF Reload
<1>8. state \in State
  BY Typed DEF CacheTypeOK
<1>9. CASE Reserves
  BY <1>3, <1>4, <1>5, <1>9
<1>10. CASE ~Reserves
  <2>1. reservation'.line = reservation.line
    BY <1>3, <1>5, <1>6, <1>7, <1>8, <1>10 DEF State
  <2>2. state # "RELOAD_WAIT_ACK" /\ reservation'.valid => reservation.valid /\ ~KillRsrv
    BY <1>3, <1>5, <1>6, <1>8, <1>10 DEF State
  <2>3. state = "RELOAD_WAIT_ACK" =>
          (reservation'.valid <=> r.valid \/ (Arrives(q, wbin) /\ r1_req.reserve /\ r1_req.first))
    BY <1>3, <1>7
  <2>4. QED
    BY <1>3, <1>10, <2>1, <2>2, <2>3
<1>11. QED
  BY <1>9, <1>10

\* Nothing but a lwarx makes a reservation, or a refill for one.
LEMMA RsrvStep ==
    ASSUME NEW g, NEW in, NEW wbin, NEW f, NEW plru, NEW q, NEW how,
           Turn(g, in, wbin, f, plru, q, how), ~Goes \/ r0.req.op # "load"
    PROVE  /\ state # "RELOAD_WAIT_ACK" /\ reservation'.valid =>
                reservation.valid /\ ~KillRsrv /\ reservation'.line = reservation.line
           /\ state = "RELOAD_WAIT_ACK" /\ reservation'.valid =>
                /\ reservation'.line = reservation.line
                /\ \/ reservation.valid /\ ~KillRsrv
                   \/ Arrives(q, wbin) /\ r1_req.reserve /\ r1_req.first
<1>1. ~Reserves
  BY DEF Reserves
<1>2. QED
  BY <1>1, RsrvNext

\* A store the machine takes, when it is done with it.
LEMMA StoreEnds ==
    ASSUME NEW g, NEW in, NEW wbin, NEW f, NEW plru, NEW q, NEW how,
           Turn(g, in, wbin, f, plru, q, how), full \/ Slow, q.op = "store", ~q.dcbz, ~full'
    PROVE  /\ state' \in {"IDLE", "STORE_WAIT_ACK"}
           /\ state \in {"IDLE", "STORE_WAIT_ACK", "DO_STCX"}
           /\ state = "STORE_WAIT_ACK" /\ q.reserve => atomic_more
           /\ state # "STORE_WAIT_ACK" /\ q.reserve => ~reservation'.valid
<1>1. /\ Works(q, d_data, plru, wbin) /\ reservation \in RsrvReg /\ q \in SlowReq
  BY Typed DEF Turn, Clocked, CacheTypeOK
<1>2. ~Goes \/ r0.req.op # "load"
  <2>1. CASE Goes
    <3>1. ~full
      BY <2>1, Staged
    <3>2. ThisOp = "store"
      BY <2>1, <3>1, Decode
    <3>3. QED
      BY <2>1, <3>2, Decode
  <2>2. QED
    BY <2>1
<1>3. /\ ~(state = "NC_LOAD_WAIT_ACK") /\ state # "FLUSH_CYCLE"
      /\ state = "DO_STCX" => full /\ q = r1_req /\ r1_req.reserve
  <2>1. full => q = r1_req
    BY Held
  <2>2. QED
    BY <2>1 DEF Turn, BusInv, AtWork
<1>4. CASE state = "IDLE"
  <2>1. Idle(q, FALSE, plru)
    BY <1>1, <1>4 DEF Works, Reload, Store, NcLoad, DoStcx, Flush
  <2>2. ~IdleStay(q, FALSE)
    BY DEF IdleStay, Slow
  <2>3. IdleStcx(q, FALSE) \/ IdleStore(q, FALSE)
    BY <2>1, <2>2 DEF Idle, IdleMiss, IdleNcLoad, IdleDcbz, IdleFlush, IdleSync
  <2>4. CASE IdleStcx(q, FALSE)
    <3>1. (~reservation.valid \/ KillRsrv) /\ state' = state
      <4>1. IF ~reservation.valid \/ KillRsrv
            THEN full' = FALSE /\ UNCHANGED <<state, wb>>
            ELSE full' = TRUE
        BY Zenon, <2>4 DEF IdleStcx
      <4>2. QED
        BY <4>1
    <3>2. ~reservation'.valid
      BY <1>2, <1>4, <3>1, RsrvStep
    <3>3. QED
      BY <1>4, <3>1, <3>2
  <2>5. CASE IdleStore(q, FALSE)
    <3>1. ~q.reserve /\ state' = "STORE_WAIT_ACK"
      BY <2>5 DEF IdleStore
    <3>2. QED
      BY <1>4, <3>1
  <2>6. QED
    BY <2>3, <2>4, <2>5
<1>5. CASE state = "STORE_WAIT_ACK"
  <2>1. Store(q, FALSE, d_data, plru, wbin)
    BY <1>1, <1>5 DEF Works, Reload, Idle, NcLoad, DoStcx, Flush
  <2>2. Follows(q, wbin)
    <3>1. ~Follows(q, wbin) => full' = FullNext(FALSE)
      BY Zenon, <2>1 DEF Store
    <3>2. FullNext(FALSE) = (full \/ Slow)
      BY Zenon DEF FullNext, Slow
    <3>3. QED
      BY Zenon, <3>1, <3>2
  <2>3. q.reserve => atomic_more
    BY <2>2 DEF Follows, Joins
  <2>4. state' \in {"IDLE", "STORE_WAIT_ACK"}
    BY <1>5, <2>1 DEF Store
  <2>5. QED
    BY <1>5, <2>3, <2>4
<1>6. CASE state = "DO_STCX"
  <2>1. DoStcx(FALSE, plru, wbin) /\ full
    BY <1>1, <1>3, <1>6 DEF Works, Reload, Idle, NcLoad, Store, Flush
  <2>2. FullNext(FALSE) <=> full \/ Slow
    BY Zenon DEF FullNext, Slow
  <2>3. /\ state' \in {"IDLE", "STORE_WAIT_ACK"}
        /\ reservation' = [ReservationNow(FALSE) EXCEPT !.valid = FALSE]
    BY Zenon, <2>1, <2>2 DEF DoStcx
  <2>4. ReservationNow(FALSE) = [reservation EXCEPT !.valid = @ /\ ~KillRsrv]
    BY Zenon, <1>2, ReservationHolds DEF Goes
  <2>5. PICK r : r = ReservationNow(FALSE)
    OBVIOUS
  <2>6. ~reservation'.valid
    BY <1>1, <2>3, <2>4, <2>5 DEF RsrvReg
  <2>7. QED
    BY <1>6, <2>3, <2>6
<1>7. CASE state = "RELOAD_WAIT_ACK"
  <2>1. Reloads(q, plru, wbin)
    BY <1>7, Kinds DEF Fills, Stores, Quiet
  <2>2. ~q.reload
    BY <1>7, Served
  <2>3. full'
    BY <2>1, <2>2 DEF Reloads, Arrives
  <2>4. QED
    BY <2>3
<1>8. QED
  BY <1>3, <1>4, <1>5, <1>6, <1>7, Typed DEF CacheTypeOK, State

\* The first half of a quadword store, as it goes to the machine.
LEMMA StoreBegins ==
    ASSUME NEW g, NEW in, NEW wbin, NEW f, NEW plru, NEW q, NEW how,
           Turn(g, in, wbin, f, plru, q, how), Begins("store")
    PROVE  /\ ThisOp = "store" /\ Slow /\ ~full /\ q.op = "store" /\ ~q.dcbz /\ ~q.last /\ q.first
           /\ q.reserve = r0.req.reserve /\ q.adr = r0.req.adr /\ r0.req.ok
           /\ ~(r0.req.nc /\ r0.req.reserve)
           /\ r0.req.nc => \A w \in Way : ~InWay(w, Line0)
<1>1. Goes /\ r0.req.half = "first" /\ r0.req.op = "store" /\ ThisOp # "bad"
  BY DEF Begins
<1>2. ThisOp = "store"
  <2>1. /\ ThisOp \in {"load_miss", "load_hit"} => r0.req.op \in {"load", "touch"}
        /\ ThisOp = "flush" => r0.req.op = "flush"
        /\ ThisOp = "sync" => r0.req.op = "sync"
        /\ ThisOp = "nop" => r0.req.op \in {"touch", "flush"}
    BY <1>1, Decode
  <2>2. QED
    BY <1>1, <2>1, Finished
<1>3. /\ q.op = "store" /\ ~q.dcbz /\ ~q.last /\ q.first
      /\ q.reserve = r0.req.reserve /\ q.adr = r0.req.adr /\ r0.req.ok /\ StoreHits(q) /\ q.hit = Hit0
  <2>1. StoreHits(q) /\ r0.req.ok
    BY <1>1, <1>2, Decode
  <2>2. QED
    BY <1>1, <1>2, <2>1, Fields
<1>4. ~(r0.req.nc /\ (Hit0 \/ r0.req.reserve))
  BY <1>2, StoreOp
<1>5. r0.req.nc => \A w \in Way : ~InWay(w, Line0)
  BY <1>3, <1>4 DEF StoreHits, Line0
<1>6. ~full /\ Slow
  BY <1>1, <1>2, Staged, Finished
<1>7. QED
  BY <1>2, <1>3, <1>4, <1>5, <1>6

\* The first half of a store the machine takes leaves the second to come.
LEMMA StoreOpens ==
    ASSUME NEW g, NEW in, NEW wbin, NEW f, NEW plru, NEW q, NEW how,
           Turn(g, in, wbin, f, plru, q, how), full \/ Slow, q.op = "store", ~q.last
    PROVE  Open("store")' /\ ~q.dcbz
<1>1. CASE full
  <2>1. q = r1_req
    BY <1>1, Held
  <2>2. Open("store") /\ ~r1_req.dcbz
    BY <1>1, <2>1 DEF Turn, CoherenceInv, StorePairs
  <2>3. Stands("store")
    BY <1>1, <2>2 DEF Stands
  <2>4. QED
    BY <2>1, <2>2, <2>3, OpenStep
<1>2. CASE ~full
  <2>1. Goes /\ r0.full
    BY <1>2, Staged
  <2>2. ThisOp = "store" /\ r0.req.half = "first" /\ r0.req.op \in {"store", "dcbz"}
        /\ q.dcbz = (r0.req.op = "dcbz")
    <3>1. q.op = ThisOp /\ q.last = (r0.req.half # "first") /\ q.dcbz = (r0.req.op = "dcbz")
      BY <2>1, Decode
    <3>2. ThisOp = "store"
      BY <3>1
    <3>3. QED
      BY <2>1, <3>1, <3>2, Decode
  <2>3. r0.req.op = "store"
    BY <2>1, <2>2, FirstHalf
  <2>4. Begins("store")
    BY <2>1, <2>2, <2>3 DEF Begins
  <2>5. QED
    BY <2>2, <2>3, <2>4, OpenStep
<1>3. QED
  BY <1>1, <1>2

\* The second half finds no reservation, in a state in which it can be stored.
LEMMA SecondStore ==
    ASSUME NEW g, NEW in, NEW wbin, NEW f, NEW plru, NEW q, NEW how,
           Turn(g, in, wbin, f, plru, q, how), full \/ Slow, q.op = "store", q.reserve, ~q.first
    PROVE  state \in {"IDLE", "STORE_WAIT_ACK"} /\ ~reservation.valid
<1>1. CASE full
  <2>1. q = r1_req
    BY <1>1, Held
  <2>2. QED
    BY <1>1, <2>1 DEF Turn, CoherenceInv, StorePairs
<1>2. CASE ~full
  <2>1. Goes /\ r0.full /\ ~done.ls_error
    BY <1>2, Staged
  <2>2. ThisOp = "store" /\ r0.req.half = "second" /\ r0.req.op \in {"store", "dcbz"}
        /\ r0.req.reserve
    <3>1. q.op = ThisOp /\ (q.first <=> r0.req.half # "second") /\ q.reserve = r0.req.reserve
      BY <2>1, Fields
    <3>2. ThisOp = "store"
      BY <3>1
    <3>3. QED
      BY <2>1, <3>1, <3>2, Decode
  <2>3. r0.req.op = "store"
    <3>1. r0.req \in Requests
      <4>1. NoReq.half = "whole"
        BY DEF NoReq
      <4>2. QED
        BY <2>2, <4>1, Typed, Request0
    <3>2. QED
      BY <2>2, <3>1, Units
  <2>4. Open("store")
    BY <2>1, <2>2, <2>3 DEF Open
  <2>5. QED
    BY <1>2, <2>2, <2>4 DEF Turn, CoherenceInv, StorePairs
<1>3. QED
  BY <1>1, <1>2

\* A store is not a load.
LEMMA NoLoad ==
    ASSUME NEW g, NEW in, NEW wbin, NEW f, NEW plru, NEW q, NEW how,
           Turn(g, in, wbin, f, plru, q, how), q.op = "store" \/ ~Goes
    PROVE  ~Goes \/ r0.req.op # "load"
<1>1. CASE Goes
  <2>1. ThisOp = "store"
    BY <1>1, Decode
  <2>2. QED
    BY <1>1, <2>1, Decode
<1>2. QED
  BY <1>1

\* A store conditional leaves no reservation.
LEMMA StcxEnds ==
    ASSUME NEW g, NEW in, NEW wbin, NEW f, NEW plru, NEW q, NEW how,
           Turn(g, in, wbin, f, plru, q, how), full \/ Slow, q.op = "store", q.reserve, ~q.dcbz, ~full'
    PROVE  ~reservation'.valid
<1>1. CASE state = "STORE_WAIT_ACK"
  <2>1. atomic_more
    BY <1>1, StoreEnds
  <2>2. (Open("store") /\ ~full) \/ (full /\ r1_req.op = "store" /\ ~r1_req.first)
    <3>1. StorePairs
      BY DEF Turn, CoherenceInv
    <3>2. QED
      BY Zenon, <1>1, <2>1, <3>1 DEF StorePairs
  <2>3. ~reservation.valid
    <3>1. CASE full
      BY <2>2, <3>1, Held, SecondStore
    <3>2. CASE ~full
      <4>1. Goes /\ Open("store")
        BY <2>2, <3>2, Staged
      <4>2. r0.req.reserve
        BY <4>1, Decode
      <4>3. QED
        BY <3>2, <4>1, <4>2 DEF Turn, CoherenceInv, StorePairs
    <3>3. QED
      BY <3>1, <3>2
  <2>4. QED
    BY <1>1, <2>3, NoLoad, RsrvStep
<1>2. CASE state # "STORE_WAIT_ACK"
  BY <1>2, StoreEnds
<1>3. QED
  BY <1>1, <1>2

\* What there is between the halves.
LEMMA StoreOpen ==
    ASSUME NEW g, NEW in, NEW wbin, NEW f, NEW plru, NEW q, NEW how,
           Turn(g, in, wbin, f, plru, q, how), Open("store")'
    PROVE  /\ r0'.req.ok /\ ~(r0'.req.nc /\ r0'.req.reserve)
           /\ full' => /\ r1_req'.op = "store" /\ ~r1_req'.dcbz /\ ~r1_req'.last
                       /\ r1_req'.reserve = r0'.req.reserve
           /\ ~full' => state' \in {"IDLE", "STORE_WAIT_ACK"}
                        /\ (r0'.req.reserve => ~reservation'.valid)
           /\ r0'.req.nc => ~fill'.write_tag /\ \A w \in Way : ~InWay(w, LineOf(Second))'
<1>1. /\ Begins("store") \/ Stands("store")
      /\ r0'.req.nc = r0.req.nc /\ r0'.req.reserve = r0.req.reserve /\ r0'.req.ok = r0.req.ok
      /\ Begins("store") => Second' = Partner(r0.req.adr)
      /\ Stands("store") => Second' = Second /\ ~Goes
  BY OpenStep
<1>2. r0.req.adr \in Adr /\ LineOf(Partner(r0.req.adr)) = Line0 /\ Line0 \in Line
      /\ Partner(r0.req.adr) \in Adr
  BY Typed, Request0, PartnerOf DEF Line0
<1>3. PICK l \in Line : l = LineOf(Second')
  <2>1. Second \in Adr
    BY <1>2 DEF Second
  <2>2. \A a \in Adr : LineOf(a) \in Line
    BY Typed, Records
  <2>3. LineOf(Second') \in Line
    BY <1>1, <1>2, <2>1, <2>2
  <2>4. QED
    BY <2>3
<1>4. \A w \in Way : InWay(w, LineOf(Second))' <=> InWay(w, l)'
  BY <1>3 DEF InWay, LineOf
<1>5. full \/ Slow => SameReq(r1_req', q)
  BY Staged
<1>6. fill'.write_tag /\ q.op = "store" => q.dcbz
  BY TagStarts, FillsFor
<1>7. CASE Begins("store")
  <2>1. /\ ThisOp = "store" /\ Slow /\ ~full /\ q.op = "store" /\ ~q.dcbz /\ ~q.last
        /\ q.reserve = r0.req.reserve /\ q.adr = r0.req.adr /\ r0.req.ok
        /\ ~(r0.req.nc /\ r0.req.reserve)
        /\ r0.req.nc => \A w \in Way : ~InWay(w, Line0)
    BY <1>7, StoreBegins
  <2>2. full' => /\ r1_req'.op = "store" /\ ~r1_req'.dcbz /\ ~r1_req'.last
                 /\ r1_req'.reserve = r0'.req.reserve
    BY <1>1, <1>5, <2>1 DEF SameReq
  <2>3. ~full' => state' \in {"IDLE", "STORE_WAIT_ACK"} /\ (r0'.req.reserve => ~reservation'.valid)
    BY <1>1, <2>1, StoreEnds, StcxEnds
  <2>4. r0'.req.nc => ~fill'.write_tag /\ \A w \in Way : ~InWay(w, LineOf(Second))'
    <3>1. ~fill.write_tag /\ l = Line0
      BY <1>1, <1>2, <1>3, <1>7, Tagging DEF Begins
    <3>2. QED
      BY <1>1, <1>4, <1>6, <2>1, <3>1, NoWay
  <2>5. QED
    BY <1>1, <2>1, <2>2, <2>3, <2>4
<1>8. CASE Stands("store")
  <2>1. /\ Open("store") /\ (full \/ ~r0.full) /\ ~Goes /\ ~Slow
        /\ r0.req.ok /\ ~(r0.req.nc /\ r0.req.reserve)
        /\ full => /\ r1_req.op = "store" /\ ~r1_req.dcbz /\ ~r1_req.last
                   /\ r1_req.reserve = r0.req.reserve
        /\ ~full => state \in {"IDLE", "STORE_WAIT_ACK"} /\ (r0.req.reserve => ~reservation.valid)
        /\ r0.req.nc => ~fill.write_tag /\ \A w \in Way : ~InWay(w, LineOf(Second))
    BY <1>1, <1>8, Staged DEF Stands, Turn, CoherenceInv, StorePairs
  <2>2. full' => full
    BY <2>1, Served
  <2>3. full' => /\ r1_req'.op = "store" /\ ~r1_req'.dcbz /\ ~r1_req'.last
                 /\ r1_req'.reserve = r0'.req.reserve
    BY <1>1, <1>5, <2>1, <2>2, Held DEF SameReq
  <2>4. ~full' => state' \in {"IDLE", "STORE_WAIT_ACK"} /\ (r0'.req.reserve => ~reservation'.valid)
    <3>1. CASE full
      BY <1>1, <2>1, <3>1, Held, StoreEnds, StcxEnds
    <3>2. CASE ~full
      <4>1. state' \in {"IDLE", "STORE_WAIT_ACK"}
        BY <2>1, <3>2, NothingAsked
      <4>2. reservation'.valid => reservation.valid
        BY <2>1, <3>2, RsrvStep
      <4>3. QED
        BY <1>1, <2>1, <3>2, <4>1, <4>2
    <3>3. QED
      BY <3>1, <3>2
  <2>5. r0'.req.nc => ~fill'.write_tag /\ \A w \in Way : ~InWay(w, LineOf(Second))'
    <3>1. fill'.write_tag => full
      BY <2>1, TagStarts DEF Fills
    <3>2. fill'.write_tag => q.op = "store" /\ ~q.dcbz
      BY <2>1, <3>1, Held
    <3>3. r0.req.nc => \A w \in Way : ~InWay(w, l)'
      BY <1>1, <1>3, <1>8, <2>1, NoWay
    <3>4. QED
      BY <1>1, <1>4, <1>6, <3>2, <3>3
  <2>6. QED
    BY <1>1, <2>1, <2>3, <2>4, <2>5
<1>9. QED
  BY <1>1, <1>7, <1>8

\* The bus is kept for a second half: the first has just been put on the bus,
\* or was before.
LEMMA MoreStep ==
    ASSUME NEW g, NEW in, NEW wbin, NEW f, NEW plru, NEW q, NEW how,
           Turn(g, in, wbin, f, plru, q, how), atomic_more', state' = "STORE_WAIT_ACK"
    PROVE  \/ (full \/ Slow) /\ q.op = "store" /\ ~full' /\ ~q.last
           \/ state = "STORE_WAIT_ACK" /\ atomic_more /\ full' = (full \/ Slow)
<1>1. Works(q, d_data, plru, wbin) /\ atomic_more \in BOOLEAN
  BY Typed DEF Turn, Clocked, CacheTypeOK
<1>2. CASE state = "STORE_WAIT_ACK"
  <2>1. Store(q, FALSE, d_data, plru, wbin)
    BY <1>1, <1>2 DEF Works, Reload, Idle, NcLoad, DoStcx, Flush
  <2>2. CASE Follows(q, wbin)
    <3>1. q.op = "store" /\ ~full' /\ ~q.last
      BY <2>1, <2>2 DEF Store, Follows, Joins
    <3>2. QED
      BY <3>1, Served
  <2>3. CASE ~Follows(q, wbin)
    <3>1. /\ full' = FullNext(FALSE)
          /\ atomic_more' = (atomic_more /\ (~wbin.stall /\ Asked(FALSE) => Joins(q, wbin)))
      BY Zenon, <2>1, <2>3 DEF Store
    <3>2. atomic_more
      BY Zenon, <3>1
    <3>3. full' = (full \/ Slow)
      BY Zenon, <3>1 DEF FullNext, Slow
    <3>4. QED
      BY <1>2, <3>2, <3>3
  <2>4. QED
    BY <2>2, <2>3
<1>3. CASE state = "IDLE"
  <2>1. IdleStore(q, FALSE)
    BY <1>1, <1>3 DEF Works, Idle, Reload, Store, NcLoad, DoStcx, Flush, IdleStay, IdleMiss,
       IdleNcLoad, IdleStcx, IdleDcbz, IdleFlush, IdleSync
  <2>2. q.op = "store" /\ ~full' /\ ~q.last
    BY <2>1 DEF IdleStore
  <2>3. QED
    BY <2>2, Served
<1>4. CASE state = "DO_STCX"
  <2>1. DoStcx(FALSE, plru, wbin)
    BY <1>1, <1>4 DEF Works, Reload, Idle, NcLoad, Store, Flush
  <2>2. ~full' /\ atomic_more
    BY <1>4, <2>1 DEF DoStcx
  <2>3. full /\ r1_req.op = "store" /\ ~r1_req.last
    BY <1>4, <2>2 DEF Turn, BusInv, AtWork, CoherenceInv, StorePairs
  <2>4. QED
    BY <2>2, <2>3, Held
<1>5. CASE state \in {"RELOAD_WAIT_ACK", "NC_LOAD_WAIT_ACK", "FLUSH_CYCLE"}
  BY <1>1, <1>5 DEF Works, Idle, Reload, Store, NcLoad, DoStcx, Flush
<1>6. QED
  BY <1>2, <1>3, <1>4, <1>5, Typed DEF CacheTypeOK, State

\* The bus is kept only for a first half.
LEMMA StcxMore ==
    ASSUME NEW g, NEW in, NEW wbin, NEW f, NEW plru, NEW q, NEW how,
           Turn(g, in, wbin, f, plru, q, how), atomic_more', state' = "DO_STCX"
    PROVE  ~r1_req'.last
<1>1. Works(q, d_data, plru, wbin)
  BY DEF Turn, Clocked
<1>2. CASE state = "DO_STCX"
  <2>1. DoStcx(FALSE, plru, wbin)
    BY <1>1, <1>2 DEF Works, Reload, Idle, NcLoad, Store, Flush
  <2>2. atomic_more
    BY <2>1 DEF DoStcx
  <2>3. ~r1_req.last
    BY <1>2, <2>2 DEF Turn, CoherenceInv, StorePairs
  <2>4. SameReq(r1_req', r1_req)
    BY <1>2, Staying
  <2>5. QED
    BY <2>3, <2>4 DEF SameReq
<1>3. CASE state # "DO_STCX"
  <2>1. state = "IDLE" /\ SameReq(r1_req', q)
    BY <1>3, Starting
  <2>2. IdleStcx(q, FALSE)
    BY <1>1, <2>1 DEF Works, Idle, Reload, Store, NcLoad, DoStcx, Flush, IdleStay, IdleMiss,
       IdleNcLoad, IdleStore, IdleDcbz, IdleFlush, IdleSync
  <2>3. ~q.last
    BY <2>2 DEF IdleStcx
  <2>4. QED
    BY <2>1, <2>3 DEF SameReq
<1>4. QED
  BY <1>2, <1>3

\* A second half that comes when the bus is kept for it is a store of the machine.
LEMMA SecondFollows ==
    ASSUME NEW g, NEW in, NEW wbin, NEW f, NEW plru, NEW q, NEW how,
           Turn(g, in, wbin, f, plru, q, how), state = "STORE_WAIT_ACK", atomic_more, full' = (full \/ Slow)
    PROVE  \/ Open("store")' /\ ~full'
           \/ full' /\ r1_req'.op = "store" /\ ~r1_req'.first
<1>1. (Open("store") /\ ~full) \/ (full /\ r1_req.op = "store" /\ ~r1_req.first)
  <2>1. StorePairs
    BY DEF Turn, CoherenceInv
  <2>2. QED
    BY Zenon, <2>1 DEF StorePairs
<1>2. CASE full
  <2>1. SameReq(r1_req', r1_req) /\ full'
    BY <1>2, Staged
  <2>2. QED
    BY <1>1, <1>2, <2>1 DEF SameReq
<1>3. CASE ~full /\ ~r0.full
  <2>1. Stands("store") /\ ~Slow
    BY <1>1, <1>3, Staged DEF Stands
  <2>2. QED
    BY <1>3, <2>1, OpenStep
<1>4. CASE ~full /\ r0.full
  <2>1. Open("store") /\ r0.req.half = "second" /\ r0.req.op = "store" /\ ~done.ls_error
    BY <1>1, <1>4 DEF Open
  <2>2. Goes
    BY <1>4, <2>1, Staged
  <2>3. r0.req.ok /\ ~(r0.req.nc /\ r0.req.reserve)
        /\ (r0.req.nc => \A w \in Way : ~InWay(w, LineOf(Second)))
    BY <1>4, <2>1 DEF Turn, CoherenceInv, StorePairs
  <2>4. LineOf(Second) = Line0
    BY <2>1 DEF Second, Line0
  <2>5. Hit0 => \E w \in Way : InWay(w, Line0)
    BY <2>1, <2>2, Hits DEF Second0
  <2>6. ThisOp = "store"
    BY <2>1, <2>2, <2>3, <2>4, <2>5, StoreOp
  <2>7. q.op = "store" /\ ~q.first /\ Slow
    <3>1. q.op = ThisOp /\ (q.first <=> r0.req.half # "second")
      BY <2>2, Fields
    <3>2. QED
      BY <2>1, <2>6, <3>1, Finished
  <2>8. SameReq(r1_req', q)
    BY <2>7, Staged
  <2>9. QED
    BY <2>7, <2>8 DEF SameReq
<1>5. QED
  BY <1>2, <1>3, <1>4, Typed, Request0

\* The halves of a quadword store stay together.
LEMMA StorePairsStep ==
    ASSUME NEW g, NEW in, NEW wbin, NEW f, NEW plru, NEW q, NEW how,
           Turn(g, in, wbin, f, plru, q, how)
    PROVE  StorePairs'
<1>1. /\ full' => full \/ Slow
      /\ full \/ Slow => SameReq(r1_req', q)
  BY Staged, Served
<1>2. Open("store")' =>
        /\ r0'.req.ok /\ ~(r0'.req.nc /\ r0'.req.reserve)
        /\ full' => /\ r1_req'.op = "store" /\ ~r1_req'.dcbz /\ ~r1_req'.last
                    /\ r1_req'.reserve = r0'.req.reserve
        /\ ~full' => state' \in {"IDLE", "STORE_WAIT_ACK"}
                     /\ (r0'.req.reserve => ~reservation'.valid)
        /\ r0'.req.nc => ~fill'.write_tag /\ \A w \in Way : ~InWay(w, LineOf(Second))'
  BY StoreOpen
<1>3. state' = "STORE_WAIT_ACK" /\ atomic_more' =>
        \/ Open("store")' /\ ~full'
        \/ full' /\ r1_req'.op = "store" /\ ~r1_req'.first
  BY MoreStep, StoreOpens, SecondFollows
<1>4. full' /\ r1_req'.op = "store" /\ ~r1_req'.last => Open("store")'
  BY <1>1, StoreOpens DEF SameReq
<1>5. state' = "DO_STCX" /\ atomic_more' => ~r1_req'.last
  BY StcxMore
<1>6. ASSUME full', r1_req'.op = "store", r1_req'.reserve, ~r1_req'.first
      PROVE  state' \in {"IDLE", "STORE_WAIT_ACK"} /\ ~reservation'.valid
  <2>1. (full \/ Slow) /\ q.op = "store" /\ q.reserve /\ ~q.first
    BY <1>1, <1>6 DEF SameReq
  <2>2. state \in {"IDLE", "STORE_WAIT_ACK"} /\ ~reservation.valid
    BY <2>1, SecondStore
  <2>3. ~reservation'.valid
    BY <2>1, <2>2, NoLoad, RsrvStep
  <2>4. Works(q, d_data, plru, wbin)
    BY DEF Turn, Clocked
  <2>5. CASE state = "IDLE"
    <3>1. Idle(q, FALSE, plru)
      BY <2>4, <2>5 DEF Works, Reload, Store, NcLoad, DoStcx, Flush
    <3>2. ~IdleStay(q, FALSE)
      BY <2>1 DEF IdleStay, Slow
    <3>3. IdleStcx(q, FALSE)
      BY <2>1, <3>1, <3>2 DEF Idle, IdleMiss, IdleNcLoad, IdleStore, IdleDcbz, IdleFlush, IdleSync
    <3>4. ~full'
      <4>1. IF ~reservation.valid \/ KillRsrv
            THEN full' = FALSE /\ UNCHANGED <<state, wb>> ELSE full' = TRUE
        BY Zenon, <3>3 DEF IdleStcx
      <4>2. QED
        BY <2>2, <4>1
    <3>5. QED
      BY <1>6, <3>4
  <2>6. CASE state = "STORE_WAIT_ACK"
    <3>1. Store(q, FALSE, d_data, plru, wbin)
      BY <2>4, <2>6 DEF Works, Reload, Idle, NcLoad, DoStcx, Flush
    <3>2. QED
      BY <2>3, <2>6, <3>1 DEF Store
  <2>7. QED
    BY <2>2, <2>5, <2>6
<1>7. ASSUME done'.ls_valid, asked'[1].req.op = "store", asked'[1].req.reserve
      PROVE  ~reservation'.valid
  <2>1. how \in {"ls", "fail"}
    <3>1. ThisOp \notin {"load_hit", "nop"}
      <4>1. Goes => asked'[1].req = r0.req
        BY Placed
      <4>2. QED
        BY <1>7, <4>1, Decode, Finished
    <3>2. QED
      BY <1>7, <3>1, Finished
  <2>2. (full \/ Slow) /\ ~full' /\ Serves(q, asked'[1].req)
    BY <2>1, Served
  <2>3. q.op = "store" /\ ~q.dcbz /\ q.reserve
    BY <1>7, <2>2 DEF Serves
  <2>4. QED
    BY <2>2, <2>3, StcxEnds
<1>8. QED
  BY <1>2, <1>3, <1>4, <1>5, <1>6, <1>7 DEF StorePairs

------------------------------------------------------------------------------
\* What memory is, and the store that is on its way there.

\* A store of the cache passes to memory at a in this cycle.
Stored(wbin, a) == Sent(wbin) /\ wb.we /\ wb.sel /\ wb.adr = a

\* A row of memory after this cycle.
LEMMA MemAt ==
    ASSUME NEW g, NEW in, NEW wbin, NEW f, NEW plru, NEW q, NEW how,
           Turn(g, in, wbin, f, plru, q, how), NEW a \in Adr
    PROVE  /\ mem'[a] = IF Stored(wbin, a) THEN wb.dat
                        ELSE IF f.valid /\ f.adr = a THEN f.dat ELSE mem[a]
           /\ f.valid => ~Sent(wbin) /\ ~Stored(wbin, a)
           /\ mem[a] \in Val /\ mem'[a] \in Val
<1>1. /\ Sent(wbin) /\ wb.we /\ wb.sel => mem' = [mem EXCEPT ![wb.adr] = wb.dat]
      /\ ~(Sent(wbin) /\ wb.we /\ wb.sel) =>
            mem' = IF f.valid THEN [mem EXCEPT ![f.adr] = f.dat] ELSE mem
      /\ f.valid => ~Sent(wbin)
  BY Memory
<1>2. mem \in [Adr -> Val] /\ mem' \in [Adr -> Val]
  BY Typed
<1>3. CASE Sent(wbin) /\ wb.we /\ wb.sel
  BY <1>1, <1>2, <1>3 DEF Stored
<1>4. CASE ~(Sent(wbin) /\ wb.we /\ wb.sel)
  BY <1>1, <1>2, <1>4 DEF Stored
<1>5. QED
  BY <1>3, <1>4

\* What a row is about to be, of any memory,
LEMMA NowIs ==
    ASSUME NEW m, NEW a
    PROVE  /\ NowIn(m, a) = IF wb.stb /\ wb.we /\ wb.sel /\ wb.adr = a THEN wb.dat ELSE m[a]
           /\ NowIn(m, a)' = IF wb'.stb /\ wb'.we /\ wb'.sel /\ wb'.adr = a THEN wb'.dat ELSE m[a]
BY DEF NowIn, Covers

\* and of this one.
LEMMA NowAt ==
    ASSUME NEW a
    PROVE  Now(a) = IF wb.stb /\ wb.we /\ wb.sel /\ wb.adr = a THEN wb.dat ELSE mem[a]
BY DEF Now, NowIn, Covers

\* What a value is taken from stays while its bus cycle is not done.
LEMMA HistoryTypedStep ==
    ASSUME NEW g, NEW in, NEW wbin, NEW f, NEW plru, NEW q, NEW how,
           Turn(g, in, wbin, f, plru, q, how)
    PROVE  HistoryTyped'
<1>1. DOMAIN halved' = {"adr", "val", "rest"}
  BY DEF Turn, Recorded
<1> DEFINE link == IF done.ls_valid THEN LinkedNext(asked[1]) ELSE linked
<1>2. linked' = [link EXCEPT
          !.val = IF link.live /\ Sent(wbin) /\ wb.we /\ wb.sel /\ wb.adr = link.adr
                  THEN wb.dat ELSE @]
  BY DEF Turn, Recorded
<1>3. /\ linked \in [live : BOOLEAN, adr : Adr, val : Val] /\ data_out \in Val /\ wb.dat \in Val
      /\ NotLinked \in [live : BOOLEAN, adr : Adr, val : Val]
  BY Typed, Somewhere, Sizes DEF Turn, CoherenceInv, HistoryTyped, CacheTypeOK, BusReg, NotLinked
<1>4. done.ls_valid => asked[1].req.adr \in Adr
  <2>1. SUFFICES ASSUME done.ls_valid PROVE asked[1].req.adr \in Adr
    OBVIOUS
  <2>2. asked # <<>> /\ asked \in Seq(Taken)
    BY <2>1, Typed, Queue DEF Turn, BusInv, Completing, TypeOK
  <2>3. asked[1] \in Taken
    BY <2>2
  <2>4. QED
    BY <2>3, RequestsAssumption, ReqTypes DEF Taken
<1>5. link \in [live : BOOLEAN, adr : Adr, val : Val]
  BY <1>3, <1>4 DEF LinkedNext
<1> HIDE DEF link
<1>6. linked' \in [live : BOOLEAN, adr : Adr, val : Val]
  BY <1>2, <1>3, <1>5
<1>7. QED
  BY <1>1, <1>6 DEF HistoryTyped

\* What has come has been strobed.
LEMMA ComeStrobed ==
    ASSUME NEW g, NEW in, NEW wbin, NEW f, NEW plru, NEW q, NEW how,
           Turn(g, in, wbin, f, plru, q, how), state = "RELOAD_WAIT_ACK", NEW r \in Row, Come(r)
    PROVE  Strobed(r)
<1>1. /\ line.row.row \in Row /\ wb.adr.row \in Row /\ wb.stb \in BOOLEAN
  BY Typed, Records DEF BusReg
<1>2. PICK m, n, k \in Nat : m = Ahead(line.row.row) /\ n = Ahead(r) /\ k = Ahead(wb.adr.row)
  BY <1>1, AheadInjective, Typed
<1>3. Len(answers) \in Nat /\ Len(answers) = (m + 1) - (IF wb.stb THEN k + 1 ELSE 0)
  <2>1. Len(answers) = OwedInReload
    BY DEF Turn, BusInv, BusCounted
  <2>2. QED
    BY <1>2, <2>1, Typed DEF OwedInReload
<1>4. n > m
  BY <1>2 DEF Come
<1>5. QED
  BY <1>1, <1>2, <1>3, <1>4 DEF Strobed

\* The row that comes is that of memory, or zeroes.
LEMMA RowArrives ==
    ASSUME NEW g, NEW in, NEW wbin, NEW f, NEW plru, NEW q, NEW how,
           Turn(g, in, wbin, f, plru, q, how), Reloads(q, plru, wbin), wbin.ack, NEW n \in Row, n = line.row.row
    PROVE  /\ ~f.valid /\ ~fill.write_tag /\ g /\ ~Come(n)
           /\ ~fill.dcbz => wbin.dat = mem[TargetRow(n)] /\ ~wb.we
           /\ fill.dcbz => mem'[TargetRow(n)] = 0
<1>1. /\ state = "RELOAD_WAIT_ACK" /\ LineOf(wb.adr) = Target
      /\ (wb.we <=> fill.dcbz) /\ (fill.dcbz => wb.sel /\ wb.dat = 0)
      /\ Strobed(n) => IF fill.dcbz THEN mem[TargetRow(n)] = 0
                       ELSE ~Come(n) => answers[Ahead(line.row.row) - Ahead(n) + 1].dat = mem[TargetRow(n)]
  BY DEF Reloads, Turn, CoherenceInv, FillState, AnswersHold
<1>2. /\ g /\ (Strobed(n) \/ (Sent(wbin) /\ wb.adr.row = n)) /\ ~fill.write_tag /\ ~f.valid
  BY Progress, Memory, Tagging
<1>3. /\ wb.adr.row \in Row /\ wb.stb \in BOOLEAN /\ wb.adr \in Adr /\ TargetRow(n) \in Adr
      /\ wb.adr = TargetRow(n) <=> wb.adr.row = n
  BY <1>1, Typed, Records DEF BusReg
<1>4. PICK m, k \in Nat : m = Ahead(n) /\ k = Ahead(wb.adr.row) /\ (k = m <=> wb.adr.row = n)
  BY <1>3, AheadInjective, Typed
<1>5. ~Come(n)
  BY <1>4 DEF Come
<1>6. ASSUME ~fill.dcbz PROVE wbin.dat = mem[TargetRow(n)] /\ ~wb.we
  <2>1. Len(answers) \in Nat /\ Len(answers) = (m + 1) - (IF wb.stb THEN k + 1 ELSE 0)
    <3>1. Len(answers) = OwedInReload
      BY <1>1 DEF Turn, BusInv, BusCounted
    <3>2. QED
      BY <1>4, <3>1, Typed DEF OwedInReload
  <2>2. CASE answers # <<>>
    <3>1. Len(answers) # 0
      BY <2>2, Typed
    <3>2. wb.stb => m > k
      BY <1>4, <2>1, <3>1
    <3>3. Strobed(n)
      BY <1>4, <3>2 DEF Strobed
    <3>4. answers[Ahead(line.row.row) - Ahead(n) + 1].dat = mem[TargetRow(n)]
      BY <1>1, <1>5, <1>6, <3>3
    <3>5. Ahead(line.row.row) - Ahead(n) + 1 = 1
      <4>1. m - m + 1 = 1
        OBVIOUS
      <4>2. QED
        BY <1>4, <4>1
    <3>6. wbin.dat = answers[1].dat
      BY <2>2 DEF Turn, Fed
    <3>7. QED
      BY <1>1, <1>6, <3>4, <3>5, <3>6
  <2>3. CASE answers = <<>>
    <3>1. wb.stb /\ wbin.dat = mem[wb.adr]
      BY <1>1, <1>6, <2>3 DEF Turn, Fed, Sent
    <3>2. k = m
      BY <2>1, <2>3, <3>1
    <3>3. QED
      BY <1>1, <1>3, <1>4, <1>6, <3>1, <3>2
  <2>4. QED
    BY <2>2, <2>3
<1>7. ASSUME fill.dcbz PROVE mem'[TargetRow(n)] = 0
  <2>1. PICK a \in Adr : a = TargetRow(n)
    BY <1>3
  <2>2. mem'[a] = IF Stored(wbin, a) THEN wb.dat
                  ELSE IF f.valid /\ f.adr = a THEN f.dat ELSE mem[a]
    BY MemAt
  <2>3. Stored(wbin, a) \/ mem[a] = 0
    BY <1>1, <1>2, <1>3, <1>7, <2>1 DEF Stored
  <2>4. QED
    BY <1>1, <1>2, <1>7, <2>1, <2>2, <2>3
<1>8. QED
  BY <1>2, <1>5, <1>6, <1>7

------------------------------------------------------------------------------
\* The rows of the cache.

\* The row that comes in this cycle.
Arriving(wbin, w, a) == fill.reloading /\ wbin.ack /\ w = line.way /\ line.row = RowOf(a)

\* A row keeps its value unless it comes in this cycle; it takes it then.
LEMMA RamKeeps ==
    ASSUME NEW g, NEW in, NEW wbin, NEW f, NEW plru, NEW q, NEW how,
           Turn(g, in, wbin, f, plru, q, how), NEW w \in Way, NEW a \in Adr
    PROVE  /\ ~Arriving(wbin, w, a) => ram'[w][a.index][a.row] = RowVal(w, a)
           /\ Arriving(wbin, w, a) =>
                ram'[w][a.index][a.row] = IF fill.dcbz THEN r1_req.dat ELSE wbin.dat
<1>1. /\ a.index \in Index /\ a.row \in Row
      /\ line.row = RowOf(a) <=> line.row.index = a.index /\ line.row.row = a.row
  BY Typed, Records
<1>2. ram'[w][a.index][a.row] =
        IF RamWrite(wbin) /\ RamSel /\ w = ReplaceWay(plru) /\ line.row = RowOf(a)
        THEN RamDat(wbin) ELSE ram[w][a.index][a.row]
  BY <1>1, RamStep
<1>3. /\ wbin.ack => ~fill.write_tag
      /\ write_bram => state = "STORE_WAIT_ACK"
      /\ fill.reloading \/ fill.write_tag => state = "RELOAD_WAIT_ACK"
  BY Tagging DEF Turn, CoherenceInv, WritesStore, FillState
<1>4. ~fill.write_tag => ReplaceWay(plru) = line.way
  BY DEF ReplaceWay
<1>5. CASE write_bram
  BY <1>2, <1>3, <1>4, <1>5 DEF RamWrite, RamSel, RamDat, RowVal, Arriving
<1>6. CASE ~write_bram
  BY <1>2, <1>3, <1>4, <1>6 DEF RamWrite, RamSel, RamDat, RowVal, Arriving
<1>7. QED
  BY <1>5, <1>6

\* A row that is there does not come.
LEMMA ThereNotArriving ==
    ASSUME NEW g, NEW in, NEW wbin, NEW f, NEW plru, NEW q, NEW how,
           Turn(g, in, wbin, f, plru, q, how), NEW w \in Way, NEW a \in Adr,
           InWay(w, LineOf(a)), Refilling(LineOf(a)) => a.row \in line.rows_valid
    PROVE  ~Arriving(wbin, w, a)
<1>1. SUFFICES ASSUME Arriving(wbin, w, a) PROVE FALSE
  OBVIOUS
<1>2. fill.reloading /\ wbin.ack /\ w = line.way /\ line.row = RowOf(a) /\ ~fill.write_tag
  BY <1>1, Tagging DEF Arriving
<1>3. /\ state = "RELOAD_WAIT_ACK" /\ line.row.index = line.index
      /\ tags[line.index][line.way] = line.tag /\ line.rows_valid = {r \in Row : Come(r)}
  BY <1>2 DEF Turn, CoherenceInv, FillState
<1>4. /\ line.row.index = a.index /\ line.row.row = a.row /\ a.row \in Row
      /\ LineOf(a).index = a.index /\ LineOf(a).tag = a.tag
  BY <1>2, Typed, Records
<1>5. LineOf(a) = Target
  BY <1>2, <1>3, <1>4 DEF InWay, Target, LineOf
<1>6. Come(a.row)
  BY <1>2, <1>3, <1>4, <1>5 DEF Refilling
<1>7. Ahead(a.row) \in Nat
  BY <1>4, Typed, AheadInjective
<1>8. QED
  BY <1>4, <1>6, <1>7 DEF Come

\* Nothing is written as the machine neither stores nor takes a row.
LEMMA RowStays ==
    ASSUME NEW g, NEW in, NEW wbin, NEW f, NEW plru, NEW q, NEW how,
           Turn(g, in, wbin, f, plru, q, how), NEW w \in Way, NEW a \in Adr, ~write_bram', ~Arriving(wbin, w, a)
    PROVE  RowVal(w, a)' = RowVal(w, a)
<1>1. ram'[w][a.index][a.row] = RowVal(w, a)
  BY RamKeeps
<1>2. RowVal(w, a)' = ram'[w][a.index][a.row]
  BY DEF RowVal
<1>3. QED
  BY <1>1, <1>2

------------------------------------------------------------------------------
\* The rows that are in the cache are what memory is about to be.

\* Memory after this cycle, but for a store of another master.
LEMMA OwnMemory ==
    ASSUME NEW g, NEW in, NEW wbin, NEW f, NEW plru, NEW q, NEW how,
           Turn(g, in, wbin, f, plru, q, how), NEW a \in Adr, NEW n, n = IF f.valid THEN mem ELSE mem'
    PROVE  /\ n[a] = IF Stored(wbin, a) THEN wb.dat ELSE mem[a]
           /\ ~(f.valid /\ f.adr = a) => n[a] = mem'[a]
<1>1. /\ mem'[a] = IF Stored(wbin, a) THEN wb.dat
                   ELSE IF f.valid /\ f.adr = a THEN f.dat ELSE mem[a]
      /\ f.valid => ~Stored(wbin, a)
  BY MemAt
<1>2. QED
  BY <1>1

\* A cycle that starts no store leaves what rows are about to be.
LEMMA QuietNow ==
    ASSUME NEW g, NEW in, NEW wbin, NEW f, NEW plru, NEW q, NEW how,
           Turn(g, in, wbin, f, plru, q, how), NEW a \in Adr, NEW n, n = IF f.valid THEN mem ELSE mem', Quiet(wbin)
    PROVE  NowIn(n, a)' = Now(a)
<1>1. /\ wb'.stb /\ wb'.we <=> wb.stb /\ wb.we /\ wbin.stall
      /\ wb'.stb /\ wb'.we => wb'.adr = wb.adr /\ wb'.dat = wb.dat /\ wb'.sel = wb.sel
  BY DEF Quiet
<1>2. n[a] = IF Stored(wbin, a) THEN wb.dat ELSE mem[a]
  BY OwnMemory
<1>3. wb \in BusReg /\ wb' \in BusReg /\ wbin.stall \in BOOLEAN
  BY Typed DEF BusWire
<1>4. QED
  BY <1>1, <1>2, <1>3, NowIs, NowAt DEF Stored, Sent, BusReg

\* Nor does the bus store to a line that is not filled by the refill.
LEMMA ReloadNow ==
    ASSUME NEW g, NEW in, NEW wbin, NEW f, NEW plru, NEW q, NEW how,
           Turn(g, in, wbin, f, plru, q, how), NEW a \in Adr, NEW n, n = IF f.valid THEN mem ELSE mem',
           Reloads(q, plru, wbin), ~fill.dcbz \/ LineOf(a) # Target
    PROVE  NowIn(n, a)' = Now(a) /\ Now(a) = mem[a] /\ n[a] = mem[a]
<1>1. /\ LineOf(wb.adr) = Target /\ (wb.we <=> fill.dcbz)
  BY DEF Turn, CoherenceInv, FillState, Reloads
<1>2. wb'.we = wb.we /\ LineOf(wb'.adr) = LineOf(wb.adr)
  BY Strobes
<1>3. n[a] = IF Stored(wbin, a) THEN wb.dat ELSE mem[a]
  BY OwnMemory
<1>4. ~(wb.we /\ wb.adr = a) /\ ~(wb'.we /\ wb'.adr = a)
  BY <1>1, <1>2
<1>5. QED
  BY <1>3, <1>4, NowIs, NowAt DEF Stored

\* A row of the line that is refilled.
LEMMA RefilledRow ==
    ASSUME NEW g, NEW in, NEW wbin, NEW f, NEW plru, NEW q, NEW how,
           Turn(g, in, wbin, f, plru, q, how), NEW w \in Way, NEW a \in Adr, NEW n, n = IF f.valid THEN mem ELSE mem',
           InWay(w, LineOf(a)), Refilling(LineOf(a)), Reloads(q, plru, wbin),
           a.row \in line.rows_valid \/ (wbin.ack /\ a.row = line.row.row)
    PROVE  RowVal(w, a)' = NowIn(n, a)'
<1>1. /\ fill.reloading /\ ~fill.write_tag /\ LineOf(a) = Target /\ state = "RELOAD_WAIT_ACK"
      /\ w = line.way /\ line.row.index = line.index /\ line.rows_valid = {r \in Row : Come(r)}
      /\ LineOf(wb.adr) = Target /\ (wb.we <=> fill.dcbz) /\ (fill.dcbz => wb.sel /\ wb.dat = 0)
      /\ line.rows_valid # {} => mine /\ ~snoop.valid
      /\ fill.dcbz => r1_req.dat = 0
      /\ ~write_bram
  <2>1. StageRead /\ Unique /\ FillState /\ Zeroes /\ WritesStore
    BY DEF Turn, CoherenceInv
  <2>2. fill.reloading /\ ~fill.write_tag /\ LineOf(a) = Target
    BY DEF Refilling
  <2>3. /\ state = "RELOAD_WAIT_ACK" /\ w = line.way
    BY <2>1, <2>2 DEF FillState
  <2>4. QED
    BY <2>1, <2>2, <2>3 DEF FillState, Zeroes, WritesStore
<1>2. a.row \in Row /\ a.index = line.index /\ a = TargetRow(a.row)
      /\ (line.row = RowOf(a) <=> line.row.row = a.row)
  <2>1. /\ a.row \in Row /\ LineOf(a).index = a.index /\ a = TargetRow(a.row)
        /\ Target.index = line.index
        /\ line.row = RowOf(a) <=> line.row.index = a.index /\ line.row.row = a.row
    BY <1>1, Typed, Records
  <2>2. QED
    BY <1>1, <2>1
<1>3. RowVal(w, a)' = ram'[w][a.index][a.row]
  <2>1. ~write_bram'
    BY DEF Reloads
  <2>2. QED
    BY <2>1 DEF RowVal
<1>4. wb'.we = wb.we /\ wb'.dat = wb.dat
  BY Strobes
<1>5. CASE wbin.ack /\ a.row = line.row.row
  <2>1. Arriving(wbin, w, a)
    BY <1>1, <1>2, <1>5 DEF Arriving
  <2>2. ram'[w][a.index][a.row] = IF fill.dcbz THEN 0 ELSE wbin.dat
    BY <1>1, <2>1, RamKeeps
  <2>3. /\ ~f.valid
        /\ ~fill.dcbz => wbin.dat = mem[a]
        /\ fill.dcbz => mem'[a] = 0
    BY <1>2, <1>5, RowArrives
  <2>4. CASE fill.dcbz
    <3>1. n[a] = 0
      BY <2>3, <2>4
    <3>2. NowIn(n, a)' = 0
      BY <1>1, <1>4, <2>4, <3>1, NowIs
    <3>3. QED
      BY <1>3, <2>2, <2>4, <3>2
  <2>5. CASE ~fill.dcbz
    BY <1>3, <2>2, <2>3, <2>5, ReloadNow
  <2>6. QED
    BY <2>4, <2>5
<1>6. CASE ~(wbin.ack /\ a.row = line.row.row)
  <2>1. a.row \in line.rows_valid /\ ~Arriving(wbin, w, a)
    BY <1>2, <1>6 DEF Arriving
  <2>2. /\ Come(a.row) /\ ~snoop.valid /\ ~f.valid
    <3>1. mine => ~f.valid
      BY Memory
    <3>2. QED
      BY <1>1, <2>1, <3>1
  <2>3. RowVal(w, a) = Now(a)
    <3>1. Backed
      BY DEF Turn, CoherenceInv
    <3>2. QED
      BY <2>1, <2>2, <3>1 DEF Backed, Stale
  <2>4. RowVal(w, a)' = Now(a)
    BY <1>3, <2>1, <2>3, RamKeeps
  <2>5. CASE fill.dcbz
    <3>1. mem[a] = 0
      <4>1. Strobed(a.row)
        BY <1>1, <1>2, <2>2, ComeStrobed
      <4>2. AnswersHold
        BY DEF Turn, CoherenceInv
      <4>3. mem[TargetRow(a.row)] = 0
        BY <1>1, <1>2, <2>5, <4>1, <4>2 DEF AnswersHold
      <4>4. QED
        BY <1>2, <4>3
    <3>2. n[a] = 0
      BY <1>1, <2>5, <3>1, OwnMemory DEF Stored
    <3>3. NowIn(n, a)' = 0 /\ Now(a) = 0
      BY <1>1, <1>4, <2>5, <3>1, <3>2, NowIs, NowAt
    <3>4. QED
      BY <2>4, <3>3
  <2>6. CASE ~fill.dcbz
    BY <2>4, <2>6, ReloadNow
  <2>7. QED
    BY <2>5, <2>6
<1>7. QED
  BY <1>5, <1>6

\* A row of a line that is not refilled, by what the machine does.
LEMMA StoredRow ==
    ASSUME NEW g, NEW in, NEW wbin, NEW f, NEW plru, NEW q, NEW how,
           Turn(g, in, wbin, f, plru, q, how), NEW w \in Way, NEW a \in Adr, NEW n, n = IF f.valid THEN mem ELSE mem',
           InWay(w, LineOf(a)), RowVal(w, a) = Now(a), ~Arriving(wbin, w, a), Stores(q, wbin)
    PROVE  RowVal(w, a)' = NowIn(n, a)'
<1>1. /\ state # "RELOAD_WAIT_ACK" /\ (full \/ Slow) /\ q.op = "store" /\ state' = "STORE_WAIT_ACK"
      /\ wb'.stb /\ wb'.we /\ wb'.adr = q.adr /\ wb'.dat = q.dat /\ wb'.sel = q.sel
      /\ write_bram' = q.hit /\ line'.row = RowOf(q.adr)
      /\ q.hit => line'.way = q.way
      /\ wb.stb => ~wbin.stall
  BY DEF Stores
<1>2. StoreHits(q)
  BY <1>1, StoreKnown
<1>3. r1_req'.dat = q.dat /\ r1_req'.sel = q.sel
  <2>1. SameReq(r1_req', q)
    BY <1>1, Staged
  <2>2. PICK r : r = r1_req'
    OBVIOUS
  <2>3. QED
    BY <2>1, <2>2 DEF SameReq
<1>4. q \in SlowReq /\ q.adr \in Adr /\ wb \in BusReg
  BY Typed DEF SlowReq
<1>5. /\ LineOf(a).index = a.index /\ LineOf(a).tag = a.tag
      /\ RowOf(q.adr) = RowOf(a) <=> q.adr.index = a.index /\ q.adr.row = a.row
      /\ q.adr = a <=> q.adr.index = a.index /\ q.adr.row = a.row /\ q.adr.tag = a.tag
  BY <1>4 DEF LineOf, RowOf, Adr
<1>6. RowVal(w, a)' = IF q.hit /\ q.sel /\ w = q.way /\ RowOf(q.adr) = RowOf(a) THEN q.dat
                      ELSE ram'[w][a.index][a.row]
  BY <1>1, <1>3 DEF RowVal
<1>7. q.hit /\ w = q.way /\ RowOf(q.adr) = RowOf(a) <=> q.adr = a
  <2>1. ASSUME q.hit, w = q.way, RowOf(q.adr) = RowOf(a) PROVE q.adr = a
    <3>1. tags[q.adr.index][q.way] = q.adr.tag
      BY <1>2, <2>1 DEF StoreHits
    <3>2. tags[a.index][w] = a.tag
      BY <1>5 DEF InWay
    <3>3. QED
      BY <1>5, <2>1, <3>1, <3>2
  <2>2. ASSUME q.adr = a PROVE q.hit /\ w = q.way
    BY <1>2, <2>2 DEF StoreHits
  <2>3. QED
    BY <2>1, <2>2
<1>8. NowIn(n, a)' = IF q.sel /\ q.adr = a THEN q.dat ELSE n[a]
  BY <1>1, NowIs
<1>9. ram'[w][a.index][a.row] = n[a]
  <2>1. ram'[w][a.index][a.row] = Now(a)
    BY RamKeeps
  <2>2. n[a] = IF Stored(wbin, a) THEN wb.dat ELSE mem[a]
    BY OwnMemory
  <2>3. QED
    BY <1>1, <2>1, <2>2, NowAt DEF Stored, Sent
<1>10. QED
  BY <1>6, <1>7, <1>8, <1>9

\* A row of a line that is there when a refill starts; a line that is zeroed
\* while it is there has no row any more.
LEMMA FilledRow ==
    ASSUME NEW g, NEW in, NEW wbin, NEW f, NEW plru, NEW q, NEW how,
           Turn(g, in, wbin, f, plru, q, how), NEW w \in Way, NEW a \in Adr, NEW n, n = IF f.valid THEN mem ELSE mem',
           InWay(w, LineOf(a)), RowVal(w, a) = Now(a), ~Arriving(wbin, w, a), Fills(q),
           Refilling(LineOf(a))' => a.row \in line'.rows_valid
    PROVE  RowVal(w, a)' = NowIn(n, a)'
<1>1. RowVal(w, a)' = Now(a)
  <2>1. ~write_bram'
    BY DEF Fills
  <2>2. QED
    BY <2>1, RowStays
<1>2. /\ ~wb.stb /\ ~Sent(wbin) /\ line'.rows_valid = {} /\ wb'.adr = q.adr /\ wb'.we = fill'.dcbz
      /\ Target' = LineOf(q.adr)
  BY Starts
<1>3. n[a] = mem[a] /\ Now(a) = mem[a]
  BY <1>2, OwnMemory, NowAt DEF Stored
<1>4. ~(wb'.we /\ wb'.adr = a)
  <2>1. SUFFICES ASSUME wb'.we, wb'.adr = a PROVE FALSE
    OBVIOUS
  <2>2. fill'.dcbz /\ q.adr = a
    BY <1>2, <2>1
  <2>3. q.op = "store" /\ StoreHits(q)
    BY <2>2, StartsFor
  <2>4. q.hit /\ ~q.nc
    BY <2>2, <2>3 DEF StoreHits
  <2>5. fill'.reloading /\ ~fill'.write_tag
    BY <2>2, <2>4, FillsFor
  <2>6. Refilling(LineOf(a))'
    <3>1. Target' = LineOf(a)
      BY <1>2, <2>2
    <3>2. PICK l : l = LineOf(a)
      OBVIOUS
    <3>3. Refilling(l)'
      BY <2>5, <3>1, <3>2 DEF Refilling
    <3>4. QED
      BY <3>2, <3>3 DEF Refilling, LineOf
  <2>7. QED
    BY <1>2, <2>6
<1>5. QED
  BY <1>1, <1>3, <1>4, NowIs

\* A row that is in the cache after this cycle is what memory is about to be,
\* but for a store of another master in this cycle.
LEMMA RowKept ==
    ASSUME NEW g, NEW in, NEW wbin, NEW f, NEW plru, NEW q, NEW how,
           Turn(g, in, wbin, f, plru, q, how), NEW w \in Way, NEW a \in Adr, NEW n, n = IF f.valid THEN mem ELSE mem',
           NEW l \in Line, l = LineOf(a), InWay(w, l)', Refilling(l)' => a.row \in line'.rows_valid
    PROVE  RowVal(w, a)' = NowIn(n, a)'
<1>1. a.row \in Row /\ line.row.row \in Row
  BY Typed, Records
<1>2. ~(fill.write_tag /\ l = Target)
  <2>1. SUFFICES ASSUME fill.write_tag, l = Target PROVE FALSE
    OBVIOUS
  <2>2. state = "RELOAD_WAIT_ACK" /\ fill.reloading /\ ~wbin.ack /\ line.rows_valid = {}
    <3>1. state = "RELOAD_WAIT_ACK" /\ fill.reloading /\ ~wbin.ack
      BY <2>1, Tagging
    <3>2. FillState
      BY DEF Turn, CoherenceInv
    <3>3. QED
      BY <2>1, <3>1, <3>2 DEF FillState
  <2>3. Reloads(q, plru, wbin)
    BY <2>2, Kinds DEF Fills, Stores, Quiet
  <2>4. fill'.reloading /\ ~fill'.write_tag /\ Target' = Target /\ line'.rows_valid = {}
    BY <2>2, <2>3, Strobes DEF LastAck
  <2>5. Refilling(l)'
    BY <2>1, <2>4 DEF Refilling
  <2>6. QED
    BY <2>4, <2>5
<1>3. InWay(w, l)
  BY <1>2, WaysStep
<1>4. CASE Refilling(l)
  <2>1. state = "RELOAD_WAIT_ACK" /\ fill.reloading /\ ~fill.write_tag /\ l = Target
    <3>1. FillState
      BY DEF Turn, CoherenceInv
    <3>2. QED
      BY <1>4, <3>1 DEF FillState, Refilling
  <2>2. Reloads(q, plru, wbin)
    BY <2>1, Kinds DEF Fills, Stores, Quiet
  <2>3. /\ Target' = Target /\ ~fill'.write_tag /\ (fill'.reloading <=> ~LastAck(wbin))
        /\ line'.rows_valid = IF wbin.ack THEN line.rows_valid \cup {line.row.row} ELSE line.rows_valid
    BY <2>1, <2>2, Strobes
  <2>4. a.row \in line.rows_valid \/ (wbin.ack /\ a.row = line.row.row)
    <3>1. CASE LastAck(wbin)
      <4>1. Come(a.row) \/ a.row = line.row.row
        BY <1>1, <2>2, <3>1, Progress
      <4>2. line.rows_valid = {r \in Row : Come(r)} /\ wbin.ack
        BY <2>1, <3>1 DEF LastAck, Turn, CoherenceInv, FillState
      <4>3. QED
        BY <1>1, <4>1, <4>2
    <3>2. CASE ~LastAck(wbin)
      <4>1. Refilling(l)'
        BY <2>1, <2>3, <3>2 DEF Refilling
      <4>2. QED
        BY <2>3, <4>1
    <3>3. QED
      BY <3>1, <3>2
  <2>5. QED
    BY <1>3, <1>4, <2>2, <2>4, RefilledRow
<1>5. CASE ~Refilling(l)
  <2>1. ~Stale(l)
    BY <1>2, <1>5, StaleGoes
  <2>2. RowVal(w, a) = Now(a)
    <3>1. Backed
      BY DEF Turn, CoherenceInv
    <3>2. QED
      BY <1>3, <1>5, <2>1, <3>1 DEF Backed
  <2>3. ~Arriving(wbin, w, a)
    BY <1>3, <1>5, ThereNotArriving
  <2>4. CASE Fills(q)
    <3>1. Refilling(LineOf(a))' => a.row \in line'.rows_valid
      <4>1. Refilling(LineOf(a))' <=> Refilling(l)'
        BY DEF Refilling, LineOf
      <4>2. QED
        BY <4>1
    <3>2. QED
      BY <1>3, <2>2, <2>3, <2>4, <3>1, FilledRow
  <2>5. CASE Stores(q, wbin)
    BY <1>3, <2>2, <2>3, <2>5, StoredRow
  <2>6. CASE Reloads(q, plru, wbin)
    <3>1. l # Target
      <4>1. state = "RELOAD_WAIT_ACK"
        BY <2>6 DEF Reloads
      <4>2. l = Target => ~(fill.write_tag \/ ~fill.reloading)
        BY <1>3, <4>1, TagFree
      <4>3. QED
        BY <1>5, <4>2 DEF Refilling
    <3>2. ~write_bram'
      BY <2>6 DEF Reloads
    <3>3. QED
      BY <2>2, <2>3, <2>6, <3>1, <3>2, RowStays, ReloadNow
  <2>7. CASE Quiet(wbin)
    <3>1. ~write_bram'
      BY <2>7 DEF Quiet
    <3>2. QED
      BY <2>2, <2>3, <2>7, <3>1, RowStays, QuietNow
  <2>8. QED
    BY <2>4, <2>5, <2>6, <2>7, Kinds
<1>6. QED
  BY <1>4, <1>5

\* Rows that are in the cache stay what memory is about to be.
LEMMA BackedStep ==
    ASSUME NEW g, NEW in, NEW wbin, NEW f, NEW plru, NEW q, NEW how,
           Turn(g, in, wbin, f, plru, q, how)
    PROVE  Backed'
<1>1. SUFFICES ASSUME NEW w \in Way, NEW a \in Adr,
                      InWay(w, LineOf(a))', ~Stale(LineOf(a))',
                      Refilling(LineOf(a))' => a.row \in line'.rows_valid
               PROVE  RowVal(w, a)' = Now(a)'
  BY DEF Backed
<1>2. PICK l \in Line : l = LineOf(a)
  BY Typed, Records
<1>3. InWay(w, l)' /\ ~Stale(l)' /\ (Refilling(l)' => a.row \in line'.rows_valid)
  BY <1>1, <1>2 DEF InWay, Stale, Refilling, LineOf
<1>4. PICK n : n = IF f.valid THEN mem ELSE mem'
  OBVIOUS
<1>5. RowVal(w, a)' = NowIn(n, a)'
  BY <1>2, <1>3, <1>4, RowKept
<1>6. ~(f.valid /\ f.adr = a)
  BY <1>2, <1>3, Memory DEF Stale
<1>7. n[a] = mem'[a]
  BY <1>4, <1>6, OwnMemory
<1>8. Now(a)' = IF wb'.stb /\ wb'.we /\ wb'.sel /\ wb'.adr = a THEN wb'.dat ELSE mem'[a]
  BY DEF Now, NowIn, Covers
<1>9. QED
  BY <1>5, <1>7, <1>8, NowIs

------------------------------------------------------------------------------
\* What the stores under way leave at an address.

\* The bus leaves a zero, its store, or m; a request of the machine its data,
\* and what the bus leaves if it may fail.
BusAt(a, m) ==
    IF state = "RELOAD_WAIT_ACK" /\ fill.dcbz /\ LineOf(wb.adr) = LineOf(a) THEN 0
    ELSE IF wb.stb /\ wb.we /\ wb.sel /\ wb.adr = a THEN wb.dat ELSE m[a]

Leaves(r, a, b) ==
    IF r.op = "store" /\ Covers(r, r.dcbz, a) THEN {r.dat} \cup (IF r.reserve THEN {b} ELSE {})
    ELSE {b}

Left0(a, m) == IF full THEN Leaves(r1_req, a, BusAt(a, m)) ELSE {BusAt(a, m)}

\* What is left at an address, without the store in stage 0,
LEMMA LeftOf ==
    ASSUME NEW a, NEW m, NEW last, ~last
    PROVE  Left(a, m, last) = Left0(a, m)
BY DEF Left, Left0, Leaves, BusAt, Covers

\* with it,
LEMMA LeftLast ==
    ASSUME NEW a, NEW m, NEW last, last, ~full
    PROVE  Left(a, m, last) =
             IF /\ r0.full /\ ~Dropped /\ r0.req.ok /\ r0.req.op \in {"store", "dcbz"}
                /\ Covers(r0.req, r0.req.op = "dcbz", a)
             THEN {IF r0.req.op = "dcbz" THEN 0 ELSE R0Dat}
                  \cup (IF r0.req.reserve THEN {BusAt(a, m)} ELSE {})
             ELSE {BusAt(a, m)}
BY DEF Left, BusAt, Covers, R0Dat

\* What is left for a request behind the one in stage 0 (last), or for one in
\* the cache.
Behind(last) ==
    /\ full => ~last
    /\ ~full /\ ~last => r0.req.op \notin {"store", "dcbz"}
    /\ ~full /\ last => ~done'.ls_error

\* and as this cycle finds it.
LEMMA LeftNow ==
    ASSUME NEW g, NEW in, NEW wbin, NEW f, NEW plru, NEW q, NEW how,
           Turn(g, in, wbin, f, plru, q, how), NEW a \in Adr, NEW m, NEW last, Behind(last)
    PROVE  Left(a, m, last) = IF full \/ Slow THEN Leaves(q, a, BusAt(a, m)) ELSE {BusAt(a, m)}
<1>1. full \in BOOLEAN /\ r0.full \in BOOLEAN /\ done.ls_error \in BOOLEAN /\ TypeOK
  BY Typed DEF DoneReg, CacheTypeOK
<1>2. CASE full
  <2>1. q = r1_req /\ ~last
    BY <1>2, Staged DEF Behind
  <2>2. QED
    BY <1>2, <2>1, LeftOf DEF Left0
<1>3. CASE ~full /\ ~last
  <2>1. Slow => Goes
    BY Staged
  <2>2. Slow => q.op # "store"
    <3>1. Goes => q.op = ThisOp /\ (ThisOp = "store" => r0.req.op \in {"store", "dcbz"})
      BY Decode
    <3>2. QED
      BY <1>3, <2>1, <3>1 DEF Behind
  <2>3. Slow => Leaves(q, a, BusAt(a, m)) = {BusAt(a, m)}
    BY <2>2 DEF Leaves
  <2>4. QED
    BY <1>3, <2>3, LeftOf DEF Left0
<1>4. CASE ~full /\ last
  <2> DEFINE stores == r0.full /\ ~Dropped /\ r0.req.ok /\ r0.req.op \in {"store", "dcbz"}
  <2>1. (r0.full /\ ~Dropped <=> Goes) /\ (Slow => Goes)
    BY <1>1, <1>4, Staged DEF Dropped
  <2>2. stores <=> Slow /\ ThisOp = "store"
    <3>1. ASSUME stores PROVE Slow /\ ThisOp = "store"
      <4>1. Goes /\ ThisOp # "none"
        BY <2>1, <3>1, Finished
      <4>2. ThisOp # "bad"
        <5>1. ~done'.ls_error
          BY <1>4 DEF Behind
        <5>2. r0.req.mmu => r0.req.op = "load"
          BY <1>1, Request0, Units DEF NoReq
        <5>3. done'.ls_error <=> ThisOp = "bad" /\ ~r0.req.mmu
          BY Finished
        <5>4. QED
          BY <3>1, <5>1, <5>2, <5>3, <1>1, Request0
      <4>3. /\ ThisOp \in {"load_miss", "load_hit"} => r0.req.op \in {"load", "touch"}
            /\ ThisOp = "flush" => r0.req.op = "flush"
            /\ ThisOp = "sync" => r0.req.op = "sync"
            /\ ThisOp = "nop" => r0.req.op \in {"touch", "flush"}
        BY <4>1, Decode
      <4>4. ThisOp = "store"
        BY <3>1, <4>1, <4>2, <4>3, Finished
      <4>5. QED
        BY <4>4, Finished
    <3>2. ASSUME Slow, ThisOp = "store" PROVE stores
      BY <2>1, <3>2, Decode
    <3>3. QED
      BY <3>1, <3>2
  <2>3. CASE stores
    <3>1. Goes /\ Slow /\ q.op = "store"
      BY <2>1, <2>2, <2>3, Fields
    <3>2. /\ q.adr = r0.req.adr /\ q.reserve = r0.req.reserve
          /\ q.dat = (IF r0.req.op = "dcbz" THEN 0 ELSE R0Dat)
          /\ (q.dcbz <=> r0.req.op = "dcbz")
          /\ q.sel <=> (r0.req.sel \/ r0.req.op = "dcbz" \/ (r0.req.op = "load" /\ ~r0.req.nc))
      BY <3>1, Fields
    <3>3. Covers(q, q.dcbz, a) <=> Covers(r0.req, r0.req.op = "dcbz", a)
      BY <2>3, <3>2 DEF Covers
    <3>4. Left(a, m, last) =
            IF Covers(r0.req, r0.req.op = "dcbz", a)
            THEN {IF r0.req.op = "dcbz" THEN 0 ELSE R0Dat}
                 \cup (IF r0.req.reserve THEN {BusAt(a, m)} ELSE {})
            ELSE {BusAt(a, m)}
      BY <1>4, <2>3, LeftLast
    <3> HIDE DEF stores
    <3>5. QED
      BY <3>1, <3>2, <3>3, <3>4 DEF Leaves
  <2>4. CASE ~stores
    <3>1. Left(a, m, last) = {BusAt(a, m)}
      BY <1>4, <2>4, LeftLast
    <3>2. Slow => q.op # "store"
      BY <2>1, <2>2, <2>4, Fields
    <3> HIDE DEF stores
    <3>3. QED
      BY <1>4, <3>1, <3>2 DEF Leaves
  <2>5. QED
    BY <2>3, <2>4
<1>5. QED
  BY <1>1, <1>2, <1>3, <1>4

\* A store that ends without the bus has failed.
LEMMA QuietEnds ==
    ASSUME NEW g, NEW in, NEW wbin, NEW f, NEW plru, NEW q, NEW how,
           Turn(g, in, wbin, f, plru, q, how), Quiet(wbin), full \/ Slow, q.op = "store", ~full'
    PROVE  q.reserve
<1>1. /\ Works(q, d_data, plru, wbin) /\ state \in State /\ wb.stb \in BOOLEAN
  BY Typed DEF Turn, Clocked, CacheTypeOK, BusReg
<1>2. /\ state # "NC_LOAD_WAIT_ACK" /\ state # "FLUSH_CYCLE" /\ state # "RELOAD_WAIT_ACK"
      /\ state = "DO_STCX" => q.reserve
  <2>1. full => q = r1_req
    BY Held
  <2>2. QED
    BY <2>1 DEF Turn, BusInv, AtWork, Quiet
<1>3. wb'.stb /\ wb'.we <=> wb.stb /\ wb.we /\ wbin.stall
  BY DEF Quiet
<1>4. CASE state = "IDLE"
  <2>1. Idle(q, FALSE, plru)
    BY <1>1, <1>4 DEF Works, Reload, Store, NcLoad, DoStcx, Flush
  <2>2. ~IdleStay(q, FALSE)
    BY DEF IdleStay, Slow
  <2>3. IdleStcx(q, FALSE) \/ IdleStore(q, FALSE) \/ IdleDcbz(q, FALSE)
    BY <2>1, <2>2 DEF Idle, IdleMiss, IdleNcLoad, IdleFlush, IdleSync
  <2>4. ~wb.stb
    BY <1>4, <1>1 DEF Turn, BusInv, BusCounted
  <2>5. IdleStore(q, FALSE) => wb'.stb /\ wb'.we
    BY DEF IdleStore, Bus
  <2>6. IdleDcbz(q, FALSE) => full'
    BY DEF IdleDcbz
  <2>7. IdleStcx(q, FALSE) => q.reserve
    BY DEF IdleStcx
  <2>8. QED
    BY <1>3, <2>3, <2>4, <2>5, <2>6, <2>7
<1>5. CASE state = "STORE_WAIT_ACK"
  <2>1. Store(q, FALSE, d_data, plru, wbin)
    BY <1>1, <1>5 DEF Works, Reload, Idle, NcLoad, DoStcx, Flush
  <2>2. Follows(q, wbin)
    <3>1. ~Follows(q, wbin) => full' = FullNext(FALSE)
      BY Zenon, <2>1 DEF Store
    <3>2. FullNext(FALSE) = (full \/ Slow)
      BY Zenon DEF FullNext, Slow
    <3>3. QED
      BY Zenon, <3>1, <3>2
  <2>3. Bus(q, TRUE, TRUE)
    BY Zenon, <2>1, <2>2 DEF Store
  <2>4. wb'.stb /\ wb'.we /\ ~wbin.stall
    BY <2>2, <2>3 DEF Bus, Follows, Joins
  <2>5. QED
    BY <1>3, <2>4
<1>6. QED
  BY <1>1, <1>2, <1>4, <1>5 DEF State

\* What the bus leaves after this cycle, by what the machine does.
LEMMA BusQuiet ==
    ASSUME NEW g, NEW in, NEW wbin, NEW f, NEW plru, NEW q, NEW how,
           Turn(g, in, wbin, f, plru, q, how), NEW a \in Adr, NEW m, NEW n, Quiet(wbin),
           Stored(wbin, a) => n[a] = wb.dat, m[a] = n[a] \/ Stored(wbin, a)
    PROVE  BusAt(a, n)' = BusAt(a, m)
<1>1. /\ wb'.stb /\ wb'.we <=> wb.stb /\ wb.we /\ wbin.stall
      /\ wb'.stb /\ wb'.we => wb'.adr = wb.adr /\ wb'.dat = wb.dat /\ wb'.sel = wb.sel
      /\ state # "RELOAD_WAIT_ACK" /\ state' # "RELOAD_WAIT_ACK"
  BY DEF Quiet
<1>2. wb \in BusReg /\ wb' \in BusReg /\ wbin.stall \in BOOLEAN
  BY Typed DEF BusWire
<1>3. BusAt(a, m) = IF wb.stb /\ wb.we /\ wb.sel /\ wb.adr = a THEN wb.dat ELSE m[a]
  BY <1>1 DEF BusAt
<1>4. BusAt(a, n)' = IF wb'.stb /\ wb'.we /\ wb'.sel /\ wb'.adr = a THEN wb'.dat ELSE n[a]
  BY <1>1 DEF BusAt
<1>5. QED
  BY <1>1, <1>2, <1>3, <1>4 DEF Stored, Sent, BusReg

\* A refill leaves what the bus leaves, or zeroes it.
LEMMA BusRefill ==
    ASSUME NEW g, NEW in, NEW wbin, NEW f, NEW plru, NEW q, NEW how,
           Turn(g, in, wbin, f, plru, q, how), NEW a \in Adr, NEW m, NEW n, Reloads(q, plru, wbin),
           n = mem' \/ (f.valid /\ n = mem), m[a] = n[a] \/ Stored(wbin, a)
    PROVE  /\ BusAt(a, n)' = BusAt(a, m)
           /\ fill.dcbz /\ LineOf(a) = Target => BusAt(a, n)' = 0
<1>1. /\ state = "RELOAD_WAIT_ACK" /\ LineOf(wb.adr) = Target /\ (wb.we <=> fill.dcbz)
      /\ fill.dcbz => wb.sel /\ wb.dat = 0
  BY DEF Turn, CoherenceInv, FillState, Reloads
<1>2. /\ wb'.we = wb.we /\ wb'.sel = wb.sel /\ wb'.dat = wb.dat /\ LineOf(wb'.adr) = LineOf(wb.adr)
      /\ fill'.dcbz = fill.dcbz
  BY Strobes
<1>3. state' = IF LastAck(wbin) THEN "IDLE" ELSE "RELOAD_WAIT_ACK"
  BY <1>1 DEF Reloads
<1>4. CASE fill.dcbz /\ LineOf(a) = Target
  <2>1. BusAt(a, m) = 0
    BY <1>1, <1>4 DEF BusAt
  <2>2. CASE LastAck(wbin)
    <3>1. PICK r \in Row : r = line.row.row
      BY Typed, Records
    <3>2. wbin.ack
      BY <2>2 DEF LastAck
    <3>3. mem'[TargetRow(r)] = 0 /\ ~f.valid
      BY <1>4, <3>1, <3>2, RowArrives
    <3>4. a.row \in Row /\ a = TargetRow(a.row)
      BY <1>4, Typed, Records
    <3>5. mem'[a] = 0
      <4>1. CASE a.row = r
        BY <3>3, <3>4, <4>1
      <4>2. CASE a.row # r
        <5>1. Come(a.row)
          BY <2>2, <3>1, <3>4, <4>2, Progress
        <5>2. Strobed(a.row)
          BY <1>1, <3>4, <5>1, ComeStrobed
        <5>3. mem[TargetRow(a.row)] = 0
          <6>1. AnswersHold
            BY DEF Turn, CoherenceInv
          <6>2. QED
            BY <1>1, <1>4, <3>4, <5>2, <6>1 DEF AnswersHold
        <5>4. mem'[a] = IF Stored(wbin, a) THEN wb.dat ELSE mem[a]
          BY <3>3, MemAt
        <5>5. QED
          BY <1>1, <1>4, <3>4, <5>3, <5>4
      <4>3. QED
        BY <4>1, <4>2
    <3>6. n[a] = 0
      BY <3>3, <3>5
    <3>7. BusAt(a, n)' = IF wb'.stb /\ wb'.we /\ wb'.sel /\ wb'.adr = a THEN wb'.dat ELSE n[a]
      BY <1>3, <2>2 DEF BusAt
    <3>8. QED
      BY <1>1, <1>2, <1>4, <2>1, <3>6, <3>7
  <2>3. CASE ~LastAck(wbin)
    <3>1. BusAt(a, n)' = 0
      BY <1>1, <1>2, <1>3, <1>4, <2>3 DEF BusAt
    <3>2. QED
      BY <2>1, <3>1
  <2>4. QED
    BY <2>2, <2>3
<1>5. CASE ~(fill.dcbz /\ LineOf(a) = Target)
  <2>1. ~(wb.we /\ wb.adr = a) /\ ~(wb'.we /\ wb'.adr = a)
    BY <1>1, <1>2, <1>5
  <2>2. BusAt(a, m) = m[a]
    BY <1>1, <1>5, <2>1 DEF BusAt
  <2>3. BusAt(a, n)' = n[a]
    BY <1>1, <1>2, <1>5, <2>1 DEF BusAt
  <2>4. ~Stored(wbin, a)
    BY <2>1 DEF Stored
  <2>5. QED
    BY <1>5, <2>2, <2>3, <2>4
<1>6. QED
  BY Zenon, <1>4, <1>5

\* The request of the machine in the next cycle leaves what it leaves now.
LEMMA LeavesNext ==
    ASSUME NEW g, NEW in, NEW wbin, NEW f, NEW plru, NEW q, NEW how,
           Turn(g, in, wbin, f, plru, q, how), NEW a \in Adr, NEW b
    PROVE  full' => (full \/ Slow) /\ Leaves(r1_req, a, b)' = Leaves(q, a, b)
<1>1. SUFFICES ASSUME full' PROVE (full \/ Slow) /\ Leaves(r1_req, a, b)' = Leaves(q, a, b)
  OBVIOUS
<1>2. full \/ Slow
  BY <1>1, Served
<1>3. PICK r : r = r1_req'
  OBVIOUS
<1>4. SameReq(r, q)
  BY <1>2, <1>3, Staged
<1>5. Leaves(r1_req, a, b)' = Leaves(r, a, b)
  BY <1>3 DEF Leaves, Covers, LineOf
<1>6. Leaves(r, a, b) = Leaves(q, a, b)
  BY <1>4 DEF Leaves, Covers, SameReq
<1>7. QED
  BY <1>2, <1>5, <1>6

\* After a cycle nothing is left that was not left before it.
LEMMA LeftStep ==
    ASSUME NEW g, NEW in, NEW wbin, NEW f, NEW plru, NEW q, NEW how,
           Turn(g, in, wbin, f, plru, q, how), NEW a \in Adr, NEW m, NEW n, NEW last, Behind(last),
           n = mem' \/ (f.valid /\ n = mem), m[a] = n[a] \/ Stored(wbin, a)
    PROVE  Left0(a, n)' \subseteq Left(a, m, last)
<1>1. Left(a, m, last) = IF full \/ Slow THEN Leaves(q, a, BusAt(a, m)) ELSE {BusAt(a, m)}
  BY LeftNow
<1>2. Stored(wbin, a) => n[a] = wb.dat
  BY MemAt
<1>3. PICK b : b = BusAt(a, n)'
  OBVIOUS
<1>4. Left0(a, n)' = IF full' THEN Leaves(q, a, b) ELSE {b}
  <2>1. Left0(a, n)' = IF full' THEN Leaves(r1_req, a, b)' ELSE {b}
    BY <1>3 DEF Left0, Leaves, Covers, LineOf
  <2>2. QED
    BY <2>1, LeavesNext
<1>5. full' => full \/ Slow
  BY Served
<1>6. ASSUME b = BusAt(a, m), full \/ Slow => full' \/ q.op # "store" \/ q.reserve \/ ~Covers(q, q.dcbz, a)
      PROVE  Left0(a, n)' \subseteq Left(a, m, last)
  BY <1>1, <1>4, <1>5, <1>6 DEF Leaves
<1>7. CASE Quiet(wbin)
  <2>1. b = BusAt(a, m)
    BY <1>2, <1>3, <1>7, BusQuiet
  <2>2. full \/ Slow => full' \/ q.op # "store" \/ q.reserve
    BY <1>7, QuietEnds
  <2>3. QED
    BY <1>6, <2>1, <2>2
<1>8. CASE Reloads(q, plru, wbin)
  <2>1. b = BusAt(a, m) /\ (fill.dcbz /\ LineOf(a) = Target => b = 0)
    BY <1>3, <1>8, BusRefill
  <2>2. CASE (full \/ Slow) /\ ~full' /\ q.op = "store" /\ Covers(q, q.dcbz, a)
    <3>1. state = "RELOAD_WAIT_ACK" /\ q.reload
      BY <1>8, <2>2 DEF Reloads, Arrives
    <3>2. q.dcbz /\ fill.dcbz /\ LineOf(q.adr) = Target /\ full
      BY <2>2, <3>1, Awaited
    <3>3. LineOf(a) = Target
      BY <2>2, <3>2 DEF Covers
    <3>4. q.dat = 0
      BY <3>2, Held DEF Turn, CoherenceInv, Zeroes
    <3>5. b \in Left(a, m, last)
      BY <1>1, <2>1, <2>2, <3>2, <3>3, <3>4 DEF Leaves
    <3>6. QED
      BY <1>4, <2>2, <3>5
  <2>3. CASE ~((full \/ Slow) /\ ~full' /\ q.op = "store" /\ Covers(q, q.dcbz, a))
    BY <1>6, <2>1, <2>3
  <2>4. QED
    BY <2>2, <2>3
<1>9. CASE Stores(q, wbin)
  <2>1. /\ state # "RELOAD_WAIT_ACK" /\ state' # "RELOAD_WAIT_ACK" /\ (full \/ Slow) /\ ~full'
        /\ q.op = "store" /\ ~q.dcbz
        /\ wb'.stb /\ wb'.we /\ wb'.adr = q.adr /\ wb'.dat = q.dat /\ wb'.sel = q.sel
        /\ wb.stb => ~wbin.stall
    BY <1>9 DEF Stores
  <2>2. b = IF q.sel /\ q.adr = a THEN q.dat ELSE n[a]
    BY <1>3, <2>1 DEF BusAt
  <2>3. Covers(q, q.dcbz, a) <=> q.sel /\ q.adr = a
    BY <2>1 DEF Covers
  <2>4. BusAt(a, m) = IF Stored(wbin, a) THEN wb.dat ELSE m[a]
    BY <2>1 DEF BusAt, Stored, Sent
  <2>5. BusAt(a, m) = n[a]
    BY <1>2, <2>4
  <2>6. b \in Leaves(q, a, BusAt(a, m))
    BY <2>1, <2>2, <2>3, <2>5 DEF Leaves
  <2>7. QED
    BY <1>1, <1>4, <2>1, <2>6
<1>10. CASE Fills(q)
  <2>1. /\ ~wb.stb /\ ~Sent(wbin) /\ wb'.adr = q.adr /\ wb'.we = fill'.dcbz /\ state = "IDLE"
        /\ q.adr \in Adr
    BY <1>10, Starts
  <2>2. /\ full \/ Slow
        /\ \/ q.op = "load_miss" /\ ~fill'.dcbz
           \/ q.op = "store" /\ ~q.reserve /\ q.dcbz /\ full' /\ fill'.dcbz
    BY <1>10, FillsFor
  <2>3. BusAt(a, m) = m[a] /\ m[a] = n[a]
    BY <2>1 DEF BusAt, Stored
  <2>4. CASE fill'.dcbz /\ LineOf(q.adr) = LineOf(a)
    <3>1. q.op = "store" /\ Covers(q, q.dcbz, a) /\ full' /\ ~q.reserve
      BY <2>2, <2>4 DEF Covers
    <3>2. QED
      BY <1>1, <1>4, <2>2, <3>1 DEF Leaves
  <2>5. CASE ~(fill'.dcbz /\ LineOf(q.adr) = LineOf(a))
    <3>1. b = n[a]
      <4>1. ~(wb'.we /\ wb'.adr = a)
        BY <2>1, <2>5
      <4>2. ~(fill'.dcbz /\ LineOf(wb'.adr) = LineOf(a))
        BY <2>1, <2>5
      <4>3. QED
        BY <1>3, <4>1, <4>2 DEF BusAt, LineOf
    <3>2. q.op # "store" \/ full'
      BY <2>2
    <3>3. QED
      BY <1>6, <2>3, <3>1, <3>2
  <2>6. QED
    BY <2>4, <2>5
<1>11. QED
  BY <1>7, <1>8, <1>9, <1>10, Kinds

\* What a request may return in the next cycle.
LEMMA HasNext ==
    ASSUME NEW v, NEW req, NEW n, n = mem',
           \A s \in [Reads(req) -> Val] : (\A a \in Reads(req) : s[a] \in Left0(a, n)') => s \in v
    PROVE  Has(v, req)'
<1>1. ASSUME NEW a, NEW x, x \in Left(a, mem, FALSE)' PROVE x \in Left0(a, n)'
  BY <1>1 DEF Left, Left0, Leaves, BusAt, Covers
<1>2. SUFFICES Snapshots(req, mem, FALSE)' \subseteq v
  BY Zenon DEF Has
<1>3. \A s \in Snapshots(req, mem, FALSE)' : /\ s \in [Reads(req) -> Val]
                                            /\ \A a \in Reads(req) : s[a] \in Left(a, mem, FALSE)'
  BY Zenon DEF Snapshots
<1>4. \A s \in Snapshots(req, mem, FALSE)' : s \in v
  BY Zenon, <1>1, <1>3
<1>5. QED
  BY Zenon, <1>4

\* A request that may return what was left may return what is left then, if it
\* may return what a store of another master to its rows leaves.
LEMMA HasStep ==
    ASSUME NEW g, NEW in, NEW wbin, NEW f, NEW plru, NEW q, NEW how,
           Turn(g, in, wbin, f, plru, q, how), NEW req \in Req, NEW v, NEW last, Behind(last),
           Snapshots(req, mem, last) \subseteq v,
           f.valid /\ f.adr \in Reads(req) => Snapshots(req, mem', last) \subseteq v
    PROVE  Has(v, req)'
<1>1. Reads(req) \subseteq Adr
  BY ReadsType
<1>2. PICK n : n = mem'
  OBVIOUS
<1>3. ASSUME NEW m, Snapshots(req, m, last) \subseteq v,
             NEW s \in [Reads(req) -> Val], \A a \in Reads(req) : s[a] \in Left(a, m, last)
      PROVE  s \in v
  BY <1>3 DEF Snapshots
<1>4. ASSUME NEW s \in [Reads(req) -> Val], \A a \in Reads(req) : s[a] \in Left0(a, n)'
      PROVE  s \in v
  <2>1. CASE f.valid /\ f.adr \in Reads(req)
    <3>1. \A a \in Reads(req) : s[a] \in Left(a, n, last)
      <4>1. ASSUME NEW a \in Adr PROVE Left0(a, n)' \subseteq Left(a, n, last)
        BY <1>2, LeftStep
      <4>2. QED
        BY Zenon, <1>1, <1>4, <4>1
    <3>2. Snapshots(req, n, last) \subseteq v
      BY <1>2, <2>1
    <3>3. QED
      BY <1>3, <3>1, <3>2
  <2>2. CASE ~(f.valid /\ f.adr \in Reads(req))
    <3>1. \A a \in Reads(req) : s[a] \in Left(a, mem, last)
      <4>1. ASSUME NEW a \in Reads(req) PROVE Left0(a, n)' \subseteq Left(a, mem, last)
        <5>1. PICK m : m = mem
          OBVIOUS
        <5>2. a \in Adr /\ n = mem'
          BY <1>1, <1>2
        <5>3. m[a] = n[a] \/ Stored(wbin, a)
          BY <1>2, <2>2, <5>1, <5>2, MemAt
        <5>4. Left0(a, n)' \subseteq Left(a, m, last)
          BY <5>2, <5>3, LeftStep
        <5>5. QED
          BY <5>1, <5>4
      <4>2. QED
        BY Zenon, <1>4, <4>1
    <3>2. QED
      BY <1>3, <3>1
  <2>3. QED
    BY <2>1, <2>2
<1>5. QED
  BY Zenon, <1>2, <1>4, HasNext

\* The request in stage 0 is the last one.
LEMMA LastRemains ==
    ASSUME NEW g, NEW in, NEW wbin, NEW f, NEW plru, NEW q, NEW how,
           Turn(g, in, wbin, f, plru, q, how), Waiting
    PROVE  /\ Len(Remaining) \in 1..Len(asked) /\ Len(Remaining) = Len(asked') - Count(in.valid)
           /\ Remaining[Len(Remaining)] = asked[Len(asked)]
           /\ Remaining[Len(Remaining)].req = r0.req
<1>1. asked \in Seq(Taken) /\ full \in BOOLEAN /\ r0.full \in BOOLEAN
  BY Typed DEF TypeOK, CacheTypeOK
<1>2. Waiting => Remaining[Len(Remaining)].req = r0.req
  BY Placed
<1>3. Len(asked') = Len(Remaining) + Count(in.valid) /\ Remaining \in Seq(Taken)
  BY Placed
<1>4. Len(asked) = Count(Completing) + Count(full) + Count(r0.full)
  BY DEF Turn, BusInv, InOrder
<1>5. r0.full /\ ~Dropped
  BY DEF Waiting
<1>6. Completing \in BOOLEAN
  BY Typed DEF Completing, DoneReg
<1>7. Remaining = IF Completing THEN Tail(asked) ELSE asked
  BY <1>5 DEF Remaining
<1>8. Len(asked) >= 1 + Count(Completing)
  BY <1>1, <1>4, <1>5, <1>6 DEF Count
<1>9. CASE Completing
  <2>1. Remaining = Tail(asked) /\ Len(asked) >= 2
    BY <1>7, <1>8, <1>9 DEF Count
  <2>2. Len(Remaining) = Len(asked) - 1 /\ Remaining[Len(asked) - 1] = asked[Len(asked)]
    BY <1>1, <2>1
  <2>3. QED
    BY <1>1, <1>2, <1>3, <2>1, <2>2 DEF Count
<1>10. CASE ~Completing
  <2>1. Remaining = asked /\ Len(asked) >= 1
    BY <1>7, <1>8, <1>10 DEF Count
  <2>2. QED
    BY <1>1, <1>2, <1>3, <2>1 DEF Count
<1>11. QED
  BY <1>6, <1>9, <1>10

\* A request behind nothing but the stores on the bus and of the machine.
LEMMA OlderMay ==
    ASSUME NEW g, NEW in, NEW wbin, NEW f, NEW plru, NEW q, NEW how,
           Turn(g, in, wbin, f, plru, q, how), NEW i \in 1..Len(Remaining), NEW req, req = Remaining[i].req,
           Has(Remaining[i].vals, req), NEW v, v = asked'[i].vals, NEW last, last = FALSE
    PROVE  /\ Snapshots(req, mem, last) \subseteq v
           /\ f.valid /\ f.adr \in Reads(req) => Snapshots(req, mem', last) \subseteq v
<1>1. Recorded(in, f, wbin)
  BY DEF Turn
<1>2. /\ Remaining[i].vals \subseteq asked'[i].vals
      /\ f.valid /\ f.adr \in Reads(Remaining[i].req) =>
           Snapshots(Remaining[i].req, mem', FALSE) \subseteq asked'[i].vals
  BY Zenon, <1>1 DEF Recorded
<1>3. Snapshots(req, mem, FALSE) \subseteq Remaining[i].vals
  BY Zenon DEF Has
<1>4. \A s \in Snapshots(req, mem, last) : s \in v
  BY Zenon, <1>2, <1>3
<1>5. f.valid /\ f.adr \in Reads(req) => Snapshots(req, mem', last) \subseteq v
  BY Zenon, <1>2
<1>6. QED
  BY Zenon, <1>4, <1>5

\* The request in stage 0 in the next cycle.
LEMMA LastMay ==
    ASSUME NEW g, NEW in, NEW wbin, NEW f, NEW plru, NEW q, NEW how,
           Turn(g, in, wbin, f, plru, q, how), r0'.full, ~done'.ls_error, NEW req, req = r0'.req, req.op = "load",
           NEW v, v = asked'[Len(asked')].vals
    PROVE  \E last : /\ Behind(last) /\ Snapshots(req, mem, last) \subseteq v
                     /\ f.valid /\ f.adr \in Reads(req) => Snapshots(req, mem', last) \subseteq v
<1>1. CASE in.valid
  <2>1. PICK last : last = TRUE
    OBVIOUS
  <2>2. ~full /\ req = in.req
    BY <1>1, Staged
  <2>3. Behind(last)
    BY <2>1, <2>2 DEF Behind
  <2>4. Recorded(in, f, wbin)
    BY DEF Turn
  <2>5. /\ Snapshots(in.req, mem, TRUE) \subseteq asked'[Len(asked')].vals
        /\ f.valid /\ f.adr \in Reads(in.req) =>
             Snapshots(in.req, mem', TRUE) \subseteq asked'[Len(asked')].vals
    BY Zenon, <1>1, <2>4 DEF Recorded
  <2>6. QED
    BY Zenon, <2>1, <2>2, <2>3, <2>5
<1>2. CASE ~in.valid
  <2>1. PICK last : last = FALSE
    OBVIOUS
  <2>2. full /\ r0.full /\ req = r0.req /\ Waiting
    BY <1>2, Staged, Typed DEF Waiting, Dropped
  <2>3. Behind(last)
    BY <2>1, <2>2 DEF Behind
  <2>4. Has(asked[Len(asked)].vals, r0.req)
    BY <2>2 DEF Turn, CoherenceInv, MayReturn, Waiting
  <2>5. PICK i : i = Len(Remaining)
    OBVIOUS
  <2>6. /\ i \in 1..Len(Remaining) /\ i = Len(asked')
        /\ Remaining[i].req = req /\ Remaining[i] = asked[Len(asked)]
    BY <1>2, <2>2, <2>5, LastRemains, Placed DEF Count
  <2>7. Has(Remaining[i].vals, req)
    BY Zenon, <2>2, <2>4, <2>6
  <2>8. v = asked'[i].vals
    BY <2>6
  <2>9. /\ Snapshots(req, mem, last) \subseteq v
        /\ f.valid /\ f.adr \in Reads(req) => Snapshots(req, mem', last) \subseteq v
    BY Zenon, <2>1, <2>6, <2>7, <2>8, OlderMay
  <2>10. QED
    BY Zenon, <2>3, <2>9
<1>3. QED
  BY <1>1, <1>2

\* All that a request reads is in its line.
LEMMA ReadsLine ==
    ASSUME NEW req \in Req, NEW a \in Reads(req)
    PROVE  a \in Adr /\ LineOf(a) = LineOf(req.adr)
<1>1. req.adr \in Adr
  BY DEF Req
<1>2. Partner(req.adr) \in Adr /\ LineOf(Partner(req.adr)) = LineOf(req.adr)
  BY <1>1, PartnerOf
<1>3. a = req.adr \/ a = Partner(req.adr)
  BY DEF Reads
<1>4. QED
  BY <1>1, <1>2, <1>3

\* A line that is being zeroed is in no way, or refilled.
LEMMA ZeroedNext ==
    ASSUME NEW g, NEW in, NEW wbin, NEW f, NEW plru, NEW q, NEW how,
           Turn(g, in, wbin, f, plru, q, how), NEW w \in Way, NEW l \in Line, InWay(w, l)', ~Refilling(l)', NEW a \in Adr, LineOf(a) = l,
           NEW m
    PROVE  NowIn(m, a)' = BusAt(a, m)'
<1>1. FillState'
  BY FillStateStep
<1>2. ~(state' = "RELOAD_WAIT_ACK" /\ LineOf(wb'.adr) = l)
  <2>1. SUFFICES ASSUME state' = "RELOAD_WAIT_ACK", LineOf(wb'.adr) = l PROVE FALSE
    OBVIOUS
  <2>2. Target' = l
    BY <1>1, <2>1 DEF FillState, LineOf
  <2>3. fill'.write_tag \/ ~fill'.reloading
    BY <2>2 DEF Refilling
  <2>4. \A v \in Way : ~InWay(v, Target)'
    BY <1>1, <2>1, <2>3 DEF FillState
  <2>5. InWay(w, Target)'
    BY <2>2 DEF InWay
  <2>6. QED
    BY <2>4, <2>5
<1>3. wb'.stb \in BOOLEAN /\ wb'.we \in BOOLEAN /\ wb'.sel \in BOOLEAN
  BY Typed DEF BusReg
<1>4. BusAt(a, m)' = IF wb'.stb /\ wb'.we /\ wb'.sel /\ wb'.adr = a THEN wb'.dat ELSE m[a]
  BY <1>2 DEF BusAt, LineOf
<1>5. NowIn(m, a)' = IF wb'.stb /\ wb'.we /\ wb'.sel /\ wb'.adr = a THEN wb'.dat ELSE m[a]
  BY NowIs
<1>6. QED
  BY Zenon, <1>4, <1>5

\* A request whose line is stored to may return what it was.
LEMMA StaleMay ==
    ASSUME NEW g, NEW in, NEW wbin, NEW f, NEW plru, NEW q, NEW how,
           Turn(g, in, wbin, f, plru, q, how), r0'.full, ~full', ~done'.ls_error, NEW req, req = r0'.req, req.op = "load",
           NEW v, v = asked'[Len(asked')].vals, f.valid,
           NEW w \in Way, NEW l \in Line, l = LineOf(req.adr), InWay(w, l)', ~Refilling(l)',
           NEW s, s = [x \in Reads(req) |-> RowVal(w, x)']
    PROVE  s \in v
<1>1. req \in Req
  <2>1. r0' \in [full : BOOLEAN, d_valid : BOOLEAN, req : Reqs, dat : Val]
    BY DEF Turn, BusInv, TypeOK, CacheTypeOK, Reqs
  <2>2. QED
    BY <2>1, ReqTypes
<1>2. PICK n : n = mem
  OBVIOUS
<1>3. ASSUME NEW x \in Reads(req)
      PROVE  s[x] \in Left0(x, n)' /\ s[x] \in Val /\ Left0(x, n)' = {s[x]}
  <2>1. x \in Adr /\ LineOf(x) = l
    BY <1>1, ReadsLine
  <2>2. RowVal(w, x)' = NowIn(n, x)'
    BY <1>2, <2>1, RowKept
  <2>3. NowIn(n, x)' = BusAt(x, n)'
    BY <2>1, ZeroedNext
  <2>4. Left0(x, n)' = {BusAt(x, n)'}
    BY Zenon DEF Left0
  <2>5. NowIn(n, x)' \in Val
    <3>1. NowIn(n, x)' = IF wb'.stb /\ wb'.we /\ wb'.sel /\ wb'.adr = x THEN wb'.dat ELSE n[x]
      BY NowIs
    <3>2. wb'.dat \in Val /\ n[x] \in Val
      BY <1>2, <2>1, Typed DEF BusReg
    <3>3. QED
      BY <3>1, <3>2
  <2>6. s[x] = RowVal(w, x)'
    BY Zenon, <1>3
  <2>7. QED
    BY Zenon, <2>2, <2>3, <2>4, <2>5, <2>6
<1>4. PICK last : Behind(last) /\ Snapshots(req, mem, last) \subseteq v
  BY LastMay
<1>5. \A x \in Reads(req) : s[x] \in Left(x, n, last)
  <2>1. ASSUME NEW x \in Reads(req) PROVE s[x] \in Left(x, n, last)
    <3>1. x \in Adr
      BY <1>1, ReadsLine
    <3>2. Left0(x, n)' \subseteq Left(x, n, last)
      BY <1>2, <1>4, <3>1, LeftStep
    <3>3. QED
      BY <1>3, <3>2
  <2>2. QED
    BY Zenon, <2>1
<1>6. s \in [Reads(req) -> Val]
  <2>1. \A x \in Reads(req) : RowVal(w, x)' \in Val
    <3>1. ASSUME NEW x \in Reads(req) PROVE RowVal(w, x)' \in Val
      <4>1. s[x] = RowVal(w, x)'
        BY Zenon
      <4>2. QED
        BY Zenon, <1>3, <4>1
    <3>2. QED
      BY Zenon, <3>1
  <2>2. QED
    BY Zenon, <2>1
<1>7. s \in Snapshots(req, n, last)
  BY Zenon, <1>5, <1>6 DEF Snapshots
<1>8. QED
  BY Zenon, <1>2, <1>4, <1>7

\* The load the machine takes or has is the oldest request, and may return what
\* the stores ahead of it leave.
LEMMA MachineHas ==
    ASSUME NEW g, NEW in, NEW wbin, NEW f, NEW plru, NEW q, NEW how,
           Turn(g, in, wbin, f, plru, q, how), full \/ Slow, q.op = "load_miss", ~q.touch, NEW req, req = asked'[1].req
    PROVE  /\ 1 \in 1..Len(Remaining) /\ req \in Req /\ req = Remaining[1].req
           /\ Has(Remaining[1].vals, req)
           /\ full \/ r0.req.op = "load"
<1>1. full \/ Goes
  BY Staged
<1>2. /\ Remaining \in Seq(Taken) /\ Len(Remaining) = 1 + Count(full /\ Waiting)
      /\ asked'[1] \in Taken /\ req = Remaining[1].req
  BY <1>1, Placed
<1>3. 1 \in 1..Len(Remaining)
  BY <1>2 DEF Count
<1>4. req \in Req
  BY <1>2, RequestsAssumption DEF Taken
<1>5. MayReturn
  BY DEF Turn, CoherenceInv
<1>6. CASE full
  <2>1. q = r1_req
    BY <1>6, Held
  <2>2. ~Completing
    BY <1>6 DEF Turn, CoherenceInv, PairKept
  <2>3. Remaining = asked
    BY <2>2 DEF Remaining
  <2>4. Count(Completing) + 1 = 1
    BY <2>2 DEF Count
  <2>5. LET e == asked[Count(Completing) + 1] IN Has(e.vals, e.req)
    BY Zenon, <1>5, <1>6, <2>1 DEF MayReturn
  <2>6. Has(asked[1].vals, asked[1].req)
    BY Zenon, <2>4, <2>5
  <2>7. QED
    BY Zenon, <1>2, <1>3, <1>4, <1>6, <2>3, <2>6
<1>7. CASE ~full
  <2>1. Goes /\ Waiting /\ q.op = ThisOp
    BY <1>1, <1>7, Placed, Fields
  <2>2. r0.req.op = "load"
    BY <2>1, Decode, Fields
  <2>3. Has(asked[Len(asked)].vals, r0.req)
    BY <1>5, <2>1, <2>2 DEF MayReturn, Waiting
  <2>4. Len(Remaining) = 1
    BY <1>2, <1>7 DEF Count
  <2>5. Remaining[1] = asked[Len(asked)] /\ req = r0.req
    BY <1>2, <2>1, <2>4, LastRemains
  <2>6. QED
    BY Zenon, <1>2, <1>3, <1>4, <2>2, <2>3, <2>5
<1>8. QED
  BY <1>6, <1>7

\* The load that the machine has after this cycle may return what is left.
LEMMA MachineMay ==
    ASSUME NEW g, NEW in, NEW wbin, NEW f, NEW plru, NEW q, NEW how,
           Turn(g, in, wbin, f, plru, q, how), full', r1_req'.op = "load_miss", ~r1_req'.touch,
           NEW k, k = Count(Completing') + 1, NEW v, v = asked'[k].vals, NEW req, req = asked'[k].req
    PROVE  Has(v, req)'
<1>1. (full \/ Slow) /\ (full \/ Goes)
  BY Served, Staged
<1>2. k = 1
  BY <1>1, Placed DEF Count
<1>3. q.op = "load_miss" /\ ~q.touch
  BY <1>1, Staged DEF SameReq
<1>4. /\ 1 \in 1..Len(Remaining) /\ req \in Req /\ req = Remaining[1].req
      /\ Has(Remaining[1].vals, req)
      /\ full \/ r0.req.op = "load"
  BY <1>1, <1>2, <1>3, MachineHas
<1>5. PICK last : last = FALSE
  OBVIOUS
<1>6. Behind(last)
  BY <1>4, <1>5 DEF Behind
<1>7. /\ Snapshots(req, mem, last) \subseteq v
      /\ f.valid /\ f.adr \in Reads(req) => Snapshots(req, mem', last) \subseteq v
  BY Zenon, <1>2, <1>4, <1>5, OlderMay
<1>8. QED
  BY Zenon, <1>4, <1>6, <1>7, HasStep

\* Every load under way may return what memory and the stores ahead leave.
LEMMA MayReturnStep ==
    ASSUME NEW g, NEW in, NEW wbin, NEW f, NEW plru, NEW q, NEW how,
           Turn(g, in, wbin, f, plru, q, how)
    PROVE  MayReturn'
<1>1. PICK req : req = r0'.req
  OBVIOUS
<1>2. PICK v : v = asked'[Len(asked')].vals
  OBVIOUS
<1>3. req \in Req /\ LineOf(req.adr) \in Line
  <2>1. r0' \in [full : BOOLEAN, d_valid : BOOLEAN, req : Reqs, dat : Val]
    BY DEF Turn, BusInv, TypeOK, CacheTypeOK, Reqs
  <2>2. req \in Req
    BY <1>1, <2>1, ReqTypes
  <2>3. QED
    BY <2>2 DEF Req, Adr, LineOf, Line
<1>4. r0'.full /\ ~Dropped' => ~done'.ls_error
  BY DEF Dropped
<1>5. ASSUME r0'.full, ~Dropped', req.op = "load" PROVE Has(v, req)'
  <2>1. PICK last : /\ Behind(last) /\ Snapshots(req, mem, last) \subseteq v
                    /\ f.valid /\ f.adr \in Reads(req) => Snapshots(req, mem', last) \subseteq v
    BY <1>1, <1>2, <1>4, <1>5, LastMay
  <2>2. QED
    BY Zenon, <1>3, <2>1, HasStep
<1>6. ASSUME full', r1_req'.op = "load_miss", ~r1_req'.touch,
             NEW k, k = Count(Completing') + 1
      PROVE  Has(asked[k].vals, asked[k].req)'
  <2>1. PICK u : u = asked'[k].vals
    OBVIOUS
  <2>2. PICK p : p = asked'[k].req
    OBVIOUS
  <2>3. Has(u, p)'
    BY <1>6, <2>1, <2>2, MachineMay
  <2>4. QED
    BY Zenon, <2>1, <2>2, <2>3 DEF Has, Snapshots
<1>7. ASSUME r0'.full, ~full', ~Dropped', req.op = "load", Stale(LineOf(req.adr))',
             NEW w \in Way, InWay(w, LineOf(req.adr))', ~Refilling(LineOf(req.adr))'
      PROVE  [x \in Reads(req) |-> RowVal(w, x)'] \in v
  <2>1. PICK s : s = [x \in Reads(req) |-> RowVal(w, x)']
    OBVIOUS
  <2>2. PICK l \in Line : l = LineOf(req.adr)
    BY <1>3
  <2>3. InWay(w, l)' /\ ~Refilling(l)'
    BY <1>7, <2>2 DEF InWay, Refilling, LineOf
  <2>4. f.valid
    BY <1>7, Memory DEF Stale
  <2>5. s \in v
    BY <1>1, <1>2, <1>4, <1>7, <2>1, <2>2, <2>3, <2>4, StaleMay
  <2>6. QED
    BY Zenon, <2>1, <2>5
<1>8. r0'.full /\ ~Dropped' /\ r0'.req.op = "load" => Has(asked[Len(asked)].vals, r0.req)'
  BY Zenon, <1>1, <1>2, <1>5 DEF Has, Snapshots
<1>9. full' /\ r1_req'.op = "load_miss" /\ ~r1_req'.touch =>
        (LET e == asked[Count(Completing) + 1] IN Has(e.vals, e.req))'
  <2>1. PICK k : k = Count(Completing') + 1
    OBVIOUS
  <2>2. full' /\ r1_req'.op = "load_miss" /\ ~r1_req'.touch => Has(asked[k].vals, asked[k].req)'
    BY Zenon, <1>6, <2>1
  <2>3. k = (Count(Completing) + 1)'
    BY <2>1 DEF Count
  <2>4. QED
    BY Zenon, <2>2, <2>3 DEF Has, Snapshots
<1>10. r0'.full /\ ~full' /\ ~Dropped' /\ r0'.req.op = "load" /\ Stale(LineOf(r0.req.adr))' =>
         \A w \in Way :
            (InWay(w, LineOf(r0.req.adr)) /\ ~Refilling(LineOf(r0.req.adr)))' =>
              [x \in Reads(r0'.req) |-> RowVal(w, x)'] \in asked'[Len(asked')].vals
  <2>1. \A w \in Way : InWay(w, LineOf(r0.req.adr))' <=> InWay(w, LineOf(req.adr))'
    BY <1>1 DEF InWay, LineOf
  <2>2. Refilling(LineOf(r0.req.adr))' <=> Refilling(LineOf(req.adr))'
    BY <1>1 DEF Refilling, LineOf
  <2>3. Stale(LineOf(r0.req.adr))' <=> Stale(LineOf(req.adr))'
    BY <1>1 DEF Stale, LineOf
  <2>4. QED
    BY Zenon, <1>1, <1>2, <1>7, <2>1, <2>2, <2>3
<1>11. QED
  BY Zenon, <1>8, <1>9, <1>10 DEF MayReturn

------------------------------------------------------------------------------
\* What loads return.

\* What the second half of a quadword load reads may be returned.
LEMMA RestKept ==
    ASSUME NEW g, NEW in, NEW wbin, NEW f, NEW plru, NEW q, NEW how,
           Turn(g, in, wbin, f, plru, q, how), Parted, ~full, NEW w \in Way, prev_ways = {w}
    PROVE  SecondVal(w) \in halved'.rest
<1> DEFINE halves == IF done.ls_valid THEN HalvedNext(asked[1]) ELSE halved
<1>1. halves.rest \subseteq halved'.rest
  <2>1. Recorded(in, f, wbin)
    BY DEF Turn
  <2>2. QED
    BY Zenon, <2>1 DEF Recorded
<1>2. /\ Completing => FirstDone /\ Second = Partner(asked[1].req.adr)
      /\ IF FirstDone
         THEN \E s \in asked[1].vals : s[asked[1].req.adr] = data_out /\ s[Second] = SecondVal(w)
         ELSE SecondVal(w) \in halved.rest
  BY DEF Turn, CoherenceInv, PairKept, PairReads
<1>3. CASE FirstDone
  <2>1. PICK s \in asked[1].vals : s[asked[1].req.adr] = data_out /\ s[Second] = SecondVal(w)
    BY <1>2, <1>3
  <2>2. /\ done.ls_valid /\ asked[1].req.op = "load" /\ asked[1].req.half = "first" /\ ~asked[1].req.nc
        /\ Completing
    BY <1>3 DEF FirstDone, Completing
  <2>3. halves.rest = {v[Partner(asked[1].req.adr)] :
                         v \in {u \in asked[1].vals : u[asked[1].req.adr] = data_out}}
    BY <2>2 DEF HalvedNext
  <2>4. s[Partner(asked[1].req.adr)] = SecondVal(w)
    BY <1>2, <2>1, <2>2
  <2>5. SecondVal(w) \in halves.rest
    BY Zenon, <2>1, <2>3, <2>4
  <2>6. QED
    BY Zenon, <1>1, <2>5
<1>4. CASE ~FirstDone
  <2>1. halves = halved
    BY <1>2, <1>4 DEF Completing
  <2>2. QED
    BY Zenon, <1>1, <1>2, <1>4, <2>1
<1>5. QED
  BY <1>3, <1>4

\* A load that hits returns the row of its way.
LEMMA HitData ==
    ASSUME NEW g, NEW in, NEW wbin, NEW f, NEW plru, NEW q, NEW how,
           Turn(g, in, wbin, f, plru, q, how), ThisOp = "load_hit"
    PROVE  data_out' = RowVal(Way0, r0.req.adr)
<1>1. Goes
  BY Finished
<1>2. Hit0 /\ Ways0 = {Way0} /\ Way0 \in Way
  BY <1>1, Decode, Hits
<1>3. data_out' = DataOut(FALSE, wbin)
  BY DEF Turn, Clocked
<1>4. data_out' = IF \E w \in Ways0 : CacheOut(w) = 1 THEN 1 ELSE 0
  BY Zenon, <1>2, <1>3 DEF DataOut, Hit0, Ways0
<1>5. CacheOut(Way0) = RowVal(Way0, r0.req.adr)
  <2>1. ReadRow(Way0) = ram[Way0][r0.req.adr.index][r0.req.adr.row]
    BY <1>1, <1>2, Fields DEF Turn, CoherenceInv, StageRead
  <2>2. write_bram => line.ways = {line.way}
    BY DEF Turn, CoherenceInv, WritesStore
  <2>3. QED
    BY <2>1, <2>2 DEF CacheOut, RowVal, ReadRow
<1>6. RowVal(Way0, r0.req.adr) \in {0, 1}
  <2>1. r1_req.dat \in {0, 1}
    BY Typed DEF SlowReq, Val
  <2>2. ram[Way0][r0.req.adr.index][r0.req.adr.row] \in {0, 1}
    <3>1. r0.req.adr \in Adr
      BY Typed, Request0
    <3>2. r0.req.adr.index \in Index /\ r0.req.adr.row \in Row
      BY <3>1, Typed, Records
    <3>3. ram[Way0][r0.req.adr.index][r0.req.adr.row] \in Val
      BY <1>2, <3>2, Typed
    <3>4. QED
      BY <3>3 DEF Val
  <2>3. QED
    BY <2>1, <2>2 DEF RowVal
<1>7. QED
  BY <1>2, <1>4, <1>5, <1>6

\* The row of a way that a load in stage 0 hits is there.
LEMMA HitThere ==
    ASSUME NEW g, NEW in, NEW wbin, NEW f, NEW plru, NEW q, NEW how,
           Turn(g, in, wbin, f, plru, q, how), ThisOp = "load_hit", r0.req.op = "load", ~Second0, NEW x \in Reads(r0.req)
    PROVE  /\ Way0 \in Way /\ InWay(Way0, Line0) /\ x \in Adr /\ LineOf(x) = Line0
           /\ Refilling(Line0) => x.row \in line.rows_valid
<1>1. Goes /\ r0.req \in Req /\ r0.req.adr \in Adr /\ r0.full
  BY Finished, Fields, Typed, Request0
<1>2. Hit0 /\ Ways0 = {Way0} /\ Way0 \in Way
  BY <1>1, Decode, Hits
<1>3. InWay(Way0, Line0)
  BY <1>1, <1>2, Hits
<1>4. x \in Adr /\ LineOf(x) = Line0
  BY <1>1, ReadsLine DEF Line0
<1>5. Refilling(Line0) => r0.req.adr.row \in line.rows_valid
  BY <1>1, <1>2, Hits
<1>6. CASE r0.req.half = "first"
  <2>1. state # "RELOAD_WAIT_ACK"
    BY <1>1, <1>6 DEF Turn, CoherenceInv, AtOnce
  <2>2. ~Refilling(Line0)
    BY <2>1 DEF Turn, CoherenceInv, FillState, Refilling
  <2>3. QED
    BY <1>2, <1>3, <1>4, <2>2
<1>7. CASE r0.req.half # "first"
  <2>1. x = r0.req.adr
    BY <1>7 DEF Reads
  <2>2. QED
    BY <1>2, <1>3, <1>4, <1>5, <2>1
<1>8. QED
  BY <1>6, <1>7

\* What a load that hits reads may be returned.
LEMMA HitSnapshot ==
    ASSUME NEW g, NEW in, NEW wbin, NEW f, NEW plru, NEW q, NEW how,
           Turn(g, in, wbin, f, plru, q, how), ThisOp = "load_hit", r0.req.op = "load", ~Second0,
           NEW s, s = [x \in Reads(r0.req) |-> RowVal(Way0, x)]
    PROVE  s \in asked[Len(asked)].vals
<1>1. Goes /\ r0.req \in Req /\ r0.req.adr \in Adr /\ r0.full /\ ~full /\ Waiting /\ ~Dropped
  BY Finished, Fields, Typed, Request0, Placed DEF Waiting
<1>2. PICK req : req = r0.req
  OBVIOUS
<1>3. MayReturn
  BY DEF Turn, CoherenceInv
<1>4. \A x \in Reads(req) :
        /\ Way0 \in Way /\ InWay(Way0, Line0) /\ x \in Adr /\ LineOf(x) = Line0
        /\ Refilling(Line0) => x.row \in line.rows_valid
  BY <1>2, HitThere
<1>5. Reads(req) # {}
  <2>1. r0.req.adr \in Reads(req)
    BY <1>2 DEF Reads, Second0
  <2>2. QED
    BY <2>1
<1>6. CASE Stale(Line0)
  <2>1. ~Refilling(Line0)
    <3>1. line.rows_valid # {} /\ state = "RELOAD_WAIT_ACK" => ~snoop.valid
      BY DEF Turn, CoherenceInv, FillState
    <3>2. fill.reloading => state = "RELOAD_WAIT_ACK"
      BY DEF Turn, CoherenceInv, FillState
    <3>3. QED
      BY <1>4, <1>5, <1>6, <3>1, <3>2 DEF Stale, Refilling
  <2>2. /\ Stale(LineOf(req.adr)) /\ ~Refilling(LineOf(req.adr)) /\ InWay(Way0, LineOf(req.adr))
        /\ Way0 \in Way
    BY Zenon, <1>2, <1>4, <1>5, <1>6, <2>1 DEF Line0
  <2>3. [x \in Reads(req) |-> RowVal(Way0, x)] \in asked[Len(asked)].vals
    BY Zenon, <1>1, <1>2, <1>3, <2>2 DEF MayReturn
  <2>4. QED
    BY Zenon, <1>2, <2>3
<1>7. CASE ~Stale(Line0)
  <2>1. Has(asked[Len(asked)].vals, req)
    BY Zenon, <1>1, <1>2, <1>3 DEF MayReturn
  <2>2. ASSUME NEW x \in Reads(req)
        PROVE  s[x] \in Val /\ s[x] \in Left(x, mem, FALSE)
    <3>1. s[x] = RowVal(Way0, x)
      BY Zenon, <1>2
    <3>2. RowVal(Way0, x) = Now(x)
      BY <1>4, <1>7 DEF Turn, CoherenceInv, Backed
    <3>3. Now(x) = IF wb.stb /\ wb.we /\ wb.sel /\ wb.adr = x THEN wb.dat ELSE mem[x]
      BY NowAt
    <3>4. ~(state = "RELOAD_WAIT_ACK" /\ fill.dcbz /\ LineOf(wb.adr) = LineOf(x))
      <4>1. state = "RELOAD_WAIT_ACK" => LineOf(wb.adr) = Target
        BY DEF Turn, CoherenceInv, FillState
      <4>2. state = "RELOAD_WAIT_ACK" /\ fill.dcbz => Line0 # Target
        BY <1>1 DEF Turn, CoherenceInv, Zeroes, Line0
      <4>3. LineOf(x) = Line0
        BY <1>4
      <4>4. QED
        BY <4>1, <4>2, <4>3
    <3>5. PICK m : m = mem
      OBVIOUS
    <3>6. BusAt(x, m) = Now(x)
      BY <3>3, <3>4, <3>5 DEF BusAt
    <3>7. Left0(x, m) = {Now(x)}
      BY <1>1, <3>6 DEF Left0
    <3>8. Left(x, m, FALSE) = Left0(x, m)
      BY Zenon, LeftOf
    <3>9. Now(x) \in Val
      <4>1. wb.dat \in Val /\ mem[x] \in Val
        BY <1>4, Typed DEF BusReg
      <4>2. QED
        BY <3>3, <4>1
    <3>10. s[x] \in Left0(x, m)
      BY <3>1, <3>2, <3>7
    <3>11. QED
      BY Zenon, <3>1, <3>2, <3>5, <3>8, <3>9, <3>10
  <2>3. s \in [Reads(req) -> Val]
    <3>1. \A x \in Reads(req) : RowVal(Way0, x) \in Val
      <4>1. ASSUME NEW x \in Reads(req) PROVE RowVal(Way0, x) \in Val
        <5>1. s[x] = RowVal(Way0, x)
          BY Zenon, <1>2
        <5>2. QED
          BY Zenon, <2>2, <5>1
      <4>2. QED
        BY Zenon, <4>1
    <3>2. QED
      BY Zenon, <1>2, <3>1
  <2>4. s \in Snapshots(req, mem, FALSE)
    BY Zenon, <2>2, <2>3 DEF Snapshots
  <2>5. QED
    BY Zenon, <2>1, <2>4 DEF Has
<1>8. QED
  BY <1>6, <1>7

\* The first half of a quadword load that hits.
LEMMA FirstReads ==
    ASSUME NEW g, NEW in, NEW wbin, NEW f, NEW plru, NEW q, NEW how,
           Turn(g, in, wbin, f, plru, q, how), Begins("load"), ~r0.req.nc, ~full', NEW w \in Way, prev_ways' = {w},
           NEW b, b = Partner(r0.req.adr)
    PROVE  /\ FirstDone' /\ asked'[1].req.adr = r0.req.adr
           /\ \E s \in asked'[1].vals : s[r0.req.adr] = data_out' /\ s[b] = RowVal(w, b)'
           /\ state' \in {"IDLE", "STORE_WAIT_ACK"}
<1>1. /\ state \in {"IDLE", "STORE_WAIT_ACK"} /\ ~r0.req.mmu /\ ThisOp = "load_hit" /\ ~Slow /\ ~full
      /\ Goes /\ r0.req.half = "first" /\ r0.req.op = "load" /\ state' \in {"IDLE", "STORE_WAIT_ACK"}
  BY LoadBegins DEF Begins
<1>2. done'.ls_valid /\ asked'[1].req = r0.req /\ ~Second0
  BY <1>1, Finished, Placed DEF Second0
<1>3. FirstDone'
  BY <1>1, <1>2 DEF FirstDone
<1>4. w = Way0
  <2>1. Ways0 = {Way0} /\ prev_ways' = Ways0
    BY <1>1, Decode, PrevStep
  <2>2. QED
    BY <2>1
<1>5. Reads(r0.req) = {r0.req.adr, b}
  BY <1>1 DEF Reads
<1>6. /\ InWay(w, LineOf(b)) /\ b \in Adr
      /\ Refilling(LineOf(b)) => b.row \in line.rows_valid
  BY <1>1, <1>2, <1>4, <1>5, HitThere
<1>7. RowVal(w, b)' = RowVal(w, b)
  <2>1. ~write_bram'
    BY <1>1, Kinds DEF Fills, Stores, Quiet, Reloads
  <2>2. QED
    BY <1>6, <2>1, ThereNotArriving, RowStays
<1>8. PICK s : s = [x \in Reads(r0.req) |-> RowVal(Way0, x)]
  OBVIOUS
<1>9. s \in asked'[1].vals
  <2>1. s \in asked[Len(asked)].vals
    BY <1>1, <1>2, <1>8, HitSnapshot
  <2>2. Len(Remaining) = 1 /\ Waiting
    BY <1>1, Placed DEF Count
  <2>3. Remaining[1] = asked[Len(asked)]
    BY <2>2, LastRemains
  <2>4. Recorded(in, f, wbin)
    BY DEF Turn
  <2>5. 1 \in 1..Len(Remaining)
    BY <2>2
  <2>6. Remaining[1].vals \subseteq asked'[1].vals
    BY Zenon, <2>4, <2>5 DEF Recorded
  <2>7. QED
    BY Zenon, <2>1, <2>3, <2>6
<1>10. s[r0.req.adr] = data_out'
  <2>1. data_out' = RowVal(Way0, r0.req.adr)
    BY <1>1, HitData
  <2>2. QED
    BY <1>5, <1>8, <2>1
<1>11. s[b] = RowVal(w, b)'
  BY <1>4, <1>5, <1>7, <1>8
<1>12. QED
  BY Zenon, <1>1, <1>2, <1>3, <1>9, <1>10, <1>11

\* While a line is refilled for the first half, memory keeps its rows.
LEMMA MemStays ==
    ASSUME NEW g, NEW in, NEW wbin, NEW f, NEW plru, NEW q, NEW how,
           Turn(g, in, wbin, f, plru, q, how), state = "RELOAD_WAIT_ACK", ~fill.dcbz, mine \/ wbin.ack, NEW a \in Adr
    PROVE  mem'[a] = mem[a]
<1>1. ~wb.we /\ wb.we \in BOOLEAN
  BY Typed DEF Turn, CoherenceInv, FillState, BusReg
<1>2. ~f.valid
  <2>1. wbin.ack => Reloads(q, plru, wbin)
    BY Kinds DEF Fills, Stores, Quiet
  <2>2. wbin.ack => g
    BY <2>1, Progress
  <2>3. QED
    BY <2>2, Memory
<1>3. QED
  BY <1>1, <1>2, MemAt DEF Stored

\* A load the machine waits for may return what is in memory, with the row
\* after it.
LEMMA MissSnapshot ==
    ASSUME NEW g, NEW in, NEW wbin, NEW f, NEW plru, NEW q, NEW how,
           Turn(g, in, wbin, f, plru, q, how), full \/ Slow, q.op = "load_miss", ~q.touch,
           \/ state = "RELOAD_WAIT_ACK" /\ ~fill.dcbz
           \/ state = "NC_LOAD_WAIT_ACK",
           NEW s, s = [x \in Reads(asked'[1].req) |-> mem[x]]
    PROVE  s \in asked'[1].vals
<1>1. PICK req : req = asked'[1].req
  OBVIOUS
<1>2. /\ 1 \in 1..Len(Remaining) /\ req \in Req /\ Has(Remaining[1].vals, req)
  BY <1>1, MachineHas
<1>3. Reads(req) \subseteq Adr
  BY <1>2, ReadsType
<1>4. ~wb.we
  BY Typed DEF Turn, CoherenceInv, FillState, AnswersHold, BusReg
<1>5. ASSUME NEW x \in Reads(req)
      PROVE  s[x] \in Val /\ s[x] \in Left(x, mem, FALSE)
  <2>1. PICK m : m = mem
    OBVIOUS
  <2>2. s[x] = m[x] /\ s[x] \in Val
    BY <1>1, <1>3, <2>1, MemAt
  <2>3. BusAt(x, m) = m[x]
    BY <1>4 DEF BusAt
  <2>4. full => r1_req.op # "store"
    BY Held
  <2>5. Left0(x, m) = {m[x]}
    BY <2>3, <2>4 DEF Left0, Leaves
  <2>6. Left(x, m, FALSE) = Left0(x, m)
    BY Zenon, LeftOf
  <2>7. s[x] \in Left0(x, m)
    BY <2>2, <2>5
  <2>8. QED
    BY Zenon, <2>1, <2>2, <2>6, <2>7
<1>6. s \in [Reads(req) -> Val]
  <2>1. \A x \in Reads(req) : mem[x] \in Val
    BY <1>3, MemAt
  <2>2. QED
    BY Zenon, <1>1, <2>1
<1>7. s \in Snapshots(req, mem, FALSE)
  BY Zenon, <1>5, <1>6 DEF Snapshots
<1>8. s \in Remaining[1].vals
  BY Zenon, <1>2, <1>7 DEF Has
<1>9. Recorded(in, f, wbin)
  BY DEF Turn
<1>10. Remaining[1].vals \subseteq asked'[1].vals
  BY Zenon, <1>2, <1>9 DEF Recorded
<1>11. QED
  BY Zenon, <1>8, <1>10

\* The first half of a quadword load takes the first row of its line, and the
\* second reads the next one.
LEMMA FirstArrived ==
    ASSUME NEW g, NEW in, NEW wbin, NEW f, NEW plru, NEW q, NEW how,
           Turn(g, in, wbin, f, plru, q, how), Parted, full, ~full', NEW w \in Way, prev_ways' = {w}, NEW b, b = Second
    PROVE  /\ FirstDone'
           /\ \E s \in asked'[1].vals : s[asked'[1].req.adr] = data_out' /\ s[b] = mem'[b]
           /\ state' = "RELOAD_WAIT_ACK" /\ b.row \notin line'.rows_valid
<1>1. /\ state = "RELOAD_WAIT_ACK" /\ q = r1_req /\ Arrives(q, wbin) /\ wbin.ack
      /\ ~fill.dcbz /\ LineOf(Second) = Target /\ Second = Partner(r1_req.adr)
      /\ line.rows_valid = {} /\ line.row.row = r1_req.adr.row
      /\ r1_req.op = "load_miss" /\ ~r1_req.touch
      /\ asked'[1].req.op = "load" /\ asked'[1].req.half = "first" /\ ~asked'[1].req.nc
      /\ asked'[1].req.adr = r1_req.adr /\ done'.ls_valid
  BY FirstArrives
<1>2. PICK a \in Adr : a = r1_req.adr
  BY Typed DEF SlowReq
<1>3. b \in Adr /\ LineOf(b) = LineOf(a) /\ b # a /\ b = Partner(a)
  BY <1>1, <1>2, PartnerOf
<1>4. FirstDone'
  BY <1>1 DEF FirstDone
<1>5. Reads(asked'[1].req) = {a, b}
  BY <1>1, <1>2, <1>3 DEF Reads
<1>6. PICK s : s = [x \in Reads(asked'[1].req) |-> mem[x]]
  OBVIOUS
<1>7. s \in asked'[1].vals
  BY <1>1, <1>6, MissSnapshot
<1>8. Reloads(q, plru, wbin)
  BY <1>1, Kinds DEF Fills, Stores, Quiet
<1>9. a.row = line.row.row /\ a.row \in Row /\ b.row \in Row /\ a = TargetRow(a.row) /\ a.row # b.row
  BY <1>1, <1>2, <1>3, Typed, Records
<1>10. data_out' = mem[a]
  <2>1. wbin.dat = mem[TargetRow(a.row)]
    BY <1>1, <1>8, <1>9, RowArrives
  <2>2. ~Goes
    BY Staged, Typed
  <2>3. data_out' = DataOut(FALSE, wbin)
    BY DEF Turn, Clocked
  <2>4. ~IsHit(FALSE)
    BY Zenon, <2>2 DEF IsHit, Goes
  <2>5. QED
    BY Zenon, <1>9, <2>1, <2>3, <2>4 DEF DataOut
<1>11. mem'[b] = mem[b]
  BY <1>1, <1>3, MemStays
<1>12. ~Come(b.row) /\ ~LastAck(wbin)
  <2>1. line.rows_valid = {r \in Row : Come(r)}
    BY <1>1 DEF Turn, CoherenceInv, FillState
  <2>2. ~Come(b.row)
    BY <1>1, <1>9, <2>1
  <2>3. QED
    BY <1>8, <1>9, <2>2, Progress
<1>13. state' = "RELOAD_WAIT_ACK" /\ b.row \notin line'.rows_valid
  <2>1. state' = "RELOAD_WAIT_ACK"
    BY <1>1, <1>8, <1>12 DEF Reloads
  <2>2. line'.rows_valid = {line.row.row}
    BY <1>1, <1>8, Strobes
  <2>3. QED
    BY <1>9, <2>1, <2>2
<1>14. s[a] = data_out' /\ s[b] = mem'[b]
  BY <1>5, <1>6, <1>10, <1>11
<1>15. QED
  BY Zenon, <1>1, <1>2, <1>4, <1>7, <1>13, <1>14

\* While nothing completes, the second half is to read what it was.
LEMMA SecondKept ==
    ASSUME NEW g, NEW in, NEW wbin, NEW f, NEW plru, NEW q, NEW how,
           Turn(g, in, wbin, f, plru, q, how), Parted, ~full, ~r0.full, NEW w \in Way, prev_ways = {w}, NEW b, b = Second
    PROVE  /\ prev_ways' = {w}
           /\ SecondVal(w) = IF state' = "RELOAD_WAIT_ACK" /\ b.row \notin line'.rows_valid THEN mem'[b]
                             ELSE RowVal(w, b)'
<1>1. b \in Adr /\ Open("load")
  <2>1. r0.req.adr \in Adr
    BY Typed, Request0
  <2>2. QED
    BY <2>1, PartnerOf DEF Second, Parted
<1>2. ~Goes /\ ~Slow
  BY Staged
<1>3. /\ \A v \in Way : InWay(v, LineOf(b)) => v = w
      /\ state = "RELOAD_WAIT_ACK" =>
           /\ LineOf(b) = Target /\ ~fill.dcbz /\ prev_ways = {line.way}
           /\ ~fill.write_tag /\ line.rows_valid # {}
  <2>1. PairKept
    BY DEF Turn, CoherenceInv
  <2>2. PICK u \in Way : prev_ways = {u} /\ \A v \in Way : InWay(v, LineOf(Second)) => v = u
    BY <2>1 DEF PairKept
  <2>3. u = w
    BY <2>2
  <2>4. state = "RELOAD_WAIT_ACK" =>
           /\ LineOf(Second) = Target /\ ~fill.dcbz /\ (~fill.write_tag => prev_ways = {line.way})
           /\ ~fill.write_tag /\ line.rows_valid # {}
    BY <2>1 DEF PairKept
  <2>5. QED
    BY Zenon, <2>2, <2>3, <2>4
<1>4. ~write_bram'
  BY <1>2, Kinds DEF Fills, Stores, Quiet, Reloads
<1>5. SecondVal(w) = IF state = "RELOAD_WAIT_ACK" /\ b.row \notin line.rows_valid THEN mem[b]
                     ELSE RowVal(w, b)
  BY DEF SecondVal
<1>6. ~Arriving(wbin, w, b) => RowVal(w, b)' = RowVal(w, b)
  BY <1>1, <1>4, RowStays
<1>7. CASE state # "RELOAD_WAIT_ACK"
  <2>1. state' # "RELOAD_WAIT_ACK"
    BY <1>2, <1>7, NothingAsked
  <2>2. ~fill.reloading
    BY <1>7 DEF Turn, CoherenceInv, FillState
  <2>3. prev_ways' = {w}
    BY <1>2, <1>7, PrevStep
  <2>4. QED
    BY <1>5, <1>6, <1>7, <2>1, <2>2, <2>3 DEF Arriving
<1>8. CASE state = "RELOAD_WAIT_ACK"
  <2>1. /\ Reloads(q, plru, wbin) /\ fill.reloading /\ line.ways = {line.way} /\ w = line.way
        /\ line.rows_valid = {r \in Row : Come(r)} /\ mine
    BY <1>3, <1>8, Kinds DEF Turn, CoherenceInv, FillState, Fills, Stores, Quiet
  <2>2. prev_ways' = {w}
    BY <1>2, <1>3, <1>8, <2>1, PrevStep
  <2>3. PICK r \in Row : r = line.row.row
    BY Typed, Records
  <2>4. /\ b.row \in Row /\ b = TargetRow(b.row) /\ b.index = line.index /\ line.row.index = line.index
        /\ (Arriving(wbin, w, b) <=> wbin.ack /\ b.row = r)
    <3>1. b.row \in Row /\ b = TargetRow(b.row) /\ LineOf(b).index = b.index /\ Target.index = line.index
          /\ (line.row = RowOf(b) <=> line.row.index = b.index /\ line.row.row = b.row)
      BY <1>1, <1>3, <1>8, Typed, Records
    <3>2. line.row.index = line.index
      BY <1>8 DEF Turn, CoherenceInv, FillState
    <3>3. QED
      BY <1>3, <1>8, <2>1, <2>3, <3>1, <3>2 DEF Arriving
  <2>5. /\ line'.rows_valid = IF wbin.ack THEN line.rows_valid \cup {r} ELSE line.rows_valid
        /\ state' = IF LastAck(wbin) THEN "IDLE" ELSE "RELOAD_WAIT_ACK"
    <3>1. line'.rows_valid = IF wbin.ack THEN line.rows_valid \cup {line.row.row} ELSE line.rows_valid
      BY <2>1, Strobes
    <3>2. state' = IF LastAck(wbin) THEN "IDLE" ELSE state
      BY <2>1 DEF Reloads
    <3>3. QED
      BY Zenon, <1>8, <2>3, <3>1, <3>2
  <2>6. CASE b.row \in line.rows_valid
    <3>1. ~Arriving(wbin, w, b)
      <4>1. wbin.ack => ~Come(r)
        BY <2>1, <2>3, RowArrives
      <4>2. QED
        BY <2>1, <2>4, <2>6, <4>1
    <3>2. QED
      BY <1>5, <1>6, <2>2, <2>5, <2>6, <3>1
  <2>7. CASE b.row \notin line.rows_valid /\ wbin.ack /\ b.row = r
    <3>1. wbin.dat = mem[b]
      BY <1>3, <1>8, <2>1, <2>3, <2>4, <2>7, RowArrives
    <3>2. ram'[w][b.index][b.row] = mem[b]
      BY <1>1, <1>3, <1>8, <2>4, <2>7, <3>1, RamKeeps
    <3>3. RowVal(w, b)' = mem[b]
      BY <1>4, <3>2 DEF RowVal
    <3>4. QED
      BY <1>5, <1>8, <2>2, <2>5, <2>7, <3>3
  <2>8. CASE b.row \notin line.rows_valid /\ ~(wbin.ack /\ b.row = r)
    <3>1. ~LastAck(wbin)
      <4>1. ~Come(b.row)
        BY <2>1, <2>4, <2>8
      <4>2. LastAck(wbin) => wbin.ack
        BY DEF LastAck
      <4>3. QED
        BY <2>1, <2>3, <2>4, <2>8, <4>1, <4>2, Progress
    <3>2. mem'[b] = mem[b]
      BY <1>1, <1>3, <1>8, <2>1, MemStays
    <3>3. QED
      BY <1>5, <1>8, <2>2, <2>5, <2>8, <3>1, <3>2
  <2>9. QED
    BY <2>6, <2>7, <2>8
<1>9. QED
  BY <1>7, <1>8

\* The second half that waits for its row may return what is in memory.
LEMMA SecondArrives ==
    ASSUME NEW g, NEW in, NEW wbin, NEW f, NEW plru, NEW q, NEW how,
           Turn(g, in, wbin, f, plru, q, how), full \/ Slow, state = "RELOAD_WAIT_ACK", q.reload, q.op = "load_miss",
           ~q.first, ~q.nc
    PROVE  mem[q.adr] \in halved'.rest /\ line.rows_valid # {}
<1>1. /\ q.adr \in Adr /\ LineOf(q.adr) = Target /\ ~Come(q.adr.row) /\ q.adr.row \in Row
      /\ line.rows_valid = {r \in Row : Come(r)}
  <2>1. q.adr \in Adr /\ LineOf(q.adr) = Target /\ ~Come(q.adr.row)
    BY Awaited
  <2>2. q.adr.row \in Row
    BY <2>1, Typed, Records
  <2>3. QED
    BY <2>1, <2>2 DEF Turn, CoherenceInv, FillState
<1>2. CASE full
  <2>1. Halving /\ q = r1_req
    BY <1>2, Held DEF Halving
  <2>2. mem[r1_req.adr] \in halved.rest /\ line.rows_valid # {}
    BY <2>1 DEF Turn, CoherenceInv, PairReads, PairKept
  <2>3. ~done.ls_valid
    BY <1>2 DEF Turn, CoherenceInv, PairKept, Completing
  <2>4. halved.rest \subseteq halved'.rest
    <3>1. Recorded(in, f, wbin)
      BY DEF Turn
    <3>2. LET halves == IF done.ls_valid THEN HalvedNext(asked[1]) ELSE halved
          IN halves.rest \subseteq halved'.rest
      BY Zenon, <3>1 DEF Recorded
    <3>3. QED
      BY <2>3, <3>2
  <2>5. QED
    BY <2>1, <2>2, <2>4
<1>3. CASE ~full
  <2>1. Parted /\ Goes /\ line.rows_valid # {}
    BY <1>3, SecondAwaits
  <2>2. PICK w \in Way : prev_ways = {w}
    BY <1>3, <2>1 DEF Turn, CoherenceInv, PairKept
  <2>3. SecondVal(w) \in halved'.rest
    BY <1>3, <2>1, <2>2, RestKept
  <2>4. Second = q.adr
    <3>1. q.adr = r0.req.adr /\ r0.full
      BY <2>1, Fields
    <3>2. r0.req.half = "second"
      BY <2>1, <3>1 DEF Parted, Open
    <3>3. QED
      BY <3>1, <3>2 DEF Second
  <2>5. SecondVal(w) = mem[q.adr]
    BY <1>1, <2>4 DEF SecondVal
  <2>6. QED
    BY <2>1, <2>3, <2>5
<1>4. QED
  BY <1>2, <1>3

\* The halves of a quadword load are of one time.
LEMMA PairReadsStep ==
    ASSUME NEW g, NEW in, NEW wbin, NEW f, NEW plru, NEW q, NEW how,
           Turn(g, in, wbin, f, plru, q, how)
    PROVE  PairReads'
<1>1. ASSUME Parted', ~full', NEW w \in Way, prev_ways' = {w}
      PROVE  IF FirstDone'
             THEN \E s \in asked'[1].vals : s[asked'[1].req.adr] = data_out' /\ s[Second'] = SecondVal(w)'
             ELSE SecondVal(w)' \in halved'.rest
  <2>1. PICK b : b = Second'
    OBVIOUS
  <2>2. SecondVal(w)' = IF state' = "RELOAD_WAIT_ACK" /\ b.row \notin line'.rows_valid THEN mem'[b]
                        ELSE RowVal(w, b)'
    BY <2>1 DEF SecondVal, RowVal, RowOf
  <2>3. /\ Open("load")' /\ ~r0'.req.nc
    BY <1>1 DEF Parted
  <2>4. /\ Begins("load") \/ Stands("load")
        /\ ~r0.req.nc
        /\ Begins("load") => Second' = Partner(r0.req.adr)
        /\ Stands("load") => Second' = Second /\ ~Goes
    BY <2>3, OpenStep
  <2>5. CASE Begins("load")
    <3>1. /\ FirstDone' /\ asked'[1].req.adr = r0.req.adr
          /\ \E s \in asked'[1].vals : s[r0.req.adr] = data_out' /\ s[b] = RowVal(w, b)'
          /\ state' \in {"IDLE", "STORE_WAIT_ACK"}
      BY <1>1, <2>1, <2>4, <2>5, FirstReads
    <3>2. SecondVal(w)' = RowVal(w, b)'
      BY <2>2, <3>1
    <3>3. QED
      BY Zenon, <2>1, <3>1, <3>2
  <2>6. CASE Stands("load")
    <3>1. Parted /\ (full \/ ~r0.full) /\ b = Second /\ ~Goes
      BY <2>1, <2>4, <2>6 DEF Stands, Parted
    <3>2. CASE full
      <4>1. /\ FirstDone'
            /\ \E s \in asked'[1].vals : s[asked'[1].req.adr] = data_out' /\ s[b] = mem'[b]
            /\ state' = "RELOAD_WAIT_ACK" /\ b.row \notin line'.rows_valid
        BY <1>1, <3>1, <3>2, FirstArrived
      <4>2. SecondVal(w)' = mem'[b]
        BY <2>2, <4>1
      <4>3. QED
        BY Zenon, <2>1, <4>1, <4>2
    <3>3. CASE ~full
      <4>1. PICK u \in Way : prev_ways = {u}
        BY <3>1, <3>3 DEF Turn, CoherenceInv, PairKept
      <4>2. /\ prev_ways' = {u}
            /\ SecondVal(u) = IF state' = "RELOAD_WAIT_ACK" /\ b.row \notin line'.rows_valid THEN mem'[b]
                              ELSE RowVal(u, b)'
        BY <3>1, <3>3, <4>1, SecondKept
      <4>3. u = w
        BY <1>1, <4>2
      <4>4. SecondVal(w) \in halved'.rest
        BY <3>1, <3>3, <4>1, <4>3, RestKept
      <4>5. SecondVal(w)' = SecondVal(w)
        BY Zenon, <2>2, <4>2, <4>3
      <4>6. ~FirstDone'
        <5>1. ~Completing'
          BY <3>1, <3>3, Placed
        <5>2. QED
          BY <5>1 DEF Completing, FirstDone
      <4>7. QED
        BY Zenon, <4>4, <4>5, <4>6
    <3>4. QED
      BY <3>2, <3>3, Typed
  <2>7. QED
    BY Zenon, <2>4, <2>5, <2>6
<1>2. ASSUME Halving' PROVE mem'[r1_req'.adr] \in halved'.rest
  <2>1. /\ (full \/ Slow) /\ q.reload /\ state = "RELOAD_WAIT_ACK" /\ r1_req'.adr = q.adr
    BY <1>2, HalvingStep
  <2>2. q.op = "load_miss" /\ ~q.first /\ ~q.nc
    BY <1>2, <2>1, Staged DEF SameReq, Halving
  <2>3. q.adr \in Adr /\ ~fill.dcbz
    BY <2>1, <2>2, Awaited
  <2>4. mem[q.adr] \in halved'.rest /\ line.rows_valid # {}
    BY <2>1, <2>2, SecondArrives
  <2>5. mine
    BY <2>1, <2>4 DEF Turn, CoherenceInv, FillState
  <2>6. mem'[q.adr] = mem[q.adr]
    BY <2>1, <2>3, <2>5, MemStays
  <2>7. QED
    BY <2>1, <2>4, <2>6
<1>3. PairReads' <=>
        /\ Parted' /\ ~full' => \A w \in Way : prev_ways' = {w} =>
             IF FirstDone'
             THEN \E s \in asked'[1].vals : s[asked'[1].req.adr] = data_out' /\ s[Second'] = SecondVal(w)'
             ELSE SecondVal(w)' \in halved'.rest
        /\ Halving' => mem'[r1_req'.adr] \in halved'.rest
  BY Zenon DEF PairReads
<1>4. QED
  BY Zenon, <1>1, <1>2, <1>3

\* A load that hits returns what it may.
LEMMA HitReturns ==
    ASSUME NEW g, NEW in, NEW wbin, NEW f, NEW plru, NEW q, NEW how,
           Turn(g, in, wbin, f, plru, q, how), ThisOp = "load_hit", r0.req.op = "load"
    PROVE  /\ asked'[1].req = r0.req /\ ~r0.req.nc
           /\ Second0 => data_out' \in halved'.rest
           /\ ~Second0 => \E s \in asked'[1].vals : s[r0.req.adr] = data_out'
<1>1. /\ Goes /\ ~full /\ r0.full /\ ~r0.req.nc /\ Ways0 = {Way0} /\ Hit0 /\ Way0 \in Way
      /\ asked'[1].req = r0.req /\ Waiting /\ Len(Remaining) = 1
  <2>1. Goes
    BY Finished
  <2>2. ~full /\ r0.full
    BY <2>1, Fields
  <2>3. ~r0.req.nc /\ Ways0 = {Way0} /\ Hit0 /\ Way0 \in Way
    BY <2>1, Decode, Hits
  <2>4. asked'[1].req = r0.req /\ Waiting /\ Len(Remaining) = 1
    BY <2>1, <2>2, Placed DEF Count
  <2>5. QED
    BY <2>1, <2>2, <2>3, <2>4
<1>2. data_out' = RowVal(Way0, r0.req.adr)
  BY HitData
<1>3. ASSUME Second0 PROVE data_out' \in halved'.rest
  <2>1. r0.req.half = "second" /\ r0.req.op = "load" /\ prev_ways = {Way0}
    BY <1>1, <1>3, Hits DEF Second0
  <2>2. ~done.ls_error
    BY <1>1, Staged
  <2>3. Parted /\ Second = r0.req.adr
    BY <1>1, <2>1, <2>2 DEF Parted, Open, Second
  <2>4. SecondVal(Way0) \in halved'.rest
    BY <1>1, <2>1, <2>3, RestKept
  <2>5. state = "RELOAD_WAIT_ACK" => r0.req.adr.row \in line.rows_valid
    <3>1. state = "RELOAD_WAIT_ACK" => LineOf(Second) = Target /\ ~fill.dcbz /\ ~fill.write_tag
      BY <1>1, <2>3 DEF Turn, CoherenceInv, PairKept
    <3>2. state = "RELOAD_WAIT_ACK" => Refilling(Line0)
      BY <2>3, <3>1 DEF Turn, CoherenceInv, FillState, Refilling, Line0
    <3>3. QED
      BY <1>1, <2>1, <3>2, Hits
  <2>6. SecondVal(Way0) = RowVal(Way0, r0.req.adr)
    BY <2>3, <2>5 DEF SecondVal
  <2>7. QED
    BY <1>2, <2>4, <2>6
<1>4. ASSUME ~Second0 PROVE \E s \in asked'[1].vals : s[r0.req.adr] = data_out'
  <2>1. PICK s : s = [x \in Reads(r0.req) |-> RowVal(Way0, x)]
    OBVIOUS
  <2>2. s \in asked[Len(asked)].vals
    BY <1>4, <2>1, HitSnapshot
  <2>3. Remaining[1] = asked[Len(asked)]
    BY <1>1, LastRemains
  <2>4. Recorded(in, f, wbin) /\ 1 \in 1..Len(Remaining)
    BY <1>1 DEF Turn
  <2>5. Remaining[1].vals \subseteq asked'[1].vals
    BY Zenon, <2>4 DEF Recorded
  <2>6. r0.req.adr \in Reads(r0.req)
    BY <1>4 DEF Reads, Second0
  <2>7. s[r0.req.adr] = data_out'
    BY <1>2, <2>1, <2>6
  <2>8. QED
    BY Zenon, <2>2, <2>3, <2>5, <2>7
<1>5. QED
  BY Zenon, <1>1, <1>3, <1>4

\* What the machine completes has the answer of the bus on the data wires: what
\* is in memory.
LEMMA MissReturns ==
    ASSUME NEW g, NEW in, NEW wbin, NEW f, NEW plru, NEW q, NEW how,
           Turn(g, in, wbin, f, plru, q, how), how # "none", q.op = "load_miss", ~q.touch
    PROVE  /\ full \/ Slow
           /\ data_out' = mem[q.adr]
           /\ \/ state = "RELOAD_WAIT_ACK" /\ q.reload /\ ~fill.dcbz
              \/ state = "NC_LOAD_WAIT_ACK" /\ full
<1>1. (full \/ Slow) /\ ~full' /\ q.adr \in Adr
  BY Served, Typed DEF SlowReq
<1>2. state \in {"RELOAD_WAIT_ACK", "NC_LOAD_WAIT_ACK"} /\ (state = "NC_LOAD_WAIT_ACK" => full)
  <2>1. state \notin {"IDLE", "STORE_WAIT_ACK"}
    BY <1>1, MissWaits
  <2>2. full => q = r1_req
    BY Held
  <2>3. state \in State
    BY Typed DEF CacheTypeOK
  <2>4. /\ state = "NC_LOAD_WAIT_ACK" => full /\ r1_req.op = "load_miss"
        /\ state = "DO_STCX" => full /\ r1_req.op = "store" /\ r1_req.reserve
        /\ state = "FLUSH_CYCLE" => full /\ r1_req.op = "flush"
    BY DEF Turn, BusInv, AtWork
  <2>5. QED
    BY <2>1, <2>2, <2>3, <2>4 DEF State
<1>3. ~IsHit(FALSE)
  <2>1. CASE full
    <3>1. ~Goes
      BY <2>1, Staged, Typed
    <3>2. QED
      BY Zenon, <3>1 DEF IsHit, Goes
  <2>2. CASE ~full
    <3>1. Goes /\ ThisOp = "load_miss"
      BY <1>1, <2>2, Staged, Fields
    <3>2. ~Hit0
      BY <3>1, Decode
    <3>3. QED
      BY Zenon, <3>2 DEF Hit0
  <2>3. QED
    BY <2>1, <2>2
<1>4. data_out' = wbin.dat
  <2>1. data_out' = DataOut(FALSE, wbin)
    BY DEF Turn, Clocked
  <2>2. QED
    BY Zenon, <1>3, <2>1 DEF DataOut
<1>5. CASE state = "RELOAD_WAIT_ACK"
  <2>1. Reloads(q, plru, wbin)
    BY <1>5, Kinds DEF Fills, Stores, Quiet
  <2>2. Arrives(q, wbin)
    BY <1>1, <2>1 DEF Reloads
  <2>3. wbin.ack /\ q.reload /\ line.row.row = q.adr.row
    BY <2>2 DEF Arrives
  <2>4. LineOf(q.adr) = Target /\ ~fill.dcbz
    BY <1>5, <2>3, Awaited
  <2>5. q.adr = TargetRow(q.adr.row) /\ q.adr.row \in Row
    BY <1>1, <2>4, Typed, Records
  <2>6. wbin.dat = mem[q.adr]
    BY <2>1, <2>3, <2>4, <2>5, RowArrives
  <2>7. QED
    BY <1>1, <1>4, <1>5, <2>3, <2>4, <2>6
<1>6. CASE state = "NC_LOAD_WAIT_ACK"
  <2>1. full /\ q = r1_req /\ wb.adr = q.adr /\ ~wb.we
        /\ (answers # <<>> => answers[1].dat = mem[wb.adr])
    BY <1>2, <1>6, Held DEF Turn, CoherenceInv, AnswersHold
  <2>2. wbin.ack
    <3>1. Works(q, d_data, plru, wbin) /\ wbin.ack \in BOOLEAN
      BY Typed DEF Turn, Clocked, BusWire
    <3>2. NcLoad(FALSE, plru, wbin)
      BY Zenon, <1>6, <3>1 DEF Works, Idle, Reload, Store, DoStcx, Flush
    <3>3. full' = (FullNext(FALSE) /\ ~wbin.ack)
      BY Zenon, <3>2 DEF NcLoad
    <3>4. FullNext(FALSE)
      BY Zenon, <2>1 DEF FullNext
    <3>5. QED
      BY Zenon, <1>1, <3>3, <3>4
  <2>3. wbin.dat = mem[wb.adr]
    BY <2>1, <2>2 DEF Turn, Fed
  <2>4. QED
    BY <1>1, <1>4, <1>6, <2>1, <2>3
<1>7. QED
  BY <1>2, <1>5, <1>6

\* Every load completes with a value it may return.
LEMMA LoadsCoherentStep ==
    ASSUME NEW g, NEW in, NEW wbin, NEW f, NEW plru, NEW q, NEW how,
           Turn(g, in, wbin, f, plru, q, how)
    PROVE  LoadsCoherent'
<1> DEFINE a    == asked'[1].req.adr
           Fits == IF asked'[1].req.half = "second" /\ ~asked'[1].req.nc THEN data_out' \in halved'.rest
                   ELSE \E s \in asked'[1].vals : s[a] = data_out'
<1>1. SUFFICES ASSUME done'.ls_valid \/ done'.mmu_done, asked'[1].req.op = "load" PROVE Fits
  BY Zenon DEF LoadsCoherent
<1>2. ThisOp \in {"load_hit", "nop"} \/ how # "none"
  BY <1>1, Finished
<1>3. CASE ThisOp \in {"load_hit", "nop"}
  <2>1. Goes /\ asked'[1].req = r0.req
    BY <1>3, Finished, Placed
  <2>2. ThisOp = "load_hit"
    BY <1>1, <1>3, <2>1, Decode
  <2>3. /\ ~r0.req.nc
        /\ Second0 => data_out' \in halved'.rest
        /\ ~Second0 => \E s \in asked'[1].vals : s[r0.req.adr] = data_out'
    BY <1>1, <2>1, <2>2, HitReturns
  <2>4. Second0 <=> r0.req.half = "second"
    BY <1>1, <2>1 DEF Second0
  <2>5. QED
    BY Zenon, <2>1, <2>3, <2>4
<1>4. CASE how # "none"
  <2>1. (full \/ Slow) /\ Serves(q, asked'[1].req)
    BY <1>4, Served
  <2>2. q.op = "load_miss" /\ ~q.touch /\ q.adr = a /\ q.nc = asked'[1].req.nc
        /\ q.first = (asked'[1].req.half # "second")
    BY <1>1, <2>1 DEF Serves
  <2>3. /\ data_out' = mem[q.adr]
        /\ \/ state = "RELOAD_WAIT_ACK" /\ q.reload /\ ~fill.dcbz
           \/ state = "NC_LOAD_WAIT_ACK" /\ full
    BY <1>4, <2>2, MissReturns
  <2>4. CASE asked'[1].req.half = "second" /\ ~asked'[1].req.nc
    <3>1. ~q.first /\ ~q.nc
      BY <2>2, <2>4
    <3>2. state = "RELOAD_WAIT_ACK" /\ q.reload
      <4>1. full => q = r1_req
        BY Held
      <4>2. Halving => state = "RELOAD_WAIT_ACK"
        BY DEF Turn, CoherenceInv, PairKept
      <4>3. QED
        BY <2>2, <2>3, <3>1, <4>1, <4>2 DEF Halving
    <3>3. mem[q.adr] \in halved'.rest
      BY <2>1, <2>2, <3>1, <3>2, SecondArrives
    <3>4. QED
      BY <2>3, <2>4, <3>3
  <2>5. CASE ~(asked'[1].req.half = "second" /\ ~asked'[1].req.nc)
    <3>1. PICK s : s = [x \in Reads(asked'[1].req) |-> mem[x]]
      OBVIOUS
    <3>2. s \in asked'[1].vals
      BY <2>1, <2>2, <2>3, <3>1, MissSnapshot
    <3>3. a \in Reads(asked'[1].req)
      BY <1>1, <2>5 DEF Reads
    <3>4. s[a] = data_out'
      BY <2>2, <2>3, <3>1, <3>3
    <3>5. QED
      BY Zenon, <2>5, <3>2, <3>4
  <2>6. QED
    BY <2>4, <2>5
<1>5. QED
  BY Zenon, <1>2, <1>3, <1>4

------------------------------------------------------------------------------
\* The reservation.

LEMMA LoadAccess ==
    ASSUME NEW hold, Go(hold), r0.req.op = "load", r0.req.ok, ~r0.req.nc
    PROVE  Op(hold) = IF IsHit(hold) THEN "load_hit" ELSE "load_miss"
BY DEF Op, AccessOp

\* The same, for stage 0 of this cycle.
LEMMA LoadOp ==
    Goes /\ r0.req.op = "load" /\ r0.req.ok /\ ~r0.req.nc
      => ThisOp = IF Hit0 THEN "load_hit" ELSE "load_miss"
BY Zenon, LoadAccess DEF ThisOp, Hit0, Goes

\* Only loads and stores reserve.
LEMMA Reserving ==
    ASSUME NEW g, NEW in, NEW wbin, NEW f, NEW plru, NEW q, NEW how,
           Turn(g, in, wbin, f, plru, q, how)
    PROVE  /\ r0.req.reserve => r0.req.op \in {"load", "store"} /\ r0.req \in Requests
           /\ r0.req.mmu => ~r0.req.reserve
<1>1. r0.req \in Requests \/ r0.req = NoReq
  BY Typed, Request0
<1>2. ~NoReq.reserve /\ ~NoReq.mmu
  BY DEF NoReq
<1>3. QED
  BY <1>1, <1>2, RequestsAssumption

\* A lwarx that waits for its line has named the line, and holds nothing yet.
LEMMA LwarxWaits ==
    ASSUME NEW g, NEW in, NEW wbin, NEW f, NEW plru, NEW q, NEW how,
           Turn(g, in, wbin, f, plru, q, how), full', r1_req'.op = "load_miss", r1_req'.reserve, r1_req'.first
    PROVE  ~reservation'.valid /\ reservation'.line = LineOf(r1_req'.adr)
<1>1. (full \/ Slow) /\ (Slow => Goes)
  BY Served, Staged
<1>2. SameReq(r1_req', q)
  BY <1>1, Staged
<1>3. q.op = "load_miss" /\ q.reserve /\ q.first /\ r1_req'.adr = q.adr
  BY <1>2 DEF SameReq
<1>4. CASE full
  <2>1. q = r1_req /\ ~Reserves
    BY <1>4, Staged, Typed DEF Reserves
  <2>2. ~reservation.valid /\ reservation.line = LineOf(q.adr)
    BY <1>3, <1>4, <2>1 DEF Turn, CoherenceInv, Reserved
  <2>3. state = "RELOAD_WAIT_ACK" => ~Arrives(q, wbin)
    <3>1. state = "RELOAD_WAIT_ACK" => Reloads(q, plru, wbin)
      BY Kinds DEF Fills, Stores, Quiet
    <3>2. Reloads(q, plru, wbin) => ~Arrives(q, wbin)
      BY DEF Reloads
    <3>3. QED
      BY <3>1, <3>2
  <2>4. QED
    BY <1>3, <2>1, <2>2, <2>3, RsrvNext
<1>5. CASE ~full
  <2>1. Goes /\ ThisOp = "load_miss"
    BY <1>1, <1>3, <1>5, Fields
  <2>2. r0.req.ok /\ ~Hit0 /\ r0.req.op \in {"load", "touch"}
    BY <2>1, Decode
  <2>3. r0.req.reserve /\ r0.req.half # "second" /\ q.adr = r0.req.adr
    BY <1>3, <2>1, Decode
  <2>4. Reserves
    BY <2>1, <2>2, <2>3, Reserving DEF Reserves
  <2>5. QED
    BY <1>3, <2>2, <2>3, <2>4, RsrvNext DEF Line0
<1>6. QED
  BY <1>4, <1>5

\* Once its row has come, and until the line has, it holds the reservation.
LEMMA LwarxHolds ==
    ASSUME NEW g, NEW in, NEW wbin, NEW f, NEW plru, NEW q, NEW how,
           Turn(g, in, wbin, f, plru, q, how), state' = "RELOAD_WAIT_ACK", ~full', r1_req'.reserve, r1_req'.first
    PROVE  reservation'.valid /\ line'.rows_valid # {}
<1>1. CASE Fills(q)
  <2>1. (full \/ Slow) /\ q.touch /\ q.reserve
    <3>1. (full \/ Slow) /\ q.touch
      BY <1>1, FillsFor, Typed DEF SlowReq
    <3>2. q.reserve
      BY <1>1, Starts DEF SameReq
    <3>3. QED
      BY <3>1, <3>2
  <2>2. Serves(q, asked'[1].req) /\ asked'[1] \in Taken
    BY <2>1, Served, Placed, Staged
  <2>3. asked'[1].req \in Requests /\ asked'[1].req.op = "touch" /\ asked'[1].req.reserve
    BY <2>1, <2>2 DEF Serves, Taken
  <2>4. QED
    BY <2>3, RequestsAssumption
<1>2. CASE Stores(q, wbin) \/ Quiet(wbin)
  BY <1>2 DEF Stores, Quiet
<1>3. CASE Reloads(q, plru, wbin)
  <2>1. state = "RELOAD_WAIT_ACK" /\ (full \/ Slow => Arrives(q, wbin))
    BY <1>3 DEF Reloads
  <2>2. /\ ~Reserves
        /\ (reservation'.valid <=> \/ reservation.valid /\ ~KillRsrv
                                   \/ Arrives(q, wbin) /\ r1_req.reserve /\ r1_req.first)
    BY <2>1, RsrvNext
  <2>3. line'.rows_valid = IF wbin.ack THEN line.rows_valid \cup {line.row.row} ELSE line.rows_valid
    BY <1>3, Strobes
  <2>4. r0.full /\ r0.req.op = "load" /\ r0.req.half # "second" => ~r0.req.reserve
    BY <2>1 DEF Turn, CoherenceInv, AtOnce
  <2>5. CASE full
    <3>1. q = r1_req /\ r1_req.reserve /\ r1_req.first
      <4>1. SameReq(r1_req', q) /\ q = r1_req
        BY <2>5, Staged
      <4>2. QED
        BY <4>1 DEF SameReq
    <3>2. wbin.ack
      BY <2>1, <2>5 DEF Arrives
    <3>3. QED
      BY <2>1, <2>2, <2>3, <2>5, <3>1, <3>2
  <2>6. CASE ~full /\ Goes
    <3>1. SameReq(r1_req', q) /\ r0.full
      BY <2>6, Staged
    <3>2. r0.req.reserve /\ r0.req.half # "second"
      <4>1. q.reserve /\ q.first
        BY <3>1 DEF SameReq
      <4>2. QED
        BY <2>6, <4>1, Fields
    <3>3. r0.req.op = "store" /\ r0.req.ok /\ ~r0.req.nc
      BY <2>4, <3>1, <3>2, Reserving DEF Turn, CoherenceInv, AtOnce
    <3>4. ThisOp = "store"
      BY <2>6, <3>3, StoreOp
    <3>5. Slow
      BY <3>4, Finished
    <3>6. q.reload /\ ~q.reload
      BY <2>1, <2>6, <3>4, <3>5, Decode DEF Arrives
    <3>7. QED
      BY <3>6
  <2>7. CASE ~full /\ ~Goes
    <3>1. r1_req.reserve /\ r1_req.first
      BY <2>7, Staged DEF SameReq
    <3>2. reservation.valid /\ line.rows_valid # {}
      BY <2>1, <2>7, <3>1 DEF Turn, CoherenceInv, Reserved
    <3>3. ~KillRsrv
      BY <2>1, <3>2 DEF Turn, CoherenceInv, FillState, KillRsrv
    <3>4. QED
      BY <2>2, <2>3, <3>2, <3>3
  <2>8. QED
    BY <2>5, <2>6, <2>7
<1>4. QED
  BY <1>1, <1>2, <1>3, Kinds

\* A lwarx that hits returns what the row is about to be in memory.
LEMMA LwarxHits ==
    ASSUME NEW g, NEW in, NEW wbin, NEW f, NEW plru, NEW q, NEW how,
           Turn(g, in, wbin, f, plru, q, how), Reserves, reservation'.valid, ~(f.valid /\ LineOf(f.adr) = Line0),
           NEW a, a = r0.req.adr
    PROVE  LwarxDone' /\ asked'[1].req.adr = a /\ data_out' = Now(a)'
<1>1. ~full /\ state \in {"IDLE", "STORE_WAIT_ACK"} /\ Hit0 /\ ~SnoopHit0
  BY RsrvNext
<1>2. Goes /\ r0.req.ok /\ r0.req.op = "load" /\ r0.req.reserve /\ r0.req.half # "second"
  BY DEF Reserves
<1>3. r0.full /\ ~r0.req.nc /\ ~r0.req.mmu
  <2>1. r0.full
    BY <1>2, Staged
  <2>2. ~r0.req.nc
    BY <1>2, <2>1 DEF Turn, CoherenceInv, AtOnce
  <2>3. QED
    BY <1>2, <2>1, <2>2, Reserving
<1>4. ThisOp = "load_hit"
  BY <1>1, <1>2, <1>3, LoadOp
<1>5. LwarxDone' /\ asked'[1].req.adr = a
  <2>1. done'.ls_valid
    BY <1>3, <1>4, Finished
  <2>2. asked'[1].req = r0.req
    BY <1>2, Placed
  <2>3. QED
    BY <1>2, <2>1, <2>2 DEF LwarxDone
<1>6. a \in Reads(r0.req) /\ ~Second0
  BY <1>2 DEF Reads, Second0
<1>7. /\ Way0 \in Way /\ InWay(Way0, Line0) /\ a \in Adr
      /\ Refilling(Line0) => a.row \in line.rows_valid
  BY <1>2, <1>4, <1>6, HitThere
<1>8. ~Stale(Line0)
  <2>1. SUFFICES ASSUME Stale(Line0) PROVE FALSE
    OBVIOUS
  <2>2. snoop.valid /\ snoop.line = Line0
    BY <2>1 DEF Stale
  <2>3. ~fill.reloading
    BY <1>1 DEF Turn, CoherenceInv, FillState
  <2>4. snoop.tags[Way0] = tags[Line0.index][Way0]
    BY <1>7, <2>2, <2>3 DEF Turn, CoherenceInv, SnoopRead
  <2>5. Way0 \in SnoopHits
    BY <1>7, <2>2, <2>4 DEF SnoopHits, InWay
  <2>6. Way0 \in Ways0
    BY <1>1, <1>2, Hits
  <2>7. snoop.line.index = r0.req.adr.index
    BY <2>2 DEF Line0, LineOf
  <2>8. SnoopHits \cap Ways0 # {}
    BY <2>5, <2>6
  <2>9. SnoopHit0
    BY Zenon, <1>2, <2>7, <2>8 DEF SnoopHit0, SnoopHit, Goes, Ways0
  <2>10. QED
    BY <1>1, <2>9
<1>9. RowVal(Way0, a) = Now(a)
  BY <1>7, <1>8 DEF Turn, CoherenceInv, Backed, Line0
<1>10. Quiet(wbin)
  <2>1. ~Slow
    BY <1>4, Finished
  <2>2. QED
    BY <1>1, <2>1, Kinds DEF Fills, Stores, Reloads
<1>11. Now(a)' = Now(a)
  <2>1. PICK n : n = IF f.valid THEN mem ELSE mem'
    OBVIOUS
  <2>2. n[a] = mem'[a]
    BY <1>7, <2>1, OwnMemory DEF Line0
  <2>3. NowIn(n, a)' = Now(a)
    BY <1>7, <1>10, <2>1, QuietNow
  <2>4. PICK m : m = mem'
    OBVIOUS
  <2>5. NowIn(m, a)' = NowIn(n, a)'
    BY <2>2, <2>4, NowIs
  <2>6. QED
    BY <2>3, <2>4, <2>5 DEF Now, NowIn
<1>12. data_out' = RowVal(Way0, a)
  BY <1>4, HitData
<1>13. QED
  BY <1>5, <1>9, <1>11, <1>12

\* One whose row comes returns what is in memory.
LEMMA LwarxComes ==
    ASSUME NEW g, NEW in, NEW wbin, NEW f, NEW plru, NEW q, NEW how,
           Turn(g, in, wbin, f, plru, q, how), full, Reloads(q, plru, wbin), Arrives(q, wbin), r1_req.reserve, r1_req.first,
           NEW a, a = r1_req.adr
    PROVE  LwarxDone' /\ asked'[1].req.adr = a /\ reservation.line = LineOf(a) /\ data_out' = Now(a)'
<1>1. q = r1_req /\ q.reload /\ wbin.ack /\ ~full' /\ state = "RELOAD_WAIT_ACK" /\ a \in Adr
  BY Held, Typed DEF Arrives, Reloads, SlowReq
<1>2. Serves(q, asked'[1].req) /\ asked'[1].req \in Requests /\ how # "none"
  <2>1. asked'[1] \in Taken
    BY Placed
  <2>2. QED
    BY <1>1, <2>1, Served DEF Taken
<1>3. /\ q.op = "load_miss" /\ ~q.touch
      /\ asked'[1].req.op = "load" /\ asked'[1].req.reserve /\ asked'[1].req.half # "second"
      /\ asked'[1].req.adr = a /\ ~r1_req.mmu
  <2>1. q.op = "load_miss" \/ q.dcbz
    BY <1>1, Served
  <2>2. asked'[1].req.reserve /\ asked'[1].req.half # "second" /\ asked'[1].req.adr = a
        /\ q.mmu = asked'[1].req.mmu /\ q.touch = (asked'[1].req.op = "touch")
    BY <1>1, <1>2 DEF Serves
  <2>3. asked'[1].req.op \in {"load", "store"} /\ ~asked'[1].req.mmu
    BY <1>2, <2>2, RequestsAssumption
  <2>4. ~q.dcbz
    BY <1>2, <2>3 DEF Serves
  <2>5. asked'[1].req.op = "load"
    BY <1>2, <2>1, <2>3, <2>4 DEF Serves
  <2>6. QED
    BY <1>1, <2>1, <2>2, <2>3, <2>4, <2>5
<1>4. LwarxDone'
  <2>1. done'.ls_valid
    BY <1>1, <1>3, ReloadEnds
  <2>2. QED
    BY <1>3, <2>1 DEF LwarxDone
<1>5. reservation.line = LineOf(a)
  BY <1>1, <1>3 DEF Turn, CoherenceInv, Reserved
<1>6. data_out' = mem[a] /\ ~fill.dcbz
  BY <1>1, <1>2, <1>3, MissReturns
<1>7. mem'[a] = mem[a]
  BY <1>1, <1>6, MemStays
<1>8. ~wb'.we
  <2>1. ~wb.we
    BY <1>1, <1>6, Typed DEF Turn, CoherenceInv, FillState, BusReg
  <2>2. QED
    BY <2>1, Strobes
<1>9. Now(a)' = mem'[a]
  BY <1>8 DEF Now, NowIn
<1>10. QED
  BY <1>3, <1>4, <1>5, <1>6, <1>7, <1>9

\* While it holds, no lwarx completes that did not make it.
LEMMA OtherLwarx ==
    ASSUME NEW g, NEW in, NEW wbin, NEW f, NEW plru, NEW q, NEW how,
           Turn(g, in, wbin, f, plru, q, how), ~Reserves, reservation.valid
    PROVE  ~LwarxDone'
<1>1. SUFFICES ASSUME done'.ls_valid, asked'[1].req.op = "load", asked'[1].req.reserve,
                      asked'[1].req.half # "second"
               PROVE  FALSE
  BY DEF LwarxDone
<1>2. ThisOp \in {"load_hit", "nop"} \/ how # "none"
  BY <1>1, Finished
<1>3. ~Goes \/ asked'[1].req # r0.req \/ ThisOp \notin {"load_hit", "load_miss", "nop"}
  <2>1. SUFFICES ASSUME Goes, asked'[1].req = r0.req, ThisOp \in {"load_hit", "load_miss", "nop"}
                 PROVE  FALSE
    OBVIOUS
  <2>2. r0.req.ok
    BY <1>1, <2>1, Decode
  <2>3. QED
    BY <1>1, <2>1, <2>2 DEF Reserves
<1>4. Goes => asked'[1].req = r0.req
  BY Placed
<1>5. CASE ThisOp \in {"load_hit", "nop"}
  <2>1. Goes
    BY <1>5, Finished
  <2>2. QED
    BY <1>3, <1>4, <1>5, <2>1
<1>6. CASE how # "none"
  <2>1. (full \/ Slow) /\ Serves(q, asked'[1].req)
    BY <1>6, Served
  <2>2. q.op = "load_miss" /\ q.reserve /\ q.first
    BY <1>1, <2>1 DEF Serves
  <2>3. CASE full
    <3>1. q = r1_req
      BY <2>3, Held
    <3>2. QED
      BY <2>2, <2>3, <3>1 DEF Turn, CoherenceInv, Reserved
  <2>4. CASE ~full
    <3>1. Goes
      BY <2>1, <2>4, Staged
    <3>2. ThisOp = "load_miss"
      BY <2>2, <3>1, Fields
    <3>3. QED
      BY <1>3, <1>4, <3>1, <3>2
  <2>5. QED
    BY <2>3, <2>4
<1>7. QED
  BY <1>2, <1>5, <1>6

\* The last lwarx while its reservation holds, with the one that has just
\* completed.
Linking == IF done.ls_valid THEN LinkedNext(asked[1]) ELSE linked

\* It is of the line reserved, and its value that of the row.
LEMMA LinkIs ==
    ASSUME NEW g, NEW in, NEW wbin, NEW f, NEW plru, NEW q, NEW how,
           Turn(g, in, wbin, f, plru, q, how), reservation.valid, ~Stale(reservation.line), NEW link, link = Linking
    PROVE  /\ link.live /\ link.adr \in Adr /\ LineOf(link.adr) = reservation.line
           /\ link.val \in {mem[link.adr], Now(link.adr)}
<1>1. IF LwarxDone
      THEN LineOf(asked[1].req.adr) = reservation.line /\ data_out = Now(asked[1].req.adr)
      ELSE /\ linked.live /\ LineOf(linked.adr) = reservation.line
           /\ linked.val \in {mem[linked.adr], Now(linked.adr)}
  BY DEF Turn, CoherenceInv, Reserved
<1>2. linked.adr \in Adr
  BY DEF Turn, CoherenceInv, HistoryTyped
<1>3. done.ls_valid => asked[1].req \in Requests
  <2>1. SUFFICES ASSUME done.ls_valid PROVE asked[1].req \in Requests
    OBVIOUS
  <2>2. asked # <<>> /\ asked \in Seq(Taken)
    BY <2>1, Typed, Queue DEF Turn, BusInv, Completing, TypeOK
  <2>3. asked[1] \in Taken
    BY <2>2
  <2>4. QED
    BY <2>3 DEF Taken
<1>4. CASE LwarxDone
  <2>1. done.ls_valid /\ asked[1].req.op = "load" /\ asked[1].req.reserve /\ asked[1].req.half # "second"
    BY <1>4 DEF LwarxDone
  <2>2. link = [adr |-> asked[1].req.adr, val |-> data_out, live |-> TRUE]
    BY <2>1 DEF Linking, LinkedNext
  <2>3. asked[1].req.adr \in Adr
    BY <1>3, <2>1, ReqTypes, RequestsAssumption
  <2>4. link.live /\ link.adr = asked[1].req.adr /\ link.val = data_out
    BY <2>2
  <2>5. QED
    BY <1>1, <1>4, <2>3, <2>4
<1>5. CASE ~LwarxDone
  <2>1. link = linked
    <3>1. SUFFICES ASSUME done.ls_valid PROVE LinkedNext(asked[1]) = linked
      BY DEF Linking
    <3>2. asked[1].req.reserve => asked[1].req.op \in {"load", "store"}
      BY <1>3, <3>1, RequestsAssumption
    <3>3. ~(asked[1].req.op = "store" /\ asked[1].req.reserve)
      BY <3>1 DEF Turn, CoherenceInv, StorePairs
    <3>4. ~(asked[1].req.reserve /\ asked[1].req.half # "second")
      BY <1>5, <3>1, <3>2, <3>3 DEF LwarxDone
    <3>5. QED
      BY <3>3, <3>4 DEF LinkedNext
  <2>2. QED
    BY <1>1, <1>2, <1>5, <2>1
<1>6. QED
  BY <1>4, <1>5

\* What it returned is in memory, or is about to be.
LEMMA LinkKept ==
    ASSUME NEW g, NEW in, NEW wbin, NEW f, NEW plru, NEW q, NEW how,
           Turn(g, in, wbin, f, plru, q, how), NEW a \in Adr, ~Stored(wbin, a), ~(f.valid /\ f.adr = a),
           NEW v, v \in {mem[a], Now(a)}
    PROVE  v \in {mem'[a], Now(a)'}
<1>1. mem'[a] = mem[a]
  BY MemAt
<1>2. SUFFICES ASSUME v = Now(a), Now(a) # mem[a] PROVE v = Now(a)'
  BY <1>1
<1>3. PICK n : n = IF f.valid THEN mem ELSE mem'
  OBVIOUS
<1>4. n[a] = mem'[a]
  BY <1>3, OwnMemory
<1>5. NowIn(n, a)' = Now(a)'
  <2>1. PICK m : m = mem'
    OBVIOUS
  <2>2. NowIn(m, a)' = NowIn(n, a)'
    BY <1>4, <2>1, NowIs
  <2>3. QED
    BY <2>1, <2>2 DEF Now, NowIn
<1>6. wb.stb /\ wb.we /\ wb.sel /\ wb.adr = a /\ ~Sent(wbin) /\ Now(a) = wb.dat
  BY <1>2, NowAt DEF Stored
<1>7. wbin.stall
  BY <1>6, Typed DEF Sent, BusWire
<1>8. CASE Fills(q)
  BY <1>6, <1>8, Starts
<1>9. CASE Stores(q, wbin)
  BY <1>6, <1>7, <1>9 DEF Stores
<1>10. CASE Quiet(wbin)
  BY <1>2, <1>3, <1>5, <1>10, QuietNow
<1>11. CASE Reloads(q, plru, wbin)
  <2>1. /\ wb'.we = wb.we /\ wb'.sel = wb.sel /\ wb'.dat = wb.dat /\ LineOf(wb'.adr) = LineOf(wb.adr)
        /\ wb'.stb = (wb.stb /\ ~(Sent(wbin) /\ wb.adr.row = line.end))
        /\ wb'.adr.row = IF Sent(wbin) THEN NextRow(wb.adr.row) ELSE wb.adr.row
    BY <1>11, Strobes
  <2>2. wb'.adr = wb.adr
    <3>1. wb'.adr \in Adr /\ wb.adr \in Adr
      BY Typed DEF BusReg
    <3>2. wb'.adr.row = wb.adr.row
      BY <1>6, <2>1
    <3>3. QED
      BY <2>1, <3>1, <3>2, Typed, Records
  <2>3. NowIn(n, a)' = wb.dat
    BY <1>6, <2>1, <2>2, NowIs
  <2>4. QED
    BY <1>2, <1>5, <1>6, <2>3
<1>12. QED
  BY <1>8, <1>9, <1>10, <1>11, Kinds

\* What the last lwarx returned is kept with its reservation.
LEMMA LinkHolds ==
    ASSUME NEW g, NEW in, NEW wbin, NEW f, NEW plru, NEW q, NEW how,
           Turn(g, in, wbin, f, plru, q, how), reservation.valid, ~KillRsrv, ~(f.valid /\ LineOf(f.adr) = reservation.line),
           NEW a, a = linked'.adr
    PROVE  /\ linked'.live /\ LineOf(a) = reservation.line /\ a \in Adr
           /\ linked'.val \in {mem'[a], Now(a)'}
<1>1. ~Stale(reservation.line)
  BY DEF KillRsrv, Stale
<1>2. PICK link : link = Linking
  OBVIOUS
<1>3. /\ link.live /\ link.adr \in Adr /\ LineOf(link.adr) = reservation.line
      /\ link.val \in {mem[link.adr], Now(link.adr)}
  BY <1>1, <1>2, LinkIs
<1>4. linked' = [link EXCEPT
          !.val = IF link.live /\ Sent(wbin) /\ wb.we /\ wb.sel /\ wb.adr = link.adr
                  THEN wb.dat ELSE @]
  <2>1. Recorded(in, f, wbin)
    BY DEF Turn
  <2>2. QED
    BY Zenon, <1>2, <2>1 DEF Recorded, Linking
<1>5. link \in [live : BOOLEAN, adr : Adr, val : Val]
  <2>1. /\ linked \in [live : BOOLEAN, adr : Adr, val : Val] /\ data_out \in Val
        /\ NotLinked \in [live : BOOLEAN, adr : Adr, val : Val]
    BY Typed, Somewhere, Sizes DEF Turn, CoherenceInv, HistoryTyped, CacheTypeOK, NotLinked
  <2>2. link = linked \/ link = NotLinked
        \/ link = [adr |-> asked[1].req.adr, val |-> data_out, live |-> TRUE]
    BY <1>2 DEF Linking, LinkedNext
  <2>3. CASE link = [adr |-> asked[1].req.adr, val |-> data_out, live |-> TRUE]
    <3>1. asked[1].req.adr \in Adr
      BY <1>3, <2>3
    <3>2. QED
      BY <2>1, <2>3, <3>1
  <2>4. QED
    BY <2>1, <2>2, <2>3
<1>6. /\ linked'.live /\ a = link.adr
      /\ linked'.val = IF Stored(wbin, a) THEN wb.dat ELSE link.val
  <2>1. linked'.live = link.live /\ linked'.adr = link.adr
    BY <1>4, <1>5
  <2>2. linked'.val = IF Stored(wbin, link.adr) THEN wb.dat ELSE link.val
    BY <1>3, <1>4, <1>5 DEF Stored
  <2>3. QED
    BY <1>3, <2>1, <2>2
<1>7. CASE Stored(wbin, a)
  BY <1>3, <1>6, <1>7, MemAt
<1>8. CASE ~Stored(wbin, a)
  <2>1. ~(f.valid /\ f.adr = a)
    BY <1>3, <1>6
  <2>2. link.val \in {mem'[a], Now(a)'}
    BY <1>3, <1>6, <1>8, <2>1, LinkKept
  <2>3. QED
    BY <1>3, <1>6, <1>8, <2>2
<1>9. QED
  BY <1>7, <1>8

\* A reservation stays with the last lwarx and its row.
LEMMA ReservedStep ==
    ASSUME NEW g, NEW in, NEW wbin, NEW f, NEW plru, NEW q, NEW how,
           Turn(g, in, wbin, f, plru, q, how)
    PROVE  Reserved'
<1> DEFINE Vouched == IF LwarxDone'
                      THEN LineOf(asked'[1].req.adr) = reservation'.line /\ data_out' = Now(asked[1].req.adr)'
                      ELSE /\ linked'.live /\ LineOf(linked'.adr) = reservation'.line
                           /\ linked'.val \in {mem'[linked'.adr], Now(linked.adr)'}
<1>1. ASSUME reservation'.valid, ~Stale(reservation.line)'
      PROVE  Vouched
  <2>1. ~(f.valid /\ LineOf(f.adr) = reservation'.line)
    BY <1>1, Memory DEF Stale
  <2>2. CASE Reserves
    <3>1. reservation'.line = Line0
      BY <2>2, RsrvNext
    <3>2. PICK a : a = r0.req.adr
      OBVIOUS
    <3>3. LwarxDone' /\ asked'[1].req.adr = a /\ data_out' = Now(a)'
      BY <1>1, <2>1, <2>2, <3>1, <3>2, LwarxHits
    <3>4. Now(asked[1].req.adr)' = Now(a)'
      BY <3>3 DEF Now, NowIn, Covers
    <3>5. QED
      BY <3>1, <3>2, <3>3, <3>4 DEF Line0
  <2>3. CASE ~Reserves /\ reservation.valid /\ ~KillRsrv
    <3>1. reservation'.line = reservation.line
      BY <2>3, RsrvNext
    <3>2. ~LwarxDone'
      BY <2>3, OtherLwarx
    <3>3. PICK a : a = linked'.adr
      OBVIOUS
    <3>4. linked'.live /\ LineOf(a) = reservation.line /\ linked'.val \in {mem'[a], Now(a)'}
      BY <2>1, <2>3, <3>1, <3>3, LinkHolds
    <3>5. Now(linked.adr)' = Now(a)'
      BY <3>3 DEF Now, NowIn, Covers
    <3>6. QED
      BY <3>1, <3>2, <3>3, <3>4, <3>5
  <2>4. CASE ~Reserves /\ ~(reservation.valid /\ ~KillRsrv)
    <3>1. /\ state = "RELOAD_WAIT_ACK" /\ Arrives(q, wbin) /\ r1_req.reserve /\ r1_req.first
          /\ reservation'.line = reservation.line
      BY <1>1, <2>4, RsrvNext
    <3>2. full
      <4>1. ~full => reservation.valid /\ line.rows_valid # {}
        BY <3>1 DEF Turn, CoherenceInv, Reserved
      <4>2. line.rows_valid # {} => ~KillRsrv
        BY <3>1 DEF Turn, CoherenceInv, FillState, KillRsrv
      <4>3. QED
        BY <2>4, <4>1, <4>2
    <3>3. Reloads(q, plru, wbin)
      BY <3>1, Kinds DEF Fills, Stores, Quiet
    <3>4. PICK a : a = r1_req.adr
      OBVIOUS
    <3>5. LwarxDone' /\ asked'[1].req.adr = a /\ reservation.line = LineOf(a) /\ data_out' = Now(a)'
      BY <3>1, <3>2, <3>3, <3>4, LwarxComes
    <3>6. Now(asked[1].req.adr)' = Now(a)'
      BY <3>5 DEF Now, NowIn, Covers
    <3>7. QED
      BY <3>1, <3>5, <3>6
  <2>5. QED
    BY Zenon, <2>2, <2>3, <2>4
<1>2. ASSUME full', r1_req'.op = "load_miss", r1_req'.reserve, r1_req'.first
      PROVE  ~reservation'.valid /\ reservation'.line = LineOf(r1_req'.adr)
  BY <1>2, LwarxWaits
<1>3. ASSUME state' = "RELOAD_WAIT_ACK", ~full', r1_req'.reserve, r1_req'.first
      PROVE  reservation'.valid /\ line'.rows_valid # {}
  BY <1>3, LwarxHolds
<1>4. QED
  BY Zenon, <1>1, <1>2, <1>3 DEF Reserved, Vouched

------------------------------------------------------------------------------
\* The invariant holds at first, and is kept by every step.

LEMMA CoherenceInit ==
    ASSUME Init
    PROVE  CoherenceInv
<1>1. CacheInit
  BY DEF Init
<1>2. /\ ~r0.full /\ ~full /\ state = "IDLE" /\ ~half_open /\ ~write_bram /\ ~snoop.valid
      /\ ~reservation.valid /\ ~fill.reloading /\ ~fill.write_tag /\ ~fill.dcbz
      /\ ~done.ls_valid /\ ~done.mmu_done /\ ~done.ls_error /\ ~done.mmu_error
      /\ valids = [i \in Index |-> {}] /\ ~atomic_more
      /\ r0.req = NoReq /\ linked = NotLinked /\ halved = NotHalved
  BY <1>1 DEF Init, CacheInit
<1>3. \A w \in Way, l \in Line : ~InWay(w, l)
  <2>1. \A l \in Line : l.index \in Index
    BY DEF Line
  <2>2. QED
    BY <1>2, <2>1 DEF InWay
<1>4. StageRead /\ SnoopRead /\ WritesStore /\ FillState /\ AnswersHold /\ Waits
  BY <1>2 DEF StageRead, SnoopRead, WritesStore, FillState, AnswersHold, Waits
<1>5. Unique
  BY <1>3 DEF Unique
<1>6. Backed
  <2>1. \A a \in Adr : LineOf(a) \in Line
    BY DEF Adr, Line, LineOf
  <2>2. QED
    BY <1>3, <2>1 DEF Backed
<1>7. HistoryTyped
  <2>1. NotLinked \in [live : BOOLEAN, adr : Adr, val : Val]
    BY Somewhere, Sizes DEF NotLinked
  <2>2. DOMAIN NotHalved = {"adr", "val", "rest"}
    BY DEF NotHalved
  <2>3. QED
    BY <1>2, <2>1, <2>2 DEF HistoryTyped
<1>8. Zeroes /\ MayReturn /\ AtOnce
  BY <1>2 DEF Zeroes, MayReturn, AtOnce, NoReq
<1>9. ~Open("load") /\ ~Open("store")
  BY <1>2 DEF Open, NoReq
<1>10. PairKept /\ PairReads /\ StorePairs /\ Reserved
  BY <1>2, <1>9 DEF PairKept, PairReads, StorePairs, Reserved, Parted, Halving
<1>11. LoadsCoherent
  BY <1>2 DEF LoadsCoherent
<1>12. QED
  BY <1>4, <1>5, <1>6, <1>7, <1>8, <1>10, <1>11 DEF CoherenceInv

\* A cycle keeps every part of the invariant.
LEMMA CoherenceStep ==
    ASSUME NEW g, NEW in, NEW wbin, NEW f, NEW plru, NEW q, NEW how,
           Turn(g, in, wbin, f, plru, q, how)
    PROVE  CoherenceInv'
<1>1. StageRead' /\ Unique' /\ SnoopRead' /\ WritesStore' /\ FillState' /\ AnswersHold' /\ Waits'
  BY StageReadStep, UniqueStep, SnoopReadStep, WritesStoreStep, FillStateStep, AnswersHoldStep, WaitsStep
<1>2. HistoryTyped' /\ Backed' /\ Zeroes' /\ MayReturn' /\ AtOnce' /\ PairKept' /\ PairReads'
  BY HistoryTypedStep, BackedStep, ZeroesStep, MayReturnStep, AtOnceStep, PairKeptStep, PairReadsStep
<1>3. StorePairs' /\ Reserved' /\ LoadsCoherent'
  BY StorePairsStep, ReservedStep, LoadsCoherentStep
<1>4. QED
  BY Zenon, <1>1, <1>2, <1>3 DEF CoherenceInv

\* A step that changes nothing keeps what a load may return,
LEMMA HasStutters ==
    ASSUME UNCHANGED vars, NEW v, NEW req, Has(v, req)
    PROVE  Has(v, req)'
<1> USE DEF vars, cacheVars, stageVars, slowVars, busVars, history
<1>1. PICK n : n = mem'
  OBVIOUS
<1>2. \A a : Left0(a, n)' = Left0(a, n)
  BY DEF Left0, Leaves, BusAt
<1>3. ASSUME NEW s \in [Reads(req) -> Val], \A a \in Reads(req) : s[a] \in Left0(a, n)'
      PROVE  s \in v
  <2>1. \A a \in Reads(req) : s[a] \in Left0(a, n)
    BY Zenon, <1>2, <1>3
  <2>2. \A a \in Reads(req) : Left(a, n, FALSE) = Left0(a, n)
    BY Zenon, LeftOf
  <2>3. \A a \in Reads(req) : s[a] \in Left(a, n, FALSE)
    BY Zenon, <2>1, <2>2
  <2>4. s \in Snapshots(req, n, FALSE)
    BY Zenon, <2>3 DEF Snapshots
  <2>5. n = mem
    BY <1>1
  <2>6. Snapshots(req, n, FALSE) \subseteq v
    BY Zenon, <2>5 DEF Has
  <2>7. QED
    BY Zenon, <2>4, <2>6
<1>4. QED
  BY Zenon, <1>1, <1>3, HasNext

\* for every load under way,
LEMMA MayReturnStutters ==
    ASSUME UNCHANGED vars, MayReturn
    PROVE  MayReturn'
<1> USE DEF vars, cacheVars, stageVars, slowVars, busVars, history
<1>1. (Completing' <=> Completing) /\ (Dropped' <=> Dropped)
  BY DEF Completing, Dropped
<1>2. ASSUME r0'.full, ~Dropped', r0'.req.op = "load"
      PROVE  Has(asked[Len(asked)].vals, r0.req)'
  <2>1. PICK v, req : v = asked[Len(asked)].vals /\ req = r0.req
    OBVIOUS
  <2>2. Has(v, req)
    BY <1>1, <1>2, <2>1 DEF MayReturn
  <2>3. Has(v, req)'
    BY <2>2, HasStutters
  <2>4. v = asked'[Len(asked')].vals /\ req = r0'.req
    BY <2>1
  <2>5. QED
    BY Zenon, <2>3, <2>4 DEF Has, Snapshots, Left
<1>3. ASSUME full', r1_req'.op = "load_miss", ~r1_req'.touch
      PROVE  Has(asked[Count(Completing) + 1].vals, asked[Count(Completing) + 1].req)'
  <2>1. PICK v, req : v = asked[Count(Completing) + 1].vals /\ req = asked[Count(Completing) + 1].req
    OBVIOUS
  <2>2. Has(v, req)
    BY Zenon, <1>3, <2>1 DEF MayReturn
  <2>3. Has(v, req)'
    BY <2>2, HasStutters
  <2>4. v = asked'[Count(Completing') + 1].vals /\ req = asked'[Count(Completing') + 1].req
    BY <1>1, <2>1 DEF Count
  <2>5. QED
    BY Zenon, <2>3, <2>4 DEF Has, Snapshots, Left, Count
<1>4. ASSUME r0'.full, ~full', ~Dropped', r0'.req.op = "load", Stale(LineOf(r0.req.adr))',
             NEW w \in Way, InWay(w, LineOf(r0.req.adr))', ~Refilling(LineOf(r0.req.adr))'
      PROVE  [x \in Reads(r0'.req) |-> RowVal(w, x)'] \in asked'[Len(asked')].vals
  <2>1. \A x : RowVal(w, x)' = RowVal(w, x)
    BY DEF RowVal
  <2>2. [x \in Reads(r0'.req) |-> RowVal(w, x)'] = [x \in Reads(r0.req) |-> RowVal(w, x)]
    BY <2>1
  <2>3. InWay(w, LineOf(r0.req.adr)) /\ ~Refilling(LineOf(r0.req.adr)) /\ Stale(LineOf(r0.req.adr))
    BY <1>4 DEF InWay, Refilling, Target, Stale
  <2>4. [x \in Reads(r0.req) |-> RowVal(w, x)] \in asked[Len(asked)].vals
    BY <1>1, <1>4, <2>3 DEF MayReturn
  <2>5. QED
    BY <2>2, <2>4
<1>5. QED
  BY Zenon, <1>2, <1>3, <1>4 DEF MayReturn

\* and the invariant.
LEMMA CoherenceStutters ==
    ASSUME CoherenceInv, UNCHANGED vars
    PROVE  CoherenceInv'
<1> USE DEF vars, cacheVars, stageVars, slowVars, busVars, history
<1>1. StageRead' <=> StageRead
  BY DEF StageRead, ReadRow
<1>2. Unique' <=> Unique
  BY DEF Unique, InWay
<1>3. SnoopRead' <=> SnoopRead
  BY DEF SnoopRead
<1>4. WritesStore' <=> WritesStore
  BY DEF WritesStore, InWay
<1>5. FillState' <=> FillState
  BY DEF FillState, InWay, Target, Come, Ahead
<1>6. AnswersHold' <=> AnswersHold
  BY DEF AnswersHold, Strobed, Come, Ahead, TargetRow
<1>7. Waits' <=> Waits
  BY DEF Waits, StoreHits, InWay, Target, Ahead
<1>8. HistoryTyped' <=> HistoryTyped
  BY DEF HistoryTyped
<1>9. Backed' <=> Backed
  BY DEF Backed, InWay, Stale, Refilling, Target, RowVal, Now, NowIn
<1>10. Zeroes' <=> Zeroes
  BY DEF Zeroes, R0Dat, Target
<1>11. Completing' <=> Completing
  BY DEF Completing
<1>12. MayReturn => MayReturn'
  BY MayReturnStutters
<1>13. AtOnce' <=> AtOnce
  BY DEF AtOnce
<1>14. (Open("load")' <=> Open("load")) /\ (Open("store")' <=> Open("store"))
  BY DEF Open
<1>15. (Parted' <=> Parted) /\ (FirstDone' <=> FirstDone) /\ (Halving' <=> Halving) /\ Second' = Second
  BY <1>14 DEF Parted, FirstDone, Halving, Second
<1>16. PairKept' <=> PairKept
  BY <1>11, <1>14, <1>15 DEF PairKept, InWay, Target
<1>17. PairReads' <=> PairReads
  BY <1>15 DEF PairReads, SecondVal, RowVal
<1>18. StorePairs' <=> StorePairs
  BY <1>14, <1>15 DEF StorePairs, InWay
<1>19. Reserved' <=> Reserved
  BY DEF Reserved, LwarxDone, Stale, Now, NowIn
<1>20. LoadsCoherent' <=> LoadsCoherent
  BY DEF LoadsCoherent
<1>21. QED
  BY Zenon, <1>1, <1>2, <1>3, <1>4, <1>5, <1>6, <1>7, <1>8, <1>9, <1>10, <1>12, <1>13, <1>16, <1>17,
     <1>18, <1>19, <1>20 DEF CoherenceInv

\* So every step of the system keeps it.
LEMMA CoherenceNext ==
    ASSUME IInv, [Next]_vars
    PROVE  IInv'
<1>1. BusInv /\ BusInv'
  BY NextIInv, Stuttering DEF IInv
<1>2. ASSUME Careful PROVE CoherenceInv'
  <2>1. CoherenceInv
    BY <1>2 DEF IInv
  <2>2. CASE Next
    <3>1. PICK g, in, wbin, f, plru, q, how : Turn(g, in, wbin, f, plru, q, how)
      BY <1>1, <1>2, <2>1, <2>2, NextTurns
    <3>2. QED
      BY <3>1, CoherenceStep
  <2>3. CASE UNCHANGED vars
    BY <2>1, <2>3, CoherenceStutters
  <2>4. QED
    BY <2>2, <2>3
<1>3. Careful' <=> Careful
  BY DEF Careful
<1>4. QED
  BY Zenon, <1>1, <1>2, <1>3 DEF IInv

\* A store conditional that succeeds finds what the last lwarx returned.
LEMMA StcxTurn ==
    ASSUME NEW g, NEW in, NEW wbin, NEW f, NEW plru, NEW q, NEW how,
           Turn(g, in, wbin, f, plru, q, how), state = "DO_STCX", state' = "STORE_WAIT_ACK"
    PROVE  /\ linked.live /\ LineOf(r1_req.adr) = LineOf(linked.adr)
           /\ mem'[linked.adr] = linked.val /\ mine'
<1>1. DoStcx(FALSE, plru, wbin)
  <2>1. Works(q, d_data, plru, wbin)
    BY DEF Turn, Clocked
  <2>2. QED
    BY <2>1 DEF Works, Idle, Reload, Store, NcLoad, Flush
<1>2. ~Lost /\ ~wbin.stall /\ wb' = [wb EXCEPT !.stb = TRUE]
  BY <1>1 DEF DoStcx
<1>3. reservation.valid /\ ~KillRsrv /\ LineOf(r1_req.adr) = reservation.line
  BY <1>2 DEF Lost
<1>4. full /\ ~wb.stb /\ wb.cyc
  BY DEF Turn, BusInv, AtWork, BusCounted
<1>5. ~LwarxDone
  BY <1>4 DEF Turn, CoherenceInv, PairKept, Completing, LwarxDone
<1>6. /\ linked.live /\ LineOf(linked.adr) = reservation.line
      /\ linked.val \in {mem[linked.adr], Now(linked.adr)}
  BY <1>3, <1>5 DEF Turn, CoherenceInv, Reserved, Stale, KillRsrv
<1>7. linked.val = mem[linked.adr]
  BY <1>4, <1>6 DEF Now, NowIn
<1>8. g /\ ~f.valid
  BY <1>2, Memory DEF Turn, Fed
<1>9. mem'[linked.adr] = mem[linked.adr]
  <2>1. PICK a \in Adr : a = linked.adr
    BY DEF Turn, CoherenceInv, HistoryTyped
  <2>2. ~Stored(wbin, a)
    BY <1>4 DEF Stored, Sent
  <2>3. mem'[a] = IF Stored(wbin, a) THEN wb.dat
                  ELSE IF f.valid /\ f.adr = a THEN f.dat ELSE mem[a]
    BY MemAt
  <2>4. mem'[a] = mem[a]
    BY <1>8, <2>2, <2>3
  <2>5. QED
    BY <2>1, <2>4
<1>10. mine'
  <2>1. wb'.cyc
    BY <1>2, <1>4, Typed DEF BusReg
  <2>2. QED
    BY <1>8, <2>1 DEF Turn, Fed
<1>11. QED
  BY <1>3, <1>6, <1>7, <1>9, <1>10

\* With the bus, what is in the cache: rows that hit are what memory is about
\* to be, for requesters that keep clear of the faults that are known.
THEOREM DCacheCoherence == Spec => []IInv
<1>1. Init => IInv
  BY InitIInv, CoherenceInit DEF IInv
<1>2. IInv /\ [Next]_vars => IInv'
  BY CoherenceNext
<1>3. QED
  BY <1>1, <1>2, PTL DEF Spec

\* Every load completes with a value its address had since it was taken, own
\* stores before it included (dcache.vhdl:952-1158, 1586-1877).
THEOREM DCacheLoads ==
    ASSUME Careful
    PROVE  Spec => []LoadsCoherent
<1>1. IInv => LoadsCoherent
  BY DEF IInv, CoherenceInv
<1>2. QED
  BY <1>1, DCacheCoherence, PTL

\* A store conditional that succeeds finds in memory what the last lwarx
\* returned, and has the bus (dcache.vhdl:1840-1869).
THEOREM DCacheStcx ==
    ASSUME Careful
    PROVE  Spec => StcxAtomic
<1>1. ASSUME IInv, [Next]_vars
      PROVE  [state = "DO_STCX" /\ state' = "STORE_WAIT_ACK"
               => /\ linked.live /\ LineOf(r1_req.adr) = LineOf(linked.adr)
                  /\ mem'[linked.adr] = linked.val /\ mine']_vars
  <2>1. SUFFICES ASSUME Next, state = "DO_STCX", state' = "STORE_WAIT_ACK"
                 PROVE  /\ linked.live /\ LineOf(r1_req.adr) = LineOf(linked.adr)
                        /\ mem'[linked.adr] = linked.val /\ mine'
    BY <1>1
  <2>2. PICK g, in, wbin, f, plru, q, how : Turn(g, in, wbin, f, plru, q, how)
    BY <1>1, <2>1, NextTurns DEF IInv
  <2>3. QED
    BY <2>1, <2>2, StcxTurn
<1>2. QED
  BY <1>1, DCacheCoherence, PTL DEF Spec, StcxAtomic

==============================================================================
