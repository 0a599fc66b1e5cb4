---------------------------- MODULE AxiLiteProofs ----------------------------
(***************************************************************************)
(* Proofs about the control slave: for every set of registers, width and   *)
(* number of writes a master runs ahead, it is a register file.            *)
(***************************************************************************)
EXTENDS AxiLiteSystem, SequenceTheorems, TLAPS

\* An answer that is taken drops the oldest write, a new one is added behind.
LEMMA Queue ==
    ASSUME NEW q \in Seq(Write), NEW new \in Seq(Write), NEW gone \in {0, 1},
           gone = 1 => Len(q) > 0
    PROVE  /\ SubSeq(q \o new, 1 + gone, Len(q \o new)) \in Seq(Write)
           /\ Len(SubSeq(q \o new, 1 + gone, Len(q \o new))) = Len(q) + Len(new) - gone
           /\ \A i \in 1..(Len(q) - gone) : SubSeq(q \o new, 1 + gone, Len(q \o new))[i] = q[i + gone]
<1> DEFINE c == q \o new
<1>1. c \in Seq(Write) /\ Len(c) = Len(q) + Len(new) /\ (\A i \in 1..Len(q) : c[i] = q[i])
  BY ConcatProperties
<1> HIDE DEF c
<1>2. Len(q) \in Nat /\ Len(new) \in Nat
  BY LenProperties
<1>3. \A i \in (1 + gone)..Len(c) : c[i] \in Write
  BY <1>1, LenProperties
<1>4. 1 + gone \in 1..(Len(c) + 1) /\ Len(c) \in (1 + gone - 1)..Len(c)
  BY <1>1, <1>2
<1> DEFINE r == SubSeq(c, 1 + gone, Len(c))
<1>6. /\ r \in Seq(Write)
      /\ Len(r) = IF 1 + gone <= Len(c) THEN Len(c) - (1 + gone) + 1 ELSE 0
      /\ \A i \in 1..(Len(c) - (1 + gone) + 1) : r[i] = c[(1 + gone) + i - 1]
  BY <1>1, <1>3, <1>4, SubSeqProperties
<1> HIDE DEF r
<1>7. /\ r \in Seq(Write)
      /\ Len(r) = Len(q) + Len(new) - gone
      /\ \A i \in 1..(Len(q) - gone) : r[i] = q[i + gone]
  <2>1. 1 + gone <= Len(c) + 1 /\ Len(c) \in Nat
    BY <1>1, <1>2
  <2>2. Len(r) = Len(q) + Len(new) - gone
    BY <1>1, <1>2, <1>6, <2>1
  <2>3. ASSUME NEW i \in 1..(Len(q) - gone)
        PROVE  r[i] = q[i + gone]
    <3>1. i \in 1..(Len(c) - (1 + gone) + 1) /\ i + gone \in 1..Len(q) /\ (1 + gone) + i - 1 = i + gone
      BY <1>1, <1>2, <2>1
    <3>2. r[i] = c[(1 + gone) + i - 1]
      BY <1>6, <3>1
    <3>3. QED
      BY <1>1, <3>1, <3>2
  <2>4. QED
    BY <1>6, <2>2, <2>3
<1>8. QED
  BY <1>7, Zenon DEF r, c

------------------------------------------------------------------------------
\* The master: how many writes are under way after an edge, and which.
Gone(bready) == IF BTaken(bready) THEN 1 ELSE 0

LEMMA NewWrites ==
    ASSUME NEW new \in NewWrite, wq \in Seq(Write)
    PROVE  new \in Seq(Write) /\ (new = <<>> \/ \E w \in Write : new = <<w>>)
<1>1. CASE new = <<>>
  BY <1>1, EmptySeq
<1>2. CASE \E w \in Writes : new = <<w>>
  BY <1>2, AheadAssumption
<1>3. QED
  BY <1>1, <1>2 DEF NewWrite

LEMMA MasterStep ==
    ASSUME IInv, NEW new \in NewWrite, NEW bready \in BOOLEAN, MasterWrite(new, bready)
    PROVE  /\ Gone(bready) \in {0, 1} /\ Gone(bready) <= Performed
           /\ Performed \in {0, 1} /\ Performed <= Len(wq)
           /\ Len(wq) \in Nat /\ Len(new) \in Nat
           /\ wq' \in Seq(Write)
           /\ Len(wq') = Len(wq) + Len(new) - Gone(bready)
           /\ \A i \in 1..(Len(wq) - Gone(bready)) : wq'[i] = wq[i + Gone(bready)]
           /\ awSent' = AwHeld - Gone(bready) /\ wSent' = WHeld - Gone(bready)
           /\ awvalid' \in BOOLEAN /\ wvalid' \in BOOLEAN
           /\ (awvalid /\ ~s_axi_awready => awvalid') /\ (wvalid /\ ~s_axi_wready => wvalid')
           /\ (awvalid' => AwHeld < Len(wq) + Len(new)) /\ (wvalid' => WHeld < Len(wq) + Len(new))
<1>1. /\ Performed \in {0, 1} /\ Performed <= AwHeld /\ Gone(bready) \in {0, 1} /\ Gone(bready) <= Performed
      /\ AwHeld \in Int /\ WHeld \in Int
  BY DEF IInv, TypeOK, SlaveTypeOK, Performed, AddressPlaced, Gone, BTaken, AwHeld, WHeld
<1>2. Len(wq) \in Nat /\ wq \in Seq(Write) /\ AwHeld <= Len(wq)
  BY LenProperties DEF IInv, TypeOK, AddressPlaced
<1>3. new \in Seq(Write) /\ Len(new) \in Nat /\ Len(wq \o new) = Len(wq) + Len(new)
  BY <1>2, NewWrites, LenProperties, ConcatProperties
<1>4. (IF AwTaken THEN 1 ELSE 0) = (IF s_axi_awready THEN 1 ELSE 0)
  BY DEF IInv, AddressPlaced, AwTaken
<1>5. (IF WTaken THEN 1 ELSE 0) = (IF s_axi_wready THEN 1 ELSE 0)
  BY DEF IInv, DataPlaced, WTaken
<1>6. /\ wq' = SubSeq(wq \o new, 1 + Gone(bready), Len(wq \o new))
      /\ awSent' = AwHeld - Gone(bready) /\ wSent' = WHeld - Gone(bready)
      /\ awvalid' \in BOOLEAN /\ wvalid' \in BOOLEAN
      /\ (awvalid /\ ~AwTaken => awvalid') /\ (wvalid /\ ~WTaken => wvalid')
      /\ (awvalid' => AwHeld < Len(wq \o new)) /\ (wvalid' => WHeld < Len(wq \o new))
  BY <1>4, <1>5 DEF MasterWrite, AwHeld, WHeld, Gone
<1>7. /\ wq' \in Seq(Write)
      /\ Len(wq') = Len(wq) + Len(new) - Gone(bready)
      /\ \A i \in 1..(Len(wq) - Gone(bready)) : wq'[i] = wq[i + Gone(bready)]
  <2>1. Gone(bready) = 1 => Len(wq) > 0
    BY <1>1, <1>2
  <2>2. wq' = SubSeq(wq \o new, 1 + Gone(bready), Len(wq \o new))
    BY <1>6
  <2>3. QED
    BY <1>1, <1>2, <1>3, <2>1, <2>2, Queue
<1>8. (awvalid /\ ~s_axi_awready => awvalid') /\ (wvalid /\ ~s_axi_wready => wvalid')
  BY <1>6 DEF AwTaken, WTaken
<1>9. Performed <= Len(wq)
  BY <1>1, <1>2
<1>10. QED
  BY <1>1, <1>2, <1>3, <1>6, <1>7, <1>8, <1>9

------------------------------------------------------------------------------
\* Types
LEMMA WriteRegType ==
    ASSUME NEW m \in [Reg -> RegWord], NEW a \in Reg, NEW d \in WData
    PROVE  WriteReg(m, a, d) \in [Reg -> RegWord]
BY DEF WriteReg, WData, RegWord

LEMMA InitInv == Init => IInv
<1> SUFFICES ASSUME Init PROVE IInv
  OBVIOUS
<1>1. SlaveTypeOK
  BY RegAssumption DEF Init, SlaveInit, SlaveTypeOK, WData
<1>2. wq \in Seq(Write) /\ Len(wq) = 0
  BY EmptySeq, LenProperties DEF Init
<1>3. TypeOK
  BY <1>1, <1>2, RegAssumption DEF Init, TypeOK
<1>4. QED
  BY <1>2, <1>3 DEF Init, SlaveInit, IInv, AddressPlaced, DataPlaced, ReadPlaced, LatchesPaired,
     AwHeld, WHeld, Performed

LEMMA StepType ==
    ASSUME IInv, NEW new \in NewWrite, NEW bready \in BOOLEAN, NEW rready \in BOOLEAN,
           Tick(new, bready, rready)
    PROVE  TypeOK'
<1> USE DEF IInv, TypeOK, SlaveTypeOK
<1> DEFINE gone == Gone(bready)
<1>1. /\ wq' \in Seq(Write) /\ awSent' \in Nat /\ wSent' \in Nat
      /\ awvalid' \in BOOLEAN /\ wvalid' \in BOOLEAN
  <2>1. AwHeld \in Nat /\ WHeld \in Nat /\ AwHeld >= Performed /\ WHeld >= Performed
    BY DEF AddressPlaced, DataPlaced, AwHeld, WHeld, Performed
  <2>2. gone \in {0, 1} /\ gone <= Performed /\ awSent' = AwHeld - gone /\ wSent' = WHeld - gone
        /\ wq' \in Seq(Write) /\ awvalid' \in BOOLEAN /\ wvalid' \in BOOLEAN
    BY MasterStep DEF Tick
  <2>3. Performed \in {0, 1}
    BY DEF Performed
  <2>4. QED
    BY <2>1, <2>2, <2>3
<1>2. ar' \in [valid : BOOLEAN, addr : Reg]
  BY DEF Tick, MasterRead
<1>3. wq[awSent + 1] \in Write \/ ~awvalid
  BY ElementOfSeq, LenProperties DEF AddressPlaced
<1>4. wq[wSent + 1] \in Write \/ ~wvalid
  BY ElementOfSeq, LenProperties DEF DataPlaced
<1>5. AwAddr \in Reg /\ WBeat \in WData
  BY <1>3, <1>4, RegAssumption DEF AwAddr, WBeat, Write, WData
<1>6. (mm_dev \in [Reg -> RegWord])'
  BY WriteRegType DEF Tick, SlaveWrite
<1>7. (/\ s_axi_awready \in BOOLEAN /\ aw_en \in BOOLEAN /\ awaddr_latched \in Reg
       /\ s_axi_wready \in BOOLEAN /\ w_en \in BOOLEAN /\ w_latched \in WData
       /\ s_axi_bvalid \in BOOLEAN)'
  BY <1>5 DEF Tick, SlaveWrite, TakesAw, TakesW, Performs
<1>8. (/\ s_axi_arready \in BOOLEAN /\ ar_en \in BOOLEAN /\ araddr_latched \in Reg
       /\ s_axi_rvalid \in BOOLEAN /\ s_axi_rdata \in RegWord)'
  BY DEF Tick, SlaveRead, TakesAr, Samples, RegWord
<1>9. QED
  BY <1>1, <1>2, <1>6, <1>7, <1>8

------------------------------------------------------------------------------
\* Where the halves of the writes are, and that what is latched is a write's
LEMMA StepAddress ==
    ASSUME IInv, NEW new \in NewWrite, NEW bready \in BOOLEAN, NEW rready \in BOOLEAN,
           Tick(new, bready, rready)
    PROVE  /\ AddressPlaced'
           /\ (aw_en => AwHeld = Oldest /\ awaddr_latched = wq[Oldest].addr)'
<1> DEFINE gone == Gone(bready)
<1> DEFINE taken == IF TakesAw(awvalid) THEN 1 ELSE 0
<1>1. /\ gone \in {0, 1} /\ Len(wq) \in Nat /\ Len(new) \in Nat
      /\ Len(wq') = Len(wq) + Len(new) - gone
      /\ \A i \in 1..(Len(wq) - gone) : wq'[i] = wq[i + gone]
      /\ awSent' = AwHeld - gone /\ awvalid' \in BOOLEAN
      /\ (awvalid /\ ~s_axi_awready => awvalid')
      /\ (awvalid' => AwHeld < Len(wq) + Len(new))
  BY MasterStep DEF Tick
<1>2. /\ s_axi_awready' = TakesAw(awvalid)
      /\ awaddr_latched' = IF TakesAw(awvalid) THEN AwAddr ELSE awaddr_latched
      /\ aw_en' = IF Performs THEN FALSE ELSE aw_en \/ TakesAw(awvalid)
      /\ s_axi_bvalid' = IF s_axi_bvalid THEN ~bready ELSE Performs
  BY DEF Tick, SlaveWrite
<1> USE DEF IInv, TypeOK, SlaveTypeOK, AddressPlaced
<1>3. AwHeld' = AwHeld - gone + taken /\ AwHeld \in Int
  BY <1>1, <1>2 DEF AwHeld
<1>4. TakesAw(awvalid) => ~aw_en /\ ~s_axi_awready /\ ~Performs /\ awvalid
  BY DEF TakesAw, Performs
<1>5. Performed' = Performed - gone + (IF Performs THEN 1 ELSE 0) /\ (Performs => gone = 0)
  <2>1. CASE s_axi_bvalid
    <3>1. ~Performs /\ Performed = 1
      BY <2>1 DEF Performs, Performed
    <3>2. CASE bready
      <4>1. gone = 1 /\ Performed' = 0
        BY <1>2, <2>1, <3>2 DEF Gone, BTaken, Performed
      <4>2. QED
        BY <3>1, <4>1
    <3>3. CASE ~bready
      <4>1. gone = 0 /\ Performed' = 1
        BY <1>2, <2>1, <3>3 DEF Gone, BTaken, Performed
      <4>2. QED
        BY <3>1, <4>1
    <3>4. QED
      BY <3>2, <3>3
  <2>2. CASE ~s_axi_bvalid
    <3>1. gone = 0 /\ Performed = 0
      BY <2>2 DEF Gone, BTaken, Performed
    <3>2. Performed' = (IF Performs THEN 1 ELSE 0)
      BY <1>2, <2>2 DEF Performed
    <3>3. QED
      BY <3>1, <3>2
  <2>3. QED
    BY <2>1, <2>2
<1>6. AwHeld' = Performed' + (IF aw_en' THEN 1 ELSE 0)
  <2>1. AwHeld = Performed + (IF aw_en THEN 1 ELSE 0) /\ Performed \in {0, 1}
    BY DEF Performed
  <2>2. CASE Performs
    BY <1>2, <1>3, <1>4, <1>5, <2>1, <2>2 DEF Performs
  <2>3. CASE ~Performs /\ TakesAw(awvalid)
    <3>1. aw_en' /\ ~aw_en /\ taken = 1
      BY <1>2, <1>4, <2>3
    <3>2. QED
      BY <1>1, <1>3, <1>5, <2>1, <2>3, <3>1
  <2>4. CASE ~Performs /\ ~TakesAw(awvalid)
    <3>1. aw_en' = aw_en /\ taken = 0
      BY <1>2, <2>4
    <3>2. QED
      BY <1>1, <1>3, <1>5, <2>1, <2>4, <3>1
  <2>5. QED
    BY <2>2, <2>3, <2>4
<1>7. s_axi_awready' => awvalid' /\ aw_en'
  BY <1>1, <1>2, <1>4
<1>8. awvalid' => awSent' < Len(wq')
  BY <1>1, <1>3
<1>9. AwHeld' <= Len(wq')
  BY <1>1, <1>2, <1>3, <1>7
<1>10. AddressPlaced'
  BY <1>6, <1>7, <1>8, <1>9
<1>11. ASSUME aw_en'
       PROVE  (AwHeld = Oldest /\ awaddr_latched = wq[Oldest].addr)'
  <2>1. ~Performs /\ AwHeld' = Oldest' /\ Performed' = Performed - gone
    <3>1. ~Performs
      BY <1>2, <1>11
    <3>2. Oldest' = Performed' + 1 /\ Performed \in {0, 1} /\ Performed' \in {0, 1}
      BY DEF Oldest, Performed
    <3>3. QED
      BY <1>1, <1>5, <1>6, <1>11, <3>1, <3>2
  <2>2. Oldest' = Oldest - gone /\ Oldest \in {1, 2} /\ Oldest' \in {1, 2}
    <3>1. /\ Oldest = Performed + 1 /\ Oldest' = Performed' + 1
          /\ Performed \in {0, 1} /\ Performed' \in {0, 1}
      BY DEF Oldest, Performed
    <3>2. QED
      BY <1>1, <2>1, <3>1
  <2>3. CASE TakesAw(awvalid)
    <3>1. Oldest = awSent + 1 /\ Oldest <= Len(wq)
      BY <1>4, <2>3 DEF Oldest, Performed, AwHeld
    <3>2. wq'[Oldest'] = wq[Oldest]
      <4>1. Oldest <= Len(wq)
        BY <3>1
      <4>2. Oldest' \in 1..(Len(wq) - gone) /\ Oldest' + gone = Oldest
        BY <1>1, <2>2, <4>1
      <4>3. QED
        BY <1>1, <4>2
    <3>3. QED
      BY <1>2, <1>4, <2>1, <2>3, <3>1, <3>2 DEF AwAddr
  <2>4. CASE ~TakesAw(awvalid)
    <3>1. aw_en /\ AwHeld = Oldest /\ awaddr_latched = wq[Oldest].addr
      BY <1>2, <1>11, <2>4 DEF LatchesPaired
    <3>2. wq'[Oldest'] = wq[Oldest]
      <4>1. Oldest <= Len(wq)
        BY <3>1
      <4>2. Oldest' \in 1..(Len(wq) - gone) /\ Oldest' + gone = Oldest
        BY <1>1, <2>2, <4>1
      <4>3. QED
        BY <1>1, <4>2
    <3>3. QED
      BY <1>2, <2>1, <2>4, <3>1, <3>2
  <2>5. QED
    BY <2>3, <2>4
<1>12. QED
  BY <1>10, <1>11

LEMMA StepData ==
    ASSUME IInv, NEW new \in NewWrite, NEW bready \in BOOLEAN, NEW rready \in BOOLEAN,
           Tick(new, bready, rready)
    PROVE  /\ DataPlaced'
           /\ (w_en => /\ WHeld = Oldest
                       /\ w_latched = [data |-> wq[Oldest].data, strb |-> wq[Oldest].strb])'
<1> DEFINE gone == Gone(bready)
<1> DEFINE taken == IF TakesW(wvalid) THEN 1 ELSE 0
<1>1. /\ gone \in {0, 1} /\ Len(wq) \in Nat /\ Len(new) \in Nat
      /\ Len(wq') = Len(wq) + Len(new) - gone
      /\ \A i \in 1..(Len(wq) - gone) : wq'[i] = wq[i + gone]
      /\ wSent' = WHeld - gone /\ wvalid' \in BOOLEAN
      /\ (wvalid /\ ~s_axi_wready => wvalid')
      /\ (wvalid' => WHeld < Len(wq) + Len(new))
  BY MasterStep DEF Tick
<1>2. /\ s_axi_wready' = TakesW(wvalid)
      /\ w_latched' = IF TakesW(wvalid) THEN WBeat ELSE w_latched
      /\ w_en' = IF Performs THEN FALSE ELSE w_en \/ TakesW(wvalid)
      /\ s_axi_bvalid' = IF s_axi_bvalid THEN ~bready ELSE Performs
  BY DEF Tick, SlaveWrite
<1> USE DEF IInv, TypeOK, SlaveTypeOK, DataPlaced
<1>3. WHeld' = WHeld - gone + taken /\ WHeld \in Int
  BY <1>1, <1>2 DEF WHeld
<1>4. TakesW(wvalid) => ~w_en /\ ~s_axi_wready /\ ~Performs /\ wvalid
  BY DEF TakesW, Performs
<1>5. Performed' = Performed - gone + (IF Performs THEN 1 ELSE 0) /\ (Performs => gone = 0)
  <2>1. CASE s_axi_bvalid
    <3>1. ~Performs /\ Performed = 1
      BY <2>1 DEF Performs, Performed
    <3>2. CASE bready
      <4>1. gone = 1 /\ Performed' = 0
        BY <1>2, <2>1, <3>2 DEF Gone, BTaken, Performed
      <4>2. QED
        BY <3>1, <4>1
    <3>3. CASE ~bready
      <4>1. gone = 0 /\ Performed' = 1
        BY <1>2, <2>1, <3>3 DEF Gone, BTaken, Performed
      <4>2. QED
        BY <3>1, <4>1
    <3>4. QED
      BY <3>2, <3>3
  <2>2. CASE ~s_axi_bvalid
    <3>1. gone = 0 /\ Performed = 0
      BY <2>2 DEF Gone, BTaken, Performed
    <3>2. Performed' = (IF Performs THEN 1 ELSE 0)
      BY <1>2, <2>2 DEF Performed
    <3>3. QED
      BY <3>1, <3>2
  <2>3. QED
    BY <2>1, <2>2
<1>6. WHeld' = Performed' + (IF w_en' THEN 1 ELSE 0)
  <2>1. WHeld = Performed + (IF w_en THEN 1 ELSE 0) /\ Performed \in {0, 1}
    BY DEF Performed
  <2>2. CASE Performs
    BY <1>2, <1>3, <1>4, <1>5, <2>1, <2>2 DEF Performs
  <2>3. CASE ~Performs /\ TakesW(wvalid)
    <3>1. w_en' /\ ~w_en /\ taken = 1
      BY <1>2, <1>4, <2>3
    <3>2. QED
      BY <1>1, <1>3, <1>5, <2>1, <2>3, <3>1
  <2>4. CASE ~Performs /\ ~TakesW(wvalid)
    <3>1. w_en' = w_en /\ taken = 0
      BY <1>2, <2>4
    <3>2. QED
      BY <1>1, <1>3, <1>5, <2>1, <2>4, <3>1
  <2>5. QED
    BY <2>2, <2>3, <2>4
<1>7. s_axi_wready' => wvalid' /\ w_en'
  BY <1>1, <1>2, <1>4
<1>8. wvalid' => wSent' < Len(wq')
  BY <1>1, <1>3
<1>9. WHeld' <= Len(wq')
  BY <1>1, <1>2, <1>3, <1>7
<1>10. DataPlaced'
  BY <1>6, <1>7, <1>8, <1>9
<1>11. ASSUME w_en'
       PROVE  (/\ WHeld = Oldest
               /\ w_latched = [data |-> wq[Oldest].data, strb |-> wq[Oldest].strb])'
  <2>1. ~Performs /\ WHeld' = Oldest' /\ Performed' = Performed - gone
    <3>1. ~Performs
      BY <1>2, <1>11
    <3>2. Oldest' = Performed' + 1 /\ Performed \in {0, 1} /\ Performed' \in {0, 1}
      BY DEF Oldest, Performed
    <3>3. QED
      BY <1>1, <1>5, <1>6, <1>11, <3>1, <3>2
  <2>2. Oldest' = Oldest - gone /\ Oldest \in {1, 2} /\ Oldest' \in {1, 2}
    <3>1. /\ Oldest = Performed + 1 /\ Oldest' = Performed' + 1
          /\ Performed \in {0, 1} /\ Performed' \in {0, 1}
      BY DEF Oldest, Performed
    <3>2. QED
      BY <1>1, <2>1, <3>1
  <2>3. CASE TakesW(wvalid)
    <3>1. Oldest = wSent + 1 /\ Oldest <= Len(wq)
      BY <1>4, <2>3 DEF Oldest, Performed, WHeld
    <3>2. wq'[Oldest'] = wq[Oldest]
      <4>1. Oldest <= Len(wq)
        BY <3>1
      <4>2. Oldest' \in 1..(Len(wq) - gone) /\ Oldest' + gone = Oldest
        BY <1>1, <2>2, <4>1
      <4>3. QED
        BY <1>1, <4>2
    <3>3. QED
      BY <1>2, <1>4, <2>1, <2>3, <3>1, <3>2 DEF WBeat
  <2>4. CASE ~TakesW(wvalid)
    <3>1. /\ w_en /\ WHeld = Oldest
          /\ w_latched = [data |-> wq[Oldest].data, strb |-> wq[Oldest].strb]
      BY <1>2, <1>11, <2>4 DEF LatchesPaired
    <3>2. wq'[Oldest'] = wq[Oldest]
      <4>1. Oldest <= Len(wq)
        BY <3>1
      <4>2. Oldest' \in 1..(Len(wq) - gone) /\ Oldest' + gone = Oldest
        BY <1>1, <2>2, <4>1
      <4>3. QED
        BY <1>1, <4>2
    <3>3. QED
      BY <1>2, <2>1, <2>4, <3>1, <3>2
  <2>5. QED
    BY <2>3, <2>4
<1>12. QED
  BY <1>10, <1>11

LEMMA StepRead ==
    ASSUME IInv, NEW new \in NewWrite, NEW bready \in BOOLEAN, NEW rready \in BOOLEAN,
           Tick(new, bready, rready)
    PROVE  ReadPlaced'
BY DEF IInv, TypeOK, SlaveTypeOK, ReadPlaced, Tick, MasterRead, SlaveRead, TakesAr, Samples

LEMMA StepInv == IInv /\ [Next]_vars => IInv'
<1> SUFFICES ASSUME IInv, [Next]_vars PROVE IInv'
  OBVIOUS
<1>1. CASE Next
  <2>1. PICK new \in NewWrite, bready \in BOOLEAN, rready \in BOOLEAN : Tick(new, bready, rready)
    BY <1>1 DEF Next
  <2>2. TypeOK'
    BY <2>1, StepType
  <2>3. AddressPlaced' /\ DataPlaced' /\ LatchesPaired'
    BY <2>1, StepAddress, StepData DEF LatchesPaired
  <2>4. ReadPlaced'
    BY <2>1, StepRead
  <2>5. QED
    BY <2>2, <2>3, <2>4 DEF IInv
<1>2. CASE UNCHANGED vars
  BY <1>2 DEF vars, slaveVars, slaveWriteVars, slaveReadVars, psMasterVars, IInv, TypeOK, SlaveTypeOK,
     AddressPlaced, DataPlaced, ReadPlaced, LatchesPaired, AwHeld, WHeld, Oldest, Performed
<1>3. QED
  BY <1>1, <1>2

------------------------------------------------------------------------------
\* Every half that has been accepted is in its latch or has taken effect, and
\* all types hold (s_axi_lite.v:141-213).
THEOREM AxiLiteInvariant == Spec => []IInv
BY InitInv, StepInv, PTL DEF Spec

\* Latched address and latched data are always those of one write, the oldest
\* that has not taken effect (s_axi_lite.v:141-176).
THEOREM AxiLitePairs == Spec => []LatchesPaired
<1>1. IInv => LatchesPaired
  BY DEF IInv
<1>2. QED
  BY AxiLiteInvariant, <1>1, PTL

------------------------------------------------------------------------------
\* The register file
LEMMA FileInit == Init => File!RegInit
BY RegAssumption DEF Init, SlaveInit, File!RegInit

\* What an edge does to the queue, as the register file sees it.
LEMMA QueueStep ==
    ASSUME IInv, NEW new \in NewWrite, NEW bready \in BOOLEAN, MasterWrite(new, bready)
    PROVE  /\ ~BTaken(bready) => wq' = wq \o new
           /\ BTaken(bready) => wq' = Tail(wq) \o new
<1>1. /\ wq \in Seq(Write) /\ Len(wq) \in Nat /\ new \in Seq(Write) /\ Len(new) \in Nat
      /\ Gone(bready) <= Performed /\ Performed <= Len(wq) /\ Performed \in {0, 1}
  BY MasterStep, NewWrites DEF IInv, TypeOK
<1>2. wq \o new \in Seq(Write) /\ Len(wq \o new) = Len(wq) + Len(new)
  BY <1>1, ConcatProperties
<1>3. wq' = SubSeq(wq \o new, 1 + Gone(bready), Len(wq \o new))
  BY DEF MasterWrite, Gone
<1>4. CASE ~BTaken(bready)
  <2>1. Gone(bready) = 0
    BY <1>4 DEF Gone
  <2>2. QED
    BY <1>2, <1>3, <1>4, <2>1, SubSeqFull
<1>5. CASE BTaken(bready)
  <2>1. Gone(bready) = 1 /\ Len(wq) >= 1
    BY <1>1, <1>5 DEF Gone
  <2>2. wq # <<>> /\ wq \o new # <<>>
    BY <1>2, <1>1, <2>1, EmptySeq
  <2>3. wq' = Tail(wq \o new)
    BY <1>2, <1>3, <2>1, <2>2, TailIsSubSeq
  <2>4. Tail(wq \o new) = Tail(wq) \o new
    <3>1. /\ Tail(wq) \in Seq(Write) /\ Len(Tail(wq)) = Len(wq) - 1
          /\ \A i \in 1..Len(Tail(wq)) : Tail(wq)[i] = wq[i + 1]
      BY <1>1, <2>2, HeadTailProperties
    <3>2. /\ Tail(wq \o new) \in Seq(Write) /\ Len(Tail(wq \o new)) = Len(wq \o new) - 1
          /\ \A i \in 1..Len(Tail(wq \o new)) : Tail(wq \o new)[i] = (wq \o new)[i + 1]
      BY <1>2, <2>2, HeadTailProperties
    <3>3. /\ Tail(wq) \o new \in Seq(Write) /\ Len(Tail(wq) \o new) = Len(wq) - 1 + Len(new)
          /\ \A i \in 1..(Len(wq) - 1 + Len(new)) :
               (Tail(wq) \o new)[i] = IF i <= Len(wq) - 1 THEN Tail(wq)[i] ELSE new[i - (Len(wq) - 1)]
      BY <1>1, <3>1, ConcatProperties
    <3>4. \A i \in 1..(Len(wq) + Len(new)) :
             (wq \o new)[i] = IF i <= Len(wq) THEN wq[i] ELSE new[i - Len(wq)]
      BY <1>1, ConcatProperties
    <3>5. ASSUME NEW i \in 1..(Len(wq) - 1 + Len(new))
          PROVE  Tail(wq \o new)[i] = (Tail(wq) \o new)[i]
      <4>1. Tail(wq \o new)[i] = (wq \o new)[i + 1]
        BY <1>1, <1>2, <3>2
      <4>2. (wq \o new)[i + 1] = IF i + 1 <= Len(wq) THEN wq[i + 1] ELSE new[(i + 1) - Len(wq)]
        BY <1>1, <3>4
      <4>3. CASE i + 1 <= Len(wq)
        <5>1. i \in 1..Len(Tail(wq)) /\ i <= Len(wq) - 1
          BY <1>1, <3>1, <4>3
        <5>2. (Tail(wq) \o new)[i] = Tail(wq)[i] /\ Tail(wq)[i] = wq[i + 1]
          BY <3>1, <3>3, <5>1
        <5>3. QED
          BY <4>1, <4>2, <4>3, <5>2
      <4>4. CASE ~(i + 1 <= Len(wq))
        <5>1. (i + 1) - Len(wq) = i - (Len(wq) - 1) /\ ~(i <= Len(wq) - 1)
          BY <1>1, <4>4
        <5>2. (Tail(wq) \o new)[i] = new[i - (Len(wq) - 1)]
          BY <3>3, <5>1
        <5>3. QED
          BY <4>1, <4>2, <4>4, <5>1, <5>2
      <4>5. QED
        BY <4>3, <4>4
    <3>6. QED
      BY <1>1, <1>2, <3>2, <3>3, <3>5, SeqEqual
  <2>5. QED
    BY <1>5, <2>3, <2>4
<1>6. QED
  BY <1>4, <1>5

LEMMA WritesImplement ==
    ASSUME IInv, NEW new \in NewWrite, NEW bready \in BOOLEAN, NEW rready \in BOOLEAN,
           Tick(new, bready, rready)
    PROVE  File!WriteStep
<1>1. new \in {<<>>} \cup {<<w>> : w \in Write}
  BY NewWrites DEF IInv, TypeOK
<1>2. (~BTaken(bready) => wq' = wq \o new) /\ (BTaken(bready) => wq' = Tail(wq) \o new)
  BY QueueStep DEF Tick
<1>3. /\ mm_dev' = IF Performs THEN WriteReg(mm_dev, awaddr_latched, w_latched) ELSE mm_dev
      /\ s_axi_bvalid' = IF s_axi_bvalid THEN ~bready ELSE Performs
      /\ s_axi_bvalid \in BOOLEAN
  BY DEF Tick, SlaveWrite, IInv, TypeOK, SlaveTypeOK
<1>4. CASE Performs
  <2>1. ~s_axi_bvalid /\ aw_en /\ w_en /\ s_axi_bvalid' = TRUE
    BY <1>3, <1>4 DEF Performs
  <2>2. Oldest = 1 /\ Len(wq) >= 1
    <3>1. AwHeld = 1 /\ Oldest = 1
      BY <2>1 DEF IInv, LatchesPaired, Oldest
    <3>2. QED
      BY <3>1, LenProperties DEF IInv, TypeOK, AddressPlaced
  <2>3. wq # <<>>
    BY <2>2, EmptySeq DEF IInv, TypeOK
  <2>4. /\ awaddr_latched = wq[1].addr
        /\ w_latched = [data |-> wq[1].data, strb |-> wq[1].strb]
    BY <2>1, <2>2 DEF IInv, LatchesPaired
  <2>5. mm_dev' = WriteReg(mm_dev, wq[1].addr, [data |-> wq[1].data, strb |-> wq[1].strb])
    BY <1>3, <1>4, <2>4
  <2>6. File!Perform
    BY <2>1, <2>3, <2>5 DEF File!Perform
  <2>7. wq' = wq \o new
    BY <1>2, <2>1 DEF BTaken
  <2>8. QED
    BY <1>1, <2>6, <2>7 DEF File!WriteStep
<1>5. CASE BTaken(bready)
  <2>1. s_axi_bvalid /\ bready /\ ~Performs
    BY <1>5 DEF BTaken, Performs
  <2>2. s_axi_bvalid' = FALSE /\ mm_dev' = mm_dev
    BY <1>3, <2>1
  <2>3. File!Respond
    BY <2>1, <2>2 DEF File!Respond
  <2>4. QED
    BY <1>1, <1>2, <1>5, <2>3 DEF File!WriteStep
<1>6. CASE ~Performs /\ ~BTaken(bready)
  <2>1. CASE s_axi_bvalid
    <3>1. s_axi_bvalid' = TRUE /\ s_axi_bvalid = TRUE
      BY <1>3, <1>6, <2>1 DEF BTaken
    <3>2. QED
      BY <1>1, <1>2, <1>3, <1>6, <3>1 DEF File!WriteStep
  <2>2. CASE ~s_axi_bvalid
    <3>1. s_axi_bvalid' = FALSE /\ s_axi_bvalid = FALSE
      BY <1>3, <1>6, <2>2
    <3>2. QED
      BY <1>1, <1>2, <1>3, <1>6, <3>1 DEF File!WriteStep
  <2>3. QED
    BY <2>1, <2>2
<1>7. QED
  BY <1>4, <1>5, <1>6

LEMMA ReadsImplement ==
    ASSUME IInv, NEW new \in NewWrite, NEW bready \in BOOLEAN, NEW rready \in BOOLEAN,
           Tick(new, bready, rready)
    PROVE  File!ReadStep
<1>1. /\ s_axi_arready' = TakesAr(ar.valid)
      /\ araddr_latched' = IF TakesAr(ar.valid) THEN ar.addr ELSE araddr_latched
      /\ ar_en' = IF s_axi_rvalid /\ rready THEN FALSE ELSE ar_en \/ TakesAr(ar.valid)
      /\ s_axi_rdata' = IF Samples THEN mm_dev[araddr_latched] ELSE s_axi_rdata
      /\ s_axi_rvalid' = IF s_axi_rvalid THEN ~rready ELSE Samples
      /\ ar.addr \in Reg /\ ar_en \in BOOLEAN /\ s_axi_rvalid \in BOOLEAN
      /\ (s_axi_rvalid => ar_en)
  BY DEF Tick, SlaveRead, IInv, TypeOK, SlaveTypeOK, ReadPlaced
<1>2. CASE TakesAr(ar.valid)
  <2>1. ~ar_en /\ ~s_axi_rvalid /\ ~Samples
    BY <1>1, <1>2 DEF TakesAr, Samples
  <2>2. /\ araddr_latched' = ar.addr /\ ar_en' /\ ~s_axi_rvalid'
        /\ s_axi_rdata' = s_axi_rdata
    BY <1>1, <1>2, <2>1
  <2>3. File!Ask
    BY <1>1, <2>1, <2>2 DEF File!Ask
  <2>4. QED
    BY <2>3 DEF File!ReadStep
<1>3. CASE Samples
  <2>1. ar_en /\ ~s_axi_rvalid /\ ~TakesAr(ar.valid)
    BY <1>3 DEF TakesAr, Samples
  <2>2. /\ araddr_latched' = araddr_latched /\ ar_en' /\ s_axi_rvalid'
        /\ s_axi_rdata' = mm_dev[araddr_latched]
    BY <1>1, <1>3, <2>1
  <2>3. File!Sample
    BY <2>1, <2>2 DEF File!Sample
  <2>4. QED
    BY <2>3 DEF File!ReadStep
<1>4. CASE s_axi_rvalid /\ rready
  <2>1. ar_en /\ ~Samples /\ ~TakesAr(ar.valid)
    BY <1>1, <1>4 DEF TakesAr, Samples
  <2>2. /\ araddr_latched' = araddr_latched /\ ~ar_en' /\ ~s_axi_rvalid'
        /\ s_axi_rdata' = s_axi_rdata
    BY <1>1, <1>4, <2>1
  <2>3. File!Take
    BY <1>4, <2>2 DEF File!Take
  <2>4. QED
    BY <2>3 DEF File!ReadStep
<1>5. CASE ~TakesAr(ar.valid) /\ ~Samples /\ ~(s_axi_rvalid /\ rready)
  <2>1. araddr_latched' = araddr_latched /\ s_axi_rdata' = s_axi_rdata
    BY <1>1, <1>5
  <2>2. ar_en' = ar_en
    BY <1>1, <1>5
  <2>3. s_axi_rvalid' <=> s_axi_rvalid
    BY <1>1, <1>5
  <2>4. QED
    BY <2>1, <2>2, <2>3 DEF File!ReadStep
<1>6. QED
  BY <1>2, <1>3, <1>4, <1>5

LEMMA FileStep ==
    IInv /\ [Next]_vars => [File!WriteStep /\ File!ReadStep]_<<mm_dev, wq, s_axi_bvalid,
        [phase |-> IF s_axi_rvalid THEN "sampled" ELSE IF ar_en THEN "asked" ELSE "idle",
         addr |-> araddr_latched, val |-> s_axi_rdata]>>
<1>1. CASE UNCHANGED vars
  BY <1>1 DEF vars, slaveVars, slaveWriteVars, slaveReadVars, psMasterVars
<1>2. ASSUME IInv, Next
      PROVE  File!WriteStep /\ File!ReadStep
  BY <1>2, WritesImplement, ReadsImplement DEF Next
<1>3. QED
  BY <1>1, <1>2

\* The control slave is a register file with atomic writes, for every set of
\* registers and however far the master runs ahead (s_axi_lite.v:120-213).
THEOREM AxiLiteRefinement == Spec => ImplementsRegFile
BY FileInit, FileStep, AxiLiteInvariant, PTL DEF Spec, ImplementsRegFile, File!RegSpec

==============================================================================
