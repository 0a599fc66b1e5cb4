------------------------------ MODULE XicsProofs -----------------------------
(***************************************************************************)
(* Proofs about the interrupt controller, for all numbers of lines, cpus   *)
(* and priorities: what is presented when the lines have come to rest is   *)
(* the most favoured interrupt, and an accept leaves the priority at least *)
(* as favoured as the source it reports, while lines rise at any moment.   *)
(***************************************************************************)
EXTENDS XicsSystem, FiniteSetTheorems, WellFoundedInduction, TLAPS

------------------------------------------------------------------------------
\* Arithmetic

\* A set of natural numbers has a least element.
LEMMA Least ==
    ASSUME NEW S \in SUBSET Nat, S # {}
    PROVE  \E n \in S : \A m \in S : n <= m
<1>1. PICK n \in S : \A m \in S : ~(<<m, n>> \in OpToRel(<, Nat))
  BY NatLessThanWellFounded, WFMin
<1>2. \A m \in S : ~(m < n)
  BY <1>1 DEF OpToRel
<1>3. QED
  BY <1>2

\* The priorities of the ICS are numbers, and fit the eight bits of the bus.
LEMMA Priorities ==
    /\ pri_masked \in Nat /\ pri_masked <= FF /\ FF \in Nat
    /\ Pri = 0..pri_masked /\ Pri \subseteq Pri8 /\ Pri \subseteq Nat
<1>1. IsFiniteSet(1..PRIO_BITS) /\ Cardinality(1..PRIO_BITS) = PRIO_BITS
  BY FS_Interval, XicsAssumption
<1>2. IsFiniteSet(SUBSET (1..PRIO_BITS)) /\ Cardinality(SUBSET (1..PRIO_BITS)) = 2^PRIO_BITS
  BY <1>1, FS_SUBSET
<1>3. 2^PRIO_BITS \in Nat /\ 2^PRIO_BITS # 0
  <2>1. 2^PRIO_BITS \in Nat
    BY <1>2, FS_CardinalityType
  <2>2. SUBSET (1..PRIO_BITS) # {}
    OBVIOUS
  <2>3. QED
    BY <1>2, <2>1, <2>2, FS_EmptySet
<1>4. QED
  BY <1>3, XicsAssumption DEF pri_masked, Pri, Pri8

\* The encoder yields the lowest bit that is set.
LEMMA Encoder ==
    ASSUME NEW v \in SUBSET Nat, NEW last \in Nat
    PROVE  /\ priority_encoder(v, last) \in v \cup {last}
           /\ \A m \in v \cup {last} : priority_encoder(v, last) <= m
<1>1. v \cup {last} \in SUBSET Nat /\ v \cup {last} # {}
  OBVIOUS
<1>2. \E n \in v \cup {last} : \A m \in v \cup {last} : n <= m
  BY <1>1, Least
<1>3. QED
  BY <1>2 DEF priority_encoder

\* Sources are told apart by their XISR, also from messages and from none.
LEMMA Sources ==
    /\ \A s, t \in Src : XisrOf(s) = XisrOf(t) => s = t
    /\ \A s \in Src : s \in Nat /\ XisrOf(s) # NoSource /\ XisrOf(s) # MfrrSource
                      /\ XisrOf(s) \in Xisr
    /\ NoSource # MfrrSource /\ NoSource \in Xisr /\ MfrrSource \in Xisr
    /\ Src \subseteq Nat /\ SRC_NUM - 1 \in Src /\ SRC_NUM - 1 \in Nat /\ 0 \in Cpu
BY XicsAssumption DEF Src, XisrOf, NoSource, MfrrSource, Xisr, Cpu

------------------------------------------------------------------------------
\* Pick

\* The pick of a cpu is a source and a priority.
LEMMA PickType ==
    ASSUME XicsTypeOK, NEW c \in Cpu
    PROVE  /\ irq_gen(c) \in [src : Src, pri : Pri8]
           /\ PendingPri(c) \subseteq Pri /\ PendingPri(c) \in SUBSET Nat
           /\ \A p : PendingAtPri(c, p) \subseteq Src /\ PendingAtPri(c, p) \in SUBSET Nat
<1>1. /\ PendingPri(c) \subseteq Pri
      /\ \A p : PendingAtPri(c, p) \subseteq Src
  BY DEF XicsTypeOK, PendingPri, PendingAtPri
<1>2. /\ PendingPri(c) \in SUBSET Nat
      /\ \A p : PendingAtPri(c, p) \in SUBSET Nat
  <2>1. Pri \subseteq Nat /\ Src \subseteq Nat
    BY Priorities, Sources
  <2>2. QED
    BY <1>1, <2>1
<1>3. priority_encoder(PendingPri(c), pri_masked) \in Pri
  BY <1>1, <1>2, Priorities, Encoder
<1>4. ASSUME NEW p
      PROVE  priority_encoder(PendingAtPri(c, p), SRC_NUM - 1) \in Src
  BY <1>1, <1>2, Sources, Encoder
<1>5. QED
  BY <1>1, <1>2, <1>3, <1>4, Priorities DEF irq_gen, prio_unpack, Pri8

\* What is pending is a source and a priority, and the priority masks exactly
\* if there is no source.
LEMMA PendingType ==
    ASSUME XicsTypeOK, NEW c \in Cpu
    PROVE  Pending(c).xisr \in Xisr /\ Pending(c).pri \in Pri8
<1>1. /\ ics_to_icp[c].src \in Src /\ ics_to_icp[c].pri \in Pri8
      /\ icp[c].mfrr \in Pri8
  BY DEF XicsTypeOK
<1>2. QED
  BY <1>1, Sources, Priorities DEF Pending, Pri8

\* The pick is latched, is not masked, and nothing latched is more favoured.
LEMMA PickPending ==
    ASSUME XicsTypeOK, NEW c \in Cpu
    PROVE  /\ irq_gen(c).pri # FF =>
                /\ irq_gen(c).src \in Src /\ int_level_l[irq_gen(c).src]
                /\ xives[irq_gen(c).src].server = c
                /\ xives[irq_gen(c).src].pri = irq_gen(c).pri
                /\ xives[irq_gen(c).src].pri # pri_masked
           /\ \A s \in Src : int_level_l[s] /\ xives[s].server = c /\ xives[s].pri # pri_masked
                => irq_gen(c).pri <= xives[s].pri
<1> DEFINE p == priority_encoder(PendingPri(c), pri_masked)
           s == priority_encoder(PendingAtPri(c, p), SRC_NUM - 1)
<1>1. irq_gen(c).src = s /\ irq_gen(c).pri = prio_unpack(p)
  BY DEF irq_gen
<1>2. /\ PendingPri(c) \subseteq Pri /\ PendingPri(c) \in SUBSET Nat
      /\ PendingAtPri(c, p) \subseteq Src /\ PendingAtPri(c, p) \in SUBSET Nat
  BY PickType
<1>3. p \in PendingPri(c) \cup {pri_masked} /\ \A m \in PendingPri(c) \cup {pri_masked} : p <= m
  BY <1>2, Priorities, Encoder
<1>4. /\ s \in PendingAtPri(c, p) \cup {SRC_NUM - 1}
      /\ \A m \in PendingAtPri(c, p) \cup {SRC_NUM - 1} : s <= m
  BY <1>2, Sources, Encoder
<1> HIDE DEF p, s
<1>5. p \in Nat /\ pri_masked \in Nat
  BY <1>2, <1>3, Priorities
<1>6. CASE p = pri_masked
  <2>1. irq_gen(c).pri = FF
    BY <1>1, <1>6 DEF prio_unpack
  <2>2. ASSUME NEW t \in Src, int_level_l[t], xives[t].server = c
        PROVE  xives[t].pri = pri_masked
    <3>1. xives[t].pri \in PendingPri(c) /\ xives[t].pri \in Pri
      BY <2>2 DEF PendingPri, XicsTypeOK
    <3>2. QED
      BY <1>3, <1>6, <3>1, Priorities
  <2>3. QED
    BY <2>1, <2>2
<1>7. CASE p # pri_masked
  <2>1. irq_gen(c).pri = p
    BY <1>1, <1>7 DEF prio_unpack
  <2>2. PICK t \in Src : int_level_l[t] /\ xives[t].server = c /\ xives[t].pri = p
    BY <1>3, <1>7 DEF PendingPri
  <2>3. t \in PendingAtPri(c, p)
    BY <2>2 DEF PendingAtPri
  <2>4. s \in PendingAtPri(c, p)
    BY <1>2, <1>4, <2>3 DEF Src
  <2>5. s \in Src /\ int_level_l[s] /\ xives[s].server = c /\ xives[s].pri = p
    BY <2>4 DEF PendingAtPri
  <2>6. ASSUME NEW u \in Src, int_level_l[u], xives[u].server = c
        PROVE  p <= xives[u].pri
    BY <1>3, <2>6 DEF PendingPri
  <2>7. QED
    BY <1>1, <1>7, <2>1, <2>5, <2>6
<1>8. QED
  BY <1>6, <1>7

\* A message is never less favoured than what is pending.
LEMMA PendingFavoured ==
    ASSUME XicsTypeOK, NEW c \in Cpu
    PROVE  /\ Pending(c).pri <= icp[c].mfrr
           /\ Pending(c).pri <= ics_to_icp[c].pri
           /\ \A s \in Src : Pending(c).xisr = XisrOf(s) =>
                ics_to_icp[c].pri # FF /\ s = ics_to_icp[c].src
<1>1. /\ ics_to_icp[c].src \in Src /\ ics_to_icp[c].pri \in Nat
      /\ icp[c].mfrr \in Nat /\ FF \in Nat
  BY Priorities DEF XicsTypeOK, Pri8
<1>2. CASE ics_to_icp[c].pri # FF
  <2>1. XisrOf(ics_to_icp[c].src) # MfrrSource
    BY <1>1, Sources
  <2>2. \A s \in Src : XisrOf(ics_to_icp[c].src) = XisrOf(s) => s = ics_to_icp[c].src
    BY <1>1, Sources
  <2>3. CASE icp[c].mfrr < ics_to_icp[c].pri
    <3>1. Pending(c) = [xisr |-> MfrrSource, pri |-> icp[c].mfrr]
      BY <1>2, <2>3 DEF Pending
    <3>2. QED
      BY <1>1, <2>3, <3>1, Sources
  <2>4. CASE ~(icp[c].mfrr < ics_to_icp[c].pri)
    <3>1. Pending(c) = [xisr |-> XisrOf(ics_to_icp[c].src), pri |-> ics_to_icp[c].pri]
      BY <1>2, <2>4 DEF Pending
    <3>2. QED
      BY <1>1, <1>2, <2>2, <2>4, <3>1
  <2>5. QED
    BY <2>3, <2>4
<1>3. CASE ics_to_icp[c].pri = FF
  <2>1. Pending(c).xisr \in {NoSource, MfrrSource}
    BY <1>3 DEF Pending
  <2>2. Pending(c).pri = IF icp[c].mfrr < FF THEN icp[c].mfrr ELSE FF
    BY <1>3 DEF Pending
  <2>3. QED
    BY <1>1, <1>3, <2>1, <2>2, Sources
<1>4. QED
  BY <1>2, <1>3

\* Once the latch holds the lines, the pick is the best candidate.
LEMMA PicksBest ==
    ASSUME XicsTypeOK, int_level_l = level, NEW c \in Cpu
    PROVE  /\ Candidates(c) = {} => irq_gen(c).pri = FF
           /\ Candidates(c) # {} => /\ Best(c) \in Candidates(c)
                                    /\ irq_gen(c).src = Best(c)
                                    /\ irq_gen(c).pri = xives[Best(c)].pri
                                    /\ xives[Best(c)].pri # FF
<1> DEFINE p == priority_encoder(PendingPri(c), pri_masked)
           s == priority_encoder(PendingAtPri(c, p), SRC_NUM - 1)
<1>1. irq_gen(c) = [src |-> s, pri |-> prio_unpack(p)]
  BY DEF irq_gen
<1>2. /\ PendingPri(c) \subseteq Pri /\ PendingPri(c) \in SUBSET Nat
      /\ PendingAtPri(c, p) \subseteq Src /\ PendingAtPri(c, p) \in SUBSET Nat
  BY PickType
<1>3. p \in PendingPri(c) \cup {pri_masked} /\ \A m \in PendingPri(c) \cup {pri_masked} : p <= m
  BY <1>2, Priorities, Encoder
<1>4. /\ s \in PendingAtPri(c, p) \cup {SRC_NUM - 1}
      /\ \A m \in PendingAtPri(c, p) \cup {SRC_NUM - 1} : s <= m
  BY <1>2, Sources, Encoder
<1> HIDE DEF p, s
<1>5. \A t \in Src : xives[t].pri \in Pri
  BY DEF XicsTypeOK
<1>6. Candidates(c) \subseteq Src
      /\ \A t \in Src : t \in Candidates(c) <=>
           level[t] /\ xives[t].server = c /\ xives[t].pri # pri_masked
  BY DEF Candidates
<1>7. \A t \in Candidates(c) : xives[t].pri \in PendingPri(c)
  BY <1>6 DEF PendingPri
<1>8. CASE p = pri_masked
  <2>1. Candidates(c) = {}
    BY <1>3, <1>5, <1>6, <1>7, <1>8, Priorities
  <2>2. QED
    BY <1>1, <1>8, <2>1 DEF prio_unpack
<1>9. CASE p # pri_masked
  <2>1. PICK t \in Src : int_level_l[t] /\ xives[t].server = c /\ xives[t].pri = p
    BY <1>3, <1>9 DEF PendingPri
  <2>2. t \in Candidates(c) /\ t \in PendingAtPri(c, p)
    BY <1>6, <1>9, <2>1 DEF PendingAtPri
  <2>3. s \in PendingAtPri(c, p)
    BY <1>2, <1>4, <2>2 DEF Src
  <2>4. s \in Candidates(c) /\ xives[s].pri = p
    BY <1>6, <1>9, <2>3 DEF PendingAtPri
  <2>5. ASSUME NEW u \in Candidates(c)
        PROVE  \/ xives[s].pri < xives[u].pri
               \/ xives[s].pri = xives[u].pri /\ s <= u
    <3>1. p <= xives[u].pri /\ p \in Nat /\ xives[u].pri \in Nat
      BY <1>2, <1>3, <1>7, Priorities
    <3>2. xives[u].pri = p => u \in PendingAtPri(c, p)
      BY <1>6, <2>5 DEF PendingAtPri
    <3>3. QED
      BY <1>4, <2>4, <3>1, <3>2
  <2>6. ASSUME NEW u \in Candidates(c),
               \A w \in Candidates(c) :
                  \/ xives[u].pri < xives[w].pri
                  \/ xives[u].pri = xives[w].pri /\ u <= w
        PROVE  u = s
    <3>1. /\ u \in Nat /\ s \in Nat /\ xives[u].pri \in Nat /\ xives[s].pri \in Nat
      <4>1. u \in Src /\ s \in Src
        BY <1>6, <2>4
      <4>2. Src \subseteq Nat /\ Pri \subseteq Nat
        BY Sources, Priorities
      <4>3. QED
        BY <1>5, <4>1, <4>2
    <3>2. QED
      BY <2>4, <2>5, <2>6, <3>1
  <2>7. Best(c) = s
    BY <2>4, <2>5, <2>6 DEF Best
  <2>8. p \in Nat /\ p < pri_masked /\ pri_masked <= FF /\ FF \in Nat /\ pri_masked \in Nat
    BY <1>2, <1>3, <1>9, Priorities
  <2>9. QED
    BY <1>1, <1>9, <2>4, <2>7, <2>8 DEF prio_unpack
<1>10. QED
  BY <1>8, <1>9

------------------------------------------------------------------------------
\* Steps

\* What the two units take as a write, or no write at all.
IcsTakes(a) == a.we => /\ a.idx \in Src
                       /\ a.selPri => a.pri \in Pri8
                       /\ a.selServer => a.server \in Nat
IcpTakes(a) == a.we => a.val \in Pri8

\* Reset: every source masked, nothing presented.
LEMMA InitInv == Init => IInv
<1> SUFFICES ASSUME Init PROVE IInv
  OBVIOUS
<1> USE DEF Init, XicsInit
<1>1. pri_masked \in Pri /\ FF \in Pri8 /\ 0 \in Pri8
  BY Priorities DEF Pri8
<1>2. XicsTypeOK
  BY <1>1, Sources DEF XicsTypeOK
<1>3. TypeOK
  BY <1>2 DEF TypeOK, Depth
<1>4. Settling
  BY DEF Settling
<1>5. Holding
  BY DEF Holding
<1>6. HandlerHolds
  BY <1>1, Sources DEF HandlerHolds
<1>7. QED
  BY <1>3, <1>4, <1>5, <1>6 DEF IInv

\* The registers keep their types, the priority of a source included, which is
\* packed as it is written (xics.vhdl:296-305, 434-441).
LEMMA EdgeTypes ==
    ASSUME XicsTypeOK, level \in [Src -> BOOLEAN], NEW icsAcc, NEW icpAcc,
           IcsTakes(icsAcc), IcpTakes(icpAcc), IcsEdge(level, icsAcc), IcpEdge(icpAcc)
    PROVE  XicsTypeOK'
<1>1. int_level_l' \in [Src -> BOOLEAN]
  BY DEF IcsEdge
<1>2. ics_to_icp' \in [Cpu -> [src : Src, pri : Pri8]]
  BY PickType DEF IcsEdge
<1>3. xives' \in [Src -> [pri : Pri, server : Cpu]]
  <2>1. xives \in [Src -> [pri : Pri, server : Cpu]]
    BY DEF XicsTypeOK
  <2>2. CASE ~icsAcc.we
    BY <2>1, <2>2 DEF IcsEdge
  <2>3. CASE icsAcc.we
    <3> DEFINE x == xives[icsAcc.idx]
    <3>1. icsAcc.idx \in Src /\ x.pri \in Pri /\ x.server \in Cpu
      BY <2>1, <2>3 DEF IcsTakes
    <3>2. icsAcc.selPri => prio_pack(icsAcc.pri) \in Pri
      BY <2>3, Priorities DEF IcsTakes, prio_pack, Pri8
    <3>3. icsAcc.selServer => server_check(icsAcc.server) \in Cpu
      BY <2>3, XicsAssumption DEF IcsTakes, server_check, Cpu
    <3>4. WriteXive(x, icsAcc) \in [pri : Pri, server : Cpu]
      BY <3>1, <3>2, <3>3 DEF WriteXive
    <3>5. xives' = [xives EXCEPT ![icsAcc.idx] = WriteXive(x, icsAcc)]
      BY <2>3 DEF IcsEdge
    <3>6. QED
      BY <2>1, <3>1, <3>4, <3>5
  <2>4. QED
    BY <2>2, <2>3
<1>4. icp' \in [Cpu -> [xisr : Xisr, cppr : Pri8, mfrr : Pri8, irq : BOOLEAN]]
  <2>1. ASSUME NEW c \in Cpu
        PROVE  /\ Pending(c).xisr \in Xisr /\ CpprNext(c, icpAcc) \in Pri8
               /\ MfrrNext(c, icpAcc) \in Pri8 /\ IrqNext(c, icpAcc) \in BOOLEAN
    <3>1. Pending(c).xisr \in Xisr /\ Pending(c).pri \in Pri8
      BY PendingType
    <3>2. icp[c].cppr \in Pri8 /\ icp[c].mfrr \in Pri8
      BY DEF XicsTypeOK
    <3>3. QED
      BY <3>1, <3>2 DEF IcpTakes, CpprNext, MfrrNext, IrqNext
  <2>2. QED
    BY <2>1 DEF IcpEdge
<1>5. core_irq_out' \in [Cpu -> BOOLEAN]
  BY DEF IcpEdge, XicsTypeOK
<1>6. QED
  BY <1>1, <1>2, <1>3, <1>4, <1>5 DEF XicsTypeOK

\* Each edge without a change brings the rest of the pipeline one stage on.
LEMMA EdgeSettles ==
    ASSUME XicsTypeOK, quiet \in 0..Depth, Settling, NEW icsAcc, NEW icpAcc, Edge(icsAcc, icpAcc)
    PROVE  quiet' \in 0..Depth /\ Settling'
<1>1. /\ int_level_l' = level
      /\ \A c \in Cpu : ics_to_icp'[c] = irq_gen(c)
      /\ \A c \in Cpu : /\ icp'[c].xisr = Pending(c).xisr
                         /\ icp'[c].cppr = CpprNext(c, icpAcc)
                         /\ icp'[c].irq = IrqNext(c, icpAcc)
  BY DEF Edge, IcsEdge, IcpEdge
<1>2. quiet' = IF Changed THEN 0 ELSE IF quiet = Depth THEN Depth ELSE quiet + 1
  BY DEF Edge, Since
<1>3. CASE Changed
  BY <1>2, <1>3 DEF Settling, Depth
<1>4. CASE ~Changed
  <2>1. /\ level' = level /\ xives' = xives
        /\ \A c \in Cpu : icp'[c].mfrr = icp[c].mfrr
    BY <1>4 DEF Changed
  <2>2. /\ quiet' \in 0..Depth
        /\ quiet' >= 2 => quiet >= 1
        /\ quiet' >= 3 => quiet >= 2
    BY <1>2, <1>4 DEF Depth
  <2>3. int_level_l' = level'
    BY <1>1, <2>1
  <2>4. ASSUME quiet >= 1 PROVE \A c \in Cpu : irq_gen(c)' = irq_gen(c)
    <3>1. int_level_l' = int_level_l
      BY <1>1, <2>4 DEF Settling
    <3>2. QED
      BY <2>1, <3>1 DEF irq_gen, PendingPri, PendingAtPri
  <2>5. ASSUME quiet' >= 2, NEW c \in Cpu PROVE ics_to_icp'[c] = irq_gen(c)'
    BY <1>1, <2>2, <2>4, <2>5
  <2>6. ASSUME quiet' >= 3, NEW c \in Cpu PROVE Presented(c)'
    <3>1. ics_to_icp'[c] = ics_to_icp[c] /\ icp'[c].mfrr = icp[c].mfrr
      BY <1>1, <2>1, <2>2, <2>6 DEF Settling
    <3>2. Pending(c)' = Pending(c)
      BY <3>1 DEF Pending
    <3>3. icp'[c].irq = (Pending(c).pri < icp'[c].cppr)
      BY <1>1 DEF IrqNext
    <3>4. QED
      BY <1>1, <3>2, <3>3 DEF Presented
  <2>7. QED
    BY <2>2, <2>3, <2>5, <2>6 DEF Settling
<1>5. QED
  BY <1>3, <1>4

\* Each edge that loses nothing brings what is pending one stage on.
LEMMA EdgeHolds ==
    ASSUME XicsTypeOK, XicsTypeOK', held \in 0..Depth, Holding, NEW icsAcc, NEW icpAcc,
           Edge(icsAcc, icpAcc)
    PROVE  held' \in 0..Depth /\ Holding'
<1>1. /\ int_level_l' = level
      /\ \A c \in Cpu : ics_to_icp'[c] = irq_gen(c)
      /\ \A c \in Cpu : icp'[c].xisr = Pending(c).xisr
  BY DEF Edge, IcsEdge, IcpEdge
<1>2. held' = IF Weakened THEN 0 ELSE IF held = Depth THEN Depth ELSE held + 1
  BY DEF Edge, Since
<1>3. CASE Weakened
  BY <1>2, <1>3 DEF Holding, Depth
<1>4. CASE ~Weakened
  <2>1. xives' = xives /\ \A s \in Src : level[s] => level'[s]
    BY <1>4 DEF Weakened
  <2>2. /\ held' \in 0..Depth
        /\ held' >= 2 => held >= 1
        /\ held' >= 3 => held >= 2
    BY <1>2, <1>4 DEF Depth
  <2>3. \A s \in Src : int_level_l'[s] => level'[s]
    BY <1>1, <2>1
  <2>4. ASSUME held >= 1 PROVE \A s \in Src : int_level_l[s] => int_level_l'[s]
    BY <1>1, <2>4 DEF Holding
  <2>5. ASSUME held' >= 2, NEW c \in Cpu PROVE PickLatched(c)'
    <3>1. \A s \in Src : int_level_l[s] => int_level_l'[s]
      BY <2>2, <2>4, <2>5
    <3>2. QED
      BY <1>1, <2>1, <3>1, PickPending DEF PickLatched
  <2>6. ASSUME held' >= 3, NEW c \in Cpu PROVE NoneLost(c)'
    <3> SUFFICES ASSUME NEW s \in Src, icp'[c].xisr = XisrOf(s)
                 PROVE  Pending(c)'.pri <= xives'[s].pri
      BY DEF NoneLost
    <3>1. ics_to_icp[c].pri # FF /\ s = ics_to_icp[c].src
      BY <1>1, PendingFavoured
    <3>2. int_level_l[s] /\ xives[s].server = c /\ xives[s].pri # pri_masked
      BY <2>2, <2>6, <3>1 DEF Holding, PickLatched
    <3>3. ics_to_icp'[c].pri <= xives[s].pri
      BY <1>1, <3>2, PickPending
    <3>4. ics_to_icp'[c].pri \in Nat /\ icp'[c].mfrr \in Nat /\ xives[s].pri \in Nat /\ FF \in Nat
      <4>1. ics_to_icp'[c].pri \in Pri8 /\ icp'[c].mfrr \in Pri8 /\ xives[s].pri \in Pri
        BY DEF XicsTypeOK
      <4>2. QED
        BY <4>1, Priorities DEF Pri8
    <3>5. Pending(c)'.pri \in Nat /\ Pending(c)'.pri <= ics_to_icp'[c].pri
      BY <3>4 DEF Pending
    <3>6. QED
      BY <2>1, <3>3, <3>4, <3>5
  <2>7. QED
    BY <2>2, <2>3, <2>5, <2>6 DEF Holding
<1>5. QED
  BY <1>3, <1>4

\* All together.
LEMMA EdgeInv ==
    ASSUME TypeOK, Settling, Holding, NEW icsAcc, NEW icpAcc, IcsTakes(icsAcc),
           IcpTakes(icpAcc), Edge(icsAcc, icpAcc), level' \in [Src -> BOOLEAN]
    PROVE  TypeOK' /\ Settling' /\ Holding'
<1>1. /\ XicsTypeOK /\ level \in [Src -> BOOLEAN] /\ quiet \in 0..Depth
      /\ held \in 0..Depth
  BY DEF TypeOK
<1>2. XicsTypeOK'
  BY <1>1, EdgeTypes DEF Edge
<1>3. quiet' \in 0..Depth /\ Settling'
  BY <1>1, EdgeSettles
<1>4. held' \in 0..Depth /\ Holding'
  BY <1>1, <1>2, EdgeHolds
<1>5. QED
  BY <1>2, <1>3, <1>4 DEF TypeOK

\* Any lines, any access.
LEMMA FreeStep ==
    ASSUME IInv, FreeNext
    PROVE  IInv'
<1>1. TypeOK /\ Settling /\ Holding /\ HandlerHolds
  BY DEF IInv
<1>2. level' \in [Src -> BOOLEAN]
  BY <1>1 DEF FreeNext, TypeOK
<1>3. PICK icsAcc, icpAcc :
         Edge(icsAcc, icpAcc) /\ IcsTakes(icsAcc) /\ IcpTakes(icpAcc)
  <2>1. IcsTakes(NoAccess) /\ IcpTakes(NoAccess)
    BY DEF IcsTakes, IcpTakes, NoAccess
  <2>2. \A a \in FreeIcs : IcsTakes(a)
    BY XicsAssumption DEF FreeIcs, IcsAccess, IcsTakes
  <2>3. \A a \in FreeIcp : IcpTakes(a)
    BY DEF FreeIcp, IcpAccess, IcpTakes
  <2>4. QED
    BY <2>1, <2>2, <2>3 DEF FreeNext
<1>4. HandlerHolds'
  BY <1>1 DEF FreeNext, HandlerHolds
<1>5. QED
  BY <1>1, <1>2, <1>3, <1>4, EdgeInv DEF IInv

\* No edge, no change.
LEMMA StutterInv == IInv /\ UNCHANGED vars => IInv'
<1> SUFFICES ASSUME IInv, UNCHANGED vars PROVE IInv'
  OBVIOUS
<1>1. /\ int_level_l' = int_level_l /\ xives' = xives /\ ics_to_icp' = ics_to_icp
      /\ icp' = icp /\ core_irq_out' = core_irq_out /\ level' = level /\ quiet' = quiet
      /\ held' = held /\ handler' = handler /\ icp_rd' = icp_rd
  BY DEF vars, xicsVars, icsVars, icpVars
<1>2. TypeOK'
  BY <1>1 DEF IInv, TypeOK, XicsTypeOK
<1>3. \A c \in Cpu : irq_gen(c)' = irq_gen(c)
  BY <1>1 DEF irq_gen, PendingPri, PendingAtPri
<1>4. \A c \in Cpu : /\ (Presented(c)' <=> Presented(c))
                      /\ (PickLatched(c)' <=> PickLatched(c))
                      /\ (NoneLost(c)' <=> NoneLost(c))
  BY <1>1 DEF Presented, PickLatched, NoneLost, Pending
<1>5. Settling'
  BY <1>1, <1>3, <1>4 DEF IInv, Settling
<1>6. Holding'
  BY <1>1, <1>4 DEF IInv, Holding
<1>7. HandlerHolds'
  BY <1>1 DEF IInv, HandlerHolds
<1>8. QED
  BY <1>2, <1>5, <1>6, <1>7 DEF IInv

\* A step of the handler is an edge with an access the controller takes.
LEMMA DriverAccess ==
    ASSUME IInv, DriverNext
    PROVE  /\ level' \in [Src -> BOOLEAN]
           /\ \E icsAcc, icpAcc :
                 Edge(icsAcc, icpAcc) /\ IcsTakes(icsAcc) /\ IcpTakes(icpAcc)
<1> DEFINE Taken == \E icsAcc, icpAcc :
                 Edge(icsAcc, icpAcc) /\ IcsTakes(icsAcc) /\ IcpTakes(icpAcc)
<1>0. level \in [Src -> BOOLEAN] /\ handler.cppr \in Pri8
  BY DEF IInv, TypeOK, HandlerHolds
<1>1. Lines => level' \in [Src -> BOOLEAN]
  BY <1>0 DEF Lines
<1>2. /\ IcsTakes(NoAccess) /\ IcpTakes(NoAccess) /\ IcpTakes(XirrRead)
      /\ \A p \in Pri8 : IcpTakes(XirrWrite(p)) /\ IcpTakes(MfrrWrite(p))
      /\ \A s \in Src, p \in Pri8 : IcsTakes(XiveWrite(s, p))
      /\ FF \in Pri8 /\ AccessPri \subseteq Pri8 /\ Wired \subseteq Src
  BY Priorities, WiredAssumption
  DEF IcsTakes, IcpTakes, NoAccess, XirrRead, XirrWrite, MfrrWrite, XiveWrite, Pri8
<1>3. CASE HandlerWait
  BY <1>1, <1>2, <1>3 DEF HandlerWait
<1>4. CASE Unmask
  BY <1>1, <1>2, <1>4 DEF Unmask
<1>5. CASE Open
  BY <1>1, <1>2, <1>5 DEF Open
<1>6. CASE Accept
  BY <1>1, <1>2, <1>6 DEF Accept
<1>7. CASE Reply
  BY <1>1, <1>2, <1>7 DEF Reply
<1>8. CASE Service
  <2>1. level' \in [Src -> BOOLEAN]
    BY <1>0, <1>8 DEF Service
  <2>2. QED
    BY <1>2, <1>8, <2>1 DEF Service
<1>9. CASE EndOfInterrupt
  BY <1>0, <1>1, <1>2, <1>9 DEF EndOfInterrupt
<1>10. CASE Message
  BY <1>1, <1>2, <1>10 DEF Message
<1>11. QED
  BY <1>3, <1>4, <1>5, <1>6, <1>7, <1>8, <1>9, <1>10 DEF DriverNext, HandlerStep

\* The handler is told what was registered.
LEMMA DriverHolds ==
    ASSUME IInv, DriverNext
    PROVE  HandlerHolds'
<1>0. /\ handler \in [pc : {"none", "setup", "run", "reply", "service", "eoi"}, cppr : Pri8, src : Xisr]
      /\ icp \in [Cpu -> [xisr : Xisr, cppr : Pri8, mfrr : Pri8, irq : BOOLEAN]]
  BY DEF HandlerHolds, IInv, TypeOK, XicsTypeOK
<1>1. CASE handler' = handler /\ handler.pc # "reply"
  BY <1>0, <1>1 DEF HandlerHolds
<1>2. CASE Open \/ Service \/ EndOfInterrupt
  BY <1>0, <1>2 DEF HandlerHolds, Open, Service, EndOfInterrupt
<1>3. CASE Accept
  <2>1. handler' = [handler EXCEPT !.pc = "reply"] /\ IcpEdge(XirrRead)
    BY <1>3 DEF Accept, Edge
  <2>2. icp_rd'.dat = [kind |-> "xirr", cppr |-> icp[0].cppr, xisr |-> icp[0].xisr]
    BY <2>1, Sources DEF IcpEdge, IcpRead, XirrRead
  <2>3. QED
    BY <1>0, <2>1, <2>2, Sources DEF HandlerHolds
<1>4. CASE Reply
  <2>1. handler' = [pc |-> "service", cppr |-> icp_rd.dat.cppr, src |-> icp_rd.dat.xisr]
        /\ handler.pc = "reply"
    BY <1>4 DEF Reply
  <2>2. icp_rd.dat.cppr \in Pri8 /\ icp_rd.dat.xisr \in Xisr
    BY <2>1 DEF IInv, HandlerHolds
  <2>3. handler'.pc # "reply"
    BY <2>1
  <2>4. "service" \in {"none", "setup", "run", "reply", "service", "eoi"}
    OBVIOUS
  <2>5. handler' \in [pc : {"none", "setup", "run", "reply", "service", "eoi"},
                     cppr : Pri8, src : Xisr]
    BY <2>1, <2>2, <2>4
  <2>6. QED
    BY <2>3, <2>5 DEF HandlerHolds
<1>5. QED
  BY <1>1, <1>2, <1>3, <1>4
  DEF DriverNext, HandlerStep, HandlerWait, Unmask, Message

\* The invariant says of a settled controller what SettledPresentsBest says.
LEMMA InvSettles == IInv => SettledPresentsBest
<1> SUFFICES ASSUME IInv, quiet = Depth, NEW c \in Cpu
             PROVE  LET pri == IF icp[c].mfrr < BestPri(c) THEN icp[c].mfrr ELSE BestPri(c)
                    IN /\ icp[c].xisr = IF icp[c].mfrr < BestPri(c) THEN MfrrSource
                                        ELSE IF Candidates(c) = {} THEN NoSource
                                        ELSE XisrOf(Best(c))
                       /\ icp[c].irq <=> pri < icp[c].cppr
  BY DEF SettledPresentsBest
<1>1. /\ XicsTypeOK /\ int_level_l = level /\ ics_to_icp[c] = irq_gen(c)
      /\ Presented(c)
  BY DEF IInv, TypeOK, Settling, Depth
<1>2. CASE Candidates(c) = {}
  BY <1>1, <1>2, PicksBest DEF Presented, Pending, BestPri
<1>3. CASE Candidates(c) # {}
  BY <1>1, <1>3, PicksBest DEF Presented, Pending, BestPri
<1>4. QED
  BY <1>2, <1>3

------------------------------------------------------------------------------
\* The pipeline from lines to presentation registers, whatever the lines do and
\* software writes, or with the handler (xics.vhdl:180-212, 386-392, 454-497).
THEOREM XicsInvariant == Spec => []IInv
<1>1. ASSUME IInv, DriverNext PROVE IInv'
  <2>1. PICK icsAcc, icpAcc :
          Edge(icsAcc, icpAcc) /\ IcsTakes(icsAcc) /\ IcpTakes(icpAcc)
    BY <1>1, DriverAccess
  <2>2. level' \in [Src -> BOOLEAN] /\ HandlerHolds'
    BY <1>1, DriverAccess, DriverHolds
  <2>3. QED
    BY <1>1, <2>1, <2>2, EdgeInv DEF IInv
<1>2. IInv /\ [Next]_vars => IInv'
  BY <1>1, FreeStep, StutterInv DEF Next
<1>3. QED
  BY InitInv, <1>2, PTL DEF Spec

\* What is presented when nothing has changed for three edges is the most
\* favoured of all that is pending.
THEOREM XicsSettles == Spec => []SettledPresentsBest
BY XicsInvariant, InvSettles, PTL

\* The source of an XISR is found again.
LEMMA PriOfSource ==
    ASSUME NEW c \in Cpu, NEW s \in Src
    PROVE  PriOf(c, XisrOf(s)) = xives[s].pri
<1>1. (CHOOSE t \in Src : XisrOf(s) = XisrOf(t)) = s
  BY Sources
<1>2. QED
  BY <1>1, Sources DEF PriOf

\* An accept on any cpu, at any moment, leaves CPPR at least as favoured as the
\* source it reports, unless a line fell or a source was changed in the last
\* three edges; once everything has settled it takes exactly the priority of
\* what it reports (xics.vhdl:165-202).
THEOREM XicsAcceptsOwn == Spec => AcceptTakesItsPriority
<1>1. ASSUME IInv, NEW c \in Cpu, Accepting(c)
      PROVE  icp'[c].cppr = Pending(c).pri
  <2> DEFINE a == [XirrRead EXCEPT !.cpu = c]
  <2>1. a.reg = "XIRR" /\ a.cpu = c /\ a.we = FALSE /\ a.word = TRUE
    BY DEF XirrRead
  <2>2. IcpEdge(a)
    BY <1>1 DEF Accepting
  <2> HIDE DEF a
  <2>3. icp'[c].cppr = CpprNext(c, a)
    BY <2>2 DEF IcpEdge
  <2>4. QED
    BY <2>1, <2>3 DEF CpprNext, Accepts
<1>2. ASSUME IInv, NEW c \in Cpu, held = Depth
      PROVE  Pending(c).pri <= PriOf(c, icp[c].xisr)
  <2>1. XicsTypeOK /\ NoneLost(c) /\ icp[c].xisr \in Xisr
    BY <1>2 DEF IInv, TypeOK, XicsTypeOK, Holding, Depth
  <2>2. CASE icp[c].xisr = NoSource
    BY <2>1, <2>2, PendingType, Priorities DEF PriOf, Pri8
  <2>3. CASE icp[c].xisr = MfrrSource
    BY <2>1, <2>3, PendingFavoured, Sources DEF PriOf
  <2>4. ASSUME NEW s \in Src, icp[c].xisr = XisrOf(s)
        PROVE  Pending(c).pri <= PriOf(c, icp[c].xisr)
    BY <2>1, <2>4, PriOfSource DEF NoneLost
  <2>5. QED
    BY <2>1, <2>2, <2>3, <2>4 DEF Xisr
<1>3. ASSUME IInv, NEW c \in Cpu, quiet = Depth
      PROVE  Pending(c).pri = PriOf(c, icp[c].xisr)
  <2>1. /\ XicsTypeOK /\ int_level_l = level /\ ics_to_icp[c] = irq_gen(c)
        /\ Presented(c)
    BY <1>3 DEF IInv, TypeOK, Settling, Depth
  <2>2. icp[c].mfrr \in Nat /\ FF \in Nat
    BY <2>1, Priorities DEF XicsTypeOK, Pri8
  <2>3. CASE Candidates(c) = {}
    BY <2>1, <2>2, <2>3, PicksBest, Sources DEF Presented, Pending, PriOf
  <2>4. CASE Candidates(c) # {}
    <3>1. /\ Best(c) \in Src /\ irq_gen(c).src = Best(c)
          /\ irq_gen(c).pri = xives[Best(c)].pri /\ xives[Best(c)].pri # FF
      BY <2>1, <2>4, PicksBest DEF Candidates
    <3>2. PriOf(c, XisrOf(Best(c))) = xives[Best(c)].pri
      BY <3>1, PriOfSource
    <3>3. PriOf(c, MfrrSource) = icp[c].mfrr
      BY Sources DEF PriOf
    <3>4. QED
      BY <2>1, <2>2, <3>1, <3>2, <3>3 DEF Presented, Pending
  <2>5. QED
    BY <2>3, <2>4
<1>4. IInv => [\A c \in Cpu : held = Depth /\ Accepting(c) =>
                 /\ icp'[c].cppr <= PriOf(c, icp[c].xisr)
                 /\ quiet = Depth => icp'[c].cppr = PriOf(c, icp[c].xisr)]_vars
  BY <1>1, <1>2, <1>3
<1>5. QED
  BY XicsInvariant, <1>4, PTL DEF AcceptTakesItsPriority

==============================================================================
