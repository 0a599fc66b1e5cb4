---------------------------- MODULE AxiLiteSystem ----------------------------
(***************************************************************************)
(* The control slave and the PS master in front of it.  The master keeps   *)
(* to the AXI rules and to nothing more: it may offer the address and the  *)
(* data of a write in either order and cycles apart, run a write ahead of  *)
(* an answer, raise bready and rready when it likes, and read while it     *)
(* writes.                                                                 *)
(***************************************************************************)
EXTENDS AxiLiteSlave, Sequences

Write == [addr : Reg, data : RegWord, strb : SUBSET RegLane]

CONSTANTS Writes,       \* the writes the master may ask for
          MaxAhead      \* how many it has outstanding at most

ASSUME AheadAssumption == Writes \subseteq Write /\ MaxAhead \in Nat \ {0}

VARIABLES
    wq,         \* writes begun and not answered, oldest first
    awSent,     \* how many of them have had their address accepted
    wSent,      \* how many have had their data accepted
    awvalid,    \* the address of write awSent + 1 is on the channel
    wvalid,     \* the data of write wSent + 1 is on the channel
    ar          \* read address channel

psMasterVars == <<wq, awSent, wSent, awvalid, wvalid, ar>>
vars == <<slaveVars, psMasterVars>>

Init ==
    /\ SlaveInit
    /\ wq = <<>> /\ awSent = 0 /\ wSent = 0
    /\ awvalid = FALSE /\ wvalid = FALSE
    /\ ar = [valid |-> FALSE, addr |-> ZeroReg]

------------------------------------------------------------------------------
AwTaken == awvalid /\ s_axi_awready
WTaken  == wvalid /\ s_axi_wready
BTaken(bready) == s_axi_bvalid /\ bready

\* New write, dropped answer, and what the channels offer next.
MasterWrite(new, bready) ==
    LET q    == wq \o new
        gone == IF BTaken(bready) THEN 1 ELSE 0
        aws  == awSent + (IF AwTaken THEN 1 ELSE 0)
        ws   == wSent + (IF WTaken THEN 1 ELSE 0)
    IN /\ wq' = SubSeq(q, 1 + gone, Len(q))
       /\ awSent' = aws - gone
       /\ wSent' = ws - gone
       /\ awvalid' \in BOOLEAN
       /\ awvalid /\ ~AwTaken => awvalid'
       /\ awvalid' => aws < Len(q)
       /\ wvalid' \in BOOLEAN
       /\ wvalid /\ ~WTaken => wvalid'
       /\ wvalid' => ws < Len(q)

\* An address stays up until it is accepted; another may follow at once.
MasterRead ==
    \/ /\ ar.valid /\ ~s_axi_arready
       /\ UNCHANGED ar
    \/ /\ ~ar.valid \/ s_axi_arready
       /\ ar' \in [valid : BOOLEAN, addr : Reg]
       /\ ~ar'.valid => ar'.addr = ar.addr

AwAddr == IF awvalid THEN wq[awSent + 1].addr ELSE ZeroReg
WBeat  == IF wvalid THEN [data |-> wq[wSent + 1].data, strb |-> wq[wSent + 1].strb]
          ELSE w_latched

Tick(new, bready, rready) ==
    /\ MasterWrite(new, bready)
    /\ MasterRead
    /\ SlaveWrite(awvalid, AwAddr, wvalid, WBeat, bready)
    /\ SlaveRead(ar.valid, ar.addr, rready)

NewWrite == {<<>>} \cup (IF Len(wq) < MaxAhead THEN {<<w>> : w \in Writes} ELSE {})

Next == \E new \in NewWrite, bready, rready \in BOOLEAN : Tick(new, bready, rready)

Spec == Init /\ [][Next]_vars

\* The clock runs, and the master neither holds back a half of a write it has
\* begun for ever, nor leaves an answer untaken.
FairSpec ==
    /\ Spec
    /\ WF_vars(Next)
    /\ []<>(awvalid \/ awSent = Len(wq)) /\ []<>(wvalid \/ wSent = Len(wq))
    /\ []<>~s_axi_bvalid /\ []<>~s_axi_rvalid

------------------------------------------------------------------------------
\* The index in wq of the write a latch holds: the one whose handshake is
\* under way, or the one whose handshake was the last.
AwHeld == awSent + (IF s_axi_awready THEN 1 ELSE 0)
WHeld  == wSent + (IF s_axi_wready THEN 1 ELSE 0)
Oldest == IF s_axi_bvalid THEN 2 ELSE 1

\* The latched address and the latched data are those of the same write, the
\* oldest that has not taken effect: no mispairing when the halves arrive in
\* either order, cycles apart, or behind an answer that is not taken yet
\* (s_axi_lite.v:141-176).
LatchesPaired ==
    /\ aw_en => /\ AwHeld = Oldest
                /\ awaddr_latched = wq[Oldest].addr
    /\ w_en  => /\ WHeld = Oldest
                /\ w_latched = [data |-> wq[Oldest].data, strb |-> wq[Oldest].strb]

TypeOK ==
    /\ SlaveTypeOK
    /\ wq \in Seq(Write) /\ awSent \in Nat /\ wSent \in Nat
    /\ awvalid \in BOOLEAN /\ wvalid \in BOOLEAN
    /\ ar \in [valid : BOOLEAN, addr : Reg]

\* Where the halves are.  A handshake is one the master takes part in, and of
\* what is in its latch; each half accepted is in its latch or has taken
\* effect, and both halves of the write that is being answered have.
Performed == IF s_axi_bvalid THEN 1 ELSE 0

AddressPlaced ==
    /\ s_axi_awready => awvalid /\ aw_en
    /\ awvalid => awSent < Len(wq)
    /\ AwHeld = Performed + (IF aw_en THEN 1 ELSE 0)
    /\ AwHeld <= Len(wq)

DataPlaced ==
    /\ s_axi_wready => wvalid /\ w_en
    /\ wvalid => wSent < Len(wq)
    /\ WHeld = Performed + (IF w_en THEN 1 ELSE 0)
    /\ WHeld <= Len(wq)

\* A value that is up belongs to the address in the latch.
ReadPlaced ==
    /\ s_axi_arready => ar.valid /\ ar_en
    /\ s_axi_rvalid => ar_en

\* The answers of the two halves of the slave are to what the master has under
\* way, however far the halves of its writes are apart (s_axi_lite.v:141-213).
IInv == TypeOK /\ AddressPlaced /\ DataPlaced /\ ReadPlaced /\ LatchesPaired

\* The slave implements the register file: each write takes effect once, in
\* order, whole, before its answer and not before the last answer was taken;
\* a read returns what its register held at one moment after it was asked for,
\* and the value does not change while it waits to be taken.
File == INSTANCE RegFile WITH
    Addr  <- Reg,
    Val   <- RegWord,
    Apply <- LAMBDA m, w : WriteReg(m, w.addr, [data |-> w.data, strb |-> w.strb]),
    regs  <- mm_dev,
    done  <- s_axi_bvalid,
    read  <- [phase |-> IF s_axi_rvalid THEN "sampled"
                        ELSE IF ar_en THEN "asked" ELSE "idle",
              addr |-> araddr_latched,
              val |-> s_axi_rdata]

ImplementsRegFile == File!RegSpec

\* Every write is answered, whichever half comes first and however far apart
\* they are; every read address is taken, its answer comes up and goes, and the
\* latch is free again for the next read (s_axi_lite.v:141-213).
AccessesAnswered ==
    /\ wq # <<>> ~> BTaken(TRUE)
    /\ ar.valid ~> ar.valid /\ s_axi_arready
    /\ ar_en ~> s_axi_rvalid
    /\ ar_en ~> ~ar_en

==============================================================================
