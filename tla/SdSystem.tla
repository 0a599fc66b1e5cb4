------------------------------ MODULE SdSystem ------------------------------
(***************************************************************************)
(* The calls a program makes to the SD driver, and the driver, controller  *)
(* and card together.  call is the running or the last call: its name, and *)
(* the blocks of the transfer the program waits for, 0 if there is none or *)
(* if it was refused.                                                      *)
(*                                                                         *)
(* Ghosts: inited, the last initialization of the card succeeded; clean,   *)
(* there was no other, and the controller was not idled; overdue, an       *)
(* earlier call has left something on the lines that had not ended;        *)
(* swapped, another card was put in after the last call.                   *)
(***************************************************************************)
EXTENDS SdInit

CONSTANTS
    MaxCalls,       \* bound: calls of a behaviour, checks for a transfer aside
    BlkCnts         \* block counts of transfers

\* Each poll has a round, and a transfer has fewer than 2^32 bytes: the limit
\* of XSdPs_Read is tested on a product of 32 bits, which does not see more
ASSUME SdAssumption ==
    /\ {OP_POLLS, ID_POLLS, MAX_TUNING} \subseteq Nat \ {0}
    /\ {MaxFaults, MaxCalls} \subseteq Nat
    /\ BlkCnts \subseteq 1 .. 128 * U16 - 1

VARIABLES call, calls, inited, clean, overdue, swapped

ghosts == <<inited, clean, overdue, swapped>>
callVars == <<call, calls, ghosts>>
vars == <<hostVars, cardVars, drvVars, callVars>>

\* An instance before the program configures it; statics are zero
NewDriver(cfg) ==
    [cfg |-> cfg, ready |-> FALSE, busy |-> FALSE, type |-> Sd, ver |-> 0,
     hcs |-> FALSE, width |-> 0, sw18 |-> FALSE, speed |-> 0, mode |-> SDR12,
     blk |-> 0, otap |-> 0, itap |-> 0, erase |-> FALSE]

Init ==
    /\ board \in Boards
    /\ drv = NewDriver(board.cfg)
    /\ host = ResetHost([otap |-> 0, itap |-> 0])
    /\ line = FreeLines
    /\ sts = {} /\ err = {} /\ resp = {} /\ moved = {}
    /\ card = PoweredCard(board.caps) /\ inserted = TRUE
    /\ todo = <<>> /\ rc = "XST_SUCCESS" /\ count = 0 /\ faults = 0
    /\ call = [api |-> "none", blocks |-> 0] /\ calls = 0
    /\ inited = FALSE /\ clean = TRUE /\ overdue = FALSE /\ swapped = FALSE

-----------------------------------------------------------------------------
(* Calls                                                                   *)

\* Defaults from the table, then reset and configuration of the controller
CfgInitialize ==
    /\ At("CfgInitialize")
    /\ IF drv.ready THEN CallEnds("XST_DEVICE_IS_STARTED") /\ UNCHANGED drv
       ELSE /\ Success(ResetConfig \o Only("HostConfig"))
            /\ drv' = [drv EXCEPT !.cfg = board.cfg, !.mode = DEFAULT, !.otap = 0,
                                  !.itap = 0, !.busy = FALSE, !.blk = 0]
    /\ UNCHANGED <<hostVars, cardVars, board, count>>

\* Transfers: the call is refused while one that was started is not checked
\* for; block length of 512 bytes
SetupTransfer ==
    /\ At("SetupTransfer")
    /\ IF drv.busy \/ ~CardPresent THEN Failure("XST_FAILURE")
       ELSE Success(If(host.blksz # 512, SetBlkSize))
    /\ UNCHANGED <<hostVars, cardVars, board, drv, count>>

\* XSdPs_Read and XSdPs_Write; the block count register has 16 bits
ReadOrWrite ==
    /\ At("ReadOrWrite")
    /\ LET n == Arg(2)
           cmd == IF Arg(1) = "read" THEN (IF n = 1 THEN "CMD17" ELSE "CMD18")
                  ELSE (IF n = 1 THEN "CMD24" ELSE "CMD25")
       IN  IF ~FitsTable(n, drv.blk) THEN Failure("XST_FAILURE")
           ELSE Success(<< <<"SetupDma", "user", n % U16, drv.blk>> >>
                        \o CmdTransfer(cmd, "", n % U16))
    /\ UNCHANGED <<hostVars, cardVars, board, drv, count>>

Polled(dir, n) ==
    Only("SetupTransfer") \o << <<"ReadOrWrite", dir, n>> >> \o Only("CheckTransferDone")

StartTransfer(dir, n) == Only("SetupTransfer") \o << <<"StartIt", dir, n>> >>

StartIt ==
    /\ At("StartIt")
    /\ Success(<< <<"ReadOrWrite", Arg(1), Arg(2)>> >> \o Only("Started"))
    /\ UNCHANGED <<hostVars, cardVars, board, drv, count>>

\* The transfer counts as started even if its command failed
Started ==
    /\ At("Started")
    /\ IF rc = "XST_SUCCESS" THEN Success(<<>>) ELSE Failure("XST_FAILURE")
    /\ drv' = [drv EXCEPT !.busy = TRUE]
    /\ UNCHANGED <<hostVars, cardVars, board, count>>

\* What has been started is over, with an error that leaves it started, or
\* still under way
CheckTransferComplete ==
    /\ At("CheckTransferComplete")
    /\ \/ ~drv.busy /\ Failure("XST_FAILURE") /\ UNCHANGED <<sts, err, drv>>
       \/ drv.busy /\ err # {} /\ Failure("XST_FAILURE") /\ err' = {} /\ UNCHANGED <<sts, drv>>
       \/ /\ drv.busy /\ err = {} /\ "TC" \notin sts
          /\ CallEnds("XST_DEVICE_BUSY") /\ UNCHANGED <<sts, err, drv>>
       \/ /\ drv.busy /\ err = {} /\ "TC" \in sts
          /\ Success(<<>>)
          /\ sts' = sts \ {"TC"} /\ drv' = [drv EXCEPT !.busy = FALSE] /\ UNCHANGED err
    /\ UNCHANGED <<host, line, resp, moved, cardVars, board, count>>

SetStartAddr(sd) == CmdTransfer(IF sd THEN "CMD32" ELSE "CMD35", "", 0)
SetEndAddr(sd)   == CmdTransfer(IF sd THEN "CMD33" ELSE "CMD36", "", 0)
SendErase        == CmdTransfer("CMD38", "", 0) \o Only("CheckTransferDone")

\* A card without the erase commands is left alone, with success
Erase ==
    /\ At("Erase")
    /\ LET sd == drv.type = Sd
       IN  IF drv.busy \/ ~CardPresent THEN Failure("XST_FAILURE")
           ELSE Success(If(drv.erase, SetStartAddr(sd) \o SetEndAddr(sd) \o SendErase))
    /\ UNCHANGED <<hostVars, cardVars, board, drv, count>>

Sanitize ==
    /\ At("Sanitize")
    /\ IF drv.busy THEN Failure("XST_FAILURE") ELSE Success(Set_Mmc_ExtCsd("SANITIZE"))
    /\ UNCHANGED <<hostVars, cardVars, board, drv, count>>

Idle ==
    << <<"CheckBusIdle", {"cmd", "dat"}>> >> \o Only("DisableBusPower")
      \o <<<<"Reset", "ALL">>>>

-----------------------------------------------------------------------------
(* Calls.  A program initializes the card once the controller is           *)
(* configured, and uses it once it is initialized; between start and check *)
(* of a transfer it makes no call that has a use of its own for the bus.   *)

\* A transfer that was started and not checked for stays what the program
\* waits for, unless the card is taken from it
Awaited(api) == drv.busy /\ api \notin {"CardInitialize", "Idle"}

Begins(api, blocks, body) ==
    /\ todo = <<>>
    /\ call' = [api |-> api, blocks |-> blocks]
    /\ todo' = body /\ rc' = "XST_SUCCESS"
    /\ swapped' = FALSE
    /\ UNCHANGED <<host, sts, err, resp, cardVars, board, drv, count>>

\* What is still on the DAT lines belongs to an earlier call now
NewCall(api, blocks, body) ==
    /\ calls < MaxCalls
    /\ calls' = calls + 1
    /\ Begins(api, IF Awaited(api) THEN call.blocks ELSE blocks, body)
    /\ line' = [line EXCEPT !.dat = IF @ = "own" THEN "old" ELSE @]
    /\ moved' = IF Awaited(api) THEN moved ELSE {}
    /\ overdue' = (overdue \/ line.dat # "none" \/ line.cmd # "none")

Configure ==
    NewCall("CfgInitialize", 0, Only("CfgInitialize")) /\ UNCHANGED <<inited, clean>>

Initialize ==
    /\ drv.ready
    /\ NewCall("CardInitialize", 0, Only("CardInitialize"))
    /\ inited' = FALSE
    /\ clean' = (clean /\ calls = 1)

Transfer ==
    /\ inited
    /\ \E n \in BlkCnts :
         \/ NewCall("ReadPolled", n, Polled("read", n))
         \/ NewCall("WritePolled", n, Polled("write", n))
         \/ NewCall("StartReadTransfer", n, StartTransfer("read", n))
         \/ NewCall("StartWriteTransfer", n, StartTransfer("write", n))
    /\ UNCHANGED <<inited, clean>>

CheckTransfer ==
    /\ inited /\ call.api \in {"StartReadTransfer", "StartWriteTransfer", "CheckTransfer"}
    /\ Begins("CheckTransfer", call.blocks, Only("CheckTransferComplete"))
    /\ UNCHANGED <<line, moved, calls, inited, clean, overdue>>

Other ==
    /\ inited /\ ~drv.busy
    /\ \/ NewCall("Erase", 0, Only("Erase"))
       \/ drv.type # Sd /\ NewCall("Sanitize", 0, Only("Sanitize"))
       \/ drv.type = Sd /\ NewCall("Get_Status", 0, Get_Status)
       \/ drv.type = Sd /\ NewCall("Pullup", 0, Pullup)
    /\ UNCHANGED <<inited, clean>>

GoIdle ==
    /\ drv.ready
    /\ NewCall("Idle", 0, Idle)
    /\ clean' = FALSE
    /\ UNCHANGED inited

-----------------------------------------------------------------------------

DriverStep ==
    /\ \/ InitStep \/ CfgInitialize \/ SetupTransfer \/ ReadOrWrite \/ StartIt
       \/ Started \/ CheckTransferComplete \/ Erase \/ Sanitize
    /\ inited' = (inited \/ (call.api = "CardInitialize" /\ todo' = <<>> /\ rc' = "XST_SUCCESS"))
    /\ call' = IF At("Started") /\ rc # "XST_SUCCESS" THEN [call EXCEPT !.blocks = 0]
               ELSE call
    /\ UNCHANGED <<calls, clean, overdue, swapped>>

\* The answers and data that come by themselves
BusStep == (Answer \/ Silence \/ DataEnds) /\ UNCHANGED <<drvVars, callVars>>

Mishap ==
    /\ LoseAnswer \/ DamageData \/ BeLate \/ (~board.cfg.emb /\ RemoveCard)
    /\ UNCHANGED <<drvVars, callVars>>

NewCard ==
    /\ todo = <<>> /\ InsertCard
    /\ swapped' = TRUE
    /\ UNCHANGED <<drvVars, call, calls, inited, clean, overdue>>

Next ==
    \/ Configure \/ Initialize \/ Transfer \/ CheckTransfer \/ Other \/ GoIdle
    \/ DriverStep \/ BusStep \/ Mishap \/ NewCard

\* As long as a call is under way, the program runs the driver's steps or the
\* bus carries what is on it to its end
Fairness == WF_vars(DriverStep \/ BusStep)

Spec == Init /\ [][Next]_vars /\ Fairness

-----------------------------------------------------------------------------
(* Properties                                                              *)

Returned(apis) == todo = <<>> /\ call.api \in apis
Successful(apis) == Returned(apis) /\ rc = "XST_SUCCESS"

\* Types of what is not written as a whole (xsdps.h, XSdPs).
TypeOK ==
    /\ drv.mode \in Mode /\ drv.type \in {Sd, Mmc, Emmc} /\ drv.width \in {0, 1, 4, 8}
    /\ host.w \in {1, 4, 8} /\ host.blkcnt \in 0 .. U16 - 1
    /\ line.dat \in {"none", "own", "old", "stuck"} /\ line.late \subseteq {"cmd", "dat"}
    /\ sts \subseteq {"CC", "TC", "BRR"} /\ err \subseteq {"CT", "OTHER"}
    /\ rc \in {"XST_SUCCESS", "XST_FAILURE", "XSDPS_CT_ERROR", "XST_DEVICE_BUSY",
               "XST_DEVICE_IS_STARTED"}
    /\ \E n \in {OP_POLLS, ID_POLLS, MAX_TUNING} : count \in 0 .. n
    /\ faults \in 0 .. MaxFaults /\ calls \in 0 .. MaxCalls

\* XSdPs_CardInitialize, xsdps.c:246: when it reports success, driver,
\* controller and card agree on everything the transfers rely on, unless an
\* earlier call gave up something that was still under way.
InitAgrees ==
    (Successful({"CardInitialize"}) /\ inserted /\ ~swapped /\ ~overdue) =>
        /\ card.st = "tran"
        /\ (drv.type = Sd) = (card.caps.kind = "SD")
        /\ host.w = card.w /\ host.v18 = card.v18
        /\ (host.uhs = DDR) = card.ddr
        /\ host.blksz = 512 /\ drv.blk = 512
        /\ host.freq <= MaxClock(card)

\* XSdPs_Change_ClkFreq and XSdPs_Change_BusSpeed, xsdps_options.c: no
\* command of an initialization is clocked faster than the card stands in the
\* mode it is in then, unless it is one that an earlier call gave up.
ClockWithinMode ==
    (todo # <<>> /\ call.api = "CardInitialize" /\ CmdPending /\ inserted /\ ~overdue) =>
        host.freq <= MaxClock(card)

\* A card that can be initialized at all: what the driver takes is what the
\* code says, whether all its steps fit the card is the question
Supported ==
    LET c == board.cfg k == board.caps
    IN  IF c.emb THEN k.kind = "MMC" /\ c.hc = "V3" /\ k.busy < OP_POLLS
        ELSE IF k.kind = "MMC" THEN c.hc = "V2" /\ k.csd > 3 /\ k.busy <= OP_POLLS
        ELSE k.cmd6 /\ k.csd \in {0, 1} /\ k.busy < OP_POLLS /\ k.rca0 < ID_POLLS

\* With a supported card in the slot and nothing going wrong, configuration,
\* initialization and every call after them succeed (doc of XSdPs_CardInitialize,
\* xsdps.c:232: failure only without a card, or when a step fails).
CleanCallSucceeds ==
    (/\ todo = <<>> /\ clean /\ faults = 0 /\ inserted /\ Supported
     /\ call.api # "CheckTransfer" /\ call.blocks <= 4096
     /\ call.api = "CfgInitialize" => calls = 1) =>
        rc = "XST_SUCCESS" \/ drv.busy

\* XSdPs_ReadPolled, XSdPs_WritePolled and XSdPs_CheckTransferComplete: success
\* means that the whole of the caller's buffer has been moved by this transfer,
\* unless its start was refused, or an earlier call gave up something that was
\* still under way.
OwnData ==
    (Successful({"ReadPolled", "WritePolled", "CheckTransfer"})
     /\ call.blocks # 0 /\ ~overdue) => <<"user", call.blocks * 512>> \in moved

\* Every call returns: each wait of the driver ends with an event or its limit.
CallReturns == todo # <<>> ~> todo = <<>>

-----------------------------------------------------------------------------
(* A statement of the code that does not hold                              *)

\* XSdPs_CheckTransferComplete, xsdps_card.c:164: a transfer that is reported
\* busy is still in progress.
BusyIsInProgress ==
    (todo = <<>> /\ rc = "XST_DEVICE_BUSY") =>
        line.dat # "none" \/ "TC" \in sts \/ err # {}
=============================================================================
