----------------------------- MODULE SdInvariant -----------------------------
(***************************************************************************)
(* What holds between any two steps of the SD driver and makes OwnData     *)
(* true: the parts of IInv, from the types of the items of todo to what is *)
(* set up, on the lines and in the status at each stage of a transfer.     *)
(***************************************************************************)
EXTENDS SdSystem

-----------------------------------------------------------------------------
(* Items of todo                                                           *)

Commands ==
    {"CMD0", "CMD1", "CMD2", "CMD3", "CMD6", "CMD7", "CMD8", "CMD9", "CMD11",
     "CMD16", "CMD17", "CMD18", "CMD19", "CMD21", "CMD24", "CMD25", "CMD32",
     "CMD33", "CMD35", "CMD36", "CMD38", "CMD55", "ACMD6", "ACMD13", "ACMD41",
     "ACMD42", "ACMD51"}

Arguments ==
    {"", "512", "HCS", "S18", "PATTERN", "GET", "RST", "SANITIZE", "1", "4", "8",
     "DDR4", "DDR8", "SDR12", "SDR25", "SDR50", "SDR104", "DDR50", "HS", "HS200"}

Buffers == {"user", "SCR", "SWITCH", "EXT_CSD", "STATUS", "MODE"}

CmdItem ==
    ({"SetupCmd"} \X Commands \X Arguments \X (0 .. U16 - 1))
      \cup ({"SendCmd"} \X Commands \X Arguments)
      \cup ({"CmdDone"} \X Commands)

\* Items without an argument that InitStep does or puts in front of todo
InitNames ==
    {"CheckTransferDone", "DisableBusPower", "EnableBusPower", "HostConfig",
     "Change_ClkFreq", "CardSetVoltage18", "DllReset", "AutoTuning", "TuningBlock",
     "BlkSizeSet", "Get_BusWidth", "Get_BusSpeed", "Get_Mmc_ExtCsd",
     "Change_BusWidth", "BusWidthChanged", "Change_BusSpeed", "SpeedSwitched",
     "HighSpeed", "CheckCardDetect", "IdentifyCard", "TryCmd1", "Cmd1Tried",
     "Cmd8Tried", "VersionRead", "CardOpCond", "GetCardId", "CsdRead", "ScrRead",
     "SpeedRead", "UhsMode", "MmcModeInit", "MmcSpeed", "EmmcModeInit",
     "EmmcSpeed", "TimingRead", "RstFunction", "SdCardInitialize", "MmcMode",
     "MmcBlkSize", "CardInitialize", "TypeInit"}

PlainItem ==
    CmdItem \cup {<<f>> : f \in InitNames}
      \cup ({"CheckBusIdle"} \X SUBSET {"cmd", "dat"})
      \cup ({"SetupDma"} \X Buffers \X (0 .. U16 - 1) \X Nat)
      \cup ({"Reset"} \X {"ALL", "CMD"}) \cup ({"BusLines"} \X {"low", "high"})
      \cup ({"Identified"} \X Nat)

\* Ends of a round of a poll
PollItem == {<<"OcrRead">>, <<"RcaRead">>}
InitItem == PlainItem \cup PollItem

\* What only the calls have
CallItem ==
    {<<f>> : f \in {"CfgInitialize", "SetupTransfer", "Started",
                    "CheckTransferComplete", "Erase", "Sanitize"}}
      \cup ({"ReadOrWrite", "StartIt"} \X {"read", "write"} \X BlkCnts)

Item == InitItem \cup CallItem

-----------------------------------------------------------------------------

Typed ==
    /\ TypeOK
    /\ todo \in Seq(Item)
    /\ DOMAIN drv = DOMAIN NewDriver(drv.cfg) /\ drv.blk \in {0, 512}
    /\ DOMAIN host = DOMAIN ResetHost(host)
    /\ DOMAIN line = DOMAIN FreeLines
    /\ DOMAIN call = {"api", "blocks"} /\ call.blocks \in {0} \cup BlkCnts

\* In a round of a poll, only a command is before the look at its answer, and
\* the round is counted
Polling ==
    \A i \in 1 .. Len(todo) :
        todo[i] \in PollItem => count > 0 /\ \A j \in 1 .. i - 1 : todo[j] \in CmdItem

\* Data of an earlier call is on the lines
OldIsOverdue == line.dat = "old" => overdue

\* The last step of an initialization sets the block length
LastNames == {"CardInitialize", "TypeInit", "SdCardInitialize", "MmcBlkSize", "BlkSizeSet"}

Initializing ==
    (call.api = "CardInitialize" /\ todo # <<>>) =>
        todo \in Seq(InitItem) /\ todo[Len(todo)][1] \in LastNames

Configured ==
    /\ call.api = "CardInitialize" \/ inited => drv.ready
    /\ inited => drv.blk = 512

-----------------------------------------------------------------------------
(* A transfer                                                              *)

\* todo is the end of the sequence t
EndOf(t) ==
    /\ Len(todo) \in 1 .. Len(t)
    /\ \A i \in 1 .. Len(todo) : todo[i] = t[Len(t) - Len(todo) + i]

DataCmds == {"CMD17", "CMD18", "CMD24", "CMD25"}

\* The data command of a transfer of n blocks, and what the call does after it
Data(cmd, n, then) ==
    << <<"SetupDma", "user", n, 512>> >> \o CmdTransfer(cmd, "", n) \o Only(then)

\* A command on its way that uses the DAT lines, or data on them
Carries ==
    line.cmd \notin {"none", "stuck"} /\ (line.frame.dat \/ line.frame.resp = "R1b")
OnBus == line.dat = "own" \/ Carries

\* Buffer and length, and the number of blocks
BufferSet ==
    /\ host.dma = [into |-> "user", bytes |-> call.blocks * 512]
    /\ host.blksz = 512
Settings == BufferSet /\ host.blkcnt = call.blocks

\* Transfer complete means this transfer
OwnEnd == "TC" \in sts => <<"user", call.blocks * 512>> \in moved

Starting == call.api \in {"StartReadTransfer", "StartWriteTransfer"}

\* The call looks for a transfer that is under way, and for the controller
Refusable ==
    \E dir \in {"read", "write"}, n \in BlkCnts :
        /\ drv.busy \/ (n = call.blocks /\ (overdue \/ ~OnBus))
        /\ todo = Polled(dir, n) \/ (todo = StartTransfer(dir, n) /\ Starting)

\* It sets the block length, where it has to; nothing moves
Preparing ==
    /\ overdue \/ ~OnBus
    /\ \E dir \in {"read", "write"} :
         \/ EndOf(SetBlkSize \o Tail(Polled(dir, call.blocks))) /\ Len(todo) >= 2
         \/ EndOf(SetBlkSize \o Tail(StartTransfer(dir, call.blocks))) /\ Starting
         \/ todo = << <<"ReadOrWrite", dir, call.blocks>>, <<"Started">> >> /\ Starting

\* It gives the data command and waits for its answer, or for the data; from
\* SetupCmd on the status is that of this transfer
Moving ==
    \E cmd \in DataCmds, then \in {"CheckTransferDone", "Started"} :
        /\ call.blocks < U16 /\ EndOf(Data(cmd, call.blocks, then))
        /\ then = "Started" => Starting
        /\ overdue \/ /\ Len(todo) >= 3 => ~OnBus
                      /\ Len(todo) = 4 => BufferSet
                      /\ Len(todo) = 3 => Settings
                      /\ Len(todo) <= 3 => OwnEnd

\* It is refused, or fails before it counts as started
NotStarted == todo = Only("Started") /\ rc # "XST_SUCCESS"

Checking == todo = Only("CheckTransferComplete") \/ todo = Only("CfgInitialize")

\* Stages of a call as long as the program waits for a transfer
Stages ==
    call.blocks # 0 =>
        /\ inited /\ call.api # "CardInitialize"
        /\ \/ todo = <<>> \/ Refusable \/ Checking
           \/ ~drv.busy /\ (Preparing \/ Moving \/ NotStarted)

\* Nothing is moved but what is set up, and a transfer that is started has its
\* own status
OwnTransfer ==
    (call.blocks # 0 /\ ~overdue) =>
        /\ OnBus => Settings
        /\ line.cmd # "none" => line.frame.resp # "R6"
        /\ drv.busy => OwnEnd

IInv ==
    /\ Typed /\ Polling /\ OldIsOverdue
    /\ Initializing /\ Configured
    /\ Stages /\ OwnTransfer /\ OwnData
=============================================================================
