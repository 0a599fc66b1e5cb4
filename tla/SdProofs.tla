------------------------------ MODULE SdProofs -------------------------------
(***************************************************************************)
(* Proofs about the SD card driver: the invariant IInv of SdInvariant is   *)
(* inductive, for every set of boards, every number of calls, faults and   *)
(* rounds of the polls, and every block count; OwnData and the types       *)
(* follow from it.                                                         *)
(*                                                                         *)
(* First come the functions of the driver: whatever a step puts in front   *)
(* of todo is made of known items, and each step keeps the types and what  *)
(* it does not write.  Then the calls: which step is the first of todo,    *)
(* what an initialization ends with, what a call begins with.  Then a      *)
(* transfer: its items one by one, and what is set up, on the lines and in *)
(* the status before each of them (Outcome).                               *)
(***************************************************************************)
EXTENDS SdInvariant, SequenceTheorems, WellFoundedInduction, TLAPS

-----------------------------------------------------------------------------
(* Sequences of items                                                      *)

LEMMA Concat ==
    ASSUME NEW S, NEW s \in Seq(S), NEW t \in Seq(S)
    PROVE  /\ s \o t \in Seq(S)
           /\ Len(s \o t) = Len(s) + Len(t)
           /\ \A i \in 1 .. Len(s) : (s \o t)[i] = s[i]
           /\ \A i \in 1 .. Len(t) : (s \o t)[Len(s) + i] = t[i]
  BY ConcatProperties

LEMMA One ==
    ASSUME NEW S, NEW x \in S PROVE <<x>> \in Seq(S)
  OBVIOUS

LEMMA CmdSeq ==
    ASSUME NEW cmd \in Commands, NEW arg \in Arguments, NEW n \in 0 .. U16 - 1
    PROVE  CmdTransfer(cmd, arg, n) \in Seq(CmdItem)
  BY DEF CmdTransfer, CmdItem

LEMMA PlainSeq ==
    ASSUME NEW s \in Seq(CmdItem)
    PROVE  s \in Seq(PlainItem)
<1>1. CmdItem \subseteq PlainItem
  BY DEF PlainItem
<1>2. QED
  BY <1>1

LEMMA PlainItems ==
    /\ \A f \in InitNames : <<f>> \in PlainItem
    /\ \A ls \in SUBSET {"cmd", "dat"} : <<"CheckBusIdle", ls>> \in PlainItem
    /\ \A into \in Buffers, n \in 0 .. U16 - 1, size \in Nat :
         <<"SetupDma", into, n, size>> \in PlainItem
    /\ \A what \in {"ALL", "CMD"} : <<"Reset", what>> \in PlainItem
    /\ \A what \in {"low", "high"} : <<"BusLines", what>> \in PlainItem
    /\ \A hz \in Nat : <<"Identified", hz>> \in PlainItem
  BY DEF PlainItem

\* What is put in front of todo: a command, a step, an item with an argument
LEMMA PlainCmd ==
    \A cmd \in Commands, arg \in Arguments :
        /\ CmdTransfer(cmd, arg, 0) \in Seq(PlainItem)
        /\ CmdTransfer(cmd, arg, 1) \in Seq(PlainItem)
<1>1. 0 \in 0 .. U16 - 1 /\ 1 \in 0 .. U16 - 1
  BY DEF U16
<1>2. QED
  BY <1>1, CmdSeq, PlainSeq

LEMMA PlainOnly == \A f \in InitNames : Only(f) \in Seq(PlainItem)
  BY PlainItems, One DEF Only

LEMMA PlainOne ==
    /\ << <<"CheckBusIdle", {"cmd", "dat"}>> >> \in Seq(PlainItem)
    /\ \A what \in {"ALL", "CMD"} : <<<<"Reset", what>>>> \in Seq(PlainItem)
    /\ \A what \in {"low", "high"} : <<<<"BusLines", what>>>> \in Seq(PlainItem)
    /\ \A hz \in Nat : <<<<"Identified", hz>>>> \in Seq(PlainItem)
    /\ \A into \in Buffers, size \in Nat : << <<"SetupDma", into, 1, size>> >> \in Seq(PlainItem)
<1>1. <<"CheckBusIdle", {"cmd", "dat"}>> \in PlainItem
  BY PlainItems
<1>2. 1 \in 0 .. U16 - 1
  BY DEF U16
<1>3. QED
  BY <1>1, <1>2, PlainItems, One

LEMMA PlainIf ==
    ASSUME NEW c, NEW s \in Seq(PlainItem)
    PROVE  If(c, s) \in Seq(PlainItem)
  BY DEF If

LEMMA SetBlkSizeItems == SetBlkSize \in Seq(PlainItem)
<1>1. << <<"CheckBusIdle", {"cmd", "dat"}>> >> \in Seq(PlainItem)
  BY PlainOne
<1>2. CmdTransfer("CMD16", "512", 0) \in Seq(PlainItem)
  BY PlainCmd DEF Commands, Arguments
<1>3. Only("BlkSizeSet") \in Seq(PlainItem)
  BY PlainOnly DEF InitNames
<1>4. QED
  BY <1>1, <1>2, <1>3, Concat DEF SetBlkSize

LEMMA ReadCmdItems ==
    ASSUME NEW cmd \in Commands, NEW arg \in Arguments, NEW into \in Buffers, NEW size \in Nat
    PROVE  ReadCmd(cmd, arg, into, 1, size) \in Seq(PlainItem)
<1>1. << <<"SetupDma", into, 1, size>> >> \in Seq(PlainItem)
  BY PlainOne
<1>2. CmdTransfer(cmd, arg, 1) \in Seq(PlainItem)
  BY PlainCmd
<1>3. Only("CheckTransferDone") \in Seq(PlainItem)
  BY PlainOnly DEF InitNames
<1>4. QED
  BY <1>1, <1>2, <1>3, Concat DEF ReadCmd

LEMMA AppCmdItems ==
    ASSUME NEW cmd \in Commands, NEW arg \in Arguments
    PROVE  AppCmd(cmd, arg) \in Seq(PlainItem)
<1>1. CmdTransfer("CMD55", "", 0) \in Seq(PlainItem)
  BY PlainCmd DEF Commands, Arguments
<1>2. CmdTransfer(cmd, arg, 0) \in Seq(PlainItem)
  BY PlainCmd
<1>3. QED
  BY <1>1, <1>2, Concat DEF AppCmd

LEMMA SetExtCsdItems ==
    ASSUME NEW arg \in Arguments
    PROVE  Set_Mmc_ExtCsd(arg) \in Seq(PlainItem)
<1>1. CmdTransfer("CMD6", arg, 0) \in Seq(PlainItem)
  BY PlainCmd DEF Commands
<1>2. Only("CheckTransferDone") \in Seq(PlainItem)
  BY PlainOnly DEF InitNames
<1>3. QED
  BY <1>1, <1>2, Concat DEF Set_Mmc_ExtCsd

LEMMA TuningItems == Execute_Tuning \in Seq(PlainItem)
<1>1. Only("DllReset") \in Seq(PlainItem)
  BY PlainOnly DEF InitNames
<1>2. Only("AutoTuning") \in Seq(PlainItem)
  BY PlainOnly DEF InitNames
<1>3. QED
  BY <1>1, <1>2, Concat DEF Execute_Tuning

LEMMA ResetConfigItems == ResetConfig \in Seq(PlainItem)
<1>1. Only("DisableBusPower") \in Seq(PlainItem)
  BY PlainOnly DEF InitNames
<1>2. <<<<"Reset", "ALL">>>> \in Seq(PlainItem)
  BY PlainOne
<1>3. Only("EnableBusPower") \in Seq(PlainItem)
  BY PlainOnly DEF InitNames
<1>4. QED
  BY <1>1, <1>2, <1>3, Concat DEF ResetConfig

LEMMA SwitchVoltageItems == Switch_Voltage \in Seq(PlainItem)
<1>1. CmdTransfer("CMD11", "", 0) \in Seq(PlainItem)
  BY PlainCmd DEF Commands, Arguments
<1>2. <<<<"BusLines", "low">>>> \in Seq(PlainItem)
  BY PlainOne
<1>3. Only("CardSetVoltage18") \in Seq(PlainItem)
  BY PlainOnly DEF InitNames
<1>4. <<<<"BusLines", "high">>>> \in Seq(PlainItem)
  BY PlainOne
<1>5. QED
  BY <1>1, <1>2, <1>3, <1>4, Concat DEF Switch_Voltage, SetupVoltageSwitch, CheckBusHigh

LEMMA TimingItems == CheckEmmcTiming \in Seq(PlainItem)
<1>1. Only("Get_Mmc_ExtCsd") \in Seq(PlainItem)
  BY PlainOnly DEF InitNames
<1>2. Only("TimingRead") \in Seq(PlainItem)
  BY PlainOnly DEF InitNames
<1>3. QED
  BY <1>1, <1>2, Concat DEF CheckEmmcTiming

LEMMA SpeedItems ==
    ASSUME NEW arg \in Arguments
    PROVE  CardBusSpeed(arg) \in Seq(PlainItem)
<1>1. ReadCmd("CMD6", arg, "MODE", 1, 64) \in Seq(PlainItem)
  BY ReadCmdItems DEF Commands, Buffers
<1>2. Only("SpeedSwitched") \in Seq(PlainItem)
  BY PlainOnly DEF InitNames
<1>3. Set_Mmc_ExtCsd(arg) \in Seq(PlainItem)
  BY SetExtCsdItems
<1>4. QED
  BY <1>1, <1>2, <1>3, Concat DEF CardBusSpeed, Change_SdBusSpeed, Change_MmcBusSpeed

LEMMA IfCondItems == CardIfCond \in Seq(PlainItem)
<1>1. CmdTransfer("CMD8", "PATTERN", 0) \in Seq(PlainItem)
  BY PlainCmd DEF Commands, Arguments
<1>2. Only("Cmd8Tried") \in Seq(PlainItem)
  BY PlainOnly DEF InitNames
<1>3. QED
  BY <1>1, <1>2, Concat DEF CardIfCond

LEMMA GetCsdItems == GetCsd \in Seq(PlainItem)
<1>1. CmdTransfer("CMD9", "", 0) \in Seq(PlainItem)
  BY PlainCmd DEF Commands, Arguments
<1>2. Only("CsdRead") \in Seq(PlainItem)
  BY PlainOnly DEF InitNames
<1>3. QED
  BY <1>1, <1>2, Concat DEF GetCsd

LEMMA SelectItems ==
    ASSUME NEW hz \in Nat
    PROVE  ClockAndSelect(hz) \in Seq(PlainItem)
<1>1. <<<<"Identified", hz>>>> \in Seq(PlainItem)
  BY PlainOne
<1>2. Only("Change_ClkFreq") \in Seq(PlainItem)
  BY PlainOnly DEF InitNames
<1>3. CmdTransfer("CMD7", "", 0) \in Seq(PlainItem)
  BY PlainCmd DEF Commands, Arguments
<1>4. QED
  BY <1>1, <1>2, <1>3, Concat DEF ClockAndSelect, Select_Card

LEMMA SdEnumItems == SdCardEnum \in Seq(PlainItem)
<1>1. Only("CheckCardDetect") \in Seq(PlainItem)
  BY PlainOnly DEF InitNames
<1>2. CmdTransfer("CMD0", "", 0) \in Seq(PlainItem)
  BY PlainCmd DEF Commands, Arguments
<1>3. CardIfCond \in Seq(PlainItem)
  BY IfCondItems
<1>4. Only("CardOpCond") \in Seq(PlainItem)
  BY PlainOnly DEF InitNames
<1>5. Only("GetCardId") \in Seq(PlainItem)
  BY PlainOnly DEF InitNames
<1>6. GetCsd \in Seq(PlainItem)
  BY GetCsdItems
<1>7. ClockAndSelect(IF drv.cfg.hc = "V3" THEN MHz(19) ELSE MHz(25)) \in Seq(PlainItem)
  BY SelectItems DEF MHz
<1>8. QED
  BY <1>1, <1>2, <1>3, <1>4, <1>5, <1>6, <1>7, Concat DEF SdCardEnum, CardReset

LEMMA MmcEnumItems == MmcCardEnum \in Seq(PlainItem)
<1>1. Only("CheckCardDetect") \in Seq(PlainItem)
  BY PlainOnly DEF InitNames
<1>2. CmdTransfer("CMD0", "", 0) \in Seq(PlainItem)
  BY PlainCmd DEF Commands, Arguments
<1>3. Only("CardOpCond") \in Seq(PlainItem)
  BY PlainOnly DEF InitNames
<1>4. Only("GetCardId") \in Seq(PlainItem)
  BY PlainOnly DEF InitNames
<1>5. GetCsd \in Seq(PlainItem)
  BY GetCsdItems
<1>6. ClockAndSelect(MHz(26)) \in Seq(PlainItem)
  BY SelectItems DEF MHz
<1>7. QED
  BY <1>1, <1>2, <1>3, <1>4, <1>5, <1>6, Concat DEF MmcCardEnum, CardReset

LEMMA SdModeItems == SdModeInit \in Seq(PlainItem)
<1>1. Only("Get_BusWidth") \in Seq(PlainItem)
  BY PlainOnly DEF InitNames
<1>2. Only("ScrRead") \in Seq(PlainItem)
  BY PlainOnly DEF InitNames
<1>3. Only("Get_BusSpeed") \in Seq(PlainItem)
  BY PlainOnly DEF InitNames
<1>4. Only("SpeedRead") \in Seq(PlainItem)
  BY PlainOnly DEF InitNames
<1>5. SetBlkSize \in Seq(PlainItem)
  BY SetBlkSizeItems
<1>6. QED
  BY <1>1, <1>2, <1>3, <1>4, <1>5, Concat DEF SdModeInit

LEMMA MmcInitItems == MmcCardInitialize \in Seq(PlainItem)
<1>1. MmcCardEnum \in Seq(PlainItem)
  BY MmcEnumItems
<1>2. Only("MmcMode") \in Seq(PlainItem)
  BY PlainOnly DEF InitNames
<1>3. Only("MmcBlkSize") \in Seq(PlainItem)
  BY PlainOnly DEF InitNames
<1>4. QED
  BY <1>1, <1>2, <1>3, Concat DEF MmcCardInitialize

-----------------------------------------------------------------------------
(* What a step of the driver does to todo                                  *)

CmdNames == {"SetupCmd", "SendCmd", "CmdDone"}
Codes == {"XST_FAILURE", "XSDPS_CT_ERROR"}

\* Goes on, starts a round of a poll, or fails
Flow ==
    \/ \E next \in Seq(PlainItem) :
          Success(next) /\ (todo[1] \in CmdItem => next = <<>> /\ count' = count)
    \/ \E s \in Seq(CmdItem), p \in PollItem :
          Success(s \o <<p>>) /\ count' > 0 /\ todo[1] \notin CmdItem
    \/ \E code \in Codes : Failure(code)

LEMMA NotCommand ==
    ASSUME NEW f, f \notin CmdNames, At(f)
    PROVE  todo[1] \notin CmdItem
  BY DEF At, CmdItem, CmdNames

LEMMA GoesOn ==
    ASSUME NEW f, f \notin CmdNames, At(f), NEW next \in Seq(PlainItem), Success(next)
    PROVE  Flow
<1>1. todo[1] \notin CmdItem
  BY NotCommand
<1>2. QED
  BY <1>1 DEF Flow

LEMMA Fails ==
    ASSUME Failure("XST_FAILURE") PROVE Flow
  BY DEF Flow, Codes

LEMMA Empty == <<>> \in Seq(PlainItem) /\ <<>> \in Seq(CmdItem)
  OBVIOUS


LEMMA FirstPoll ==
    ASSUME todo \in Seq(Item), At("OcrRead") \/ At("RcaRead")
    PROVE  todo[1] \in PollItem /\ Len(todo) >= 1
<1>1. todo # <<>> /\ todo[1] \in Item /\ Len(todo) >= 1 /\ todo[1][1] \in {"OcrRead", "RcaRead"}
  BY DEF At
<1>2. QED
  BY <1>1 DEF Item, InitItem, PlainItem, CmdItem, InitNames, CallItem

LEMMA OpRound == \E s \in Seq(CmdItem) : OpCondRound = s \o << <<"OcrRead">> >>
<1> DEFINE s18 == drv.cfg.hc = "V3" /\ drv.cfg.BusWidth = 8
           arg == IF s18 THEN "S18" ELSE ""
           s == IF drv.type = Sd THEN CmdTransfer("CMD55", "", 0) \o CmdTransfer("ACMD41", arg, 0)
                ELSE CmdTransfer("CMD1", "HCS", 0)
<1>1. OpCondRound = s \o << <<"OcrRead">> >>
  BY Zenon DEF OpCondRound, Only
<1>2. arg \in Arguments
  BY DEF Arguments
<1>3. 0 \in 0 .. U16 - 1
  BY DEF U16
<1>4. CmdTransfer("CMD55", "", 0) \in Seq(CmdItem) /\ CmdTransfer("CMD1", "HCS", 0) \in Seq(CmdItem)
  BY <1>3, CmdSeq DEF Commands, Arguments
<1>5. "ACMD41" \in Commands
  BY DEF Commands
<1> HIDE DEF arg
<1>6. CmdTransfer("ACMD41", arg, 0) \in Seq(CmdItem)
  BY <1>2, <1>3, <1>5, CmdSeq
<1>7. s \in Seq(CmdItem)
  BY <1>4, <1>6, Concat
<1>8. QED
  BY <1>1, <1>7

LEMMA StepFlow ==
    ASSUME InitStep, drv.mode \in Mode, Polling, todo \in Seq(Item), count \in Nat,
           {OP_POLLS, ID_POLLS} \subseteq Nat \ {0}
    PROVE  Flow
<1>1. CASE CheckBusIdle
  <2>1. At("CheckBusIdle") /\ "CheckBusIdle" \notin CmdNames
    BY <1>1 DEF CheckBusIdle, CmdNames
  <2>2. QED
    BY <1>1, <2>1, GoesOn, Fails, Empty DEF CheckBusIdle
<1>2. CASE CheckTransferDone
  <2>1. At("CheckTransferDone") /\ "CheckTransferDone" \notin CmdNames
    BY <1>2 DEF CheckTransferDone, CmdNames
  <2>2. QED
    BY <1>2, <2>1, GoesOn, Fails, Empty DEF CheckTransferDone
<1>3. CASE SetupReadDma
  <2>1. At("SetupDma") /\ "SetupDma" \notin CmdNames
    BY <1>3 DEF SetupReadDma, CmdNames
  <2>2. QED
    BY <1>3, <2>1, GoesOn, Fails, Empty DEF SetupReadDma
<1>4. CASE PowerOff
  <2>1. At("DisableBusPower") /\ "DisableBusPower" \notin CmdNames
    BY <1>4 DEF PowerOff, CmdNames
  <2>2. QED
    BY <1>4, <2>1, GoesOn, Fails, Empty DEF PowerOff
<1>5. CASE PowerOn
  <2>1. At("EnableBusPower") /\ "EnableBusPower" \notin CmdNames
    BY <1>5 DEF PowerOn, CmdNames
  <2>2. QED
    BY <1>5, <2>1, GoesOn, Fails, Empty DEF PowerOn
<1>6. CASE Reset
  <2>1. At("Reset") /\ "Reset" \notin CmdNames
    BY <1>6 DEF Reset, CmdNames
  <2>2. QED
    BY <1>6, <2>1, GoesOn, Fails, Empty DEF Reset
<1>7. CASE HostConfigured
  <2>1. At("HostConfig") /\ "HostConfig" \notin CmdNames
    BY <1>7 DEF HostConfigured, CmdNames
  <2>2. QED
    BY <1>7, <2>1, GoesOn, Fails, Empty DEF HostConfigured
<1>8. CASE Change_ClkFreq
  <2>1. At("Change_ClkFreq") /\ "Change_ClkFreq" \notin CmdNames
    BY <1>8 DEF Change_ClkFreq, CmdNames
  <2>2. QED
    BY <1>8, <2>1, GoesOn, Fails, Empty DEF Change_ClkFreq, Clocked
<1>9. CASE CardSetVoltage18
  <2>1. At("CardSetVoltage18") /\ "CardSetVoltage18" \notin CmdNames
    BY <1>9 DEF CardSetVoltage18, CmdNames
  <2>2. QED
    BY <1>9, <2>1, GoesOn, Fails, Empty DEF CardSetVoltage18, Clocked
<1>10. CASE DllReset
  <2>1. At("DllReset") /\ "DllReset" \notin CmdNames
    BY <1>10 DEF DllReset, CmdNames
  <2>2. QED
    BY <1>10, <2>1, GoesOn, Fails, Empty DEF DllReset, Clocked
<1>11. CASE BusLines
  <2>1. At("BusLines") /\ "BusLines" \notin CmdNames
    BY <1>11 DEF BusLines, CmdNames
  <2>2. QED
    BY <1>11, <2>1, GoesOn, Fails, Empty DEF BusLines
<1>12. CASE AutoTuning
  <2>1. At("AutoTuning") /\ "AutoTuning" \notin CmdNames
    BY <1>12 DEF AutoTuning, CmdNames
  <2>2. Only("TuningBlock") \in Seq(PlainItem)
    BY PlainOnly DEF InitNames
  <2>3. QED
    BY <1>12, <2>1, <2>2, GoesOn, Fails, Empty DEF AutoTuning
<1>13. CASE TuningBlock
  <2>1. At("TuningBlock") /\ "TuningBlock" \notin CmdNames
    BY <1>13 DEF TuningBlock, CmdNames
  <2>2. CmdTransfer(IF drv.type = Sd THEN "CMD19" ELSE "CMD21", "", 1) \in Seq(PlainItem)
    BY PlainCmd DEF Commands, Arguments
  <2>3. Only("TuningBlock") \in Seq(PlainItem)
    BY PlainOnly DEF InitNames
  <2>4. CmdTransfer(IF drv.type = Sd THEN "CMD19" ELSE "CMD21", "", 1) \o Only("TuningBlock") \in Seq(PlainItem)
    BY <2>2, <2>3, Concat
  <2>5. QED
    BY <1>13, <2>1, <2>4, GoesOn, Fails, Empty DEF TuningBlock
<1>14. CASE BlkSizeSet
  <2>1. At("BlkSizeSet") /\ "BlkSizeSet" \notin CmdNames
    BY <1>14 DEF BlkSizeSet, CmdNames
  <2>2. QED
    BY <1>14, <2>1, GoesOn, Fails, Empty DEF BlkSizeSet
<1>15. CASE Get_BusWidth
  <2>1. At("Get_BusWidth") /\ "Get_BusWidth" \notin CmdNames
    BY <1>15 DEF Get_BusWidth, CmdNames
  <2>2. CmdTransfer("CMD55", "", 0) \in Seq(PlainItem)
    BY PlainCmd DEF Commands, Arguments
  <2>3. ReadCmd("ACMD51", "", "SCR", 1, 8) \in Seq(PlainItem)
    <3>1. "ACMD51" \in Commands /\ "" \in Arguments /\ "SCR" \in Buffers
      BY DEF Commands, Arguments, Buffers
    <3>2. 8 \in Nat
      OBVIOUS
    <3>3. QED
      BY <3>1, <3>2, ReadCmdItems
  <2>4. CmdTransfer("CMD55", "", 0) \o ReadCmd("ACMD51", "", "SCR", 1, 8) \in Seq(PlainItem)
    BY <2>2, <2>3, Concat
  <2>5. QED
    BY <1>15, <2>1, <2>4, GoesOn, Fails, Empty DEF Get_BusWidth
<1>16. CASE Get_BusSpeed
  <2>1. At("Get_BusSpeed") /\ "Get_BusSpeed" \notin CmdNames
    BY <1>16 DEF Get_BusSpeed, CmdNames
  <2>2. ReadCmd("CMD6", "GET", "SWITCH", 1, 64) \in Seq(PlainItem)
    <3>1. "CMD6" \in Commands /\ "GET" \in Arguments /\ "SWITCH" \in Buffers
      BY DEF Commands, Arguments, Buffers
    <3>2. 64 \in Nat
      OBVIOUS
    <3>3. QED
      BY <3>1, <3>2, ReadCmdItems
  <2>3. QED
    BY <1>16, <2>1, <2>2, GoesOn, Fails, Empty DEF Get_BusSpeed
<1>17. CASE Get_Mmc_ExtCsd
  <2>1. At("Get_Mmc_ExtCsd") /\ "Get_Mmc_ExtCsd" \notin CmdNames
    BY <1>17 DEF Get_Mmc_ExtCsd, CmdNames
  <2>2. ReadCmd("CMD8", "", "EXT_CSD", 1, 512) \in Seq(PlainItem)
    <3>1. "CMD8" \in Commands /\ "" \in Arguments /\ "EXT_CSD" \in Buffers
      BY DEF Commands, Arguments, Buffers
    <3>2. 512 \in Nat
      OBVIOUS
    <3>3. QED
      BY ZenonT(60), <3>1, <3>2, ReadCmdItems
  <2>3. QED
    BY <1>17, <2>1, <2>2, GoesOn, Fails, Empty DEF Get_Mmc_ExtCsd
<1>18. CASE BusWidthChanged
  <2>1. At("BusWidthChanged") /\ "BusWidthChanged" \notin CmdNames
    BY <1>18 DEF BusWidthChanged, CmdNames
  <2>2. QED
    BY <1>18, <2>1, GoesOn, Fails, Empty DEF BusWidthChanged
<1>19. CASE SpeedSwitched
  <2>1. At("SpeedSwitched") /\ "SpeedSwitched" \notin CmdNames
    BY <1>19 DEF SpeedSwitched, CmdNames
  <2>2. QED
    BY <1>19, <2>1, GoesOn, Fails, Empty DEF SpeedSwitched
<1>20. CASE HighSpeed
  <2>1. At("HighSpeed") /\ "HighSpeed" \notin CmdNames
    BY <1>20 DEF HighSpeed, CmdNames
  <2>2. QED
    BY <1>20, <2>1, GoesOn, Fails, Empty DEF HighSpeed
<1>21. CASE CheckCardDetect
  <2>1. At("CheckCardDetect") /\ "CheckCardDetect" \notin CmdNames
    BY <1>21 DEF CheckCardDetect, CmdNames
  <2>2. QED
    BY <1>21, <2>1, GoesOn, Fails, Empty DEF CheckCardDetect
<1>22. CASE IdentifyCard
  <2>1. At("IdentifyCard") /\ "IdentifyCard" \notin CmdNames
    BY <1>22 DEF IdentifyCard, CmdNames
  <2>2. CmdTransfer("CMD0", "", 0) \in Seq(PlainItem)
    BY PlainCmd DEF Commands, Arguments
  <2>3. Only("TryCmd1") \in Seq(PlainItem)
    BY PlainOnly DEF InitNames
  <2>4. CmdTransfer("CMD0", "", 0) \o Only("TryCmd1") \in Seq(PlainItem)
    BY <2>2, <2>3, Concat
  <2>5. QED
    BY <1>22, <2>1, <2>4, GoesOn, Fails, Empty DEF IdentifyCard
<1>23. CASE TryCmd1
  <2>1. At("TryCmd1") /\ "TryCmd1" \notin CmdNames
    BY <1>23 DEF TryCmd1, CmdNames
  <2>2. CmdTransfer("CMD1", "HCS", 0) \in Seq(PlainItem)
    BY PlainCmd DEF Commands, Arguments
  <2>3. Only("Cmd1Tried") \in Seq(PlainItem)
    BY PlainOnly DEF InitNames
  <2>4. <<<<"Reset", "CMD">>>> \in Seq(PlainItem)
    BY PlainOne
  <2>5. CmdTransfer("CMD1", "HCS", 0) \o Only("Cmd1Tried") \o <<<<"Reset", "CMD">>>> \in Seq(PlainItem)
    BY <2>2, <2>3, <2>4, Concat
  <2>6. QED
    BY <1>23, <2>1, <2>5, GoesOn, Fails, Empty DEF TryCmd1
<1>24. CASE Cmd1Tried
  <2>1. At("Cmd1Tried") /\ "Cmd1Tried" \notin CmdNames
    BY <1>24 DEF Cmd1Tried, CmdNames
  <2>2. QED
    BY <1>24, <2>1, GoesOn, Fails, Empty DEF Cmd1Tried
<1>25. CASE Cmd8Tried
  <2>1. At("Cmd8Tried") /\ "Cmd8Tried" \notin CmdNames
    BY <1>25 DEF Cmd8Tried, CmdNames
  <2>2. <<<<"Reset", "CMD">>>> \in Seq(PlainItem)
    BY PlainOne
  <2>3. If(rc = "XSDPS_CT_ERROR", <<<<"Reset", "CMD">>>>) \in Seq(PlainItem)
    BY <2>2, PlainIf
  <2>4. Only("VersionRead") \in Seq(PlainItem)
    BY PlainOnly DEF InitNames
  <2>5. If(rc = "XSDPS_CT_ERROR", <<<<"Reset", "CMD">>>>) \o Only("VersionRead") \in Seq(PlainItem)
    BY <2>3, <2>4, Concat
  <2>6. QED
    BY <1>25, <2>1, <2>5, GoesOn, Fails, Empty DEF Cmd8Tried
<1>26. CASE VersionRead
  <2>1. At("VersionRead") /\ "VersionRead" \notin CmdNames
    BY <1>26 DEF VersionRead, CmdNames
  <2>2. QED
    BY <1>26, <2>1, GoesOn, Fails, Empty DEF VersionRead
<1>27. CASE CsdRead
  <2>1. At("CsdRead") /\ "CsdRead" \notin CmdNames
    BY <1>27 DEF CsdRead, CmdNames
  <2>2. QED
    BY <1>27, <2>1, GoesOn, Fails, Empty DEF CsdRead
<1>28. CASE Identified
  <2>1. At("Identified") /\ "Identified" \notin CmdNames
    BY <1>28 DEF Identified, CmdNames
  <2>2. QED
    BY <1>28, <2>1, GoesOn, Fails, Empty DEF Identified
<1>29. CASE ScrRead
  <2>1. At("ScrRead") /\ "ScrRead" \notin CmdNames
    BY <1>29 DEF ScrRead, CmdNames
  <2>2. Only("Change_BusWidth") \in Seq(PlainItem)
    BY PlainOnly DEF InitNames
  <2>3. QED
    BY <1>29, <2>1, <2>2, GoesOn, Fails, Empty DEF ScrRead
<1>30. CASE UhsMode
  <2>1. At("UhsMode") /\ "UhsMode" \notin CmdNames
    BY <1>30 DEF UhsMode, CmdNames
  <2>2. Only("Change_BusSpeed") \in Seq(PlainItem)
    BY PlainOnly DEF InitNames
  <2>3. QED
    BY <1>30, <2>1, <2>2, GoesOn, Fails, Empty DEF UhsMode
<1>31. CASE MmcModeInit
  <2>1. At("MmcModeInit") /\ "MmcModeInit" \notin CmdNames
    BY <1>31 DEF MmcModeInit, CmdNames
  <2>2. Only("Change_BusWidth") \in Seq(PlainItem)
    BY PlainOnly DEF InitNames
  <2>3. Only("Get_Mmc_ExtCsd") \in Seq(PlainItem)
    BY PlainOnly DEF InitNames
  <2>4. Only("MmcSpeed") \in Seq(PlainItem)
    BY PlainOnly DEF InitNames
  <2>5. Only("Change_BusWidth") \o Only("Get_Mmc_ExtCsd") \o Only("MmcSpeed") \in Seq(PlainItem)
    BY <2>2, <2>3, <2>4, Concat
  <2>6. QED
    BY <1>31, <2>1, <2>5, GoesOn, Fails, Empty DEF MmcModeInit
<1>32. CASE MmcSpeed
  <2>1. At("MmcSpeed") /\ "MmcSpeed" \notin CmdNames
    BY <1>32 DEF MmcSpeed, CmdNames
  <2>2. Only("Change_BusSpeed") \in Seq(PlainItem)
    BY PlainOnly DEF InitNames
  <2>3. CheckEmmcTiming \in Seq(PlainItem)
    BY TimingItems
  <2>4. Only("Change_BusSpeed") \o CheckEmmcTiming \in Seq(PlainItem)
    BY <2>2, <2>3, Concat
  <2>5. QED
    BY <1>32, <2>1, <2>4, GoesOn, Fails, Empty DEF MmcSpeed
<1>33. CASE EmmcModeInit
  <2>1. At("EmmcModeInit") /\ "EmmcModeInit" \notin CmdNames
    BY <1>33 DEF EmmcModeInit, CmdNames
  <2>2. Only("Change_BusWidth") \in Seq(PlainItem)
    BY PlainOnly DEF InitNames
  <2>3. Only("Get_Mmc_ExtCsd") \in Seq(PlainItem)
    BY PlainOnly DEF InitNames
  <2>4. Only("EmmcSpeed") \in Seq(PlainItem)
    BY PlainOnly DEF InitNames
  <2>5. Only("Change_BusWidth") \o Only("Get_Mmc_ExtCsd") \o Only("EmmcSpeed") \in Seq(PlainItem)
    BY <2>2, <2>3, <2>4, Concat
  <2>6. QED
    BY <1>33, <2>1, <2>5, GoesOn, Fails, Empty DEF EmmcModeInit
<1>34. CASE TimingRead
  <2>1. At("TimingRead") /\ "TimingRead" \notin CmdNames
    BY <1>34 DEF TimingRead, CmdNames
  <2>2. QED
    BY <1>34, <2>1, GoesOn, Fails, Empty DEF TimingRead
<1>35. CASE SdCardInitialize
  <2>1. At("SdCardInitialize") /\ "SdCardInitialize" \notin CmdNames
    BY <1>35 DEF SdCardInitialize, CmdNames
  <2>2. SdCardEnum \in Seq(PlainItem)
    BY SdEnumItems
  <2>3. SdModeInit \in Seq(PlainItem)
    BY SdModeItems
  <2>4. SdCardEnum \o SdModeInit \in Seq(PlainItem)
    BY <2>2, <2>3, Concat
  <2>5. QED
    BY <1>35, <2>1, <2>4, GoesOn, Fails, Empty DEF SdCardInitialize
<1>36. CASE MmcMode
  <2>1. At("MmcMode") /\ "MmcMode" \notin CmdNames
    BY <1>36 DEF MmcMode, CmdNames
  <2>2. Only("MmcModeInit") \in Seq(PlainItem)
    BY PlainOnly DEF InitNames
  <2>3. Only("EmmcModeInit") \in Seq(PlainItem)
    BY PlainOnly DEF InitNames
  <2>4. QED
    BY <1>36, <2>1, <2>2, <2>3, GoesOn, Fails, Empty DEF MmcMode
<1>37. CASE MmcBlkSize
  <2>1. At("MmcBlkSize") /\ "MmcBlkSize" \notin CmdNames
    BY <1>37 DEF MmcBlkSize, CmdNames
  <2>2. SetBlkSize \in Seq(PlainItem)
    BY SetBlkSizeItems
  <2>3. QED
    BY <1>37, <2>1, <2>2, GoesOn, Fails, Empty DEF MmcBlkSize
<1>38. CASE CardInitialize
  <2>1. At("CardInitialize") /\ "CardInitialize" \notin CmdNames
    BY <1>38 DEF CardInitialize, CmdNames
  <2>2. Only("Change_ClkFreq") \in Seq(PlainItem)
    BY PlainOnly DEF InitNames
  <2>3. Only("IdentifyCard") \in Seq(PlainItem)
    BY PlainOnly DEF InitNames
  <2>4. Only("TypeInit") \in Seq(PlainItem)
    BY PlainOnly DEF InitNames
  <2>5. Only("Change_ClkFreq") \o Only("IdentifyCard") \o Only("TypeInit") \in Seq(PlainItem)
    BY <2>2, <2>3, <2>4, Concat
  <2>6. QED
    BY <1>38, <2>1, <2>5, GoesOn, Fails, Empty DEF CardInitialize
<1>39. CASE SetupCmd
  BY <1>39, Fails, Empty DEF SetupCmd, Flow
<1>40. CASE SendCmd
  BY <1>40, Fails, Empty DEF SendCmd, Flow
<1>41. CASE CmdDone
  <2>1. PICK code \in Codes : Success(<<>>) \/ Failure(code)
    BY <1>41 DEF CmdDone, Codes
  <2>2. UNCHANGED count
    BY <1>41 DEF CmdDone
  <2>3. QED
    BY <2>1, <2>2, Empty DEF Flow
<1>42. CASE Change_BusWidth
  <2> DEFINE arg == IF drv.mode = DDR THEN (IF drv.width = 8 THEN "DDR8" ELSE "DDR4")
                    ELSE IF drv.width = 8 THEN "8" ELSE "4"
             app == AppCmd("ACMD6", IF drv.width = 4 THEN "4" ELSE "1")
             body == IF drv.type = Sd THEN app ELSE Set_Mmc_ExtCsd(arg)
             rest == body \o Only("BusWidthChanged")
             none == drv.cfg.hc = "V3" /\ drv.cfg.BusWidth < 4
  <2>1. At("Change_BusWidth") /\ "Change_BusWidth" \notin CmdNames
        /\ Success(IF none THEN <<>> ELSE rest)
    BY <1>42 DEF Change_BusWidth, CmdNames
  <2>2. app \in Seq(PlainItem)
    BY AppCmdItems DEF Commands, Arguments
  <2>3. Set_Mmc_ExtCsd(arg) \in Seq(PlainItem)
    <3>1. arg \in Arguments
      BY DEF Arguments
    <3>2. QED
      BY <3>1, SetExtCsdItems
  <2>4. Only("BusWidthChanged") \in Seq(PlainItem)
    BY PlainOnly DEF InitNames
  <2> HIDE DEF arg, app, none
  <2>5. rest \in Seq(PlainItem)
    BY <2>2, <2>3, <2>4, Concat
  <2> HIDE DEF rest
  <2>6. (IF none THEN <<>> ELSE rest) \in Seq(PlainItem)
    BY <2>5, Empty
  <2>7. QED
    BY <2>1, <2>6, GoesOn
<1>43. CASE Change_BusSpeed
  <2> DEFINE speed == CalcBusSpeed(drv)
             next == CardBusSpeed(speed.arg) \o Only("Change_ClkFreq")
                     \o If(NeedsTuning(drv.mode), Execute_Tuning) \o Only("HighSpeed")
  <2>1. At("Change_BusSpeed") /\ "Change_BusSpeed" \notin CmdNames
        /\ (Failure("XST_FAILURE") \/ Success(next))
    BY <1>43 DEF Change_BusSpeed, CmdNames
  <2>2. speed.arg \in Arguments
    BY DEF CalcBusSpeed, Arguments
  <2>3. CardBusSpeed(speed.arg) \in Seq(PlainItem)
    BY <2>2, SpeedItems
  <2> HIDE DEF speed
  <2>4. Only("Change_ClkFreq") \in Seq(PlainItem) /\ Only("HighSpeed") \in Seq(PlainItem)
    BY PlainOnly DEF InitNames
  <2>5. If(NeedsTuning(drv.mode), Execute_Tuning) \in Seq(PlainItem)
    BY TuningItems, PlainIf
  <2>6. next \in Seq(PlainItem)
    BY <2>3, <2>4, <2>5, Concat
  <2> HIDE DEF next
  <2>7. QED
    BY <2>1, <2>6, GoesOn, Fails
<1>44. CASE SpeedRead
  <2>1. At("SpeedRead") /\ "SpeedRead" \notin CmdNames
    BY <1>44 DEF SpeedRead, CmdNames
  <2>2. Only("CardSetVoltage18") \in Seq(PlainItem) /\ Only("UhsMode") \in Seq(PlainItem)
        /\ Only("Change_BusSpeed") \in Seq(PlainItem)
    BY PlainOnly DEF InitNames
  <2>3. PICK raise : Success(If(raise, Only("CardSetVoltage18")) \o Only("UhsMode"))
                     \/ Success(Only("Change_BusSpeed")) \/ Success(<<>>)
    BY <1>44, Zenon DEF SpeedRead
  <2>4. If(raise, Only("CardSetVoltage18")) \in Seq(PlainItem)
    BY <2>2, PlainIf
  <2>5. If(raise, Only("CardSetVoltage18")) \o Only("UhsMode") \in Seq(PlainItem)
    BY <2>2, <2>4, Concat
  <2>6. QED
    BY <2>1, <2>2, <2>3, <2>5, GoesOn, Empty
<1>45. CASE EmmcSpeed
  <2>1. At("EmmcSpeed") /\ "EmmcSpeed" \notin CmdNames
    BY <1>45 DEF EmmcSpeed, CmdNames
  <2>2. PICK a, b : Success(If(a, Only("Change_BusSpeed") \o CheckEmmcTiming)
                            \o If(b, Only("Change_BusWidth")) \o Only("RstFunction"))
    BY <1>45, Zenon DEF EmmcSpeed
  <2>3. Only("Change_BusSpeed") \in Seq(PlainItem) /\ Only("Change_BusWidth") \in Seq(PlainItem)
        /\ Only("RstFunction") \in Seq(PlainItem)
    BY PlainOnly DEF InitNames
  <2>4. Only("Change_BusSpeed") \o CheckEmmcTiming \in Seq(PlainItem)
    BY <2>3, TimingItems, Concat
  <2>5. If(a, Only("Change_BusSpeed") \o CheckEmmcTiming) \in Seq(PlainItem)
        /\ If(b, Only("Change_BusWidth")) \in Seq(PlainItem)
    BY <2>3, <2>4, PlainIf
  <2>6. If(a, Only("Change_BusSpeed") \o CheckEmmcTiming)
        \o If(b, Only("Change_BusWidth")) \o Only("RstFunction") \in Seq(PlainItem)
    BY <2>3, <2>5, Concat
  <2>7. QED
    BY <2>1, <2>2, <2>6, GoesOn
<1>46. CASE RstFunction
  <2>1. At("RstFunction") /\ "RstFunction" \notin CmdNames
    BY <1>46 DEF RstFunction, CmdNames
  <2>2. PICK c : Success(If(c, Set_Mmc_ExtCsd("RST")))
    BY <1>46, Zenon DEF RstFunction
  <2>3. Set_Mmc_ExtCsd("RST") \in Seq(PlainItem)
    BY SetExtCsdItems DEF Arguments
  <2>4. QED
    BY <2>1, <2>2, <2>3, PlainIf, GoesOn
<1>47. CASE TypeInit
  <2>1. At("TypeInit") /\ "TypeInit" \notin CmdNames
    BY <1>47 DEF TypeInit, CmdNames
  <2>2. Success(Only("SdCardInitialize")) \/ Success(MmcCardInitialize)
    BY <1>47 DEF TypeInit
  <2>3. Only("SdCardInitialize") \in Seq(PlainItem)
    BY PlainOnly DEF InitNames
  <2>4. QED
    BY <2>1, <2>2, <2>3, MmcInitItems, GoesOn
<1>48. CASE CardOpCond
  <2>1. At("CardOpCond") /\ Success(OpCondRound) /\ count' = OP_POLLS
    BY <1>48 DEF CardOpCond
  <2>2. PICK s \in Seq(CmdItem) : OpCondRound = s \o << <<"OcrRead">> >>
    BY OpRound
  <2>3. todo[1] \notin CmdItem
    BY <2>1, NotCommand DEF CmdNames
  <2>4. Success(s \o << <<"OcrRead">> >>)
    BY <2>1, <2>2
  <2>5. <<"OcrRead">> \in PollItem
    BY DEF PollItem
  <2>6. count' > 0
    BY <2>1
  <2>7. QED
    BY <2>3, <2>4, <2>5, <2>6 DEF Flow
<1>49. CASE OcrRead
  <2>1. At("OcrRead") /\ "OcrRead" \notin CmdNames
    BY <1>49 DEF OcrRead, CmdNames
  <2>2. CASE "READY" \in resp
    <3>1. PICK c : Success(If(c, Switch_Voltage))
      BY <1>49, <2>2, Zenon DEF OcrRead
    <3>2. QED
      BY <2>1, <3>1, SwitchVoltageItems, PlainIf, GoesOn
  <2>3. CASE "READY" \notin resp
    <3>1. count' = count - 1 /\ IF count' = 0 THEN Failure("XST_FAILURE") ELSE Success(OpCondRound)
      BY <1>49, <2>3 DEF OcrRead
    <3>2. CASE count' = 0
      BY <3>1, <3>2, Fails
    <3>3. CASE count' # 0
      <4>1. PICK s \in Seq(CmdItem) : OpCondRound = s \o << <<"OcrRead">> >>
        BY OpRound
      <4>2. todo[1] \notin CmdItem
        BY <2>1, NotCommand
      <4>3. Success(s \o << <<"OcrRead">> >>)
        BY <3>1, <3>3, <4>1
      <4>4. <<"OcrRead">> \in PollItem
        BY DEF PollItem
      <4>5. count' > 0
        <5>1. todo[1] \in PollItem /\ Len(todo) >= 1
          BY <2>1, FirstPoll
        <5>2. count > 0
          BY <5>1 DEF Polling
        <5>3. count' = count - 1
          BY <3>1
        <5>4. QED
          BY <3>3, <5>2, <5>3
      <4>6. QED
        BY <4>2, <4>3, <4>4, <4>5 DEF Flow
    <3>4. QED
      BY <3>2, <3>3
  <2>4. QED
    BY <2>2, <2>3
<1>50. CASE GetCardId
  <2>1. At("GetCardId") /\ "GetCardId" \notin CmdNames /\ count' = ID_POLLS
    BY <1>50 DEF GetCardId, CmdNames
  <2> DEFINE s == CmdTransfer("CMD2", "", 0) \o CmdTransfer("CMD3", "", 0)
  <2>2. s \in Seq(CmdItem)
    <3>1. 0 \in 0 .. U16 - 1
      BY DEF U16
    <3>2. CmdTransfer("CMD2", "", 0) \in Seq(CmdItem) /\ CmdTransfer("CMD3", "", 0) \in Seq(CmdItem)
      BY <3>1, CmdSeq DEF Commands, Arguments
    <3>3. QED
      BY <3>2, Concat
  <2>3. Success(s \o If(drv.type = Sd, Only("RcaRead")))
    BY <1>50 DEF GetCardId
  <2> HIDE DEF s
  <2>4. CASE drv.type = Sd
    <3>1. Success(s \o << <<"RcaRead">> >>)
      BY <2>3, <2>4 DEF If, Only
    <3>2. <<"RcaRead">> \in PollItem
      BY DEF PollItem
    <3>3. todo[1] \notin CmdItem
      BY <2>1, NotCommand
    <3>4. count' > 0
      BY <2>1
    <3>5. QED
      BY <2>2, <3>1, <3>2, <3>3, <3>4 DEF Flow
  <2>5. CASE drv.type # Sd
    <3>1. If(drv.type = Sd, Only("RcaRead")) = <<>>
      BY <2>5 DEF If
    <3>2. s \in Seq(PlainItem)
      BY <2>2, PlainSeq
    <3>3. s \o If(drv.type = Sd, Only("RcaRead")) \in Seq(PlainItem)
      BY <3>1, <3>2, Empty, Concat
    <3>4. QED
      BY <2>1, <2>3, <3>3, GoesOn
  <2>6. QED
    BY <2>4, <2>5
<1>51. CASE RcaRead
  <2>1. At("RcaRead") /\ "RcaRead" \notin CmdNames
    BY <1>51 DEF RcaRead, CmdNames
  <2>2. CASE "RCA" \in resp
    BY <1>51, <2>1, <2>2, GoesOn, Empty DEF RcaRead
  <2>3. CASE "RCA" \notin resp
    <3>1. count' = count - 1
          /\ IF count' = 0 THEN Failure("XST_FAILURE")
             ELSE Success(CmdTransfer("CMD3", "", 0) \o Only("RcaRead"))
      BY <1>51, <2>3 DEF RcaRead
    <3>2. CASE count' = 0
      BY <3>1, <3>2, Fails
    <3>3. CASE count' # 0
      <4>1. CmdTransfer("CMD3", "", 0) \in Seq(CmdItem)
        <5>1. 0 \in 0 .. U16 - 1
          BY DEF U16
        <5>2. QED
          BY <5>1, CmdSeq DEF Commands, Arguments
      <4>2. todo[1] \notin CmdItem
        BY <2>1, NotCommand
      <4>3. Success(CmdTransfer("CMD3", "", 0) \o << <<"RcaRead">> >>)
        BY <3>1, <3>3 DEF Only
      <4>4. <<"RcaRead">> \in PollItem
        BY DEF PollItem
      <4>5. count' > 0
        <5>1. todo[1] \in PollItem /\ Len(todo) >= 1
          BY <2>1, FirstPoll
        <5>2. count > 0
          BY <5>1 DEF Polling
        <5>3. count' = count - 1
          BY <3>1
        <5>4. QED
          BY <3>3, <5>2, <5>3
      <4>6. QED
        BY <4>1, <4>2, <4>3, <4>4, <4>5 DEF Flow
    <3>4. QED
      BY <3>2, <3>3
  <2>4. QED
    BY <2>2, <2>3
<1>52. QED
  BY <1>1, <1>2, <1>3, <1>4, <1>5, <1>6, <1>7, <1>8, <1>9, <1>10, <1>11, <1>12, <1>13,
     <1>14, <1>15, <1>16, <1>17, <1>18, <1>19, <1>20, <1>21, <1>22, <1>23, <1>24,
     <1>25, <1>26, <1>27, <1>28, <1>29, <1>30, <1>31, <1>32, <1>33, <1>34, <1>35,
     <1>36, <1>37, <1>38, <1>39, <1>40, <1>41, <1>42, <1>43, <1>44, <1>45, <1>46,
     <1>47, <1>48, <1>49, <1>50, <1>51 DEF InitStep

-----------------------------------------------------------------------------
(* Which steps of the driver change which variable                         *)

LEMMA DrvSteps ==
    ASSUME InitStep, ~ UNCHANGED drv
    PROVE  \/ HostConfigured \/ BlkSizeSet \/ Change_BusSpeed
           \/ IdentifyCard \/ Cmd1Tried \/ VersionRead \/ OcrRead \/ CsdRead
           \/ Identified \/ ScrRead \/ SpeedRead \/ UhsMode \/ MmcModeInit
           \/ MmcSpeed \/ EmmcModeInit \/ EmmcSpeed \/ SdCardInitialize
           \/ MmcBlkSize \/ CardInitialize
  BY Zenon DEF
    CheckBusIdle, SetupCmd, SendCmd, CmdDone, CheckTransferDone,
    SetupReadDma, PowerOff, PowerOn, Reset, Change_ClkFreq, CardSetVoltage18,
    DllReset, BusLines, AutoTuning, TuningBlock, Get_BusWidth, Get_BusSpeed,
    Get_Mmc_ExtCsd, Change_BusWidth, BusWidthChanged, SpeedSwitched,
    HighSpeed, CheckCardDetect, TryCmd1, Cmd8Tried, CardOpCond, GetCardId,
    RcaRead, TimingRead, RstFunction, MmcMode, TypeInit, InitStep, hostVars,
    Get, Clocked

LEMMA HostSteps ==
    ASSUME InitStep, ~ UNCHANGED host
    PROVE  \/ SetupCmd \/ SetupReadDma \/ PowerOff \/ PowerOn \/ Reset
           \/ HostConfigured \/ Change_ClkFreq \/ CardSetVoltage18
           \/ DllReset \/ AutoTuning \/ BlkSizeSet \/ BusWidthChanged
           \/ SpeedSwitched \/ HighSpeed \/ MmcBlkSize
  BY Zenon DEF
    CheckBusIdle, SendCmd, CmdDone, CheckTransferDone, BusLines, TuningBlock,
    Get_BusWidth, Get_BusSpeed, Get_Mmc_ExtCsd, Change_BusWidth,
    Change_BusSpeed, CheckCardDetect, IdentifyCard, TryCmd1, Cmd1Tried,
    Cmd8Tried, VersionRead, CardOpCond, OcrRead, GetCardId, RcaRead, CsdRead,
    Identified, ScrRead, SpeedRead, UhsMode, MmcModeInit, MmcSpeed,
    EmmcModeInit, EmmcSpeed, TimingRead, RstFunction, SdCardInitialize,
    MmcMode, CardInitialize, TypeInit, InitStep, hostVars, Get, Clocked

LEMMA LineSteps ==
    ASSUME InitStep, ~ UNCHANGED line
    PROVE  \/ SendCmd \/ Reset
  BY Zenon DEF
    CheckBusIdle, SetupCmd, CmdDone, CheckTransferDone, SetupReadDma,
    PowerOff, PowerOn, HostConfigured, Change_ClkFreq, CardSetVoltage18,
    DllReset, BusLines, AutoTuning, TuningBlock, BlkSizeSet, Get_BusWidth,
    Get_BusSpeed, Get_Mmc_ExtCsd, Change_BusWidth, BusWidthChanged,
    Change_BusSpeed, SpeedSwitched, HighSpeed, CheckCardDetect, IdentifyCard,
    TryCmd1, Cmd1Tried, Cmd8Tried, VersionRead, CardOpCond, OcrRead,
    GetCardId, RcaRead, CsdRead, Identified, ScrRead, SpeedRead, UhsMode,
    MmcModeInit, MmcSpeed, EmmcModeInit, EmmcSpeed, TimingRead, RstFunction,
    SdCardInitialize, MmcMode, MmcBlkSize, CardInitialize, TypeInit,
    InitStep, hostVars, Get, Clocked

LEMMA StatusSteps ==
    ASSUME InitStep, ~ UNCHANGED <<sts, err>>
    PROVE  \/ SetupCmd \/ CmdDone \/ CheckTransferDone \/ Reset \/ Cmd1Tried
  BY Zenon DEF
    CheckBusIdle, SendCmd, SetupReadDma, PowerOff, PowerOn, HostConfigured,
    Change_ClkFreq, CardSetVoltage18, DllReset, BusLines, AutoTuning,
    TuningBlock, BlkSizeSet, Get_BusWidth, Get_BusSpeed, Get_Mmc_ExtCsd,
    Change_BusWidth, BusWidthChanged, Change_BusSpeed, SpeedSwitched,
    HighSpeed, CheckCardDetect, IdentifyCard, TryCmd1, Cmd8Tried,
    VersionRead, CardOpCond, OcrRead, GetCardId, RcaRead, CsdRead,
    Identified, ScrRead, SpeedRead, UhsMode, MmcModeInit, MmcSpeed,
    EmmcModeInit, EmmcSpeed, TimingRead, RstFunction, SdCardInitialize,
    MmcMode, MmcBlkSize, CardInitialize, TypeInit, InitStep, hostVars, Get,
    Clocked

LEMMA CountSteps ==
    ASSUME InitStep, ~ UNCHANGED count
    PROVE  \/ AutoTuning \/ TuningBlock \/ CardOpCond \/ OcrRead
           \/ GetCardId \/ RcaRead
  BY Zenon DEF
    CheckBusIdle, SetupCmd, SendCmd, CmdDone, CheckTransferDone,
    SetupReadDma, PowerOff, PowerOn, Reset, HostConfigured, Change_ClkFreq,
    CardSetVoltage18, DllReset, BusLines, BlkSizeSet, Get_BusWidth,
    Get_BusSpeed, Get_Mmc_ExtCsd, Change_BusWidth, BusWidthChanged,
    Change_BusSpeed, SpeedSwitched, HighSpeed, CheckCardDetect, IdentifyCard,
    TryCmd1, Cmd1Tried, Cmd8Tried, VersionRead, CsdRead, Identified, ScrRead,
    SpeedRead, UhsMode, MmcModeInit, MmcSpeed, EmmcModeInit, EmmcSpeed,
    TimingRead, RstFunction, SdCardInitialize, MmcMode, MmcBlkSize,
    CardInitialize, TypeInit, InitStep, hostVars, Get, Clocked

LEMMA FaultSteps ==
    ASSUME InitStep, ~ UNCHANGED faults
    PROVE  \/ Reset \/ Change_ClkFreq \/ CardSetVoltage18 \/ DllReset
           \/ BusLines
  BY Zenon DEF
    CheckBusIdle, SetupCmd, SendCmd, CmdDone, CheckTransferDone,
    SetupReadDma, PowerOff, PowerOn, HostConfigured, AutoTuning, TuningBlock,
    BlkSizeSet, Get_BusWidth, Get_BusSpeed, Get_Mmc_ExtCsd, Change_BusWidth,
    BusWidthChanged, Change_BusSpeed, SpeedSwitched, HighSpeed,
    CheckCardDetect, IdentifyCard, TryCmd1, Cmd1Tried, Cmd8Tried,
    VersionRead, CardOpCond, OcrRead, GetCardId, RcaRead, CsdRead,
    Identified, ScrRead, SpeedRead, UhsMode, MmcModeInit, MmcSpeed,
    EmmcModeInit, EmmcSpeed, TimingRead, RstFunction, SdCardInitialize,
    MmcMode, MmcBlkSize, CardInitialize, TypeInit, InitStep, hostVars,
    cardVars, Get
-----------------------------------------------------------------------------
(* What those steps make of the instance, the registers and the lines      *)

DrvFields == {"cfg", "ready", "busy", "type", "ver", "hcs", "width", "sw18",
              "speed", "mode", "blk", "otap", "itap", "erase"}

LEMMA NewDriverFields == \A cfg : DOMAIN NewDriver(cfg) = DrvFields
  BY DEF NewDriver, DrvFields

\* The choice of a mode sets the mode and the taps
OnlyMode(d, e) ==
    /\ DOMAIN e = DrvFields /\ e.mode \in Mode
    /\ \A f \in {"ready", "busy", "type", "width", "blk"} : e[f] = d[f]

LEMMA Taps104 ==
    ASSUME NEW d, DOMAIN d = DrvFields, d.mode \in Mode
    PROVE  /\ OnlyMode(d, SetTapDelay_SDR104(d)) /\ OnlyMode(d, SetTapDelay_SDR50(d))
           /\ OnlyMode(d, SetTapDelay_DDR50(d)) /\ OnlyMode(d, SetTapDelay_SDR25(d))
           /\ OnlyMode(d, HighSpeedTaps(d))
  BY DEF OnlyMode, SetTapDelay_SDR104, SetTapDelay_SDR50, SetTapDelay_DDR50,
         SetTapDelay_SDR25, HighSpeedTaps, Taps, DrvFields

LEMMA WithMode ==
    ASSUME NEW d, DOMAIN d = DrvFields, NEW m \in Mode
    PROVE  LET e == [d EXCEPT !.mode = m]
           IN  OnlyMode(d, e) /\ DOMAIN e = DrvFields /\ e.mode \in Mode
  BY DEF OnlyMode, DrvFields

LEMMA OnlyModeTwice ==
    ASSUME NEW d, NEW e, NEW f, OnlyMode(d, e), OnlyMode(e, f)
    PROVE  OnlyMode(d, f)
  BY DEF OnlyMode

LEMMA UhsModes ==
    ASSUME NEW d, DOMAIN d = DrvFields, NEW sup
    PROVE  OnlyMode(d, Identify_UhsMode(d, sup))
<1>1. {SDR12, SDR25, SDR50, SDR104, DDR} \subseteq Mode
  BY DEF SDR12, SDR25, SDR50, SDR104, DDR, Mode
<1> DEFINE with(m) == [d EXCEPT !.mode = m]
<1>2. \A m \in {SDR12, SDR25, SDR50, SDR104, DDR} :
        OnlyMode(d, with(m)) /\ DOMAIN with(m) = DrvFields /\ with(m).mode \in Mode
  BY <1>1, WithMode
<1>3. Identify_UhsMode(d, sup) \in
        {SetTapDelay_SDR104(with(SDR104)), SetTapDelay_SDR50(with(SDR50)),
         SetTapDelay_DDR50(with(DDR)), SetTapDelay_SDR25(with(SDR25)), with(SDR12)}
  BY ZenonT(120) DEF Identify_UhsMode
<1> HIDE DEF with
<1>4. /\ OnlyMode(d, SetTapDelay_SDR104(with(SDR104))) /\ OnlyMode(d, SetTapDelay_SDR50(with(SDR50)))
      /\ OnlyMode(d, SetTapDelay_DDR50(with(DDR))) /\ OnlyMode(d, SetTapDelay_SDR25(with(SDR25)))
  BY <1>2, Taps104, OnlyModeTwice
<1>5. QED
  BY <1>2, <1>3, <1>4

LEMMA EmmcModes ==
    ASSUME NEW d, DOMAIN d = DrvFields, NEW sup
    PROVE  OnlyMode(d, IdentifyEmmcMode(d, sup))
<1>1. {DEFAULT, HS200, DDR, HS} \subseteq Mode
  BY DEF DEFAULT, HS200, DDR, HS, Mode
<1> DEFINE with(m) == [d EXCEPT !.mode = m]
           tapped(m, o, i) == [d EXCEPT !.mode = m, !.otap = o, !.itap = i]
<1>2. \A m \in {DEFAULT, HS200, DDR, HS} :
        OnlyMode(d, with(m)) /\ DOMAIN with(m) = DrvFields /\ with(m).mode \in Mode
  BY <1>1, WithMode
<1>3. \A m \in Mode : \A o, i : OnlyMode(d, tapped(m, o, i))
  BY DEF OnlyMode, DrvFields
<1>4. \/ IdentifyEmmcMode(d, sup) \in {with(DEFAULT), SetTapDelay_SDR104(with(HS200))}
      \/ \E m \in {DDR, HS} : \E o, i : IdentifyEmmcMode(d, sup) = tapped(m, o, i)
  BY DEF IdentifyEmmcMode
<1> HIDE DEF with, tapped
<1>5. OnlyMode(d, SetTapDelay_SDR104(with(HS200)))
  BY <1>2, Taps104, OnlyModeTwice
<1>6. QED
  BY <1>1, <1>2, <1>3, <1>4, <1>5

DrvTyped(d) ==
    /\ DOMAIN d = DrvFields
    /\ d.mode \in Mode /\ d.type \in {Sd, Mmc, Emmc} /\ d.width \in {0, 1, 4, 8}
    /\ d.blk \in {0, 512}

\* The driver's steps keep the instance ready, its block length and the
\* transfer it counts as started
LEMMA DrvKept ==
    ASSUME DrvTyped(drv), InitStep
    PROVE  /\ DrvTyped(drv') /\ drv'.busy = drv.busy
           /\ drv.ready => drv'.ready
           /\ drv.blk = 512 => drv'.blk = 512
<1> USE DEF DrvTyped
<1>10. CASE HostConfigured
  BY <1>10 DEF HostConfigured, DrvFields
<1>11. CASE BlkSizeSet
  BY <1>11 DEF BlkSizeSet, DrvFields
<1>12. CASE IdentifyCard
  <2>1. drv' = drv \/ drv' = [drv EXCEPT !.type = Emmc]
    BY <1>12, Zenon DEF IdentifyCard
  <2>2. QED
    BY <2>1 DEF DrvFields
<1>13. CASE Cmd1Tried
  BY <1>13 DEF Cmd1Tried, DrvFields
<1>14. CASE VersionRead
  BY <1>14 DEF VersionRead, DrvFields
<1>15. CASE OcrRead
  <2>1. CASE drv' = drv
    BY <2>1
  <2>2. CASE drv' # drv
    <3>1. drv' = [drv EXCEPT !.hcs = @ \/ "HCS" \in resp, !.sw18 = @ \/ "S18" \in resp]
      BY <1>15, <2>2 DEF OcrRead
    <3>2. PICK a, b : drv' = [drv EXCEPT !.hcs = a, !.sw18 = b]
      BY <3>1, Zenon
    <3>3. QED
      BY <3>2 DEF DrvFields
  <2>3. QED
    BY <2>1, <2>2
<1>16. CASE CsdRead
  <2>1. CASE drv.type # Sd
    <3>1. drv' = [drv EXCEPT !.ver = card.caps.csd, !.erase = card.caps.erase]
      BY <1>16, <2>1 DEF CsdRead
    <3>2. QED
      BY <3>1 DEF DrvFields
  <2>2. CASE drv.type = Sd
    <3>1. drv' = [drv EXCEPT !.erase = card.caps.erase]
      BY <1>16, <2>2 DEF CsdRead
    <3>2. QED
      BY <3>1 DEF DrvFields
  <2>3. QED
    BY <2>1, <2>2
<1>17. CASE Identified
  BY <1>17 DEF Identified, DrvFields
<1>18. CASE ScrRead
  BY <1>18 DEF ScrRead, DrvFields
<1>19. CASE Change_BusSpeed
  BY <1>19 DEF Change_BusSpeed, DrvFields
<1>20. CASE MmcModeInit
  BY <1>20 DEF MmcModeInit, DrvFields
<1>21. CASE EmmcModeInit
  BY <1>21 DEF EmmcModeInit, DrvFields
<1>22. CASE SdCardInitialize
  BY <1>22 DEF SdCardInitialize, DrvFields
<1>23. CASE MmcBlkSize
  BY <1>23 DEF MmcBlkSize, DrvFields
<1>24. CASE CardInitialize
  BY <1>24 DEF CardInitialize, DrvFields, Sd
<1>3. CASE MmcSpeed
  BY <1>3 DEF MmcSpeed, DrvFields, HS, Mode
<1>4. CASE UhsMode
  BY <1>4, UhsModes DEF UhsMode, OnlyMode
<1>5. CASE EmmcSpeed
  BY <1>5, EmmcModes DEF EmmcSpeed, OnlyMode
<1>6. CASE SpeedRead
  <2>1. \/ drv' = [drv EXCEPT !.sw18 = TRUE]
        \/ drv' = HighSpeedTaps([drv EXCEPT !.mode = HS])
        \/ drv' = drv
    BY <1>6, Zenon DEF SpeedRead
  <2>2. HS \in Mode
    BY DEF HS, Mode
  <2>3. OnlyMode(drv, [drv EXCEPT !.mode = HS])
        /\ OnlyMode([drv EXCEPT !.mode = HS], HighSpeedTaps([drv EXCEPT !.mode = HS]))
    BY ZenonT(60), <2>2, WithMode, Taps104
  <2>4. OnlyMode(drv, HighSpeedTaps([drv EXCEPT !.mode = HS]))
    BY <2>3, OnlyModeTwice
  <2>5. CASE drv' = HighSpeedTaps([drv EXCEPT !.mode = HS])
    BY <2>4, <2>5 DEF OnlyMode
  <2>6. CASE drv' = [drv EXCEPT !.sw18 = TRUE] \/ drv' = drv
    BY <2>6 DEF DrvFields
  <2>7. QED
    BY <2>1, <2>5, <2>6
<1>7. CASE UNCHANGED drv
  BY <1>7
<1>8. QED
  BY <1>10, <1>11, <1>12, <1>13, <1>14, <1>15, <1>16, <1>17, <1>18, <1>19, <1>20, <1>21, <1>22, <1>23, <1>24,
     <1>3, <1>4, <1>5, <1>6, <1>7, DrvSteps

\* A first item with the name of a command's step
LEMMA SetupCmdArgs ==
    ASSUME todo \in Seq(Item), At("SetupCmd")
    PROVE  Arg(3) \in 0 .. U16 - 1
<1>1. todo # <<>> /\ Head(todo) \in Item /\ Head(todo)[1] = "SetupCmd"
  BY DEF At
<1>2. Head(todo) \in {"SetupCmd"} \X Commands \X Arguments \X (0 .. U16 - 1)
  BY <1>1 DEF Item, InitItem, PlainItem, CmdItem, InitNames, CallItem, PollItem
<1>3. QED
  BY <1>2 DEF Arg

HostFields == {"power", "clk", "freq", "w", "hs", "uhs", "v18", "blksz", "blkcnt",
               "exec", "samp", "tries", "ien", "dma", "otap", "itap"}

LEMMA ResetHostFields == \A h : DOMAIN ResetHost(h) = HostFields
  BY DEF ResetHost, HostFields

HostTyped(h) ==
    DOMAIN h = HostFields /\ h.w \in {1, 4, 8} /\ h.blkcnt \in 0 .. U16 - 1

LEMMA ZeroCount == 0 \in 0 .. U16 - 1
  BY DEF U16

\* Clock, taps and the tuning bits are not among what is typed
LEMMA ClockTyped ==
    ASSUME NEW h, HostTyped(h), NEW cfg, NEW hz, NEW d
    PROVE  HostTyped(SetClock(h, cfg, hz)) /\ HostTyped(SetTapDelay(h, d))
           /\ HostTyped(EnableClock(h)) /\ HostTyped([h EXCEPT !.clk = FALSE])
           /\ HostTyped([h EXCEPT !.clk = FALSE, !.v18 = TRUE])
  BY DEF HostTyped, HostFields, SetClock, EnableClock, SetTapDelay, ConfigTapDelay

LEMMA ClockedTyped ==
    ASSUME NEW h, HostTyped(h), Clocked(h)
    PROVE  HostTyped(host')
  BY ClockTyped DEF Clocked

LEMMA HostKept ==
    ASSUME HostTyped(host), todo \in Seq(Item), InitStep
    PROVE  HostTyped(host')
<1>1. CASE SetupCmd
  <2>1. Arg(3) \in 0 .. U16 - 1
    BY <1>1, SetupCmdArgs DEF SetupCmd
  <2>2. host' = host \/ host' = [host EXCEPT !.blkcnt = Arg(3)]
    BY <1>1, Zenon DEF SetupCmd
  <2>3. QED
    BY <2>1, <2>2 DEF HostTyped, HostFields
<1>2. CASE SetupReadDma
  BY <1>2 DEF SetupReadDma, SetupDma, HostTyped, HostFields
<1>3. CASE PowerOff
  BY <1>3 DEF PowerOff, DisableBusPower, HostTyped, HostFields
<1>4. CASE PowerOn
  BY <1>4 DEF PowerOn, EnableBusPower, HostTyped, HostFields
<1>5. CASE Reset
  <2>1. host' = host \/ host' = ResetHost(host)
    BY <1>5, Zenon DEF Reset
  <2>2. HostTyped(ResetHost(host))
    BY ZeroCount DEF HostTyped, ResetHost, HostFields
  <2>3. QED
    BY <2>1, <2>2, Zenon
<1>6. CASE HostConfigured
  BY <1>6 DEF HostConfigured, HostConfig, HostTyped, HostFields
<1>7. CASE Change_ClkFreq
  <2>1. PICK h : h \in {SetTapDelay(host, drv), host}
                 /\ Clocked([SetClock(h, drv.cfg, drv.speed) EXCEPT !.clk = FALSE])
    BY <1>7, Zenon DEF Change_ClkFreq
  <2>2. HostTyped(h)
    BY <2>1, ClockTyped
  <2>3. HostTyped(SetClock(h, drv.cfg, drv.speed))
    BY <2>2, ClockTyped
  <2>4. HostTyped([SetClock(h, drv.cfg, drv.speed) EXCEPT !.clk = FALSE])
    BY <2>3, ClockTyped
  <2>5. QED
    BY <2>1, <2>4, ClockedTyped
<1>8. CASE CardSetVoltage18
  <2>1. HostTyped([host EXCEPT !.clk = FALSE, !.v18 = TRUE]) /\ HostTyped([host EXCEPT !.clk = FALSE])
    BY ClockTyped
  <2>2. Clocked([host EXCEPT !.clk = FALSE, !.v18 = TRUE]) \/ host' = [host EXCEPT !.clk = FALSE]
    BY <1>8, Zenon DEF CardSetVoltage18
  <2>3. QED
    BY <2>1, <2>2, ClockedTyped, Zenon
<1>9. CASE DllReset
  <2>1. HostTyped([host EXCEPT !.clk = FALSE]) /\ Clocked([host EXCEPT !.clk = FALSE])
    BY <1>9, ClockTyped DEF DllReset
  <2>2. QED
    BY <2>1, ClockedTyped
<1>10. CASE AutoTuning
  BY <1>10 DEF AutoTuning, SetExecTuning, HostTyped, HostFields
<1>11. CASE BlkSizeSet
  BY <1>11 DEF BlkSizeSet, HostTyped, HostFields
<1>12. CASE BusWidthChanged
  BY <1>12 DEF BusWidthChanged, SetWidth, HostTyped, HostFields
<1>13. CASE SpeedSwitched
  BY <1>13 DEF SpeedSwitched, HostTyped, HostFields
<1>14. CASE HighSpeed
  BY <1>14 DEF HighSpeed, HostTyped, HostFields
<1>15. CASE MmcBlkSize
  BY <1>15 DEF MmcBlkSize, HostTyped, HostFields
<1>16. CASE UNCHANGED host
  BY <1>16
<1>17. QED
  BY <1>1, <1>2, <1>3, <1>4, <1>5, <1>6, <1>7, <1>8, <1>9, <1>10, <1>11, <1>12, <1>13,
     <1>14, <1>15, <1>16, HostSteps

LineFields == {"cmd", "arg", "frame", "dat", "good", "late"}

LEMMA FreeLineFields == DOMAIN FreeLines = LineFields
  BY DEF FreeLines, LineFields

LineTyped(l) ==
    /\ DOMAIN l = LineFields
    /\ l.dat \in {"none", "own", "old", "stuck"} /\ l.late \subseteq {"cmd", "dat"}

\* The driver's steps take data from the lines or leave it there
LEMMA LineKept ==
    ASSUME LineTyped(line), InitStep
    PROVE  LineTyped(line') /\ line'.dat \in {line.dat, "none"}
<1>1. CASE SendCmd
  <2> DEFINE cmd == Arg(1)
             arg == Arg(2)
             frame == FrameCmd(Arg(1), drv.type)
             sent == [line EXCEPT !.cmd = cmd, !.arg = arg, !.frame = frame]
  <2>1. line' = line \/ line' = sent
    BY <1>1, Zenon DEF SendCmd
  <2> HIDE DEF cmd, arg, frame
  <2>2. LineTyped(sent) /\ sent.dat = line.dat
    BY DEF LineTyped, LineFields
  <2> HIDE DEF sent
  <2>3. QED
    BY <2>1, <2>2
<1>2. CASE Reset
  <2>1. \/ line' = line \/ line' = FreeLines
        \/ line' = [line EXCEPT !.cmd = "none", !.late = @ \ {"cmd"}]
    BY <1>2, Zenon DEF Reset
  <2>2. LineTyped(FreeLines) /\ FreeLines.dat = "none"
    BY DEF LineTyped, LineFields, FreeLines
  <2>3. CASE line' = [line EXCEPT !.cmd = "none", !.late = @ \ {"cmd"}]
    BY <2>3 DEF LineTyped, LineFields
  <2>4. QED
    BY <2>1, <2>2, <2>3
<1>3. CASE UNCHANGED line
  BY <1>3
<1>4. QED
  BY <1>1, <1>2, <1>3, LineSteps

LEMMA StatusKept ==
    ASSUME sts \subseteq {"CC", "TC", "BRR"}, err \subseteq {"CT", "OTHER"}, InitStep
    PROVE  sts' \subseteq {"CC", "TC", "BRR"} /\ err' \subseteq {"CT", "OTHER"}
<1>1. CASE SetupCmd
  BY <1>1 DEF SetupCmd
<1>2. CASE CmdDone
  BY <1>2 DEF CmdDone
<1>3. CASE CheckTransferDone
  BY <1>3 DEF CheckTransferDone
<1>4. CASE Reset
  BY <1>4 DEF Reset
<1>5. CASE Cmd1Tried
  BY <1>5 DEF Cmd1Tried
<1>6. CASE UNCHANGED <<sts, err>>
  BY <1>6
<1>7. QED
  BY <1>1, <1>2, <1>3, <1>4, <1>5, <1>6, StatusSteps

Counts == \E n \in {OP_POLLS, ID_POLLS, MAX_TUNING} : count \in 0 .. n

LEMMA CountKept ==
    ASSUME todo \in Seq(Item), Polling, Counts, InitStep
    PROVE  Counts'
<1>1. {OP_POLLS, ID_POLLS, MAX_TUNING} \subseteq Nat \ {0}
  BY SdAssumption
<1>2. PICK n \in {OP_POLLS, ID_POLLS, MAX_TUNING} : count \in 0 .. n
  BY DEF Counts
<1>3. n \in Nat \ {0}
  BY <1>1
<1>4. CASE count' \in {OP_POLLS, ID_POLLS, MAX_TUNING}
  <2>1. count' \in 0 .. count'
    BY <1>1, <1>4
  <2>2. QED
    BY <1>4, <2>1 DEF Counts
<1>5. CASE count' = count - 1 /\ count > 0
  <2>1. count' \in 0 .. n
    BY <1>2, <1>3, <1>5
  <2>2. QED
    BY <1>2, <2>1 DEF Counts
<1>6. CASE UNCHANGED count
  BY <1>6 DEF Counts
<1>7. CASE AutoTuning \/ CardOpCond \/ GetCardId
  BY <1>4, <1>7 DEF AutoTuning, CardOpCond, GetCardId
<1>8. CASE TuningBlock
  <2>1. MAX_TUNING > 0
    BY <1>1
  <2>2. (count' = count - 1 /\ count > 0) \/ UNCHANGED count
    BY <1>8, <2>1 DEF TuningBlock
  <2>3. QED
    BY <2>2, <1>5, <1>6
<1>9. CASE OcrRead \/ RcaRead
  <2>1. todo[1] \in PollItem /\ Len(todo) >= 1
    BY <1>9, FirstPoll DEF OcrRead, RcaRead
  <2>2. count > 0
    BY <2>1 DEF Polling
  <2>3. count' = count - 1 \/ UNCHANGED count
    BY <1>9 DEF OcrRead, RcaRead
  <2>4. QED
    BY <2>2, <2>3, <1>5, <1>6
<1>10. QED
  BY <1>6, <1>7, <1>8, <1>9, CountSteps

LEMMA FaultsKept ==
    ASSUME faults \in 0 .. MaxFaults, InitStep
    PROVE  faults' \in 0 .. MaxFaults
<1>1. MaxFaults \in Nat
  BY SdAssumption
<1>2. Fault \/ UNCHANGED faults
  BY FaultSteps, Zenon DEF Reset, Change_ClkFreq, CardSetVoltage18, DllReset, BusLines, Clocked
<1>3. QED
  BY <1>1, <1>2 DEF Fault

-----------------------------------------------------------------------------
(* todo after a step                                                       *)

LEMMA Smallest ==
    ASSUME NEW S \in SUBSET Nat, S # {}
    PROVE  Min(S) \in S /\ \A m \in S : Min(S) <= m
<1>1. PICK n \in S : \A m \in S : ~(<<m, n>> \in OpToRel(<, Nat))
  BY NatLessThanWellFounded, WFMin
<1>2. \A m \in S : n <= m
  <2>1. SUFFICES ASSUME NEW m \in S, m < n PROVE FALSE
    OBVIOUS
  <2>2. <<m, n>> \in Nat \X Nat /\ <<m, n>>[1] < <<m, n>>[2]
    BY <2>1
  <2>3. <<m, n>> \in OpToRel(<, Nat)
    BY <2>2, Zenon DEF OpToRel
  <2>4. QED
    BY <1>1, <2>1, <2>3, Zenon
<1>3. QED
  BY <1>1, <1>2 DEF Min

LEMMA Busy ==
    ASSUME InitStep PROVE todo # <<>>
  BY Zenon DEF At, InitStep,
    CheckBusIdle, SetupCmd, SendCmd, CmdDone, CheckTransferDone,
    SetupReadDma, PowerOff, PowerOn, Reset, HostConfigured,
    Change_ClkFreq, CardSetVoltage18, DllReset, BusLines, AutoTuning,
    TuningBlock, BlkSizeSet, Get_BusWidth, Get_BusSpeed,
    Get_Mmc_ExtCsd, Change_BusWidth, BusWidthChanged, Change_BusSpeed,
    SpeedSwitched, HighSpeed, CheckCardDetect, IdentifyCard, TryCmd1,
    Cmd1Tried, Cmd8Tried, VersionRead, CardOpCond, OcrRead, GetCardId,
    RcaRead, CsdRead, Identified, ScrRead, SpeedRead, UhsMode,
    MmcModeInit, MmcSpeed, EmmcModeInit, EmmcSpeed, TimingRead,
    RstFunction, SdCardInitialize, MmcMode, MmcBlkSize,
    CardInitialize, TypeInit

\* What is put in front comes first, then the rest
LEMMA SuccessSeq ==
    ASSUME NEW S, todo \in Seq(S), todo # <<>>, NEW next \in Seq(S), Success(next)
    PROVE  /\ todo' \in Seq(S) /\ Len(todo') = Len(next) + Len(todo) - 1
           /\ \A i \in 1 .. Len(next) : todo'[i] = next[i]
           /\ \A i \in 2 .. Len(todo) : todo'[Len(next) + i - 1] = todo[i]
<1>1. Tail(todo) \in Seq(S) /\ Len(Tail(todo)) = Len(todo) - 1 /\ Len(todo) \in Nat \ {0}
      /\ \A i \in 1 .. Len(todo) - 1 : Tail(todo)[i] = todo[i + 1]
  OBVIOUS
<1>2. todo' = next \o Tail(todo)
  BY DEF Success
<1>3. todo' \in Seq(S) /\ Len(todo') = Len(next) + Len(todo) - 1
      /\ (\A i \in 1 .. Len(next) : todo'[i] = next[i])
      /\ \A i \in 1 .. Len(todo) - 1 : todo'[Len(next) + i] = Tail(todo)[i]
  BY <1>1, <1>2, Concat
<1>4. ASSUME NEW i \in 2 .. Len(todo)
      PROVE  todo'[Len(next) + i - 1] = todo[i]
  <2>1. i - 1 \in 1 .. Len(todo) - 1 /\ Len(next) \in Nat /\ i - 1 + 1 = i
        /\ Len(next) + i - 1 = Len(next) + (i - 1)
    BY <1>1
  <2>2. todo'[Len(next) + (i - 1)] = Tail(todo)[i - 1] /\ Tail(todo)[i - 1] = todo[i]
    BY <1>1, <1>3, <2>1
  <2>3. QED
    BY <2>1, <2>2
<1>5. QED
  BY <1>3, <1>4

\* A failure ends the call, or leaves what the first handler begins
LEMMA FailureSeq ==
    ASSUME NEW S, todo \in Seq(S), todo # <<>>, NEW code, Failure(code)
    PROVE  \/ /\ todo' = <<>> /\ rc' = "XST_FAILURE"
              /\ \A k \in 2 .. Len(todo) : todo[k][1] \notin Handlers
           \/ \E k \in 2 .. Len(todo) :
                /\ todo[k][1] \in Handlers /\ rc' = code
                /\ todo' \in Seq(S) /\ Len(todo') = Len(todo) - k + 1
                /\ \A i \in 1 .. Len(todo') : todo'[i] = todo[k + i - 1]
                /\ \A j \in 2 .. k - 1 : todo[j][1] \notin Handlers
<1> DEFINE left == {n \in 2 .. Len(todo) : todo[n][1] \in Handlers}
           k == Min(left)
<1>1. todo' = (IF left = {} THEN <<>> ELSE SubSeq(todo, k, Len(todo)))
      /\ rc' = (IF left = {} THEN "XST_FAILURE" ELSE code)
  BY DEF Failure
<1>2. Len(todo) \in Nat \ {0}
  OBVIOUS
<1>3. CASE left = {}
  BY <1>1, <1>3
<1>4. CASE left # {}
  <2>1. left \in SUBSET Nat
    BY <1>2
  <2>2. k \in left /\ \A m \in left : k <= m
    BY <1>4, <2>1, Smallest
  <2> HIDE DEF k
  <2>3. k \in 2 .. Len(todo) /\ todo[k][1] \in Handlers
    BY <2>2
  <2>4. todo' = SubSeq(todo, k, Len(todo)) /\ rc' = code
    BY <1>1, <1>4
  <2>5. todo' \in Seq(S) /\ Len(todo') = Len(todo) - k + 1
        /\ \A i \in 1 .. Len(todo') : todo'[i] = todo[k + i - 1]
    BY <1>2, <2>3, <2>4, SubSeqProperties
  <2>6. \A j \in 2 .. k - 1 : todo[j][1] \notin Handlers
    <3>1. SUFFICES ASSUME NEW j \in 2 .. k - 1, todo[j][1] \in Handlers PROVE FALSE
      OBVIOUS
    <3>2. j \in left
      BY <1>2, <2>3, <3>1
    <3>3. QED
      BY <2>2, <2>3, <3>1, <3>2
  <2>7. QED
    BY <2>3, <2>4, <2>5, <2>6
<1>5. QED
  BY <1>3, <1>4

LEMMA Subsets == PlainItem \subseteq InitItem /\ InitItem \subseteq Item /\ CmdItem \subseteq PlainItem
                 /\ PollItem \subseteq InitItem
  BY DEF Item, InitItem, PlainItem

LEMMA SubSeqs ==
    ASSUME NEW S, NEW T, S \subseteq T, NEW s \in Seq(S)
    PROVE  s \in Seq(T)
  OBVIOUS

\* A poll's last item is no command, a handler neither
LEMMA Apart ==
    /\ \A x \in PollItem : x \notin CmdItem /\ x[1] \notin Handlers /\ x \notin PlainItem
    /\ \A x \in CmdItem : x[1] \notin Handlers
<1>1. \A x \in CmdItem : x[1] \in CmdNames
  BY DEF CmdItem, CmdNames
<1>2. \A x \in PollItem : x[1] \in {"OcrRead", "RcaRead"}
  BY DEF PollItem
<1>3. \A x \in PlainItem : x[1] \notin {"OcrRead", "RcaRead"}
  BY DEF PlainItem, CmdItem, InitNames
<1>4. QED
  BY <1>1, <1>2, <1>3 DEF CmdNames, Handlers

Statuses == {"XST_SUCCESS", "XST_FAILURE", "XSDPS_CT_ERROR", "XST_DEVICE_BUSY",
             "XST_DEVICE_IS_STARTED"}

\* The rest of the polling invariant is about the items before a poll's last
LEMMA FlowPolling ==
    ASSUME todo \in Seq(Item), todo # <<>>, Polling, Flow
    PROVE  todo' \in Seq(Item) /\ Polling' /\ rc' \in Statuses
<1>1. Len(todo) \in Nat \ {0}
  OBVIOUS
<1>2. ASSUME NEW next \in Seq(PlainItem), Success(next),
             todo[1] \in CmdItem => next = <<>> /\ count' = count
      PROVE  todo' \in Seq(Item) /\ Polling' /\ rc' \in Statuses
  <2>1. next \in Seq(Item)
    BY Subsets, SubSeqs
  <2>2. /\ todo' \in Seq(Item) /\ Len(todo') = Len(next) + Len(todo) - 1
        /\ \A i \in 1 .. Len(next) : todo'[i] = next[i]
        /\ \A i \in 2 .. Len(todo) : todo'[Len(next) + i - 1] = todo[i]
    BY <1>2, <2>1, SuccessSeq
  <2>3. rc' \in Statuses
    BY <1>2 DEF Success, Statuses
  <2>4. ASSUME NEW i \in 1 .. Len(todo'), todo'[i] \in PollItem
        PROVE  count' > 0 /\ \A j \in 1 .. i - 1 : todo'[j] \in CmdItem
    <3>1. Len(next) \in Nat
      OBVIOUS
    <3>2. ~ (i <= Len(next))
      <4>1. SUFFICES ASSUME i <= Len(next) PROVE FALSE
        OBVIOUS
      <4>2. todo'[i] = next[i] /\ next[i] \in PlainItem
        BY <2>2, <3>1, <4>1
      <4>3. QED
        BY <2>4, <4>2, Apart
    <3> DEFINE m == i - Len(next) + 1
    <3>3. m \in 2 .. Len(todo) /\ Len(next) + m - 1 = i
      BY <1>1, <2>2, <3>1, <3>2
    <3>4. todo'[i] = todo[m]
      BY <2>2, <3>3
    <3>5. count > 0 /\ \A j \in 1 .. m - 1 : todo[j] \in CmdItem
      BY <1>1, <2>4, <3>3, <3>4 DEF Polling
    <3>6. todo[1] \in CmdItem
      BY <3>3, <3>5
    <3>7. next = <<>> /\ count' = count /\ Len(next) = 0
      BY <1>2, <3>6
    <3>8. \A j \in 1 .. i - 1 : todo'[j] = todo[j + 1] /\ j + 1 \in 1 .. m - 1
      <4>1. ASSUME NEW j \in 1 .. i - 1
            PROVE  todo'[j] = todo[j + 1] /\ j + 1 \in 1 .. m - 1
        <5>1. j + 1 \in 2 .. Len(todo) /\ Len(next) + (j + 1) - 1 = j /\ j + 1 \in 1 .. m - 1
          BY <1>1, <3>3, <3>7, <4>1
        <5>2. QED
          BY <2>2, <5>1
      <4>2. QED
        BY <4>1
    <3> HIDE DEF m
    <3>9. QED
      BY <3>5, <3>7, <3>8
  <2>5. Polling'
    BY <2>4 DEF Polling
  <2>6. QED
    BY <2>2, <2>3, <2>5
<1>3. ASSUME NEW s \in Seq(CmdItem), NEW p \in PollItem, Success(s \o <<p>>), count' > 0,
             todo[1] \notin CmdItem
      PROVE  todo' \in Seq(Item) /\ Polling' /\ rc' \in Statuses
  <2> DEFINE next == s \o <<p>>
  <2>1. s \in Seq(Item) /\ <<p>> \in Seq(Item) /\ Len(s) \in Nat
    <3>1. s \in Seq(PlainItem) /\ p \in Item
      BY Subsets, SubSeqs
    <3>2. QED
      BY <3>1, Subsets, SubSeqs, One
  <2>2. next \in Seq(Item) /\ Len(next) = Len(s) + 1
        /\ (\A i \in 1 .. Len(s) : next[i] = s[i]) /\ next[Len(s) + 1] = p
    BY <2>1, Concat
  <2> HIDE DEF next
  <2>3. Success(next)
    BY <1>3 DEF next
  <2>4. /\ todo' \in Seq(Item) /\ Len(todo') = Len(next) + Len(todo) - 1
        /\ \A i \in 1 .. Len(next) : todo'[i] = next[i]
        /\ \A i \in 2 .. Len(todo) : todo'[Len(next) + i - 1] = todo[i]
    BY <2>2, <2>3, SuccessSeq
  <2>5. rc' \in Statuses
    BY <2>3 DEF Success, Statuses
  <2>6. ASSUME NEW i \in 1 .. Len(todo'), todo'[i] \in PollItem
        PROVE  \A j \in 1 .. i - 1 : todo'[j] \in CmdItem
    <3>1. i <= Len(next)
      <4>1. SUFFICES ASSUME i > Len(next) PROVE FALSE
        BY <2>1, <2>2, <2>4
      <4> DEFINE m == i - Len(next) + 1
      <4>2. m \in 2 .. Len(todo) /\ Len(next) + m - 1 = i
        BY <1>1, <2>1, <2>2, <2>4, <4>1
      <4>3. todo'[i] = todo[m]
        BY <2>4, <4>2
      <4>4. todo[1] \in CmdItem
        BY <1>1, <2>6, <4>2, <4>3 DEF Polling
      <4>5. QED
        BY <1>3, <4>4
    <3>2. ASSUME NEW j \in 1 .. i - 1 PROVE todo'[j] \in CmdItem
      <4>1. j \in 1 .. Len(s) /\ j \in 1 .. Len(next)
        BY <2>1, <2>2, <2>4, <3>1, <3>2
      <4>2. todo'[j] = s[j] /\ s[j] \in CmdItem
        BY <2>2, <2>4, <4>1
      <4>3. QED
        BY <4>2
    <3>3. QED
      BY <3>2
  <2>7. Polling'
    BY <1>3, <2>6 DEF Polling
  <2>8. QED
    BY <2>4, <2>5, <2>7
<1>4. ASSUME NEW code \in Codes, Failure(code)
      PROVE  todo' \in Seq(Item) /\ Polling' /\ rc' \in Statuses
  <2>1. CASE todo' = <<>> /\ rc' = "XST_FAILURE"
    BY <2>1 DEF Polling, Statuses
  <2>2. ASSUME NEW k \in 2 .. Len(todo), todo[k][1] \in Handlers, rc' = code,
               todo' \in Seq(Item), Len(todo') = Len(todo) - k + 1,
               \A i \in 1 .. Len(todo') : todo'[i] = todo[k + i - 1]
        PROVE  todo' \in Seq(Item) /\ Polling' /\ rc' \in Statuses
    <3>1. ASSUME NEW i \in 1 .. Len(todo'), todo'[i] \in PollItem
          PROVE  FALSE
      <4>1. k + i - 1 \in 1 .. Len(todo) /\ todo[k + i - 1] \in PollItem
        BY <1>1, <2>2, <3>1
      <4>2. CASE i = 1
        BY <2>2, <4>1, <4>2, Apart
      <4>3. CASE i > 1
        <5>1. k \in 1 .. (k + i - 1) - 1
          BY <1>1, <2>2, <4>3
        <5>2. todo[k] \in CmdItem
          BY <4>1, <5>1 DEF Polling
        <5>3. QED
          BY <2>2, <5>2, Apart
      <4>4. QED
        BY <2>2, <4>2, <4>3
    <3>2. Polling'
      BY <3>1 DEF Polling
    <3>3. rc' \in Statuses
      BY <2>2 DEF Codes, Statuses
    <3>4. QED
      BY <2>2, <3>2, <3>3
  <2>3. QED
    BY <1>4, <2>1, <2>2, FailureSeq
<1>5. QED
  BY <1>2, <1>3, <1>4 DEF Flow

\* In an initialization the last item stays, until it is done itself
LEMMA FlowInit ==
    ASSUME todo \in Seq(InitItem), todo # <<>>, Flow
    PROVE  /\ todo' \in Seq(InitItem)
           /\ Len(todo) > 1 /\ todo' # <<>> => todo'[Len(todo')] = todo[Len(todo)]
           /\ Len(todo) > 1 /\ rc' = "XST_SUCCESS" => todo' # <<>>
           /\ Len(todo) = 1 => \/ todo' = <<>> /\ rc' # "XST_SUCCESS"
                               \/ \E next \in Seq(InitItem) : Success(next) /\ todo' = next
<1>1. Len(todo) \in Nat \ {0}
  OBVIOUS
<1>2. ASSUME NEW next \in Seq(InitItem), Success(next)
      PROVE  /\ todo' \in Seq(InitItem)
             /\ Len(todo) > 1 => todo'[Len(todo')] = todo[Len(todo)] /\ todo' # <<>>
             /\ Len(todo) = 1 => todo' = next
  <2>1. /\ todo' \in Seq(InitItem) /\ Len(todo') = Len(next) + Len(todo) - 1
        /\ \A i \in 2 .. Len(todo) : todo'[Len(next) + i - 1] = todo[i]
    BY <1>2, SuccessSeq
  <2>2. Len(next) \in Nat
    OBVIOUS
  <2>3. ASSUME Len(todo) > 1
        PROVE  todo'[Len(todo')] = todo[Len(todo)] /\ todo' # <<>>
    <3>1. Len(todo) \in 2 .. Len(todo) /\ Len(todo') > 0
      BY <1>1, <2>1, <2>2, <2>3
    <3>2. QED
      BY <2>1, <3>1
  <2>4. ASSUME Len(todo) = 1 PROVE todo' = next
    <3>1. Tail(todo) = <<>>
      <4>1. Tail(todo) \in Seq(InitItem) /\ Len(Tail(todo)) = 0
        BY <2>4, HeadTailProperties
      <4>2. QED
        BY <4>1, EmptySeq
    <3>2. todo' = next \o <<>>
      BY <1>2, <3>1 DEF Success
    <3>3. QED
      BY <3>2, ConcatEmptySeq
  <2>5. QED
    BY <2>1, <2>3, <2>4
<1>3. ASSUME NEW code \in Codes, Failure(code)
      PROVE  /\ todo' \in Seq(InitItem)
             /\ Len(todo) > 1 /\ todo' # <<>> => todo'[Len(todo')] = todo[Len(todo)]
             /\ rc' # "XST_SUCCESS"
             /\ Len(todo) = 1 => todo' = <<>>
  <2>1. code # "XST_SUCCESS"
    BY DEF Codes
  <2>2. CASE todo' = <<>> /\ rc' = "XST_FAILURE"
    BY <2>2
  <2>3. ASSUME NEW k \in 2 .. Len(todo), rc' = code,
               todo' \in Seq(InitItem), Len(todo') = Len(todo) - k + 1,
               \A i \in 1 .. Len(todo') : todo'[i] = todo[k + i - 1]
        PROVE  /\ todo' \in Seq(InitItem)
               /\ todo'[Len(todo')] = todo[Len(todo)]
               /\ rc' # "XST_SUCCESS" /\ Len(todo) # 1
    <3>1. Len(todo') \in 1 .. Len(todo') /\ k + Len(todo') - 1 = Len(todo)
      BY <1>1, <2>3
    <3>2. todo'[Len(todo')] = todo[Len(todo)]
      BY <2>3, <3>1
    <3>3. QED
      BY <1>1, <2>1, <2>3, <3>2
  <2>4. QED
    BY <1>1, <1>3, <2>2, <2>3, FailureSeq
<1>4. CASE \E next \in Seq(PlainItem) : Success(next)
  <2>1. PICK next \in Seq(PlainItem) : Success(next)
    BY <1>4
  <2>2. next \in Seq(InitItem)
    BY Subsets, SubSeqs
  <2>3. QED
    BY <1>1, <1>2, <2>1, <2>2
<1>5. CASE \E s \in Seq(CmdItem), p \in PollItem : Success(s \o <<p>>)
  <2>1. PICK s \in Seq(CmdItem), p \in PollItem : Success(s \o <<p>>)
    BY <1>5
  <2>2. s \in Seq(PlainItem) /\ p \in InitItem
    BY Subsets, SubSeqs
  <2>3. s \in Seq(InitItem) /\ <<p>> \in Seq(InitItem)
    BY <2>2, Subsets, SubSeqs, One
  <2>4. s \o <<p>> \in Seq(InitItem)
    BY <2>3, Concat
  <2>5. QED
    BY <1>1, <1>2, <2>1, <2>4
<1>6. QED
  BY <1>3, <1>4, <1>5 DEF Flow

-----------------------------------------------------------------------------
(* The types                                                               *)

CallTyped(c) == DOMAIN c = {"api", "blocks"} /\ c.blocks \in {0} \cup BlkCnts

\* The types, by the variables they are about
Parts ==
    /\ DrvTyped(drv) /\ HostTyped(host) /\ LineTyped(line)
    /\ sts \subseteq {"CC", "TC", "BRR"} /\ err \subseteq {"CT", "OTHER"}
    /\ rc \in Statuses /\ Counts /\ faults \in 0 .. MaxFaults /\ calls \in 0 .. MaxCalls
    /\ todo \in Seq(Item) /\ CallTyped(call)

LEMMA TypedParts == Typed <=> Parts
<1>1. DOMAIN NewDriver(drv.cfg) = DrvFields /\ DOMAIN ResetHost(host) = HostFields
      /\ DOMAIN FreeLines = LineFields
  BY NewDriverFields, ResetHostFields, FreeLineFields
<1>2. QED
  BY <1>1, Zenon DEF Typed, TypeOK, Parts, DrvTyped, HostTyped, LineTyped, Counts,
     CallTyped, Statuses

LEMMA TypedPartsNext == Typed' <=> Parts'
<1>1. DOMAIN NewDriver(drv'.cfg) = DrvFields /\ DOMAIN ResetHost(host') = HostFields
      /\ DOMAIN FreeLines = LineFields
  BY NewDriverFields, ResetHostFields, FreeLineFields
<1>2. QED
  BY <1>1, Zenon DEF Typed, TypeOK, Parts, DrvTyped, HostTyped, LineTyped, Counts,
     CallTyped, Statuses

\* The first state
LEMMA InitInvariant == Init => IInv
<1> SUFFICES ASSUME Init PROVE IInv
  OBVIOUS
<1>1. todo = <<>> /\ rc = "XST_SUCCESS" /\ count = 0 /\ faults = 0 /\ calls = 0 /\ sts = {} /\ err = {}
      /\ call = [api |-> "none", blocks |-> 0] /\ inited = FALSE /\ line = FreeLines
      /\ host = ResetHost([otap |-> 0, itap |-> 0]) /\ drv = NewDriver(board.cfg)
  BY Zenon DEF Init
<1>2. Parts
  <2>1. DrvTyped(drv)
    BY <1>1, NewDriverFields DEF DrvTyped, NewDriver, Mode, SDR12
  <2>2. HostTyped(host)
    BY <1>1, ResetHostFields, ZeroCount DEF HostTyped, ResetHost
  <2>3. LineTyped(line)
    BY <1>1, FreeLineFields DEF LineTyped, FreeLines
  <2>4. Counts
    <3>1. OP_POLLS \in Nat
      BY SdAssumption
    <3>2. count \in 0 .. OP_POLLS
      BY <1>1, <3>1
    <3>3. QED
      BY <3>2 DEF Counts
  <2>5. faults \in 0 .. MaxFaults /\ calls \in 0 .. MaxCalls
    BY <1>1, SdAssumption
  <2>6. CallTyped(call)
    BY <1>1 DEF CallTyped
  <2>7. QED
    BY <1>1, <2>1, <2>2, <2>3, <2>4, <2>5, <2>6 DEF Parts, Statuses
<1>3. Polling
  BY <1>1 DEF Polling
<1>4. OldIsOverdue
  BY <1>1 DEF OldIsOverdue, FreeLines
<1>5. Initializing /\ Configured /\ Stages /\ OwnTransfer /\ OwnData
  BY <1>1 DEF Initializing, Configured, Stages, OwnTransfer, OwnData, Successful, Returned
<1>6. QED
  BY <1>2, <1>3, <1>4, <1>5, TypedParts DEF IInv

-----------------------------------------------------------------------------
(* The steps of the calls                                                  *)

CallNames == {"CfgInitialize", "SetupTransfer", "Started", "CheckTransferComplete",
              "Erase", "Sanitize", "ReadOrWrite", "StartIt"}

LEMMA CallHead ==
    ASSUME todo \in Seq(Item), NEW f \in CallNames, At(f)
    PROVE  /\ todo # <<>> /\ todo[1] \notin CmdItem /\ todo[1] \notin PollItem
           /\ f \in {"ReadOrWrite", "StartIt"} =>
                Arg(1) \in {"read", "write"} /\ Arg(2) \in BlkCnts
<1>1. todo # <<>> /\ todo[1] = Head(todo) /\ Head(todo) \in Item /\ Head(todo)[1] = f
  BY DEF At
<1>2. \A x \in CmdItem : x[1] \in CmdNames
  BY DEF CmdItem, CmdNames
<1>3. \A x \in PollItem : x[1] \in {"OcrRead", "RcaRead"}
  BY DEF PollItem
<1>4. f \notin CmdNames /\ f \notin {"OcrRead", "RcaRead"}
  BY DEF CmdNames, CallNames
<1>5. ASSUME f \in {"ReadOrWrite", "StartIt"}
      PROVE  Arg(1) \in {"read", "write"} /\ Arg(2) \in BlkCnts
  <2>1. \A x \in InitItem : x[1] \notin {"ReadOrWrite", "StartIt"}
    BY DEF InitItem, PollItem, PlainItem, CmdItem, InitNames
  <2>2. Head(todo) \in CallItem
    BY <1>1, <1>5, <2>1 DEF Item
  <2>3. Head(todo) \in {"ReadOrWrite", "StartIt"} \X {"read", "write"} \X BlkCnts
    BY <1>1, <1>5, <2>2 DEF CallItem
  <2>4. QED
    BY <2>3 DEF Arg
<1>6. QED
  BY <1>1, <1>2, <1>3, <1>4, <1>5

\* After a step that is no command, no round of a poll is under way
LEMMA NoPoll ==
    ASSUME todo \in Seq(Item), todo # <<>>, Polling, todo[1] \notin CmdItem, todo[1] \notin PollItem
    PROVE  \A i \in 1 .. Len(todo) : todo[i] \notin PollItem
<1>1. SUFFICES ASSUME NEW i \in 1 .. Len(todo), todo[i] \in PollItem PROVE FALSE
  OBVIOUS
<1>2. i # 1
  BY <1>1
<1>3. 1 \in 1 .. i - 1
  BY <1>1, <1>2
<1>4. todo[1] \in CmdItem
  BY <1>1, <1>3 DEF Polling
<1>5. QED
  BY <1>4

\* An item and what follows it
LEMMA Joined ==
    ASSUME NEW a, NEW b PROVE <<a>> \o <<b>> = <<a, b>>
<1> DEFINE S == {a, b}
           s == <<a>>
           t == <<b>>
           u == <<a, b>>
<1>1. s \in Seq(S) /\ t \in Seq(S) /\ u \in Seq(S) /\ Len(s) = 1 /\ Len(t) = 1 /\ Len(u) = 2
      /\ s[1] = a /\ t[1] = b /\ u[1] = a /\ u[2] = b
  OBVIOUS
<1> HIDE DEF S, s, t, u
<1>2. s \o t \in Seq(S) /\ Len(s \o t) = 2 /\ (s \o t)[1] = a /\ (s \o t)[2] = b
  BY <1>1, Concat
<1>3. \A i \in 1 .. Len(u) : u[i] = (s \o t)[i]
  BY <1>1, <1>2
<1>4. u = s \o t
  BY <1>1, <1>2, <1>3, SeqEqual
<1>5. QED
  BY <1>4 DEF s, t, u

\* Two more kinds of steps: the end of a call, and a call step in front
LEMMA EndsPolling ==
    ASSUME NEW code \in Statuses, CallEnds(code)
    PROVE  todo' \in Seq(Item) /\ Polling' /\ rc' \in Statuses
  BY DEF CallEnds, Polling

LEMMA CallPolling ==
    ASSUME todo \in Seq(Item), Polling, NEW f \in CallNames, At(f),
           NEW next \in Seq(Item), \A i \in 1 .. Len(next) : next[i] \notin PollItem,
           Success(next)
    PROVE  todo' \in Seq(Item) /\ Polling' /\ rc' \in Statuses
<1>1. todo # <<>> /\ \A i \in 1 .. Len(todo) : todo[i] \notin PollItem
  BY CallHead, NoPoll
<1>2. /\ todo' \in Seq(Item) /\ Len(todo') = Len(next) + Len(todo) - 1
      /\ \A i \in 1 .. Len(next) : todo'[i] = next[i]
      /\ \A i \in 2 .. Len(todo) : todo'[Len(next) + i - 1] = todo[i]
  BY <1>1, SuccessSeq
<1>3. Len(next) \in Nat /\ Len(todo) \in Nat
  OBVIOUS
<1>4. ASSUME NEW i \in 1 .. Len(todo') PROVE todo'[i] \notin PollItem
  <2>1. CASE i <= Len(next)
    BY <1>2, <1>3, <1>4, <2>1
  <2>2. CASE i > Len(next)
    <3>1. PICK m \in 2 .. Len(todo) : Len(next) + m - 1 = i
      <4>1. i - Len(next) + 1 \in 2 .. Len(todo) /\ Len(next) + (i - Len(next) + 1) - 1 = i
        BY <1>2, <1>3, <1>4, <2>2
      <4>2. QED
        BY <4>1
    <3>2. todo'[i] = todo[m] /\ m \in 1 .. Len(todo)
      BY <1>2, <3>1
    <3>3. QED
      BY <1>1, <3>2
  <2>3. QED
    BY <1>2, <1>3, <1>4, <2>1, <2>2
<1>5. rc' \in Statuses
  BY DEF Success, Statuses
<1>6. QED
  BY <1>2, <1>4, <1>5 DEF Polling

CallStep ==
    \/ CfgInitialize \/ SetupTransfer \/ ReadOrWrite \/ StartIt
    \/ Started \/ CheckTransferComplete \/ Erase \/ Sanitize

\* Commands of a transfer
LEMMA TransferItems ==
    ASSUME NEW n \in BlkCnts, NEW size \in {0, 512}, NEW cmd \in DataCmds
    PROVE  << <<"SetupDma", "user", n % U16, size>> >> \o CmdTransfer(cmd, "", n % U16)
             \in Seq(PlainItem)
<1>1. n \in Nat
  BY SdAssumption
<1>2. n % U16 \in 0 .. U16 - 1
  <2>1. U16 \in Nat /\ U16 > 0
    BY DEF U16
  <2>2. QED
    BY <1>1, <2>1
<1>3. cmd \in Commands /\ "" \in Arguments
  BY DEF DataCmds, Commands, Arguments
<1>4. CmdTransfer(cmd, "", n % U16) \in Seq(PlainItem)
  BY <1>2, <1>3, CmdSeq, PlainSeq
<1>5. "user" \in Buffers /\ size \in Nat
  BY DEF Buffers
<1>6. <<"SetupDma", "user", n % U16, size>> \in PlainItem
  BY <1>2, <1>5, PlainItems
<1>7. QED
  BY <1>4, <1>6, One, Concat

LEMMA EraseItems ==
    ASSUME NEW c, NEW sd
    PROVE  If(c, SetStartAddr(sd) \o SetEndAddr(sd) \o SendErase) \in Seq(PlainItem)
<1>1. \A cmd \in {"CMD32", "CMD35", "CMD33", "CMD36", "CMD38"} :
        CmdTransfer(cmd, "", 0) \in Seq(PlainItem)
  <2>1. {"CMD32", "CMD35", "CMD33", "CMD36", "CMD38"} \subseteq Commands /\ "" \in Arguments
    BY DEF Commands, Arguments
  <2>2. QED
    BY <2>1, PlainCmd
<1>2. SetStartAddr(sd) \in Seq(PlainItem) /\ SetEndAddr(sd) \in Seq(PlainItem)
  <2>1. PICK a, b : /\ SetStartAddr(sd) = CmdTransfer(a, "", 0) /\ a \in {"CMD32", "CMD35"}
                    /\ SetEndAddr(sd) = CmdTransfer(b, "", 0) /\ b \in {"CMD33", "CMD36"}
    BY DEF SetStartAddr, SetEndAddr
  <2>2. QED
    BY <1>1, <2>1
<1>3. Only("CheckTransferDone") \in Seq(PlainItem)
  BY PlainOnly DEF InitNames
<1>4. SendErase \in Seq(PlainItem)
  BY <1>1, <1>3, Concat DEF SendErase
<1>5. QED
  BY <1>2, <1>4, Concat, PlainIf

LEMMA CallItems ==
    /\ \A f \in {"CfgInitialize", "SetupTransfer", "Started", "CheckTransferComplete",
                 "Erase", "Sanitize"} : <<f>> \in Item /\ <<f>> \notin PollItem
    /\ \A dir \in {"read", "write"}, n \in BlkCnts :
         /\ <<"ReadOrWrite", dir, n>> \in Item /\ <<"ReadOrWrite", dir, n>> \notin PollItem
         /\ <<"StartIt", dir, n>> \in Item /\ <<"StartIt", dir, n>> \notin PollItem
  BY DEF Item, CallItem, PollItem

LEMMA CallStepTodo ==
    ASSUME Parts, Polling, CallStep
    PROVE  todo' \in Seq(Item) /\ Polling' /\ rc' \in Statuses
<1> USE DEF Parts
<1>1. ASSUME Flow, todo # <<>> PROVE todo' \in Seq(Item) /\ Polling' /\ rc' \in Statuses
  BY <1>1, FlowPolling
<1>2. ASSUME NEW f \in CallNames, At(f) PROVE f \notin CmdNames /\ todo # <<>>
  BY <1>2, CallHead DEF CallNames, CmdNames
<1>3. CASE CfgInitialize
  <2>1. At("CfgInitialize") /\ "CfgInitialize" \in CallNames
    BY <1>3 DEF CfgInitialize, CallNames
  <2>2. CallEnds("XST_DEVICE_IS_STARTED") \/ Success(ResetConfig \o Only("HostConfig"))
    BY <1>3, Zenon DEF CfgInitialize
  <2>3. ResetConfig \o Only("HostConfig") \in Seq(PlainItem)
    <3>1. Only("HostConfig") \in Seq(PlainItem)
      BY PlainOnly DEF InitNames
    <3>2. QED
      BY <3>1, ResetConfigItems, Concat
  <2>4. CASE CallEnds("XST_DEVICE_IS_STARTED")
    BY <2>4, EndsPolling DEF Statuses
  <2>5. CASE Success(ResetConfig \o Only("HostConfig"))
    BY <1>1, <1>2, <2>1, <2>3, <2>5, GoesOn
  <2>6. QED
    BY <2>2, <2>4, <2>5
<1>4. CASE SetupTransfer
  <2>1. At("SetupTransfer") /\ "SetupTransfer" \in CallNames
    BY <1>4 DEF SetupTransfer, CallNames
  <2>2. Failure("XST_FAILURE") \/ Success(If(host.blksz # 512, SetBlkSize))
    BY <1>4, Zenon DEF SetupTransfer
  <2>3. If(host.blksz # 512, SetBlkSize) \in Seq(PlainItem)
    BY SetBlkSizeItems, PlainIf
  <2>4. Flow
    BY <1>2, <2>1, <2>2, <2>3, GoesOn, Fails
  <2>5. QED
    BY <1>1, <1>2, <2>1, <2>4
<1>5. CASE ReadOrWrite
  <2>1. At("ReadOrWrite") /\ "ReadOrWrite" \in CallNames
    <3>1. At("ReadOrWrite")
      BY <1>5, Zenon DEF ReadOrWrite
    <3>2. QED
      BY <3>1 DEF CallNames
  <2>2. Arg(2) \in BlkCnts
    BY <2>1, CallHead
  <2>3. \/ Failure("XST_FAILURE")
        \/ \E cmd \in DataCmds :
             Success(<< <<"SetupDma", "user", Arg(2) % U16, drv.blk>> >>
                        \o CmdTransfer(cmd, "", Arg(2) % U16))
    BY <1>5, Zenon DEF ReadOrWrite, DataCmds
  <2>4. drv.blk \in {0, 512}
    BY DEF DrvTyped
  <2>5. Flow
    <3>1. ASSUME NEW cmd \in DataCmds,
                 Success(<< <<"SetupDma", "user", Arg(2) % U16, drv.blk>> >>
                            \o CmdTransfer(cmd, "", Arg(2) % U16))
          PROVE  Flow
      <4>1. << <<"SetupDma", "user", Arg(2) % U16, drv.blk>> >>
               \o CmdTransfer(cmd, "", Arg(2) % U16) \in Seq(PlainItem)
        BY ZenonT(120), <2>2, <2>4, TransferItems
      <4>2. QED
        BY <1>2, <2>1, <3>1, <4>1, GoesOn
    <3>2. QED
      BY <2>3, <3>1, Fails
  <2>6. QED
    BY <1>1, <1>2, <2>1, <2>5
<1>6. CASE StartIt
  <2>1. At("StartIt") /\ "StartIt" \in CallNames
    BY <1>6 DEF StartIt, CallNames
  <2>2. Arg(2) \in BlkCnts /\ Arg(1) \in {"read", "write"}
    BY <2>1, CallHead
  <2> DEFINE a == <<"ReadOrWrite", Arg(1), Arg(2)>>
             b == <<"Started">>
             next == <<a, b>>
  <2>3. a \in Item /\ a \notin PollItem /\ b \in Item /\ b \notin PollItem
    BY <2>2, CallItems
  <2>4. Success(next)
    <3>1. <<a>> \o <<b>> = next
      BY Joined
    <3>2. Success(<<a>> \o <<b>>)
      BY <1>6, Zenon DEF StartIt, Only
    <3>3. QED
      BY <3>1, <3>2, Zenon
  <2> HIDE DEF a, b
  <2>5. next \in Seq(Item) /\ \A i \in 1 .. Len(next) : next[i] \notin PollItem
    BY <2>3
  <2> HIDE DEF next
  <2>6. QED
    BY <2>1, <2>4, <2>5, CallPolling
<1>7. CASE Started
  <2>1. At("Started") /\ "Started" \in CallNames
    BY <1>7 DEF Started, CallNames
  <2>2. Failure("XST_FAILURE") \/ Success(<<>>)
    BY <1>7, Zenon DEF Started
  <2>3. Flow
    BY <1>2, <2>1, <2>2, Empty, GoesOn, Fails
  <2>4. QED
    BY <1>1, <1>2, <2>1, <2>3
<1>8. CASE CheckTransferComplete
  <2>1. At("CheckTransferComplete") /\ "CheckTransferComplete" \in CallNames
    BY <1>8 DEF CheckTransferComplete, CallNames
  <2>2. Failure("XST_FAILURE") \/ Success(<<>>) \/ CallEnds("XST_DEVICE_BUSY")
    BY <1>8, Zenon DEF CheckTransferComplete
  <2>3. CASE CallEnds("XST_DEVICE_BUSY")
    BY <2>3, EndsPolling DEF Statuses
  <2>4. CASE Failure("XST_FAILURE") \/ Success(<<>>)
    <3>1. Flow
      BY <1>2, <2>1, <2>4, Empty, GoesOn, Fails
    <3>2. QED
      BY <1>1, <1>2, <2>1, <3>1
  <2>5. QED
    BY <2>2, <2>3, <2>4
<1>9. CASE Erase
  <2>1. At("Erase") /\ "Erase" \in CallNames
    BY <1>9 DEF Erase, CallNames
  <2>2. \/ Failure("XST_FAILURE")
        \/ \E c, sd : Success(If(c, SetStartAddr(sd) \o SetEndAddr(sd) \o SendErase))
    BY <1>9, Zenon DEF Erase
  <2>3. Flow
    BY <1>2, <2>1, <2>2, GoesOn, Fails, EraseItems
  <2>4. QED
    BY <1>1, <1>2, <2>1, <2>3
<1>10. CASE Sanitize
  <2>1. At("Sanitize") /\ "Sanitize" \in CallNames
    BY <1>10 DEF Sanitize, CallNames
  <2>2. Failure("XST_FAILURE") \/ Success(Set_Mmc_ExtCsd("SANITIZE"))
    BY <1>10, Zenon DEF Sanitize
  <2>3. Set_Mmc_ExtCsd("SANITIZE") \in Seq(PlainItem)
    <3>1. "SANITIZE" \in Arguments
      BY DEF Arguments
    <3>2. QED
      BY <3>1, SetExtCsdItems
  <2>4. Flow
    BY <1>2, <2>1, <2>2, <2>3, GoesOn, Fails
  <2>5. QED
    BY <1>1, <1>2, <2>1, <2>4
<1>11. QED
  BY <1>3, <1>4, <1>5, <1>6, <1>7, <1>8, <1>9, <1>10 DEF CallStep

-----------------------------------------------------------------------------
(* The types after every step                                              *)

LEMMA InitStepTypes ==
    ASSUME Parts, Polling, InitStep
    PROVE  /\ DrvTyped(drv') /\ HostTyped(host') /\ LineTyped(line')
           /\ sts' \subseteq {"CC", "TC", "BRR"} /\ err' \subseteq {"CT", "OTHER"}
           /\ rc' \in Statuses /\ Counts' /\ faults' \in 0 .. MaxFaults
           /\ todo' \in Seq(Item) /\ Polling'
<1>1. DrvTyped(drv') /\ HostTyped(host') /\ LineTyped(line')
  BY DrvKept, HostKept, LineKept DEF Parts
<1>2. sts' \subseteq {"CC", "TC", "BRR"} /\ err' \subseteq {"CT", "OTHER"} /\ Counts'
      /\ faults' \in 0 .. MaxFaults
  BY StatusKept, CountKept, FaultsKept DEF Parts
<1>3. drv.mode \in Mode /\ todo \in Seq(Item) /\ todo # <<>>
  BY Busy DEF Parts, DrvTyped
<1>4. {OP_POLLS, ID_POLLS} \subseteq Nat \ {0} /\ {OP_POLLS, ID_POLLS, MAX_TUNING} \subseteq Nat
  BY SdAssumption
<1>5. count \in Nat
  <2>1. PICK n \in {OP_POLLS, ID_POLLS, MAX_TUNING} : count \in 0 .. n
    BY DEF Parts, Counts
  <2>2. QED
    BY <1>4, <2>1
<1>6. Flow
  BY <1>3, <1>4, <1>5, StepFlow
<1>7. QED
  BY <1>1, <1>2, <1>3, <1>6, FlowPolling

LEMMA CallStepTypes ==
    ASSUME Parts, Polling, CallStep
    PROVE  /\ DrvTyped(drv') /\ HostTyped(host') /\ LineTyped(line')
           /\ sts' \subseteq {"CC", "TC", "BRR"} /\ err' \subseteq {"CT", "OTHER"}
           /\ rc' \in Statuses /\ Counts' /\ faults' \in 0 .. MaxFaults
           /\ todo' \in Seq(Item) /\ Polling'
<1>1. host' = host /\ line' = line /\ faults' = faults /\ count' = count
  BY Zenon DEF CallStep, CfgInitialize, SetupTransfer, ReadOrWrite, StartIt, Started,
     CheckTransferComplete, Erase, Sanitize, hostVars, cardVars
<1>2. sts' \subseteq sts /\ err' \subseteq err
  <2>1. CASE CheckTransferComplete
    <3>1. (sts' = sts \/ sts' = sts \ {"TC"}) /\ (err' = err \/ err' = {})
      BY <2>1, Zenon DEF CheckTransferComplete
    <3>2. QED
      BY <3>1
  <2>2. CASE ~CheckTransferComplete
    <3>1. sts' = sts /\ err' = err
      BY <2>2, Zenon DEF CallStep, CfgInitialize, SetupTransfer, ReadOrWrite, StartIt, Started,
         Erase, Sanitize, hostVars
    <3>2. QED
      BY <3>1
  <2>3. QED
    BY <2>1, <2>2
<1>3. \/ drv' = drv \/ drv' = [drv EXCEPT !.busy = TRUE] \/ drv' = [drv EXCEPT !.busy = FALSE]
      \/ drv' = [drv EXCEPT !.cfg = board.cfg, !.mode = DEFAULT, !.otap = 0,
                            !.itap = 0, !.busy = FALSE, !.blk = 0]
  BY Zenon DEF CallStep, CfgInitialize, SetupTransfer, ReadOrWrite, StartIt, Started,
     CheckTransferComplete, Erase, Sanitize
<1>4. DrvTyped(drv) => DrvTyped(drv')
  <2> SUFFICES ASSUME DrvTyped(drv) PROVE DrvTyped(drv')
    OBVIOUS
  <2>1. CASE drv' = drv
    BY <2>1
  <2>2. CASE drv' = [drv EXCEPT !.busy = TRUE] \/ drv' = [drv EXCEPT !.busy = FALSE]
    BY <2>2 DEF DrvTyped, DrvFields
  <2>3. CASE drv' = [drv EXCEPT !.cfg = board.cfg, !.mode = DEFAULT, !.otap = 0,
                                !.itap = 0, !.busy = FALSE, !.blk = 0]
    BY <2>3 DEF DrvTyped, DrvFields, Mode, DEFAULT
  <2>4. QED
    BY <1>3, <2>1, <2>2, <2>3
<1>5. Counts => Counts'
  BY <1>1 DEF Counts
<1>6. QED
  BY <1>1, <1>2, <1>4, <1>5, CallStepTodo DEF Parts

LEMMA DriverTypes ==
    ASSUME Parts, Polling, DriverStep
    PROVE  Parts' /\ Polling'
<1>1. InitStep \/ CallStep
  BY Zenon DEF DriverStep, CallStep
<1>2. calls' = calls /\ (call' = call \/ call' = [call EXCEPT !.blocks = 0])
  BY Zenon DEF DriverStep
<1>3. CallTyped(call')
  BY <1>2 DEF Parts, CallTyped
<1>4. calls' \in 0 .. MaxCalls
  BY <1>2 DEF Parts
<1>5. QED
  BY <1>1, <1>3, <1>4, InitStepTypes, CallStepTypes, Zenon DEF Parts

\* What a call begins with
Body(body) ==
    body \in Seq(Item) /\ body # <<>> /\ \A i \in 1 .. Len(body) : body[i] \notin PollItem

LEMMA OnlyBody ==
    \A f \in {"CfgInitialize", "CardInitialize", "CheckTransferComplete", "Erase", "Sanitize"} :
        Body(Only(f))
<1> SUFFICES ASSUME NEW f \in {"CfgInitialize", "CardInitialize", "CheckTransferComplete",
                               "Erase", "Sanitize"}
             PROVE  Body(Only(f))
  OBVIOUS
<1>1. <<f>> \in Item /\ <<f>> \notin PollItem
  <2>1. CASE f = "CardInitialize"
    <3>1. <<"CardInitialize">> \in PlainItem
      BY PlainItems DEF InitNames
    <3>2. QED
      BY <2>1, <3>1, Subsets, Apart
  <2>2. CASE f # "CardInitialize"
    BY <2>2, CallItems
  <2>3. QED
    BY <2>1, <2>2
<1> DEFINE x == <<f>>
<1> HIDE DEF x
<1>2. <<x>> \in Seq(Item) /\ Len(<<x>>) = 1 /\ <<x>>[1] \notin PollItem /\ <<x>> # <<>>
  BY <1>1 DEF x
<1>3. Body(<<x>>)
  BY <1>2 DEF Body
<1>4. QED
  BY <1>3 DEF x, Only

LEMMA PlainBody ==
    ASSUME NEW s \in Seq(PlainItem), s # <<>> PROVE Body(s)
<1>1. s \in Seq(Item)
  BY Subsets, SubSeqs
<1>2. \A i \in 1 .. Len(s) : s[i] \in PlainItem
  OBVIOUS
<1>3. QED
  BY <1>1, <1>2, Apart DEF Body

\* Transfers, item by item
LEMMA PolledItems ==
    ASSUME NEW dir \in {"read", "write"}, NEW n \in BlkCnts
    PROVE  LET t == Polled(dir, n) IN
           /\ t \in Seq(Item) /\ Len(t) = 3 /\ t[1] = <<"SetupTransfer">>
           /\ t[2] = <<"ReadOrWrite", dir, n>> /\ t[3] = <<"CheckTransferDone">>
<1> DEFINE a == <<"SetupTransfer">>
           b == <<"ReadOrWrite", dir, n>>
           c == <<"CheckTransferDone">>
<1>1. a \in Item /\ b \in Item /\ c \in Item
  <2>1. c \in PlainItem
    BY PlainItems DEF InitNames
  <2>2. QED
    BY <2>1, CallItems, Subsets
<1>2. Polled(dir, n) = <<a>> \o <<b>> \o <<c>>
  BY Zenon DEF Polled, Only
<1> HIDE DEF a, b, c
<1>3. <<a>> \in Seq(Item) /\ <<b>> \in Seq(Item) /\ <<c>> \in Seq(Item)
      /\ Len(<<a>>) = 1 /\ Len(<<b>>) = 1 /\ Len(<<c>>) = 1
      /\ <<a>>[1] = a /\ <<b>>[1] = b /\ <<c>>[1] = c
  BY <1>1
<1>4. <<a>> \o <<b>> = <<a, b>>
  BY Joined
<1>5. <<a, b>> \in Seq(Item) /\ Len(<<a, b>>) = 2 /\ <<a, b>>[1] = a /\ <<a, b>>[2] = b
  BY <1>1
<1> DEFINE ab == <<a, b>>
           rest == <<c>>
           t == ab \o rest
<1>6. ab \in Seq(Item) /\ Len(ab) = 2 /\ ab[1] = a /\ ab[2] = b
      /\ rest \in Seq(Item) /\ Len(rest) = 1 /\ rest[1] = c
  BY <1>3, <1>5
<1>7. Polled(dir, n) = t
  BY <1>2, <1>4, Zenon
<1> HIDE DEF ab, rest
<1>8. t \in Seq(Item) /\ Len(t) = 3 /\ t[1] = a /\ t[2] = b /\ t[3] = c
  <2>1. /\ t \in Seq(Item) /\ Len(t) = Len(ab) + Len(rest)
        /\ \A i \in 1 .. Len(ab) : t[i] = ab[i]
        /\ \A i \in 1 .. Len(rest) : t[Len(ab) + i] = rest[i]
    <3>1. ab \in Seq(Item) /\ rest \in Seq(Item)
      BY <1>6
    <3>2. QED
      BY <3>1, Concat
  <2> HIDE DEF t
  <2>2. QED
    BY <1>6, <2>1
<1> HIDE DEF t
<1>9. QED
  BY <1>7, <1>8 DEF a, b, c

LEMMA StartItems ==
    ASSUME NEW dir \in {"read", "write"}, NEW n \in BlkCnts
    PROVE  LET t == StartTransfer(dir, n) IN
           /\ t \in Seq(Item) /\ Len(t) = 2 /\ t[1] = <<"SetupTransfer">>
           /\ t[2] = <<"StartIt", dir, n>>
<1> DEFINE a == <<"SetupTransfer">>
           b == <<"StartIt", dir, n>>
<1>1. a \in Item /\ b \in Item
  BY CallItems
<1>2. StartTransfer(dir, n) = <<a>> \o <<b>>
  BY Zenon DEF StartTransfer, Only
<1> HIDE DEF a, b
<1>3. StartTransfer(dir, n) = <<a, b>>
  BY <1>2, Joined
<1>4. <<a, b>> \in Seq(Item) /\ Len(<<a, b>>) = 2 /\ <<a, b>>[1] = a /\ <<a, b>>[2] = b
  BY <1>1
<1>5. QED
  BY <1>3, <1>4 DEF a, b

LEMMA TransferBody ==
    ASSUME NEW dir \in {"read", "write"}, NEW n \in BlkCnts
    PROVE  Body(Polled(dir, n)) /\ Body(StartTransfer(dir, n))
<1>1. <<"CheckTransferDone">> \notin PollItem
  BY DEF PollItem
<1>2. <<"SetupTransfer">> \notin PollItem /\ <<"ReadOrWrite", dir, n>> \notin PollItem
      /\ <<"StartIt", dir, n>> \notin PollItem
  BY CallItems
<1> DEFINE p == Polled(dir, n)
           s == StartTransfer(dir, n)
<1>3. p \in Seq(Item) /\ Len(p) = 3
      /\ p[1] \notin PollItem /\ p[2] \notin PollItem /\ p[3] \notin PollItem
  BY <1>1, <1>2, PolledItems
<1>4. s \in Seq(Item) /\ Len(s) = 2 /\ s[1] \notin PollItem /\ s[2] \notin PollItem
  BY <1>2, StartItems
<1> HIDE DEF p, s
<1>5. Body(p) /\ Body(s)
  BY <1>3, <1>4 DEF Body
<1>6. QED
  BY <1>5 DEF p, s

\* A call that begins: its body takes the place of todo
LEMMA BeginsTypes ==
    ASSUME Parts, NEW api, NEW blocks \in {0} \cup BlkCnts, NEW body, Body(body),
           Begins(api, blocks, body), LineTyped(line'), calls' \in 0 .. MaxCalls
    PROVE  Parts' /\ Polling' /\ todo' = body /\ todo' # <<>> /\ drv' = drv
           /\ call' = [api |-> api, blocks |-> blocks]
<1>1. /\ todo' = body /\ rc' = "XST_SUCCESS" /\ call' = [api |-> api, blocks |-> blocks]
      /\ host' = host /\ sts' = sts /\ err' = err /\ drv' = drv /\ count' = count
      /\ faults' = faults
  BY Zenon DEF Begins, cardVars
<1>2. CallTyped(call')
  BY <1>1 DEF CallTyped
<1>3. rc' \in Statuses
  BY <1>1 DEF Statuses
<1>4. Counts => Counts'
  BY <1>1 DEF Counts
<1>5. todo' \in Seq(Item) /\ Polling' /\ todo' # <<>>
  BY <1>1 DEF Body, Polling
<1>6. DrvTyped(drv') /\ HostTyped(host') /\ sts' \subseteq {"CC", "TC", "BRR"}
      /\ err' \subseteq {"CT", "OTHER"} /\ faults' \in 0 .. MaxFaults
  BY <1>1 DEF Parts
<1>7. QED
  BY <1>1, <1>2, <1>3, <1>4, <1>5, <1>6 DEF Parts

LEMMA NewCallTypes ==
    ASSUME Parts, NEW api, NEW blocks \in {0} \cup BlkCnts, NEW body, Body(body),
           NewCall(api, blocks, body)
    PROVE  /\ Parts' /\ Polling' /\ todo' = body /\ todo' # <<>> /\ drv' = drv
           /\ call' = [api |-> api, blocks |-> IF Awaited(api) THEN call.blocks ELSE blocks]
<1>1. calls' \in 0 .. MaxCalls
  <2>1. calls < MaxCalls /\ calls' = calls + 1
    BY Zenon DEF NewCall
  <2>2. MaxCalls \in Nat /\ calls \in 0 .. MaxCalls
    BY SdAssumption DEF Parts
  <2>3. QED
    BY <2>1, <2>2
<1>2. LineTyped(line')
  <2>1. line' = [line EXCEPT !.dat = "old"] \/ line' = line \/ line' = [line EXCEPT !.dat = line.dat]
    BY Zenon DEF NewCall
  <2>2. LineTyped(line)
    BY DEF Parts
  <2>3. QED
    BY <2>1, <2>2 DEF LineTyped, LineFields
<1> DEFINE kept == IF Awaited(api) THEN call.blocks ELSE blocks
<1>3. kept \in {0} \cup BlkCnts
  BY DEF Parts, CallTyped
<1>4. Begins(api, kept, body)
  BY Zenon DEF NewCall
<1> HIDE DEF kept
<1>5. /\ Parts' /\ Polling' /\ todo' = body /\ todo' # <<>> /\ drv' = drv
      /\ call' = [api |-> api, blocks |-> kept]
  BY <1>1, <1>2, <1>3, <1>4, BeginsTypes
<1>6. QED
  BY <1>5 DEF kept

\* The calls a program makes
LEMMA StatusBody == Body(Get_Status)
<1>1. CmdTransfer("CMD55", "", 0) \in Seq(PlainItem) /\ Len(CmdTransfer("CMD55", "", 0)) = 3
  <2>1. CmdTransfer("CMD55", "", 0) \in Seq(PlainItem)
    BY PlainCmd DEF Commands, Arguments
  <2>2. Len(CmdTransfer("CMD55", "", 0)) = 3
    BY DEF CmdTransfer
  <2>3. QED
    BY <2>1, <2>2
<1>2. ReadCmd("ACMD13", "", "STATUS", 1, 64) \in Seq(PlainItem)
  <2>1. "ACMD13" \in Commands /\ "" \in Arguments /\ "STATUS" \in Buffers
    BY DEF Commands, Arguments, Buffers
  <2>2. QED
    BY <2>1, ReadCmdItems
<1> DEFINE a == CmdTransfer("CMD55", "", 0)
           b == ReadCmd("ACMD13", "", "STATUS", 1, 64)
<1> HIDE DEF a, b
<1>3. a \in Seq(PlainItem) /\ b \in Seq(PlainItem) /\ Len(a) = 3
  BY <1>1, <1>2 DEF a, b
<1>4. a \o b \in Seq(PlainItem) /\ Len(a \o b) = Len(a) + Len(b)
  BY <1>3, Concat
<1>5. a \o b # <<>>
  <2>1. Len(b) \in Nat /\ Len(a \o b) # 0
    BY <1>3, <1>4
  <2>2. QED
    BY <2>1
<1>6. Body(a \o b)
  BY <1>4, <1>5, PlainBody
<1>7. QED
  BY <1>6 DEF a, b, Get_Status

LEMMA PullupBody == Body(Pullup)
<1>1. "ACMD42" \in Commands /\ "CMD55" \in Commands /\ "" \in Arguments
  BY DEF Commands, Arguments
<1> DEFINE a == CmdTransfer("CMD55", "", 0)
           b == CmdTransfer("ACMD42", "", 0)
<1>2. a \in Seq(PlainItem) /\ b \in Seq(PlainItem)
  BY <1>1, PlainCmd
<1>3. Len(a) = 3
  BY DEF CmdTransfer
<1>4. Pullup = a \o b
  BY Zenon DEF Pullup, AppCmd
<1> HIDE DEF a, b
<1>5. a \o b \in Seq(PlainItem) /\ Len(a \o b) = Len(a) + Len(b)
  BY <1>2, Concat
<1>6. a \o b # <<>>
  <2>1. Len(b) \in Nat /\ Len(a \o b) # 0
    BY <1>2, <1>3, <1>5
  <2>2. QED
    BY <2>1
<1>7. QED
  BY <1>4, <1>5, <1>6, PlainBody

LEMMA IdleBody == Body(Idle)
<1> DEFINE a == << <<"CheckBusIdle", {"cmd", "dat"}>> >>
           b == Only("DisableBusPower")
           c == <<<<"Reset", "ALL">>>>
<1>1. a \in Seq(PlainItem) /\ c \in Seq(PlainItem)
  BY PlainOne
<1>2. b \in Seq(PlainItem)
  BY PlainOnly DEF InitNames
<1>3. Len(a) = 1
  OBVIOUS
<1>4. Idle = a \o b \o c
  BY Zenon DEF Idle
<1> HIDE DEF a, b, c
<1>5. a \o b \in Seq(PlainItem) /\ Len(a \o b) = Len(a) + Len(b)
  BY <1>1, <1>2, Concat
<1>6. a \o b \o c \in Seq(PlainItem) /\ Len(a \o b \o c) = Len(a \o b) + Len(c)
  BY <1>1, <1>5, Concat
<1>7. a \o b \o c # <<>>
  <2>1. Len(b) \in Nat /\ Len(c) \in Nat /\ Len(a \o b \o c) # 0
    BY <1>1, <1>2, <1>3, <1>5, <1>6
  <2>2. QED
    BY <2>1
<1>8. QED
  BY <1>4, <1>6, <1>7, PlainBody

\* What comes by itself, and what goes wrong: the instance, todo and the call
\* stay
BusMove ==
    \/ BusStep \/ Mishap \/ NewCard

LEMMA BusKeeps ==
    ASSUME BusMove
    PROVE  UNCHANGED <<drv, todo, rc, count, call, calls, inited, overdue>>
  BY Zenon DEF BusMove, BusStep, Mishap, NewCard, drvVars, callVars, ghosts

LEMMA BusTypes ==
    ASSUME Parts, BusMove
    PROVE  /\ HostTyped(host') /\ LineTyped(line')
           /\ sts' \subseteq {"CC", "TC", "BRR"} /\ err' \subseteq {"CT", "OTHER"}
           /\ faults' \in 0 .. MaxFaults
<1> USE DEF Parts
<1>1. HostTyped(host')
  <2>1. \/ host' = host
        \/ \E tries, exec, samp :
             host' = [host EXCEPT !.tries = tries, !.exec = exec, !.samp = samp]
    <3>1. CASE Answer
      <4> DEFINE hit == IsTuning(line.cmd) /\ host.exec /\ host.tries + 1 >= card.caps.tune
             tries == host.tries + 1
             more == ~hit
      <4>1. \/ host' = host
            \/ host' = [host EXCEPT !.tries = tries, !.exec = more, !.samp = hit]
        BY <3>1, Zenon DEF Answer
      <4> HIDE DEF hit, tries, more
      <4>2. QED
        BY <4>1, Zenon
    <3>2. CASE ~Answer
      BY <3>2, Zenon DEF BusMove, BusStep, Mishap, NewCard, Silence, NoAnswer, DataEnds, LoseAnswer,
         DamageData, BeLate, RemoveCard, InsertCard, hostVars
    <3>3. QED
      BY <3>1, <3>2
  <2>2. QED
    BY <2>1 DEF HostTyped, HostFields
<1>2. LineTyped(line')
  <2>1. LineTyped(line)
    OBVIOUS
  <2>2. CASE Answer
    <3>1. PICK late, dat, good :
            line' = [line EXCEPT !.cmd = "none", !.late = late, !.dat = dat, !.good = good]
            /\ late \in {{}, line.late \ {"cmd"}} /\ dat \in {"own", line.dat}
      BY <2>2 DEF Answer
    <3>2. QED
      BY <2>1, <3>1 DEF LineTyped, LineFields
  <2>3. CASE Silence \/ LoseAnswer
    <3>1. PICK left : line' = [line EXCEPT !.cmd = left, !.late = @ \ {"cmd"}]
      BY <2>3, Zenon DEF Silence, LoseAnswer, NoAnswer
    <3>2. QED
      BY <2>1, <3>1 DEF LineTyped, LineFields
  <2>4. CASE DataEnds
    <3>1. PICK left \in {"none", "stuck"} : line' = [line EXCEPT !.dat = left, !.late = @ \ {"dat"}]
      BY <2>4, Zenon DEF DataEnds
    <3>2. QED
      BY <2>1, <3>1 DEF LineTyped, LineFields
  <2>5. CASE DamageData
    BY <2>1, <2>5 DEF DamageData, LineTyped, LineFields
  <2>6. CASE BeLate
    <3>1. \/ line' = [line EXCEPT !.late = @ \cup {"cmd"}]
          \/ line' = [line EXCEPT !.late = @ \cup {"dat"}]
      BY <2>6, Zenon DEF BeLate
    <3>2. QED
      BY <2>1, <3>1 DEF LineTyped, LineFields
  <2>7. CASE RemoveCard \/ InsertCard
    BY <2>1, <2>7 DEF RemoveCard, InsertCard, hostVars
  <2>8. QED
    BY <2>2, <2>3, <2>4, <2>5, <2>6, <2>7, Zenon DEF BusMove, BusStep, Mishap, NewCard
<1>3. sts' \subseteq {"CC", "TC", "BRR"}
  <2>1. CASE Answer
    BY <2>1 DEF Answer
  <2>2. CASE DataEnds
    BY <2>2 DEF DataEnds
  <2>3. CASE ~Answer /\ ~DataEnds
    <3>1. sts' = sts
      BY <2>3, Zenon DEF BusMove, BusStep, Mishap, NewCard, Silence, NoAnswer, LoseAnswer,
         DamageData, BeLate, RemoveCard, InsertCard, hostVars
    <3>2. QED
      BY <3>1
  <2>4. QED
    BY <2>1, <2>2, <2>3
<1>4. err' \subseteq {"CT", "OTHER"}
  <2>1. err' = err \/ \E kind \in {"CT", "OTHER"} : err' = err \cup {kind}
    BY Zenon DEF BusMove, BusStep, Mishap, NewCard, Answer, Silence, NoAnswer, LoseAnswer, DataEnds,
       DamageData, BeLate, RemoveCard, InsertCard, hostVars
  <2>2. QED
    BY <2>1
<1>5. faults' \in 0 .. MaxFaults
  <2>1. Fault \/ UNCHANGED faults
    BY Zenon DEF BusMove, BusStep, Mishap, NewCard, Answer, Silence, LoseAnswer, DataEnds,
       DamageData, BeLate, RemoveCard, InsertCard
  <2>2. MaxFaults \in Nat
    BY SdAssumption
  <2>3. QED
    BY <2>1, <2>2 DEF Fault
<1>6. QED
  BY <1>1, <1>2, <1>3, <1>4, <1>5

LEMMA BusMoveTypes ==
    ASSUME Parts, Polling, BusMove
    PROVE  Parts' /\ Polling'
<1>1. UNCHANGED <<drv, todo, rc, count, call, calls>>
  BY BusKeeps
<1>2. Counts' /\ Polling'
  BY <1>1 DEF Parts, Counts, Polling
<1>3. QED
  BY <1>1, <1>2, BusTypes DEF Parts

-----------------------------------------------------------------------------
(* Steps by the name of the first item                                     *)

LEMMA OtherSteps ==
    ASSUME InitStep, ~CheckBusIdle, ~SetupCmd, ~SendCmd, ~CmdDone, ~CheckTransferDone,
           ~SetupReadDma, ~BlkSizeSet, ~CardInitialize, ~TypeInit, ~SdCardInitialize,
           ~MmcBlkSize
    PROVE  At("DisableBusPower") \/ At("EnableBusPower") \/ At("Reset") \/
           At("HostConfig") \/ At("Change_ClkFreq") \/
           At("CardSetVoltage18") \/ At("DllReset") \/ At("BusLines") \/
           At("AutoTuning") \/ At("TuningBlock") \/ At("Get_BusWidth") \/
           At("Get_BusSpeed") \/ At("Get_Mmc_ExtCsd") \/
           At("Change_BusWidth") \/ At("BusWidthChanged") \/
           At("Change_BusSpeed") \/ At("SpeedSwitched") \/
           At("HighSpeed") \/ At("CheckCardDetect") \/
           At("IdentifyCard") \/ At("TryCmd1") \/ At("Cmd1Tried") \/
           At("Cmd8Tried") \/ At("VersionRead") \/ At("CardOpCond") \/
           At("OcrRead") \/ At("GetCardId") \/ At("RcaRead") \/
           At("CsdRead") \/ At("Identified") \/ At("ScrRead") \/
           At("SpeedRead") \/ At("UhsMode") \/ At("MmcModeInit") \/
           At("MmcSpeed") \/ At("EmmcModeInit") \/ At("EmmcSpeed") \/
           At("TimingRead") \/ At("RstFunction") \/ At("MmcMode")
  BY Zenon DEF InitStep,
    PowerOff, PowerOn, Reset, HostConfigured, Change_ClkFreq,
    CardSetVoltage18, DllReset, BusLines, AutoTuning, TuningBlock,
    Get_BusWidth, Get_BusSpeed, Get_Mmc_ExtCsd, Change_BusWidth,
    BusWidthChanged, Change_BusSpeed, SpeedSwitched, HighSpeed,
    CheckCardDetect, IdentifyCard, TryCmd1, Cmd1Tried, Cmd8Tried,
    VersionRead, CardOpCond, OcrRead, GetCardId, RcaRead, CsdRead,
    Identified, ScrRead, SpeedRead, UhsMode, MmcModeInit, MmcSpeed,
    EmmcModeInit, EmmcSpeed, TimingRead, RstFunction, MmcMode

\* The steps that a transfer has of the initialization, and those that can be
\* its last one
LEMMA StepByName ==
    ASSUME InitStep
    PROVE  LET f == Head(todo)[1] IN
           /\ todo # <<>>
           /\ f = "CheckBusIdle" => CheckBusIdle
           /\ f = "SetupCmd" => SetupCmd
           /\ f = "SendCmd" => SendCmd
           /\ f = "CmdDone" => CmdDone
           /\ f = "CheckTransferDone" => CheckTransferDone
           /\ f = "SetupDma" => SetupReadDma
           /\ f = "BlkSizeSet" => BlkSizeSet
           /\ f = "CardInitialize" => CardInitialize
           /\ f = "TypeInit" => TypeInit
           /\ f = "SdCardInitialize" => SdCardInitialize
           /\ f = "MmcBlkSize" => MmcBlkSize
           /\ f \notin CallNames
<1>1. todo # <<>>
  BY Busy
<1> DEFINE Wanted ==
             \/ CheckBusIdle \/ SetupCmd \/ SendCmd \/ CmdDone \/ CheckTransferDone
             \/ SetupReadDma \/ BlkSizeSet \/ CardInitialize \/ TypeInit
             \/ SdCardInitialize \/ MmcBlkSize
<1>2. CASE ~Wanted
  <2>1. At("DisableBusPower") \/ At("EnableBusPower") \/ At("Reset") \/
           At("HostConfig") \/ At("Change_ClkFreq") \/
           At("CardSetVoltage18") \/ At("DllReset") \/ At("BusLines") \/
           At("AutoTuning") \/ At("TuningBlock") \/ At("Get_BusWidth") \/
           At("Get_BusSpeed") \/ At("Get_Mmc_ExtCsd") \/
           At("Change_BusWidth") \/ At("BusWidthChanged") \/
           At("Change_BusSpeed") \/ At("SpeedSwitched") \/
           At("HighSpeed") \/ At("CheckCardDetect") \/
           At("IdentifyCard") \/ At("TryCmd1") \/ At("Cmd1Tried") \/
           At("Cmd8Tried") \/ At("VersionRead") \/ At("CardOpCond") \/
           At("OcrRead") \/ At("GetCardId") \/ At("RcaRead") \/
           At("CsdRead") \/ At("Identified") \/ At("ScrRead") \/
           At("SpeedRead") \/ At("UhsMode") \/ At("MmcModeInit") \/
           At("MmcSpeed") \/ At("EmmcModeInit") \/ At("EmmcSpeed") \/
           At("TimingRead") \/ At("RstFunction") \/ At("MmcMode")
    BY <1>2, OtherSteps, Zenon
  <2>2. QED
    BY <1>1, <2>1 DEF At, CallNames
<1>3. CASE Wanted
  <2>1. /\ CheckBusIdle => At("CheckBusIdle")
        /\ SetupCmd => At("SetupCmd")
        /\ SendCmd => At("SendCmd")
        /\ CmdDone => At("CmdDone")
        /\ CheckTransferDone => At("CheckTransferDone")
        /\ SetupReadDma => At("SetupDma")
        /\ BlkSizeSet => At("BlkSizeSet")
        /\ CardInitialize => At("CardInitialize")
        /\ TypeInit => At("TypeInit")
        /\ SdCardInitialize => At("SdCardInitialize")
        /\ MmcBlkSize => At("MmcBlkSize")
    BY Zenon DEF CheckBusIdle, SetupCmd, SendCmd, CmdDone, CheckTransferDone, SetupReadDma,
       BlkSizeSet, CardInitialize, TypeInit, SdCardInitialize, MmcBlkSize
  <2>2. QED
    BY <1>1, <1>3, <2>1 DEF At, CallNames
<1>4. QED
  BY <1>2, <1>3


-----------------------------------------------------------------------------
(* The end of an initialization                                            *)

LEMMA LastOf ==
    ASSUME NEW S, NEW a \in Seq(S), NEW b \in Seq(S), Len(b) > 0
    PROVE  /\ a \o b \in Seq(S) /\ Len(a \o b) > 0
           /\ (a \o b)[Len(a \o b)] = b[Len(b)]
<1>1. Len(a) \in Nat /\ Len(b) \in Nat
  OBVIOUS
<1>2. /\ a \o b \in Seq(S) /\ Len(a \o b) = Len(a) + Len(b)
      /\ \A i \in 1 .. Len(b) : (a \o b)[Len(a) + i] = b[i]
  BY Concat
<1>3. Len(b) \in 1 .. Len(b)
  BY <1>1
<1>4. QED
  BY <1>1, <1>2, <1>3

\* s ends with a step that can be the last of an initialization
EndsWell(s) == s \in Seq(InitItem) /\ Len(s) > 0 /\ s[Len(s)][1] \in LastNames

LEMMA OnlyEnds ==
    ASSUME NEW f \in LastNames PROVE EndsWell(Only(f))
<1>1. f \in InitNames
  BY DEF LastNames, InitNames
<1>2. Only(f) \in Seq(InitItem)
  BY <1>1, PlainOnly, Subsets, SubSeqs
<1>3. Len(Only(f)) = 1 /\ Only(f)[1] = <<f>>
  BY DEF Only
<1>4. QED
  BY <1>2, <1>3 DEF EndsWell

LEMMA ConcatEnds ==
    ASSUME NEW a \in Seq(PlainItem), NEW b, EndsWell(b) PROVE EndsWell(a \o b)
<1>1. a \in Seq(InitItem)
  BY Subsets, SubSeqs
<1>2. QED
  BY <1>1, LastOf DEF EndsWell

LEMMA SetBlkSizeEnds == EndsWell(SetBlkSize)
<1>1. << <<"CheckBusIdle", {"cmd", "dat"}>> >> \in Seq(PlainItem)
  BY PlainOne
<1>2. CmdTransfer("CMD16", "512", 0) \in Seq(PlainItem)
  BY PlainCmd DEF Commands, Arguments
<1> DEFINE a == << <<"CheckBusIdle", {"cmd", "dat"}>> >>
           b == CmdTransfer("CMD16", "512", 0)
<1>3. SetBlkSize = (a \o b) \o Only("BlkSizeSet")
  BY Zenon DEF SetBlkSize
<1>4. a \in Seq(PlainItem) /\ b \in Seq(PlainItem)
  BY <1>1, <1>2
<1> HIDE DEF a, b
<1>5. a \o b \in Seq(PlainItem)
  BY <1>4, Concat
<1>6. EndsWell(Only("BlkSizeSet"))
  BY OnlyEnds DEF LastNames
<1>7. QED
  BY <1>3, <1>5, <1>6, ConcatEnds

LEMMA SdInitEnds == EndsWell(SdCardEnum \o SdModeInit)
<1> DEFINE a == Only("Get_BusWidth") \o Only("ScrRead") \o Only("Get_BusSpeed") \o Only("SpeedRead")
<1>1. a \in Seq(PlainItem)
  <2>1. Only("Get_BusWidth") \in Seq(PlainItem) /\ Only("ScrRead") \in Seq(PlainItem)
        /\ Only("Get_BusSpeed") \in Seq(PlainItem) /\ Only("SpeedRead") \in Seq(PlainItem)
    BY PlainOnly DEF InitNames
  <2>2. QED
    BY <2>1, Concat
<1>2. SdModeInit = a \o SetBlkSize
  BY Zenon DEF SdModeInit
<1> HIDE DEF a
<1>3. EndsWell(SdModeInit)
  BY <1>1, <1>2, SetBlkSizeEnds, ConcatEnds
<1>4. QED
  BY <1>3, SdEnumItems, ConcatEnds

LEMMA MmcInitEnds == EndsWell(MmcCardInitialize)
<1>1. Only("MmcMode") \in Seq(PlainItem)
  BY PlainOnly DEF InitNames
<1>2. MmcCardEnum \o Only("MmcMode") \in Seq(PlainItem)
  BY <1>1, MmcEnumItems, Concat
<1>3. EndsWell(Only("MmcBlkSize"))
  BY OnlyEnds DEF LastNames
<1>4. EndsWell((MmcCardEnum \o Only("MmcMode")) \o Only("MmcBlkSize"))
  BY <1>2, <1>3, ConcatEnds
<1>5. QED
  BY <1>4, Zenon DEF MmcCardInitialize

LEMMA CardInitEnds ==
    EndsWell(Only("Change_ClkFreq") \o Only("IdentifyCard") \o Only("TypeInit"))
<1>1. Only("Change_ClkFreq") \in Seq(PlainItem) /\ Only("IdentifyCard") \in Seq(PlainItem)
  BY PlainOnly DEF InitNames
<1>2. Only("Change_ClkFreq") \o Only("IdentifyCard") \in Seq(PlainItem)
  BY <1>1, Concat
<1>3. EndsWell(Only("TypeInit"))
  BY OnlyEnds DEF LastNames
<1>4. QED
  BY <1>2, <1>3, ConcatEnds

\* The last step of an initialization: it hands over to another one, or the
\* block length is set
LEMMA LastStep ==
    ASSUME InitStep, DrvTyped(drv), Head(todo)[1] \in LastNames
    PROVE  \/ \E next : Success(next) /\ EndsWell(next)
           \/ Success(<<>>) /\ drv'.blk = 512
<1>1. CASE CardInitialize
  BY <1>1, CardInitEnds, Zenon DEF CardInitialize
<1>2. CASE TypeInit
  <2>1. EndsWell(Only("SdCardInitialize"))
    BY OnlyEnds DEF LastNames
  <2>2. Success(Only("SdCardInitialize")) \/ Success(MmcCardInitialize)
    BY <1>2, Zenon DEF TypeInit
  <2>3. QED
    BY <2>1, <2>2, MmcInitEnds, Zenon
<1>3. CASE SdCardInitialize
  BY <1>3, SdInitEnds, Zenon DEF SdCardInitialize
<1>4. CASE MmcBlkSize
  <2>1. \/ Success(SetBlkSize)
        \/ Success(<<>>) /\ drv' = [drv EXCEPT !.blk = 512]
    BY <1>4, Zenon DEF MmcBlkSize
  <2>2. QED
    BY <2>1, SetBlkSizeEnds DEF DrvTyped, DrvFields
<1>5. CASE BlkSizeSet
  BY <1>5 DEF BlkSizeSet, DrvTyped, DrvFields
<1>6. QED
  BY <1>1, <1>2, <1>3, <1>4, <1>5, StepByName DEF LastNames

\* The initialization ends with the block length set
LEMMA InitializingKept ==
    ASSUME Parts, Polling, Initializing, Configured, DriverStep
    PROVE  Initializing' /\ Configured'
<1>1. DrvTyped(drv) /\ todo \in Seq(Item)
  BY DEF Parts
<1>2. InitStep \/ CallStep
  BY Zenon DEF DriverStep, CallStep
<1>3. inited' = (inited \/ (call.api = "CardInitialize" /\ todo' = <<>> /\ rc' = "XST_SUCCESS"))
      /\ (call' = call \/ call' = [call EXCEPT !.blocks = 0])
  BY Zenon DEF DriverStep
<1>4. call'.api = call.api
  BY <1>3 DEF Parts, CallTyped
<1>5. CASE CallStep
  <2>1. PICK f \in CallNames : At(f)
    <3>1. At("CfgInitialize") \/ At("SetupTransfer") \/ At("ReadOrWrite") \/ At("StartIt")
          \/ At("Started") \/ At("CheckTransferComplete") \/ At("Erase") \/ At("Sanitize")
      BY <1>5, Zenon DEF CallStep, CfgInitialize, SetupTransfer, ReadOrWrite, StartIt, Started,
         CheckTransferComplete, Erase, Sanitize
    <3>2. QED
      BY <3>1 DEF CallNames
  <2>2. todo # <<>> /\ Head(todo)[1] = f
    BY <2>1 DEF At
  <2>3. call.api # "CardInitialize"
    <3>1. SUFFICES ASSUME call.api = "CardInitialize" PROVE FALSE
      OBVIOUS
    <3>2. todo \in Seq(InitItem)
      BY <2>2, <3>1 DEF Initializing
    <3>3. Head(todo) \in InitItem
      BY <2>2, <3>2
    <3>4. \A x \in InitItem : x[1] \notin CallNames
      BY DEF InitItem, PollItem, PlainItem, CmdItem, InitNames, CallNames
    <3>5. QED
      BY <2>2, <3>3, <3>4
  <2>4. inited' => inited
    BY <1>3, <2>3
  <2>5. inited => drv.ready /\ drv.blk = 512
    BY DEF Configured
  <2>6. inited => drv'.ready /\ drv'.blk = 512
    <3>1. SUFFICES ASSUME inited PROVE drv'.ready /\ drv'.blk = 512
      OBVIOUS
    <3>2. drv' = drv \/ drv' = [drv EXCEPT !.busy = TRUE] \/ drv' = [drv EXCEPT !.busy = FALSE]
      BY <1>5, <2>5, <3>1, Zenon DEF CallStep, CfgInitialize, SetupTransfer, ReadOrWrite, StartIt,
         Started, CheckTransferComplete, Erase, Sanitize
    <3>3. QED
      BY <1>1, <2>5, <3>1, <3>2 DEF DrvTyped, DrvFields
  <2>7. QED
    BY <1>4, <2>3, <2>4, <2>6 DEF Initializing, Configured
<1>6. CASE InitStep
  <2>1. /\ drv.ready => drv'.ready
        /\ drv.blk = 512 => drv'.blk = 512
    BY <1>1, <1>6, DrvKept
  <2>2. CASE call.api # "CardInitialize"
    <3>1. inited' => inited
      BY <1>3, <2>2
    <3>2. QED
      BY <1>4, <2>1, <2>2, <3>1 DEF Initializing, Configured
  <2>3. CASE call.api = "CardInitialize"
    <3>1. todo # <<>>
      BY <1>6, Busy
    <3>2. todo \in Seq(InitItem) /\ todo[Len(todo)][1] \in LastNames
      BY <2>3, <3>1 DEF Initializing
    <3>3. Flow
      <4>1. drv.mode \in Mode
        BY <1>1 DEF DrvTyped
      <4>2. {OP_POLLS, ID_POLLS, MAX_TUNING} \subseteq Nat \ {0}
        BY SdAssumption
      <4>3. count \in Nat
        <5>1. PICK n \in {OP_POLLS, ID_POLLS, MAX_TUNING} : count \in 0 .. n
          BY DEF Parts, Counts
        <5>2. QED
          BY <4>2, <5>1
      <4>4. QED
        BY <1>1, <1>6, <4>1, <4>2, <4>3, StepFlow
    <3>4. /\ todo' \in Seq(InitItem)
          /\ Len(todo) > 1 /\ todo' # <<>> => todo'[Len(todo')] = todo[Len(todo)]
          /\ Len(todo) > 1 /\ rc' = "XST_SUCCESS" => todo' # <<>>
          /\ Len(todo) = 1 => \/ todo' = <<>> /\ rc' # "XST_SUCCESS"
                              \/ \E next \in Seq(InitItem) : Success(next) /\ todo' = next
      BY <3>1, <3>2, <3>3, FlowInit
    <3>5. Len(todo) \in Nat \ {0}
      BY <3>1, <3>2
    <3>6. ASSUME todo' # <<>> PROVE todo'[Len(todo')][1] \in LastNames
      <4>1. CASE Len(todo) > 1
        BY <3>2, <3>4, <3>6, <4>1
      <4>2. CASE Len(todo) = 1
        <5>1. todo[1] = Head(todo) /\ Tail(todo) = <<>>
          <6>1. Tail(todo) \in Seq(InitItem) /\ Len(Tail(todo)) = 0 /\ todo[1] = Head(todo)
            BY <3>1, <3>2, <4>2
          <6>2. QED
            BY <6>1, EmptySeq
        <5>2. \/ \E next : Success(next) /\ EndsWell(next)
              \/ Success(<<>>) /\ drv'.blk = 512
          BY <1>1, <1>6, <3>2, <4>2, <5>1, LastStep
        <5>3. ASSUME NEW next, Success(next), EndsWell(next)
              PROVE  todo'[Len(todo')][1] \in LastNames
          <6>1. next \in Seq(InitItem) /\ next \o <<>> = next
            BY <5>3, ConcatEmptySeq DEF EndsWell
          <6>2. todo' = next
            BY <5>1, <5>3, <6>1 DEF Success
          <6>3. QED
            BY <5>3, <6>2 DEF EndsWell
        <5>4. CASE Success(<<>>)
          <6>1. todo' = <<>> \o <<>>
            BY <5>1, <5>4 DEF Success
          <6>2. QED
            BY <3>6, <6>1
        <5>5. QED
          BY <5>2, <5>3, <5>4
      <4>3. Len(todo) > 1 \/ Len(todo) = 1
        BY <3>5
      <4>4. QED
        BY <4>1, <4>2, <4>3, Zenon
    <3>7. ASSUME todo' = <<>>, rc' = "XST_SUCCESS" PROVE drv'.blk = 512
      <4>1. Len(todo) = 1
        <5>1. Len(todo) > 1 => FALSE
          BY <3>4, <3>7
        <5>2. Len(todo) > 1 \/ Len(todo) = 1
          BY <3>5
        <5>3. QED
          BY <5>1, <5>2, Zenon
      <4>2. todo[1] = Head(todo)
        BY <3>1, <3>2
      <4>3. \/ \E next : Success(next) /\ EndsWell(next)
            \/ Success(<<>>) /\ drv'.blk = 512
        BY <1>1, <1>6, <3>2, <4>1, <4>2, LastStep
      <4>4. ASSUME NEW next, Success(next), EndsWell(next) PROVE FALSE
        <5>1. Tail(todo) \in Seq(InitItem) /\ next \in Seq(InitItem) /\ Len(next) > 0
          BY <3>1, <3>2, <4>4 DEF EndsWell
        <5>2. todo' = next \o Tail(todo) /\ Len(next \o Tail(todo)) = Len(next) + Len(Tail(todo))
          BY <4>4, <5>1, Concat DEF Success
        <5>3. Len(Tail(todo)) \in Nat /\ Len(next) \in Nat /\ Len(todo') = 0
          BY <3>7, <5>1
        <5>4. QED
          BY <5>1, <5>2, <5>3
      <4>5. QED
        BY <4>3, <4>4
    <3>8. Initializing'
      BY <3>4, <3>6 DEF Initializing
    <3>9. Configured'
      BY <1>3, <1>4, <2>1, <2>3, <3>7 DEF Configured
    <3>10. QED
      BY <3>8, <3>9
  <2>4. QED
    BY <2>2, <2>3
<1>7. QED
  BY <1>2, <1>5, <1>6

LEMMA OldKept ==
    ASSUME Parts, OldIsOverdue, DriverStep
    PROVE  OldIsOverdue'
<1>1. overdue' = overdue /\ (InitStep \/ CallStep)
  BY Zenon DEF DriverStep, CallStep
<1>2. line'.dat \in {line.dat, "none"}
  <2>1. CASE InitStep
    BY <2>1, LineKept DEF Parts
  <2>2. CASE CallStep
    BY <2>2, Zenon DEF CallStep, CfgInitialize, SetupTransfer, ReadOrWrite, StartIt, Started,
       CheckTransferComplete, Erase, Sanitize, hostVars
  <2>3. QED
    BY <1>1, <2>1, <2>2
<1>3. QED
  BY <1>1, <1>2 DEF OldIsOverdue

-----------------------------------------------------------------------------
(* Calls that begin                                                        *)

Begin ==
    Configure \/ Initialize \/ Transfer \/ CheckTransfer \/ Other \/ GoIdle

\* A call of the program: what it begins with, and what it waits for
Begun(api, blocks, body) ==
    /\ NewCall(api, blocks, body) /\ Body(body) /\ blocks \in {0} \cup BlkCnts
    /\ inited' => inited
    /\ api = "CardInitialize" => drv.ready /\ body = Only("CardInitialize")
    /\ inited /\ api # "CardInitialize" => inited'
    /\ api \in {"CardInitialize", "Idle"} => blocks = 0
    /\ blocks # 0 =>
         /\ inited
         /\ \E dir \in {"read", "write"} :
              \/ body = Polled(dir, blocks)
              \/ /\ body = StartTransfer(dir, blocks)
                 /\ api \in {"StartReadTransfer", "StartWriteTransfer"}
    /\ (blocks = 0 /\ Awaited(api)) => body = Only("CfgInitialize")

LEMMA BegunTransfer ==
    ASSUME Transfer PROVE \E api, blocks, body : Begun(api, blocks, body)
<1>1. PICK n \in BlkCnts :
         \/ NewCall("ReadPolled", n, Polled("read", n))
         \/ NewCall("WritePolled", n, Polled("write", n))
         \/ NewCall("StartReadTransfer", n, StartTransfer("read", n))
         \/ NewCall("StartWriteTransfer", n, StartTransfer("write", n))
  BY DEF Transfer
<1>2. inited /\ inited' = inited
  BY DEF Transfer
<1>3. n # 0
  BY SdAssumption
<1>4. \A dir \in {"read", "write"} : Body(Polled(dir, n)) /\ Body(StartTransfer(dir, n))
  BY TransferBody
<1>5. ASSUME NEW api \in {"ReadPolled", "WritePolled"}, NEW dir \in {"read", "write"},
             NewCall(api, n, Polled(dir, n))
      PROVE  Begun(api, n, Polled(dir, n))
  BY <1>2, <1>3, <1>4, <1>5 DEF Begun
<1>6. ASSUME NEW api \in {"StartReadTransfer", "StartWriteTransfer"}, NEW dir \in {"read", "write"},
             NewCall(api, n, StartTransfer(dir, n))
      PROVE  Begun(api, n, StartTransfer(dir, n))
  BY <1>2, <1>3, <1>4, <1>6 DEF Begun
<1>7. QED
  BY <1>1, <1>5, <1>6

LEMMA BegunOther ==
    ASSUME Other PROVE \E api, blocks, body : Begun(api, blocks, body)
<1>1. inited /\ ~drv.busy /\ inited' = inited
  BY DEF Other
<1>2. ASSUME NEW api \in {"Erase", "Sanitize", "Get_Status", "Pullup"}, NEW body,
             Body(body), NewCall(api, 0, body)
      PROVE  Begun(api, 0, body)
  BY <1>1, <1>2 DEF Begun, Awaited
<1>3. \/ NewCall("Erase", 0, Only("Erase")) \/ NewCall("Sanitize", 0, Only("Sanitize"))
      \/ NewCall("Get_Status", 0, Get_Status) \/ NewCall("Pullup", 0, Pullup)
  BY Zenon DEF Other
<1>4. QED
  BY <1>2, <1>3, OnlyBody, StatusBody, PullupBody

LEMMA BegunBy ==
    ASSUME Begin
    PROVE  CheckTransfer \/ \E api, blocks, body : Begun(api, blocks, body)
<1>1. CASE Configure
  <2>1. NewCall("CfgInitialize", 0, Only("CfgInitialize")) /\ inited' = inited
    BY <1>1 DEF Configure
  <2>2. Body(Only("CfgInitialize"))
    BY OnlyBody
  <2>3. Begun("CfgInitialize", 0, Only("CfgInitialize"))
    BY <2>1, <2>2 DEF Begun
  <2>4. QED
    BY <2>3
<1>2. CASE Initialize
  <2>1. NewCall("CardInitialize", 0, Only("CardInitialize")) /\ ~inited' /\ drv.ready
    BY <1>2 DEF Initialize
  <2>2. Body(Only("CardInitialize"))
    BY OnlyBody
  <2>3. Begun("CardInitialize", 0, Only("CardInitialize"))
    BY <2>1, <2>2 DEF Begun, Awaited
  <2>4. QED
    BY <2>3
<1>3. CASE GoIdle
  <2>1. NewCall("Idle", 0, Idle) /\ inited' = inited
    BY <1>3 DEF GoIdle
  <2>2. Begun("Idle", 0, Idle)
    BY <2>1, IdleBody DEF Begun, Awaited
  <2>3. QED
    BY <2>2
<1>4. QED
  BY <1>1, <1>2, <1>3, BegunTransfer, BegunOther, Zenon DEF Begin

\* A call takes over what is on the lines, and remembers that it was there
LEMMA TakesOver ==
    ASSUME LineTyped(line), NEW api, NEW blocks, NEW body, NewCall(api, blocks, body)
    PROVE  /\ LineTyped(line')
           /\ line'.dat = "old" => overdue'
           /\ ~overdue' => ~overdue /\ line'.dat = "none" /\ line'.cmd = "none"
           /\ UNCHANGED <<host, sts>> /\ todo = <<>>
           /\ Awaited(api) => moved' = moved
<1>1. /\ line' = [line EXCEPT !.dat = IF @ = "own" THEN "old" ELSE @]
      /\ overdue' = (overdue \/ line.dat # "none" \/ line.cmd # "none")
      /\ moved' = IF Awaited(api) THEN moved ELSE {}
      /\ UNCHANGED <<host, sts>> /\ todo = <<>>
  BY Zenon DEF NewCall, Begins
<1>2. LineTyped(line') /\ line'.cmd = line.cmd
      /\ line'.dat = IF line.dat = "own" THEN "old" ELSE line.dat
  BY <1>1 DEF LineTyped, LineFields
<1>3. QED
  BY <1>1, <1>2

LEMMA BegunKept ==
    ASSUME Parts, Configured, Stages, OwnTransfer,
           NEW api, NEW blocks, NEW body, Begun(api, blocks, body)
    PROVE  /\ Parts' /\ Polling' /\ OldIsOverdue' /\ Initializing' /\ Configured'
           /\ Stages' /\ OwnTransfer' /\ OwnData'
<1>1. /\ Parts' /\ Polling' /\ todo' = body /\ todo' # <<>> /\ drv' = drv
      /\ call' = [api |-> api, blocks |-> IF Awaited(api) THEN call.blocks ELSE blocks]
  BY NewCallTypes DEF Begun
<1>2. /\ line'.dat = "old" => overdue'
      /\ ~overdue' => ~overdue /\ line'.dat = "none" /\ line'.cmd = "none"
      /\ UNCHANGED <<host, sts>> /\ todo = <<>>
      /\ Awaited(api) => moved' = moved
  BY TakesOver DEF Begun, Parts
<1>3. call'.api = api /\ call'.blocks = IF Awaited(api) THEN call.blocks ELSE blocks
  BY <1>1
<1>4. OldIsOverdue'
  BY <1>2 DEF OldIsOverdue
<1>5. Initializing'
  <2>1. SUFFICES ASSUME api = "CardInitialize"
                 PROVE  todo' \in Seq(InitItem) /\ todo'[Len(todo')][1] \in LastNames
    BY <1>3 DEF Initializing
  <2>2. todo' = Only("CardInitialize")
    BY <1>1, <2>1 DEF Begun
  <2>3. EndsWell(Only("CardInitialize"))
    BY OnlyEnds DEF LastNames
  <2>4. QED
    BY <2>2, <2>3 DEF EndsWell
<1>6. Configured'
  BY <1>1, <1>3 DEF Configured, Begun
<1>7. Stages'
  <2>1. SUFFICES ASSUME call'.blocks # 0
                 PROVE  inited' /\ api # "CardInitialize" /\ (Refusable' \/ Checking')
    BY <1>3 DEF Stages
  <2>2. inited /\ api # "CardInitialize"
    <3>1. CASE Awaited(api)
      BY <1>3, <2>1, <3>1 DEF Awaited, Stages
    <3>2. CASE ~Awaited(api)
      BY <1>3, <2>1, <3>2 DEF Begun
    <3>3. QED
      BY <3>1, <3>2
  <2>3. inited'
    BY <2>2 DEF Begun
  <2>4. CASE blocks = 0
    <3>1. todo' = Only("CfgInitialize")
      BY <1>1, <1>3, <2>1, <2>4 DEF Begun
    <3>2. QED
      BY <2>2, <2>3, <3>1 DEF Checking
  <2>5. CASE blocks # 0
    <3>1. PICK dir \in {"read", "write"} :
              \/ todo' = Polled(dir, blocks)
              \/ /\ todo' = StartTransfer(dir, blocks)
                 /\ api \in {"StartReadTransfer", "StartWriteTransfer"}
      BY <1>1, <2>5, Zenon DEF Begun
    <3>2. blocks \in BlkCnts
      BY <2>5 DEF Begun
    <3>3. drv'.busy \/ (blocks = call'.blocks /\ (overdue' \/ ~OnBus'))
      <4>1. CASE Awaited(api)
        BY <1>1, <4>1 DEF Awaited
      <4>2. CASE ~Awaited(api)
        <5>1. overdue' \/ ~OnBus'
          BY <1>2 DEF OnBus, Carries
        <5>2. QED
          BY <1>3, <4>2, <5>1
      <4>3. QED
        BY <4>1, <4>2
    <3>4. Polled(dir, blocks)' = Polled(dir, blocks) /\ StartTransfer(dir, blocks)' = StartTransfer(dir, blocks)
      BY DEF Polled, StartTransfer, Only
    <3>5. Refusable'
      BY <1>3, <3>1, <3>2, <3>3, <3>4 DEF Refusable, Starting
    <3>6. QED
      BY <2>2, <2>3, <3>5
  <2>6. QED
    BY <2>4, <2>5
<1>8. OwnTransfer'
  <2>1. SUFFICES ASSUME call'.blocks # 0, ~overdue'
                 PROVE  ~OnBus' /\ line'.cmd = "none" /\ (drv'.busy => OwnEnd')
    BY DEF OwnTransfer
  <2>2. ~overdue /\ line'.dat = "none" /\ line'.cmd = "none"
    BY <1>2, <2>1
  <2>3. ~OnBus'
    BY <2>2 DEF OnBus, Carries
  <2>4. ASSUME drv'.busy PROVE OwnEnd'
    <3>1. Awaited(api)
      BY <1>1, <1>3, <2>1, <2>4 DEF Awaited, Begun
    <3>2. call'.blocks = call.blocks /\ moved' = moved /\ sts' = sts /\ drv.busy
      BY <1>1, <1>2, <1>3, <2>4, <3>1
    <3>3. OwnEnd
      BY <2>1, <2>2, <3>2 DEF OwnTransfer
    <3>4. QED
      BY <3>2, <3>3 DEF OwnEnd
  <2>5. QED
    BY <2>2, <2>3, <2>4
<1>9. OwnData'
  BY <1>1 DEF OwnData, Successful, Returned
<1>10. QED
  BY <1>1, <1>4, <1>5, <1>6, <1>7, <1>8, <1>9

\* The check for a transfer is no new call for the lines
LEMMA CheckKept ==
    ASSUME Parts, OldIsOverdue, Configured, Stages, OwnTransfer, CheckTransfer
    PROVE  /\ Parts' /\ Polling' /\ OldIsOverdue' /\ Initializing' /\ Configured'
           /\ Stages' /\ OwnTransfer' /\ OwnData'
<1>1. /\ Begins("CheckTransfer", call.blocks, Only("CheckTransferComplete"))
      /\ UNCHANGED <<line, moved, calls, inited, clean, overdue>> /\ inited
  BY DEF CheckTransfer
<1>2. call.blocks \in {0} \cup BlkCnts /\ Body(Only("CheckTransferComplete"))
  BY OnlyBody DEF Parts, CallTyped
<1>3. LineTyped(line') /\ calls' \in 0 .. MaxCalls
  BY <1>1 DEF Parts
<1>4. /\ Parts' /\ Polling' /\ todo' = Only("CheckTransferComplete") /\ todo' # <<>> /\ drv' = drv
      /\ call' = [api |-> "CheckTransfer", blocks |-> call.blocks]
  BY <1>1, <1>2, <1>3, BeginsTypes
<1>5. UNCHANGED <<host, sts>>
  BY <1>1 DEF Begins
<1>6. call'.api = "CheckTransfer" /\ call'.blocks = call.blocks
  BY <1>4
<1>7. OldIsOverdue' /\ Initializing' /\ Configured'
  BY <1>1, <1>4, <1>6 DEF OldIsOverdue, Initializing, Configured
<1>8. Stages'
  BY <1>1, <1>4, <1>6 DEF Stages, Checking
<1>9. OwnTransfer'
  BY <1>1, <1>4, <1>5, <1>6 DEF OwnTransfer, OnBus, Carries, Settings, BufferSet, OwnEnd
<1>10. OwnData'
  BY <1>4 DEF OwnData, Successful, Returned
<1>11. QED
  BY <1>4, <1>7, <1>8, <1>9, <1>10

-----------------------------------------------------------------------------
(* The bus during a transfer                                               *)

\* What a transfer needs of a step of the bus
BusGood ==
    /\ UNCHANGED <<host.dma, host.blksz, host.blkcnt>>
    /\ line'.dat = "old" => line.dat = "old"
    /\ moved \subseteq moved'
    /\ OnBus' => OnBus
    /\ line'.cmd # "none" => line.cmd # "none" /\ line'.frame = line.frame
    /\ "TC" \in sts' => \/ "TC" \in sts
                        \/ line.cmd # "none" /\ line.frame.resp = "R6"
                        \/ line.dat = "old"
                        \/ /\ line.dat = "own"
                           /\ <<host.dma.into, Min({host.dma.bytes, host.blkcnt * host.blksz})>>
                                \in moved'

LEMMA AnswerGood ==
    ASSUME Parts, Answer PROVE BusGood
<1> DEFINE cmd == line.cmd
           dat == (line.frame.dat /\ ~IsTuning(cmd)) \/ line.frame.resp = "R1b"
           hit == IsTuning(cmd) /\ host.exec /\ host.tries + 1 >= card.caps.tune
           late == IF dat THEN {} ELSE line.late \ {"cmd"}
           good == IF ~dat THEN line.good
                   ELSE \/ ~line.frame.dat
                        \/ host.w = card.w /\ (host.uhs = DDR) = card.ddr
<1>1. /\ CmdPending
      /\ sts' = sts \cup {IF IsTuning(cmd) THEN "BRR" ELSE "CC"}
                    \cup (IF line.frame.resp = "R6" THEN {"TC"} ELSE {})
      /\ line' = [line EXCEPT !.cmd = "none", !.late = late,
                              !.dat = IF dat THEN "own" ELSE @, !.good = good]
      /\ \/ host' = host
         \/ host' = [host EXCEPT !.tries = @ + 1, !.exec = ~hit, !.samp = hit]
      /\ moved' = moved
  BY Zenon DEF Answer
<1>2. cmd \notin {"none", "stuck"}
  BY <1>1 DEF CmdPending
<1> HIDE DEF late, good, hit
<1>3. UNCHANGED <<host.dma, host.blksz, host.blkcnt>>
  BY <1>1 DEF Parts, HostTyped, HostFields
<1>4. line'.cmd = "none" /\ line'.dat = IF dat THEN "own" ELSE line.dat
  BY <1>1 DEF Parts, LineTyped, LineFields
<1>5. OnBus' => OnBus
  BY <1>2, <1>4 DEF OnBus, Carries
<1>6. "TC" \in sts' => "TC" \in sts \/ line.frame.resp = "R6"
  BY <1>1
<1>7. QED
  BY <1>1, <1>2, <1>3, <1>4, <1>5, <1>6 DEF BusGood

LEMMA DataEndsGood ==
    ASSUME Parts, DataEnds PROVE BusGood
<1>1. \/ /\ sts' = sts \cup {"TC"}
         /\ line' = [line EXCEPT !.dat = "none", !.late = @ \ {"dat"}]
         /\ moved' = IF line.dat = "old" THEN moved
                     ELSE moved \cup {<<host.dma.into, Min({host.dma.bytes,
                                                 host.blkcnt * host.blksz})>>}
      \/ /\ \E left \in {"none", "stuck"} :
                 line' = [line EXCEPT !.dat = left, !.late = @ \ {"dat"}]
         /\ UNCHANGED <<sts, moved>>
  BY Zenon DEF DataEnds
<1>2. DataPending /\ host' = host
  BY Zenon DEF DataEnds
<1>3. line'.cmd = line.cmd /\ line'.frame = line.frame /\ line'.dat \in {"none", "stuck"}
  BY <1>1 DEF Parts, LineTyped, LineFields
<1>4. OnBus' => OnBus
  BY <1>3 DEF OnBus, Carries
<1>5. line.dat \in {"own", "old"}
  BY <1>2 DEF DataPending
<1>6. QED
  BY <1>1, <1>2, <1>3, <1>4, <1>5 DEF BusGood

LEMMA NoAnswerGood ==
    ASSUME Parts, CmdPending, NEW kind, NoAnswer(kind) PROVE BusGood
<1>1. PICK left \in {"none", "stuck"} :
         line' = [line EXCEPT !.cmd = left, !.late = @ \ {"cmd"}]
  BY DEF NoAnswer
<1>2. line'.cmd = left /\ line'.frame = line.frame /\ line'.dat = line.dat
  BY <1>1 DEF Parts, LineTyped, LineFields
<1>3. OnBus' => OnBus
  BY <1>1, <1>2 DEF OnBus, Carries
<1>4. line.cmd # "none"
  BY DEF CmdPending
<1>5. QED
  BY <1>2, <1>3, <1>4 DEF NoAnswer, BusGood

LEMMA BusMoveGood ==
    ASSUME Parts, BusMove PROVE BusGood
<1>1. CASE UNCHANGED hostVars
  BY <1>1 DEF hostVars, BusGood, OnBus, Carries
<1>2. CASE DamageData \/ BeLate
  <2>1. /\ \/ line' = [line EXCEPT !.good = FALSE]
           \/ line' = [line EXCEPT !.late = @ \cup {"cmd"}]
           \/ line' = [line EXCEPT !.late = @ \cup {"dat"}]
        /\ UNCHANGED <<host, sts, moved>>
    BY <1>2, Zenon DEF DamageData, BeLate
  <2>2. line'.cmd = line.cmd /\ line'.frame = line.frame /\ line'.dat = line.dat
    BY <2>1 DEF Parts, LineTyped, LineFields
  <2>3. QED
    BY <2>1, <2>2 DEF BusGood, OnBus, Carries
<1>3. CASE Silence \/ LoseAnswer
  <2>1. CmdPending /\ \E kind : NoAnswer(kind)
    BY <1>3, Zenon DEF Silence, LoseAnswer
  <2>2. QED
    BY <2>1, NoAnswerGood
<1>4. Answer \/ DataEnds \/ Silence \/ LoseAnswer \/ DamageData \/ BeLate \/ UNCHANGED hostVars
  BY Zenon DEF BusMove, BusStep, Mishap, NewCard, RemoveCard, InsertCard
<1>5. QED
  BY <1>1, <1>2, <1>3, <1>4, AnswerGood, DataEndsGood

\* The smaller of twice the same number
LEMMA Smaller ==
    ASSUME NEW n \in Nat PROVE Min({n, n}) = n
<1>1. {n, n} \in SUBSET Nat /\ {n, n} # {}
  OBVIOUS
<1>2. Min({n, n}) \in {n, n}
  BY <1>1, Smallest
<1>3. QED
  BY <1>2

LEMMA BusMoveKept ==
    ASSUME IInv, BusMove
    PROVE  IInv'
<1>1. Parts /\ Polling
  BY TypedParts DEF IInv
<1>2. Parts' /\ Polling'
  BY <1>1, BusMoveTypes
<1>3. UNCHANGED <<drv, todo, rc, count, call, calls, inited, overdue>>
  BY BusKeeps
<1>4. BusGood
  BY <1>1, BusMoveGood
<1>5. OldIsOverdue'
  BY <1>3, <1>4 DEF IInv, OldIsOverdue, BusGood
<1>6. Initializing' /\ Configured'
  BY <1>3 DEF IInv, Initializing, Configured
<1>7. ASSUME call.blocks # 0, ~overdue
      PROVE  /\ OwnEnd => OwnEnd'
             /\ OnBus => Settings
  <2>1. OnBus => Settings
    BY <1>7 DEF IInv, OwnTransfer
  <2>2. line.cmd # "none" => line.frame.resp # "R6"
    BY <1>7 DEF IInv, OwnTransfer
  <2>3. line.dat # "old"
    BY <1>7 DEF IInv, OldIsOverdue
  <2>4. ASSUME line.dat = "own",
               <<host.dma.into, Min({host.dma.bytes, host.blkcnt * host.blksz})>> \in moved'
        PROVE  <<"user", call.blocks * 512>> \in moved'
    <3>1. Settings
      BY <2>1, <2>4 DEF OnBus
    <3>2. host.dma.into = "user" /\ host.dma.bytes = call.blocks * 512
          /\ host.blkcnt * host.blksz = call.blocks * 512
      BY <3>1 DEF Settings, BufferSet
    <3>3. call.blocks * 512 \in Nat
      <4>1. call.blocks \in Nat
        <5>1. call.blocks \in {0} \cup BlkCnts
          BY <1>1 DEF Parts, CallTyped
        <5>2. \A n \in BlkCnts : n \in Nat
          BY SdAssumption
        <5>3. QED
          BY <5>1, <5>2
      <4>2. QED
        BY <4>1
    <3>4. QED
      BY <2>4, <3>2, <3>3, Smaller
  <2>5. OwnEnd => OwnEnd'
    BY <1>3, <1>4, <2>2, <2>3, <2>4 DEF OwnEnd, BusGood
  <2>6. QED
    BY <2>1, <2>5
<1>8. /\ Settings => Settings'
      /\ BufferSet => BufferSet'
      /\ ~OnBus => ~OnBus'
  BY <1>3, <1>4 DEF BusGood, Settings, BufferSet
<1>9. Stages'
  <2>1. SUFFICES ASSUME call.blocks # 0 PROVE Stages'
    BY <1>3 DEF Stages
  <2>2. Refusable => Refusable'
    BY <1>3, <1>8 DEF Refusable, Polled, StartTransfer, Starting, Only
  <2>3. Preparing => Preparing'
    BY ZenonT(60), <1>3, <1>8 DEF Preparing, EndOf, Starting, Polled, StartTransfer, Only, SetBlkSize, CmdTransfer
  <2>4. Moving => Moving'
    <3>1. SUFFICES ASSUME NEW cmd \in DataCmds, NEW then \in {"CheckTransferDone", "Started"},
                          call.blocks < U16, EndOf(Data(cmd, call.blocks, then)),
                          then = "Started" => Starting,
                          overdue \/ /\ Len(todo) >= 3 => ~OnBus
                                     /\ Len(todo) = 4 => BufferSet
                                     /\ Len(todo) = 3 => Settings
                                     /\ Len(todo) <= 3 => OwnEnd
                   PROVE  Moving'
      BY DEF Moving
    <3>2. call'.blocks < U16 /\ EndOf(Data(cmd, call.blocks, then))'
          /\ (then = "Started" => Starting')
      <4>1. Data(cmd, call.blocks, then)' = Data(cmd, call.blocks, then)
        BY <1>3 DEF Data, CmdTransfer, Only
      <4>2. QED
        BY <1>3, <3>1, <4>1 DEF EndOf, Starting
    <3>3. overdue' \/ /\ Len(todo') >= 3 => ~OnBus'
                      /\ Len(todo') = 4 => BufferSet'
                      /\ Len(todo') = 3 => Settings'
                      /\ Len(todo') <= 3 => OwnEnd'
      BY <1>3, <1>7, <1>8, <2>1, <3>1
    <3>4. QED
      BY <3>2, <3>3 DEF Moving
  <2>5. QED
    BY <1>3, <2>1, <2>2, <2>3, <2>4 DEF IInv, Stages, Checking, NotStarted, Only
<1>10. OwnTransfer'
  BY <1>3, <1>4, <1>7, <1>8 DEF IInv, OwnTransfer, BusGood
<1>11. OwnData'
  BY <1>3, <1>4 DEF IInv, OwnData, Successful, Returned, BusGood
<1>12. QED
  BY <1>2, <1>5, <1>6, <1>9, <1>10, <1>11, TypedPartsNext DEF IInv

-----------------------------------------------------------------------------
(* A transfer, item by item                                                *)

\* u is s and then t
Joins(u, s, t) ==
    /\ u \in Seq(Item) /\ Len(u) = Len(s) + Len(t)
    /\ \A i \in 1 .. Len(s) : u[i] = s[i]
    /\ \A i \in 1 .. Len(t) : u[Len(s) + i] = t[i]

LEMMA ConcatJoins ==
    ASSUME NEW s \in Seq(Item), NEW t \in Seq(Item) PROVE Joins(s \o t, s, t)
<1>1. /\ s \o t \in Seq(Item) /\ Len(s \o t) = Len(s) + Len(t)
      /\ \A i \in 1 .. Len(s) : (s \o t)[i] = s[i]
      /\ \A i \in 1 .. Len(t) : (s \o t)[Len(s) + i] = t[i]
  BY Concat
<1>2. QED
  BY <1>1, Zenon DEF Joins

LEMMA CmdItems ==
    ASSUME NEW cmd \in Commands, NEW arg \in Arguments, NEW n \in 0 .. U16 - 1
    PROVE  LET t == CmdTransfer(cmd, arg, n) IN
           /\ t \in Seq(Item) /\ Len(t) = 3 /\ t[1] = <<"SetupCmd", cmd, arg, n>>
           /\ t[2] = <<"SendCmd", cmd, arg>> /\ t[3] = <<"CmdDone", cmd>>
<1>1. CmdTransfer(cmd, arg, n) \in Seq(Item)
  BY CmdSeq, PlainSeq, Subsets, SubSeqs
<1> DEFINE a == <<"SetupCmd", cmd, arg, n>>
           b == <<"SendCmd", cmd, arg>>
           c == <<"CmdDone", cmd>>
<1>2. CmdTransfer(cmd, arg, n) = <<a, b, c>>
  BY Zenon DEF CmdTransfer
<1> HIDE DEF a, b, c
<1>3. Len(<<a, b, c>>) = 3 /\ <<a, b, c>>[1] = a /\ <<a, b, c>>[2] = b /\ <<a, b, c>>[3] = c
  OBVIOUS
<1>4. QED
  BY <1>1, <1>2, <1>3 DEF a, b, c

\* Setting the block length
LEMMA BlkSizeItems ==
    LET t == SetBlkSize IN
    /\ t \in Seq(Item) /\ Len(t) = 5 /\ t[1] = <<"CheckBusIdle", {"cmd", "dat"}>>
    /\ t[2] = <<"SetupCmd", "CMD16", "512", 0>> /\ t[3] = <<"SendCmd", "CMD16", "512">>
    /\ t[4] = <<"CmdDone", "CMD16">> /\ t[5] = <<"BlkSizeSet">>
<1> DEFINE x == <<"CheckBusIdle", {"cmd", "dat"}>>
           y == <<"BlkSizeSet">>
           a == <<x>>
           b == CmdTransfer("CMD16", "512", 0)
           c == <<y>>
<1>1. SetBlkSize = (a \o b) \o c
  BY Zenon DEF SetBlkSize, Only
<1>2. x \in Item /\ y \in Item
  BY Subsets, PlainItems DEF InitNames
<1>3. /\ b \in Seq(Item) /\ Len(b) = 3 /\ b[1] = <<"SetupCmd", "CMD16", "512", 0>>
      /\ b[2] = <<"SendCmd", "CMD16", "512">> /\ b[3] = <<"CmdDone", "CMD16">>
  <2>1. "CMD16" \in Commands /\ "512" \in Arguments /\ 0 \in 0 .. U16 - 1
    BY ZeroCount DEF Commands, Arguments
  <2>2. QED
    BY <2>1, CmdItems
<1> HIDE DEF b, x, y
<1>4. /\ a \in Seq(Item) /\ Len(a) = 1 /\ a[1] = x
      /\ c \in Seq(Item) /\ Len(c) = 1 /\ c[1] = y
  BY <1>2
<1> HIDE DEF a, c
<1> DEFINE s == a \o b
<1>5. Joins(s, a, b)
  BY <1>3, <1>4, ConcatJoins
<1> HIDE DEF s
<1>6. /\ s \in Seq(Item) /\ Len(s) = 4 /\ s[1] = x
      /\ s[2] = b[1] /\ s[3] = b[2] /\ s[4] = b[3]
  BY <1>3, <1>4, <1>5 DEF Joins
<1> DEFINE u == s \o c
<1>7. Joins(u, s, c)
  BY <1>4, <1>6, ConcatJoins
<1> HIDE DEF u
<1>8. SetBlkSize = u
  BY <1>1 DEF s, u
<1>9. /\ u \in Seq(Item) /\ Len(u) = 5 /\ u[1] = x
      /\ u[2] = b[1] /\ u[3] = b[2] /\ u[4] = b[3] /\ u[5] = y
  BY <1>4, <1>6, <1>7 DEF Joins
<1>10. QED
  BY <1>3, <1>8, <1>9 DEF x, y

LEMMA TailOf ==
    ASSUME NEW t \in Seq(Item), Len(t) > 0
    PROVE  /\ Tail(t) \in Seq(Item) /\ Len(Tail(t)) = Len(t) - 1
           /\ \A i \in 1 .. Len(t) - 1 : Tail(t)[i] = t[i + 1]
  OBVIOUS

\* What follows SetupTransfer
LEMMA PolledTail ==
    ASSUME NEW dir \in {"read", "write"}, NEW n \in BlkCnts
    PROVE  LET t == Tail(Polled(dir, n)) IN
           /\ t \in Seq(Item) /\ Len(t) = 2
           /\ t[1] = <<"ReadOrWrite", dir, n>> /\ t[2] = <<"CheckTransferDone">>
<1> DEFINE t == Polled(dir, n)
<1>1. /\ t \in Seq(Item) /\ Len(t) = 3
      /\ t[2] = <<"ReadOrWrite", dir, n>> /\ t[3] = <<"CheckTransferDone">>
  BY PolledItems
<1> HIDE DEF t
<1>2. Tail(t) \in Seq(Item) /\ Len(Tail(t)) = 2 /\ Tail(t)[1] = t[2] /\ Tail(t)[2] = t[3]
  BY <1>1, TailOf
<1>3. QED
  BY <1>1, <1>2 DEF t

LEMMA StartTail ==
    ASSUME NEW dir \in {"read", "write"}, NEW n \in BlkCnts
    PROVE  LET t == Tail(StartTransfer(dir, n)) IN
           t \in Seq(Item) /\ Len(t) = 1 /\ t[1] = <<"StartIt", dir, n>>
<1> DEFINE t == StartTransfer(dir, n)
<1>1. t \in Seq(Item) /\ Len(t) = 2 /\ t[2] = <<"StartIt", dir, n>>
  BY StartItems
<1> HIDE DEF t
<1>2. Tail(t) \in Seq(Item) /\ Len(Tail(t)) = 1 /\ Tail(t)[1] = t[2]
  <2> DEFINE u == Tail(t)
  <2>1. u \in Seq(Item) /\ Len(u) = Len(t) - 1 /\ \A i \in 1 .. Len(t) - 1 : u[i] = t[i + 1]
    BY <1>1, TailOf
  <2> HIDE DEF u
  <2>2. Len(u) = 1 /\ u[1] = t[2]
    BY <1>1, <2>1
  <2>3. QED
    BY <2>1, <2>2 DEF u
<1>3. QED
  BY <1>1, <1>2 DEF t

\* The block length, then the rest of the transfer
BlkSizeFirst(t) ==
    /\ t \in Seq(Item) /\ Len(t) >= 6 /\ t[1] = <<"CheckBusIdle", {"cmd", "dat"}>>
    /\ t[2] = <<"SetupCmd", "CMD16", "512", 0>> /\ t[3] = <<"SendCmd", "CMD16", "512">>
    /\ t[4] = <<"CmdDone", "CMD16">> /\ t[5] = <<"BlkSizeSet">>

LEMMA BlkSizeThen ==
    ASSUME NEW rest \in Seq(Item), Len(rest) > 0
    PROVE  LET t == SetBlkSize \o rest IN
           /\ BlkSizeFirst(t) /\ Len(t) = 5 + Len(rest)
           /\ \A i \in 1 .. Len(rest) : t[5 + i] = rest[i]
<1> DEFINE s == SetBlkSize
<1>1. /\ s \in Seq(Item) /\ Len(s) = 5 /\ s[1] = <<"CheckBusIdle", {"cmd", "dat"}>>
      /\ s[2] = <<"SetupCmd", "CMD16", "512", 0>> /\ s[3] = <<"SendCmd", "CMD16", "512">>
      /\ s[4] = <<"CmdDone", "CMD16">> /\ s[5] = <<"BlkSizeSet">>
  BY BlkSizeItems
<1> HIDE DEF s
<1> DEFINE u == s \o rest
<1>2. Joins(u, s, rest)
  BY <1>1, ConcatJoins
<1> HIDE DEF u
<1>3. Len(rest) \in Nat
  OBVIOUS
<1>4. /\ u \in Seq(Item) /\ Len(u) = 5 + Len(rest)
      /\ u[1] = s[1] /\ u[2] = s[2] /\ u[3] = s[3] /\ u[4] = s[4] /\ u[5] = s[5]
      /\ \A i \in 1 .. Len(rest) : u[5 + i] = rest[i]
  BY <1>1, <1>2 DEF Joins
<1>5. BlkSizeFirst(u)
  BY <1>1, <1>3, <1>4 DEF BlkSizeFirst
<1>6. QED
  BY <1>4, <1>5 DEF s, u

PolledSeq(t, dir, n) ==
    /\ BlkSizeFirst(t) /\ Len(t) = 7
    /\ t[6] = <<"ReadOrWrite", dir, n>> /\ t[7] = <<"CheckTransferDone">>

StartSeq(t, dir, n) ==
    BlkSizeFirst(t) /\ Len(t) = 6 /\ t[6] = <<"StartIt", dir, n>>

LEMMA PolledSet ==
    ASSUME NEW dir \in {"read", "write"}, NEW n \in BlkCnts
    PROVE  PolledSeq(SetBlkSize \o Tail(Polled(dir, n)), dir, n)
<1> DEFINE rest == Tail(Polled(dir, n))
<1>1. /\ rest \in Seq(Item) /\ Len(rest) = 2
      /\ rest[1] = <<"ReadOrWrite", dir, n>> /\ rest[2] = <<"CheckTransferDone">>
  BY PolledTail
<1> HIDE DEF rest
<1> DEFINE u == SetBlkSize \o rest
<1>2. /\ BlkSizeFirst(u) /\ Len(u) = 5 + Len(rest)
      /\ \A i \in 1 .. Len(rest) : u[5 + i] = rest[i]
  <2>1. Len(rest) > 0
    BY <1>1
  <2>2. QED
    BY <1>1, <2>1, BlkSizeThen, Zenon
<1> HIDE DEF u
<1>3. Len(u) = 7 /\ u[6] = rest[1] /\ u[7] = rest[2]
  BY <1>1, <1>2
<1>4. PolledSeq(u, dir, n)
  BY <1>1, <1>2, <1>3 DEF PolledSeq
<1>5. QED
  BY <1>4, Zenon DEF rest, u

LEMMA StartSet ==
    ASSUME NEW dir \in {"read", "write"}, NEW n \in BlkCnts
    PROVE  StartSeq(SetBlkSize \o Tail(StartTransfer(dir, n)), dir, n)
<1> DEFINE rest == Tail(StartTransfer(dir, n))
<1>1. rest \in Seq(Item) /\ Len(rest) = 1 /\ rest[1] = <<"StartIt", dir, n>>
  BY StartTail
<1> HIDE DEF rest
<1> DEFINE u == SetBlkSize \o rest
<1>2. /\ BlkSizeFirst(u) /\ Len(u) = 5 + Len(rest)
      /\ \A i \in 1 .. Len(rest) : u[5 + i] = rest[i]
  <2>1. Len(rest) > 0
    BY <1>1
  <2>2. QED
    BY <1>1, <2>1, BlkSizeThen, Zenon
<1> HIDE DEF u
<1>3. Len(u) = 6 /\ u[6] = rest[1]
  BY <1>1, <1>2
<1>4. StartSeq(u, dir, n)
  BY <1>1, <1>2, <1>3 DEF StartSeq
<1>5. QED
  BY <1>4, Zenon DEF rest, u

\* The data command, and what follows it
DataSeq(t, cmd, n, then) ==
    /\ t \in Seq(Item) /\ Len(t) = 5
    /\ t[1] = <<"SetupDma", "user", n, 512>> /\ t[2] = <<"SetupCmd", cmd, "", n>>
    /\ t[3] = <<"SendCmd", cmd, "">> /\ t[4] = <<"CmdDone", cmd>> /\ t[5] = <<then>>

LEMMA DataItems ==
    ASSUME NEW cmd \in DataCmds, NEW n \in BlkCnts, n < U16,
           NEW then \in {"CheckTransferDone", "Started"}
    PROVE  DataSeq(Data(cmd, n, then), cmd, n, then)
<1> DEFINE x == <<"SetupDma", "user", n, 512>>
           y == <<then>>
           a == <<x>>
           b == CmdTransfer(cmd, "", n)
           c == <<y>>
<1>1. Data(cmd, n, then) = (a \o b) \o c
  BY Zenon DEF Data, Only
<1>2. n \in 0 .. U16 - 1
  <2>1. n \in Nat
    BY SdAssumption
  <2>2. U16 \in Nat
    BY DEF U16
  <2>3. QED
    BY <2>1, <2>2
<1>3. x \in Item /\ y \in Item
  <2>1. "user" \in Buffers
    BY DEF Buffers
  <2>2. x \in PlainItem
    BY <1>2, <2>1, PlainItems
  <2>3. <<"CheckTransferDone">> \in PlainItem
    BY PlainItems DEF InitNames
  <2>4. <<"Started">> \in Item
    BY CallItems
  <2>5. QED
    BY <2>2, <2>3, <2>4, Subsets
<1>4. /\ b \in Seq(Item) /\ Len(b) = 3 /\ b[1] = <<"SetupCmd", cmd, "", n>>
      /\ b[2] = <<"SendCmd", cmd, "">> /\ b[3] = <<"CmdDone", cmd>>
  <2>1. cmd \in Commands /\ "" \in Arguments
    BY DEF DataCmds, Commands, Arguments
  <2>2. QED
    BY <1>2, <2>1, CmdItems
<1> HIDE DEF b, x, y
<1>5. /\ a \in Seq(Item) /\ Len(a) = 1 /\ a[1] = x
      /\ c \in Seq(Item) /\ Len(c) = 1 /\ c[1] = y
  BY <1>3
<1> HIDE DEF a, c
<1> DEFINE s == a \o b
<1>6. Joins(s, a, b)
  BY <1>4, <1>5, ConcatJoins
<1> HIDE DEF s
<1>7. /\ s \in Seq(Item) /\ Len(s) = 4 /\ s[1] = x
      /\ s[2] = b[1] /\ s[3] = b[2] /\ s[4] = b[3]
  <2>1. Len(a) = 1 /\ a[1] = x /\ Len(b) = 3
    BY <1>4, <1>5
  <2>2. QED
    BY <2>1, <1>6 DEF Joins
<1> DEFINE u == s \o c
<1>8. Joins(u, s, c)
  BY <1>5, <1>7, ConcatJoins
<1> HIDE DEF u
<1>9. Data(cmd, n, then) = u
  BY <1>1 DEF s, u
<1>10. /\ u \in Seq(Item) /\ Len(u) = 5 /\ u[1] = x
       /\ u[2] = b[1] /\ u[3] = b[2] /\ u[4] = b[3] /\ u[5] = y
  BY <1>5, <1>7, <1>8 DEF Joins
<1>11. DataSeq(u, cmd, n, then)
  BY <1>4, <1>10 DEF x, y, DataSeq
<1>12. QED
  BY <1>9, <1>11, Zenon

\* The end of a sequence: its first item goes, or a failure ends the call or
\* leaves its last item
LEMMA EndGoesOn ==
    ASSUME todo \in Seq(Item), NEW t \in Seq(Item), EndOf(t), Success(<<>>)
    PROVE  /\ todo' = Tail(todo) /\ Len(todo') = Len(todo) - 1
           /\ Len(todo) = 1 => todo' = <<>>
           /\ Len(todo) > 1 => EndOf(t)'
<1>1. Len(todo) \in 1 .. Len(t) /\ \A i \in 1 .. Len(todo) : todo[i] = t[Len(t) - Len(todo) + i]
  BY DEF EndOf
<1>2. Tail(todo) \in Seq(Item) /\ Len(Tail(todo)) = Len(todo) - 1
      /\ \A i \in 1 .. Len(todo) - 1 : Tail(todo)[i] = todo[i + 1]
  BY <1>1
<1>3. todo' = Tail(todo)
  <2>1. todo' = <<>> \o Tail(todo)
    BY DEF Success
  <2>2. QED
    BY <1>2, <2>1, ConcatEmptySeq
<1>4. Len(t) \in Nat /\ Len(todo) \in Nat
  OBVIOUS
<1>5. ASSUME Len(todo) > 1 PROVE EndOf(t)'
  <2>1. ASSUME NEW i \in 1 .. Len(todo') PROVE todo'[i] = t[Len(t) - Len(todo') + i]
    <3>1. i + 1 \in 1 .. Len(todo) /\ Len(t) - Len(todo) + (i + 1) = Len(t) - Len(todo') + i
      BY <1>2, <1>3, <1>4, <2>1
    <3>2. i \in 1 .. Len(todo) - 1
      BY <1>2, <1>3, <2>1
    <3>3. QED
      BY <1>1, <1>2, <1>3, <3>1, <3>2
  <2>2. Len(todo') \in 1 .. Len(t)
    BY <1>1, <1>2, <1>3, <1>4, <1>5
  <2>3. QED
    BY <2>1, <2>2 DEF EndOf
<1>6. Len(todo) = 1 => todo' = <<>>
  BY <1>2, <1>3, EmptySeq
<1>7. QED
  BY <1>2, <1>3, <1>5, <1>6

-----------------------------------------------------------------------------
(* Steps of a transfer                                                     *)

\* The step is that of the first item
LEMMA HeadStep ==
    ASSUME DriverStep
    PROVE  LET f == Head(todo)[1] IN
           /\ todo # <<>> /\ overdue' = overdue /\ (inited => inited')
           /\ f \notin CallNames => InitStep
           /\ f = "CfgInitialize" => CfgInitialize
           /\ f = "SetupTransfer" => SetupTransfer
           /\ f = "ReadOrWrite" => ReadOrWrite
           /\ f = "StartIt" => StartIt
           /\ f = "Started" => Started
           /\ f = "CheckTransferComplete" => CheckTransferComplete
           /\ call' = IF f = "Started" /\ rc # "XST_SUCCESS"
                      THEN [call EXCEPT !.blocks = 0] ELSE call
<1>1. InitStep \/ CallStep
  BY Zenon DEF DriverStep, CallStep
<1>2. InitStep => todo # <<>> /\ Head(todo)[1] \notin CallNames
  BY StepByName
<1>3. CallStep => \/ CfgInitialize /\ At("CfgInitialize")
                  \/ SetupTransfer /\ At("SetupTransfer")
                  \/ ReadOrWrite /\ At("ReadOrWrite")
                  \/ StartIt /\ At("StartIt")
                  \/ Started /\ At("Started")
                  \/ CheckTransferComplete /\ At("CheckTransferComplete")
                  \/ At("Erase") \/ At("Sanitize")
  BY Zenon DEF CallStep, CfgInitialize, SetupTransfer, ReadOrWrite, StartIt, Started,
     CheckTransferComplete, Erase, Sanitize
<1>4. overdue' = overdue /\ (inited => inited')
  BY Zenon DEF DriverStep
<1>5. call' = IF At("Started") /\ rc # "XST_SUCCESS" THEN [call EXCEPT !.blocks = 0] ELSE call
  BY Zenon DEF DriverStep
<1>6. todo # <<>>
  BY <1>1, <1>2, <1>3 DEF At
<1>7. QED
  BY <1>1, <1>2, <1>3, <1>4, <1>5, <1>6 DEF At, CallNames

\* The first item of the end of a sequence
LEMMA EndHead ==
    ASSUME todo \in Seq(Item), NEW t \in Seq(Item), EndOf(t)
    PROVE  /\ todo # <<>> /\ Head(todo) = t[Len(t) - Len(todo) + 1]
           /\ Len(t) \in Nat /\ Len(todo) \in 1 .. Len(t)
<1>1. Len(todo) \in 1 .. Len(t) /\ \A i \in 1 .. Len(todo) : todo[i] = t[Len(t) - Len(todo) + i]
  BY DEF EndOf
<1>2. todo # <<>> /\ Head(todo) = todo[1] /\ 1 \in 1 .. Len(todo) /\ Len(t) \in Nat
  BY <1>1
<1>3. QED
  BY <1>1, <1>2

\* A failure in a sequence without a handler ends the call
LEMMA EndFails ==
    ASSUME todo \in Seq(Item), NEW t \in Seq(Item), EndOf(t), NEW code \in Codes, Failure(code),
           \A i \in 2 .. Len(t) : t[i][1] \notin Handlers
    PROVE  todo' = <<>> /\ rc' # "XST_SUCCESS"
<1>1. /\ todo # <<>> /\ Len(todo) \in 1 .. Len(t) /\ Len(t) \in Nat
      /\ \A i \in 1 .. Len(todo) : todo[i] = t[Len(t) - Len(todo) + i]
  BY EndHead DEF EndOf
<1>2. \A k \in 2 .. Len(todo) : todo[k][1] \notin Handlers
  <2>1. SUFFICES ASSUME NEW k \in 2 .. Len(todo) PROVE todo[k][1] \notin Handlers
    OBVIOUS
  <2>2. Len(t) - Len(todo) + k \in 2 .. Len(t) /\ k \in 1 .. Len(todo)
    BY <1>1
  <2>3. QED
    BY <1>1, <2>2
<1>3. QED
  BY <1>1, <1>2, FailureSeq

\* One in a sequence that ends with Started leaves that
LEMMA EndFailsToStarted ==
    ASSUME todo \in Seq(Item), NEW t \in Seq(Item), EndOf(t), NEW code \in Codes, Failure(code),
           \A i \in 2 .. Len(t) - 1 : t[i][1] \notin Handlers,
           t[Len(t)] = <<"Started">>, Len(todo) > 1
    PROVE  todo' = Only("Started") /\ rc' # "XST_SUCCESS"
<1>1. /\ todo # <<>> /\ Len(todo) \in 1 .. Len(t) /\ Len(t) \in Nat
      /\ \A i \in 1 .. Len(todo) : todo[i] = t[Len(t) - Len(todo) + i]
  BY EndHead DEF EndOf
<1>2. \A k \in 2 .. Len(todo) - 1 : todo[k][1] \notin Handlers
  <2>1. SUFFICES ASSUME NEW k \in 2 .. Len(todo) - 1 PROVE todo[k][1] \notin Handlers
    OBVIOUS
  <2>2. Len(t) - Len(todo) + k \in 2 .. Len(t) - 1 /\ k \in 1 .. Len(todo)
    BY <1>1
  <2>3. QED
    BY <1>1, <2>2
<1>3. todo[Len(todo)] = <<"Started">> /\ Len(todo) \in 2 .. Len(todo)
  <2>1. Len(todo) \in 1 .. Len(todo) /\ Len(t) - Len(todo) + Len(todo) = Len(t)
    BY <1>1
  <2>2. todo[Len(todo)] = t[Len(t)]
    BY <1>1, <2>1
  <2>3. QED
    BY <1>1, <2>2
<1>4. todo[Len(todo)][1] \in Handlers
  BY <1>3 DEF Handlers
<1>5. PICK k \in 2 .. Len(todo) :
        /\ todo[k][1] \in Handlers /\ rc' = code
        /\ todo' \in Seq(Item) /\ Len(todo') = Len(todo) - k + 1
        /\ \A i \in 1 .. Len(todo') : todo'[i] = todo[k + i - 1]
  BY <1>1, <1>3, <1>4, FailureSeq
<1>6. k = Len(todo)
  BY <1>1, <1>2, <1>5
<1>7. Len(todo') = 1 /\ todo'[1] = <<"Started">>
  <2>1. Len(todo') = 1
    BY <1>1, <1>5, <1>6
  <2>2. todo'[1] = todo[k + 1 - 1]
    BY <1>5, <2>1
  <2>3. k + 1 - 1 = Len(todo)
    BY <1>1, <1>6
  <2>4. QED
    BY <1>3, <2>1, <2>2, <2>3
<1> DEFINE u == Only("Started")
<1>8. u \in Seq(Item) /\ Len(u) = 1 /\ u[1] = <<"Started">>
  <2>1. <<"Started">> \in Item
    BY CallItems
  <2>2. QED
    BY <2>1 DEF Only
<1> HIDE DEF u
<1>9. todo' = u
  <2>1. Len(todo') = Len(u) /\ \A i \in 1 .. Len(todo') : todo'[i] = u[i]
    BY <1>7, <1>8
  <2>2. QED
    BY <1>5, <1>8, <2>1, SeqEqual
<1>10. QED
  BY <1>5, <1>9 DEF u, Codes

\* A command on its way
LEMMA SendCmdLine ==
    ASSUME LineTyped(line), SendCmd, Arg(1) \in {"CMD16"} \cup DataCmds
    PROVE  \/ line' = line
           \/ /\ line'.cmd = Arg(1) /\ line'.dat = line.dat /\ line'.frame.resp = "R1"
              /\ line'.frame.dat => Arg(1) # "CMD16"
<1> DEFINE cmd == Arg(1)
           arg == Arg(2)
           frame == FrameCmd(cmd, drv.type)
<1>1. \/ line' = line
      \/ line' = [line EXCEPT !.cmd = cmd, !.arg = arg, !.frame = frame]
  BY Zenon DEF SendCmd
<1>2. frame.resp = "R1" /\ (frame.dat => cmd # "CMD16")
  BY DEF FrameCmd, DataCmds
<1> HIDE DEF cmd, arg, frame
<1>3. QED
  BY <1>1, <1>2 DEF LineTyped, LineFields, cmd

\* The command on its way has no answer that carries an address
NoAddress == line.cmd # "none" => line.frame.resp # "R6"

\* Setting the block length: one step after the other, or the end of the call
LEMMA SetStep ==
    ASSUME Parts, ~drv.busy, DriverStep, NEW t, BlkSizeFirst(t), EndOf(t),
           Len(todo) > Len(t) - 5, \A i \in 2 .. Len(t) : t[i][1] \notin Handlers
    PROVE  /\ ~drv'.busy /\ call' = call
           /\ \/ todo' = <<>> /\ rc' # "XST_SUCCESS"
              \/ Len(todo') = Len(todo) - 1 /\ EndOf(t)'
           /\ ~OnBus => ~OnBus'
           /\ NoAddress => NoAddress'
<1>1. t \in Seq(Item) /\ todo \in Seq(Item) /\ DrvTyped(drv) /\ LineTyped(line)
  BY DEF BlkSizeFirst, Parts
<1>2. /\ todo # <<>> /\ Head(todo) = t[Len(t) - Len(todo) + 1]
      /\ Len(t) \in Nat /\ Len(todo) \in 1 .. Len(t) /\ Len(todo) > 1
  BY <1>1, EndHead DEF BlkSizeFirst
<1>3. Len(t) - Len(todo) + 1 \in 1 .. 5
  BY <1>2
<1>4. Head(todo) \in {<<"CheckBusIdle", {"cmd", "dat"}>>, <<"SetupCmd", "CMD16", "512", 0>>,
                      <<"SendCmd", "CMD16", "512">>, <<"CmdDone", "CMD16">>, <<"BlkSizeSet">>}
  <2>1. \A k \in 1 .. 5 : t[k] \in {t[1], t[2], t[3], t[4], t[5]}
    OBVIOUS
  <2>2. Head(todo) \in {t[1], t[2], t[3], t[4], t[5]}
    BY <1>2, <1>3, <2>1
  <2>3. QED
    BY <2>2 DEF BlkSizeFirst
<1> DEFINE f == Head(todo)[1]
<1>5. f \in {"CheckBusIdle", "SetupCmd", "SendCmd", "CmdDone", "BlkSizeSet"}
      /\ (f = "SendCmd" => Arg(1) = "CMD16")
  BY <1>4 DEF Arg
<1>6. f \notin CallNames /\ f # "Started"
  BY <1>5 DEF CallNames
<1>7. InitStep /\ call' = call
  BY <1>6, HeadStep
<1>8. CheckBusIdle \/ SetupCmd \/ (SendCmd /\ Arg(1) = "CMD16") \/ CmdDone \/ BlkSizeSet
  BY <1>5, <1>7, StepByName
<1>9. Success(<<>>) \/ \E code \in Codes : Failure(code)
  BY <1>8, Zenon DEF CheckBusIdle, SetupCmd, SendCmd, CmdDone, BlkSizeSet, Codes
<1>10. \/ todo' = <<>> /\ rc' # "XST_SUCCESS"
       \/ Len(todo') = Len(todo) - 1 /\ EndOf(t)'
  <2>1. CASE Success(<<>>)
    BY <1>1, <1>2, <2>1, EndGoesOn
  <2>2. CASE \E code \in Codes : Failure(code)
    BY <1>1, <2>2, EndFails
  <2>3. QED
    BY <1>9, <2>1, <2>2
<1>11. \/ line' = line
       \/ /\ line'.cmd = "CMD16" /\ line'.dat = line.dat /\ line'.frame.resp = "R1"
          /\ ~line'.frame.dat
  <2>1. CASE SendCmd /\ Arg(1) = "CMD16"
    BY <1>1, <2>1, SendCmdLine
  <2>2. CASE CheckBusIdle \/ SetupCmd \/ CmdDone \/ BlkSizeSet
    BY <2>2, Zenon DEF CheckBusIdle, SetupCmd, CmdDone, BlkSizeSet, hostVars
  <2>3. QED
    BY <1>8, <2>1, <2>2
<1>12. (~OnBus => ~OnBus') /\ (NoAddress => NoAddress')
  BY <1>11 DEF OnBus, Carries, NoAddress
<1>13. drv'.busy = drv.busy
  BY <1>1, <1>7, DrvKept
<1>14. QED
  BY <1>7, <1>10, <1>12, <1>13

\* What the table can hold has a block count of 16 bits
LEMMA Accepted ==
    ASSUME NEW n \in BlkCnts, FitsTable(n, 512)
    PROVE  n < U16 /\ n % U16 = n
<1>1. n \in Nat /\ n < 128 * U16
  <2> DEFINE k == 128 * U16
  <2>1. n \in 1 .. k - 1
    BY SdAssumption
  <2>2. k \in Nat
    BY DEF U16
  <2> HIDE DEF k
  <2>3. n \in Nat /\ n < k
    BY <2>1, <2>2
  <2>4. QED
    BY <2>3 DEF k
<1>2. U16 \div 512 = 128 /\ NUM_DESC * XSDPS_DESC_MAX_LENGTH = 4096 * 512 /\ 4096 < U16
  BY DEF U16, NUM_DESC, XSDPS_DESC_MAX_LENGTH
<1>3. ~ ((n % (U16 * 128)) * 512 > 4096 * 512)
  BY <1>2 DEF FitsTable, Bytes
<1>4. n % (U16 * 128) = n
  BY <1>1 DEF U16
<1>5. n <= 4096
  BY <1>1, <1>3, <1>4
<1>6. n < U16
  BY <1>1, <1>2, <1>5 DEF U16
<1>7. QED
  BY <1>1, <1>6 DEF U16

\* A sequence is its own end
LEMMA WholeEnd ==
    ASSUME NEW t \in Seq(Item), Len(t) > 0, todo' = t
    PROVE  EndOf(t)' /\ Len(todo') = Len(t)
<1>1. Len(t) - Len(t) = 0 /\ Len(t) \in 1 .. Len(t)
  OBVIOUS
<1>2. \A i \in 1 .. Len(t) : t[i] = t[Len(t) - Len(t) + i]
  BY <1>1
<1>3. QED
  BY <1>1, <1>2 DEF EndOf

LEMMA DataBegins ==
    ASSUME NEW cmd \in DataCmds, NEW n \in BlkCnts, n < U16,
           NEW then \in {"CheckTransferDone", "Started"}, todo' = Data(cmd, n, then)
    PROVE  EndOf(Data(cmd, n, then))' /\ Len(todo') = 5
<1> DEFINE u == Data(cmd, n, then)
<1>1. DataSeq(u, cmd, n, then) /\ todo' = u
  BY DataItems
<1> HIDE DEF u
<1>2. u \in Seq(Item) /\ Len(u) = 5
  BY <1>1 DEF DataSeq
<1>3. EndOf(u)' /\ Len(todo') = Len(u)
  BY <1>1, <1>2, WholeEnd
<1>4. QED
  BY <1>2, <1>3 DEF u

LEMMA HeadOf ==
    ASSUME NEW t \in Seq(Item), Len(t) > 0 PROVE Head(t) = t[1] /\ t # <<>>
  OBVIOUS

\* The data command is next, or the transfer is refused
LEMMA ReadOrWriteStep ==
    ASSUME todo \in Seq(Item), ReadOrWrite, drv.blk = 512,
           NEW dir \in {"read", "write"}, NEW n \in BlkCnts,
           NEW then \in {"CheckTransferDone", "Started"},
           Len(todo) = 2, todo[1] = <<"ReadOrWrite", dir, n>>, todo[2] = <<then>>
    PROVE  \/ then = "CheckTransferDone" /\ todo' = <<>> /\ rc' # "XST_SUCCESS"
           \/ then = "Started" /\ todo' = Only("Started") /\ rc' # "XST_SUCCESS"
           \/ /\ n < U16 /\ Len(todo') = 5
              /\ \E cmd \in DataCmds : EndOf(Data(cmd, n, then))'
<1>1. Head(todo) = todo[1] /\ todo # <<>>
  BY HeadOf
<1>2. Arg(1) = dir /\ Arg(2) = n
  BY <1>1 DEF Arg
<1>3. \/ Failure("XST_FAILURE")
      \/ /\ FitsTable(n, 512)
         /\ \E cmd \in DataCmds :
              Success(<< <<"SetupDma", "user", n % U16, 512>> >> \o CmdTransfer(cmd, "", n % U16))
  <2> DEFINE m == Arg(2)
             blk == drv.blk
             cmd == IF Arg(1) = "read" THEN (IF m = 1 THEN "CMD17" ELSE "CMD18")
                    ELSE (IF m = 1 THEN "CMD24" ELSE "CMD25")
  <2>1. \/ Failure("XST_FAILURE")
        \/ /\ FitsTable(m, blk)
           /\ Success(<< <<"SetupDma", "user", m % U16, blk>> >> \o CmdTransfer(cmd, "", m % U16))
    BY Zenon DEF ReadOrWrite
  <2>2. cmd \in DataCmds /\ m = n /\ blk = 512
    BY <1>2 DEF DataCmds
  <2> HIDE DEF m, blk, cmd
  <2>3. QED
    BY ZenonT(60), <2>1, <2>2
<1>4. EndOf(todo)
  BY DEF EndOf
<1>5. CASE Failure("XST_FAILURE")
  <2>1. "XST_FAILURE" \in Codes
    BY DEF Codes
  <2>2. CASE then = "CheckTransferDone"
    <3>1. \A i \in 2 .. Len(todo) : todo[i][1] \notin Handlers
      BY <2>2 DEF Handlers
    <3>2. QED
      BY <1>4, <1>5, <2>1, <2>2, <3>1, EndFails
  <2>3. CASE then = "Started"
    <3>1. \A i \in 2 .. Len(todo) - 1 : todo[i][1] \notin Handlers
      OBVIOUS
    <3>2. todo[Len(todo)] = <<"Started">> /\ Len(todo) > 1
      BY <2>3
    <3>3. QED
      BY ZenonT(60), <1>4, <1>5, <2>1, <2>3, <3>1, <3>2, EndFailsToStarted
  <2>4. QED
    BY <2>2, <2>3
<1>6. ASSUME FitsTable(n, 512), NEW cmd \in DataCmds,
             Success(<< <<"SetupDma", "user", n % U16, 512>> >> \o CmdTransfer(cmd, "", n % U16))
      PROVE  n < U16 /\ Len(todo') = 5 /\ EndOf(Data(cmd, n, then))'
  <2>1. n < U16 /\ n % U16 = n
    BY <1>6, Accepted
  <2> DEFINE s == << <<"SetupDma", "user", n, 512>> >> \o CmdTransfer(cmd, "", n)
             u == Data(cmd, n, then)
  <2>2. todo' = s \o Tail(todo)
    BY ZenonT(60), <1>6, <2>1 DEF Success
  <2>3. Tail(todo) = Only(then)
    <3> DEFINE u1 == Tail(todo)
               v == Only(then)
    <3>1. u1 \in Seq(Item) /\ Len(u1) = 1 /\ u1[1] = todo[2]
      <4>1. u1 \in Seq(Item) /\ Len(u1) = Len(todo) - 1
            /\ \A i \in 1 .. Len(todo) - 1 : u1[i] = todo[i + 1]
        BY TailOf
      <4> HIDE DEF u1
      <4>2. QED
        BY <4>1
    <3>2. v \in Seq(Item) /\ Len(v) = 1 /\ v[1] = <<then>>
      <4>1. <<"CheckTransferDone">> \in Item /\ <<"Started">> \in Item
        BY PlainItems, Subsets, CallItems DEF InitNames
      <4>2. QED
        BY <4>1 DEF Only
    <3> HIDE DEF u1, v
    <3>3. Len(u1) = Len(v) /\ \A i \in 1 .. Len(u1) : u1[i] = v[i]
      BY <3>1, <3>2
    <3>4. u1 = v
      BY <3>1, <3>2, <3>3, SeqEqual
    <3>5. QED
      BY <3>4 DEF u1, v
  <2>4. todo' = u
    <3>1. u = s \o Only(then)
      BY Zenon DEF Data
    <3> HIDE DEF s, u
    <3>2. QED
      BY <2>2, <2>3, <3>1, Zenon
  <2> HIDE DEF s, u
  <2>5. QED
    BY ZenonT(60), <1>6, <2>1, <2>4, DataBegins DEF u
<1>7. QED
  BY ZenonT(120), <1>3, <1>5, <1>6

-----------------------------------------------------------------------------
(* The descriptor table of a transfer                                      *)

\* Quotient and rest
LEMMA DivMod ==
    ASSUME NEW n \in Nat, NEW s \in Nat \ {0}
    PROVE  n = s * (n \div s) + (n % s) /\ n \div s \in Nat /\ n % s \in 0 .. s - 1
<1>1. n = s * (n \div s) + (n % s) /\ n \div s \in Nat
  OBVIOUS
<1>2. n % s \in 0 .. s - 1
  OBVIOUS
<1>3. QED
  BY <1>1, <1>2

\* The rest of a number below two multiples
LEMMA ModOf ==
    ASSUME NEW s \in Nat \ {0}, NEW r \in 1 .. s
    PROVE  (r % s = 0 /\ r = s) \/ (r % s = r /\ r # 0)
<1>1. CASE r = s
  <2>1. s = s * (s \div s) + (s % s) /\ s \div s \in Nat /\ s % s \in 0 .. s - 1
    BY DivMod
  <2>2. s \div s = 1
    OBVIOUS
  <2>3. QED
    BY <1>1, <2>1, <2>2
<1>2. CASE r < s
  BY <1>2
<1>3. QED
  BY <1>1, <1>2

\* The length a descriptor can have fills its 16-bit field
LEMMA Lengths == XSDPS_DESC_MAX_LENGTH \in Nat \ {0} /\ U16 = XSDPS_DESC_MAX_LENGTH
  BY DEF XSDPS_DESC_MAX_LENGTH, U16

\* Full descriptors and the rest
LEMMA Lines ==
    ASSUME NEW total \in Nat \ {0}
    PROVE  LET n == TotalDescLines(total) IN
           /\ n \in Nat \ {0}
           /\ (n - 1) * XSDPS_DESC_MAX_LENGTH < total
           /\ total <= n * XSDPS_DESC_MAX_LENGTH
<1> DEFINE s == XSDPS_DESC_MAX_LENGTH
           q == total \div s
           r == total % s
           n == TotalDescLines(total)
<1>1. s \in Nat \ {0}
  BY Lengths
<1>2. n = IF total < s THEN 1 ELSE q + IF r # 0 THEN 1 ELSE 0
  BY DEF TotalDescLines
<1> HIDE DEF s, n
<1>3. total = s * q + r /\ q \in Nat /\ r \in 0 .. s - 1
  BY <1>1, DivMod
<1> HIDE DEF q, r
<1>4. CASE total < s
  BY <1>1, <1>2, <1>4 DEF s, n
<1>5. CASE total >= s /\ r = 0
  <2>1. n = q /\ total = s * n /\ n # 0
    BY <1>1, <1>2, <1>3, <1>5
  <2>2. n \in Nat /\ n * s = s * n /\ (n - 1) * s = s * n - s
    BY <1>1, <1>3, <2>1
  <2>3. n \in Nat \ {0} /\ (n - 1) * s < total /\ total <= n * s
    BY <1>1, <2>1, <2>2
  <2>4. QED
    BY <2>3 DEF s, n
<1>6. CASE total >= s /\ r # 0
  <2>1. n = q + 1
    BY <1>2, <1>6, <1>1
  <2>2. n \in Nat \ {0} /\ (n - 1) * s = s * q /\ n * s = s * q + s
    BY <1>1, <1>3, <2>1
  <2>3. s * q \in Int
    BY <1>1, <1>3
  <2>4. n \in Nat \ {0} /\ (n - 1) * s < total /\ total <= n * s
    BY <1>1, <1>3, <1>6, <2>2, <2>3
  <2>5. QED
    BY <2>4 DEF s, n
<1>7. QED
  BY <1>1, <1>3, <1>4, <1>5, <1>6

\* A descriptor moves as many bytes as it was made for: a full one carries the
\* length 0, which is what 65536 leaves in 16 bits.
LEMMA MovesWhatIsMeant ==
    ASSUME NEW buff \in Nat, NEW total \in Nat \ {0}, NEW d \in 0 .. TotalDescLines(total) - 1
    PROVE  LET e == Descriptor(buff, total, d)
               last == TotalDescLines(total) - 1
           IN  /\ e.address = buff + d * XSDPS_DESC_MAX_LENGTH
               /\ Moves(e) = IF d < last THEN XSDPS_DESC_MAX_LENGTH
                             ELSE total - last * XSDPS_DESC_MAX_LENGTH
<1> DEFINE s == XSDPS_DESC_MAX_LENGTH
           last == TotalDescLines(total) - 1
           rest == total - last * s
           e == Descriptor(buff, total, d)
<1>1. s \in Nat \ {0} /\ U16 = s
  BY Lengths
<1>2. TotalDescLines(total) \in Nat \ {0} /\ last * s < total
      /\ total <= TotalDescLines(total) * s
  BY Lines
<1>3. e = [address |-> buff + d * s, length |-> IF d < last THEN 0 ELSE rest % U16,
           end |-> d = last]
  BY DEF Descriptor
<1>4. Moves(e) = IF e.length = 0 THEN U16 ELSE e.length
  BY DEF Moves
<1>5. TotalDescLines(total) * s = last * s + s
  BY <1>1, <1>2
<1>6. last * s \in Int
  BY <1>1, <1>2
<1> HIDE DEF s, e
<1>7. rest \in 1 .. s
  BY <1>1, <1>2, <1>5, <1>6
<1>8. (rest % s = 0 /\ rest = s) \/ (rest % s = rest /\ rest # 0)
  BY <1>1, <1>7, ModOf
<1> HIDE DEF last, rest
<1>9. e.address = buff + d * s /\ e.length = IF d < last THEN 0 ELSE rest % s
  BY <1>1, <1>3
<1>10. Moves(e) = IF d < last THEN s ELSE rest
  BY <1>1, <1>4, <1>8, <1>9
<1>11. QED
  BY <1>9, <1>10 DEF s, e, last, rest

\* The entries of a table cover the buffer, all of it and nothing else, no byte
\* twice, only the last one ends the table, and what the driver accepts fits the
\* table in the instance (XSdPs_Setup64ADMA2DescTbl, xsdps_host.c:1126, with the
\* limit of xsdps_card.c:79).
THEOREM TableTilesBuffer ==
    ASSUME NEW buff \in Nat, NEW total \in Nat \ {0}, NEW a \in Nat
    PROVE  LET n == TotalDescLines(total)
               e(d) == Descriptor(buff, total, d)
           IN  /\ (\E d \in 0 .. n - 1 : Covers(e(d), a)) <=> buff <= a /\ a < buff + total
               /\ \A c, d \in 0 .. n - 1 : Covers(e(c), a) /\ Covers(e(d), a) => c = d
               /\ \A d \in 0 .. n - 1 : e(d).end <=> d = n - 1
               /\ total <= NUM_DESC * XSDPS_DESC_MAX_LENGTH => n <= NUM_DESC
<1> DEFINE s == XSDPS_DESC_MAX_LENGTH
           n == TotalDescLines(total)
           e(d) == Descriptor(buff, total, d)
           at == (a - buff) \div s
           left == (a - buff) % s
<1>1. s \in Nat \ {0}
  BY Lengths
<1>2. n \in Nat \ {0} /\ (n - 1) * s < total /\ total <= n * s
  BY Lines
<1>3. \A d \in 0 .. n - 1 :
        Covers(e(d), a) <=> /\ buff + d * s <= a
                            /\ a < buff + d * s + IF d < n - 1 THEN s
                                                  ELSE total - (n - 1) * s
  BY MovesWhatIsMeant DEF Covers
<1>4. \A d \in 0 .. n - 1 : e(d).end <=> d = n - 1
  BY DEF Descriptor
<1> HIDE DEF s, n, e
\* The entries follow each other
<1>5. ASSUME NEW c \in 0 .. n - 1, NEW d \in 0 .. n - 1, c < d
      PROVE  c * s + s <= d * s
  <2>1. d - c \in Nat /\ d - c >= 1
    BY <1>2, <1>5
  <2>2. d * s = c * s + s + (d - c - 1) * s /\ c * s \in Nat /\ (d - c - 1) * s \in Nat
    BY <1>1, <1>2, <2>1
  <2>3. QED
    BY <1>1, <2>2
<1>6. \A d \in 0 .. n - 1 : d * s \in Nat
  BY <1>1, <1>2
<1>7. (n - 1) * s \in Nat /\ n - 1 \in 0 .. n - 1
  BY <1>1, <1>2
<1>8. ASSUME NEW d \in 0 .. n - 1, Covers(e(d), a)
      PROVE  buff <= a /\ a < buff + total
  <2>1. CASE d < n - 1
    BY <1>1, <1>2, <1>3, <1>5, <1>6, <1>7, <1>8, <2>1
  <2>2. CASE d = n - 1
    BY <1>2, <1>3, <1>6, <1>7, <1>8, <2>2
  <2>3. QED
    BY <1>2, <2>1, <2>2
<1>9. ASSUME NEW c \in 0 .. n - 1, NEW d \in 0 .. n - 1, Covers(e(c), a), Covers(e(d), a)
      PROVE  ~ (c < d)
  <2>1. SUFFICES ASSUME c < d PROVE FALSE
    OBVIOUS
  <2>2. c < n - 1 /\ c * s + s <= d * s
    BY <1>2, <1>5, <2>1
  <2>3. a < buff + c * s + s /\ buff + d * s <= a
    BY <1>3, <1>9, <2>2
  <2>4. QED
    BY <1>1, <1>6, <2>2, <2>3
<1>10. ASSUME buff <= a, a < buff + total
       PROVE  \E d \in 0 .. n - 1 : Covers(e(d), a)
  <2>1. a - buff = s * at + left /\ at \in Nat /\ left \in 0 .. s - 1
    <3>1. a - buff \in Nat
      BY <1>10
    <3>2. QED
      BY <1>1, <3>1, DivMod
  <2> HIDE DEF at, left
  <2>2. s * at = at * s /\ at * s \in Nat
    BY <1>1, <2>1
  <2>3. at * s <= a - buff /\ a - buff < at * s + s
    BY <1>1, <2>1, <2>2
  <2>4. at \in 0 .. n - 1
    <3>1. SUFFICES ASSUME at >= n PROVE FALSE
      BY <1>2, <2>1
    <3>2. at * s = n * s + (at - n) * s /\ (at - n) * s \in Nat /\ n * s \in Nat
      BY <1>1, <1>2, <2>1, <3>1
    <3>3. QED
      BY <1>2, <1>10, <2>3, <3>2
  <2>5. buff + at * s <= a /\ a < buff + at * s + IF at < n - 1 THEN s ELSE total - (n - 1) * s
    <3>1. CASE at < n - 1
      BY <2>2, <2>3, <3>1, <1>1
    <3>2. CASE at = n - 1
      BY <1>7, <1>10, <2>2, <2>3, <3>2
    <3>3. QED
      BY <1>2, <2>4, <3>1, <3>2
  <2>6. QED
    BY <1>3, <2>4, <2>5
<1>11. \A c, d \in 0 .. n - 1 : Covers(e(c), a) /\ Covers(e(d), a) => c = d
  BY <1>2, <1>9
<1>12. (\E d \in 0 .. n - 1 : Covers(e(d), a)) <=> buff <= a /\ a < buff + total
  BY <1>8, <1>10
<1>13. total <= NUM_DESC * XSDPS_DESC_MAX_LENGTH => n <= NUM_DESC
  <2>1. SUFFICES ASSUME total <= NUM_DESC * XSDPS_DESC_MAX_LENGTH, n > NUM_DESC PROVE FALSE
    BY <1>2 DEF NUM_DESC
  <2>2. n - 1 >= 32 /\ (n - 1) * s \in Nat /\ total <= 32 * s
    BY <1>2, <1>7, <2>1 DEF NUM_DESC, s
  <2>3. (n - 1) * s = 32 * s + (n - 33) * s /\ (n - 33) * s \in Nat
    BY <1>1, <1>2, <2>2
  <2>4. QED
    BY <1>1, <1>2, <2>2, <2>3
<1>14. QED
  BY <1>4, <1>11, <1>12, <1>13 DEF n, e

\* The table of a transfer describes the whole of its buffer
LEMMA DescribesAll ==
    ASSUME NEW n \in Nat \ {0}, NEW size \in Nat \ {0}
    PROVE  Described(Setup64ADMA2DescTbl(0, n, size)) = n * size
<1> DEFINE total == Bytes(n, size)
           k == TotalDescLines(total)
           s == XSDPS_DESC_MAX_LENGTH
           e(d) == Descriptor(0, total, d)
           table == [i \in 1 .. k |-> e(i - 1)]
<1>1. total = n * size /\ total \in Nat \ {0}
  <2>1. n * size \in Nat /\ n * size # 0
    OBVIOUS
  <2>2. QED
    BY <2>1 DEF Bytes
<1> HIDE DEF total
<1>2. s \in Nat \ {0} /\ k \in Nat \ {0}
  BY <1>1, Lengths, Lines
<1>3. 0 \in 0 .. k - 1 /\ k - 1 \in 0 .. k - 1
  BY <1>2
<1>4. e(0).address = 0 + 0 * s
  BY <1>1, <1>3, MovesWhatIsMeant
<1>5. e(k - 1).address = 0 + (k - 1) * s /\ Moves(e(k - 1)) = total - (k - 1) * s
  BY <1>1, <1>3, MovesWhatIsMeant
<1>6. Setup64ADMA2DescTbl(0, n, size) = table
  BY Zenon DEF Setup64ADMA2DescTbl, total
<1> HIDE DEF k, s, e
<1>7. Len(table) = k /\ table[k] = e(k - 1) /\ table[1] = e(0)
  BY <1>2
<1> HIDE DEF table
<1>8. Described(table) = e(k - 1).address + Moves(e(k - 1)) - e(0).address
  BY <1>7, Zenon DEF Described
<1>9. (k - 1) * s \in Int /\ 0 * s = 0
  BY <1>2
<1>10. Described(table) = total
  BY <1>1, <1>4, <1>5, <1>8, <1>9
<1>11. QED
  BY <1>1, <1>6, <1>10

-----------------------------------------------------------------------------
(* The data command                                                        *)

\* What is set up, on the lines and in the status when todo has k items left
Progress(k) ==
    overdue \/ /\ k >= 3 => ~OnBus
               /\ k = 4 => BufferSet
               /\ k = 3 => Settings
               /\ k <= 3 => OwnEnd

\* A transfer that has the lines has its settings there
OwnLines == overdue \/ ((OnBus => Settings) /\ NoAddress)

\* The steps before the last one
LEMMA MoveProgress ==
    ASSUME Parts, InitStep, call' = call, overdue' = overdue, OwnLines,
           NEW n \in BlkCnts, call.blocks = n, n < U16, NEW cmd \in DataCmds,
           NEW then \in {"CheckTransferDone", "Started"}, Success(<<>>),
           NEW k \in 2 .. 5, Head(todo) = Data(cmd, n, then)[6 - k], Progress(k)
    PROVE  Progress(k - 1)' /\ OwnLines'
<1> DEFINE u == Data(cmd, n, then)
<1>1. DataSeq(u, cmd, n, then)
  BY DataItems
<1>2. Head(todo) = u[6 - k] /\ call'.blocks = n
  OBVIOUS
<1> HIDE DEF u
<1>11. /\ k = 5 => Head(todo) = <<"SetupDma", "user", n, 512>>
       /\ k = 4 => Head(todo) = <<"SetupCmd", cmd, "", n>>
       /\ k = 3 => Head(todo) = <<"SendCmd", cmd, "">>
       /\ k = 2 => Head(todo) = <<"CmdDone", cmd>>
  <2>1. /\ u[1] = <<"SetupDma", "user", n, 512>> /\ u[2] = <<"SetupCmd", cmd, "", n>>
        /\ u[3] = <<"SendCmd", cmd, "">> /\ u[4] = <<"CmdDone", cmd>>
    BY <1>1, Zenon DEF DataSeq
  <2>2. /\ k = 5 => 6 - k = 1
        /\ k = 4 => 6 - k = 2
        /\ k = 3 => 6 - k = 3
        /\ k = 2 => 6 - k = 4
    OBVIOUS
  <2>3. QED
    BY ZenonT(60), <1>2, <2>1, <2>2
<1>3. SUFFICES ASSUME ~overdue PROVE Progress(k - 1)' /\ OwnLines'
  BY DEF Progress, OwnLines
<1>4. HostTyped(host) /\ LineTyped(line)
  BY DEF Parts
<1>5. n \in Nat \ {0}
  BY SdAssumption
<1>6. CASE k = 5
  <2>1. Head(todo) = <<"SetupDma", "user", n, 512>>
    BY <1>6, <1>11, Zenon
  <2>2. SetupReadDma /\ Arg(1) = "user" /\ Arg(2) = n /\ Arg(3) = 512
    <3>1. Head(todo)[1] = "SetupDma" /\ Arg(1) = "user" /\ Arg(2) = n /\ Arg(3) = 512
      BY <2>1 DEF Arg
    <3>2. QED
      BY <3>1, StepByName, Zenon
  <2>3. host' = SetupDma(host, "user", n, 512) /\ UNCHANGED line
    BY <2>2, Zenon DEF SetupReadDma
  <2>4. Described(Setup64ADMA2DescTbl(0, n, 512)) = n * 512
    BY <1>5, DescribesAll
  <2> DEFINE size == n * 512
  <2>5. host' = [host EXCEPT !.blksz = 512, !.dma = [into |-> "user", bytes |-> size]]
    BY ZenonT(60), <2>3, <2>4 DEF SetupDma
  <2>6. host'.blksz = 512 /\ host'.dma = [into |-> "user", bytes |-> size]
    <3> HIDE DEF size
    <3>1. QED
      BY <1>4, <2>5 DEF HostTyped, HostFields
  <2>7. BufferSet'
    BY <1>2, <2>6 DEF BufferSet
  <2>8. ~OnBus /\ NoAddress
    BY <1>3, <1>6 DEF Progress, OwnLines
  <2>9. ~OnBus' /\ NoAddress'
    BY <2>3, <2>8 DEF OnBus, Carries, NoAddress
  <2>10. QED
    BY <1>6, <2>7, <2>9 DEF Progress, OwnLines
<1>7. CASE k = 4
  <2>1. Head(todo) = <<"SetupCmd", cmd, "", n>>
    BY <1>7, <1>11, Zenon
  <2>2. SetupCmd /\ Arg(3) = n
    <3>1. <<"SetupCmd", cmd, "", n>>[1] = "SetupCmd" /\ <<"SetupCmd", cmd, "", n>>[4] = n
      OBVIOUS
    <3>2. Arg(3) = Head(todo)[4]
      BY DEF Arg
    <3>3. QED
      BY <2>1, <3>1, <3>2, StepByName, Zenon
  <2>3. ~ Failure("XST_FAILURE")
    BY DEF Success, Failure
  <2>4. host' = [host EXCEPT !.blkcnt = Arg(3)] /\ sts' = {} /\ UNCHANGED line
    BY <2>2, <2>3, Zenon DEF SetupCmd
  <2>5. host' = [host EXCEPT !.blkcnt = n]
    BY <2>2, <2>4, Zenon
  <2>6. host'.blkcnt = n /\ host'.blksz = host.blksz /\ host'.dma = host.dma
    BY <1>4, <2>5 DEF HostTyped, HostFields
  <2>7. BufferSet /\ ~OnBus /\ NoAddress
    BY <1>3, <1>7 DEF Progress, OwnLines
  <2>8. Settings'
    BY <1>2, <2>6, <2>7 DEF BufferSet, Settings
  <2>9. ~OnBus' /\ NoAddress' /\ OwnEnd'
    BY <2>4, <2>7 DEF OnBus, Carries, NoAddress, OwnEnd
  <2>10. QED
    BY <1>7, <2>8, <2>9 DEF Progress, OwnLines
<1>8. CASE k = 3
  <2>1. Head(todo) = <<"SendCmd", cmd, "">>
    BY <1>8, <1>11, Zenon
  <2>2. SendCmd /\ Arg(1) = cmd
    <3>1. <<"SendCmd", cmd, "">>[1] = "SendCmd" /\ <<"SendCmd", cmd, "">>[2] = cmd
      OBVIOUS
    <3>2. Arg(1) = Head(todo)[2]
      BY DEF Arg
    <3>3. QED
      BY <2>1, <3>1, <3>2, StepByName, Zenon
  <2>3. UNCHANGED <<host, sts, moved>>
    BY <2>2, Zenon DEF SendCmd
  <2>4. line' = line \/ line'.frame.resp = "R1"
    BY <1>4, <2>2, SendCmdLine
  <2>5. Settings /\ OwnEnd /\ NoAddress
    BY <1>3, <1>8 DEF Progress, OwnLines
  <2>6. Settings' /\ OwnEnd'
    BY <2>3, <2>5 DEF Settings, BufferSet, OwnEnd
  <2>7. NoAddress'
    BY <2>4, <2>5 DEF NoAddress
  <2>8. QED
    BY <1>8, <2>6, <2>7 DEF Progress, OwnLines
<1>9. CASE k = 2
  <2>1. Head(todo) = <<"CmdDone", cmd>>
    BY <1>9, <1>11, Zenon
  <2>2. CmdDone
    <3>1. Head(todo)[1] = "CmdDone"
      BY <2>1
    <3>2. QED
      BY <3>1, StepByName, Zenon
  <2>3. UNCHANGED <<host, line, moved>> /\ sts' \subseteq sts
    BY <2>2 DEF CmdDone
  <2>4. OwnEnd /\ (OnBus => Settings) /\ NoAddress
    BY <1>3, <1>9 DEF Progress, OwnLines
  <2>5. OwnEnd' /\ (OnBus' => Settings') /\ NoAddress'
    BY <2>3, <2>4 DEF Settings, BufferSet, OwnEnd, OnBus, Carries, NoAddress
  <2>6. QED
    BY <1>9, <2>5 DEF Progress, OwnLines
<1>10. QED
  BY <1>6, <1>7, <1>8, <1>9

\* A failure touches neither what is set up nor the lines
LEMMA FailureKeeps ==
    ASSUME CheckBusIdle \/ SetupCmd \/ SendCmd \/ CmdDone \/ SetupReadDma \/ BlkSizeSet
           \/ CheckTransferDone,
           NEW code \in Codes, Failure(code)
    PROVE  UNCHANGED <<host, line, moved>>
<1>1. ~ Success(<<>>)
  BY DEF Success, Failure, Codes
<1>2. QED
  BY <1>1, Zenon DEF CheckBusIdle, SetupCmd, SendCmd, CmdDone, SetupReadDma, BlkSizeSet,
     CheckTransferDone, hostVars

LEMMA DataNames ==
    ASSUME NEW u, NEW cmd, NEW n, NEW then, DataSeq(u, cmd, n, then)
    PROVE  u[1][1] = "SetupDma" /\ u[2][1] = "SetupCmd" /\ u[3][1] = "SendCmd" /\ u[4][1] = "CmdDone"
<1> DEFINE a == <<"SetupDma", "user", n, 512>>
           b == <<"SetupCmd", cmd, "", n>>
           c == <<"SendCmd", cmd, "">>
           d == <<"CmdDone", cmd>>
<1>1. a[1] = "SetupDma" /\ b[1] = "SetupCmd" /\ c[1] = "SendCmd" /\ d[1] = "CmdDone"
  OBVIOUS
<1>2. u[1] = a /\ u[2] = b /\ u[3] = c /\ u[4] = d
  BY Zenon DEF DataSeq
<1> HIDE DEF a, b, c, d
<1>3. QED
  BY <1>1, <1>2, Zenon

\* The name of the first item
LEMMA DataHead ==
    ASSUME todo \in Seq(Item), NEW n \in BlkCnts, n < U16, NEW cmd \in DataCmds,
           NEW then \in {"CheckTransferDone", "Started"}, EndOf(Data(cmd, n, then))
    PROVE  /\ todo # <<>> /\ Len(todo) \in 1 .. 5
           /\ Head(todo) = Data(cmd, n, then)[6 - Len(todo)]
           /\ Len(todo) > 1 => Head(todo)[1] \in {"SetupDma", "SetupCmd", "SendCmd", "CmdDone"}
           /\ Len(todo) = 1 => Head(todo) = <<then>>
<1> DEFINE u == Data(cmd, n, then)
<1>1. DataSeq(u, cmd, n, then)
  BY DataItems
<1>2. EndOf(u)
  OBVIOUS
<1> HIDE DEF u
<1>3. u \in Seq(Item) /\ Len(u) = 5
  BY <1>1 DEF DataSeq
<1>4. /\ todo # <<>> /\ Head(todo) = u[Len(u) - Len(todo) + 1]
      /\ Len(todo) \in 1 .. Len(u)
  BY <1>2, <1>3, EndHead
<1> DEFINE k == Len(todo)
           h == Head(todo)
<1>5. k \in 1 .. 5 /\ h = u[5 - k + 1]
  BY <1>3, <1>4
<1> HIDE DEF k, h
<1>6. h = u[6 - k]
  <2>1. 5 - k + 1 = 6 - k
    BY <1>5
  <2>2. QED
    BY <1>5, <2>1, Zenon
<1>7. /\ k > 1 => 6 - k \in 1 .. 4
      /\ k = 1 => 6 - k = 5
  BY <1>5
<1>8. \A i \in 1 .. 4 : u[i][1] \in {"SetupDma", "SetupCmd", "SendCmd", "CmdDone"}
  <2>1. /\ u[1][1] = "SetupDma" /\ u[2][1] = "SetupCmd" /\ u[3][1] = "SendCmd"
        /\ u[4][1] = "CmdDone"
    BY <1>1, DataNames, Zenon
  <2>2. QED
    BY <2>1
<1>9. u[5] = <<then>>
  BY <1>1, Zenon DEF DataSeq
<1>10. k > 1 => h[1] \in {"SetupDma", "SetupCmd", "SendCmd", "CmdDone"}
  BY <1>6, <1>7, <1>8
<1>11. k = 1 => h = <<then>>
  BY <1>6, <1>7, <1>9, Zenon
<1>12. QED
  BY <1>4, <1>5, <1>6, <1>10, <1>11, Zenon DEF k, h, u

\* A step goes on, or the call ends, or only Started is left
LEMMA MoveStep ==
    ASSUME Parts, DriverStep, ~drv.busy, OwnLines, Progress(Len(todo)),
           NEW n \in BlkCnts, call.blocks = n, n < U16, NEW cmd \in DataCmds,
           NEW then \in {"CheckTransferDone", "Started"}, EndOf(Data(cmd, n, then)),
           Len(todo) > 1
    PROVE  /\ ~drv'.busy /\ call' = call /\ OwnLines'
           /\ \/ todo' = <<>> /\ rc' # "XST_SUCCESS"
              \/ todo' = Only("Started") /\ rc' # "XST_SUCCESS"
              \/ EndOf(Data(cmd, n, then))' /\ Progress(Len(todo))'
<1>1. todo \in Seq(Item) /\ DrvTyped(drv)
  BY DEF Parts
<1>2. /\ todo # <<>> /\ Len(todo) \in 1 .. 5
      /\ Head(todo) = Data(cmd, n, then)[6 - Len(todo)]
      /\ Head(todo)[1] \in {"SetupDma", "SetupCmd", "SendCmd", "CmdDone"}
  BY <1>1, DataHead
<1>3. Head(todo)[1] \notin CallNames /\ Head(todo)[1] # "Started"
  BY <1>2 DEF CallNames
<1>4. InitStep /\ call' = call /\ overdue' = overdue
  BY <1>3, HeadStep, Zenon
<1>5. SetupReadDma \/ SetupCmd \/ SendCmd \/ CmdDone
  BY <1>2, <1>4, StepByName
<1>6. drv'.busy = drv.busy
  BY <1>1, <1>4, DrvKept
<1> DEFINE u == Data(cmd, n, then)
<1>7. DataSeq(u, cmd, n, then)
  BY DataItems
<1>8. EndOf(u)
  OBVIOUS
<1> HIDE DEF u
<1>9. u \in Seq(Item) /\ Len(u) = 5
  BY <1>7 DEF DataSeq
<1>10. Success(<<>>) \/ \E code \in Codes : Failure(code)
  BY <1>5, Zenon DEF SetupReadDma, SetupCmd, SendCmd, CmdDone, Codes
<1>11. CASE Success(<<>>)
  <2>1. Len(todo') = Len(todo) - 1 /\ EndOf(u)'
    BY <1>1, <1>8, <1>9, <1>11, EndGoesOn
  <2>9. Len(todo) \in 2 .. 5
    <3> DEFINE m == Len(todo)
    <3>1. m \in 1 .. 5 /\ m > 1
      BY <1>2
    <3> HIDE DEF m
    <3>2. m \in 2 .. 5
      BY <3>1
    <3>3. QED
      BY <3>2 DEF m
  <2>2. PICK k \in 2 .. 5 : k = Len(todo)
    BY <2>9, Zenon
  <2>3. Progress(k - 1)' /\ OwnLines'
    <3>1. Head(todo) = Data(cmd, n, then)[6 - k] /\ Progress(k)
      BY <1>2, <2>2, Zenon
    <3>2. QED
      BY <1>4, <1>11, <3>1, MoveProgress, Zenon
  <2>4. Len(todo') = k - 1
    BY <2>1, <2>2
  <2>5. Progress(Len(todo))'
    BY <2>3, <2>4, Zenon DEF Progress
  <2>6. QED
    BY <1>4, <1>6, <2>1, <2>3, <2>5 DEF u
<1>12. ASSUME NEW code \in Codes, Failure(code)
       PROVE  /\ ~drv'.busy /\ call' = call /\ OwnLines'
              /\ todo' \in {<<>>, Only("Started")} /\ rc' # "XST_SUCCESS"
  <2>1. UNCHANGED <<host, line, moved>>
    BY <1>5, <1>12, FailureKeeps
  <2>2. OwnLines'
    BY <1>4, <2>1 DEF OwnLines, OnBus, Carries, Settings, BufferSet, NoAddress
  <2>3. \A i \in 2 .. 4 : u[i][1] \notin Handlers
    <3>1. u[2][1] = "SetupCmd" /\ u[3][1] = "SendCmd" /\ u[4][1] = "CmdDone"
      BY <1>7, DataNames, Zenon
    <3>2. QED
      BY <3>1 DEF Handlers
  <2>4. u[5] = <<then>>
    BY <1>7, Zenon DEF DataSeq
  <2>5. CASE then = "CheckTransferDone"
    <3>1. u[5][1] \notin Handlers
      BY <2>4, <2>5 DEF Handlers
    <3>2. \A i \in 2 .. Len(u) : u[i][1] \notin Handlers
      BY <1>9, <2>3, <3>1
    <3>3. todo' = <<>> /\ rc' # "XST_SUCCESS"
      BY <1>1, <1>8, <1>9, <1>12, <3>2, EndFails
    <3>4. QED
      BY <1>4, <1>6, <2>2, <3>3
  <2>6. CASE then = "Started"
    <3>1. u[Len(u)] = <<"Started">> /\ \A i \in 2 .. Len(u) - 1 : u[i][1] \notin Handlers
      BY <1>9, <2>3, <2>4, <2>6
    <3>2. todo' = Only("Started") /\ rc' # "XST_SUCCESS"
      BY <1>1, <1>8, <1>9, <1>12, <3>1, EndFailsToStarted
    <3>3. QED
      BY <1>4, <1>6, <2>2, <3>2
  <2>7. QED
    BY <2>5, <2>6
<1>13. QED
  BY <1>10, <1>11, <1>12

\* The end of a transfer that is polled for
LEMMA DoneStep ==
    ASSUME Parts, DriverStep, ~drv.busy, OwnLines, NEW n \in BlkCnts, call.blocks = n,
           todo \in Seq(Item), todo # <<>>, Head(todo) = <<"CheckTransferDone">>, Len(todo) = 1,
           overdue \/ OwnEnd
    PROVE  /\ ~drv'.busy /\ call' = call /\ OwnLines' /\ todo' = <<>>
           /\ (rc' = "XST_SUCCESS" /\ ~overdue) => <<"user", n * 512>> \in moved'
<1>1. Head(todo)[1] = "CheckTransferDone"
  OBVIOUS
<1>2. InitStep /\ call' = call /\ overdue' = overdue
  <2>1. Head(todo)[1] \notin CallNames /\ Head(todo)[1] # "Started"
    BY <1>1 DEF CallNames
  <2>2. QED
    BY <2>1, HeadStep, Zenon
<1>3. CheckTransferDone
  BY <1>1, <1>2, StepByName, Zenon
<1>4. drv'.busy = drv.busy
  BY <1>2, DrvKept DEF Parts
<1>5. UNCHANGED <<host, line, moved>>
      /\ (Failure("XST_FAILURE") \/ ("TC" \in sts /\ Success(<<>>)))
  BY <1>3, Zenon DEF CheckTransferDone
<1>6. OwnLines'
  BY <1>2, <1>5 DEF OwnLines, OnBus, Carries, Settings, BufferSet, NoAddress
<1>7. CASE Failure("XST_FAILURE")
  <2>1. todo' = <<>> /\ rc' # "XST_SUCCESS"
    BY <1>7, FailureSeq
  <2>2. QED
    BY <1>2, <1>4, <1>6, <2>1
<1>8. CASE "TC" \in sts /\ Success(<<>>)
  <2>1. EndOf(todo)
    BY DEF EndOf
  <2>2. todo' = <<>>
    BY <1>8, <2>1, EndGoesOn
  <2>3. overdue \/ <<"user", n * 512>> \in moved'
    BY <1>5, <1>8 DEF OwnEnd
  <2>4. QED
    BY <1>2, <1>4, <1>6, <2>2, <2>3
<1>9. QED
  BY <1>5, <1>7, <1>8

\* The transfer is on its way
LEMMA StartedStep ==
    ASSUME Parts, DriverStep, todo # <<>>, Head(todo) = <<"Started">>, Len(todo) = 1
    PROVE  \/ call'.blocks = 0
           \/ /\ rc = "XST_SUCCESS" /\ call' = call /\ todo' = <<>>
              /\ UNCHANGED <<host, line, sts, moved>>
<1>1. Head(todo)[1] = "Started"
  OBVIOUS
<1>2. Started /\ call' = IF rc # "XST_SUCCESS" THEN [call EXCEPT !.blocks = 0] ELSE call
  BY <1>1, HeadStep, Zenon
<1>3. CASE rc # "XST_SUCCESS"
  BY <1>2, <1>3 DEF Parts, CallTyped
<1>4. CASE rc = "XST_SUCCESS"
  <2>1. Success(<<>>) /\ UNCHANGED <<host, line, sts, moved>>
    BY <1>2, <1>4, Zenon DEF Started, hostVars
  <2>2. todo \in Seq(Item)
    BY DEF Parts
  <2>3. EndOf(todo)
    BY <2>2 DEF EndOf
  <2>4. todo' = <<>>
    BY <2>1, <2>2, <2>3, EndGoesOn
  <2>5. QED
    BY <1>2, <1>4, <2>1, <2>4
<1>5. QED
  BY <1>3, <1>4

-----------------------------------------------------------------------------
(* From one stage of a transfer to the next                                *)

Going ==
    \/ todo = <<>> \/ Refusable \/ Checking
    \/ ~drv.busy /\ (Preparing \/ Moving \/ NotStarted)

Moved == <<"user", call.blocks * 512>> \in moved

\* What every step of a transfer leaves
Outcome ==
    /\ call' = call /\ overdue' = overdue /\ OwnLines' /\ Going'
    /\ drv'.busy => overdue \/ OwnEnd'
    /\ (todo' = <<>> /\ rc' = "XST_SUCCESS" /\ ~Starting) => overdue \/ Moved'

\* A step that ends the call with a failure
LEMMA EndsBadly ==
    ASSUME call' = call, overdue' = overdue, OwnLines',
           drv'.busy => overdue \/ OwnEnd', todo' = <<>>, rc' # "XST_SUCCESS"
    PROVE  Outcome
  BY DEF Outcome, Going

\* The lines stay as they are
LEMMA LinesKept ==
    ASSUME UNCHANGED <<host, line, moved>>, call' = call, overdue' = overdue
    PROVE  /\ OwnLines => OwnLines'
           /\ OnBus' = OnBus
           /\ (sts' \subseteq sts) => (OwnEnd => OwnEnd')
<1>1. OnBus' = OnBus /\ Settings' = Settings /\ NoAddress' = NoAddress
  BY DEF OnBus, Carries, Settings, BufferSet, NoAddress
<1>2. OwnLines => OwnLines'
  BY <1>1 DEF OwnLines
<1>3. (sts' \subseteq sts) => (OwnEnd => OwnEnd')
  BY DEF OwnEnd
<1>4. QED
  BY <1>1, <1>2, <1>3

\* The block length if it has to be set, then the rest
LEMMA BlkSizeEnds ==
    ASSUME NEW rest \in Seq(Item), Len(rest) > 0, NEW c, todo' = If(c, SetBlkSize) \o rest
    PROVE  EndOf(SetBlkSize \o rest)' /\ Len(todo') >= Len(rest)
<1> DEFINE s == SetBlkSize
           u == s \o rest
<1>1. BlkSizeFirst(u) /\ Len(u) = 5 + Len(rest) /\ \A i \in 1 .. Len(rest) : u[5 + i] = rest[i]
  BY BlkSizeThen
<1>2. todo' = u \/ todo' = <<>> \o rest
  BY DEF If
<1> HIDE DEF s
<1>3. <<>> \o rest = rest
  BY ConcatEmptySeq
<1> HIDE DEF u
<1>4. u \in Seq(Item) /\ Len(rest) \in Nat
  BY <1>1 DEF BlkSizeFirst
<1>5. CASE todo' = u
  <2>1. Len(u) > 0
    BY <1>1, <1>4
  <2>2. EndOf(u)' /\ Len(todo') = Len(u)
    BY <1>4, <1>5, <2>1, WholeEnd
  <2>3. QED
    BY <1>1, <1>4, <2>2 DEF u, s
<1>6. CASE todo' = rest
  <2>1. Len(todo') \in 1 .. Len(u)
    BY <1>1, <1>4, <1>6
  <2>2. Len(u) - Len(todo') = 5
    BY <1>1, <1>4, <1>6
  <2>3. ASSUME NEW i \in 1 .. Len(todo') PROVE todo'[i] = u[Len(u) - Len(todo') + i]
    BY <1>1, <1>6, <2>2
  <2>4. EndOf(u)'
    BY <2>1, <2>3 DEF EndOf
  <2>5. QED
    BY <1>4, <1>6, <2>4 DEF u, s
<1>7. QED
  BY <1>2, <1>3, <1>5, <1>6

\* The call is refused, or goes on
LEMMA RefusableStep ==
    ASSUME Parts, DriverStep, Refusable, OwnLines, drv.busy => overdue \/ OwnEnd
    PROVE  Outcome
<1>1. PICK dir \in {"read", "write"}, n \in BlkCnts :
        /\ drv.busy \/ (n = call.blocks /\ (overdue \/ ~OnBus))
        /\ todo = Polled(dir, n) \/ (todo = StartTransfer(dir, n) /\ Starting)
  BY Zenon DEF Refusable
<1> DEFINE p == Polled(dir, n)
           q == StartTransfer(dir, n)
<1>2. /\ p \in Seq(Item) /\ Len(p) = 3 /\ p[1] = <<"SetupTransfer">>
      /\ p[2] = <<"ReadOrWrite", dir, n>> /\ p[3] = <<"CheckTransferDone">>
  BY PolledItems
<1>3. q \in Seq(Item) /\ Len(q) = 2 /\ q[1] = <<"SetupTransfer">> /\ q[2] = <<"StartIt", dir, n>>
  BY StartItems
<1>4. todo = p \/ (todo = q /\ Starting)
  BY <1>1
<1> HIDE DEF p, q
<1>5. /\ todo \in Seq(Item) /\ todo # <<>> /\ Len(todo) \in {2, 3} /\ Head(todo) = <<"SetupTransfer">>
      /\ \A i \in 2 .. Len(todo) : todo[i][1] \notin Handlers
  <2>1. CASE todo = p
    <3>1. p[2][1] \notin Handlers /\ p[3][1] \notin Handlers
      BY <1>2 DEF Handlers
    <3>2. \A i \in 2 .. Len(p) : p[i][1] \notin Handlers
      BY <1>2, <3>1
    <3>3. Head(p) = p[1] /\ p # <<>>
      BY <1>2, HeadOf
    <3>4. QED
      BY <1>2, <2>1, <3>2, <3>3
  <2>2. CASE todo = q
    <3>1. q[2][1] \notin Handlers
      BY <1>3 DEF Handlers
    <3>2. \A i \in 2 .. Len(q) : q[i][1] \notin Handlers
      BY <1>3, <3>1
    <3>3. Head(q) = q[1] /\ q # <<>>
      BY <1>3, HeadOf
    <3>4. QED
      BY <1>3, <2>2, <3>2, <3>3
  <2>3. QED
    BY <1>4, <2>1, <2>2
<1>6. SetupTransfer /\ call' = call /\ overdue' = overdue
  <2>1. Head(todo)[1] = "SetupTransfer"
    BY <1>5
  <2>2. QED
    BY <2>1, HeadStep, Zenon
<1>7. UNCHANGED <<host, line, sts, moved, drv>>
      /\ (Failure("XST_FAILURE") \/ (~drv.busy /\ Success(If(host.blksz # 512, SetBlkSize))))
  BY <1>6, Zenon DEF SetupTransfer, hostVars
<1>8. OwnLines' /\ OnBus' = OnBus /\ (drv'.busy => overdue \/ OwnEnd')
  BY <1>6, <1>7, LinesKept
<1>9. CASE Failure("XST_FAILURE")
  <2>1. todo' = <<>> /\ rc' # "XST_SUCCESS"
    BY <1>5, <1>9, FailureSeq
  <2>2. QED
    BY <1>6, <1>8, <2>1, EndsBadly
<1>10. ASSUME ~drv.busy, Success(If(host.blksz # 512, SetBlkSize)) PROVE Outcome
  <2>1. n = call.blocks /\ (overdue \/ ~OnBus)
    BY <1>1, <1>10
  <2> DEFINE c == host.blksz # 512
  <2> DEFINE u == Tail(todo)
  <2>10. u \in Seq(Item) /\ Len(u) = Len(todo) - 1
    BY <1>5, TailOf
  <2> HIDE DEF u
  <2>11. PICK rest \in Seq(Item) : rest = u
    BY <2>10
  <2>3. rest = Tail(todo) /\ Len(rest) = Len(todo) - 1
    BY <2>10, <2>11 DEF u
  <2>2. todo' = If(c, SetBlkSize) \o rest
    BY <1>10, <2>3, Zenon DEF Success
  <2>4. EndOf(SetBlkSize \o rest)' /\ Len(todo') >= Len(rest)
    <3>1. Len(rest) > 0
      BY <1>5, <2>3
    <3>2. PICK d : d = c
      OBVIOUS
    <3>3. todo' = If(d, SetBlkSize) \o rest
      BY <2>2, <3>2
    <3>4. QED
      BY <3>1, <3>3, BlkSizeEnds
  <2>5. overdue' \/ ~OnBus'
    BY <1>6, <1>8, <2>1
  <2>6. call'.blocks = n /\ (Starting => Starting') /\ drv'.busy = drv.busy
    BY <1>6, <1>7, <2>1 DEF Starting
  <2>7. Preparing'
    <3>1. CASE todo = p
      <4>1. rest = Tail(Polled(dir, n)) /\ Len(todo') >= 2
        <5>1. Len(rest) = 2 /\ Len(todo') \in Nat
          BY <1>2, <2>3, <2>4, <3>1 DEF EndOf
        <5>2. QED
          BY <2>3, <2>4, <3>1, <5>1 DEF p
      <4>2. EndOf(SetBlkSize \o Tail(Polled(dir, call.blocks)))' /\ Len(todo') >= 2
        BY <2>4, <2>6, <4>1, Zenon
      <4>3. QED
        BY <2>5, <4>2, Zenon DEF Preparing
    <3>2. CASE todo = q /\ Starting
      <4>1. rest = Tail(StartTransfer(dir, n))
        BY <2>3, <3>2 DEF q
      <4>2. EndOf(SetBlkSize \o Tail(StartTransfer(dir, call.blocks)))' /\ Starting'
        BY <2>4, <2>6, <3>2, <4>1, Zenon
      <4>3. QED
        BY <2>5, <4>2, Zenon DEF Preparing
    <3>3. QED
      BY <1>4, <3>1, <3>2
  <2>8. todo' # <<>>
    BY <2>4 DEF EndOf
  <2>9. QED
    BY <1>6, <1>8, <1>10, <2>6, <2>7, <2>8 DEF Outcome, Going
<1>11. QED
  BY <1>7, <1>9, <1>10

ReadOrWriteNext(dir, n, then) ==
    /\ n \in BlkCnts /\ n = call.blocks /\ (then = "Started" => Starting)
    /\ Len(todo) = 2 /\ todo[1] = <<"ReadOrWrite", dir, n>> /\ todo[2] = <<then>>

\* The data command is put together, or refused
LEMMA ReadOrWriteOutcome ==
    ASSUME Parts, DriverStep, ~drv.busy, drv.blk = 512, OwnLines, overdue \/ ~OnBus,
           NEW dir \in {"read", "write"}, NEW n,
           NEW then \in {"CheckTransferDone", "Started"}, ReadOrWriteNext(dir, n, then)
    PROVE  Outcome
<1>10. n \in BlkCnts /\ n = call.blocks /\ (then = "Started" => Starting)
  BY DEF ReadOrWriteNext
<1>11. Len(todo) = 2 /\ todo[1] = <<"ReadOrWrite", dir, n>> /\ todo[2] = <<then>>
  BY Zenon DEF ReadOrWriteNext
<1>1. todo \in Seq(Item) /\ Head(todo) = todo[1]
  BY <1>11, HeadOf DEF Parts
<1>2. ReadOrWrite /\ call' = call /\ overdue' = overdue
  <2>1. Head(todo)[1] = "ReadOrWrite"
    BY <1>1, <1>11
  <2>2. QED
    BY <2>1, HeadStep, Zenon
<1>3. UNCHANGED <<host, line, sts, moved, drv>>
  BY <1>2, Zenon DEF ReadOrWrite, hostVars
<1>4. OwnLines' /\ OnBus' = OnBus /\ ~drv'.busy /\ (drv'.busy => overdue \/ OwnEnd')
  BY <1>2, <1>3, LinesKept
<1>5. \/ then = "CheckTransferDone" /\ todo' = <<>> /\ rc' # "XST_SUCCESS"
      \/ then = "Started" /\ todo' = Only("Started") /\ rc' # "XST_SUCCESS"
      \/ /\ n < U16 /\ Len(todo') = 5
         /\ \E cmd \in DataCmds : EndOf(Data(cmd, n, then))'
  BY <1>1, <1>2, <1>10, <1>11, ReadOrWriteStep
<1>6. CASE todo' = <<>> /\ rc' # "XST_SUCCESS"
  BY <1>2, <1>4, <1>6, EndsBadly
<1>7. CASE todo' = Only("Started") /\ rc' # "XST_SUCCESS"
  <2>1. NotStarted'
    BY <1>7 DEF NotStarted
  <2>2. QED
    BY <1>2, <1>4, <1>7, <2>1 DEF Outcome, Going
<1>8. ASSUME n < U16, Len(todo') = 5, NEW cmd \in DataCmds, EndOf(Data(cmd, n, then))'
      PROVE  Outcome
  <2>1. call'.blocks = n /\ (Starting => Starting') /\ (overdue' \/ ~OnBus')
    BY <1>2, <1>4, <1>10 DEF Starting
  <2>2. EndOf(Data(cmd, call.blocks, then))'
    BY <1>8, <2>1, Zenon
  <2>3. overdue' \/ /\ Len(todo') >= 3 => ~OnBus'
                    /\ Len(todo') = 4 => BufferSet'
                    /\ Len(todo') = 3 => Settings'
                    /\ Len(todo') <= 3 => OwnEnd'
    BY <1>8, <2>1
  <2>4. call'.blocks < U16 /\ (then = "Started" => Starting')
    BY <1>8, <1>10, <2>1
  <2>5. Moving'
    BY <2>2, <2>3, <2>4, Zenon DEF Moving
  <2>6. todo' # <<>>
    BY <1>8
  <2>7. QED
    BY <1>2, <1>4, <2>5, <2>6 DEF Outcome, Going
<1>9. QED
  BY <1>5, <1>6, <1>7, <1>8

\* One step further in setting the block length
LEMMA SetOutcome ==
    ASSUME Parts, DriverStep, ~drv.busy, OwnLines, overdue \/ ~OnBus,
           NEW t, BlkSizeFirst(t), EndOf(t),
           Len(todo) > Len(t) - 5, \A i \in 2 .. Len(t) : t[i][1] \notin Handlers,
           (call' = call /\ overdue' = overdue /\ (overdue' \/ ~OnBus') /\ EndOf(t)'
                   /\ Len(todo') = Len(todo) - 1) => Preparing'
    PROVE  Outcome
<1>1. /\ ~drv'.busy /\ call' = call
      /\ \/ todo' = <<>> /\ rc' # "XST_SUCCESS"
         \/ Len(todo') = Len(todo) - 1 /\ EndOf(t)'
      /\ ~OnBus => ~OnBus'
      /\ NoAddress => NoAddress'
  BY SetStep
<1>2. overdue' = overdue
  BY HeadStep
<1>3. overdue' \/ ~OnBus'
  BY <1>1, <1>2
<1>4. OwnLines'
  BY <1>1, <1>2, <1>3 DEF OwnLines
<1>5. CASE todo' = <<>> /\ rc' # "XST_SUCCESS"
  BY <1>1, <1>2, <1>4, <1>5, EndsBadly
<1>6. CASE Len(todo') = Len(todo) - 1 /\ EndOf(t)'
  <2>1. Preparing'
    BY <1>1, <1>2, <1>3, <1>6
  <2>2. todo' # <<>>
    BY <1>6 DEF EndOf
  <2>3. QED
    BY <1>1, <1>2, <1>4, <2>1, <2>2 DEF Outcome, Going
<1>7. QED
  BY <1>1, <1>5, <1>6

LEMMA BlkSizeNoHandlers ==
    ASSUME NEW t, BlkSizeFirst(t), \A i \in 6 .. Len(t) : t[i][1] \notin Handlers
    PROVE  \A i \in 2 .. Len(t) : t[i][1] \notin Handlers
<1>1. t[2][1] \notin Handlers /\ t[3][1] \notin Handlers /\ t[4][1] \notin Handlers
      /\ t[5][1] \notin Handlers
  BY DEF BlkSizeFirst, Handlers
<1>2. QED
  BY <1>1 DEF BlkSizeFirst

\* The block length, then the transfer
LEMMA PreparingStep ==
    ASSUME Parts, DriverStep, ~drv.busy, drv.blk = 512, Preparing, OwnLines,
           call.blocks \in BlkCnts
    PROVE  Outcome
<1>1. PICK n \in BlkCnts : n = call.blocks
  OBVIOUS
<1>2. PICK dir \in {"read", "write"} :
         \/ EndOf(SetBlkSize \o Tail(Polled(dir, n))) /\ Len(todo) >= 2
         \/ EndOf(SetBlkSize \o Tail(StartTransfer(dir, n))) /\ Starting
         \/ todo = << <<"ReadOrWrite", dir, n>>, <<"Started">> >> /\ Starting
  BY <1>1, Zenon DEF Preparing
<1>3. (overdue \/ ~OnBus) /\ todo \in Seq(Item)
  BY DEF Preparing, Parts
<1> DEFINE p == SetBlkSize \o Tail(Polled(dir, n))
           q == SetBlkSize \o Tail(StartTransfer(dir, n))
<1>12. PolledSeq(p, dir, n) /\ StartSeq(q, dir, n)
  BY PolledSet, StartSet, Zenon
<1>6. (call' = call /\ (overdue' \/ ~OnBus') /\ EndOf(p)' /\ Len(todo') >= 2) => Preparing'
  <2>1. SUFFICES ASSUME call' = call, overdue' \/ ~OnBus', EndOf(p)', Len(todo') >= 2
                 PROVE  Preparing'
    OBVIOUS
  <2>2. EndOf(SetBlkSize \o Tail(Polled(dir, call.blocks)))'
    BY <1>1, <2>1, Zenon
  <2>3. QED
    BY <2>1, <2>2, Zenon DEF Preparing
<1>7. (call' = call /\ (overdue' \/ ~OnBus') /\ EndOf(q)' /\ Starting) => Preparing'
  <2>1. SUFFICES ASSUME call' = call, overdue' \/ ~OnBus', EndOf(q)', Starting
                 PROVE  Preparing'
    OBVIOUS
  <2>2. EndOf(SetBlkSize \o Tail(StartTransfer(dir, call.blocks)))' /\ Starting'
    BY <1>1, <2>1, Zenon DEF Starting
  <2>3. QED
    BY <2>1, <2>2, Zenon DEF Preparing
<1> HIDE DEF p, q
<1>4. /\ BlkSizeFirst(p) /\ Len(p) = 7
      /\ p[6] = <<"ReadOrWrite", dir, n>> /\ p[7] = <<"CheckTransferDone">>
  BY <1>12, Zenon DEF PolledSeq
<1>5. BlkSizeFirst(q) /\ Len(q) = 6 /\ q[6] = <<"StartIt", dir, n>>
  BY <1>12, Zenon DEF StartSeq
<1>8. CASE EndOf(p) /\ Len(todo) >= 2
  <2>1. p \in Seq(Item) /\ Len(todo) \in 2 .. 7
    BY <1>3, <1>4, <1>8 DEF BlkSizeFirst, EndOf
  <2>2. CASE Len(todo) > 2
    <3>1. Len(todo) > Len(p) - 5 /\ Len(todo) - 1 >= 2
      BY <1>4, <2>1, <2>2
    <3>2. p[6][1] \notin Handlers /\ p[7][1] \notin Handlers
      BY <1>4 DEF Handlers
    <3>3. \A i \in 6 .. Len(p) : p[i][1] \notin Handlers
      BY <1>4, <3>2
    <3>4. \A i \in 2 .. Len(p) : p[i][1] \notin Handlers
      BY ZenonT(60), <1>4, <3>3, BlkSizeNoHandlers
    <3>5. (call' = call /\ overdue' = overdue /\ (overdue' \/ ~OnBus') /\ EndOf(p)'
             /\ Len(todo') = Len(todo) - 1) => Preparing'
      BY <1>6, <3>1
    <3>6. QED
      BY <1>3, <1>4, <1>8, <3>1, <3>4, <3>5, SetOutcome
  <2>3. CASE Len(todo) = 2
    <3>1. todo[1] = p[6] /\ todo[2] = p[7]
      <4>1. \A i \in 1 .. Len(todo) : todo[i] = p[Len(p) - Len(todo) + i]
        BY <1>8 DEF EndOf
      <4>2. todo[1] = p[7 - 2 + 1] /\ todo[2] = p[7 - 2 + 2]
        BY <1>4, <2>3, <4>1
      <4>3. 7 - 2 + 1 = 6 /\ 7 - 2 + 2 = 7
        OBVIOUS
      <4>4. QED
        BY ZenonT(60), <4>2, <4>3
    <3>2. todo[1] = <<"ReadOrWrite", dir, n>> /\ todo[2] = <<"CheckTransferDone">>
      BY <1>4, <3>1, Zenon
    <3>3. "CheckTransferDone" # "Started"
      OBVIOUS
    <3>4. ReadOrWriteNext(dir, n, "CheckTransferDone")
      BY <1>1, <2>3, <3>2, <3>3, Zenon DEF ReadOrWriteNext
    <3>5. PICK then \in {"CheckTransferDone", "Started"} : then = "CheckTransferDone"
      OBVIOUS
    <3>6. ReadOrWriteNext(dir, n, then)
      BY <3>4, <3>5, Zenon
    <3>7. QED
      BY <1>3, <3>6, ReadOrWriteOutcome
  <2>4. Len(todo) > 2 \/ Len(todo) = 2
    <3> DEFINE k == Len(todo)
    <3>1. k \in 2 .. 7
      BY <2>1
    <3> HIDE DEF k
    <3>2. k > 2 \/ k = 2
      BY <3>1
    <3>3. QED
      BY <3>2 DEF k
  <2>5. QED
    BY <2>2, <2>3, <2>4, Zenon
<1>9. CASE EndOf(q) /\ Starting
  <2>1. q \in Seq(Item) /\ Len(todo) \in 1 .. 6
    BY <1>3, <1>5, <1>9 DEF BlkSizeFirst, EndOf
  <2>2. CASE Len(todo) > 1
    <3>1. Len(todo) > Len(q) - 5
      BY <1>5, <2>1, <2>2
    <3>2. q[6][1] \notin Handlers
      BY <1>5 DEF Handlers
    <3>3. \A i \in 6 .. Len(q) : q[i][1] \notin Handlers
      BY <1>5, <3>2
    <3>4. \A i \in 2 .. Len(q) : q[i][1] \notin Handlers
      BY SMTT(30), <1>5, <3>3, BlkSizeNoHandlers
    <3>5. QED
      BY <1>3, <1>5, <1>7, <1>9, <3>1, <3>4, SetOutcome
  <2>3. CASE Len(todo) = 1
    <3>1. Head(todo) = <<"StartIt", dir, n>>
      <4>1. Head(todo) = q[Len(q) - Len(todo) + 1]
        BY <1>3, <1>9, <2>1, EndHead
      <4>2. Len(q) - Len(todo) + 1 = 6
        BY <1>5, <2>3
      <4>3. QED
        BY <1>5, <4>1, <4>2, Zenon
    <3>2. StartIt /\ call' = call /\ overdue' = overdue
      <4>1. Head(todo)[1] = "StartIt"
        BY <3>1
      <4>2. QED
        BY <4>1, HeadStep, Zenon
    <3>3. UNCHANGED <<host, line, sts, moved, drv>>
      BY <3>2, Zenon DEF StartIt, hostVars
    <3>4. OwnLines' /\ OnBus' = OnBus
      BY <3>2, <3>3, LinesKept
    <3>5. Arg(1) = dir /\ Arg(2) = n
      BY <3>1 DEF Arg
    <3>6. Tail(todo) = <<>>
      <4> DEFINE u == Tail(todo)
      <4>1. u \in Seq(Item) /\ Len(u) = Len(todo) - 1
        BY <1>3, <2>3, TailOf
      <4> HIDE DEF u
      <4>2. u = <<>>
        BY <2>3, <4>1, EmptySeq
      <4>3. QED
        BY <4>2 DEF u
    <3>7. todo' = << <<"ReadOrWrite", dir, n>>, <<"Started">> >>
      <4> DEFINE x == <<"ReadOrWrite", dir, n>>
                 y == <<"Started">>
      <4>1. todo' = (<<x>> \o <<y>>) \o <<>>
        BY <3>2, <3>5, <3>6, Zenon DEF StartIt, Success, Only
      <4> HIDE DEF x, y
      <4>2. <<x>> \o <<y>> = <<x, y>> /\ <<x, y>> \o <<>> = <<x, y>>
        <5>1. <<x>> \o <<y>> = <<x, y>>
          BY Joined
        <5>2. <<x, y>> \in Seq({x, y})
          OBVIOUS
        <5>3. QED
          BY <5>1, <5>2, ConcatEmptySeq
      <4>3. QED
        BY <4>1, <4>2, Zenon DEF x, y
    <3>8. call'.blocks = n /\ Starting' /\ (overdue' \/ ~OnBus')
      BY <1>1, <1>3, <1>9, <3>2, <3>4 DEF Starting
    <3>9. Preparing'
      BY <3>7, <3>8, Zenon DEF Preparing
    <3>10. todo' # <<>>
      BY <3>7
    <3>11. ~drv'.busy
      BY <3>3
    <3>12. Going'
      BY <3>9, <3>11, Zenon DEF Going
    <3>13. QED
      BY <3>2, <3>4, <3>10, <3>11, <3>12 DEF Outcome
  <2>4. Len(todo) > 1 \/ Len(todo) = 1
    <3> DEFINE k == Len(todo)
    <3>1. k \in 1 .. 6
      BY <2>1
    <3> HIDE DEF k
    <3>2. k > 1 \/ k = 1
      BY <3>1
    <3>3. QED
      BY <3>2 DEF k
  <2>5. QED
    BY <2>2, <2>3, <2>4, Zenon
<1>10. CASE todo = << <<"ReadOrWrite", dir, n>>, <<"Started">> >> /\ Starting
  <2>1. Len(todo) = 2 /\ todo[1] = <<"ReadOrWrite", dir, n>> /\ todo[2] = <<"Started">>
    <3> DEFINE x == <<"ReadOrWrite", dir, n>>
               y == <<"Started">>
    <3>1. todo = <<x, y>>
      BY <1>10
    <3> HIDE DEF x, y
    <3>2. Len(todo) = 2 /\ todo[1] = x /\ todo[2] = y
      BY <3>1
    <3>3. QED
      BY <3>2, Zenon DEF x, y
  <2>2. ReadOrWriteNext(dir, n, "Started")
    BY <1>1, <1>10, <2>1, Zenon DEF ReadOrWriteNext
  <2>3. QED
    BY <1>3, <2>2, ReadOrWriteOutcome
<1>11. QED
  BY <1>2, <1>8, <1>9, <1>10 DEF p, q

\* The data command goes on its way, and its answer or its data is awaited
LEMMA MovingStep ==
    ASSUME Parts, DriverStep, ~drv.busy, Moving, OwnLines, call.blocks \in BlkCnts
    PROVE  call'.blocks = 0 \/ Outcome
<1>1. PICK n \in BlkCnts : n = call.blocks
  OBVIOUS
<1>2. PICK cmd \in DataCmds, then \in {"CheckTransferDone", "Started"} :
        /\ n < U16 /\ EndOf(Data(cmd, n, then)) /\ (then = "Started" => Starting)
        /\ Progress(Len(todo))
  BY <1>1, Zenon DEF Moving, Progress
<1>3. todo \in Seq(Item)
  BY DEF Parts
<1>4. /\ todo # <<>> /\ Len(todo) \in 1 .. 5
      /\ Len(todo) = 1 => Head(todo) = <<then>>
  BY <1>2, <1>3, DataHead
<1>5. overdue' = overdue
  BY HeadStep
<1>6. CASE Len(todo) > 1
  <2>1. /\ ~drv'.busy /\ call' = call /\ OwnLines'
        /\ \/ todo' = <<>> /\ rc' # "XST_SUCCESS"
           \/ todo' = Only("Started") /\ rc' # "XST_SUCCESS"
           \/ EndOf(Data(cmd, n, then))' /\ Progress(Len(todo))'
    BY <1>1, <1>2, <1>6, MoveStep
  <2>2. CASE todo' = <<>> /\ rc' # "XST_SUCCESS"
    BY <1>5, <2>1, <2>2, EndsBadly
  <2>3. CASE todo' = Only("Started") /\ rc' # "XST_SUCCESS"
    <3>1. NotStarted' /\ todo' # <<>>
      BY <2>3 DEF NotStarted, Only
    <3>2. Going'
      BY <2>1, <3>1, Zenon DEF Going
    <3>3. QED
      BY <1>5, <2>1, <3>1, <3>2 DEF Outcome
  <2>4. CASE EndOf(Data(cmd, n, then))' /\ Progress(Len(todo))'
    <3>1. call'.blocks = n /\ (then = "Started" => Starting')
      BY <1>1, <1>2, <2>1 DEF Starting
    <3>2. EndOf(Data(cmd, call.blocks, then))' /\ call'.blocks < U16
      BY <1>2, <2>4, <3>1, Zenon
    <3>3. Moving'
      BY <2>4, <3>1, <3>2, Zenon DEF Moving, Progress
    <3>4. Going'
      BY <2>1, <3>3, Zenon DEF Going
    <3>5. todo' # <<>>
      BY <2>4 DEF EndOf
    <3>6. QED
      BY <1>5, <2>1, <3>4, <3>5 DEF Outcome
  <2>5. QED
    BY <2>1, <2>2, <2>3, <2>4
<1>7. CASE Len(todo) = 1
  <2>1. overdue \/ OwnEnd
    BY <1>2, <1>7 DEF Progress
  <2>2. CASE then = "CheckTransferDone"
    <3>1. /\ ~drv'.busy /\ call' = call /\ OwnLines' /\ todo' = <<>>
          /\ (rc' = "XST_SUCCESS" /\ ~overdue) => <<"user", n * 512>> \in moved'
      <4>1. Head(todo) = <<"CheckTransferDone">>
        BY <1>4, <1>7, <2>2, Zenon
      <4>2. QED
        BY <1>1, <1>3, <1>4, <1>7, <2>1, <4>1, DoneStep
    <3>2. (rc' = "XST_SUCCESS" /\ ~overdue) => Moved'
      BY <1>1, <3>1, Zenon DEF Moved
    <3>3. QED
      BY <1>5, <3>1, <3>2 DEF Outcome, Going
  <2>3. CASE then = "Started"
    <3>1. Head(todo) = <<"Started">>
      BY <1>4, <1>7, <2>3, Zenon
    <3>2. \/ call'.blocks = 0
          \/ /\ rc = "XST_SUCCESS" /\ call' = call /\ todo' = <<>>
             /\ UNCHANGED <<host, line, sts, moved>>
      BY <1>4, <1>7, <3>1, StartedStep
    <3>3. CASE call' = call /\ todo' = <<>> /\ UNCHANGED <<host, line, sts, moved>>
      <4>1. OwnLines' /\ (OwnEnd => OwnEnd')
        BY <1>5, <3>3, LinesKept
      <4>2. Starting
        BY <1>2, <2>3
      <4>3. QED
        BY <1>5, <2>1, <3>3, <4>1, <4>2 DEF Outcome, Going
    <3>4. QED
      BY <3>2, <3>3
  <2>4. QED
    BY <2>2, <2>3
<1>8. Len(todo) > 1 \/ Len(todo) = 1
  <2> DEFINE k == Len(todo)
  <2>1. k \in 1 .. 5
    BY <1>4
  <2> HIDE DEF k
  <2>2. k > 1 \/ k = 1
    BY <2>1
  <2>3. QED
    BY <2>2 DEF k
<1>9. QED
  BY <1>6, <1>7, <1>8, Zenon

\* A call with one step
LEMMA OnlyStep ==
    ASSUME NEW f, todo = Only(f)
    PROVE  todo # <<>> /\ Head(todo) = <<f>> /\ Head(todo)[1] = f /\ Len(todo) = 1 /\ Tail(todo) = <<>>
<1> DEFINE x == <<f>>
<1>1. x[1] = f /\ todo = <<x>>
  BY DEF Only
<1> HIDE DEF x
<1>2. todo # <<>> /\ Head(todo) = x /\ Len(todo) = 1 /\ Tail(todo) = <<>>
  BY <1>1
<1>3. QED
  BY <1>1, <1>2, Zenon DEF x

\* It is refused, or failed
LEMMA NotStartedStep ==
    ASSUME Parts, DriverStep, NotStarted
    PROVE  call'.blocks = 0
<1>1. todo # <<>> /\ Head(todo) = <<"Started">> /\ Len(todo) = 1 /\ rc # "XST_SUCCESS"
  BY OnlyStep DEF NotStarted
<1>2. QED
  BY <1>1, StartedStep

\* A look at the transfer that was started
LEMMA CheckingStep ==
    ASSUME Parts, DriverStep, Checking, drv.ready, OwnLines, drv.busy => overdue \/ OwnEnd,
           call.blocks \in BlkCnts
    PROVE  Outcome
<1>1. todo \in Seq(Item) /\ todo # <<>> /\ overdue' = overdue /\ DrvTyped(drv)
  BY HeadStep DEF Parts
<1>2. CASE todo = Only("CfgInitialize")
  <2>1. Head(todo)[1] = "CfgInitialize"
    BY <1>2, OnlyStep
  <2>2. CfgInitialize /\ call' = call
    BY <2>1, HeadStep, Zenon
  <2>3. /\ todo' = <<>> /\ rc' # "XST_SUCCESS"
        /\ UNCHANGED <<host, line, sts, moved, drv>>
    BY <2>2 DEF CfgInitialize, CallEnds, hostVars
  <2>4. OwnLines' /\ (drv'.busy => overdue \/ OwnEnd')
    BY <1>1, <2>2, <2>3, LinesKept
  <2>5. QED
    BY <1>1, <2>2, <2>3, <2>4, EndsBadly
<1>3. CASE todo = Only("CheckTransferComplete")
  <2>1. Head(todo)[1] = "CheckTransferComplete" /\ Tail(todo) = <<>> /\ Len(todo) = 1
    BY <1>3, OnlyStep
  <2>2. CheckTransferComplete /\ call' = call
    BY <2>1, HeadStep, Zenon
  <2>3. /\ UNCHANGED <<host, line, moved>>
        /\ \/ (Failure("XST_FAILURE") \/ CallEnds("XST_DEVICE_BUSY")) /\ UNCHANGED <<sts, drv>>
           \/ /\ drv.busy /\ "TC" \in sts /\ Success(<<>>)
              /\ sts' = sts \ {"TC"} /\ drv' = [drv EXCEPT !.busy = FALSE]
    BY <2>2, Zenon DEF CheckTransferComplete
  <2>4. OwnLines' /\ (sts' \subseteq sts => (OwnEnd => OwnEnd'))
    BY <1>1, <2>2, <2>3, LinesKept
  <2>5. CASE (Failure("XST_FAILURE") \/ CallEnds("XST_DEVICE_BUSY")) /\ UNCHANGED <<sts, drv>>
    <3>1. todo' = <<>> /\ rc' # "XST_SUCCESS"
      <4>1. CASE Failure("XST_FAILURE")
        BY <1>1, <2>1, <4>1, FailureSeq
      <4>2. CASE CallEnds("XST_DEVICE_BUSY")
        BY <4>2 DEF CallEnds
      <4>3. QED
        BY <2>5, <4>1, <4>2
    <3>2. drv'.busy => overdue \/ OwnEnd'
      BY <2>4, <2>5
    <3>3. QED
      BY <1>1, <2>2, <2>4, <3>1, <3>2, EndsBadly
  <2>6. CASE /\ drv.busy /\ "TC" \in sts /\ Success(<<>>)
             /\ sts' = sts \ {"TC"} /\ drv' = [drv EXCEPT !.busy = FALSE]
    <3>1. ~drv'.busy
      BY <1>1, <2>6 DEF DrvTyped, DrvFields
    <3>2. todo' = <<>>
      <4>1. todo' = <<>> \o <<>>
        BY <2>1, <2>6, Zenon DEF Success
      <4>2. QED
        BY <4>1
    <3>3. overdue \/ Moved'
      BY <2>2, <2>3, <2>6 DEF OwnEnd, Moved
    <3>4. QED
      BY <1>1, <2>2, <2>4, <3>1, <3>2, <3>3 DEF Outcome, Going
  <2>7. QED
    BY <2>3, <2>5, <2>6
<1>4. QED
  BY <1>2, <1>3 DEF Checking

\* What the stage of a transfer says after a step, from Outcome
LEMMA OutcomeKept ==
    ASSUME call.blocks # 0, inited', call.api # "CardInitialize", Outcome
    PROVE  Stages' /\ OwnTransfer' /\ OwnData'
<1>1. call' = call /\ overdue' = overdue /\ OwnLines' /\ Going'
      /\ (drv'.busy => overdue \/ OwnEnd')
      /\ ((todo' = <<>> /\ rc' = "XST_SUCCESS" /\ ~Starting) => overdue \/ Moved')
  BY DEF Outcome
<1>2. Stages'
  <2>1. /\ inited' /\ call'.api # "CardInitialize"
        /\ \/ todo' = <<>> \/ Refusable' \/ Checking'
           \/ ~drv'.busy /\ (Preparing' \/ Moving' \/ NotStarted')
    BY <1>1, Zenon DEF Going
  <2>2. QED
    BY <2>1, Zenon DEF Stages
<1>3. OwnTransfer'
  BY <1>1, Zenon DEF OwnTransfer, OwnLines, NoAddress
<1>4. OwnData'
  <2>1. SUFFICES ASSUME Successful({"ReadPolled", "WritePolled", "CheckTransfer"})', ~overdue'
                 PROVE  Moved'
    BY DEF OwnData, Moved
  <2>2. todo' = <<>> /\ rc' = "XST_SUCCESS"
        /\ call'.api \in {"ReadPolled", "WritePolled", "CheckTransfer"}
    BY <2>1, Zenon DEF Successful, Returned
  <2>3. ~Starting
    BY <1>1, <2>2 DEF Starting
  <2>4. QED
    BY <1>1, <2>1, <2>2, <2>3
<1>5. QED
  BY <1>2, <1>3, <1>4

\* Nothing is said of a call the program waits for nothing of
LEMMA NothingAwaited ==
    ASSUME call'.blocks = 0
    PROVE  Stages' /\ OwnTransfer' /\ OwnData'
  BY DEF Stages, OwnTransfer, OwnData

LEMMA TransferKept ==
    ASSUME Parts, Configured, Stages, OwnTransfer, DriverStep
    PROVE  Stages' /\ OwnTransfer' /\ OwnData'
<1>1. todo # <<>> /\ (inited => inited') /\ (call' = call \/ call' = [call EXCEPT !.blocks = 0])
  BY HeadStep
<1>2. CASE call.blocks = 0
  <2>1. call'.blocks = 0
    BY <1>1, <1>2 DEF Parts, CallTyped
  <2>2. QED
    BY <2>1, NothingAwaited
<1>3. CASE call.blocks # 0
  <2>1. /\ inited /\ call.api # "CardInitialize"
        /\ \/ Refusable \/ Checking
           \/ ~drv.busy /\ (Preparing \/ Moving \/ NotStarted)
    BY <1>1, <1>3, Zenon DEF Stages
  <2>2. call.blocks \in BlkCnts
    BY <1>3 DEF Parts, CallTyped
  <2>3. OwnLines /\ (drv.busy => overdue \/ OwnEnd)
    BY <1>3, Zenon DEF OwnTransfer, OwnLines, NoAddress
  <2>4. drv.ready /\ drv.blk = 512
    BY <2>1 DEF Configured
  <2>5. call'.blocks = 0 \/ Outcome
    <3>1. CASE Refusable
      BY <2>3, <3>1, RefusableStep
    <3>2. CASE Checking
      BY <2>2, <2>3, <2>4, <3>2, CheckingStep
    <3>3. CASE ~drv.busy /\ Preparing
      BY <2>2, <2>3, <2>4, <3>3, PreparingStep
    <3>4. CASE ~drv.busy /\ Moving
      BY <2>2, <2>3, <3>4, MovingStep
    <3>5. CASE NotStarted
      BY <3>5, NotStartedStep
    <3>6. QED
      BY <2>1, <3>1, <3>2, <3>3, <3>4, <3>5, Zenon
  <2>6. QED
    BY <1>1, <1>3, <2>1, <2>5, NothingAwaited, OutcomeKept, Zenon
<1>4. QED
  BY <1>2, <1>3

-----------------------------------------------------------------------------
(* The invariant                                                           *)

LEMMA InvParts ==
    IInv <=> /\ Parts /\ Polling /\ OldIsOverdue /\ Initializing /\ Configured
             /\ Stages /\ OwnTransfer /\ OwnData
  BY TypedParts, Zenon DEF IInv

LEMMA InvPartsNext ==
    IInv' <=> /\ Parts' /\ Polling' /\ OldIsOverdue' /\ Initializing' /\ Configured'
              /\ Stages' /\ OwnTransfer' /\ OwnData'
  BY TypedPartsNext, Zenon DEF IInv

LEMMA NextInv ==
    ASSUME IInv, [Next]_vars PROVE IInv'
<1>1. /\ Parts /\ Polling /\ OldIsOverdue /\ Initializing /\ Configured
      /\ Stages /\ OwnTransfer /\ OwnData
  BY InvParts
<1>2. CASE Begin
  <2>1. CASE CheckTransfer
    BY <1>1, <2>1, CheckKept, InvPartsNext
  <2>2. ASSUME NEW api, NEW blocks, NEW body, Begun(api, blocks, body)
        PROVE  IInv'
    BY <1>1, <2>2, BegunKept, InvPartsNext
  <2>3. QED
    BY <1>2, <2>1, <2>2, BegunBy, Zenon
<1>3. CASE DriverStep
  <2>1. Parts' /\ Polling'
    BY <1>1, <1>3, DriverTypes
  <2>2. Initializing' /\ Configured'
    BY <1>1, <1>3, InitializingKept
  <2>3. OldIsOverdue'
    BY <1>1, <1>3, OldKept
  <2>4. Stages' /\ OwnTransfer' /\ OwnData'
    BY <1>1, <1>3, TransferKept
  <2>5. QED
    BY <2>1, <2>2, <2>3, <2>4, InvPartsNext, Zenon
<1>4. CASE BusMove
  BY <1>4, BusMoveKept
<1>5. CASE UNCHANGED vars
  <2>1. UNCHANGED <<host, line, sts, err, moved, faults, drv, todo, rc, count, call, calls,
                    inited, overdue>>
    BY <1>5, Zenon DEF vars, hostVars, cardVars, drvVars, callVars, ghosts
  <2>2. Parts'
    BY <1>1, <2>1 DEF Parts, Counts
  <2>3. Polling' /\ OldIsOverdue' /\ Initializing' /\ Configured'
    BY <1>1, <2>1 DEF Polling, OldIsOverdue, Initializing, Configured
  <2>4. /\ Settings' = Settings /\ BufferSet' = BufferSet /\ OnBus' = OnBus /\ OwnEnd' = OwnEnd
        /\ Starting' = Starting
    BY <2>1 DEF Settings, BufferSet, OnBus, Carries, OwnEnd, Starting
  <2>5. Refusable' = Refusable /\ Checking' = Checking /\ NotStarted' = NotStarted
        /\ Preparing' = Preparing /\ Moving' = Moving
    BY <2>1, <2>4 DEF Refusable, Checking, NotStarted, Preparing, Moving, EndOf
  <2>6. Stages' /\ OwnTransfer'
    BY <1>1, <2>1, <2>4, <2>5 DEF Stages, OwnTransfer
  <2>7. OwnData'
    BY <1>1, <2>1 DEF OwnData, Successful, Returned
  <2>8. QED
    BY <2>2, <2>3, <2>6, <2>7, InvPartsNext
<1>6. Begin \/ DriverStep \/ BusMove \/ UNCHANGED vars
  BY Zenon DEF Next, Begin, BusMove
<1>7. QED
  BY <1>2, <1>3, <1>4, <1>5, <1>6, Zenon

-----------------------------------------------------------------------------
(* Theorems                                                                *)

\* The parts of the invariant hold between any two steps: the driver is in a
\* known stage of its call, the controller and the lines are as that stage
\* needs them (SdInvariant).
THEOREM SdInvariantHolds == Spec => []IInv
<1>1. Init => IInv
  BY InitInvariant
<1>2. IInv /\ [Next]_vars => IInv'
  BY NextInv
<1>3. QED
  BY <1>1, <1>2, PTL DEF Spec

\* The fields of instance, controller, lines and status keep their types
\* (xsdps.h, XSdPs).
THEOREM SdTypes == Spec => []TypeOK
<1>1. IInv => TypeOK
  BY DEF IInv, Typed
<1>2. QED
  BY <1>1, SdInvariantHolds, PTL

\* XSdPs_ReadPolled, XSdPs_WritePolled and XSdPs_CheckTransferComplete report
\* success only when the whole of the caller's buffer has been moved by this
\* transfer, for any card, any number of calls, polls and faults, and any
\* block counts of less than 2^32 bytes.
THEOREM SdOwnData == Spec => []OwnData
<1>1. IInv => OwnData
  BY DEF IInv
<1>2. QED
  BY <1>1, SdInvariantHolds, PTL
=============================================================================
