------------------------------- MODULE SdInit -------------------------------
(***************************************************************************)
(* How the driver initializes a card: identification, enumeration, bus     *)
(* width, speed mode, tuning, block length.                                *)
(***************************************************************************)
EXTENDS SdDriver

-----------------------------------------------------------------------------
(* Tuning                                                                  *)

AutoTuning ==
    /\ At("AutoTuning")
    /\ Success(Only("TuningBlock"))
    /\ host' = [SetExecTuning(host) EXCEPT !.blksz = IF drv.width = 8 THEN 128 ELSE 64]
    /\ count' = MAX_TUNING
    /\ UNCHANGED <<line, sts, err, resp, moved, cardVars, board, drv>>

\* Mutant: one block too few
TuningBlockLess ==
    /\ At("TuningBlock")
    /\ IF count = MAX_TUNING \/ (host.exec /\ count > 1)
       THEN /\ Success(CmdTransfer(IF drv.type = Sd THEN "CMD19" ELSE "CMD21", "", 1)
                       \o Only("TuningBlock"))
            /\ count' = count - 1
       ELSE /\ IF host.samp THEN Success(<<>>) ELSE Failure("XST_FAILURE")
            /\ UNCHANGED count
    /\ UNCHANGED <<hostVars, cardVars, board, drv>>

\* At most MAX_TUNING blocks, until the controller has found the point
TuningBlock ==
    /\ At("TuningBlock")
    /\ IF count = MAX_TUNING \/ (host.exec /\ count > 0)
       THEN /\ Success(CmdTransfer(IF drv.type = Sd THEN "CMD19" ELSE "CMD21", "", 1)
                       \o Only("TuningBlock"))
            /\ count' = count - 1
       ELSE /\ IF host.samp THEN Success(<<>>) ELSE Failure("XST_FAILURE")
            /\ UNCHANGED count
    /\ UNCHANGED <<hostVars, cardVars, board, drv>>

Execute_Tuning == Only("DllReset") \o Only("AutoTuning") \o Only("DllReset")

-----------------------------------------------------------------------------
(* What the driver asks the card for (xsdps_options.c).                    *)

SetBlkSize ==
    << <<"CheckBusIdle", {"cmd", "dat"}>> >> \o CmdTransfer("CMD16", "512", 0)
      \o Only("BlkSizeSet")

BlkSizeSet ==
    /\ At("BlkSizeSet")
    /\ Success(<<>>)
    /\ host' = [host EXCEPT !.blksz = 512]
    /\ drv' = [drv EXCEPT !.blk = 512]
    /\ UNCHANGED <<line, sts, err, resp, moved, cardVars, board, count>>

\* Application command
AppCmd(cmd, arg) == CmdTransfer("CMD55", "", 0) \o CmdTransfer(cmd, arg, 0)

\* Reads into a buffer it has zeroed
Get(buffer) ==
    /\ moved' = {m \in moved : m[1] # buffer}
    /\ UNCHANGED <<host, line, sts, err, resp, cardVars, board, drv, count>>

Get_BusWidth ==
    /\ At("Get_BusWidth")
    /\ Success(CmdTransfer("CMD55", "", 0) \o ReadCmd("ACMD51", "", "SCR", 1, 8))
    /\ Get("SCR")

Get_BusSpeed ==
    /\ At("Get_BusSpeed")
    /\ Success(ReadCmd("CMD6", "GET", "SWITCH", 1, 64))
    /\ Get("SWITCH")

Get_Mmc_ExtCsd ==
    /\ At("Get_Mmc_ExtCsd")
    /\ Success(ReadCmd("CMD8", "", "EXT_CSD", 1, 512))
    /\ Get("EXT_CSD")

Get_Status == CmdTransfer("CMD55", "", 0) \o ReadCmd("ACMD13", "", "STATUS", 1, 64)

\* The card's timing, read back after a switch
CheckEmmcTiming == Only("Get_Mmc_ExtCsd") \o Only("TimingRead")

Set_Mmc_ExtCsd(arg) == CmdTransfer("CMD6", arg, 0) \o Only("CheckTransferDone")

Pullup == AppCmd("ACMD42", "")

Select_Card == CmdTransfer("CMD7", "", 0)

\* The card first, the controller once the card has accepted
Change_BusWidth ==
    /\ At("Change_BusWidth")
    /\ LET arg == IF drv.mode = DDR THEN (IF drv.width = 8 THEN "DDR8" ELSE "DDR4")
                  ELSE IF drv.width = 8 THEN "8" ELSE "4"
       IN  Success(IF drv.cfg.hc = "V3" /\ drv.cfg.BusWidth < 4 THEN <<>>
                   ELSE (IF drv.type = Sd
                         THEN AppCmd("ACMD6", IF drv.width = 4 THEN "4" ELSE "1")
                         ELSE Set_Mmc_ExtCsd(arg))
                        \o Only("BusWidthChanged"))
    /\ UNCHANGED <<hostVars, cardVars, board, drv, count>>

\* Mutant: the controller is not told of double data rate
WidthOnly ==
    /\ At("BusWidthChanged")
    /\ Success(<<>>)
    /\ host' = SetWidth(host, drv.width)
    /\ UNCHANGED <<line, sts, err, resp, moved, cardVars, board, drv, count>>

BusWidthChanged ==
    /\ At("BusWidthChanged")
    /\ Success(<<>>)
    /\ host' = [SetWidth(host, drv.width) EXCEPT
                  !.uhs = IF drv.mode = DDR THEN DDR ELSE @]
    /\ UNCHANGED <<line, sts, err, resp, moved, cardVars, board, drv, count>>

\* The card's function with CMD6; UHS-I modes in the controller once it is done
Change_SdBusSpeed(arg) == ReadCmd("CMD6", arg, "MODE", 1, 64) \o Only("SpeedSwitched")

SpeedSwitched ==
    /\ At("SpeedSwitched")
    /\ Success(<<>>)
    /\ host' = [host EXCEPT !.uhs = IF drv.sw18 THEN drv.mode ELSE @]
    /\ UNCHANGED <<line, sts, err, resp, moved, cardVars, board, drv, count>>

Change_MmcBusSpeed(arg) == Set_Mmc_ExtCsd(arg)

CardBusSpeed(arg) ==
    IF drv.type = Sd THEN Change_SdBusSpeed(arg) ELSE Change_MmcBusSpeed(arg)

\* Mutant: the clock before the card
ClockFirst ==
    /\ At("Change_BusSpeed")
    /\ LET speed == CalcBusSpeed(drv)
       IN  IF ~speed.ok THEN Failure("XST_FAILURE") /\ UNCHANGED drv
           ELSE /\ Success(Only("Change_ClkFreq") \o CardBusSpeed(speed.arg)
                           \o If(NeedsTuning(drv.mode), Execute_Tuning)
                           \o Only("HighSpeed"))
                /\ drv' = [drv EXCEPT !.speed = speed.hz]
    /\ UNCHANGED <<hostVars, cardVars, board, count>>

\* The card's mode, then clock, sampling point and the high-speed bit
Change_BusSpeed ==
    /\ At("Change_BusSpeed")
    /\ LET speed == CalcBusSpeed(drv)
       IN  IF ~speed.ok THEN Failure("XST_FAILURE") /\ UNCHANGED drv
           ELSE /\ Success(CardBusSpeed(speed.arg) \o Only("Change_ClkFreq")
                           \o If(NeedsTuning(drv.mode), Execute_Tuning)
                           \o Only("HighSpeed"))
                /\ drv' = [drv EXCEPT !.speed = speed.hz]
    /\ UNCHANGED <<hostVars, cardVars, board, count>>

HighSpeed ==
    /\ At("HighSpeed")
    /\ Success(<<>>)
    /\ host' = [host EXCEPT !.hs = TRUE]
    /\ UNCHANGED <<line, sts, err, resp, moved, cardVars, board, drv, count>>

-----------------------------------------------------------------------------
(* Enumeration                                                             *)

CardPresent == EmbSlot \/ drv.cfg.CardDetect = 0 \/ inserted

CheckCardDetect ==
    /\ At("CheckCardDetect")
    /\ IF CardPresent THEN Success(<<>>) ELSE Failure("XST_FAILURE")
    /\ UNCHANGED <<hostVars, cardVars, board, drv, count>>

\* Only an MMC card answers CMD1; in an embedded slot there is an eMMC
IdentifyCard ==
    /\ At("IdentifyCard")
    /\ IF EmbSlot THEN Success(<<>>) /\ drv' = [drv EXCEPT !.type = Emmc]
       ELSE Success(CmdTransfer("CMD0", "", 0) \o Only("TryCmd1")) /\ UNCHANGED drv
    /\ UNCHANGED <<hostVars, cardVars, board, count>>

TryCmd1 ==
    /\ At("TryCmd1")
    /\ Success(CmdTransfer("CMD1", "HCS", 0) \o Only("Cmd1Tried")
               \o <<<<"Reset", "CMD">>>>)
    /\ UNCHANGED <<hostVars, cardVars, board, drv, count>>

Cmd1Tried ==
    /\ At("Cmd1Tried")
    /\ Success(<<>>)
    /\ drv' = [drv EXCEPT !.type = IF rc = "XST_SUCCESS" THEN Mmc ELSE Sd]
    /\ sts' = {} /\ err' = {}
    /\ UNCHANGED <<host, line, resp, moved, cardVars, board, count>>

CardReset == CmdTransfer("CMD0", "", 0)

CardIfCond == CmdTransfer("CMD8", "PATTERN", 0) \o Only("Cmd8Tried")

\* No answer at all is the answer of a card before version 2
Cmd8Tried ==
    /\ At("Cmd8Tried")
    /\ IF rc = "XST_FAILURE" THEN Failure("XST_FAILURE")
       ELSE Success(If(rc = "XSDPS_CT_ERROR", <<<<"Reset", "CMD">>>>) \o Only("VersionRead"))
    /\ UNCHANGED <<hostVars, cardVars, board, drv, count>>

VersionRead ==
    /\ At("VersionRead")
    /\ Success(<<>>)
    /\ drv' = [drv EXCEPT !.ver = IF resp = {"PATTERN"} THEN 2 ELSE 1]
    /\ UNCHANGED <<hostVars, cardVars, board, count>>

\* One round of the power-up poll
OpCondRound ==
    LET s18 == drv.cfg.hc = "V3" /\ drv.cfg.BusWidth = 8
    IN  (IF drv.type = Sd
         THEN CmdTransfer("CMD55", "", 0)
              \o CmdTransfer("ACMD41", IF s18 THEN "S18" ELSE "", 0)
         ELSE CmdTransfer("CMD1", "HCS", 0))
        \o Only("OcrRead")

CardOpCond ==
    /\ At("CardOpCond")
    /\ Success(OpCondRound)
    /\ count' = OP_POLLS
    /\ UNCHANGED <<hostVars, cardVars, board, drv>>

\* Mutant: one round too many
OcrReadOnceMore ==
    /\ At("OcrRead")
    /\ IF "READY" \notin resp
       THEN /\ count' = count - 1
            /\ IF count = 0 THEN Failure("XST_FAILURE") ELSE Success(OpCondRound)
            /\ UNCHANGED drv
       ELSE /\ drv' = [drv EXCEPT !.hcs = @ \/ "HCS" \in resp,
                                  !.sw18 = @ \/ "S18" \in resp]
            /\ Success(If("S18" \in resp, Switch_Voltage))
            /\ UNCHANGED count
    /\ UNCHANGED <<hostVars, cardVars, board>>

\* The flag of a high-capacity card is set here and cleared nowhere
OcrRead ==
    /\ At("OcrRead")
    /\ IF "READY" \notin resp
       THEN /\ count' = count - 1
            /\ IF count' = 0 THEN Failure("XST_FAILURE") ELSE Success(OpCondRound)
            /\ UNCHANGED drv
       ELSE /\ drv' = [drv EXCEPT !.hcs = @ \/ "HCS" \in resp,
                                  !.sw18 = @ \/ "S18" \in resp]
            /\ Success(If("S18" \in resp, Switch_Voltage))
            /\ UNCHANGED count
    /\ UNCHANGED <<hostVars, cardVars, board>>

\* An SD card publishes an address, an MMC card is given one
GetCardId ==
    /\ At("GetCardId")
    /\ Success(CmdTransfer("CMD2", "", 0) \o CmdTransfer("CMD3", "", 0)
               \o If(drv.type = Sd, Only("RcaRead")))
    /\ count' = ID_POLLS
    /\ UNCHANGED <<hostVars, cardVars, board, drv>>

RcaRead ==
    /\ At("RcaRead")
    /\ IF "RCA" \in resp THEN Success(<<>>) /\ UNCHANGED count
       ELSE /\ count' = count - 1
            /\ IF count' = 0 THEN Failure("XST_FAILURE")
               ELSE Success(CmdTransfer("CMD3", "", 0) \o Only("RcaRead"))
    /\ UNCHANGED <<hostVars, cardVars, board, drv>>

GetCsd == CmdTransfer("CMD9", "", 0) \o Only("CsdRead")

\* The version of an MMC card; an SD card with an unknown structure fails
CsdRead ==
    /\ At("CsdRead")
    /\ LET csd == card.caps.csd
       IN  IF drv.type # Sd
           THEN Success(<<>>) /\ drv' = [drv EXCEPT !.ver = csd, !.erase = card.caps.erase]
           ELSE /\ IF csd \in {0, 1} THEN Success(<<>>) ELSE Failure("XST_FAILURE")
                /\ drv' = [drv EXCEPT !.erase = card.caps.erase]
    /\ UNCHANGED <<hostVars, cardVars, board, count>>

\* Out of identification: the clock goes up, the card is selected
ClockAndSelect(hz) == <<<<"Identified", hz>>>> \o Only("Change_ClkFreq") \o Select_Card

Identified ==
    /\ At("Identified")
    /\ Success(<<>>)
    /\ drv' = [drv EXCEPT !.speed = Arg(1)]
    /\ UNCHANGED <<hostVars, cardVars, board, count>>

SdCardEnum ==
    Only("CheckCardDetect") \o CardReset \o CardIfCond \o Only("CardOpCond")
      \o Only("GetCardId") \o GetCsd
      \o ClockAndSelect(IF drv.cfg.hc = "V3" THEN MHz(19) ELSE MHz(25))

MmcCardEnum ==
    Only("CheckCardDetect") \o CardReset \o Only("CardOpCond")
      \o Only("GetCardId") \o GetCsd \o ClockAndSelect(MHz(26))

-----------------------------------------------------------------------------
(* Width and speed of an SD card                                           *)

\* A buffer that was zeroed and never filled says nothing is supported
ScrSays(bit) == Filled("SCR") /\ bit
SwitchSup == IF Filled("SWITCH") THEN card.caps.sup ELSE {}
ExtCsdSup == IF Filled("EXT_CSD") THEN card.caps.sup ELSE {}

SdModeInit ==
    Only("Get_BusWidth") \o Only("ScrRead") \o Only("Get_BusSpeed")
      \o Only("SpeedRead") \o SetBlkSize

ScrRead ==
    /\ At("ScrRead")
    /\ IF ScrSays(card.caps.w4)
       THEN Success(Only("Change_BusWidth")) /\ drv' = [drv EXCEPT !.width = 4]
       ELSE Success(<<>>) /\ UNCHANGED drv
    /\ UNCHANGED <<hostVars, cardVars, board, count>>

\* A card of version 3 that supports the faster modes and has not switched
\* its voltage in the power-up poll has done so before
SpeedRead ==
    /\ At("SpeedRead")
    /\ LET fast  == SwitchSup \cap {SDR50, SDR104, DDR} # {}
           raise == /\ ScrSays(card.caps.spec3) /\ fast
                    /\ drv.cfg.BusWidth = 8 /\ ~drv.sw18
           high  == /\ ScrSays(card.caps.cmd6) /\ HS \in SwitchSup
                    /\ drv.width >= 4
       IN  IF raise \/ drv.sw18
           THEN /\ Success(If(raise, Only("CardSetVoltage18")) \o Only("UhsMode"))
                /\ drv' = [drv EXCEPT !.sw18 = TRUE]
           ELSE IF high
           THEN /\ Success(Only("Change_BusSpeed"))
                /\ drv' = HighSpeedTaps([drv EXCEPT !.mode = HS])
           ELSE Success(<<>>) /\ UNCHANGED drv
    /\ UNCHANGED <<hostVars, cardVars, board, count>>

UhsMode ==
    /\ At("UhsMode")
    /\ Success(Only("Change_BusSpeed"))
    /\ drv' = Identify_UhsMode(drv, SwitchSup)
    /\ UNCHANGED <<hostVars, cardVars, board, count>>

-----------------------------------------------------------------------------
(* Width and speed of MMC cards and eMMC chips                             *)

MmcModeInit ==
    /\ At("MmcModeInit")
    /\ Success(Only("Change_BusWidth") \o Only("Get_Mmc_ExtCsd") \o Only("MmcSpeed"))
    /\ drv' = [drv EXCEPT !.width = 4]
    /\ UNCHANGED <<hostVars, cardVars, board, count>>

MmcSpeed ==
    /\ At("MmcSpeed")
    /\ IF HS \in ExtCsdSup /\ drv.width >= 4
       THEN /\ Success(Only("Change_BusSpeed") \o CheckEmmcTiming)
            /\ drv' = [drv EXCEPT !.mode = HS]
       ELSE Success(<<>>) /\ UNCHANGED drv
    /\ UNCHANGED <<hostVars, cardVars, board, count>>

EmmcModeInit ==
    /\ At("EmmcModeInit")
    /\ Success(Only("Change_BusWidth") \o Only("Get_Mmc_ExtCsd") \o Only("EmmcSpeed"))
    /\ drv' = [drv EXCEPT !.width = IF drv.cfg.BusWidth \in {4, 8}
                                    THEN drv.cfg.BusWidth ELSE 1]
    /\ UNCHANGED <<hostVars, cardVars, board, count>>

\* Double data rate is set with the width, after the high-speed timing
EmmcSpeed ==
    /\ At("EmmcSpeed")
    /\ LET d == IdentifyEmmcMode(drv, ExtCsdSup)
       IN  /\ Success(If(d.mode # DEFAULT, Only("Change_BusSpeed") \o CheckEmmcTiming)
                      \o If(d.mode = DDR, Only("Change_BusWidth"))
                      \o Only("RstFunction"))
           /\ drv' = d
    /\ UNCHANGED <<hostVars, cardVars, board, count>>

\* The timing the card says it has must be the one of the mode
TimingRead ==
    /\ At("TimingRead")
    /\ LET timing == IF drv.mode = HS200 THEN HS200 ELSE HS
       IN  IF Filled("EXT_CSD") /\ card.mode = timing THEN Success(<<>>)
           ELSE Failure("XST_FAILURE")
    /\ UNCHANGED <<hostVars, cardVars, board, drv, count>>

RstFunction ==
    /\ At("RstFunction")
    /\ Success(If(Filled("EXT_CSD") /\ card.caps.rstoff, Set_Mmc_ExtCsd("RST")))
    /\ UNCHANGED <<hostVars, cardVars, board, drv, count>>

-----------------------------------------------------------------------------
(* Initialization                                                          *)

\* Without UHS_MODE_ENABLE the bus is taken to be four bits wide
SdCardInitialize ==
    /\ At("SdCardInitialize")
    /\ Success(SdCardEnum \o SdModeInit)
    /\ drv' = [drv EXCEPT !.cfg.BusWidth = IF drv.cfg.uhs THEN @ ELSE 4]
    /\ UNCHANGED <<hostVars, cardVars, board, count>>

MmcCardInitialize == MmcCardEnum \o Only("MmcMode") \o Only("MmcBlkSize")

MmcMode ==
    /\ At("MmcMode")
    /\ IF drv.type = Mmc /\ drv.ver > 3 /\ drv.cfg.hc = "V2"
       THEN Success(Only("MmcModeInit"))
       ELSE IF drv.type = Emmc THEN Success(Only("EmmcModeInit"))
       ELSE Failure("XST_FAILURE")
    /\ UNCHANGED <<hostVars, cardVars, board, drv, count>>

\* In double data rate the card does not take CMD16
MmcBlkSize ==
    /\ At("MmcBlkSize")
    /\ IF drv.mode # DDR THEN Success(SetBlkSize) /\ UNCHANGED <<host, drv>>
       ELSE /\ Success(<<>>)
            /\ host' = [host EXCEPT !.blksz = 512]
            /\ drv' = [drv EXCEPT !.blk = 512]
    /\ UNCHANGED <<line, sts, err, resp, moved, cardVars, board, count>>

CardInitialize ==
    /\ At("CardInitialize")
    /\ Success(Only("Change_ClkFreq") \o Only("IdentifyCard") \o Only("TypeInit"))
    /\ drv' = [drv EXCEPT !.width = 1, !.type = Sd, !.sw18 = FALSE,
                          !.speed = Clk400kHz]
    /\ UNCHANGED <<hostVars, cardVars, board, count>>

TypeInit ==
    /\ At("TypeInit")
    /\ Success(IF drv.type = Sd THEN Only("SdCardInitialize") ELSE MmcCardInitialize)
    /\ UNCHANGED <<hostVars, cardVars, board, drv, count>>

InitStep ==
    \/ CheckBusIdle \/ SetupCmd \/ SendCmd \/ CmdDone \/ CheckTransferDone
    \/ SetupReadDma \/ PowerOff \/ PowerOn \/ Reset \/ HostConfigured
    \/ Change_ClkFreq \/ CardSetVoltage18 \/ DllReset \/ BusLines
    \/ AutoTuning \/ TuningBlock \/ BlkSizeSet
    \/ Get_BusWidth \/ Get_BusSpeed \/ Get_Mmc_ExtCsd
    \/ Change_BusWidth \/ BusWidthChanged
    \/ Change_BusSpeed \/ SpeedSwitched \/ HighSpeed
    \/ CheckCardDetect \/ IdentifyCard \/ TryCmd1 \/ Cmd1Tried \/ Cmd8Tried
    \/ VersionRead
    \/ CardOpCond \/ OcrRead \/ GetCardId \/ RcaRead \/ CsdRead \/ Identified
    \/ ScrRead \/ SpeedRead \/ UhsMode
    \/ MmcModeInit \/ MmcSpeed \/ EmmcModeInit \/ EmmcSpeed \/ TimingRead
    \/ RstFunction \/ SdCardInitialize \/ MmcMode \/ MmcBlkSize
    \/ CardInitialize \/ TypeInit
=============================================================================
