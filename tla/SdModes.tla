------------------------------ MODULE SdModes -------------------------------
(***************************************************************************)
(* What the SD driver computes without touching a register: the kind of    *)
(* answer a command asks for, the speed modes and what each of them needs, *)
(* the tap delays of a mode, the divisor of the SD clock.  The numbers are *)
(* those of xsdps.h and xsdps_hw.h for the ZynqMP; frequencies are in Hz.  *)
(*                                                                         *)
(* d is the driver's instance; d.cfg the configuration of the controller,  *)
(* with the fields of XSdPs_Config and, for the registers that tell them,  *)
(* hc (version of the controller) and emb (the slot is an embedded one).   *)
(***************************************************************************)
EXTENDS Integers, FiniteSetsExt

Sd   == "XSDPS_CARD_SD"
Mmc  == "XSDPS_CARD_MMC"
Emmc == "XSDPS_CHIP_EMMC"

\* Speed modes; DDR50 of SD and DDR52 of eMMC are one number
SDR12   == 0
SDR25   == 1
SDR50   == 2
SDR104  == 3
DDR     == 4
HS      == 5
DEFAULT == 6
HS200   == 7
Mode    == 0 .. 7

MHz(n) == n * 1000000
Clk400kHz == 400000

-----------------------------------------------------------------------------
(* Commands                                                                *)

\* The kind of response, and whether the command uses the DAT lines for a
\* data block ("dat") or is followed by a busy signal the controller watches
FrameCmd(cmd, type) ==
    LET resp ==
          CASE cmd \in {"CMD0", "CMD4"}   -> "none"
            [] cmd \in {"CMD1", "ACMD41"} -> "R3"
            [] cmd \in {"CMD2", "CMD9"}   -> "R2"
            [] cmd = "CMD3"               -> IF type = Sd THEN "R6" ELSE "R1"
            [] cmd = "CMD6"               -> IF type = Sd THEN "R1" ELSE "R1b"
            [] cmd \in {"CMD5", "CMD38"}  -> "R1b"
            [] OTHER                      -> "R1"
        dat ==
          \/ cmd \in {"ACMD13", "CMD17", "CMD18", "CMD19", "CMD21", "CMD23",
                      "ACMD23", "CMD24", "CMD25", "ACMD51"}
          \/ cmd = "CMD6" /\ type = Sd
          \/ cmd = "CMD8" /\ type # Sd
    IN  [resp |-> resp, dat |-> dat]

IsTuning(cmd) == cmd \in {"CMD19", "CMD21"}

-----------------------------------------------------------------------------
(* Speed                                                                   *)

\* The argument of the switch command and the clock of the mode; ok is FALSE
\* for a mode that is not set with a switch command
CalcBusSpeed(d) ==
    LET speed(arg, hz) == [ok |-> TRUE, arg |-> arg, hz |-> hz]
        none           == [ok |-> FALSE, arg |-> "", hz |-> d.speed]
    IN  IF d.type = Sd
        THEN CASE d.mode = SDR12  -> speed("SDR12", MHz(25))
               [] d.mode = SDR25  -> speed("SDR25", MHz(50))
               [] d.mode = SDR50  -> speed("SDR50", MHz(100))
               [] d.mode = SDR104 -> speed("SDR104", MHz(208))
               [] d.mode = DDR    -> speed("DDR50", MHz(50))
               [] d.mode = HS     -> speed("HS", MHz(50))
               [] OTHER           -> none
        ELSE CASE d.mode = HS200     -> speed("HS200", MHz(200))
               [] d.mode \in {DDR, HS} -> speed("HS", MHz(52))
               [] OTHER              -> none

\* Divisor of the base clock, 0 when it is used as it is; 0 as well when no
\* divisor is large enough
CalcClock(c, hz) ==
    LET even   == {n \in 2 .. 2046 : n % 2 = 0}
        powers == {2^k : k \in 0 .. 8}
        enough(S) == {n \in S : c.InputClockHz \div n <= hz}
        first(S)  == IF S = {} THEN 0 ELSE Min(S) \div 2
    IN  IF c.hc = "V3"
        THEN IF c.InputClockHz <= hz THEN 0 ELSE first(enough(even))
        ELSE first(enough(powers))

\* The SD clock that comes out
SdClock(c, hz) ==
    LET n == CalcClock(c, hz)
    IN  IF n = 0 THEN c.InputClockHz ELSE c.InputClockHz \div (2 * n)

-----------------------------------------------------------------------------
(* Tap delays: o of the output, i of the input clock.                      *)

SDADIR == "XSDPS_SLOTTYPE_SDADIR"

SetTapDelay_SDR104(d) ==
    [d EXCEPT !.otap = IF d.cfg.OTapDly_SDR_Clk200 # 0
                       THEN d.cfg.OTapDly_SDR_Clk200
                       ELSE IF d.cfg.BankNumber = 2 THEN 2 ELSE 3]

SetTapDelay_SDR50(d) ==
    [d EXCEPT !.otap = IF d.cfg.OTapDly_SDR_Clk100 # 0
                       THEN d.cfg.OTapDly_SDR_Clk100 ELSE 3]

\* Both taps from the configuration if it has both, else the defaults; a
\* slot with automatic direction replaces the default input tap by its own
Taps(d, cfgO, cfgI, defO, defI, adirI) ==
    LET i == IF cfgO # 0 /\ cfgI # 0 THEN cfgI ELSE defI
    IN  [d EXCEPT !.otap = IF cfgO # 0 /\ cfgI # 0 THEN cfgO ELSE defO,
                  !.itap = IF d.cfg.SlotType = SDADIR /\ i = defI
                           THEN adirI ELSE i]

SetTapDelay_DDR50(d) ==
    Taps(d, d.cfg.OTapDly_DDR_Clk50, d.cfg.ITapDly_DDR_Clk50, 4, 61, 51)

SetTapDelay_SDR25(d) ==
    Taps(d, d.cfg.OTapDly_SDR_Clk50, d.cfg.ITapDly_SDR_Clk50, 5, 21, 44)

\* High speed: as SDR25, with its own tap for automatic direction
HighSpeedTaps(d) ==
    Taps(d, d.cfg.OTapDly_SDR_Clk50, d.cfg.ITapDly_SDR_Clk50, 5, 21, 40)

-----------------------------------------------------------------------------
(* Choice of the mode.  sup is the set of modes the card says it supports. *)

Identify_UhsMode(d, sup) ==
    LET fast(hz) == d.cfg.InputClockHz >= hz
    IN  IF SDR104 \in sup /\ fast(MHz(175))
        THEN SetTapDelay_SDR104([d EXCEPT !.mode = SDR104])
        ELSE IF SDR50 \in sup /\ fast(MHz(100))
        THEN SetTapDelay_SDR50([d EXCEPT !.mode = SDR50])
        ELSE IF DDR \in sup /\ fast(MHz(50))
        THEN SetTapDelay_DDR50([d EXCEPT !.mode = DDR])
        ELSE IF SDR25 \in sup /\ fast(MHz(50))
        THEN SetTapDelay_SDR25([d EXCEPT !.mode = SDR25])
        ELSE [d EXCEPT !.mode = SDR12]

IdentifyEmmcMode(d, sup) ==
    LET c == d.cfg
        both(o, i) == o # 0 /\ i # 0
        fixed(mode, o, i, defO, defI) ==
            [d EXCEPT !.mode = mode,
                      !.otap = IF both(o, i) THEN o ELSE defO,
                      !.itap = IF both(o, i) THEN i ELSE defI]
    IN  IF d.width < 4 THEN [d EXCEPT !.mode = DEFAULT]
        ELSE IF HS200 \in sup
        THEN SetTapDelay_SDR104([d EXCEPT !.mode = HS200])
        ELSE IF DDR \in sup
        THEN fixed(DDR, c.OTapDly_DDR_Clk50, c.ITapDly_DDR_Clk50, 6, 18)
        ELSE IF HS \in sup
        THEN fixed(HS, c.OTapDly_SDR_Clk50, c.ITapDly_SDR_Clk50, 6, 21)
        ELSE [d EXCEPT !.mode = DEFAULT]

\* Modes whose sampling point is found by tuning
NeedsTuning(mode) == mode \in {HS200, SDR104, SDR50}
=============================================================================
