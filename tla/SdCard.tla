------------------------------- MODULE SdCard -------------------------------
(***************************************************************************)
(* The card at the other end of the SD bus, as far as the driver depends   *)
(* on it: the state machine that decides which commands it answers, and    *)
(* the settings driver and card have to agree about.  There is no code for *)
(* it in the repository; it is what the driver's sequence of commands      *)
(* takes for granted.                                                      *)
(*                                                                         *)
(* caps says what the card is able to do:                                  *)
(*   kind   "SD" or "MMC"           if8    answers CMD8 (SD 2.0 and later) *)
(*   hc     high capacity           cmd6   has the switch function         *)
(*   w4     four data lines         sup    speed modes it supports         *)
(*   s18    can signal with 1.8 V   csd    version of the CSD structure    *)
(*   erase  has command class 5     spec3  says it follows version 3       *)
(*   rstoff its reset input is temporarily off                             *)
(*   busy   polls it needs to power up    rca0  polls before it has an     *)
(*   tune   tuning blocks it takes to             address to publish       *)
(*          find the sampling point                                        *)
(***************************************************************************)
EXTENDS SdModes

\* A card that was just powered: reset, and signalling with 3.3 V
PoweredCard(caps) ==
    [caps |-> caps, st |-> "idle", w |-> 1, ddr |-> FALSE, mode |-> DEFAULT,
     v18 |-> FALSE, app |-> FALSE, er |-> 0, busy |-> caps.busy,
     rca0 |-> caps.rca0]

\* States in which a command is answered
LegalIn(cmd) ==
    CASE cmd = "CMD0" -> {"idle", "ready", "ident", "stby", "tran", "data", "prg"}
      [] cmd \in {"CMD1", "ACMD41"} -> {"idle"}
      [] cmd \in {"CMD2", "CMD11"}  -> {"ready"}
      [] cmd = "CMD3"               -> {"ident", "stby"}
      [] cmd \in {"CMD7", "CMD9"}   -> {"stby"}
      [] cmd = "CMD8"               -> {"idle", "tran"}
      [] cmd = "CMD55"              -> {"idle", "stby", "tran"}
      [] OTHER                      -> {"tran"}

\* Commands only one of the two kinds has, or only some cards
Knows(c, cmd) ==
    LET sd == c.caps.kind = "SD"
    IN  CASE cmd \in {"CMD1", "CMD21", "CMD35", "CMD36"} -> ~sd
          [] cmd \in {"CMD55", "CMD11", "CMD19", "CMD32", "CMD33"} -> sd
          [] cmd \in {"ACMD6", "ACMD13", "ACMD41", "ACMD42", "ACMD51"} ->
               sd /\ c.app
          [] cmd = "CMD8"  -> IF sd THEN c.caps.if8 /\ c.st = "idle"
                              ELSE c.st = "tran"
          [] cmd = "CMD6"  -> c.caps.cmd6
          [] cmd = "CMD38" -> c.er = 2
          [] cmd = "CMD16" -> sd \/ ~c.ddr
          [] OTHER         -> TRUE

Answers(c, cmd) == c.st \in LegalIn(cmd) /\ Knows(c, cmd)

\* What the argument of a switch command makes of the card: the modes SD and
\* MMC cards are set to, the bus widths of MMC, and nothing for the others
ModeOfArg(c, arg) ==
    LET m == CASE arg = "HS"     -> HS
               [] arg = "HS200"  -> HS200
               [] arg = "SDR12"  -> SDR12
               [] arg = "SDR25"  -> SDR25
               [] arg = "SDR50"  -> SDR50
               [] arg = "SDR104" -> SDR104
               [] arg = "DDR50"  -> DDR
               [] OTHER          -> DEFAULT
    IN  IF m = SDR12 \/ m \in c.caps.sup THEN m ELSE c.mode

Switched(c, arg) ==
    CASE arg = "4" -> [c EXCEPT !.w = 4, !.ddr = FALSE]
      [] arg = "8" -> [c EXCEPT !.w = 8, !.ddr = FALSE]
      \* double data rate needs the high-speed timing first
      [] arg = "DDR4" -> IF c.mode = HS THEN [c EXCEPT !.w = 4, !.ddr = TRUE] ELSE c
      [] arg = "DDR8" -> IF c.mode = HS THEN [c EXCEPT !.w = 8, !.ddr = TRUE] ELSE c
      [] OTHER -> LET m == ModeOfArg(c, arg)
                  IN  [c EXCEPT !.mode = m,
                                !.ddr = IF c.caps.kind = "SD" THEN m = DDR ELSE @]

\* The card after a command it answered
After(c, cmd, arg) ==
    LET n == [c EXCEPT !.app = (cmd = "CMD55"),
                       !.er = CASE cmd \in {"CMD32", "CMD35"} -> 1
                                [] cmd \in {"CMD33", "CMD36"} /\ @ = 1 -> 2
                                [] OTHER -> 0]
    IN  CASE cmd = "CMD0"  -> [PoweredCard(c.caps) EXCEPT !.v18 = c.v18, !.busy = c.busy]
          [] cmd \in {"CMD1", "ACMD41"} ->
               IF c.busy = 0 THEN [n EXCEPT !.st = "ready"] ELSE [n EXCEPT !.busy = @ - 1]
          [] cmd = "CMD2"  -> [n EXCEPT !.st = "ident"]
          [] cmd = "CMD3"  -> [n EXCEPT !.st = "stby", !.rca0 = IF @ = 0 THEN 0 ELSE @ - 1]
          [] cmd = "CMD7"  -> [n EXCEPT !.st = "tran"]
          [] cmd = "CMD11" -> [n EXCEPT !.v18 = TRUE]
          [] cmd = "ACMD6" -> [n EXCEPT !.w = IF arg = "4" THEN 4 ELSE 1]
          [] cmd = "CMD6"  -> [Switched(n, arg) EXCEPT
                                 !.st = IF c.caps.kind = "SD" THEN "data" ELSE "prg"]
          [] cmd = "CMD38" -> [n EXCEPT !.st = "prg"]
          [] cmd = "CMD8" /\ c.caps.kind = "MMC" -> [n EXCEPT !.st = "data"]
          [] cmd \in {"ACMD13", "ACMD51", "CMD17", "CMD18", "CMD24", "CMD25"} ->
               [n EXCEPT !.st = "data"]
          [] OTHER -> n

\* What the card puts into the response register
Response(c, cmd, arg) ==
    CASE cmd = "CMD8" /\ c.caps.kind = "SD" -> {"PATTERN"}
      [] cmd = "CMD3" /\ c.rca0 = 0 -> {"RCA"}
      [] cmd \in {"CMD1", "ACMD41"} /\ c.busy = 0 ->
           {"READY"} \cup (IF c.caps.hc THEN {"HCS"} ELSE {})
                     \cup (IF c.caps.s18 /\ arg = "S18" /\ ~c.v18 THEN {"S18"} ELSE {})
      [] OTHER -> {}

\* The fastest clock the card stands: 400 kHz while it is identified
MaxClock(c) ==
    IF c.st \in {"idle", "ready", "ident"} THEN Clk400kHz
    ELSE CASE c.mode = DEFAULT -> IF c.caps.kind = "SD" THEN MHz(25) ELSE MHz(26)
           [] c.mode = SDR12   -> MHz(25)
           [] c.mode = SDR25   -> MHz(50)
           [] c.mode = SDR50   -> MHz(100)
           [] c.mode = SDR104  -> MHz(208)
           [] c.mode = DDR     -> MHz(50)
           [] c.mode = HS      -> IF c.caps.kind = "SD" THEN MHz(50) ELSE MHz(52)
           [] c.mode = HS200   -> MHz(200)
=============================================================================
