-------------------------------- MODULE MCSd --------------------------------
(***************************************************************************)
(* Boards for model checking SdSystem: the board of this repository and    *)
(* one for every path the initialization can take.                         *)
(***************************************************************************)
EXTENDS SdInvariant

\* The ZynqMP's controller with an SD slot; no tap delays configured
Controller ==
    [hc |-> "V3", emb |-> FALSE, uhs |-> FALSE, InputClockHz |-> MHz(200),
     BusWidth |-> 8, CardDetect |-> 1, BankNumber |-> 1, SlotType |-> "SD",
     OTapDly_SDR_Clk50 |-> 0, ITapDly_SDR_Clk50 |-> 0, OTapDly_DDR_Clk50 |-> 0,
     ITapDly_DDR_Clk50 |-> 0, OTapDly_SDR_Clk100 |-> 0, OTapDly_SDR_Clk200 |-> 0]
WithUhs   == [Controller EXCEPT !.uhs = TRUE]
Version2  == [Controller EXCEPT !.hc = "V2", !.InputClockHz = MHz(100), !.BusWidth = 4,
                                !.CardDetect = 0]
Embedded(w) == [Controller EXCEPT !.emb = TRUE, !.SlotType = "EMMC", !.BusWidth = w]

Sdhc ==
    [kind |-> "SD", if8 |-> TRUE, hc |-> TRUE, cmd6 |-> TRUE, w4 |-> TRUE,
     sup |-> {SDR12, SDR25, HS}, s18 |-> FALSE, csd |-> 1, erase |-> TRUE,
     spec3 |-> FALSE, rstoff |-> FALSE, busy |-> 1, rca0 |-> 0, tune |-> 1]
Sdsc    == [Sdhc EXCEPT !.if8 = FALSE, !.hc = FALSE, !.csd = 0, !.busy = 0, !.rca0 = 1,
                        !.sup = {SDR12}]
\* Takes as long to power up and to tune as the driver waits
Uhs     == [Sdhc EXCEPT !.s18 = TRUE, !.spec3 = TRUE, !.busy = OP_POLLS - 1,
                        !.sup = @ \cup {SDR50, SDR104, DDR}, !.tune = MAX_TUNING]
UhsDdr  == [Uhs EXCEPT !.sup = {SDR12, SDR25, HS, DDR}, !.rca0 = ID_POLLS - 1]
Uhs50   == [Uhs EXCEPT !.sup = {SDR12, SDR25, HS, SDR50}, !.rca0 = 0, !.tune = 1]
Mmc4    == [Sdhc EXCEPT !.kind = "MMC", !.if8 = FALSE, !.csd = 4, !.sup = {HS},
                        !.erase = FALSE]
EmmcDdr == [Mmc4 EXCEPT !.sup = {HS, DDR}, !.rstoff = TRUE, !.erase = TRUE]
Emmc200 == [EmmcDdr EXCEPT !.sup = @ \cup {HS200}]
\* Cards the driver gives up
NeverUp == [Sdhc EXCEPT !.busy = OP_POLLS + 1]
NoRca   == [Sdhc EXCEPT !.rca0 = ID_POLLS]
Sduc    == [Sdhc EXCEPT !.csd = 2]

MCBoards ==
    [cfg : {Controller}, caps : {Sdhc, NeverUp, NoRca, Sduc}]
      \cup [cfg : {WithUhs}, caps : {Uhs, UhsDdr, Uhs50}]
      \cup [cfg : {Version2}, caps : {Sdsc, Mmc4}]
      \cup [cfg : {Embedded(8)}, caps : {Emmc200, EmmcDdr}]
      \cup [cfg : {Embedded(1)}, caps : {EmmcDdr}]

MCNewCards == {Sdsc}

\* One block, the largest table, and a block more than it holds
MCBlkCnts == {1, 4096, 4097}
=============================================================================
