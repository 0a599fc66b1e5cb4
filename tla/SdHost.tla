------------------------------- MODULE SdHost -------------------------------
(***************************************************************************)
(* The registers of the SD host controller, as the driver writes and reads *)
(* them, and what goes on behind them: a command on the CMD line, a data   *)
(* transfer or a busy signal on the DAT lines, status bits that appear     *)
(* when they end.                                                          *)
(*                                                                         *)
(* host   registers that hold settings; host.dma is what the descriptor    *)
(*        table describes: a buffer and a number of bytes                  *)
(* line   cmd: the command on the CMD line, "none", or "stuck" when an     *)
(*        error left the line inhibited; dat: "none", "own" (what the      *)
(*        running call started), "old" (left by an earlier call), "stuck"; *)
(*        good: host and card agreed about the lines when the data began;  *)
(*        late: the lines whose end may come after the driver's time limit *)
(* sts    CC, TC, BRR of the interrupt status; err its error bits, CT for  *)
(*        a command time-out and OTHER for the rest; resp bits of RESP0    *)
(* moved  transfers of this call whose data arrived: <<buffer, bytes>>     *)
(* card   the card, in the slot when inserted                              *)
(* faults what went wrong so far, out of MaxFaults                         *)
(***************************************************************************)
EXTENDS SdCard, Adma

CONSTANTS
    MaxFaults,      \* bound: what may go wrong in a behaviour
    NewCards        \* cards that may be put into the slot

VARIABLES host, line, sts, err, resp, moved, card, inserted, faults

hostVars == <<host, line, sts, err, resp, moved>>
cardVars == <<card, inserted, faults>>

NoFrame == [resp |-> "none", dat |-> FALSE]

\* The registers after a reset of the controller; the tap delays are not
\* among its registers
ResetHost(h) ==
    [power |-> FALSE, clk |-> FALSE, freq |-> 0, w |-> 1, hs |-> FALSE,
     uhs |-> SDR12, v18 |-> FALSE, blksz |-> 0, blkcnt |-> 0, exec |-> FALSE,
     samp |-> FALSE, tries |-> 0, ien |-> FALSE,
     dma |-> [into |-> "none", bytes |-> 0], otap |-> h.otap, itap |-> h.itap]

FreeLines == [cmd |-> "none", arg |-> "", frame |-> NoFrame, dat |-> "none",
              good |-> TRUE, late |-> {}]

Fault == faults < MaxFaults /\ faults' = faults + 1

-----------------------------------------------------------------------------
(* Register settings of the driver's helper functions.                     *)

DisableBusPower(h) == [h EXCEPT !.power = FALSE]
EnableBusPower(h)  == [h EXCEPT !.power = TRUE]

\* XSdPs_ConfigPower, XSdPs_ConfigInterrupt and the block size; the DMA mode
\* is written over the whole of HOST_CTRL1, so width and speed bits go
HostConfig(h) ==
    [h EXCEPT !.power = TRUE, !.w = 1, !.hs = FALSE, !.ien = TRUE,
              !.blksz = 512]

\* The clock runs at the frequency asked for
EnableClock(h) == [h EXCEPT !.clk = TRUE]
SetClock(h, cfg, hz) ==
    EnableClock([h EXCEPT !.clk = FALSE, !.freq = SdClock(cfg, hz)])

ConfigTapDelay(h, d) == [h EXCEPT !.otap = d.otap, !.itap = d.itap]

\* The tap delays are left alone in the modes that do not need them
SetTapDelay(h, d) ==
    IF d.mode \in {DEFAULT, SDR12} THEN h ELSE ConfigTapDelay(h, d)

\* XSdPs_SetupReadDma and XSdPs_SetupWriteDma
SetupDma(h, into, BlkCnt, BlkSize) ==
    LET table == Setup64ADMA2DescTbl(0, BlkCnt, BlkSize)
    IN  [h EXCEPT !.blksz = BlkSize,
                  !.dma = [into |-> into, bytes |-> Described(table)]]

SetWidth(h, w) == [h EXCEPT !.w = IF w = 8 \/ @ = 8 THEN 8 ELSE 4]
SetExecTuning(h) == [h EXCEPT !.exec = TRUE, !.tries = 0]

-----------------------------------------------------------------------------
(* Waiting                                                                 *)

Running == host.clk /\ host.power /\ host.ien
CmdPending  == line.cmd \notin {"none", "stuck"} /\ Running
DataPending == line.dat \in {"own", "old"} /\ Running

\* Lines the driver finds inhibited, and those that may stay so too long
Inhibited(lines) ==
    {l \in lines : CASE l = "cmd" -> line.cmd # "none"
                     [] l = "dat" -> line.dat # "none"}
MayExpire(l) ==
    \/ l \in line.late
    \/ l = "cmd" /\ ~CmdPending
    \/ l = "dat" /\ ~DataPending

BusIdle(lines) == ~inserted \/ Inhibited(lines) = {}
BusHeld(lines) == inserted /\ \E l \in Inhibited(lines) : MayExpire(l)

-----------------------------------------------------------------------------
(* The controller and the card at work.                                    *)

Heard(cmd) == inserted /\ host.v18 = card.v18 /\ Answers(card, cmd)

\* A card left in the middle of one block finishes it by itself
Alone(c, cmd) ==
    IF c.st \in {"data", "prg"} /\ cmd \notin {"CMD18", "CMD25"}
    THEN [c EXCEPT !.st = "tran"] ELSE c

\* The answer of the card: command complete, and transfer complete with it
\* where the controller watches for a busy signal that does not come
Answer ==
    /\ CmdPending
    /\ Heard(line.cmd) \/ line.cmd = "CMD0"
    /\ LET cmd == line.cmd
           dat == \/ line.frame.dat /\ ~IsTuning(cmd)
                  \/ line.frame.resp = "R1b"
           hit == IsTuning(cmd) /\ host.exec /\ host.tries + 1 >= card.caps.tune
       IN  /\ sts' = sts \cup {IF IsTuning(cmd) THEN "BRR" ELSE "CC"}
                         \cup (IF line.frame.resp = "R6" THEN {"TC"} ELSE {})
           /\ resp' = IF line.frame.resp = "none" THEN resp
                      ELSE Response(card, cmd, line.arg)
           /\ card' = IF inserted THEN After(card, cmd, line.arg) ELSE card
           /\ line' = [line EXCEPT !.cmd = "none",
                                   !.late = IF dat THEN {} ELSE @ \ {"cmd"},
                                   !.dat = IF dat THEN "own" ELSE @,
                                   !.good = IF ~dat THEN @
                                            ELSE \/ ~line.frame.dat
                                                 \/ /\ host.w = card.w
                                                    /\ (host.uhs = DDR) = card.ddr]
           /\ host' = IF ~IsTuning(cmd) \/ ~host.exec THEN host
                      ELSE [host EXCEPT !.tries = @ + 1, !.exec = ~hit,
                                        !.samp = hit]
    /\ UNCHANGED <<err, moved, inserted, faults>>

\* The command is over without a valid answer; the line may stay inhibited
NoAnswer(kind) ==
    /\ err' = err \cup {kind}
    /\ \E left \in {"none", "stuck"} :
         line' = [line EXCEPT !.cmd = left, !.late = @ \ {"cmd"}]
    /\ UNCHANGED <<host, sts, resp, moved, inserted>>

\* No card, or one that does not know the command in its state
Silence ==
    /\ CmdPending /\ line.cmd # "CMD0" /\ ~Heard(line.cmd)
    /\ NoAnswer("CT")
    /\ UNCHANGED <<card, faults>>

\* The command or its answer is lost, or the answer arrives garbled
LoseAnswer ==
    /\ CmdPending /\ line.cmd # "CMD0" /\ Heard(line.cmd)
    /\ Fault
    /\ \/ NoAnswer("CT") /\ card' = card
       \/ /\ \E kind \in {"CT", "OTHER"} : NoAnswer(kind)
          /\ card' = Alone(After(card, line.cmd, line.arg), line.cmd)

\* The data is over, or the busy signal: transfer complete
DataEnds ==
    /\ DataPending
    /\ IF inserted /\ line.good
       THEN /\ sts' = sts \cup {"TC"}
            /\ line' = [line EXCEPT !.dat = "none", !.late = @ \ {"dat"}]
            /\ moved' = IF line.dat = "old" THEN moved
                        ELSE moved \cup {<<host.dma.into, Min({host.dma.bytes,
                                                 host.blkcnt * host.blksz})>>}
            /\ card' = IF card.st \in {"data", "prg"} THEN [card EXCEPT !.st = "tran"]
                       ELSE card
            /\ UNCHANGED err
       ELSE /\ err' = err \cup {"OTHER"}
            /\ \E left \in {"none", "stuck"} :
                 line' = [line EXCEPT !.dat = left, !.late = @ \ {"dat"}]
            /\ card' = Alone(card, "")
            /\ UNCHANGED <<sts, moved>>
    /\ UNCHANGED <<host, resp, inserted, faults>>

\* A block is damaged on its way
DamageData ==
    /\ DataPending /\ line.good /\ Fault
    /\ line' = [line EXCEPT !.good = FALSE]
    /\ UNCHANGED <<host, sts, err, resp, moved, card, inserted>>

\* What is under way takes longer than the driver waits
BeLate ==
    /\ Fault
    /\ \/ CmdPending /\ "cmd" \notin line.late
          /\ line' = [line EXCEPT !.late = @ \cup {"cmd"}]
       \/ DataPending /\ "dat" \notin line.late
          /\ line' = [line EXCEPT !.late = @ \cup {"dat"}]
    /\ UNCHANGED <<host, sts, err, resp, moved, card, inserted>>

RemoveCard ==
    /\ inserted /\ Fault
    /\ inserted' = FALSE
    /\ UNCHANGED <<hostVars, card>>

InsertCard ==
    /\ ~inserted
    /\ inserted' = TRUE
    /\ \E caps \in NewCards : card' = PoweredCard(caps)
    /\ UNCHANGED <<hostVars, faults>>
=============================================================================
