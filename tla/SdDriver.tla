------------------------------ MODULE SdDriver ------------------------------
(***************************************************************************)
(* The SD card driver of the boot program: xsdps.c and its parts           *)
(* xsdps_host.c, xsdps_card.c and xsdps_options.c, built for the ZynqMP.   *)
(*                                                                         *)
(* todo is what is left of the running call: a function that only calls    *)
(* others, and returns at the first that fails, is the sequence of what it *)
(* calls; one that reads the instance or a register is a step that puts    *)
(* what it chose in front of todo.  Success(next) goes on; Failure(code)   *)
(* drops the rest up to the next item that looks at the status (a member   *)
(* of Handlers), or ends the call.  rc is the status.                      *)
(*                                                                         *)
(* drv is the instance (XSdPs); HC_Version, slot type and the build option *)
(* UHS_MODE_ENABLE are the fields hc, emb and uhs of its configuration.    *)
(* Transfer mode register, delays and cache maintenance are left out.      *)
(***************************************************************************)
EXTENDS SdHost

CONSTANTS
    Boards,         \* configurations of controller and slot with their card
    OP_POLLS,       \* 10000 in the code: rounds of the power-up poll
    ID_POLLS,       \* 50: rounds of the address poll
    MAX_TUNING      \* 40: tuning blocks

VARIABLES board, drv, todo, rc, count

drvVars == <<board, drv, todo, rc, count>>

At(f) == todo # <<>> /\ Head(todo)[1] = f
Arg(n) == Head(todo)[n + 1]

Handlers == {"Cmd1Tried", "Cmd8Tried", "Started"}

Success(next) ==
    /\ todo' = next \o Tail(todo)
    /\ rc' = "XST_SUCCESS"

Failure(code) ==
    LET left == {n \in 2 .. Len(todo) : todo[n][1] \in Handlers}
    IN  /\ todo' = IF left = {} THEN <<>> ELSE SubSeq(todo, Min(left), Len(todo))
        /\ rc' = IF left = {} THEN "XST_FAILURE" ELSE code

\* The call ends with a status of its own
CallEnds(code) == todo' = <<>> /\ rc' = code

Only(f) == <<<<f>>>>
If(cond, seq) == IF cond THEN seq ELSE <<>>

Filled(buffer) == \E m \in moved : m[1] = buffer

EmbSlot == drv.cfg.hc = "V3" /\ drv.cfg.emb

-----------------------------------------------------------------------------
(* Commands                                                                *)

CmdTransfer(cmd, arg, BlkCnt) ==
    << <<"SetupCmd", cmd, arg, BlkCnt>>, <<"SendCmd", cmd, arg>>,
       <<"CmdDone", cmd>> >>

CheckBusIdle ==
    /\ At("CheckBusIdle")
    /\ \/ BusIdle(Arg(1)) /\ Success(<<>>)
       \/ BusHeld(Arg(1)) /\ Failure("XST_FAILURE")
    /\ UNCHANGED <<hostVars, cardVars, board, drv, count>>

\* Mutant: status bits of what was before stay
SetupKeepsStatus ==
    /\ At("SetupCmd")
    /\ \/ /\ BusIdle({"cmd"})
          /\ Success(<<>>)
          /\ host' = [host EXCEPT !.blkcnt = Arg(3)]
       \/ /\ BusHeld({"cmd"})
          /\ Failure("XST_FAILURE")
          /\ UNCHANGED host
    /\ UNCHANGED <<line, sts, err, resp, moved, cardVars, board, drv, count>>

\* Waits for the CMD line, then forgets every status bit
SetupCmd ==
    /\ At("SetupCmd")
    /\ \/ /\ BusIdle({"cmd"})
          /\ Success(<<>>)
          /\ host' = [host EXCEPT !.blkcnt = Arg(3)]
          /\ sts' = {} /\ err' = {}
       \/ /\ BusHeld({"cmd"})
          /\ Failure("XST_FAILURE")
          /\ UNCHANGED <<host, sts, err>>
    /\ UNCHANGED <<line, resp, moved, cardVars, board, drv, count>>

\* A command with data does not go out while the DAT lines are inhibited;
\* a controller that finds the CMD line busy ignores the write
SendCmd ==
    /\ At("SendCmd")
    /\ LET cmd == Arg(1)
           frame == FrameCmd(cmd, drv.type)
       IN  IF ~IsTuning(cmd) /\ line.dat # "none" /\ frame.dat
           THEN Failure("XST_FAILURE") /\ UNCHANGED line
           ELSE /\ Success(<<>>)
                /\ line' = IF line.cmd # "none" THEN line
                           ELSE [line EXCEPT !.cmd = cmd, !.arg = Arg(2),
                                             !.frame = frame]
    /\ UNCHANGED <<host, sts, err, resp, moved, cardVars, board, drv, count>>

\* Mutant: no time limit
CmdDoneUnlimited ==
    /\ At("CmdDone")
    /\ LET awaited == IF IsTuning(Arg(1)) THEN {"CC", "BRR"} ELSE {"CC"}
       IN  \/ /\ err # {}
              /\ Failure(IF err = {"CT"} THEN "XSDPS_CT_ERROR" ELSE "XST_FAILURE")
              /\ err' = {} /\ sts' = sts \ (awaited \ {"CC"})
           \/ /\ err = {} /\ sts \cap awaited # {}
              /\ Success(<<>>)
              /\ sts' = sts \ awaited
              /\ UNCHANGED err
    /\ UNCHANGED <<host, line, resp, moved, cardVars, board, drv, count>>

\* Waits for the end of the command, an error or the time limit
CmdDone ==
    /\ At("CmdDone")
    /\ LET awaited == IF IsTuning(Arg(1)) THEN {"CC", "BRR"} ELSE {"CC"}
       IN  \/ /\ err # {}
              /\ Failure(IF err = {"CT"} THEN "XSDPS_CT_ERROR" ELSE "XST_FAILURE")
              /\ err' = {} /\ sts' = sts \ (awaited \ {"CC"})
           \/ /\ err = {} /\ sts \cap awaited # {}
              /\ Success(<<>>)
              /\ sts' = sts \ awaited
              /\ UNCHANGED err
           \/ /\ err = {} /\ sts \cap awaited = {} /\ MayExpire("cmd")
              /\ Failure("XST_FAILURE")
              /\ UNCHANGED <<sts, err>>
    /\ UNCHANGED <<host, line, resp, moved, cardVars, board, drv, count>>

\* Waits for the end of the data, an error or the time limit
CheckTransferDone ==
    /\ At("CheckTransferDone")
    /\ \/ err # {} /\ Failure("XST_FAILURE") /\ err' = {} /\ UNCHANGED sts
       \/ err = {} /\ "TC" \in sts /\ Success(<<>>) /\ sts' = sts \ {"TC"} /\ UNCHANGED err
       \/ /\ err = {} /\ "TC" \notin sts /\ MayExpire("dat")
          /\ Failure("XST_FAILURE") /\ UNCHANGED <<sts, err>>
    /\ UNCHANGED <<host, line, resp, moved, cardVars, board, drv, count>>

\* A command that moves BlkCnt blocks, and the wait for its data
ReadCmd(cmd, arg, into, BlkCnt, BlkSize) ==
    << <<"SetupDma", into, BlkCnt, BlkSize>> >> \o CmdTransfer(cmd, arg, BlkCnt)
      \o Only("CheckTransferDone")

SetupReadDma ==
    /\ At("SetupDma")
    /\ Success(<<>>)
    /\ host' = SetupDma(host, Arg(1), Arg(2), Arg(3))
    /\ UNCHANGED <<line, sts, err, resp, moved, cardVars, board, drv, count>>

-----------------------------------------------------------------------------
(* Power, reset, clock, voltage                                            *)

\* Without power the card forgets everything
PowerOff ==
    /\ At("DisableBusPower")
    /\ Success(<<>>)
    /\ host' = DisableBusPower(host)
    /\ card' = PoweredCard(card.caps)
    /\ UNCHANGED <<line, sts, err, resp, moved, inserted, faults, board, drv, count>>

PowerOn ==
    /\ At("EnableBusPower")
    /\ Success(<<>>)
    /\ host' = EnableBusPower(host)
    /\ UNCHANGED <<line, sts, err, resp, moved, cardVars, board, drv, count>>

Reset ==
    /\ At("Reset")
    /\ LET all == Arg(1) = "ALL"
       IN  \/ /\ Success(<<>>)
              /\ host' = IF all THEN ResetHost(host) ELSE host
              /\ line' = IF all THEN FreeLines
                         ELSE [line EXCEPT !.cmd = "none", !.late = @ \ {"cmd"}]
              /\ sts' = IF all THEN {} ELSE sts \ {"CC"}
              /\ err' = IF all THEN {} ELSE err
              /\ UNCHANGED faults
           \/ Fault /\ Failure("XST_FAILURE") /\ UNCHANGED <<host, line, sts, err>>
    /\ UNCHANGED <<resp, moved, card, inserted, board, drv, count>>

ResetConfig ==
    Only("DisableBusPower") \o <<<<"Reset", "ALL">>>> \o Only("EnableBusPower")

HostConfigured ==
    /\ At("HostConfig")
    /\ Success(<<>>)
    /\ host' = HostConfig(host)
    /\ drv' = [drv EXCEPT !.ready = TRUE]
    /\ UNCHANGED <<line, sts, err, resp, moved, cardVars, board, count>>

\* h with the clock on, unless it does not become stable
Clocked(h) ==
    \/ Success(<<>>) /\ host' = EnableClock(h) /\ UNCHANGED faults
    \/ Fault /\ Failure("XST_FAILURE") /\ host' = h

\* To drv.speed; with a version 3 controller the taps of the mode first
Change_ClkFreq ==
    /\ At("Change_ClkFreq")
    /\ LET h == IF drv.cfg.hc = "V3" THEN SetTapDelay(host, drv) ELSE host
       IN  Clocked([SetClock(h, drv.cfg, drv.speed) EXCEPT !.clk = FALSE])
    /\ UNCHANGED <<line, sts, err, resp, moved, card, inserted, board, drv, count>>

\* The controller may refuse the voltage; the clock is off then
CardSetVoltage18 ==
    /\ At("CardSetVoltage18")
    /\ \/ Clocked([host EXCEPT !.clk = FALSE, !.v18 = TRUE])
       \/ Fault /\ Failure("XST_FAILURE") /\ host' = [host EXCEPT !.clk = FALSE]
    /\ UNCHANGED <<line, sts, err, resp, moved, card, inserted, board, drv, count>>

DllReset ==
    /\ At("DllReset")
    /\ Clocked([host EXCEPT !.clk = FALSE])
    /\ UNCHANGED <<line, sts, err, resp, moved, card, inserted, board, drv, count>>

\* The card pulls the lines low after CMD11 and lets them go when it has
\* switched
BusLines ==
    /\ At("BusLines")
    /\ \/ inserted /\ Success(<<>>) /\ UNCHANGED faults
       \/ ~inserted /\ Failure("XST_FAILURE") /\ UNCHANGED faults
       \/ Fault /\ Failure("XST_FAILURE")
    /\ UNCHANGED <<hostVars, card, inserted, board, drv, count>>

SetupVoltageSwitch == CmdTransfer("CMD11", "", 0) \o <<<<"BusLines", "low">>>>
CheckBusHigh == <<<<"BusLines", "high">>>>
Switch_Voltage == SetupVoltageSwitch \o Only("CardSetVoltage18") \o CheckBusHigh
=============================================================================
