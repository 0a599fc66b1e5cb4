----------------------------- MODULE BootSystem -----------------------------
(***************************************************************************)
(* From power-up to the kernel: the boot program of the PS, then the       *)
(* welcome program on the soft core, with its UART and someone at the      *)
(* keyboard.                                                               *)
(***************************************************************************)
EXTENDS Welcome

vars == <<bootVars, welcomeVars>>

Init == BootInit /\ WelcomeInit

Next ==
    \/ main /\ UNCHANGED welcomeVars
    \/ (WelcomeStep \/ Sends \/ KeyPressed) /\ UNCHANGED bootVars

\* Both programs run, the UART sends what is in its queue
Fairness ==
    /\ WF_vars(main /\ UNCHANGED welcomeVars)
    /\ WF_vars(WelcomeStep /\ UNCHANGED bootVars)
    /\ WF_vars(Sends /\ UNCHANGED bootVars)

Spec == Init /\ [][Next]_vars /\ Fairness

-----------------------------------------------------------------------------
(* Properties; those of the boot program alone are in Boot                 *)

\* my_printf and uart_transmit_byte: what has left the UART, is in its queue
\* or still to be sent is what the messages say, in their order and with
\* nothing lost; all of it once the program waits for the key or has jumped.
ScreenShows ==
    /\ IsPrefix(shown \o tx \o text, due)
    /\ at \in {"wait", "kernel"} => shown \o tx = due

\* mw_welcome.c:30: a key that is in the queue of the UART, other than the
\* zero byte, starts the kernel.
KeyStarts ==
    (CtrReg = 1 /\ \E k \in DOMAIN rx : rx[k] # 0) ~> at = "kernel"
=============================================================================
