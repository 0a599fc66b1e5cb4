------------------------------- MODULE MCSocBus ------------------------------
(***************************************************************************)
(* SocBusSystem with a data cache that writes either half of a device or   *)
(* both, reads both, the top one or none, and reads and writes memory, and *)
(* an instruction cache that reads memory and the other device.            *)
(***************************************************************************)
EXTENDS SocBusSystem, TLC

Read(s, sel)       == [we |-> FALSE, slave |-> s, sel |-> sel, dat |-> ZeroDword]
Write(s, sel, dat) == [we |-> TRUE, slave |-> s, sel |-> sel, dat |-> dat]
Halves(b, t)       == "bot" :> b @@ "top" :> t

DataRequests == {Read("mem", Half), Read("icp", Half), Read("icp", {"top"}), Read("icp", {}),
                 Write("icp", {"bot"}, Halves(1, 0)), Write("icp", {"top"}, Halves(0, 1)),
                 Write("icp", Half, Halves(0, 1)), Write("mem", Half, Halves(0, 1))}
MCRequests   == 0 :> DataRequests @@ 1 :> {Read("mem", Half), Read("ics", Half)}
==============================================================================
