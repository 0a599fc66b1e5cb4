------------------------------- MODULE RegFile -------------------------------
(***************************************************************************)
(* What the control slave promises to the PS: registers with writes that   *)
(* take effect one at a time in the order they were asked for, each once   *)
(* and before it is answered, and reads that return the value of their     *)
(* register at one moment between the request and the answer.              *)
(*                                                                         *)
(* The PS may ask for writes ahead.  Reading and writing are independent,  *)
(* and each moves by at most one phase at a time.                          *)
(***************************************************************************)
EXTENDS Sequences

CONSTANTS Addr, Val, Apply(_, _),       \* Apply(regs, w): regs after write w
          Write                         \* the writes
VARIABLES regs,         \* the registers
          wq,           \* writes asked for and not yet answered, oldest first
          done,         \* whether the oldest has taken effect
          read          \* the read: phase, address, value

Perform == /\ ~done /\ wq # <<>>
           /\ done' = TRUE
           /\ regs' = Apply(regs, wq[1])

Respond == /\ done
           /\ done' = FALSE
           /\ UNCHANGED regs

WriteStep ==
    \E new \in {<<>>} \cup {<<w>> : w \in Write} :
        \/ (Perform \/ UNCHANGED <<regs, done>>) /\ wq' = wq \o new
        \/ Respond /\ wq' = Tail(wq) \o new

Ask    == /\ read.phase = "idle"
          /\ \E a \in Addr : read' = [phase |-> "asked", addr |-> a, val |-> read.val]
Sample == /\ read.phase = "asked"
          /\ read' = [phase |-> "sampled", addr |-> read.addr, val |-> regs[read.addr]]
Take   == /\ read.phase = "sampled"
          /\ read' = [read EXCEPT !.phase = "idle"]

ReadStep == Ask \/ Sample \/ Take \/ UNCHANGED read

RegInit ==
    /\ regs \in [Addr -> Val]
    /\ wq = <<>>
    /\ done = FALSE
    /\ read \in [phase : {"idle"}, addr : Addr, val : Val]

RegSpec == RegInit /\ [][WriteStep /\ ReadStep]_<<regs, wq, done, read>>

==============================================================================
