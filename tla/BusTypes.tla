------------------------------- MODULE BusTypes ------------------------------
(***************************************************************************)
(* What travels on the buses (rtl/wishbone_types.vhdl): word addresses,    *)
(* data words, requests.                                                   *)
(*                                                                         *)
(* A 64-bit word is a function from byte lanes to byte values.  The AXI    *)
(* byte address of a word is its word address with three zero bits, so     *)
(* both are members of Adr.                                                *)
(***************************************************************************)
EXTENDS Integers

CONSTANTS Adr,        \* word addresses
          Lanes,      \* byte lanes of a word, what sel and wstrb select
          Byte,       \* values of a byte
          ZeroAdr,    \* the address and the byte registers are reset to
          ZeroByte,
          Resp,       \* AXI response codes
          OKAY

ASSUME ZeroAssumption == ZeroAdr \in Adr /\ ZeroByte \in Byte
ASSUME RespAssumption == OKAY \in Resp

Word     == [Lanes -> Byte]
ZeroWord == [l \in Lanes |-> ZeroByte]

\* What a Wishbone master puts on the bus with stb.
Request  == [we : BOOLEAN, adr : Adr, dat : Word, sel : SUBSET Lanes]
ResetReq == [we |-> FALSE, adr |-> ZeroAdr, dat |-> ZeroWord, sel |-> {}]
WbMaster == [cyc : BOOLEAN, stb : BOOLEAN, req : Request]

\* The bytes of a word that a selective write replaces.
Merge(old, new, sel) == [l \in Lanes |-> IF l \in sel THEN new[l] ELSE old[l]]

==============================================================================
