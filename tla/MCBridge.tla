------------------------------ MODULE MCBridge -------------------------------
(***************************************************************************)
(* BridgeSystem on two addresses with words of one byte of two values; the *)
(* sets are model values given in the configurations.  A write of one word *)
(* is told from a read, from a write of another value, from one with no    *)
(* lane selected, and from one elsewhere.                                  *)
(***************************************************************************)
EXTENDS BridgeSystem
==============================================================================
