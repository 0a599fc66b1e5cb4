------------------------------- MODULE MCXics --------------------------------
(* XicsSystem with two lines, and two or four priorities with the masked one. *)
EXTENDS XicsSystem
==============================================================================
