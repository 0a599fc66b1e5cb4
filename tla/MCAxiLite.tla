----------------------------- MODULE MCAxiLite -------------------------------
(***************************************************************************)
(* AxiLiteSystem with two registers of one byte of two values, and one     *)
(* write run ahead of another.                                             *)
(***************************************************************************)
EXTENDS AxiLiteSystem
CONSTANTS r0, r1, l0, b0, b1
MCRegReset == [r \in {r0, r1} |-> [l \in {l0} |-> IF r = r0 THEN b0 ELSE b1]]
MCWrites   == {[addr |-> r0, data |-> [l \in {l0} |-> b1], strb |-> {l0}],
               [addr |-> r1, data |-> [l \in {l0} |-> b0], strb |-> {l0}],
               [addr |-> r0, data |-> [l \in {l0} |-> b0], strb |-> {}]}
==============================================================================
