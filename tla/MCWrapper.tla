----------------------------- MODULE MCWrapper -------------------------------
(***************************************************************************)
(* WrapperSystem with 3-bit addresses: DRAM is 0..3, the devices of the PS *)
(* are 4..7, and the window starts at 1.                                   *)
(***************************************************************************)
EXTENDS WrapperSystem
MCReg      == {"CTR_REG", "MEM_REG", "VER_REG"}
MCRegReset == [r \in MCReg |-> [l \in {0} |-> IF r = "VER_REG" THEN CurVersion ELSE 0]]
==============================================================================
