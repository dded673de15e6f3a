--------------------------- MODULE MCPowerControl ---------------------------
(***************************************************************************)
(* Instances of PowerControl for TLC: two concurrent callers, a charge     *)
(* that is not a multiple of the register's unit, a discharge at its limit *)
(* and one beyond it.                                                      *)
(***************************************************************************)
EXTENDS PowerControlRefines, TLC

CONSTANTS r1, r2

MCRequesters == {r1, r2}
MCPowers == {-150, 200, 300}
MCSoc == {10, 50, 90}
MCNoSoc == {}
MCSymmetry == Permutations(MCRequesters)
=============================================================================
