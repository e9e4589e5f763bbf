---------------------------- MODULE MCCellDaemon ----------------------------
(***************************************************************************)
(* CellDaemon with two ids that sanitizeID maps to one directory, and the  *)
(* empty id, which CreateCell refuses and DestroyCell takes.               *)
(***************************************************************************)
EXTENDS CellDaemon, TLC

CONSTANTS c1, c2

MCCellId == { <<"a", "/">>, <<"a", "-">>, << >> }
MCCpuLists == { << >>, <<0, 1>>, <<2>> }
MCSymmetry == Permutations({c1, c2})
=============================================================================
