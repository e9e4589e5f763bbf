---------------------------- MODULE MCPlacement ----------------------------
(***************************************************************************)
(* Placement on a machine of four CPUs in two packages, with nodes of      *)
(* three, one and none (memory only).  CPUs 0 and 2 are threads of a core, *)
(* and both packages number their cores from 0.                            *)
(***************************************************************************)
EXTENDS Placement

MCHome == [c \in Cpu |-> IF c \in {0, 2, 3} THEN 1 ELSE 0]
MCPkg == [c \in Cpu |-> IF c \in {0, 2, 3} THEN 0 ELSE 1]
MCCore == [c \in Cpu |-> IF c = 3 THEN 1 ELSE 0]
=============================================================================
