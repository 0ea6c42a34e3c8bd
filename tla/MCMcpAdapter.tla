---------------------------- MODULE MCMcpAdapter ----------------------------
(* Instances of McpAdapter small enough for TLC. *)
EXTENDS McpAdapter, TLC

CONSTANTS c1, c2, c3

MCSymmetry == Permutations(Callers)
=============================================================================
