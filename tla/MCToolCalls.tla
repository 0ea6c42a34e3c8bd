---------------------------- MODULE MCToolCalls -----------------------------
(* Instances of ToolCalls small enough for TLC. *)
EXTENDS ToolCalls, TLC

CONSTANTS p, q, r, b1, b2

\* The calls propose different things; executions of the turn propose the same.
MCProposalOf == <<p, q, r>>
MCSymmetry == Permutations(Batches)
=============================================================================
