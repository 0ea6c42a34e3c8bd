---------------------------- MODULE MCRunBudget -----------------------------
(* Instances of RunBudget small enough for TLC. *)
EXTENDS RunBudget, TLC

CONSTANTS a1, a2, a3

\* Fewer tool calls than attempts, so that parallel tools compete for them.
MCLimit == [model_calls |-> 3, tool_calls |-> 2, tokens |-> 3]

MCSymmetry == Permutations(Attempts)
=============================================================================
