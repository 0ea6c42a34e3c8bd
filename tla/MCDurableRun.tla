---------------------------- MODULE MCDurableRun ----------------------------
(* Instances of DurableRun small enough for TLC. *)
EXTENDS DurableRun, TLC

CONSTANTS w1, w2, a, b

\* The calls of a turn propose different actions, or twice the same one.
MCDistinct == [c \in Calls |-> c]
MCSame == [c \in Calls |-> a]

MCSymmetry == Permutations(Workers)
=============================================================================
