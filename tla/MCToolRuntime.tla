--------------------------- MODULE MCToolRuntime ----------------------------
(* Instances of ToolRuntime small enough for TLC. *)
EXTENDS ToolRuntime

CONSTANTS x, y, p, q, r, key

\* Two calls of one resource, one in a thread; the exclusive ones have none.
MCKeyOf == [t \in Tasks |-> IF t \in {p, q} THEN key ELSE NoKey]
=============================================================================
