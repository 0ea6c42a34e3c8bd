---------------------------- MODULE MCA2AServer -----------------------------
(* Instances of A2AServer small enough for TLC. *)
EXTENDS A2AServer, TLC

CONSTANTS t1, t2, n1

File(name, encoded, size) ==
  [kind |-> "file", name |-> name, encoded |-> encoded, size |-> size, valid |-> TRUE]
Text(length) == [kind |-> "text", length |-> length]

\* Two sends of one task; a file too large by its encoding, then one that takes
\* its name; a text that is too long.
MCTaskOf == (1 :> t1) @@ (2 :> t1)
MCMessageOf == (1 :> <<[kind |-> "name", name |-> n1], File(NoName, 9, 6), File(NoName, 4, 2),
                       File(NoName, 4, 2)>>)
            @@ (2 :> <<Text(1), Text(2)>>)
=============================================================================
