-------------------------------- MODULE Lists --------------------------------
(***************************************************************************)
(* A list that some entries are deleted from, and a sum, as recursive      *)
(* functions: for the tables and the counts of several modules.            *)
(***************************************************************************)
EXTENDS Integers, Sequences

\* What is left of s when only the entries at the places K stay.
Left(s, K) ==
  LET left[n \in 0 .. Len(s)] ==
        IF n = 0 THEN <<>>
        ELSE IF n \in K THEN Append(left[n - 1], s[n]) ELSE left[n - 1]
  IN  left[Len(s)]

\* The sum of the first N numbers of G.
Total(G, N) ==
  LET total[n \in 0 .. N] == IF n = 0 THEN 0 ELSE total[n - 1] + G[n]
  IN  total[N]
==============================================================================
