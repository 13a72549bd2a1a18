------------------------------- MODULE Lists -------------------------------
(***************************************************************************)
(* What several services do with a list: keep some of its elements.        *)
(***************************************************************************)
EXTENDS Naturals, Sequences

\* The elements of s that are in S, in their order.
Only(s, S) ==
    LET only[n \in 0..Len(s)] ==
          IF n = 0 THEN <<>>
          ELSE IF s[n] \in S THEN Append(only[n - 1], s[n])
          ELSE only[n - 1]
    IN  only[Len(s)]
=============================================================================
