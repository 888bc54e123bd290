---------------------------- MODULE Subsequence -----------------------------
(***************************************************************************)
(* The subsequence of the elements that are in a set: what SelectSeq gives *)
(* for a test that is membership, in a form the proofs can expand.         *)
(***************************************************************************)
EXTENDS Naturals, Sequences

\* The elements of s that are in K, in order.
Only(s, K) ==
  LET only[n \in 0..Len(s)] ==
        IF n = 0 THEN <<>>
        ELSE IF s[n] \in K THEN Append(only[n - 1], s[n]) ELSE only[n - 1]
  IN  only[Len(s)]
=============================================================================
