----------------------------- MODULE Subsequence -----------------------------
(***************************************************************************)
(* The elements of a sequence that are in a set, in their order.  This is  *)
(* SelectSeq, written as a recursive function on the beginnings of the     *)
(* sequence, so that proofs can unfold it.                                 *)
(***************************************************************************)
EXTENDS Integers, Sequences

OnlyUpto(s, S) ==
    LET only[n \in 0 .. Len(s)] ==
            IF n = 0 THEN <<>>
            ELSE IF s[n] \in S THEN Append(only[n - 1], s[n]) ELSE only[n - 1]
    IN  only

Only(s, S) == OnlyUpto(s, S)[Len(s)]
=============================================================================
