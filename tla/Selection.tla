------------------------------ MODULE Selection ------------------------------
(***************************************************************************)
(* The loops of the program that keep some elements of a slice.  SelectSeq   *)
(* of the standard modules says the same with a test in place of a set; the  *)
(* recursion is written out here so that theorems can be proved about it    *)
(* (SequenceLemmas.tla).                                                    *)
(***************************************************************************)
EXTENDS Naturals, Sequences

\* The elements of s that are in S, in the order of s.
Select(s, S) ==
    LET kept[i \in 0..Len(s)] ==
            IF i = 0 THEN <<>>
            ELSE IF s[i] \in S THEN Append(kept[i - 1], s[i]) ELSE kept[i - 1]
    IN  kept[Len(s)]
=============================================================================
