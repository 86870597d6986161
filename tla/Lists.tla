------------------------------- MODULE Lists -------------------------------
(***************************************************************************)
(* What is left of a list when elements are erased from it: the loops over *)
(* std::list and std::vector that erase what they are not to keep.         *)
(* (SelectSeq and folds take an operator as an argument, about which       *)
(* nothing can be proved for all operators.)                               *)
(***************************************************************************)
EXTENDS Naturals, Sequences

\* For each n: what is kept of the first n elements of s, if those in S are.
KeptOf(s, S) ==
    LET kept[n \in 0..Len(s)] ==
            IF n = 0 THEN <<>>
            ELSE IF s[n] \in S THEN Append(kept[n - 1], s[n]) ELSE kept[n - 1]
    IN  kept

Keep(s, S) == KeptOf(s, S)[Len(s)]
=============================================================================
