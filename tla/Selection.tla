------------------------------ MODULE Selection ------------------------------
(***************************************************************************)
(* What the code computes of collections in many places: what a list       *)
(* comprehension with a condition keeps, in order, and what a sum() is.    *)
(***************************************************************************)
EXTENDS Integers, Sequences, FiniteSets, FiniteSetsExt

(* [x for x in seq if x in keep].                                          *)
Kept(seq, keep) ==
    LET taken[i \in 0 .. Len(seq)] ==
            IF i = 0 THEN <<>>
            ELSE IF seq[i] \in keep THEN Append(taken[i - 1], seq[i])
            ELSE taken[i - 1]
    IN  taken[Len(seq)]

(* sum(value[x] for x in S).                                               *)
Total(value, S) == MapThenSumSet(LAMBDA x : value[x], S)
=============================================================================
