----------------------------- MODULE Selection ------------------------------
(***************************************************************************)
(* Subsequences by index, for the queues and listings that keep some of    *)
(* their entries and drop or defer the others.                             *)
(***************************************************************************)
EXTENDS Integers, Sequences, FiniteSets

\* The entries of s at the indices I, in their order in s.
Pick(s, I) ==
    [r \in 1..Cardinality(I) |->
        s[CHOOSE i \in I : Cardinality({j \in I : j < i}) = r - 1]]

\* The first n entries of s, or all of them.
Firsts(s, n) == SubSeq(s, 1, IF n <= Len(s) THEN n ELSE Len(s))

=============================================================================
