----------------------------- MODULE Selections -----------------------------
(* Selections from functions and sequences, by place.                      *)
EXTENDS Naturals, FiniteSets

\* The values of a function at some numbers, in the order of the numbers.
Those(f, S) ==
    [k \in 1 .. Cardinality(S) |-> f[CHOOSE i \in S : Cardinality({j \in S : j <= i}) = k]]

=============================================================================
