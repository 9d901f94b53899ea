-------------------------- MODULE MCAudioPublication ------------------------
(* AudioPublication with interchangeable places in the library.            *)
EXTENDS AudioPublication, TLC

Symmetry == Permutations(Paths)
=============================================================================
