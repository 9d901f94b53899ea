----------------------- MODULE MCConsolidationJournal -----------------------
(* Tracks are interchangeable, and so are paths.                           *)
EXTENDS ConsolidationJournal, TLC

Symmetry == Permutations(Tracks) \union Permutations(Paths)
=============================================================================
