--------------------------- MODULE MCArtworkOutbox ---------------------------
(* Publishers, tracks and pictures are interchangeable.                    *)
EXTENDS ArtworkOutbox, TLC

Symmetry == Permutations(Publishers) \union Permutations(Tracks) \union Permutations(Digests)
=============================================================================
