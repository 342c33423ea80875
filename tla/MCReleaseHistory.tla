-------------------------- MODULE MCReleaseHistory --------------------------
(* Small instances of ReleaseHistory.                                       *)
EXTENDS ReleaseHistory, TLC

Symmetry == Permutations(Items)
=============================================================================
