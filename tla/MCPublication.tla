---------------------------- MODULE MCPublication ----------------------------
(***************************************************************************)
(* Publication for TLC: two updates, so that a version number can be given *)
(* twice and a claim can be superseded; two commands at a time.            *)
(***************************************************************************)
EXTENDS Publication, TLC

Symmetry == Permutations(Commands) \cup Permutations(Updates)
=============================================================================
