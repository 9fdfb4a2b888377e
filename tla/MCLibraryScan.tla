---------------------------- MODULE MCLibraryScan ----------------------------
(* LibraryScan on a small instance. *)
EXTENDS LibraryScan, TLC

Symmetry == Permutations(Dirs)
=============================================================================
