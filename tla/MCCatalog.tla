------------------------------ MODULE MCCatalog ------------------------------
(* Catalog on a small instance. *)
EXTENDS Catalog, TLC

Symmetry == Permutations(Folders) \cup Permutations(Aids) \cup Permutations(Actors)
=============================================================================
