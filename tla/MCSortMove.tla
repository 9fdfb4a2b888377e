----------------------------- MODULE MCSortMove -----------------------------
EXTENDS SortMove, TLC
Symmetry == Permutations(Videos) \cup Permutations(Actors)
=============================================================================
