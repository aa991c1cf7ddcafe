------------------------------ MODULE MCEvent ------------------------------
EXTENDS Event, TLC
Symmetry == Permutations(Node) \cup Permutations(List)
=============================================================================
