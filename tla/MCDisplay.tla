------------------------------ MODULE MCDisplay ------------------------------
EXTENDS Display, TLC

CONSTANT MaxIds
DisplayIds == 1..MaxIds

Symmetry == Permutations(Tasks)
=============================================================================
