------------------------------ MODULE MCChain ------------------------------
EXTENDS ChainRpc, TLC

Symmetry == Permutations(Switches) \cup Permutations(Requests)
=============================================================================
