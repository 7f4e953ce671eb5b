---------------------------- MODULE MCNamespaces ----------------------------
EXTENDS SignerNamespaces, TLC

\* One item, two, one transaction with two inputs next to one with one.
MCBatches == {<<1>>, <<1, 1>>, <<2, 1>>}

Symmetry == Permutations(Passkeys) \cup Permutations(Calls)
=============================================================================
