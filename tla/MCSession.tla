------------------------------- MODULE MCSession -------------------------------
(* TLC instance of WalletSession.                                             *)
EXTENDS WalletSession, TLC

Symmetry == Permutations(Tasks) \cup Permutations(Keys)
=============================================================================
