--------------------------- MODULE MCSigningLayer ---------------------------
(* Instances of SigningLayer for TLC: the requests are interchangeable. *)
EXTENDS SigningLayer, TLC

Symmetry == Permutations(Requests)
=============================================================================
