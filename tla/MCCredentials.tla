--------------------------- MODULE MCCredentials ---------------------------
EXTENDS CredentialPresentation, TLC

Symmetry == Permutations(Issuances) \cup Permutations(Presents)
            \cup Permutations(Verifiers)
=============================================================================
