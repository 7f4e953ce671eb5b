---------------------------- MODULE MCSignerClient ----------------------------
EXTENDS SignerClient, TLC

CONSTANT MaxCalls
Ids == 1..MaxCalls

\* One method of each set that SignerClient and the contract treat alike.
ClientMethods ==
  AllMethods \ {"unknownMethod", "recoverKey", "createRecoveryData", "decryptAES256"}

Symmetry == Permutations(Passkeys)
=============================================================================
