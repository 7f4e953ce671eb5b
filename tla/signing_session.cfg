SPECIFICATION Spec
CONSTANTS
  NoRequest = NoRequest
  Requests = {r1, r2, r3}
  Methods = {"importPrivateKey", "signDigest", "encryptAES256", "decryptAES256", "clearRecoverySession"}
SYMMETRY Symmetry
INVARIANTS ResultsUnderLiveKey ClearedStaysCleared WaiterIsShown NoOrphanPasskey
