SPECIFICATION Spec
CONSTANTS
  NoRequest = NoRequest
  Requests = {r1, r2, r3}
  Methods = {"importPrivateKey", "createRecoveryData", "clearRecoverySession"}
SYMMETRY Symmetry
INVARIANT EnvelopesHoldKeys
