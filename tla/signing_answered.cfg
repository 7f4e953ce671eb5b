SPECIFICATION FairSpec
CONSTANTS
  NoRequest = NoRequest
  Requests = {r1, r2}
  Methods = {"createCredential", "createCredential.defer", "signDigest", "getPublicKey.challenge", "clearRecoverySession", "getVersion"}
PROPERTY EveryRequestAnswered
