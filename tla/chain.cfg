SPECIFICATION Spec
CONSTANTS
  Chains = {base, sepolia, unknown}
  Configured = {base, sepolia}
  Default = base
  Switches = {s1, s2, s3}
  Requests = {r1}
  MaxQueue = 2
  None = None
SYMMETRY Symmetry
INVARIANTS DappFollows OneChainWhileStill SessionsOfRequestsUnderWay
CHECK_DEADLOCK FALSE
