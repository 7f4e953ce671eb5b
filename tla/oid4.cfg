SPECIFICATION Spec
CONSTANTS
  Issuers = {good, other, unknown}
  Trusted = {good, other}
  Issuances = {i1, i2}
  Held = {h1}
  Verifiers = {v1, v2}
  DefinitionIds = {kyc}
  Presents = {p1, p2}
  HostLists = {{}, {good}}
  MaxCalls = 3
  None = None
SYMMETRY Symmetry
INVARIANTS OneCredentialPerToken RefusedOnlyWhenCrossed DeliveredWhereApproved
CHECK_DEADLOCK FALSE
