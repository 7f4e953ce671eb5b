SPECIFICATION Spec
CONSTANTS
  Passkeys = {k1, k2}
  Scalars = {s1}
  Calls = {c1, c2}
  Batches <- MCBatches
  None = None
SYMMETRY Symmetry
INVARIANTS SignedInPlace FetchedKeySigns CachesOfOneKey
CHECK_DEADLOCK FALSE
