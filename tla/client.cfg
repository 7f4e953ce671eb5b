SPECIFICATION Spec
CONSTANTS
  None = None
  Passkeys = {a, b}
  MaxCalls = 2
  Requests <- Ids
  Methods <- ClientMethods
SYMMETRY Symmetry
INVARIANTS ClearedCachesStayClear CachesAgree AnswerOnItsWay
CHECK_DEADLOCK FALSE
