SPECIFICATION Spec
CONSTANTS
  Tasks = {t1, t2, t3}
  Kinds = {"connect", "sign", "send", "create", "login", "backup", "restore"}
  Keys = {k1, k2}
  None = None
SYMMETRY Symmetry
INVARIANTS QueueServesCallers UnlockIsUnderWay AnswerableUnlessInherited AddressesFollowKey
