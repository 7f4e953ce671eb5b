SPECIFICATION Spec
CONSTANTS
  None = None
  Anonymous = Anonymous
  Tasks = {t1, t2}
  MaxIds = 2
  Ids <- DisplayIds
  Modes = {"flyout", "inline"}
  Viewports = {"flyout", "drawer"}
  MaxRpc = 1
  MaxQueue = 3
  MaxAnimations = 2
SYMMETRY Symmetry
INVARIANTS ShownWhileHeld HiddenWhenIdle HolderKeepsDisplay NoneLeakedByRelease
CHECK_DEADLOCK FALSE
