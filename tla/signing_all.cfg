SPECIFICATION Spec
CONSTANTS
  NoRequest = NoRequest
  Requests = {r1, r2}
  Methods <- AllMethods
SYMMETRY Symmetry
INVARIANTS TypeOK LockHeldByCeremony WaiterInCeremony ConfirmPanelIsLive SessionIsLive ScalarsZeroized
PROPERTY ReplyIsLast ImplementsContract
