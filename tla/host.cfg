SPECIFICATION SolanaSpec
CONSTANTS
  None = None
  MaxCalls = 2
  Calls <- CallIds
  Methods <- HostMethods
  Standard = {"eth_accounts"}
  NativePulses = 1
  ExtraPulses = 1
  Features = {"connect", "signIn", "signAndSend"}
  Ops = {o1, o2}
  Apps = {app}
  Addresses = {key}
  MaxInputs = 2
INVARIANTS  ModelCallOnItsWay DestroySettles SentAsReported
PROPERTIES ConnectsInTime ImplementsContract
CHECK_DEADLOCK FALSE
