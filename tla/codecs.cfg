SPECIFICATION CoseSpec
CONSTANTS
  Registrations <- MCRegistrations
  MaxDepth = 4
INVARIANT KeyArrives
CHECK_DEADLOCK FALSE
