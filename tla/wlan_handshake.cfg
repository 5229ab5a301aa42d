SPECIFICATION Spec
CONSTANTS
  Modes = {"AUTOMATIC"}
  MaxFault <- ClosedOnce
  MaxCall = 0
  Calls <- NoCalls
INVARIANT SessionHandshaked
