SPECIFICATION Spec
CONSTANTS
  Modes = {"AUTOMATIC"}
  MaxFault <- Disordered
  MaxCall = 4
  Calls <- WiFiCalls
INVARIANTS ReadyIsReal StaysDisconnected
