SPECIFICATION FairSpec
CONSTANTS
  MaxFault <- EveryFault
  MaxRequest = 1
  MaxPublish = 1
INVARIANTS TypeOK InStep DeadNoticed
PROPERTIES EndsInSession
