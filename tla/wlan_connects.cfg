SPECIFICATION FairSpec
CONSTANTS
  Modes <- BothModes
  MaxFault <- Disturbed
  MaxCall = 2
  Calls <- CloudCalls
INVARIANT TypeOK
PROPERTIES EndsConnected WakesUp
