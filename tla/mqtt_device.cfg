SPECIFICATION FairSpec
CONSTANTS
  Budgets <- Failures
  Truncating = FALSE
INVARIANTS TypeOK DeadNoticed Agreed
PROPERTIES KeptInTime EndsKnown
