SPECIFICATION FairSpec
CONSTANTS
  Buffers = 2
  MaxCall = 3
  MaxEvent = 1
  MaxRefused = 1
  MaxLate = 1
  Preempted = FALSE
INVARIANTS TypeOK BusExclusive UnreadKept AnswerKept AnswersMatch BuffersConserved
PROPERTIES CallsReturn ChipServed
