SPECIFICATION FairSpec
CONSTANTS
  NumChunks = 3
  ChunksPerPage = 2
  ShortLast = FALSE
  WatchdogTicks = 2
  MaxBad = 2
  MaxDrop = 3
  MaxMiswrite = 2
  MaxBreak = 1
  MaxSilent = 1
INVARIANTS TypeOK InStep NothingMissing ImageIntact
PROPERTIES UserCodeResumes UpdateCompletes
