SPECIFICATION Spec
CONSTANTS
  NumChunks = 3
  ChunksPerPage = 2
  ShortLast = TRUE
  WatchdogTicks = 2
  MaxBad = 0
  MaxDrop = 0
  MaxMiswrite = 1
  MaxBreak = 0
  MaxSilent = 0
INVARIANT ImageIntact
