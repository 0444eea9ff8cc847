SPECIFICATION FairSpec
CONSTANTS
  NumWorkers = 3
  MaxEntries = 4
  Faults = {"readLost", "hang"}
INVARIANTS TypeOK StopDrains OneMoreAtMost EntriesAreKept
PROPERTY StopReturns
CHECK_DEADLOCK FALSE
