SPECIFICATION ClipFairSpec
CONSTANTS
  wzl = 2
  QCap = 4
  CopyBudget = 2
  Extent = 12
  Cov = 4
  Focus = {0}
  Starts = {0}
  Corrupt = {}
  Gens = 4
  MaxCamera = 0
  NoSlice = NoSlice
\* A copy that fails ends the program.
CHECK_DEADLOCK FALSE
PROPERTY LevelFills
