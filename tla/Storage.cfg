SPECIFICATION SuiteSpec
CONSTANTS
  Threads = {0, 1}
  Pools = {vol1, vol2}
  N = 2
  Keys = {m1, m2, m3}
  m1 = m1
  m2 = m2
  m3 = m3
  base = base
  f1 = f1
  f2 = f2
  f3 = f3
  f4 = f4
  vol1 = vol1
  vol2 = vol2
  Blocks = {base, f1, f2, f3, f4}
  Coarse = {base}
  AtlasSlots = {m1, m2, m3}
  Air = {f3}
  SourceZero = {f4}
  Late = {f2}
  Gone = {}
  Neighbor <- SeamOfF1
  Views <- Sights
  Budget = 2
  MaxMoves = 1
  MaxFails = 1
  Bricks = {f1, f2}
  Labels = {0, 1, 2}
  MaxEdits = 3
  MaxFaults = 2
  MaxStarts = 3
  Chunks = {f1, f2, f3, f4}
  Len64 <- Lengths
  Cap = 3
  MaxWarmFrames = 3
  NoBlob = NoBlob
  Samplers = {m1, m2}
  Vols = {vol1}
  VolOf <- OneVolume
  VolBricks = {f1, f2}
  CellOf <- OneCell
  FullBricks = {f1}
  CorruptBricks = {}
  TTL = 1
  Soft = 1
  MaxFetchFaults = 1
  NoBrick = NoBrick
  NoId = NoId
  Invalid = Invalid
  Zero = Zero
  None = None
  Forever = Forever
SYMMETRY Symm
\* Threads of the cache may all exit, and starts of the program are bounded.
CHECK_DEADLOCK FALSE
INVARIANTS
  FrameSamplesItsBlocks
  TablesAgree
  DecodedAirShown
  LeaseKeepsBlock
  NoUseAfterFree
  FreedWhenUnused
  ListIsUnpinned
  BatchKeepsItsBytes
  LabelsComeBack
  NoFalseAir
PROPERTIES
  UsesPageMap
