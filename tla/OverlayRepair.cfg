SPECIFICATION FairSpec
CONSTANTS
  b1 = b1
  b2 = b2
  r1 = r1
  r2 = r2
  Blocks = {b1, b2}
  Slots = {s1, s2}
  Roots = {r1, r2}
  HasOverlay <- Has
  Shards <- Local
  MaxFails = 1
  MaxBad = 1
  RepairMayFail = FALSE
  MaxTurns = 4
  None = None
INVARIANTS
  NoForeignOverlay
  ZerosAreOwed
  CtIntact
PROPERTIES
  OverlayHeals
