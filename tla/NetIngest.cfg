SPECIFICATION Spec
CONSTANTS
  c1 = c1
  c2 = c2
  o1 = o1
  k1 = k1
  k2 = k2
  k3 = k3
  k4 = k4
  b1 = b1
  b2 = b2
  b3 = b3
  b4 = b4
  None = None
  Workers = {w1, w2}
  Cells = {c1, c2, o1}
  Overlays = {o1}
  Chunks = {k1, k2, k3, k4}
  ChunksOf <- ChunksIn
  Bricks = {b1, b2, b3, b4}
  CellOf <- BrickIn
  Content <- Voxels
  Absent = {k2}
  Later = {k3}
  Views <- Sights
  QMax = 2
  FailCap = 1
  MaxMoves = 1
  MaxFaults = 1
INVARIANTS
  NoFalseAir
  OneFetcher
  OverlayNotCancelled
PROPERTIES
  WantedBecomeKnown
  QuitDrains
