SPECIFICATION StreamSpec
CONSTANTS
  c = c
  f1 = f1
  f2 = f2
  f3 = f3
  f4 = f4
  Blocks = {c, f1, f2, f3}
  Coarse = {c}
  AtlasSlots = {s1, s2, s3}
  Air = {f3}
  SourceZero = {}
  Late = {f2}
  Gone = {f2}
  Neighbor <- SeamF1
  Views <- TwoViews
  Budget = 2
  MaxMoves = 1
  MaxFails = 0
  Invalid = Invalid
  Zero = Zero
  NoId = NoId
SYMMETRY Symm
INVARIANT KnownAirShown
