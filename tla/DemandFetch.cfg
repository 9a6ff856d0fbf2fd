SPECIFICATION DemandSpec
CONSTANTS
  b1 = b1
  b2 = b2
  t1 = t1
  t2 = t2
  v = v
  w = w
  Samplers = {t1, t2}
  Vols = {v, w}
  VolOf <- Two
  VolBricks = {b1, b2}
  CellOf <- OneCell
  FullBricks = {b1}
  CorruptBricks = {}
  TTL = 1
  Soft = 1
  MaxFetchFaults = 1
  NoBrick = NoBrick
  Forever = Forever
INVARIANT NoFalseAir
