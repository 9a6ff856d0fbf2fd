SPECIFICATION Spec
CONSTANTS
  k1 = k1
  k2 = k2
  k3 = k3
  k4 = k4
  Keys = {k1, k2, k3, k4}
  Slots = {s1}
  Cap = 4
  Home <- Homes
  DirtyCap = 2
  Garbage <- Uninitialised
  Zero = Zero
  Invalid = Invalid
  None = None
INVARIANTS
  DeviceFollows
  EveryKeyFound
  NeverFull
  RememberedAirShown
PROPERTY ImplementsPageMap
