SPECIFICATION Spec
CONSTANTS
  d1 = d1
  d2 = d2
  w1 = w1
  w2 = w2
  Device <- OneDevice
  Worker <- TwoWorkers
  Home <- AllOnOne
  Entry = {1, 2}
  Stamp = {1, 2}
  RateMax = 3
  MaxDue = 2
  Tui <- OneDevice
SYMMETRY SwapWorkers
INVARIANTS
  OneVersion
PROPERTIES
  VaultSpec
  SyncDescends
