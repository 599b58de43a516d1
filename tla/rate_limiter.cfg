SPECIFICATION Spec
CONSTANTS
  k1 = k1
  k2 = k2
  Key <- TwoKeys
  Max = 2
  Window = 2
  MaxNow = 6
SYMMETRY SwapKeys
INVARIANTS
  TypeOK
  SpreadOut
  RefusedHadShare
PROPERTIES
  WindowSpec
