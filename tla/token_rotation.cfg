SPECIFICATION Spec
CONSTANTS
  u1 = u1
  u2 = u2
  h1 = h1
  h2 = h2
  h3 = h3
  User <- OneUser
  Handler <- ThreeHandlers
  Lifetime = 2
  MaxNow = 2
  MaxLogin = 2
SYMMETRY Swap
INVARIANTS
  TypeOK
  SessionKept
  UsedNeverFound
PROPERTIES
  SessionsSpec
CHECK_DEADLOCK FALSE
