SPECIFICATION FairSession
CONSTANTS
  c1 = c1
  c2 = c2
  a1 = a1
  a2 = a2
  p1 = p1
  p2 = p2
  None = None
  Cli <- TwoClis
  Attempt <- TwoAttempts
  Password <- TwoPasswords
INVARIANTS
  SessionTypeOK
  FileOfHolder
  FileWhole
  StoreInUse
PROPERTIES
  CommandReturns
CHECK_DEADLOCK FALSE
