SPECIFICATION Spec
CONSTANTS
  a1 = a1
  a2 = a2
  p1 = p1
  e1 = e1
  e2 = e2
  s1 = s1
  s2 = s2
  f1 = f1
  f2 = f2
  None = None
  Cli <- NoCli
  Attempt <- TwoAttempts
  Password <- OnePassword
  Entry <- TwoEntries
  Binary <- OneEntry
  Slot <- TwoSlots
  Form <- TwoForms
SYMMETRY Swap
VIEW Relevant
INVARIANTS
  TypeOK
  NothingBeforeLogin
  ShownIsAsked
  ListIsFresh
  SaveReadsItsForm
PROPERTIES
  OneVault
CHECK_DEADLOCK FALSE
