SPECIFICATION Spec
CONSTANTS
  d1 = d1
  d2 = d2
  w1 = w1
  w2 = w2
  Device <- TwoDevices
  Worker <- TwoWorkers
  Home <- WorkerEach
  Entry = {1, 2}
  Stamp = {1, 2}
  RateMax = 2
  MaxDue = 1
  Tui <- NoDevice
SYMMETRY SwapDevices
INVARIANTS
  TypeOK
  VersionHasData
  PullResumes
  PushPublishes
  PushIsCurrent
PROPERTIES
  NothingLost
  OlderMarkSurvives
