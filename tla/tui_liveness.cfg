SPECIFICATION LiveSpec
CONSTANTS
  d1 = d1
  d2 = d2
  w1 = w1
  w2 = w2
  Device <- OneDevice
  Worker <- OneWorker
  Home <- AllOnOne
  Entry = {1, 2}
  Stamp = {1, 2}
  RateMax = 3
  MaxDue = 1
  Tui <- OneDevice
PROPERTIES
  SyncEnds
  EventuallyPublished
  DropAfterRetire
