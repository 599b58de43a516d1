SPECIFICATION ReliableSpec
CONSTANTS
  d1 = d1
  d2 = d2
  w1 = w1
  w2 = w2
  Device <- OneDevice
  Worker <- OneWorker
  Home <- AllOnOne
  Entry = {1, 2}
  Stamp = {1, 2}
  RateMax = 2
  MaxDue = 1
  Tui <- OneDevice
PROPERTIES
  EventuallyPublished
