SPECIFICATION FairSpec
CONSTANTS
  a = a
  b = b
  Task = {a, b}
  Boot = a
  MaxFrames = 2
  FrameOf <- LinkedAt
INVARIANTS
  SlaveAlone
  ServiceHasHandler
PROPERTIES
  ServiceEnds
