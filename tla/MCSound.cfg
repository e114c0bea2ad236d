SPECIFICATION FairSpec
CONSTANTS
  Chunk = 2
  Lengths = {0, 1, 2, 3, 4, 5, 7, 8}
INVARIANTS
  PlaysInOrder
  CardReleased
  PlaysAllButTail
PROPERTIES
  NeverOverwrites
  PlayerEnds
