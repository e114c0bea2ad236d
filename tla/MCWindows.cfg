SPECIFICATION Spec
VIEW Read
CONSTANTS
  Dim = 2
  Width = 1
  InitPos <- MCInitPos
  Bar = {1}
  Button <- MCButton
  Writers = {0}
  Exits = {0}
INVARIANTS
  Stacked
  PictureTrue
PROPERTIES
  PressTakesSeen
