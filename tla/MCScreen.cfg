SPECIFICATION Spec
VIEW Seen
CONSTANTS
  NTerm = 2
  Char = {"a"}
  Rows = 2
  Cols = 2
INVARIANTS
  UserPageOwn
PROPERTIES
  ImplementsLines
  OutputStaysHome

