SPECIFICATION Spec
CONSTANTS
  Size = 3
  Term = {t1, t2}
  Char = {c}
  Asks = {1}
  Edits = {"backspace", "ctrl_c"}
  MaxNested = 1
  t1 = t1
  t2 = t2
  c = c
SYMMETRY Alike
INVARIANTS
  TypeOK
  ReadWellFormed
  NoEnterAhead
