SPECIFICATION Spec
CONSTANTS
  Size = 4
  Term = {t1}
  Char = {c}
  Asks = {2}
  Edits = {}
  MaxNested = 1
  t1 = t1
  c = c
INVARIANTS
  LineFits
