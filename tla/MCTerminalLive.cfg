SPECIFICATION FairSpec
CONSTANTS
  Size = 2
  Term = {t1, t2}
  Char = {c}
  Asks = {1}
  Edits = {"ctrl_c"}
  MaxNested = 1
  t1 = t1
  t2 = t2
  c = c
PROPERTIES
  EnterEndsRead
