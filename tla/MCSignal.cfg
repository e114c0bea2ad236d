SPECIFICATION FairSpec
CONSTANTS
  a = a
  b = b
  NULL = NULL
  Task = {a, b}
  Installs <- MCInstalls
  Loads = {a}
  Exceptions = {1}
  AlarmTime = 1
  AlarmStep = 1
INVARIANTS
  MaskMatchesHandler
  OwnHandlers
PROPERTIES
  KeptInHandler
  Served
