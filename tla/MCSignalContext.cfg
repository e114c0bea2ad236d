SPECIFICATION FairSpec
CONSTANTS
  a = a
  b = b
  NULL = NULL
  Task = {a, b}
  Installs <- BothInstall
  Loads = {a,b}
  Exceptions = {1}
  AlarmTime = 1
  AlarmStep = 1
PROPERTIES
  ContextBack
