SPECIFICATION Spec
CONSTANTS
  NPcb = 4
  NTerm = 2
  NNode = 4
  TimeInit = 10
  TimeInitShell = 10
  TimeDecrease = 10
  Word = 1000
  Command = {"program"}
  IdlePcb = {}
  OobIsShowing = TRUE
VIEW Read
INVARIANTS
  TypeOK
  QueueExact
  WaitDiscipline
  RunnerReady
  ForegroundIsLeaf
  PageOwnership
  TerminalSlots
  CountCovers
  RunnerContext
