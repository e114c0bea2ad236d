SPECIFICATION FairSpec
CONSTANTS
  NPcb = 3
  NTerm = 2
  NNode = 3
  TimeInit = 20
  TimeInitShell = 10
  TimeDecrease = 10
  Word = 1000
  Command = {"program", "shell"}
  IdlePcb = {2}
  OobIsShowing = FALSE
INVARIANTS
  QuantumBounded
PROPERTIES
  ImplementsTree
  NoOvertaking
  RoundRobin
  TerminalsServed
