CONSTANTS
  Radix = 10
  SelectorWidth = 1
  UsizeMax = 12
  DEPTH = 3
  Bases = {1}
  Inputs <- MCInputs
  Grammars <- MCGrammars
SPECIFICATION Spec
CHECK_DEADLOCK FALSE
INVARIANTS
  StackInitialised
PROPERTIES
  MeasuresRoot
  Terminates
