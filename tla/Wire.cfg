SPECIFICATION Spec
CONSTANTS
  Base = 8
  Groups = 2
  Weight <- Weights
  MAX_FIELD_NUMBER = 3
  Fixed32 = 1
  Fixed64 = 2
  Inputs <- MCInputs
INVARIANTS
  NoBitsLost
  ReadsTheGrammar
PROPERTIES
  EachStepReads
