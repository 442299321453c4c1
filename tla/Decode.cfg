SPECIFICATION Spec
CONSTANTS
  Node = Node
  Messages = {Node}
  Plan <- MCPlan
  Declared = {0, 1}
  Root = Node
  Inputs <- MCInputs
  MAX_DEPTH = 2
  MaxNesting = 4
INVARIANTS
  OneofExclusive
  RecursionBounded
  DecodesAsReference
  EachTokenReadOnce
PROPERTIES
  EachStepNearsTheEnd
