SPECIFICATION Spec
CONSTANTS
  Node = Node
  Messages = {Node}
  Plan <- MCPlan
  Declared = {0, 1}
  Root = Node
  Inputs <- DiscardedInputs
  MAX_DEPTH = 2
  MaxNesting = 4
INVARIANT
  MalformedRaises
