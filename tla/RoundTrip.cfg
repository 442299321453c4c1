SPECIFICATION Spec
CONSTANTS
  Node = Node
  Zero_ = Zero_
  One = One
  Seven = Seven
  Messages = {Node}
  Plan <- MCPlan
  Declared = {0, 1}
  Root = Node
  Names <- MCNames
  Objects <- MCObjects
  MAX_DEPTH = 2
INVARIANTS
  RoundTrips
  RefusesExactly
  CanonicalOutput
