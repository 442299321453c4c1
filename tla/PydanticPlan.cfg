SPECIFICATION Spec
CONSTANTS
  m1 = m1
  m2 = m2
  m3 = m3
  Models = {m1, m2, m3}
  Threads = {1, 2}
  None = None
  MAX_NESTING = 1
  Schemas <- MCSchemas
INVARIANTS
  PlansExact
  AppliesExactly
  NoneLeftOut
PROPERTY EveryCallReturns
