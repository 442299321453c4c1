SPECIFICATION Spec
CONSTANTS
  a = a
  b = b
  c = c
  bad = bad
  Threads = {t1, t2, t3}
  Keys <- MCKeys
  Decodable <- MCDecodable
  NoThread = NoThread
  NoKey = NoKey
  Capacity = 2
  MaxCalls = 5
SYMMETRY ThreadSymmetry
INVARIANTS
  TypeOK
  PoolOfOwnBytes
  OnePoolPerResidence
  MostRecentlyUsedKept
PROPERTIES
  RefinesMemo
