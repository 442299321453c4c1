SPECIFICATION ResolverSpec
CONSTANTS
  a = a
  b = b
  bad = bad
  common = common
  only = only
  Threads = {t1, t2}
  Keys <- MCKeys
  Decodable <- MCDecodable
  NoThread = NoThread
  NoKey = NoKey
  NoName = NoName
  Names <- MCNames
  Messages <- MCMessages
  Capacity = 1
  MaxCalls = 2
  MaxResolves = 3
INVARIANTS
  AnswersDependOnBytes
  LookedUpOnce
PROPERTIES
  EveryResolveReturns
  DecodersBlockNobody
