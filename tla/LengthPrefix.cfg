SPECIFICATION Spec
CONSTANTS
  Bits = 2
  Width = 7
  Power <- MCPower
  Numbers = {1}
  Values <- MCValues
  MaxLength = 15
  MAX_FIELD_NUMBER = 1
  Fixed32 = 1
  Fixed64 = 2
INVARIANTS
  Readable
PROPERTIES
  WritesPrefixed
