SPECIFICATION FairSpec
CONSTANTS
  A = A
  B = B
  C = C
  Struct = Struct
  Color = Color
  choice = choice
  _optional = _optional
  Messages <- MCMessages
  WellKnown <- MCWellKnown
  Enums <- MCEnums
  Scalar = Scalar
  Groups <- MCGroups
  NoGroup = NoGroup
  Schemas <- MCSchemas
  DenseLimit = 4
INVARIANTS
  TypeOK
  OnePlanPerType
  PlansExactlyReachable
  CompletePlansFollowDescriptors
  FieldIndexExact
  OneofsHaveTheirMembers
PROPERTIES
  BuildEnds
