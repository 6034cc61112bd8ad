CONSTANTS
  Radix = 16
  MaxGroups = 4
  Weight <- MCWeight
  CharIsSigned = TRUE
  Values <- MCValues
  MaxLoops = 5
SPECIFICATION Spec
INVARIANTS
  TypeOK
  NegativeNeverEnds
  FitsInGroups
  EncodingIsOperator
  DecodingIsOperator
  VarintRoundTrip
PROPERTIES
  NonNegativeEnds
CHECK_DEADLOCK FALSE
