CONSTANTS
  Radix = 128
  MaxGroups = 4
  Weight <- MCWeight
  CharIsSigned = TRUE
  Docs <- SignedGroup
  MaxEntries = 200
  IntMax = 30000
  SSO = 15
  Junk = 0
  UnsetNumbers <- MCUnset
  MaxDepth = 6
SPECIFICATION Spec
PROPERTIES
  TestPasses
CHECK_DEADLOCK FALSE
