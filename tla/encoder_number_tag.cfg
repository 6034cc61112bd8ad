CONSTANTS
  Radix = 128
  MaxGroups = 4
  Weight <- MCWeight
  CharIsSigned = TRUE
  Docs <- NumberDocs
  MaxEncodes = 1
  MaxEntries = 40
  IntMax = 100000
  SSO = 15
  Junk = 0
  UnsetNumbers <- MCUnset
SPECIFICATION Spec
INVARIANTS
  NumbersHaveNoMetadata
CHECK_DEADLOCK FALSE
