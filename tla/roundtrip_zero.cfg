CONSTANTS
  Radix = 128
  MaxGroups = 4
  Weight <- MCWeight
  CharIsSigned = TRUE
  Docs <- NoBytes
  MaxEntries = 200
  IntMax = 30000
  SSO = 15
  Junk = 0
  UnsetNumbers <- MCUnset
  MaxDepth = 6
SPECIFICATION Spec
INVARIANTS
  StreamsIdentical
CHECK_DEADLOCK FALSE
