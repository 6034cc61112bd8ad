CONSTANTS
  Radix = 128
  MaxGroups = 4
  Weight <- MCWeight
  CharIsSigned = TRUE
  Docs <- CallDocs
  MaxEncodes = 2
  MaxEntries = 32
  IntMax = 100000
  SSO = 15
  Junk = 0
  UnsetNumbers <- MCUnset
SPECIFICATION Spec
INVARIANTS
  SharingRule
  CyclesNeverReturn
  ScanInside
  ReuseRule
CHECK_DEADLOCK FALSE
