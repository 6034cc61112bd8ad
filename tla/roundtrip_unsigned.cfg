CONSTANTS
  Radix = 16
  MaxGroups = 4
  Weight <- MCWeight
  CharIsSigned = FALSE
  Docs <- MCDocs
  MaxEntries = 200
  IntMax = 30000
  SSO = 15
  Junk = 0
  UnsetNumbers <- MCUnset
  MaxDepth = 6
SPECIFICATION Spec
INVARIANTS
  SupportedComesBack
CHECK_DEADLOCK FALSE
