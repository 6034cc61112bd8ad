CONSTANTS
  Radix = 16
  MaxGroups = 4
  Weight <- MCWeight
  CharIsSigned = TRUE
  Docs <- TreeDocs
  MaxEncodes = 1
  MaxEntries = 40
  IntMax = 30000
  SSO = 40
  Junk = 0
  UnsetNumbers <- MCUnset
SPECIFICATION Spec
INVARIANTS
  TypeOK
  PopsMatchKeys
  LookupsAreFilled
  ScanMeetsChild
  SizesAddUp
  MetadataSizeCounted
  NoPlaceholderLeft
PROPERTIES
  EntriesWrittenOnce
  ImplementsService
  CallsEnd
CHECK_DEADLOCK FALSE
