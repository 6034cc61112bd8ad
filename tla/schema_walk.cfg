CONSTANTS
  Radix = 128
  MaxGroups = 4
  Weight <- MCWeight
  CharIsSigned = TRUE
  IntMax = 1000000
  Docs <- MCDocs
  MaxWork = 20
SPECIFICATION Spec
INVARIANTS
  TypeOK
  WalkInOrder
  CyclesNeverEnd
PROPERTIES
  WalkEnds
CHECK_DEADLOCK FALSE
