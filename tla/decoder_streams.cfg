CONSTANTS
  Radix = 16
  MaxGroups = 4
  Weight <- MCWeight
  CharIsSigned = TRUE
  IntMax = 895
  Sessions <- MCSessions
  CleanDocs <- MCCleanDocs
  MaxDepth = 6
SPECIFICATION HSpec
INVARIANTS
  TypeOK
  PointersAreOld
  CleanStreamsDecode
  WindowsNest
  WindowsAreFilled
  DecodeInvertsWire
  SchemaKeepsLast
PROPERTIES
  DecodeEnds
CHECK_DEADLOCK FALSE
