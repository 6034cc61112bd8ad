CONSTANTS
  Radix = 128
  MaxGroups = 4
  Weight <- MCWeight
  CharIsSigned = TRUE
  IntMax = 1000000
  Schemas = {"s", "t"}
  Primitives <- MCPrimitives
  Names <- MCNames
  SchemaName <- MCSchemaName
  MaxSteps = 5
SPECIFICATION Spec
INVARIANTS
  TypeOK
  FieldsInOrder
CHECK_DEADLOCK FALSE
