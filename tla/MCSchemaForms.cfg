SPECIFICATION Spec
CONSTANTS
  Exact = 2
  Schemas <- SomeSchemas
  Documents <- SomeDocuments
  Files <- SomeFiles
INVARIANTS
  MeaningIsKept
  ParsedSchemasSettle
CHECK_DEADLOCK FALSE
