SPECIFICATION Spec
CONSTANTS
  Segments <- Letters
  MaxNodes = 4
  Dotted = TRUE
  Schemas <- SmallSchemas
INVARIANT
  ResolvesAsAvro
CHECK_DEADLOCK FALSE
