SPECIFICATION FairSpec
CONSTANTS
  Segments <- Letters
  MaxNodes = 4
  Dotted = FALSE
  Schemas <- SmallSchemas
INVARIANTS
  TypeOK
  RefsAreBound
  UnionBranchesDistinct
  ResolvesAsAvro
PROPERTIES
  CompilationEnds
CHECK_DEADLOCK FALSE
