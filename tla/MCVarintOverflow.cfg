SPECIFICATION Spec
CONSTANTS
  Base = 4
  MaxLen = 3
  Weight <- PowersOfFour
  IntHalf = 8
  Items <- EmptyItem
  MaxBytes = 3
  SourceEnds <- Clean
  Layouts <- AllLayouts
  Definitions <- Lists
  MaxNesting = 5
  Plans <- SomePlans
  Tried <- TriedWith
  MaxDecoded = 0
  MaxTail = 0
  Bits = 3
  MaxLength = 3
  Power <- PowersUpTo12
  MaxPrecision = 3
INVARIANT OverflowIsReported
CHECK_DEADLOCK FALSE
