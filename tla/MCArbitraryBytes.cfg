SPECIFICATION Spec
CONSTANTS
  Base = 2
  MaxLen = 4
  Weight <- PowersOfTwo
  IntHalf = 4
  Items <- EmptyItem
  MaxBytes = 7
  SourceEnds <- BothEnds
  Layouts <- AllLayouts
  Definitions <- Lists
  MaxNesting = 5
  Plans <- SomePlans
  Tried <- TriedWith
  MaxDecoded = 6
  MaxTail = 2
  Bits = 2
  MaxLength = 5
  Power <- PowersUpTo12
  MaxPrecision = 3
INVARIANTS
  SkippingAgreesWithDraining
  ValuesReadBack
  TornValuesAreReported
  TooLongIsRefused
  DecodedValuesAreValid
  DecodesAsArrayReader
  DecimalRoundTrip
  RoomySchemaNeverRefuses
PROPERTIES
  CutsAreTold
CHECK_DEADLOCK FALSE
