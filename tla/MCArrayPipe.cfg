SPECIFICATION FairSpec
CONSTANTS
  Base = 4
  MaxLen = 4
  Weight <- PowersOfFour
  IntHalf = 32
  Limit = 3
  MaxWrites = 3
  Items <- ThreeItems
  Preamble <- OneField
INVARIANTS
  TypeOK
  YieldsWhatWasWritten
  EndIsTold
  WriteArrayNilMeansComplete
  BufferBounded
  OffsetCounts
PROPERTIES
  NothingAfterFailure
  ImplementsChannel
  EventuallyAnswered
  ClosedIsDelivered
CHECK_DEADLOCK FALSE
