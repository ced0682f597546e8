SPECIFICATION Spec
CONSTANTS
  Base = 4
  MaxLen = 4
  Weight <- PowersOfFour
  IntHalf = 32
  Items <- TwoItems
  BlockItems = 3
  MaxBlocks = 2
  Slack <- OffByOne
INVARIANTS
  HonestArrayReads
  BlockAligned
CHECK_DEADLOCK FALSE
