SPECIFICATION Spec
CONSTANTS
  Base = 4
  MaxLen = 4
  Weight <- PowersOfFour
  IntHalf = 32
  Limit = 3
  MaxWrites = 3
  Items <- ThreeItems
  Preamble <- OneField
INVARIANT WriteErrorsStick
CHECK_DEADLOCK FALSE
