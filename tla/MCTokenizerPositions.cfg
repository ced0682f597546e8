SPECIFICATION Spec
CONSTANTS
  Files <- SomeFiles
  Size <- Sizes
INVARIANT PosIsPositionOfToken
CHECK_DEADLOCK FALSE
