SPECIFICATION Spec
CONSTANTS
  Files <- SomeFiles
  Size <- Sizes
INVARIANTS
  PositionsAreRight
  TokensAreLexemes
  NothingIsLost
CHECK_DEADLOCK FALSE
