SPECIFICATION Spec
CONSTANTS
  Base = 4
  MaxLen = 4
  Weight <- PowersOfFour
  IntHalf = 32
  Items <- ThreeItems
  Magic <- TwoBytes
  Fingerprint <- Fingerprints
  Expected = mine
  mine = mine
  other = other
  MaxMessages = 3
INVARIANTS
  DeliversOnlySent
  QuietStreamIsDelivered
  MismatchKeepsPayload
PROPERTIES
  CutHeaderIsTold
CHECK_DEADLOCK FALSE
