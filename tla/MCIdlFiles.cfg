CONSTANT Sources <- MCSources
SPECIFICATION FairSpec
INVARIANTS
  FilesReadBack
  DeclarationsAreWhole
  ExtraTokensShow
  TokensInOrder
PROPERTY ParsingEnds
CHECK_DEADLOCK FALSE
