\* Two checksums in a script, two starts.
SPECIFICATION FairSpec
CONSTANTS
  Lower <- LowerCase
  None = None
  Worlds <- SomeWorlds
  MinChunk = 1
  MaxRanges = 2
  MaxStarts = 2
CHECK_DEADLOCK FALSE
INVARIANTS
  TypeOK
  PublicIsVisible
  StartPrecedence
  FindsActive
  CrcShown
PROPERTIES
  AnswersMerge
  FindEnds
