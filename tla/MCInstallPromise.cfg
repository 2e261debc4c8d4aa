\* However installations go wrong, the original is kept.
SPECIFICATION FairSpec
CONSTANTS
  FlashSize = 4
  Small = 2
  Large = 4
  ProbeSizes <- Doublings
  Requests <- EveryRequest
  Faults <- MostFaults
  MaxInstalls = 2
  None = None
INVARIANTS
  InstallTypeOK
  OriginalKept
PROPERTIES
  PromiseKept
  WrittenAsFetched
  InstallEnds
