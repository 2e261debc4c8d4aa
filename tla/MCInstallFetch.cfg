\* A fetch fails.
SPECIFICATION Spec
CONSTANTS
  FlashSize = 4
  Small = 2
  Large = 4
  ProbeSizes <- Doublings
  Requests <- EveryRequest
  Faults = {"fetch"}
  MaxInstalls = 1
  None = None
INVARIANTS
  FinishedMeansFlashed
