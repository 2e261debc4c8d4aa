\* The download store and the handler that waits: what is visible, and that waiting ends.
SPECIFICATION FairSpec
CONSTANTS
  k1 = k1
  k2 = k2
  u1 = u1
  u2 = u2
  f = f
  h = h
  Keys = {k1, k2}
  Urls = {u1, u2}
  Dests = {f}
  None = None
  Users = {h}
  Size = 1
  Jobs <- SharedJobs
INVARIANTS
  TypeOK
  DoneIsPublished
  NoHalfWrittenFile
PROPERTIES
  SettledStays
  WaitingEnds
