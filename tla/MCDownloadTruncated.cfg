\* A connection that is closed early passes for a complete payload.
SPECIFICATION Spec
CONSTANTS
  k1 = k1
  k2 = k2
  u1 = u1
  u2 = u2
  f = f
  h = h
  Keys = {k1, k2}
  Urls = {u1, u2}
  Dests = {f}
  None = None
  Users = {h}
  Size = 2
  Jobs <- OneJob
INVARIANTS
  PayloadComplete
