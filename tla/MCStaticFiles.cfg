\* Two uploads, a reader, a handler and a download thread on one file.
SPECIFICATION Spec
CONSTANTS
  w1 = w1
  w2 = w2
  Uploads <- TwoUploads
  Handler = handler
  Reads = {r1}
  Size = 3
  MaxVersion = 4
  None = None
SYMMETRY UploadSymmetry
INVARIANTS
  TypeOK
  SettledIsWhole
  CalmReadIsWhole
  NoMix
