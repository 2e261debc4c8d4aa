\* A repeated WRQ that arrives after the upload is complete.
SPECIFICATION FlowSpec
CONSTANTS
  Clients = {cam1}
  Artifacts = {}
  Peers <- Ports
  Bodies <- UploadBodies
  Whole = Whole
  Part = Part
  None = None
  MaxToken = 3
  MaxTry = 5
  Lossy = TRUE
INVARIANTS
  OkBodyWhole
