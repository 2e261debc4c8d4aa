\* A network that loses nothing, and a server that restarts.
SPECIFICATION FairFlowSpec
CONSTANTS
  Clients = {cam1}
  Artifacts = {}
  Peers <- Ports
  Bodies <- UploadBodies
  Whole = Whole
  Part = Part
  None = None
  MaxToken = 6
  MaxTry = 12
  Lossy = FALSE
INVARIANTS
  NotStranded
  OkBodyWhole
PROPERTIES
  InstructionEnds
