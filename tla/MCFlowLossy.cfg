\* A network that loses, repeats and delays.
SPECIFICATION FlowSpec
CONSTANTS
  Clients = {cam1}
  Artifacts = {}
  Peers <- Ports
  Bodies <- UploadBodies
  Whole = Whole
  Part = Part
  None = None
  MaxToken = 4
  MaxTry = 6
  Lossy = TRUE
INVARIANTS
  FlowTypeOK
  ScriptsInOrder
PROPERTIES
  HandlerInStep
