\* Two devices at once: tokens, references and bytes never cross.
SPECIFICATION Spec
CONSTANTS
  Clients = {cam1, cam2}
  Artifacts = {image}
  Peers <- UploadContexts
  Bodies <- UploadBodies
  p1 = p1
  p2 = p2
  b1 = b1
  b2 = b2
  None = None
  MaxToken = 3
SYMMETRY Symmetry
INVARIANTS
  TypeOK
  SessionShape
  TokensExclusive
  RefcountExact
  CapturedBodyIsOwn
  DeliveredBodyIsOwn
PROPERTIES
  LateUploadIsInert
  DeadStaysSilent
  ContractSpec
