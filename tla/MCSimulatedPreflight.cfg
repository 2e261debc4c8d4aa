\* The simulated client against the server, whatever hush_shell its configuration sets.
SPECIFICATION SimSpec
CONSTANTS
  cam1 = cam1
  p1 = p1
  b1 = b1
  Clients = {cam1}
  Client = cam1
  Artifacts = {}
  Peers = {p1}
  Bodies = {b1}
  None = None
  MaxToken = 6
  Rounds = 10
INVARIANTS
  FlowExercised
