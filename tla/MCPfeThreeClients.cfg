\* Three clients.
CONSTANTS
  NUM_OF_CLIENTS = 3
  Owner <- MCOwner
  Unknown <- MCUnknown
  Peers <- MCPeers
  Junk = Junk
  NULL = NULL
  Chunks = 1
  Rounds = 2
  Scenarios <- MCService
SPECIFICATION Spec
CHECK_DEADLOCK FALSE
INVARIANTS
  RoundIntegrity
