\* Three clients, of which one may leave after a round; the others stop at the bound.
CONSTANTS
  NUM_OF_CLIENTS = 3
  Owner <- MCOwner
  Unknown <- MCUnknown
  Peers <- MCPeers
  Junk = Junk
  NULL = NULL
  Chunks = 1
  Rounds = 2
  Scenarios <- MCAtMostOneLeaves
SPECIFICATION Spec
CHECK_DEADLOCK FALSE
INVARIANTS
  NeverMixed
  OwnInput
