\* Nobody leaves. The peers stop at the bound, so the system may come to rest.
CONSTANTS
  NUM_OF_CLIENTS = 2
  Owner <- MCOwner
  Unknown <- MCUnknown
  Peers <- MCPeers
  Junk = Junk
  NULL = NULL
  Chunks = 3
  Rounds = 3
  Scenarios <- MCService
SPECIFICATION Spec
CHECK_DEADLOCK FALSE
INVARIANTS
  TypeOK
  KeyLockstep
  HeapDiscipline
  RoundIntegrity
PROPERTIES
  AllServed
  PromiseSpec
