\* Nobody leaves. The clients stop at the bound, so the system may come to rest.
CONSTANTS
  NUM_OF_CLIENTS = 3
  Peers <- MCPeers
  Unknown <- MCUnknown
  Junk = Junk
  NoCircuit = NoCircuit
  Blocks = {b1, b2, b3}
  Rounds = 3
  Scenarios <- MCService
SPECIFICATION Spec
CHECK_DEADLOCK FALSE
INVARIANTS
  TypeOK
  KeyLockstep
  CircuitKept
  RoundIntegrity
PROPERTIES
  AllServed
  PromiseSpec
