\* Every client leaves after up to two rounds, and the system comes to rest; or
\* some inputs are not binary, and the clients that stay stop at the bound.
CONSTANTS
  NUM_OF_CLIENTS = 3
  Peers <- MCPeers
  Unknown <- MCUnknown
  Junk = Junk
  NoCircuit = NoCircuit
  Blocks = {b1, b2, b3}
  Rounds = 2
  Scenarios <- MCFaults
SPECIFICATION Spec
CHECK_DEADLOCK FALSE
INVARIANTS
  GenuineIffComplete
PROPERTIES
  AllEnd
