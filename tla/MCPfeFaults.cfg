\* Every peer leaves after up to three rounds, and the system comes to rest; or
\* one input is not binary, and any peers leave after two, others stop at the bound.
CONSTANTS
  NUM_OF_CLIENTS = 2
  Owner <- MCOwner
  Unknown <- MCUnknown
  Peers <- MCPeers
  Junk = Junk
  NULL = NULL
  Chunks = 3
  Rounds = 3
  Scenarios <- MCFaults
SPECIFICATION Spec
CHECK_DEADLOCK FALSE
INVARIANTS
  GenuineWhileComplete
  NothingAfterBadInput
PROPERTIES
  AllEnd
  Answered
