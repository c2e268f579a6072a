\* Pieces, inputs and outputs of two bytes, any of which may come one short.
CONSTANTS
  Pieces = 2
  BUFSIZE = 2
  ACKSIZE = 1
  GOUTSIZE = 2
  INPSIZE = 2
  OUTSIZE = 2
  Rounds = 2
  Old = Old
  None = None
SPECIFICATION Spec
CHECK_DEADLOCK FALSE
INVARIANTS
  OutOfStepForGood
  RoundsTogether
PROPERTIES
  Completes
