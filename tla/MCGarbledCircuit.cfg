\* Any end of the garbled output may be missing.
CONSTANTS
  MCGates = 2
  Circuits <- MCCircuits
  Unset = unset
  Bits <- MCBits
  LowBits <- MCLowBits
  Stream <- MCStream
  GenKeys <- MCGenKeys
  Tails <- MCTails
  StaleBlocks <- MCStale
SPECIFICATION Spec
INVARIANTS
  TypeOK
  GarblingInv
PROPERTIES
  FailsOnlyIfCut
  PlainSpec
