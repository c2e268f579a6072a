\* Every valid circuit of two inputs and two gates.
CONSTANTS
  MCGates = 2
  Circuits <- MCCircuits
  Unset = unset
SPECIFICATION Spec
INVARIANTS
  DrivenWiresSet
  ComputesTheFunction
