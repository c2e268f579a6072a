\* Files of up to two gates, whole, cut anywhere, absent, with unknown gates.
\* The largest circuit whose garbled form fits in 56 words has the two gates,
\* two inputs and one output; with two outputs it does not.
CONSTANTS
  Files <- MCFiles
  Unset = unset
  Words <- MCWords
  Keys <- MCKeys
  Tables <- MCTables
  LIMIT = 56
  Junk = Junk
SPECIFICATION Spec
INVARIANTS
  ChecksTwoInputGates
  CutFileShows
  ProgramArrives
  GarbledArrives
  DamagedUnlessFits
