\* Two to four bits of input, in messages of four; numbers of three bits.
CONSTANTS
  ID = 1
  Sizes = {2, 3, 4}
  inputsize = 4
  WIDTH = 3
  Strings <- MCStrings
  Contents <- MCContents
  inputFiles <- MCFiles
  NoFile = NoFile
  iterations = 2
SPECIFICATION Spec
INVARIANTS
  
  NumberComesBack
  OnlyKnownFaults
