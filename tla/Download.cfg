SPECIFICATION Spec
CONSTANTS
  Job = {j1}
  Mirrors <- MixedMirrors
  Copies <- MixedCopies
  Size = 2
  HashCmd = TRUE
  MaxKills = 3
INVARIANTS Verified
PROPERTY KeepsWhole
