SPECIFICATION Spec
CONSTANTS
  Job = {j1, j2}
  Mirrors <- WebMirrors
  Copies <- NoCopies
  Size = 2
  HashCmd = TRUE
  MaxKills = 0
INVARIANT Verified
