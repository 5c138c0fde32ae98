SPECIFICATION MCSpec
CONSTANTS
  Pkg = {"p", "q"}
  File <- TwoFile
  Owner <- TwoOwner
  DirOf <- TwoDirOf
  Target <- TwoTarget
  Builds <- TwoBuilds
  MaxKills = 2
  Src = {"Makefile", "patch"}
  Config = {"A", "B"}
  MaxTime = 2
  MaxChanges = 2
  MaxInterrupts = 1
INVARIANTS StampMeansStaged NothingUnlisted NoMkdirClash BuiltFromFiles
