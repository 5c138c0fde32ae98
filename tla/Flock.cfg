SPECIFICATION Spec
CONSTANTS
  Procs = {a, b}
  Opts <- AllOpts
  MaxRuns = 2
  CmdStatus = {0, 137}
  Nfs = FALSE
INVARIANTS MutualExclusion SuccessMeansRan
CHECK_DEADLOCK FALSE
