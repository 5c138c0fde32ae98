SPECIFICATION FlockFairSpec
CONSTANTS
  Procs = {a, b}
  Opts <- WaitOpts
  MaxRuns = 1
  CmdStatus = {0}
  Nfs = FALSE
PROPERTIES WaitIsLimited
CHECK_DEADLOCK FALSE
