SPECIFICATION FlockFairSpec
CONSTANTS
  Procs = {a, b}
  Opts <- FdOpts
  MaxRuns = 1
  CmdStatus = {0}
  Nfs = TRUE
PROPERTIES InvocationsEnd BlockedWaitIsLimited
CHECK_DEADLOCK FALSE
