\* Nothing fails: time, and what the comments in KernelWait and KernelExit say.
SPECIFICATION DFairSpec
CONSTANTS
  MaxPid = 3
  MaxDelay = 2
  ExitCodes = {0}
  ForkMayFail = FALSE
  MayFault = FALSE
INVARIANTS ScanLedger WaitOnlyForChildren
PROPERTIES ReadyRuns DelayEnds
