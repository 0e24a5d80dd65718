\* Three processes that fork, exit, wait, delay and read from a terminal.
SPECIFICATION SpecTty
CONSTANTS
  MaxPid = 3
  MaxDelay = 1
  ExitCodes = {1, 2}
  ForkMayFail = FALSE
  MayFault = TRUE
  TERMINAL_MAX_LINE = 2
  MaxLines = 3
INVARIANTS LiveInOnePlace LineHasReader CountedOrMissed
