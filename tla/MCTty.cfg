\* Two processes that read and write, and the clock.
SPECIFICATION FairSpec
CONSTANTS
  NProc = 2
  MaxDelay = 1
  Terminals = {0}
  TERMINAL_MAX_LINE = 3
  NL = "nl"
  Lines <- TwoLines
  ReadLens = {3}
  WriteLens = {2, 7}
  MaxInput = 5
  MaxWrites = 3
INVARIANTS WriteNotInterleaved ScheduledOnce
PROPERTIES ReadIsStream WriteReturns
