SPECIFICATION MCSpec
CONSTANTS
  NumFrames = 9
  NumPages = 5
  KStackSize = 1
  KernelPages = 1
  MaxProc = 3
  MaxCalls = 3
  Programs <- SmallAndLarge
INVARIANTS FramesNotShared FramesConserved HeapMapped StaleOnlyGiven
\* The machine stops when KernelFork crashes.
CHECK_DEADLOCK FALSE
