\* The codes of include.h.
SPECIFICATION TortureSpec
CONSTANTS
  NProc = 2
  MaxDelay = 0
  MAX_LOCKS = 2
  MAX_CVARS = 2
  UNUSED_LOCK = 0  FREE_LOCK = 0  UNUSED_CVAR = 0  USED_CVAR = 0
  ReclaimIds = {}
  MaxSteps = 4
INVARIANT PrintsAfterSignal
