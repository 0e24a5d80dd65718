\* The codes differ: locks and condition variables work.
SPECIFICATION Spec
CONSTANTS
  NProc = 3
  MaxDelay = 1
  MAX_LOCKS = 2
  MAX_CVARS = 2
  UNUSED_LOCK = 0  FREE_LOCK = 99  UNUSED_CVAR = 0  USED_CVAR = 99
  ReclaimIds = {0, 1, 2, 3, 4}
INVARIANTS QueuedOnce FreeIdsFree
\* A crash stops the machine.
CHECK_DEADLOCK FALSE
