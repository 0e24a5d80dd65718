\* Everything may fail: Fork for want of frames, programs by faulting.
SPECIFICATION Spec
CONSTANTS
  MaxPid = 4
  MaxDelay = 1
  ExitCodes = {1, 2}
  ForkMayFail = TRUE
  MayFault = TRUE
INVARIANTS TypeOK OnePlace ChildCount NoExitedParent NoLostWakeup WaitStatus ContextMatches
PROPERTY LivesAsPromised
\* KernelForkNull stops the machine.
CHECK_DEADLOCK FALSE
