SPECIFICATION Spec
CONSTANTS
  DataStart = 1
  DataEnd = 2
  OrigBrk = 2
  StackBase = 6
  StackSize = 2
  NFrames = 21
  NProc = 2
  UserPages = 2
INVARIANTS OwnStack HeapBacked IdentityMapped FramesDistinct
