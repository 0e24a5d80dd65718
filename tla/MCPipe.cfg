\* Three processes, pipes that come and go, ids that no pipe has, and the id
\* of the head of the list.
SPECIFICATION Spec
CONSTANTS
  NProc = 3
  MaxDelay = 0
  PIPE_BUFFER_LEN = 2
  HeadId = 10
  MaxPipes = 3
  MaxBytes = 4
  ReadLens = {1, 2}
  WriteLens = {2}
  BadIds = {10, 11, 12, 13}
INVARIANTS NoLostReader PidsKept PipeIdsDistinct
PROPERTY PipeIsStream
\* A crash stops the machine.
CHECK_DEADLOCK FALSE
