\* malloc grows the heap while the program moves the break itself.
SPECIFICATION USpec
CONSTANTS
  PAGESIZE = 16
  BasePage = 1
  data_index = 1
  stack_index = 9
  EndOfProgram = 59
  PRE_STARTUP_HEAPSIZE = 32
  HeaderSize = 6
  NumFrames = 9
  Lens = {1, 30}
  Increments <- MCIncrements
  Addrs = {0, 20, 40, 70, 160}
INVARIANTS BreaksAgree BlocksTile
