SPECIFICATION LSpec
CONSTANTS
  PAGESIZE = 16
  MAX_PT_LEN = 8
  POST_ARGV_NULL_SPACE = 1
  INITIAL_STACK_FRAME_SIZE = 0
  Chars <- MCChars
  ArgLists <- MCArgLists
  Files <- MCFiles
INVARIANT ArgsIntact
