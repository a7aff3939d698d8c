CONSTANTS
  IntMax = 15
  InSizes <- MCPlain
  OtherArgs <- MCOther
  Chunks <- MCChunks
  MaxLen = 40
SPECIFICATION Spec
INVARIANTS TypeOK NoOverrun
CHECK_DEADLOCK FALSE
