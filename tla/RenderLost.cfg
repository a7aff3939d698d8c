CONSTANTS
  a = a
  b = b
  zero = zero
  tmpl = tmpl
  full = full
  Byte <- MCByte
  Nul = zero
  Pieces <- MCPieces
  NonString = NonString
  Files <- MCFiles
  NoFile = NoFile
  Absent = Absent
  Start <- MCStart
  Full <- MCFull
  MaxDepth = 2
  MaxSaid = 1
SPECIFICATION Spec
INVARIANT NoPrintLost
CHECK_DEADLOCK FALSE
