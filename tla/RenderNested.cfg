CONSTANTS
  a = a
  b = b
  zero = zero
  tmpl = tmpl
  full = full
  Byte <- MCByte
  Nul = zero
  Pieces <- MCPieces
  NonString = NonString
  Files <- MCFiles
  NoFile = NoFile
  Absent = Absent
  Start <- MCStart
  Full <- MCFull
  MaxDepth = 3
  MaxSaid = 2
SPECIFICATION Spec
INVARIANTS TypeOK PrintsDelivered
PROPERTY ImplementsPrinting
CHECK_DEADLOCK FALSE
