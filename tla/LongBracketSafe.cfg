CONSTANTS
  Char <- MCChar
  Texts <- MCTexts
SPECIFICATION Spec
INVARIANT FlushIsSafe
CHECK_DEADLOCK FALSE
