CONSTANTS
  Char <- MCChar
  Texts <- MCTexts
SPECIFICATION Spec
INVARIANTS TypeOK LevelCorrect StopsAtEndUnlessHalfClosed PlainTextKept
CHECK_DEADLOCK FALSE
