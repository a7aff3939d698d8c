CONSTANTS
  Starts <- MCStarts
  Picks <- MCPicks
  Chars <- MCChars
  Letters <- MCLetters
  Raw <- MCRaw
  MaxSize = 2
  MaxFile = 1
  MaxWrites = 2
  Renders <- Renderable
  Accepted <- TakenByTeX
SPECIFICATION Spec
INVARIANTS TypeOK ReadsBack ItemsOnOwnLine ParagraphsApart
PROPERTY RaisedLeavesFile
CHECK_DEADLOCK FALSE
