CONSTANTS
  Seps <- MCSeps
  Templates <- MCTemplates
SPECIFICATION Spec
INVARIANTS TypeOK OrderKept LineMapAligned CodeLineExact PrintsOnTheirOwnLine SplitAsMeant SplitAtRuns
CHECK_DEADLOCK FALSE
