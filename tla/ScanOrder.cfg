CONSTANTS
  Seps <- MCSeps
  Templates <- MCTemplates
SPECIFICATION Spec
INVARIANT OrderKeptAlways
CHECK_DEADLOCK FALSE
