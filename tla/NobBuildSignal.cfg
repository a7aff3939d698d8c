CONSTANTS
  mainc = mainc
  utilc = utilc
  header = header
  maino = maino
  utilo = utilo
  app = app
  Cmds <- MCCmds
  Objects <- MCObjects
  Program = app
  Sources <- MCSources
  Inputs <- MCInputs
  MaxJobs <- MCMaxJobs
  Statuses <- MCStatuses
  MaxTime = 3
  MaxEdits = 1
  MaxRuns = 3
SPECIFICATION BuildSpec
INVARIANT SuccessMeansCurrent
CHECK_DEADLOCK FALSE
