CONSTANTS
  cc = cc
  ld = ld
  test = test
  Cmds <- MCCmds
  MaxJobs <- MCMaxJobs
  Statuses <- MCStatuses
SPECIFICATION FairSpec
INVARIANTS TypeOK JobLimit ChildrenKnown TakenInOrder NeverStuck
PROPERTIES ReturnMeansDone CallsAdvance CallsEnd
CHECK_DEADLOCK FALSE
