CONSTANTS
  NotString = NotString
  Tokens = {"a", "b", "l", "x", "y", ".", "/", ":", "lib", ".so", "(null)"}
  OldPath <- MCOldPath
  OldCPath <- MCOldCPath
  Names <- MCNames
  LibFiles <- MCLibFiles
  Entries <- MCEntries
  SubSize = 3
  CandSize = 7
  MaxDirs = 2
  Inputs <- MCInputs
  Scripts = {"s"}
  StackRoom = 1
SPECIFICATION Spec
INVARIANTS TypeOK PathsReady ArgsAgree FirstMatch NothingOverlooked
CHECK_DEADLOCK FALSE
