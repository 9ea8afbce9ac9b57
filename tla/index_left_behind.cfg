CONSTANTS
  Files = {1, 2}
  Procs = {1}
  MultiProcess = TRUE
  Unstable = {1}
  DiesIn = {"index"}
  Executable = {TRUE}
  MaxQueue = 1
  MaxWaiting = 1
  MaxStored = 1
  MayInterrupt = FALSE
  MayTerminate = FALSE
SPECIFICATION Spec
INVARIANTS AllTraced
