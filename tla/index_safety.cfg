CONSTANTS
  Files = {1, 2, 3}
  Procs = {1, 2}
  MultiProcess = TRUE
  Unstable = {1}
  DiesIn = {"index"}
  Executable = {TRUE}
  MaxQueue = 2
  MaxWaiting = 1
  MaxStored = 1
  MayInterrupt = FALSE
  MayTerminate = FALSE
SPECIFICATION Spec
INVARIANTS NothingTwice CountIsInjected NothingDropped
