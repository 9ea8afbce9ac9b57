CONSTANTS
  Files = {1, 2}
  Procs = {1}
  MultiProcess = TRUE
  Unstable = {1}
  DiesIn = {"index"}
  Executable = {TRUE, FALSE}
  MaxQueue = 2
  MaxWaiting = 1
  MaxStored = 1
  MayInterrupt = TRUE
  MayTerminate = TRUE
SPECIFICATION FairSpec
PROPERTIES ImplementsIndexJob IndexingEnds
