SPECIFICATION FairSpec
CONSTANTS
  Clients = {c1, c2}
  Once = {c2}
  Pids = {s1, s2}
  LastPort = 1
  Slow = {c2}
  Attempts = 2
  Foreign = TRUE
INVARIANTS RaceIsBenign JobStaysKnown
PROPERTIES StartSettles PollingEnds
CHECK_DEADLOCK FALSE
