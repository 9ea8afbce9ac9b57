SPECIFICATION FairSpec
CONSTANTS
  MaxTabs = 2
  MaxMessages = 1
  MaxWork = 1
  LateStart = FALSE
INVARIANTS TabOutlivesItsThread TabOnBarIsServed
PROPERTIES ClearingEnds LastTabReturns
CHECK_DEADLOCK FALSE
