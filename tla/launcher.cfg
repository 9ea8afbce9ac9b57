SPECIFICATION FairSpec
CONSTANTS
  Jobs <- TwoJobs
  Size <- FewSize
  Chains = {1, 2}
  EnterKey = TRUE
  MayRetract = TRUE
  MayBeSilent = TRUE
  MaxDrops = 1
  MaxKills = 1
INVARIANTS AnalyzingIsWatched
PROPERTIES AnalysisEnds CounterStops
CHECK_DEADLOCK FALSE
