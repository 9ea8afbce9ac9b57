SPECIFICATION FairSpec
CONSTANTS
  MayThrow = TRUE
  MayLock = TRUE
  MaxCrashes = 2
INVARIANTS SavedIndexSurvives IndexIsPure ShownIsSaved FinishedIsSwapped
PROPERTIES IndexingEnds
