CONSTANTS
    f1 = f1  f2 = f2  s1 = s1  s2 = s2  s3 = s3
    Files <- OneFile
    Symbols <- TwoSymbols
    FileOf <- InFile
    Primary <- FirstIn
    Near <- Around
    Nets = {"none", "orderly", "faulty"}
    MayClose = TRUE
    MaxPending = 2
    MaxTrail = 2
SPECIFICATION Spec
INVARIANTS SpinnerMeansFetch TrailMoves SettledGraphIsActive
PROPERTIES TrailIsKept
