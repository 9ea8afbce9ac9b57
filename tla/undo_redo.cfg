SPECIFICATION HistorySpec
CONSTANTS
  Inputs <- SomeCommands
  Values = {"a", "b", "e", "s"}
  Options = {}
  Nameless <- UnknownSymbol
  HistorySize = 2
  MaxCommands = 4
  MaxWaiting = 0
INVARIANTS ShownIsHistory BackAndForthAgree MenuLeadsThere
