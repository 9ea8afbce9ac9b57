SPECIFICATION Spec
CONSTANTS
  Sources = {"a", "b"}
  Headers = {"h"}
  External = {"x"}
  Symbols = {"n", "m", "k"}
  Texts = {"u", "v", "w"}
  Content <- MCContent
  Sees <- MCSees
  MaxEdits = 2
  Initial <- MCInitial
  Breaks <- MCBreaks
INVARIANTS ConnectionsAreKept
CHECK_DEADLOCK FALSE
