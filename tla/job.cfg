CONSTANTS
    Before <- NoCalls
    After <- LastAfter
    Jobs = {j1, j2}
    Totals = {1}
    Messages = {"text", "blank"}
    Faults = {"print", "thread", "render"}
SPECIFICATION FairSpec
INVARIANTS TypeOK ToldIsServed DoneCarriesStats ListIsWhole
PROPERTIES StageNeverRegresses VerdictIsFinal ImplementsLifecycle AcceptedIsDone
