------------------------------ MODULE UndoRedo ------------------------------
(***************************************************************************)
(* The back and forward buttons of one tab of Sourcetrail:                 *)
(* UndoRedoController.                                                     *)
(*                                                                         *)
(* The controller listens to what the tab shows and keeps it as a list of  *)
(* commands with an iterator (here: an index) in front of which the        *)
(* present ends.  A command activates something new, adapts what is shown  *)
(* or only moves the view.  To go back it replays a stretch of the list.   *)
(* A replay is not a call: each command is DISPATCHED, so it waits in the  *)
(* tab's queue behind what is already there, and comes back to the         *)
(* controller itself marked as replayed.  Meanwhile an indexing may end,   *)
(* which throws everything but the activations out of the list.            *)
(***************************************************************************)
EXTENDS Integers, Sequences, FiniteSets

CONSTANTS
  Inputs,       \* the commands the user gives, members of Command
  Values,       \* what a command may be about: a node, an edge, a position
  Options,      \* what a trail asks besides its origin and target: its depth
  Nameless,     \* those of the Inputs that the history menu cannot list
  HistorySize,  \* entries of the history menu (historyListSize, 50)
  MaxCommands,  \* bound: commands in the list
  MaxWaiting    \* messages in the queue when the Qt thread sends another: 0
                \* for a user who waits until everything is shown

Activating == {"errors", "fulltext", "legend", "overview", "tokens", "bundle",
               "customTrail"}
Adapting == {"edge", "trail", "trailEdge", "viewMode", "definition",
             "deactivateEdge", "split", "hide", "showError"}
Viewing == {"local", "focus", "expand", "move", "scrollCode", "scrollGraph",
            "reference", "scope", "fileView"}
AllKinds == Activating \cup Adapting \cup Viewing

\* Of these only the last one of a stretch is replayed (replayLastOnly).
LastOnly == {"local", "focus", "scrollCode", "scrollGraph", "reference", "trailEdge"}
\* A second one in a row overwrites the value of the first.
Overwriting == {"local", "scrollCode", "scrollGraph"}
\* A second one in a row is recorded whatever it is about.
Repeating == {"viewMode", "fileView", "split", "hide", "expand", "move", "scope"}

Command == [kind : AllKinds, value : Values \cup {"none"},
            option : Options \cup {"none"}]

\* The menu has two entries at least: the activations that an end of indexing
\* removes could leave one alone without a trace (historyListSize is 50).
\* A legend is about nothing, and only a trail has options.  What is activated by
\* its search matches has no name when there are none: symbols that are unknown
\* to the database, or an overview of no type of symbol.
ASSUME UndoRedoAssumption ==
  /\ Inputs \subseteq Command
  /\ \A c \in Inputs : /\ c.kind = "legend" => c.value = "none"
                       /\ c.kind \notin {"trail", "customTrail"} => c.option = "none"
  /\ Nameless \subseteq Inputs
  /\ \A c \in Nameless : \/ c.kind \in {"tokens", "customTrail"}
                         \/ c.kind = "overview" /\ c.value # "none"
  /\ HistorySize \in Nat \ {0, 1}
  /\ MaxCommands \in Nat \ {0}
  /\ MaxWaiting \in Nat

VARIABLES
  list,       \* m_list
  iter,       \* m_iterator: the commands before this index are what is shown
  offset,     \* m_historyOffset: activations left out before the first entry
  menu,       \* the view's history menu: [entries, current]
  undoOn,     \* the buttons of the view
  redoOn,
  queue,      \* the messages that wait in the scheduler of the tab
  indexing,   \* the project is being indexed
  refreshes,  \* the Qt thread has been asked to refresh the state of the UI
  told        \* history variable: what the tab's other listeners were told
              \* since something was last activated

historyVars ==
  <<list, iter, offset, menu, undoOn, redoOn, queue, indexing, refreshes, told>>
----------------------------------------------------------------------------
(* The list.                                                               *)

IsActivation(c) == c.kind \in Activating
IsView(c) == c.kind \in Viewing

End == Len(list) + 1

\* The first activation at or behind position i, or the end.
NextActivation(i) ==
  IF \E j \in i .. Len(list) : IsActivation(list[j])
  THEN CHOOSE j \in i .. Len(list) :
         IsActivation(list[j]) /\ \A k \in i .. j - 1 : ~ IsActivation(list[k])
  ELSE End

\* The first position at or behind i that is not a mere view, or the end.
NextStep(i) ==
  IF \E j \in i .. Len(list) : ~ IsView(list[j])
  THEN CHOOSE j \in i .. Len(list) :
         ~ IsView(list[j]) /\ \A k \in i .. j - 1 : IsView(list[k])
  ELSE End

\* The last position before i that is not a mere view; 0 if there is none.
PreviousStep(i) ==
  IF \E j \in 1 .. i - 1 : ~ IsView(list[j])
  THEN CHOOSE j \in 1 .. i - 1 :
         ~ IsView(list[j]) /\ \A k \in j + 1 .. i - 1 : IsView(list[k])
  ELSE 0

\* The last activation before i; the front of the list if there is none.
LastActivation(i) ==
  IF \E j \in 1 .. i - 1 : IsActivation(list[j])
  THEN CHOOSE j \in 1 .. i - 1 :
         IsActivation(list[j]) /\ \A k \in j + 1 .. i - 1 : ~ IsActivation(list[k])
  ELSE 1

\* The commands of s at the positions in some, in their order.
Selected(s, some) ==
  LET nth == [n \in 1 .. Cardinality(some) |->
                CHOOSE i \in some : Cardinality({j \in some : j < i}) = n - 1]
  IN  [n \in DOMAIN nth |-> s[nth[n]]]

Replaced(s, i) ==
  /\ s[i].kind \in LastOnly
  /\ \E j \in i + 1 .. Len(s) : s[j].kind = s[i].kind

\* A stretch without the commands a later one of the same kind replaces.
Condensed(s) == Selected(s, {i \in DOMAIN s : ~ Replaced(s, i)})
----------------------------------------------------------------------------
(* The menu.                                                               *)

\* The positions in some, the last one first.
Falling(some) ==
  [n \in 1 .. Cardinality(some) |->
     CHOOSE i \in some : Cardinality({j \in some : j > i}) = n - 1]

\* The positions of the activations of list l, the newest first.
Newest(l) == Falling({i \in DOMAIN l : IsActivation(l[i])})

\* Those that the menu can list.
HasName(c) == c \notin Nameless
Named(l) == Falling({i \in DOMAIN l : IsActivation(l[i]) /\ HasName(l[i])})

First(some) == CHOOSE n \in some : \A m \in some : n <= m
Most(a, b) == IF a < b THEN b ELSE a

MutShowHistory(l, at) ==      \* stops at the current activation
  LET newest == Newest(l)
      named == Named(l)
      ahead == Cardinality({n \in DOMAIN newest : newest[n] >= at})
      full == {n \in DOMAIN named : n >= HistorySize /\ named[n] < at}
      reached == IF full = {} THEN Len(named) ELSE First(full)
      skipped == Most(0, reached - HistorySize)
  IN  /\ offset' = skipped
      /\ menu' = [entries |-> [n \in 1 .. reached - skipped |->
                                 l[named[skipped + n]]],
                  current |-> ahead - skipped]

\* updateHistory walks the list from its end and shows a window of the
\* activations, the newest first.  It goes on until the window is full and
\* the current activation is in it, but is not the last.  An activation
\* without a name is counted and not listed.
ShowHistory(l, at) ==
  LET newest == Newest(l)
      named == Named(l)
      ahead == Cardinality({n \in DOMAIN newest : newest[n] >= at})
      full == {n \in DOMAIN named : n >= HistorySize /\ named[n] < at /\ n # ahead + 1}
      reached == IF full = {} THEN Len(named) ELSE First(full)
      skipped == Most(0, reached - HistorySize)
  IN  /\ offset' = skipped
      /\ menu' = [entries |-> [n \in 1 .. reached - skipped |->
                                 l[named[skipped + n]]],
                  current |-> ahead - skipped]
----------------------------------------------------------------------------
(* The messages.                                                           *)

Said(c) == [is |-> "command", command |-> c, replayed |-> FALSE]
Again(c) == [is |-> "command", command |-> c, replayed |-> TRUE]

Overview == [kind |-> "overview", value |-> "none", option |-> "none"]

\* replayCommand: while the project is indexed the errors are shown under a
\* filter that admits none.
Replayed(c) ==
  IF c.kind = "errors" /\ indexing
  THEN Again([c EXCEPT !.value = "none"])
  ELSE Again(c)

\* replayCommands: positions from .. to - 1 of the list, behind what waits.
Replay(from, to, waiting) ==
  LET stretch == Condensed(SubSeq(list, from, to - 1))
  IN  waiting \o [n \in DOMAIN stretch |-> Replayed(stretch[n])]

\* The filter of the errors is no part of what is compared below.
Unfiltered(c) == IF c.kind = "errors" THEN [c EXCEPT !.value = "none"] ELSE c

\* The same command again, with nothing in between that still counts.
Repeated(s, i) ==
  /\ s[i].kind \notin Repeating
  /\ \E j \in 1 .. i - 1 : /\ s[j] = s[i] /\ ~ Replaced(s, j)
                          /\ \A k \in j + 1 .. i - 1 : Replaced(s, k)

\* What commands add up to: a listener that is told the same twice shows it once.
Settled(s) == Selected(s, {i \in DOMAIN s : ~ Replaced(s, i) /\ ~ Repeated(s, i)})

\* What the other listeners show after one more command.
Told(c) ==
  IF IsActivation(c) THEN <<Unfiltered(c)>>
  ELSE IF told = <<>> THEN <<>>
  ELSE Settled(Append(told, c))

HistoryInit ==
  /\ list = <<>>
  /\ iter = 1
  /\ offset = 0
  /\ menu = [entries |-> <<>>, current |-> -1]
  /\ undoOn = FALSE
  /\ redoOn = FALSE
  /\ queue = <<>>
  /\ indexing = FALSE
  /\ refreshes = {FALSE}
  /\ told = <<>>
----------------------------------------------------------------------------
(* What happens around the controller.                                     *)

Idle == queue = <<>>

PushMessage(m) ==
  /\ queue' = Append(queue, m)
  /\ UNCHANGED <<list, iter, offset, menu, undoOn, redoOn, indexing, refreshes, told>>

\* The mouse's back button and the shortcuts send an undo or a redo whether
\* or not the button is enabled; an entry of the menu that is not the current
\* one asks for its position.
UserActs ==
  /\ Len(queue) <= MaxWaiting
  /\ \/ /\ Len(list) < MaxCommands
        /\ Len(told) < MaxCommands
        /\ \E c \in Inputs : PushMessage(Said(c))
     \/ PushMessage([is |-> "undo"])
     \/ PushMessage([is |-> "redo"])
     \/ \E n \in DOMAIN menu.entries :
          /\ n - 1 # menu.current
          /\ PushMessage([is |-> "position", index |-> n - 1])

IndexingStarts ==
  /\ ~ indexing
  /\ Idle
  /\ refreshes = {}
  /\ indexing' = TRUE
  /\ UNCHANGED <<list, iter, offset, menu, undoOn, redoOn, queue, refreshes, told>>

\* TaskFinishParsing tells that the indexing has ended.
IndexingEnds ==
  /\ indexing
  /\ indexing' = FALSE
  /\ queue' = Append(queue, [is |-> "finished"])
  /\ UNCHANGED <<list, iter, offset, menu, undoOn, redoOn, refreshes, told>>

\* QtMainView::refreshUIState: on the Qt thread, some time later.
QtRefreshes ==
  /\ Len(queue) <= MaxWaiting
  /\ \E after \in refreshes :
       /\ Len(list) <= MaxCommands
       /\ queue' = Append(queue, [is |-> "refresh", after |-> after])
       /\ refreshes' = refreshes \ {after}
  /\ UNCHANGED <<list, iter, offset, menu, undoOn, redoOn, indexing, told>>

\* Another project is loaded: every controller is cleared.
Clear ==
  /\ Idle
  /\ list # <<>>
  /\ list' = <<>>
  /\ iter' = 1
  /\ offset' = 0
  /\ menu' = [entries |-> <<>>, current |-> -1]
  /\ undoOn' = FALSE
  /\ redoOn' = FALSE
  /\ refreshes' = refreshes \cup {FALSE}
  /\ told' = <<>>
  /\ UNCHANGED <<queue, indexing>>
----------------------------------------------------------------------------
(* The handlers.                                                           *)

LastMessage == list[iter - 1]

\* Several kinds of command are one type of message, told apart by flags.
MessageType(k) ==
  CASE k \in {"tokens", "edge", "bundle"} -> "tokens"
    [] k \in {"trail", "customTrail"}     -> "trail"
    [] k \in {"viewMode", "fileView"}     -> "fileView"
    [] OTHER                              -> k

SameMessageTypeAsLast(c) ==
  iter > 1 /\ MessageType(LastMessage.kind) = MessageType(c.kind)

MutKnown(c) ==                \* compares only the type
  SameMessageTypeAsLast(c) /\ c.kind \notin Repeating \cup Overwriting

\* The handler of a kind of message compares it with the last command.  Of a
\* trail only origin and target are compared.
Known(c) ==
  /\ SameMessageTypeAsLast(c)
  /\ c.kind \notin Repeating \cup Overwriting
  /\ c.value = LastMessage.value

Overwrites(c) == SameMessageTypeAsLast(c) /\ c.kind \in Overwriting

\* What processCommand leaves ahead: an activation drops everything, an
\* adaption what adapts and views up to the next activation.
Kept(c) ==
  CASE IsActivation(c) -> <<>>
    [] c.kind \in Adapting -> SubSeq(list, NextActivation(iter), Len(list))
    [] OTHER -> SubSeq(list, iter, Len(list))

\* The forward button stays as it is.
StillAhead(c) == IsView(c) \/ Kept(c) # <<>>

\* The handlers of the commands, and processCommand.  An activation that keeps the
\* content is entered as an adaption: only that of an edge does so, and that is an
\* adaption already (handleMessage(MessageActivateTokens)).
HandleCommand(c) ==
  IF Overwrites(c)
  THEN /\ list' = [list EXCEPT ![iter - 1].value = c.value]
       /\ UNCHANGED <<iter, offset, menu, undoOn, redoOn>>
  ELSE IF Known(c) \/ (iter = 1 /\ ~ IsActivation(c))
  THEN UNCHANGED <<list, iter, offset, menu, undoOn, redoOn>>
  ELSE /\ list' = SubSeq(list, 1, iter - 1) \o <<c>> \o Kept(c)
       /\ iter' = iter + 1
       /\ undoOn' = (undoOn \/ (~ IsView(c) /\ iter > 1))
       /\ redoOn' = (redoOn /\ StillAhead(c))
       /\ IF IsActivation(c)
          THEN ShowHistory(list', iter')
          ELSE UNCHANGED <<offset, menu>>

\* A replayed command is not recorded again.
HandleReplayed(c) ==
  /\ IF IsActivation(c)
     THEN ShowHistory(list, iter)
     ELSE UNCHANGED <<offset, menu>>
  /\ UNCHANGED <<list, iter, undoOn, redoOn>>

GetCommand(m) ==
  /\ m.is = "command"
  /\ queue' = Tail(queue)
  /\ told' = Told(m.command)
  /\ IF m.replayed THEN HandleReplayed(m.command) ELSE HandleCommand(m.command)
  /\ UNCHANGED <<indexing, refreshes>>

RedoTarget == NextStep(iter + 1)

Redo(m) ==
  /\ m.is = "redo"
  /\ IF iter = End
     THEN /\ queue' = Tail(queue)
          /\ UNCHANGED <<list, iter, offset, menu, undoOn, redoOn>>
     ELSE /\ iter' = RedoTarget
          /\ undoOn' = TRUE
          /\ redoOn' = (redoOn /\ iter' # End)
          /\ queue' = Replay(iter, iter', Tail(queue))
          /\ ShowHistory(list, iter')
          /\ UNCHANGED list
  /\ UNCHANGED <<indexing, refreshes, told>>

\* The step before the target decides about the button.  Before the front of
\* the list the loop reads what lies there in memory, and the button may be
\* disabled or not.
MutUndoTarget == iter - 1     \* takes a view for a step
UndoTarget == PreviousStep(iter)

Undo(m) ==
  /\ m.is = "undo"
  /\ \/ /\ list = <<>>
        /\ queue' = Tail(queue)
        /\ UNCHANGED <<iter, offset, menu, undoOn, redoOn>>
     \/ /\ UndoTarget = 1
        /\ undoOn' \in {undoOn, FALSE}
        /\ queue' = Tail(queue)
        /\ UNCHANGED <<iter, offset, menu, redoOn>>
     \/ /\ UndoTarget > 1
        /\ iter' = UndoTarget
        /\ undoOn' = (undoOn /\ PreviousStep(UndoTarget) # 1)
        /\ redoOn' = TRUE
        /\ queue' = Replay(LastActivation(iter'), iter', Tail(queue))
        /\ ShowHistory(list, iter')
  /\ UNCHANGED <<list, indexing, refreshes, told>>

ToPosition(m) ==
  /\ m.is = "position"
  /\ LET newest == Newest(list)
         active == m.index + offset + 1
     IN  /\ IF active <= Len(newest)
            THEN /\ iter' = NextActivation(newest[active] + 1)
                 /\ queue' = Replay(newest[active], iter', Tail(queue))
            ELSE /\ queue' = Tail(queue)
                 /\ UNCHANGED iter
         /\ undoOn' = (Len(newest) > active)
         /\ redoOn' = (iter' # End /\ IsActivation(list[iter']))
         /\ ShowHistory(list, iter')
  /\ UNCHANGED <<list, indexing, refreshes, told>>

\* The nodes of a bundle of edges may be gone: only the other activations stay.
\* The application asks the Qt thread to refresh the UI.
HistoryIndexingFinished(m) ==
  /\ m.is = "finished"
  /\ list' = Selected(list, {i \in DOMAIN list :
                               IsActivation(list[i]) /\ list[i].kind # "bundle"})
  /\ iter' = Len(list') + 1
  /\ refreshes' = refreshes \cup {TRUE}
  /\ queue' = Tail(queue)
  /\ UNCHANGED <<offset, menu, undoOn, redoOn, indexing, told>>

\* The front of the list is never replayed: the overview is shown instead.  So
\* it is after an indexing that left no error, when the errors were shown.
RefreshUIState(m) ==
  /\ m.is = "refresh"
  /\ LET start == LastActivation(iter)
     IN  \/ /\ \/ start = 1
               \/ start # 1 /\ m.after /\ list[start].kind = "errors"
            /\ queue' = Append(Tail(queue), Said(Overview))
         \/ /\ start # 1
            /\ queue' = Replay(start, iter, Tail(queue))
  /\ UNCHANGED <<list, iter, offset, menu, undoOn, redoOn, indexing, refreshes, told>>

Deliver ==
  /\ queue # <<>>
  /\ LET m == Head(queue)
     IN  \/ GetCommand(m) \/ Redo(m) \/ Undo(m) \/ ToPosition(m)
         \/ HistoryIndexingFinished(m) \/ RefreshUIState(m)

HistoryNext ==
  UserActs \/ IndexingStarts \/ IndexingEnds \/ QtRefreshes \/ Clear \/ Deliver

HistorySpec == HistoryInit /\ [][HistoryNext]_historyVars
----------------------------------------------------------------------------
(* Properties.                                                             *)

\* The iterator stands at the end or in front of a command that is more than a
\* view, and never at the front of a list that is not empty.
HistoryTypeOK ==
  /\ list \in Seq(Command)
  /\ iter \in 1 .. End
  /\ iter = 1 => list = <<>>
  /\ iter < End => ~ IsView(list[iter])
  /\ list # <<>> => IsActivation(list[1])
  /\ offset \in Nat
  /\ undoOn \in BOOLEAN
  /\ redoOn \in BOOLEAN

AtRest == queue = <<>> /\ refreshes = {}

\* The commands that lead to what is shown.
Shown ==
  LET start == LastActivation(iter)
  IN  [n \in 1 .. iter - start |-> Unfiltered(list[start + n - 1])]

\* When nothing waits, what the tab shows is what its list says: the commands
\* from the last activation to the iterator (UndoRedoController.cpp:445-491).
\* Broken by replaying a wrong stretch, recording in a wrong place, or a replay
\* that crosses an end of indexing.
ShownIsHistory ==
  AtRest /\ list # <<>> => told = Settled(Shown)

\* The commands that reach the list.
Given == Inputs \cup {Overview}

\* The handlers take no two of them for the same.  Without it a trail with
\* another depth is shown, and the list keeps the one before it.
ToldApart ==
  \A c, d \in Given :
    /\ c.kind \notin Repeating \cup Overwriting
    /\ MessageType(c.kind) = MessageType(d.kind) /\ c.value = d.value
    => c = d

\* Going back and then forward, or forward and then back, leads to where one
\* was, however views are strewn between the steps (UndoRedoController.cpp:
\* 223-247, 300-339).
BackAndForthAgree ==
  list # <<>> =>
    /\ UndoTarget > 1 => NextStep(UndoTarget + 1) = iter
    /\ iter < End => PreviousStep(RedoTarget) = iter

\* The menu still lists a bundle of edges that an end of indexing has removed:
\* nothing redraws it when the overview is all that is left.
Outdated ==
  \E n \in DOMAIN menu.entries :
    /\ menu.entries[n].kind = "bundle"
    /\ \A i \in DOMAIN list : list[i] # menu.entries[n]

\* When nothing waits, an entry of the history menu leads to the command it shows
\* unless an activation that is not listed has shifted the menu, and then to a
\* newer one.  The current one is what is shown, it is in the menu, and so is one
\* further back if there is one (UndoRedoController.cpp:249-298, 635-685).
MenuLeadsThere ==
  AtRest /\ list # <<>> /\ ~ Outdated =>
    LET newest == Newest(list)
        now == menu.current + offset + 1
        AllListed(n) == \A m \in 1 .. n : HasName(list[newest[m]])
    IN  /\ \A n \in DOMAIN menu.entries :
             \E m \in n + offset .. Len(newest) :
               /\ menu.entries[n] = list[newest[m]]
               /\ AllListed(n + offset) => m = n + offset
        /\ now \in DOMAIN newest
        /\ newest[now] = LastActivation(iter)
        /\ AllListed(now) =>
             /\ menu.current + 1 \in DOMAIN menu.entries
             /\ (\E m \in now + 1 .. Len(newest) : HasName(list[newest[m]]))
                  => menu.current + 2 \in DOMAIN menu.entries
=============================================================================
