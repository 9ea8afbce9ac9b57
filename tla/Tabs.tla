-------------------------------- MODULE Tabs --------------------------------
(***************************************************************************)
(* The tabs of Sourcetrail's main window: TabsController, QtTabsView and   *)
(* the scheduler each tab has.                                             *)
(*                                                                         *)
(* A tab lives on four threads.  The Qt thread owns the tab bar and builds *)
(* and destroys the tabs; the scheduler of the application handles the     *)
(* messages that open and close them; the background scheduler stops the   *)
(* scheduler of a tab that was closed and has it destroyed; and the tab's  *)
(* own scheduler runs its handlers.  The other threads talk to the Qt      *)
(* thread through a functor that holds one call at a time.  Before another *)
(* project is loaded the application waits until all tabs are gone.        *)
(***************************************************************************)
EXTENDS Integers, Sequences, FiniteSets, SequencesExt

CONSTANTS
  MaxTabs,      \* bound: how many tabs there are at a time
  MaxMessages,  \* bound: how many messages wait for the application
  MaxWork,      \* bound: how many messages wait for a tab
  LateStart     \* a tab may be closed before its thread has begun to run

ASSUME TabsAssumption ==
  /\ MaxTabs \in Nat \ {0} /\ MaxMessages \in Nat \ {0} /\ MaxWork \in Nat \ {0}
  /\ LateStart \in BOOLEAN

Ids == 1..MaxTabs
NoTab == 0                 \* tabData(-1).toInt()

Messages == {"open", "close", "finished", "load"}
Nothing == [call |-> "none", tab |-> NoTab]
Call(c) == [call |-> c, tab |-> NoTab]
Destroy(t) == [call |-> "destroy", tab |-> t]
Calls == {Nothing, Call("open"), Call("close"), Call("clear")}
           \cup {Destroy(t) : t \in Ids \cup {NoTab}}

VARIABLES
  bar,        \* the tabs on m_tabBar
  tabs,       \* m_tabs: the tabs that exist
  creating,   \* m_isCreatingTab
  loaded,     \* Application::isProjectLoaded
  messages,   \* what waits for the application's scheduler
  app,        \* where the application's handler is
  call,       \* what the functor's semaphore lets through: one call
  running,    \* the call the Qt thread is executing
  removals,   \* the tasks of the background scheduler: tabs to remove
  stopping,   \* where the background scheduler is with the first of them
  thread,     \* where the thread of each tab's scheduler is
  loop,       \* m_loopIsRunning of each tab's scheduler
  work        \* how many messages wait for each tab

vars == <<bar, tabs, creating, loaded, messages, app, call, running, removals,
          stopping, thread, loop, work>>
schedulers == <<thread, loop, work>>
background == <<removals, stopping>>

Init ==
  /\ bar = {} /\ tabs = {}
  /\ creating = FALSE
  /\ loaded = FALSE
  /\ messages = <<>>
  /\ app = "idle"
  /\ call = Nothing /\ running = Nothing
  /\ removals = <<>>
  /\ stopping = "no"
  /\ thread = [t \in Ids |-> "none"]
  /\ loop = [t \in Ids |-> FALSE]
  /\ work = [t \in Ids |-> 0]
----------------------------------------------------------------------------
(* Messages.                                                               *)

\* The user and the tabs send messages to the application ...
Send ==
  /\ Len(messages) < MaxMessages
  /\ \E m \in {"open", "close", "load"} : messages' = Append(messages, m)
  /\ UNCHANGED <<bar, tabs, creating, loaded, app, call, running, background,
                 schedulers>>

\* ... and to the tabs on the bar.
SendToTab ==
  /\ \E t \in bar : work[t] < MaxWork /\ work' = [work EXCEPT ![t] = @ + 1]
  /\ UNCHANGED <<bar, tabs, creating, loaded, messages, app, call, running,
                 background, thread, loop>>

\* The bound on tabs: a message that would open one more is left out.
Opening == Cardinality({c \in {1} : call = Call("open")})
             + Cardinality({c \in {1} : running = Call("open")})
Room == Cardinality(tabs) + Opening < MaxTabs
----------------------------------------------------------------------------
(* The application's scheduler.                                            *)

Handles(m) == app = "idle" /\ messages # <<>> /\ messages[1] = m

\* m_onQtThread: the semaphore is acquired, the call left for the Qt thread.
Post(c) == call = Nothing /\ call' = c

\* MessageTabOpen, MessageTabOpenWith: the flag is set after the call was left.
TabOpen ==
  /\ Handles("open")
  /\ messages' = Tail(messages)
  /\ IF loaded /\ Room
     THEN Post(Call("open")) /\ app' = "opened"
     ELSE UNCHANGED <<call, app>>
  /\ UNCHANGED <<bar, tabs, creating, loaded, running, background, schedulers>>

SetsCreating ==
  /\ app = "opened"
  /\ creating' = TRUE
  /\ app' = "idle"
  /\ UNCHANGED <<bar, tabs, loaded, messages, call, running, background, schedulers>>

TabClose ==
  /\ Handles("close")
  /\ Post(Call("close"))
  /\ messages' = Tail(messages)
  /\ UNCHANGED <<bar, tabs, creating, loaded, app, running, background, schedulers>>

\* MessageIndexingFinished: the first tab shows all symbols.
IndexingFinished ==
  /\ Handles("finished")
  /\ messages' = IF tabs = {} /\ loaded THEN Append(Tail(messages), "open")
                 ELSE Tail(messages)
  /\ UNCHANGED <<bar, tabs, creating, loaded, app, call, running, background,
                 schedulers>>

\* MessageLoadProject, MessageCloseProject: the old project goes first, then its
\* tabs are cleared.
ProjectGoes ==
  /\ Handles("load")
  /\ loaded' = FALSE
  /\ app' = "clear"
  /\ messages' = Tail(messages)
  /\ UNCHANGED <<bar, tabs, creating, call, running, background, schedulers>>

PostsClear ==
  /\ app = "clear"
  /\ Post(Call("clear"))
  /\ app' = "posted"
  /\ UNCHANGED <<bar, tabs, creating, loaded, messages, running, background,
                 schedulers>>

ResetsCreating ==
  /\ app = "posted"
  /\ creating' = FALSE
  /\ app' = "waiting"
  /\ UNCHANGED <<bar, tabs, loaded, messages, call, running, background, schedulers>>

WaitsForTabs ==
  /\ app = "waiting"
  /\ tabs = {}
  /\ app' = "loading"
  /\ UNCHANGED <<bar, tabs, creating, loaded, messages, call, running, background,
                 schedulers>>

\* There is another project, or none.
Loads ==
  /\ app = "loading"
  /\ loaded' \in BOOLEAN
  /\ messages' = IF loaded' THEN Append(messages, "finished") ELSE messages
  /\ app' = "idle"
  /\ UNCHANGED <<bar, tabs, creating, call, running, background, schedulers>>

App ==
  \/ TabOpen \/ SetsCreating \/ TabClose \/ IndexingFinished
  \/ ProjectGoes \/ PostsClear \/ ResetsCreating \/ WaitsForTabs \/ Loads
----------------------------------------------------------------------------
(* The Qt thread.                                                          *)

\* execute: the semaphore is released before the call is made.
TakesCall ==
  /\ running = Nothing /\ call # Nothing
  /\ running' = call
  /\ call' = Nothing
  /\ UNCHANGED <<bar, tabs, creating, loaded, messages, app, background, schedulers>>

\* insertTab and TabsController::addTab: the tab, its scheduler, the thread that
\* runs it and the first message for it.
InsertTab ==
  LET t == CHOOSE i \in Ids : i \notin tabs IN
  /\ bar' = bar \cup {t}
  /\ tabs' = tabs \cup {t}
  /\ thread' = [thread EXCEPT ![t] = "started"]
  /\ work' = [work EXCEPT ![t] = 1]
  /\ creating' = FALSE
  /\ UNCHANGED <<loaded, messages, app, call, background, loop>>

\* The thread of a tab has begun when the tab can be closed.
Closable(gone) == LateStart \/ \A t \in gone : thread[t] # "started"

MutRemoveTabs(gone) ==        \* leaves it on the bar
  /\ Closable(gone)
  /\ removals' = removals \o SetToSeq(gone)
  /\ UNCHANGED <<bar, tabs, creating, loaded, messages, app, call, stopping,
                 schedulers>>

\* removeTab: the tab goes from the bar, and the background scheduler is asked to
\* remove it.
RemoveTabs(gone) ==
  /\ Closable(gone)
  /\ bar' = bar \ gone
  /\ removals' = removals \o SetToSeq(gone)
  /\ UNCHANGED <<tabs, creating, loaded, messages, app, call, stopping, schedulers>>

\* Without a tab on the bar it is asked to remove a tab there never was; of
\* several such requests that wait one is kept.
RemoveNothing ==
  /\ bar = {}
  /\ removals' = IF Contains(removals, NoTab) THEN removals ELSE Append(removals, NoTab)
  /\ UNCHANGED <<bar, tabs, creating, loaded, messages, app, call, stopping,
                 schedulers>>

MutDestroyTab(t) ==           \* the last tab is not replaced
  /\ tabs' = tabs \ {t}
  /\ UNCHANGED <<bar, creating, loaded, messages, app, call, background, schedulers>>

\* TabsController::destroyTab: the last tab of a loaded project is replaced.
DestroyTab(t) ==
  LET reopens == tabs \ {t} = {} /\ loaded /\ ~ creating IN
  /\ tabs' = tabs \ {t}
  /\ messages' = IF reopens THEN Append(messages, "open") ELSE messages
  /\ creating' = (creating \/ reopens)
  /\ UNCHANGED <<bar, loaded, app, call, background, schedulers>>

RunsCall ==
  /\ \/ running = Call("open") /\ InsertTab
     \/ running = Call("close") /\ (RemoveNothing \/ \E t \in bar : RemoveTabs({t}))
     \/ running = Call("clear") /\ RemoveTabs(bar)
     \/ running.call = "destroy" /\ DestroyTab(running.tab)
  /\ running' = Nothing

\* The buttons on the tab bar; within the bounds, the user does not open tabs
\* faster than the application handles messages.
AddsTab ==
  /\ running = Nothing
  /\ loaded /\ Room
  /\ Len(messages) < MaxMessages
  /\ InsertTab
  /\ UNCHANGED running

ClosesTab ==
  /\ running = Nothing
  /\ \E t \in bar : RemoveTabs({t})
  /\ UNCHANGED running

\* closeTabsToRight takes the tabs from the bar, and tells nobody.
ClosesTabsToRight ==
  /\ running = Nothing
  /\ \E gone \in SUBSET bar \ {{}} : bar' = bar \ gone
  /\ UNCHANGED <<tabs, creating, loaded, messages, app, call, running, background,
                 schedulers>>

Qt == TakesCall \/ RunsCall
User == AddsTab \/ ClosesTab \/ ClosesTabsToRight \/ Send \/ SendToTab
----------------------------------------------------------------------------
(* The background scheduler: the lambda of TabsController::removeTab.      *)

MutStopsLoop ==               \* does not wait for the thread to end
  /\ removals # <<>> /\ stopping = "no"
  /\ stopping' = "stopped"
  /\ loop' = [t \in Ids |-> IF t = removals[1] THEN FALSE ELSE loop[t]]
  /\ UNCHANGED <<bar, tabs, creating, loaded, messages, app, call, running, removals,
                 thread, work>>

MutStopsOnlyTasks ==          \* does not reset the flag
  /\ removals # <<>> /\ stopping = "no"
  /\ stopping' = "waits"
  /\ UNCHANGED <<bar, tabs, creating, loaded, messages, app, call, running, removals,
                 schedulers>>

\* terminateRunningTasks, and stopSchedulerLoop until the flag is reset.
StopsLoop ==
  /\ removals # <<>> /\ stopping = "no"
  /\ stopping' = "waits"
  /\ loop' = [t \in Ids |-> IF t = removals[1] THEN FALSE ELSE loop[t]]
  /\ UNCHANGED <<bar, tabs, creating, loaded, messages, app, call, running, removals,
                 thread, work>>

\* stopSchedulerLoop returns; destroyScheduler.
WaitsForThread ==
  /\ stopping = "waits"
  /\ removals[1] \in Ids => thread[removals[1]] \in {"none", "ended"}
  /\ stopping' = "stopped"
  /\ thread' = [t \in Ids |-> IF t = removals[1] THEN "none" ELSE thread[t]]
  /\ work' = [t \in Ids |-> IF t = removals[1] THEN 0 ELSE work[t]]
  /\ UNCHANGED <<bar, tabs, creating, loaded, messages, app, call, running, removals,
                 loop>>

PostsDestroy ==
  /\ stopping = "stopped"
  /\ Post(Destroy(removals[1]))
  /\ removals' = Tail(removals)
  /\ stopping' = "no"
  /\ UNCHANGED <<bar, tabs, creating, loaded, messages, app, running, schedulers>>

Background == StopsLoop \/ WaitsForThread \/ PostsDestroy
----------------------------------------------------------------------------
(* The scheduler of a tab.                                                 *)

\* startSchedulerLoop sets the flag, whoever has reset it before.
ThreadStarts(t) ==
  /\ thread[t] = "started"
  /\ thread' = [thread EXCEPT ![t] = "idle"]
  /\ loop' = [loop EXCEPT ![t] = TRUE]
  /\ UNCHANGED <<bar, tabs, creating, loaded, messages, app, call, running,
                 background, work>>

TaskBegins(t) ==
  /\ thread[t] = "idle" /\ work[t] > 0 /\ loop[t]
  /\ thread' = [thread EXCEPT ![t] = "busy"]
  /\ UNCHANGED <<bar, tabs, creating, loaded, messages, app, call, running,
                 background, loop, work>>

TaskEnds(t) ==
  /\ thread[t] = "busy"
  /\ thread' = [thread EXCEPT ![t] = "idle"]
  /\ work' = [work EXCEPT ![t] = @ - 1]
  /\ UNCHANGED <<bar, tabs, creating, loaded, messages, app, call, running,
                 background, loop>>

\* What still waits is terminated, or comes too late for that.
ThreadEnds(t) ==
  /\ thread[t] = "idle" /\ ~ loop[t]
  /\ thread' = [thread EXCEPT ![t] = "ended"]
  /\ UNCHANGED <<bar, tabs, creating, loaded, messages, app, call, running,
                 background, loop, work>>

TabThread(t) == ThreadStarts(t) \/ TaskBegins(t) \/ TaskEnds(t) \/ ThreadEnds(t)
----------------------------------------------------------------------------
Next == User \/ App \/ Qt \/ Background \/ \E t \in Ids : TabThread(t)

Spec == Init /\ [][Next]_vars

\* Each thread goes on; the user is not obliged to do anything.
Fairness ==
  /\ WF_vars(App) /\ WF_vars(Qt) /\ WF_vars(Background)
  /\ \A t \in Ids : WF_vars(TabThread(t))

FairSpec == Spec /\ Fairness
----------------------------------------------------------------------------
TypeOK ==
  /\ bar \in SUBSET Ids /\ tabs \in SUBSET Ids
  /\ creating \in BOOLEAN /\ loaded \in BOOLEAN
  /\ messages \in Seq(Messages)
  /\ app \in {"idle", "opened", "clear", "posted", "waiting", "loading"}
  /\ call \in Calls /\ running \in Calls
  /\ removals \in Seq(Ids \cup {NoTab})
  /\ stopping \in {"no", "waits", "stopped"}
  /\ thread \in [Ids -> {"none", "started", "idle", "busy", "ended"}]
  /\ loop \in [Ids -> BOOLEAN]
  /\ work \in [Ids -> 0..MaxWork]

\* A tab is destroyed after its thread has ended: no handler runs without the
\* controllers and views it is for (TabsController::removeTab stops the scheduler
\* before it has the tab destroyed on another thread).
TabOutlivesItsThread ==
  \A t \in Ids : thread[t] # "none" => t \in tabs

\* A tab on the bar exists and has a scheduler that will handle what is sent to
\* it (QtTabsView::removeTab, TabsController::addTab).
TabOnBarIsServed ==
  \A t \in bar : t \in tabs /\ thread[t] \in {"started", "idle", "busy"}

\* The tabs that are on their way out.
Closing ==
  {t \in Ids : \/ \E i \in DOMAIN removals : removals[i] = t
               \/ call = Destroy(t) \/ running = Destroy(t)}
Orphans == tabs \ (bar \cup Closing)

\* To load or to close a project ends: all tabs of the old one go away, unless one
\* was left behind (TabsController::clear waits for them on the thread that
\* handles all messages).
ClearingEnds == app = "waiting" ~> app # "waiting" \/ Orphans # {}

\* A loaded project always gets a tab again when the last one was closed, unless
\* one is believed to be on its way (TabsController::destroyTab, m_isCreatingTab).
LastTabReturns ==
  loaded /\ tabs = {} ~> tabs # {} \/ ~ loaded \/ creating
=============================================================================
