--------------------------- MODULE ProjectRefresh ---------------------------
(***************************************************************************)
(* How a project of Sourcetrail is loaded, refreshed and indexed: Project, *)
(* the handlers of Application that drive it, and the tasks that surround  *)
(* the indexing (the indexing itself is IndexPipeline).                    *)
(*                                                                         *)
(* Everything runs on the scheduler of the application, one task at a      *)
(* time.  The indexing is a sequence of tasks that is held: after each of  *)
(* its steps it goes to the end of the queue, so that messages are handled *)
(* in between.  It writes into a second database file, which replaces the  *)
(* first one at the end: one file is removed and the other renamed, and    *)
(* the program may be gone between the two.  A file that another process   *)
(* uses cannot be removed, and a task that throws takes all tasks with it. *)
(***************************************************************************)
EXTENDS Integers, Sequences

CONSTANTS
  MayThrow,     \* a task on the application's scheduler may throw
  MayLock,      \* another process may use a database file
  MaxCrashes    \* bound: how often the program is killed

ASSUME ProjectRefreshAssumption ==
  /\ MayThrow \in BOOLEAN
  /\ MayLock \in BOOLEAN
  /\ MaxCrashes \in Nat

\* A database file: missing, without symbols, or with an index that is whole or
\* was interrupted.  A mixed one was begun on what an earlier indexing had left.
File == [is : {"none", "empty", "partial", "whole"}, mixed : BOOLEAN]
Missing == [is |-> "none", mixed |-> FALSE]
Empty == [is |-> "empty", mixed |-> FALSE]

Modes == {"all", "updated", "incomplete"}
States == {"notLoaded", "empty", "loaded", "outdated", "outversioned",
           "migration", "corrupted"}
Stages == {"none", "refreshing", "indexing"}
Tasks == {"load", "reload", "close", "refresh", "start", "cancel", "sequence",
          "swap", "discard", "finished"}
Steps == {"none", "index", "finish", "decide", "done", "again"}
Policies == {"none", "keep", "discard", "refresh"}

VARIABLES
  db,         \* the file getDBFilePath names
  temp,       \* the file getTempDBFilePath names
  project,    \* there is an m_project
  state,      \* m_state
  stage,      \* m_refreshStage
  shown,      \* what the storage cache reads from, Missing if from nothing
  tasks,      \* m_taskRunners of the application's scheduler
  step,       \* where the indexing sequence is; "none" without one
  policy,     \* the databases policy the sequence has on its blackboard
  dialog,     \* the modes the open start dialog offers; {} when none is open
  mode,       \* the mode the user started
  swapping,   \* the running task has removed the old file
  owed,       \* history variable: the index the user kept last is whole
  thrown,     \* history variable: a task has thrown
  locked,     \* history variable: a file was not removed, and nobody noticed
  crashes

vars == <<db, temp, project, state, stage, shown, tasks, step, policy, dialog,
          mode, swapping, owed, thrown, locked, crashes>>
files == <<db, temp, owed, locked>>
memory == <<project, state, stage, shown>>
sequence == <<step, policy>>
user == <<dialog, mode>>
history == <<thrown, crashes>>

\* The program is not running anything.
Quit ==
  /\ project' = FALSE
  /\ state' = "notLoaded"
  /\ stage' = "none"
  /\ shown' = Missing

Init ==
  /\ db = Missing
  /\ temp = Missing
  /\ project = FALSE
  /\ state = "notLoaded"
  /\ stage = "none"
  /\ shown = Missing
  /\ tasks = <<>>
  /\ step = "none"
  /\ policy = "none"
  /\ dialog = {}
  /\ mode = "all"
  /\ swapping = FALSE
  /\ owed = FALSE
  /\ thrown = FALSE
  /\ locked = FALSE
  /\ crashes = 0
----------------------------------------------------------------------------
(* The user.                                                               *)

\* The user sends when no message is waiting and no dialog blocks the window.
Quiet == dialog = {} /\ ~ swapping /\ (tasks = <<>> \/ tasks = <<"sequence">>)

UserSends ==
  /\ Quiet
  /\ \E m \in IF project THEN {"reload", "refresh", "close"} ELSE {"load"} :
       tasks' = Append(tasks, m)
  /\ UNCHANGED <<files, memory, sequence, user, swapping, history>>

\* The start dialog: its answer comes as a task.
DialogStarts ==
  /\ mode' \in dialog
  /\ tasks' = Append(tasks, "start")
  /\ dialog' = {}
  /\ UNCHANGED <<files, memory, sequence, swapping, history>>

DialogCancels ==
  /\ dialog # {}
  /\ tasks' = Append(tasks, "cancel")
  /\ dialog' = {}
  /\ UNCHANGED <<files, memory, sequence, mode, swapping, history>>

\* The program is gone, whatever it was doing.
Crash ==
  /\ crashes < MaxCrashes
  /\ crashes' = crashes + 1
  /\ Quit
  /\ tasks' = <<>>
  /\ step' = "none"
  /\ policy' = "none"
  /\ dialog' = {}
  /\ swapping' = FALSE
  /\ thrown' = FALSE
  /\ UNCHANGED <<files, mode>>
----------------------------------------------------------------------------
(* The files.                                                              *)

Exists(f) == f.is # "none"

\* The file a PersistentStorage opens is there afterwards.
Opened(f) == IF Exists(f) THEN f ELSE Empty

\* FileSystem::remove tells nobody that it failed.
Removed(f) == {Missing} \cup (IF MayLock THEN {f} ELSE {})

\* swapToTempStorageFile: the old file is removed ...
RemoveOld ==
  /\ ~ swapping
  /\ swapping' = TRUE
  /\ db' \in Removed(db)
  /\ locked' = (locked \/ Exists(db'))
  /\ owed' = (temp.is = "whole")
  /\ UNCHANGED temp

\* ... and the other one renamed.  It is not when the old one is still there,
\* and then nothing is thrown; it may also be in use itself, and that throws.
Renamed ==
  ~ Exists(db) /\ db' = Opened(temp) /\ temp' = Missing /\ UNCHANGED locked
NotRenamed ==
  Exists(db) /\ UNCHANGED <<db, temp, locked>>
RenameThrows ==
  MayLock /\ ~ Exists(db) /\ UNCHANGED <<db, temp, locked>>
----------------------------------------------------------------------------
(* The messages.                                                           *)

Rest == Tail(tasks)
Front(task) == tasks # <<>> /\ tasks[1] = task
Runs(task) == Front(task) /\ ~ swapping

MutCloseProject ==            \* closes it
  /\ Runs("close")
  /\ tasks' = Rest
  /\ Quit
  /\ UNCHANGED <<files, sequence, user, swapping, history>>

\* Application: a project that is indexing is not closed.
CloseProject ==
  /\ Runs("close")
  /\ tasks' = Rest
  /\ IF project /\ stage = "indexing" THEN UNCHANGED memory ELSE Quit
  /\ UNCHANGED <<files, sequence, user, swapping, history>>

\* Project::load.  Two files mean that an indexing did not end: the user is asked,
\* and either keeps what it has indexed or discards it.
KeepsTemp ==
  /\ Runs("load")
  /\ Exists(temp) /\ Exists(db)
  /\ RemoveOld
  /\ UNCHANGED <<memory, tasks, sequence, user, history>>

MutDiscardsTemp ==            \* forgets to
  Exists(temp) /\ Exists(db) /\ UNCHANGED <<db, temp, locked>>

DiscardsTemp ==
  /\ Exists(temp) /\ Exists(db)
  /\ temp' \in Removed(temp)
  /\ locked' = (locked \/ Exists(temp'))
  /\ UNCHANGED db

MutFilesFound ==              \* starts anew when there is no database
  IF swapping
  THEN Renamed \/ NotRenamed
  ELSE \/ DiscardsTemp
       \/ /\ ~ (Exists(temp) /\ Exists(db))
          /\ db' = Opened(db) /\ temp' = Missing /\ UNCHANGED locked

FilesFound ==
  IF swapping
  THEN Renamed \/ NotRenamed
  ELSE \/ DiscardsTemp
       \/ Exists(temp) /\ Renamed
       \/ ~ Exists(temp) /\ db' = Opened(db) /\ UNCHANGED <<temp, locked>>

\* The state depends on what the database is found to be.
StatesOf(f) ==
  IF f.is = "empty" THEN {"empty", "migration", "corrupted"}
  ELSE {"loaded", "outdated", "outversioned", "migration", "corrupted"}
Readable(f, s) == f.is # "empty" /\ s \in {"loaded", "outdated", "migration"}

LoadProject ==
  /\ Front("load")
  /\ FilesFound
  /\ project' = TRUE
  /\ stage' = "none"
  /\ state' \in StatesOf(db')
  /\ \E canLoad \in {Readable(db', state')} \cup
                    (IF state' = "migration" THEN {FALSE} ELSE {}) :
       /\ shown' = IF canLoad THEN db' ELSE Missing
       /\ tasks' = Rest \o (IF canLoad THEN <<"finished">> ELSE <<>>)
                        \o (IF state' # "loaded" THEN <<"refresh">> ELSE <<>>)
  /\ swapping' = FALSE
  /\ UNCHANGED <<owed, sequence, user, history>>

\* The settings could not be read, before any file is looked at, or the second file
\* could not be renamed: there is a project, not loaded.
LoadFails ==
  /\ Front("load")
  /\ \/ ~ swapping /\ UNCHANGED <<db, temp, locked>>
     \/ (swapping \/ Exists(temp)) /\ RenameThrows
  /\ project' = TRUE
  /\ state' = "notLoaded"
  /\ shown' = Missing
  /\ tasks' = Rest
  /\ swapping' = FALSE
  /\ UNCHANGED <<owed, stage, sequence, user, history>>

\* Project::refresh opens the start dialog, unless the user answers a question
\* with cancel or a source group cannot be prepared.
NeedsFullRefresh(s) == s \in {"empty", "outversioned", "migration", "corrupted"}

RefreshProject(s) ==
  \/ UNCHANGED <<stage, dialog>>
  \/ /\ project /\ stage = "none" /\ s # "notLoaded"
     /\ stage' = "refreshing"
     /\ dialog' = IF NeedsFullRefresh(s) THEN {"all"} ELSE Modes

Refresh ==
  /\ Runs("refresh")
  /\ RefreshProject(state)
  /\ tasks' = Rest
  /\ UNCHANGED <<files, project, state, shown, sequence, mode, swapping, history>>

\* The user changed the settings of the loaded project.
ReloadProject ==
  /\ Runs("reload")
  /\ IF project /\ stage # "indexing"
     THEN /\ state' = IF state = "loaded" THEN "outdated" ELSE state
          /\ RefreshProject(state')
     ELSE UNCHANGED <<state, stage, dialog>>
  /\ tasks' = Rest
  /\ UNCHANGED <<files, project, shown, sequence, mode, swapping, history>>

CancelRefresh ==
  /\ Runs("cancel")
  /\ stage' = "none"
  /\ tasks' = Rest
  /\ UNCHANGED <<files, project, state, shown, sequence, user, swapping, history>>

\* Project::buildIndex.  There is nothing to index, or the user does not want to
\* index it all: the stage is reset.
NothingToIndex ==
  /\ Runs("start")
  /\ stage # "indexing"
  /\ stage' = "none"
  /\ tasks' = Rest
  /\ UNCHANGED <<files, project, state, shown, sequence, user, swapping, history>>

\* Or the second file is set up: copied from the first one, unless all is indexed.
\* A file that is there already is neither replaced nor cleared.
BeginTemp ==
  IF Exists(temp) THEN [temp EXCEPT !.mixed = @ \/ temp.is # "empty"]
  ELSE IF mode = "all" THEN Empty ELSE Opened(db)

BuildIndex ==
  /\ Runs("start")
  /\ stage # "indexing"
  /\ shown' = db
  /\ temp' = BeginTemp
  /\ step' = "index"
  /\ stage' = "indexing"
  /\ tasks' = Append(Rest, "sequence")
  /\ UNCHANGED <<db, owed, locked, project, state, policy, user, swapping, history>>
----------------------------------------------------------------------------
(* The sequence.  After each step it waits behind the other tasks.         *)

RunsStep(s) == Runs("sequence") /\ step = s
Held == Append(Rest, "sequence")

\* The indexers are at work.
Index ==
  /\ RunsStep("index")
  /\ temp' = [temp EXCEPT !.is = "partial"]
  /\ tasks' = Held
  /\ UNCHANGED <<db, owed, locked, memory, sequence, user, swapping, history>>

\* They have ended, for lack of files or because the user interrupted them.
IndexEnds ==
  /\ RunsStep("index")
  /\ \E is \in {"partial", "whole"} : temp' = [temp EXCEPT !.is = is]
  /\ step' = "finish"
  /\ tasks' = Held
  /\ UNCHANGED <<db, owed, locked, memory, policy, user, swapping, history>>

\* TaskFinishParsing: the report asks whether to keep the index.
FinishParsing ==
  /\ RunsStep("finish")
  /\ policy' \in {"keep", "discard", "refresh"}
  /\ step' = "decide"
  /\ tasks' = Held
  /\ UNCHANGED <<files, memory, user, swapping, history>>

MutDecide ==                  \* goes on first
  /\ RunsStep("decide")
  /\ step' = "done"
  /\ tasks' = Held \o <<IF policy = "discard" THEN "discard" ELSE "swap">>
  /\ UNCHANGED <<files, memory, policy, user, swapping, history>>

\* What is decided is a task of its own, in front of the next step.
Decide ==
  /\ RunsStep("decide")
  /\ step' = "done"
  /\ tasks' = Append(Rest, IF policy = "discard" THEN "discard" ELSE "swap")
                \o <<"sequence">>
  /\ UNCHANGED <<files, memory, policy, user, swapping, history>>

MutTellFinished ==            \* leaves the stage
  /\ RunsStep("done")
  /\ step' = "again"
  /\ tasks' = Append(Held, "finished")
  /\ UNCHANGED <<files, memory, policy, user, swapping, history>>

TellFinished ==
  /\ RunsStep("done")
  /\ step' = "again"
  /\ stage' = "none"
  /\ tasks' = Append(Held, "finished")
  /\ UNCHANGED <<files, project, state, shown, policy, user, swapping, history>>

\* The user asked to index again in depth.
RefreshAgain ==
  /\ RunsStep("again")
  /\ step' = "none"
  /\ policy' = "none"
  /\ tasks' = Rest \o (IF policy = "refresh" THEN <<"refresh">> ELSE <<>>)
  /\ UNCHANGED <<files, memory, user, swapping, history>>

\* swapToTempStorage closes the storage, then swaps the files.
SwapRemoves ==
  /\ Runs("swap")
  /\ RemoveOld
  /\ shown' = Missing
  /\ UNCHANGED <<project, state, stage, tasks, sequence, user, history>>

SwapRenames ==
  /\ Front("swap")
  /\ swapping
  /\ \/ /\ Renamed \/ NotRenamed
        /\ shown' = db'
        /\ state' = "loaded"
     \/ /\ RenameThrows
        /\ state' = "notLoaded"
        /\ UNCHANGED shown
  /\ swapping' = FALSE
  /\ tasks' = Rest
  /\ UNCHANGED <<owed, project, stage, sequence, user, history>>

DiscardTempStorage ==
  /\ Runs("discard")
  /\ temp' \in Removed(temp)
  /\ locked' = (locked \/ Exists(temp'))
  /\ tasks' = Rest
  /\ UNCHANGED <<db, owed, memory, sequence, user, swapping, history>>

\* Application: the views are refreshed.
IndexingFinished ==
  /\ Runs("finished")
  /\ tasks' = Rest
  /\ UNCHANGED <<files, memory, sequence, user, swapping, history>>

\* TaskRunner::update catches what a task throws and has every task that waits
\* terminated.  Of the sequence, TaskFinishParsing::terminate tells that the
\* indexing has finished; the message is lost if it becomes a task too early.
Throws ==
  /\ MayThrow
  /\ tasks # <<>> /\ ~ swapping
  /\ thrown' = TRUE
  /\ \/ tasks' = <<>>
     \/ step \notin {"none", "again"} /\ tasks' = <<"finished">>
  /\ step' = "none"
  /\ policy' = "none"
  /\ UNCHANGED <<files, memory, user, swapping, crashes>>
----------------------------------------------------------------------------
Task ==
  \/ CloseProject \/ KeepsTemp \/ LoadProject \/ LoadFails
  \/ ReloadProject \/ Refresh \/ CancelRefresh \/ NothingToIndex \/ BuildIndex
  \/ Index \/ IndexEnds \/ FinishParsing \/ Decide \/ TellFinished \/ RefreshAgain
  \/ SwapRemoves \/ SwapRenames \/ DiscardTempStorage \/ IndexingFinished

Next == UserSends \/ DialogStarts \/ DialogCancels \/ Crash \/ Task \/ Throws

Spec == Init /\ [][Next]_vars

\* The scheduler's thread takes the next task, and the indexers come to an end
\* (IndexPipeline).  The user owes nothing but an answer to a dialog that blocks
\* a task.
FairSpec == Spec /\ WF_vars(Task) /\ SF_vars(IndexEnds)
----------------------------------------------------------------------------
TypeOK ==
  /\ db \in File /\ temp \in File /\ shown \in File
  /\ project \in BOOLEAN
  /\ state \in States
  /\ stage \in Stages
  /\ tasks \in Seq(Tasks)
  /\ step \in Steps
  /\ policy \in Policies
  /\ dialog \in SUBSET Modes
  /\ mode \in Modes
  /\ swapping \in BOOLEAN /\ owed \in BOOLEAN /\ thrown \in BOOLEAN
  /\ locked \in BOOLEAN
  /\ crashes \in 0..MaxCrashes

\* An index the user has kept, and that was whole, is on the disk until the user
\* keeps another one: when the program dies in the middle of the swap, when it
\* dies or a task throws while the next index is being built, and when what was
\* left is discarded afterwards (Project::load, swapToTempStorageFile).
SavedIndexSurvives ==
  owed /\ ~ locked => db.is = "whole" \/ (~ Exists(db) /\ temp.is = "whole")

\* No index is built on the remains of another one: whenever an indexing begins,
\* the second file is not there (Project::buildIndex neither clears nor replaces
\* it; load, swapToTempStorage and discardTempStorage have to see to it).
IndexIsPure == db.mixed \/ temp.mixed => locked

\* The views read the saved index, of the project that is open: the file under
\* them is never removed or replaced, and none is read after a project has been
\* closed (Application::handleMessage(MessageCloseProject), swapToTempStorage).
ShownIsSaved == shown # Missing => project /\ shown = db

\* When the stage is reset and the views are told, the index the user has decided
\* about is in its place (the order of the tasks in Project::buildIndex).
FinishedIsSwapped ==
  step = "again" /\ state # "notLoaded" /\ ~ locked => ~ Exists(temp)

\* Unless a task throws, an indexing that was started ends, and the project can be
\* closed, refreshed or replaced again.
IndexingEnds == stage = "indexing" ~> (stage = "none" \/ thrown)
=============================================================================
