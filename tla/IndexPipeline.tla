--------------------------- MODULE IndexPipeline ---------------------------
(***************************************************************************)
(* The indexing part of the task tree Project::buildIndex puts together    *)
(* (Sourcetrail): four tasks run in threads of their own.                  *)
(*   TaskFillIndexerCommandsQueue keeps the shared command queue filled;   *)
(*   TaskBuildIndex starts one indexer per thread, a process that is       *)
(*     started again when it dies or a loop in this process, and fetches   *)
(*     the storages the indexers leave in shared memory;                   *)
(*   TaskMergeStorages merges fetched storages;                            *)
(*   TaskInjectStorage writes them to the temporary database.              *)
(* A last TaskInjectStorage writes what is left when all four have ended.  *)
(*                                                                         *)
(* A command is the number of its source file in the order in which the    *)
(* provider hands commands out, so a FIFO queue of commands is the set of  *)
(* their numbers, taken at its least one.  A storage is the set of the    *)
(* records it holds.  Sizes of storages are abstracted: any storage may be *)
(* the largest one.  Shared memory is accessed under its mutex: one access *)
(* is one step, joined with the local steps before it and with a read that *)
(* nobody can outdate to the reader's harm (the fill level of the queue).  *)
(***************************************************************************)
EXTENDS Integers, Sequences, FiniteSets

CONSTANTS Files,       \* the indexer commands: 1 .. n
          Procs,       \* ids of the indexers: 1 .. m (0 is the main process)
          MultiProcess,\* indexers are processes (TRUE) or threads (FALSE)
          Unstable,    \* indexers whose process may die
          DiesIn,      \* the steps of an indexer in which it may die
          MaxQueue,    \* commands the queue may hold (20 in buildIndex)
          MaxWaiting,  \* storages an indexer may leave unfetched (2)
          MaxStored,   \* fetched storages that stop the fetching (10)
          Executable,  \* whether the indexer executable exists: a set of possible answers
          MayInterrupt,\* the user may press Stop
          MayTerminate \* the scheduler may terminate the tasks

ASSUME Sizes == /\ Files \subseteq Nat /\ IsFiniteSet(Files)
                /\ Procs \subseteq Nat \ {0} /\ IsFiniteSet(Procs)
                /\ MaxQueue \in Nat \ {0}
                /\ MaxWaiting \in Nat \ {0} /\ MaxStored \in Nat
ASSUME Modes == /\ MultiProcess \in BOOLEAN
                /\ Executable \subseteq BOOLEAN /\ (MultiProcess \/ FALSE \notin Executable)
                /\ MayInterrupt \in BOOLEAN /\ MayTerminate \in BOOLEAN
                /\ Unstable \subseteq Procs
                /\ DiesIn \subseteq {"pop", "wait", "index", "finish"}

Record == Files \X {"index", "crash"}
Index(f) == {<<f, "index">>}
Oldest(S) == {x \in S : \A y \in S : x <= y}
FirstN(S, n) == {x \in S : Cardinality({y \in S : y < x}) < n}

VARIABLES
  phase,        \* "parallel", "remaining", "done" or "failed": the task sequence
  provider,     \* commands still in m_indexerCommandProvider
  queue,        \* commands in the shared queue
  fillPc, fillKilled,      \* TaskFillIndexerCommandsQueue and its m_interrupted
  queueStarted, queueStopped, threadsStarted, threadsStopped, \* the blackboard
  buildPc, popped,  \* TaskBuildIndex; poppedStorageCount > 0
  stoppedSeen,  \* m_indexerCommandQueueStopped
  interrupted,  \* m_interrupted
  flagged,      \* "interrupted_indexing" on the blackboard
  running,      \* m_runningThreadCount
  count,        \* "indexed_source_file_count" on the blackboard
  exe,          \* the indexer executable exists
  thr, result,  \* the thread of each indexer and the exit code it last saw
  ipc, hand, awake,  \* each indexer: its step, its command, updaterThreadRunning
  current, crashed, finished, stop, \* shared: current_files, crashed_files,
                                    \* finished_process_ids, indexing_interrupted_flag
  storages,     \* shared: the commands whose storages wait, per indexer
  sp,           \* the StorageProvider
  mergePc, target, source, \* TaskMergeStorages and the storages in its hands
  injectPc, taken,         \* TaskInjectStorage and the storage in its hands
  db,           \* the records in the temporary database
  intPc         \* how many listeners have handled MessageIndexingInterrupted

runVars == <<phase, interrupted, exe, stop, intPc>>
fillVars == <<provider, fillPc, fillKilled, queueStarted, queueStopped>>
buildVars == <<buildPc, popped, stoppedSeen, flagged, count, threadsStarted, threadsStopped>>
procVars == <<thr, result, ipc, hand, awake, running>>
statusVars == <<current, crashed, finished, storages>>
mergeVars == <<mergePc, target, source>>
injectVars == <<injectPc, taken, db>>
taskVars == <<fillVars, buildVars, mergeVars, injectVars>>
vars == <<runVars, queue, sp, taskVars, procVars, statusVars>>

Init ==
  /\ phase = "parallel" /\ provider = Files /\ queue = {}
  /\ fillPc = "enter" /\ fillKilled = FALSE
  /\ queueStarted = FALSE /\ queueStopped = FALSE
  /\ threadsStarted = FALSE /\ threadsStopped = FALSE
  /\ buildPc = "blocked" /\ popped = FALSE
  /\ stoppedSeen = FALSE /\ interrupted = FALSE /\ flagged = FALSE
  /\ running = 0 /\ count = 0 /\ exe \in Executable
  /\ thr = [p \in Procs |-> "off"] /\ result = [p \in Procs |-> 1]
  /\ ipc = [p \in Procs |-> "pop"] /\ hand = [p \in Procs |-> {}]
  /\ awake = [p \in Procs |-> FALSE]
  /\ current = [p \in Procs |-> {}] /\ crashed = {} /\ finished = <<>>
  /\ stop = FALSE /\ storages = [p \in Procs |-> {}]
  /\ sp = {} /\ mergePc = "blocked" /\ target = {} /\ source = {}
  /\ injectPc = "blocked" /\ taken = {} /\ db = {} /\ intPc = 0

-----------------------------------------------------------------------------
(* TaskFillIndexerCommandsQueue *)

\* fillCommandQueue, under m_commandsMutex.
Batch == FirstN(provider, MaxQueue - Cardinality(queue))
Refill == queue' = queue \cup Batch /\ provider' = provider \ Batch

FillEnter ==
  /\ fillPc = "enter"
  /\ Refill
  /\ queueStarted' = TRUE
  /\ fillPc' = "update"
  /\ UNCHANGED <<runVars, sp, fillKilled, queueStopped, buildVars, procVars, statusVars,
                 mergeVars, injectVars>>

FillUpdate ==
  /\ fillPc = "update" /\ ~fillKilled
  /\ Batch # {}
  /\ Refill
  /\ UNCHANGED <<runVars, sp, fillPc, fillKilled, queueStarted, queueStopped, buildVars,
                 procVars, statusVars, mergeVars, injectVars>>

\* Nothing is left to provide, or the task was terminated; doExit.
FillExit ==
  /\ fillPc = "update" /\ (fillKilled \/ provider = {})
  /\ queueStopped' = TRUE
  /\ fillPc' = "done"
  /\ UNCHANGED <<runVars, queue, sp, provider, fillKilled, queueStarted, buildVars, procVars,
                 statusVars, mergeVars, injectVars>>

Fill == FillEnter \/ FillUpdate \/ FillExit

-----------------------------------------------------------------------------
(* TaskBuildIndex *)

BuildEnter ==
  /\ buildPc = "blocked" /\ queueStarted
  /\ stop' = FALSE
  /\ running' = Cardinality(Procs)
  /\ thr' = [p \in Procs |-> IF MultiProcess THEN "loop" ELSE "work"]
  /\ awake' = [p \in Procs |-> ~MultiProcess]
  /\ threadsStarted' = TRUE
  /\ buildPc' = "update"
  /\ UNCHANGED <<phase, interrupted, exe, intPc, queue, sp, fillVars, popped, stoppedSeen,
                 flagged, count, threadsStopped, result, ipc, hand, statusVars, mergeVars,
                 injectVars>>

\* doUpdate; it fetches nothing as long as too many storages wait to be injected.
BuildUpdate ==
  /\ buildPc = "update"
  /\ stoppedSeen' = queueStopped
  /\ \/ /\ queueStopped /\ running = 0
        /\ buildPc' = "join" /\ UNCHANGED <<flagged, popped>>
     \/ /\ ~(queueStopped /\ running = 0) /\ interrupted
        /\ buildPc' = "join" /\ flagged' = TRUE /\ UNCHANGED popped
     \/ /\ ~(queueStopped /\ running = 0) /\ ~interrupted
        /\ buildPc' = (IF Cardinality(sp) > MaxStored THEN "update" ELSE "fetch")
        /\ popped' = FALSE /\ UNCHANGED flagged
  /\ UNCHANGED <<runVars, queue, sp, fillVars, count, threadsStarted, threadsStopped, procVars,
                 statusVars, mergeVars, injectVars>>

\* doExit waits for the threads; an interrupted run fetches nothing more.
BuildJoin ==
  /\ buildPc = "join" /\ \A p \in Procs : thr[p] = "returned"
  /\ buildPc' = IF interrupted THEN "report" ELSE "drain"
  /\ UNCHANGED <<runVars, queue, sp, fillVars, popped, stoppedSeen, flagged, count,
                 threadsStarted, threadsStopped, procVars, statusVars, mergeVars, injectVars>>

\* doExit calls fetchIntermediateStorages again and again.
DrainBegin ==
  /\ buildPc = "drain" /\ Cardinality(sp) <= MaxStored
  /\ buildPc' = "drainPop"
  /\ popped' = FALSE
  /\ UNCHANGED <<runVars, queue, sp, fillVars, stoppedSeen, flagged, count, threadsStarted,
                 threadsStopped, procVars, statusVars, mergeVars, injectVars>>

\* Where a call of fetchIntermediateStorages returns to.
Returned(any) == IF buildPc = "fetch" THEN "update" ELSE IF any THEN "drain" ELSE "report"

\* One storage of the process that finished first; the call may return (after
\* 500 ms) or go on.
FetchPop ==
  /\ buildPc \in {"fetch", "drainPop"} /\ finished # <<>>
  /\ \E f \in Oldest(storages[Head(finished)]) :
        /\ storages' = [storages EXCEPT ![Head(finished)] = @ \ {f}]
        /\ sp' = sp \cup {Index(f)}
  /\ finished' = Tail(finished)
  /\ popped' = TRUE
  /\ count' = count + 1
  /\ buildPc' \in {buildPc, Returned(TRUE)}
  /\ UNCHANGED <<runVars, queue, fillVars, stoppedSeen, flagged, threadsStarted, threadsStopped,
                 procVars, current, crashed, mergeVars, injectVars>>

\* No process has finished, or the one that has left no storage.
FetchBreak ==
  /\ buildPc \in {"fetch", "drainPop"}
  /\ \/ finished = <<>> /\ UNCHANGED finished
     \/ finished # <<>> /\ storages[Head(finished)] = {} /\ finished' = Tail(finished)
  /\ buildPc' = Returned(popped)
  /\ UNCHANGED <<runVars, queue, sp, fillVars, popped, stoppedSeen, flagged, count,
                 threadsStarted, threadsStopped, procVars, current, crashed, storages,
                 mergeVars, injectVars>>

\* getCrashedSourceFilePaths: the files whose indexer died and the last ones begun.
MutCrashedFiles == crashed
CrashedFiles == crashed \cup (UNION {current[p] : p \in Procs})

\* One storage records an error for every such file.
BuildReport ==
  /\ buildPc = "report"
  /\ sp' = sp \cup ({{<<f, "crash">> : f \in CrashedFiles}} \ {{}})
  /\ buildPc' = "exit"
  /\ UNCHANGED <<runVars, queue, fillVars, popped, stoppedSeen, flagged, count, threadsStarted,
                 threadsStopped, procVars, statusVars, mergeVars, injectVars>>

BuildExit ==
  /\ buildPc = "exit"
  /\ threadsStopped' = TRUE
  /\ buildPc' = "done"
  /\ UNCHANGED <<runVars, queue, sp, fillVars, popped, stoppedSeen, flagged, count,
                 threadsStarted, procVars, statusVars, mergeVars, injectVars>>

Build == BuildEnter \/ BuildUpdate \/ BuildJoin \/ DrainBegin
           \/ FetchPop \/ FetchBreak \/ BuildReport \/ BuildExit

-----------------------------------------------------------------------------
(* The threads of TaskBuildIndex, one per indexer *)

\* runIndexerProcess gives up before the loop when the executable is missing,
\* and then leaves m_runningThreadCount as it is.
ThreadGivesUp(p) ==
  /\ thr[p] = "loop" /\ ~exe
  /\ interrupted' = TRUE
  /\ thr' = [thr EXCEPT ![p] = "returned"]
  /\ UNCHANGED <<phase, exe, stop, intPc, queue, sp, result, ipc, hand, awake, running,
                 statusVars, taskVars>>

MutGoesOn(p) == ~stoppedSeen \/ result[p] # 0
GoesOn(p) == (~stoppedSeen \/ result[p] # 0) /\ ~interrupted

\* A process is started, or InterprocessIndexer::work is called again.
ThreadLoops(p) ==
  /\ thr[p] = "loop" /\ exe /\ GoesOn(p)
  /\ thr' = [thr EXCEPT ![p] = "work"]
  /\ awake' = [awake EXCEPT ![p] = TRUE]
  /\ UNCHANGED <<runVars, queue, sp, result, ipc, hand, running, statusVars, taskVars>>

ThreadEnds(p) ==
  /\ thr[p] = "loop" /\ exe /\ ~GoesOn(p)
  /\ thr' = [thr EXCEPT ![p] = "returned"]
  /\ running' = running - 1
  /\ UNCHANGED <<runVars, queue, sp, result, ipc, hand, awake, statusVars, taskVars>>

Thread(p) == ThreadGivesUp(p) \/ ThreadLoops(p) \/ ThreadEnds(p)

-----------------------------------------------------------------------------
(* InterprocessIndexer::work *)

At(p, step) == thr[p] = "work" /\ ipc[p] = step

\* work returns, or the process ends, with an exit code; what it has in hand is dropped.
Leaves(leaving, code) ==
  /\ thr' = [p \in Procs |-> IF p \in leaving THEN "loop" ELSE thr[p]]
  /\ result' = [p \in Procs |-> IF p \in leaving THEN code ELSE result[p]]
  /\ hand' = [p \in Procs |-> IF p \in leaving THEN {} ELSE hand[p]]
  /\ ipc' = [p \in Procs |-> IF p \in leaving THEN "pop" ELSE ipc[p]]
  /\ awake' = [p \in Procs |-> p \notin leaving /\ awake[p]]

PopCommand(p) ==
  /\ At(p, "pop")
  /\ hand' = [hand EXCEPT ![p] = Oldest(queue)]
  /\ queue # {} /\ queue' = queue \ Oldest(queue)
  /\ ipc' = [ipc EXCEPT ![p] = "wait"]
  /\ UNCHANGED <<runVars, sp, thr, result, awake, running, statusVars, taskVars>>

\* No command is left, or the interruption was noticed while waiting.
IndexerReturns(p) ==
  /\ \/ At(p, "pop") /\ queue = {}
     \/ At(p, "wait") /\ ~awake[p]
  /\ Leaves({p}, 0)
  /\ UNCHANGED <<runVars, queue, sp, running, statusVars, taskVars>>

\* Back-pressure: an indexer whose storages are not fetched waits.  Then
\* startIndexingSourceFile takes a file the predecessor left for a crashed one.
StartFile(p) ==
  /\ At(p, "wait") /\ awake[p] /\ Cardinality(storages[p]) < MaxWaiting
  /\ crashed' = crashed \cup current[p]
  /\ current' = [current EXCEPT ![p] = hand[p]]
  /\ ipc' = [ipc EXCEPT ![p] = "index"]
  /\ UNCHANGED <<runVars, queue, sp, thr, result, hand, awake, running, finished, storages,
                 taskVars>>

\* An indexer that was told to stop returns no storage to push.
IndexFile(p) ==
  /\ At(p, "index")
  /\ storages' = [storages EXCEPT ![p] = IF awake[p] THEN @ \cup hand[p] ELSE @]
  /\ hand' = [hand EXCEPT ![p] = {}]
  /\ ipc' = [ipc EXCEPT ![p] = "finish"]
  /\ UNCHANGED <<runVars, queue, sp, thr, result, awake, running, current, crashed, finished,
                 taskVars>>

\* finishIndexingSourceFile erases from the process' entry to the end of the map.
MutErased(p) == Procs
Erased(p) == IF current[p] = {} THEN {} ELSE {q \in Procs : q >= p}
FinishFile(p) ==
  /\ At(p, "finish")
  /\ current' = [q \in Procs |-> IF q \in Erased(p) THEN {} ELSE current[q]]
  /\ finished' = Append(finished, p)
  /\ ipc' = [ipc EXCEPT ![p] = "pop"]
  /\ UNCHANGED <<runVars, queue, sp, thr, result, hand, awake, running, crashed, storages,
                 taskVars>>

\* The updater thread of work looks at the shared flag once a second.
NoticeInterrupt(p) ==
  /\ thr[p] = "work" /\ awake[p] /\ stop
  /\ awake' = [awake EXCEPT ![p] = FALSE]
  /\ UNCHANGED <<runVars, queue, sp, thr, result, ipc, hand, running, statusVars, taskVars>>

\* The process dies; what it wrote to shared memory stays.
Die(p) ==
  /\ MultiProcess /\ p \in Unstable
  /\ thr[p] = "work" /\ ipc[p] \in DiesIn
  /\ Leaves({p}, 1)
  /\ UNCHANGED <<runVars, queue, sp, running, statusVars, taskVars>>

Indexer(p) == PopCommand(p) \/ IndexerReturns(p) \/ StartFile(p) \/ IndexFile(p) \/ FinishFile(p)

-----------------------------------------------------------------------------
(* TaskMergeStorages, repeated while it or the test of the blackboard succeeds *)

MergeBegins ==
  /\ mergePc = "blocked" /\ threadsStarted
  /\ mergePc' = "check"
  /\ UNCHANGED <<runVars, queue, sp, fillVars, buildVars, procVars, statusVars, target, source,
                 injectVars>>

MergeCheck ==
  /\ mergePc = "check"
  /\ mergePc' = IF Cardinality(sp) > 2 THEN "target" ELSE "test"
  /\ UNCHANGED <<runVars, queue, sp, fillVars, buildVars, procVars, statusVars, target, source,
                 injectVars>>

\* consumeSecondLargestStorage leaves the last storage alone.
Consumed == IF Cardinality(sp) > 1 THEN sp ELSE {{}}

MergeTake ==
  /\ mergePc \in {"target", "source"}
  /\ \E s \in Consumed :
       /\ sp' = sp \ {s}
       /\ IF mergePc = "target" THEN target' = s /\ UNCHANGED source
                                ELSE source' = s /\ UNCHANGED target
  /\ mergePc' = IF mergePc = "target" THEN "source" ELSE "insert"
  /\ UNCHANGED <<runVars, queue, fillVars, buildVars, procVars, statusVars, injectVars>>

\* Both were there: the target has swallowed the source.  Else what was taken goes back.
MutMergedKeeps == IF target # {} /\ source # {} THEN {target \cup source, source}
                                             ELSE {target, source} \ {{}}
MutMergedLoses == {target} \ {{}}
Merged == (IF target # {} /\ source # {} THEN {target \cup source} ELSE {target, source}) \ {{}}
MergeInsert ==
  /\ mergePc = "insert"
  /\ sp' = sp \cup Merged
  /\ mergePc' = IF target # {} /\ source # {} THEN "check" ELSE "test"
  /\ target' = {} /\ source' = {}
  /\ UNCHANGED <<runVars, queue, fillVars, buildVars, procVars, statusVars, injectVars>>

MergeTest ==
  /\ mergePc = "test"
  /\ mergePc' = IF threadsStopped THEN "done" ELSE "check"
  /\ UNCHANGED <<runVars, queue, sp, fillVars, buildVars, procVars, statusVars, target, source,
                 injectVars>>

Merge == MergeBegins \/ MergeCheck \/ MergeTake \/ MergeInsert \/ MergeTest

-----------------------------------------------------------------------------
(* TaskInjectStorage, in parallel and once more for the remaining storages *)

InjectBegins ==
  /\ injectPc = "blocked" /\ threadsStarted
  /\ injectPc' = "consume"
  /\ UNCHANGED <<runVars, queue, sp, fillVars, buildVars, procVars, statusVars, mergeVars,
                 taken, db>>

InjectConsume ==
  /\ injectPc = "consume"
  /\ \/ sp = {} /\ injectPc' = "test" /\ UNCHANGED <<sp, taken>>
     \/ \E s \in sp : sp' = sp \ {s} /\ taken' = s /\ injectPc' = "inject"
  /\ UNCHANGED <<runVars, queue, fillVars, buildVars, procVars, statusVars, mergeVars, db>>

InjectStorage ==
  /\ injectPc = "inject"
  /\ db' = db \cup taken
  /\ taken' = {}
  /\ injectPc' = "consume"
  /\ UNCHANGED <<runVars, queue, sp, fillVars, buildVars, procVars, statusVars, mergeVars>>

\* The second task ends with the first failure.
InjectTest ==
  /\ injectPc = "test"
  /\ injectPc' = IF threadsStopped \/ phase = "remaining" THEN "done" ELSE "consume"
  /\ UNCHANGED <<runVars, queue, sp, fillVars, buildVars, procVars, statusVars, mergeVars,
                 taken, db>>

InjectTask == InjectBegins \/ InjectConsume \/ InjectStorage \/ InjectTest

-----------------------------------------------------------------------------
(* The sequence around the parallel group, and what comes from outside *)

TasksEnded == fillPc = "done" /\ buildPc = "done" /\ mergePc = "done" /\ injectPc = "done"

\* The group has joined its threads: it failed when the filler was terminated.
GroupEnds ==
  /\ phase = "parallel" /\ TasksEnded
  /\ IF fillKilled THEN phase' = "failed" /\ UNCHANGED injectPc
                   ELSE phase' = "remaining" /\ injectPc' = "consume"
  /\ UNCHANGED <<interrupted, exe, stop, intPc, queue, sp, fillVars, buildVars, procVars,
                 statusVars, mergeVars, taken, db>>

RemainingEnds ==
  /\ phase = "remaining" /\ injectPc = "done"
  /\ phase' = "done"
  /\ UNCHANGED <<interrupted, exe, stop, intPc, queue, sp, taskVars, procVars, statusVars>>

\* MessageIndexingInterrupted visits its listeners in the order in which they
\* were constructed, in the message loop's thread.
StopFilling ==
  /\ MayInterrupt /\ intPc = 0 /\ phase \in {"parallel", "remaining"}
  /\ provider' = {} /\ queue' = {}
  /\ intPc' = 1
  /\ UNCHANGED <<phase, interrupted, exe, stop, sp, fillPc, fillKilled, queueStarted,
                 queueStopped, buildVars, procVars, statusVars, mergeVars, injectVars>>

StopIndexers ==
  /\ intPc = 1
  /\ stop' = TRUE
  /\ interrupted' = TRUE
  /\ intPc' = 2
  /\ UNCHANGED <<phase, exe, queue, sp, taskVars, procVars, statusVars>>

DropStorages ==
  /\ intPc \in {2, 3}
  /\ sp' = {}
  /\ intPc' = intPc + 1
  /\ UNCHANGED <<phase, interrupted, exe, stop, queue, taskVars, procVars, statusVars>>

\* The scheduler is stopped or a task threw: every task of the group is
\* terminated and the processes are killed, except one that executeProcess has
\* started and not registered yet.  The indexers are not told to stop.
Terminate ==
  /\ MayTerminate /\ phase = "parallel" /\ ~fillKilled
  /\ fillKilled' = TRUE
  /\ interrupted' = TRUE
  /\ \E young \in SUBSET {p \in Procs : ipc[p] = "pop"} :
        Leaves({p \in Procs \ young : MultiProcess /\ thr[p] = "work"}, 1)
  /\ UNCHANGED <<phase, exe, stop, intPc, queue, sp, provider, fillPc, queueStarted,
                 queueStopped, buildVars, running, statusVars, mergeVars, injectVars>>

Ended == phase \in {"done", "failed"} /\ UNCHANGED vars

Next == \/ Fill \/ Build \/ Merge \/ InjectTask
        \/ \E p \in Procs : Thread(p) \/ Indexer(p) \/ NoticeInterrupt(p) \/ Die(p)
        \/ GroupEnds \/ RemainingEnds
        \/ StopFilling \/ StopIndexers \/ DropStorages \/ Terminate \/ Ended

Spec == Init /\ [][Next]_vars

\* Every thread and process runs on; nobody has to press Stop, die or terminate.
Fairness == /\ WF_vars(Fill) /\ WF_vars(Build) /\ WF_vars(Merge) /\ WF_vars(InjectTask)
            /\ \A p \in Procs : WF_vars(Thread(p)) /\ WF_vars(Indexer(p)) /\ WF_vars(NoticeInterrupt(p))
            /\ WF_vars(GroupEnds) /\ WF_vars(RemainingEnds)
            /\ WF_vars(StopIndexers) /\ WF_vars(DropStorages)
FairSpec == Spec /\ Fairness

-----------------------------------------------------------------------------
\* The tasks, threads and shared containers keep their types
\* (TaskBuildIndex, StorageProvider, the managers in shared memory).
TypeOK ==
  /\ phase \in {"parallel", "remaining", "done", "failed"}
  /\ provider \subseteq Files /\ queue \subseteq Files
  /\ fillPc \in {"enter", "update", "done"} /\ fillKilled \in BOOLEAN
  /\ queueStarted \in BOOLEAN /\ queueStopped \in BOOLEAN
  /\ threadsStarted \in BOOLEAN /\ threadsStopped \in BOOLEAN
  /\ buildPc \in {"blocked", "update", "fetch", "join", "drain", "drainPop", "report",
                  "exit", "done"}
  /\ running \in Int /\ count \in Nat
  /\ popped \in BOOLEAN /\ stoppedSeen \in BOOLEAN /\ interrupted \in BOOLEAN
  /\ flagged \in BOOLEAN /\ exe \in BOOLEAN /\ stop \in BOOLEAN
  /\ thr \in [Procs -> {"off", "loop", "work", "returned"}]
  /\ result \in [Procs -> {0, 1}]
  /\ ipc \in [Procs -> {"pop", "wait", "index", "finish"}]
  /\ hand \in [Procs -> SUBSET Files] /\ awake \in [Procs -> BOOLEAN]
  /\ current \in [Procs -> SUBSET Files] /\ crashed \subseteq Files
  /\ finished \in Seq(Procs) /\ storages \in [Procs -> SUBSET Files]
  /\ sp \subseteq (SUBSET Record) \ {{}}
  /\ mergePc \in {"blocked", "check", "target", "source", "insert", "test", "done"}
  /\ target \subseteq Record /\ source \subseteq Record
  /\ injectPc \in {"blocked", "consume", "inject", "test", "done"}
  /\ taken \subseteq Record /\ db \subseteq Record /\ intPc \in 0 .. 4

\* The records that have left shared memory.
Stored == (UNION sp) \cup target \cup source \cup taken \cup db
\* The files an indexer works on or has a storage of.
Held(p) == hand[p] \cup storages[p]

\* Every command is in one place at a time and its storage in one place after
\* it: no hand-over between the queue, the indexers, the fetching, the merging
\* and the injecting tasks duplicates what it passes on.
NothingTwice ==
  /\ provider \cap queue = {}
  /\ \A p \in Procs : /\ hand[p] \cap storages[p] = {}
                      /\ Held(p) \cap (provider \cup queue) = {}
                      /\ \A q \in Procs \ {p} : Held(p) \cap Held(q) = {}
  /\ \A f \in Files : <<f, "index">> \in Stored =>
        f \notin provider \cup queue /\ \A p \in Procs : f \notin Held(p)
  /\ \A s \in sp : /\ s \cap (target \cup source \cup taken \cup db) = {}
                   /\ \A t \in sp \ {s} : s \cap t = {}
  /\ target \cap (source \cup taken \cup db) = {}
  /\ source \cap (taken \cup db) = {} /\ taken \cap db = {}

\* The number of indexed files TaskFinishParsing reports is the number of
\* files whose index is in the database, unless the run was given up.
CountIsInjected ==
  phase = "done" /\ intPc = 0 /\ ~interrupted =>
     count = Cardinality({f \in Files : <<f, "index">> \in db})

\* A run that was not given up drops no command: when it ends every file is
\* indexed, has the error of its crash or is still in the shared queue, where
\* the filler's last refill may have put it after every indexer had looked.
NothingDropped ==
  phase = "done" /\ intPc = 0 /\ ~interrupted =>
     \A f \in Files \ queue : \E r \in db : r[1] = f

\* Every file of a run that was not given up is traced in the database.
AllTraced == phase = "done" /\ intPc = 0 /\ ~interrupted =>
                \A f \in Files : \E r \in db : r[1] = f

\* The run only adds new records to the database and ends, unless it was given
\* up, when every file is indexed or has the error of its crash.
Job == INSTANCE IndexJob WITH stopped <- intPc > 0 \/ interrupted \/ fillKilled,
                              over <- phase \in {"done", "failed"}
ImplementsIndexJob == Job!Spec

\* A run that the scheduler does not terminate ends, also when an indexer
\* died, the executable is missing or the user pressed Stop at any moment.
IndexingEnds == <>(phase = "done" \/ fillKilled)
=============================================================================
