------------------------- MODULE IndexPipelineProofs -------------------------
(***************************************************************************)
(* Theorems of the indexing pipeline, for any number of files, indexers,   *)
(* crashes and queue sizes: its data keep their types, no hand-over of a   *)
(* command or of a storage duplicates it, and the count reported is that   *)
(* of the indexed files.  If only the first indexer may die, and not with  *)
(* a command that nobody knows of, no command is lost but in a short       *)
(* queue, and with a queue for all files a run does what IndexJob says.    *)
(***************************************************************************)
EXTENDS IndexPipeline, FiniteSetTheorems, FunctionTheorems, TLAPS

LEMMA OldestIn == ASSUME NEW S PROVE Oldest(S) \subseteq S
BY DEF Oldest

LEMMA BatchIn == Batch \subseteq provider
BY DEF Batch, FirstN

\* TypeOK in two parts, for the provers: the flags and the rest.
Flags == /\ fillKilled \in BOOLEAN /\ queueStarted \in BOOLEAN /\ queueStopped \in BOOLEAN
         /\ threadsStarted \in BOOLEAN /\ threadsStopped \in BOOLEAN
         /\ popped \in BOOLEAN /\ stoppedSeen \in BOOLEAN /\ interrupted \in BOOLEAN
         /\ flagged \in BOOLEAN /\ exe \in BOOLEAN /\ stop \in BOOLEAN
Data ==
  /\ phase \in {"parallel", "remaining", "done", "failed"}
  /\ provider \subseteq Files /\ queue \subseteq Files
  /\ fillPc \in {"enter", "update", "done"}
  /\ buildPc \in {"blocked", "update", "fetch", "join", "drain", "drainPop", "report",
                  "exit", "done"}
  /\ running \in Int /\ count \in Nat
  /\ thr \in [Procs -> {"off", "loop", "work", "returned"}]
  /\ result \in [Procs -> {0, 1}]
  /\ ipc \in [Procs -> {"pop", "wait", "index", "finish"}]
  /\ hand \in [Procs -> SUBSET Files] /\ awake \in [Procs -> BOOLEAN]
  /\ current \in [Procs -> SUBSET Files] /\ crashed \subseteq Files
  /\ finished \in Seq(Procs) /\ storages \in [Procs -> SUBSET Files]
  /\ sp \subseteq (SUBSET Record) \ {{}}
  /\ mergePc \in {"blocked", "check", "target", "source", "insert", "test", "done"}
  /\ target \subseteq Record /\ source \subseteq Record
  /\ injectPc \in {"blocked", "consume", "inject", "test", "done"}
  /\ taken \subseteq Record /\ db \subseteq Record /\ intPc \in 0 .. 4

LEMMA TypeParts == /\ TypeOK <=> Flags /\ Data
                   /\ TypeOK' <=> Flags' /\ Data'
BY Zenon DEF TypeOK, Flags, Data

LEMMA TypeInit == Init => TypeOK
<1> SUFFICES ASSUME Init PROVE TypeOK
  OBVIOUS
<1>1. Flags
  BY Modes, Zenon DEF Init, Flags
<1>2. Data
  BY DEF Init, Data
<1> QED
  BY <1>1, <1>2, TypeParts

LEMMA TypeFill == TypeOK /\ Fill => TypeOK'
<1> SUFFICES ASSUME TypeOK, Fill PROVE TypeOK'
  OBVIOUS
<1> USE BatchIn DEF TypeOK, runVars, buildVars, procVars, statusVars, mergeVars, injectVars
<1>1. CASE FillEnter
  BY <1>1 DEF FillEnter, Refill
<1>2. CASE FillUpdate
  BY <1>2 DEF FillUpdate, Refill
<1>3. CASE FillExit
  BY <1>3 DEF FillExit
<1> QED
  BY <1>1, <1>2, <1>3 DEF Fill

LEMMA TypeBuild == TypeOK /\ Build => TypeOK'
<1> SUFFICES ASSUME TypeOK, Build PROVE TypeOK'
  OBVIOUS
<1> USE DEF runVars, fillVars, procVars, statusVars, mergeVars, injectVars
<1>1. CASE BuildEnter
  <2>1. running' \in Int
    BY <1>1, Sizes, FS_CardinalityType DEF BuildEnter
  <2>2. Data'
    BY <1>1, <2>1, TypeParts DEF BuildEnter, Data
  <2>3. Flags'
    BY <1>1, TypeParts, Zenon DEF BuildEnter, Flags
  <2> QED
    BY <2>2, <2>3, TypeParts
<1>2. CASE BuildUpdate
  <2>1. Data'
    BY <1>2, TypeParts DEF BuildUpdate, Data
  <2>2. Flags'
    BY <1>2, TypeParts, Zenon DEF BuildUpdate, Flags
  <2> QED
    BY <2>1, <2>2, TypeParts
<1>3. CASE BuildJoin \/ DrainBegin
  <2>1. Data'
    BY <1>3, TypeParts DEF BuildJoin, DrainBegin, Data
  <2>2. Flags'
    <3>1. CASE BuildJoin
      BY <3>1, TypeParts, Zenon DEF BuildJoin, Flags
    <3>2. CASE DrainBegin
      BY <3>2, TypeParts, Zenon DEF DrainBegin, Flags
    <3> QED
      BY <1>3, <3>1, <3>2
  <2> QED
    BY <2>1, <2>2, TypeParts
<1>4. CASE FetchPop
  <2>1. PICK f \in Oldest(storages[Head(finished)]) :
              /\ storages' = [storages EXCEPT ![Head(finished)] = @ \ {f}]
              /\ sp' = sp \cup {Index(f)}
    BY <1>4 DEF FetchPop
  <2>2. Head(finished) \in Procs /\ Tail(finished) \in Seq(Procs)
    BY <1>4, TypeParts DEF FetchPop, Data
  <2>3. f \in Files
    BY <2>1, <2>2, OldestIn, TypeParts DEF Data
  <2>4. Index(f) \in (SUBSET Record) \ {{}}
    BY <2>3 DEF Index, Record
  <2>5. buildPc' \in {"fetch", "drainPop", "update", "drain", "report"}
    BY <1>4 DEF FetchPop, Returned
  <2>6. sp' \subseteq (SUBSET Record) \ {{}} /\ storages' \in [Procs -> SUBSET Files]
    BY <2>1, <2>4, TypeParts DEF Data
  <2>7. Data'
    <3>1. /\ finished' = Tail(finished) /\ count' = count + 1
          /\ UNCHANGED <<phase, intPc, queue, provider, fillPc, thr, result, ipc, hand, awake,
                         running, current, crashed, mergePc, target, source, injectPc, taken, db>>
      BY <1>4 DEF FetchPop
    <3> QED
      BY <2>2, <2>5, <2>6, <3>1, TypeParts DEF Data
  <2>8. Flags'
    <3>1. popped' = TRUE /\ UNCHANGED <<runVars, fillVars, stoppedSeen, flagged,
                                        threadsStarted, threadsStopped>>
      BY <1>4, Zenon DEF FetchPop
    <3> QED
      BY <3>1, TypeParts, Zenon DEF Flags
  <2> QED
    BY <2>7, <2>8, TypeParts
<1>5. CASE FetchBreak
  <2>1. finished' \in Seq(Procs)
    <3>1. finished \in Seq(Procs) /\ (finished' = finished \/ (finished # <<>> /\ finished' = Tail(finished)))
      BY <1>5, TypeParts DEF FetchBreak, Data
    <3> QED
      BY <3>1
  <2>2. buildPc' \in {"update", "drain", "report"}
    BY <1>5 DEF FetchBreak, Returned
  <2>3. Data'
    BY <1>5, <2>1, <2>2, TypeParts DEF FetchBreak, Data
  <2>4. Flags'
    BY <1>5, TypeParts, Zenon DEF FetchBreak, Flags
  <2> QED
    BY <2>3, <2>4, TypeParts
<1>6. CASE BuildReport
  <2>1. CrashedFiles \subseteq Files
    BY TypeParts DEF CrashedFiles, Data
  <2>2. {<<f, "crash">> : f \in CrashedFiles} \subseteq Record
    BY <2>1 DEF Record
  <2>3. Data'
    BY <1>6, <2>2, TypeParts DEF BuildReport, Data
  <2>4. Flags'
    BY <1>6, TypeParts, Zenon DEF BuildReport, Flags
  <2> QED
    BY <2>3, <2>4, TypeParts
<1>7. CASE BuildExit
  <2>1. Data'
    BY <1>7, TypeParts DEF BuildExit, Data
  <2>2. Flags'
    BY <1>7, TypeParts, Zenon DEF BuildExit, Flags
  <2> QED
    BY <2>1, <2>2, TypeParts
<1> QED
  BY <1>1, <1>2, <1>3, <1>4, <1>5, <1>6, <1>7 DEF Build

LEMMA TypeProcs ==
  ASSUME TypeOK, NEW p \in Procs, Thread(p) \/ Indexer(p) \/ NoticeInterrupt(p) \/ Die(p)
  PROVE  TypeOK'
<1> USE DEF TypeOK, runVars, taskVars, fillVars, buildVars, statusVars, mergeVars, injectVars
<1>1. CASE ThreadGivesUp(p)
  BY <1>1 DEF ThreadGivesUp
<1>2. CASE ThreadLoops(p)
  BY <1>2 DEF ThreadLoops
<1>3. CASE ThreadEnds(p)
  BY <1>3 DEF ThreadEnds
<1>4. CASE PopCommand(p)
  BY <1>4, OldestIn DEF PopCommand
<1>5. CASE IndexerReturns(p)
  BY <1>5 DEF IndexerReturns, Leaves
<1>6. CASE StartFile(p)
  BY <1>6 DEF StartFile
<1>7. CASE IndexFile(p)
  BY <1>7 DEF IndexFile
<1>8. CASE FinishFile(p)
  <2>1. finished' \in Seq(Procs)
    BY <1>8 DEF FinishFile
  <2> QED
    BY <1>8, <2>1 DEF FinishFile
<1>9. CASE NoticeInterrupt(p)
  BY <1>9 DEF NoticeInterrupt
<1>10. CASE Die(p)
  BY <1>10 DEF Die, Leaves
<1> QED
  BY <1>1, <1>2, <1>3, <1>4, <1>5, <1>6, <1>7, <1>8, <1>9, <1>10 DEF Thread, Indexer

LEMMA TypeMergeInject == TypeOK /\ (Merge \/ InjectTask) => TypeOK'
<1> SUFFICES ASSUME TypeOK, Merge \/ InjectTask PROVE TypeOK'
  OBVIOUS
<1> USE DEF TypeOK, runVars, fillVars, buildVars, procVars, statusVars, mergeVars, injectVars
<1>1. CASE MergeBegins \/ MergeCheck \/ MergeTest
  BY <1>1 DEF MergeBegins, MergeCheck, MergeTest
<1>2. CASE MergeTake
  BY <1>2 DEF MergeTake, Consumed
<1>3. CASE MergeInsert
  BY <1>3 DEF MergeInsert, Merged
<1>4. CASE InjectBegins \/ InjectTest
  BY <1>4 DEF InjectBegins, InjectTest
<1>5. CASE InjectConsume
  BY <1>5 DEF InjectConsume
<1>6. CASE InjectStorage
  BY <1>6 DEF InjectStorage
<1> QED
  BY <1>1, <1>2, <1>3, <1>4, <1>5, <1>6 DEF Merge, InjectTask

Outside == GroupEnds \/ RemainingEnds \/ StopFilling \/ StopIndexers \/ DropStorages \/ Terminate

LEMMA TypeOutside == TypeOK /\ Outside => TypeOK'
<1> SUFFICES ASSUME TypeOK, Outside PROVE TypeOK'
  OBVIOUS
<1> USE DEF TypeOK, runVars, taskVars, fillVars, buildVars, procVars, statusVars, mergeVars, injectVars
<1>1. CASE GroupEnds
  BY <1>1 DEF GroupEnds
<1>2. CASE RemainingEnds
  BY <1>2 DEF RemainingEnds
<1>3. CASE StopFilling
  BY <1>3 DEF StopFilling
<1>4. CASE StopIndexers
  BY <1>4 DEF StopIndexers
<1>5. CASE DropStorages
  BY <1>5 DEF DropStorages
<1>6. CASE Terminate
  BY <1>6 DEF Terminate, Leaves
<1> QED
  BY <1>1, <1>2, <1>3, <1>4, <1>5, <1>6 DEF Outside

LEMMA TypeStep == TypeOK /\ [Next]_vars => TypeOK'
<1> SUFFICES ASSUME TypeOK, [Next]_vars PROVE TypeOK'
  OBVIOUS
<1>1. CASE UNCHANGED vars
  BY <1>1 DEF TypeOK, vars, runVars, taskVars, fillVars, buildVars, procVars, statusVars,
              mergeVars, injectVars
<1>2. CASE Next /\ ~UNCHANGED vars
  BY <1>2, TypeFill, TypeBuild, TypeProcs, TypeMergeInject, TypeOutside DEF Next, Outside, Ended
<1> QED
  BY <1>1, <1>2

\* The tasks, threads and shared containers keep their types, whatever the
\* user, a crash or the scheduler does and when.
THEOREM TypeCorrect == Spec => []TypeOK
BY TypeInit, TypeStep, PTL DEF Spec

-----------------------------------------------------------------------------
(* NothingTwice, strengthened by what the tasks hold and when a crash may be reported *)

\* The three parts of NothingTwice.
Commands == /\ provider \cap queue = {}
            /\ \A p \in Procs : /\ hand[p] \cap storages[p] = {}
                                /\ Held(p) \cap (provider \cup queue) = {}
                                /\ \A q \in Procs \ {p} : Held(p) \cap Held(q) = {}
Handed == \A f \in Files : <<f, "index">> \in Stored =>
             f \notin provider \cup queue /\ \A p \in Procs : f \notin Held(p)
Records == /\ \A s \in sp : /\ s \cap (target \cup source \cup taken \cup db) = {}
                            /\ \A t \in sp \ {s} : s \cap t = {}
           /\ target \cap (source \cup taken \cup db) = {}
           /\ source \cap (taken \cup db) = {} /\ taken \cap db = {}

\* A task holds storages only between taking and handing them on, and no crash
\* is reported before doExit reports them all.
Hands == /\ mergePc \notin {"source", "insert"} => target = {}
         /\ mergePc # "insert" => source = {}
         /\ injectPc # "inject" => taken = {}
Unreported == buildPc \notin {"exit", "done"} => \A f \in Files : <<f, "crash">> \notin Stored

Once == Commands /\ Handed /\ Records /\ Hands /\ Unreported

LEMMA InStored ==
  /\ \A r : r \in Stored <=> \/ \E s \in sp : r \in s
                             \/ r \in target \/ r \in source \/ r \in taken \/ r \in db
  /\ \A r : r \in Stored' <=> \/ \E s \in sp' : r \in s
                              \/ r \in target' \/ r \in source' \/ r \in taken' \/ r \in db'
<1>1. \A r : r \in Stored <=> \/ \E s \in sp : r \in s
                              \/ r \in target \/ r \in source \/ r \in taken \/ r \in db
  BY DEF Stored
<1>2. \A r : r \in Stored' <=> \/ \E s \in sp' : r \in s
                               \/ r \in target' \/ r \in source' \/ r \in taken' \/ r \in db'
  BY DEF Stored
<1> QED
  BY <1>1, <1>2, Zenon

LEMMA OnceMeans == NothingTwice <=> Commands /\ Handed /\ Records
BY Zenon DEF NothingTwice, Commands, Handed, Records

LEMMA OnceInit == Init => Once
BY DEF Init, Once, Commands, Handed, Records, Hands, Unreported, Stored, Held

\* A step that moves commands and leaves the records alone.
LEMMA CommandStep ==
  ASSUME TypeOK, Once, Commands',
         UNCHANGED <<sp, mergeVars, injectVars>>,
         buildPc \in {"exit", "done"} => buildPc' \in {"exit", "done"},
         \A f \in Files : \/ f \in provider' \cup queue'
                          \/ \E p \in Procs : f \in Held(p)'
                          => f \in provider \cup queue \/ \E p \in Procs : f \in Held(p)
  PROVE  Once'
<1>1. Stored' = Stored
  BY DEF Stored, mergeVars, injectVars
<1>2. Handed'
  BY <1>1 DEF Once, Handed
<1>3. Records' /\ Hands' /\ Unreported'
  BY <1>1 DEF Once, Records, Hands, Unreported, mergeVars, injectVars
<1> QED
  BY <1>2, <1>3 DEF Once

LEMMA OnceFill == TypeOK /\ Once /\ Fill => Once'
<1> SUFFICES ASSUME TypeOK, Once, Fill PROVE Once'
  OBVIOUS
<1>1. UNCHANGED <<sp, mergeVars, injectVars, buildVars, hand, storages>>
  BY DEF Fill, FillEnter, FillUpdate, FillExit, procVars, statusVars
<1>2. \/ queue' = queue \cup Batch /\ provider' = provider \ Batch
      \/ UNCHANGED <<queue, provider>>
  BY DEF Fill, FillEnter, FillUpdate, FillExit, Refill
<1>3. Commands'
  BY <1>1, <1>2, BatchIn DEF Once, Commands, Held
<1>4. provider' \cup queue' \subseteq provider \cup queue
  BY <1>2, BatchIn
<1> QED
  BY <1>1, <1>3, <1>4, CommandStep DEF buildVars, Held

LEMMA OnceProcs ==
  ASSUME TypeOK, Once, NEW p \in Procs, Thread(p) \/ Indexer(p) \/ NoticeInterrupt(p) \/ Die(p)
  PROVE  Once'
<1> USE DEF TypeOK
<1>1. UNCHANGED <<sp, mergeVars, injectVars, buildPc, provider>>
  BY DEF Thread, ThreadGivesUp, ThreadLoops, ThreadEnds, Indexer, PopCommand, IndexerReturns,
         StartFile, IndexFile, FinishFile, NoticeInterrupt, Die, taskVars, fillVars, buildVars
<1>2. CASE PopCommand(p)
  <2>1. hand' = [hand EXCEPT ![p] = Oldest(queue)] /\ queue' = queue \ Oldest(queue)
          /\ UNCHANGED storages
    BY <1>2 DEF PopCommand, statusVars
  <2>2. Commands'
    BY <1>1, <2>1, OldestIn DEF Once, Commands, Held
  <2> QED
    BY <1>1, <2>1, <2>2, OldestIn, CommandStep DEF Held
<1>3. CASE IndexFile(p)
  <2>1. /\ hand' = [hand EXCEPT ![p] = {}] /\ UNCHANGED queue
        /\ storages' = [storages EXCEPT ![p] = storages[p] \cup hand[p]] \/ storages' = storages
    BY <1>3 DEF IndexFile
  <2>2. \A q \in Procs : Held(q)' \subseteq Held(q)
    BY <2>1 DEF Held
  <2>3. Commands'
    BY <1>1, <2>1, <2>2 DEF Once, Commands, Held
  <2> QED
    BY <1>1, <2>1, <2>2, <2>3, CommandStep
<1>4. CASE ~PopCommand(p) /\ ~IndexFile(p)
  <2>1. UNCHANGED <<queue, storages>> /\ \A q \in Procs : hand'[q] \subseteq hand[q]
    BY <1>4 DEF Thread, ThreadGivesUp, ThreadLoops, ThreadEnds, Indexer, IndexerReturns,
         StartFile, FinishFile, NoticeInterrupt, Die, Leaves, statusVars
  <2>2. Commands'
    BY <1>1, <2>1 DEF Once, Commands, Held
  <2> QED
    BY <1>1, <2>1, <2>2, CommandStep DEF Held
<1> QED
  BY <1>2, <1>3, <1>4

\* A step that moves records and leaves the commands alone.
LEMMA RecordStep ==
  ASSUME TypeOK, Once, Records', Hands', Unreported',
         UNCHANGED <<provider, queue, hand, storages>>,
         \A f \in Files : <<f, "index">> \in Stored' => <<f, "index">> \in Stored
  PROVE  Once'
<1>1. Commands'
  BY DEF Once, Commands, Held
<1>2. Handed'
  BY DEF Once, Handed, Held
<1> QED
  BY <1>1, <1>2 DEF Once

LEMMA OnceMergeInject == TypeOK /\ Once /\ (Merge \/ InjectTask) => Once'
<1> SUFFICES ASSUME TypeOK, Once, Merge \/ InjectTask PROVE Once'
  OBVIOUS
<1>1. UNCHANGED <<provider, queue, hand, storages, buildPc>>
  BY DEF Merge, MergeBegins, MergeCheck, MergeTake, MergeInsert, MergeTest, InjectTask,
         InjectBegins, InjectConsume, InjectStorage, InjectTest, fillVars, buildVars, procVars,
         statusVars
<1>2. CASE MergeBegins \/ MergeCheck \/ MergeTest
  <2>1. /\ UNCHANGED <<sp, target, source, taken, db, injectPc>>
        /\ mergePc \notin {"source", "insert"}
    BY <1>2 DEF MergeBegins, MergeCheck, MergeTest, injectVars
  <2>2. Stored' = Stored
    BY <2>1 DEF Stored
  <2>3. Records' /\ Hands' /\ Unreported'
    BY <1>1, <2>1, <2>2 DEF Once, Records, Hands, Unreported
  <2> QED
    BY <1>1, <2>2, <2>3, RecordStep
<1>3. CASE MergeTake
  <2>1. PICK s \in Consumed :
          /\ sp' = sp \ {s}
          /\ IF mergePc = "target" THEN target' = s /\ UNCHANGED source
                                   ELSE source' = s /\ UNCHANGED target
    BY <1>3 DEF MergeTake
  <2>2. s \in sp \/ s = {}
    BY DEF Consumed
  <2>3. /\ mergePc \in {"target", "source"} /\ UNCHANGED <<taken, db, injectPc>>
        /\ mergePc' = IF mergePc = "target" THEN "source" ELSE "insert"
    BY <1>3 DEF MergeTake, injectVars
  <2>4. source = {} /\ (mergePc = "target" => target = {})
    BY <2>3 DEF Once, Hands
  <2>5. \A r : r \in Stored' => r \in Stored
    BY <2>1, <2>2, <2>3, <2>4, InStored
  <2>6. Records'
    BY <2>1, <2>2, <2>3, <2>4 DEF Once, Records
  <2>7. Hands' /\ Unreported'
    BY <1>1, <2>1, <2>3, <2>4, <2>5 DEF Once, Hands, Unreported
  <2> QED
    BY <1>1, <2>5, <2>6, <2>7, RecordStep
<1>4. CASE MergeInsert
  <2>1. /\ sp' = sp \cup Merged /\ target' = {} /\ source' = {}
        /\ UNCHANGED <<taken, db, injectPc>>
    BY <1>4 DEF MergeInsert, injectVars
  <2>2. \/ Merged \subseteq {target, source}
        \/ Merged \subseteq {target \cup source}
    BY DEF Merged
  <2>3. \A r : r \in Stored' => r \in Stored
    <3>1. \A s \in sp' : s \in sp \/ s = target \/ s = source \/ s = target \cup source
      BY <2>1, <2>2
    <3>2. \A s \in sp' : \A r \in s : r \in Stored
      BY <3>1, InStored, Zenon
    <3> QED
      BY <2>1, <3>2, InStored, Zenon
  <2>4. Records'
    <3>1. CASE Merged \subseteq {target, source}
      <4>1. \A s \in sp' : s \in sp \/ s = target \/ s = source
        BY <2>1, <3>1
      <4> QED
        BY <2>1, <4>1 DEF Once, Records
    <3>2. CASE Merged \subseteq {target \cup source}
      <4>1. \A s \in sp' : s \in sp \/ s = target \cup source
        BY <2>1, <3>2
      <4>2. \A s \in sp : s \cap (target \cup source) = {}
        BY DEF Once, Records
      <4>3. \A s \in sp' : s \cap (taken \cup db) = {}
        BY <4>1 DEF Once, Records
      <4>4. \A s, t \in sp' : s # t => s \cap t = {}
        BY <4>1, <4>2 DEF Once, Records
      <4> QED
        BY <2>1, <4>3, <4>4 DEF Once, Records
    <3> QED
      BY <2>2, <3>1, <3>2
  <2>5. Hands' /\ Unreported'
    BY <1>1, <2>1, <2>3 DEF Once, Hands, Unreported
  <2> QED
    BY <1>1, <2>3, <2>4, <2>5, RecordStep
<1>5. CASE InjectBegins \/ InjectTest
  <2>1. /\ UNCHANGED <<sp, target, source, taken, db, mergePc>>
        /\ injectPc # "inject"
    BY <1>5 DEF InjectBegins, InjectTest, mergeVars
  <2>2. Stored' = Stored
    BY <2>1 DEF Stored
  <2>3. Records' /\ Hands' /\ Unreported'
    BY <1>1, <2>1, <2>2 DEF Once, Records, Hands, Unreported
  <2> QED
    BY <1>1, <2>2, <2>3, RecordStep
<1>6. CASE InjectConsume
  <2>1. /\ UNCHANGED <<target, source, db, mergePc>> /\ injectPc = "consume"
        /\ \/ UNCHANGED <<sp, taken>>
           \/ injectPc' = "inject" /\ \E s \in sp : sp' = sp \ {s} /\ taken' = s
    BY <1>6 DEF InjectConsume, mergeVars
  <2>2. taken = {}
    BY <2>1 DEF Once, Hands
  <2>3. \A r : r \in Stored' => r \in Stored
    BY <2>1, <2>2, InStored
  <2>4. Records'
    BY <2>1, <2>2 DEF Once, Records
  <2>5. Hands' /\ Unreported'
    BY <1>1, <2>1, <2>2, <2>3 DEF Once, Hands, Unreported
  <2> QED
    BY <1>1, <2>3, <2>4, <2>5, RecordStep
<1>7. CASE InjectStorage
  <2>1. /\ UNCHANGED <<sp, target, source, mergePc>> /\ taken' = {} /\ db' = db \cup taken
    BY <1>7 DEF InjectStorage, mergeVars
  <2>2. \A r : r \in Stored' => r \in Stored
    BY <2>1 DEF Stored
  <2>3. Records'
    BY <2>1 DEF Once, Records
  <2>4. Hands' /\ Unreported'
    BY <1>1, <2>1, <2>2 DEF Once, Hands, Unreported
  <2> QED
    BY <1>1, <2>2, <2>3, <2>4, RecordStep
<1> QED
  BY <1>2, <1>3, <1>4, <1>5, <1>6, <1>7 DEF Merge, InjectTask

LEMMA OnceBuild == TypeOK /\ Once /\ Build => Once'
<1> SUFFICES ASSUME TypeOK, Once, Build PROVE Once'
  OBVIOUS
<1>1. UNCHANGED <<provider, queue, hand, target, source, taken, db, mergePc, injectPc>>
  BY DEF Build, BuildEnter, BuildUpdate, BuildJoin, DrainBegin, FetchPop, FetchBreak,
         BuildReport, BuildExit, fillVars, procVars, mergeVars, injectVars
<1>2. Hands'
  BY <1>1 DEF Once, Hands
<1>3. CASE FetchPop
  <2>1. PICK f \in Oldest(storages[Head(finished)]) :
              /\ storages' = [storages EXCEPT ![Head(finished)] = @ \ {f}]
              /\ sp' = sp \cup {Index(f)}
    BY <1>3 DEF FetchPop
  <2> DEFINE p == Head(finished)
  <2>2. p \in Procs
    BY <1>3, TypeParts DEF FetchPop, Data
  <2>3. f \in storages[p] /\ f \in Files
    BY <2>1, <2>2, OldestIn, TypeParts DEF Data
  <2>4. <<f, "index">> \notin Stored /\ f \notin provider \cup queue
    BY <2>2, <2>3 DEF Once, Commands, Handed, Held
  <2>5. \A r : r \in Stored' <=> r \in Stored \/ r = <<f, "index">>
    BY <1>1, <2>1, InStored DEF Index
  <2>6. Records'
    <3>1. \A s \in sp' : s \in sp \/ s = {<<f, "index">>}
      BY <2>1 DEF Index
    <3>2. /\ <<f, "index">> \notin target \cup source \cup taken \cup db
          /\ \A s \in sp : <<f, "index">> \notin s
      BY <2>4, InStored
    <3>3. \A s \in sp' : s \cap (target \cup source \cup taken \cup db) = {}
      BY <3>1, <3>2 DEF Once, Records
    <3>4. ASSUME NEW s \in sp', NEW t \in sp', s # t PROVE s \cap t = {}
      <4>1. \A u \in sp : u \cap {<<f, "index">>} = {}
        BY <3>2
      <4>2. \A u, v \in sp : u # v => u \cap v = {}
        BY DEF Once, Records
      <4> QED
        BY <3>1, <3>4, <4>1, <4>2
    <3> QED
      BY <1>1, <3>3, <3>4 DEF Once, Records
  <2>7. \A q \in Procs : storages'[q] \subseteq storages[q] /\ (q = p => f \notin storages'[q])
    BY <2>1, <2>2, TypeParts DEF Data
  <2>8. Commands'
    BY <1>1, <2>7 DEF Once, Commands, Held
  <2>9. \A q \in Procs : f \notin Held(q)'
    <3> SUFFICES ASSUME NEW q \in Procs PROVE f \notin hand[q] \cup storages'[q]
      BY <1>1 DEF Held
    <3>1. CASE q = p
      BY <2>2, <2>3, <2>7, <3>1 DEF Once, Commands
    <3>2. CASE q # p
      BY <2>2, <2>3, <2>7, <3>2 DEF Once, Commands, Held
    <3> QED
      BY <3>1, <3>2
  <2>10. Handed'
    <3> SUFFICES ASSUME NEW g \in Files, <<g, "index">> \in Stored'
                 PROVE  g \notin provider \cup queue /\ \A q \in Procs : g \notin Held(q)'
      BY <1>1 DEF Handed
    <3>1. CASE g = f
      BY <2>4, <2>9, <3>1
    <3>2. CASE g # f
      <4>1. <<g, "index">> \in Stored
        BY <2>5, <3>2
      <4> QED
        BY <1>1, <2>7, <4>1 DEF Once, Handed, Held
    <3> QED
      BY <3>1, <3>2
  <2>11. Unreported'
    BY <1>3, <2>5 DEF Once, Unreported, FetchPop
  <2> QED
    BY <1>2, <2>6, <2>8, <2>10, <2>11 DEF Once
<1>4. CASE BuildReport
  <2>1. sp' = sp \cup ({{<<f, "crash">> : f \in CrashedFiles}} \ {{}}) /\ UNCHANGED storages
          /\ buildPc' = "exit" /\ buildPc = "report"
    BY <1>4 DEF BuildReport, statusVars
  <2> DEFINE new == {<<f, "crash">> : f \in CrashedFiles}
  <2>2. CrashedFiles \subseteq Files
    BY TypeParts DEF CrashedFiles, Data
  <2>3. \A r \in new : r \notin Stored
    BY <2>1, <2>2 DEF Once, Unreported
  <2>4. \A s \in sp' : s \in sp \/ s = new
    BY <2>1
  <2>5. \A f \in Files : <<f, "index">> \in Stored' => <<f, "index">> \in Stored
    BY <1>1, <2>4, InStored
  <2>6. Records'
    <3>1. \A s \in sp : s \cap new = {}
      BY <2>3, InStored
    <3>2. new \cap (target \cup source \cup taken \cup db) = {}
      BY <2>3, InStored
    <3> HIDE DEF new
    <3>3. \A s \in sp' : s \cap (target \cup source \cup taken \cup db) = {}
      BY <2>4, <3>2 DEF Once, Records
    <3>4. \A s, t \in sp' : s # t => s \cap t = {}
      BY <2>4, <3>1 DEF Once, Records
    <3> QED
      BY <1>1, <3>3, <3>4 DEF Once, Records
  <2> QED
    BY <1>1, <1>2, <2>1, <2>5, <2>6, RecordStep DEF Unreported
<1>5. CASE ~FetchPop /\ ~BuildReport
  <2>1. UNCHANGED <<sp, storages>> /\ (buildPc \in {"exit", "done"} => buildPc' \in {"exit", "done"})
    BY <1>5 DEF Build, BuildEnter, BuildUpdate, BuildJoin, DrainBegin, FetchBreak, BuildExit,
                statusVars
  <2>2. Stored' = Stored
    BY <1>1, <2>1 DEF Stored
  <2>3. Records' /\ Unreported'
    BY <1>1, <2>1, <2>2 DEF Once, Records, Unreported
  <2> QED
    BY <1>1, <1>2, <2>1, <2>2, <2>3, RecordStep
<1> QED
  BY <1>3, <1>4, <1>5

LEMMA OnceOutside == TypeOK /\ Once /\ Outside => Once'
<1> SUFFICES ASSUME TypeOK, Once, Outside PROVE Once'
  OBVIOUS
<1>1. UNCHANGED <<target, source, taken, db, mergePc, buildPc, storages>>
  BY DEF Outside, GroupEnds, RemainingEnds, StopFilling, StopIndexers, DropStorages, Terminate,
         taskVars, buildVars, mergeVars, injectVars, statusVars
<1>2. /\ sp' \in {sp, {}} /\ provider' \in {provider, {}} /\ queue' \in {queue, {}}
      /\ \A q \in Procs : hand'[q] \subseteq hand[q]
  BY DEF Outside, GroupEnds, RemainingEnds, StopFilling, StopIndexers, DropStorages, Terminate,
         taskVars, fillVars, procVars, statusVars, Leaves
<1>3. injectPc' # injectPc => taken = {} /\ injectPc' # "inject"
  BY DEF Outside, GroupEnds, RemainingEnds, StopFilling, StopIndexers, DropStorages, Terminate,
         taskVars, injectVars, TasksEnded, Once, Hands
<1>4. \A r : r \in Stored' => r \in Stored
  BY <1>1, <1>2, InStored
<1>5. Commands'
  BY <1>1, <1>2 DEF Once, Commands, Held
<1>6. Handed'
  <2> SUFFICES ASSUME NEW f \in Files, <<f, "index">> \in Stored'
               PROVE  f \notin provider' \cup queue' /\ \A p \in Procs : f \notin Held(p)'
    BY DEF Handed
  <2>1. f \notin provider \cup queue /\ \A p \in Procs : f \notin Held(p)
    BY <1>4 DEF Once, Handed
  <2> QED
    BY <1>1, <1>2, <2>1 DEF Held
<1>7. Records'
  BY <1>1, <1>2 DEF Once, Records
<1>8. Hands' /\ Unreported'
  BY <1>1, <1>3, <1>4 DEF Once, Hands, Unreported
<1> QED
  BY <1>5, <1>6, <1>7, <1>8 DEF Once

LEMMA OnceStep == TypeOK /\ Once /\ [Next]_vars => Once'
<1> SUFFICES ASSUME TypeOK, Once, [Next]_vars PROVE Once'
  OBVIOUS
<1>1. CASE UNCHANGED vars
  <2>1. UNCHANGED <<provider, queue, hand, storages, sp, target, source, taken, db, mergePc,
                    injectPc, buildPc>>
    BY <1>1 DEF vars, taskVars, fillVars, buildVars, procVars, statusVars, mergeVars, injectVars
  <2>2. Stored' = Stored /\ \A p \in Procs : Held(p)' = Held(p)
    BY <2>1 DEF Stored, Held
  <2> QED
    BY <2>1, <2>2 DEF Once, Commands, Handed, Records, Hands, Unreported
<1>2. CASE Next /\ ~UNCHANGED vars
  BY <1>2, OnceFill, OnceBuild, OnceProcs, OnceMergeInject, OnceOutside DEF Next, Outside, Ended
<1> QED
  BY <1>1, <1>2

LEMMA OnceAlways == Spec => []Once
BY TypeCorrect, OnceInit, OnceStep, PTL DEF Spec

\* No hand-over between the filler, the indexers, the fetching, merging and
\* injecting tasks duplicates a command or a record, whatever crashes, is
\* interrupted or terminated (StorageProvider, TaskBuildIndex::fetchIntermediateStorages).
THEOREM NothingTwiceHolds == Spec => []NothingTwice
<1>1. Once => NothingTwice
  BY OnceMeans DEF Once
<1> QED
  BY <1>1, OnceAlways, PTL

-----------------------------------------------------------------------------
(* CountIsInjected, strengthened by where the tasks and their sequence are *)

Control ==
  /\ queueStarted => fillPc # "enter"
  /\ fillPc = "done" => provider = {} \/ fillKilled
  /\ fillKilled => interrupted
  /\ phase # "parallel" => fillPc = "done" /\ buildPc = "done" /\ mergePc = "done"
  /\ phase \in {"done", "failed"} => injectPc = "done"
  /\ phase = "failed" => fillKilled
  /\ phase \in {"remaining", "done"} /\ injectPc \in {"test", "done"} => sp = {}
  /\ intPc = 0 => ~stop

\* Each storage fetched is counted once, and none is dropped before an interruption.
Indexed(f) == <<f, "index">> \in Stored
Counted == intPc = 0 => count = Cardinality({f \in Files : Indexed(f)})

LEMMA ControlInit == Init => Control
BY DEF Init, Control

LEMMA ControlStep == TypeOK /\ Control /\ [Next]_vars => Control'
<1> SUFFICES ASSUME TypeOK, Control, [Next]_vars PROVE Control'
  OBVIOUS
<1> USE DEF Control, runVars
<1>1. CASE Fill
  <2>1. UNCHANGED <<phase, interrupted, stop, intPc, fillKilled, buildPc, mergePc, injectPc, sp>>
    BY <1>1 DEF Fill, FillEnter, FillUpdate, FillExit, buildVars, mergeVars, injectVars
  <2> QED
    BY <1>1, <2>1, BatchIn DEF Fill, FillEnter, FillUpdate, FillExit, Refill
<1>2. CASE Build
  <2>1. UNCHANGED <<phase, interrupted, intPc, fillVars, mergePc, injectPc>>
    BY <1>2 DEF Build, BuildEnter, BuildUpdate, BuildJoin, DrainBegin, FetchPop, FetchBreak,
                BuildReport, BuildExit, mergeVars, injectVars
  <2>2. buildPc # "done" /\ stop' \in {stop, FALSE}
    BY <1>2 DEF Build, BuildEnter, BuildUpdate, BuildJoin, DrainBegin, FetchPop, FetchBreak,
                BuildReport, BuildExit
  <2>3. phase = "parallel"
    BY <2>2
  <2>4. stop' => stop
    BY <2>2
  <2> QED
    BY <2>1, <2>3, <2>4 DEF fillVars, TypeOK
<1>3. CASE Merge
  <2>1. UNCHANGED <<phase, interrupted, stop, intPc, fillVars, buildPc, injectPc>>
    BY <1>3 DEF Merge, MergeBegins, MergeCheck, MergeTake, MergeInsert, MergeTest, buildVars,
                injectVars
  <2>2. mergePc # "done"
    BY <1>3 DEF Merge, MergeBegins, MergeCheck, MergeTake, MergeInsert, MergeTest
  <2> QED
    BY <2>1, <2>2 DEF fillVars, TypeOK
<1>4. CASE InjectTask
  <2>1. UNCHANGED <<phase, interrupted, stop, intPc, fillVars, buildPc, mergePc>>
    BY <1>4 DEF InjectTask, InjectBegins, InjectConsume, InjectStorage, InjectTest, buildVars,
                mergeVars
  <2>2. /\ injectPc # "done"
        /\ injectPc' \in {"test", "done"} =>
             sp' = sp /\ (injectPc = "test" \/ sp = {})
    BY <1>4 DEF InjectTask, InjectBegins, InjectConsume, InjectStorage, InjectTest
  <2> QED
    BY <2>1, <2>2 DEF fillVars
<1>5. CASE \E p \in Procs : Thread(p) \/ Indexer(p) \/ NoticeInterrupt(p) \/ Die(p)
  <2>1. /\ UNCHANGED <<phase, stop, intPc, fillVars, buildPc, mergePc, injectPc, sp>>
        /\ interrupted' = interrupted \/ interrupted' = TRUE
    BY <1>5 DEF Thread, ThreadGivesUp, ThreadLoops, ThreadEnds, Indexer, PopCommand,
                IndexerReturns, StartFile, IndexFile, FinishFile, NoticeInterrupt, Die, taskVars,
                buildVars, mergeVars, injectVars
  <2> QED
    BY <2>1 DEF fillVars
<1>6. CASE GroupEnds
  BY <1>6 DEF GroupEnds, TasksEnded, fillVars, buildVars, mergeVars
<1>7. CASE RemainingEnds
  BY <1>7 DEF RemainingEnds, taskVars, fillVars, buildVars, mergeVars, injectVars
<1>8. CASE StopFilling
  BY <1>8 DEF StopFilling, buildVars, mergeVars, injectVars
<1>9. CASE StopIndexers \/ DropStorages
  BY <1>9 DEF StopIndexers, DropStorages, taskVars, fillVars, buildVars, mergeVars, injectVars,
              TypeOK
<1>10. CASE Terminate
  BY <1>10 DEF Terminate, buildVars, mergeVars, injectVars
<1>11. CASE UNCHANGED vars
  BY <1>11 DEF vars, taskVars, fillVars, buildVars, mergeVars, injectVars
<1> QED
  BY <1>1, <1>2, <1>3, <1>4, <1>5, <1>6, <1>7, <1>8, <1>9, <1>10, <1>11 DEF Next, Ended

LEMMA ControlAlways == Spec => []Control
BY TypeCorrect, ControlInit, ControlStep, PTL DEF Spec

\* Merging and injecting loses no record and makes none up.
LEMMA StoredSame == TypeOK /\ Once /\ (Merge \/ InjectTask) => Stored' = Stored
<1> SUFFICES ASSUME TypeOK, Once, Merge \/ InjectTask, NEW r PROVE r \in Stored' <=> r \in Stored
  BY Zenon DEF Stored
<1>1. CASE MergeBegins \/ MergeCheck \/ MergeTest
  BY <1>1 DEF MergeBegins, MergeCheck, MergeTest, injectVars, Stored
<1>2. CASE MergeTake
  <2>1. PICK s \in Consumed :
          /\ sp' = sp \ {s}
          /\ IF mergePc = "target" THEN target' = s /\ UNCHANGED source
                                   ELSE source' = s /\ UNCHANGED target
    BY <1>2 DEF MergeTake
  <2>2. s \in sp \/ (s = {} /\ sp' = sp)
    BY <2>1 DEF Consumed, TypeOK
  <2>3. /\ mergePc \in {"target", "source"} /\ UNCHANGED <<taken, db>>
        /\ source = {} /\ (mergePc = "target" => target = {})
    BY <1>2 DEF MergeTake, injectVars, Once, Hands
  <2> QED
    BY <2>1, <2>2, <2>3, InStored
<1>3. CASE MergeInsert
  <2>1. sp' = sp \cup Merged /\ target' = {} /\ source' = {} /\ UNCHANGED <<taken, db>>
    BY <1>3 DEF MergeInsert, injectVars
  <2>2. (\E s \in Merged : r \in s) <=> r \in target \/ r \in source
    BY DEF Merged
  <2> QED
    BY <2>1, <2>2, InStored
<1>4. CASE InjectBegins \/ InjectTest
  BY <1>4 DEF InjectBegins, InjectTest, mergeVars, Stored
<1>5. CASE InjectConsume
  <2>1. UNCHANGED <<target, source, db>> /\ taken = {}
    BY <1>5 DEF InjectConsume, mergeVars, Once, Hands
  <2> QED
    BY <1>5, <2>1, InStored DEF InjectConsume
<1>6. CASE InjectStorage
  BY <1>6, InStored DEF InjectStorage, mergeVars
<1> QED
  BY <1>1, <1>2, <1>3, <1>4, <1>5, <1>6 DEF Merge, InjectTask

\* What doExit reports is no index.
LEMMA ReportStored == BuildReport => \A f : Indexed(f)' <=> Indexed(f)
<1> SUFFICES ASSUME BuildReport, NEW f PROVE <<f, "index">> \in Stored' <=> <<f, "index">> \in Stored
  BY DEF Indexed
<1>1. /\ UNCHANGED <<target, source, taken, db>>
      /\ sp' = sp \cup ({{<<g, "crash">> : g \in CrashedFiles}} \ {{}})
  BY DEF BuildReport, mergeVars, injectVars
<1> QED
  BY <1>1, InStored

\* Fetching a storage puts the index of one file where it was not yet.
LEMMA PopStored ==
  ASSUME TypeOK, Once, FetchPop
  PROVE  \E f \in storages[Head(finished)] :
            /\ f \in Files /\ ~Indexed(f)
            /\ storages' = [storages EXCEPT ![Head(finished)] = @ \ {f}]
            /\ \A r : r \in Stored' <=> r \in Stored \/ r = <<f, "index">>
<1>1. PICK f \in Oldest(storages[Head(finished)]) :
            /\ storages' = [storages EXCEPT ![Head(finished)] = @ \ {f}]
            /\ sp' = sp \cup {Index(f)}
  BY DEF FetchPop
<1>2. Head(finished) \in Procs
  BY TypeParts DEF FetchPop, Data
<1>3. f \in storages[Head(finished)] /\ f \in Files
  BY <1>1, <1>2, OldestIn, TypeParts DEF Data
<1>4. ~Indexed(f)
  BY <1>2, <1>3 DEF Once, Handed, Held, Indexed
<1>5. \A r : r \in Stored' <=> r \in Stored \/ r = <<f, "index">>
  BY <1>1, InStored DEF Index, FetchPop, mergeVars, injectVars
<1> QED
  BY <1>1, <1>3, <1>4, <1>5

\* What listeners have handled stays handled.
LEMMA IntStays == [Next]_vars /\ intPc' = 0 => intPc = 0
<1> SUFFICES ASSUME [Next]_vars, intPc' = 0 PROVE intPc = 0
  OBVIOUS
<1>1. CASE GroupEnds \/ RemainingEnds \/ StopFilling \/ StopIndexers \/ DropStorages \/ Terminate
  BY <1>1 DEF GroupEnds, RemainingEnds, StopFilling, StopIndexers, DropStorages, Terminate
<1>2. CASE Fill \/ Build \/ Merge \/ InjectTask \/ UNCHANGED vars
  BY <1>2 DEF Fill, FillEnter, FillUpdate, FillExit, Build, BuildEnter, BuildUpdate, BuildJoin,
              DrainBegin, FetchPop, FetchBreak, BuildReport, BuildExit, Merge, MergeBegins,
              MergeCheck, MergeTake, MergeInsert, MergeTest, InjectTask, InjectBegins,
              InjectConsume, InjectStorage, InjectTest, runVars, vars
<1>3. CASE \E p \in Procs : Thread(p) \/ Indexer(p) \/ NoticeInterrupt(p) \/ Die(p)
  BY <1>3 DEF Thread, ThreadGivesUp, ThreadLoops, ThreadEnds, Indexer, PopCommand,
              IndexerReturns, StartFile, IndexFile, FinishFile, NoticeInterrupt, Die, runVars
<1> QED
  BY <1>1, <1>2, <1>3 DEF Next, Ended

LEMMA CountedStep == TypeOK /\ Once /\ Control /\ Counted /\ [Next]_vars => Counted'
<1> SUFFICES ASSUME TypeOK, Once, Counted, [Next]_vars, intPc' = 0
             PROVE  count' = Cardinality({f \in Files : Indexed(f)'})
  BY DEF Counted
<1> DEFINE I == {f \in Files : Indexed(f)}
<1>1. IsFiniteSet(I)
  BY Sizes, FS_Subset
<1>2. intPc = 0 /\ ~DropStorages
  BY IntStays DEF DropStorages
<1>3. CASE FetchPop
  <2>1. PICK f \in Files : ~Indexed(f) /\ \A r : r \in Stored' <=> r \in Stored \/ r = <<f, "index">>
    BY <1>3, PopStored
  <2>2. {g \in Files : Indexed(g)'} = I \cup {f}
    BY <2>1 DEF Indexed
  <2>3. f \notin I
    BY <2>1
  <2>4. count' = count + 1
    BY <1>3 DEF FetchPop
  <2> HIDE DEF I
  <2> QED
    BY <1>1, <1>2, <2>2, <2>3, <2>4, FS_AddElement DEF Counted, I
<1>4. CASE ~FetchPop
  <2>1. count' = count
    BY <1>4 DEF Next, Fill, FillEnter, FillUpdate, FillExit, Build, BuildEnter, BuildUpdate,
                BuildJoin, DrainBegin, FetchBreak, BuildReport, BuildExit, Merge, MergeBegins,
                MergeCheck, MergeTake, MergeInsert, MergeTest, InjectTask, InjectBegins,
                InjectConsume, InjectStorage, InjectTest, Thread, ThreadGivesUp, ThreadLoops,
                ThreadEnds, Indexer, PopCommand, IndexerReturns, StartFile, IndexFile, FinishFile,
                NoticeInterrupt, Die, GroupEnds, RemainingEnds, StopFilling, StopIndexers,
                DropStorages, Terminate, Ended, buildVars, taskVars, vars
  <2>2. \A f : Indexed(f)' <=> Indexed(f)
    <3>1. CASE Merge \/ InjectTask
      BY <3>1, StoredSame DEF Indexed
    <3>2. CASE BuildReport
      BY <3>2, ReportStored
    <3>3. CASE ~Merge /\ ~InjectTask /\ ~BuildReport
      <4>1. UNCHANGED <<sp, target, source, taken, db>>
        BY <1>2, <1>4, <3>3 DEF Next, Fill, FillEnter, FillUpdate, FillExit, Build, BuildEnter,
                                BuildUpdate, BuildJoin, DrainBegin, FetchBreak, BuildExit, Thread,
                                ThreadGivesUp, ThreadLoops, ThreadEnds, Indexer, PopCommand,
                                IndexerReturns, StartFile, IndexFile, FinishFile, NoticeInterrupt,
                                Die, GroupEnds, RemainingEnds, StopFilling, StopIndexers,
                                Terminate, Ended, mergeVars, injectVars, taskVars, vars
      <4> QED
        BY <4>1 DEF Indexed, Stored
    <3> QED
      BY <3>1, <3>2, <3>3
  <2>3. {f \in Files : Indexed(f)'} = I
    BY <2>2
  <2> QED
    BY <1>2, <2>1, <2>3 DEF Counted
<1> QED
  BY <1>3, <1>4

LEMMA CountedInit == Init => Counted
<1> SUFFICES ASSUME Init PROVE count = Cardinality({f \in Files : Indexed(f)})
  BY DEF Counted
<1>1. {f \in Files : Indexed(f)} = {}
  BY DEF Init, Indexed, Stored
<1> QED
  BY <1>1, FS_EmptySet DEF Init

LEMMA CountedMeans == TypeOK /\ Once /\ Control /\ Counted => CountIsInjected
<1> SUFFICES ASSUME TypeOK, Once, Control, Counted, phase = "done", intPc = 0
             PROVE  count = Cardinality({f \in Files : <<f, "index">> \in db})
  BY DEF CountIsInjected
<1>1. sp = {} /\ target = {} /\ source = {} /\ taken = {}
  BY DEF Control, Once, Hands
<1>2. Stored = db
  BY <1>1 DEF Stored
<1> QED
  BY <1>2 DEF Counted, Indexed

\* The number that TaskFinishParsing reports is that of the files whose index is
\* in the database: what fetchIntermediateStorages has counted is injected, by the
\* task in the group or by the last one.
THEOREM CountInjected == Spec => []CountIsInjected
BY ControlAlways, CountedInit, CountedStep, CountedMeans, OnceAlways, TypeCorrect,
   PTL DEF Spec

-----------------------------------------------------------------------------
(* NothingDropped, strengthened by what each indexer holds, begins and has said *)

NotGivenUp == intPc = 0 /\ ~interrupted

\* An indexer holds a command from popping it to leaving its storage and is told
\* to stop by an interruption only; doExit has waited for its thread.
Working(p) ==
  /\ buildPc = "blocked" => thr[p] = "off"
  /\ thr[p] # "off" => queueStarted
  /\ thr[p] # "work" => ipc[p] = "pop"
  /\ ipc[p] \in {"pop", "finish"} => hand[p] = {}
  /\ ipc[p] \in {"wait", "index"} => \E f \in Files : hand[p] = {f}
  /\ buildPc \in {"drain", "drainPop", "report", "exit", "done"} => thr[p] = "returned"
  /\ intPc = 0 /\ thr[p] = "work" => awake[p]
Workers == \A p \in Procs : Working(p)

\* The oldest command is one: of the sets of commands no younger than one of
\* them, a smallest one holds nothing but that command.
LEMMA OldestOne ==
  ASSUME NEW S \in SUBSET Nat, IsFiniteSet(S), S # {}
  PROVE  \E f \in S : Oldest(S) = {f}
<1> DEFINE upTo(x) == {z \in S : z <= x}
           T == {upTo(x) : x \in S}
<1>1. T \subseteq FiniteSubsetsOf(S) /\ T # {}
  <2>1. FiniteSubsetsOf(S) = SUBSET S
    BY FS_FiniteSubsetsOfFinite
  <2>2. \A x \in S : upTo(x) \in SUBSET S
    OBVIOUS
  <2> HIDE DEF upTo
  <2>3. T \subseteq SUBSET S /\ T # {}
    BY <2>2
  <2> QED
    BY <2>1, <2>3
<1>2. PICK U \in T : \A V \in T : ~(<<V, U>> \in StrictSubsetOrdering(S))
  <2> HIDE DEF T
  <2> QED
    BY <1>1, FS_StrictSubsetOrderingWellFounded, WFMin
<1>3. PICK f \in S : U = upTo(f)
  OBVIOUS
<1>4. ASSUME NEW y \in S PROVE f <= y
  <2>1. f \in Int /\ y \in Int /\ \A z \in S : z \in Int
    OBVIOUS
  <2>2. f \in upTo(f) /\ upTo(y) \in T
    BY <2>1
  <2>3. y < f => (\A z \in S : z <= y => z <= f) /\ ~(f <= y)
    BY <2>1
  <2>4. y < f => upTo(y) \subseteq upTo(f) /\ f \notin upTo(y)
    BY <2>3
  <2>5. <<upTo(y), upTo(f)>> \in (SUBSET S) \X (SUBSET S)
    OBVIOUS
  <2>6. <<upTo(y), upTo(f)>> \notin StrictSubsetOrdering(S)
    BY <1>2, <1>3, <2>2, Zenon
  <2> HIDE DEF upTo, T
  <2>7. ~(upTo(y) \subseteq upTo(f) /\ upTo(y) # upTo(f))
    BY <2>5, <2>6 DEF StrictSubsetOrdering
  <2>8. ~(y < f)
    BY <2>2, <2>4, <2>7
  <2> QED
    BY <2>1, <2>8
<1>5. \A x \in S : (\A y \in S : x <= y) <=> x = f
  BY <1>4
<1>6. Oldest(S) = {f}
  BY <1>5 DEF Oldest
<1> QED
  BY <1>6

LEMMA WorkersInit == Init => Workers
BY DEF Init, Workers, Working

LEMMA WorkersProcs ==
  ASSUME TypeOK, Control, Workers,
         NEW p \in Procs, Thread(p) \/ Indexer(p) \/ NoticeInterrupt(p) \/ Die(p)
  PROVE  Workers'
<1> SUFFICES ASSUME NEW q \in Procs PROVE Working(q)'
  BY DEF Workers
<1> USE DEF TypeOK, Workers, Working, runVars
<1>1. UNCHANGED <<buildPc, queueStarted, intPc, provider>>
  BY DEF Thread, ThreadGivesUp, ThreadLoops, ThreadEnds, Indexer, PopCommand, IndexerReturns,
         StartFile, IndexFile, FinishFile, NoticeInterrupt, Die, taskVars, fillVars, buildVars
<1>2. CASE Thread(p)
  BY <1>1, <1>2 DEF Thread, ThreadGivesUp, ThreadLoops, ThreadEnds
<1>3. CASE PopCommand(p)
  <2>1. \E f \in Files : Oldest(queue) = {f}
    <3>1. queue \in SUBSET Nat /\ queue # {} /\ queue \subseteq Files /\ IsFiniteSet(queue)
      BY <1>3, Sizes, FS_Subset DEF PopCommand
    <3> QED
      BY <3>1, OldestOne
  <2> QED
    BY <1>1, <1>3, <2>1 DEF PopCommand, At
<1>4. CASE IndexerReturns(p) \/ Die(p)
  BY <1>1, <1>4 DEF IndexerReturns, Die, Leaves, At
<1>5. CASE StartFile(p) \/ IndexFile(p) \/ FinishFile(p)
  BY <1>1, <1>5 DEF StartFile, IndexFile, FinishFile, At
<1>6. CASE NoticeInterrupt(p)
  BY <1>1, <1>6 DEF NoticeInterrupt, Control
<1> QED
  BY <1>2, <1>3, <1>4, <1>5, <1>6 DEF Indexer

LEMMA WorkersBuild == TypeOK /\ Control /\ Workers /\ Build => Workers'
<1> SUFFICES ASSUME TypeOK, Control, Workers, Build, NEW q \in Procs PROVE Working(q)'
  BY DEF Workers
<1>1. UNCHANGED <<queueStarted, intPc, ipc, hand>>
  BY DEF Build, BuildEnter, BuildUpdate, BuildJoin, DrainBegin, FetchPop, FetchBreak,
         BuildReport, BuildExit, runVars, fillVars, procVars
<1>2. CASE BuildEnter
  BY <1>1, <1>2 DEF BuildEnter, Workers, Working, TypeOK
<1>3. CASE ~BuildEnter
  <2>1. /\ UNCHANGED <<thr, awake>> /\ buildPc' # "blocked"
        /\ buildPc' \in {"drain", "drainPop", "report", "exit", "done"} =>
             \/ buildPc \in {"drain", "drainPop", "report", "exit", "done"}
             \/ \A p \in Procs : thr[p] = "returned"
    BY <1>3 DEF Build, BuildUpdate, BuildJoin, DrainBegin, FetchPop, FetchBreak,
         BuildReport, BuildExit, procVars, Returned
  <2> QED
    BY <1>1, <2>1 DEF Workers, Working
<1> QED
  BY <1>2, <1>3

LEMMA WorkersStep == TypeOK /\ Control /\ Workers /\ [Next]_vars => Workers'
<1> SUFFICES ASSUME TypeOK, Control, Workers, [Next]_vars PROVE Workers'
  OBVIOUS
<1>1. CASE Build
  BY <1>1, WorkersBuild
<1>2. CASE \E p \in Procs : Thread(p) \/ Indexer(p) \/ NoticeInterrupt(p) \/ Die(p)
  BY <1>2, WorkersProcs
<1>3. CASE Terminate
  <2>1. UNCHANGED <<buildPc, queueStarted, intPc>>
    BY <1>3 DEF Terminate, buildVars
  <2>2. PICK leaving : Leaves(leaving, 1) /\ \A q \in leaving : thr[q] = "work"
    BY <1>3 DEF Terminate
  <2> QED
    BY <2>1, <2>2 DEF Leaves, Workers, Working, TypeOK
<1>4. CASE Fill
  <2>1. UNCHANGED <<buildPc, intPc, procVars>> /\ (queueStarted => queueStarted')
    BY <1>4 DEF Fill, FillEnter, FillUpdate, FillExit, buildVars, runVars
  <2> QED
    BY <2>1 DEF Workers, Working, procVars
<1>5. CASE Merge \/ InjectTask \/ GroupEnds \/ RemainingEnds \/ StopFilling \/ StopIndexers
             \/ DropStorages \/ UNCHANGED vars
  <2>1. UNCHANGED <<buildPc, queueStarted, procVars>> /\ (intPc' = 0 => intPc = 0)
    BY <1>5 DEF Merge, MergeBegins, MergeCheck, MergeTake, MergeInsert, MergeTest, InjectTask,
         InjectBegins, InjectConsume, InjectStorage, InjectTest, GroupEnds, RemainingEnds,
         StopFilling, StopIndexers, DropStorages, vars, runVars, taskVars, fillVars, buildVars
  <2> QED
    BY <2>1 DEF Workers, Working, procVars
<1> QED
  BY <1>1, <1>2, <1>3, <1>4, <1>5 DEF Next, Ended

\* As often as an indexer has said that it finished a file, a storage of it waits.
Times(p, s) == Cardinality({i \in 1 .. Len(s) : s[i] = p})
Matched == NotGivenUp =>
  \A p \in Procs : Cardinality(storages[p]) =
                      Times(p, finished) + (IF ipc[p] = "finish" THEN 1 ELSE 0)

LEMMA TimesFinite ==
  ASSUME NEW n \in Nat, NEW I \in SUBSET (1 .. n)
  PROVE  IsFiniteSet(I) /\ Cardinality(I) \in Nat
<1>1. IsFiniteSet(1 .. n)
  BY FS_Interval
<1>2. IsFiniteSet(I)
  BY <1>1, FS_Subset
<1> QED
  BY <1>2, FS_CardinalityType

LEMMA OneMore ==
  ASSUME NEW I, IsFiniteSet(I), Cardinality(I) \in Nat, NEW x, x \notin I, NEW more \in BOOLEAN
  PROVE  Cardinality(IF more THEN I \cup {x} ELSE I) = Cardinality(I) + (IF more THEN 1 ELSE 0)
BY FS_AddElement

LEMMA TimesAppend ==
  ASSUME NEW S, NEW s \in Seq(S), NEW p \in S, NEW q
  PROVE  Times(q, Append(s, p)) = Times(q, s) + (IF p = q THEN 1 ELSE 0)
<1> DEFINE I == {i \in 1 .. Len(s) : s[i] = q}
           J == {i \in 1 .. Len(Append(s, p)) : Append(s, p)[i] = q}
<1>1. IsFiniteSet(I) /\ Cardinality(I) \in Nat
  <2>1. Len(s) \in Nat /\ I \in SUBSET (1 .. Len(s))
    OBVIOUS
  <2> HIDE DEF I
  <2> QED
    BY <2>1, TimesFinite
<1>2. J = IF p = q THEN I \cup {Len(s) + 1} ELSE I
  OBVIOUS
<1>3. Len(s) + 1 \notin I
  OBVIOUS
<1>4. Times(q, s) = Cardinality(I) /\ Times(q, Append(s, p)) = Cardinality(J)
  BY DEF Times
<1> HIDE DEF I, J
<1> QED
  BY <1>1, <1>2, <1>3, <1>4, OneMore

LEMMA TimesTail ==
  ASSUME NEW S, NEW s \in Seq(S), s # <<>>, NEW q
  PROVE  Times(q, s) = Times(q, Tail(s)) + (IF Head(s) = q THEN 1 ELSE 0)
<1> DEFINE I == {i \in 1 .. Len(Tail(s)) : Tail(s)[i] = q}
           J == {i \in 1 .. Len(s) : s[i] = q}
           K == {i \in 2 .. Len(s) : s[i] = q}
<1>1. IsFiniteSet(I) /\ Cardinality(I) \in Nat
  <2>1. Len(Tail(s)) \in Nat
    OBVIOUS
  <2> QED
    BY <2>1, TimesFinite
<1>2. ExistsBijection(I, K)
  <2> DEFINE f == [i \in I |-> i + 1]
  <2>1. \A i \in I : i + 1 \in K
    OBVIOUS
  <2>2. \A k \in K : k - 1 \in I
    OBVIOUS
  <2>3. f \in [I -> K]
    BY <2>1
  <2>4. \A i, j \in I : f[i] = f[j] => i = j
    OBVIOUS
  <2>5. \A k \in K : \E i \in I : f[i] = k
    <3> SUFFICES ASSUME NEW k \in K PROVE \E i \in I : f[i] = k
      OBVIOUS
    <3>1. k - 1 \in I /\ f[k - 1] = k
      BY <2>2
    <3> QED
      BY <3>1
  <2> HIDE DEF f, I, K
  <2>6. f \in Bijection(I, K)
    BY <2>3, <2>4, <2>5, Fun_IsBij
  <2> QED
    BY <2>6, Fun_ExistsBij
<1>3. IsFiniteSet(K) /\ Cardinality(K) = Cardinality(I)
  <2> HIDE DEF I, K
  <2> QED
    BY <1>1, <1>2, FS_Bijection
<1>4. J = IF Head(s) = q THEN K \cup {1} ELSE K
  OBVIOUS
<1>5. 1 \notin K
  OBVIOUS
<1>6. Times(q, s) = Cardinality(J) /\ Times(q, Tail(s)) = Cardinality(I)
  BY DEF Times
<1> HIDE DEF I, J, K
<1> QED
  BY <1>1, <1>3, <1>4, <1>5, <1>6, OneMore

\* Only the first indexer may die, before it has a command or while it works on one.
FirstDies == /\ DiesIn \subseteq {"pop", "index"}
             /\ \A p \in Unstable, q \in Procs : p <= q

\* The steps of a run that is not given up.
Quiet == \/ Fill \/ Merge \/ InjectTask \/ GroupEnds \/ RemainingEnds \/ UNCHANGED vars
         \/ Build /\ ~FetchPop /\ ~FetchBreak
         \/ \E p \in Procs : ThreadLoops(p) \/ ThreadEnds(p)

LEMMA OnSteps ==
  ASSUME TypeOK, Control, [Next]_vars, NotGivenUp'
  PROVE  /\ NotGivenUp
         /\ Quiet \/ FetchPop \/ FetchBreak \/ \E p \in Procs : Indexer(p) \/ Die(p)
<1>1. intPc = 0
  BY IntStays DEF NotGivenUp
<1>2. ~interrupted
  <2>1. CASE StopIndexers \/ Terminate \/ \E p \in Procs : ThreadGivesUp(p)
    BY <2>1 DEF StopIndexers, Terminate, ThreadGivesUp, NotGivenUp
  <2>2. CASE ~(StopIndexers \/ Terminate \/ \E p \in Procs : ThreadGivesUp(p))
    <3>1. UNCHANGED interrupted
      BY <2>2 DEF Next, Fill, FillEnter, FillUpdate, FillExit, Build, BuildEnter, BuildUpdate,
         BuildJoin, DrainBegin, FetchPop, FetchBreak, BuildReport, BuildExit, Merge, MergeBegins,
         MergeCheck, MergeTake, MergeInsert, MergeTest, InjectTask, InjectBegins, InjectConsume,
         InjectStorage, InjectTest, Thread, ThreadLoops, ThreadEnds, Indexer, PopCommand,
         IndexerReturns, StartFile, IndexFile, FinishFile, NoticeInterrupt, Die, GroupEnds,
         RemainingEnds, StopFilling, DropStorages, Ended, runVars, vars
    <3> QED
      BY <3>1 DEF NotGivenUp
  <2> QED
    BY <2>1, <2>2
<1>3. ~StopFilling /\ ~StopIndexers /\ ~DropStorages
  BY <1>1 DEF StopFilling, StopIndexers, DropStorages, NotGivenUp
<1>4. ~Terminate /\ \A p \in Procs : ~ThreadGivesUp(p) /\ ~NoticeInterrupt(p)
  BY <1>1 DEF Terminate, ThreadGivesUp, NoticeInterrupt, Control, NotGivenUp
<1>5. NotGivenUp
  BY <1>1, <1>2 DEF NotGivenUp
<1> QED
  BY <1>3, <1>4, <1>5, Zenon DEF Next, Ended, Thread, Quiet

\* A quiet step leaves to the indexers what is theirs and takes nothing from the rest.
LEMMA QuietFrame ==
  ASSUME TypeOK, Once, Quiet
  PROVE  /\ UNCHANGED <<hand, ipc, current, crashed, finished, storages>>
         /\ provider \cup queue \subseteq provider' \cup queue'
         /\ \A r \in Stored : r \in Stored'
<1>1. UNCHANGED <<hand, ipc, current, crashed, finished, storages>>
  BY DEF Quiet, Fill, FillEnter, FillUpdate, FillExit, Merge, MergeBegins, MergeCheck, MergeTake,
         MergeInsert, MergeTest, InjectTask, InjectBegins, InjectConsume, InjectStorage,
         InjectTest, GroupEnds, RemainingEnds, Build, BuildEnter, BuildUpdate, BuildJoin,
         DrainBegin, BuildReport, BuildExit, ThreadLoops, ThreadEnds, vars, procVars, statusVars
<1>2. provider \cup queue \subseteq provider' \cup queue'
  <2>1. CASE Fill
    BY <2>1 DEF Fill, FillEnter, FillUpdate, FillExit, Refill
  <2>2. CASE ~Fill
    BY <2>2 DEF Quiet, Merge, MergeBegins, MergeCheck, MergeTake, MergeInsert, MergeTest,
                InjectTask, InjectBegins, InjectConsume, InjectStorage, InjectTest, GroupEnds,
                RemainingEnds, Build, BuildEnter, BuildUpdate, BuildJoin, DrainBegin, BuildReport,
                BuildExit, ThreadLoops, ThreadEnds, vars, taskVars, fillVars
  <2> QED
    BY <2>1, <2>2
<1>3. \A r \in Stored : r \in Stored'
  <2>1. CASE Merge \/ InjectTask
    BY <2>1, StoredSame
  <2>2. CASE BuildReport
    BY <2>2, InStored DEF BuildReport, mergeVars, injectVars
  <2>3. CASE ~Merge /\ ~InjectTask /\ ~BuildReport
    <3>1. UNCHANGED <<sp, target, source, taken, db>>
      BY <2>3 DEF Quiet, Fill, FillEnter, FillUpdate, FillExit, GroupEnds, RemainingEnds, Build,
         BuildEnter, BuildUpdate, BuildJoin, DrainBegin, BuildExit, ThreadLoops, ThreadEnds, vars,
         taskVars, mergeVars, injectVars
    <3> QED
      BY <3>1 DEF Stored
  <2> QED
    BY <2>1, <2>2, <2>3
<1> QED
  BY <1>1, <1>2, <1>3

LEMMA TimesNone == \A p : Times(p, <<>>) = 0
<1> SUFFICES ASSUME NEW p PROVE Times(p, <<>>) = 0
  OBVIOUS
<1>1. {i \in 1 .. Len(<<>>) : <<>>[i] = p} = {}
  OBVIOUS
<1> QED
  BY <1>1, FS_EmptySet DEF Times

LEMMA MatchedInit == Init => Matched
BY TimesNone, FS_EmptySet DEF Init, Matched

\* One command, or none, more or less in a set of commands.
LEMMA FilesFinite == ASSUME NEW S \in SUBSET Files
                     PROVE  IsFiniteSet(S) /\ Cardinality(S) \in Nat /\ (Cardinality(S) = 0 <=> S = {})
<1>1. IsFiniteSet(S)
  BY Sizes, FS_Subset
<1> QED
  BY <1>1, FS_CardinalityType, FS_EmptySet

LEMMA TimesNat == ASSUME NEW s \in Seq(Procs), NEW p PROVE Times(p, s) \in Nat
<1>1. Len(s) \in Nat /\ {i \in 1 .. Len(s) : s[i] = p} \in SUBSET (1 .. Len(s))
  OBVIOUS
<1> QED
  BY <1>1, TimesFinite DEF Times

\* Who has said that it finished has left a storage.
LEMMA SaidWaits ==
  ASSUME TypeOK, Matched, NotGivenUp, finished # <<>>
  PROVE  storages[Head(finished)] # {}
<1> DEFINE p == Head(finished)
<1>1. p \in Procs /\ finished \in Seq(Procs) /\ Tail(finished) \in Seq(Procs)
  BY DEF TypeOK
<1>2. Times(p, finished) = Times(p, Tail(finished)) + 1 /\ Times(p, Tail(finished)) \in Nat
  BY <1>1, TimesTail, TimesNat
<1>3. Cardinality(storages[p]) # 0
  BY <1>1, <1>2 DEF Matched
<1> QED
  BY <1>3, FS_EmptySet

LEMMA MatchedStep ==
  ASSUME TypeOK, Once, Control, Workers, Matched, FirstDies, [Next]_vars
  PROVE  Matched'
<1> SUFFICES ASSUME NotGivenUp', NEW q \in Procs
             PROVE  Cardinality(storages'[q]) =
                       Times(q, finished)' + (IF ipc'[q] = "finish" THEN 1 ELSE 0)
  BY DEF Matched
<1>1. NotGivenUp
  BY OnSteps
<1>2. Cardinality(storages[q]) = Times(q, finished) + (IF ipc[q] = "finish" THEN 1 ELSE 0)
  BY <1>1 DEF Matched
<1>3. /\ IsFiniteSet(storages[q]) /\ Cardinality(storages[q]) \in Nat
      /\ Times(q, finished) \in Nat /\ finished \in Seq(Procs)
  BY FilesFinite, TimesNat DEF TypeOK
<1>4. CASE Quiet
  BY <1>2, <1>4, QuietFrame DEF Times
<1>5. CASE FetchPop
  <2>1. PICK f \in storages[Head(finished)] : storages' = [storages EXCEPT ![Head(finished)] = @ \ {f}]
    BY <1>5, PopStored
  <2>2. finished # <<>> /\ finished' = Tail(finished) /\ UNCHANGED ipc
    BY <1>5 DEF FetchPop, procVars
  <2>3. Times(q, finished) = Times(q, Tail(finished)) + (IF Head(finished) = q THEN 1 ELSE 0)
    BY <1>3, <2>2, TimesTail
  <2>4. Times(q, finished)' = Times(q, Tail(finished)) /\ Times(q, Tail(finished)) \in Nat
    <3>1. Tail(finished) \in Seq(Procs)
      BY <1>3, <2>2
    <3>2. Times(q, Tail(finished)) \in Nat
      BY <3>1, TimesNat
    <3> QED
      BY <2>2, <3>2 DEF Times
  <2>5. CASE Head(finished) = q
    <3>1. f \in storages[q] /\ storages'[q] = storages[q] \ {f}
      BY <2>1, <2>5 DEF TypeOK
    <3>2. Cardinality(storages'[q]) = Cardinality(storages[q]) - 1
      BY <1>3, <3>1, FS_RemoveElement
    <3> QED
      BY <1>2, <1>3, <2>2, <2>3, <2>4, <2>5, <3>2
  <2>6. CASE Head(finished) # q
    <3>1. storages'[q] = storages[q]
      BY <2>1, <2>6 DEF TypeOK
    <3> QED
      BY <1>2, <1>3, <2>2, <2>3, <2>4, <2>6, <3>1
  <2> QED
    BY <2>5, <2>6
<1>6. CASE FetchBreak
  <2>1. finished = <<>>
    BY <1>1, <1>6, SaidWaits DEF FetchBreak
  <2>2. UNCHANGED <<finished, storages, ipc>>
    BY <1>6, <2>1 DEF FetchBreak, procVars
  <2> QED
    BY <1>2, <2>2 DEF Times
<1>7. ASSUME NEW p \in Procs, Indexer(p) \/ Die(p)
      PROVE  Cardinality(storages'[q]) =
                       Times(q, finished)' + (IF ipc'[q] = "finish" THEN 1 ELSE 0)
  <2>1. CASE PopCommand(p) \/ IndexerReturns(p) \/ StartFile(p) \/ Die(p)
    <3>1. UNCHANGED <<finished, storages>>
      BY <2>1 DEF PopCommand, IndexerReturns, StartFile, Die, statusVars
    <3>2. ipc'[q] = "finish" <=> ipc[q] = "finish"
      BY <2>1 DEF PopCommand, IndexerReturns, StartFile, Die, At, Leaves, FirstDies, TypeOK
    <3> QED
      BY <1>2, <3>1, <3>2 DEF Times
  <2>2. CASE IndexFile(p)
    <3>1. /\ awake[p] /\ (\E f \in Files : hand[p] = {f}) /\ hand[p] \cap storages[p] = {}
      BY <1>1, <2>2 DEF IndexFile, At, Workers, Working, NotGivenUp, Once, Commands
    <3>2. /\ UNCHANGED finished /\ ipc' = [ipc EXCEPT ![p] = "finish"] /\ ipc[p] = "index"
          /\ storages' = [storages EXCEPT ![p] = @ \cup hand[p]]
      BY <2>2, <3>1 DEF IndexFile, At
    <3>3. CASE q = p
      <4>1. PICK f \in Files : hand[p] = {f} /\ f \notin storages[p]
        BY <3>1
      <4>2. storages'[q] = storages[q] \cup {f} /\ f \notin storages[q]
        BY <3>2, <3>3, <4>1 DEF TypeOK
      <4>3. Cardinality(storages'[q]) = Cardinality(storages[q]) + 1
        BY <1>3, <4>2, FS_AddElement
      <4>4. ipc'[q] = "finish" /\ ipc[q] # "finish"
        BY <3>2, <3>3 DEF TypeOK
      <4> QED
        BY <1>2, <1>3, <3>2, <4>3, <4>4 DEF Times
    <3>4. CASE q # p
      <4>1. storages'[q] = storages[q] /\ ipc'[q] = ipc[q]
        BY <3>2, <3>4 DEF TypeOK
      <4> QED
        BY <1>2, <3>2, <4>1 DEF Times
    <3> QED
      BY <3>3, <3>4
  <2>3. CASE FinishFile(p)
    <3>1. /\ finished' = Append(finished, p) /\ UNCHANGED storages
          /\ ipc' = [ipc EXCEPT ![p] = "pop"] /\ ipc[p] = "finish"
      BY <2>3 DEF FinishFile, At
    <3>2. Times(q, Append(finished, p)) = Times(q, finished) + (IF p = q THEN 1 ELSE 0)
      BY <1>3, TimesAppend
    <3>4. Times(q, finished)' = Times(q, Append(finished, p))
      BY <3>1 DEF Times
    <3>3. ipc'[q] = IF p = q THEN "pop" ELSE ipc[q]
      BY <3>1 DEF TypeOK
    <3> QED
      BY <1>2, <1>3, <3>1, <3>2, <3>3, <3>4
  <2> QED
    BY <1>7, <2>1, <2>2, <2>3 DEF Indexer
<1> QED
  BY <1>4, <1>5, <1>6, <1>7, OnSteps

\* The file an indexer last began is in its hands, or its index is on its way;
\* that of an indexer that may die is known to be begun as long as it is in work.
Begun == NotGivenUp =>
  \A p \in Procs :
     /\ p \notin Unstable \/ ipc[p] \in {"index", "finish"} =>
           \A f \in current[p] : f \in Held(p) \/ Indexed(f)
     /\ p \in Unstable /\ ipc[p] = "index" => hand[p] \subseteq current[p]

\* Where a file may be.
Somewhere(f) ==
  \/ f \in provider \cup queue \cup CrashedFiles
  \/ \E p \in Procs : f \in Held(p)
  \/ \E r \in Stored : r[1] = f
Kept == NotGivenUp => \A f \in Files : Somewhere(f)

LEMMA BegunInit == Init => Begun
BY DEF Init, Begun

LEMMA KeptInit == Init => Kept
BY DEF Init, Kept, Somewhere

\* A storage that is fetched leaves its file indexed; no other file moves.
LEMMA PopFrame ==
  ASSUME TypeOK, Once, FetchPop
  PROVE  /\ UNCHANGED <<hand, ipc, current, crashed, provider, queue>>
         /\ \A r \in Stored : r \in Stored'
         /\ \A p \in Procs : \A f \in Held(p) : f \in Held(p)' \/ Indexed(f)'
<1>1. UNCHANGED <<hand, ipc, current, crashed, provider, queue>>
  BY DEF FetchPop, fillVars, procVars
<1>2. PICK f \in storages[Head(finished)] :
            /\ storages' = [storages EXCEPT ![Head(finished)] = @ \ {f}]
            /\ \A r : r \in Stored' <=> r \in Stored \/ r = <<f, "index">>
  BY PopStored
<1>3. ASSUME NEW p \in Procs, NEW g \in Held(p) PROVE g \in Held(p)' \/ Indexed(g)'
  <2>1. CASE g = f
    BY <1>2, <2>1 DEF Indexed
  <2>2. CASE g # f
    BY <1>1, <1>2, <1>3, <2>2 DEF Held, TypeOK
  <2> QED
    BY <2>1, <2>2
<1> QED
  BY <1>1, <1>2, <1>3

LEMMA BreakFrame ==
  FetchBreak => UNCHANGED <<hand, ipc, current, crashed, provider, queue, storages, sp, target,
                            source, taken, db>>
BY DEF FetchBreak, fillVars, procVars, mergeVars, injectVars

\* An indexer does not touch the records.
LEMMA IndexerFrame ==
  ASSUME NEW p \in Procs, Indexer(p) \/ Die(p)
  PROVE  UNCHANGED <<provider, buildPc, sp, target, source, taken, db>>
BY DEF Indexer, PopCommand, IndexerReturns, StartFile, IndexFile, FinishFile, Die, taskVars,
       fillVars, buildVars, mergeVars, injectVars

\* Leaving an indexer costs nothing: it has no command, or has begun it and may die.
LEMMA LeavingFrame ==
  ASSUME TypeOK, Workers, Begun, NotGivenUp, FirstDies,
         NEW p \in Procs, IndexerReturns(p) \/ Die(p)
  PROVE  /\ UNCHANGED <<provider, queue, current, crashed, storages, finished>>
         /\ ipc' = [ipc EXCEPT ![p] = "pop"] /\ hand' = [hand EXCEPT ![p] = {}]
         /\ hand[p] = {} \/ (p \in Unstable /\ hand[p] \subseteq current[p])
<1>1. UNCHANGED <<provider, queue, current, crashed, storages, finished>>
  BY DEF IndexerReturns, Die, taskVars, fillVars, statusVars
<1>2. ipc' = [ipc EXCEPT ![p] = "pop"] /\ hand' = [hand EXCEPT ![p] = {}]
  BY DEF IndexerReturns, Die, Leaves, TypeOK
<1>3. ASSUME IndexerReturns(p) PROVE hand[p] = {}
  <2>1. ipc[p] = "pop" \/ (thr[p] = "work" /\ ~awake[p])
    BY <1>3 DEF IndexerReturns, At
  <2> QED
    BY <2>1 DEF Workers, Working, NotGivenUp
<1>4. ASSUME Die(p) PROVE hand[p] = {} \/ (p \in Unstable /\ hand[p] \subseteq current[p])
  <2>1. p \in Unstable /\ ipc[p] \in {"pop", "index"}
    BY <1>4 DEF Die, FirstDies
  <2>2. ipc[p] = "pop" => hand[p] = {}
    BY DEF Workers, Working
  <2>3. ipc[p] = "index" => hand[p] \subseteq current[p]
    BY <2>1 DEF Begun
  <2> QED
    BY <2>1, <2>2, <2>3
<1> QED
  BY <1>1, <1>2, <1>3, <1>4

LEMMA BegunStep ==
  ASSUME TypeOK, Once, Control, Workers, Begun, FirstDies, [Next]_vars
  PROVE  Begun'
<1> SUFFICES ASSUME NotGivenUp', NEW q \in Procs
             PROVE  /\ q \notin Unstable \/ ipc'[q] \in {"index", "finish"} =>
                         \A f \in current'[q] : f \in Held(q)' \/ Indexed(f)'
                    /\ q \in Unstable /\ ipc'[q] = "index" => hand'[q] \subseteq current'[q]
  BY DEF Begun
<1>1. NotGivenUp
  BY OnSteps
<1>2. /\ q \notin Unstable \/ ipc[q] \in {"index", "finish"} =>
             \A f \in current[q] : f \in Held(q) \/ Indexed(f)
      /\ q \in Unstable /\ ipc[q] = "index" => hand[q] \subseteq current[q]
  BY <1>1 DEF Begun
<1>3. CASE Quiet
  <2>1. UNCHANGED <<hand, ipc, current, storages>> /\ \A f : Indexed(f) => Indexed(f)'
    BY <1>3, QuietFrame DEF Indexed
  <2> QED
    BY <1>2, <2>1 DEF Held
<1>4. CASE FetchPop
  <2>1. /\ UNCHANGED <<hand, ipc, current>> /\ \A f : Indexed(f) => Indexed(f)'
        /\ \A f \in Held(q) : f \in Held(q)' \/ Indexed(f)'
    BY <1>4, PopFrame DEF Indexed
  <2> QED
    BY <1>2, <2>1
<1>5. CASE FetchBreak
  <2>1. Stored' = Stored /\ UNCHANGED <<hand, ipc, current, storages>>
    BY <1>5, BreakFrame DEF Stored
  <2> QED
    BY <1>2, <2>1 DEF Held, Indexed
<1>6. ASSUME NEW p \in Procs, Indexer(p) \/ Die(p)
      PROVE  /\ q \notin Unstable \/ ipc'[q] \in {"index", "finish"} =>
                         \A f \in current'[q] : f \in Held(q)' \/ Indexed(f)'
             /\ q \in Unstable /\ ipc'[q] = "index" => hand'[q] \subseteq current'[q]
  <2>1. \A f : Indexed(f)' <=> Indexed(f)
    BY <1>6, IndexerFrame DEF Indexed, Stored
  <2>2. CASE PopCommand(p)
    <3>1. /\ UNCHANGED <<current, storages>> /\ hand[p] = {}
          /\ hand' = [hand EXCEPT ![p] = Oldest(queue)] /\ ipc' = [ipc EXCEPT ![p] = "wait"]
      BY <2>2 DEF PopCommand, At, statusVars, Workers, Working
    <3> QED
      BY <1>2, <2>1, <3>1 DEF Held, TypeOK
  <2>3. CASE IndexerReturns(p) \/ Die(p)
    <3>1. /\ UNCHANGED <<current, storages>>
          /\ ipc' = [ipc EXCEPT ![p] = "pop"] /\ hand' = [hand EXCEPT ![p] = {}]
          /\ hand[p] = {} \/ p \in Unstable
      BY <1>1, <2>3, LeavingFrame
    <3> QED
      BY <1>2, <2>1, <3>1 DEF Held, TypeOK
  <2>4. CASE StartFile(p)
    <3>1. /\ UNCHANGED <<hand, storages>>
          /\ current' = [current EXCEPT ![p] = hand[p]] /\ ipc' = [ipc EXCEPT ![p] = "index"]
      BY <2>4 DEF StartFile
    <3> QED
      BY <1>2, <2>1, <3>1 DEF Held, TypeOK
  <2>5. CASE IndexFile(p)
    <3>1. /\ UNCHANGED current /\ ipc[p] = "index" /\ ipc' = [ipc EXCEPT ![p] = "finish"]
          /\ storages' = [storages EXCEPT ![p] = @ \cup hand[p]] /\ hand' = [hand EXCEPT ![p] = {}]
      BY <1>1, <2>5 DEF IndexFile, At, Workers, Working, NotGivenUp
    <3>2. Held(q)' = Held(q)
      BY <3>1 DEF Held, TypeOK
    <3> QED
      BY <1>2, <2>1, <3>1, <3>2 DEF TypeOK
  <2>6. CASE FinishFile(p)
    <3>1. /\ UNCHANGED <<hand, storages>> /\ ipc[p] = "finish" /\ ipc' = [ipc EXCEPT ![p] = "pop"]
          /\ current' = [r \in Procs |-> IF r \in Erased(p) THEN {} ELSE current[r]]
      BY <2>6 DEF FinishFile, At
    <3>2. current'[q] \subseteq current[q]
      BY <3>1
    <3>3. q \in Unstable /\ ipc'[q] = "index" => current'[q] = current[q]
      <4>1. q \in Unstable /\ q \in Erased(p) => q = p
        <5>1. q \in Unstable => q <= p
          BY DEF FirstDies
        <5>2. q \in Erased(p) => q >= p
          BY DEF Erased
        <5>3. p \in Int /\ q \in Int
          BY Sizes
        <5> QED
          BY <5>1, <5>2, <5>3
      <4> QED
        BY <3>1, <4>1 DEF TypeOK
    <3> QED
      BY <1>2, <2>1, <3>1, <3>2, <3>3 DEF Held, TypeOK
  <2> QED
    BY <1>6, <2>2, <2>3, <2>4, <2>5, <2>6 DEF Indexer
<1> QED
  BY <1>3, <1>4, <1>5, <1>6, OnSteps

LEMMA KeptStep ==
  ASSUME TypeOK, Once, Control, Workers, Begun, Kept, FirstDies, [Next]_vars
  PROVE  Kept'
<1> SUFFICES ASSUME NotGivenUp', NEW f \in Files PROVE Somewhere(f)'
  BY DEF Kept
<1>1. NotGivenUp
  BY OnSteps
<1>2. Somewhere(f)
  BY <1>1 DEF Kept
<1>3. CASE Quiet
  <2>1. /\ CrashedFiles' = CrashedFiles /\ provider \cup queue \subseteq provider' \cup queue'
        /\ \A p \in Procs : Held(p)' = Held(p)
        /\ \A r \in Stored : r \in Stored'
    BY <1>3, QuietFrame DEF CrashedFiles, Held
  <2> QED
    BY <1>2, <2>1 DEF Somewhere
<1>4. CASE FetchPop
  <2>1. /\ CrashedFiles' = CrashedFiles /\ UNCHANGED <<provider, queue>>
        /\ \A r \in Stored : r \in Stored'
        /\ \A p \in Procs : \A g \in Held(p) : g \in Held(p)' \/ Indexed(g)'
    BY <1>4, PopFrame DEF CrashedFiles
  <2>2. <<f, "index">>[1] = f
    OBVIOUS
  <2> QED
    BY <1>2, <2>1, <2>2 DEF Somewhere, Indexed
<1>5. CASE FetchBreak
  <2>1. /\ CrashedFiles' = CrashedFiles /\ UNCHANGED <<provider, queue>> /\ Stored' = Stored
        /\ \A p \in Procs : Held(p)' = Held(p)
    BY <1>5, BreakFrame DEF CrashedFiles, Stored, Held
  <2> QED
    BY <1>2, <2>1 DEF Somewhere
<1>6. ASSUME NEW p \in Procs, Indexer(p) \/ Die(p) PROVE Somewhere(f)'
  <2>1. Stored' = Stored /\ provider' = provider
    BY <1>6, IndexerFrame DEF Stored
  <2>2. CASE PopCommand(p)
    <3>1. /\ UNCHANGED <<current, crashed, storages>> /\ hand[p] = {}
          /\ hand' = [hand EXCEPT ![p] = Oldest(queue)] /\ queue' = queue \ Oldest(queue)
      BY <2>2 DEF PopCommand, At, statusVars, Workers, Working
    <3>2. CrashedFiles' = CrashedFiles /\ \A q \in Procs : Held(q) \subseteq Held(q)'
      BY <3>1 DEF CrashedFiles, Held, TypeOK
    <3>3. f \in queue => f \in queue' \/ f \in Held(p)'
      BY <3>1 DEF Held, TypeOK
    <3> QED
      BY <1>2, <2>1, <3>2, <3>3 DEF Somewhere
  <2>3. CASE IndexerReturns(p) \/ Die(p)
    <3>1. /\ UNCHANGED <<queue, current, crashed, storages>> /\ hand' = [hand EXCEPT ![p] = {}]
          /\ hand[p] \subseteq current[p]
      BY <1>1, <2>3, LeavingFrame
    <3>2. CrashedFiles' = CrashedFiles /\ \A g \in hand[p] : g \in CrashedFiles
      BY <3>1 DEF CrashedFiles
    <3>3. \A q \in Procs : \A g \in Held(q) : g \in Held(q)' \/ g \in hand[p]
      BY <3>1 DEF Held, TypeOK
    <3> QED
      BY <1>2, <2>1, <3>1, <3>2, <3>3 DEF Somewhere
  <2>4. CASE StartFile(p)
    <3>1. /\ UNCHANGED <<queue, hand, storages>> /\ crashed' = crashed \cup current[p]
          /\ current' = [current EXCEPT ![p] = hand[p]]
      BY <2>4 DEF StartFile
    <3>2. CrashedFiles \subseteq CrashedFiles'
      <4>1. \A q \in Procs : current[q] \subseteq crashed' \cup current'[q]
        BY <3>1 DEF TypeOK
      <4> QED
        BY <3>1, <4>1 DEF CrashedFiles
    <3> QED
      BY <1>2, <2>1, <3>1, <3>2 DEF Somewhere, Held
  <2>5. CASE IndexFile(p)
    <3>1. /\ UNCHANGED <<queue, current, crashed>>
          /\ storages' = [storages EXCEPT ![p] = @ \cup hand[p]] /\ hand' = [hand EXCEPT ![p] = {}]
      BY <1>1, <2>5 DEF IndexFile, At, Workers, Working, NotGivenUp
    <3>2. CrashedFiles' = CrashedFiles /\ \A q \in Procs : Held(q)' = Held(q)
      BY <3>1 DEF CrashedFiles, Held, TypeOK
    <3> QED
      BY <1>2, <2>1, <3>1, <3>2 DEF Somewhere
  <2>6. CASE FinishFile(p)
    <3>1. /\ UNCHANGED <<queue, hand, storages, crashed>> /\ ipc[p] = "finish"
          /\ current' = [r \in Procs |-> IF r \in Erased(p) THEN {} ELSE current[r]]
      BY <2>6 DEF FinishFile, At
    <3>2. ASSUME NEW q \in Procs, NEW g \in current[q]
          PROVE  g \in current'[q] \/ g \in Held(q) \/ Indexed(g)
      <4>1. q \in Erased(p) /\ q \in Unstable => q = p
        <5>1. q \in Unstable => q <= p
          BY DEF FirstDies
        <5>2. q \in Erased(p) => q >= p
          BY DEF Erased
        <5>3. p \in Int /\ q \in Int
          BY Sizes
        <5> QED
          BY <5>1, <5>2, <5>3
      <4> QED
        BY <1>1, <3>1, <3>2, <4>1 DEF Begun
    <3>3. f \in CrashedFiles => \/ f \in CrashedFiles' \/ \E q \in Procs : f \in Held(q)
                                \/ Indexed(f)
      BY <3>1, <3>2 DEF CrashedFiles
    <3>4. <<f, "index">>[1] = f
      OBVIOUS
    <3>5. \A q \in Procs : Held(q)' = Held(q)
      BY <3>1 DEF Held
    <3> QED
      BY <1>2, <2>1, <3>1, <3>3, <3>4, <3>5 DEF Somewhere, Indexed
  <2> QED
    BY <1>6, <2>2, <2>3, <2>4, <2>5, <2>6 DEF Indexer
<1> QED
  BY <1>3, <1>4, <1>5, <1>6, OnSteps

\* When doExit reports, nothing is left to be fetched; what crashed is reported.
Emptied == NotGivenUp /\ buildPc \in {"report", "exit", "done"} =>
  \A p \in Procs : storages[p] = {}
Reported == NotGivenUp /\ buildPc \in {"exit", "done"} =>
  \A f \in CrashedFiles : <<f, "crash">> \in Stored

\* No indexer works any more when doExit drains and reports.
LEMMA NoneWorks ==
  ASSUME Workers, buildPc \in {"drain", "drainPop", "report", "exit", "done"}
  PROVE  \A p \in Procs : thr[p] = "returned" /\ ipc[p] = "pop" /\ hand[p] = {}
                             /\ ~Indexer(p) /\ ~Die(p)
BY DEF Workers, Working, Indexer, PopCommand, IndexerReturns, StartFile, IndexFile, FinishFile,
       Die, At

LEMMA EmptiedStep ==
  ASSUME TypeOK, Once, Control, Workers, Matched, Emptied, [Next]_vars
  PROVE  Emptied'
<1> SUFFICES ASSUME NotGivenUp', buildPc' \in {"report", "exit", "done"}, NEW q \in Procs
             PROVE  storages'[q] = {}
  BY DEF Emptied
<1>1. NotGivenUp
  BY OnSteps
<1>2. CASE Quiet
  <2>1. storages' = storages
    BY <1>2, QuietFrame
  <2>2. buildPc \in {"report", "exit", "done"}
    BY <1>1, <1>2 DEF Quiet, Fill, FillEnter, FillUpdate, FillExit, Merge, MergeBegins,
                      MergeCheck, MergeTake, MergeInsert, MergeTest, InjectTask, InjectBegins,
                      InjectConsume, InjectStorage, InjectTest, GroupEnds, RemainingEnds, Build,
                      BuildEnter, BuildUpdate, BuildJoin, DrainBegin, BuildReport, BuildExit,
                      ThreadLoops, ThreadEnds, vars, taskVars, buildVars, NotGivenUp
  <2> QED
    BY <1>1, <2>1, <2>2 DEF Emptied
<1>3. CASE FetchPop
  BY <1>3 DEF FetchPop, Returned
<1>4. CASE FetchBreak
  <2>1. finished = <<>> /\ storages' = storages /\ buildPc = "drainPop"
    BY <1>1, <1>4, SaidWaits DEF FetchBreak, Returned
  <2>2. ipc[q] = "pop"
    BY <2>1, NoneWorks
  <2>3. Cardinality(storages[q]) = 0
    BY <1>1, <2>1, <2>2, TimesNone DEF Matched
  <2> QED
    BY <2>1, <2>3, FilesFinite DEF TypeOK
<1>5. ASSUME NEW p \in Procs, Indexer(p) \/ Die(p) PROVE storages'[q] = {}
  BY <1>5, IndexerFrame, NoneWorks
<1> QED
  BY <1>2, <1>3, <1>4, <1>5, OnSteps

LEMMA ReportedStep ==
  ASSUME TypeOK, Once, Control, Workers, Matched, Reported, [Next]_vars
  PROVE  Reported'
<1> SUFFICES ASSUME NotGivenUp', buildPc' \in {"exit", "done"}, NEW f \in CrashedFiles'
             PROVE  <<f, "crash">> \in Stored'
  BY DEF Reported
<1>1. NotGivenUp
  BY OnSteps
<1>2. CASE Quiet
  <2>1. CrashedFiles' = CrashedFiles /\ \A r \in Stored : r \in Stored'
    BY <1>2, QuietFrame DEF CrashedFiles
  <2>2. CASE BuildReport
    <3>1. <<f, "crash">> \in {<<g, "crash">> : g \in CrashedFiles}
      BY <2>1
    <3>2. {<<g, "crash">> : g \in CrashedFiles} \in sp'
      BY <2>2, <3>1 DEF BuildReport
    <3> QED
      BY <3>1, <3>2, InStored
  <2>3. CASE ~BuildReport
    <3>1. buildPc \in {"exit", "done"}
      BY <1>2, <2>3 DEF Quiet, Fill, FillEnter, FillUpdate, FillExit, Merge, MergeBegins,
                        MergeCheck, MergeTake, MergeInsert, MergeTest, InjectTask, InjectBegins,
                        InjectConsume, InjectStorage, InjectTest, GroupEnds, RemainingEnds, Build,
                        BuildEnter, BuildUpdate, BuildJoin, DrainBegin, BuildExit, ThreadLoops,
                        ThreadEnds, vars, taskVars, buildVars
    <3> QED
      BY <1>1, <2>1, <3>1 DEF Reported
  <2> QED
    BY <2>2, <2>3
<1>3. CASE FetchPop \/ FetchBreak
  BY <1>3 DEF FetchPop, FetchBreak, Returned
<1>4. ASSUME NEW p \in Procs, Indexer(p) \/ Die(p) PROVE <<f, "crash">> \in Stored'
  BY <1>4, IndexerFrame, NoneWorks
<1> QED
  BY <1>2, <1>3, <1>4, OnSteps

Tracked == Workers /\ Matched /\ Begun /\ Kept /\ Emptied /\ Reported

LEMMA TrackedInit == Init => Tracked
<1>1. Init => Emptied /\ Reported
  BY DEF Init, Emptied, Reported
<1> QED
  BY <1>1, WorkersInit, MatchedInit, BegunInit, KeptInit DEF Tracked

LEMMA TrackedAlways == ASSUME FirstDies PROVE Spec => []Tracked
<1>1. TypeOK /\ Once /\ Control /\ Tracked /\ [Next]_vars => Tracked'
  BY WorkersStep, MatchedStep, BegunStep, KeptStep, EmptiedStep, ReportedStep, Zenon DEF Tracked
<1> QED
  BY <1>1, TrackedInit, TypeCorrect, OnceAlways, ControlAlways, PTL DEF Spec

\* When the last task has ended, every file not left in the queue is in the database.
LEMMA EndsTraced ==
  ASSUME TypeOK, Once, Control, Tracked, NotGivenUp,
         phase = "done" \/ (phase = "remaining" /\ injectPc = "done"), NEW f \in Files \ queue
  PROVE  \E r \in db : r[1] = f
<1>1. /\ fillPc = "done" /\ buildPc = "done" /\ mergePc = "done" /\ injectPc = "done"
      /\ provider = {} /\ sp = {}
  BY DEF Control, NotGivenUp
<1>2. Stored = db
  BY <1>1 DEF Once, Hands, Stored
<1>3. \A p \in Procs : Held(p) = {}
  BY <1>1, NoneWorks DEF Tracked, Emptied, Held
<1>4. f \in CrashedFiles => <<f, "crash">> \in db
  BY <1>1, <1>2 DEF Tracked, Reported
<1>5. <<f, "crash">>[1] = f
  OBVIOUS
<1> QED
  BY <1>1, <1>2, <1>3, <1>4, <1>5 DEF Tracked, Kept, Somewhere

\* A run that is not given up leaves no file behind but in the shared queue: an
\* index or the error of a crash of each is in the database, since doExit fetches
\* until no indexer has announced a storage and reports what was begun and not
\* finished (fetchIntermediateStorages, getCrashedSourceFilePaths).
THEOREM NothingDroppedHolds == ASSUME FirstDies PROVE Spec => []NothingDropped
<1>1. TypeOK /\ Once /\ Control /\ Tracked => NothingDropped
  BY EndsTraced DEF NothingDropped, NotGivenUp
<1>2. Spec => []Tracked
  BY TrackedAlways
<1> QED
  BY <1>1, <1>2, TypeCorrect, OnceAlways, ControlAlways, PTL

-----------------------------------------------------------------------------
(* ImplementsIndexJob: without a queue that is too short for the files *)

AllFit == Cardinality(Files) <= MaxQueue

\* The filler has handed out all files before the first indexer starts, and an
\* indexer that returned saw the queue empty for good.
Drained == NotGivenUp =>
  /\ fillPc = "enter" => queue = {}
  /\ fillPc # "enter" => provider = {}
  /\ \A p \in Procs : /\ thr[p] = "returned" => result[p] = 0
                      /\ result[p] = 0 => queue = {} /\ provider = {}

LEMMA BatchAll == ASSUME AllFit, provider \subseteq Files, queue = {} PROVE Batch = provider
<1> SUFFICES ASSUME NEW x \in provider PROVE Cardinality({y \in provider : y < x}) < MaxQueue - Cardinality(queue)
  BY DEF Batch, FirstN
<1> DEFINE Y == {y \in provider : y < x}
<1>1. Y \subseteq Files /\ Y # Files
  <2>1. x \in Files /\ x \in Int
    BY Sizes
  <2>2. x \notin Y
    BY <2>1
  <2> QED
    BY <2>1, <2>2
<1>2. Cardinality(Y) <= Cardinality(Files) /\ Cardinality(Y) # Cardinality(Files)
  <2> HIDE DEF Y
  <2> QED
    BY <1>1, Sizes, FS_Subset
<1>3. Cardinality(Y) \in Nat /\ Cardinality(Files) \in Nat
  <2> HIDE DEF Y
  <2> QED
    BY <1>1, FilesFinite
<1>4. Cardinality(queue) = 0
  BY FS_EmptySet
<1> QED
  BY <1>2, <1>3, <1>4, Sizes DEF AllFit

LEMMA DrainedStep ==
  ASSUME TypeOK, Control, Workers, Drained, AllFit, [Next]_vars
  PROVE  Drained'
<1> SUFFICES ASSUME NotGivenUp'
             PROVE  /\ fillPc' = "enter" => queue' = {}
                    /\ fillPc' # "enter" => provider' = {}
                    /\ \A p \in Procs : /\ thr'[p] = "returned" => result'[p] = 0
                                        /\ result'[p] = 0 => queue' = {} /\ provider' = {}
  BY DEF Drained
<1>1. /\ NotGivenUp
      /\ fillPc = "enter" => queue = {}
      /\ fillPc # "enter" => provider = {}
      /\ \A p \in Procs : /\ thr[p] = "returned" => result[p] = 0
                          /\ result[p] = 0 => queue = {} /\ provider = {}
  BY OnSteps DEF Drained
<1>2. CASE Fill
  <2>1. UNCHANGED <<thr, result>>
    BY <1>2 DEF Fill, FillEnter, FillUpdate, FillExit, procVars
  <2>2. CASE FillEnter
    <3>1. fillPc' = "update" /\ provider' = provider \ Batch /\ queue' = queue \cup Batch /\ queue = {}
      BY <1>1, <2>2 DEF FillEnter, Refill
    <3>2. Batch = provider
      BY <3>1, BatchAll DEF TypeOK
    <3> QED
      BY <1>1, <2>1, <3>1, <3>2
  <2>3. CASE FillUpdate
    BY <1>1, <2>3, BatchIn DEF FillUpdate
  <2>4. CASE FillExit
    BY <1>1, <2>1, <2>4 DEF FillExit
  <2> QED
    BY <1>2, <2>2, <2>3, <2>4 DEF Fill
<1>3. CASE \E p \in Procs : ThreadLoops(p) \/ ThreadEnds(p)
  BY <1>1, <1>3 DEF ThreadLoops, ThreadEnds, GoesOn, NotGivenUp, taskVars, fillVars, TypeOK
<1>4. CASE (Quiet \/ FetchPop \/ FetchBreak) /\ ~Fill /\ ~\E p \in Procs : ThreadLoops(p) \/ ThreadEnds(p)
  <2>1. /\ UNCHANGED <<provider, queue, fillPc, result>>
        /\ \A p \in Procs : thr'[p] = "returned" => thr[p] = "returned"
    BY <1>4 DEF Quiet, Merge, MergeBegins, MergeCheck, MergeTake, MergeInsert, MergeTest,
                InjectTask, InjectBegins, InjectConsume, InjectStorage, InjectTest, GroupEnds,
                RemainingEnds, Build, BuildEnter, BuildUpdate, BuildJoin, DrainBegin, FetchPop,
                FetchBreak, BuildReport, BuildExit, vars, taskVars, fillVars, procVars
  <2> QED
    BY <1>1, <2>1
<1>5. CASE \E p \in Procs : Indexer(p) \/ Die(p)
  <2>1. PICK p \in Procs : Indexer(p) \/ Die(p)
    BY <1>5
  <2>2. fillPc # "enter" /\ (thr[p] = "work" => awake[p])
    <3>1. thr[p] = "work"
      BY <2>1 DEF Indexer, PopCommand, IndexerReturns, StartFile, IndexFile, FinishFile, Die, At
    <3> QED
      BY <1>1, <3>1 DEF Workers, Working, Control, NotGivenUp
  <2>3. UNCHANGED <<fillPc, provider>> /\ queue' \subseteq queue
    BY <2>1 DEF Indexer, PopCommand, IndexerReturns, StartFile, IndexFile, FinishFile, Die,
                taskVars, fillVars
  <2>4. CASE IndexerReturns(p)
    <3>1. queue = {} /\ Leaves({p}, 0)
      BY <2>2, <2>4 DEF IndexerReturns, At
    <3> QED
      BY <1>1, <2>2, <2>3, <3>1 DEF Leaves
  <2>5. CASE Die(p)
    BY <1>1, <2>2, <2>3, <2>5 DEF Die, Leaves
  <2>6. CASE Indexer(p) /\ ~IndexerReturns(p)
    <3>1. UNCHANGED <<thr, result>>
      BY <2>6 DEF Indexer, PopCommand, StartFile, IndexFile, FinishFile
    <3> QED
      BY <1>1, <2>2, <2>3, <3>1
  <2> QED
    BY <2>1, <2>4, <2>5, <2>6
<1> QED
  BY <1>2, <1>3, <1>4, <1>5, OnSteps

LEMMA DrainedAlways == ASSUME FirstDies, AllFit PROVE Spec => []Drained
<1>1. TypeOK /\ Control /\ Tracked /\ Drained /\ [Next]_vars => Drained'
  BY DrainedStep DEF Tracked
<1>2. Init => Drained
  BY DEF Init, Drained
<1>3. Spec => []Tracked
  BY TrackedAlways
<1> QED
  BY <1>1, <1>2, <1>3, TypeCorrect, ControlAlways, PTL DEF Spec

\* The run as the job sees it.
Stopped == intPc > 0 \/ interrupted \/ fillKilled
Over == phase \in {"done", "failed"}

LEMMA StoppedMeans == TypeOK /\ Control => (Stopped <=> ~NotGivenUp)
BY DEF TypeOK, Control, Stopped, NotGivenUp

LEMMA JobStep ==
  ASSUME TypeOK, TypeOK', Once, Control, Control', Tracked, Drained, Procs # {}, [Next]_vars
  PROVE  [Job!Next]_(Job!jobVars)
<1> USE DEF Job!Next, Job!jobVars
<1>1. Stopped => Stopped'
  <2>1. NotGivenUp' => NotGivenUp
    BY OnSteps
  <2>2. TypeOK' /\ Control' => (Stopped' <=> ~NotGivenUp')
    BY DEF TypeOK, Control, Stopped, NotGivenUp
  <2> QED
    BY <2>1, <2>2, StoppedMeans
<1>2. CASE InjectStorage
  <2>1. UNCHANGED <<phase, intPc, interrupted, fillKilled>> /\ db' = db \cup taken /\ injectPc = "inject"
    BY <1>2 DEF InjectStorage, runVars, fillVars
  <2>2. taken \subseteq Record /\ taken \cap db = {}
    BY DEF TypeOK, Once, Records
  <2>3. phase \notin {"done", "failed"}
    BY <2>1 DEF Control
  <2>4. CASE taken = {}
    BY <2>1, <2>4
  <2>5. CASE taken # {}
    BY <2>1, <2>2, <2>3, <2>5 DEF Job!Inject, Job!Record, Record
  <2> QED
    BY <2>4, <2>5
<1>3. CASE RemainingEnds
  <2>1. /\ UNCHANGED <<db, intPc, interrupted, fillKilled>> /\ phase' = "done"
        /\ phase = "remaining" /\ injectPc = "done"
    BY <1>3 DEF RemainingEnds, taskVars, fillVars, injectVars
  <2>2. ~Stopped => \A f \in Files : \E r \in db : r[1] = f
    <3> SUFFICES ASSUME ~Stopped PROVE \A f \in Files : \E r \in db : r[1] = f
      OBVIOUS
    <3>1. NotGivenUp /\ buildPc = "done"
      BY <2>1, StoppedMeans DEF Control
    <3>2. queue = {}
      BY <3>1, NoneWorks DEF Tracked, Drained
    <3> QED
      BY <2>1, <3>1, <3>2, EndsTraced
  <2> QED
    BY <2>1, <2>2 DEF Stopped, Job!Finish, Job!Traced
<1>4. CASE GroupEnds
  <2>1. UNCHANGED <<db, intPc, interrupted, fillKilled>> /\ phase = "parallel"
    BY <1>4 DEF GroupEnds, fillVars
  <2>2. CASE fillKilled
    BY <1>4, <2>1, <2>2 DEF GroupEnds, Job!Finish
  <2>3. CASE ~fillKilled
    BY <1>4, <2>1, <2>3 DEF GroupEnds
  <2> QED
    BY <2>2, <2>3
<1>5. CASE ~InjectStorage /\ ~RemainingEnds /\ ~GroupEnds
  <2>1. UNCHANGED <<db, phase>>
    <3>1. CASE Fill \/ Build \/ Merge \/ InjectTask \/ UNCHANGED vars
      BY <1>5, <3>1 DEF Fill, FillEnter, FillUpdate, FillExit, Build, BuildEnter, BuildUpdate,
                        BuildJoin, DrainBegin, FetchPop, FetchBreak, BuildReport, BuildExit,
                        Merge, MergeBegins, MergeCheck, MergeTake, MergeInsert, MergeTest,
                        InjectTask, InjectBegins, InjectConsume, InjectTest, runVars, vars,
                        taskVars, injectVars
    <3>2. CASE \E p \in Procs : Thread(p) \/ Indexer(p) \/ NoticeInterrupt(p) \/ Die(p)
      BY <3>2 DEF Thread, ThreadGivesUp, ThreadLoops, ThreadEnds, Indexer, PopCommand,
                  IndexerReturns, StartFile, IndexFile, FinishFile, NoticeInterrupt, Die, runVars,
                  taskVars, injectVars
    <3>3. CASE StopFilling \/ StopIndexers \/ DropStorages \/ Terminate
      BY <3>3 DEF StopFilling, StopIndexers, DropStorages, Terminate, taskVars, injectVars
    <3> QED
      BY <1>5, <3>1, <3>2, <3>3 DEF Next, Ended
  <2>2. CASE Stopped' /\ ~Stopped
    BY <2>1, <2>2 DEF Stopped, Job!Stop
  <2>3. CASE Stopped' <=> Stopped
    BY <2>1, <2>3 DEF Stopped
  <2> QED
    BY <1>1, <2>2, <2>3
<1> QED
  BY <1>2, <1>3, <1>4, <1>5

\* The four tasks, the indexers and their shared memory do what one run of an
\* indexer promises: the database gains new records only, and a run that nobody
\* gave up ends when every file has left a trace in it.
THEOREM IndexJobImplemented ==
  ASSUME FirstDies, AllFit, Procs # {} PROVE Spec => ImplementsIndexJob
<1>1. /\ TypeOK /\ TypeOK' /\ Once /\ Control /\ Control' /\ Tracked /\ Drained /\ [Next]_vars
      => [Job!Next]_(Job!jobVars)
  BY JobStep
<1>2. Init => Job!Init
  BY DEF Init, Job!Init
<1>3. Spec => []Tracked /\ []Drained
  BY TrackedAlways, DrainedAlways, PTL
<1> QED
  BY <1>1, <1>2, <1>3, TypeCorrect, OnceAlways, ControlAlways, PTL
     DEF Spec, ImplementsIndexJob, Job!Spec
=============================================================================
