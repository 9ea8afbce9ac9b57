------------------------ MODULE ProjectRefreshProofs ------------------------
(***************************************************************************)
(* Theorems of ProjectRefresh, whatever throws, is in use or is killed and *)
(* however often: an index that was kept survives, none is begun on the    *)
(* remains of another, the views read the saved one, and it is in place    *)
(* when they are told.                                                     *)
(***************************************************************************)
EXTENDS ProjectRefresh, TLAPS

-----------------------------------------------------------------------------
(* The queue of tasks: which tasks wait, at most once, and in which order. *)

In(q, S) == \E i \in DOMAIN q : q[i] \in S
AtMostOne(q, S) == \A i, j \in DOMAIN q : q[i] \in S /\ q[j] \in S => i = j
\* No b waits in front of a member of S.
Ahead(q, S, b) == \A i, j \in DOMAIN q : q[i] \in S /\ q[j] = b => i < j

User == {"load", "reload", "close"}
Answers == {"start", "cancel"}
Seqs == {"sequence"}
Verdicts == {"swap", "discard"}

QueueOK(q) ==
  /\ AtMostOne(q, User) /\ AtMostOne(q, Answers)
  /\ AtMostOne(q, Seqs) /\ AtMostOne(q, Verdicts)
  /\ Ahead(q, Verdicts, "sequence")
  /\ Ahead(q, Seqs, "start")
  /\ Ahead(q, {"close"}, "refresh")

\* May x be put behind q?
MayFollow(q, x) ==
  /\ x \in User => ~ In(q, User)
  /\ x \in Answers => ~ In(q, Answers)
  /\ x \in Seqs => ~ In(q, Seqs) /\ ~ In(q, {"start"})
  /\ x \in Verdicts => ~ In(q, Verdicts) /\ ~ In(q, Seqs)
  /\ x = "close" => ~ In(q, {"refresh"})

LEMMA TailIs ==
  ASSUME NEW q \in Seq(Tasks), q # <<>>
  PROVE  /\ Tail(q) \in Seq(Tasks) /\ q[1] \in Tasks
         /\ \A i \in DOMAIN Tail(q) : i + 1 \in DOMAIN q /\ Tail(q)[i] = q[i + 1]
         /\ \A i \in DOMAIN q : i # 1 => i - 1 \in DOMAIN Tail(q)
         /\ 1 \in DOMAIN q /\ DOMAIN q \subseteq Nat /\ DOMAIN Tail(q) \subseteq Nat \ {0}
OBVIOUS

LEMMA AppendIs ==
  ASSUME NEW q \in Seq(Tasks), NEW x \in Tasks
  PROVE  /\ Append(q, x) \in Seq(Tasks)
         /\ DOMAIN Append(q, x) = DOMAIN q \cup {Len(q) + 1}
         /\ \A i \in DOMAIN q : Append(q, x)[i] = q[i] /\ i < Len(q) + 1
         /\ Append(q, x)[Len(q) + 1] = x
         /\ DOMAIN q \subseteq Nat /\ Len(q) \in Nat
         /\ q \o <<x>> = Append(q, x) /\ q \o <<>> = q
OBVIOUS

\* What the tasks behind the first one have of the whole queue.
LEMMA RestIn ==
  ASSUME NEW q \in Seq(Tasks), q # <<>>
  PROVE  /\ \A S : In(Tail(q), S) => In(q, S)
         /\ \A S : In(q, S) /\ q[1] \notin S => In(Tail(q), S)
         /\ \A S : q[1] \in S => In(q, S)
         /\ \A S : q[1] \in S /\ AtMostOne(q, S) => ~ In(Tail(q), S)
         /\ \A S, b : q[1] = b /\ b \notin S /\ Ahead(q, S, b) => ~ In(q, S)
<1>1. ASSUME NEW S, In(Tail(q), S) PROVE In(q, S)
  BY <1>1, TailIs DEF In
<1>2. ASSUME NEW S, In(q, S), q[1] \notin S PROVE In(Tail(q), S)
  <2>1. PICK i \in DOMAIN q : q[i] \in S
    BY <1>2 DEF In
  <2>2. i - 1 \in DOMAIN Tail(q) /\ Tail(q)[i - 1] = q[(i - 1) + 1] /\ (i - 1) + 1 = i
    BY <1>2, <2>1, TailIs
  <2> QED
    BY <2>1, <2>2 DEF In
<1>3. ASSUME NEW S, q[1] \in S PROVE In(q, S)
  BY <1>3, TailIs DEF In
<1>4. ASSUME NEW S, q[1] \in S, AtMostOne(q, S) PROVE ~ In(Tail(q), S)
  <2>1. SUFFICES ASSUME NEW i \in DOMAIN Tail(q), Tail(q)[i] \in S PROVE FALSE
    BY DEF In
  <2>2. i + 1 \in DOMAIN q /\ q[i + 1] \in S /\ 1 \in DOMAIN q /\ i + 1 # 1
    BY <2>1, TailIs
  <2> QED
    BY <1>4, <2>2 DEF AtMostOne
<1>5. ASSUME NEW S, NEW b, q[1] = b, b \notin S, Ahead(q, S, b) PROVE ~ In(q, S)
  <2>1. SUFFICES ASSUME NEW i \in DOMAIN q, q[i] \in S PROVE FALSE
    BY DEF In
  <2>2. i < 1 /\ i \in Nat
    BY <1>5, <2>1, TailIs DEF Ahead
  <2>3. i \in 1 .. Len(q)
    BY <2>1
  <2> QED
    BY <2>2, <2>3
<1> QED
  BY <1>1, <1>2, <1>3, <1>4, <1>5

LEMMA RestOK ==
  ASSUME NEW q \in Seq(Tasks), q # <<>>, QueueOK(q) PROVE QueueOK(Tail(q))
<1>1. ASSUME NEW S, AtMostOne(q, S) PROVE AtMostOne(Tail(q), S)
  <2>1. SUFFICES ASSUME NEW i \in DOMAIN Tail(q), NEW j \in DOMAIN Tail(q),
                        Tail(q)[i] \in S, Tail(q)[j] \in S
                 PROVE  i = j
    BY DEF AtMostOne
  <2>2. i + 1 = j + 1 /\ i \in Nat /\ j \in Nat
    BY <1>1, <2>1, TailIs DEF AtMostOne
  <2> QED
    BY <2>2
<1>2. ASSUME NEW S, NEW b, Ahead(q, S, b) PROVE Ahead(Tail(q), S, b)
  <2>1. SUFFICES ASSUME NEW i \in DOMAIN Tail(q), NEW j \in DOMAIN Tail(q),
                        Tail(q)[i] \in S, Tail(q)[j] = b
                 PROVE  i < j
    BY DEF Ahead
  <2>2. i + 1 < j + 1 /\ i \in Nat /\ j \in Nat
    BY <1>2, <2>1, TailIs DEF Ahead
  <2> QED
    BY <2>2
<1> QED
  BY <1>1, <1>2 DEF QueueOK

LEMMA BehindIn ==
  ASSUME NEW q \in Seq(Tasks), NEW x \in Tasks
  PROVE  /\ Append(q, x) \in Seq(Tasks)
         /\ \A S : In(Append(q, x), S) <=> In(q, S) \/ x \in S
<1>1. ASSUME NEW S, In(Append(q, x), S), x \notin S PROVE In(q, S)
  BY <1>1, AppendIs DEF In
<1>2. ASSUME NEW S, In(q, S) PROVE In(Append(q, x), S)
  BY <1>2, AppendIs DEF In
<1>3. ASSUME NEW S, x \in S PROVE In(Append(q, x), S)
  BY <1>3, AppendIs DEF In
<1> QED
  BY <1>1, <1>2, <1>3, AppendIs, Zenon

LEMMA BehindOK ==
  ASSUME NEW q \in Seq(Tasks), NEW x \in Tasks, QueueOK(q), MayFollow(q, x)
  PROVE  QueueOK(Append(q, x))
<1>1. ASSUME NEW S, AtMostOne(q, S), x \in S => ~ In(q, S)
      PROVE  AtMostOne(Append(q, x), S)
  BY <1>1, AppendIs DEF AtMostOne, In
<1>2. ASSUME NEW S, NEW b, Ahead(q, S, b), x \in S => ~ In(q, {b}), b \notin S
      PROVE  Ahead(Append(q, x), S, b)
  BY <1>2, AppendIs DEF Ahead, In
<1>3. /\ AtMostOne(Append(q, x), User) /\ AtMostOne(Append(q, x), Answers)
      /\ AtMostOne(Append(q, x), Seqs) /\ AtMostOne(Append(q, x), Verdicts)
  BY <1>1, Zenon DEF QueueOK, MayFollow
<1>4. Ahead(Append(q, x), Verdicts, "sequence")
  BY <1>2 DEF QueueOK, MayFollow, Verdicts, Seqs
<1>5. Ahead(Append(q, x), Seqs, "start")
  BY <1>2 DEF QueueOK, MayFollow, Seqs
<1>6. Ahead(Append(q, x), {"close"}, "refresh")
  BY <1>2 DEF QueueOK, MayFollow
<1> QED
  BY <1>3, <1>4, <1>5, <1>6 DEF QueueOK

LEMMA EmptyOK == /\ QueueOK(<<>>) /\ \A S : ~ In(<<>>, S)
                 /\ <<>> \in Seq(Tasks)
BY DEF QueueOK, AtMostOne, Ahead, In

-----------------------------------------------------------------------------
(* The inductive invariant.                                                *)

Queue == QueueOK(tasks)

\* What a waiting task, a step of the sequence or a dialog says of the project.
Phases ==
  /\ In(tasks, Verdicts) => step = "done"
  /\ In(tasks, {"discard"}) => state # "notLoaded"
  /\ step \in {"index", "finish", "decide", "done"} => stage = "indexing" /\ project
  /\ step \in {"index", "finish", "decide"} => state # "notLoaded"
  /\ dialog # {} \/ In(tasks, Answers) =>
       stage = "refreshing" /\ project /\ state # "notLoaded"
  /\ ~ (dialog # {} /\ In(tasks, Answers))
  /\ In(tasks, {"load"}) => ~ project
  /\ In(tasks, {"close"}) => dialog = {} /\ ~ In(tasks, Answers)
  /\ In(tasks, Seqs) => step # "none"

\* What the project says of the files.
Placed ==
  /\ project /\ state # "notLoaded" /\ ~ swapping => Exists(db)
  /\ swapping /\ Exists(db) => locked
  /\ stage # "indexing" /\ project /\ state # "notLoaded" /\ ~ locked /\ ~ swapping
       => ~ Exists(temp)
  /\ step = "done" /\ state # "notLoaded" /\ ~ locked /\ ~ swapping
       /\ ~ In(tasks, Verdicts) => ~ Exists(temp)

Views == ShownIsSaved /\ (swapping => shown = Missing)

Safe == SavedIndexSurvives /\ IndexIsPure /\ Views /\ FinishedIsSwapped

IInv == TypeOK /\ Queue /\ Phases /\ Placed /\ Safe

-----------------------------------------------------------------------------
(* Types.                                                                  *)

\* The steps that leave the files alone, and those that may move tasks only.
Plain == CloseProject \/ Refresh \/ ReloadProject \/ CancelRefresh \/ NothingToIndex
           \/ IndexingFinished
Steady == FinishParsing \/ Decide \/ TellFinished \/ RefreshAgain

LEMMA RestType ==
  ASSUME NEW q \in Seq(Tasks), q # <<>>
  PROVE  /\ Tail(q) \in Seq(Tasks)
         /\ \A x \in Tasks : Append(Tail(q), x) \in Seq(Tasks)
BY TailIs, AppendIs

LEMMA MoreType ==
  ASSUME NEW q \in Seq(Tasks), NEW x \in Tasks
  PROVE  /\ q \o <<x>> = Append(q, x) /\ q \o <<>> = q
         /\ Append(q, x) \in Seq(Tasks)
BY AppendIs

LEMMA Names == /\ "finished" \in Tasks /\ "refresh" \in Tasks /\ "sequence" \in Tasks
               /\ "start" \in Tasks /\ "cancel" \in Tasks
               /\ "swap" \in Tasks /\ "discard" \in Tasks
BY DEF Tasks

\* What LoadProject and RefreshAgain put behind the tasks.
LEMMA LoadTasks ==
  ASSUME tasks \in Seq(Tasks), LoadProject
  PROVE  \E q \in {Rest, Append(Rest, "finished")} :
            q \in Seq(Tasks) /\ tasks' \in {q, Append(q, "refresh")}
<1>1. Rest \in Seq(Tasks)
  BY RestType DEF LoadProject, Front, Rest
<1>2. PICK canLoad :
        tasks' = Rest \o (IF canLoad THEN <<"finished">> ELSE <<>>)
                      \o (IF state' # "loaded" THEN <<"refresh">> ELSE <<>>)
  BY Zenon DEF LoadProject
<1> DEFINE q == Rest \o (IF canLoad THEN <<"finished">> ELSE <<>>)
<1>3. q \in {Rest, Append(Rest, "finished")} /\ q \in Seq(Tasks)
  <2>1. CASE canLoad
    BY <1>1, <2>1, MoreType, Names
  <2>2. CASE ~ canLoad
    BY <1>1, <2>2, MoreType
  <2> QED
    BY <2>1, <2>2
<1>4. tasks' \in {q, Append(q, "refresh")}
  <2> HIDE DEF q
  <2>1. tasks' = q \o (IF state' # "loaded" THEN <<"refresh">> ELSE <<>>)
    BY <1>2 DEF q
  <2> QED
    BY <1>3, <2>1, MoreType, Names
<1> QED
  BY <1>3, <1>4, Zenon

LEMMA AgainTasks ==
  ASSUME tasks \in Seq(Tasks), RefreshAgain
  PROVE  Rest \in Seq(Tasks) /\ tasks' \in {Rest, Append(Rest, "refresh")}
<1>1. Rest \in Seq(Tasks)
  BY RestType DEF RefreshAgain, RunsStep, Runs, Front, Rest
<1>2. tasks' = Rest \o (IF policy = "refresh" THEN <<"refresh">> ELSE <<>>)
  BY DEF RefreshAgain
<1> QED
  BY <1>1, <1>2, MoreType, Names

LEMMA Alone == \A x \in Tasks : <<x>> \in Seq(Tasks)
OBVIOUS

LEMMA TasksType ==
  ASSUME TypeOK, Next PROVE tasks' \in Seq(Tasks)
<1> USE DEF TypeOK
<1>1. CASE UserSends
  BY <1>1, AppendIs DEF UserSends, Tasks
<1>2. CASE DialogStarts \/ DialogCancels
  BY <1>2, AppendIs DEF DialogStarts, DialogCancels, Tasks
<1>3. CASE Crash
  BY <1>3 DEF Crash
<1>4. CASE Plain
  BY <1>4, RestType DEF Plain, CloseProject, Refresh, ReloadProject, CancelRefresh,
       NothingToIndex, IndexingFinished, Runs, Front, Rest
<1>5. CASE LoadProject
  BY <1>5, LoadTasks, MoreType, Names
<1>6. CASE LoadFails \/ SwapRenames \/ DiscardTempStorage
  BY <1>6, RestType DEF LoadFails, SwapRenames, DiscardTempStorage, Runs, Front, Rest
<1>7. CASE KeepsTemp \/ SwapRemoves
  BY <1>7 DEF KeepsTemp, SwapRemoves
<1>8. CASE Index \/ IndexEnds \/ FinishParsing \/ BuildIndex
  BY <1>8, RestType DEF Index, IndexEnds, FinishParsing, BuildIndex, RunsStep, Runs,
       Front, Rest, Held, Tasks
<1>9. CASE Decide
  <2>1. Append(Rest, IF policy = "discard" THEN "discard" ELSE "swap") \in Seq(Tasks)
    BY <1>9, RestType DEF Decide, RunsStep, Runs, Front, Rest, Tasks
  <2> QED
    BY <1>9, <2>1, AppendIs DEF Decide, Tasks
<1>10. CASE TellFinished
  <2>1. Held \in Seq(Tasks)
    BY <1>10, RestType DEF TellFinished, RunsStep, Runs, Front, Rest, Held, Tasks
  <2> QED
    BY <1>10, <2>1, AppendIs DEF TellFinished, Tasks
<1>11. CASE RefreshAgain
  BY <1>11, AgainTasks, MoreType, Names
<1>12. CASE Throws
  BY <1>12, Alone, EmptyOK, Names DEF Throws
<1> QED
  BY <1>1, <1>2, <1>3, <1>4, <1>5, <1>6, <1>7, <1>8, <1>9, <1>10, <1>11, <1>12
     DEF Next, Task, Plain

LEMMA FileKinds ==
  /\ Missing \in File /\ Empty \in File
  /\ \A f \in File : Opened(f) \in File /\ Removed(f) \subseteq File
<1>1. Missing \in File /\ Empty \in File
  BY DEF Missing, Empty, File
<1>2. ASSUME NEW f \in File PROVE Opened(f) \in File /\ Removed(f) \subseteq File
  BY <1>1, <1>2 DEF Opened, Removed
<1> QED
  BY <1>1, <1>2

LEMMA FilesType ==
  ASSUME TypeOK, Next PROVE db' \in File /\ temp' \in File /\ shown' \in File
<1> USE FileKinds DEF TypeOK
<1>1. CASE UserSends \/ DialogStarts \/ DialogCancels \/ Throws
  BY <1>1 DEF UserSends, DialogStarts, DialogCancels, Throws, files, memory
<1>2. CASE Crash \/ Plain
  BY <1>2 DEF Crash, Plain, CloseProject, Refresh, ReloadProject, CancelRefresh,
       NothingToIndex, IndexingFinished, files, memory, Quit
<1>3. CASE LoadProject
  BY <1>3 DEF LoadProject, FilesFound, DiscardsTemp, Renamed, NotRenamed
<1>4. CASE LoadFails \/ SwapRenames
  BY <1>4 DEF LoadFails, SwapRenames, Renamed, NotRenamed, RenameThrows
<1>5. CASE KeepsTemp \/ SwapRemoves \/ DiscardTempStorage
  BY <1>5 DEF KeepsTemp, SwapRemoves, DiscardTempStorage, RemoveOld, memory
<1>6. CASE BuildIndex
  <2>1. BeginTemp \in File
    BY DEF BeginTemp, File
  <2> QED
    BY <1>6, <2>1 DEF BuildIndex
<1>7. CASE Index \/ IndexEnds
  BY <1>7 DEF Index, IndexEnds, memory, File
<1>8. CASE Steady
  BY <1>8 DEF Steady, FinishParsing, Decide, TellFinished, RefreshAgain, files, memory
<1> QED
  BY <1>1, <1>2, <1>3, <1>4, <1>5, <1>6, <1>7, <1>8 DEF Next, Task, Plain, Steady

Kinds ==
  /\ state \in States /\ stage \in Stages /\ step \in Steps /\ policy \in Policies
  /\ dialog \in SUBSET Modes /\ mode \in Modes
  /\ crashes \in 0..MaxCrashes
Flags ==
  /\ project \in BOOLEAN /\ swapping \in BOOLEAN /\ owed \in BOOLEAN
  /\ thrown \in BOOLEAN /\ locked \in BOOLEAN

LEMMA KindsType == ASSUME TypeOK, Next PROVE Kinds'
<1> USE DEF TypeOK, Kinds
<1>1. CASE UserSends \/ DialogStarts \/ DialogCancels \/ Throws
  BY <1>1 DEF UserSends, DialogStarts, DialogCancels, Throws, memory, sequence, user,
       history, Modes, Steps, Policies
<1>2. CASE Crash
  BY <1>2, ProjectRefreshAssumption DEF Crash, Quit, States, Stages, Steps, Policies
<1>3. CASE Plain
  BY <1>3 DEF Plain, CloseProject, Refresh, ReloadProject, CancelRefresh,
       NothingToIndex, IndexingFinished, memory, sequence, user, history, Quit,
       States, Stages, RefreshProject, Modes
<1>4. CASE LoadProject \/ LoadFails \/ SwapRenames
  BY <1>4 DEF LoadProject, LoadFails, SwapRenames, StatesOf, States, Stages,
       sequence, user, history
<1>5. CASE KeepsTemp \/ SwapRemoves \/ DiscardTempStorage
  BY <1>5 DEF KeepsTemp, SwapRemoves, DiscardTempStorage, memory, sequence, user,
       history
<1>6. CASE BuildIndex \/ Index \/ IndexEnds
  BY <1>6 DEF BuildIndex, Index, IndexEnds, memory, sequence, user, history, Steps,
       Stages
<1>7. CASE Steady
  BY <1>7 DEF Steady, FinishParsing, Decide, TellFinished, RefreshAgain, memory, user,
       history, Steps, Policies, Stages
<1> QED
  BY <1>1, <1>2, <1>3, <1>4, <1>5, <1>6, <1>7 DEF Next, Task, Plain, Steady

LEMMA FlagsType == ASSUME TypeOK, Next PROVE Flags'
<1> USE DEF TypeOK, Flags
<1>1. CASE UserSends \/ DialogStarts \/ DialogCancels \/ Throws \/ Crash
  BY <1>1 DEF UserSends, DialogStarts, DialogCancels, Throws, Crash, Quit, memory,
       files, history
<1>2. CASE Plain
  BY <1>2 DEF Plain, CloseProject, Refresh, ReloadProject, CancelRefresh,
       NothingToIndex, IndexingFinished, memory, files, history, Quit
<1>3. CASE LoadProject \/ LoadFails \/ SwapRenames
  BY <1>3 DEF LoadProject, LoadFails, SwapRenames, FilesFound, DiscardsTemp, Renamed,
       NotRenamed, RenameThrows, history, Exists
<1>4. CASE KeepsTemp \/ SwapRemoves \/ DiscardTempStorage
  BY <1>4 DEF KeepsTemp, SwapRemoves, DiscardTempStorage, RemoveOld, memory, history,
       Exists
<1>5. CASE BuildIndex \/ Index \/ IndexEnds
  BY <1>5 DEF BuildIndex, Index, IndexEnds, memory, history
<1>6. CASE Steady
  BY <1>6 DEF Steady, FinishParsing, Decide, TellFinished, RefreshAgain, memory, files,
       history
<1> QED
  BY <1>1, <1>2, <1>3, <1>4, <1>5, <1>6 DEF Next, Task, Plain, Steady

LEMMA TypeInit == Init => TypeOK
<1> SUFFICES ASSUME Init PROVE TypeOK
  OBVIOUS
<1>1. db \in File /\ temp \in File /\ shown \in File
  BY FileKinds DEF Init
<1>2. tasks \in Seq(Tasks)
  BY EmptyOK DEF Init
<1>3. Kinds
  BY ProjectRefreshAssumption DEF Init, Kinds, States, Stages, Steps, Policies, Modes
<1>4. Flags
  BY DEF Init, Flags
<1> QED
  BY <1>1, <1>2, <1>3, <1>4 DEF TypeOK, Kinds, Flags

LEMMA TypeStep == TypeOK /\ [Next]_vars => TypeOK'
<1>1. ASSUME TypeOK, Next PROVE TypeOK'
  BY <1>1, TasksType, FilesType, KindsType, FlagsType DEF TypeOK, Kinds, Flags
<1>2. ASSUME TypeOK, UNCHANGED vars PROVE TypeOK'
  BY <1>2 DEF TypeOK, vars
<1> QED
  BY <1>1, <1>2

\* The files, the project and the tasks keep their types, whatever is killed,
\* throws or is in use (Project, Application).
THEOREM TypeCorrect == Spec => []TypeOK
BY TypeInit, TypeStep, PTL DEF Spec
-----------------------------------------------------------------------------
(* The queue.                                                              *)

LEMMA Wider == ASSUME NEW q, NEW S, NEW T, S \subseteq T, In(q, S) PROVE In(q, T)
BY DEF In

\* The running task is gone, and what it was tells what does not wait.
LEMMA FrontGone ==
  ASSUME TypeOK, Queue, NEW t, Front(t)
  PROVE  /\ Rest \in Seq(Tasks) /\ QueueOK(Rest)
         /\ \A S : In(Rest, S) => In(tasks, S)
         /\ \A S : In(tasks, S) /\ t \notin S => In(Rest, S)
         /\ \A S : t \in S => In(tasks, S)
         /\ t \in User => ~ In(Rest, User)
         /\ t \in Answers => ~ In(Rest, Answers)
         /\ t \in Seqs => ~ In(Rest, Seqs) /\ ~ In(tasks, Verdicts)
         /\ t \in Verdicts => ~ In(Rest, Verdicts)
         /\ t = "start" => ~ In(tasks, Seqs)
         /\ t = "refresh" => ~ In(tasks, {"close"})
<1>1. tasks \in Seq(Tasks) /\ tasks # <<>> /\ tasks[1] = t /\ Rest = Tail(tasks)
  BY DEF TypeOK, Front, Rest
<1>2. QueueOK(tasks)
  BY DEF Queue
<1>3. Rest \in Seq(Tasks) /\ QueueOK(Rest)
  BY <1>1, <1>2, RestOK, RestType
<1>4. /\ \A S : In(Rest, S) => In(tasks, S)
      /\ \A S : In(tasks, S) /\ t \notin S => In(Rest, S)
      /\ \A S : t \in S => In(tasks, S)
      /\ \A S : t \in S /\ AtMostOne(tasks, S) => ~ In(Rest, S)
      /\ \A S, b : t = b /\ b \notin S /\ Ahead(tasks, S, b) => ~ In(tasks, S)
  BY <1>1, RestIn
<1>5. /\ t \in User => ~ In(Rest, User)
      /\ t \in Answers => ~ In(Rest, Answers)
      /\ t \in Seqs => ~ In(Rest, Seqs)
      /\ t \in Verdicts => ~ In(Rest, Verdicts)
  BY <1>2, <1>4, Zenon DEF QueueOK
<1>6. t \in Seqs => ~ In(tasks, Verdicts)
  BY <1>2, <1>4 DEF QueueOK, Seqs, Verdicts
<1>7. t = "start" => ~ In(tasks, Seqs)
  BY <1>2, <1>4 DEF QueueOK, Seqs
<1>8. t = "refresh" => ~ In(tasks, {"close"})
  BY <1>2, <1>4 DEF QueueOK
<1> QED
  BY <1>3, <1>4, <1>5, <1>6, <1>7, <1>8, Zenon

\* A running step of the indexing puts the sequence behind the others again.
LEMMA HeldOK ==
  ASSUME TypeOK, Queue, Phases, Front("sequence"), step \notin {"none", "again"}
  PROVE  /\ Held \in Seq(Tasks) /\ QueueOK(Held)
         /\ ~ In(Rest, Seqs) /\ ~ In(tasks, Verdicts) /\ ~ In(Rest, Verdicts)
         /\ ~ In(tasks, Answers) /\ ~ In(Rest, Answers)
<1>1. /\ Rest \in Seq(Tasks) /\ QueueOK(Rest) /\ ~ In(Rest, Seqs)
      /\ ~ In(tasks, Verdicts) /\ \A S : In(Rest, S) => In(tasks, S)
  BY FrontGone DEF Seqs
<1>2. ~ In(tasks, Answers)
  BY DEF Phases, TypeOK, Steps
<1>3. ~ In(Rest, Answers) /\ ~ In(Rest, {"start"})
  BY <1>1, <1>2, Wider DEF Answers
<1>4. MayFollow(Rest, "sequence")
  BY <1>1, <1>3 DEF MayFollow, User, Answers, Verdicts
<1> QED
  BY <1>1, <1>2, <1>3, <1>4, BehindOK, MoreType, Names DEF Held

LEMMA FreelyFollows ==
  ASSUME NEW q \in Seq(Tasks), QueueOK(q), NEW x \in {"finished", "refresh"}
  PROVE  Append(q, x) \in Seq(Tasks) /\ QueueOK(Append(q, x))
<1>1. MayFollow(q, x)
  BY DEF MayFollow, User, Answers, Seqs, Verdicts
<1> QED
  BY <1>1, BehindOK, MoreType, Names

LEMMA QueueStep ==
  ASSUME TypeOK, Queue, Phases, Next PROVE Queue'
<1> SUFFICES QueueOK(tasks')
  BY DEF Queue
<1>1. CASE UserSends
  <2>1. PICK m \in User \cup {"refresh"} : tasks' = Append(tasks, m)
    BY <1>1 DEF UserSends, User
  <2>2. ~ In(tasks, User) /\ ~ In(tasks, {"refresh"})
    BY <1>1 DEF UserSends, Quiet, In, User
  <2>3. MayFollow(tasks, m)
    BY <2>2 DEF MayFollow, User, Answers, Seqs, Verdicts
  <2> QED
    BY <2>1, <2>3, BehindOK DEF TypeOK, Queue, User, Tasks
<1>2. CASE DialogStarts \/ DialogCancels
  <2>1. PICK m \in Answers : tasks' = Append(tasks, m)
    BY <1>2 DEF DialogStarts, DialogCancels, Answers
  <2>2. ~ In(tasks, Answers)
    BY <1>2 DEF DialogStarts, DialogCancels, Phases
  <2>3. MayFollow(tasks, m)
    BY <2>2 DEF MayFollow, User, Answers, Seqs, Verdicts
  <2> QED
    BY <2>1, <2>3, BehindOK DEF TypeOK, Queue, Answers, Tasks
<1>3. CASE Crash \/ Throws
  <2>1. tasks' = <<>> \/ tasks' = Append(<<>>, "finished")
    BY <1>3 DEF Crash, Throws
  <2> QED
    BY <2>1, EmptyOK, FreelyFollows
<1>4. CASE Plain
  BY <1>4, FrontGone DEF Plain, CloseProject, Refresh, ReloadProject, CancelRefresh,
       NothingToIndex, IndexingFinished, Runs
<1>5. CASE LoadProject
  BY <1>5, LoadTasks, FrontGone, FreelyFollows DEF LoadProject, TypeOK
<1>6. CASE LoadFails \/ SwapRenames \/ DiscardTempStorage
  BY <1>6, FrontGone DEF LoadFails, SwapRenames, DiscardTempStorage, Runs
<1>7. CASE KeepsTemp \/ SwapRemoves
  BY <1>7 DEF KeepsTemp, SwapRemoves, Queue
<1>8. CASE Index \/ IndexEnds \/ FinishParsing
  BY <1>8, HeldOK DEF Index, IndexEnds, FinishParsing, RunsStep, Runs
<1>9. CASE BuildIndex
  <2>1. /\ Rest \in Seq(Tasks) /\ QueueOK(Rest) /\ ~ In(Rest, Answers)
        /\ ~ In(tasks, Seqs) /\ \A S : In(Rest, S) => In(tasks, S)
    BY <1>9, FrontGone DEF BuildIndex, Runs, Answers
  <2>2. ~ In(Rest, {"start"})
    BY <2>1, Wider DEF Answers
  <2>3. MayFollow(Rest, "sequence")
    BY <2>1, <2>2 DEF MayFollow, User, Answers, Verdicts
  <2> QED
    BY <1>9, <2>1, <2>3, BehindOK, Names DEF BuildIndex
<1>10. CASE Decide
  <2>1. PICK v \in Verdicts : tasks' = Append(Rest, v) \o <<"sequence">>
    BY <1>10 DEF Decide, Verdicts
  <2>2. Front("sequence") /\ step = "decide"
    BY <1>10 DEF Decide, RunsStep, Runs
  <2>3. /\ ~ In(Rest, Seqs) /\ ~ In(Rest, Verdicts) /\ ~ In(Rest, Answers)
        /\ ~ In(Rest, {"start"})
    BY <2>2, HeldOK, Wider DEF Answers
  <2>4. Rest \in Seq(Tasks) /\ QueueOK(Rest) /\ v \in Tasks
    BY <2>2, FrontGone DEF Verdicts, Tasks
  <2>5. MayFollow(Rest, v)
    BY <2>3 DEF MayFollow, User, Answers, Seqs, Verdicts
  <2>6. Append(Rest, v) \in Seq(Tasks) /\ QueueOK(Append(Rest, v))
    BY <2>4, <2>5, BehindOK, MoreType
  <2>7. ~ In(Append(Rest, v), Seqs) /\ ~ In(Append(Rest, v), {"start"})
    BY <2>3, <2>4, BehindIn DEF Seqs, Verdicts
  <2>8. MayFollow(Append(Rest, v), "sequence")
    BY <2>7 DEF MayFollow, User, Answers, Verdicts
  <2> QED
    BY <2>1, <2>6, <2>8, BehindOK, MoreType, Names
<1>11. CASE TellFinished
  BY <1>11, HeldOK, FreelyFollows DEF TellFinished, RunsStep, Runs
<1>12. CASE RefreshAgain
  BY <1>12, AgainTasks, FrontGone, FreelyFollows DEF RefreshAgain, RunsStep, Runs, TypeOK
<1> QED
  BY <1>1, <1>2, <1>3, <1>4, <1>5, <1>6, <1>7, <1>8, <1>9, <1>10, <1>11, <1>12
     DEF Next, Task, Plain
-----------------------------------------------------------------------------
(* The phases.                                                             *)

\* The sets of tasks Phases speaks of.
Sets == {Verdicts, {"discard"}, Answers, {"load"}, {"close"}, Seqs}

\* What waits after a step that put nothing of that kind behind the tasks.
Fewer == \A S \in Sets : In(tasks', S) => In(tasks, S)

LEMMA NamesOut ==
  /\ "finished" \notin UNION Sets /\ "refresh" \notin UNION Sets
  /\ \A S \in Sets : "sequence" \in S <=> S = Seqs
  /\ Verdicts \in Sets /\ {"discard"} \in Sets /\ Answers \in Sets
  /\ {"load"} \in Sets /\ {"close"} \in Sets /\ Seqs \in Sets
BY DEF Sets, Verdicts, Answers, Seqs

LEMMA FreelyIn ==
  ASSUME NEW q \in Seq(Tasks), NEW x \in {"finished", "refresh"}
  PROVE  \A S \in Sets : In(Append(q, x), S) => In(q, S)
BY BehindIn, NamesOut, Names

\* A step after which nothing waits that did not, and that leaves the phase alone.
LEMMA PhasesStay ==
  ASSUME Phases, Fewer,
         UNCHANGED <<project, stage, step, dialog>>,
         state' = "notLoaded" => state = "notLoaded"
  PROVE  Phases'
BY NamesOut DEF Phases, Fewer

LEMMA PhasesInit == Init => Queue /\ Phases
BY EmptyOK DEF Init, Queue, Phases

LEMMA PhasesUser ==
  ASSUME TypeOK, Queue, Phases, UserSends \/ DialogStarts \/ DialogCancels
  PROVE  Phases'
<1>1. CASE UserSends
  <2>1. PICK m \in User \cup {"refresh"} :
          tasks' = Append(tasks, m) /\ (m = "load" => ~ project)
    BY <1>1 DEF UserSends, User
  <2>2. ~ In(tasks, Answers) /\ dialog = {}
    BY <1>1 DEF UserSends, Quiet, In, Answers
  <2>3. \A S : In(tasks', S) <=> In(tasks, S) \/ m \in S
    BY <2>1, BehindIn DEF TypeOK, User, Tasks
  <2>4. UNCHANGED <<project, state, stage, step, dialog>>
    BY <1>1 DEF UserSends, memory, sequence, user
  <2>5. m \notin Verdicts /\ m # "discard" /\ m \notin Answers /\ m \notin Seqs
    BY DEF User, Verdicts, Answers, Seqs
  <2> QED
    BY <2>1, <2>2, <2>3, <2>4, <2>5 DEF Phases
<1>2. CASE DialogStarts \/ DialogCancels
  <2>1. PICK m \in Answers : tasks' = Append(tasks, m)
    BY <1>2 DEF DialogStarts, DialogCancels, Answers
  <2>2. dialog # {} /\ dialog' = {}
    BY <1>2 DEF DialogStarts, DialogCancels
  <2>3. \A S : In(tasks', S) <=> In(tasks, S) \/ m \in S
    BY <2>1, BehindIn DEF TypeOK, Answers, Tasks
  <2>4. UNCHANGED <<project, state, stage, step>>
    BY <1>2 DEF DialogStarts, DialogCancels, memory, sequence
  <2>5. m \notin Verdicts /\ m # "discard" /\ m # "load" /\ m # "close" /\ m \notin Seqs
    BY DEF Verdicts, Answers, Seqs
  <2> QED
    BY <2>2, <2>3, <2>4, <2>5 DEF Phases
<1> QED
  BY <1>1, <1>2

LEMMA PhasesEnd ==
  ASSUME TypeOK, Queue, Phases, Crash \/ Throws PROVE Phases'
<1>1. \A S \in Sets : ~ In(tasks', S)
  <2>1. tasks' = <<>> \/ tasks' = Append(<<>>, "finished")
    BY DEF Crash, Throws
  <2> QED
    BY <2>1, EmptyOK, FreelyIn
<1>2. CASE Crash
  BY <1>1, <1>2, NamesOut DEF Crash, Phases
<1>3. CASE Throws
  BY <1>1, <1>3, NamesOut DEF Throws, Phases, memory, user
<1> QED
  BY <1>2, <1>3

\* Messages handled while nothing is loaded, swapped or indexed by them.
LEMMA PhasesPlain ==
  ASSUME TypeOK, Queue, Phases, Plain PROVE Phases'
<1>1. Fewer /\ tasks' = Rest
  <2>1. tasks' = Rest
    BY DEF Plain, CloseProject, Refresh, ReloadProject, CancelRefresh, NothingToIndex,
         IndexingFinished
  <2>2. \E t : Front(t)
    BY DEF Plain, CloseProject, Refresh, ReloadProject, CancelRefresh, NothingToIndex,
         IndexingFinished, Runs
  <2> QED
    BY <2>1, <2>2, FrontGone DEF Fewer
<1>2. UNCHANGED step
  BY DEF Plain, CloseProject, Refresh, ReloadProject, CancelRefresh, NothingToIndex,
       IndexingFinished, sequence
<1>3. CASE CloseProject
  <2>1. In(tasks, {"close"})
    BY <1>3, FrontGone DEF CloseProject, Runs
  <2>2. dialog' = {} /\ ~ In(tasks, Answers) /\ UNCHANGED dialog
    BY <1>3, <2>1 DEF CloseProject, Phases, user
  <2>3. CASE UNCHANGED memory
    BY <1>1, <1>2, <2>2, <2>3, PhasesStay DEF memory
  <2>4. CASE Quit /\ ~ (project /\ stage = "indexing")
    <3>1. ~ In(tasks, Verdicts) /\ step \notin {"index", "finish", "decide", "done"}
      BY <2>4 DEF Phases
    <3>2. ~ In(tasks', Verdicts) /\ ~ In(tasks', {"discard"}) /\ ~ In(tasks', Answers)
      BY <1>1, <2>2, <3>1, NamesOut, Wider DEF Fewer, Verdicts
    <3>3. ~ project'
      BY <2>4 DEF Quit
    <3> QED
      BY <1>1, <1>2, <2>2, <3>1, <3>2, <3>3, NamesOut DEF Phases, Fewer
  <2> QED
    BY <1>3, <2>3, <2>4 DEF CloseProject
<1>4. CASE Refresh \/ ReloadProject
  <2>1. /\ UNCHANGED project
        /\ state' = "notLoaded" => state = "notLoaded"
        /\ \/ UNCHANGED <<stage, dialog>>
           \/ /\ project /\ stage = "none" /\ stage' = "refreshing"
              /\ state # "notLoaded"
    BY <1>4 DEF Refresh, ReloadProject, RefreshProject
  <2>2. ~ In(tasks', {"close"})
    <3>1. CASE Refresh
      BY <1>1, <3>1, FrontGone, NamesOut DEF Refresh, Runs, Fewer
    <3>2. CASE ReloadProject
      <4>1. ~ In(Rest, User)
        BY <3>2, FrontGone DEF ReloadProject, Runs, User
      <4> QED
        BY <1>1, <4>1, Wider DEF User
    <3> QED
      BY <1>4, <3>1, <3>2
  <2>3. CASE UNCHANGED <<stage, dialog>>
    BY <1>1, <1>2, <2>1, <2>3, PhasesStay
  <2>4. CASE ~ UNCHANGED <<stage, dialog>>
    <3>1. ~ In(tasks, Answers) /\ step \notin {"index", "finish", "decide", "done"}
      BY <2>1, <2>4 DEF Phases
    <3>2. ~ In(tasks', Answers) /\ stage' = "refreshing" /\ project' /\ state' # "notLoaded"
      BY <1>1, <2>1, <2>4, <3>1, NamesOut DEF Fewer
    <3>3. ~ In(tasks', Verdicts) /\ ~ In(tasks', {"discard"})
      BY <1>1, <3>1, NamesOut, Wider DEF Phases, Fewer, Verdicts
    <3>4. ~ In(tasks', {"load"})
      BY <1>1, <2>1, <2>4, NamesOut DEF Phases, Fewer
    <3>5. In(tasks', Seqs) => step' # "none"
      BY <1>1, <1>2, NamesOut DEF Phases, Fewer
    <3> QED
      BY <1>2, <2>2, <3>1, <3>2, <3>3, <3>4, <3>5 DEF Phases
  <2> QED
    BY <2>3, <2>4
<1>5. CASE CancelRefresh \/ NothingToIndex
  <2>1. PICK t \in Answers : Front(t)
    BY <1>5 DEF CancelRefresh, NothingToIndex, Runs, Answers
  <2>2. In(tasks, Answers) /\ ~ In(tasks', Answers)
    BY <1>1, <2>1, FrontGone
  <2>3. UNCHANGED <<project, state, dialog>> /\ stage = "refreshing" /\ dialog = {}
    BY <1>5, <2>2 DEF CancelRefresh, NothingToIndex, Phases, user
  <2> QED
    BY <1>1, <1>2, <2>2, <2>3, NamesOut DEF Phases, Fewer
<1>6. CASE IndexingFinished
  BY <1>1, <1>2, <1>6, PhasesStay DEF IndexingFinished, memory, user
<1> QED
  BY <1>3, <1>4, <1>5, <1>6 DEF Plain

LEMMA PhasesLoad ==
  ASSUME TypeOK, Queue, Phases, LoadProject \/ LoadFails PROVE Phases'
<1>1. Front("load")
  BY DEF LoadProject, LoadFails
<1>2. In(tasks, {"load"}) /\ ~ In(Rest, User) /\ Rest \in Seq(Tasks)
      /\ \A S : In(Rest, S) => In(tasks, S)
  BY <1>1, FrontGone DEF User
<1>3. \A S \in Sets : In(tasks', S) => In(Rest, S)
  <2>1. CASE LoadProject
    BY <2>1, LoadTasks, FreelyIn, <1>2 DEF TypeOK
  <2>2. CASE LoadFails
    BY <2>2 DEF LoadFails
  <2> QED
    BY <2>1, <2>2
<1>4. ~ In(tasks', {"load"}) /\ ~ In(tasks', {"close"})
  BY <1>2, <1>3, NamesOut, Wider DEF User
<1>5. ~ project /\ dialog = {} /\ ~ In(tasks, Answers) /\ ~ In(tasks, Verdicts)
      /\ step \notin {"index", "finish", "decide", "done"}
  BY <1>2 DEF Phases
<1>6. ~ In(tasks', Verdicts) /\ ~ In(tasks', {"discard"}) /\ ~ In(tasks', Answers)
  BY <1>2, <1>3, <1>5, NamesOut, Wider DEF Verdicts
<1>7. UNCHANGED <<step, dialog>>
  BY DEF LoadProject, LoadFails, sequence, user
<1> QED
  BY <1>2, <1>3, <1>4, <1>5, <1>6, <1>7, NamesOut DEF Phases

\* The steps of the indexing, and what is decided at its end.
LEMMA PhasesBuild ==
  ASSUME TypeOK, Queue, Phases, BuildIndex PROVE Phases'
<1>1. /\ Rest \in Seq(Tasks) /\ In(tasks, Answers) /\ ~ In(Rest, Answers)
      /\ \A S : In(Rest, S) => In(tasks, S)
  BY FrontGone DEF BuildIndex, Runs, Answers
<1>2. \A S : In(tasks', S) <=> In(Rest, S) \/ "sequence" \in S
  BY <1>1, BehindIn, Names DEF BuildIndex
<1>3. /\ stage = "refreshing" /\ project /\ state # "notLoaded" /\ dialog = {}
      /\ ~ In(tasks, {"load"}) /\ ~ In(tasks, {"close"}) /\ ~ In(tasks, Verdicts)
  BY <1>1 DEF Phases
<1>4. /\ ~ In(tasks', {"load"}) /\ ~ In(tasks', {"close"}) /\ ~ In(tasks', Verdicts)
      /\ ~ In(tasks', Answers) /\ ~ In(tasks', {"discard"})
  BY <1>1, <1>2, <1>3, Wider DEF Verdicts, Answers
<1>5. /\ step' = "index" /\ stage' = "indexing"
      /\ UNCHANGED <<project, state, dialog>>
  BY DEF BuildIndex, user
<1> QED
  BY <1>3, <1>4, <1>5 DEF Phases

LEMMA PhasesIndex ==
  ASSUME TypeOK, Queue, Phases,
         Index \/ IndexEnds \/ FinishParsing \/ Decide \/ TellFinished
  PROVE  Phases'
<1>1. Front("sequence") /\ step \in {"index", "finish", "decide", "done"}
  BY DEF Index, IndexEnds, FinishParsing, Decide, TellFinished, RunsStep, Runs
<1>2. /\ Held \in Seq(Tasks) /\ Rest \in Seq(Tasks)
      /\ ~ In(tasks, Verdicts) /\ ~ In(Rest, Verdicts)
      /\ ~ In(tasks, Answers) /\ ~ In(Rest, Answers)
      /\ \A S : In(Rest, S) => In(tasks, S)
  BY <1>1, HeldOK, FrontGone
<1>3. \A S : In(Held, S) <=> In(Rest, S) \/ "sequence" \in S
  BY <1>2, BehindIn, Names DEF Held
<1>4. stage = "indexing" /\ project /\ dialog = {}
  BY <1>1, <1>2 DEF Phases
<1>5. UNCHANGED <<project, state, dialog>>
  BY DEF Index, IndexEnds, FinishParsing, Decide, TellFinished, memory, user
<1>6. CASE ~ Decide
  <2>1. \A S \in Sets : In(tasks', S) => In(Held, S)
    BY <1>2, <1>6, FreelyIn DEF Index, IndexEnds, FinishParsing, TellFinished
  <2>2. ~ In(tasks', Verdicts) /\ ~ In(tasks', {"discard"}) /\ ~ In(tasks', Answers)
    BY <1>2, <1>3, <2>1, NamesOut, Wider DEF Verdicts, Answers
  <2>3. /\ In(tasks', {"load"}) => In(tasks, {"load"})
        /\ In(tasks', {"close"}) => In(tasks, {"close"})
    BY <1>2, <1>3, <2>1, NamesOut
  <2>4. \/ step' \in {"index", "finish", "decide"} /\ UNCHANGED stage
           /\ step \in {"index", "finish"}
        \/ step' = "again"
    BY <1>6 DEF Index, IndexEnds, FinishParsing, TellFinished, RunsStep, memory, sequence
  <2> QED
    BY <1>4, <1>5, <2>2, <2>3, <2>4 DEF Phases
<1>7. CASE Decide
  <2>1. PICK v \in Verdicts : tasks' = Append(Rest, v) \o <<"sequence">>
    BY <1>7 DEF Decide, Verdicts
  <2>2. v \in Tasks /\ v \notin Answers /\ v # "load" /\ v # "close"
    BY DEF Verdicts, Tasks, Answers
  <2>3. /\ Append(Rest, v) \in Seq(Tasks)
        /\ \A S : In(Append(Rest, v), S) <=> In(Rest, S) \/ v \in S
    BY <1>2, <2>2, BehindIn
  <2>4. \A S : In(tasks', S) <=> In(Rest, S) \/ v \in S \/ "sequence" \in S
    <3> DEFINE q == Append(Rest, v)
    <3>1. q \in Seq(Tasks) /\ \A S : In(q, S) <=> In(Rest, S) \/ v \in S
      BY <2>3
    <3>2. tasks' = q \o <<"sequence">>
      BY <2>1
    <3> HIDE DEF q
    <3>3. tasks' = Append(q, "sequence")
      BY <3>1, <3>2, MoreType, Names
    <3>4. \A S : In(tasks', S) <=> In(q, S) \/ "sequence" \in S
      BY <3>1, <3>3, BehindIn, Names
    <3> QED
      BY <3>1, <3>4, Zenon
  <2>5. step = "decide" /\ step' = "done" /\ UNCHANGED stage
    BY <1>7 DEF Decide, RunsStep, memory
  <2>6. ~ In(tasks', Answers)
    BY <1>2, <2>2, <2>4 DEF Answers
  <2> QED
    BY <1>2, <1>4, <1>5, <2>2, <2>4, <2>5, <2>6 DEF Phases
<1> QED
  BY <1>6, <1>7

LEMMA PhasesSwap ==
  ASSUME TypeOK, Queue, Phases,
         RefreshAgain \/ KeepsTemp \/ SwapRemoves \/ SwapRenames \/ DiscardTempStorage
  PROVE  Phases'
<1>1. CASE RefreshAgain
  <2>1. Front("sequence") /\ step = "again" /\ step' = "none"
    BY <1>1 DEF RefreshAgain, RunsStep, Runs
  <2>2. ~ In(Rest, Seqs) /\ ~ In(tasks, Verdicts) /\ \A S : In(Rest, S) => In(tasks, S)
    BY <2>1, FrontGone DEF Seqs
  <2>3. \A S \in Sets : In(tasks', S) => In(Rest, S)
    BY <1>1, AgainTasks, FreelyIn DEF TypeOK
  <2>4. UNCHANGED <<project, state, stage, dialog>>
    BY <1>1 DEF RefreshAgain, memory, user
  <2> QED
    BY <2>1, <2>2, <2>3, <2>4, NamesOut DEF Phases
<1>2. CASE KeepsTemp \/ SwapRemoves
  BY <1>2, PhasesStay DEF KeepsTemp, SwapRemoves, Fewer, memory, sequence, user
<1>3. CASE SwapRenames
  <2>1. Front("swap")
    BY <1>3 DEF SwapRenames
  <2>2. ~ In(Rest, Verdicts) /\ In(tasks, Verdicts) /\ \A S : In(Rest, S) => In(tasks, S)
    BY <2>1, FrontGone DEF Verdicts
  <2>3. UNCHANGED <<project, stage, step, dialog>> /\ tasks' = Rest
    BY <1>3 DEF SwapRenames, sequence, user
  <2>4. step = "done" /\ stage = "indexing"
    BY <2>2 DEF Phases
  <2>5. ~ In(Rest, {"discard"})
    BY <2>2, Wider DEF Verdicts
  <2> QED
    BY <2>2, <2>3, <2>4, <2>5 DEF Phases
<1>4. CASE DiscardTempStorage
  <2>1. Fewer
    BY <1>4, FrontGone DEF DiscardTempStorage, Runs, Fewer
  <2> QED
    BY <1>4, <2>1, PhasesStay DEF DiscardTempStorage, memory, sequence, user
<1> QED
  BY <1>1, <1>2, <1>3, <1>4

LEMMA PhasesStep == ASSUME TypeOK, Queue, Phases, Next PROVE Phases'
BY PhasesUser, PhasesEnd, PhasesPlain, PhasesLoad, PhasesBuild, PhasesIndex, PhasesSwap
   DEF Next, Task, Plain
-----------------------------------------------------------------------------
(* The files.                                                              *)

\* The parts of Placed and Safe, by what they speak of.
Kept == SavedIndexSurvives /\ IndexIsPure /\ FinishedIsSwapped /\ Placed

LEMMA FileFacts ==
  /\ ~ Exists(Missing) /\ Exists(Empty) /\ ~ Missing.mixed /\ ~ Empty.mixed
  /\ Empty.is # "whole" /\ Missing.is # "whole" /\ Missing # Empty
  /\ \A f \in File : /\ Exists(Opened(f))
                     /\ Exists(f) => Opened(f) = f
                     /\ ~ Exists(f) => Opened(f) = Empty /\ f.is # "whole"
                     /\ \A g \in Removed(f) : g = f \/ g = Missing
BY DEF Exists, Missing, Empty, Opened, Removed, File

\* A step that leaves the files alone, and may tell or forget a project.
LEMMA KeptStays ==
  ASSUME Kept, UNCHANGED files, UNCHANGED swapping,
         state' = "notLoaded" \/ (state # "notLoaded" /\ (project' => project)),
         stage' # "indexing" /\ state' # "notLoaded" /\ project' => stage # "indexing",
         step' = "again" => step = "again",
         step' = "done" => step = "done" /\ (In(tasks, Verdicts) => In(tasks', Verdicts))
  PROVE  Kept'
BY DEF Kept, SavedIndexSurvives, IndexIsPure, FinishedIsSwapped, Placed, files, Exists

LEMMA KeptInit == Init => Kept /\ Views
BY FileFacts DEF Init, Kept, SavedIndexSurvives, IndexIsPure, FinishedIsSwapped, Placed,
     Views, ShownIsSaved

LEMMA KeptUser ==
  ASSUME IInv, Kept, UserSends \/ DialogStarts \/ DialogCancels \/ Crash \/ Throws
  PROVE  Kept'
<1>1. CASE UserSends \/ DialogStarts \/ DialogCancels
  <2>1. PICK m \in Tasks : tasks' = Append(tasks, m)
    BY <1>1 DEF UserSends, DialogStarts, DialogCancels, Tasks
  <2>2. In(tasks, Verdicts) => In(tasks', Verdicts)
    BY <2>1, BehindIn DEF IInv, TypeOK
  <2> QED
    BY <1>1, <2>2, KeptStays DEF UserSends, DialogStarts, DialogCancels, memory, sequence
<1>2. CASE Crash
  BY <1>2 DEF Crash, Quit, Kept, SavedIndexSurvives, IndexIsPure, FinishedIsSwapped,
       Placed, files, Exists
<1>3. CASE Throws
  BY <1>3, KeptStays DEF Throws, memory
<1> QED
  BY <1>1, <1>2, <1>3

LEMMA KeptPlain ==
  ASSUME IInv, Kept, Plain PROVE Kept'
<1>1. PICK t \in Tasks \ Verdicts : Front(t) /\ tasks' = Rest
  BY DEF Plain, CloseProject, Refresh, ReloadProject, CancelRefresh, NothingToIndex,
       IndexingFinished, Runs, Tasks, Verdicts
<1>2. In(tasks, Verdicts) => In(tasks', Verdicts)
  BY <1>1, FrontGone DEF IInv
<1>3. UNCHANGED <<files, swapping, step>>
  BY DEF Plain, CloseProject, Refresh, ReloadProject, CancelRefresh, NothingToIndex,
       IndexingFinished, sequence
<1>4. CASE CloseProject \/ IndexingFinished
  BY <1>2, <1>3, <1>4, KeptStays DEF CloseProject, IndexingFinished, Quit, memory
<1>5. CASE Refresh \/ ReloadProject
  BY <1>2, <1>3, <1>5, KeptStays DEF Refresh, ReloadProject, RefreshProject
<1>6. CASE CancelRefresh \/ NothingToIndex
  <2>1. stage # "indexing"
    <3>1. CASE CancelRefresh
      BY <3>1, FrontGone DEF CancelRefresh, Runs, IInv, Phases, Answers
    <3>2. CASE NothingToIndex
      BY <3>2 DEF NothingToIndex
    <3> QED
      BY <1>6, <3>1, <3>2
  <2> QED
    BY <1>2, <1>3, <1>6, <2>1, KeptStays DEF CancelRefresh, NothingToIndex
<1> QED
  BY <1>4, <1>5, <1>6 DEF Plain

\* The old file is removed: the other one is the index that was kept.
LEMMA KeptRemoves ==
  ASSUME IInv, Kept, KeepsTemp \/ SwapRemoves PROVE Kept'
<1>1. /\ RemoveOld /\ UNCHANGED <<project, state, stage, step, tasks>>
  BY DEF KeepsTemp, SwapRemoves, memory, sequence
<1>2. db' = Missing \/ db' = db
  BY <1>1, FileFacts DEF RemoveOld, IInv, TypeOK
<1>3. /\ swapping' /\ temp' = temp /\ locked' = (locked \/ Exists(db'))
      /\ owed' = (temp.is = "whole")
  BY <1>1 DEF RemoveOld
<1>4. Placed'
  BY <1>3 DEF Placed
<1>5. SavedIndexSurvives'
  BY <1>3 DEF SavedIndexSurvives, Exists
<1>6. IndexIsPure'
  BY <1>2, <1>3, FileFacts DEF Kept, IndexIsPure
<1>7. FinishedIsSwapped'
  BY <1>1, <1>3 DEF Kept, FinishedIsSwapped, Exists
<1> QED
  BY <1>4, <1>5, <1>6, <1>7 DEF Kept

\* What becomes of the files when the old one is to be replaced.
LEMMA Replaced ==
  ASSUME IInv, Kept, swapping, owed' = owed,
         Renamed \/ NotRenamed
  PROVE  /\ Exists(db') /\ (~ locked' => ~ Exists(temp'))
         /\ SavedIndexSurvives' /\ IndexIsPure'
<1>1. CASE Renamed
  <2>1. /\ ~ Exists(db) /\ db' = Opened(temp) /\ temp' = Missing /\ locked' = locked
        /\ temp \in File /\ db \in File
    BY <1>1 DEF Renamed, IInv, TypeOK
  <2>2. SavedIndexSurvives'
    BY <2>1, FileFacts DEF Kept, SavedIndexSurvives, Exists
  <2>3. IndexIsPure'
    BY <2>1, FileFacts DEF Kept, IndexIsPure
  <2> QED
    BY <2>1, <2>2, <2>3, FileFacts
<1>2. CASE NotRenamed
  BY <1>2 DEF NotRenamed, Kept, Placed, SavedIndexSurvives, IndexIsPure, Exists
<1> QED
  BY <1>1, <1>2

LEMMA KeptLoads == ASSUME IInv, Kept, LoadProject PROVE Kept'
<1>1. Exists(db') /\ (~ locked' => ~ Exists(temp')) /\ SavedIndexSurvives' /\ IndexIsPure'
  <2>1. owed' = owed /\ FilesFound /\ db \in File /\ temp \in File
    BY DEF LoadProject, IInv, TypeOK
  <2>2. CASE swapping
    BY <2>1, <2>2, Replaced DEF FilesFound
  <2>3. CASE ~ swapping /\ DiscardsTemp
    BY <2>1, <2>3, FileFacts DEF DiscardsTemp, Kept, SavedIndexSurvives, IndexIsPure, Exists
  <2>4. CASE ~ swapping /\ Exists(temp) /\ Renamed
    BY <2>1, <2>4, FileFacts DEF Renamed, Kept, SavedIndexSurvives, IndexIsPure, Exists
  <2>5. CASE ~ swapping /\ ~ Exists(temp) /\ db' = Opened(db)
               /\ UNCHANGED <<temp, locked>>
    <3>1. SavedIndexSurvives'
      BY <2>1, <2>5, FileFacts DEF Kept, SavedIndexSurvives, Exists
    <3>2. IndexIsPure'
      BY <2>1, <2>5, FileFacts DEF Kept, IndexIsPure
    <3> QED
      BY <2>1, <2>5, <3>1, <3>2, FileFacts DEF Exists
  <2> QED
    BY <2>1, <2>2, <2>3, <2>4, <2>5 DEF FilesFound
<1>2. ~ swapping'
  BY DEF LoadProject
<1> QED
  BY <1>1, <1>2 DEF Kept, Placed, FinishedIsSwapped

LEMMA KeptFails == ASSUME IInv, Kept, LoadFails PROVE Kept'
<1>1. /\ UNCHANGED <<db, temp, locked, owed>> /\ state' = "notLoaded" /\ ~ swapping'
  BY DEF LoadFails, RenameThrows
<1> QED
  BY <1>1 DEF Kept, Placed, SavedIndexSurvives, IndexIsPure, FinishedIsSwapped, Exists

LEMMA KeptSwaps == ASSUME IInv, Kept, SwapRenames PROVE Kept'
<1>1. owed' = owed /\ swapping /\ ~ swapping' /\ UNCHANGED <<stage, step>>
  BY DEF SwapRenames, sequence
<1>2. CASE Renamed \/ NotRenamed
  BY <1>1, <1>2, Replaced DEF Kept, Placed, FinishedIsSwapped
<1>3. CASE RenameThrows /\ state' = "notLoaded"
  BY <1>1, <1>3 DEF RenameThrows, Kept, Placed, SavedIndexSurvives, IndexIsPure,
       FinishedIsSwapped, Exists
<1> QED
  BY <1>2, <1>3 DEF SwapRenames

LEMMA KeptDiscards == ASSUME IInv, Kept, DiscardTempStorage PROVE Kept'
<1>1. Front("discard") /\ ~ swapping
  BY DEF DiscardTempStorage, Runs
<1>2. In(tasks, Verdicts) /\ In(tasks, {"discard"})
  BY <1>1, FrontGone DEF IInv, Verdicts
<1>3. step = "done" /\ stage = "indexing" /\ project /\ state # "notLoaded"
  BY <1>2 DEF IInv, Phases
<1>4. Exists(db)
  BY <1>1, <1>3 DEF Kept, Placed
<1>5. /\ UNCHANGED <<db, owed, project, state, stage, step, swapping>>
      /\ locked' = (locked \/ Exists(temp')) /\ temp \in File
      /\ temp' = temp \/ temp' = Missing
  BY FileFacts DEF DiscardTempStorage, memory, sequence, IInv, TypeOK
<1>6. SavedIndexSurvives'
  BY <1>4, <1>5 DEF Kept, SavedIndexSurvives, Exists
<1>7. IndexIsPure'
  BY <1>5, FileFacts DEF Kept, IndexIsPure
<1>8. Placed'
  BY <1>1, <1>3, <1>4, <1>5 DEF Placed, Exists
<1>9. FinishedIsSwapped'
  BY <1>3, <1>5 DEF FinishedIsSwapped
<1> QED
  BY <1>6, <1>7, <1>8, <1>9 DEF Kept

LEMMA KeptBuilds == ASSUME IInv, Kept, BuildIndex PROVE Kept'
<1>1. Front("start") /\ ~ swapping
  BY DEF BuildIndex, Runs
<1>2. stage = "refreshing" /\ project /\ state # "notLoaded"
  BY <1>1, FrontGone DEF IInv, Phases, Answers
<1>3. Exists(db) /\ (~ locked => ~ Exists(temp))
  BY <1>1, <1>2 DEF Kept, Placed
<1>4. /\ UNCHANGED <<db, owed, locked, project, state, swapping>>
      /\ temp' = BeginTemp /\ step' = "index" /\ stage' = "indexing"
      /\ db \in File /\ temp \in File
  BY DEF BuildIndex, IInv, TypeOK
<1>5. SavedIndexSurvives'
  BY <1>3, <1>4 DEF Kept, SavedIndexSurvives, Exists
<1>6. ~ locked => ~ temp'.mixed
  BY <1>3, <1>4, FileFacts DEF BeginTemp, Kept, IndexIsPure
<1>7. IndexIsPure'
  BY <1>4, <1>6 DEF Kept, IndexIsPure
<1>8. Placed'
  BY <1>1, <1>3, <1>4 DEF Placed, Exists
<1>9. FinishedIsSwapped'
  BY <1>4 DEF FinishedIsSwapped
<1> QED
  BY <1>5, <1>7, <1>8, <1>9 DEF Kept

LEMMA KeptIndexes == ASSUME IInv, Kept, Index \/ IndexEnds PROVE Kept'
<1>1. /\ step = "index" /\ step' \in {"index", "finish"} /\ ~ swapping
      /\ UNCHANGED <<db, owed, locked, project, state, stage, swapping>>
      /\ temp' = [temp EXCEPT !.is = "partial"] \/ temp' = [temp EXCEPT !.is = "whole"]
      /\ temp \in File
  BY DEF Index, IndexEnds, RunsStep, Runs, memory, sequence, IInv, TypeOK
<1>2. stage = "indexing" /\ project /\ state # "notLoaded"
  BY <1>1 DEF IInv, Phases
<1>3. Exists(db)
  BY <1>1, <1>2 DEF Kept, Placed
<1>4. temp'.mixed = temp.mixed
  BY <1>1 DEF File
<1>5. SavedIndexSurvives'
  BY <1>1, <1>3 DEF Kept, SavedIndexSurvives, Exists
<1>6. IndexIsPure'
  BY <1>1, <1>4 DEF Kept, IndexIsPure
<1>7. Placed'
  BY <1>1, <1>2, <1>3 DEF Placed, Exists
<1>8. FinishedIsSwapped'
  BY <1>1 DEF FinishedIsSwapped
<1> QED
  BY <1>5, <1>6, <1>7, <1>8 DEF Kept

LEMMA KeptSteady == ASSUME IInv, Kept, Steady PROVE Kept'
<1>1. UNCHANGED <<files, project, state, swapping>> /\ ~ swapping /\ Front("sequence")
  BY DEF Steady, FinishParsing, Decide, TellFinished, RefreshAgain, RunsStep, Runs, memory
<1>2. CASE FinishParsing \/ RefreshAgain
  BY <1>1, <1>2, KeptStays DEF FinishParsing, RefreshAgain, memory
<1>3. CASE Decide
  <2>1. step = "decide" /\ step' = "done" /\ UNCHANGED stage
    BY <1>3 DEF Decide, RunsStep, memory
  <2>2. stage = "indexing" /\ project
    BY <2>1 DEF IInv, Phases
  <2>3. In(tasks', Verdicts)
    <3>1. PICK v \in Verdicts : tasks' = Append(Rest, v) \o <<"sequence">>
      BY <1>3 DEF Decide, Verdicts
    <3>2. Rest \in Seq(Tasks) /\ v \in Tasks
      BY <1>1, FrontGone DEF IInv, Verdicts, Tasks
    <3> DEFINE q == Append(Rest, v)
    <3>3. q \in Seq(Tasks) /\ In(q, Verdicts)
      BY <3>2, BehindIn
    <3> HIDE DEF q
    <3>4. tasks' = Append(q, "sequence")
      BY <3>1, <3>3, MoreType, Names DEF q
    <3> QED
      BY <3>3, <3>4, BehindIn, Names
  <2>4. Placed'
    BY <1>1, <2>1, <2>2, <2>3 DEF Kept, Placed, files, Exists
  <2>5. SavedIndexSurvives' /\ IndexIsPure'
    BY <1>1 DEF Kept, SavedIndexSurvives, IndexIsPure, files, Exists
  <2>6. FinishedIsSwapped'
    BY <2>1 DEF FinishedIsSwapped
  <2> QED
    BY <2>4, <2>5, <2>6 DEF Kept
<1>4. CASE TellFinished
  <2>1. step = "done" /\ step' = "again"
    BY <1>4 DEF TellFinished, RunsStep
  <2>2. ~ In(tasks, Verdicts)
    BY <1>1, FrontGone DEF IInv, Seqs
  <2>3. state # "notLoaded" /\ ~ locked => ~ Exists(temp)
    BY <1>1, <2>1, <2>2 DEF Kept, Placed
  <2>4. Placed'
    BY <1>1, <2>1, <2>3 DEF Kept, Placed, files, Exists
  <2>5. SavedIndexSurvives' /\ IndexIsPure'
    BY <1>1 DEF Kept, SavedIndexSurvives, IndexIsPure, files, Exists
  <2>6. FinishedIsSwapped'
    BY <1>1, <2>3 DEF FinishedIsSwapped, files, Exists
  <2> QED
    BY <2>4, <2>5, <2>6 DEF Kept
<1> QED
  BY <1>2, <1>3, <1>4 DEF Steady

LEMMA KeptStep == ASSUME IInv, Kept, Next PROVE Kept'
BY KeptUser, KeptPlain, KeptRemoves, KeptLoads, KeptFails, KeptSwaps, KeptDiscards,
   KeptBuilds, KeptIndexes, KeptSteady
   DEF Next, Task, Plain, Steady

-----------------------------------------------------------------------------
(* The views.                                                              *)

LEMMA ViewsStep == ASSUME IInv, Next PROVE Views'
<1> USE DEF Views, ShownIsSaved
<1>0. Views
  BY DEF IInv, Safe
<1>1. CASE UserSends \/ DialogStarts \/ DialogCancels \/ Throws
  BY <1>0, <1>1 DEF UserSends, DialogStarts, DialogCancels, Throws, memory, files
<1>2. CASE Crash
  BY <1>2 DEF Crash, Quit
<1>3. CASE Plain
  BY <1>0, <1>3 DEF Plain, CloseProject, Refresh, ReloadProject, CancelRefresh,
       NothingToIndex, IndexingFinished, memory, files, Quit, Runs
<1>4. CASE LoadProject \/ LoadFails
  BY <1>4 DEF LoadProject, LoadFails
<1>5. CASE KeepsTemp
  <2>1. ~ project
    BY <1>5, FrontGone DEF KeepsTemp, Runs, IInv, Phases
  <2> QED
    BY <1>0, <1>5, <2>1 DEF KeepsTemp, memory
<1>6. CASE SwapRemoves
  BY <1>6 DEF SwapRemoves
<1>7. CASE SwapRenames
  <2>1. project
    BY <1>7, FrontGone DEF SwapRenames, IInv, Phases, Verdicts
  <2> QED
    BY <1>0, <1>7, <2>1 DEF SwapRenames
<1>8. CASE DiscardTempStorage \/ Index \/ IndexEnds \/ Steady
  BY <1>0, <1>8 DEF DiscardTempStorage, Index, IndexEnds, Steady, FinishParsing, Decide,
       TellFinished, RefreshAgain, memory, files
<1>9. CASE BuildIndex
  <2>1. project
    BY <1>9, FrontGone DEF BuildIndex, Runs, IInv, Phases, Answers
  <2> QED
    BY <1>0, <1>9, <2>1 DEF BuildIndex, Runs
<1> QED
  BY <1>1, <1>2, <1>3, <1>4, <1>5, <1>6, <1>7, <1>8, <1>9 DEF Next, Task, Plain, Steady

-----------------------------------------------------------------------------
LEMMA InvInit == Init => IInv
BY TypeInit, PhasesInit, KeptInit DEF IInv, Safe, Kept

LEMMA InvStep == IInv /\ [Next]_vars => IInv'
<1>1. ASSUME IInv, Next PROVE IInv'
  <2>1. TypeOK /\ Queue /\ Phases /\ Kept
    BY <1>1 DEF IInv, Safe, Kept
  <2>2. TypeOK' /\ Queue' /\ Phases' /\ Kept' /\ Views'
    BY <1>1, <2>1, TypeStep, QueueStep, PhasesStep, KeptStep, ViewsStep
  <2> QED
    BY <2>2 DEF IInv, Safe, Kept
<1>2. ASSUME IInv, UNCHANGED vars PROVE IInv'
  BY <1>2 DEF IInv, Safe, Views, TypeOK, Queue, Phases, Placed, SavedIndexSurvives,
       IndexIsPure, ShownIsSaved, FinishedIsSwapped, Exists, vars
<1> QED
  BY <1>1, <1>2

\* The inductive invariant: the queue, the phases and the files agree throughout
\* (the tasks of Project::buildIndex and the messages between them).
THEOREM Invariant == Spec => []IInv
BY InvInit, InvStep, PTL DEF Spec

\* An index the user has kept, and that was whole, is on the disk until another
\* is kept, whatever is killed or throws and when (swapToTempStorageFile, load).
THEOREM SavedSurvives == Spec => []SavedIndexSurvives
BY Invariant, PTL DEF IInv, Safe

\* No index is begun on what an earlier indexing has left (buildIndex).
THEOREM IndexPure == Spec => []IndexIsPure
BY Invariant, PTL DEF IInv, Safe

\* The views read the saved index of the open project (swapToTempStorage,
\* Application::handleMessage(MessageCloseProject)).
THEOREM ShownSaved == Spec => []ShownIsSaved
BY Invariant, PTL DEF IInv, Safe, Views

\* When the stage is reset, the index that was decided about is in its place
\* (the order of the tasks in buildIndex).
THEOREM FinishedSwapped == Spec => []FinishedIsSwapped
BY Invariant, PTL DEF IInv, Safe
=============================================================================
