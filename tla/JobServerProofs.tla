--------------------------- MODULE JobServerProofs ---------------------------
(***************************************************************************)
(* The types, the safety properties and the refinement of the job registry *)
(* for any jobs, files and callbacks and for every fault.                  *)
(***************************************************************************)
EXTENDS JobServer, TLAPS

\* A callback has a legal percentage and stage.
LEMMA CallType ==
    ASSUME NEW n \in Nat, NEW k \in Nat \ {0}, k <= LastCall(n)
    PROVE  Call(n, k) \in Callback
<1>1. Len(Before) \in Nat /\ Len(After) \in Nat
  BY BeforeAssumption, AfterAssumption
<1>2. Batches(n) \in Nat
  BY DEF Batches, Batch
<1>3. CASE k <= Len(Before)
  BY <1>3, <1>1, BeforeAssumption DEF Call
<1>4. CASE k > Len(Before) /\ k <= Len(Before) + Batches(n)
  <2>1. Analyzed(n, k) \in 0..n
    BY <1>1, <1>4 DEF Analyzed, Batch
  <2>2. n > 0
    BY <1>4, <1>1 DEF Batches, Batch
  <2>3. Percent(n, k) \in 0..60
    <3>1. ASSUME NEW a \in Nat, a <= n PROVE (a * 60) \div n \in 0..60
      BY <3>1, <2>2, SMTT(60)
    <3>2. QED BY <3>1, <2>1 DEF Percent
  <2>4. Call(n, k) = [pct |-> Percent(n, k), stage |-> 3,
                      sized |-> TRUE, extra |-> 0]
    BY <1>4, <1>1, <1>2 DEF Call, LoopCall
  <2>5. QED BY <2>3, <2>4 DEF Callback
<1>5. CASE k > Len(Before) + Batches(n)
  <2>1. k - Len(Before) - Batches(n) \in 1..Len(After)
    BY <1>1, <1>2, <1>5 DEF LastCall
  <2>2. Call(n, k) = After[k - Len(Before) - Batches(n)]
    BY <1>1, <1>2, <1>5 DEF Call
  <2>3. QED BY <2>1, <2>2, AfterAssumption
<1>6. QED BY <1>1, <1>2, <1>3, <1>4, <1>5

LEMMA KeysLen == Len(Keys) = 7
  BY DEF Keys

-----------------------------------------------------------------------------
(* Types *)

LEMMA IdleType == Idle \in HttpRecord /\ Blank \in CopyRecord
<1>1. Blank \in CopyRecord
  BY DEF Blank, CopyRecord, Errors
<1>2. QED
  BY <1>1 DEF Idle, HttpRecord

LEMMA NewJobType == NewJob \in JobRecord /\ Absent \in JobRecord
<1>1. NewJob \in JobRecord
  BY DEF NewJob, JobRecord, Errors
<1>2. QED
  BY <1>1 DEF Absent, JobRecord

\* What one thread's step does to its record keeps the record's type.
LEMMA WorkerStepType ==
    ASSUME NEW w \in WorkerRecord, NEW p \in WorkerPc, NEW e \in Errors
    PROVE  /\ [w EXCEPT !.pc = p] \in WorkerRecord
           /\ [w EXCEPT !.pc = p, !.k = @ + 1] \in WorkerRecord
           /\ Except(w, e) \in WorkerRecord
<1>1. [w EXCEPT !.pc = p] \in WorkerRecord
  BY DEF WorkerRecord
<1>2. [w EXCEPT !.pc = p, !.k = @ + 1] \in WorkerRecord
  <2>1. w.k + 1 \in Nat \ {0}
    BY DEF WorkerRecord
  <2>2. QED
    BY <2>1 DEF WorkerRecord
<1>3. Except(w, e) \in WorkerRecord
  BY DEF WorkerRecord, WorkerPc, Except
<1> QED
  BY <1>1, <1>2, <1>3

\* The same for a job's dictionary: the updates of cb, run() and the index.
LEMMA JobStepType ==
    ASSUME NEW r \in JobRecord, NEW p \in 0..100, NEW e \in Errors
    PROVE  /\ [r EXCEPT !.pct = p] \in JobRecord
           /\ [r EXCEPT !.pct = p, !.done = TRUE, !.data = TRUE,
                        !.stats = TRUE] \in JobRecord
           /\ [r EXCEPT !.done = TRUE, !.error = e, !.pct = p] \in JobRecord
           /\ [r EXCEPT !.extra = 3] \in JobRecord
<1>1. [r EXCEPT !.pct = p] \in JobRecord
  BY DEF JobRecord
<1>2. [r EXCEPT !.pct = p, !.done = TRUE, !.data = TRUE, !.stats = TRUE]
        \in JobRecord
  BY DEF JobRecord
<1>3. [r EXCEPT !.done = TRUE, !.error = e, !.pct = p] \in JobRecord
  BY DEF JobRecord
<1>4. [r EXCEPT !.extra = 3] \in JobRecord
  BY DEF JobRecord
<1> QED
  BY <1>1, <1>2, <1>3, <1>4

LEMMA AnalyzedType ==
    ASSUME NEW n \in Nat, NEW k \in Nat
    PROVE  Analyzed(n, k) \in 0..n
<1>1. Len(Before) \in Nat
  BY BeforeAssumption
<1> QED
  BY <1>1 DEF Analyzed, Batch

LEMMA WithArgsType ==
    ASSUME NEW r \in JobRecord, NEW n \in Nat, NEW k \in Nat \ {0},
           k <= LastCall(n)
    PROVE  WithArgs(r, n, k) \in JobRecord
<1>1. /\ Call(n, k).stage \in 1..6 /\ Call(n, k).extra \in 0..2
      /\ Call(n, k).sized \in BOOLEAN
  BY CallType DEF Callback
<1>2. Analyzed(n, k) \in Nat
  BY AnalyzedType
<1> DEFINE size == IF Call(n, k).sized THEN n ELSE r.total
<1>3. size \in Nat
  BY DEF JobRecord
<1>4. WithArgs(r, n, k) = [r EXCEPT !.stage = Call(n, k).stage, !.total = size,
                                   !.analyzed = Analyzed(n, k),
                                   !.extra = Call(n, k).extra]
  BY DEF WithArgs
<1> HIDE DEF size
<1>5. Call(n, k).extra \in 0..3
  BY <1>1
<1> QED
  BY <1>1, <1>2, <1>3, <1>4, <1>5 DEF JobRecord

LEMMA InitType == Init => TypeOK
<1> SUFFICES ASSUME Init PROVE TypeOK
  OBVIOUS
<1>1. NoWork \in WorkerRecord
  BY DEF NoWork, WorkerRecord, WorkerPc, Errors
<1> QED
  BY <1>1, IdleType, NewJobType DEF Init, TypeOK

LEMMA StepType == TypeOK /\ Links /\ [Next]_vars => TypeOK'
<1> SUFFICES ASSUME TypeOK, Links, [Next]_vars PROVE TypeOK'
  OBVIOUS
<1>1. CASE PostRejected
  BY <1>1, IdleType DEF PostRejected, Answer, TypeOK
<1>2. ASSUME NEW j \in Jobs, NEW n \in Totals,
                PostInsert(j, n)
      PROVE  TypeOK'
  <2>1. worker' \in [Jobs -> WorkerRecord]
    BY <1>2, TotalsAssumption DEF PostInsert, TypeOK, WorkerRecord
  <2>2. jobs' \in [Jobs -> JobRecord]
    BY <1>2, NewJobType DEF PostInsert, TypeOK
  <2>3. http' \in HttpRecord
    BY <1>2, IdleType DEF PostInsert, HttpRecord
  <2> QED
    BY <1>2, <2>1, <2>2, <2>3 DEF PostInsert, TypeOK
<1>3. CASE PostStart
  <2>1. http' \in HttpRecord
    BY <1>3 DEF PostStart, TypeOK, HttpRecord
  <2>2. worker' \in [Jobs -> WorkerRecord]
    BY <1>3 DEF PostStart, TypeOK, Links, WorkerRecord, WorkerPc
  <2> QED
    BY <1>3, <2>1, <2>2 DEF PostStart, TypeOK
<1>4. CASE PostStartFails
  BY <1>4, IdleType DEF PostStartFails, Crash, Answer, TypeOK
<1>5. CASE PostAnswer
  BY <1>5, IdleType DEF PostAnswer, Crash, Answer, TypeOK
<1>6. ASSUME NEW j \in Jobs, CbPct(j)
      PROVE  TypeOK'
  <2>1. Call(worker[j].total, worker[j].k).pct \in 0..100
    BY <1>6, CallType DEF CbPct, TypeOK, WorkerRecord, Callback
  <2>2. jobs' \in [Jobs -> JobRecord]
    BY <2>1, <1>6, JobStepType DEF CbPct, TypeOK, Errors
  <2>3. worker' \in [Jobs -> WorkerRecord]
    BY <1>6 DEF CbPct, TypeOK, WorkerRecord, WorkerPc
  <2> QED
    BY <1>6, <2>1, <2>2, <2>3 DEF CbPct, Acquire, TypeOK
<1>7. ASSUME NEW j \in Jobs, CbArgs(j)
      PROVE  TypeOK'
  <2>1. worker' \in [Jobs -> WorkerRecord]
    BY <1>7 DEF CbArgs, TypeOK, WorkerRecord, WorkerPc
  <2>2. jobs' \in [Jobs -> JobRecord]
    <3>1. /\ worker[j].total \in Nat /\ worker[j].k \in Nat \ {0}
          /\ jobs[j] \in JobRecord
      BY DEF TypeOK, WorkerRecord
    <3>2. worker[j].k <= LastCall(worker[j].total)
      BY <1>7 DEF CbArgs, Links
    <3> QED
      BY <1>7, <3>1, <3>2, WithArgsType DEF CbArgs, TypeOK
  <2> QED
    BY <1>7, <2>1, <2>2 DEF CbArgs, Release, TypeOK
<1>8. ASSUME NEW j \in Jobs, Finish(j)
      PROVE  TypeOK'
  <2>1. jobs' \in [Jobs -> JobRecord]
    <3>1. [jobs[j] EXCEPT !.pct = 100, !.done = TRUE, !.data = TRUE,
                          !.stats = TRUE] \in JobRecord
      <4>1. jobs[j] \in JobRecord /\ 100 \in 0..100 /\ None \in Errors
        BY DEF TypeOK, Errors
      <4> QED
        BY ONLY <4>1, JobStepType
    <3> QED
      BY <1>8, <3>1 DEF Finish, TypeOK
  <2>2. worker' \in [Jobs -> WorkerRecord]
    BY <1>8 DEF Finish, TypeOK, WorkerRecord, WorkerPc
  <2> QED
    BY <1>8, <2>1, <2>2 DEF Finish, TypeOK
<1>9. ASSUME NEW j \in Jobs, NEW e \in Messages,
                BuildRaises(j, e)
      PROVE  TypeOK'
  <2>1. worker' \in [Jobs -> WorkerRecord]
    BY <1>9, WorkerStepType DEF BuildRaises, TypeOK, Errors, WorkerPc
  <2> QED
    BY <1>9, <2>1 DEF BuildRaises, TypeOK
<1>10. ASSUME NEW j \in Jobs, Report(j)
      PROVE  TypeOK'
  <2>1. worker' \in [Jobs -> WorkerRecord]
    BY <1>10 DEF Report, TypeOK, WorkerRecord, WorkerPc
  <2> QED
    BY <1>10, <2>1 DEF Report, TypeOK
<1>11. ASSUME NEW j \in Jobs, Spawn(j)
      PROVE  TypeOK'
  <2>1. worker' \in [Jobs -> WorkerRecord]
    BY <1>11 DEF Spawn, TypeOK, WorkerRecord, WorkerPc
  <2> QED
    BY <1>11, <2>1 DEF Spawn, TypeOK
<1>12. ASSUME NEW j \in Jobs, ReportRaises(j)
      PROVE  TypeOK'
  <2>1. worker' \in [Jobs -> WorkerRecord]
    BY <1>12, WorkerStepType DEF ReportRaises, TypeOK, Errors, WorkerPc
  <2> QED
    BY <1>12, <2>1 DEF ReportRaises, TypeOK
<1>13. ASSUME NEW j \in Jobs, PrintTraceback(j)
      PROVE  TypeOK'
  <2>1. worker' \in [Jobs -> WorkerRecord]
    BY <1>13 DEF PrintTraceback, TypeOK, WorkerRecord, WorkerPc
  <2> QED
    BY <1>13, <2>1 DEF PrintTraceback, TypeOK
<1>14. ASSUME NEW j \in Jobs, TracebackRaises(j)
      PROVE  TypeOK'
  <2>1. worker' \in [Jobs -> WorkerRecord]
    BY <1>14 DEF TracebackRaises, TypeOK, WorkerRecord, WorkerPc
  <2> QED
    BY <1>14, <2>1 DEF TracebackRaises, TypeOK
<1>15. ASSUME NEW j \in Jobs, PublishFailure(j)
      PROVE  TypeOK'
  <2>1. jobs' \in [Jobs -> JobRecord]
    <3>1. worker[j].error \in Errors
      BY DEF TypeOK, WorkerRecord
    <3>2. [jobs[j] EXCEPT !.done = TRUE, !.error = worker[j].error, !.pct = 0]
            \in JobRecord
      <4>1. jobs[j] \in JobRecord /\ 0 \in 0..100
        BY DEF TypeOK
      <4> QED
        BY ONLY <3>1, <4>1, JobStepType
    <3> QED
      BY <1>15, <3>2 DEF PublishFailure, TypeOK
  <2>2. worker' \in [Jobs -> WorkerRecord]
    BY <1>15 DEF PublishFailure, TypeOK, WorkerRecord, WorkerPc
  <2> QED
    BY <1>15, <2>1, <2>2 DEF PublishFailure, TypeOK
<1>16. ASSUME NEW j \in Jobs, IndexReady(j)
      PROVE  TypeOK'
  <2>1. jobs' \in [Jobs -> JobRecord]
    BY <1>16 DEF IndexReady, TypeOK, JobRecord
  <2> QED
    BY <1>16, <2>1 DEF IndexReady, TypeOK
<1>17. ASSUME NEW j \in Jobs, ProgressBegin(j)
      PROVE  TypeOK'
  <2>1. http' \in HttpRecord
    <3>1. jobs[j].extra \in 0..3
      BY DEF TypeOK, JobRecord
    <3>2. [Idle EXCEPT !.pc = "copy", !.job = j, !.size = jobs[j].extra]
            \in HttpRecord
      BY <3>1, IdleType DEF HttpRecord
    <3> QED
      BY <1>17, <3>2, IdleType DEF ProgressBegin, Answer
  <2> QED
    BY <1>17, <2>1 DEF ProgressBegin, TypeOK
<1>18. CASE ProgressKey
  <2>1. http' \in HttpRecord
    <3>1. http.at \in 1..7 /\ http.at + 1 \in 1..8 /\ http.job \in Jobs
      BY <1>18, KeysLen DEF ProgressKey, TypeOK, HttpRecord, Links
    <3> DEFINE key == Keys[http.at]
               copy == [http.copy EXCEPT ![key] = jobs[http.job][key]]
    <3>2. /\ http.copy \in CopyRecord
          /\ jobs[http.job] \in JobRecord
          /\ key \in {"pct", "done", "error", "stats", "stage", "total",
                      "analyzed"}
      BY <3>1 DEF TypeOK, HttpRecord, Keys
    <3>3. copy \in CopyRecord
      BY <3>2 DEF CopyRecord, JobRecord
    <3>4. http' = [http EXCEPT !.copy = copy, !.at = http.at + 1]
      BY <1>18 DEF ProgressKey
    <3> HIDE DEF copy
    <3> QED
      BY <3>1, <3>3, <3>4 DEF TypeOK, HttpRecord
  <2> QED
    BY <1>18, <2>1 DEF ProgressKey, TypeOK
<1>19. CASE ProgressRaises
  BY <1>19, IdleType DEF ProgressRaises, Crash, Answer, TypeOK
<1>20. CASE ProgressAnswer
  <2>1. http' \in HttpRecord
    BY <1>20, IdleType DEF ProgressAnswer, Answer
  <2>2. shown' \in [Jobs -> 0..6]
    <3>1. http.copy.stage \in 0..6
      BY DEF TypeOK, HttpRecord, CopyRecord
    <3> QED
      BY <1>20, <3>1 DEF ProgressAnswer, TypeOK
  <2> QED
    BY <1>20, <2>1, <2>2 DEF ProgressAnswer, TypeOK
<1>21. ASSUME NEW j \in Jobs, Result(j)
      PROVE  TypeOK'
  BY <1>21, IdleType DEF Result, Answer, TypeOK
<1>22. ASSUME NEW j \in Jobs, Query(j)
      PROVE  TypeOK'
  BY <1>22, IdleType DEF Query, Answer, TypeOK
<1>23. ASSUME NEW j \in Jobs, Search(j)
      PROVE  TypeOK'
  BY <1>23, IdleType DEF Search, Answer, TypeOK
<1>24. CASE ListJobs
  BY <1>24, IdleType DEF ListJobs, Answer, TypeOK
<1>25. CASE Cancel
  BY <1>25, IdleType DEF Cancel, Answer, TypeOK
<1>26. CASE UNCHANGED vars
  BY <1>26 DEF vars, TypeOK
<1> QED
  BY <1>1, <1>2, <1>3, <1>4, <1>5, <1>6, <1>7, <1>8, <1>9, <1>10, <1>11, <1>12, <1>13, <1>14, <1>15, <1>16, <1>17, <1>18, <1>19, <1>20, <1>21, <1>22, <1>23, <1>24, <1>25, <1>26
     DEF Next, Request, HandlerStep, WorkerStep
-----------------------------------------------------------------------------
(* Links *)

LEMMA InitLinks == Init => Links
  BY DEF Init, Links, Idle, NoWork

LEMMA StepLinks == TypeOK /\ Links /\ [Next]_vars => Links'
<1> SUFFICES ASSUME TypeOK, Links, [Next]_vars PROVE Links'
  OBVIOUS
<1>1. CASE PostRejected
  BY <1>1 DEF PostRejected, Links, Answer, Idle
<1>2. ASSUME NEW j \in Jobs, NEW n \in Totals,
                PostInsert(j, n)
      PROVE  Links'
  BY <1>2 DEF PostInsert, Links, TypeOK, Idle, NewJob, WorkerRecord
<1>3. CASE PostStart
  BY <1>3 DEF PostStart, Links, TypeOK, JobRecord, WorkerRecord, HttpRecord
<1>4. CASE PostStartFails
  BY <1>4 DEF PostStartFails, Links, Answer, Idle, Crash
<1>5. CASE PostAnswer
  BY <1>5 DEF PostAnswer, Links, Answer, Idle, Crash
<1>6. ASSUME NEW j \in Jobs, CbPct(j)
      PROVE  Links'
  BY <1>6 DEF CbPct, Links, TypeOK, JobRecord, WorkerRecord
<1>7. ASSUME NEW j \in Jobs, CbArgs(j)
      PROVE  Links'
  BY <1>7 DEF CbArgs, Links, TypeOK, JobRecord, WorkerRecord, WithArgs
<1>8. ASSUME NEW j \in Jobs, Finish(j)
      PROVE  Links'
  BY <1>8 DEF Finish, Links, TypeOK, JobRecord, WorkerRecord
<1>9. ASSUME NEW j \in Jobs, NEW e \in Messages,
                BuildRaises(j, e)
      PROVE  Links'
  BY <1>9 DEF BuildRaises, Links, TypeOK, JobRecord, WorkerRecord, Except
<1>10. ASSUME NEW j \in Jobs, Report(j)
      PROVE  Links'
  BY <1>10 DEF Report, Links, TypeOK, JobRecord, WorkerRecord
<1>11. ASSUME NEW j \in Jobs, Spawn(j)
      PROVE  Links'
  BY <1>11 DEF Spawn, Links, TypeOK, JobRecord, WorkerRecord
<1>12. ASSUME NEW j \in Jobs, ReportRaises(j)
      PROVE  Links'
  BY <1>12 DEF ReportRaises, Links, TypeOK, JobRecord, WorkerRecord, Except
<1>13. ASSUME NEW j \in Jobs, PrintTraceback(j)
      PROVE  Links'
  BY <1>13 DEF PrintTraceback, Links, TypeOK, JobRecord, WorkerRecord
<1>14. ASSUME NEW j \in Jobs, TracebackRaises(j)
      PROVE  Links'
  BY <1>14 DEF TracebackRaises, Links, TypeOK, JobRecord, WorkerRecord
<1>15. ASSUME NEW j \in Jobs, PublishFailure(j)
      PROVE  Links'
  BY <1>15 DEF PublishFailure, Links, TypeOK, JobRecord, WorkerRecord
<1>16. ASSUME NEW j \in Jobs, IndexReady(j)
      PROVE  Links'
  BY <1>16 DEF IndexReady, Links, TypeOK, JobRecord, WorkerRecord
<1>17. ASSUME NEW j \in Jobs, ProgressBegin(j)
      PROVE  Links'
  BY <1>17 DEF ProgressBegin, Links, Answer, Idle
<1>18. CASE ProgressKey
  BY <1>18 DEF ProgressKey, Links, TypeOK, HttpRecord
<1>19. CASE ProgressRaises
  BY <1>19 DEF ProgressRaises, Links, Answer, Idle, Crash
<1>20. CASE ProgressAnswer
  BY <1>20 DEF ProgressAnswer, Links, Answer, Idle
<1>21. ASSUME NEW j \in Jobs, Result(j)
      PROVE  Links'
  BY <1>21 DEF Result, Links, Answer, Idle
<1>22. ASSUME NEW j \in Jobs, Query(j)
      PROVE  Links'
  BY <1>22 DEF Query, Links, Answer, Idle
<1>23. ASSUME NEW j \in Jobs, Search(j)
      PROVE  Links'
  BY <1>23 DEF Search, Links, Answer, Idle
<1>24. CASE ListJobs
  BY <1>24 DEF ListJobs, Links, Answer, Idle
<1>25. CASE Cancel
  BY <1>25 DEF Cancel, Links, Answer, Idle
<1>26. CASE UNCHANGED vars
  BY <1>26 DEF vars, Links
<1> QED
  BY <1>1, <1>2, <1>3, <1>4, <1>5, <1>6, <1>7, <1>8, <1>9, <1>10, <1>11, <1>12, <1>13, <1>14, <1>15, <1>16, <1>17, <1>18, <1>19, <1>20, <1>21, <1>22, <1>23, <1>24, <1>25, <1>26
     DEF Next, Request, HandlerStep, WorkerStep

-----------------------------------------------------------------------------
(* Published *)

LEMMA InitPublished == Init => Published
<1>1. Absent.done = FALSE /\ Absent.stats = FALSE /\ Absent.data = FALSE
  BY DEF Absent, NewJob
<1>2. Idle.pc = "idle" /\ NoWork.pc = "none"
  BY DEF Idle, NoWork
<1> QED
  BY <1>1, <1>2 DEF Init, Published

LEMMA StepPublished ==
    TypeOK /\ Links /\ Order /\ Published /\ [Next]_vars => Published'
<1> SUFFICES ASSUME TypeOK, Links, Order, Published, [Next]_vars PROVE Published'
  OBVIOUS
<1>1. CASE PostRejected
  BY <1>1 DEF PostRejected, Published, Answer, Idle, Blank
<1>2. ASSUME NEW j \in Jobs, NEW n \in Totals,
                PostInsert(j, n)
      PROVE  Published'
  <2>1. /\ http'.pc = "start" /\ NewJob.done = FALSE
        /\ NewJob.stats = FALSE /\ NewJob.data = FALSE
    BY <1>2 DEF PostInsert, Idle, NewJob
  <2>2. \A i \in Jobs : /\ worker'[i].pc = worker[i].pc
                        /\ worker'[i].error = worker[i].error
    BY <1>2 DEF PostInsert, TypeOK, WorkerRecord
  <2>3. /\ \A i \in Jobs : i # j => jobs'[i] = jobs[i]
        /\ jobs'[j].done = FALSE /\ jobs'[j].stats = jobs'[j].data
    BY <1>2, <2>1 DEF PostInsert, TypeOK
  <2> QED
    BY <2>1, <2>2, <2>3 DEF Published
<1>3. CASE PostStart
  BY <1>3 DEF PostStart, Published, TypeOK, Links, JobRecord, WorkerRecord, HttpRecord
<1>4. CASE PostStartFails
  BY <1>4 DEF PostStartFails, Published, Answer, Idle, Blank, Crash
<1>5. CASE PostAnswer
  BY <1>5 DEF PostAnswer, Published, Answer, Idle, Blank, Crash
<1>6. ASSUME NEW j \in Jobs, CbPct(j)
      PROVE  Published'
  BY <1>6 DEF CbPct, Published, TypeOK, Links, JobRecord, WorkerRecord
<1>7. ASSUME NEW j \in Jobs, CbArgs(j)
      PROVE  Published'
  BY <1>7 DEF CbArgs, Published, TypeOK, Links, JobRecord, WorkerRecord, WithArgs
<1>8. ASSUME NEW j \in Jobs, Finish(j)
      PROVE  Published'
  <2>1. \A i \in Jobs : IF i = j THEN /\ jobs'[i].done /\ jobs'[i].data = TRUE
                                       /\ jobs'[i].stats = TRUE
                                       /\ jobs'[i].error = jobs[i].error
                                  ELSE jobs'[i] = jobs[i]
    BY <1>8 DEF Finish, TypeOK, JobRecord
  <2>2. \A i \in Jobs : worker'[i].pc \in {"except", "fail"}
                           => worker'[i] = worker[i]
    BY <1>8 DEF Finish, TypeOK, WorkerRecord
  <2>3. http' = http /\ (http.pc = "copy" => http.job \in Jobs)
    BY <1>8 DEF Finish, Links
  <2> QED
    BY <2>1, <2>2, <2>3 DEF Published
<1>9. ASSUME NEW j \in Jobs, NEW e \in Messages,
                BuildRaises(j, e)
      PROVE  Published'
  <2>1. e # None
    BY MessagesAssumption DEF Error, None
  <2> QED
    BY <1>9, <2>1 DEF BuildRaises, Published, TypeOK, WorkerRecord, Except
<1>10. ASSUME NEW j \in Jobs, Report(j)
      PROVE  Published'
  BY <1>10 DEF Report, Published, TypeOK, Links, JobRecord, WorkerRecord
<1>11. ASSUME NEW j \in Jobs, Spawn(j)
      PROVE  Published'
  BY <1>11 DEF Spawn, Published, TypeOK, Links, JobRecord, WorkerRecord
<1>12. ASSUME NEW j \in Jobs, ReportRaises(j)
      PROVE  Published'
  BY <1>12 DEF ReportRaises, Published, TypeOK, Links, JobRecord, WorkerRecord, Except, None
<1>13. ASSUME NEW j \in Jobs, PrintTraceback(j)
      PROVE  Published'
  BY <1>13 DEF PrintTraceback, Published, TypeOK, Links, JobRecord, WorkerRecord
<1>14. ASSUME NEW j \in Jobs, TracebackRaises(j)
      PROVE  Published'
  BY <1>14 DEF TracebackRaises, Published, TypeOK, Links, JobRecord, WorkerRecord
<1>15. ASSUME NEW j \in Jobs, PublishFailure(j)
      PROVE  Published'
  <2>1. /\ worker[j].error # None
        /\ jobs[j].done => jobs[j].error = None /\ jobs[j].data
    BY <1>15 DEF PublishFailure, Published, Order
  <2>2. \A i \in Jobs : IF i = j THEN /\ jobs'[i].done /\ jobs'[i].error = worker[i].error
                                       /\ jobs'[i].data = jobs[i].data
                                       /\ jobs'[i].stats = jobs[i].stats
                                  ELSE jobs'[i] = jobs[i]
    BY <1>15 DEF PublishFailure, TypeOK, JobRecord
  <2>3. \A i \in Jobs : worker'[i].pc \in {"except", "fail"} => worker'[i] = worker[i]
    BY <1>15 DEF PublishFailure, TypeOK, WorkerRecord
  <2>4. http' = http /\ (http.pc = "copy" => http.job \in Jobs)
    BY <1>15 DEF PublishFailure, Links
  <2>5. http.pc = "copy" /\ http.copy.done /\ http.job = j => jobs[j].done
    BY DEF Published
  <2> QED
    BY <2>1, <2>2, <2>3, <2>4, <2>5 DEF Published
<1>16. ASSUME NEW j \in Jobs, IndexReady(j)
      PROVE  Published'
  BY <1>16 DEF IndexReady, Published, TypeOK, Links, JobRecord, WorkerRecord
<1>17. ASSUME NEW j \in Jobs, ProgressBegin(j)
      PROVE  Published'
  <2>1. http'.copy.done = FALSE
    <3>1. http'.copy = Blank
      <4>1. Idle.copy = Blank
        BY DEF Idle
      <4>2. [Idle EXCEPT !.pc = "copy", !.job = j, !.size = jobs[j].extra].copy
              = Blank
        BY <4>1, IdleType DEF HttpRecord
      <4> QED
        BY <1>17, <4>1, <4>2 DEF ProgressBegin, Answer
    <3> QED
      BY <3>1 DEF Blank
  <2> QED
    BY <1>17, <2>1 DEF ProgressBegin, Published
<1>18. CASE ProgressKey
  BY <1>18 DEF ProgressKey, Published, TypeOK, Links, HttpRecord, CopyRecord, JobRecord, Keys
<1>19. CASE ProgressRaises
  BY <1>19 DEF ProgressRaises, Published, Answer, Idle, Blank, Crash
<1>20. CASE ProgressAnswer
  BY <1>20 DEF ProgressAnswer, Published, Answer, Idle, Blank
<1>21. ASSUME NEW j \in Jobs, Result(j)
      PROVE  Published'
  BY <1>21 DEF Result, Published, Answer, Idle, Blank
<1>22. ASSUME NEW j \in Jobs, Query(j)
      PROVE  Published'
  BY <1>22 DEF Query, Published, Answer, Idle, Blank
<1>23. ASSUME NEW j \in Jobs, Search(j)
      PROVE  Published'
  BY <1>23 DEF Search, Published, Answer, Idle, Blank
<1>24. CASE ListJobs
  BY <1>24 DEF ListJobs, Published, Answer, Idle, Blank
<1>25. CASE Cancel
  BY <1>25 DEF Cancel, Published, Answer, Idle, Blank
<1>26. CASE UNCHANGED vars
  BY <1>26 DEF vars, Published
<1> QED
  BY <1>1, <1>2, <1>3, <1>4, <1>5, <1>6, <1>7, <1>8, <1>9, <1>10, <1>11, <1>12, <1>13, <1>14, <1>15, <1>16, <1>17, <1>18, <1>19, <1>20, <1>21, <1>22, <1>23, <1>24, <1>25, <1>26
     DEF Next, Request, HandlerStep, WorkerStep

-----------------------------------------------------------------------------
(* What the answers promise *)

\* A graph, once published, stays published.
LEMMA DataStays ==
    TypeOK /\ Links /\ [Next]_vars =>
        \A i \in Jobs : jobs[i].in /\ jobs[i].data
                          => jobs'[i].in /\ jobs'[i].data
<1> DEFINE Stays == \A i \in Jobs : jobs[i].in /\ jobs[i].data
                                     => jobs'[i].in /\ jobs'[i].data
<1> SUFFICES ASSUME TypeOK, Links, [Next]_vars PROVE Stays
  OBVIOUS
<1>1. ASSUME NEW j \in Jobs, NEW n \in Totals,
                PostInsert(j, n)
      PROVE  Stays
  BY <1>1 DEF PostInsert, TypeOK, Links, JobRecord, WorkerRecord
<1>2. ASSUME NEW j \in Jobs, CbPct(j)
      PROVE  Stays
  BY <1>2 DEF CbPct, TypeOK, Links, JobRecord, WorkerRecord
<1>3. ASSUME NEW j \in Jobs, CbArgs(j)
      PROVE  Stays
  BY <1>3 DEF CbArgs, WithArgs, TypeOK, Links, JobRecord, WorkerRecord
<1>4. ASSUME NEW j \in Jobs, Finish(j)
      PROVE  Stays
  BY <1>4 DEF Finish, TypeOK, Links, JobRecord, WorkerRecord
<1>5. ASSUME NEW j \in Jobs, PublishFailure(j)
      PROVE  Stays
  BY <1>5 DEF PublishFailure, TypeOK, Links, JobRecord, WorkerRecord
<1>6. ASSUME NEW j \in Jobs, IndexReady(j)
      PROVE  Stays
  BY <1>6 DEF IndexReady, TypeOK, Links, JobRecord, WorkerRecord
<1>7. CASE UNCHANGED jobs
  BY <1>7
<1> HIDE DEF Stays
<1> QED
  BY <1>1, <1>2, <1>3, <1>4, <1>5, <1>6, <1>7
     DEF Next, Request, HandlerStep, WorkerStep, vars, PostRejected, PostStart, PostStartFails, PostAnswer, BuildRaises, Report, Spawn, ReportRaises, PrintTraceback, TracebackRaises, ProgressBegin, ProgressKey, ProgressRaises, ProgressAnswer, Result, Query, Search, ListJobs, Cancel

\* A failure, once published, stays, with the graph it has.
LEMMA FailureStays ==
    TypeOK /\ Links /\ Order /\ [Next]_vars =>
        \A i \in Jobs : jobs[i].in /\ jobs[i].error # None =>
            /\ jobs'[i].in /\ jobs'[i].error = jobs[i].error
            /\ jobs'[i].data = jobs[i].data
<1> DEFINE Stays == \A i \in Jobs : jobs[i].in /\ jobs[i].error # None =>
                        /\ jobs'[i].in /\ jobs'[i].error = jobs[i].error
                        /\ jobs'[i].data = jobs[i].data
<1> SUFFICES ASSUME TypeOK, Links, Order, [Next]_vars PROVE Stays
  OBVIOUS
<1>1. ASSUME NEW j \in Jobs, NEW n \in Totals,
                PostInsert(j, n)
      PROVE  Stays
  BY <1>1 DEF PostInsert, TypeOK, JobRecord
<1>2. ASSUME NEW j \in Jobs, CbPct(j)
      PROVE  Stays
  BY <1>2 DEF CbPct, TypeOK, JobRecord
<1>3. ASSUME NEW j \in Jobs, CbArgs(j)
      PROVE  Stays
  BY <1>3 DEF CbArgs, WithArgs, TypeOK, JobRecord
<1>4. ASSUME NEW j \in Jobs, Finish(j)
      PROVE  Stays
  BY <1>4 DEF Finish, Order, TypeOK, JobRecord
<1>5. ASSUME NEW j \in Jobs, PublishFailure(j)
      PROVE  Stays
  BY <1>5 DEF PublishFailure, Order, TypeOK, JobRecord
<1>6. ASSUME NEW j \in Jobs, IndexReady(j)
      PROVE  Stays
  BY <1>6 DEF IndexReady, TypeOK, JobRecord
<1>7. CASE UNCHANGED jobs
  BY <1>7
<1> HIDE DEF Stays
<1> QED
  BY <1>1, <1>2, <1>3, <1>4, <1>5, <1>6, <1>7
     DEF Next, Request, HandlerStep, WorkerStep, vars, PostRejected, PostStart, PostStartFails, PostAnswer, BuildRaises, Report, Spawn, ReportRaises, PrintTraceback, TracebackRaises, ProgressBegin, ProgressKey, ProgressRaises, ProgressAnswer, Result, Query, Search, ListJobs, Cancel

LEMMA StepServed ==
    TypeOK /\ Links /\ Order /\ Published /\ ToldIsServed /\ [Next]_vars
        => ToldIsServed'
<1> SUFFICES ASSUME TypeOK, Links, Order, Published, ToldIsServed, [Next]_vars
             PROVE  ToldIsServed'
  OBVIOUS
<1>1. \A i \in told : /\ i \in Jobs /\ jobs'[i].in
                      /\ jobs'[i].data \/ jobs'[i].error = "blank"
                      /\ jobs'[i].data => jobs[i].data
  BY DataStays, FailureStays DEF ToldIsServed, TypeOK, None
<1>2. CASE ProgressAnswer
  <2>1. http.at > 4 /\ http.pc = "copy" /\ http.job \in Jobs
    BY <1>2, KeysLen DEF ProgressAnswer, TypeOK, HttpRecord, Links
  <2>2. \A i \in told' : jobs[i].in /\ (jobs[i].data \/ jobs[i].error = "blank")
    <3>1. /\ jobs[http.job].in
          /\ http.copy.done /\ Falsy(http.copy.error) =>
                jobs[http.job].data \/ jobs[http.job].error = "blank"
      BY <2>1 DEF TypeOK, HttpRecord, Links, Published, Falsy, None
    <3>2. told' = told \/ /\ told' = told \cup {http.job}
                          /\ http.copy.done /\ Falsy(http.copy.error)
      BY <1>2 DEF ProgressAnswer
    <3> QED
      BY <3>1, <3>2 DEF ToldIsServed
  <2>3. out'.kind = "progress" /\ jobs' = jobs
    BY <1>2 DEF ProgressAnswer, Answer
  <2> QED
    BY <2>2, <2>3 DEF ToldIsServed
<1>3. ASSUME NEW j \in Jobs, Result(j) PROVE ToldIsServed'
  <2>1. PICK body : /\ Answer([kind |-> "result", job |-> j, body |-> body])
                    /\ jobs[j].in /\ jobs[j].data => body \in Rendered
    BY <1>3 DEF Result
  <2>2. UNCHANGED <<jobs, told>>
    BY <1>3 DEF Result
  <2>3. out'.kind = "result" /\ out'.job = j /\ out'.body = body
    BY <2>1 DEF Answer
  <2> QED
    BY <1>1, <2>1, <2>2, <2>3 DEF ToldIsServed, Rendered
<1>4. ASSUME NEW j \in Jobs, Query(j) PROVE ToldIsServed'
  BY <1>1, <1>4 DEF Query, Answer, ToldIsServed
<1>5. CASE told' = told /\ (out' = out \/ out'.kind \notin {"result", "query"})
  BY <1>1, <1>5 DEF ToldIsServed, Rendered
<1>6. ASSUME NEW j \in Jobs, Search(j)
      PROVE  told' = told /\ out'.kind = "search"
  BY <1>6 DEF Search, Answer
<1>7. CASE PostRejected \/ PostStartFails \/ PostAnswer \/ ProgressRaises
           \/ ListJobs \/ Cancel
  <2>1. told' = told /\ out'.kind \notin {"result", "query"}
    BY <1>7 DEF PostRejected, PostStartFails, PostAnswer, ProgressRaises,
                ListJobs, Cancel, Crash, Answer
  <2> QED
    BY <2>1, <1>5
<1>8. ASSUME NEW j \in Jobs, ProgressBegin(j) \/ \E n \in Totals : PostInsert(j, n)
      PROVE  told' = told /\ out'.kind \in {"none", "unknown"}
  BY <1>8 DEF ProgressBegin, PostInsert, Answer, NoAnswer
<1>9. ASSUME NEW j \in Jobs, WorkerStep(j) \/ IndexReady(j)
      PROVE  told' = told /\ out' = out
  BY <1>9 DEF WorkerStep, IndexReady, CbPct, CbArgs, Finish, BuildRaises,
              Report, Spawn, ReportRaises, PrintTraceback, TracebackRaises,
              PublishFailure
<1>10. CASE PostStart \/ ProgressKey \/ UNCHANGED vars
  BY <1>10, <1>5 DEF PostStart, ProgressKey, vars
<1> QED
  BY <1>2, <1>3, <1>4, <1>5, <1>6, <1>7, <1>8, <1>9, <1>10
     DEF Next, Request, HandlerStep

\* A finished copy that says "done, no error" carries the statistics.
LEMMA StepStats ==
    TypeOK /\ Links /\ Published /\ DoneCarriesStats /\ [Next]_vars
        => DoneCarriesStats'
<1> SUFFICES ASSUME TypeOK, Links, Published, DoneCarriesStats, [Next]_vars
             PROVE  DoneCarriesStats'
  OBVIOUS
<1>1. CASE ProgressAnswer
  <2>1. http.at > 4 /\ http.pc = "copy"
    BY <1>1, KeysLen DEF ProgressAnswer, TypeOK, HttpRecord
  <2>2. out'.body = http.copy
    BY <1>1 DEF ProgressAnswer, Answer
  <2> QED
    BY <2>1, <2>2 DEF Published, DoneCarriesStats
<1>2. CASE out' = out \/ out'.kind # "progress"
  BY <1>2 DEF DoneCarriesStats
<1>3. ASSUME NEW j \in Jobs, \/ ProgressBegin(j) \/ Result(j) \/ Query(j)
                             \/ Search(j) \/ \E n \in Totals : PostInsert(j, n)
      PROVE  out'.kind # "progress"
  <2>1. ProgressBegin(j) => out'.kind \in {"none", "unknown"}
    BY DEF ProgressBegin, Answer, NoAnswer
  <2>2. (\E n \in Totals : PostInsert(j, n)) => out'.kind = "none"
    BY DEF PostInsert, NoAnswer
  <2>3. Result(j) => out'.kind = "result"
    BY DEF Result, Answer
  <2>4. Query(j) => out'.kind = "query"
    BY DEF Query, Answer
  <2>5. Search(j) => out'.kind = "search"
    BY DEF Search, Answer
  <2> QED
    BY <1>3, <2>1, <2>2, <2>3, <2>4, <2>5
<1>4. CASE PostRejected \/ PostStartFails \/ PostAnswer \/ ProgressRaises
           \/ ListJobs \/ Cancel
  <2>1. out'.kind # "progress"
    BY <1>4 DEF PostRejected, PostStartFails, PostAnswer, ProgressRaises,
                ListJobs, Cancel, Crash, Answer
  <2> QED
    BY <2>1, <1>2
<1>5. ASSUME NEW j \in Jobs, WorkerStep(j) \/ IndexReady(j)
      PROVE  out' = out
  BY <1>5 DEF WorkerStep, IndexReady, CbPct, CbArgs, Finish, BuildRaises,
              Report, Spawn, ReportRaises, PrintTraceback, TracebackRaises,
              PublishFailure
<1>6. CASE PostStart \/ ProgressKey \/ UNCHANGED vars
  BY <1>6, <1>2 DEF PostStart, ProgressKey, vars
<1> QED
  BY <1>1, <1>2, <1>3, <1>4, <1>5, <1>6 DEF Next, Request, HandlerStep

-----------------------------------------------------------------------------
(* Order *)

LEMMA InitOrder == Init => Order
<1>1. Absent.done = FALSE /\ Absent.data = FALSE /\ Absent.error = None
  BY DEF Absent, NewJob
<1>2. NoWork.pc = "none"
  BY DEF NoWork
<1> QED
  BY <1>1, <1>2 DEF Init, Order

LEMMA StepOrder == TypeOK /\ Links /\ Order /\ [Next]_vars => Order'
<1> SUFFICES ASSUME TypeOK, Links, Order, [Next]_vars PROVE Order'
  OBVIOUS
<1>1. ASSUME NEW j \in Jobs, NEW n \in Totals,
                PostInsert(j, n)
      PROVE  Order'
  BY <1>1 DEF PostInsert, NewJob, Order, TypeOK, Links, JobRecord, WorkerRecord
<1>2. CASE PostStart
  BY <1>2 DEF PostStart, HttpRecord, Order, TypeOK, Links, JobRecord, WorkerRecord
<1>3. ASSUME NEW j \in Jobs, CbPct(j)
      PROVE  Order'
  BY <1>3 DEF CbPct, Order, TypeOK, Links, JobRecord, WorkerRecord
<1>4. ASSUME NEW j \in Jobs, CbArgs(j)
      PROVE  Order'
  BY <1>4 DEF CbArgs, WithArgs, Order, TypeOK, Links, JobRecord, WorkerRecord
<1>5. ASSUME NEW j \in Jobs, Finish(j)
      PROVE  Order'
  BY <1>5 DEF Finish, Order, TypeOK, Links, JobRecord, WorkerRecord
<1>6. ASSUME NEW j \in Jobs, NEW e \in Messages,
                BuildRaises(j, e)
      PROVE  Order'
  BY <1>6 DEF BuildRaises, Except, Order, TypeOK, Links, JobRecord, WorkerRecord
<1>7. ASSUME NEW j \in Jobs, Report(j)
      PROVE  Order'
  BY <1>7 DEF Report, Order, TypeOK, Links, JobRecord, WorkerRecord
<1>8. ASSUME NEW j \in Jobs, Spawn(j)
      PROVE  Order'
  BY <1>8 DEF Spawn, Order, TypeOK, Links, JobRecord, WorkerRecord
<1>9. ASSUME NEW j \in Jobs, ReportRaises(j)
      PROVE  Order'
  BY <1>9, FaultsAssumption DEF ReportRaises, Except, MayRetract, Order, TypeOK, Links, JobRecord, WorkerRecord
<1>10. ASSUME NEW j \in Jobs, PrintTraceback(j)
      PROVE  Order'
  BY <1>10 DEF PrintTraceback, Order, TypeOK, Links, JobRecord, WorkerRecord
<1>11. ASSUME NEW j \in Jobs, TracebackRaises(j)
      PROVE  Order'
  BY <1>11 DEF TracebackRaises, Order, TypeOK, Links, JobRecord, WorkerRecord
<1>12. ASSUME NEW j \in Jobs, PublishFailure(j)
      PROVE  Order'
  BY <1>12 DEF PublishFailure, Order, TypeOK, Links, JobRecord, WorkerRecord
<1>13. ASSUME NEW j \in Jobs, IndexReady(j)
      PROVE  Order'
  BY <1>13 DEF IndexReady, Order, TypeOK, Links, JobRecord, WorkerRecord
<1>14. CASE UNCHANGED <<jobs, worker>>
  BY <1>14 DEF Order
<1> QED
  BY <1>1, <1>2, <1>3, <1>4, <1>5, <1>6, <1>7, <1>8, <1>9, <1>10, <1>11, <1>12, <1>13, <1>14
     DEF Next, Request, HandlerStep, WorkerStep, vars, PostRejected, PostStartFails, PostAnswer, ProgressBegin, ProgressKey, ProgressRaises, ProgressAnswer, Result, Query, Search, ListJobs, Cancel

-----------------------------------------------------------------------------
(* Whole *)

LEMMA InitWhole == Init => Whole
<1>1. NoWork.pc = "none" /\ NoWork.k = 1 /\ Absent.in = FALSE
  BY DEF NoWork, Absent, NewJob
<1> QED
  BY <1>1 DEF Init, Whole, WholeJob

\* An end, an index or a failure leaves the dictionary whole.
LEMMA VerdictIsWhole ==
    ASSUME NEW r \in JobRecord, NEW n \in Nat, NEW e \in Errors \ {None},
           IsWhole(r, n)
    PROVE  /\ r.error = None =>
                IsWhole([r EXCEPT !.pct = 100, !.done = TRUE, !.data = TRUE,
                                  !.stats = TRUE], n)
           /\ r.done => IsWhole([r EXCEPT !.extra = 3], n)
           /\ IsWhole([r EXCEPT !.done = TRUE, !.error = e, !.pct = 0], n)
<1>1. r.done => r # NewJob
  BY DEF NewJob
<1> QED
  BY <1>1 DEF IsWhole, JobRecord

\* A step of job j leaves the others as they were.
LEMMA OthersWhole ==
    ASSUME Whole, NEW j \in Jobs, WholeJob(j)',
           \A i \in Jobs \ {j} :
              /\ jobs'[i] = jobs[i] /\ worker'[i] = worker[i]
              /\ indexer'[i] = indexer[i]
              /\ worker[i].pc = "args" => lock' = lock
    PROVE  Whole'
BY DEF Whole, WholeJob

LEMMA StepWhole ==
    ASSUME TypeOK, Links, Order, Whole, [Next]_vars
    PROVE  Whole'
<1>1. ASSUME NEW j \in Jobs, NEW n \in Totals, PostInsert(j, n)
      PROVE  Whole'
  <2>1. IsWhole(NewJob, n)
    BY DEF IsWhole, NewJob
  <2>2. jobs'[j] = NewJob /\ worker'[j].total = n /\ worker'[j].k = worker[j].k
        /\ worker'[j].pc = worker[j].pc /\ worker[j].pc = "none"
    BY <1>1 DEF PostInsert, TypeOK, Links, WorkerRecord, WorkerPc
  <2>3. \A i \in Jobs \ {j} : jobs'[i] = jobs[i] /\ worker'[i] = worker[i]
    BY <1>1 DEF PostInsert, TypeOK
  <2>4. UNCHANGED <<lock, indexer>> /\ indexer[j] # "walk"
    BY <1>1 DEF PostInsert, Whole, WholeJob
  <2> QED
    BY <2>1, <2>2, <2>3, <2>4 DEF Whole, WholeJob
<1>2. CASE PostStart
  BY <1>2 DEF PostStart, HttpRecord, Whole, WholeJob, TypeOK, Links, Order, WorkerRecord
<1>3. ASSUME NEW j \in Jobs, CbPct(j)
      PROVE  Whole'
  <2>1. lock = Free /\ lock' = j /\ worker[j].pc = "call" /\ UNCHANGED indexer
        /\ worker'[j] = [worker[j] EXCEPT !.pc = "args"]
        /\ jobs'[j] = [jobs[j] EXCEPT
                         !.pct = Call(worker[j].total, worker[j].k).pct]
        /\ \A i \in Jobs \ {j} : jobs'[i] = jobs[i] /\ worker'[i] = worker[i]
    BY <1>3 DEF CbPct, Acquire, TypeOK
  <2>2. \A i \in Jobs : worker[i].pc # "args"
    BY <2>1, JobsAssumption DEF Whole, WholeJob, Free
  <2>3. WholeJob(j)'
    <3>1. /\ worker'[j].pc = "args" /\ worker'[j].k = worker[j].k
          /\ worker'[j].total = worker[j].total
      BY <2>1 DEF TypeOK, WorkerRecord
    <3>2. /\ jobs'[j].pct = Call(worker[j].total, worker[j].k).pct
          /\ jobs'[j].total = jobs[j].total /\ jobs'[j].in = jobs[j].in
          /\ jobs'[j].done = jobs[j].done
      BY <2>1 DEF TypeOK, JobRecord
    <3> QED
      BY <2>1, <3>1, <3>2 DEF Whole, WholeJob
  <2> QED
    BY <2>1, <2>2, <2>3, OthersWhole
<1>4. ASSUME NEW j \in Jobs, CbArgs(j)
      PROVE  Whole'
  <2> DEFINE n == worker[j].total
             k == worker[j].k
  <2>1. n \in Nat /\ k \in Nat \ {0} /\ k <= LastCall(n) /\ jobs[j] \in JobRecord
    BY <1>4 DEF CbArgs, TypeOK, Links, WorkerRecord
  <2>2. Len(Before) \in Nat /\ Len(After) \in Nat /\ Batches(n) \in Nat
    BY <2>1, BeforeAssumption, AfterAssumption DEF Batches, Batch
  <2>3. /\ jobs'[j] = WithArgs(jobs[j], n, k)
        /\ worker'[j] = [worker[j] EXCEPT !.pc = "call", !.k = k + 1]
        /\ \A i \in Jobs \ {j} : jobs'[i] = jobs[i] /\ worker'[i] = worker[i]
    BY <1>4 DEF CbArgs, TypeOK
  <2>11. jobs[j].pct = Call(n, k).pct /\ jobs[j].done = FALSE
    BY <1>4 DEF CbArgs, Whole, WholeJob, Order, TypeOK, JobRecord
  <2>4. /\ jobs'[j].pct = Call(n, k).pct /\ jobs'[j].done = FALSE
        /\ jobs'[j].stage = Call(n, k).stage /\ jobs'[j].extra = Call(n, k).extra
        /\ jobs'[j].analyzed = Analyzed(n, k)
        /\ jobs'[j].total = IF Call(n, k).sized THEN n ELSE jobs[j].total
    BY <2>1, <2>3, <2>11 DEF WithArgs, JobRecord
  <2>5. n > 0 /\ k > Len(Before) => jobs'[j].total = n
    <3>1. CASE k > Len(Before) + 1
      BY <1>4, <2>4, <3>1 DEF Whole, WholeJob, CbArgs
    <3>2. CASE k = Len(Before) + 1 /\ n > 0
      <4>1. Batches(n) >= 1
        BY <2>1, <3>2 DEF Batches, Batch
      <4> QED
        BY <2>2, <2>4, <3>2, <4>1 DEF Call, LoopCall
    <3> QED
      BY <2>1, <2>2, <3>1, <3>2
  <2>6. jobs'[j].analyzed <= jobs'[j].total
    <3>1. jobs'[j].total \in Nat
      BY <2>1, <2>4 DEF JobRecord
    <3>2. Analyzed(n, k) \in 0..n /\ (k <= Len(Before) => Analyzed(n, k) = 0)
      BY <2>1, <2>2, AnalyzedType DEF Analyzed
    <3> QED
      BY <2>1, <2>2, <2>4, <2>5, <3>1, <3>2
  <2>7. k \in 1..LastCall(n)
    BY <2>1, <2>2 DEF LastCall
  <2>8. IsWhole(jobs'[j], n)
    BY <2>4, <2>6, <2>7 DEF IsWhole
  <2>9. /\ worker'[j].pc = "call" /\ worker'[j].total = n /\ worker'[j].k = k + 1
        /\ jobs[j].done = FALSE
    BY <1>4, <2>3 DEF CbArgs, TypeOK, WorkerRecord, Order
  <2>10. UNCHANGED indexer /\ \A i \in Jobs \ {j} : worker[i].pc # "args"
    BY <1>4 DEF CbArgs, Whole, WholeJob
  <2>12. indexer[j] # "walk"
    BY <2>11 DEF Whole, WholeJob
  <2>13. WholeJob(j)'
    BY <2>1, <2>2, <2>5, <2>8, <2>9, <2>10, <2>12 DEF WholeJob
  <2> QED
    BY <2>3, <2>10, <2>13, OthersWhole
<1>5. ASSUME NEW j \in Jobs, Finish(j)
      PROVE  Whole'
  <2>1. /\ jobs[j] \in JobRecord /\ worker[j].total \in Nat
        /\ IsWhole(jobs[j], worker[j].total)
    BY <1>5 DEF Finish, Whole, WholeJob, TypeOK, Links, WorkerRecord
  <2>2. /\ jobs[j].error = None /\ jobs[j].in
        /\ jobs'[j] = [jobs[j] EXCEPT !.pct = 100, !.done = TRUE, !.data = TRUE,
                                      !.stats = TRUE]
    BY <1>5 DEF Finish, Order, TypeOK, Links
  <2>3. IsWhole(jobs'[j], worker[j].total)
    <3>1. "text" \in Errors \ {None}
      BY DEF Errors, None
    <3> QED
      BY <2>1, <2>2, <3>1, VerdictIsWhole
  <2>4. jobs'[j].in /\ jobs'[j].done
    BY <2>1, <2>2 DEF JobRecord
  <2>5. WholeJob(j)'
    BY <1>5, <2>3, <2>4 DEF Finish, WholeJob, TypeOK, WorkerRecord
  <2> QED
    BY <1>5, <2>5, OthersWhole DEF Finish, TypeOK
<1>6. ASSUME NEW j \in Jobs, NEW e \in Messages, BuildRaises(j, e)
      PROVE  Whole'
  <2>1. /\ worker'[j] = Except(worker[j], e) /\ worker[j].pc = "call"
        /\ UNCHANGED <<jobs, lock, indexer>> /\ e # None
    BY <1>6, MessagesAssumption DEF BuildRaises, TypeOK, Error, None
  <2>2. /\ worker'[j].pc = "except" /\ worker'[j].error = e
        /\ worker'[j].total = worker[j].total
    BY <2>1 DEF Except, TypeOK, WorkerRecord
  <2>3. WholeJob(j)'
    BY <2>1, <2>2 DEF Whole, WholeJob
  <2> QED
    BY <1>6, <2>3, OthersWhole DEF BuildRaises, TypeOK
<1>7. ASSUME NEW j \in Jobs, Report(j)
      PROVE  Whole'
  <2>1. WholeJob(j)'
    BY <1>7 DEF Report, Whole, WholeJob, TypeOK, Links, Order, WorkerRecord
  <2> QED
    BY <1>7, <2>1, OthersWhole DEF Report, TypeOK
<1>8. ASSUME NEW j \in Jobs, Spawn(j)
      PROVE  Whole'
  <2>1. WholeJob(j)'
    BY <1>8 DEF Spawn, Whole, WholeJob, TypeOK, Links, Order, WorkerRecord
  <2> QED
    BY <1>8, <2>1, OthersWhole DEF Spawn, TypeOK
<1>9. ASSUME NEW j \in Jobs, ReportRaises(j)
      PROVE  Whole'
  <2>1. WholeJob(j)'
    BY <1>9 DEF ReportRaises, Except, None, Whole, WholeJob, TypeOK, Links, Order, WorkerRecord
  <2> QED
    BY <1>9, <2>1, OthersWhole DEF ReportRaises, TypeOK
<1>10. ASSUME NEW j \in Jobs, PrintTraceback(j)
      PROVE  Whole'
  <2>1. WholeJob(j)'
    BY <1>10 DEF PrintTraceback, Whole, WholeJob, TypeOK, Links, Order, WorkerRecord
  <2> QED
    BY <1>10, <2>1, OthersWhole DEF PrintTraceback, TypeOK
<1>11. ASSUME NEW j \in Jobs, TracebackRaises(j)
      PROVE  Whole'
  <2>1. WholeJob(j)'
    BY <1>11 DEF TracebackRaises, Whole, WholeJob, TypeOK, Links, Order, WorkerRecord
  <2> QED
    BY <1>11, <2>1, OthersWhole DEF TracebackRaises, TypeOK
<1>12. ASSUME NEW j \in Jobs, PublishFailure(j)
      PROVE  Whole'
  <2>1. /\ jobs[j] \in JobRecord /\ worker[j].total \in Nat
        /\ IsWhole(jobs[j], worker[j].total)
    BY <1>12 DEF PublishFailure, Whole, WholeJob, TypeOK, Links, WorkerRecord
  <2>2. /\ worker[j].error \in Errors \ {None} /\ jobs[j].in
        /\ jobs'[j] = [jobs[j] EXCEPT !.done = TRUE, !.error = worker[j].error,
                                      !.pct = 0]
    BY <1>12 DEF PublishFailure, Whole, WholeJob, TypeOK, Links, WorkerRecord
  <2>3. IsWhole(jobs'[j], worker[j].total)
    BY <2>1, <2>2, VerdictIsWhole
  <2>4. jobs'[j].in /\ jobs'[j].done
    BY <2>1, <2>2 DEF JobRecord
  <2>5. WholeJob(j)'
    BY <1>12, <2>3, <2>4 DEF PublishFailure, WholeJob, TypeOK, WorkerRecord
  <2> QED
    BY <1>12, <2>5, OthersWhole DEF PublishFailure, TypeOK
<1>13. ASSUME NEW j \in Jobs, IndexReady(j)
      PROVE  Whole'
  <2>1. /\ jobs[j].in /\ jobs[j].done /\ jobs[j] \in JobRecord
        /\ worker[j].pc # "args" /\ worker[j].total \in Nat
        /\ jobs'[j] = [jobs[j] EXCEPT !.extra = 3]
    BY <1>13 DEF IndexReady, Whole, WholeJob, Order, TypeOK, WorkerRecord
  <2>2. IsWhole(jobs[j], worker[j].total)
    BY <2>1 DEF Whole, WholeJob
  <2>3. "text" \in Errors \ {None}
    BY DEF Errors, None
  <2>4. IsWhole(jobs'[j], worker[j].total)
    BY <2>1, <2>2, <2>3, VerdictIsWhole
  <2>5. jobs'[j].total = jobs[j].total /\ jobs'[j].in /\ jobs'[j].done
    BY <2>1 DEF JobRecord
  <2>6. WholeJob(j)'
    BY <1>13, <2>1, <2>4, <2>5 DEF IndexReady, Whole, WholeJob, TypeOK
  <2> QED
    BY <1>13, <2>6, OthersWhole DEF IndexReady, TypeOK
<1>14. CASE UNCHANGED <<jobs, worker, lock, indexer>>
  BY <1>14 DEF Whole, WholeJob
<1> QED
  BY <1>1, <1>2, <1>3, <1>4, <1>5, <1>6, <1>7, <1>8, <1>9, <1>10, <1>11, <1>12, <1>13, <1>14
     DEF Next, Request, HandlerStep, WorkerStep, vars, PostRejected, PostStartFails, PostAnswer, ProgressBegin, ProgressKey, ProgressRaises, ProgressAnswer, Result, Query, Search, ListJobs, Cancel

\* A listing is made of whole dictionaries, and stays what it was.
LEMMA StepListed ==
    ASSUME TypeOK, Links, Whole, ListIsWhole, [Next]_vars
    PROVE  ListIsWhole'
<1>1. CASE ListJobs
  <2>1. \A j \in Jobs : worker[j].pc # "args"
    BY <1>1, JobsAssumption DEF ListJobs, Whole, WholeJob, Free
  <2>2. out' = [kind |-> "jobs", body |-> jobs] /\ UNCHANGED worker
    BY <1>1 DEF ListJobs, Answer
  <2> QED
    BY <2>1, <2>2 DEF ListIsWhole, Whole, WholeJob
<1>2. CASE out'.kind # "jobs"
  BY <1>2 DEF ListIsWhole
<1>3. ASSUME UNCHANGED out, \A j \in Jobs : worker'[j].total = worker[j].total
      PROVE  ListIsWhole'
  BY <1>3 DEF ListIsWhole
<1>4. ASSUME NEW j \in Jobs, WorkerStep(j)
      PROVE  UNCHANGED out /\ \A i \in Jobs : worker'[i].total = worker[i].total
  <2>1. UNCHANGED out
    BY <1>4 DEF WorkerStep, CbPct, CbArgs, Finish, BuildRaises, Report, Spawn,
       ReportRaises, PrintTraceback, TracebackRaises, PublishFailure
  <2>2. \A i \in Jobs \ {j} : worker'[i] = worker[i]
    BY <1>4 DEF WorkerStep, CbPct, CbArgs, Finish, BuildRaises, Report, Spawn,
       ReportRaises, PrintTraceback, TracebackRaises, PublishFailure, TypeOK
  <2>3. ASSUME CbPct(j) \/ CbArgs(j) \/ Finish(j)
        PROVE  worker'[j].total = worker[j].total
    BY <2>3 DEF CbPct, CbArgs, Finish, TypeOK, WorkerRecord
  <2>4. ASSUME Report(j) \/ Spawn(j) \/ PrintTraceback(j) \/ TracebackRaises(j)
               \/ PublishFailure(j)
        PROVE  worker'[j].total = worker[j].total
    BY <2>4 DEF Report, Spawn, PrintTraceback, TracebackRaises, PublishFailure,
       TypeOK, WorkerRecord
  <2>5. ASSUME ReportRaises(j) \/ \E e \in Messages : BuildRaises(j, e)
        PROVE  worker'[j].total = worker[j].total
    <3>1. ASSUME NEW e, worker'[j] = Except(worker[j], e)
          PROVE  worker'[j].total = worker[j].total
      BY <3>1 DEF Except, TypeOK, WorkerRecord
    <3> QED
      BY <2>5, <3>1 DEF ReportRaises, BuildRaises, TypeOK
  <2>6. worker'[j].total = worker[j].total
    BY <1>4, <2>3, <2>4, <2>5 DEF WorkerStep
  <2> QED
    BY <2>1, <2>2, <2>6
<1>5. CASE \/ PostRejected \/ PostStartFails \/ PostAnswer \/ ProgressRaises
           \/ ProgressAnswer \/ Cancel
           \/ \E j \in Jobs : \E n \in Totals : PostInsert(j, n)
           \/ \E j \in Jobs : ProgressBegin(j) \/ Result(j) \/ Query(j) \/ Search(j)
  <2>1. CASE PostRejected \/ PostStartFails \/ PostAnswer \/ ProgressRaises
             \/ ProgressAnswer \/ Cancel
    <3>1. out'.kind \in {"rejected", "lost", "accepted", "progress", "cancelled"}
      BY <2>1 DEF PostRejected, PostStartFails, PostAnswer, ProgressRaises,
         ProgressAnswer, Cancel, Answer, Crash
    <3> QED
      BY <1>2, <3>1
  <2>2. CASE \E j \in Jobs : \E n \in Totals : PostInsert(j, n)
    BY <1>2, <2>2 DEF PostInsert, NoAnswer
  <2>3. CASE \E j \in Jobs : ProgressBegin(j)
    BY <1>2, <2>3 DEF ProgressBegin, Answer, NoAnswer
  <2>4. CASE \E j \in Jobs : Result(j) \/ Query(j) \/ Search(j)
    <3>1. out'.kind \in {"result", "query", "search"}
      BY <2>4 DEF Result, Query, Search, Answer
    <3> QED
      BY <1>2, <3>1
  <2> QED
    BY <1>5, <2>1, <2>2, <2>3, <2>4
<1>6. CASE \E j \in Jobs : WorkerStep(j)
  BY <1>3, <1>4, <1>6
<1>7. CASE PostStart
  BY <1>3, <1>7 DEF PostStart, TypeOK, WorkerRecord
<1>8. CASE UNCHANGED <<out, worker>>
  BY <1>3, <1>8
<1> QED
  BY <1>1, <1>7, <1>8, <1>5, <1>6
     DEF Next, Request, HandlerStep, vars, ProgressKey, IndexReady

-----------------------------------------------------------------------------
(* Staged *)

\* The callbacks of build_graph ascend the stages, whatever the files.
LEMMA CallStage ==
    ASSUME NEW n \in Nat, NEW i \in Nat \ {0}, NEW k \in Nat \ {0},
           i <= k, k <= LastCall(n)
    PROVE  Call(n, i).stage <= Call(n, k).stage
<1> DEFINE b == Len(Before)
           m == Batches(n)
<1>1. b \in Nat /\ m \in Nat /\ Len(After) \in Nat
  BY BeforeAssumption, AfterAssumption DEF Batches, Batch
<1>2. /\ \A x \in 1..b : Before[x].stage \in 1..3
      /\ \A x \in 1..Len(After) : After[x].stage \in 3..6
      /\ \A x, y \in 1..b : x <= y => Before[x].stage <= Before[y].stage
      /\ \A x, y \in 1..Len(After) : x <= y => After[x].stage <= After[y].stage
  <2>1. \A x \in 1..b : Before[x] \in Callback
    BY BeforeAssumption
  <2>2. \A x \in 1..Len(After) : After[x] \in Callback
    BY AfterAssumption
  <2> QED
    BY <2>1, <2>2, StagesAssumption DEF Ascending, Callback
<1>3. ASSUME NEW x \in Nat \ {0}, x <= b
      PROVE  Call(n, x) = Before[x]
  BY <1>3 DEF Call
<1>4. ASSUME NEW x \in Nat, x > b, x <= b + m
      PROVE  Call(n, x).stage = 3
  BY <1>1, <1>4 DEF Call, LoopCall
<1>5. ASSUME NEW x \in Nat, x > b + m, x <= LastCall(n)
      PROVE  Call(n, x) = After[x - b - m] /\ x - b - m \in 1..Len(After)
  BY <1>1, <1>5 DEF Call, LastCall
<1> HIDE DEF b, m
<1>6. CASE k <= b
  BY <1>1, <1>2, <1>3, <1>6
<1>7. CASE k > b /\ k <= b + m
  <2>1. Call(n, k).stage = 3
    BY <1>4, <1>7
  <2>2. Call(n, i).stage <= 3
    <3>1. CASE i <= b
      BY <1>1, <1>2, <1>3, <3>1
    <3>2. CASE i > b
      BY <1>1, <1>4, <1>7, <3>2
    <3> QED
      BY <1>1, <3>1, <3>2
  <2> QED
    BY <2>1, <2>2
<1>8. CASE k > b + m
  <2>1. Call(n, k) = After[k - b - m] /\ k - b - m \in 1..Len(After)
    BY <1>5, <1>8
  <2>2. CASE i > b + m
    <3>1. Call(n, i) = After[i - b - m] /\ i - b - m \in 1..Len(After)
      <4>1. i <= LastCall(n)
        BY <1>1 DEF LastCall, b, m
      <4> QED
        BY <1>5, <2>2, <4>1
    <3>2. i - b - m <= k - b - m
      BY <1>1
    <3> QED
      BY <1>2, <2>1, <3>1, <3>2
  <2>3. CASE i <= b + m
    <3>1. Call(n, i).stage <= 3
      <4>1. CASE i <= b
        BY <1>1, <1>2, <1>3, <4>1
      <4>2. CASE i > b
        BY <1>1, <1>4, <2>3, <4>2
      <4> QED
        BY <1>1, <4>1, <4>2
    <3>2. Call(n, i).stage \in Int /\ Call(n, k).stage \in 3..6
      <4>1. i <= LastCall(n)
        BY <1>1 DEF LastCall, b, m
      <4>2. Call(n, i).stage \in 1..6
        BY <4>1, CallType DEF Callback
      <4> QED
        BY <1>2, <2>1, <4>2
    <3> QED
      BY <3>1, <3>2
  <2> QED
    BY <1>1, <2>2, <2>3
<1> QED
  BY <1>1, <1>6, <1>7, <1>8

LEMMA InitStaged == Init => Staged
<1>1. Absent.stage = 1 /\ ~Absent.in
  BY DEF Absent, NewJob
<1> QED
  BY <1>1 DEF Init, Staged, StagedJob, StagedCopy, Idle

\* A step of job j's threads leaves the others, the handler and what was shown.
LEMMA OthersStaged ==
    ASSUME TypeOK, Links, Staged, NEW j \in Jobs, StagedJob(j)',
           jobs[j].in => jobs[j].stage <= jobs'[j].stage,
           jobs'[j].stage \in 1..6,
           \A i \in Jobs \ {j} : jobs'[i] = jobs[i] /\ worker'[i] = worker[i],
           UNCHANGED <<http, shown>>
    PROVE  Staged'
<1>1. \A i \in Jobs : StagedJob(i)'
  BY DEF Staged, StagedJob
<1>2. StagedCopy'
  <2> SUFFICES ASSUME http.pc = "copy", http.at > 5
               PROVE  /\ shown[http.job] <= http.copy.stage
                      /\ http.copy.stage <= jobs'[http.job].stage
    BY DEF StagedCopy
  <2>1. /\ http.job \in Jobs /\ jobs[http.job].in
        /\ shown[http.job] <= http.copy.stage
        /\ http.copy.stage <= jobs[http.job].stage
    BY DEF Links, Staged, StagedCopy
  <2>2. http.copy.stage \in 1..6 /\ jobs[http.job].stage \in 1..6
    BY <2>1 DEF TypeOK, HttpRecord, CopyRecord, JobRecord
  <2>3. jobs[http.job].stage <= jobs'[http.job].stage
    BY <2>1, <2>2
  <2>4. jobs'[http.job].stage \in 1..6
    BY <2>1, <2>2
  <2> QED
    BY <2>1, <2>2, <2>3, <2>4
<1> QED
  BY <1>1, <1>2 DEF Staged

LEMMA StepStaged ==
    ASSUME TypeOK, Links, Staged, [Next]_vars
    PROVE  Staged'
<1>1. ASSUME NEW j \in Jobs, NEW n \in Totals, PostInsert(j, n)
      PROVE  Staged'
  <2>1. /\ jobs'[j] = NewJob /\ ~jobs[j].in /\ shown[j] = 0
        /\ worker'[j] = [worker[j] EXCEPT !.total = n]
        /\ \A i \in Jobs \ {j} : jobs'[i] = jobs[i] /\ worker'[i] = worker[i]
        /\ UNCHANGED shown /\ http'.pc = "start"
    BY <1>1 DEF PostInsert, Staged, StagedJob, TypeOK, Idle
  <2>2. worker'[j].k \in Nat \ {0} /\ worker'[j].total \in Nat
    BY <2>1, TotalsAssumption DEF TypeOK, WorkerRecord
  <2>3. worker'[j].k <= LastCall(worker'[j].total) =>
           Call(worker'[j].total, worker'[j].k).stage \in 1..6
    BY <2>2, CallType DEF Callback
  <2>4. NewJob.stage = 1 /\ NewJob.in
    BY DEF NewJob
  <2>5. StagedJob(j)'
    BY <2>1, <2>3, <2>4 DEF StagedJob
  <2>6. \A i \in Jobs : StagedJob(i)'
    BY <2>1, <2>5 DEF Staged, StagedJob
  <2> QED
    BY <2>1, <2>6 DEF Staged, StagedCopy
<1>2. ASSUME NEW j \in Jobs, CbArgs(j)
      PROVE  Staged'
  <2> DEFINE n == worker[j].total
             k == worker[j].k
  <2>1. /\ n \in Nat /\ k \in Nat \ {0} /\ k <= LastCall(n) /\ jobs[j].in
        /\ worker[j].pc = "args" /\ UNCHANGED <<http, shown>>
        /\ shown[j] <= jobs[j].stage
        /\ jobs[j].stage <= Call(n, k).stage
        /\ \A i \in Jobs \ {j} : jobs'[i] = jobs[i] /\ worker'[i] = worker[i]
    BY <1>2 DEF CbArgs, Links, Staged, StagedJob, TypeOK, WorkerRecord
  <2>2. jobs[j].stage \in 1..6 /\ Call(n, k).stage \in 1..6 /\ shown[j] \in 0..6
    BY <2>1, CallType DEF Callback, TypeOK, JobRecord
  <2>3. jobs'[j].stage = Call(n, k).stage /\ jobs'[j].in
    BY <1>2, <2>1 DEF CbArgs, WithArgs, TypeOK, JobRecord
  <2>4. worker'[j].total = n /\ worker'[j].k = k + 1
    BY <1>2 DEF CbArgs, TypeOK, WorkerRecord
  <2>5. k + 1 <= LastCall(n) => Call(n, k).stage <= Call(n, k + 1).stage
    <3>1. k + 1 \in Nat \ {0} /\ k <= k + 1
      BY <2>1
    <3> QED
      BY <2>1, <3>1, CallStage
  <2> HIDE DEF n, k
  <2>6. StagedJob(j)'
    BY <2>1, <2>2, <2>3, <2>4, <2>5 DEF StagedJob
  <2> QED
    BY <2>1, <2>2, <2>3, <2>6, OthersStaged
<1>3. ASSUME NEW j \in Jobs, UNCHANGED <<http, shown>>,
             \A i \in Jobs \ {j} : jobs'[i] = jobs[i] /\ worker'[i] = worker[i],
             jobs'[j].in = jobs[j].in, jobs'[j].stage = jobs[j].stage,
             worker'[j].k = worker[j].k, worker'[j].total = worker[j].total,
             worker'[j].pc \in {"none", "call", "args"} =>
                worker[j].pc \in {"none", "call", "args"}
      PROVE  Staged'
  <2>1. StagedJob(j)'
    BY <1>3 DEF Staged, StagedJob
  <2>2. jobs[j].stage \in 1..6
    BY DEF TypeOK, JobRecord
  <2> QED
    BY <1>3, <2>1, <2>2, OthersStaged
<1>4. ASSUME NEW j \in Jobs, CbPct(j)
      PROVE  Staged'
  <2>1. UNCHANGED <<http, shown>>
    BY <1>4 DEF CbPct
  <2>2. \A i \in Jobs \ {j} : jobs'[i] = jobs[i] /\ worker'[i] = worker[i]
    BY <1>4 DEF CbPct, TypeOK
  <2>3. jobs'[j].in = jobs[j].in /\ jobs'[j].stage = jobs[j].stage
    BY <1>4 DEF CbPct, TypeOK, JobRecord
  <2>4. /\ worker'[j].k = worker[j].k /\ worker'[j].total = worker[j].total
        /\ worker[j].pc = "call"
    BY <1>4 DEF CbPct, TypeOK, WorkerRecord
  <2> QED
    BY <1>3, <2>1, <2>2, <2>3, <2>4
<1>5. ASSUME NEW j \in Jobs,
             Finish(j) \/ PublishFailure(j) \/ IndexReady(j)
      PROVE  Staged'
  <2>1. UNCHANGED <<http, shown>>
    BY <1>5 DEF Finish, PublishFailure, IndexReady
  <2>2. \A i \in Jobs \ {j} : jobs'[i] = jobs[i] /\ worker'[i] = worker[i]
    BY <1>5 DEF Finish, PublishFailure, IndexReady, TypeOK
  <2>3. jobs'[j].in = jobs[j].in /\ jobs'[j].stage = jobs[j].stage
    <3>1. CASE Finish(j)
      BY <3>1 DEF Finish, TypeOK, JobRecord
    <3>2. CASE PublishFailure(j)
      BY <3>2 DEF PublishFailure, TypeOK, JobRecord
    <3>3. CASE IndexReady(j)
      BY <3>3 DEF IndexReady, TypeOK, JobRecord
    <3> QED
      BY <1>5, <3>1, <3>2, <3>3
  <2>4. /\ worker'[j].k = worker[j].k /\ worker'[j].total = worker[j].total
        /\ worker'[j].pc \in {worker[j].pc, "report", "end"}
    BY <1>5 DEF Finish, PublishFailure, IndexReady, TypeOK, WorkerRecord
  <2> QED
    BY <1>3, <2>1, <2>2, <2>3, <2>4
<1>6. ASSUME NEW j \in Jobs,
             \/ Report(j) \/ Spawn(j) \/ ReportRaises(j)
             \/ PrintTraceback(j) \/ TracebackRaises(j)
             \/ \E e \in Messages : BuildRaises(j, e)
      PROVE  Staged'
  <2>1. UNCHANGED <<http, shown, jobs>>
    BY <1>6 DEF Report, Spawn, ReportRaises, PrintTraceback, TracebackRaises,
       BuildRaises
  <2>2. \A i \in Jobs \ {j} : worker'[i] = worker[i]
    BY <1>6 DEF Report, Spawn, ReportRaises, PrintTraceback, TracebackRaises,
       BuildRaises, TypeOK
  <2>3. /\ worker'[j].k = worker[j].k /\ worker'[j].total = worker[j].total
        /\ worker'[j].pc \notin {"none", "call", "args"}
    <3>1. ASSUME NEW e, worker'[j] = Except(worker[j], e)
          PROVE  /\ worker'[j].k = worker[j].k
                 /\ worker'[j].total = worker[j].total
                 /\ worker'[j].pc = "except"
      BY <3>1 DEF Except, TypeOK, WorkerRecord
    <3>2. CASE Report(j) \/ Spawn(j) \/ PrintTraceback(j) \/ TracebackRaises(j)
      BY <3>2 DEF Report, Spawn, PrintTraceback, TracebackRaises, TypeOK,
         WorkerRecord
    <3>3. CASE ReportRaises(j) \/ \E e \in Messages : BuildRaises(j, e)
      BY <3>1, <3>3 DEF ReportRaises, BuildRaises, TypeOK
    <3> QED
      BY <1>6, <3>2, <3>3
  <2> QED
    BY <1>3, <2>1, <2>2, <2>3
<1>7. CASE PostStart
  <2>1. http.job \in Jobs /\ worker[http.job].pc = "none" /\ http'.pc = "print"
    BY <1>7 DEF PostStart, Links, TypeOK, HttpRecord
  <2>2. \A i \in Jobs : /\ worker'[i].k = worker[i].k
                        /\ worker'[i].total = worker[i].total
                        /\ worker'[i].pc \in {"none", "call", "args"} =>
                              worker[i].pc \in {"none", "call", "args"}
    BY <1>7, <2>1 DEF PostStart, TypeOK, WorkerRecord
  <2>3. UNCHANGED <<jobs, shown>>
    BY <1>7 DEF PostStart
  <2> QED
    BY <2>1, <2>2, <2>3 DEF Staged, StagedJob, StagedCopy
<1>8. CASE ProgressKey
  <2>1. UNCHANGED <<jobs, worker, shown>> /\ http.pc = "copy" /\ http.at \in 1..7
    BY <1>8, KeysLen DEF ProgressKey, TypeOK, HttpRecord
  <2>2. \A j \in Jobs : StagedJob(j)'
    BY <2>1 DEF Staged, StagedJob
  <2>3. /\ http'.pc = "copy" /\ http'.job = http.job /\ http'.at = http.at + 1
        /\ http.job \in Jobs
        /\ http.at = 5 => http'.copy.stage = jobs[http.job].stage
        /\ http.at > 5 => http'.copy.stage = http.copy.stage
    BY <1>8, <2>1 DEF ProgressKey, TypeOK, HttpRecord, CopyRecord, Keys, Links
  <2>4. shown[http.job] <= jobs[http.job].stage /\ jobs[http.job].stage \in 1..6
    BY <2>3 DEF Staged, StagedJob, TypeOK, JobRecord
  <2>5. StagedCopy'
    BY <2>1, <2>3, <2>4 DEF Staged, StagedCopy
  <2> QED
    BY <2>2, <2>5 DEF Staged
<1>9. CASE ProgressAnswer
  <2>1. /\ http.pc = "copy" /\ http.at > 5 /\ http.job \in Jobs
        /\ jobs[http.job].in /\ UNCHANGED <<jobs, worker>> /\ http' = Idle
        /\ shown' = [shown EXCEPT ![http.job] = http.copy.stage]
    BY <1>9, KeysLen DEF ProgressAnswer, Answer, TypeOK, HttpRecord, Links
  <2>2. http.copy.stage <= jobs[http.job].stage
    BY <2>1 DEF Staged, StagedCopy
  <2>3. \A j \in Jobs : StagedJob(j)'
    BY <2>1, <2>2 DEF Staged, StagedJob, TypeOK
  <2> QED
    BY <2>1, <2>3 DEF Staged, StagedCopy, Idle
<1>10. ASSUME UNCHANGED <<jobs, worker, shown>>,
              http' = http \/ http'.pc = "idle" \/ http'.at = 1
       PROVE  Staged'
  BY <1>10 DEF Staged, StagedJob, StagedCopy
<1>11. Idle.pc = "idle" /\ Idle.at = 1
  BY DEF Idle
<1>12. CASE \/ PostRejected \/ PostStartFails \/ PostAnswer \/ ProgressRaises
            \/ ListJobs \/ Cancel \/ UNCHANGED vars
            \/ \E j \in Jobs : Result(j) \/ Query(j) \/ Search(j)
  BY <1>10, <1>11, <1>12
     DEF PostRejected, PostStartFails, PostAnswer, ProgressRaises, ListJobs,
         Cancel, vars, Result, Query, Search, Answer, Crash
<1>13. ASSUME NEW j \in Jobs, ProgressBegin(j)
       PROVE  Staged'
  BY <1>10, <1>11, <1>13, IdleType DEF ProgressBegin, Answer, HttpRecord
<1> QED
  BY <1>1, <1>2, <1>4, <1>5, <1>6, <1>7, <1>8, <1>9, <1>12, <1>13
     DEF Next, Request, HandlerStep, WorkerStep

-----------------------------------------------------------------------------
(* Theorems *)

\* JOBS, the threads and the handler's copy always have the shape the code
\* gives them, for every callback list, every fault and every message.
THEOREM TypeCorrect == Spec => []TypeOK
<1>1. Init => TypeOK /\ Links
  BY InitType, InitLinks
<1>2. TypeOK /\ Links /\ [Next]_vars => (TypeOK /\ Links)'
  BY StepType, StepLinks
<1> QED
  BY <1>1, <1>2, PTL DEF Spec

\* A job that a torn /progress copy has declared finished is served by every later
\* /result, unless it cannot be rendered, and by every later graph query; only an
\* exception without a message is mistaken for an end with a graph.
THEOREM ToldServed == Spec => []ToldIsServed
<1> DEFINE IInv == TypeOK /\ Links /\ Order /\ Published /\ ToldIsServed
<1>1. Init => IInv
  BY InitType, InitLinks, InitOrder, InitPublished DEF Init, ToldIsServed
<1>2. IInv /\ [Next]_vars => IInv'
  BY StepType, StepLinks, StepOrder, StepPublished, StepServed
<1> QED
  BY <1>1, <1>2, PTL DEF Spec

\* Every answer that declares a job done, and has no error, carries the statistics.
THEOREM StatsCarried == Spec => []DoneCarriesStats
<1> DEFINE IInv == TypeOK /\ Links /\ Order /\ Published /\ DoneCarriesStats
<1>1. Init => IInv
  BY InitType, InitLinks, InitOrder, InitPublished DEF Init, DoneCarriesStats, NoAnswer
<1>2. IInv /\ [Next]_vars => IInv'
  BY StepType, StepLinks, StepOrder, StepPublished, StepStats
<1> QED
  BY <1>1, <1>2, PTL DEF Spec

\* A verdict is final under all faults: a job that is done stays as it is, except
\* that a worker whose report raised records an error over it (_run_job).
THEOREM VerdictFinal == Spec => VerdictIsFinal
<1> DEFINE IInv == TypeOK /\ Links /\ Order
           Final == \A j \in Jobs : jobs[j].in /\ jobs[j].done =>
                       Kept(j) \/ Retracted(j)
<1>1. Init => IInv
  BY InitType, InitLinks, InitOrder
<1>2. IInv /\ [Next]_vars => IInv'
  BY StepType, StepLinks, StepOrder
<1>3. ASSUME IInv, [Next]_vars PROVE Final
  <2>1. CASE UNCHANGED jobs
    BY <1>3, <2>1 DEF TypeOK, JobRecord, Kept
  <2>2. ASSUME NEW j \in Jobs, \/ CbPct(j) \/ CbArgs(j) \/ Finish(j)
                              \/ \E n \in Totals : PostInsert(j, n)
        PROVE  /\ ~jobs[j].in \/ ~jobs[j].done
               /\ \A i \in Jobs \ {j} : jobs'[i] = jobs[i]
    BY <1>3, <2>2 DEF CbPct, CbArgs, Finish, PostInsert, Order, TypeOK
  <2>3. ASSUME NEW j \in Jobs, IndexReady(j) PROVE Final
    BY <1>3, <2>3 DEF IndexReady, TypeOK, JobRecord, Kept
  <2>4. ASSUME NEW j \in Jobs,
               /\ ~jobs[j].in \/ ~jobs[j].done
               /\ \A i \in Jobs \ {j} : jobs'[i] = jobs[i]
        PROVE  Final
    BY <1>3, <2>4 DEF TypeOK, JobRecord, Kept
  <2>5. ASSUME NEW j \in Jobs, PublishFailure(j) PROVE Final
    <3>1. \A i \in Jobs \ {j} : jobs'[i] = jobs[i]
      BY <1>3, <2>5 DEF PublishFailure, TypeOK
    <3>2. \A i \in Jobs \ {j} : Kept(i)
      BY <1>3, <3>1 DEF TypeOK, JobRecord, Kept
    <3>3. jobs[j].done => jobs[j].error = None
      BY <1>3, <2>5 DEF PublishFailure, Order
    <3>4. jobs[j].done => Retracted(j)
      BY <1>3, <2>5, <3>3 DEF PublishFailure, Retracted, TypeOK, JobRecord
    <3> QED
      BY <3>2, <3>4
  <2> HIDE DEF Final
  <2> QED
    BY <1>3, <2>1, <2>2, <2>3, <2>4, <2>5
       DEF Next, Request, HandlerStep, WorkerStep, vars, PostRejected,
           PostStart, PostStartFails, PostAnswer, BuildRaises, Report, Spawn,
           ReportRaises, PrintTraceback, TracebackRaises, ProgressBegin,
           ProgressKey, ProgressRaises, ProgressAnswer, Result, Query, Search,
           ListJobs, Cancel
<1> QED
  BY <1>1, <1>2, <1>3, PTL DEF Spec, VerdictIsFinal

\* A listing never shows half of a callback, for any callbacks, files and faults.
THEOREM ListWhole == Spec => []ListIsWhole
<1> DEFINE IInv == TypeOK /\ Links /\ Order /\ Whole /\ ListIsWhole
<1>1. Init => IInv
  BY InitType, InitLinks, InitOrder, InitWhole DEF Init, ListIsWhole, NoAnswer
<1>2. IInv /\ [Next]_vars => IInv'
  BY StepType, StepLinks, StepOrder, StepWhole, StepListed
<1> QED
  BY <1>1, <1>2, PTL DEF Spec

\* A client never sees a job go back a stage, although each answer is a torn copy
\* of what the callbacks write meanwhile.
THEOREM StagesClimb == Spec => StageNeverRegresses
<1> DEFINE IInv == TypeOK /\ Links /\ Staged
           Climb == \A j \in Jobs : shown'[j] >= shown[j]
<1>1. Init => IInv
  BY InitType, InitLinks, InitStaged
<1>2. IInv /\ [Next]_vars => IInv'
  BY StepType, StepLinks, StepStaged
<1>3. ASSUME IInv, [Next]_vars PROVE Climb
  <2>1. CASE UNCHANGED shown
    BY <1>3, <2>1 DEF TypeOK
  <2>2. CASE ProgressAnswer
    <3>1. /\ http.pc = "copy" /\ http.at > 5 /\ http.job \in Jobs
          /\ shown' = [shown EXCEPT ![http.job] = http.copy.stage]
          /\ http.copy.stage \in 1..6
      BY <1>3, <2>2, KeysLen
         DEF ProgressAnswer, TypeOK, HttpRecord, CopyRecord, Links
    <3>2. shown[http.job] <= http.copy.stage
      BY <1>3, <3>1 DEF Staged, StagedCopy
    <3> QED
      BY <1>3, <3>1, <3>2 DEF TypeOK
  <2> HIDE DEF Climb
  <2> QED
    BY <1>3, <2>1, <2>2
       DEF Next, Request, HandlerStep, WorkerStep, vars, PostInsert, CbPct,
           CbArgs, Finish, IndexReady, PublishFailure, PostRejected,
           PostStart, PostStartFails, PostAnswer, BuildRaises, Report, Spawn,
           ReportRaises, PrintTraceback, TracebackRaises, ProgressBegin,
           ProgressKey, ProgressRaises, Result, Query, Search,
           ListJobs, Cancel
<1> QED
  BY <1>1, <1>2, <1>3, PTL DEF Spec, StageNeverRegresses

-----------------------------------------------------------------------------
(* The registry implements the life of a job *)

LEMMA InitLifecycle == Init => Lifecycle!LInit
<1>1. Absent.in = FALSE
  BY DEF Absent, NewJob
<1> QED
  BY <1>1 DEF Init, Lifecycle!LInit, PhaseOf

\* A step that moves one job from a phase to another is a Move of its life.
LEMMA MoveStep ==
    ASSUME NEW j \in Jobs, NEW from, NEW to,
           PhaseOf(j) = from, PhaseOf(j)' = to,
           \A i \in Jobs \ {j} : PhaseOf(i)' = PhaseOf(i),
           UNCHANGED told
    PROVE  Lifecycle!Move(j, from, to)
  BY DEF Lifecycle!Move

LEMMA StepLifecycle ==
    TypeOK /\ Links /\ Order /\ Published /\ [Next]_vars
        => [Lifecycle!LNext]_(Lifecycle!pvars)
<1> SUFFICES ASSUME TypeOK, Links, Order, Published, [Next]_vars
             PROVE  [Lifecycle!LNext]_(Lifecycle!pvars)
  OBVIOUS
<1>1. CASE UNCHANGED <<jobs, told>>
  BY <1>1 DEF Lifecycle!pvars, PhaseOf
<1>2. ASSUME NEW j \in Jobs, NEW n \in Totals, PostInsert(j, n)
      PROVE  Lifecycle!Accept(j)
  <2>1. PhaseOf(j) = "absent" /\ PhaseOf(j)' = "running"
    BY <1>2 DEF PostInsert, PhaseOf, TypeOK, NewJob
  <2>2. \A i \in Jobs \ {j} : PhaseOf(i)' = PhaseOf(i)
    BY <1>2 DEF PostInsert, PhaseOf, TypeOK
  <2> QED
    BY <1>2, <2>1, <2>2, MoveStep DEF Lifecycle!Accept, PostInsert
<1>3. ASSUME NEW j \in Jobs, CbPct(j) \/ CbArgs(j) \/ IndexReady(j)
      PROVE  UNCHANGED Lifecycle!pvars
  <2>1. CbPct(j) => jobs' = [jobs EXCEPT ![j].pct = jobs'[j].pct]
    BY <1>3 DEF CbPct, TypeOK, JobRecord
  <2>2. \A i \in Jobs : /\ jobs'[i].in = jobs[i].in
                        /\ jobs'[i].done = jobs[i].done
                        /\ jobs'[i].data = jobs[i].data
                        /\ jobs'[i].error = jobs[i].error
    <3>1. CASE CbPct(j)
      BY <3>1, <2>1 DEF TypeOK, JobRecord
    <3>2. CASE CbArgs(j)
      BY <3>2 DEF CbArgs, WithArgs, TypeOK, JobRecord
    <3>3. CASE IndexReady(j)
      BY <3>3 DEF IndexReady, TypeOK, JobRecord
    <3> QED
      BY <1>3, <3>1, <3>2, <3>3
  <2>3. \A i \in Jobs : PhaseOf(i)' = PhaseOf(i)
    BY <2>2 DEF PhaseOf
  <2>4. told' = told
    BY <1>3 DEF CbPct, CbArgs, IndexReady
  <2> QED
    BY <2>3, <2>4 DEF Lifecycle!pvars
<1>4. ASSUME NEW j \in Jobs, Finish(j)
      PROVE  Lifecycle!Succeed(j)
  <2>1. jobs[j].in /\ ~jobs[j].done /\ jobs[j].error = None
    BY <1>4 DEF Finish, Order, Links, TypeOK
  <2>2. PhaseOf(j) = "running" /\ PhaseOf(j)' = "succeeded"
    BY <1>4, <2>1 DEF Finish, PhaseOf, TypeOK, JobRecord
  <2>3. \A i \in Jobs \ {j} : PhaseOf(i)' = PhaseOf(i)
    BY <1>4 DEF Finish, PhaseOf, TypeOK
  <2> QED
    BY <1>4, <2>2, <2>3, MoveStep DEF Lifecycle!Succeed, Finish
<1>5. ASSUME NEW j \in Jobs, PublishFailure(j)
      PROVE  Lifecycle!Fail(j) \/ Lifecycle!FailSilently(j) \/ Lifecycle!Retract(j)
  <2>1. /\ jobs[j].in /\ worker[j].error # None
        /\ worker[j].error = "blank" => "blank" \in Messages
    BY <1>5 DEF PublishFailure, Published, Links, TypeOK, WorkerRecord, Errors, None
  <2>2. \A i \in Jobs \ {j} : PhaseOf(i)' = PhaseOf(i)
    BY <1>5 DEF PublishFailure, PhaseOf, TypeOK
  <2>3. CASE jobs[j].done
    <3>1. jobs[j].data /\ jobs[j].error = None /\ MayRetract
      BY <1>5, <2>3 DEF PublishFailure, Order
    <3>2. PhaseOf(j) = "succeeded" /\ PhaseOf(j)' = "retracted"
      BY <1>5, <2>1, <2>3, <3>1 DEF PublishFailure, PhaseOf, TypeOK, JobRecord
    <3> QED
      BY <1>5, <2>2, <3>1, <3>2, MoveStep DEF Lifecycle!Retract, PublishFailure
  <2>4. CASE ~jobs[j].done
    <3>1. ~jobs[j].data
      BY <2>4 DEF Order
    <3>2. /\ PhaseOf(j) = "running"
          /\ PhaseOf(j)' = IF worker[j].error = "blank" THEN "silent" ELSE "failed"
      BY <1>5, <2>1, <2>4, <3>1 DEF PublishFailure, PhaseOf, TypeOK, JobRecord
    <3>3. told' = told
      BY <1>5 DEF PublishFailure
    <3>4. CASE worker[j].error = "blank"
      BY <2>1, <2>2, <3>2, <3>3, <3>4, MoveStep DEF Lifecycle!FailSilently
    <3>5. CASE worker[j].error # "blank"
      BY <2>2, <3>2, <3>3, <3>5, MoveStep DEF Lifecycle!Fail
    <3> QED
      BY <3>4, <3>5
  <2> QED
    BY <2>3, <2>4
<1>6. CASE ProgressAnswer
  <2>1. http.at > 4 /\ http.pc = "copy" /\ http.job \in Jobs
    BY <1>6, KeysLen DEF ProgressAnswer, TypeOK, HttpRecord, Links
  <2>2. CASE told' = told
    BY <1>6, <2>2 DEF ProgressAnswer, Lifecycle!pvars, PhaseOf
  <2>3. CASE http.copy.done /\ Falsy(http.copy.error)
    <3>1. jobs[http.job].in
      BY <2>1 DEF Links
    <3>5. jobs[http.job].done
      BY <2>1, <2>3 DEF Published
    <3>6. http.at > 3
      BY <2>1 DEF TypeOK, HttpRecord
    <3>7. jobs[http.job].data \/ jobs[http.job].error = "blank"
      BY <2>1, <2>3, <3>6 DEF Published, Falsy, None
    <3>2. PhaseOf(http.job) \in {"succeeded", "retracted", "silent"}
      BY <3>1, <3>5, <3>7 DEF PhaseOf
    <3>3. told' = told \cup {http.job} /\ jobs' = jobs
      BY <1>6, <2>3 DEF ProgressAnswer
    <3>4. Lifecycle!Promise(http.job)
      BY <2>1, <3>2, <3>3 DEF Lifecycle!Promise, PhaseOf
    <3> QED
      BY <2>1, <3>4 DEF Lifecycle!LNext
  <2> QED
    BY <1>6, <2>2, <2>3 DEF ProgressAnswer
<1> QED
  BY <1>1, <1>2, <1>3, <1>4, <1>5, <1>6
     DEF Next, Request, HandlerStep, WorkerStep, vars, Lifecycle!LNext,
         PostRejected, PostStart, PostStartFails, PostAnswer, BuildRaises,
         Report, Spawn, ReportRaises, PrintTraceback, TracebackRaises,
         ProgressBegin, ProgressKey, ProgressRaises, Result, Query, Search,
         ListJobs, Cancel

\* The threads, the lock and the torn copies implement the life of a job.
THEOREM Refinement == Spec => ImplementsLifecycle
<1> DEFINE IInv == TypeOK /\ Links /\ Order /\ Published
<1>1. Init => IInv /\ Lifecycle!LInit
  BY InitType, InitLinks, InitOrder, InitPublished, InitLifecycle
<1>2. IInv /\ [Next]_vars => IInv'
  BY StepType, StepLinks, StepOrder, StepPublished
<1>3. IInv /\ [Next]_vars => [Lifecycle!LNext]_(Lifecycle!pvars)
  BY StepLifecycle
<1> QED
  BY <1>1, <1>2, <1>3, PTL DEF Spec, ImplementsLifecycle, Lifecycle!LSpec
=============================================================================
