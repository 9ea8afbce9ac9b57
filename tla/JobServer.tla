------------------------------ MODULE JobServer ------------------------------
(***************************************************************************)
(* The job registry of server.py: the dictionary JOBS behind JOBS_LOCK,    *)
(* the one HTTP handler thread of HTTPServer, one worker thread for each   *)
(* accepted POST /analyze and one search-index thread for each analysis    *)
(* that succeeded.                                                         *)
(*                                                                         *)
(* GET /progress fetches the job's dictionary under the lock and copies it *)
(* after the lock is released, key by key, while the worker goes on: the   *)
(* copy is one step per key here.  A key added to the dictionary meanwhile *)
(* makes the copy raise and the client gets no answer.                     *)
(***************************************************************************)
EXTENDS Integers, Sequences, FiniteSets

CONSTANTS
    Before,      \* the callbacks of build_graph before its analysis loop
    After,       \* and those after it: see Callback
    Jobs,        \* the job ids uuid4 may hand out, each at most once
    Totals,      \* how many source files an analysed directory may hold
    Messages,    \* str(e) of the exceptions build_graph may raise: see Error
    Faults       \* which calls of the environment may raise: see Fault

Error == {"text", "blank"}       \* a message, or the empty string
Fault == {"print", "thread",     \* print(), Thread(...).start()
          "render"}              \* analyze_bios.build_html
Callback == [pct : 0..100, stage : 1..6, sized : BOOLEAN, extra : 0..2]

ASSUME BeforeAssumption == Before \in Seq(Callback)
ASSUME AfterAssumption == After \in Seq(Callback)

\* The stages ascend, and the loop, which is stage 3, comes between.
Ascending(s) == \A i, k \in 1..Len(s) : i <= k => s[i].stage <= s[k].stage
ASSUME StagesAssumption ==
    /\ Ascending(Before) /\ \A i \in 1..Len(Before) : Before[i].stage <= 3
    /\ Ascending(After) /\ \A i \in 1..Len(After) : After[i].stage >= 3

ASSUME JobsAssumption == "free" \notin Jobs     \* see Free
ASSUME TotalsAssumption == Totals \subseteq Nat
ASSUME MessagesAssumption == Messages \subseteq Error
ASSUME FaultsAssumption == Faults \subseteq Fault

VARIABLES
    jobs,     \* JOBS: job id -> the job's dictionary, or Absent
    lock,     \* who holds JOBS_LOCK across two steps: a job's worker or Free
    worker,   \* job id -> its thread run(): pc, next callback, files found
    indexer,  \* job id -> its thread _build_search_index
    http,     \* the handler thread: pc, job and the copy it is making
    out,      \* the last response written to a client
    told,     \* jobs a /progress answer declared done with no (falsy) error
    shown     \* job id -> the stage its last /progress answer carried

vars == <<jobs, lock, worker, indexer, http, out, told, shown>>

None == "None"
Falsy(e) == e \in {None, "blank"}   \* what "if error" takes for no error
Free == "free"

-----------------------------------------------------------------------------
(* The progress callbacks of build_graph, in order: those Before the loop  *)
(* over the source files, one for each Batch of files, those After it.  A  *)
(* callback carries a percentage, a stage, whether it reports the number   *)
(* of files, and which keys the dictionary has beyond the initial ones     *)
(* once it returns: other_files (1), then call_count (2); the search index *)
(* adds search_index (3).  They are always inserted in this order.         *)

Batch == 50
Batches(n) == (n + Batch - 1) \div Batch
LastCall(n) == Len(Before) + Batches(n) + Len(After)

\* Files analysed when the k-th callback is made.
Analyzed(n, k) ==
    LET b == k - Len(Before) IN
    IF b <= 0 THEN 0
    ELSE IF b * Batch < n THEN b * Batch ELSE n

MutPercent(n, k) == ((k - Len(Before)) * Batch * 60) \div n  \* whole batches
Percent(n, k) == (Analyzed(n, k) * 60) \div n

LoopCall(n, k) ==
    [pct |-> Percent(n, k), stage |-> 3, sized |-> TRUE, extra |-> 0]

Call(n, k) ==
    IF k <= Len(Before) THEN Before[k]
    ELSE IF k <= Len(Before) + Batches(n) THEN LoopCall(n, k)
    ELSE After[k - Len(Before) - Batches(n)]

-----------------------------------------------------------------------------
(* Keys /progress copies, in dictionary order: pct, then done, ... ('data' *)
(* is skipped; keys that never change are left out).                       *)
MutKeys == <<"pct", "stats", "done", "error", "stage", "total", "analyzed">>
Keys == <<"pct", "done", "error", "stats", "stage", "total", "analyzed">>

NewJob == [in |-> TRUE, pct |-> 0, done |-> FALSE, error |-> None,
           stats |-> FALSE, data |-> FALSE, stage |-> 1,
           total |-> 0, analyzed |-> 0, extra |-> 0]

Absent == [NewJob EXCEPT !.in = FALSE]     \* not a key of JOBS

Blank == [pct |-> 0, done |-> FALSE, error |-> None, stats |-> FALSE,
          stage |-> 1, total |-> 0, analyzed |-> 0]

NoWork == [pc |-> "none", k |-> 1, total |-> 0, error |-> None]
Idle == [pc |-> "idle", job |-> None, at |-> 1, size |-> 0, copy |-> Blank]
NoAnswer == [kind |-> "none"]

Init ==
    /\ jobs = [j \in Jobs |-> Absent]
    /\ lock = Free
    /\ worker = [j \in Jobs |-> NoWork]
    /\ indexer = [j \in Jobs |-> "none"]
    /\ http = Idle
    /\ out = NoAnswer
    /\ told = {}
    /\ shown = [j \in Jobs |-> 0]

Answer(r) == out' = r /\ http' = Idle
\* The handler raised: the connection is closed without an answer.
Crash(request) == Answer([kind |-> "lost", request |-> request])

-----------------------------------------------------------------------------
(* POST /analyze *)

\* The path is not a directory (or the body is not JSON): 400.
PostRejected ==
    /\ http = Idle
    /\ Answer([kind |-> "rejected"])
    /\ UNCHANGED <<jobs, lock, worker, indexer, told, shown>>

\* A fresh id, the initial dictionary inserted under the lock.
PostInsert(j, n) ==
    /\ http = Idle
    /\ lock = Free
    /\ ~jobs[j].in
    /\ jobs' = [jobs EXCEPT ![j] = NewJob]
    /\ worker' = [worker EXCEPT ![j].total = n]
    /\ http' = [Idle EXCEPT !.pc = "start", !.job = j]
    /\ out' = NoAnswer
    /\ UNCHANGED <<lock, indexer, told, shown>>

\* t.start(); an exception here leaves the job in JOBS with no thread.
PostStart ==
    /\ http.pc = "start"
    /\ worker' = [worker EXCEPT ![http.job].pc = "call"]
    /\ http' = [http EXCEPT !.pc = "print"]
    /\ UNCHANGED <<jobs, lock, indexer, out, told, shown>>

PostStartFails ==
    /\ http.pc = "start"
    /\ "thread" \in Faults
    /\ Crash("analyze")
    /\ UNCHANGED <<jobs, lock, worker, indexer, told, shown>>

\* print('[START] ...') and the answer that carries the job id.
PostAnswer ==
    /\ http.pc = "print"
    /\ \/ Answer([kind |-> "accepted", job |-> http.job])
       \/ "print" \in Faults /\ Crash("analyze")
    /\ UNCHANGED <<jobs, lock, worker, indexer, told, shown>>

-----------------------------------------------------------------------------
(* The worker: run() and the callback cb *)

MutAcquire(j) == lock = Free /\ UNCHANGED lock    \* the lock is forgotten
Acquire(j) == lock = Free /\ lock' = j

MutRelease == UNCHANGED lock                      \* it is never released
Release == lock' = Free

\* What the keyword arguments of the k-th callback change.
MutWithArgs(job, n, k) ==   \* mutant: the last callback also says done
    [job EXCEPT !.stage = Call(n, k).stage, !.done = k = LastCall(n)]
WithArgs(job, n, k) ==
    [job EXCEPT !.stage = Call(n, k).stage,
                !.total = IF Call(n, k).sized THEN n ELSE @,
                !.analyzed = Analyzed(n, k),
                !.extra = Call(n, k).extra]

\* cb: the lock is taken and pct and msg are updated ...
CbPct(j) ==
    /\ worker[j].pc = "call"
    /\ worker[j].k <= LastCall(worker[j].total)
    /\ Acquire(j)
    /\ jobs' = [jobs EXCEPT ![j].pct = Call(worker[j].total, worker[j].k).pct]
    /\ worker' = [worker EXCEPT ![j].pc = "args"]
    /\ UNCHANGED <<indexer, http, out, told, shown>>

\* ... then the keyword arguments, and the lock is released.
CbArgs(j) ==
    /\ worker[j].pc = "args"
    /\ jobs' = [jobs EXCEPT ![j] = WithArgs(@, worker[j].total, worker[j].k)]
    /\ Release
    /\ worker' = [worker EXCEPT ![j].pc = "call", ![j].k = @ + 1]
    /\ UNCHANGED <<indexer, http, out, told, shown>>

\* build_graph returned: one update publishes data, stats and done.
Finish(j) ==
    /\ worker[j].pc = "call"
    /\ worker[j].k > LastCall(worker[j].total)
    /\ lock = Free
    /\ jobs' = [jobs EXCEPT ![j].pct = 100, ![j].done = TRUE,
                            ![j].data = TRUE, ![j].stats = TRUE]
    /\ worker' = [worker EXCEPT ![j].pc = "report"]
    /\ UNCHANGED <<lock, indexer, http, out, told, shown>>

\* Control goes to the except branch with the exception e.
Except(w, e) == [w EXCEPT !.pc = "except", !.error = e]

\* reload or build_graph raises between two callbacks.
BuildRaises(j, e) ==
    /\ worker[j].pc = "call"
    /\ worker[j].k <= LastCall(worker[j].total)
    /\ worker' = [worker EXCEPT ![j] = Except(@, e)]
    /\ UNCHANGED <<jobs, lock, indexer, http, out, told, shown>>

\* print('[DONE] ...'), and the search-index thread is started.
Report(j) ==
    /\ worker[j].pc = "report"
    /\ worker' = [worker EXCEPT ![j].pc = "spawn"]
    /\ UNCHANGED <<jobs, lock, indexer, http, out, told, shown>>

Spawn(j) ==
    /\ worker[j].pc = "spawn"
    /\ worker' = [worker EXCEPT ![j].pc = "end"]
    /\ indexer' = [indexer EXCEPT ![j] = "walk"]
    /\ UNCHANGED <<jobs, lock, http, out, told, shown>>

\* Either call raises: the except branch runs although data is published.
ReportRaises(j) ==
    /\ \/ worker[j].pc = "report" /\ "print" \in Faults
       \/ worker[j].pc = "spawn" /\ "thread" \in Faults
    /\ worker' = [worker EXCEPT ![j] = Except(@, "text")]
    /\ UNCHANGED <<jobs, lock, indexer, http, out, told, shown>>

\* except: the traceback is printed before the failure is published.
PrintTraceback(j) ==
    /\ worker[j].pc = "except"
    /\ worker' = [worker EXCEPT ![j].pc = "fail"]
    /\ UNCHANGED <<jobs, lock, indexer, http, out, told, shown>>

\* That print raises: the thread dies and nothing is published.
TracebackRaises(j) ==
    /\ worker[j].pc = "except"
    /\ "print" \in Faults
    /\ worker' = [worker EXCEPT ![j].pc = "dead"]
    /\ UNCHANGED <<jobs, lock, indexer, http, out, told, shown>>

MutPublishFailure(j) ==     \* mutant: a failure leaves no graph behind
    /\ worker[j].pc = "fail"
    /\ lock = Free
    /\ jobs' = [jobs EXCEPT ![j] = [NewJob EXCEPT !.done = TRUE,
                                       !.error = worker[j].error]]
    /\ worker' = [worker EXCEPT ![j].pc = "end"]
    /\ UNCHANGED <<lock, indexer, http, out, told, shown>>
PublishFailure(j) ==
    /\ worker[j].pc = "fail"
    /\ lock = Free
    /\ jobs' = [jobs EXCEPT ![j].done = TRUE, ![j].error = worker[j].error,
                            ![j].pct = 0]
    /\ worker' = [worker EXCEPT ![j].pc = "end"]
    /\ UNCHANGED <<lock, indexer, http, out, told, shown>>

-----------------------------------------------------------------------------
(* The search-index thread *)

IndexReady(j) ==
    /\ indexer[j] = "walk"
    /\ lock = Free
    /\ jobs[j].in
    /\ jobs' = [jobs EXCEPT ![j].extra = 3]
    /\ indexer' = [indexer EXCEPT ![j] = "end"]
    /\ UNCHANGED <<lock, worker, http, out, told, shown>>

-----------------------------------------------------------------------------
(* GET /progress *)

ProgressBegin(j) ==
    /\ http = Idle
    /\ lock = Free
    /\ IF jobs[j].in
       THEN /\ http' = [Idle EXCEPT !.pc = "copy", !.job = j,
                                   !.size = jobs[j].extra]
            /\ out' = NoAnswer
       ELSE Answer([kind |-> "unknown", job |-> j])
    /\ UNCHANGED <<jobs, lock, worker, indexer, told, shown>>

\* Has a key been inserted since the copy began?
Grown == jobs[http.job].extra # http.size

ProgressKey ==
    /\ http.pc = "copy"
    /\ ~Grown
    /\ http.at <= Len(Keys)
    /\ LET key == Keys[http.at] IN
       http' = [http EXCEPT !.copy[key] = jobs[http.job][key], !.at = @ + 1]
    /\ UNCHANGED <<jobs, lock, worker, indexer, out, told, shown>>

\* "dictionary changed size during iteration"
ProgressRaises ==
    /\ http.pc = "copy"
    /\ Grown
    /\ Crash("progress")
    /\ UNCHANGED <<jobs, lock, worker, indexer, told, shown>>

ProgressAnswer ==
    /\ http.pc = "copy"
    /\ ~Grown
    /\ http.at > Len(Keys)
    /\ Answer([kind |-> "progress", job |-> http.job, body |-> http.copy])
    /\ told' = IF http.copy.done /\ Falsy(http.copy.error)
               THEN told \cup {http.job} ELSE told
    /\ shown' = [shown EXCEPT ![http.job] = http.copy.stage]
    /\ UNCHANGED <<jobs, lock, worker, indexer>>

-----------------------------------------------------------------------------
(* The other handlers *)

\* GET /result: the page if there is data, or why it cannot be rendered; else the
\* job's error, else "not ready".
Rendered == {"page"} \cup (IF "render" \in Faults THEN {"broken"} ELSE {})
Result(j) ==
    /\ http = Idle
    /\ lock = Free
    /\ \E body \in IF jobs[j].in /\ jobs[j].data THEN Rendered
                    ELSE IF jobs[j].in /\ ~Falsy(jobs[j].error) THEN {"error"}
                    ELSE {"pending"} :
          Answer([kind |-> "result", job |-> j, body |-> body])
    /\ UNCHANGED <<jobs, lock, worker, indexer, told, shown>>

\* GET /structure, /symbols, ... : they need data, else 400.
Query(j) ==
    /\ http = Idle
    /\ lock = Free
    /\ Answer([kind |-> "query", job |-> j,
               body |-> IF jobs[j].in /\ jobs[j].data THEN "rows"
                        ELSE "pending"])
    /\ UNCHANGED <<jobs, lock, worker, indexer, told, shown>>

\* GET /search: from the index when the key is there, else from the disk.
Search(j) ==
    /\ http = Idle
    /\ lock = Free
    /\ Answer([kind |-> "search", job |-> j,
               indexed |-> jobs[j].in /\ jobs[j].extra = 3,
               coloured |-> jobs[j].in /\ jobs[j].data])
    /\ UNCHANGED <<jobs, lock, worker, indexer, told, shown>>

\* GET /jobs: every dictionary is copied under the lock, in one step.
ListJobs ==
    /\ http = Idle
    /\ lock = Free
    /\ Answer([kind |-> "jobs", body |-> jobs])
    /\ UNCHANGED <<jobs, lock, worker, indexer, told, shown>>

\* POST /cancel answers ok and does nothing.
Cancel ==
    /\ http = Idle
    /\ Answer([kind |-> "cancelled"])
    /\ UNCHANGED <<jobs, lock, worker, indexer, told, shown>>

-----------------------------------------------------------------------------
WorkerStep(j) ==
    \/ CbPct(j) \/ CbArgs(j) \/ Finish(j)
    \/ \E e \in Messages : BuildRaises(j, e)
    \/ Report(j) \/ Spawn(j) \/ ReportRaises(j)
    \/ PrintTraceback(j) \/ TracebackRaises(j) \/ PublishFailure(j)

\* What the handler does once a request is in its hands.
HandlerStep ==
    PostStart \/ PostStartFails \/ PostAnswer
    \/ ProgressKey \/ ProgressRaises \/ ProgressAnswer

\* A client's request is picked up.
Request ==
    \/ PostRejected
    \/ \E j \in Jobs : \E n \in Totals : PostInsert(j, n)
    \/ \E j \in Jobs : ProgressBegin(j) \/ Result(j) \/ Query(j) \/ Search(j)
    \/ ListJobs \/ Cancel

Next ==
    \/ Request
    \/ HandlerStep
    \/ \E j \in Jobs : WorkerStep(j) \/ IndexReady(j)

Spec == Init /\ [][Next]_vars

\* Threads are scheduled fairly; no thread blocks for ever on JOBS_LOCK
\* because each of the others takes it finitely often.  Requests need not come.
Fairness ==
    /\ WF_vars(HandlerStep)
    /\ \A j \in Jobs : WF_vars(WorkerStep(j)) /\ WF_vars(IndexReady(j))

FairSpec == Spec /\ Fairness

-----------------------------------------------------------------------------
(* Types *)

Errors == Messages \cup {"text", None}

JobRecord ==
    [in : BOOLEAN, pct : 0..100, done : BOOLEAN, error : Errors,
     stats : BOOLEAN, data : BOOLEAN, stage : 1..6,
     total : Nat, analyzed : Nat, extra : 0..3]

CopyRecord ==
    [pct : 0..100, done : BOOLEAN, error : Errors, stats : BOOLEAN,
     stage : 1..6, total : Nat, analyzed : Nat]

WorkerPc ==
    {"none", "call", "args", "report", "spawn", "except", "fail", "end", "dead"}

WorkerRecord ==
    [pc : WorkerPc, k : Nat \ {0}, total : Nat, error : Errors]

HttpRecord ==
    [pc : {"idle", "start", "print", "copy"}, job : Jobs \cup {None},
     at : 1..8, size : 0..3, copy : CopyRecord]

\* Every variable has the shape the code gives it (out is a reply, any shape).
TypeOK ==
    /\ jobs \in [Jobs -> JobRecord]
    /\ lock \in Jobs \cup {Free}
    /\ worker \in [Jobs -> WorkerRecord]
    /\ indexer \in [Jobs -> {"none", "walk", "end"}]
    /\ http \in HttpRecord
    /\ told \subseteq Jobs
    /\ shown \in [Jobs -> 0..6]

\* How the threads' records and the registry hang together.
Links ==
    /\ http.pc # "idle" => http.job \in Jobs /\ jobs[http.job].in
    /\ http.pc = "start" => worker[http.job].pc = "none"
    /\ \A j \in Jobs :
          /\ worker[j].pc # "none" => jobs[j].in
          /\ worker[j].pc = "args" => worker[j].k <= LastCall(worker[j].total)

\* May the report of a success raise?
MayRetract == Faults \cap {"print", "thread"} # {}

\* How far a job's dictionary is when its worker is at a given point.
Order ==
    \A j \in Jobs :
        /\ jobs[j].data => jobs[j].done
        /\ worker[j].pc \in {"none", "call", "args"} => ~jobs[j].done
        /\ worker[j].pc \in {"report", "spawn"}
              => jobs[j].done /\ jobs[j].data /\ jobs[j].error = None
        /\ worker[j].pc \in {"except", "fail"} /\ jobs[j].done
              => jobs[j].data /\ jobs[j].error = None /\ MayRetract
        /\ ~jobs[j].done => jobs[j].error = None

\* The dictionary b of a job of n files is exactly as some whole callback, the end
\* or a failure left it.
IsWhole(b, n) ==
    /\ b.analyzed <= b.total
    /\ \/ b = NewJob
       \/ b.done /\ (b.error = None => b.pct = 100 /\ b.data)
                 /\ (b.error # None => b.pct = 0)
       \/ \E k \in 1..LastCall(n) :
             /\ ~b.done
             /\ b.pct = Call(n, k).pct /\ b.stage = Call(n, k).stage
             /\ b.analyzed = Analyzed(n, k)
             /\ b.extra = Call(n, k).extra

\* A job is whole unless its worker is between the two halves of a callback, and
\* then holds the lock; and what makes the next callback leave it whole.
WholeJob(j) ==
    LET w == worker[j] IN
    /\ w.pc = "args" => lock = j /\ jobs[j].pct = Call(w.total, w.k).pct
    /\ jobs[j].in /\ w.pc # "args" => IsWhole(jobs[j], w.total)
    /\ w.pc \in {"call", "args"} /\ w.k > Len(Before) + 1 /\ w.total > 0 =>
          jobs[j].total = w.total
    /\ w.pc = "none" => w.k = 1
    /\ w.pc \in {"except", "fail"} => w.error # None
    /\ indexer[j] = "walk" => jobs[j].in /\ jobs[j].done
Whole == \A j \in Jobs : WholeJob(j)

\* The stages clients were shown, those the dictionary has, those of the callbacks
\* to come, and the one the copy in progress has.
StagedJob(j) ==
    LET w == worker[j] IN
    /\ shown[j] <= jobs[j].stage
    /\ ~jobs[j].in => shown[j] = 0
    /\ w.pc \in {"none", "call", "args"} /\ w.k <= LastCall(w.total) /\ jobs[j].in
          => jobs[j].stage <= Call(w.total, w.k).stage
StagedCopy ==
    http.pc = "copy" /\ http.at > 5 =>
        /\ shown[http.job] <= http.copy.stage
        /\ http.copy.stage <= jobs[http.job].stage
Staged == (\A j \in Jobs : StagedJob(j)) /\ StagedCopy

\* What is published together, and what a copy in progress has seen of it.
Published ==
    /\ \A j \in Jobs :
          /\ jobs[j].stats = jobs[j].data
          /\ jobs[j].done => jobs[j].data \/ jobs[j].error # None
          /\ worker[j].pc \in {"except", "fail"} => worker[j].error # None
    /\ http.pc = "copy" /\ http.copy.done =>
          /\ jobs[http.job].done
          /\ http.at > 3 /\ http.copy.error = None => jobs[http.job].data
          /\ http.at > 3 /\ http.copy.error # None =>
                jobs[http.job].error = http.copy.error
          /\ http.at > 4 /\ http.copy.error = None => http.copy.stats

-----------------------------------------------------------------------------
(* Safety *)

\* Once a /progress answer has declared a job done without an error, its graph is
\* there, and /result and the graph queries never answer "not ready" again, although
\* the answer was copied outside the lock while the worker was publishing.  The
\* exception is a job whose exception had no message: its error is taken for none.
ToldIsServed ==
    \A j \in told :
        /\ jobs[j].in
        /\ jobs[j].data \/ jobs[j].error = "blank"
        /\ out.kind = "result" /\ out.job = j /\ jobs[j].data => out.body \in Rendered
        /\ out.kind = "query" /\ out.job = j /\ jobs[j].data => out.body = "rows"

\* A /progress answer that declares success carries the statistics the launcher
\* shows: the key order of the dictionary makes the torn copy safe.
DoneCarriesStats ==
    out.kind = "progress" /\ out.body.done /\ out.body.error = None
        => out.body.stats

\* GET /jobs, which copies under the lock, never shows half of a callback.
ListIsWhole ==
    out.kind = "jobs" =>
        \A j \in {i \in Jobs : out.body[i].in} :
            IsWhole(out.body[j], worker[j].total)

\* Successive /progress answers of one job never go back a stage (the
\* percentage may: it starts again at the first analysed batch).
StageNeverRegresses ==
    [][\A j \in Jobs : shown'[j] >= shown[j]]_vars

\* A verdict is final: once a job is done no late callback changes anything of
\* it and its graph stays.  Only a success whose report raised (print, or the
\* start of the index thread) is turned, once, into an error.
Kept(j) == jobs'[j] = [jobs[j] EXCEPT !.extra = jobs'[j].extra]
Retracted(j) ==
    /\ worker[j].pc = "fail" /\ jobs[j].error = None
    /\ jobs'[j] = [jobs[j] EXCEPT !.error = worker[j].error, !.pct = 0]
VerdictIsFinal ==
    [][\A j \in Jobs : jobs[j].in /\ jobs[j].done => Kept(j) \/ Retracted(j)]_vars

-----------------------------------------------------------------------------
(* Liveness *)

\* An accepted job is eventually done, unless its worker died printing why it failed.
AcceptedIsDone ==
    \A j \in Jobs :
        (out.kind = "accepted" /\ out.job = j)
            ~> (jobs[j].in /\ jobs[j].done) \/ worker[j].pc = "dead"

-----------------------------------------------------------------------------
(* The registry implements JobLifecycle *)

PhaseOf(j) ==
    IF ~jobs[j].in THEN "absent"
    ELSE IF ~jobs[j].done THEN "running"
    ELSE IF ~jobs[j].data
         THEN IF jobs[j].error = "blank" THEN "silent" ELSE "failed"
    ELSE IF jobs[j].error = None THEN "succeeded" ELSE "retracted"

Lifecycle == INSTANCE JobLifecycle
    WITH phase <- [j \in Jobs |-> PhaseOf(j)],
         promised <- told,
         MayRetract <- MayRetract,
         MayBeSilent <- "blank" \in Messages

\* Every step of the threads is a step of a job's life, or invisible there:
\* clients may forget about locks, copies and threads.
ImplementsLifecycle == Lifecycle!LSpec
=============================================================================
