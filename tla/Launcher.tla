------------------------------ MODULE Launcher ------------------------------
(***************************************************************************)
(* The start page, launcher.html: one JavaScript thread that submits an    *)
(* analysis and polls it.  Each call of startAnalysis starts a chain of    *)
(* requests, replies and timeouts; the chains share the globals currentJob *)
(* and pollTimer.  The button is disabled while an analysis runs, the      *)
(* Enter key of the input is not.                                          *)
(*                                                                         *)
(* The server behind the page is JobLifecycle, which JobServer implements: *)
(* it runs jobs, may drop a poll (the torn copy of JobServer), and may be  *)
(* killed and started again, which forgets every job.                      *)
(***************************************************************************)
EXTENDS Integers, FiniteSets

CONSTANTS
    Jobs,        \* the ids the server may hand out
    Chains,      \* the calls of startAnalysis, numbered as they are made
    Size,        \* how many files each job analyses
    EnterKey,    \* is Enter ever pressed while an analysis runs?
    MayRetract, MayBeSilent,  \* see JobLifecycle
    MaxDrops,    \* bound: polls the server drops
    MaxKills     \* bound: how often the server is killed

ASSUME SizeAssumption == Size \in [Jobs -> Nat]
ASSUME NamesAssumption == "None" \notin Jobs
ASSUME ChainsAssumption == Chains \subseteq Nat \ {0}
ASSUME EnterAssumption == EnterKey \in BOOLEAN
ASSUME RetractAssumption == MayRetract \in BOOLEAN /\ MayBeSilent \in BOOLEAN
ASSUME BoundsAssumption == MaxDrops \in Nat /\ MaxKills \in Nat

VARIABLES
    phase, promised,   \* the server's jobs, see JobLifecycle
    up, lost,          \* is the server running; the jobs it has forgotten
    drops, kills,      \* how often the bounded events have happened
    chain,      \* where each chain is, its job, the reply on its way
    currentJob, pollTimer, analyzing,   \* the globals; pollTimer is a chain
    elapsed,    \* is the interval etaTimer running?
    msg,        \* what showMsg last displayed
    files       \* the globals fakeFilesCurrent, ...Target, ...Total, ...Timer

server == <<phase, promised, up, lost, drops, kills>>
page == <<currentJob, pollTimer, analyzing, elapsed, msg, files>>
vars == <<server, chain, page>>

None == "None"
NoTimer == 0
Server == INSTANCE JobLifecycle

NoChain == [pc |-> "none", job |-> None, kind |-> "none", n |-> 0]
NoMsg == [kind |-> "none", job |-> None]
NoFiles == [current |-> 0, target |-> 0, total |-> 0, timer |-> FALSE]

Init ==
    /\ Server!LInit
    /\ up = TRUE /\ lost = {} /\ drops = 0 /\ kills = 0
    /\ chain = [c \in Chains |-> NoChain]
    /\ currentJob = None /\ pollTimer = NoTimer
    /\ analyzing = FALSE /\ elapsed = FALSE
    /\ msg = NoMsg
    /\ files = NoFiles

-----------------------------------------------------------------------------
\* What a chain keeps: its job while a request is out, the reply, nothing.
At(pc) == [NoChain EXCEPT !.pc = pc]
Polling(j) == [At("poll") EXCEPT !.job = j]
Goes(c, record) == chain' = [chain EXCEPT ![c] = record]

(* The server *)

\* A reply is on its way to the chain c.
Replied(c, job, kind, n) ==
    Goes(c, [pc |-> IF chain[c].pc = "post" THEN "posted" ELSE "polled",
             job |-> job, kind |-> kind, n |-> n])

ServerAccepts(c, j) ==
    /\ chain[c].pc = "post" /\ up
    /\ Server!Accept(j)
    /\ Replied(c, j, "accepted", 0)
    /\ UNCHANGED <<up, lost, drops, kills, page>>

ServerRejects(c) ==
    /\ chain[c].pc = "post" /\ up
    /\ Replied(c, None, "rejected", 0)
    /\ UNCHANGED <<server, page>>

\* The request finds no server.
NoServer(c) ==
    /\ chain[c].pc \in {"post", "poll"} /\ ~up
    /\ Replied(c, chain[c].job, "lost", 0)
    /\ UNCHANGED <<server, page>>

Running(j) == j \notin lost /\ phase[j] = "running"

\* A running job reports how many files it has analysed, or a stage (0).
PollRunning(c, n) ==
    /\ chain[c].pc = "poll" /\ up
    /\ Running(chain[c].job)
    /\ n <= Size[chain[c].job]
    /\ Replied(c, chain[c].job, "running", n)
    /\ UNCHANGED <<server, page>>

\* A failure without a message looks like a success; a copy may be older than a
\* retraction.
PollDone(c) ==
    /\ chain[c].pc = "poll" /\ up
    /\ chain[c].job \notin lost
    /\ Server!Promise(chain[c].job)
    /\ Replied(c, chain[c].job, "done", 0)
    /\ UNCHANGED <<up, lost, drops, kills, page>>

\* An unknown job is an error too.
PollError(c) ==
    /\ chain[c].pc = "poll" /\ up
    /\ chain[c].job \in lost \/ phase[chain[c].job] \in {"failed", "retracted"}
    /\ Replied(c, chain[c].job, "error", 0)
    /\ UNCHANGED <<server, page>>

PollDropped(c) ==
    /\ chain[c].pc = "poll" /\ up
    /\ chain[c].job \notin lost /\ drops < MaxDrops
    /\ drops' = drops + 1
    /\ Replied(c, chain[c].job, "lost", 0)
    /\ UNCHANGED <<phase, promised, up, lost, kills, page>>

JobEnds(j) ==
    /\ up /\ j \notin lost
    /\ Server!Succeed(j) \/ Server!Fail(j) \/ Server!FailSilently(j)
    /\ UNCHANGED <<up, lost, drops, kills, chain, page>>

JobRetracted(j) ==
    /\ up /\ j \notin lost
    /\ Server!Retract(j)
    /\ UNCHANGED <<up, lost, drops, kills, chain, page>>

\* The jobs die with the server that ran them.
ServerKilled ==
    /\ up /\ kills < MaxKills
    /\ up' = FALSE /\ kills' = kills + 1
    /\ lost' = {j \in Jobs : phase[j] # "absent"}
    /\ phase' = [j \in Jobs |-> IF j \in lost' THEN "failed" ELSE phase[j]]
    /\ UNCHANGED <<promised, drops, chain, page>>

ServerStarted ==
    /\ ~up /\ up' = TRUE
    /\ UNCHANGED <<phase, promised, lost, drops, kills, chain, page>>

-----------------------------------------------------------------------------
(* The page *)

\* May startAnalysis be called?  The disabled button swallows clicks only.
Clickable == EnterKey \/ ~analyzing

NoPath ==
    /\ Clickable
    /\ msg' = [kind |-> "error", job |-> None]
    /\ UNCHANGED <<server, chain, currentJob, pollTimer, analyzing, elapsed,
                   files>>

Start(c) ==
    /\ chain[c].pc = "none"
    /\ \A d \in Chains : d < c => chain[d].pc # "none"
    /\ Clickable
    /\ analyzing' = TRUE
    /\ msg' = NoMsg
    /\ elapsed' = TRUE
    /\ Goes(c, At("post"))
    /\ UNCHANGED <<server, currentJob, pollTimer, files>>

\* setAnalyzing(false): the counter is reset with it, all but its total.
Reset == [NoFiles EXCEPT !.total = files.total]
MutNotAnalyzing == UNCHANGED <<analyzing, files>>    \* mutant: forgotten
NotAnalyzing == analyzing' = FALSE /\ files' = Reset

PostFailed(c) ==
    /\ chain[c].pc = "posted"
    /\ chain[c].kind \in {"rejected", "lost"}
    /\ msg' = [kind |-> "error", job |-> None]
    /\ NotAnalyzing
    /\ Goes(c, At("end"))
    /\ UNCHANGED <<server, currentJob, pollTimer, elapsed>>

\* The id is stored and pollProgress called at once.
PostAccepted(c) ==
    /\ chain[c].pc = "posted"
    /\ chain[c].kind = "accepted"
    /\ currentJob' = chain[c].job
    /\ Goes(c, Polling(chain[c].job))
    /\ UNCHANGED <<server, pollTimer, analyzing, elapsed, msg, files>>

\* How a reply "n/total files analyzed" moves the counter.
Counted(n, total) ==
    [files EXCEPT !.total = total,
                  !.target = IF n > @ THEN n ELSE @,
                  !.timer = @ \/ n > files.target]

MutNoLater(c) == Goes(c, At("end")) /\ UNCHANGED pollTimer  \* no retry
\* setTimeout(pollProgress, 600)
Later(c) ==
    /\ Goes(c, At("timer"))
    /\ pollTimer' = c

PollAgain(c) ==
    /\ chain[c].pc = "polled"
    /\ chain[c].kind \in {"running", "lost"}
    /\ files' = IF chain[c].kind = "lost" THEN files
                ELSE IF chain[c].n > 0
                THEN Counted(chain[c].n, Size[chain[c].job])
                ELSE [files EXCEPT !.timer = FALSE]
    /\ Later(c)
    /\ UNCHANGED <<server, currentJob, analyzing, elapsed, msg>>

\* stopTimers(): clearTimeout(pollTimer) reaches the last timeout set only.
Stopped(c) ==
    /\ elapsed' = FALSE
    /\ chain' = [d \in Chains |->
          IF d = c \/ (d = pollTimer /\ chain[d].pc = "timer")
          THEN At("end") ELSE chain[d]]

\* The verdict; the link of the message is made of currentJob.
PollEnds(c) ==
    /\ chain[c].pc = "polled"
    /\ chain[c].kind \in {"done", "error"}
    /\ msg' = [kind |-> chain[c].kind,
               job |-> IF chain[c].kind = "done" THEN currentJob ELSE None]
    /\ Stopped(c)
    /\ NotAnalyzing
    /\ currentJob' = None
    /\ UNCHANGED <<server, pollTimer>>

\* The timeout fires: pollProgress polls the job that is current now, if any.
TimerFires(c) ==
    /\ chain[c].pc = "timer"
    /\ Goes(c, IF currentJob = None THEN At("end") ELSE Polling(currentJob))
    /\ UNCHANGED <<server, page>>

\* The 30 ms interval that moves the counter towards its target.
Gap == files.target - files.current
Step == IF Gap <= 10 THEN 1 ELSE (Gap + 9) \div 10
Jump == IF Step > Gap THEN Gap ELSE Step     \* clamped to the target
MutTick ==                  \* mutant: the interval is never cleared
    /\ files.timer
    /\ files' = IF Gap > 0 THEN [files EXCEPT !.current = @ + Jump] ELSE files
    /\ UNCHANGED <<server, chain, currentJob, pollTimer, analyzing, elapsed,
                   msg>>
Tick ==
    /\ files.timer
    /\ files' = IF Gap > 0 THEN [files EXCEPT !.current = @ + Jump]
                ELSE [files EXCEPT !.timer = FALSE]
    /\ UNCHANGED <<server, chain, currentJob, pollTimer, analyzing, elapsed,
                   msg>>

-----------------------------------------------------------------------------
Answered(c) ==
    \/ \E j \in Jobs : ServerAccepts(c, j)
    \/ ServerRejects(c) \/ NoServer(c)
    \/ \E n \in 0..(IF chain[c].job \in Jobs THEN Size[chain[c].job] ELSE 0) :
          PollRunning(c, n)
    \/ PollDone(c) \/ PollError(c) \/ PollDropped(c)

Handled(c) ==
    PostFailed(c) \/ PostAccepted(c) \/ PollAgain(c) \/ PollEnds(c)
    \/ TimerFires(c)

Next ==
    \/ NoPath \/ Tick \/ ServerKilled \/ ServerStarted
    \/ \E c \in Chains : Start(c) \/ Answered(c) \/ Handled(c)
    \/ \E j \in Jobs : JobEnds(j) \/ JobRetracted(j)

Spec == Init /\ [][Next]_vars

\* Timeouts fire, replies are handled, requests answered, jobs end
\* (JobServer's AcceptedIsDone); a killed server may stay away.
FairSpec ==
    /\ Spec
    /\ WF_vars(Tick)
    /\ \A c \in Chains : WF_vars(Answered(c)) /\ WF_vars(Handled(c))
    /\ \A j \in Jobs : WF_vars(JobEnds(j))

-----------------------------------------------------------------------------
Pc == {"none", "post", "posted", "poll", "polled", "timer", "end"}
Kind == {"none", "accepted", "rejected", "lost", "running", "done", "error"}

ServerTypeOK ==
    /\ phase \in [Jobs -> {"absent", "running", "succeeded", "failed",
                           "retracted", "silent"}]
    /\ promised \subseteq Jobs /\ lost \subseteq Jobs
    /\ up \in BOOLEAN
    /\ drops \in 0..MaxDrops /\ kills \in 0..MaxKills

ChainRecord == [pc : Pc, job : Jobs \cup {None}, kind : Kind, n : Nat]
MsgRecord == [kind : {"none", "error", "done"}, job : Jobs \cup {None}]
FilesRecord == [current : Nat, target : Nat, total : Nat, timer : BOOLEAN]

\* Every variable has the shape the code gives it.
TypeOK ==
    /\ ServerTypeOK
    /\ chain \in [Chains -> ChainRecord]
    /\ currentJob \in Jobs \cup {None}
    /\ pollTimer \in Chains \cup {NoTimer}
    /\ analyzing \in BOOLEAN /\ elapsed \in BOOLEAN
    /\ msg \in MsgRecord
    /\ files \in FilesRecord

Live(c) == chain[c].pc \notin {"none", "end"}

\* What a chain knows: an accepted id, and a job to poll.
ChainsKnow ==
    \A c \in Chains :
        /\ chain[c].kind = "accepted" => chain[c].job \in Jobs
        /\ chain[c].pc \in {"poll", "polled"} => chain[c].job \in Jobs
        /\ chain[c].n > 0 => chain[c].n <= Size[chain[c].job]

\* Will this chain, left alone, reach a verdict or poll a job?
Watching(c) ==
    \/ chain[c].pc \in {"post", "posted"}
    \/ Live(c) /\ currentJob # None

\* The page never says it is analysing when nothing is under way that will
\* clear it: neither a submission nor a poll of a current job, however many
\* submissions overlap and whichever timeout stopTimers cancels.
AnalyzingIsWatched == analyzing => \E c \in Chains : Watching(c)

\* While the button says "Analyze", no chain of an earlier analysis is left
\* to disturb the next one, and the counter stands still.
IdleIsQuiet == ~analyzing => ~files.timer /\ \A c \in Chains : ~Live(c)

\* Without the Enter key there is one analysis at a time, and all that the
\* page keeps belongs to it.
OneLive == \A c, d \in Chains : Live(c) /\ Live(d) => c = d

OwnChain(c) ==
    /\ Live(c) => analyzing
    /\ chain[c].pc \in {"post", "posted"} => files.target = 0
    /\ chain[c].pc \in {"poll", "polled"} => chain[c].job = currentJob
    /\ chain[c].kind = "done" => chain[c].job \in promised

OwnFiles ==
    /\ files.target > 0 =>
          /\ analyzing /\ currentJob \in Jobs
          /\ files.total = Size[currentJob] /\ files.target <= files.total
    /\ files.current <= files.target
    /\ files.timer => analyzing

OneAnalysis == OneLive /\ (\A c \in Chains : OwnChain(c)) /\ OwnFiles

\* "Analysis complete" comes with a link to a job that was declared complete.
CompleteIsComplete == msg.kind = "done" => msg.job \in promised

\* The counter "n/total files analyzed" mixes no two analyses.
CountedWithinTotal ==
    files.timer => files.current <= files.target /\ files.target <= files.total

\* If the server stays up in the end, every analysis the page shows ends.
AnalysisEnds == <>[]up => (analyzing ~> ~analyzing)

\* The counter is never left running after its analysis.
CounterStops == files.timer ~> ~files.timer
=============================================================================
