--------------------------- MODULE LauncherProofs ---------------------------
(***************************************************************************)
(* What holds of the start page for any number of jobs, submissions and    *)
(* server failures: it is never stuck showing an analysis nobody watches,  *)
(* and, as long as Enter is not pressed meanwhile, it never mixes two      *)
(* analyses.                                                               *)
(***************************************************************************)
EXTENDS Launcher, TLAPS

\* The animation never overshoots.
LEMMA JumpType ==
    ASSUME TypeOK, Gap > 0
    PROVE  Jump \in Nat /\ Jump <= Gap
<1>1. Gap \in Int
  BY DEF TypeOK, FilesRecord, Gap
<1>2. Step \in Nat
  BY <1>1 DEF Step
<1>. QED  BY <1>1, <1>2 DEF Jump

\* What an answer of the server does to the chain it is meant for.
AnswerTo(c, job, kind, n) ==
    /\ Replied(c, job, kind, n)
    /\ kind = "accepted" => job \in Jobs
    /\ chain[c].pc = "poll" => job = chain[c].job
    /\ n > 0 => n <= Size[job]
    /\ kind = "done" => job \in promised'

LEMMA AnswerShape ==
    ASSUME TypeOK, ChainsKnow, NEW c \in Chains, Answered(c)
    PROVE  /\ UNCHANGED page
           /\ chain[c].pc \in {"post", "poll"}
           /\ promised \subseteq promised'
           /\ \E job \in Jobs \cup {None}, kind \in Kind, n \in Nat :
                AnswerTo(c, job, kind, n)
<1>0. chain[c].job \in Jobs \cup {None}
  BY DEF TypeOK, ChainRecord
<1>1. ASSUME NEW j \in Jobs, ServerAccepts(c, j) PROVE AnswerTo(c, j, "accepted", 0)
  BY <1>1 DEF ServerAccepts, AnswerTo
<1>2. CASE ServerRejects(c)
  <2>1. AnswerTo(c, None, "rejected", 0)
    BY <1>2 DEF ServerRejects, AnswerTo
  <2> QED
    BY <1>2, <2>1 DEF ServerRejects, Kind, server
<1>3. CASE NoServer(c)
  <2>1. AnswerTo(c, chain[c].job, "lost", 0)
    BY <1>3 DEF NoServer, AnswerTo
  <2> QED
    BY <1>0, <1>3, <2>1 DEF NoServer, Kind, server
<1>4. ASSUME NEW n \in Nat, PollRunning(c, n)
      PROVE  AnswerTo(c, chain[c].job, "running", n)
  BY <1>4 DEF PollRunning, AnswerTo
<1>5. CASE PollDone(c)
  <2>1. AnswerTo(c, chain[c].job, "done", 0)
    BY <1>5 DEF PollDone, AnswerTo, Server!Promise
  <2> QED
    BY <1>0, <1>5, <2>1 DEF PollDone, Kind, Server!Promise
<1>6. CASE PollError(c)
  <2>1. AnswerTo(c, chain[c].job, "error", 0)
    BY <1>6 DEF PollError, AnswerTo
  <2> QED
    BY <1>0, <1>6, <2>1 DEF PollError, Kind, server
<1>7. CASE PollDropped(c)
  <2>1. AnswerTo(c, chain[c].job, "lost", 0)
    BY <1>7 DEF PollDropped, AnswerTo
  <2> QED
    BY <1>0, <1>7, <2>1 DEF PollDropped, Kind
<1>8. CASE \E j \in Jobs : ServerAccepts(c, j)
  <2>1. PICK j \in Jobs : ServerAccepts(c, j)
    BY <1>8
  <2> QED
    BY <1>1, <2>1 DEF ServerAccepts, Kind, Server!Accept, Server!Move
<1>9. CASE \E n \in 0..(IF chain[c].job \in Jobs THEN Size[chain[c].job] ELSE 0) :
              PollRunning(c, n)
  <2>1. PICK n \in Nat : PollRunning(c, n)
    BY <1>9
  <2>2. AnswerTo(c, chain[c].job, "running", n)
    BY <1>4, <2>1
  <2> QED
    BY <1>0, <2>1, <2>2 DEF PollRunning, Kind, server
<1> QED
  BY <1>2, <1>3, <1>5, <1>6, <1>7, <1>8, <1>9 DEF Answered

-----------------------------------------------------------------------------
(* Types *)

LEMMA InitType == Init => TypeOK /\ ChainsKnow
<1>1. NoChain \in ChainRecord /\ NoMsg \in MsgRecord /\ NoFiles \in FilesRecord
  BY DEF NoChain, NoMsg, NoFiles, ChainRecord, MsgRecord, FilesRecord, Pc, Kind
<1>2. Init => ServerTypeOK
  BY BoundsAssumption DEF Init, Server!LInit, ServerTypeOK
<1>3. Init => TypeOK
  BY <1>1, <1>2 DEF Init, TypeOK
<1>4. Init => ChainsKnow
  BY DEF Init, ChainsKnow, NoChain
<1> QED
  BY <1>3, <1>4

\* The server's part of the type is kept by each of its moves.
LEMMA ServerType == TypeOK /\ ChainsKnow /\ [Next]_vars => ServerTypeOK'
<1> SUFFICES ASSUME TypeOK, ChainsKnow, [Next]_vars PROVE ServerTypeOK'
  OBVIOUS
<1> USE DEF TypeOK, ServerTypeOK
<1>1. CASE UNCHANGED server
  BY <1>1 DEF server
<1>2. ASSUME NEW c \in Chains, NEW j \in Jobs, ServerAccepts(c, j)
      PROVE  ServerTypeOK'
  BY <1>2 DEF ServerAccepts, Server!Accept, Server!Move
<1>3. ASSUME NEW c \in Chains, PollDone(c) PROVE ServerTypeOK'
  <2>1. chain[c].job \in Jobs
    BY <1>3 DEF PollDone, ChainsKnow
  <2> QED
    BY <1>3, <2>1 DEF PollDone, Server!Promise
<1>4. ASSUME NEW c \in Chains, PollDropped(c) PROVE ServerTypeOK'
  BY <1>4, BoundsAssumption DEF PollDropped
<1>5. ASSUME NEW j \in Jobs, JobEnds(j) \/ JobRetracted(j)
      PROVE  ServerTypeOK'
  BY <1>5 DEF JobEnds, JobRetracted, Server!Succeed, Server!Fail, Server!FailSilently,
              Server!Retract, Server!Move
<1>6. CASE ServerKilled
  <2>1. kills' \in 0..MaxKills
    BY <1>6, BoundsAssumption DEF ServerKilled
  <2>2. lost' \subseteq Jobs /\ up' \in BOOLEAN
    BY <1>6 DEF ServerKilled
  <2> QED
    BY <1>6, <2>1, <2>2 DEF ServerKilled
<1>7. CASE ServerStarted
  BY <1>7 DEF ServerStarted
<1>8. ASSUME NEW c \in Chains, Answered(c) PROVE ServerTypeOK'
  BY <1>1, <1>2, <1>3, <1>4, <1>8
     DEF Answered, ServerRejects, NoServer, PollRunning, PollError
<1>9. ASSUME NEW c \in Chains, Handled(c) \/ Start(c) PROVE UNCHANGED server
  BY <1>9 DEF Handled, Start, PostFailed, PostAccepted, PollAgain, PollEnds,
              TimerFires
<1>10. CASE NoPath \/ Tick \/ UNCHANGED vars
  BY <1>1, <1>10 DEF NoPath, Tick, vars
<1> HIDE DEF TypeOK, ServerTypeOK
<1> QED
  BY <1>1, <1>5, <1>6, <1>7, <1>8, <1>9, <1>10 DEF Next
\* An answer on its way is a chain record like any other.
LEMMA AnswerType ==
    ASSUME TypeOK, ChainsKnow, NEW c \in Chains, Answered(c)
    PROVE  TypeOK' /\ ChainsKnow'
<1>1. PICK job \in Jobs \cup {None}, kind \in Kind, n \in Nat :
          AnswerTo(c, job, kind, n)
  BY AnswerShape
<1>2. UNCHANGED page /\ chain[c].pc \in {"post", "poll"}
  BY AnswerShape
<1> DEFINE r == [pc |-> IF chain[c].pc = "post" THEN "posted" ELSE "polled",
                 job |-> job, kind |-> kind, n |-> n]
<1>3. r \in ChainRecord
  BY DEF ChainRecord, Pc
<1>4. chain' = [chain EXCEPT ![c] = r]
  BY <1>1 DEF AnswerTo, Replied, Goes
<1>5. chain' \in [Chains -> ChainRecord] /\ chain'[c] = r
  BY <1>3, <1>4 DEF TypeOK
<1>6. ServerTypeOK'
  BY ServerType DEF Next
<1>7. TypeOK'
  BY <1>2, <1>5, <1>6 DEF TypeOK, page
<1>8. /\ kind = "accepted" => job \in Jobs
      /\ r.pc = "polled" => job \in Jobs
      /\ n > 0 => n <= Size[job]
  BY <1>1, <1>2 DEF AnswerTo, ChainsKnow
<1>9. ASSUME NEW d \in Chains
      PROVE  /\ chain'[d].kind = "accepted" => chain'[d].job \in Jobs
             /\ chain'[d].pc \in {"poll", "polled"} => chain'[d].job \in Jobs
             /\ chain'[d].n > 0 => chain'[d].n <= Size[chain'[d].job]
  <2>1. CASE d = c
    BY <1>5, <1>8, <2>1
  <2>2. CASE d # c
    <3>1. chain'[d] = chain[d]
      BY <1>4, <2>2 DEF TypeOK
    <3> QED
      BY <3>1 DEF ChainsKnow
  <2> QED
    BY <2>1, <2>2
<1> QED
  BY <1>7, <1>9 DEF ChainsKnow

\* A chain that moves to a record that knows what it needs.
LEMMA GoesType ==
    ASSUME TypeOK, ChainsKnow, NEW c \in Chains, NEW r \in ChainRecord,
           Goes(c, r), r.kind = "none", r.n = 0,
           r.pc \in {"poll", "polled"} => r.job \in Jobs
    PROVE  chain' \in [Chains -> ChainRecord] /\ ChainsKnow'
<1>1. chain' = [chain EXCEPT ![c] = r]
  BY DEF Goes
<1>2. chain' \in [Chains -> ChainRecord]
  BY <1>1 DEF TypeOK
<1>3. ASSUME NEW d \in Chains
      PROVE  /\ chain'[d].kind = "accepted" => chain'[d].job \in Jobs
             /\ chain'[d].pc \in {"poll", "polled"} => chain'[d].job \in Jobs
             /\ chain'[d].n > 0 => chain'[d].n <= Size[chain'[d].job]
  <2>1. CASE d = c
    <3>1. chain'[d] = r
      BY <1>1, <2>1 DEF TypeOK
    <3> QED
      BY <3>1
  <2>2. CASE d # c
    <3>1. chain'[d] = chain[d]
      BY <1>1, <2>2 DEF TypeOK
    <3> QED
      BY <3>1 DEF ChainsKnow
  <2> QED
    BY <2>1, <2>2
<1> QED
  BY <1>2, <1>3 DEF ChainsKnow

LEMMA AtIs ==
    ASSUME NEW pc \in Pc
    PROVE  /\ At(pc) \in ChainRecord /\ At(pc).pc = pc
           /\ At(pc).job = None /\ At(pc).kind = "none" /\ At(pc).n = 0
  BY DEF At, NoChain, ChainRecord, Kind

LEMMA PollingIs ==
    ASSUME NEW j \in Jobs
    PROVE  /\ Polling(j) \in ChainRecord /\ Polling(j).pc = "poll"
           /\ Polling(j).job = j /\ Polling(j).kind = "none"
           /\ Polling(j).n = 0
  BY DEF Polling, At, NoChain, ChainRecord, Kind, Pc

LEMMA ChainStepType ==
    ASSUME TypeOK, ChainsKnow, NEW c \in Chains, Start(c) \/ Handled(c)
    PROVE  chain' \in [Chains -> ChainRecord] /\ ChainsKnow'
<1>1. ASSUME NEW pc \in Pc, pc \notin {"poll", "polled"}, Goes(c, At(pc))
      PROVE  chain' \in [Chains -> ChainRecord] /\ ChainsKnow'
  BY <1>1, AtIs, GoesType
<1>2. ASSUME NEW j \in Jobs, Goes(c, Polling(j))
      PROVE  chain' \in [Chains -> ChainRecord] /\ ChainsKnow'
  BY <1>2, PollingIs, GoesType
<1>3. CASE Start(c)
  BY <1>1, <1>3 DEF Start, Pc
<1>4. CASE PostFailed(c)
  BY <1>1, <1>4 DEF PostFailed, Pc
<1>5. CASE PostAccepted(c)
  BY <1>2, <1>5 DEF PostAccepted, ChainsKnow
<1>6. CASE PollAgain(c)
  BY <1>1, <1>6 DEF PollAgain, Later, Pc
<1>7. CASE TimerFires(c)
  <2>1. CASE currentJob = None
    BY <1>1, <1>7, <2>1 DEF TimerFires, Pc
  <2>2. CASE currentJob # None
    <3>1. currentJob \in Jobs
      BY <2>2 DEF TypeOK
    <3> QED
      BY <1>2, <1>7, <2>2, <3>1 DEF TimerFires
  <2> QED
    BY <2>1, <2>2
<1>8. CASE PollEnds(c)
  <2>1. ASSUME NEW d \in Chains
        PROVE  chain'[d] = At("end") \/ chain'[d] = chain[d]
    BY <1>8 DEF PollEnds, Stopped
  <2>2. chain' \in [Chains -> ChainRecord]
    BY <1>8, AtIs DEF PollEnds, Stopped, TypeOK, Pc
  <2> QED
    BY <2>1, <2>2, AtIs DEF ChainsKnow, Pc
<1> QED
  BY <1>3, <1>4, <1>5, <1>6, <1>7, <1>8 DEF Handled

LEMMA FilesType ==
    ASSUME TypeOK, ChainsKnow,
           Tick \/ \E c \in Chains : Start(c) \/ Handled(c)
    PROVE  files' \in FilesRecord
<1>1. CASE Tick
  <2>1. CASE Gap > 0
    <3>1. files.current + Jump \in Nat
      BY <2>1, JumpType DEF TypeOK, FilesRecord
    <3> QED
      BY <1>1, <2>1, <3>1 DEF Tick, TypeOK, FilesRecord
  <2>2. CASE ~(Gap > 0)
    BY <1>1, <2>2 DEF Tick, TypeOK, FilesRecord
  <2> QED
    BY <2>1, <2>2
<1>2. Reset \in FilesRecord
  BY DEF Reset, NoFiles, TypeOK, FilesRecord
<1>3. ASSUME NEW c \in Chains, PollAgain(c) PROVE files' \in FilesRecord
  <2>1. CASE chain[c].kind = "running" /\ chain[c].n > 0
    <3>1. Size[chain[c].job] \in Nat /\ chain[c].n \in Nat
      BY <1>3, SizeAssumption DEF PollAgain, ChainsKnow, TypeOK, ChainRecord
    <3> QED
      BY <1>3, <2>1, <3>1 DEF PollAgain, Counted, TypeOK, FilesRecord
  <2>2. CASE ~(chain[c].kind = "running" /\ chain[c].n > 0)
    BY <1>3, <2>2 DEF PollAgain, TypeOK, FilesRecord
  <2> QED
    BY <2>1, <2>2
<1>4. ASSUME NEW c \in Chains, Start(c) \/ Handled(c), ~PollAgain(c)
      PROVE  files' \in FilesRecord
  BY <1>2, <1>4 DEF Start, Handled, PostFailed, PostAccepted, PollEnds,
                    TimerFires, NotAnalyzing, page, TypeOK
<1> QED
  BY <1>1, <1>3, <1>4

LEMMA StepType == TypeOK /\ ChainsKnow /\ [Next]_vars => TypeOK' /\ ChainsKnow'
<1> SUFFICES ASSUME TypeOK, ChainsKnow, [Next]_vars PROVE TypeOK' /\ ChainsKnow'
  OBVIOUS
<1>1. ServerTypeOK'
  BY ServerType
<1>2. ASSUME UNCHANGED <<chain, page>> PROVE TypeOK' /\ ChainsKnow'
  BY <1>1, <1>2 DEF TypeOK, ChainsKnow, page
<1>3. CASE NoPath
  <2>1. msg' \in MsgRecord
    BY <1>3 DEF NoPath, MsgRecord
  <2> QED
    BY <1>1, <1>3, <2>1 DEF NoPath, TypeOK, ChainsKnow
<1>4. CASE Tick
  BY <1>1, <1>4, FilesType DEF Tick, TypeOK, ChainsKnow
<1>5. ASSUME NEW c \in Chains, Start(c) \/ Handled(c)
      PROVE  TypeOK' /\ ChainsKnow'
  <2>1. chain' \in [Chains -> ChainRecord] /\ ChainsKnow'
    BY <1>5, ChainStepType
  <2>2. files' \in FilesRecord
    BY <1>5, FilesType
  <2>3. currentJob' \in Jobs \cup {None}
    BY <1>5 DEF Start, Handled, PostFailed, PostAccepted, PollAgain, PollEnds,
                TimerFires, page, TypeOK, ChainsKnow
  <2>4. pollTimer' \in Chains \cup {NoTimer}
    BY <1>5 DEF Start, Handled, PostFailed, PostAccepted, PollAgain, PollEnds,
                TimerFires, page, TypeOK, Later
  <2>5. analyzing' \in BOOLEAN
    BY <1>5 DEF Start, Handled, PostFailed, PostAccepted, PollAgain, PollEnds,
                TimerFires, page, TypeOK, NotAnalyzing
  <2>6. elapsed' \in BOOLEAN
    BY <1>5 DEF Start, Handled, PostFailed, PostAccepted, PollAgain, PollEnds,
                TimerFires, page, TypeOK, Stopped
  <2>7. msg' \in MsgRecord
    BY <1>5 DEF Start, Handled, PostFailed, PostAccepted, PollAgain, PollEnds,
                TimerFires, page, TypeOK, NoMsg, MsgRecord
  <2> QED
    BY <1>1, <2>1, <2>2, <2>3, <2>4, <2>5, <2>6, <2>7 DEF TypeOK
<1>6. ASSUME NEW j \in Jobs, JobEnds(j) \/ JobRetracted(j)
      PROVE  UNCHANGED <<chain, page>>
  BY <1>6 DEF JobEnds, JobRetracted
<1>7. CASE ServerKilled \/ ServerStarted \/ UNCHANGED vars
  BY <1>2, <1>7 DEF ServerKilled, ServerStarted, vars
<1> QED
  BY <1>2, <1>3, <1>4, <1>5, <1>6, <1>7, AnswerType DEF Next

THEOREM TypeCorrect == Spec => []TypeOK
<1>1. Init => TypeOK /\ ChainsKnow
  BY InitType
<1>2. TypeOK /\ ChainsKnow /\ [Next]_vars => (TypeOK /\ ChainsKnow)'
  BY StepType
<1> QED
  BY <1>1, <1>2, PTL DEF Spec
-----------------------------------------------------------------------------
(* The page is never stuck *)

LEMMA StepWatched ==
    TypeOK /\ ChainsKnow /\ AnalyzingIsWatched /\ [Next]_vars
        => AnalyzingIsWatched'
<1> SUFFICES ASSUME TypeOK, ChainsKnow, AnalyzingIsWatched, [Next]_vars,
                    analyzing'
             PROVE  \E c \in Chains : Watching(c)'
  BY DEF AnalyzingIsWatched
<1>1. ASSUME UNCHANGED <<chain, page>> PROVE \E c \in Chains : Watching(c)'
  BY <1>1 DEF AnalyzingIsWatched, Watching, Live, page
<1>2. CASE NoPath \/ Tick
  BY <1>2 DEF NoPath, Tick, AnalyzingIsWatched, Watching, Live
<1>3. ASSUME NEW c \in Chains, Start(c) PROVE Watching(c)'
  BY <1>3 DEF Start, Goes, At, Watching, TypeOK
<1>4. ASSUME NEW c \in Chains, Answered(c)
      PROVE  \E d \in Chains : Watching(d)'
  <2>1. PICK job \in Jobs \cup {None}, kind \in Kind, n \in Nat :
            AnswerTo(c, job, kind, n)
    BY <1>4, AnswerShape
  <2>2. UNCHANGED page /\ chain[c].pc \in {"post", "poll"}
    BY <1>4, AnswerShape
  <2>3. chain'[c].pc = IF chain[c].pc = "post" THEN "posted" ELSE "polled"
    BY <2>1 DEF AnswerTo, Replied, Goes, TypeOK
  <2>4. \A d \in Chains \ {c} : chain'[d] = chain[d]
    BY <2>1 DEF AnswerTo, Replied, Goes, TypeOK
  <2>5. PICK d \in Chains : Watching(d)
    BY <2>2 DEF AnalyzingIsWatched, page
  <2>6. CASE d = c
    BY <2>2, <2>3, <2>5, <2>6 DEF Watching, Live, page
  <2>7. CASE d # c
    BY <2>2, <2>4, <2>5, <2>7 DEF Watching, Live, page
  <2> QED
    BY <2>6, <2>7
<1>5. ASSUME NEW c \in Chains, PostAccepted(c) PROVE Watching(c)'
  <2>1. currentJob' \in Jobs
    BY <1>5 DEF PostAccepted, ChainsKnow
  <2>2. chain'[c].pc = "poll"
    BY <1>5 DEF PostAccepted, Goes, Polling, At, NoChain, TypeOK
  <2> QED
    BY <2>1, <2>2, NamesAssumption DEF Watching, Live, None
<1>6. ASSUME NEW c \in Chains, PollAgain(c)
      PROVE  \E d \in Chains : Watching(d)'
  <2>1. PICK d \in Chains : Watching(d)
    BY <1>6 DEF PollAgain, AnalyzingIsWatched
  <2>2. chain'[c].pc = "timer" /\ \A e \in Chains \ {c} : chain'[e] = chain[e]
    BY <1>6 DEF PollAgain, Later, Goes, At, NoChain, TypeOK
  <2>3. CASE d = c
    BY <1>6, <2>1, <2>2, <2>3 DEF PollAgain, Watching, Live
  <2>4. CASE d # c
    BY <1>6, <2>1, <2>2, <2>4 DEF PollAgain, Watching, Live
  <2> QED
    BY <2>3, <2>4
<1>7. ASSUME NEW c \in Chains, TimerFires(c)
      PROVE  \E d \in Chains : Watching(d)'
  <2>1. PICK d \in Chains : Watching(d)
    BY <1>7 DEF TimerFires, AnalyzingIsWatched, page
  <2>2. \A e \in Chains \ {c} : chain'[e] = chain[e]
    BY <1>7 DEF TimerFires, Goes, TypeOK
  <2>3. CASE d # c
    BY <1>7, <2>1, <2>2, <2>3 DEF TimerFires, Watching, Live, page
  <2>4. CASE d = c
    <3>1. currentJob # None
      BY <1>7, <2>1, <2>4 DEF TimerFires, Watching
    <3>2. chain'[c].pc = "poll"
      BY <1>7, <3>1 DEF TimerFires, Goes, Polling, At, NoChain, TypeOK
    <3> QED
      BY <1>7, <3>1, <3>2 DEF TimerFires, Watching, Live, page
  <2> QED
    BY <2>3, <2>4
<1>8. ASSUME NEW c \in Chains, PostFailed(c) \/ PollEnds(c) PROVE FALSE
  BY <1>8 DEF PostFailed, PollEnds, NotAnalyzing
<1>9. ASSUME NEW j \in Jobs, JobEnds(j) \/ JobRetracted(j)
      PROVE  UNCHANGED <<chain, page>>
  BY <1>9 DEF JobEnds, JobRetracted
<1>10. CASE ServerKilled \/ ServerStarted \/ UNCHANGED vars
  BY <1>1, <1>10 DEF ServerKilled, ServerStarted, vars
<1> QED
  BY <1>1, <1>2, <1>3, <1>4, <1>5, <1>6, <1>7, <1>8, <1>9, <1>10
     DEF Next, Handled

\* However many submissions overlap, with Enter or without, a page that shows
\* an analysis has a chain under way that can still end it.
THEOREM Watched == Spec => []AnalyzingIsWatched
<1> DEFINE IInv == TypeOK /\ ChainsKnow /\ AnalyzingIsWatched
<1>1. Init => IInv
  BY InitType DEF Init, AnalyzingIsWatched
<1>2. IInv /\ [Next]_vars => IInv'
  BY StepType, StepWatched
<1> QED
  BY <1>1, <1>2, PTL DEF Spec

-----------------------------------------------------------------------------
(* Without the Enter key analyses do not mix *)

Button == TypeOK /\ ChainsKnow /\ OneAnalysis

LEMMA OneAnswered ==
    ASSUME Button, NEW c \in Chains, Answered(c)
    PROVE  OneAnalysis'
<1> USE DEF Button
<1>1. PICK job \in Jobs \cup {None}, kind \in Kind, n \in Nat :
          AnswerTo(c, job, kind, n)
  BY AnswerShape
<1>2. /\ UNCHANGED page /\ chain[c].pc \in {"post", "poll"}
      /\ promised \subseteq promised'
  BY AnswerShape
<1>3. /\ chain'[c].pc = IF chain[c].pc = "post" THEN "posted" ELSE "polled"
      /\ chain'[c].job = job /\ chain'[c].kind = kind
  BY <1>1 DEF AnswerTo, Replied, Goes, TypeOK
<1>4. \A d \in Chains \ {c} : chain'[d] = chain[d]
  BY <1>1 DEF AnswerTo, Replied, Goes, TypeOK
<1>5. \A d \in Chains : Live(d)' <=> Live(d)
  BY <1>2, <1>3, <1>4 DEF Live
<1>6. OneLive'
  BY <1>5 DEF OneAnalysis, OneLive
<1>7. OwnChain(c)'
  BY <1>1, <1>2, <1>3, <1>5 DEF AnswerTo, OneAnalysis, OwnChain, page
<1>8. ASSUME NEW d \in Chains \ {c} PROVE OwnChain(d)'
  BY <1>2, <1>4, <1>5, <1>8 DEF OneAnalysis, OwnChain, page
<1>9. OwnFiles'
  BY <1>2 DEF OneAnalysis, OwnFiles, page
<1> QED
  BY <1>6, <1>7, <1>8, <1>9 DEF OneAnalysis

\* A step of the only live chain: the others are not live and stay so.
LEMMA OneMoves ==
    ASSUME Button, NEW c \in Chains, NEW r, Goes(c, r),
           Live(c) \/ ~analyzing,
           r.pc \notin {"none", "end"} => analyzing',
           r.pc \in {"post", "posted"} => files'.target = 0,
           r.pc \in {"poll", "polled"} => r.job = currentJob',
           r.kind # "done", promised' = promised
    PROVE  OneLive' /\ \A d \in Chains : OwnChain(d)'
<1> USE DEF Button
<1>1. chain'[c] = r /\ \A d \in Chains \ {c} : chain'[d] = chain[d]
  BY DEF Goes, TypeOK
<1>2. \A d \in Chains \ {c} : ~Live(d)
  BY DEF OneAnalysis, OneLive, OwnChain
<1>3. \A d \in Chains \ {c} : ~Live(d)'
  BY <1>1, <1>2 DEF Live
<1>4. OwnChain(c)'
  BY <1>1 DEF OwnChain, Live
<1>5. ASSUME NEW d \in Chains \ {c} PROVE OwnChain(d)'
  BY <1>1, <1>2, <1>3, <1>5 DEF OneAnalysis, OwnChain, Live
<1> QED
  BY <1>3, <1>4, <1>5 DEF OneLive

LEMMA ResetIs ==
    Reset.target = 0 /\ Reset.current = 0 /\ Reset.timer = FALSE
  BY DEF Reset, NoFiles

LEMMA OneHandled ==
    ASSUME Button, EnterKey = FALSE, NEW c \in Chains, Start(c) \/ Handled(c)
    PROVE  OneAnalysis'
<1> USE DEF Button
<1>1. CASE Start(c)
  <2>1. ~analyzing /\ files.target = 0
    BY <1>1 DEF Start, Clickable, OneAnalysis, OwnFiles, TypeOK, FilesRecord
  <2>2. OneLive' /\ \A d \in Chains : OwnChain(d)'
    BY <1>1, <2>1, AtIs, OneMoves DEF Start, server, Pc
  <2>3. OwnFiles'
    BY <1>1, <2>1 DEF Start, OneAnalysis, OwnFiles
  <2> QED
    BY <2>2, <2>3 DEF OneAnalysis
<1>2. CASE PostFailed(c)
  <2>1. OneLive' /\ \A d \in Chains : OwnChain(d)'
    BY <1>2, AtIs, OneMoves DEF PostFailed, Live, server, Pc
  <2>2. OwnFiles'
    BY <1>2, ResetIs DEF PostFailed, NotAnalyzing, OwnFiles
  <2> QED
    BY <2>1, <2>2 DEF OneAnalysis
<1>3. CASE PostAccepted(c)
  <2>1. chain[c].job \in Jobs /\ analyzing /\ files.target = 0
    BY <1>3 DEF PostAccepted, ChainsKnow, OneAnalysis, OwnChain, Live
  <2>2. OneLive' /\ \A d \in Chains : OwnChain(d)'
    BY <1>3, <2>1, PollingIs, OneMoves DEF PostAccepted, Live, server
  <2>3. OwnFiles'
    BY <1>3, <2>1 DEF PostAccepted, OneAnalysis, OwnFiles
  <2> QED
    BY <2>2, <2>3 DEF OneAnalysis
<1>4. CASE PollAgain(c)
  <2>1. analyzing /\ chain[c].job = currentJob /\ chain[c].job \in Jobs
    BY <1>4 DEF PollAgain, ChainsKnow, OneAnalysis, OwnChain, Live
  <2>2. OneLive' /\ \A d \in Chains : OwnChain(d)'
    BY <1>4, <2>1, AtIs, OneMoves DEF PollAgain, Later, Live, server, Pc
  <2>3. OwnFiles'
    <3>1. CASE chain[c].kind = "running" /\ chain[c].n > 0
      <4>1. /\ Size[currentJob] \in Nat /\ chain[c].n \in Nat
            /\ chain[c].n <= Size[currentJob]
        BY <2>1, <3>1, SizeAssumption DEF ChainsKnow, TypeOK, ChainRecord
      <4>2. /\ files'.total = Size[currentJob]
            /\ files'.target =
                  IF chain[c].n > files.target THEN chain[c].n ELSE files.target
            /\ files'.current = files.current
        BY <1>4, <2>1, <3>1 DEF PollAgain, Counted, TypeOK, FilesRecord
      <4>3. UNCHANGED <<analyzing, currentJob>>
        BY <1>4 DEF PollAgain
      <4> QED
        BY <2>1, <4>1, <4>2, <4>3 DEF OneAnalysis, OwnFiles, TypeOK, FilesRecord
    <3>2. CASE ~(chain[c].kind = "running" /\ chain[c].n > 0)
      <4>1. /\ files'.total = files.total /\ files'.target = files.target
            /\ files'.current = files.current
            /\ UNCHANGED <<analyzing, currentJob>>
        BY <1>4, <3>2 DEF PollAgain, TypeOK, FilesRecord
      <4> QED
        BY <2>1, <4>1 DEF OneAnalysis, OwnFiles
    <3> QED
      BY <3>1, <3>2
  <2> QED
    BY <2>2, <2>3 DEF OneAnalysis
<1>5. CASE TimerFires(c)
  <2>1. analyzing /\ Live(c)
    BY <1>5 DEF TimerFires, OneAnalysis, OwnChain, Live
  <2>2. CASE currentJob = None
    <3>1. Goes(c, At("end")) /\ UNCHANGED <<server, page>>
      BY <1>5, <2>2 DEF TimerFires
    <3>2. OneLive' /\ \A d \in Chains : OwnChain(d)'
      BY <2>1, <3>1, AtIs, OneMoves DEF server, Pc
    <3> QED
      BY <3>1, <3>2 DEF OneAnalysis, OwnFiles, page
  <2>3. CASE currentJob # None
    <3>1. Goes(c, Polling(currentJob)) /\ UNCHANGED <<server, page>>
      BY <1>5, <2>3 DEF TimerFires
    <3>2. currentJob \in Jobs
      BY <2>3 DEF TypeOK
    <3>3. OneLive' /\ \A d \in Chains : OwnChain(d)'
      BY <2>1, <3>1, <3>2, PollingIs, OneMoves DEF server, page
    <3> QED
      BY <3>1, <3>3 DEF OneAnalysis, OwnFiles, page
  <2> QED
    BY <2>2, <2>3
<1>6. CASE PollEnds(c)
  <2>1. \A d \in Chains : ~Live(d)'
    <3>1. \A d \in Chains \ {c} : ~Live(d)
      BY <1>6 DEF PollEnds, OneAnalysis, OneLive, Live
    <3>2. chain'[c] = At("end")
      BY <1>6 DEF PollEnds, Stopped
    <3>3. \A d \in Chains : chain'[d] = At("end") \/ chain'[d] = chain[d]
      BY <1>6 DEF PollEnds, Stopped
    <3> QED
      BY <3>1, <3>2, <3>3, AtIs DEF Live, Pc
  <2>2. ASSUME NEW d \in Chains PROVE OwnChain(d)'
    <3>1. chain'[d] = At("end") \/ chain'[d] = chain[d]
      BY <1>6 DEF PollEnds, Stopped
    <3>2. promised' = promised
      BY <1>6 DEF PollEnds, server
    <3>3. chain'[d].kind = "done" => chain'[d].job \in promised'
      BY <3>1, <3>2, AtIs DEF OneAnalysis, OwnChain, Pc
    <3> QED
      BY <2>1, <3>3 DEF OwnChain, Live
  <2>3. OwnFiles'
    BY <1>6, ResetIs DEF PollEnds, NotAnalyzing, OwnFiles
  <2> QED
    BY <2>1, <2>2, <2>3 DEF OneAnalysis, OneLive
<1> QED
  BY <1>1, <1>2, <1>3, <1>4, <1>5, <1>6 DEF Handled

LEMMA StepOne ==
    ASSUME Button, EnterKey = FALSE, [Next]_vars
    PROVE  OneAnalysis'
<1> USE DEF Button
<1>1. ASSUME UNCHANGED <<chain, files, currentJob, analyzing>>,
             promised \subseteq promised'
      PROVE  OneAnalysis'
  BY <1>1 DEF OneAnalysis, OneLive, OwnChain, OwnFiles, Live
<1>2. CASE Tick
  <2>1. /\ UNCHANGED <<chain, currentJob, analyzing, promised>>
        /\ files'.target = files.target /\ files'.total = files.total
        /\ files'.timer => files.timer
    BY <1>2 DEF Tick, server, TypeOK, FilesRecord
  <2>2. files'.current <= files'.target
    <3>1. CASE Gap > 0
      BY <1>2, <2>1, <3>1, JumpType DEF Tick, Gap, TypeOK, FilesRecord
    <3>2. CASE ~(Gap > 0)
      BY <1>2, <2>1, <3>2 DEF Tick, OneAnalysis, OwnFiles, TypeOK, FilesRecord
    <3> QED
      BY <3>1, <3>2
  <2>3. OwnFiles'
    BY <2>1, <2>2 DEF OneAnalysis, OwnFiles
  <2>4. OneLive' /\ \A c \in Chains : OwnChain(c)'
    BY <2>1 DEF OneAnalysis, OneLive, OwnChain, Live
  <2> QED
    BY <2>3, <2>4 DEF OneAnalysis
<1>3. ASSUME NEW j \in Jobs, JobEnds(j) \/ JobRetracted(j) PROVE OneAnalysis'
  BY <1>1, <1>3 DEF JobEnds, JobRetracted, page, Server!Succeed, Server!Fail, Server!FailSilently,
                    Server!Retract, Server!Move
<1>4. CASE NoPath \/ ServerKilled \/ ServerStarted \/ UNCHANGED vars
  BY <1>1, <1>4 DEF NoPath, ServerKilled, ServerStarted, vars, server, page
<1> QED
  BY <1>2, <1>3, <1>4, OneAnswered, OneHandled DEF Next

\* The message follows from the chain that ends.
LEMMA StepComplete ==
    ASSUME Button, CompleteIsComplete, [Next]_vars
    PROVE  CompleteIsComplete'
<1> USE DEF Button
<1>1. promised \subseteq promised'
  <2>1. ASSUME NEW c \in Chains, Answered(c) PROVE promised \subseteq promised'
    BY <2>1, AnswerShape
  <2>2. ASSUME NEW c \in Chains, Start(c) \/ Handled(c) PROVE promised' = promised
    BY <2>2 DEF Start, Handled, PostFailed, PostAccepted, PollAgain, PollEnds,
                TimerFires, server
  <2>3. ASSUME NEW j \in Jobs, JobEnds(j) \/ JobRetracted(j)
        PROVE  promised' = promised
    BY <2>3 DEF JobEnds, JobRetracted, Server!Succeed, Server!Fail, Server!FailSilently,
                Server!Retract, Server!Move
  <2> QED
    BY <2>1, <2>2, <2>3 DEF Next, NoPath, Tick, ServerKilled, ServerStarted,
                            vars, server
<1>2. ASSUME NEW c \in Chains, PollEnds(c) PROVE CompleteIsComplete'
  BY <1>1, <1>2 DEF PollEnds, OneAnalysis, OwnChain, CompleteIsComplete
<1>3. ASSUME NEW c \in Chains, Answered(c) PROVE msg' = msg
  BY <1>3, AnswerShape DEF page
<1>4. msg' = msg \/ msg'.kind # "done" \/ \E c \in Chains : PollEnds(c)
  <2>1. CASE NoPath
    BY <2>1 DEF NoPath
  <2>2. ASSUME NEW c \in Chains, Start(c) \/ Handled(c), ~PollEnds(c)
        PROVE  msg' = msg \/ msg'.kind # "done"
    BY <2>2 DEF Start, Handled, PostFailed, PostAccepted, PollAgain,
                TimerFires, page, NoMsg
  <2>3. ASSUME NEW j \in Jobs, JobEnds(j) \/ JobRetracted(j) PROVE msg' = msg
    BY <2>3 DEF JobEnds, JobRetracted, page
  <2>4. CASE Tick \/ ServerKilled \/ ServerStarted \/ UNCHANGED vars
    BY <2>4 DEF Tick, ServerKilled, ServerStarted, vars, page
  <2> QED
    BY <1>3, <2>1, <2>2, <2>3, <2>4 DEF Next
<1> QED
  BY <1>1, <1>2, <1>4 DEF CompleteIsComplete

\* As long as Enter is not pressed during an analysis, the idle page is quiet,
\* "complete" names a job that is, and the counter is of one analysis.
THEOREM ButtonSafe ==
    ASSUME EnterKey = FALSE
    PROVE  Spec => [](IdleIsQuiet /\ CompleteIsComplete /\ CountedWithinTotal)
<1>1. Init => Button /\ CompleteIsComplete
  <2>1. Init => OneAnalysis
    BY DEF Init, OneAnalysis, OneLive, OwnChain, OwnFiles, Live, NoChain,
           NoFiles
  <2>2. Init => CompleteIsComplete
    BY DEF Init, CompleteIsComplete, NoMsg
  <2> QED
    BY <2>1, <2>2, InitType DEF Button
<1>2. Button /\ CompleteIsComplete /\ [Next]_vars
         => (Button /\ CompleteIsComplete)'
  BY StepType, StepOne, StepComplete DEF Button
<1>3. Button => IdleIsQuiet /\ CountedWithinTotal
  BY DEF Button, TypeOK, FilesRecord, OneAnalysis, OwnChain, OwnFiles,
         IdleIsQuiet, CountedWithinTotal
<1> QED
  BY <1>1, <1>2, <1>3, PTL DEF Spec
=============================================================================
