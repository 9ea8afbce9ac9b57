-------------------------- MODULE CliServerProofs --------------------------
(***************************************************************************)
(* Theorems of the terminal clients and the servers they share, for any    *)
(* number of clients, processes and ports, whatever is interrupted, slow   *)
(* or taken by another program.                                            *)
(***************************************************************************)
EXTENDS CliServer, TLAPS

ServerRecord == [pc : {"none", "starting", "serving", "killed", "dead", "blocked"},
                 port : Ports, owner : Clients \cup {None}]
ClientRecord == [pc : ClientPc, cand : Ports, PORT : Ports, proc : Pids \cup {None},
                 job : Pids \cup {None}, tries : Nat]

\* The shape of the state, with the record sets named.
LEMMA TypeIs ==
  /\ TypeOK <=> /\ port \in [Ports -> Pids \cup {"free", "wait", "test", "other"}]
                /\ server \in [Pids -> ServerRecord]
                /\ client \in [Clients -> ClientRecord]
                /\ finished \subseteq Clients
  /\ TypeOK' <=> /\ port' \in [Ports -> Pids \cup {"free", "wait", "test", "other"}]
                 /\ server' \in [Pids -> ServerRecord]
                 /\ client' \in [Clients -> ClientRecord]
                 /\ finished' \subseteq Clients
BY DEF TypeOK, ServerRecord, ClientRecord

LEMMA TypeInit == Init => TypeOK
<1> SUFFICES ASSUME Init PROVE TypeOK
  OBVIOUS
<1>1. 0 \in Ports
  BY BoundsAssumption DEF Ports
<1>2. NoProcess \in ServerRecord
  BY <1>1 DEF NoProcess, ServerRecord
<1>3. NewClient \in ClientRecord
  BY <1>1 DEF NewClient, ClientRecord, ClientPc
<1> QED
  BY <1>2, <1>3 DEF Init, TypeOK, ServerRecord, ClientRecord

\* A client that moves keeps its shape.
LEMMA TypeMoves ==
  ASSUME TypeOK, NEW c \in Clients, NEW r \in ClientRecord, Becomes(c, r)
  PROVE  client' \in [Clients -> ClientRecord]
BY DEF TypeOK, Becomes, ClientRecord

\* The client records the code writes have the shape of one.
LEMMA Shapes ==
  ASSUME NEW r \in ClientRecord
  PROVE  /\ \A pc \in ClientPc : [r EXCEPT !.pc = pc] \in ClientRecord
         /\ \A pc \in {"menu", "gone"} : [r EXCEPT !.pc = pc, !.cand = 0, !.job = None,
                                                   !.tries = 0] \in ClientRecord
         /\ [r EXCEPT !.pc = "running", !.PORT = r.cand] \in ClientRecord
         /\ r.cand < LastPort => [r EXCEPT !.pc = "probe", !.cand = @ + 1] \in ClientRecord
         /\ \A s \in Pids : /\ [r EXCEPT !.pc = "wait", !.proc = s] \in ClientRecord
                            /\ [r EXCEPT !.pc = "poll", !.job = s] \in ClientRecord
         /\ \A pc \in {"wait", "last"}, n \in Nat :
               [r EXCEPT !.pc = pc, !.tries = n] \in ClientRecord
         /\ [NewClient EXCEPT !.pc = "stopped"] \in ClientRecord
<1>1. /\ 0 \in Ports /\ r.cand \in Ports
      /\ r.cand < LastPort => r.cand + 1 \in Ports
      /\ {"menu", "gone", "probe", "running", "wait", "last", "poll", "stopped"} \subseteq ClientPc
  BY BoundsAssumption DEF Ports, ClientRecord, ClientPc
<1> HIDE DEF Ports, ClientPc
<1> QED
  BY <1>1 DEF ClientRecord, NewClient

LEMMA TypeClientStep == ASSUME TypeOK, NEW c \in Clients, ClientStep(c) PROVE TypeOK'
<1> DEFINE Kept == client' \in [Clients -> ClientRecord]
<1>1. client[c] \in ClientRecord /\ client[c].tries \in Nat
  BY DEF TypeOK, ClientRecord
<1>2. CASE ProbeNo(c) \/ Running(c) \/ WaitYes(c) \/ WaitNo(c) \/ ChildDead(c) \/ LastYes(c)
            \/ LastNo(c) \/ TriggerFails(c) \/ PollEnds(c)
  <2>1. OnlyClient /\ \E pc \in ClientPc : Goes(c, pc)
    BY <1>2 DEF ProbeNo, Running, WaitYes, WaitNo, ChildDead, LastYes, LastNo, TriggerFails,
                PollEnds, ClientPc
  <2>2. Kept
    BY <1>1, <2>1, Shapes, TypeMoves DEF Goes
  <2> QED
    BY <2>1, <2>2, TypeIs DEF OnlyClient
<1>3. CASE ProbeYes(c)
  <2>1. Kept
    BY <1>1, <1>3, Shapes, TypeMoves DEF ProbeYes, Select
  <2> QED
    BY <1>3, <2>1, TypeIs DEF ProbeYes, OnlyClient
<1>4. CASE PortTaken(c)
  <2>1. "full" \in ClientPc
    BY DEF ClientPc
  <2>2. Kept
    BY <1>1, <1>4, <2>1, Shapes, TypeMoves DEF PortTaken, Goes
  <2> QED
    BY <1>4, <2>2, TypeIs DEF PortTaken, OnlyClient
<1>5. CASE ChildAlive(c)
  <2>1. PICK pc \in {"wait", "last"} :
          Becomes(c, [client[c] EXCEPT !.pc = pc, !.tries = client[c].tries + 1])
    BY <1>5 DEF ChildAlive
  <2>2. client[c].tries + 1 \in Nat
    BY <1>1
  <2>3. Kept
    BY <1>1, <2>1, <2>2, Shapes, TypeMoves
  <2> QED
    BY <1>5, <2>3, TypeIs DEF ChildAlive, OnlyClient
<1>6. CASE TestBind(c)
  <2>1. "close" \in ClientPc
    BY DEF ClientPc
  <2>2. Kept
    BY <1>1, <1>6, <2>1, Shapes, TypeMoves DEF TestBind, Goes
  <2> QED
    BY <1>6, <2>2, TypeIs DEF TestBind
<1>7. CASE TestClose(c)
  <2>1. Kept
    BY <1>1, <1>7, Shapes, TypeMoves DEF TestClose, Select
  <2> QED
    BY <1>7, <2>1, TypeIs DEF TestClose
<1>8. CASE \E s \in Pids : Spawn(c, s)
  <2>1. PICK s \in Pids : Spawn(c, s)
    BY <1>8
  <2>2. Kept
    BY <1>1, <2>1, Shapes, TypeMoves DEF Spawn
  <2>3. [pc |-> "starting", owner |-> c, port |-> client[c].PORT] \in ServerRecord
    BY <1>1 DEF ServerRecord, ClientRecord
  <2>4. server' \in [Pids -> ServerRecord]
    BY <2>1, <2>3, TypeIs DEF Spawn
  <2> QED
    BY <2>1, <2>2, <2>4, TypeIs DEF Spawn
<1>9. CASE Trigger(c)
  <2>1. port[client[c].PORT] \in Pids
    BY <1>9 DEF Trigger, Serving
  <2>2. Kept
    BY <1>1, <1>9, <2>1, Shapes, TypeMoves DEF Trigger
  <2> QED
    BY <1>9, <2>2, TypeIs DEF Trigger
<1> QED
  BY <1>2, <1>3, <1>4, <1>5, <1>6, <1>7, <1>8, <1>9 DEF ClientStep

LEMMA TypeKilled ==
  ASSUME TypeOK, NEW c \in Clients, NEW S, Killed(c, S)
  PROVE  /\ port' \in [Ports -> Pids \cup {"free", "wait", "test", "other"}]
         /\ server' \in [Pids -> ServerRecord] /\ finished' = finished
BY DEF TypeOK, Killed, ServerRecord

LEMMA TypeStep == TypeOK /\ [Next]_vars => TypeOK'
<1> SUFFICES ASSUME TypeOK, [Next]_vars PROVE TypeOK'
  OBVIOUS
<1>1. CASE \E c \in Clients : ClientStep(c)
  BY <1>1, TypeClientStep
<1>2. CASE \E c \in Clients : User(c)
  <2>1. PICK c \in Clients : User(c)
    BY <1>2
  <2>2. client[c] \in ClientRecord
    BY DEF TypeOK, ClientRecord
  <2>4. CASE PromptInterrupted(c)
    <3>1. client' = client /\ Killed(c, Children(c))
      BY <2>4 DEF PromptInterrupted
    <3> QED
      BY <3>1, TypeKilled, TypeIs
  <2>5. CASE Analyze(c) \/ Back(c) \/ Exit(c) \/ Interrupt(c)
    <3>1. client' \in [Clients -> ClientRecord]
      <4>1. "probe" \in ClientPc
        BY DEF ClientPc
      <4> QED
        BY <2>2, <2>5, <4>1, Shapes, TypeMoves DEF Analyze, Back, Exit, Interrupt, Stops, Goes
    <3>2. OnlyClient \/ \E S : Killed(c, S)
      BY <2>5 DEF Analyze, Back, Exit, Interrupt
    <3>3. CASE OnlyClient
      BY <3>1, <3>3, TypeIs DEF OnlyClient
    <3>4. ASSUME NEW S, Killed(c, S) PROVE TypeOK'
      BY <3>1, <3>4, TypeKilled, TypeIs
    <3> QED
      BY <3>2, <3>3, <3>4
  <2> QED
    BY <2>1, <2>4, <2>5 DEF User
<1>3. CASE \E c \in Clients : JobEnds(c)
  BY <1>3 DEF JobEnds, TypeOK
<1>4. CASE \E s \in Pids : Process(s)
  <2>1. PICK s \in Pids : Bind(s) \/ BindFails(s)
    BY <1>4 DEF Process
  <2>2. server[s].port \in Ports /\ client' = client /\ finished' = finished
    BY <2>1, TypeIs DEF ServerRecord, Bind, BindFails
  <2>3. server' \in [Pids -> ServerRecord]
    BY <2>1, TypeIs DEF ServerRecord, Bind, BindFails
  <2>4. port' \in [Ports -> Pids \cup {"free", "wait", "test", "other"}]
    BY <2>1, <2>2, TypeIs DEF Bind, BindFails
  <2> QED
    BY <2>2, <2>3, <2>4, TypeIs
<1>5. CASE \E p \in Ports : WaitOver(p) \/ ForeignBinds(p) \/ ForeignLeaves(p)
  BY <1>5 DEF WaitOver, ForeignBinds, ForeignLeaves, TypeOK
<1>6. CASE UNCHANGED vars
  BY <1>6 DEF vars, TypeOK
<1> QED
  BY <1>1, <1>2, <1>3, <1>4, <1>5, <1>6 DEF Next

\* Test binds hold their ports, each its own, and servers theirs.
Testing == \A c \in Clients : Is(c, "close") =>
    /\ port[client[c].cand] = "test"
    /\ \A d \in Clients \ {c} : Is(d, "close") => client[d].cand # client[c].cand

Listening == \A p \in Ports : port[p] \in Pids =>
    server[port[p]].pc = "serving" /\ server[port[p]].port = p

Waited == {"wait", "child", "last"}

\* A port is served, or was until its user stopped the server.
Served(p) == Serving(p) \/ Stopped(p)

\* A client that waits for a child waits for the one it started for its port; one that is
\* answered in time gives up on it only when it is gone or was asked often enough; who
\* adopts or polls a port is served there, and knows by whom.
Own(c) ==
    /\ client[c].pc \in Waited =>
          /\ client[c].proc \in Pids
          /\ server[client[c].proc].pc # "none"
          /\ server[client[c].proc].port = client[c].PORT
    /\ c \notin Slow /\ Is(c, "last") => Gone(client[c].proc) \/ client[c].tries = Attempts
    /\ c \notin Slow /\ Is(c, "failed") =>
          \/ client[c].tries = Attempts
          \/ Stopped(client[c].PORT)
          \/ client[c].proc \in Pids /\ server[client[c].proc].pc = "blocked"
    /\ Is(c, "trigger") => Served(client[c].PORT)
    /\ Is(c, "poll") =>
          /\ client[c].job \in Pids
          /\ Known(c) \/ server[client[c].job].pc = "killed"

\* A child dies because its port serves.
Losers == \A s \in Pids : server[s].pc = "dead" => Served(server[s].port)

Inv == Testing /\ Listening /\ Losers /\ \A c \in Clients : Own(c)

\* What no step undoes: servers keep their ports until they are stopped, and
\* processes their port, a cause of death and their having been started.
Steady ==
    /\ \A p \in Ports : port[p] \in Pids =>
          \/ port'[p] = port[p]
          \/ server'[port[p]].pc = "killed" /\ server'[port[p]].port = p
    /\ \A s \in Pids : server[s].pc # "none" =>
          server'[s].pc # "none" /\ server'[s].port = server[s].port
    /\ \A s \in Pids : Gone(s) => server'[s] = server[s]

\* Every variable always has the shape the code gives it.
THEOREM TypeCorrect == Spec => []TypeOK
BY TypeInit, TypeStep, PTL DEF Spec

-----------------------------------------------------------------------------
\* Where the two steps with a choice lead.
LEMMA PortTakenMoves ==
  ASSUME TypeOK, NEW c \in Clients, PortTaken(c)
  PROVE  /\ client'[c].pc \in {"probe", "full"}
         /\ \A d \in Clients \ {c} : client'[d] = client[d]
<1> DEFINE n == client[c].cand + 1
<1>1. \/ client' = [client EXCEPT ![c] = [client[c] EXCEPT !.pc = "probe", !.cand = n]]
      \/ client' = [client EXCEPT ![c] = [client[c] EXCEPT !.pc = "full"]]
  BY DEF PortTaken, Goes, Becomes
<1>2. client \in [Clients -> ClientRecord] /\ client[c] \in ClientRecord
  BY TypeIs
<1> HIDE DEF n
<1>3. \A d \in Clients \ {c} : client'[d] = client[d]
  BY <1>1, <1>2
<1>4. PICK r : /\ client' = [client EXCEPT ![c] = r]
               /\ \/ r = [client[c] EXCEPT !.pc = "probe", !.cand = n]
                  \/ r = [client[c] EXCEPT !.pc = "full"]
  BY <1>1
<1>5. client'[c] = r
  BY <1>2, <1>4
<1> QED
  BY <1>2, <1>3, <1>4, <1>5 DEF ClientRecord

LEMMA ChildAliveMoves ==
  ASSUME TypeOK, NEW c \in Clients, ChildAlive(c)
  PROVE  /\ client'[c].pc \in {"wait", "last"}
         /\ client'[c].pc = "last" => client'[c].tries = Attempts
         /\ client'[c].PORT = client[c].PORT /\ client'[c].proc = client[c].proc
         /\ \A d \in Clients \ {c} : client'[d] = client[d]
<1> DEFINE n == client[c].tries + 1
           pc == IF n = Attempts THEN "last" ELSE "wait"
<1>1. client' = [client EXCEPT ![c] = [client[c] EXCEPT !.pc = pc, !.tries = n]]
  BY DEF ChildAlive, Becomes
<1>2. client \in [Clients -> ClientRecord] /\ client[c] \in ClientRecord
  BY TypeIs
<1>3. pc \in {"wait", "last"} /\ (pc = "last" => n = Attempts)
  OBVIOUS
<1> HIDE DEF n, pc
<1> QED
  BY <1>1, <1>2, <1>3 DEF ClientRecord

\* Which clients a step of one client moves, and where it may not lead.
LEMMA StepMoves ==
  ASSUME TypeOK, NEW c \in Clients, ClientStep(c)
  PROVE  /\ \A d \in Clients \ {c} : client'[d] = client[d]
         /\ client'[c].pc = "close" => TestBind(c)
         /\ port' = port \/ TestBind(c) \/ TestClose(c)
<1>0. client[c] \in ClientRecord
  BY TypeIs
<1>1. CASE ProbeNo(c) \/ Running(c) \/ WaitYes(c) \/ WaitNo(c) \/ ChildDead(c) \/ LastYes(c)
            \/ LastNo(c) \/ TriggerFails(c) \/ PollEnds(c)
  <2>1. PICK pc \in {"bind", "trigger", "child", "last", "failed", "shown"} : Goes(c, pc)
    BY <1>1 DEF ProbeNo, Running, WaitYes, WaitNo, ChildDead, LastYes, LastNo, TriggerFails,
                PollEnds
  <2>2. OnlyClient
    BY <1>1 DEF ProbeNo, Running, WaitYes, WaitNo, ChildDead, LastYes, LastNo, TriggerFails,
                PollEnds, Is
  <2> QED
    BY <2>1, <2>2, TypeIs DEF OnlyClient, Goes, Becomes, ClientRecord
<1>2. CASE ProbeYes(c) \/ TestClose(c)
  <2>1. Select(c) /\ (port' = port \/ TestClose(c))
    BY <1>2 DEF ProbeYes, TestClose, OnlyClient, Is
  <2>2. client'[c].pc = "running" /\ \A d \in Clients \ {c} : client'[d] = client[d]
    BY <1>0, <2>1, TypeIs DEF Select, Becomes, ClientRecord
  <2> QED
    BY <2>1, <2>2
<1>3. CASE TestBind(c)
  BY <1>3, TypeIs DEF TestBind, Is, Goes, Becomes, ClientRecord
<1>4. CASE PortTaken(c)
  BY <1>4, PortTakenMoves DEF PortTaken, OnlyClient, Is
<1>5. CASE ChildAlive(c)
  BY <1>5, ChildAliveMoves DEF ChildAlive, OnlyClient, Is
<1>6. CASE \E s \in Pids : Spawn(c, s)
  BY <1>0, <1>6, TypeIs DEF Spawn, Is, ClientRecord, Becomes
<1>7. CASE Trigger(c)
  BY <1>0, <1>7, TypeIs DEF Trigger, Is, ClientRecord, Becomes
<1> QED
  BY <1>1, <1>2, <1>3, <1>4, <1>5, <1>6, <1>7 DEF ClientStep

\* What the user does: stop, kill the children, or move a client that holds no port.
LEMMA UserMoves ==
  ASSUME TypeOK, NEW c \in Clients, User(c)
  PROVE  /\ \A d \in Clients \ {c} : client'[d] = client[d]
         /\ \/ OnlyClient /\ client[c].pc # "close"
            \/ \E S \in SUBSET Pids : Killed(c, S)
         /\ client'[c].pc \in {"probe", "menu", "gone", "stopped"}
<1>0. client[c] \in ClientRecord
  BY TypeIs
<1>1. CASE Analyze(c)
  BY <1>0, <1>1, TypeIs DEF Analyze, Is, ClientRecord, Goes, Becomes
<1>2. CASE Back(c)
  BY <1>2, TypeIs DEF Back, Becomes, ClientRecord
<1>3. CASE Exit(c) \/ Interrupt(c)
  <2>1. Becomes(c, [NewClient EXCEPT !.pc = "stopped"])
    BY <1>3 DEF Exit, Interrupt, Stops
  <2>2. client'[c].pc = "stopped" /\ \A d \in Clients \ {c} : client'[d] = client[d]
    BY <1>0, <2>1, TypeIs DEF ClientRecord, NewClient, Becomes
  <2>3. {client[c].proc} \cap Pids \in SUBSET Pids /\ Children(c) \in SUBSET Pids
    BY DEF Children
  <2> QED
    BY <1>3, <2>2, <2>3 DEF Exit, Interrupt
<1>4. CASE PromptInterrupted(c)
  <2>1. Children(c) \in SUBSET Pids
    BY DEF Children
  <2> QED
    BY <1>4, <2>1 DEF PromptInterrupted, Is
<1> QED
  BY <1>1, <1>2, <1>3, <1>4 DEF User

LEMMA TestingStep == TypeOK /\ Testing /\ [Next]_vars => Testing'
<1> SUFFICES ASSUME TypeOK, Testing, [Next]_vars PROVE Testing'
  OBVIOUS
<1>0. /\ "test" \notin Pids /\ port \in [Ports -> Pids \cup {"free", "wait", "test", "other"}]
      /\ \A c \in Clients : client[c].cand \in Ports
  BY NamesAssumption DEF TypeOK
<1>1. ASSUME NEW c \in Clients, ClientStep(c) PROVE Testing'
  <2>1. CASE TestBind(c)
    <3>1. client'[c].cand = client[c].cand
      BY <2>1, TypeIs DEF TestBind, Goes, Becomes, ClientRecord
    <3>2. port[client[c].cand] = "free" /\ port' = [port EXCEPT ![client[c].cand] = "test"]
      BY <2>1 DEF TestBind
    <3> QED
      BY <1>0, <1>1, <3>1, <3>2, StepMoves DEF Testing, Is
  <2>2. CASE TestClose(c)
    <3>1. Is(c, "close") /\ port' = [port EXCEPT ![client[c].cand] = "free"] /\ ~Is(c, "close")'
      BY <2>2, TypeIs DEF TestClose, Is, Select, Becomes, ClientRecord
    <3> QED
      BY <1>0, <1>1, <3>1, StepMoves DEF Testing, Is
  <2>3. CASE ~TestBind(c) /\ ~TestClose(c)
    BY <1>1, <2>3, StepMoves DEF Testing, Is
  <2> QED
    BY <2>1, <2>2, <2>3
<1>2. ASSUME NEW c \in Clients, User(c) PROVE Testing'
  <2>1. CASE OnlyClient /\ client[c].pc # "close"
    BY <1>2, <2>1, UserMoves DEF Testing, Is, OnlyClient
  <2>2. ASSUME NEW S \in SUBSET Pids, Killed(c, S) PROVE Testing'
    BY <1>0, <1>2, <2>2, UserMoves DEF Testing, Is, Killed
  <2> QED
    BY <1>2, <2>1, <2>2, UserMoves
<1>3. CASE \E c \in Clients : JobEnds(c)
  BY <1>3 DEF JobEnds, Testing, Is
<1>4. CASE \E s \in Pids : Process(s)
  BY <1>0, <1>4 DEF Process, Bind, BindFails, Testing, Is
<1>5. CASE \E p \in Ports : WaitOver(p) \/ ForeignBinds(p) \/ ForeignLeaves(p)
  BY <1>0, <1>5 DEF WaitOver, ForeignBinds, ForeignLeaves, Testing, Is
<1>6. CASE UNCHANGED vars
  BY <1>6 DEF vars, Testing, Is
<1> QED
  BY <1>1, <1>2, <1>3, <1>4, <1>5, <1>6 DEF Next

-----------------------------------------------------------------------------
\* What becomes of ports and processes in a step of a client.
LEMMA StepServers ==
  ASSUME TypeOK, NEW c \in Clients, ClientStep(c)
  PROVE  server' = server \/ (port' = port /\ \E s \in Pids : Spawn(c, s))
BY DEF ClientStep, ProbeNo, Running, WaitYes, WaitNo, ChildDead, LastYes, LastNo,
       TriggerFails, PollEnds, ProbeYes, PortTaken, ChildAlive, TestBind, TestClose,
       Trigger, OnlyClient, Spawn

LEMMA ListeningStep == TypeOK /\ Testing /\ Listening /\ [Next]_vars => Listening'
<1> SUFFICES ASSUME TypeOK, Testing, Listening, [Next]_vars PROVE Listening'
  OBVIOUS
<1>0. /\ Pids \cap {"free", "wait", "test", "other", "None"} = {}
      /\ port \in [Ports -> Pids \cup {"free", "wait", "test", "other"}]
      /\ server \in [Pids -> ServerRecord]
      /\ \A c \in Clients : client[c].cand \in Ports
  BY NamesAssumption, TypeIs DEF TypeOK
<1>1. ASSUME NEW c \in Clients, ClientStep(c) PROVE Listening'
  <2>1. \A p \in Ports : port'[p] \in Pids => port'[p] = port[p]
    BY <1>0, <1>1, StepMoves DEF TestBind, TestClose
  <2>2. ASSUME NEW s \in Pids, Spawn(c, s) PROVE Listening'
    <3>1. \A p \in Ports : port[p] \in Pids => port[p] # s
      BY <2>2 DEF Spawn, NoProcess, Listening
    <3> QED
      BY <1>0, <2>1, <2>2, <3>1 DEF Spawn, Listening
  <2> QED
    BY <1>1, <2>1, <2>2, StepServers DEF Listening
<1>2. ASSUME NEW c \in Clients, User(c) PROVE Listening'
  <2>1. CASE OnlyClient
    BY <2>1 DEF OnlyClient, Listening
  <2>2. ASSUME NEW S \in SUBSET Pids, Killed(c, S) PROVE Listening'
    <3>1. \A p \in Ports : port'[p] \in Pids => port'[p] = port[p] /\ port[p] \notin S
      BY <1>0, <2>2 DEF Killed
    <3>2. \A s \in Pids \ S : server'[s] = server[s]
      BY <2>2 DEF Killed
    <3> QED
      BY <3>1, <3>2 DEF Listening
  <2> QED
    BY <1>2, <2>1, <2>2, UserMoves
<1>3. CASE \E c \in Clients : JobEnds(c)
  BY <1>3 DEF JobEnds, Listening
<1>4. ASSUME NEW s \in Pids, Process(s) PROVE Listening'
  <2>1. \A p \in Ports : port[p] \in Pids => port[p] # s
    BY <1>4 DEF Process, Bind, BindFails, Listening
  <2>2. server[s] \in ServerRecord
    BY <1>0
  <2>3. CASE Bind(s)
    BY <1>0, <2>1, <2>2, <2>3 DEF Bind, Listening, ServerRecord
  <2>4. CASE BindFails(s)
    BY <1>0, <2>1, <2>4 DEF BindFails, Listening
  <2> QED
    BY <1>4, <2>3, <2>4 DEF Process
<1>5. CASE \E p \in Ports : WaitOver(p) \/ ForeignBinds(p) \/ ForeignLeaves(p)
  BY <1>0, <1>5 DEF WaitOver, ForeignBinds, ForeignLeaves, Listening
<1>6. CASE UNCHANGED vars
  BY <1>6 DEF vars, Listening
<1> QED
  BY <1>1, <1>2, <1>3, <1>4, <1>5, <1>6 DEF Next

LEMMA SteadyStep == TypeOK /\ Testing /\ Listening /\ [Next]_vars => Steady
<1> SUFFICES ASSUME TypeOK, Testing, Listening, [Next]_vars PROVE Steady
  OBVIOUS
<1> USE DEF Gone
<1>0. /\ Pids \cap {"free", "wait", "test", "other", "None"} = {}
      /\ port \in [Ports -> Pids \cup {"free", "wait", "test", "other"}]
      /\ server \in [Pids -> ServerRecord]
      /\ \A c \in Clients : client[c].cand \in Ports
  BY NamesAssumption, TypeIs DEF TypeOK
<1>3. ASSUME NEW c \in Clients, ClientStep(c) PROVE Steady
  <2>2. \A p \in Ports : port[p] \in Pids => port'[p] = port[p]
    <3>1. CASE TestBind(c)
      BY <1>0, <3>1 DEF TestBind
    <3>2. CASE TestClose(c)
      BY <1>0, <3>2 DEF TestClose, Testing
    <3> QED
      BY <1>3, <3>1, <3>2, StepMoves
  <2>4. ASSUME NEW s \in Pids, Spawn(c, s) PROVE Steady
    BY <1>0, <2>2, <2>4 DEF Spawn, Steady, NoProcess
  <2> QED
    BY <1>3, <2>2, <2>4, StepServers DEF Steady
<1>4. ASSUME NEW c \in Clients, User(c) PROVE Steady
  <2>1. CASE OnlyClient
    BY <2>1 DEF OnlyClient, Steady
  <2>2. ASSUME NEW S \in SUBSET Pids, Killed(c, S) PROVE Steady
    <3>1. ASSUME NEW p \in Ports, port[p] \in Pids
          PROVE  \/ port'[p] = port[p]
                 \/ server'[port[p]].pc = "killed" /\ server'[port[p]].port = p
      <4>1. server[port[p]].pc = "serving" /\ server[port[p]].port = p
        BY <3>1 DEF Listening
      <4>2. CASE port[p] \in S
        BY <1>0, <2>2, <3>1, <4>1, <4>2 DEF Killed, ServerRecord
      <4>3. CASE port[p] \notin S
        BY <1>0, <2>2, <3>1, <4>3 DEF Killed, Testing
      <4> QED
        BY <4>2, <4>3
    <3>2. \A s \in Pids : /\ Gone(s) => server'[s] = server[s]
                          /\ server'[s].port = server[s].port
                          /\ server[s].pc # "none" => server'[s].pc # "none"
      BY <1>0, <2>2 DEF Killed, ServerRecord
    <3> QED
      BY <3>1, <3>2 DEF Steady
  <2> QED
    BY <1>4, <2>1, <2>2, UserMoves
<1>5. CASE \E c \in Clients : JobEnds(c)
  BY <1>5 DEF JobEnds, Steady
<1>6. ASSUME NEW s \in Pids, Process(s) PROVE Steady
  <2>2. CASE Bind(s)
    BY <1>0, <2>2 DEF Bind, Steady, ServerRecord
  <2>3. CASE BindFails(s)
    BY <1>0, <2>3 DEF BindFails, Steady, ServerRecord
  <2> QED
    BY <1>6, <2>2, <2>3 DEF Process
<1>7. CASE \E p \in Ports : WaitOver(p) \/ ForeignBinds(p) \/ ForeignLeaves(p)
  BY <1>0, <1>7 DEF WaitOver, ForeignBinds, ForeignLeaves, Steady
<1>8. CASE UNCHANGED vars
  BY <1>8 DEF vars, Steady
<1> QED
  BY <1>3, <1>4, <1>5, <1>6, <1>7, <1>8 DEF Next

\* A port that was served stays so, or its server has been stopped.
LEMMA ServedKept ==
  ASSUME TypeOK, Steady, NEW p \in Ports
  PROVE  (Stopped(p) => Stopped(p)') /\ (Served(p) => Served(p)')
BY DEF Steady, Served, Serving, Stopped, Gone

\* What a client relies on stays, as long as it does not move.
LEMMA OwnKept ==
  ASSUME TypeOK, Steady, NEW c \in Clients, Own(c), client'[c] = client[c]
  PROVE  Own(c)'
<1>1. client[c].PORT \in Ports /\ client[c].proc \in Pids \cup {None}
  BY DEF TypeOK
<1>2. PICK p \in Ports : p = client[c].PORT /\ p = client'[c].PORT
  BY <1>1
<1>3. client[c].proc \in Pids /\ server[client[c].proc].pc # "none" =>
        /\ server'[client[c].proc].pc # "none"
        /\ server'[client[c].proc].port = server[client[c].proc].port
  BY DEF Steady
<1>4. client[c].proc \in Pids /\ Gone(client[c].proc) =>
        server'[client[c].proc] = server[client[c].proc]
  BY DEF Steady
<1>5. \A pc : Is(c, pc)' <=> Is(c, pc)
  BY DEF Is
<1>6. Is(c, "last") => client[c].pc \in Waited
  BY DEF Is, Waited
<1>7. Stopped(client[c].PORT) => Stopped(client[c].PORT)'
  <2>1. Stopped(p) => Stopped(p)'
    BY ServedKept
  <2> QED
    BY <1>2, <2>1 DEF Stopped
<1>8. Served(client[c].PORT) => Served(client[c].PORT)'
  <2>1. Served(p) => Served(p)'
    BY ServedKept
  <2> QED
    BY <1>2, <2>1 DEF Served, Serving, Stopped
<1>9. client[c].job \in Pids /\ Known(c) => Known(c)' \/ server'[client[c].job].pc = "killed"
  BY <1>1 DEF Steady, Known
<1>10. client[c].job \in Pids /\ server[client[c].job].pc = "killed" =>
         server'[client[c].job].pc = "killed"
  BY DEF Steady, Gone
<1> QED
  BY <1>1, <1>3, <1>4, <1>5, <1>6, <1>7, <1>8, <1>9, <1>10 DEF Own, Gone

\* A client that stands at none of these places relies on nothing.
LEMMA OwnIdle ==
  ASSUME NEW c \in Clients,
         client'[c].pc \notin Waited \cup {"failed", "trigger", "poll"}
  PROVE  Own(c)'
BY DEF Own, Is, Waited

LEMMA OwnStep ==
  ASSUME TypeOK, Steady, Losers, NEW c \in Clients, Own(c), ClientStep(c)
  PROVE  Own(c)'
<1>0. /\ client[c].PORT \in Ports /\ client[c].proc \in Pids \cup {None}
      /\ client[c] \in ClientRecord /\ server \in [Pids -> ServerRecord]
  BY TypeIs DEF TypeOK
<1>1. CASE ProbeYes(c) \/ TestClose(c)
  <2>1. Select(c)
    BY <1>1 DEF ProbeYes, TestClose
  <2>2. client'[c].pc = "running"
    BY <2>1, TypeIs DEF Select, Becomes, ClientRecord
  <2> QED
    BY <2>2, OwnIdle DEF Waited
<1>2. CASE ProbeNo(c) \/ TestBind(c) \/ PollEnds(c)
  BY <1>2, TypeIs, OwnIdle DEF ProbeNo, TestBind, PollEnds, Waited, Goes, Becomes, ClientRecord
<1>3. CASE PortTaken(c)
  BY <1>3, PortTakenMoves, OwnIdle DEF Waited
<1>4. CASE Running(c) \/ WaitYes(c) \/ LastYes(c)
  <2>1. Serving(client[c].PORT) /\ Goes(c, "trigger") /\ OnlyClient
    BY <1>4 DEF Running, WaitYes, LastYes, Yes
  <2>2. client'[c].pc = "trigger" /\ client'[c].PORT = client[c].PORT
    BY <1>0, <2>1, TypeIs DEF ClientRecord, Goes, Becomes
  <2> QED
    BY <2>1, <2>2 DEF Own, Is, Waited, OnlyClient, Served, Serving
<1>5. CASE \E s \in Pids : Spawn(c, s)
  <2>1. PICK s \in Pids : Spawn(c, s)
    BY <1>5
  <2>2. client'[c].pc = "wait" /\ client'[c].proc = s /\ client'[c].PORT = client[c].PORT
    BY <1>0, <2>1, TypeIs DEF Spawn, ClientRecord, Becomes
  <2>3. server'[s].pc = "starting" /\ server'[s].port = client[c].PORT
    BY <1>0, <2>1 DEF Spawn
  <2> QED
    BY <2>2, <2>3 DEF Own, Is, Waited
<1>6. CASE WaitNo(c) \/ ChildAlive(c)
  <2>1. client[c].pc \in {"wait", "child"} /\ OnlyClient
    BY <1>6 DEF WaitNo, ChildAlive, Is
  <2>2. /\ client'[c].pc \in {"wait", "child", "last"}
        /\ client'[c].pc = "last" => client'[c].tries = Attempts
        /\ client'[c].PORT = client[c].PORT /\ client'[c].proc = client[c].proc
    BY <1>0, <1>6, TypeIs, ChildAliveMoves DEF WaitNo, Goes, ClientRecord, Becomes
  <2> QED
    BY <2>1, <2>2 DEF Own, Is, Waited, OnlyClient
<1>7. CASE ChildDead(c)
  <2>1. client[c].pc = "child" /\ OnlyClient /\ Gone(client[c].proc) /\ Goes(c, "last")
    BY <1>7 DEF ChildDead, Is
  <2>2. /\ client'[c].pc = "last"
        /\ client'[c].PORT = client[c].PORT /\ client'[c].proc = client[c].proc
    BY <1>0, <2>1, TypeIs DEF ClientRecord, Goes, Becomes
  <2> QED
    BY <2>1, <2>2 DEF Own, Is, Waited, OnlyClient, Gone
<1>8. CASE LastNo(c)
  <2>1. client[c].pc = "last" /\ OnlyClient /\ No(c, client[c].PORT) /\ Goes(c, "failed")
    BY <1>8 DEF LastNo, Is
  <2>2. /\ client'[c].pc = "failed" /\ client'[c].proc = client[c].proc
        /\ client'[c].PORT = client[c].PORT /\ client'[c].tries = client[c].tries
    BY <1>0, <2>1, TypeIs DEF ClientRecord, Goes, Becomes
  <2>3. CASE c \in Slow
    BY <2>2, <2>3 DEF Own, Is, Waited
  <2>4. CASE c \notin Slow
    <3>1. client[c].proc \in Pids /\ server[client[c].proc].port = client[c].PORT
      BY <2>1 DEF Own, Is, Waited
    <3>2. client[c].tries = Attempts \/ Gone(client[c].proc)
      BY <2>1, <2>4 DEF Own, Is
    <3>3. server[client[c].proc].pc = "dead" => Stopped(client[c].PORT)
      BY <2>1, <2>4, <3>1 DEF Losers, Served, No
    <3>4. server[client[c].proc].pc = "killed" => Stopped(client[c].PORT)
      BY <3>1 DEF Stopped
    <3>5. Stopped(client[c].PORT) <=> Stopped(client[c].PORT)'
      BY <2>1, <2>2 DEF OnlyClient, Stopped
    <3> QED
      BY <2>1, <2>2, <3>1, <3>2, <3>3, <3>4, <3>5 DEF Own, Is, Waited, OnlyClient, Gone
  <2> QED
    BY <2>3, <2>4
<1>9. CASE Trigger(c)
  <2>1. Serving(client[c].PORT) /\ port' = port
    BY <1>9 DEF Trigger
  <2>2. /\ client'[c].pc = "poll" /\ client'[c].PORT = client[c].PORT
        /\ client'[c].job = port[client[c].PORT]
    BY <1>0, <1>9, TypeIs DEF Trigger, ClientRecord, Becomes
  <2> QED
    BY <2>1, <2>2 DEF Own, Is, Waited, Serving, Known
<1>10. CASE TriggerFails(c)
  <2>1. Is(c, "trigger") /\ No(c, client[c].PORT) /\ Goes(c, "failed") /\ OnlyClient
    BY <1>10 DEF TriggerFails
  <2>2. c \in Slow \/ Stopped(client[c].PORT)
    BY <2>1 DEF Own, No, Served
  <2>3. client'[c].pc = "failed" /\ client'[c].PORT = client[c].PORT
    BY <1>0, <2>1, TypeIs DEF Goes, Becomes, ClientRecord
  <2>4. Stopped(client[c].PORT) => Stopped(client[c].PORT)'
    BY <2>1, <2>3 DEF OnlyClient, Stopped
  <2> QED
    BY <2>2, <2>3, <2>4 DEF Own, Is, Waited
<1> QED
  BY <1>1, <1>2, <1>3, <1>4, <1>5, <1>6, <1>7, <1>8, <1>9, <1>10 DEF ClientStep

LEMMA LosersStep ==
  ASSUME TypeOK, Steady, Losers, [Next]_vars
  PROVE  Losers'
<1>0. server \in [Pids -> ServerRecord] /\ \A s \in Pids : server[s].port \in Ports
  BY TypeIs DEF ServerRecord
<1>1. ASSUME NEW s \in Pids, server[s].pc = "dead" PROVE Served(server[s].port)'
  <2>1. PICK p \in Ports : p = server[s].port /\ p = server'[s].port
    BY <1>0, <1>1 DEF Steady, Gone
  <2>2. Served(p)
    BY <1>1, <2>1 DEF Losers
  <2>3. Served(p)'
    BY <2>2, ServedKept
  <2> QED
    BY <2>1, <2>3 DEF Served, Serving, Stopped
<1>2. ASSUME NEW s \in Pids, server[s].pc # "dead", server'[s].pc = "dead"
      PROVE  Served(server[s].port)'
  <2>1. BindFails(s)
    <3>1. CASE \E c \in Clients : ClientStep(c)
      <4>1. PICK c \in Clients : ClientStep(c)
        BY <3>1
      <4>2. ASSUME NEW t \in Pids, Spawn(c, t) PROVE server'[s].pc # "dead"
        BY <1>0, <1>2, <4>2 DEF Spawn
      <4> QED
        BY <1>2, <4>1, <4>2, StepServers
    <3>2. CASE \E c \in Clients : User(c)
      <4>1. OnlyClient \/ \E c \in Clients, S \in SUBSET Pids : Killed(c, S)
        BY <3>2, UserMoves
      <4> QED
        BY <1>0, <1>2, <4>1 DEF OnlyClient, Killed, ServerRecord
    <3>3. CASE \E c \in Clients : JobEnds(c)
      BY <1>2, <3>3 DEF JobEnds
    <3>4. CASE \E t \in Pids : Process(t)
      <4>1. PICK t \in Pids : Process(t)
        BY <3>4
      <4>2. CASE t = s
        BY <1>0, <1>2, <4>1, <4>2 DEF Process, Bind, ServerRecord
      <4>3. CASE t # s
        BY <1>0, <1>2, <4>1, <4>3 DEF Process, Bind, BindFails, ServerRecord
      <4> QED
        BY <4>2, <4>3
    <3>5. CASE \E p \in Ports : WaitOver(p) \/ ForeignBinds(p) \/ ForeignLeaves(p)
      BY <1>2, <3>5 DEF WaitOver, ForeignBinds, ForeignLeaves
    <3>6. CASE UNCHANGED vars
      BY <1>2, <3>6 DEF vars
    <3> QED
      BY <3>1, <3>2, <3>3, <3>4, <3>5, <3>6 DEF Next
  <2>2. server'[s].port = server[s].port /\ port[server[s].port] \in Pids /\ port' = port
    BY <1>0, <1>2, <2>1 DEF BindFails, ServerRecord
  <2> QED
    BY <2>2 DEF Served, Serving
<1> QED
  BY <1>1, <1>2 DEF Losers

LEMMA InvStep == TypeOK /\ Inv /\ [Next]_vars => Inv'
<1> SUFFICES ASSUME TypeOK, Inv, [Next]_vars PROVE Inv'
  OBVIOUS
<1>1. Steady
  BY SteadyStep DEF Inv
<1>2. Testing' /\ Listening' /\ Losers'
  BY <1>1, TestingStep, ListeningStep, LosersStep DEF Inv
<1>3. ASSUME NEW c \in Clients PROVE Own(c)'
  <2>0. Losers /\ Own(c)
    BY DEF Inv
  <2>1. CASE client'[c] = client[c]
    BY <1>1, <2>0, <2>1, OwnKept
  <2>2. CASE ClientStep(c)
    BY <1>1, <2>0, <2>2, OwnStep
  <2>3. CASE User(c)
    <3>1. client'[c].pc \in {"probe", "menu", "gone", "stopped"}
      BY <2>3, UserMoves
    <3> QED
      BY <3>1, OwnIdle DEF Waited
  <2>4. client'[c] = client[c] \/ ClientStep(c) \/ User(c)
    <3>1. ASSUME NEW d \in Clients \ {c}, ClientStep(d) \/ User(d) PROVE client'[c] = client[c]
      BY <3>1, StepMoves, UserMoves
    <3> QED
      BY <3>1 DEF Next, JobEnds, Process, Bind, BindFails, WaitOver, ForeignBinds,
                  ForeignLeaves, vars
  <2> QED
    BY <2>1, <2>2, <2>3, <2>4
<1> QED
  BY <1>2, <1>3 DEF Inv

LEMMA Begin == Init => Inv
BY NamesAssumption DEF Init, Inv, Testing, Listening, Losers, Own, Is, NewClient, NoProcess, Waited

LEMMA Meaning == TypeOK /\ Inv => RaceIsBenign /\ JobStaysKnown
BY NamesAssumption DEF Inv, Own, RaceIsBenign, JobStaysKnown, None

\* Clients that start together share one server: a client that is answered in time
\* fails to start only after all its attempts, or because a user has stopped a server
\* of its port, or because the port its child was to bind was held just then.
THEOREM RaceIsBenignHolds == Spec => []RaceIsBenign
BY TypeInit, TypeStep, Begin, InvStep, Meaning, PTL DEF Spec

\* A client always polls the server that runs its job, unless a user has stopped it.
THEOREM JobIsKnown == Spec => []JobStaysKnown
BY TypeInit, TypeStep, Begin, InvStep, Meaning, PTL DEF Spec
====
