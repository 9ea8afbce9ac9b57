----------------------------- MODULE CliServer -----------------------------
(***************************************************************************)
(* How terminal clients (vizcode.py) find, start, share and stop the       *)
(* server.  A client walks the ports from DEFAULT_PORT, adopts the first   *)
(* that answers like VIZCODE or binds, spawns server.py there if none      *)
(* answers, and remembers only the last child it spawned.  Every probe and *)
(* every bind is a step of its own: two clients may race for a port, and   *)
(* one client's server may go away while another uses it.                  *)
(***************************************************************************)
EXTENDS Integers, FiniteSets

CONSTANTS
    Clients,     \* vizcode.py processes
    Once,        \* those started with a path: one analysis, no menu
    Pids,        \* bound: processes server.py may be spawned in
    LastPort,    \* bound: the ports are 0..LastPort (99 in the code)
    Slow,        \* clients whose requests may take longer than the timeout
    Attempts,    \* bound: probes of a new server (60 in the code)
    Foreign      \* may another program take and leave ports?

ASSUME OnceAssumption == Once \subseteq Clients
ASSUME FlagsAssumption == Slow \subseteq Clients /\ Foreign \in BOOLEAN
ASSUME NamesAssumption ==
    Pids \cap {"free", "wait", "test", "other", "None"} = {} /\ "None" \notin Clients
ASSUME BoundsAssumption == LastPort \in Nat /\ Attempts \in Nat \ {0}

Ports == 0..LastPort

VARIABLES
    port,      \* port -> the pid that listens; "free", "wait" (TIME_WAIT),
               \* "test" (bound by _port_free), "other" (another program)
    server,    \* pid -> its process: pc, port, the client that spawned it
    client,    \* client -> its process, see NewClient
    finished   \* clients whose job has ended

vars == <<port, server, client, finished>>

None == "None"
NoProcess == [pc |-> "none", port |-> 0, owner |-> None]
\* cand: the port _select_port looks at; PORT, proc: the globals PORT and
\* _server_proc; job: the server that knows the client's job.
NewClient == [pc |-> "menu", cand |-> 0, PORT |-> 0, proc |-> None,
              job |-> None, tries |-> 0]

Init ==
    /\ port = [p \in Ports |-> "free"]
    /\ server = [s \in Pids |-> NoProcess]
    /\ client = [c \in Clients |-> NewClient]
    /\ finished = {}

Is(c, pc) == client[c].pc = pc
Becomes(c, r) == client' = [client EXCEPT ![c] = r]
Goes(c, pc) == Becomes(c, [client[c] EXCEPT !.pc = pc])
OnlyClient == UNCHANGED <<port, server, finished>>

\* _probe_server: a VIZCODE server listens there and answers in a second.
Serving(p) == port[p] \in Pids
Yes(p) == Serving(p)
No(c, p) == ~Serving(p) \/ c \in Slow

\* A process ends because its user stopped it ("killed"), because another server
\* has its port ("dead"), or because something else holds it ("blocked").
Gone(s) == server[s].pc \in {"killed", "dead", "blocked"}

-----------------------------------------------------------------------------
(* _select_port *)

\* A project is chosen in the menu, or on the command line.
Analyze(c) ==
    /\ Is(c, "menu")
    /\ Goes(c, "probe")
    /\ OnlyClient

Select(c) == Becomes(c, [client[c] EXCEPT !.pc = "running",
                                          !.PORT = client[c].cand])

ProbeYes(c) == Is(c, "probe") /\ Yes(client[c].cand) /\ Select(c) /\ OnlyClient
ProbeNo(c) == Is(c, "probe") /\ No(c, client[c].cand) /\ Goes(c, "bind") /\ OnlyClient

\* _port_free binds without SO_REUSEADDR ...
TestBind(c) ==
    /\ Is(c, "bind")
    /\ port[client[c].cand] = "free"
    /\ port' = [port EXCEPT ![client[c].cand] = "test"]
    /\ Goes(c, "close")
    /\ UNCHANGED <<server, finished>>

\* ... and closes again: the port is selected.
TestClose(c) ==
    /\ Is(c, "close")
    /\ port' = [port EXCEPT ![client[c].cand] = "free"]
    /\ Select(c)
    /\ UNCHANGED <<server, finished>>

PortTaken(c) ==
    /\ Is(c, "bind")
    /\ port[client[c].cand] # "free"
    /\ IF client[c].cand < LastPort
       THEN Becomes(c, [client[c] EXCEPT !.pc = "probe", !.cand = @ + 1])
       ELSE Goes(c, "full")
    /\ OnlyClient

-----------------------------------------------------------------------------
(* start_server *)

\* is_server_running(): the badge turns "ready" and nothing is spawned.
Running(c) ==
    Is(c, "running") /\ Yes(client[c].PORT) /\ Goes(c, "trigger") /\ OnlyClient

\* Popen; the last child is forgotten for the new one.
Spawn(c, s) ==
    /\ Is(c, "running") /\ No(c, client[c].PORT)
    /\ server[s] = NoProcess
    /\ server' = [server EXCEPT ![s] = [pc |-> "starting", owner |-> c,
                                        port |-> client[c].PORT]]
    /\ Becomes(c, [client[c] EXCEPT !.pc = "wait", !.proc = s])
    /\ UNCHANGED <<port, finished>>

WaitYes(c) ==
    Is(c, "wait") /\ Yes(client[c].PORT) /\ Goes(c, "trigger") /\ OnlyClient
WaitNo(c) ==
    Is(c, "wait") /\ No(c, client[c].PORT) /\ Goes(c, "child") /\ OnlyClient

\* The loop ends when the child has died, or after so many attempts.
ChildDead(c) ==
    /\ Is(c, "child")
    /\ Gone(client[c].proc)
    /\ Goes(c, "last")
    /\ OnlyClient

MutChildAlive(c) ==         \* mutant: as long as the child lives
    /\ Is(c, "child") /\ ~Gone(client[c].proc)
    /\ Goes(c, "wait")
    /\ OnlyClient
ChildAlive(c) ==
    /\ Is(c, "child")
    /\ ~Gone(client[c].proc)
    /\ Becomes(c, [client[c] EXCEPT
          !.pc = IF client[c].tries + 1 = Attempts THEN "last" ELSE "wait",
          !.tries = @ + 1])
    /\ OnlyClient

\* One more probe before "Server failed to start".
LastYes(c) ==
    Is(c, "last") /\ Yes(client[c].PORT) /\ Goes(c, "trigger") /\ OnlyClient
MutLastNo(c) == Is(c, "last") /\ Goes(c, "failed") /\ OnlyClient   \* no probe
LastNo(c) ==
    Is(c, "last") /\ No(c, client[c].PORT) /\ Goes(c, "failed") /\ OnlyClient

-----------------------------------------------------------------------------
(* The analysis, as far as the server matters *)

Trigger(c) ==
    /\ Is(c, "trigger") /\ Serving(client[c].PORT)
    /\ Becomes(c, [client[c] EXCEPT !.pc = "poll", !.job = port[client[c].PORT]])
    /\ finished' = finished \ {c}
    /\ UNCHANGED <<port, server>>

TriggerFails(c) ==
    Is(c, "trigger") /\ No(c, client[c].PORT) /\ Goes(c, "failed") /\ OnlyClient

\* Does the server behind PORT know the job the client polls?
Known(c) == port[client[c].PORT] = client[c].job

JobEnds(c) ==
    /\ Is(c, "poll") /\ c \notin finished
    /\ server[client[c].job].pc = "serving"
    /\ finished' = finished \cup {c}
    /\ UNCHANGED <<port, server, client>>

\* Any other answer of /progress, or none, is polled again.
MutPollEnds(c) ==           \* mutant: only an unknown job ends the loop
    Is(c, "poll") /\ ~Known(c) /\ Goes(c, "failed") /\ OnlyClient
PollEnds(c) ==
    /\ Is(c, "poll") /\ Known(c) /\ c \in finished
    /\ Goes(c, "shown")
    /\ OnlyClient

MutBack(c) ==               \* mutant: the analysis always stops its server
    /\ client[c].pc \in {"failed", "full", "shown"}
    /\ Goes(c, IF c \in Once THEN "gone" ELSE "menu")
    /\ server' = [s \in Pids |-> IF s = client[c].proc
                                 THEN [server[s] EXCEPT !.pc = "dead"]
                                 ELSE server[s]]
    /\ port' = [p \in Ports |-> IF port[p] = client[c].proc THEN "wait"
                                ELSE port[p]]
    /\ UNCHANGED finished
Back(c) ==
    /\ client[c].pc \in {"failed", "full", "shown"}
    /\ Becomes(c, [client[c] EXCEPT !.pc = IF c \in Once THEN "gone" ELSE "menu",
                                   !.cand = 0, !.job = None, !.tries = 0])
    /\ OnlyClient

-----------------------------------------------------------------------------
(* stop_server and the processes *)

\* Processes that are terminated leave their port in TIME_WAIT; a test bind of the
\* client itself is closed.
Killed(c, S) ==
    /\ server' = [s \in Pids |-> IF s \in S /\ ~Gone(s)
                                 THEN [server[s] EXCEPT !.pc = "killed"]
                                 ELSE server[s]]
    /\ port' = [p \in Ports |->
          IF port[p] \in S THEN "wait"
          ELSE IF Is(c, "close") /\ p = client[c].cand THEN "free" ELSE port[p]]
    /\ UNCHANGED finished

Children(c) == {s \in Pids : server[s].owner = c}

Stops(c) == Becomes(c, [NewClient EXCEPT !.pc = "stopped"])

\* action_exit, chosen in the menu or by Ctrl-C there, which _getch reads as a
\* character: "Server stopped."
Exit(c) ==
    /\ Is(c, "menu") /\ c \notin Once
    /\ Killed(c, {client[c].proc} \cap Pids)
    /\ Stops(c)

\* Ctrl-C while no key is awaited, up to the end of the analysis, ends in
\* action_exit; a POSIX terminal sends it to the children too.  _press_enter then
\* takes it like Enter: Back.
Interrupt(c) ==
    /\ client[c].pc \notin {"shown", "failed", "full", "stopped", "gone"}
    /\ Killed(c, {client[c].proc} \cap Pids) \/ Killed(c, Children(c))
    /\ Stops(c)

\* prompt_path swallows the Ctrl-C that the children get.
PromptInterrupted(c) ==
    /\ Is(c, "menu") /\ c \notin Once
    /\ Killed(c, Children(c))
    /\ UNCHANGED client

\* HTTPServer binds with SO_REUSEADDR: a port in TIME_WAIT will do.
Bind(s) ==
    /\ server[s].pc = "starting"
    /\ port[server[s].port] \in {"free", "wait"}
    /\ server' = [server EXCEPT ![s].pc = "serving"]
    /\ port' = [port EXCEPT ![server[s].port] = s]
    /\ UNCHANGED <<client, finished>>

BindFails(s) ==
    /\ server[s].pc = "starting"
    /\ port[server[s].port] \notin {"free", "wait"}
    /\ server' = [server EXCEPT
          ![s].pc = IF port[server[s].port] \in Pids THEN "dead" ELSE "blocked"]
    /\ UNCHANGED <<port, client, finished>>

WaitOver(p) ==
    /\ port[p] = "wait"
    /\ port' = [port EXCEPT ![p] = "free"]
    /\ UNCHANGED <<server, client, finished>>

ForeignBinds(p) ==
    /\ Foreign
    /\ port[p] \in {"free", "wait"}
    /\ port' = [port EXCEPT ![p] = "other"]
    /\ UNCHANGED <<server, client, finished>>

ForeignLeaves(p) ==
    /\ port[p] = "other"
    /\ port' = [port EXCEPT ![p] = "free"]
    /\ UNCHANGED <<server, client, finished>>

-----------------------------------------------------------------------------
\* What a client does without waiting for its user.
ClientStep(c) ==
    \/ ProbeYes(c) \/ ProbeNo(c)
    \/ TestBind(c) \/ TestClose(c) \/ PortTaken(c)
    \/ Running(c) \/ \E s \in Pids : Spawn(c, s)
    \/ WaitYes(c) \/ WaitNo(c) \/ ChildDead(c) \/ ChildAlive(c)
    \/ LastYes(c) \/ LastNo(c)
    \/ Trigger(c) \/ TriggerFails(c) \/ PollEnds(c)

User(c) ==
    Analyze(c) \/ Back(c) \/ Exit(c) \/ Interrupt(c) \/ PromptInterrupted(c)

Process(s) == Bind(s) \/ BindFails(s)

Next ==
    \/ \E c \in Clients : ClientStep(c) \/ User(c) \/ JobEnds(c)
    \/ \E s \in Pids : Process(s)
    \/ \E p \in Ports : WaitOver(p) \/ ForeignBinds(p) \/ ForeignLeaves(p)

Spec == Init /\ [][Next]_vars

\* Clients run and jobs end.  A server that was started may hang for ever; users
\* and other programs do as they please.
FairSpec ==
    /\ Spec
    /\ \A c \in Clients : WF_vars(ClientStep(c)) /\ WF_vars(JobEnds(c))

-----------------------------------------------------------------------------
ClientPc == {"menu", "probe", "bind", "close", "running", "wait", "child", "last",
             "trigger", "poll", "shown", "failed", "full", "stopped", "gone"}

\* Every variable has the shape the code gives it.
TypeOK ==
    /\ port \in [Ports -> Pids \cup {"free", "wait", "test", "other"}]
    /\ server \in [Pids -> [pc : {"none", "starting", "serving", "killed",
                                  "dead", "blocked"},
                            port : Ports, owner : Clients \cup {None}]]
    /\ client \in [Clients -> [pc : ClientPc, cand : Ports, PORT : Ports,
                               proc : Pids \cup {None},
                               job : Pids \cup {None}, tries : Nat]]
    /\ finished \subseteq Clients

\* A user has stopped the server of that port.
Stopped(p) == \E s \in Pids : server[s].pc = "killed" /\ server[s].port = p

\* Clients that start together share one server: the one whose child loses the
\* port uses the winner's.  A client that is answered in time fails to start only
\* after all its attempts, or because a user has stopped a server of that port, or
\* because another's test bind or program held the port when its child needed it.
RaceIsBenign ==
    \A c \in Clients \ Slow : Is(c, "failed") =>
        \/ client[c].tries = Attempts
        \/ Stopped(client[c].PORT)
        \/ client[c].proc # None /\ server[client[c].proc].pc = "blocked"

\* While a client polls, the server behind its port is the one that knows
\* its job, unless a user has stopped that one.
JobStaysKnown ==
    \A c \in Clients :
        Is(c, "poll") => Known(c) \/ server[client[c].job].pc = "killed"

Exhausted == \A s \in Pids : server[s] # NoProcess    \* the bound is reached

\* Looking for, adopting or starting a server always comes to an end, whether the
\* server that was started ever answers or not.
StartSettles ==
    \A c \in Clients :
        client[c].pc \in {"probe", "bind", "close", "running", "wait", "child",
                          "last", "trigger"}
            ~> client[c].pc \in {"poll", "failed", "full", "stopped"} \/ Exhausted

\* And so does polling, unless a user stopped the server that knows the job.
PollingEnds ==
    \A c \in Clients : Is(c, "poll") ~>
        (~Is(c, "poll") \/ server[client[c].job].pc = "killed")
=============================================================================
