# A TLA+ verification project for CodeViz (VIZCODE V4)

CodeViz analyses a source tree and shows it in the browser. A Python server
(`server.py`) runs one analysis per job in background threads and answers HTTP
requests; a terminal program (`vizcode.py`) and a web page (`launcher.html`)
start jobs and poll them; the result page (`static/*.js`) draws graphs, keeps
navigation histories and fetches source text, symbols and search results
asynchronously; `analyze_viz.py`, `detector.py` and `parsers/` turn the files
into the graph.

The repository also carries `Sourcetrail-master`, the C++ code explorer that
CodeViz takes its symbol view from. It is by far the larger program and a
concurrent one: tasks on several schedulers, indexer processes on shared
memory, database files swapped under running views, tabs with threads of their
own. Its core is modelled here too.

The specifications model the parts whose correctness depends on the order in
which threads, processes, requests and replies happen, on crashes and on what
an earlier step has left. TLC checks small instances; TLAPS proves the central
invariants for all parameters.

## 1. Inventory

CodeViz:

| Component | State | Operations | Talks to |
| --- | --- | --- | --- |
| Job server, `server.py` | `JOBS` (one dictionary per job) and `JOBS_LOCK`; one worker thread per job; one search-index thread per successful job; one handler thread | POST `/analyze`, `/cancel`; GET `/progress`, `/result`, `/jobs`, `/file`, `/search`, `/search-stream`, `/structure`, `/symbols`, ... | every client by HTTP; `analyze_viz` by call and callback |
| Graph builder, `analyze_viz.py` | tables built stage by stage | `build_graph` and its stages | parsers, detector; the worker's progress callback |
| Terminal client, `vizcode.py` | `_server_proc`, `PORT`, poll buffer, animation | choose a port, adopt or spawn a server, start and poll a job, stop the server | job server, operating system |
| Launcher page, `launcher.html` | `currentJob`, timers, counters | start an analysis, poll it | job server |
| Code panel, `static/viz.js` | `codeState`, header, body, spinner | show a file, open, close, late replies | job server |
| Symbol view, `static/symbol_view.js` | `_sym`: active symbol, back and forward stacks, collapsed nodes | open, close, activate, back, forward, render a reply | job server, code panel |
| Result page, `static/viz.js` | level, L1 and L2 histories, search state | drill, back, forward, stream a search | job server |
| Structure view, trail layout, detector, parsers, texts, batch launcher | none, or a token | - | - |

Sourcetrail:

| Component | State | Operations | Talks to |
| --- | --- | --- | --- |
| Indexing pipeline, `TaskBuildIndex`, `TaskFillIndexerCommandQueue`, `InterprocessIndexer`, shared-memory managers, `TaskMergeStorages`, `TaskInjectStorage` | command queue, status and storages in shared memory; the storage provider; the blackboard | fill, pop, index, die, restart, fetch, merge, inject, interrupt, terminate | project, dialog |
| Project, `Project`, `Application`, `TaskFinishParsing` | two database files, `m_state`, `m_refreshStage`, the tasks of the scheduler | load, refresh, index, keep, discard, swap, close | indexing pipeline, dialogs, file system |
| History, `UndoRedoController` | list, iterator, menu, buttons | record, undo, redo, jump, replay | the tab's message queue and views |
| Tabs, `TabsController`, `QtTabsView`, `QtThreadedFunctor` | tab bar, existing tabs, one scheduler per tab | open, close, destroy, clear | application, Qt, schedulers |
| Refresh and storage, `RefreshInfoGenerator`, `TaskCleanStorage`, `PersistentStorage`, `SqliteIndexStorage` | tables of files, texts, includes, symbols, connections, errors | compare with the disk, clear, inject | project, indexing pipeline, file system |
| Schedulers and tasks, `lib/utility/scheduling` | task queues, loop flags | push, hold, terminate, start and stop a loop | all of the above |
| Message queue | messages, listeners | push, dispatch as task | all of the above |
| Parsers, graph and code controllers, views | syntax trees, layouts | visiting, queries, drawing | storage |

Hard behaviours: the handler copies a job's dictionary after it has released
the lock; a worker can fail after it has published its result; two terminals
may choose the same port; pages issue a request, go on, and receive the reply
in another state; indexers die between taking a command and reporting it; the
program dies between removing a database and renaming the new one; a replay of
the history waits behind other messages; files change while they are
compared, parsed and stored; a tab is closed, stopped and destroyed
by three threads while a fourth runs its handlers.

What makes each component correct:

- Job server: an answer once given stays true, verdicts change only where a
  report fails, accepted jobs end, locked listings are whole.
- Terminal client: concurrent clients share or avoid a server, starting and
  polling end, and a polled job stays known.
- Launcher page: never "analysing" with nobody polling; counter and link belong
  to the analysis they are shown with.
- Code panel, symbol view: the spinner turns only during a fetch; the graph is
  that of the active symbol; no step of Back and Forward is lost.
- Indexing pipeline: no command or record is doubled or lost, the count is
  right, a run ends.
- Project: a kept index survives crashes; no index is built on remains; views
  read the saved index; an indexing ends.
- Refresh: when there is nothing to refresh, the index has all that the files
  say and nothing they do not say; one refresh is enough; what is kept stays
  whole.
- History: what is shown is what the history says; back and forward are
  inverse; the menu leads where it says, unless it could not list something.
- Tabs: none is destroyed under its thread, each is served, clearing ends, the
  last tab is replaced.

`PROJECT.json` lists every component with its status and every hazard at its
line.

## 2. Modules

| Module | Composes | Specification and proofs |
| --- | --- | --- |
| `JobLifecycle` | - | abstract life of a job |
| `JobServer` (`MCJobServer`) | worker, index and handler threads | implements `JobLifecycle`; `JobServerProofs` |
| `Launcher` (`MCLauncher`) | the page and `JobLifecycle` | `LauncherProofs` |
| `CliServer` | terminals, server processes, ports | `CliServerProofs` |
| `CodePanel` | panel and network | `SymbolNavProofs` |
| `SymbolNav` (`MCSymbolNav`) | extends `CodePanel` with the symbol view | `SymbolNavProofs`, of both |
| `IndexJob` | - | abstract indexing run |
| `IndexPipeline` | filler, indexers, fetching, merging, injecting | implements `IndexJob`; `IndexPipelineProofs` |
| `ProjectRefresh` | project, application, scheduler, files | `ProjectRefreshProofs` |
| `Refresh` (`MCRefresh`) | files on disk, two indexes, parsers | `RefreshProofs` |
| `UndoRedo` (`MCUndoRedo`) | controller and the tab's queue | `TabsProofs` |
| `Tabs` | Qt, application, background and tab threads | `TabsProofs`, of both |

Definitions named `Mut...` are deliberate bugs; no specification uses them.

**`JobServer`** (`server.py`). `jobs[j]` is the dictionary of a job with the
fields clients can tell apart; `lock` is `JOBS_LOCK`; `worker[j]` is the place
of a worker in the list of callbacks `build_graph` makes for its number of
files (`Call`); `indexer[j]` the index thread; `http` the single handler
thread, which for `/progress` holds a copy that grows one key at a time
(`ProgressKey`). One action per step that other threads can come between: a
callback takes the lock and writes percent and stage (`CbPct`), then its
keyword arguments (`CbArgs`), and so on to `Finish`, `Report`, `Spawn` and the
except clause. `Faults` says which of `print`, `Thread.start` and the rendering of
a result may raise, `Messages` whether an exception of `build_graph` may have an
empty message (`"blank"`), which the code takes for no error (`Falsy`).
`JobLifecycle` is what a client may rely on: a job runs, succeeds or fails, may
be "retracted" by an error recorded after the success, and completion is
promised only when there is a graph, or when the failure left no message (phase
"silent"). The mapping is `PhaseOf`.

**`Launcher`** (`launcher.html`). Each call of `startAnalysis` is a chain of
request, reply, timeout (`chain[c]`); the chains share `currentJob`,
`pollTimer`, the counter (`files`) and the message. The server is an instance of
`JobLifecycle` plus dropped polls, a kill and a restart. `EnterKey` says whether
the user presses Enter while an analysis runs; the disabled button does not
stop that.

**`CliServer`** (`vizcode.py`, `main` of `server.py`). `port[p]` says who
listens; a client walks the ports with a probe and a test bind per port, spawns
a child, waits, adopts. Each probe, bind and close is a step, and each client
gives up waiting after `Attempts`. A process that was started may hang before it
serves; it is "killed" by its user, "dead" when another server has its port,
"blocked" when a test bind or another program has it. Ctrl-C ends a client
anywhere but where it waits for a key (`Interrupt`): there it is Exit in the
menu and Back after an analysis, and in the prompt of a path it only reaches the
children (`PromptInterrupted`). `Slow` are the clients whose requests may time
out, `Foreign` lets other programs take and leave ports. In `TIME_WAIT` a port
refuses the test bind but not the server, which binds with `SO_REUSEADDR`.

**`CodePanel`, `SymbolNav`** (`static/viz.js`, `static/symbol_view.js`).
`panel` holds `codeState` and the parts of the panel; `pending` the requests
under way; `net` the network: none, orderly, or faulty (replies overtake each
other or fail). `GraphReply` renders whatever arrives and loads its file through
`CodePanel`'s `LoadFile`.

**`IndexPipeline`** (`lib/data/indexer`, `TaskMergeStorages`,
`TaskInjectStorage`). A command is the number of its file, a storage the set of
its records, so doubling and loss are visible as set facts. Each access to
shared memory under its mutex is one step. `thr` and `ipc` are the thread of
each indexer and the process it runs; `Die` is a process that ends in a step in
`DiesIn`; the thread then starts another, and `CrashedFiles` says which files
the report calls crashed. `IndexJob` promises that the database only gains new
records and that a run nobody stopped ends with a trace of every file.

**`ProjectRefresh`** (`Project.cpp`, `Application.cpp`). The application's
scheduler runs one task at a time; the indexing is a held task that goes to the
end of the queue after each `step`. `db` and `temp` are the two database files,
with how complete their index is and whether it was begun on remains. The swap
is two steps with a crash between them. A removal may fail silently
(`MayLock`), and a task may throw, which terminates all others (`MayThrow`). A
project whose settings cannot be read, or whose second file cannot be renamed,
is there but not loaded (`LoadFails`).

**`Refresh`** (`RefreshInfoGenerator.cpp`, `Project.cpp`, `Indexer.h`,
`Storage::inject`, `PersistentStorage.cpp`, `SqliteIndexStorage.cpp`). `disk` is
the text of each file, `db` and `temp` the index and its copy that is being
built: the rows of files, the texts stored, include edges, and where symbols,
connections and errors are located. `AskRefresh` compares and shows what a mode
would do; `BuildIndex`, after any time, does what was shown. A parser reads all
files its source file includes (`Recorded`), several parsers record one header,
and `Inject` merges them in any order, with the time and text the file has then.
What a text says depends on the macros defined where it is included: `Content`
is what a text may say under any of them, `Sees(s, d, f)` what the parser of `s`
sees of `f` when the disk is `d`. The user edits, removes and adds files at every
moment (`Edit`), and each time the file may come out later than its row or not
(`Aged`): times are whole local seconds, a file may be replaced by an older one,
a clock set back. Four history fields let the properties say what they except:
`hidden` (the row of a file hides a change: the file came out no later than its
row, was parsed as another text than was stored, or is not indexed and
disappeared), `created` (a missing file that was wanted came into being), `torn` (connections
cleared in files that were kept) and the variable `quiet` (no edit, crash or
interruption since the user asked). `ProjectRefresh` has the files the indexes
are in, this module what is in them.

**`UndoRedo`** (`UndoRedoController.cpp`). `list`, `iter` and `offset` are the
controller's; a replay puts its commands into `queue` behind what waits and they
come back marked as replayed. `told` records what the other listeners of the tab
were told since something was last activated, as what it adds up to (`Settled`):
commands that a later one of their kind replaces are left out, and a command
that is told again with nothing left in between counts once, as it does for the
handlers. Each kind of message is a kind of command: activating, adapting or
viewing, with the lists of those that overwrite, repeat or are replayed once.
Some kinds share a C++ type (`MessageType`), by which the handlers compare a
message with the last one: nodes, edges and bundles; trails. The specification
is `HistorySpec`: its names differ from those of `Tabs`, so that one module has
the theorems of both. `Nameless` are the activations without search matches or
with an empty text, which `updateHistory` counts and does not list: the entries
behind one are shifted.

**`Tabs`** (`TabsController.cpp`, `QtTabsView.cpp`, `QtThreadedFunctor.h`,
`TaskScheduler.cpp`). One program counter per thread; `call` is what the
functor's semaphore lets through, one call at a time; `loop` is the flag of each
tab's scheduler, which the background scheduler waits for.

## 3. The runs

| Run | Question | Bounds |
| --- | --- | --- |
| `job` | two jobs, handler and index threads contend for the lock with every fault and with empty messages: types, coherent torn answers, whole listings, stages, verdicts, refinement, end | 2 jobs, 1 file, the loop's callback and the last one |
| `launcher` | two overlapping analyses, a dropped poll, a verdict taken back, a failure without a message, a killed server | 2 jobs of one file and none, 2 calls, 1 drop, 1 kill |
| `cli` | two terminals at once, one without a menu; one with slow requests; another program on the ports | 2 ports, 2 server processes, 2 attempts for each client |
| `symbol_view` | panel and symbol view under every network | 2 symbols, 1 file, 2 requests under way, trail of 2 |
| `index_safety` | nothing doubled, dropped or miscounted with an indexer that dies | 3 files, 2 indexers, queue of 2, 1 unfetched storage |
| `index_live` | refinement of `IndexJob`; a run ends with deaths, no executable, Stop and termination | 2 files, 1 indexer |
| `index_left_behind` | disagreement found | 2 files, 1 indexer, queue of 1 |
| `undo_redo` | history, replay, menu, an indexing in between | 9 commands, one not listed, list of 4, menu of 2; 2.1 million states |
| `project` | load, refresh, index, keep, discard | 2 crashes, throws and locks |
| `tabs` | opening, closing, clearing | 2 tabs, 1 waiting message each |
| `refresh` | what a refresh clears and indexes, with edits at any time, crashes and interruptions | 2 source files, 1 header, 1 file outside, 3 texts, 1 macro, 3 symbols, 2 edits; 1.9 million states |
| `refresh_connections` | disagreement found | as `refresh` |

The bounds are the least at which the races exist: a torn copy needs one update
between two keys; overlapping analyses two calls; a port race two clients and
one more port; an overtaken reply two requests; a branch in the trail one step
back and another symbol. A queue of 2 for 3 files makes the filler wait and
refill, and two indexers make a storage wait while another is fetched and
merged. Two crashes allow one during the swap and one during the repair of what
it left. A list of 4 with a menu of 2 has entries outside the menu, and a
branch; two tabs make one request wait for the functor while the other is
stopped. For `refresh` two source files share a header that includes a file
outside of the project, so each of the sets the generator computes (changed,
referring, shared, not shared, incomplete) occurs; two edits put one before a
refresh and one into it, or into the next one. One source file may stop defining
the macro under which the header declares more, still including it or not. Files
matter to the server only through the number of callbacks (`Batch` = 50).
`MaxPending`, `MaxTrail`, `MaxDrops`, `MaxKills`, `Pids`, `LastPort`,
`Attempts`, `MaxCrashes`, `MaxCommands`, `MaxWaiting`, `MaxTabs`, `MaxMessages`,
`MaxWork` and `MaxEdits` are bounds of the instances; the code has none, or
larger ones. `MaxQueue`, `MaxWaiting` and `MaxStored` of `IndexPipeline` are the
code's limits (20, 2, 10) made small, and so is `HistorySize` of `UndoRedo`
(50).

Deadlock is checked except where a cfg says otherwise, which it does where the
program may come to rest.

What the runs suppose, beyond the bounds:

- `index_safety` lets only the first indexer die (see section 5).
- `SavedIndexSurvives`, `IndexIsPure` and `FinishedIsSwapped` are stated for
  runs in which no removal of a file failed; `IndexingEnds` of `ProjectRefresh`
  for runs in which no task threw.
- `undo_redo` has a user who waits until what was asked for is shown
  (`MaxWaiting = 0`), and commands that the handlers tell apart (`ToldApart`,
  which TLC evaluates for them). Without either, `ShownIsHistory` fails:
  section 5.
- `tabs` closes a tab only when its thread has begun (`LateStart = FALSE`).
- `ClearingEnds` excepts tabs that were left behind (`Orphans`), which "close
  tabs to the right" leaves; `LastTabReturns` excepts a flag that says a tab is on
  its way.
- `MenuLeadsThere`: an entry behind an activation that is not listed leads to a
  newer one than it shows, and the menu need not show the current one then.
- `ToldIsServed` excepts a job whose exception had an empty message; a result that
  cannot be rendered is answered with that (`"broken"`).
- `refresh` has source groups that find their files on the disk and can be
  partially cleared; what a parser sees depends on the files it comes by and on
  the includes it misses, and on no other file (`SeesAssumption`): a project in
  which a new file shadows another on the search path, or that asks
  `__has_include`, is outside of it. Its properties except what the fields above
  name: a hidden change, and, for "updated files" only, a missing file that came
  into being. "Accurate" means that the index has all that parsing all source files
  would record now, but for connections a clearing has torn, and says of a file they reach only what its text says under
  some macros. It may say more of a shared header than any parser still sees: a
  header is not cleared for a source file that stops defining a macro while
  another one includes it. Only a refresh of all files is exact
  (`ThoroughRefreshIsAccurate` says both). `NothingToRefreshIsTrue` and
  `ThoroughRefreshIsAccurate` are about projects in which no text includes a
  source file (`SourcesApart`, see section 5). Of files no source file reaches any
  more they say nothing: a refresh that an edit overtakes may leave such a header.
  They are safety properties of a system without fairness.

### Fairness

- `JobServer`: each worker, index thread and the handler's own steps: threads
  always run again and the lock is held for a bounded time. None of clients.
- `Launcher`: replies are handled and timers fire (the event loop), the server
  answers while it is up, jobs end (`AcceptedIsDone` of `job`). A killed server
  need not come back: `AnalysisEnds` assumes it stays up in the end.
- `CliServer`: clients run and jobs end. A server that was started need not ever
  serve, and users, other programs and `TIME_WAIT` are not fair: `StartSettles` holds
  because each client counts its attempts, and `PollingEnds` unless a user stopped
  the server that knows the job. `CodePanel`, `SymbolNav`: none.
- `IndexPipeline`: each task, thread and indexer process goes on; nothing of the
  user's, the scheduler's or a death. A process dies in the runs while it
  indexes a file (`DiesIn`), each time on another one, so files bound it.
- `ProjectRefresh`: the scheduler takes the next task. Strong fairness of
  `IndexEnds`: the indexing is stepped again and again between other tasks and
  ends some time (`IndexPipeline`'s `IndexingEnds`).
- `Tabs`: each of the four kinds of thread goes on.

## 4. What is proved

No theorem supposes more of the constants than the modules' assumptions, which
state their kinds, except where it says so: `FirstDies` and `AllFit` of
`IndexPipelineProofs` are hypotheses of two theorems, `MaxWaiting = 0` and
`ToldApart` of one of `TabsProofs`, and `SourcesApart` is one of two properties of
`Refresh` themselves. All are what a run needs too, and section 5 says what happens
without them.

`JobServerProofs` (any jobs, files, callbacks and faults):

- `TypeCorrect`, with the strengthening `Links` that ties a worker's place to
  its dictionary and to the holder of the lock.
- `ToldServed`, `StatsCarried`: a torn copy that says done without an error
  belongs to a job whose data and statistics are published, or whose exception had
  no message, and then the statistics are in copies with no error at all.
  `Published` says of the copy in progress that, if it has read `done`, the
  dictionary already had its data or its error.
- `VerdictFinal`: what is done stays as it is, except that a worker whose report
  raised records an error over it. `Order` says that a worker that can still
  write has not finished.
- `ListWhole`: `Whole` says that a job is exactly as a whole callback, the end or a
  failure left it, unless its worker is between the halves of a callback, and then
  that worker holds the lock. It rests on `Order`: the index thread touches no
  running job.
- `StagesClimb`: `Staged` orders the stage last shown, the one in the copy, the one
  in the dictionary and that of the next callback. The callbacks ascend for any
  number of files (`CallStage`), given that those before and those after the
  analysis loop do (`StagesAssumption`, read off `build_graph`).
- `Refinement`: each step maps to a step of `JobLifecycle` or to a stutter, whatever
  the messages; an empty one maps to "silent".

`LauncherProofs` (any jobs, calls, sizes, drops and kills):

- `TypeCorrect`, with `ChainsKnow`; `Watched`: a chain only ends when it clears
  the button, when another has cleared `currentJob`, or when `stopTimers` ran.
- `ButtonSafe`: without Enter, `IdleIsQuiet`, `CompleteIsComplete` and
  `CountedWithinTotal`. `OneAnalysis` says that at most one chain is live, that
  it polls `currentJob`, and that the counter is its own.

`IndexPipelineProofs` (any files, indexers, deaths, interruptions, terminations
and sizes):

- `TypeCorrect`.
- `NothingTwiceHolds`: the invariant `Once` adds to `NothingTwice` what each
  task holds in each of its places (`Hands`) and that no crash record exists
  before the report (`Unreported`), so that the report cannot double one.
- `CountInjected`: the number reported is that of the files injected, whoever
  dies. `Counted` says that what was counted is fetched and on its way, or in
  the database; `Control` says which task and thread may be where.
- `NothingDroppedHolds`, if only the first indexer may die, and only when it has no
  command or works on one (`FirstDies`): a process that dies between taking a
  command and announcing it, or between pushing a storage and finishing its file,
  may lose a file, and the crash of one with a higher number may be forgotten
  (`InterprocessIndexingStatusManager.cpp:99`). The invariant `Tracked`
  accounts for every file: whoever works on one is announced (`Workers`), an
  indexer has as many storages as files it has finished (`Matched`), a file
  listed as begun is held or indexed (`Begun`), a file that is not where it may be
  is a crashed one (`Kept`), and what `doExit` leaves is empty (`Emptied`,
  `Reported`).
- `IndexJobImplemented`, moreover with a queue that takes all files at once
  (`AllFit`), since the last refill may come too late: each step of filler,
  indexers, merging and injecting is a step of `IndexJob` or a stutter. `Drained`
  says that a run ends only with an empty queue.

`ProjectRefreshProofs` (whatever throws, is in use or is killed, and however
often):

- `TypeCorrect`, and `SavedSurvives`, `IndexPure`, `ShownSaved` and
  `FinishedSwapped` for the four safety properties of `ProjectRefresh`.
- They are not inductive: `BuildIndex` keeps `SavedIndexSurvives` only if the
  first file is there and the second is not. The invariant adds `Queue` (user
  messages, answers, the sequence and the verdicts each wait at most once; a
  swap or discard waits before the sequence, the sequence before a start, a
  close before a refresh), `Phases` (what each waiting task, step and open dialog
  says of stage, project and state) and `Placed` (where the files are: an open
  project has its first file unless a rename threw; while no index is being
  built there is no second one).

`TabsProofs` (any tabs, messages and work items, with or without late starts):

- `TypeCorrect`; `TabOutlives` and `TabServed` for the two safety properties.
- `Ways` says that a tab leaves by one way: it waits once for its removal, or its
  destruction waits for the Qt thread or is under way, and then its scheduler
  has been stopped. `Serves` says that nothing resets the loop flag of a tab on
  the bar. `Fits` says that the tabs and the calls that will open one stay within
  the bound, so that a free number exists.

`TabsProofs` also has the theorems of `UndoRedo`, the history each tab has (any
commands, any menu of at least two entries, the code has 50, and however fast the
user acts):

- `HistoryTypeCorrect`, with `Shape`: where the iterator stands.
- `BackAndForth`: what the searches for the next and the previous step find
  (`NextStepIs`, `PreviousStepIs`) makes them inverse to each other.
- `MenuLeads`: an entry leads to what it shows, or, behind an activation that is
  not listed, to a newer one: of the positions the list has and of those the menu
  names, in falling order (`Falling`, `Named`), the latter are never ahead
  (`NamedIsNewest`), and both follow what is recorded alike (`FallingFollows`). The
  menu is the window that `updateHistory` draws over the
  activations, the newest first (`Shows`), or an indexing has ended and it shows
  a bundle that is gone, or a message waits that will have it drawn (`Pending`).
  What is recorded without being an activation leaves the activations alike
  (`RecordedAlike`), and so the menu (`NewestFollows`, `AlikeShows`); a window of
  two entries shows one of the bundles that left an activation alone
  (`BundleShown`); a stretch that begins with an activation replays it
  (`ReplayDraws`). Places in a selection are counted, which needs no induction
  (`Places`, `Ranks`).
- `ShownIs`: at rest the tab shows what its list says, for a user who waits
  and commands that the handlers tell apart. `ShownInv` says that besides the
  commands of a replay and ends of indexing one message at most waits (`Alone`);
  that only given commands reach the list (`Gives`); and that, unless an
  end of indexing or a refresh is still to come (`Upset`), what is shown, with
  what waits of a replay told after it, adds up to the list's stretch (`Agrees`).
  A replay leaves commands out and the user's own were told in full, so the
  proof is about what sequences add up to: leaving out what does not count, all
  of it or some, changes nothing (`CountsThinned`, `SettledThinned`,
  `SettledCondensed`); commands may be settled as they come or all at once; a
  stretch of the list splits at the iterator (`StretchSplit`), so that redo
  continues what is shown. Each handler has a lemma (`CommandShown`,
  `PlayedShown`, `RedoShown`, `UndoShown`, `ToPositionShown`, `FinishedShown`,
  `RefreshShown`).

`CliServerProofs` (any terminals, processes and ports; whatever is slow, taken or
interrupted):

- `TypeCorrect`; `RaceIsBenignHolds` and `JobIsKnown`.
- The invariant: two clients never test one port at a time (`Testing`), so at most
  one child fails to bind it; a server listens on its own port (`Listening`); the
  port of a process that failed to bind it is served, or was until its user
  stopped the server (`Losers`, `Served`); a client that waits has a child of its
  own for the port it polls, gives it up only when it is gone or was asked often
  enough, and knows who serves it or did until stopped (`Own`). `Steady` is what no
  step undoes: a server keeps its port until it is stopped.
- The names of processes and clients differ from the marks in the same fields
  (`NamesAssumption`).

`SymbolNavProofs` (any files, symbols and requests under way, every network):

- `TypeCorrect`, with `Shape`; it rests on what removing a reply from the queue of
  requests leaves (`Removed`, `AnsweredFirst`).
- `SpinnerMeansFetchHolds`: `Spins` ties the spinner to the requests under way.
- `TrailMovesHolds` and `TrailKept`: the trail is one path, the back stack, the
  active symbol and the forward stack reversed, and Back and Forward leave it as
  it is (`PathIs`, `BackPath`, `ForwardPath`, `VisitPath`).
- `SettledGraphHolds`, when replies keep their order: the last graph asked for is
  that of the active symbol and of the collapsed cards (`GraphOrder`).

`RefreshProofs` (any files, texts, includes, symbols, edits, crashes and
interruptions). All rests on reachability: `Following` is closed and least
(`FollowingCloses`, `FollowingIsLeast`).

- `KeptSources`: a source file that is not cleared is not parsed again, and what
  it and the files it reaches have in the index stays in the copy. `Spares`, the
  strengthening, says the same of the files that will be cleared, from the moment
  the user is asked: changed files and those that refer to them are closed
  backwards, a file outside refers to files outside (`OutsideStaysOutside`), and
  of what remains nothing that is cleared is needed (`UpdatedKeeps`,
  `IncompleteKeeps`).
- `OneRefreshHolds`: after an undisturbed refresh nothing is left to do. `Calm`
  says of the copy under construction that no file in it is changed and that
  each source file is there, was parsed, or waits (`Building`).
- `NothingToRefreshHolds`: an index with nothing to refresh is accurate. Its
  invariant is `Sound` of both databases: the rows belong together (`Rows`),
  stored texts that are not older than the file are its text (`Dated`), what is
  recorded of a file with a known text is what that text may say (`Told`), and
  for each source file in the index there is a disk on which its parser would have
  recorded no more than is there, whose files are those of the index as far as
  it knows their texts, and whose missing files are still missing if none came
  into being (`Backed`). An edit, a clearing and an injection keep it (`AgedSound`,
  `ClearSound`, `InjectSound`). When nothing is changed, that disk and the real one
  agree on all that the parser comes by and misses, so it sees the same on both
  (`SameView`, by `SeesAssumption`), and what it would record now is there
  (`BackedIsRead`, `ReadIsAccurate`, `SoundIsAccurate`).
- `ThoroughRefreshHolds`: with incomplete files parsed again the index is accurate
  also where missing files came into being, since a complete source file missed
  nothing (`LeftIsWhole`); what the others come by is read from the disk
  (`ReadAgain`). A refresh of all files moreover adds only what the parsers record
  of the disk (`Pure`), so its index is exact. Both properties need that a source
  file is recorded once in a refresh (`Apart`), which is what `SourcesApart` is for.

So every safety invariant and action property that a passing run checks is
stated by a theorem. Only model-checked: everything under fairness, since
liveness and `ENABLED` are out of the prover's reach.

## 5. What the checks found

Runs that show a disagreement:

- `TaskBuildIndex.cpp:203`: the last refill of the queue may come after the last
  indexer looked, and the run ends with commands in it (`index_left_behind`).
- `SqliteIndexStorage.cpp:556`: clearing a file deletes every connection of the
  symbols located in it, also those located in unchanged files only, which are
  not indexed again (`refresh_connections`).

Met while modelling; the models contain each of them, or the runs exclude it by
a constant named above:

- `launcher.html:988`: with Enter, "Analysis complete" may link to another job:
  both loops share `currentJob`. Without Enter it cannot (`ButtonSafe`).
- `QtTabsView.cpp:287`: "close tabs to the right" takes tabs from the bar only;
  they live on, and the next load waits for them for ever.
- `PersistentStorage.cpp:85`: a header stored complete first stays complete
  though a later storage brings an error in it, because files are injected
  before the locations of errors; "updated and incomplete files" then skips it.
  `clearAllErrors` deletes the errors, not their locations, by which a file still
  counts as one with errors.
- `SqliteIndexStorage.cpp:183`: time and text of a file are read when the first
  result is injected, not when it was parsed; a file edited in between counts as
  up-to-date with the old symbols.
- `TaskBuildIndex.cpp:141`: the record of a crash marks its source file complete
  (`SqliteIndexStorage.cpp:894`), also one that the parser of another source file,
  which includes it, has recorded as incomplete. When that file no longer
  includes it and a file missing below it comes into being, "updated and
  incomplete files" skips it and the include is never recorded. It takes seven
  edits, more than the run has; the proof of `ThoroughRefreshIsAccurate` stopped at
  this step, and TLC follows the trace. That other parser also sets the
  source file indexed, so it does not count as one to be indexed again.
  `NothingToRefreshIsTrue` and `ThoroughRefreshIsAccurate` suppose `SourcesApart`.
- `RefreshInfoGenerator.cpp:237`: a file changed if it is later than its row, and
  both times are local and of whole seconds (`FileSystem.cpp:205`,
  `TimeStamp.cpp:64`): an edit within the second of the injection, an older file put
  in place, or an edit after a clock was set back, goes unseen.
- `RefreshInfoGenerator.cpp:109`: files that unchanged source files refer to are not
  cleared. When a source file stops defining a macro that a shared header depends
  on, the symbols and includes that it alone saw there stay in the index until all
  files are indexed again.
- `SourceGroup.cpp:51`: `filterToContainedSourceFilePath` returns the source files
  that are not among those given. `RefreshInfoGenerator.cpp:194` gives it the
  complement, so the result is right; `containsSourceFilePath` says whether the
  group has any other file.
- `server.py:110`: a `/progress` request is dropped when a key is added during
  the unlocked copy; the launcher takes that for a busy server and polls again.
- `server.py:119`: an exception with an empty message is stored as `''`, which
  which counts as none: a client is told of a success, and `/result` says "still
  running" for ever. `server.py:1264`:
  `/cancel` answers ok and cancels nothing.
- `vizcode.py:407`: a second child overwrites the handle of the first, which
  then stays running. `vizcode.py:444`: POST `/analyze` may time out after the
  job was accepted.
- `viz.js:4597`: a panel that is opened again shows the new file's header over
  the old content. `symbol_view.js:765`: the sentinel `window.codeState` is never
  defined, so snippets keep the header of a file. `symbol_view.js:358`: a reply
  after `symViewClose` renders into the hidden view.
- `TaskBuildIndex.cpp:182`: without the executable and with more files than the
  queue holds the filler waits for ever.
- `InterprocessIndexingStatusManager.cpp:99`: finishing a file erases the entries
  of all processes with a higher number, and with them the record of a crash.
- Storages are fetched once for each finished file, so a process that dies
  between pushing its storage and finishing its file leaves one unfetched.
- `Project.cpp:545`: a temporary database that could not be removed is neither
  replaced nor cleared; `FileSystem.cpp:216`: a removal that fails is reported by
  nobody, and the swap then says it succeeded with the old data in place.
- `TaskRunner.cpp:55`: an exception terminates all tasks and leaves the project
  in the stage of indexing until the program ends (`Task.h:30` warns of it).
- `UndoRedoController.cpp`: a user who acts while a replay waits may see
  something else than the history says (with `MaxWaiting = 1` TLC finds an undo
  sent while a refresh waits). Two equal adaptions with a change of focus
  between them are both recorded and both told again after an undo, as
  neighbours, since only the last focus is replayed: it takes five commands, one
  more than the run has, and the proof found it, so `Settled` counts a
  repetition once. The menu is stale after an indexing has removed a bundle from
  the list; Undo with one step reads before the list's begin, which the disabled
  button alone prevents (`QtGraphicsView.cpp:410` bypasses it); the depth of a
  trail is not compared (126): asked again with another depth it is shown, the
  list keeps the older one, and undo and redo bring that back. Activations with
  no search matches or no text are counted and not listed (661), but the entry
  chosen is found by counting all (253-288): entries behind one lead to another
  command than they show.
- `TabsController.cpp:170`: `m_isCreatingTab` may be set after the Qt thread has
  reset it. `TaskScheduler.cpp:61`: a loop stopped before its thread began waits
  for ever.

## 6. What is not modelled

Parsing, texts and styles, browser storage, coordinates and drawing. In CodeViz:
the drills and L1/L2 histories of the graph page, the streamed search, the
structure view, the detector and the trail layout. In Sourcetrail: the queries
of the SQLite storages, the graph and code controllers and the Qt views that
lay out and draw what they return, the language front ends, the project wizard
and preferences. These are most of its lines: sequential transformations of data
with no protocol between parts, for which an order of steps, a crash or a retry
changes nothing. Left out of modelled parts: source groups that cannot
be partially cleared, shallow indexing, imports (which refer like includes), the
trees of sequences and selectors (their order is in the tasks' steps), filters
and listener lists of the message queue, titles and selection of tabs. Of the
message queue, two hazards are therefore not covered: a nested `sendMessage`
overwrites the index of the outer one, and a listener may be destroyed by another
thread while it is being handled.
