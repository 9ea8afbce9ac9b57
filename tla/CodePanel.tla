----------------------------- MODULE CodePanel -----------------------------
(***************************************************************************)
(* The code panel of the result page (static/viz.js): one JavaScript       *)
(* thread that shows files (loadFileInPanel, _syncCodePanel) and the       *)
(* references of a symbol (_symShowSnippets of static/symbol_view.js).     *)
(* Each of them writes the header, fetches, and writes the body when the   *)
(* reply comes, by which time another may have written its header.         *)
(***************************************************************************)
EXTENDS Integers, Sequences, SequencesExt

CONSTANTS
    Files, Symbols,
    Nets,          \* the networks considered, see net
    MayClose,      \* does the user ever close the panel?
    MaxPending     \* bound: requests under way

ASSUME ContentAssumption ==
    /\ Files \cap Symbols = {}
    /\ {"None", "Loading", "Failed"} \cap (Files \cup Symbols) = {}
ASSUME NetworkAssumption ==
    /\ Nets \subseteq {"none", "orderly", "faulty"} /\ MayClose \in BOOLEAN
    /\ MaxPending \in Nat \ {0}

VARIABLES
    net,       \* "none": the page has no job id and no server; "orderly":
               \* replies come in order; "faulty": they may overtake or fail
    panel,     \* codeState and the elements of the panel, see PanelRecord
    pending    \* the requests under way, in the order they were issued

panelVars == <<net, panel, pending>>


None == "None"
NewPanel == [isOpen |-> FALSE, userClosed |-> FALSE,
             currentFile |-> None,
             lines |-> None,      \* the file rawLines, funcLineMap are of
             header |-> None,     \* what cp-filename names
             body |-> None,       \* what cp-code-wrap holds
             view |-> "empty"]    \* which of its elements is displayed

hasJob == net # "none"

PanelInit ==
    /\ net \in Nets
    /\ panel = NewPanel
    /\ pending = <<>>

Request(kind, what) == [kind |-> kind, what |-> what]
Issued(q, request) == Len(q) < MaxPending /\ pending' = Append(q, request)

-----------------------------------------------------------------------------
(* Showing a file.  q is the queue the caller leaves.                      *)

Opened == [panel EXCEPT !.isOpen = TRUE, !.userClosed = FALSE]
Headed(f) == [Opened EXCEPT !.header = f]
Refuses == panel.userClosed /\ ~panel.isOpen

ShowNoJob(f, q) ==
    /\ ~Refuses /\ ~hasJob
    /\ panel' = [Headed(f) EXCEPT !.view = "error"]
    /\ pending' = q

\* A new file: only the header is written before the reply.
ShowFetch(f, q) ==
    /\ ~Refuses /\ hasJob /\ f # panel.currentFile
    /\ panel' = [Headed(f) EXCEPT !.view = "loading"]
    /\ Issued(q, Request("file", f))

\* loadFileInPanel: the user's close is respected, the current file is not
\* fetched again.
LoadRefused(q) == Refuses /\ pending' = q /\ UNCHANGED panel
MutLoadCurrent(f, q) ==     \* mutant: the spinner is left on
    /\ ~Refuses /\ hasJob /\ f = panel.currentFile
    /\ panel' = [Headed(f) EXCEPT !.view = "loading"]
    /\ pending' = q
LoadCurrent(f, q) ==
    /\ ~Refuses /\ hasJob /\ f = panel.currentFile
    /\ panel' = [Headed(f) EXCEPT !.view = "wrap"]
    /\ pending' = q

LoadFile(f, q) ==
    LoadRefused(q) \/ ShowNoJob(f, q) \/ LoadCurrent(f, q) \/ ShowFetch(f, q)

\* _syncCodePanel: a closed panel only notes the file; the current file gets
\* its header again and nothing else.
SyncClosed(f) ==
    /\ Refuses
    /\ panel' = [panel EXCEPT !.currentFile = f]
    /\ UNCHANGED pending
SyncCurrent(f) ==
    /\ ~Refuses /\ hasJob /\ f = panel.currentFile
    /\ panel' = Headed(f)
    /\ UNCHANGED pending

SyncFile(f) ==
    SyncClosed(f) \/ ShowNoJob(f, pending) \/ SyncCurrent(f)
    \/ ShowFetch(f, pending)

-----------------------------------------------------------------------------
(* Snippets, the buttons                                                   *)

\* The sentinel meant for currentFile is never written: codeState is a const
\* of another script, and so no property of window.
ShowSnippets(s) ==
    /\ panel' = [Opened EXCEPT !.view = "wrap", !.body = "Loading"]
    /\ Issued(pending, Request("refs", s))

Close ==
    /\ MayClose /\ panel.isOpen
    /\ panel' = [panel EXCEPT !.isOpen = FALSE, !.userClosed = TRUE]
    /\ UNCHANGED pending

\* The toggle button opens the panel and syncs the current file.
Reopen ==
    /\ ~panel.isOpen
    /\ panel' = IF panel.currentFile = None THEN Opened
                ELSE IF hasJob THEN Headed(panel.currentFile)
                ELSE [Headed(panel.currentFile) EXCEPT !.view = "error"]
    /\ UNCHANGED pending

-----------------------------------------------------------------------------
(* Replies                                                                 *)

Arrives(i, kind) ==
    /\ hasJob /\ pending[i].kind = kind
    /\ i = 1 \/ net = "faulty"
Fails(i, kind) == net # "orderly" /\ pending[i].kind = kind

FileReply(i) ==
    /\ Arrives(i, "file")
    /\ LET f == pending[i].what IN
       panel' = [panel EXCEPT !.currentFile = f, !.lines = f, !.body = f,
                              !.view = "wrap"]
    /\ pending' = RemoveAt(pending, i)

\* showCpError, for an error in the reply or none at all
FileFails(i) ==
    /\ Fails(i, "file")
    /\ panel' = [panel EXCEPT !.view = "error"]
    /\ pending' = RemoveAt(pending, i)

RefsReply(i) ==
    /\ Arrives(i, "refs")
    /\ panel' = [panel EXCEPT !.header = pending[i].what,
                              !.body = pending[i].what]
    /\ pending' = RemoveAt(pending, i)

RefsFail(i) ==
    /\ Fails(i, "refs")
    /\ panel' = [panel EXCEPT !.body = "Failed"]
    /\ pending' = RemoveAt(pending, i)

-----------------------------------------------------------------------------
User ==
    \/ \E f \in Files : LoadFile(f, pending) \/ SyncFile(f)
    \/ \E s \in Symbols : ShowSnippets(s)
    \/ Close \/ Reopen

Reply(i) == FileReply(i) \/ FileFails(i) \/ RefsReply(i) \/ RefsFail(i)

-----------------------------------------------------------------------------
PanelRecord ==
    [isOpen : BOOLEAN, userClosed : BOOLEAN,
     currentFile : Files \cup {None}, lines : Files \cup {None},
     header : Files \cup Symbols \cup {None},
     body : Files \cup Symbols \cup {None, "Loading", "Failed"},
     view : {"empty", "loading", "wrap", "error"}]

\* Every variable has the shape the code gives it.
PanelTypeOK ==
    /\ net \in Nets
    /\ panel \in PanelRecord
    /\ pending \in Seq([kind : {"file", "refs", "graph"},
                        what : Files \cup Symbols])

FilePending == \E i \in 1..Len(pending) : pending[i].kind = "file"

\* The spinner is never left on: while it turns, a file is being fetched.
SpinnerMeansFetch == panel.view = "loading" => FilePending
=============================================================================
