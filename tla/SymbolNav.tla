----------------------------- MODULE SymbolNav -----------------------------
(***************************************************************************)
(* The symbol view of the result page (static/symbol_view.js) over the     *)
(* code panel (CodePanel): the active symbol, its back and forward stacks, *)
(* the collapsed class cards, and the graph last rendered, which a reply   *)
(* of /symbol-graph brings, together with a file for the panel.            *)
(* Every symbol is taken to be a class card with members; edge filters are *)
(* left out.                                                               *)
(***************************************************************************)
EXTENDS CodePanel

CONSTANTS
    FileOf,        \* the file that defines each symbol
    Primary,       \* the first symbol of each file
    Near,          \* the neighbours drawn with each symbol
    MaxTrail       \* bound: symbols on the two stacks

ASSUME SymbolAssumption ==
    /\ FileOf \in [Symbols -> Files] /\ Primary \in [Files -> Symbols]
    /\ \A f \in Files : FileOf[Primary[f]] = f
    /\ Near \in [Symbols -> SUBSET Symbols]
    /\ \A s \in Symbols : s \notin Near[s]
ASSUME TrailAssumption == MaxTrail \in Nat /\ "center" \notin Symbols

VARIABLES
    shown,       \* is the view displayed?
    active, history, future, collapsed,   \* _sym
    graph        \* _sym.cy: the centre and the collapsed cards drawn, if any

sym == <<shown, active, history, future, collapsed, graph>>
vars == <<panelVars, sym>>

NoGraph == [center |-> None, collapsed |-> {}]

\* The view is opened from the code panel.
Init ==
    /\ PanelInit
    /\ shown = FALSE /\ active = None
    /\ history = <<>> /\ future = <<>>
    /\ collapsed = {}
    /\ graph = NoGraph

-----------------------------------------------------------------------------
(* symViewActivate, called with the stacks and the active symbol a caller  *)
(* has left: b, f and a.                                                   *)

Fetch(s) == Issued(pending, Request("graph", s))

MutKeepFuture(s, a, b, f, fromHistory) ==   \* mutant: the branch not taken
    /\ IF a # None /\ a # s                 \* stays on the forward stack
       THEN history' = Append(b, a) /\ future' = f /\ collapsed' = {}
       ELSE history' = b /\ future' = f /\ UNCHANGED collapsed
    /\ Len(history') + Len(future') <= MaxTrail
    /\ active' = s /\ shown' = TRUE
    /\ Fetch(s)
Activate(s, a, b, f, fromHistory) ==
    /\ IF a # None /\ a # s
       THEN /\ history' = Append(b, a)
            /\ future' = IF fromHistory THEN f ELSE <<>>
            /\ collapsed' = {}
       ELSE history' = b /\ future' = f /\ UNCHANGED collapsed
    /\ Len(history') + Len(future') <= MaxTrail
    /\ active' = s /\ shown' = TRUE
    /\ Fetch(s)

\* The Structure button, for the current file of the code panel.
Open ==
    /\ panel.isOpen /\ panel.currentFile # None
    /\ Activate(Primary[panel.currentFile], None, <<>>, <<>>, FALSE)
    /\ UNCHANGED <<graph, panel>>

\* A neighbour in the graph, or any symbol found by the search box.
Visit(s) ==
    /\ shown
    /\ Activate(s, active, history, future, FALSE)
    /\ UNCHANGED <<graph, panel>>

MutBackEnd ==               \* mutant: push for unshift
    /\ shown /\ history # <<>>
    /\ Activate(Last(history), None, Front(history), future \o <<active>>, TRUE)
    /\ UNCHANGED <<graph, panel>>
Back ==
    /\ shown /\ history # <<>>
    /\ Activate(Last(history), None, Front(history), <<active>> \o future, TRUE)
    /\ UNCHANGED <<graph, panel>>

Forward ==
    /\ shown /\ future # <<>>
    /\ Activate(Head(future), None, Append(history, active), Tail(future), TRUE)
    /\ UNCHANGED <<graph, panel>>

CloseView ==
    /\ shown
    /\ shown' = FALSE /\ active' = None
    /\ history' = <<>> /\ future' = <<>>
    /\ collapsed' = {}
    /\ graph' = NoGraph
    /\ UNCHANGED <<panel, pending>>

-----------------------------------------------------------------------------
(* The graph                                                               *)

\* The centre is a node of its own; the others are named by their symbols.
Cards(s) == {"center"} \cup Near[s]
Drawn == shown /\ graph.center # None

MutToggle(n) ==             \* mutant: the card is not drawn again
    /\ Drawn /\ n \in Cards(graph.center)
    /\ collapsed' = IF n \in collapsed THEN collapsed \ {n}
                    ELSE collapsed \cup {n}
    /\ UNCHANGED <<shown, active, history, future, graph, panel, pending>>
Toggle(n) ==
    /\ Drawn /\ n \in Cards(graph.center)
    /\ collapsed' = IF n \in collapsed THEN collapsed \ {n}
                    ELSE collapsed \cup {n}
    /\ Fetch(active)
    /\ UNCHANGED <<shown, active, history, future, graph, panel>>

TapMember(s) ==
    /\ Drawn /\ s \in {graph.center} \cup Near[graph.center]
    /\ ShowSnippets(s)
    /\ UNCHANGED sym

TapCenter ==
    /\ Drawn
    /\ LoadFile(FileOf[graph.center], pending)
    /\ UNCHANGED sym

\* The graph that arrives is rendered, whatever is active by now, and even
\* if the view has been closed; its file is loaded.
GraphReply(i) ==
    /\ Arrives(i, "graph")
    /\ LET s == pending[i].what IN
       /\ graph' = [center |-> s, collapsed |-> collapsed \cap Cards(s)]
       /\ LoadFile(FileOf[s], RemoveAt(pending, i))
    /\ UNCHANGED <<shown, active, history, future, collapsed>>

GraphFails(i) ==
    /\ Fails(i, "graph")
    /\ pending' = RemoveAt(pending, i)
    /\ UNCHANGED <<sym, panel>>

PanelReply(i) == Reply(i) /\ UNCHANGED sym

-----------------------------------------------------------------------------
Navigate ==
    Open \/ Back \/ Forward \/ CloseView \/ \E s \in Symbols : Visit(s)

Tap ==
    \/ TapCenter
    \/ \E s \in Symbols : TapMember(s)
    \/ \E n \in Symbols \cup {"center"} : Toggle(n)

\* The panel's own buttons, and a file chosen elsewhere in the page.
Elsewhere ==
    /\ Close \/ Reopen
       \/ \E f \in Files : LoadFile(f, pending) \/ SyncFile(f)
    /\ UNCHANGED sym

Answer(i) == GraphReply(i) \/ GraphFails(i) \/ PanelReply(i)
Answered == \E i \in 1..Len(pending) : Answer(i)

Next ==
    /\ Navigate \/ Tap \/ Elsewhere \/ Answered
    /\ UNCHANGED net

Spec == Init /\ [][Next]_vars

-----------------------------------------------------------------------------
\* Every variable has the shape the code gives it.
TypeOK ==
    /\ PanelTypeOK
    /\ shown \in BOOLEAN /\ active \in Symbols \cup {None}
    /\ history \in Seq(Symbols) /\ future \in Seq(Symbols)
    /\ collapsed \subseteq Symbols \cup {"center"}
    /\ graph \in [center : Symbols \cup {None},
                  collapsed : SUBSET (Symbols \cup {"center"})]

\* The path the user walks, of which the active symbol is one step.
Trail == IF active = None THEN <<>> ELSE history \o <<active>> \o future

\* However the user moves, each step of the trail leads somewhere else: Back
\* and Forward always change the view.
TrailMoves ==
    \A i \in 1..(Len(Trail) - 1) : Trail[i] # Trail[i + 1]

\* Back and Forward never lose a step of the trail; a visit cuts it at the
\* active symbol; nothing else touches it but opening and closing the view.
Past == history \o <<active>>
TrailIsKept ==
    [][\/ Trail' = Trail
       \/ Trail' = Append(Past, active')
       \/ history' = <<>> /\ future' = <<>>]_vars

GraphPending == \E i \in 1..Len(pending) : pending[i].kind = "graph"

\* With replies in order, when no graph is under way the one displayed is that
\* of the active symbol, with just the collapsed cards drawn collapsed.
SettledGraphIsActive ==
    net = "orderly" /\ shown /\ ~GraphPending =>
        /\ graph.center = active
        /\ graph.collapsed = collapsed \cap Cards(active)
=============================================================================
