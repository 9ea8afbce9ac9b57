-------------------------- MODULE SymbolNavProofs --------------------------
(***************************************************************************)
(* Theorems of the symbol view and the code panel, for any number of       *)
(* files, symbols and requests under way, on every network considered.     *)
(***************************************************************************)
EXTENDS SymbolNav, SequenceTheorems, TLAPS

-----------------------------------------------------------------------------
(* The queue of requests *)

\* Requests for files name files, the others symbols.
Requests == [kind : {"file"}, what : Files] \cup [kind : {"refs", "graph"}, what : Symbols]

\* What removing an element leaves.
LEMMA Removed ==
  ASSUME NEW S, NEW q \in Seq(S), NEW i \in 1 .. Len(q)
  PROVE  /\ RemoveAt(q, i) \in Seq(S)
         /\ Len(RemoveAt(q, i)) = Len(q) - 1
         /\ \A j \in 1 .. (Len(q) - 1) : RemoveAt(q, i)[j] = IF j < i THEN q[j] ELSE q[j + 1]
<1> DEFINE a == SubSeq(q, 1, i - 1)
           b == SubSeq(q, i + 1, Len(q))
<1>1. Len(q) \in Nat /\ \A j \in 1 .. Len(q) : q[j] \in S
  OBVIOUS
<1>2. /\ a \in Seq(S) /\ Len(a) = i - 1
      /\ \A j \in 1 .. (i - 1) : a[j] = q[j]
  <2>1. \A j \in 1 .. (i - 1) : q[j] \in S
    BY <1>1
  <2>2. /\ SubSeq(q, 1, i - 1) \in Seq(S)
        /\ Len(SubSeq(q, 1, i - 1)) = IF 1 <= i - 1 THEN (i - 1) - 1 + 1 ELSE 0
        /\ \A j \in 1 .. ((i - 1) - 1 + 1) : SubSeq(q, 1, i - 1)[j] = q[1 + j - 1]
    BY <1>1, <2>1, SubSeqProperties
  <2> QED
    BY <1>1, <2>2
<1>3. /\ b \in Seq(S) /\ Len(b) = Len(q) - i
      /\ \A j \in 1 .. (Len(q) - i) : b[j] = q[i + j]
  <2>1. \A j \in (i + 1) .. Len(q) : q[j] \in S
    BY <1>1
  <2>2. /\ SubSeq(q, i + 1, Len(q)) \in Seq(S)
        /\ Len(SubSeq(q, i + 1, Len(q))) = IF i + 1 <= Len(q) THEN Len(q) - (i + 1) + 1 ELSE 0
        /\ \A j \in 1 .. (Len(q) - (i + 1) + 1) :
              SubSeq(q, i + 1, Len(q))[j] = q[(i + 1) + j - 1]
    BY <1>1, <2>1, SubSeqProperties
  <2> QED
    BY <1>1, <2>2
<1>4. RemoveAt(q, i) = a \o b
  BY DEF RemoveAt
<1> HIDE DEF a, b
<1>5. /\ a \o b \in Seq(S) /\ Len(a \o b) = Len(a) + Len(b)
      /\ \A j \in 1 .. Len(a) + Len(b) : (a \o b)[j] = IF j <= Len(a) THEN a[j] ELSE b[j - Len(a)]
  BY <1>2, <1>3, ConcatProperties
<1>6. ASSUME NEW j \in 1 .. (Len(q) - 1)
      PROVE  (a \o b)[j] = IF j < i THEN q[j] ELSE q[j + 1]
  <2>1. CASE j < i
    BY <1>1, <1>2, <1>3, <1>5, <2>1
  <2>2. CASE ~(j < i)
    <3>1. j - Len(a) \in 1 .. (Len(q) - i) /\ i + (j - Len(a)) = j + 1 /\ ~(j <= Len(a))
      BY <1>1, <1>2, <2>2
    <3>2. b[j - Len(a)] = q[j + 1]
      BY <1>3, <3>1
    <3> QED
      BY <1>1, <1>2, <1>3, <1>5, <2>2, <3>1, <3>2
  <2> QED
    BY <2>1, <2>2
<1> QED
  BY <1>1, <1>2, <1>3, <1>4, <1>5, <1>6

\* Is there a request of this kind?
Has(q, kind) == \E i \in 1 .. Len(q) : q[i].kind = kind

\* The last graph asked for, if any, is that of s.
LastGraphIs(q, s) ==
    \A i \in 1 .. Len(q) :
        q[i].kind = "graph" /\ (\A j \in (i + 1) .. Len(q) : q[j].kind # "graph")
            => q[i].what = s

\* Appending a request adds its kind and no other, and asks for its graph.
LEMMA Asked ==
  ASSUME NEW q \in Seq(Requests), NEW r \in Requests
  PROVE  /\ Append(q, r) \in Seq(Requests)
         /\ \A kind : Has(Append(q, r), kind) <=> Has(q, kind) \/ r.kind = kind
         /\ \A s : IF r.kind = "graph" THEN LastGraphIs(Append(q, r), r.what)
                   ELSE LastGraphIs(Append(q, r), s) <=> LastGraphIs(q, s)
<1> DEFINE t == Append(q, r)
           n == Len(q)
<1>1. /\ t \in Seq(Requests) /\ Len(t) = n + 1 /\ n \in Nat
      /\ \A i \in 1 .. n : t[i] = q[i]
      /\ t[n + 1] = r
  BY AppendProperties
<1> HIDE DEF t
<1>2. ASSUME NEW kind PROVE Has(t, kind) <=> Has(q, kind) \/ r.kind = kind
  BY <1>1 DEF Has
<1>3. ASSUME r.kind = "graph" PROVE LastGraphIs(t, r.what)
  <2>1. SUFFICES ASSUME NEW i \in 1 .. (n + 1), t[i].kind = "graph",
                        \A j \in (i + 1) .. (n + 1) : t[j].kind # "graph"
                 PROVE  t[i].what = r.what
    BY <1>1 DEF LastGraphIs
  <2>2. i = n + 1
    BY <1>1, <1>3, <2>1
  <2> QED
    BY <1>1, <2>2
<1>4. ASSUME r.kind # "graph", NEW s PROVE LastGraphIs(t, s) <=> LastGraphIs(q, s)
  <2>1. \A i \in 1 .. n :
          (\A j \in (i + 1) .. (n + 1) : t[j].kind # "graph")
             <=> (\A j \in (i + 1) .. n : q[j].kind # "graph")
    <3>1. ASSUME NEW i \in 1 .. n, \A j \in (i + 1) .. n : q[j].kind # "graph",
                 NEW j \in (i + 1) .. (n + 1)
          PROVE  t[j].kind # "graph"
      <4>1. CASE j = n + 1
        BY <1>1, <1>4, <4>1
      <4>2. CASE j # n + 1
        BY <1>1, <3>1, <4>2
      <4> QED
        BY <4>1, <4>2
    <3>2. ASSUME NEW i \in 1 .. n, \A j \in (i + 1) .. (n + 1) : t[j].kind # "graph",
                 NEW j \in (i + 1) .. n
          PROVE  q[j].kind # "graph"
      BY <1>1, <3>2
    <3> QED
      BY <3>1, <3>2
  <2> QED
    BY <1>1, <1>4, <2>1 DEF LastGraphIs
<1> QED
  BY <1>1, <1>2, <1>3, <1>4 DEF t

\* Removing a request removes at most its kind ...
LEMMA Answered1 ==
  ASSUME NEW q \in Seq(Requests), NEW i \in 1 .. Len(q), NEW kind, q[i].kind # kind
  PROVE  Has(RemoveAt(q, i), kind) <=> Has(q, kind)
<1> DEFINE t == RemoveAt(q, i)
<1>1. /\ Len(t) = Len(q) - 1 /\ Len(q) \in Nat
      /\ \A j \in 1 .. (Len(q) - 1) : t[j] = IF j < i THEN q[j] ELSE q[j + 1]
  BY Removed
<1> HIDE DEF t
<1>2. ASSUME Has(t, kind) PROVE Has(q, kind)
  <2>1. PICK j \in 1 .. (Len(q) - 1) : t[j].kind = kind
    BY <1>1, <1>2 DEF Has
  <2>2. j \in 1 .. Len(q) /\ j + 1 \in 1 .. Len(q)
    BY <1>1
  <2> QED
    BY <1>1, <2>1, <2>2 DEF Has
<1>3. ASSUME Has(q, kind) PROVE Has(t, kind)
  <2>1. PICK j \in 1 .. Len(q) : q[j].kind = kind
    BY <1>3 DEF Has
  <2>2. CASE j < i
    <3>1. j \in 1 .. (Len(q) - 1)
      BY <1>1, <2>2
    <3> QED
      BY <1>1, <2>1, <2>2, <3>1 DEF Has
  <2>3. CASE j > i
    <3>1. j - 1 \in 1 .. (Len(q) - 1) /\ ~(j - 1 < i) /\ (j - 1) + 1 = j
      BY <1>1, <2>3
    <3> QED
      BY <1>1, <2>1, <3>1 DEF Has
  <2> QED
    BY <2>1, <2>2, <2>3
<1> QED
  BY <1>2, <1>3 DEF t

\* ... and, when it is the first, leaves the last graph asked for, if one is left.
LEMMA AnsweredFirst ==
  ASSUME NEW q \in Seq(Requests), Len(q) > 0, NEW s, LastGraphIs(q, s)
  PROVE  /\ LastGraphIs(RemoveAt(q, 1), s)
         /\ q[1].kind = "graph" /\ ~Has(RemoveAt(q, 1), "graph") => q[1].what = s
<1> DEFINE t == RemoveAt(q, 1)
<1>1. 1 \in 1 .. Len(q) /\ Len(q) \in Nat
  OBVIOUS
<1>2. /\ Len(t) = Len(q) - 1
      /\ \A j \in 1 .. (Len(q) - 1) : t[j] = q[j + 1]
  <2>1. /\ Len(t) = Len(q) - 1
        /\ \A j \in 1 .. (Len(q) - 1) : t[j] = IF j < 1 THEN q[j] ELSE q[j + 1]
    BY <1>1, Removed
  <2> QED
    BY <1>1, <2>1
<1> HIDE DEF t
<1>3. LastGraphIs(t, s)
  <2>1. SUFFICES ASSUME NEW i \in 1 .. (Len(q) - 1), t[i].kind = "graph",
                        \A j \in (i + 1) .. (Len(q) - 1) : t[j].kind # "graph"
                 PROVE  t[i].what = s
    BY <1>1, <1>2 DEF LastGraphIs
  <2>2. i + 1 \in 1 .. Len(q) /\ q[i + 1] = t[i]
    BY <1>1, <1>2
  <2>3. ASSUME NEW j \in (i + 1 + 1) .. Len(q) PROVE q[j].kind # "graph"
    <3>1. j - 1 \in (i + 1) .. (Len(q) - 1) /\ j - 1 \in 1 .. (Len(q) - 1) /\ (j - 1) + 1 = j
      BY <1>1
    <3> QED
      BY <1>2, <2>1, <3>1
  <2> QED
    BY <2>1, <2>2, <2>3 DEF LastGraphIs
<1>4. ASSUME q[1].kind = "graph", ~Has(t, "graph") PROVE q[1].what = s
  <2>1. ASSUME NEW j \in (1 + 1) .. Len(q) PROVE q[j].kind # "graph"
    <3>1. j - 1 \in 1 .. (Len(q) - 1) /\ (j - 1) + 1 = j
      BY <1>1
    <3> QED
      BY <1>2, <1>4, <3>1 DEF Has
  <2> QED
    BY <1>1, <1>4, <2>1 DEF LastGraphIs
<1> QED
  BY <1>3, <1>4 DEF t

-----------------------------------------------------------------------------
(* The shape of the state *)

\* The types, with the requests of each kind told apart, and a view that is
\* displayed has an active symbol.
Shape ==
    /\ net \in Nets /\ panel \in PanelRecord /\ pending \in Seq(Requests)
    /\ shown \in BOOLEAN /\ active \in Symbols \cup {None}
    /\ shown => active \in Symbols
    /\ history \in Seq(Symbols) /\ future \in Seq(Symbols)
    /\ collapsed \in SUBSET (Symbols \cup {"center"})
    /\ graph \in [center : Symbols \cup {None},
                  collapsed : SUBSET (Symbols \cup {"center"})]

LEMMA ShapeIsType == Shape => TypeOK
<1>1. Requests \subseteq [kind : {"file", "refs", "graph"}, what : Files \cup Symbols]
  BY DEF Requests
<1> QED
  BY <1>1, SeqMonotonic DEF Shape, TypeOK, PanelTypeOK

LEMMA AskedShape ==
  ASSUME NEW q \in Seq(Requests), NEW r \in Requests, Issued(q, r)
  PROVE  pending' \in Seq(Requests)
BY Asked DEF Issued

LEMMA LoadShape ==
  ASSUME panel \in PanelRecord, NEW q \in Seq(Requests), NEW f \in Files, LoadFile(f, q)
  PROVE  panel' \in PanelRecord /\ pending' \in Seq(Requests)
<1>1. Request("file", f) \in Requests
  BY DEF Request, Requests
<1>2. panel' \in PanelRecord
  BY DEF LoadFile, LoadRefused, ShowNoJob, LoadCurrent, ShowFetch, Headed, Opened, PanelRecord
<1>3. pending' = q \/ Issued(q, Request("file", f))
  BY DEF LoadFile, LoadRefused, ShowNoJob, LoadCurrent, ShowFetch
<1> QED
  BY <1>1, <1>2, <1>3, AskedShape

LEMMA SyncShape ==
  ASSUME panel \in PanelRecord, pending \in Seq(Requests), NEW f \in Files, SyncFile(f)
  PROVE  panel' \in PanelRecord /\ pending' \in Seq(Requests)
<1>1. Request("file", f) \in Requests
  BY DEF Request, Requests
<1>2. panel' \in PanelRecord
  BY DEF SyncFile, SyncClosed, ShowNoJob, SyncCurrent, ShowFetch, Headed, Opened, PanelRecord
<1>3. pending' = pending \/ Issued(pending, Request("file", f))
  BY DEF SyncFile, SyncClosed, ShowNoJob, SyncCurrent, ShowFetch
<1> QED
  BY <1>1, <1>2, <1>3, AskedShape

\* Moving to a symbol.
LEMMA ActivateShape ==
  ASSUME pending \in Seq(Requests), NEW s \in Symbols, NEW a \in Symbols \cup {None},
         NEW b \in Seq(Symbols), NEW f \in Seq(Symbols), NEW h \in BOOLEAN,
         Activate(s, a, b, f, h)
  PROVE  /\ pending' \in Seq(Requests)
         /\ shown' = TRUE /\ active' = s
         /\ history' \in Seq(Symbols) /\ future' \in Seq(Symbols)
<1>1. Request("graph", s) \in Requests
  BY DEF Request, Requests
<1>2. pending' \in Seq(Requests)
  BY <1>1, AskedShape DEF Activate, Fetch
<1>3. history' \in Seq(Symbols) /\ future' \in Seq(Symbols)
  <2>1. CASE a # None /\ a # s
    <3>1. Append(b, a) \in Seq(Symbols) /\ <<>> \in Seq(Symbols)
      BY <2>1, AppendProperties
    <3> QED
      BY <2>1, <3>1 DEF Activate
  <2>2. CASE ~(a # None /\ a # s)
    BY <2>2 DEF Activate
  <2> QED
    BY <2>1, <2>2
<1> QED
  BY <1>2, <1>3 DEF Activate

LEMMA HistoryEnd ==
  ASSUME history \in Seq(Symbols), history # <<>>
  PROVE  Last(history) \in Symbols /\ Front(history) \in Seq(Symbols)
<1>1. Len(history) \in Nat \ {0} /\ \A j \in 1 .. Len(history) : history[j] \in Symbols
  OBVIOUS
<1>2. \A j \in 1 .. (Len(history) - 1) : history[j] \in Symbols
  BY <1>1
<1>3. SubSeq(history, 1, Len(history) - 1) \in Seq(Symbols)
  BY <1>1, <1>2, SubSeqProperties
<1> QED
  BY <1>1, <1>3 DEF Last, Front

\* Where the view goes, and with which stacks.
LEMMA Goings ==
  ASSUME Shape, Navigate
  PROVE  \/ CloseView
         \/ /\ UNCHANGED <<graph, panel>>
            /\ \E s \in Symbols, a \in Symbols \cup {None} :
                 \E b \in Seq(Symbols), f \in Seq(Symbols), h \in BOOLEAN :
                    Activate(s, a, b, f, h)
<1> USE DEF Shape
<1>0. None \in Symbols \cup {None} /\ <<>> \in Seq(Symbols)
  OBVIOUS
<1>1. CASE Open
  <2>1. Primary[panel.currentFile] \in Symbols
    BY <1>1, SymbolAssumption DEF Open, PanelRecord
  <2>2. Activate(Primary[panel.currentFile], None, <<>>, <<>>, FALSE)
    BY <1>1 DEF Open
  <2> QED
    BY <1>0, <1>1, <2>1, <2>2 DEF Open
<1>2. ASSUME NEW s \in Symbols, Visit(s)
      PROVE  /\ UNCHANGED <<graph, panel>> /\ Activate(s, active, history, future, FALSE)
  BY <1>2 DEF Visit
<1>3. CASE Back
  <2>1. Last(history) \in Symbols /\ Front(history) \in Seq(Symbols) /\ active \in Symbols
    BY <1>3, HistoryEnd DEF Back
  <2>2. <<active>> \o future \in Seq(Symbols)
    BY <2>1, ConcatProperties
  <2>3. /\ UNCHANGED <<graph, panel>>
        /\ Activate(Last(history), None, Front(history), <<active>> \o future, TRUE)
    BY <1>3 DEF Back
  <2> QED
    BY <1>0, <2>1, <2>2, <2>3
<1>4. CASE Forward
  <2>1. Head(future) \in Symbols /\ Tail(future) \in Seq(Symbols) /\ active \in Symbols
    BY <1>4, HeadTailProperties DEF Forward
  <2>2. Append(history, active) \in Seq(Symbols)
    BY <2>1, AppendProperties
  <2>3. /\ UNCHANGED <<graph, panel>>
        /\ Activate(Head(future), None, Append(history, active), Tail(future), TRUE)
    BY <1>4 DEF Forward
  <2> QED
    BY <1>0, <2>1, <2>2, <2>3
<1> QED
  BY <1>1, <1>2, <1>3, <1>4 DEF Navigate

\* What is drawn has an active symbol and a centre.
LEMMA DrawnIs ==
  ASSUME Shape, Drawn PROVE shown /\ active \in Symbols /\ graph.center \in Symbols
BY DEF Shape, Drawn

LEMMA Beginnings ==
  /\ NoGraph \in [center : Symbols \cup {None}, collapsed : SUBSET (Symbols \cup {"center"})]
  /\ NewPanel \in PanelRecord
  /\ <<>> \in Seq(Symbols) /\ <<>> \in Seq(Requests) /\ {} \in SUBSET (Symbols \cup {"center"})
BY DEF NoGraph, NewPanel, PanelRecord

LEMMA ShapeStep == Shape /\ [Next]_vars => Shape'
<1> SUFFICES ASSUME Shape, [Next]_vars PROVE Shape'
  OBVIOUS
<1> DEFINE Cardset == Symbols \cup {"center"}
<1>1. CASE Navigate /\ UNCHANGED net
  <2>1. CASE CloseView
    BY <1>1, <2>1, Beginnings DEF CloseView, Shape
  <2>2. CASE ~CloseView
    <3>1. PICK s \in Symbols, a \in Symbols \cup {None} :
            \E b \in Seq(Symbols), f \in Seq(Symbols), h \in BOOLEAN : Activate(s, a, b, f, h)
      BY <1>1, <2>2, Goings
    <3>2. PICK b \in Seq(Symbols), f \in Seq(Symbols), h \in BOOLEAN : Activate(s, a, b, f, h)
      BY <3>1
    <3>3. /\ pending' \in Seq(Requests) /\ shown' = TRUE /\ active' = s
          /\ history' \in Seq(Symbols) /\ future' \in Seq(Symbols)
          /\ collapsed' \in SUBSET Cardset
      <4>1. pending \in Seq(Requests) /\ collapsed \in SUBSET Cardset
        BY DEF Shape
      <4>2. pending' \in Seq(Requests) /\ shown' = TRUE /\ active' = s
        BY <3>2, <4>1, ActivateShape
      <4>3. history' \in Seq(Symbols) /\ future' \in Seq(Symbols)
        BY <3>2, <4>1, ActivateShape
      <4>4. collapsed' \in SUBSET Cardset
        BY <3>2, <4>1 DEF Activate
      <4> QED
        BY <4>2, <4>3, <4>4
    <3>4. UNCHANGED <<graph, panel>>
      BY <1>1, <2>2, Goings
    <3> QED
      BY <1>1, <3>3, <3>4 DEF Shape
  <2> QED
    BY <2>1, <2>2
<1>2. CASE Tap /\ UNCHANGED net
  <2>1. CASE TapCenter
    <3>1. FileOf[graph.center] \in Files
      BY <2>1, DrawnIs, SymbolAssumption DEF TapCenter
    <3>2. panel' \in PanelRecord /\ pending' \in Seq(Requests)
      BY <2>1, <3>1, LoadShape DEF TapCenter, Shape
    <3> QED
      BY <1>2, <2>1, <3>2 DEF TapCenter, sym, Shape
  <2>2. ASSUME NEW s \in Symbols, TapMember(s) PROVE Shape'
    <3>1. Request("refs", s) \in Requests
      BY DEF Request, Requests
    <3>2. pending' \in Seq(Requests)
      BY <2>2, <3>1, AskedShape DEF TapMember, ShowSnippets, Shape
    <3>3. panel' \in PanelRecord
      BY <2>2 DEF TapMember, ShowSnippets, Opened, Shape, PanelRecord
    <3> QED
      BY <1>2, <2>2, <3>2, <3>3 DEF TapMember, sym, Shape
  <2>3. ASSUME NEW n \in Cardset, Toggle(n) PROVE Shape'
    <3>1. Request("graph", active) \in Requests
      BY <2>3, DrawnIs DEF Toggle, Request, Requests
    <3>2. pending' \in Seq(Requests)
      BY <2>3, <3>1, AskedShape DEF Toggle, Fetch, Shape
    <3> QED
      BY <1>2, <2>3, <3>2 DEF Toggle, Shape
  <2> QED
    BY <1>2, <2>1, <2>2, <2>3 DEF Tap
<1>3. CASE Elsewhere /\ UNCHANGED net
  <2>1. panel' \in PanelRecord /\ pending' \in Seq(Requests)
    <3>1. CASE Close \/ Reopen
      <4>1. pending' = pending /\ panel \in PanelRecord /\ pending \in Seq(Requests)
        BY <3>1 DEF Close, Reopen, Shape
      <4>2. panel' \in PanelRecord
        <5>1. CASE Close
          BY <4>1, <5>1 DEF Close, PanelRecord
        <5>2. CASE Reopen
          <6>1. CASE panel.currentFile = None
            BY <4>1, <5>2, <6>1 DEF Reopen, Opened, PanelRecord
          <6>2. CASE panel.currentFile # None
            <7>1. panel.currentFile \in Files
              BY <4>1, <6>2 DEF PanelRecord
            <7>2. Headed(panel.currentFile) \in PanelRecord
              BY <4>1, <7>1 DEF Headed, Opened, PanelRecord
            <7>3. \/ panel' = Headed(panel.currentFile)
                  \/ panel' = [Headed(panel.currentFile) EXCEPT !.view = "error"]
              BY <5>2, <6>2 DEF Reopen
            <7> QED
              BY <7>2, <7>3 DEF PanelRecord
          <6> QED
            BY <6>1, <6>2
        <5> QED
          BY <3>1, <5>1, <5>2
      <4> QED
        BY <4>1, <4>2
    <3>2. ASSUME NEW f \in Files, LoadFile(f, pending) \/ SyncFile(f)
          PROVE  panel' \in PanelRecord /\ pending' \in Seq(Requests)
      BY <3>2, LoadShape, SyncShape DEF Shape
    <3> QED
      BY <1>3, <3>1, <3>2 DEF Elsewhere
  <2> QED
    BY <1>3, <2>1 DEF Elsewhere, sym, Shape
<1>4. ASSUME NEW i \in 1 .. Len(pending), Answer(i), UNCHANGED net PROVE Shape'
  <2>1. RemoveAt(pending, i) \in Seq(Requests) /\ pending[i] \in Requests
    BY Removed DEF Shape
  <2>2. CASE GraphReply(i)
    <3>1. pending[i].what \in Symbols
      BY <2>1, <2>2 DEF GraphReply, Arrives, Requests
    <3>2. FileOf[pending[i].what] \in Files
      BY <3>1, SymbolAssumption
    <3>3. panel' \in PanelRecord /\ pending' \in Seq(Requests)
      BY <2>1, <2>2, <3>2, LoadShape DEF GraphReply, Shape
    <3>4. graph' \in [center : Symbols \cup {None}, collapsed : SUBSET Cardset]
      BY <2>2, <3>1 DEF GraphReply, Shape
    <3> QED
      BY <1>4, <2>2, <3>3, <3>4 DEF GraphReply, Shape
  <2>3. CASE GraphFails(i)
    BY <1>4, <2>1, <2>3 DEF GraphFails, sym, Shape
  <2>4. CASE PanelReply(i)
    <3>1. CASE FileReply(i)
      <4>1. pending[i].what \in Files
        BY <2>1, <3>1 DEF FileReply, Arrives, Requests
      <4>2. panel' \in PanelRecord
        BY <3>1, <4>1 DEF FileReply, Shape, PanelRecord
      <4> QED
        BY <1>4, <2>1, <2>4, <3>1, <4>2 DEF PanelReply, FileReply, sym, Shape
    <3>2. CASE FileFails(i)
      BY <1>4, <2>1, <2>4, <3>2 DEF PanelReply, FileFails, sym, Shape, PanelRecord
    <3>3. CASE RefsReply(i)
      <4>1. pending[i].what \in Symbols
        BY <2>1, <3>3 DEF RefsReply, Arrives, Requests
      <4>2. panel' \in PanelRecord
        BY <3>3, <4>1 DEF RefsReply, Shape, PanelRecord
      <4> QED
        BY <1>4, <2>1, <2>4, <3>3, <4>2 DEF PanelReply, RefsReply, sym, Shape
    <3>4. CASE RefsFail(i)
      BY <1>4, <2>1, <2>4, <3>4 DEF PanelReply, RefsFail, sym, Shape, PanelRecord
    <3> QED
      BY <2>4, <3>1, <3>2, <3>3, <3>4 DEF PanelReply, Reply
  <2> QED
    BY <1>4, <2>2, <2>3, <2>4 DEF Answer
<1>5. CASE UNCHANGED vars
  BY <1>5 DEF vars, panelVars, sym, Shape
<1> QED
  BY <1>1, <1>2, <1>3, <1>4, <1>5 DEF Next, Answered

LEMMA ShapeInit == Init => Shape
BY Beginnings DEF Init, PanelInit, Shape

\* Every variable always has the shape the code gives it.
THEOREM TypeCorrect == Spec => []TypeOK
BY ShapeInit, ShapeStep, ShapeIsType, PTL DEF Spec

-----------------------------------------------------------------------------
(* The spinner *)

Spins(p, q) == p.view = "loading" => Has(q, "file")

LEMMA SpinnerIs ==
  /\ SpinnerMeansFetch <=> Spins(panel, pending)
  /\ SpinnerMeansFetch' <=> Spins(panel', pending')
BY DEF SpinnerMeansFetch, FilePending, Spins, Has

LEMMA AskedSpins ==
  ASSUME NEW q \in Seq(Requests), NEW r \in Requests, Issued(q, r), NEW p,
         Has(q, "file") \/ r.kind = "file" \/ p.view # "loading"
  PROVE  Spins(p, pending')
BY Asked DEF Issued, Spins

\* Showing a file over a queue that explains the spinner.
LEMMA LoadSpins ==
  ASSUME panel \in PanelRecord, NEW q \in Seq(Requests), NEW f \in Files, Spins(panel, q),
         LoadFile(f, q)
  PROVE  Spins(panel', pending')
<1>1. CASE LoadRefused(q)
  BY <1>1 DEF LoadRefused, Spins
<1>2. CASE ShowNoJob(f, q) \/ LoadCurrent(f, q)
  <2>1. panel'.view # "loading"
    BY <1>2 DEF ShowNoJob, LoadCurrent, Headed, Opened, PanelRecord
  <2> QED
    BY <2>1 DEF Spins
<1>3. CASE ShowFetch(f, q)
  <2>1. Request("file", f) \in Requests /\ Request("file", f).kind = "file"
    BY DEF Request, Requests
  <2> QED
    BY <1>3, <2>1, AskedSpins DEF ShowFetch
<1> QED
  BY <1>1, <1>2, <1>3 DEF LoadFile

LEMMA SpinnerStep == Shape /\ SpinnerMeansFetch /\ [Next]_vars => SpinnerMeansFetch'
<1> SUFFICES ASSUME Shape, Spins(panel, pending), [Next]_vars PROVE Spins(panel', pending')
  BY SpinnerIs
<1>0. panel \in PanelRecord /\ pending \in Seq(Requests)
  BY DEF Shape
<1>1. CASE panel' = panel /\ pending' = pending
  BY <1>1 DEF Spins
<1>2. ASSUME NEW r \in Requests, Issued(pending, r), panel' = panel PROVE Spins(panel', pending')
  BY <1>0, <1>2, Asked DEF Issued, Spins
<1>3. CASE Navigate
  <2>1. CASE CloseView
    BY <1>1, <2>1 DEF CloseView
  <2>2. CASE ~CloseView
    <3>1. PICK s \in Symbols, a \in Symbols \cup {None} :
            \E b \in Seq(Symbols), f \in Seq(Symbols), h \in BOOLEAN : Activate(s, a, b, f, h)
      BY <1>3, <2>2, Goings
    <3>2. Issued(pending, Request("graph", s)) /\ Request("graph", s) \in Requests
      BY <3>1 DEF Activate, Fetch, Request, Requests
    <3> QED
      BY <1>2, <1>3, <2>2, <3>2, Goings
  <2> QED
    BY <2>1, <2>2
<1>4. CASE Tap
  <2>1. CASE TapCenter
    <3>1. FileOf[graph.center] \in Files
      BY <2>1, DrawnIs, SymbolAssumption DEF TapCenter
    <3> QED
      BY <1>0, <2>1, <3>1, LoadSpins DEF TapCenter
  <2>2. ASSUME NEW s \in Symbols, TapMember(s) PROVE Spins(panel', pending')
    <3>1. panel'.view = "wrap"
      BY <1>0, <2>2 DEF TapMember, ShowSnippets, Opened, PanelRecord
    <3> QED
      BY <3>1 DEF Spins
  <2>3. ASSUME NEW n \in Symbols \cup {"center"}, Toggle(n) PROVE Spins(panel', pending')
    <3>1. Issued(pending, Request("graph", active)) /\ Request("graph", active) \in Requests
      BY <2>3, DrawnIs DEF Toggle, Fetch, Request, Requests
    <3> QED
      BY <1>2, <2>3, <3>1 DEF Toggle
  <2> QED
    BY <1>4, <2>1, <2>2, <2>3 DEF Tap
<1>5. CASE Elsewhere
  <2>1. ASSUME NEW f \in Files, LoadFile(f, pending) PROVE Spins(panel', pending')
    BY <1>0, <2>1, LoadSpins
  <2>2. ASSUME NEW f \in Files, SyncFile(f) PROVE Spins(panel', pending')
    <3>1. CASE ShowNoJob(f, pending) \/ ShowFetch(f, pending)
      BY <1>0, <3>1, LoadSpins DEF LoadFile
    <3>2. CASE SyncClosed(f) \/ SyncCurrent(f)
      <4>1. pending' = pending /\ panel'.view = panel.view
        BY <1>0, <3>2 DEF SyncClosed, SyncCurrent, Headed, Opened, PanelRecord
      <4> QED
        BY <4>1 DEF Spins
    <3> QED
      BY <2>2, <3>1, <3>2 DEF SyncFile
  <2>3. CASE Close \/ Reopen
    <3>1. pending' = pending /\ panel'.view \in {panel.view, "error"}
      BY <1>0, <2>3 DEF Close, Reopen, Headed, Opened, PanelRecord
    <3> QED
      BY <3>1 DEF Spins
  <2> QED
    BY <1>5, <2>1, <2>2, <2>3 DEF Elsewhere
<1>6. ASSUME NEW i \in 1 .. Len(pending), Answer(i) PROVE Spins(panel', pending')
  <2>1. RemoveAt(pending, i) \in Seq(Requests) /\ pending[i] \in Requests
    BY <1>0, Removed
  <2>2. pending[i].kind # "file" => Spins(panel, RemoveAt(pending, i))
    BY <1>0, Answered1 DEF Spins
  <2>3. CASE GraphReply(i)
    <3>1. FileOf[pending[i].what] \in Files /\ pending[i].kind # "file"
      BY <2>1, <2>3, SymbolAssumption DEF GraphReply, Arrives, Requests
    <3> QED
      BY <1>0, <2>1, <2>2, <2>3, <3>1, LoadSpins DEF GraphReply
  <2>4. CASE GraphFails(i)
    BY <2>2, <2>4 DEF GraphFails, Fails
  <2>5. CASE FileReply(i) \/ FileFails(i)
    <3>1. panel'.view # "loading"
      BY <1>0, <2>5 DEF FileReply, FileFails, PanelRecord
    <3> QED
      BY <3>1 DEF Spins
  <2>6. CASE RefsReply(i) \/ RefsFail(i)
    <3>1. /\ panel'.view = panel.view /\ pending' = RemoveAt(pending, i)
          /\ pending[i].kind # "file"
      BY <1>0, <2>6 DEF RefsReply, RefsFail, Arrives, Fails, PanelRecord
    <3> QED
      BY <2>2, <3>1 DEF Spins
  <2> QED
    BY <1>6, <2>3, <2>4, <2>5, <2>6 DEF Answer, PanelReply, Reply
<1>7. CASE UNCHANGED vars
  BY <1>1, <1>7 DEF vars, panelVars
<1> QED
  BY <1>3, <1>4, <1>5, <1>6, <1>7 DEF Next, Answered

\* While the spinner turns, a file is under way, whatever the user clicks and in whatever
\* order replies come or fail.
THEOREM SpinnerMeansFetchHolds == Spec => []SpinnerMeansFetch
<1>1. Init => SpinnerMeansFetch
  BY DEF Init, PanelInit, NewPanel, SpinnerMeansFetch
<1> QED
  BY <1>1, ShapeInit, ShapeStep, SpinnerStep, PTL DEF Spec

-----------------------------------------------------------------------------
(* The trail *)

\* Every step of a path leads elsewhere.
Moves(t) == \A i \in 1 .. (Len(t) - 1) : t[i] # t[i + 1]

TrailOf(a, h, f) == IF a = None THEN <<>> ELSE h \o <<a>> \o f

LEMMA TrailIs ==
  /\ Trail = TrailOf(active, history, future) /\ Trail' = TrailOf(active', history', future')
  /\ TrailMoves <=> Moves(Trail)
  /\ TrailMoves' <=> Moves(Trail')
BY DEF Trail, TrailOf, TrailMoves, Moves

LEMMA NoneIsNoSymbol == None \notin Symbols
BY ContentAssumption DEF None

\* What a path is made of.
LEMMA PathIs ==
  ASSUME NEW h \in Seq(Symbols), NEW f \in Seq(Symbols), NEW a \in Symbols
  PROVE  /\ TrailOf(a, h, f) \in Seq(Symbols)
         /\ Len(TrailOf(a, h, f)) = Len(h) + 1 + Len(f)
         /\ \A i \in 1 .. (Len(h) + 1 + Len(f)) : TrailOf(a, h, f)[i] =
               IF i <= Len(h) THEN h[i] ELSE IF i = Len(h) + 1 THEN a ELSE f[i - Len(h) - 1]
<1>1. <<a>> \in Seq(Symbols) /\ Len(<<a>>) = 1 /\ <<a>>[1] = a
  OBVIOUS
<1>2. /\ h \o <<a>> \in Seq(Symbols) /\ Len(h \o <<a>>) = Len(h) + 1
      /\ \A i \in 1 .. (Len(h) + 1) : (h \o <<a>>)[i] = IF i <= Len(h) THEN h[i] ELSE a
  <2>1. /\ h \o <<a>> \in Seq(Symbols) /\ Len(h \o <<a>>) = Len(h) + Len(<<a>>)
        /\ \A i \in 1 .. Len(h) + Len(<<a>>) : (h \o <<a>>)[i] =
              IF i <= Len(h) THEN h[i] ELSE <<a>>[i - Len(h)]
    BY <1>1, ConcatProperties
  <2>2. Len(h) \in Nat
    OBVIOUS
  <2>3. ASSUME NEW i \in 1 .. (Len(h) + 1), ~(i <= Len(h)) PROVE i - Len(h) = 1
    BY <2>2, <2>3
  <2> QED
    BY <1>1, <2>1, <2>2, <2>3
<1> DEFINE p == h \o <<a>>
<1>3. p \in Seq(Symbols)
  BY <1>2
<1>4. /\ p \o f \in Seq(Symbols) /\ Len(p \o f) = Len(p) + Len(f)
      /\ \A i \in 1 .. Len(p) + Len(f) : (p \o f)[i] =
            IF i <= Len(p) THEN p[i] ELSE f[i - Len(p)]
  BY <1>3, ConcatProperties
<1>5. TrailOf(a, h, f) = p \o f
  BY NoneIsNoSymbol DEF TrailOf
<1>6. /\ Len(h) \in Nat /\ Len(f) \in Nat /\ Len(p) = Len(h) + 1
      /\ \A i \in 1 .. (Len(h) + 1) : p[i] = IF i <= Len(h) THEN h[i] ELSE a
  BY <1>2
<1> HIDE DEF p
<1>7. ASSUME NEW i \in 1 .. (Len(h) + 1 + Len(f))
      PROVE  (p \o f)[i] =
               IF i <= Len(h) THEN h[i] ELSE IF i = Len(h) + 1 THEN a ELSE f[i - Len(h) - 1]
  <2>1. CASE i <= Len(h) + 1
    BY <1>4, <1>6, <2>1
  <2>2. CASE ~(i <= Len(h) + 1)
    <3>1. i - Len(p) = i - Len(h) - 1 /\ ~(i <= Len(h)) /\ i # Len(h) + 1 /\ ~(i <= Len(p))
      BY <1>6, <2>2
    <3> QED
      BY <1>4, <1>6, <3>1
  <2> QED
    BY <2>1, <2>2
<1> QED
  BY <1>4, <1>5, <1>6, <1>7

\* Back and Forward move along the path.
LEMMA BackPath ==
  ASSUME NEW h \in Seq(Symbols), h # <<>>, NEW f \in Seq(Symbols), NEW a \in Symbols
  PROVE  TrailOf(Last(h), Front(h), <<a>> \o f) = TrailOf(a, h, f)
<1> DEFINE n == Len(h)
           b == Front(h)
           g == <<a>> \o f
           z == Last(h)
<1>1. n \in Nat \ {0} /\ Len(f) \in Nat /\ \A i \in 1 .. n : h[i] \in Symbols
  OBVIOUS
<1>2. b \in Seq(Symbols) /\ Len(b) = n - 1 /\ \A i \in 1 .. (n - 1) : b[i] = h[i]
  <2>1. \A i \in 1 .. (n - 1) : h[i] \in Symbols
    BY <1>1
  <2>2. /\ SubSeq(h, 1, n - 1) \in Seq(Symbols)
        /\ Len(SubSeq(h, 1, n - 1)) = IF 1 <= n - 1 THEN (n - 1) - 1 + 1 ELSE 0
        /\ \A i \in 1 .. ((n - 1) - 1 + 1) : SubSeq(h, 1, n - 1)[i] = h[1 + i - 1]
    BY <1>1, <2>1, SubSeqProperties
  <2>3. b = SubSeq(h, 1, n - 1)
    BY DEF Front
  <2>4. ASSUME NEW i \in 1 .. (n - 1) PROVE SubSeq(h, 1, n - 1)[i] = h[i]
    <3>1. i \in 1 .. ((n - 1) - 1 + 1) /\ 1 + i - 1 = i
      BY <1>1
    <3> QED
      BY <2>2, <3>1
  <2>5. Len(SubSeq(h, 1, n - 1)) = n - 1
    <3> HIDE DEF n
    <3>1. (IF 1 <= n - 1 THEN (n - 1) - 1 + 1 ELSE 0) = n - 1
      <4>1. n \in Nat /\ n # 0
        BY <1>1
      <4>2. CASE n = 1
        BY <4>2
      <4>3. CASE n > 1
        BY <4>1, <4>3
      <4> QED
        BY <4>1, <4>2, <4>3
    <3> QED
      BY <2>2, <3>1
  <2> HIDE DEF b
  <2> QED
    BY <2>2, <2>3, <2>4, <2>5
<1>3. g \in Seq(Symbols) /\ Len(g) = Len(f) + 1
      /\ \A i \in 1 .. (Len(f) + 1) : g[i] = IF i = 1 THEN a ELSE f[i - 1]
  <2>1. <<a>> \in Seq(Symbols) /\ Len(<<a>>) = 1 /\ <<a>>[1] = a
    OBVIOUS
  <2>2. /\ <<a>> \o f \in Seq(Symbols) /\ Len(<<a>> \o f) = Len(<<a>>) + Len(f)
        /\ \A i \in 1 .. Len(<<a>>) + Len(f) : (<<a>> \o f)[i] =
              IF i <= Len(<<a>>) THEN <<a>>[i] ELSE f[i - Len(<<a>>)]
    BY <2>1, ConcatProperties
  <2>3. \A i \in 1 .. (Len(f) + 1) : i <= 1 <=> i = 1
    BY <1>1
  <2> QED
    BY <1>1, <2>1, <2>2, <2>3
<1>4. z \in Symbols /\ z = h[n]
  BY <1>1 DEF Last
<1> HIDE DEF b, g, z
<1>5. /\ TrailOf(z, b, g) \in Seq(Symbols)
      /\ Len(TrailOf(z, b, g)) = n + 1 + Len(f)
      /\ \A i \in 1 .. (n + 1 + Len(f)) : TrailOf(z, b, g)[i] =
            IF i <= n - 1 THEN b[i] ELSE IF i = n THEN z ELSE g[i - (n - 1) - 1]
  <2>1. /\ TrailOf(z, b, g) \in Seq(Symbols)
        /\ Len(TrailOf(z, b, g)) = Len(b) + 1 + Len(g)
        /\ \A i \in 1 .. (Len(b) + 1 + Len(g)) : TrailOf(z, b, g)[i] =
             IF i <= Len(b) THEN b[i] ELSE IF i = Len(b) + 1 THEN z ELSE g[i - Len(b) - 1]
    BY <1>2, <1>3, <1>4, PathIs
  <2>2. Len(b) + 1 = n /\ Len(b) + 1 + Len(g) = n + 1 + Len(f)
    BY <1>1, <1>2, <1>3
  <2> QED
    BY <1>2, <2>1, <2>2
<1>6. /\ TrailOf(a, h, f) \in Seq(Symbols)
      /\ Len(TrailOf(a, h, f)) = n + 1 + Len(f)
      /\ \A i \in 1 .. (n + 1 + Len(f)) : TrailOf(a, h, f)[i] =
            IF i <= n THEN h[i] ELSE IF i = n + 1 THEN a ELSE f[i - n - 1]
  BY PathIs
<1>7. ASSUME NEW i \in 1 .. (n + 1 + Len(f)) PROVE TrailOf(z, b, g)[i] = TrailOf(a, h, f)[i]
  <2>1. CASE i <= n
    BY <1>1, <1>2, <1>4, <1>5, <1>6, <2>1
  <2>2. CASE i = n + 1
    <3>1. i - (n - 1) - 1 = 1 /\ 1 \in 1 .. (Len(f) + 1)
      BY <1>1, <2>2
    <3>2. g[1] = a
      BY <1>3, <3>1
    <3> QED
      BY <1>1, <1>5, <1>6, <2>2, <3>1, <3>2
  <2>3. CASE i > n + 1
    <3>1. /\ i - (n - 1) - 1 \in 1 .. (Len(f) + 1) /\ i - (n - 1) - 1 # 1
          /\ i - (n - 1) - 1 - 1 = i - n - 1
      BY <1>1, <2>3
    <3>2. g[i - (n - 1) - 1] = f[i - n - 1]
      BY <1>3, <3>1
    <3> QED
      BY <1>1, <1>5, <1>6, <2>3, <3>2
  <2> QED
    BY <1>1, <2>1, <2>2, <2>3
<1>8. TrailOf(z, b, g) = TrailOf(a, h, f)
  BY <1>5, <1>6, <1>7, SeqEqual
<1> QED
  BY <1>8 DEF z, b, g

LEMMA ForwardPath ==
  ASSUME NEW h \in Seq(Symbols), NEW f \in Seq(Symbols), f # <<>>, NEW a \in Symbols
  PROVE  TrailOf(Head(f), Append(h, a), Tail(f)) = TrailOf(a, h, f)
<1> DEFINE n == Len(h)
           b == Append(h, a)
           g == Tail(f)
           z == Head(f)
<1>1. n \in Nat /\ Len(f) \in Nat \ {0} /\ \A i \in 1 .. Len(f) : f[i] \in Symbols
  OBVIOUS
<1>2. /\ b \in Seq(Symbols) /\ Len(b) = n + 1
      /\ \A i \in 1 .. n : b[i] = h[i]
      /\ b[n + 1] = a
  BY AppendProperties
<1>3. /\ g \in Seq(Symbols) /\ Len(g) = Len(f) - 1
      /\ \A i \in 1 .. (Len(f) - 1) : g[i] = f[i + 1]
  BY HeadTailProperties
<1>4. z \in Symbols /\ z = f[1]
  BY <1>1
<1> HIDE DEF b, g, z
<1>5. /\ TrailOf(z, b, g) \in Seq(Symbols)
      /\ Len(TrailOf(z, b, g)) = n + 1 + Len(f)
      /\ \A i \in 1 .. (n + 1 + Len(f)) : TrailOf(z, b, g)[i] =
            IF i <= n + 1 THEN b[i] ELSE IF i = n + 2 THEN z ELSE g[i - (n + 1) - 1]
  <2>1. /\ TrailOf(z, b, g) \in Seq(Symbols)
        /\ Len(TrailOf(z, b, g)) = Len(b) + 1 + Len(g)
        /\ \A i \in 1 .. (Len(b) + 1 + Len(g)) : TrailOf(z, b, g)[i] =
             IF i <= Len(b) THEN b[i] ELSE IF i = Len(b) + 1 THEN z ELSE g[i - Len(b) - 1]
    <3>1. b \in Seq(Symbols) /\ g \in Seq(Symbols) /\ z \in Symbols
      BY <1>2, <1>3, <1>4
    <3> QED
      BY <3>1, PathIs
  <2>2. Len(b) + 1 = n + 2 /\ Len(b) + 1 + Len(g) = n + 1 + Len(f)
    BY <1>1, <1>2, <1>3
  <2> QED
    BY <1>2, <2>1, <2>2
<1>6. /\ TrailOf(a, h, f) \in Seq(Symbols)
      /\ Len(TrailOf(a, h, f)) = n + 1 + Len(f)
      /\ \A i \in 1 .. (n + 1 + Len(f)) : TrailOf(a, h, f)[i] =
            IF i <= n THEN h[i] ELSE IF i = n + 1 THEN a ELSE f[i - n - 1]
  BY PathIs
<1>7. ASSUME NEW i \in 1 .. (n + 1 + Len(f)) PROVE TrailOf(z, b, g)[i] = TrailOf(a, h, f)[i]
  <2>1. CASE i <= n + 1
    <3>1. b[i] = IF i <= n THEN h[i] ELSE a
      BY <1>1, <1>2, <2>1
    <3> QED
      BY <1>1, <1>5, <1>6, <2>1, <3>1
  <2>2. CASE i = n + 2
    <3>1. i - n - 1 = 1 /\ ~(i <= n) /\ ~(i <= n + 1)
      BY <1>1, <2>2
    <3> QED
      BY <1>1, <1>4, <1>5, <1>6, <2>2, <3>1
  <2>3. CASE i > n + 2
    <3>1. i - (n + 1) - 1 \in 1 .. (Len(f) - 1) /\ i - (n + 1) - 1 + 1 = i - n - 1
      BY <1>1, <2>3
    <3>2. g[i - (n + 1) - 1] = f[i - n - 1]
      BY <1>3, <3>1
    <3> QED
      BY <1>1, <1>5, <1>6, <2>3, <3>2
  <2> QED
    BY <1>1, <2>1, <2>2, <2>3
<1>8. TrailOf(z, b, g) = TrailOf(a, h, f)
  BY <1>5, <1>6, <1>7, SeqEqual
<1> QED
  BY <1>8 DEF z, b, g

\* A visit cuts the path at the active symbol and goes on from there.
LEMMA VisitPath ==
  ASSUME NEW h \in Seq(Symbols), NEW a \in Symbols, NEW s \in Symbols
  PROVE  TrailOf(s, Append(h, a), <<>>) = Append(h \o <<a>>, s)
<1>1. Append(h, a) \in Seq(Symbols) /\ Append(h, a) = h \o <<a>>
  BY AppendProperties, AppendIsConcat
<1>2. Append(Append(h, a), s) \in Seq(Symbols)
      /\ Append(Append(h, a), s) = Append(h, a) \o <<s>>
  BY <1>1, AppendProperties, AppendIsConcat
<1>3. (Append(h, a) \o <<s>>) \o <<>> = Append(h, a) \o <<s>>
  BY <1>2, ConcatEmptySeq
<1> QED
  BY <1>1, <1>2, <1>3, NoneIsNoSymbol DEF TrailOf

\* What a step does to the path.
LEMMA TrailSteps ==
  ASSUME Shape, [Next]_vars
  PROVE  \/ Trail' = Trail
         \/ history' = <<>> /\ future' = <<>>
         \/ /\ active \in Symbols /\ active' \in Symbols /\ active' # active
            /\ Trail' = TrailOf(active', Append(history, active), <<>>)
<1>0. history \in Seq(Symbols) /\ future \in Seq(Symbols) /\ (shown => active \in Symbols)
  BY DEF Shape
<1>1. CASE UNCHANGED <<active, history, future>>
  BY <1>1, TrailIs
<1>2. CASE Open
  <2>1. history' = <<>> /\ future' = <<>>
    BY <1>2 DEF Open, Activate
  <2> QED
    BY <2>1
<1>3. CASE CloseView
  BY <1>3 DEF CloseView
<1>4. ASSUME NEW s \in Symbols, Visit(s)
      PROVE  \/ Trail' = Trail
             \/ /\ active \in Symbols /\ active' \in Symbols /\ active' # active
                /\ Trail' = TrailOf(active', Append(history, active), <<>>)
  <2>1. active \in Symbols /\ active # None /\ active' = s
    BY <1>0, <1>4, NoneIsNoSymbol DEF Visit, Activate
  <2>2. CASE active # s
    <3>1. history' = Append(history, active) /\ future' = <<>>
      BY <1>4, <2>1, <2>2 DEF Visit, Activate
    <3> QED
      BY <2>1, <2>2, <3>1, TrailIs
  <2>3. CASE active = s
    <3>1. history' = history /\ future' = future
      BY <1>4, <2>3 DEF Visit, Activate
    <3> QED
      BY <2>1, <2>3, <3>1, TrailIs
  <2> QED
    BY <2>2, <2>3
<1>5. CASE Back
  <2>1. /\ shown /\ history # <<>> /\ active' = Last(history)
        /\ history' = Front(history) /\ future' = <<active>> \o future
    BY <1>5 DEF Back, Activate
  <2>2. Trail' = TrailOf(Last(history), Front(history), <<active>> \o future)
    BY <2>1, TrailIs
  <2> QED
    BY <1>0, <2>1, <2>2, BackPath, TrailIs
<1>6. CASE Forward
  <2>1. /\ shown /\ future # <<>> /\ active' = Head(future)
        /\ history' = Append(history, active) /\ future' = Tail(future)
    BY <1>6 DEF Forward, Activate
  <2>2. Trail' = TrailOf(Head(future), Append(history, active), Tail(future))
    BY <2>1, TrailIs
  <2> QED
    BY <1>0, <2>1, <2>2, ForwardPath, TrailIs
<1>7. CASE Tap \/ Elsewhere \/ Answered \/ UNCHANGED vars
  BY <1>1, <1>7 DEF Tap, TapCenter, TapMember, Toggle, Elsewhere, Answered, Answer, GraphReply,
                    GraphFails, PanelReply, sym, vars
<1> QED
  BY <1>2, <1>3, <1>4, <1>5, <1>6, <1>7 DEF Next, Navigate

LEMMA TrailMovesStep == Shape /\ TrailMoves /\ [Next]_vars /\ Shape' => TrailMoves'
<1> SUFFICES ASSUME Shape, Moves(Trail), [Next]_vars, Shape' PROVE Moves(Trail')
  BY TrailIs
<1>1. CASE Trail' = Trail
  BY <1>1
<1>2. CASE history' = <<>> /\ future' = <<>>
  <2>1. <<>> \in Seq(Symbols) /\ Len(<<>>) = 0
    OBVIOUS
  <2>2. CASE active' = None
    <3>1. Trail' = <<>>
      BY <2>2, TrailIs DEF TrailOf
    <3> QED
      BY <2>1, <3>1 DEF Moves
  <2>3. CASE active' \in Symbols
    <3>1. Len(TrailOf(active', <<>>, <<>>)) = Len(<<>>) + 1 + Len(<<>>)
      BY <2>1, <2>3, PathIs
    <3>2. Len(Trail') = 1
      BY <1>2, <2>1, <3>1, TrailIs
    <3> QED
      BY <3>2 DEF Moves
  <2> QED
    BY <2>2, <2>3 DEF Shape
<1>3. CASE /\ active \in Symbols /\ active' \in Symbols /\ active' # active
           /\ Trail' = TrailOf(active', Append(history, active), <<>>)
  <2> DEFINE n == Len(history)
             b == Append(history, active)
             s == active'
  <2>1. /\ history \in Seq(Symbols) /\ future \in Seq(Symbols) /\ n \in Nat
        /\ Len(future) \in Nat /\ <<>> \in Seq(Symbols) /\ Len(<<>>) = 0
    BY DEF Shape
  <2>2. /\ b \in Seq(Symbols) /\ Len(b) = n + 1
        /\ \A i \in 1 .. n : b[i] = history[i]
        /\ b[n + 1] = active
    BY <1>3, <2>1, AppendProperties
  <2>3. /\ Len(Trail) = n + 1 + Len(future)
        /\ \A i \in 1 .. (n + 1 + Len(future)) : Trail[i] =
             IF i <= n THEN history[i] ELSE IF i = n + 1 THEN active ELSE future[i - n - 1]
    <3>1. active \in Symbols /\ history \in Seq(Symbols) /\ future \in Seq(Symbols)
      BY <1>3, <2>1
    <3>2. Trail = TrailOf(active, history, future)
      BY TrailIs
    <3> DEFINE t == TrailOf(active, history, future)
    <3>3. /\ Len(t) = Len(history) + 1 + Len(future)
          /\ \A i \in 1 .. (Len(history) + 1 + Len(future)) : t[i] =
               IF i <= Len(history) THEN history[i]
               ELSE IF i = Len(history) + 1 THEN active ELSE future[i - Len(history) - 1]
      BY <3>1, PathIs
    <3> HIDE DEF t
    <3> QED
      BY <3>2, <3>3 DEF t
  <2> HIDE DEF b
  <2>4. /\ Len(TrailOf(s, b, <<>>)) = Len(b) + 1 + Len(<<>>)
        /\ \A i \in 1 .. (Len(b) + 1 + Len(<<>>)) : TrailOf(s, b, <<>>)[i] =
             IF i <= Len(b) THEN b[i] ELSE IF i = Len(b) + 1 THEN s ELSE <<>>[i - Len(b) - 1]
    <3>1. s \in Symbols /\ b \in Seq(Symbols) /\ <<>> \in Seq(Symbols)
      BY <1>3, <2>1, <2>2
    <3> HIDE DEF s
    <3> QED
      BY <3>1, PathIs
  <2> HIDE DEF s
  <2>5. TrailOf(s, b, <<>>) = Trail'
    BY <1>3 DEF s, b
  <2>6. Len(Trail') = n + 2 /\ \A i \in 1 .. (n + 1) : Trail'[i] = b[i]
    BY <2>1, <2>2, <2>4, <2>5
  <2>7. Trail'[n + 2] = s
    <3>1. n + 2 = Len(b) + 1 /\ ~(n + 2 <= Len(b)) /\ n + 2 \in 1 .. (Len(b) + 1 + Len(<<>>))
      BY <2>1, <2>2
    <3> QED
      BY <2>4, <2>5, <3>1
  <2>8. ASSUME NEW i \in 1 .. (n + 1) PROVE Trail'[i] # Trail'[i + 1]
    <3>1. CASE i = n + 1
      BY <1>3, <2>1, <2>2, <2>6, <2>7, <3>1 DEF s
    <3>2. CASE i <= n
      <4>1. i \in 1 .. (Len(Trail) - 1) /\ i + 1 \in 1 .. (n + 1)
        BY <2>1, <2>3, <3>2
      <4>2. Trail[i] # Trail[i + 1]
        BY <4>1 DEF Moves
      <4>3. Trail[i] = b[i] /\ Trail[i + 1] = b[i + 1]
        <5>1. i \in 1 .. n /\ Trail[i] = history[i]
          BY <2>1, <2>3, <3>2
        <5>2. CASE i + 1 = n + 1
          BY <2>1, <2>2, <2>3, <5>1, <5>2
        <5>3. CASE i + 1 # n + 1
          <6>1. i + 1 \in 1 .. n
            BY <2>1, <5>1, <5>3
          <6> QED
            BY <2>1, <2>2, <2>3, <5>1, <6>1
        <5> QED
          BY <5>2, <5>3
      <4> QED
        BY <2>6, <4>1, <4>2, <4>3
    <3> QED
      BY <2>1, <3>1, <3>2
  <2> QED
    BY <2>1, <2>6, <2>8 DEF Moves
<1> QED
  BY <1>1, <1>2, <1>3, TrailSteps

\* Each step of the trail leads somewhere else: Back and Forward always change the view.
THEOREM TrailMovesHolds == Spec => []TrailMoves
<1>1. Init => TrailMoves
  <2>1. Init => Trail = <<>>
    BY DEF Init, Trail
  <2> QED
    BY <2>1 DEF TrailMoves
<1> QED
  BY <1>1, ShapeInit, ShapeStep, TrailMovesStep, PTL DEF Spec

\* Back and Forward lose no step of the trail; only a visit cuts it, at the active symbol.
THEOREM TrailKept == Spec => TrailIsKept
<1>1. Shape /\ [Next]_vars =>
        [\/ Trail' = Trail
         \/ Trail' = Append(Past, active')
         \/ history' = <<>> /\ future' = <<>>]_vars
  <2>1. ASSUME Shape, active \in Symbols, active' \in Symbols,
               Trail' = TrailOf(active', Append(history, active), <<>>)
        PROVE  Trail' = Append(Past, active')
    BY <2>1, VisitPath DEF Past, Shape
  <2> QED
    BY <2>1, TrailSteps
<1> QED
  BY <1>1, ShapeInit, ShapeStep, PTL DEF Spec, TrailIsKept

-----------------------------------------------------------------------------
(* The graph displayed *)

\* With replies in order, the last graph asked for is that of the active symbol; when none
\* is under way it is displayed, with the collapsed cards.
GraphOrder ==
    net = "orderly" /\ shown =>
        /\ LastGraphIs(pending, active)
        /\ ~Has(pending, "graph") =>
              graph.center = active /\ graph.collapsed = collapsed \cap Cards(active)

\* As far as graphs go, the queues are the same.
SameGraphs(q, t) ==
    /\ Has(q, "graph") <=> Has(t, "graph")
    /\ \A s : LastGraphIs(q, s) <=> LastGraphIs(t, s)

LEMMA OtherAsked ==
  ASSUME NEW q \in Seq(Requests), NEW r \in Requests, r.kind # "graph", Issued(q, r)
  PROVE  SameGraphs(pending', q)
BY Asked DEF Issued, SameGraphs

LEMMA ShownSame ==
  ASSUME NEW q \in Seq(Requests), NEW f \in Files,
         pending' = q \/ Issued(q, Request("file", f))
  PROVE  SameGraphs(pending', q)
<1>1. Request("file", f) \in Requests /\ Request("file", f).kind # "graph"
  BY DEF Request, Requests
<1>2. CASE pending' = q
  BY <1>2 DEF SameGraphs
<1> QED
  BY <1>1, <1>2, OtherAsked

LEMMA LoadSame ==
  ASSUME NEW q \in Seq(Requests), NEW f \in Files, LoadFile(f, q)
  PROVE  SameGraphs(pending', q)
<1>1. pending' = q \/ Issued(q, Request("file", f))
  BY DEF LoadFile, LoadRefused, ShowNoJob, LoadCurrent, ShowFetch
<1> QED
  BY <1>1, ShownSame

\* A step that leaves the view alone and asks for no graph.
LEMMA SameOrder ==
  ASSUME GraphOrder, UNCHANGED <<net, sym>>, SameGraphs(pending', pending)
  PROVE  GraphOrder'
BY DEF GraphOrder, SameGraphs, sym

LEMMA GraphAsked ==
  ASSUME pending \in Seq(Requests), NEW s \in Symbols, Fetch(s), active' = s
  PROVE  GraphOrder'
<1>1. /\ Request("graph", s) \in Requests /\ Request("graph", s).kind = "graph"
      /\ Request("graph", s).what = s
  BY DEF Request, Requests
<1>2. pending' = Append(pending, Request("graph", s))
  BY DEF Fetch, Issued
<1>3. Has(pending', "graph") /\ LastGraphIs(pending', s)
  BY <1>1, <1>2, Asked
<1> QED
  BY <1>3 DEF GraphOrder

LEMMA GraphOrderStep == Shape /\ GraphOrder /\ [Next]_vars => GraphOrder'
<1> SUFFICES ASSUME Shape, GraphOrder, [Next]_vars PROVE GraphOrder'
  OBVIOUS
<1>0. pending \in Seq(Requests)
  BY DEF Shape
<1>1. CASE Navigate
  <2>1. CASE CloseView
    BY <2>1 DEF CloseView, GraphOrder
  <2>2. CASE ~CloseView
    <3>1. PICK s \in Symbols, a \in Symbols \cup {None} :
            \E b \in Seq(Symbols), f \in Seq(Symbols), h \in BOOLEAN : Activate(s, a, b, f, h)
      BY <1>1, <2>2, Goings
    <3>2. Fetch(s) /\ active' = s
      BY <3>1 DEF Activate
    <3> QED
      BY <1>0, <3>2, GraphAsked
  <2> QED
    BY <2>1, <2>2
<1>2. CASE Tap /\ UNCHANGED net
  <2>1. CASE TapCenter
    <3>1. FileOf[graph.center] \in Files
      BY <2>1, DrawnIs, SymbolAssumption DEF TapCenter
    <3>2. SameGraphs(pending', pending)
      BY <1>0, <2>1, <3>1, LoadSame DEF TapCenter
    <3> QED
      BY <1>2, <2>1, <3>2, SameOrder DEF TapCenter
  <2>2. ASSUME NEW s \in Symbols, TapMember(s) PROVE GraphOrder'
    <3>1. Request("refs", s) \in Requests /\ Request("refs", s).kind # "graph"
      BY DEF Request, Requests
    <3>2. SameGraphs(pending', pending)
      BY <1>0, <2>2, <3>1, OtherAsked DEF TapMember, ShowSnippets
    <3> QED
      BY <1>2, <2>2, <3>2, SameOrder DEF TapMember
  <2>3. ASSUME NEW n \in Symbols \cup {"center"}, Toggle(n) PROVE GraphOrder'
    <3>1. active \in Symbols /\ Fetch(active) /\ active' = active
      BY <2>3, DrawnIs DEF Toggle
    <3> QED
      BY <1>0, <3>1, GraphAsked
  <2> QED
    BY <1>2, <2>1, <2>2, <2>3 DEF Tap
<1>3. CASE Elsewhere /\ UNCHANGED net
  <2>1. SameGraphs(pending', pending)
    <3>1. CASE Close \/ Reopen
      BY <3>1 DEF Close, Reopen, SameGraphs
    <3>2. ASSUME NEW f \in Files, LoadFile(f, pending) PROVE SameGraphs(pending', pending)
      BY <1>0, <3>2, LoadSame
    <3>3. ASSUME NEW f \in Files, SyncFile(f) PROVE SameGraphs(pending', pending)
      <4>1. pending' = pending \/ Issued(pending, Request("file", f))
        BY <3>3 DEF SyncFile, SyncClosed, ShowNoJob, SyncCurrent, ShowFetch
      <4> QED
        BY <1>0, <4>1, ShownSame
    <3> QED
      BY <1>3, <3>1, <3>2, <3>3 DEF Elsewhere
  <2> QED
    BY <1>3, <2>1, SameOrder DEF Elsewhere
<1>4. ASSUME NEW i \in 1 .. Len(pending), Answer(i), UNCHANGED net PROVE GraphOrder'
  <2> SUFFICES ASSUME net = "orderly", shown' PROVE GraphOrder'
    BY <1>4 DEF GraphOrder
  <2> DEFINE q == RemoveAt(pending, 1)
  <2>1. shown' = shown /\ active' = active /\ collapsed' = collapsed
    BY <1>4 DEF Answer, GraphReply, GraphFails, PanelReply, sym
  <2>2. i = 1 /\ Len(pending) > 0
    <3>1. \E kind \in {"file", "refs", "graph"} : Arrives(i, kind) \/ Fails(i, kind)
      BY <1>4 DEF Answer, GraphReply, GraphFails, PanelReply, Reply, FileReply, FileFails,
                  RefsReply, RefsFail
    <3>2. i = 1
      BY <3>1 DEF Arrives, Fails
    <3> QED
      BY <1>0, <3>2
  <2>3. LastGraphIs(pending, active)
    BY <2>1 DEF GraphOrder
  <2>4. /\ LastGraphIs(q, active)
        /\ pending[1].kind = "graph" /\ ~Has(q, "graph") => pending[1].what = active
    BY <1>0, <2>2, <2>3, AnsweredFirst
  <2>5. q \in Seq(Requests) /\ pending[1] \in Requests
    BY <1>0, <2>2, Removed
  <2> HIDE DEF q
  <2>6. CASE GraphReply(i)
    <3>1. /\ pending[1].kind = "graph" /\ LoadFile(FileOf[pending[1].what], q)
          /\ graph' = [center |-> pending[1].what,
                       collapsed |-> collapsed \cap Cards(pending[1].what)]
      BY <2>2, <2>6 DEF GraphReply, Arrives, q
    <3>2. FileOf[pending[1].what] \in Files
      BY <2>5, <3>1, SymbolAssumption DEF Requests
    <3>3. SameGraphs(pending', q)
      BY <2>5, <3>1, <3>2, LoadSame
    <3>4. LastGraphIs(pending', active)
      BY <2>4, <3>3 DEF SameGraphs
    <3>5. ~Has(pending', "graph") => pending[1].what = active
      BY <2>4, <3>1, <3>3 DEF SameGraphs
    <3> QED
      BY <2>1, <3>1, <3>4, <3>5 DEF GraphOrder
  <2>7. CASE PanelReply(i)
    <3>1. pending[1].kind # "graph" /\ pending' = q /\ graph' = graph
      BY <2>2, <2>7 DEF PanelReply, Reply, FileReply, FileFails, RefsReply, RefsFail, Arrives,
                        Fails, sym, q
    <3>2. Has(q, "graph") <=> Has(pending, "graph")
      BY <1>0, <2>2, <3>1, Answered1 DEF q
    <3> QED
      BY <2>1, <2>4, <3>1, <3>2 DEF GraphOrder
  <2> QED
    BY <1>4, <2>6, <2>7 DEF Answer, GraphFails, Fails
<1>5. CASE UNCHANGED vars
  <2>1. SameGraphs(pending', pending)
    BY <1>5 DEF vars, panelVars, SameGraphs
  <2> QED
    BY <1>5, <2>1, SameOrder DEF vars, panelVars
<1> QED
  BY <1>1, <1>2, <1>3, <1>4, <1>5 DEF Next, Answered

\* With replies in order, once the graphs asked for have arrived the one displayed is that
\* of the active symbol, drawn with the cards that are collapsed.
THEOREM SettledGraphHolds == Spec => []SettledGraphIsActive
<1>1. Init => GraphOrder
  BY DEF Init, GraphOrder
<1>2. GraphOrder => SettledGraphIsActive
  BY DEF GraphOrder, SettledGraphIsActive, GraphPending, Has
<1> QED
  BY <1>1, <1>2, ShapeInit, ShapeStep, GraphOrderStep, PTL DEF Spec
=============================================================================
