----------------------------- MODULE TabsProofs -----------------------------
(***************************************************************************)
(* Theorems of Tabs for any number of tabs and messages, whether or not a  *)
(* tab may be closed before its thread runs: a tab is there as long as its *)
(* thread is, and what is on the bar is served.  And theorems of UndoRedo, *)
(* the history each tab has: back and forward are inverse to each other,   *)
(* the menu leads where it says, and what is shown is what the list says.  *)
(***************************************************************************)
EXTENDS Tabs, UndoRedo, FiniteSetTheorems, SequenceTheorems, TLAPS

-----------------------------------------------------------------------------
(* The inductive invariant.                                                *)

\* A tab waits among the removals q; and it waits only once.
Waits(t, q) == \E i \in DOMAIN q : q[i] = t
Once(q) == \A i, j \in DOMAIN q : q[i] = q[j] /\ q[i] \in Ids => i = j

\* The tabs and the calls in progress stay within the bound.
Fits == Cardinality(tabs) + Opening <= MaxTabs

\* The tab the background scheduler is removing.
Current(t) == removals # <<>> /\ removals[1] = t

\* A tab leaves by one way only: it waits for removal, or its destruction waits
\* for the Qt thread, or is under way there.
Ways ==
  /\ Once(removals)
  /\ \A t \in Ids : Waits(t, removals) => t \in tabs \ bar
  /\ \A t \in Ids : call = Destroy(t) \/ running = Destroy(t) =>
       t \in tabs \ bar /\ thread[t] = "none" /\ ~ Waits(t, removals)
  /\ \A t \in Ids : ~ (call = Destroy(t) /\ running = Destroy(t))
  /\ stopping # "no" => removals # <<>>
  /\ stopping = "stopped" => \A t \in Ids : Current(t) => thread[t] = "none"

\* The flag of a tab on the bar is not reset, and a busy tab has a message.
Serves ==
  /\ \A t \in bar : thread[t] \in {"idle", "busy"} => loop[t]
  /\ \A t \in Ids : thread[t] = "busy" => work[t] > 0

Safe == TabOutlivesItsThread /\ TabOnBarIsServed

IInv == TypeOK /\ Fits /\ Ways /\ Serves /\ Safe
-----------------------------------------------------------------------------
(* Sequences of tabs.                                                      *)

Some == Ids \cup {NoTab}

LEMMA Finite == IsFiniteSet(Ids) /\ Cardinality(Ids) = MaxTabs
<1>1. 1 \in Int /\ MaxTabs \in Int /\ ~ 1 > MaxTabs /\ MaxTabs - 1 + 1 = MaxTabs
  BY TabsAssumption
<1> QED
  BY <1>1, FS_Interval DEF Ids

LEMMA Subsets == ASSUME NEW g \in SUBSET Ids PROVE IsFiniteSet(g)
BY Finite, FS_Subset

\* SetToSeq lists the members of a set of tabs, each of them once.
LEMMA Listed ==
  ASSUME NEW g \in SUBSET Ids
  PROVE  SetToSeq(g) \in Seq(g) /\ IsInjective(SetToSeq(g))
<1> DEFINE n == Cardinality(g)
<1>1. IsFiniteSet(g)
  BY Subsets
<1>2. n \in Nat /\ ExistsBijection(1..n, g)
  BY <1>1, FS_CardinalityType
<1>3. PICK f \in Bijection(1..n, g) : TRUE
  BY <1>2 DEF ExistsBijection
<1>4. f \in [1..n -> g] /\ IsInjective(f)
  BY <1>3 DEF Bijection, Injection, Surjection, IsInjective
<1>5. SetToSeq(g) \in [1..n -> g] /\ IsInjective(SetToSeq(g))
  BY <1>4 DEF SetToSeq
<1> QED
  BY <1>2, <1>5

\* What is left of a sequence without its first element.
LEMMA TailIs ==
  ASSUME NEW q \in Seq(Some), q # <<>>
  PROVE  /\ Tail(q) \in Seq(Some) /\ q[1] \in Some /\ 1 \in DOMAIN q
         /\ \A i \in DOMAIN Tail(q) : i + 1 \in DOMAIN q /\ Tail(q)[i] = q[i + 1]
         /\ DOMAIN Tail(q) \subseteq Nat \ {0}
OBVIOUS

LEMMA TailWaits ==
  ASSUME NEW q \in Seq(Some), q # <<>>, Once(q)
  PROVE  /\ Once(Tail(q))
         /\ \A t : Waits(t, Tail(q)) => Waits(t, q)
         /\ q[1] \in Ids => ~ Waits(q[1], Tail(q))
<1>1. ASSUME NEW i \in DOMAIN Tail(q), NEW j \in DOMAIN Tail(q),
             Tail(q)[i] = Tail(q)[j], Tail(q)[i] \in Ids
      PROVE  i = j
  <2>1. i + 1 = j + 1
    BY <1>1, TailIs DEF Once
  <2> QED
    BY <1>1, <2>1, TailIs
<1>2. ASSUME NEW t, Waits(t, Tail(q)) PROVE Waits(t, q)
  BY <1>2, TailIs DEF Waits
<1>3. ASSUME q[1] \in Ids, NEW i \in DOMAIN Tail(q), Tail(q)[i] = q[1] PROVE FALSE
  <2>1. i + 1 = 1
    BY <1>3, TailIs DEF Once
  <2> QED
    BY <1>3, <2>1, TailIs
<1> QED
  BY <1>1, <1>2, <1>3 DEF Once, Waits

\* What is asked for waits behind what already waits.
LEMMA JoinedIs ==
  ASSUME NEW q \in Seq(Some), NEW s \in Seq(Some)
  PROVE  /\ q \o s \in Seq(Some) /\ Len(q) \in Nat
         /\ DOMAIN (q \o s) \subseteq Nat \ {0}
         /\ \A i \in DOMAIN q : i \in DOMAIN (q \o s) /\ (q \o s)[i] = q[i]
         /\ \A i \in DOMAIN (q \o s) :
              \/ i \in DOMAIN q
              \/ i - Len(q) \in DOMAIN s /\ (q \o s)[i] = s[i - Len(q)]
         /\ q # <<>> => 1 \in DOMAIN q /\ q \o s # <<>>
OBVIOUS

LEMMA JoinedWaits ==
  ASSUME NEW q \in Seq(Some), Once(q), NEW g \in SUBSET Ids,
         \A t \in g : ~ Waits(t, q)
  PROVE  LET r == q \o SetToSeq(g) IN
         /\ r \in Seq(Some)
         /\ Once(r)
         /\ \A t : Waits(t, r) => Waits(t, q) \/ t \in g
         /\ q # <<>> => r # <<>> /\ r[1] = q[1]
<1> DEFINE s == SetToSeq(g)
           r == q \o s
<1>1. s \in Seq(g) /\ s \in Seq(Some) /\ \A i \in DOMAIN s : s[i] \in g
  BY Listed DEF Some
<1>2. \A i, j \in DOMAIN s : s[i] = s[j] => i = j
  BY Listed DEF IsInjective
<1> HIDE DEF s
<1>3. ASSUME NEW i \in DOMAIN r, NEW j \in DOMAIN r, r[i] = r[j], r[i] \in Ids
      PROVE  i = j
  <2>1. CASE i \in DOMAIN q /\ j \in DOMAIN q
    BY <1>1, <1>3, <2>1, JoinedIs DEF Once
  <2>2. CASE i \notin DOMAIN q /\ j \notin DOMAIN q
    <3>1. i - Len(q) = j - Len(q)
      BY <1>1, <1>2, <1>3, <2>2, JoinedIs
    <3> QED
      BY <1>1, <1>3, <3>1, JoinedIs
  <2>3. CASE i \in DOMAIN q /\ j \notin DOMAIN q
    BY <1>1, <1>3, <2>3, JoinedIs DEF Waits
  <2>4. CASE i \notin DOMAIN q /\ j \in DOMAIN q
    BY <1>1, <1>3, <2>4, JoinedIs DEF Waits
  <2> QED
    BY <2>1, <2>2, <2>3, <2>4
<1>4. ASSUME NEW t, NEW i \in DOMAIN r, r[i] = t PROVE Waits(t, q) \/ t \in g
  BY <1>1, <1>4, JoinedIs DEF Waits
<1>5. q # <<>> => r # <<>> /\ r[1] = q[1]
  BY <1>1, JoinedIs
<1> QED
  BY <1>1, <1>3, <1>4, <1>5, JoinedIs DEF Once, Waits, s

\* The request for a tab there never was.
LEMMA NothingWaits ==
  ASSUME NEW q \in Seq(Some), Once(q)
  PROVE  LET r == Append(q, NoTab) IN
         /\ r \in Seq(Some)
         /\ Once(r)
         /\ \A t \in Ids : Waits(t, r) => Waits(t, q)
         /\ q # <<>> => r # <<>> /\ r[1] = q[1]
<1> DEFINE r == Append(q, NoTab)
<1>1. /\ r \in Seq(Some) /\ Len(q) \in Nat
      /\ DOMAIN r = DOMAIN q \cup {Len(q) + 1}
      /\ \A i \in DOMAIN q : r[i] = q[i]
      /\ r[Len(q) + 1] = NoTab
      /\ q # <<>> => 1 \in DOMAIN q /\ r # <<>>
  BY DEF Some
<1>2. NoTab \notin Ids
  BY TabsAssumption DEF NoTab, Ids
<1> HIDE DEF r
<1>3. Once(r)
  BY <1>1, <1>2 DEF Once
<1>4. \A t \in Ids : Waits(t, r) => Waits(t, q)
  BY <1>1, <1>2 DEF Waits
<1> QED
  BY <1>1, <1>3, <1>4 DEF r
-----------------------------------------------------------------------------
(* The calls of the Qt thread.                                             *)

LEMMA CallKinds ==
  /\ NoTab \notin Ids
  /\ \A t, u : Destroy(t) = Destroy(u) => t = u
  /\ \A t : Destroy(t) # Nothing /\ Destroy(t).call = "destroy"
  /\ \A t, c : c \in {"open", "close", "clear"} => Destroy(t) # Call(c)
  /\ \A c : Call(c).call = c
  /\ Call("open") # Nothing /\ Nothing.call = "none"
<1>1. \A t, u : Destroy(t) = Destroy(u) => t = u
  <2>1. \A t : Destroy(t).tab = t
    BY DEF Destroy
  <2> QED
    BY <2>1
<1>2. \A t : Destroy(t).call = "destroy"
  BY DEF Destroy
<1>3. \A c : Call(c).call = c
  BY DEF Call
<1>4. Nothing.call = "none"
  BY DEF Nothing
<1>5. NoTab \notin Ids
  BY TabsAssumption DEF NoTab, Ids
<1> QED
  BY <1>1, <1>2, <1>3, <1>4, <1>5

LEMMA Destroys ==
  ASSUME running \in Calls, running.call = "destroy"
  PROVE  running.tab \in Some /\ running = Destroy(running.tab)
<1>1. running \in {Destroy(t) : t \in Some}
  BY CallKinds DEF Calls, Some
<1>2. PICK t \in Some : running = Destroy(t)
  BY <1>1
<1> QED
  BY <1>2 DEF Destroy

LEMMA FreeTab ==
  ASSUME TypeOK, Cardinality(tabs) < MaxTabs, NEW t,
         t = CHOOSE i \in Ids : i \notin tabs
  PROVE  t \in Ids /\ t \notin tabs
<1>1. tabs # Ids
  BY Finite, TabsAssumption
<1> QED
  BY <1>1 DEF TypeOK

\* How many tabs are on their way in.
LEMMA OneIf == \A P \in BOOLEAN : Cardinality({c \in {1} : P}) = IF P THEN 1 ELSE 0
<1> SUFFICES ASSUME NEW P \in BOOLEAN
             PROVE  Cardinality({c \in {1} : P}) = IF P THEN 1 ELSE 0
  OBVIOUS
<1>1. CASE P
  <2>1. {c \in {1} : P} = {1}
    BY <1>1
  <2> QED
    BY <1>1, <2>1, FS_Singleton
<1>2. CASE ~ P
  <2>1. {c \in {1} : P} = {}
    BY <1>2
  <2> QED
    BY <1>2, <2>1, FS_EmptySet
<1> QED
  BY <1>1, <1>2

LEMMA OpeningIs ==
  /\ Opening = (IF call = Call("open") THEN 1 ELSE 0)
                + (IF running = Call("open") THEN 1 ELSE 0)
  /\ Opening' = (IF call' = Call("open") THEN 1 ELSE 0)
                 + (IF running' = Call("open") THEN 1 ELSE 0)
<1>1. /\ Cardinality({c \in {1} : call = Call("open")})
          = IF call = Call("open") THEN 1 ELSE 0
      /\ Cardinality({c \in {1} : running = Call("open")})
          = IF running = Call("open") THEN 1 ELSE 0
  BY OneIf
<1>2. /\ Cardinality({c \in {1} : call' = Call("open")})
          = IF call' = Call("open") THEN 1 ELSE 0
      /\ Cardinality({c \in {1} : running' = Call("open")})
          = IF running' = Call("open") THEN 1 ELSE 0
  BY OneIf
<1>3. Call("open")' = Call("open")
  BY DEF Call
<1> QED
  BY <1>1, <1>2, <1>3 DEF Opening
-----------------------------------------------------------------------------
(* The steps, by what they do to the tabs.                                 *)

Inserts ==
  /\ InsertTab
  /\ (running = Nothing /\ Room) \/ running = Call("open")
  /\ running' = Nothing
Removes == running' = Nothing /\ \E gone \in SUBSET bar : RemoveTabs(gone)
Asks == running' = Nothing /\ RemoveNothing
Destroying ==
  running.call = "destroy" /\ DestroyTab(running.tab) /\ running' = Nothing

\* The application posts calls, and nothing else of this is its business.
Posts ==
  /\ UNCHANGED <<bar, tabs, running, background, schedulers>>
  /\ \/ call' = call
     \/ call' = Call("open") /\ Room
     \/ call = Nothing /\ call' \in {Call("close"), Call("clear")}

LEMMA AppPosts == App \/ Send => Posts
<1>1. CASE TabOpen
  BY <1>1 DEF TabOpen, Post, Posts
<1>2. CASE TabClose
  BY <1>2 DEF TabClose, Post, Posts
<1>3. CASE PostsClear
  BY <1>3 DEF PostsClear, Post, Posts
<1>4. CASE SetsCreating \/ IndexingFinished \/ ProjectGoes \/ ResetsCreating
  BY <1>4 DEF SetsCreating, IndexingFinished, ProjectGoes, ResetsCreating, Posts,
              background, schedulers
<1>5. CASE WaitsForTabs \/ Loads \/ Send
  BY <1>5 DEF WaitsForTabs, Loads, Send, Posts, background, schedulers
<1> QED
  BY <1>1, <1>2, <1>3, <1>4, <1>5 DEF App

LEMMA QtCases ==
  AddsTab \/ ClosesTab \/ RunsCall => Inserts \/ Removes \/ Asks \/ Destroying
<1>1. CASE AddsTab
  BY <1>1 DEF AddsTab, Inserts
<1>2. CASE ClosesTab
  <2>1. PICK t \in bar : RemoveTabs({t})
    BY <1>2 DEF ClosesTab
  <2>2. running' = Nothing
    BY <1>2 DEF ClosesTab
  <2> QED
    BY <2>1, <2>2 DEF Removes
<1>3. CASE RunsCall
  <2>1. running' = Nothing
    BY <1>3 DEF RunsCall
  <2>2. CASE running = Call("open") /\ InsertTab
    BY <2>1, <2>2 DEF Inserts
  <2>3. CASE RemoveNothing
    BY <2>1, <2>3 DEF Asks
  <2>4. ASSUME NEW t \in bar, RemoveTabs({t}) PROVE Removes
    BY <2>1, <2>4 DEF Removes
  <2>5. CASE RemoveTabs(bar)
    BY <2>1, <2>5 DEF Removes
  <2>6. CASE running.call = "destroy" /\ DestroyTab(running.tab)
    BY <2>1, <2>6 DEF Destroying
  <2> QED
    BY <1>3, <2>2, <2>3, <2>4, <2>5, <2>6 DEF RunsCall
<1> QED
  BY <1>1, <1>2, <1>3

Kinds ==
  \/ Posts \/ SendToTab \/ ClosesTabsToRight \/ TakesCall
  \/ Inserts \/ Removes \/ Asks \/ Destroying
  \/ StopsLoop \/ WaitsForThread \/ PostsDestroy
  \/ \E t \in Ids : TabThread(t)

LEMMA NextKinds == Next => Kinds
BY AppPosts, QtCases DEF Next, User, Qt, Background, Kinds

\* A tab that is inserted is a new one.
LEMMA NewTab ==
  ASSUME TypeOK, Fits, Inserts
  PROVE  \E t \in Ids :
           /\ t \notin tabs
           /\ bar' = bar \cup {t} /\ tabs' = tabs \cup {t}
           /\ thread' = [thread EXCEPT ![t] = "started"]
           /\ work' = [work EXCEPT ![t] = 1]
           /\ UNCHANGED <<loaded, messages, app, call, background, loop>>
<1>1. Cardinality(tabs) \in Nat /\ MaxTabs \in Nat
  BY Subsets, FS_CardinalityType, TabsAssumption DEF TypeOK
<1>2. Cardinality(tabs) < MaxTabs
  BY <1>1, OpeningIs, CallKinds DEF Inserts, Room, Fits
<1>3. \E t : t = CHOOSE i \in Ids : i \notin tabs
  OBVIOUS
<1>4. PICK t : t = CHOOSE i \in Ids : i \notin tabs
  BY <1>3
<1>5. t \in Ids /\ t \notin tabs
  BY <1>2, <1>4, FreeTab
<1> QED
  BY <1>4, <1>5 DEF Inserts, InsertTab

LEMMA FitsStep == ASSUME TypeOK, Fits, Next PROVE Fits'
<1>1. /\ Cardinality(tabs) \in Nat /\ MaxTabs \in Nat /\ IsFiniteSet(tabs)
  BY Subsets, FS_CardinalityType, TabsAssumption DEF TypeOK
<1>2. CASE Posts
  <2>1. tabs' = tabs /\ running' = running
    BY <1>2 DEF Posts
  <2>2. CASE call' = call
    BY <2>1, <2>2, OpeningIs DEF Fits
  <2>3. CASE call' = Call("open") /\ Room
    BY <1>1, <2>1, <2>3, OpeningIs DEF Fits, Room
  <2>4. CASE call' \in {Call("close"), Call("clear")}
    <3>1. call' # Call("open")
      BY <2>4, CallKinds
    <3> QED
      BY <1>1, <2>1, <3>1, OpeningIs DEF Fits
  <2> QED
    BY <1>2, <2>2, <2>3, <2>4 DEF Posts
<1>3. CASE SendToTab \/ ClosesTabsToRight \/ StopsLoop \/ WaitsForThread
           \/ \E t \in Ids : TabThread(t)
  <2>1. UNCHANGED <<tabs, call, running>>
    BY <1>3 DEF SendToTab, ClosesTabsToRight, StopsLoop, WaitsForThread, TabThread,
                ThreadStarts, TaskBegins, TaskEnds, ThreadEnds
  <2> QED
    BY <2>1, OpeningIs DEF Fits
<1>4. CASE TakesCall
  BY <1>4, OpeningIs, CallKinds DEF Fits, TakesCall
<1>5. CASE Inserts
  <2>1. PICK t \in Ids : t \notin tabs /\ tabs' = tabs \cup {t} /\ call' = call
    BY <1>5, NewTab
  <2>2. Cardinality(tabs') = Cardinality(tabs) + 1
    BY <1>1, <2>1, FS_AddElement
  <2> QED
    BY <1>1, <1>5, <2>1, <2>2, OpeningIs, CallKinds DEF Fits, Inserts, Room
<1>6. CASE Removes \/ Asks
  <2>1. tabs' = tabs /\ call' = call /\ running' = Nothing
    BY <1>6 DEF Removes, Asks, RemoveTabs, RemoveNothing
  <2> QED
    BY <1>1, <2>1, OpeningIs, CallKinds DEF Fits
<1>7. CASE Destroying
  <2>1. tabs' = tabs \ {running.tab} /\ call' = call /\ running' = Nothing
    BY <1>7 DEF Destroying, DestroyTab
  <2>2. Cardinality(tabs') <= Cardinality(tabs) /\ Cardinality(tabs') \in Nat
    <3>1. /\ IsFiniteSet(tabs \ {running.tab})
          /\ Cardinality(tabs \ {running.tab})
               = IF running.tab \in tabs THEN Cardinality(tabs) - 1 ELSE Cardinality(tabs)
      BY <1>1, FS_RemoveElement
    <3>2. Cardinality(tabs') \in Nat
      BY <2>1, <3>1, FS_CardinalityType
    <3> QED
      BY <1>1, <2>1, <3>1, <3>2
  <2> QED
    BY <1>1, <2>1, <2>2, OpeningIs, CallKinds DEF Fits
<1>8. CASE PostsDestroy
  <2>1. /\ tabs' = tabs /\ running' = running
        /\ call' = Destroy(removals[1])
    BY <1>8 DEF PostsDestroy, Post
  <2>2. call' # Call("open")
    BY <2>1, CallKinds
  <2> QED
    BY <1>1, <2>1, <2>2, OpeningIs DEF Fits
<1> QED
  BY <1>2, <1>3, <1>4, <1>5, <1>6, <1>7, <1>8, NextKinds DEF Kinds
-----------------------------------------------------------------------------
(* Types.                                                                  *)

LEMMA TypeInit == Init => TypeOK
<1> SUFFICES ASSUME Init PROVE TypeOK
  OBVIOUS
<1>1. call \in Calls /\ running \in Calls
  BY DEF Init, Calls
<1>2. thread \in [Ids -> {"none", "started", "idle", "busy", "ended"}]
  BY DEF Init
<1>3. work \in [Ids -> 0..MaxWork]
  BY TabsAssumption DEF Init
<1>4. /\ bar \in SUBSET Ids /\ tabs \in SUBSET Ids
      /\ creating \in BOOLEAN /\ loaded \in BOOLEAN
      /\ loop \in [Ids -> BOOLEAN]
  BY DEF Init
<1>5. messages \in Seq(Messages) /\ removals \in Seq(Ids \cup {NoTab})
  BY DEF Init
<1>6. app = "idle" /\ stopping = "no"
  BY DEF Init
<1> QED
  BY <1>1, <1>2, <1>3, <1>4, <1>5, <1>6 DEF TypeOK

\* What the application's handlers keep to themselves.
LEMMA MessagesType ==
  ASSUME TypeOK, Next
  PROVE  /\ messages' \in Seq(Messages) /\ loaded' \in BOOLEAN /\ creating' \in BOOLEAN
         /\ app' \in {"idle", "opened", "clear", "posted", "waiting", "loading"}
<1> USE DEF TypeOK
<1>0. /\ \A m \in Messages : Append(messages, m) \in Seq(Messages)
      /\ messages # <<>> => /\ Tail(messages) \in Seq(Messages)
                            /\ \A m \in Messages :
                                 Append(Tail(messages), m) \in Seq(Messages)
      /\ "open" \in Messages /\ "close" \in Messages /\ "load" \in Messages
      /\ "finished" \in Messages
  BY DEF Messages
<1>1. CASE App
  <2>1. CASE TabOpen \/ TabClose \/ IndexingFinished
    BY <1>0, <2>1 DEF TabOpen, TabClose, IndexingFinished, Handles
  <2>2. CASE SetsCreating \/ PostsClear \/ ResetsCreating \/ WaitsForTabs
    BY <2>2 DEF SetsCreating, PostsClear, ResetsCreating, WaitsForTabs
  <2>3. CASE ProjectGoes
    BY <1>0, <2>3 DEF ProjectGoes, Handles
  <2>4. CASE Loads
    BY <1>0, <2>4 DEF Loads
  <2> QED
    BY <1>1, <2>1, <2>2, <2>3, <2>4 DEF App
<1>2. CASE Send \/ SendToTab \/ ClosesTabsToRight
  BY <1>0, <1>2 DEF Send, SendToTab, ClosesTabsToRight
<1>3. CASE TakesCall
  BY <1>3 DEF TakesCall
<1>4. CASE AddsTab \/ ClosesTab \/ RunsCall
  <2>1. CASE Inserts
    BY <2>1 DEF Inserts, InsertTab
  <2>2. CASE Removes \/ Asks
    BY <2>2 DEF Removes, Asks, RemoveTabs, RemoveNothing
  <2>3. CASE Destroying
    BY <2>3 DEF Destroying, DestroyTab, Messages
  <2> QED
    BY <1>4, <2>1, <2>2, <2>3, QtCases
<1>5. CASE Background
  BY <1>5 DEF Background, StopsLoop, WaitsForThread, PostsDestroy
<1>6. ASSUME NEW t \in Ids, TabThread(t)
      PROVE  UNCHANGED <<messages, loaded, creating, app>>
  BY <1>6 DEF TabThread, ThreadStarts, TaskBegins, TaskEnds, ThreadEnds
<1> QED
  BY <1>1, <1>2, <1>3, <1>4, <1>5, <1>6 DEF Next, User, Qt

LEMMA CallsType ==
  ASSUME TypeOK, Ways, Next
  PROVE  call' \in Calls /\ running' \in Calls
<1>1. /\ Nothing \in Calls /\ Call("open") \in Calls /\ Call("close") \in Calls
      /\ Call("clear") \in Calls /\ \A t \in Some : Destroy(t) \in Calls
  BY DEF Calls, Some
<1>2. CASE Posts
  BY <1>1, <1>2 DEF Posts, TypeOK
<1>3. CASE SendToTab \/ ClosesTabsToRight \/ StopsLoop \/ WaitsForThread
           \/ \E t \in Ids : TabThread(t)
  BY <1>3 DEF SendToTab, ClosesTabsToRight, StopsLoop, WaitsForThread, TabThread,
              ThreadStarts, TaskBegins, TaskEnds, ThreadEnds, TypeOK
<1>4. CASE TakesCall
  BY <1>1, <1>4 DEF TakesCall, TypeOK
<1>5. CASE Inserts \/ Removes \/ Asks \/ Destroying
  BY <1>1, <1>5 DEF Inserts, Removes, Asks, Destroying, InsertTab, RemoveTabs,
                    RemoveNothing, DestroyTab, TypeOK
<1>6. CASE PostsDestroy
  <2>1. removals[1] \in Some
    <3>1. removals \in Seq(Some) /\ removals # <<>>
      BY <1>6 DEF PostsDestroy, Ways, TypeOK, Some
    <3> QED
      BY <3>1, TailIs
  <2> QED
    BY <1>1, <1>6, <2>1 DEF PostsDestroy, Post, TypeOK
<1> QED
  BY <1>2, <1>3, <1>4, <1>5, <1>6, NextKinds DEF Kinds

LEMMA TabsType ==
  ASSUME TypeOK, Fits, Ways, Serves, Next
  PROVE  /\ bar' \in SUBSET Ids /\ tabs' \in SUBSET Ids
         /\ thread' \in [Ids -> {"none", "started", "idle", "busy", "ended"}]
         /\ loop' \in [Ids -> BOOLEAN]
         /\ work' \in [Ids -> 0..MaxWork]
<1>1. CASE Posts
  BY <1>1 DEF Posts, schedulers, TypeOK
<1>2. CASE SendToTab
  <2>1. PICK t \in bar : work[t] < MaxWork /\ work' = [work EXCEPT ![t] = @ + 1]
    BY <1>2 DEF SendToTab
  <2>2. work[t] + 1 \in 0..MaxWork
    BY <2>1, TabsAssumption DEF TypeOK
  <2> QED
    BY <1>2, <2>1, <2>2 DEF SendToTab, TypeOK
<1>3. CASE ClosesTabsToRight \/ TakesCall \/ Removes \/ Asks \/ Destroying \/ PostsDestroy
  BY <1>3 DEF ClosesTabsToRight, TakesCall, Removes, Asks, Destroying, PostsDestroy,
     RemoveTabs, RemoveNothing, DestroyTab, schedulers, TypeOK
<1>4. CASE Inserts
  <2>1. 1 \in 0..MaxWork
    BY TabsAssumption
  <2> QED
    BY <1>4, <2>1, NewTab DEF TypeOK
<1>5. CASE StopsLoop
  BY <1>5 DEF StopsLoop, TypeOK
<1>6. CASE WaitsForThread
  <2>1. 0 \in 0..MaxWork
    BY TabsAssumption
  <2> QED
    BY <1>6, <2>1 DEF WaitsForThread, TypeOK
<1>7. ASSUME NEW t \in Ids, ThreadStarts(t) \/ TaskBegins(t) \/ ThreadEnds(t)
      PROVE  /\ UNCHANGED <<bar, tabs, work>>
             /\ thread' \in [Ids -> {"none", "started", "idle", "busy", "ended"}]
             /\ loop' \in [Ids -> BOOLEAN]
  BY <1>7 DEF ThreadStarts, TaskBegins, ThreadEnds, TypeOK
<1>8. ASSUME NEW t \in Ids, TaskEnds(t)
      PROVE  /\ UNCHANGED <<bar, tabs, loop>>
             /\ thread' \in [Ids -> {"none", "started", "idle", "busy", "ended"}]
             /\ work' \in [Ids -> 0..MaxWork]
  <2>1. work[t] - 1 \in 0..MaxWork
    BY <1>8, TabsAssumption DEF TaskEnds, Serves, TypeOK
  <2> QED
    BY <1>8, <2>1 DEF TaskEnds, TypeOK
<1>9. CASE \E t \in Ids : TabThread(t)
  BY <1>7, <1>8, <1>9 DEF TabThread, TypeOK
<1> QED
  BY <1>1, <1>2, <1>3, <1>4, <1>5, <1>6, <1>9, NextKinds DEF Kinds

\* What waits for the background scheduler, after each step.
LEMMA RemovesJoined ==
  ASSUME TypeOK, Ways, NEW gone \in SUBSET bar, RemoveTabs(gone)
  PROVE  /\ removals' \in Seq(Some) /\ Once(removals')
         /\ \A t : Waits(t, removals') => Waits(t, removals) \/ t \in gone
         /\ removals # <<>> => removals' # <<>> /\ removals'[1] = removals[1]
<1>1. removals' = removals \o SetToSeq(gone)
  BY DEF RemoveTabs
<1>2. \A t \in gone : ~ Waits(t, removals)
  BY DEF Ways, TypeOK
<1>3. gone \in SUBSET Ids /\ removals \in Seq(Some) /\ Once(removals)
  BY DEF TypeOK, Ways, Some
<1> QED
  BY <1>1, <1>2, <1>3, JoinedWaits

LEMMA AsksJoined ==
  ASSUME TypeOK, Ways, RemoveNothing
  PROVE  /\ removals' \in Seq(Some) /\ Once(removals')
         /\ \A t \in Ids : Waits(t, removals') => Waits(t, removals)
         /\ removals # <<>> => removals' # <<>> /\ removals'[1] = removals[1]
<1>1. removals' = removals \/ removals' = Append(removals, NoTab)
  BY DEF RemoveNothing
<1>2. removals \in Seq(Some) /\ Once(removals)
  BY DEF TypeOK, Ways, Some
<1>3. CASE removals' = removals
  BY <1>2, <1>3
<1>4. CASE removals' = Append(removals, NoTab)
  BY <1>2, <1>4, NothingWaits
<1> QED
  BY <1>1, <1>3, <1>4

LEMMA RemovalsType ==
  ASSUME TypeOK, Ways, Fits, Next
  PROVE  removals' \in Seq(Some) /\ stopping' \in {"no", "waits", "stopped"}
<1>1. removals \in Seq(Some)
  BY DEF TypeOK, Some
<1>2. CASE Posts \/ SendToTab \/ ClosesTabsToRight \/ TakesCall \/ Destroying
  BY <1>1, <1>2 DEF Posts, SendToTab, ClosesTabsToRight, TakesCall, Destroying,
     DestroyTab, background, TypeOK
<1>3. CASE Inserts
  BY <1>1, <1>3 DEF Inserts, InsertTab, background, TypeOK
<1>4. CASE Removes
  BY <1>4, RemovesJoined DEF Removes, RemoveTabs, TypeOK
<1>5. CASE Asks
  BY <1>5, AsksJoined DEF Asks, RemoveNothing, TypeOK
<1>6. CASE StopsLoop \/ WaitsForThread
  BY <1>1, <1>6 DEF StopsLoop, WaitsForThread
<1>7. CASE PostsDestroy
  <2>1. removals # <<>>
    BY <1>7 DEF PostsDestroy, Ways
  <2> QED
    BY <1>1, <1>7, <2>1, TailIs DEF PostsDestroy
<1>8. CASE \E t \in Ids : TabThread(t)
  <2>1. UNCHANGED <<removals, stopping>>
    BY <1>8 DEF TabThread, ThreadStarts, TaskBegins, TaskEnds, ThreadEnds, background
  <2> QED
    BY <1>1, <2>1 DEF TypeOK
<1> QED
  BY <1>2, <1>3, <1>4, <1>5, <1>6, <1>7, <1>8, NextKinds DEF Kinds

LEMMA TypeStep == ASSUME IInv, Next PROVE TypeOK'
<1>1. removals' \in Seq(Ids \cup {NoTab})
  BY RemovalsType DEF IInv, Some
<1> QED
  BY <1>1, MessagesType, CallsType, TabsType, RemovalsType DEF IInv, TypeOK
-----------------------------------------------------------------------------
(* A tab leaves by one way.                                                *)

LEMMA WaysInit == Init => Ways
<1> SUFFICES ASSUME Init PROVE Ways
  OBVIOUS
<1>1. removals = <<>> /\ call = Nothing /\ running = Nothing /\ stopping = "no"
  BY DEF Init
<1>2. Once(removals) /\ \A t : ~ Waits(t, removals)
  BY <1>1 DEF Once, Waits
<1> QED
  BY <1>1, <1>2, CallKinds DEF Ways

\* Steps that neither remove a tab nor have one destroyed.
LEMMA WaysKept ==
  ASSUME Ways, UNCHANGED <<bar, tabs, running, removals, stopping>>,
         \A t \in Ids : thread[t] = "none" => thread'[t] = "none",
         \A t \in Ids : call' = Destroy(t) => call = Destroy(t)
  PROVE  Ways'
BY DEF Ways, Current

LEMMA WaysOfOthers ==
  ASSUME TypeOK, Ways, Posts \/ SendToTab \/ \E t \in Ids : TabThread(t)
  PROVE  Ways'
<1>1. CASE Posts
  <2>1. call' = call \/ call' \in {Call("open"), Call("close"), Call("clear")}
    BY <1>1 DEF Posts
  <2>2. \A t \in Ids : call' = Destroy(t) => call = Destroy(t)
    BY <2>1, CallKinds
  <2>3. UNCHANGED <<bar, tabs, running, removals, stopping, thread>>
    BY <1>1 DEF Posts, background, schedulers
  <2> QED
    BY <2>2, <2>3, WaysKept
<1>2. CASE SendToTab
  <2>1. UNCHANGED <<bar, tabs, running, removals, stopping, thread, call>>
    BY <1>2 DEF SendToTab, background
  <2> QED
    BY <2>1, WaysKept
<1>3. ASSUME NEW t \in Ids, TabThread(t) PROVE Ways'
  <2>1. UNCHANGED <<bar, tabs, running, removals, stopping, call>>
    BY <1>3 DEF TabThread, ThreadStarts, TaskBegins, TaskEnds, ThreadEnds, background
  <2>2. \A u \in Ids : thread[u] = "none" => thread'[u] = "none"
    BY <1>3 DEF TabThread, ThreadStarts, TaskBegins, TaskEnds, ThreadEnds, TypeOK
  <2> QED
    BY <2>1, <2>2, WaysKept
<1> QED
  BY <1>1, <1>2, <1>3

LEMMA WaysOfQt ==
  ASSUME TypeOK, Fits, Ways, Safe,
         ClosesTabsToRight \/ TakesCall \/ Inserts \/ Removes \/ Asks \/ Destroying
  PROVE  Ways'
<1>1. CASE ClosesTabsToRight
  <2>1. /\ UNCHANGED <<tabs, call, running, removals, stopping, thread>>
        /\ bar' \subseteq bar
    BY <1>1 DEF ClosesTabsToRight, background, schedulers
  <2> QED
    BY <2>1 DEF Ways, Current
<1>2. CASE TakesCall
  <2>1. /\ UNCHANGED <<bar, tabs, removals, stopping, thread>>
        /\ call' = Nothing /\ running' = call
    BY <1>2 DEF TakesCall, background, schedulers
  <2> QED
    BY <2>1, CallKinds DEF Ways, Current
<1>3. CASE Inserts
  <2>1. PICK t \in Ids :
          /\ t \notin tabs /\ bar' = bar \cup {t} /\ tabs' = tabs \cup {t}
          /\ thread' = [thread EXCEPT ![t] = "started"]
          /\ UNCHANGED <<call, removals, stopping>>
    BY <1>3, NewTab DEF background
  <2>2. running' = Nothing
    BY <1>3 DEF Inserts
  <2>3. /\ ~ Waits(t, removals) /\ call # Destroy(t) /\ ~ Current(t)
    BY <2>1, TailIs DEF Ways, Waits, Current, TypeOK, Some
  <2>4. \A u \in Ids : u # t => thread'[u] = thread[u]
    BY <2>1 DEF TypeOK
  <2> QED
    BY <2>1, <2>2, <2>3, <2>4, CallKinds DEF Ways, Current
<1>4. CASE Removes
  <2>1. PICK gone \in SUBSET bar : RemoveTabs(gone)
    BY <1>4 DEF Removes
  <2>2. /\ running' = Nothing
        /\ UNCHANGED <<tabs, call, stopping, thread>> /\ bar' = bar \ gone
    BY <1>4, <2>1 DEF Removes, RemoveTabs, schedulers
  <2>3. /\ Once(removals')
        /\ \A t : Waits(t, removals') => Waits(t, removals) \/ t \in gone
        /\ removals # <<>> => removals' # <<>> /\ removals'[1] = removals[1]
    BY <2>1, RemovesJoined
  <2>4. gone \subseteq tabs /\ \A t \in Ids : call = Destroy(t) => t \notin gone
    BY DEF Ways, Safe, TabOnBarIsServed
  <2>5. \A t \in Ids : Waits(t, removals') => t \in tabs' \ bar'
    BY <2>2, <2>3, <2>4 DEF Ways
  <2> QED
    BY <2>2, <2>3, <2>4, <2>5, CallKinds DEF Ways, Current
<1>5. CASE Asks
  <2>1. /\ running' = Nothing
        /\ UNCHANGED <<bar, tabs, call, stopping, thread>>
    BY <1>5 DEF Asks, RemoveNothing, schedulers
  <2>2. /\ Once(removals')
        /\ \A t \in Ids : Waits(t, removals') => Waits(t, removals)
        /\ removals # <<>> => removals' # <<>> /\ removals'[1] = removals[1]
    BY <1>5, AsksJoined DEF Asks
  <2> QED
    BY <2>1, <2>2, CallKinds DEF Ways, Current
<1>6. CASE Destroying
  <2>1. /\ running' = Nothing
        /\ UNCHANGED <<bar, call, removals, stopping, thread>>
        /\ tabs' = tabs \ {running.tab}
    BY <1>6 DEF Destroying, DestroyTab, background, schedulers
  <2>2. running = Destroy(running.tab)
    BY <1>6, Destroys DEF Destroying, TypeOK
  <2>3. \A t \in Ids : Waits(t, removals) \/ call = Destroy(t) => t # running.tab
    BY <2>2 DEF Ways
  <2> QED
    BY <2>1, <2>3, CallKinds DEF Ways, Current
<1> QED
  BY <1>1, <1>2, <1>3, <1>4, <1>5, <1>6

LEMMA WaysOfBackground ==
  ASSUME TypeOK, Ways, StopsLoop \/ WaitsForThread \/ PostsDestroy
  PROVE  Ways'
<1>1. CASE StopsLoop
  <2>1. /\ UNCHANGED <<bar, tabs, call, running, removals, thread>>
        /\ removals # <<>> /\ stopping' = "waits"
    BY <1>1 DEF StopsLoop
  <2> QED
    BY <2>1 DEF Ways, Current
<1>2. CASE WaitsForThread
  <2>1. /\ UNCHANGED <<bar, tabs, call, running, removals>>
        /\ stopping = "waits"
        /\ thread' = [t \in Ids |-> IF t = removals[1] THEN "none" ELSE thread[t]]
    BY <1>2 DEF WaitsForThread
  <2>2. \A t \in Ids : /\ thread[t] = "none" => thread'[t] = "none"
                       /\ Current(t) => thread'[t] = "none"
    BY <2>1 DEF Current
  <2> QED
    BY <2>1, <2>2 DEF Ways, Current
<1>3. CASE PostsDestroy
  <2>1. /\ UNCHANGED <<bar, tabs, running, thread>>
        /\ stopping = "stopped" /\ stopping' = "no"
        /\ call = Nothing /\ call' = Destroy(removals[1])
        /\ removals' = Tail(removals)
    BY <1>3 DEF PostsDestroy, Post, schedulers
  <2>2. /\ removals # <<>> /\ removals \in Seq(Some) /\ Once(removals)
    BY <2>1 DEF Ways, TypeOK, Some
  <2>3. /\ Once(removals')
        /\ \A t : Waits(t, removals') => Waits(t, removals)
        /\ removals[1] \in Ids => ~ Waits(removals[1], removals')
        /\ Waits(removals[1], removals)
    BY <2>1, <2>2, TailWaits, TailIs DEF Waits
  <2>4. \A t \in Ids : call' = Destroy(t) =>
          /\ t = removals[1] /\ thread[t] = "none" /\ t \in tabs \ bar
          /\ ~ Waits(t, removals') /\ running # Destroy(t)
    BY <2>1, <2>2, <2>3, CallKinds DEF Ways, Current
  <2> QED
    BY <2>1, <2>3, <2>4 DEF Ways
<1> QED
  BY <1>1, <1>2, <1>3

LEMMA WaysStep == ASSUME IInv, Next PROVE Ways'
BY WaysOfOthers, WaysOfQt, WaysOfBackground, NextKinds DEF IInv, Kinds
-----------------------------------------------------------------------------
(* Threads and tabs.                                                       *)

LEMMA ThreadsInit == Init => Serves /\ Safe
BY DEF Init, Serves, Safe, TabOutlivesItsThread, TabOnBarIsServed

\* Steps that leave the threads alone and take no tab with a thread.
LEMMA ThreadsKept ==
  ASSUME Serves, Safe, UNCHANGED <<thread, loop>>,
         bar' \subseteq bar, tabs' \subseteq tabs,
         \A t \in tabs \ tabs' : thread[t] = "none",
         \A t \in Ids : work'[t] >= work[t] /\ work[t] \in Nat /\ work'[t] \in Nat
  PROVE  Serves' /\ Safe'
BY DEF Serves, Safe, TabOutlivesItsThread, TabOnBarIsServed

LEMMA ThreadsStep == ASSUME IInv, Next PROVE Serves' /\ Safe'
<1> USE DEF IInv
<1>1. \A t \in Ids : work[t] \in Nat
  BY TabsAssumption DEF TypeOK
<1>2. CASE Posts \/ ClosesTabsToRight \/ TakesCall \/ Removes \/ Asks \/ PostsDestroy
  <2>1. /\ UNCHANGED <<tabs, thread, loop, work>> /\ bar' \subseteq bar
    BY <1>2 DEF Posts, ClosesTabsToRight, TakesCall, Removes, Asks, PostsDestroy,
       RemoveTabs, RemoveNothing, schedulers
  <2> QED
    BY <1>1, <2>1, ThreadsKept
<1>3. CASE SendToTab
  <2>1. PICK t \in bar : work' = [work EXCEPT ![t] = @ + 1]
    BY <1>3 DEF SendToTab
  <2>2. \A u \in Ids : work'[u] >= work[u] /\ work'[u] \in Nat
    BY <1>1, <2>1 DEF TypeOK
  <2>3. UNCHANGED <<bar, tabs, thread, loop>>
    BY <1>3 DEF SendToTab
  <2> QED
    BY <1>1, <2>2, <2>3, ThreadsKept
<1>4. CASE Inserts
  <2>1. PICK t \in Ids :
          /\ t \notin tabs /\ bar' = bar \cup {t} /\ tabs' = tabs \cup {t}
          /\ thread' = [thread EXCEPT ![t] = "started"]
          /\ work' = [work EXCEPT ![t] = 1] /\ loop' = loop
    BY <1>4, NewTab
  <2>2. \A u \in Ids : u # t => thread'[u] = thread[u] /\ work'[u] = work[u]
    BY <2>1 DEF TypeOK
  <2>3. thread'[t] = "started"
    BY <2>1 DEF TypeOK
  <2> QED
    BY <2>1, <2>2, <2>3 DEF Serves, Safe, TabOutlivesItsThread, TabOnBarIsServed, TypeOK
<1>5. CASE Destroying
  <2>1. /\ UNCHANGED <<bar, thread, loop, work>> /\ tabs' = tabs \ {running.tab}
    BY <1>5 DEF Destroying, DestroyTab, schedulers
  <2>2. running = Destroy(running.tab)
    BY <1>5, Destroys DEF Destroying, TypeOK
  <2>3. \A t \in tabs \ tabs' : thread[t] = "none"
    BY <2>1, <2>2 DEF Ways, TypeOK
  <2> QED
    BY <1>1, <2>1, <2>3, ThreadsKept
<1>6. CASE StopsLoop \/ WaitsForThread
  <2>1. removals # <<>> /\ UNCHANGED <<bar, tabs>>
    BY <1>6 DEF StopsLoop, WaitsForThread, Ways
  <2>2. removals[1] \notin bar
    BY <2>1, TailIs DEF Ways, Waits, TypeOK, Some
  <2>3. CASE StopsLoop
    <3>1. /\ UNCHANGED <<thread, work>>
          /\ \A t \in Ids : t # removals[1] => loop'[t] = loop[t]
      BY <2>3 DEF StopsLoop
    <3> QED
      BY <2>1, <2>2, <3>1 DEF Serves, Safe, TabOutlivesItsThread, TabOnBarIsServed, TypeOK
  <2>4. CASE WaitsForThread
    <3>1. /\ loop' = loop
          /\ \A t \in Ids : t # removals[1] => thread'[t] = thread[t] /\ work'[t] = work[t]
          /\ \A t \in Ids : t = removals[1] => thread'[t] = "none"
      BY <2>4 DEF WaitsForThread
    <3> QED
      BY <2>1, <2>2, <3>1 DEF Serves, Safe, TabOutlivesItsThread, TabOnBarIsServed, TypeOK
  <2> QED
    BY <1>6, <2>3, <2>4
<1>7. ASSUME NEW t \in Ids, TabThread(t) PROVE Serves' /\ Safe'
  <2>1. UNCHANGED <<bar, tabs>> /\ thread[t] # "none"
    BY <1>7 DEF TabThread, ThreadStarts, TaskBegins, TaskEnds, ThreadEnds
  <2>2. /\ \A u \in Ids : u # t => /\ thread'[u] = thread[u] /\ loop'[u] = loop[u]
                                  /\ work'[u] = work[u]
    BY <1>7 DEF TabThread, ThreadStarts, TaskBegins, TaskEnds, ThreadEnds, TypeOK
  <2>3. CASE ThreadStarts(t)
    <3>1. thread'[t] = "idle" /\ loop'[t] = TRUE
      BY <2>3 DEF ThreadStarts, TypeOK
    <3> QED
      BY <2>1, <2>2, <3>1 DEF Serves, Safe, TabOutlivesItsThread, TabOnBarIsServed, TypeOK
  <2>4. CASE TaskBegins(t)
    <3>1. thread'[t] = "busy" /\ work'[t] > 0 /\ loop'[t]
      BY <2>4 DEF TaskBegins, TypeOK
    <3> QED
      BY <2>1, <2>2, <3>1 DEF Serves, Safe, TabOutlivesItsThread, TabOnBarIsServed, TypeOK
  <2>5. CASE TaskEnds(t)
    <3>1. thread[t] = "busy" /\ thread'[t] = "idle" /\ loop' = loop
      BY <2>5 DEF TaskEnds, TypeOK
    <3> QED
      BY <2>1, <2>2, <3>1 DEF Serves, Safe, TabOutlivesItsThread, TabOnBarIsServed, TypeOK
  <2>6. CASE ThreadEnds(t)
    <3>1. thread[t] = "idle" /\ ~ loop[t] /\ thread'[t] = "ended"
      BY <2>6 DEF ThreadEnds, TypeOK
    <3>2. t \notin bar
      BY <3>1 DEF Serves
    <3> QED
      BY <2>1, <2>2, <3>1, <3>2 DEF Serves, Safe, TabOutlivesItsThread, TabOnBarIsServed,
         TypeOK
  <2> QED
    BY <1>7, <2>3, <2>4, <2>5, <2>6 DEF TabThread
<1> QED
  BY <1>2, <1>3, <1>4, <1>5, <1>6, <1>7, NextKinds DEF Kinds
-----------------------------------------------------------------------------
(* The theorems.                                                           *)

LEMMA InvInit == Init => IInv
<1> SUFFICES ASSUME Init PROVE IInv
  OBVIOUS
<1>1. Fits
  <2>1. tabs = {} /\ call = Nothing /\ running = Nothing
    BY DEF Init
  <2> QED
    BY <2>1, OpeningIs, CallKinds, FS_EmptySet, TabsAssumption DEF Fits
<1> QED
  BY <1>1, TypeInit, WaysInit, ThreadsInit DEF IInv

LEMMA InvStep == IInv /\ [Next]_vars => IInv'
<1>1. ASSUME IInv, Next PROVE IInv'
  <2>1. Fits'
    BY <1>1, FitsStep DEF IInv
  <2> QED
    BY <1>1, <2>1, TypeStep, WaysStep, ThreadsStep DEF IInv
<1>2. ASSUME IInv, UNCHANGED vars PROVE IInv'
  <2>1. /\ UNCHANGED <<bar, tabs, creating, loaded, messages, app, call, running>>
        /\ UNCHANGED <<removals, stopping, thread, loop, work>>
    BY <1>2 DEF vars
  <2>2. TypeOK'
    BY <1>2, <2>1 DEF IInv, TypeOK
  <2>3. Fits'
    BY <1>2, <2>1, OpeningIs DEF IInv, Fits
  <2>4. Ways'
    BY <1>2, <2>1, WaysKept DEF IInv
  <2>5. Serves' /\ Safe'
    BY <1>2, <2>1 DEF IInv, Serves, Safe, TabOutlivesItsThread, TabOnBarIsServed
  <2> QED
    BY <2>2, <2>3, <2>4, <2>5 DEF IInv
<1> QED
  BY <1>1, <1>2

\* The variables keep their types: there is always a free number for a tab that is
\* inserted, and a scheduler's count of messages stays within 0..MaxWork.
THEOREM TypeCorrect == Spec => []TypeOK
<1>1. IInv => TypeOK
  BY DEF IInv
<1> QED
  BY <1>1, InvInit, InvStep, PTL DEF Spec

\* The invariant the theorems below follow from.  A thread without a tab can only
\* be excluded with Ways: the tab that is destroyed is one whose scheduler was
\* stopped (TabsController::removeTab), and it is destroyed once.
THEOREM Invariant == Spec => []IInv
BY InvInit, InvStep, PTL DEF Spec

\* No tab is destroyed under its thread, however the four threads interleave and
\* even when a tab is closed before its thread runs.
THEOREM TabOutlives == Spec => []TabOutlivesItsThread
<1>1. IInv => TabOutlivesItsThread
  BY DEF IInv, Safe
<1> QED
  BY <1>1, Invariant, PTL

\* What is sent to a tab on the bar finds its handlers: the tab is there, and the
\* thread of its scheduler has not ended (QtTabsView::removeTab).
THEOREM TabServed == Spec => []TabOnBarIsServed
<1>1. IInv => TabOnBarIsServed
  BY DEF IInv, Safe
<1> QED
  BY <1>1, Invariant, PTL

-----------------------------------------------------------------------------
(* UndoRedo.  Positions counted from the front and from the back.          *)

\* When of any two elements one lies behind the other, every number of elements
\* lies behind some element.
LEMMA Places ==
  ASSUME NEW S, IsFiniteSet(S), NEW behind \in [S -> SUBSET S],
         \A i \in S : i \notin behind[i],
         \A i, k \in S : \/ i = k
                         \/ i \in behind[k] /\ behind[i] \subseteq behind[k]
                         \/ k \in behind[i] /\ behind[k] \subseteq behind[i]
  PROVE  \A n \in 1 .. Cardinality(S) : \E i \in S : Cardinality(behind[i]) = n - 1
<1> DEFINE r == [i \in S |-> Cardinality(behind[i])]
           C == Cardinality(S)
<1>1. C \in Nat
  BY FS_CardinalityType
<1>2. \A i \in S : /\ behind[i] \in SUBSET S /\ IsFiniteSet(behind[i])
                   /\ Cardinality(behind[i]) \in Nat
  <2> TAKE i \in S
  <2>1. behind[i] \in SUBSET S
    OBVIOUS
  <2> QED
    BY <2>1, FS_Subset, FS_CardinalityType
<1>3. ASSUME NEW i \in S, NEW k \in S, i \in behind[k], behind[i] \subseteq behind[k]
      PROVE  r[i] # r[k]
  <2>1. behind[i] # behind[k]
    BY <1>3
  <2>2. Cardinality(behind[i]) # Cardinality(behind[k])
    BY <1>2, <1>3, <2>1, FS_Subset
  <2> QED
    BY <2>2
<1>4. \A i \in S : r[i] \in 0 .. C - 1
  <2> TAKE i \in S
  <2>1. behind[i] \in SUBSET S /\ behind[i] # S
    BY <1>2
  <2>2. Cardinality(behind[i]) <= C /\ Cardinality(behind[i]) # C
    BY <2>1, FS_Subset
  <2> QED
    BY <1>1, <1>2, <2>2
<1>5. r \in Injection(S, 0 .. C - 1)
  <2>1. r \in [S -> 0 .. C - 1]
    BY <1>4
  <2>2. \A i, k \in S : r[i] = r[k] => i = k
    BY <1>3
  <2> HIDE DEF r
  <2> QED
    BY <2>1, <2>2 DEF Injection, IsInjective
<1>6. IsFiniteSet(0 .. C - 1) /\ Cardinality(0 .. C - 1) = C
  BY <1>1, FS_Interval
<1>7. r \in Surjection(S, 0 .. C - 1)
  BY <1>5, <1>6, FS_Injection
<1>8. \A n \in 0 .. C - 1 : \E i \in S : r[i] = n
  BY <1>7 DEF Surjection
<1>9. \A n \in 1 .. C : n - 1 \in 0 .. C - 1
  BY <1>1
<1> QED
  BY <1>8, <1>9

\* Finitely many positions: each place in their order is taken, counted from the
\* front and from the back.
LEMMA Ranks ==
  ASSUME NEW m \in Nat, NEW S \in SUBSET (1 .. m)
  PROVE  /\ IsFiniteSet(S) /\ Cardinality(S) \in Nat
         /\ \A n \in 1 .. Cardinality(S) :
              /\ \E i \in S : Cardinality({j \in S : j < i}) = n - 1
              /\ \E i \in S : Cardinality({j \in S : j > i}) = n - 1
<1> DEFINE below == [i \in S |-> {j \in S : j < i}]
           above == [i \in S |-> {j \in S : j > i}]
<1>1. IsFiniteSet(S) /\ Cardinality(S) \in Nat
  <2>1. IsFiniteSet(1 .. m)
    BY FS_Interval
  <2>2. IsFiniteSet(S)
    BY <2>1, FS_Subset
  <2> QED
    BY <2>2, FS_CardinalityType
<1>2. \A i \in S : i \in Int
  OBVIOUS
<1>3. /\ below \in [S -> SUBSET S] /\ above \in [S -> SUBSET S]
      /\ \A i \in S : i \notin below[i] /\ i \notin above[i]
  BY <1>2
<1>4. \A i, k \in S :
        i < k => /\ i \in below[k] /\ below[i] \subseteq below[k]
                 /\ k \in above[i] /\ above[k] \subseteq above[i]
  <2> SUFFICES ASSUME NEW i \in S, NEW k \in S, i < k
               PROVE  /\ i \in below[k] /\ below[i] \subseteq below[k]
                      /\ k \in above[i] /\ above[k] \subseteq above[i]
    OBVIOUS
  <2>1. \A j \in S : (j < i => j < k) /\ (j > k => j > i)
    BY <1>2
  <2>2. below[i] \subseteq below[k]
    BY <2>1
  <2>3. above[k] \subseteq above[i]
    BY <2>1
  <2> QED
    BY <2>2, <2>3
<1>5. \A i, k \in S : i = k \/ i < k \/ k < i
  BY <1>2
<1>6. \A i \in S : below[i] = {j \in S : j < i} /\ above[i] = {j \in S : j > i}
  OBVIOUS
<1> HIDE DEF below, above
<1>7. \A n \in 1 .. Cardinality(S) : \E i \in S : Cardinality(below[i]) = n - 1
  <2>1. \A i, k \in S : \/ i = k
                        \/ i \in below[k] /\ below[i] \subseteq below[k]
                        \/ k \in below[i] /\ below[k] \subseteq below[i]
    BY <1>4, <1>5
  <2>2. \A i \in S : i \notin below[i]
    BY <1>3
  <2> QED
    BY <1>1, <1>3, <2>1, <2>2, Places
<1>8. \A n \in 1 .. Cardinality(S) : \E i \in S : Cardinality(above[i]) = n - 1
  <2>1. \A i, k \in S : \/ i = k
                        \/ i \in above[k] /\ above[i] \subseteq above[k]
                        \/ k \in above[i] /\ above[k] \subseteq above[i]
    BY <1>4, <1>5
  <2>2. \A i \in S : i \notin above[i]
    BY <1>3
  <2> QED
    BY <1>1, <1>3, <2>1, <2>2, Places
<1> QED
  BY <1>1, <1>6, <1>7, <1>8

\* There is a first and a last one.
LEMMA FirstIn ==
  ASSUME NEW m \in Nat, NEW S \in SUBSET (1 .. m), S # {}
  PROVE  /\ \E i \in S : \A j \in S : i <= j
         /\ \E i \in S : \A j \in S : j <= i
<1> DEFINE Below(i) == {j \in S : j < i}
           Above(i) == {j \in S : j > i}
<1>1. IsFiniteSet(S) /\ Cardinality(S) \in Nat
  BY Ranks
<1>2. Cardinality(S) # 0
  BY <1>1, FS_EmptySet
<1>3. 1 \in 1 .. Cardinality(S)
  BY <1>1, <1>2
<1>4. PICK i \in S : Cardinality(Below(i)) = 1 - 1
  BY <1>3, Ranks
<1>5. PICK k \in S : Cardinality(Above(k)) = 1 - 1
  BY <1>3, Ranks
<1>6. IsFiniteSet(Below(i)) /\ IsFiniteSet(Above(k))
  BY <1>1, FS_Subset
<1>7. Below(i) = {} /\ Above(k) = {}
  BY <1>4, <1>5, <1>6, FS_EmptySet
<1> QED
  BY <1>7

\* Selecting keeps the order, and what is selected.
LEMMA SelectedIs ==
  ASSUME NEW T, NEW s \in Seq(T), NEW some \in SUBSET (1 .. Len(s))
  PROVE  /\ Selected(s, some) \in Seq(T)
         /\ Len(Selected(s, some)) = Cardinality(some)
         /\ \A n \in 1 .. Cardinality(some) : \E i \in some : Selected(s, some)[n] = s[i]
         /\ 1 \in some => Selected(s, some) # <<>> /\ Selected(s, some)[1] = s[1]
<1> DEFINE C == Cardinality(some)
           Below(i) == {j \in some : j < i}
           nth == [n \in 1 .. C |-> CHOOSE i \in some : Cardinality(Below(i)) = n - 1]
           t == [n \in 1 .. C |-> s[nth[n]]]
<1>1. Len(s) \in Nat /\ \A i \in 1 .. Len(s) : s[i] \in T
  OBVIOUS
<1>2. C \in Nat /\ IsFiniteSet(some)
  BY <1>1, Ranks
<1>3. \A n \in 1 .. C : \E i \in some : Cardinality(Below(i)) = n - 1
  BY <1>1, Ranks
<1>4. Selected(s, some) = t
  BY DEF Selected
<1>5. \A i \in some : IsFiniteSet(Below(i)) /\ (1 \in some /\ Below(i) = {} => i = 1)
  BY <1>1, <1>2, FS_Subset
<1> HIDE DEF Below
<1>6. \A n \in 1 .. C : nth[n] \in some /\ Cardinality(Below(nth[n])) = n - 1
  BY <1>3
<1> HIDE DEF nth
<1>7. \A n \in 1 .. C : t[n] = s[nth[n]] /\ t[n] \in T
  BY <1>1, <1>6
<1>8. t \in Seq(T) /\ Len(t) = C
  <2>1. t \in [1 .. C -> T]
    BY <1>7
  <2>2. DOMAIN t = 1 .. C
    OBVIOUS
  <2> HIDE DEF t
  <2> QED
    BY <1>2, <2>1, <2>2
<1> HIDE DEF t
<1>9. ASSUME 1 \in some PROVE t # <<>> /\ t[1] = s[1]
  <2>1. C # 0
    BY <1>2, <1>9, FS_EmptySet
  <2>2. 1 \in 1 .. C
    BY <1>2, <2>1
  <2>3. nth[1] \in some /\ Cardinality(Below(nth[1])) = 0
    BY <1>6, <2>2
  <2>4. Below(nth[1]) = {}
    BY <1>5, <2>3, FS_EmptySet
  <2>5. nth[1] = 1
    BY <1>5, <1>9, <2>3, <2>4
  <2> QED
    BY <1>7, <1>8, <2>1, <2>2, <2>5
<1>10. \A n \in 1 .. C : \E i \in some : t[n] = s[i]
  BY <1>6, <1>7
<1> QED
  BY <1>4, <1>8, <1>9, <1>10
-----------------------------------------------------------------------------
(* The shape of the state.                                                 *)

Queued == [is : {"command"}, command : Command, replayed : BOOLEAN]
            \cup [is : {"undo", "redo", "finished"}]
            \cup [is : {"position"}, index : Nat]
            \cup [is : {"refresh"}, after : BOOLEAN]

Shape ==
  /\ HistoryTypeOK
  /\ menu \in [entries : Seq(Command), current : Int]
  /\ queue \in Seq(Queued)
  /\ indexing \in BOOLEAN
  /\ refreshes \subseteq BOOLEAN
  /\ told \in Seq(Command)

\* A command has one kind.
LEMMA HistoryKinds ==
  ASSUME NEW c \in Command
  PROVE  /\ IsActivation(c) => ~ IsView(c) /\ c.kind \notin Adapting
         /\ ~ IsActivation(c) /\ ~ IsView(c) => c.kind \in Adapting
         /\ c.kind \in Overwriting => IsView(c)
BY DEF Command, AllKinds, Activating, Adapting, Viewing, IsActivation, IsView,
       Overwriting

\* A kind that is a type of message by itself.
LEMMA TypeIsKind ==
  ASSUME NEW k, NEW d, MessageType(k) = MessageType(d),
         d \notin {"tokens", "edge", "bundle", "trail", "customTrail", "viewMode", "fileView"}
  PROVE  k = d
<1>1. MessageType(d) = d
  BY DEF MessageType
<1>2. \/ MessageType(k) = "tokens" \/ MessageType(k) = "trail"
      \/ MessageType(k) = "fileView" \/ MessageType(k) = k
  BY DEF MessageType
<1> QED
  BY <1>1, <1>2

\* What the searches in the list find.
LEMMA NextActivationIs ==
  ASSUME list \in Seq(Command), NEW i \in 1 .. End
  PROVE  /\ NextActivation(i) \in i .. End
         /\ NextActivation(i) # End => IsActivation(list[NextActivation(i)])
         /\ \A k \in i .. NextActivation(i) - 1 : ~ IsActivation(list[k])
<1> DEFINE S == {j \in i .. Len(list) : IsActivation(list[j])}
<1>1. Len(list) \in Nat /\ End = Len(list) + 1
  BY DEF End
<1>2. CASE S = {}
  BY <1>1, <1>2 DEF NextActivation
<1>3. CASE S # {}
  <2>1. S \in SUBSET (1 .. Len(list))
    BY <1>1
  <2>2. PICK j \in S : \A k \in S : j <= k
    BY <1>1, <1>3, <2>1, FirstIn
  <2>3. /\ j \in i .. Len(list) /\ IsActivation(list[j])
        /\ \A k \in i .. j - 1 : ~ IsActivation(list[k])
    BY <1>1, <2>2
  <2> DEFINE z == CHOOSE x \in i .. Len(list) :
                    IsActivation(list[x]) /\ \A k \in i .. x - 1 : ~ IsActivation(list[k])
  <2>4. /\ z \in i .. Len(list) /\ IsActivation(list[z])
        /\ \A k \in i .. z - 1 : ~ IsActivation(list[k])
    BY <2>3
  <2>5. NextActivation(i) = z
    BY <2>3 DEF NextActivation
  <2> HIDE DEF z
  <2> QED
    BY <1>1, <2>4, <2>5
<1> QED
  BY <1>2, <1>3

\* The first step at or behind a position.
LEMMA NextStepIs ==
  ASSUME list \in Seq(Command), NEW i \in 1 .. End
  PROVE  /\ NextStep(i) \in i .. End
         /\ NextStep(i) # End => ~ IsView(list[NextStep(i)])
         /\ \A k \in i .. NextStep(i) - 1 : IsView(list[k])
<1> DEFINE S == {j \in i .. Len(list) : ~ IsView(list[j])}
<1>1. Len(list) \in Nat /\ End = Len(list) + 1
  BY DEF End
<1>2. CASE S = {}
  BY <1>1, <1>2 DEF NextStep
<1>3. CASE S # {}
  <2>1. S \in SUBSET (1 .. Len(list))
    BY <1>1
  <2>2. PICK j \in S : \A k \in S : j <= k
    BY <1>1, <1>3, <2>1, FirstIn
  <2>3. /\ j \in i .. Len(list) /\ ~ IsView(list[j])
        /\ \A k \in i .. j - 1 : IsView(list[k])
    BY <1>1, <2>2
  <2> DEFINE z == CHOOSE x \in i .. Len(list) :
                    ~ IsView(list[x]) /\ \A k \in i .. x - 1 : IsView(list[k])
  <2>4. /\ z \in i .. Len(list) /\ ~ IsView(list[z])
        /\ \A k \in i .. z - 1 : IsView(list[k])
    BY <2>3
  <2>5. NextStep(i) = z
    BY <2>3 DEF NextStep
  <2> HIDE DEF z
  <2> QED
    BY <1>1, <2>4, <2>5
<1> QED
  BY <1>2, <1>3

\* The last step before it.
LEMMA PreviousStepIs ==
  ASSUME list \in Seq(Command), NEW i \in 1 .. End
  PROVE  /\ PreviousStep(i) \in 0 .. i - 1
         /\ PreviousStep(i) # 0 => ~ IsView(list[PreviousStep(i)])
         /\ \A k \in PreviousStep(i) + 1 .. i - 1 : IsView(list[k])
<1> DEFINE S == {j \in 1 .. i - 1 : ~ IsView(list[j])}
<1>1. Len(list) \in Nat /\ End = Len(list) + 1
  BY DEF End
<1>2. CASE S = {}
  BY <1>1, <1>2 DEF PreviousStep
<1>3. CASE S # {}
  <2>1. S \in SUBSET (1 .. Len(list))
    BY <1>1
  <2>2. PICK j \in S : \A k \in S : k <= j
    BY <1>1, <1>3, <2>1, FirstIn
  <2>3. /\ j \in 1 .. i - 1 /\ ~ IsView(list[j])
        /\ \A k \in j + 1 .. i - 1 : IsView(list[k])
    BY <1>1, <2>2
  <2> DEFINE z == CHOOSE x \in 1 .. i - 1 :
                    ~ IsView(list[x]) /\ \A k \in x + 1 .. i - 1 : IsView(list[k])
  <2>4. /\ z \in 1 .. i - 1 /\ ~ IsView(list[z])
        /\ \A k \in z + 1 .. i - 1 : IsView(list[k])
    BY <2>3
  <2>5. PreviousStep(i) = z
    BY <2>3 DEF PreviousStep
  <2> HIDE DEF z
  <2> QED
    BY <1>1, <2>4, <2>5
<1> QED
  BY <1>2, <1>3

\* The last activation before it.
LEMMA LastActivationIs ==
  ASSUME list \in Seq(Command), NEW i \in 1 .. End
  PROVE  /\ LastActivation(i) \in 1 .. i
         /\ \/ LastActivation(i) < i /\ IsActivation(list[LastActivation(i)])
            \/ LastActivation(i) = 1 /\ \A k \in 1 .. i - 1 : ~ IsActivation(list[k])
         /\ \A k \in LastActivation(i) + 1 .. i - 1 : ~ IsActivation(list[k])
<1> DEFINE S == {j \in 1 .. i - 1 : IsActivation(list[j])}
<1>1. Len(list) \in Nat /\ End = Len(list) + 1
  BY DEF End
<1>2. CASE S = {}
  BY <1>1, <1>2 DEF LastActivation
<1>3. CASE S # {}
  <2>1. S \in SUBSET (1 .. Len(list))
    BY <1>1
  <2>2. PICK j \in S : \A k \in S : k <= j
    BY <1>1, <1>3, <2>1, FirstIn
  <2>3. /\ j \in 1 .. i - 1 /\ IsActivation(list[j])
        /\ \A k \in j + 1 .. i - 1 : ~ IsActivation(list[k])
    BY <1>1, <2>2
  <2> DEFINE z == CHOOSE x \in 1 .. i - 1 :
                    IsActivation(list[x]) /\ \A k \in x + 1 .. i - 1 : ~ IsActivation(list[k])
  <2>4. /\ z \in 1 .. i - 1 /\ IsActivation(list[z])
        /\ \A k \in z + 1 .. i - 1 : ~ IsActivation(list[k])
    BY <2>3
  <2>5. LastActivation(i) = z
    BY <2>3 DEF LastActivation
  <2> HIDE DEF z
  <2> QED
    BY <1>1, <2>4, <2>5
<1> QED
  BY <1>2, <1>3

\* Back and forward: TypeOK is all they need, since the iterator never stands in
\* front of a mere view.
LEMMA StepsAgree == HistoryTypeOK => BackAndForthAgree
<1> SUFFICES ASSUME HistoryTypeOK, list # <<>> PROVE
      /\ UndoTarget > 1 => NextStep(UndoTarget + 1) = iter
      /\ iter < End => PreviousStep(RedoTarget) = iter
  BY DEF BackAndForthAgree
<1>1. Len(list) \in Nat /\ End = Len(list) + 1 /\ list \in Seq(Command) /\ iter \in 1 .. End
  BY DEF End, HistoryTypeOK
<1>2. iter < End => ~ IsView(list[iter])
  BY DEF HistoryTypeOK
<1>3. ASSUME UndoTarget > 1 PROVE NextStep(UndoTarget + 1) = iter
  <2> DEFINE p == PreviousStep(iter)
  <2>1. /\ p \in 0 .. iter - 1 /\ p > 1
        /\ \A k \in p + 1 .. iter - 1 : IsView(list[k])
    BY <1>1, <1>3, PreviousStepIs DEF UndoTarget
  <2> HIDE DEF p
  <2>2. p + 1 \in 1 .. End
    BY <1>1, <2>1
  <2>3. /\ NextStep(p + 1) \in p + 1 .. End
        /\ NextStep(p + 1) # End => ~ IsView(list[NextStep(p + 1)])
        /\ \A k \in p + 1 .. NextStep(p + 1) - 1 : IsView(list[k])
    BY <1>1, <2>2, NextStepIs
  <2>4. ~ NextStep(p + 1) < iter
    BY <1>1, <2>1, <2>3
  <2>5. ~ NextStep(p + 1) > iter
    BY <1>1, <1>2, <2>1, <2>3
  <2> QED
    BY <1>1, <2>1, <2>3, <2>4, <2>5 DEF UndoTarget, p
<1>4. ASSUME iter < End PROVE PreviousStep(RedoTarget) = iter
  <2> DEFINE q == NextStep(iter + 1)
  <2>1. iter + 1 \in 1 .. End
    BY <1>1, <1>4
  <2>2. q \in iter + 1 .. End /\ \A k \in iter + 1 .. q - 1 : IsView(list[k])
    BY <1>1, <2>1, NextStepIs
  <2> HIDE DEF q
  <2>3. q \in 1 .. End
    BY <1>1, <2>2
  <2>4. /\ PreviousStep(q) \in 0 .. q - 1
        /\ PreviousStep(q) # 0 => ~ IsView(list[PreviousStep(q)])
        /\ \A k \in PreviousStep(q) + 1 .. q - 1 : IsView(list[k])
    BY <1>1, <2>3, PreviousStepIs
  <2>5. ~ PreviousStep(q) > iter
    BY <1>1, <2>2, <2>4
  <2>6. ~ PreviousStep(q) < iter
    BY <1>1, <1>2, <1>4, <2>2, <2>4
  <2> QED
    BY <1>1, <2>2, <2>4, <2>5, <2>6 DEF RedoTarget, q
<1> QED
  BY <1>3, <1>4

\* What the helpers return.
LEMMA CondensedIs ==
  ASSUME NEW s \in Seq(Command)
  PROVE  Condensed(s) \in Seq(Command)
<1> DEFINE some == {i \in DOMAIN s : ~ Replaced(s, i)}
<1>1. some \in SUBSET (1 .. Len(s))
  OBVIOUS
<1>2. Condensed(s) = Selected(s, some)
  BY DEF Condensed
<1> HIDE DEF some
<1> QED
  BY <1>1, <1>2, SelectedIs

Acts(l) == {i \in DOMAIN l : IsActivation(l[i])}
Above(l, i) == {j \in Acts(l) : j > i}

\* The activations of a list.
LEMMA ActsAre ==
  ASSUME NEW l \in Seq(Command)
  PROVE  /\ Len(l) \in Nat /\ Acts(l) \in SUBSET (1 .. Len(l))
         /\ IsFiniteSet(Acts(l)) /\ Cardinality(Acts(l)) \in Nat
         /\ \A i : /\ Above(l, i) \in SUBSET Acts(l) /\ IsFiniteSet(Above(l, i))
                   /\ Cardinality(Above(l, i)) \in Nat
<1>1. Len(l) \in Nat /\ Acts(l) \in SUBSET (1 .. Len(l))
  BY DEF Acts
<1>2. IsFiniteSet(Acts(l)) /\ Cardinality(Acts(l)) \in Nat
  BY <1>1, Ranks
<1>3. \A i : Above(l, i) \in SUBSET Acts(l)
  BY DEF Above
<1> QED
  BY <1>1, <1>2, <1>3, FS_Subset, FS_CardinalityType

\* The activations that the menu can list.
Names(l) == {i \in Acts(l) : HasName(l[i])}
Higher(S, i) == {j \in S : j > i}

\* The last first: as many as there are positions, each with its rank.
LEMMA FallingIs ==
  ASSUME NEW m \in Nat, NEW S \in SUBSET (1 .. m)
  PROVE  /\ Falling(S) \in Seq(1 .. m) /\ Len(Falling(S)) = Cardinality(S)
         /\ Len(Falling(S)) \in Nat /\ DOMAIN Falling(S) = 1 .. Len(Falling(S))
         /\ \A n \in 1 .. Len(Falling(S)) :
              /\ Falling(S)[n] \in S
              /\ Cardinality(Higher(S, Falling(S)[n])) = n - 1
<1> DEFINE C == Cardinality(S)
           t == [n \in 1 .. C |-> CHOOSE i \in S : Cardinality(Higher(S, i)) = n - 1]
<1>1. C \in Nat
  BY Ranks
<1>2. \A n \in 1 .. C : \E i \in S : Cardinality(Higher(S, i)) = n - 1
  <2>1. \A n \in 1 .. C : \E i \in S : Cardinality({j \in S : j > i}) = n - 1
    BY Ranks
  <2> QED
    BY <2>1 DEF Higher
<1>3. Falling(S) = t
  BY DEF Falling, Higher
<1>4. \A n \in 1 .. C : t[n] \in S /\ Cardinality(Higher(S, t[n])) = n - 1
  BY <1>2
<1>5. t \in [1 .. C -> 1 .. m] /\ DOMAIN t = 1 .. C
  BY <1>4
<1> HIDE DEF t
<1>6. t \in Seq(1 .. m) /\ Len(t) = C
  BY <1>1, <1>5
<1> QED
  BY <1>1, <1>3, <1>4, <1>5, <1>6

\* The newest first: as many as there are activations, each with its rank.
LEMMA NewestIs ==
  ASSUME NEW l \in Seq(Command)
  PROVE  /\ Newest(l) \in Seq(1 .. Len(l)) /\ Len(Newest(l)) = Cardinality(Acts(l))
         /\ Len(Newest(l)) \in Nat /\ DOMAIN Newest(l) = 1 .. Len(Newest(l))
         /\ \A n \in 1 .. Len(Newest(l)) :
              /\ Newest(l)[n] \in Acts(l)
              /\ Newest(l)[n] \in 1 .. Len(l) /\ IsActivation(l[Newest(l)[n]])
              /\ Cardinality(Above(l, Newest(l)[n])) = n - 1
<1>1. Len(l) \in Nat /\ Acts(l) \in SUBSET (1 .. Len(l))
  BY ActsAre
<1>2. Newest(l) = Falling(Acts(l))
  BY DEF Newest, Acts
<1>3. \A i : Above(l, i) = Higher(Acts(l), i)
  BY DEF Above, Higher
<1>4. \A i \in Acts(l) : i \in 1 .. Len(l) /\ IsActivation(l[i])
  BY DEF Acts
<1> QED
  BY <1>1, <1>2, <1>3, <1>4, FallingIs

\* So are those that are listed.
LEMMA NamedIs ==
  ASSUME NEW l \in Seq(Command)
  PROVE  /\ Len(l) \in Nat /\ Names(l) \in SUBSET (1 .. Len(l))
         /\ Names(l) \in SUBSET Acts(l)
         /\ Named(l) = Falling(Names(l))
         /\ Named(l) \in Seq(1 .. Len(l)) /\ Len(Named(l)) = Cardinality(Names(l))
         /\ Len(Named(l)) \in Nat /\ DOMAIN Named(l) = 1 .. Len(Named(l))
         /\ \A n \in 1 .. Len(Named(l)) : /\ Named(l)[n] \in Names(l)
                                          /\ Named(l)[n] \in 1 .. Len(l)
<1>1. Len(l) \in Nat /\ Acts(l) \in SUBSET (1 .. Len(l))
  BY ActsAre
<1>2. Names(l) \in SUBSET Acts(l) /\ Names(l) \in SUBSET (1 .. Len(l))
  BY <1>1 DEF Names
<1>3. Named(l) = Falling(Names(l))
  <2>1. {i \in DOMAIN l : IsActivation(l[i]) /\ HasName(l[i])} = Names(l)
    BY DEF Names, Acts
  <2> QED
    BY <2>1 DEF Named
<1>4. /\ Falling(Names(l)) \in Seq(1 .. Len(l))
      /\ Len(Falling(Names(l))) = Cardinality(Names(l))
      /\ Len(Falling(Names(l))) \in Nat
      /\ DOMAIN Falling(Names(l)) = 1 .. Len(Falling(Names(l)))
      /\ \A n \in 1 .. Len(Falling(Names(l))) : Falling(Names(l))[n] \in Names(l)
  BY <1>1, <1>2, FallingIs
<1>5. \A n \in 1 .. Len(Named(l)) : Named(l)[n] \in Names(l) /\ Named(l)[n] \in 1 .. Len(l)
  BY <1>2, <1>3, <1>4
<1> QED
  BY <1>1, <1>2, <1>3, <1>4, <1>5

\* The first of some numbers.
LEMMA FirstIs ==
  ASSUME NEW m \in Nat, NEW S \in SUBSET (1 .. m), S # {}
  PROVE  First(S) \in S /\ \A n \in S : First(S) <= n
<1>1. IsFiniteSet(S) /\ Cardinality(S) \in Nat /\ Cardinality(S) # 0
  BY Ranks, FS_EmptySet
<1>2. 1 \in 1 .. Cardinality(S)
  BY <1>1
<1>3. PICK i \in S : Cardinality({j \in S : j < i}) = 1 - 1
  BY <1>2, Ranks
<1>4. {j \in S : j < i} \in SUBSET (1 .. m)
  OBVIOUS
<1>5. IsFiniteSet({j \in S : j < i})
  BY <1>4, Ranks
<1>6. {j \in S : j < i} = {}
  BY <1>3, <1>5, FS_EmptySet
<1>7. \A j \in S : i <= j
  BY <1>6
<1> QED
  BY <1>7 DEF First

\* The window of the menu (updateHistory) over the activations of l when what is
\* shown ends before position at.
Ahead(l, at) == Cardinality({n \in DOMAIN Newest(l) : Newest(l)[n] >= at})
Full(l, at) ==
  {n \in DOMAIN Named(l) : n >= HistorySize /\ Named(l)[n] < at /\ n # Ahead(l, at) + 1}
Reached(l, at) == IF Full(l, at) = {} THEN Len(Named(l)) ELSE First(Full(l, at))
Skipped(l, at) == Most(0, Reached(l, at) - HistorySize)
Window(l, at) == [n \in 1 .. Reached(l, at) - Skipped(l, at) |->
                    l[Named(l)[Skipped(l, at) + n]]]

\* The menu m with offset o is that of l.
Shows(l, at, o, m) ==
  /\ o = Skipped(l, at)
  /\ m = [entries |-> Window(l, at), current |-> Ahead(l, at) - Skipped(l, at)]

\* What updateHistory draws is the menu of its list.
LEMMA ShowHistoryShows ==
  ASSUME NEW l, NEW at, ShowHistory(l, at)
  PROVE  Shows(l, at, offset', menu')
BY DEF ShowHistory, Shows, Window, Skipped, Reached, Full, Ahead

\* The bounds of the window: it is full if there are enough activations.
LEMMA WindowIs ==
  ASSUME NEW l \in Seq(Command), NEW at
  PROVE  /\ Len(Named(l)) \in Nat /\ Ahead(l, at) \in Nat
         /\ Reached(l, at) \in Nat /\ Skipped(l, at) \in Nat
         /\ Reached(l, at) <= Len(Named(l))
         /\ HistorySize <= Reached(l, at) \/ Reached(l, at) = Len(Named(l))
         /\ \/ Skipped(l, at) = 0 /\ Reached(l, at) <= HistorySize
            \/ Skipped(l, at) = Reached(l, at) - HistorySize
<1> DEFINE N == Len(Named(l))
           R == Reached(l, at)
<1>1. N \in Nat /\ DOMAIN Named(l) = 1 .. N
  BY NamedIs
<1>2. Ahead(l, at) \in Nat
  <2>1. Len(Newest(l)) \in Nat /\ DOMAIN Newest(l) = 1 .. Len(Newest(l))
    BY NewestIs
  <2>2. {n \in DOMAIN Newest(l) : Newest(l)[n] >= at} \in SUBSET (1 .. Len(Newest(l)))
    BY <2>1
  <2> QED
    BY <2>1, <2>2, Ranks DEF Ahead
<1>3. HistorySize \in Nat /\ HistorySize >= 2
  BY UndoRedoAssumption
<1>4. R \in Nat /\ R <= N /\ (HistorySize <= R \/ R = N)
  <2>1. CASE Full(l, at) = {}
    BY <1>1, <2>1 DEF Reached
  <2>2. CASE Full(l, at) # {}
    <3>1. Full(l, at) \in SUBSET (1 .. N)
      BY <1>1 DEF Full
    <3>2. R \in Full(l, at)
      BY <1>1, <2>2, <3>1, FirstIs DEF Reached
    <3>3. R \in 1 .. N
      BY <3>1, <3>2
    <3>4. R >= HistorySize
      BY <3>2 DEF Full
    <3> HIDE DEF N, R
    <3> QED
      BY <1>1, <1>3, <3>3, <3>4
  <2> QED
    BY <2>1, <2>2
<1>5. /\ Skipped(l, at) \in Nat
      /\ \/ Skipped(l, at) = 0 /\ Reached(l, at) <= HistorySize
         \/ Skipped(l, at) = Reached(l, at) - HistorySize
  BY <1>3, <1>4 DEF Skipped, Most
<1> QED
  BY <1>1, <1>2, <1>4, <1>5

\* The menu that is drawn lists commands.
LEMMA ShowHistoryIs ==
  ASSUME NEW l \in Seq(Command), NEW at \in Int, ShowHistory(l, at)
  PROVE  /\ offset' \in Nat
         /\ menu' \in [entries : Seq(Command), current : Int]
<1> DEFINE R == Reached(l, at)
           S == Skipped(l, at)
           shown == [n \in 1 .. R - S |-> l[Named(l)[S + n]]]
<1>1. /\ offset' = S
      /\ menu' = [entries |-> shown, current |-> Ahead(l, at) - S]
  BY ShowHistoryShows DEF Shows, Window
<1>2. /\ Ahead(l, at) \in Nat /\ R \in Nat /\ S \in Nat /\ R <= Len(Named(l))
      /\ Len(Named(l)) \in Nat
  BY WindowIs
<1>3. \A n \in 1 .. Len(Named(l)) : Named(l)[n] \in 1 .. Len(l)
  BY NamedIs
<1>4. R - S \in Nat
  <2>1. HistorySize \in Nat /\ (S = 0 \/ S = R - HistorySize)
    BY WindowIs, UndoRedoAssumption
  <2> QED
    BY <1>2, <2>1
<1> HIDE DEF R, S
<1>5. shown \in [1 .. R - S -> Command] /\ DOMAIN shown = 1 .. R - S
  <2> SUFFICES ASSUME NEW n \in 1 .. R - S PROVE l[Named(l)[S + n]] \in Command
    OBVIOUS
  <2>1. S + n \in 1 .. Len(Named(l))
    BY <1>2
  <2> QED
    BY <1>3, <2>1
<1> HIDE DEF shown
<1>6. shown \in Seq(Command)
  BY <1>4, <1>5
<1> QED
  BY <1>1, <1>2, <1>6

\* A replay puts messages behind those that wait.
LEMMA ReplayIs ==
  ASSUME list \in Seq(Command), NEW from \in 1 .. End, NEW to \in 1 .. End,
         NEW waiting \in Seq(Queued)
  PROVE  Replay(from, to, waiting) \in Seq(Queued)
<1> DEFINE stretch == Condensed(SubSeq(list, from, to - 1))
           t == [n \in DOMAIN stretch |-> Replayed(stretch[n])]
<1>1. Len(list) \in Nat /\ End = Len(list) + 1
  BY DEF End
<1>2. \A i \in from .. to - 1 : list[i] \in Command
  BY <1>1
<1>3. SubSeq(list, from, to - 1) \in Seq(Command)
  BY <1>1, <1>2, SubSeqProperties
<1>4. stretch \in Seq(Command)
  BY <1>3, CondensedIs
<1> HIDE DEF stretch
<1>5. \A c \in Command : Replayed(c) \in Queued
  BY DEF Replayed, Again, Queued, Command
<1>6. DOMAIN stretch = 1 .. Len(stretch) /\ Len(stretch) \in Nat
  BY <1>4
<1>7. t \in [1 .. Len(stretch) -> Queued] /\ DOMAIN t = 1 .. Len(stretch)
  BY <1>4, <1>5, <1>6
<1>8. Replay(from, to, waiting) = waiting \o t
  BY DEF Replay, stretch
<1> HIDE DEF t
<1>9. t \in Seq(Queued)
  BY <1>6, <1>7
<1> QED
  BY <1>8, <1>9, ConcatProperties

\* What the listeners were told stays a list of commands.
LEMMA ToldIs ==
  ASSUME told \in Seq(Command), NEW c \in Command
  PROVE  Told(c) \in Seq(Command)
<1> DEFINE s == Append(told, c)
           some == {i \in DOMAIN s : ~ Replaced(s, i) /\ ~ Repeated(s, i)}
<1>1. <<Unfiltered(c)>> \in Seq(Command)
  <2>1. Unfiltered(c) \in Command
    BY DEF Unfiltered, Command
  <2> QED
    BY <2>1
<1>2. <<>> \in Seq(Command) /\ s \in Seq(Command)
  OBVIOUS
<1> HIDE DEF s
<1>3. some \in SUBSET (1 .. Len(s))
  BY <1>2
<1>4. Settled(s) = Selected(s, some)
  BY DEF Settled
<1> HIDE DEF some
<1>5. Settled(s) \in Seq(Command)
  BY <1>2, <1>3, <1>4, SelectedIs
<1> QED
  BY <1>1, <1>2, <1>5 DEF Told, s

\* What waits is one of the messages a handler knows.
LEMMA QueuedIs ==
  ASSUME NEW m \in Queued
  PROVE  /\ m.is = "command" => m.command \in Command /\ m.replayed \in BOOLEAN
         /\ m.is = "position" => m.index \in Nat
         /\ m.is = "refresh" => m.after \in BOOLEAN
BY DEF Queued

\* The shape holds at first, and each step keeps it.
LEMMA ShapeInit == HistoryInit => Shape
<1> SUFFICES ASSUME HistoryInit PROVE Shape
  OBVIOUS
<1>1. <<>> \in Seq(Command) /\ <<>> \in Seq(Queued) /\ Len(<<>>) = 0
  OBVIOUS
<1>2. list = <<>> /\ iter = 1 /\ offset = 0 /\ undoOn \in BOOLEAN /\ redoOn \in BOOLEAN
  BY DEF HistoryInit
<1>3. End = 1
  BY <1>1, <1>2 DEF End
<1>4. HistoryTypeOK
  <2>1. iter \in 1 .. End /\ ~ iter < End
    BY <1>2, <1>3
  <2> QED
    BY <1>1, <1>2, <2>1 DEF HistoryTypeOK
<1>5. menu \in [entries : Seq(Command), current : Int]
  BY <1>1 DEF HistoryInit
<1> QED
  BY <1>1, <1>4, <1>5 DEF HistoryInit, Shape

\* The user.
LEMMA ActsShape == Shape /\ UserActs => Shape'
<1> SUFFICES ASSUME Shape, UserActs PROVE Shape'
  OBVIOUS
<1>1. \A c \in Inputs : Said(c) \in Queued
  BY UndoRedoAssumption DEF Said, Queued
<1>2. [is |-> "undo"] \in Queued /\ [is |-> "redo"] \in Queued
  BY DEF Queued
<1>3. \A n \in DOMAIN menu.entries : [is |-> "position", index |-> n - 1] \in Queued
  BY DEF Queued, Shape
<1>4. PICK m \in Queued : PushMessage(m)
  BY <1>1, <1>2, <1>3 DEF UserActs
<1>5. queue' \in Seq(Queued)
  BY <1>4, AppendProperties DEF PushMessage, Shape
<1> QED
  BY <1>4, <1>5 DEF PushMessage, Shape, HistoryTypeOK, End

\* Indexing, the Qt thread, another project.
LEMMA AroundShape ==
  Shape /\ (IndexingStarts \/ IndexingEnds \/ QtRefreshes \/ Clear) => Shape'
<1> SUFFICES ASSUME Shape, IndexingStarts \/ IndexingEnds \/ QtRefreshes \/ Clear
             PROVE  Shape'
  OBVIOUS
<1>1. [is |-> "finished"] \in Queued
      /\ \A b \in BOOLEAN : [is |-> "refresh", after |-> b] \in Queued
  BY DEF Queued
<1>2. CASE IndexingStarts
  BY <1>2 DEF IndexingStarts, Shape, HistoryTypeOK, End
<1>3. CASE IndexingEnds
  <2>1. queue' \in Seq(Queued)
    BY <1>1, <1>3, AppendProperties DEF IndexingEnds, Shape
  <2> QED
    BY <1>3, <2>1 DEF IndexingEnds, Shape, HistoryTypeOK, End
<1>4. CASE QtRefreshes
  <2>1. PICK b \in refreshes : queue' = Append(queue, [is |-> "refresh", after |-> b])
                               /\ refreshes' = refreshes \ {b}
    BY <1>4 DEF QtRefreshes
  <2>2. b \in BOOLEAN
    BY DEF Shape
  <2>3. queue' \in Seq(Queued)
    BY <1>1, <2>1, <2>2, AppendProperties DEF Shape
  <2> QED
    BY <1>4, <2>1, <2>3 DEF QtRefreshes, Shape, HistoryTypeOK, End
<1>5. CASE Clear
  <2>1. <<>> \in Seq(Command) /\ Len(<<>>) = 0
    OBVIOUS
  <2>2. HistoryTypeOK'
    <3>1. /\ list' = <<>> /\ iter' = 1 /\ offset' = 0
          /\ undoOn' \in BOOLEAN /\ redoOn' \in BOOLEAN
      BY <1>5 DEF Clear
    <3>2. End' = 1
      BY <2>1, <3>1 DEF End
    <3>3. iter' \in 1 .. End' /\ ~ iter' < End'
      BY <3>1, <3>2
    <3> QED
      BY <2>1, <3>1, <3>3 DEF HistoryTypeOK
  <2>3. menu' \in [entries : Seq(Command), current : Int] /\ told' \in Seq(Command)
    BY <1>5, <2>1 DEF Clear
  <2> QED
    BY <1>5, <2>2, <2>3 DEF Clear, Shape
<1> QED
  BY <1>2, <1>3, <1>4, <1>5

\* What the handler of a command makes of the list.
LEMMA RecordedShape ==
  ASSUME Shape, NEW c \in Command, HandleCommand(c)
  PROVE  HistoryTypeOK' /\ menu' \in [entries : Seq(Command), current : Int]
<1>1. /\ Len(list) \in Nat /\ End = Len(list) + 1 /\ list \in Seq(Command)
      /\ iter \in 1 .. End /\ offset \in Nat /\ undoOn \in BOOLEAN /\ redoOn \in BOOLEAN
      /\ menu \in [entries : Seq(Command), current : Int]
  BY DEF End, HistoryTypeOK, Shape
<1>2. /\ iter = 1 => list = <<>>
      /\ iter < End => ~ IsView(list[iter])
      /\ list # <<>> => IsActivation(list[1])
  BY DEF HistoryTypeOK, Shape
<1>3. CASE Overwrites(c)
  <2>1. /\ list' = [list EXCEPT ![iter - 1].value = c.value]
        /\ UNCHANGED <<iter, offset, menu, undoOn, redoOn>>
    BY <1>3 DEF HandleCommand
  <2>2. iter - 1 \in 1 .. Len(list)
    BY <1>1, <1>3 DEF Overwrites, SameMessageTypeAsLast
  <2> DEFINE old == list[iter - 1]
             e == [old EXCEPT !.value = c.value]
  <2>3. e \in Command /\ e.kind = old.kind
    <3>1. old \in Command
      BY <1>1, <2>2
    <3> HIDE DEF old
    <3>2. old \in [kind : AllKinds, value : Values \cup {"none"},
                  option : Options \cup {"none"}]
      BY <3>1 DEF Command
    <3>3. c.value \in Values \cup {"none"}
      BY DEF Command
    <3>4. e \in [kind : AllKinds, value : Values \cup {"none"}, option : Options \cup {"none"}]
          /\ e.kind = old.kind
      BY <3>2, <3>3
    <3> QED
      BY <3>4 DEF Command
  <2>4. list' = [list EXCEPT ![iter - 1] = e]
    BY <2>1
  <2> HIDE DEF e
  <2>5. /\ list' \in Seq(Command) /\ Len(list') = Len(list)
        /\ \A j \in 1 .. Len(list) : list'[j].kind = list[j].kind
    BY <1>1, <2>2, <2>3, <2>4, ExceptSeq
  <2>6. /\ iter < End => ~ IsView(list'[iter])
        /\ list' # <<>> => IsActivation(list'[1])
    BY <1>1, <1>2, <2>2, <2>5 DEF IsView, IsActivation
  <2>7. list # <<>> /\ iter # 1
    BY <1>1, <2>2
  <2> QED
    BY <1>1, <2>1, <2>5, <2>6, <2>7 DEF HistoryTypeOK, End
<1>4. CASE ~ Overwrites(c) /\ (Known(c) \/ (iter = 1 /\ ~ IsActivation(c)))
  BY <1>1, <1>2, <1>4 DEF HandleCommand, HistoryTypeOK, End
<1>5. CASE ~ Overwrites(c) /\ ~ (Known(c) \/ (iter = 1 /\ ~ IsActivation(c)))
  <2> DEFINE front == SubSeq(list, 1, iter - 1)
             k == Kept(c)
  <2>1. /\ list' = front \o <<c>> \o k
        /\ iter' = iter + 1
        /\ undoOn' = (undoOn \/ (~ IsView(c) /\ iter > 1))
        /\ redoOn' = (redoOn /\ StillAhead(c))
        /\ IF IsActivation(c) THEN ShowHistory(list', iter') ELSE UNCHANGED <<offset, menu>>
    BY <1>5 DEF HandleCommand
  <2>2. \A i \in 1 .. iter - 1 : list[i] \in Command
    BY <1>1
  <2>3. /\ front \in Seq(Command) /\ Len(front) = iter - 1
        /\ \A i \in 1 .. iter - 1 : front[i] = list[i]
    <3>1. /\ SubSeq(list, 1, iter - 1) \in Seq(Command)
          /\ Len(SubSeq(list, 1, iter - 1)) =
               IF 1 <= iter - 1 THEN (iter - 1) - 1 + 1 ELSE 0
          /\ \A i \in 1 .. (iter - 1) - 1 + 1 : SubSeq(list, 1, iter - 1)[i] = list[1 + i - 1]
      BY <1>1, <2>2, SubSeqProperties
    <3> QED
      BY <1>1, <3>1
  <2>4. k \in Seq(Command) /\ (k # <<>> => ~ IsView(k[1]))
    <3> DEFINE Tails(i) == SubSeq(list, i, Len(list))
    <3>1. ASSUME NEW i \in 1 .. End, i # End => ~ IsView(list[i])
          PROVE  Tails(i) \in Seq(Command) /\ (Tails(i) # <<>> => ~ IsView(Tails(i)[1]))
      <4>1. \A j \in i .. Len(list) : list[j] \in Command
        BY <1>1
      <4>2. /\ Tails(i) \in Seq(Command)
            /\ Len(Tails(i)) = IF i <= Len(list) THEN Len(list) - i + 1 ELSE 0
            /\ \A j \in 1 .. Len(list) - i + 1 : Tails(i)[j] = list[i + j - 1]
        BY <1>1, <4>1, SubSeqProperties
      <4> HIDE DEF Tails
      <4>3. Tails(i) # <<>> => Len(Tails(i)) # 0
        BY <4>2
      <4>4. Tails(i) # <<>> => i <= Len(list) /\ 1 \in 1 .. Len(list) - i + 1
        BY <1>1, <4>2, <4>3
      <4>5. Tails(i) # <<>> => Tails(i)[1] = list[i + 1 - 1]
        BY <4>2, <4>4
      <4> QED
        BY <1>1, <3>1, <4>2, <4>4, <4>5
    <3>2. CASE IsActivation(c)
      <4>1. k = <<>>
        BY <3>2, HistoryKinds DEF Kept
      <4> QED
        BY <4>1
    <3>3. CASE c.kind \in Adapting
      <4>1. ~ IsActivation(c)
        BY <3>3, HistoryKinds
      <4>2. k = Tails(NextActivation(iter))
        BY <3>3, <4>1 DEF Kept
      <4>3. /\ NextActivation(iter) \in 1 .. End
            /\ NextActivation(iter) # End => IsActivation(list[NextActivation(iter)])
        BY <1>1, NextActivationIs
      <4>4. NextActivation(iter) # End => ~ IsView(list[NextActivation(iter)])
        <5>1. NextActivation(iter) # End => list[NextActivation(iter)] \in Command
          BY <1>1, <4>3
        <5> QED
          BY <4>3, <5>1, HistoryKinds
      <4> HIDE DEF Tails, k
      <4> QED
        BY <3>1, <4>2, <4>3, <4>4
    <3>4. CASE ~ IsActivation(c) /\ c.kind \notin Adapting
      <4>1. k = Tails(iter)
        BY <3>4 DEF Kept
      <4>2. iter # End => iter < End
        BY <1>1
      <4> HIDE DEF Tails, k
      <4> QED
        BY <1>1, <1>2, <3>1, <4>1, <4>2
    <3> QED
      BY <3>2, <3>3, <3>4
  <2> HIDE DEF front, k
  <2>5. /\ front \o <<c>> \in Seq(Command) /\ Len(front \o <<c>>) = iter
        /\ \A i \in 1 .. iter : (front \o <<c>>)[i] = IF i < iter THEN list[i] ELSE c
    <3>1. <<c>> \in Seq(Command) /\ Len(<<c>>) = 1 /\ <<c>>[1] = c
      OBVIOUS
    <3>2. /\ front \o <<c>> \in Seq(Command)
          /\ Len(front \o <<c>>) = Len(front) + Len(<<c>>)
          /\ \A i \in 1 .. Len(front) + Len(<<c>>) : (front \o <<c>>)[i] =
               IF i <= Len(front) THEN front[i] ELSE <<c>>[i - Len(front)]
      BY <2>3, <3>1, ConcatProperties
    <3> QED
      BY <1>1, <2>3, <3>1, <3>2
  <2> DEFINE f == front \o <<c>>
  <2> HIDE DEF f
  <2>6. /\ list' \in Seq(Command) /\ Len(list') = iter + Len(k) /\ Len(k) \in Nat
        /\ \A i \in 1 .. iter + Len(k) : list'[i] = IF i <= iter THEN f[i] ELSE k[i - iter]
    <3>1. /\ f \o k \in Seq(Command) /\ Len(f \o k) = Len(f) + Len(k)
          /\ \A i \in 1 .. Len(f) + Len(k) : (f \o k)[i] =
               IF i <= Len(f) THEN f[i] ELSE k[i - Len(f)]
      BY <2>4, <2>5, ConcatProperties DEF f
    <3>2. list' = f \o k /\ Len(f) = iter
      BY <2>1, <2>5 DEF f
    <3> QED
      BY <2>4, <3>1, <3>2
  <2>7. IsActivation(list'[1])
    <3>1. list'[1] = IF 1 < iter THEN list[1] ELSE c
      <4>1. iter \in Nat /\ 1 <= iter /\ 1 \in 1 .. iter /\ 1 \in 1 .. iter + Len(k)
        BY <1>1, <2>6
      <4>2. list'[1] = f[1]
        BY <2>6, <4>1
      <4>3. f[1] = IF 1 < iter THEN list[1] ELSE c
        BY <2>5, <4>1 DEF f
      <4> QED
        BY <4>2, <4>3
    <3>2. iter = 1 => IsActivation(c)
      BY <1>5
    <3>3. iter # 1 => list # <<>> /\ 1 < iter
      BY <1>1
    <3> QED
      BY <1>1, <1>2, <3>1, <3>2, <3>3
  <2>8. iter' < End' => ~ IsView(list'[iter'])
    <3>1. HAVE iter' < End'
    <3>2. Len(k) # 0 /\ iter' = iter + 1
      BY <1>1, <2>1, <2>6, <3>1 DEF End
    <3>3. k # <<>>
      BY <3>2
    <3>4. list'[iter'] = k[1]
      BY <1>1, <2>6, <3>2
    <3> QED
      BY <2>4, <3>3, <3>4
  <2>9. iter' \in 1 .. End' /\ iter' # 1
    BY <1>1, <2>1, <2>6 DEF End
  <2>10. offset' \in Nat /\ menu' \in [entries : Seq(Command), current : Int]
    <3>1. CASE IsActivation(c)
      <4>1. ShowHistory(list', iter') /\ iter' \in Int
        BY <1>1, <2>1, <3>1
      <4> QED
        BY <2>6, <4>1, ShowHistoryIs
    <3>2. CASE ~ IsActivation(c)
      BY <1>1, <2>1, <3>2
    <3> QED
      BY <3>1, <3>2
  <2>11. undoOn' \in BOOLEAN /\ redoOn' \in BOOLEAN
    BY <2>1 DEF StillAhead, IsView
  <2> QED
    BY <2>6, <2>7, <2>8, <2>9, <2>10, <2>11 DEF HistoryTypeOK
<1> QED
  BY <1>3, <1>4, <1>5

\* The handlers.
LEMMA DeliverShape == Shape /\ Deliver => Shape'
<1> SUFFICES ASSUME Shape, Deliver PROVE Shape'
  OBVIOUS
<1>1. /\ Len(list) \in Nat /\ End = Len(list) + 1 /\ list \in Seq(Command)
      /\ iter \in 1 .. End /\ offset \in Nat /\ undoOn \in BOOLEAN /\ redoOn \in BOOLEAN
      /\ menu \in [entries : Seq(Command), current : Int]
      /\ queue \in Seq(Queued) /\ indexing \in BOOLEAN /\ refreshes \subseteq BOOLEAN
      /\ told \in Seq(Command)
  BY DEF End, HistoryTypeOK, Shape
<1>2. /\ iter = 1 => list = <<>>
      /\ iter < End => ~ IsView(list[iter])
      /\ list # <<>> => IsActivation(list[1])
  BY DEF HistoryTypeOK, Shape
<1> DEFINE m == Head(queue)
<1>3. m \in Queued /\ Tail(queue) \in Seq(Queued)
  BY <1>1, HeadTailProperties DEF Deliver
<1>4. \/ GetCommand(m) \/ Redo(m) \/ Undo(m) \/ ToPosition(m)
      \/ HistoryIndexingFinished(m) \/ RefreshUIState(m)
  BY DEF Deliver
<1> HIDE DEF m
<1>5. CASE GetCommand(m)
  <2>1. /\ m.is = "command" /\ queue' = Tail(queue) /\ told' = Told(m.command)
        /\ IF m.replayed THEN HandleReplayed(m.command) ELSE HandleCommand(m.command)
        /\ UNCHANGED <<indexing, refreshes>>
    BY <1>5 DEF GetCommand
  <2>2. m.command \in Command
    BY <1>3, <2>1, QueuedIs
  <2>3. told' \in Seq(Command)
    BY <1>1, <2>1, <2>2, ToldIs
  <2>4. HistoryTypeOK' /\ menu' \in [entries : Seq(Command), current : Int]
    <3>1. CASE ~ m.replayed
      BY <2>1, <2>2, <3>1, RecordedShape
    <3>2. CASE m.replayed
      <4>1. HandleReplayed(m.command)
        BY <2>1, <3>2
      <4>2. iter \in Int
        BY <1>1
      <4>3. offset' \in Nat /\ menu' \in [entries : Seq(Command), current : Int]
        BY <1>1, <4>1, <4>2, ShowHistoryIs DEF HandleReplayed
      <4>4. UNCHANGED <<list, iter, undoOn, redoOn>>
        BY <4>1 DEF HandleReplayed
      <4> QED
        BY <1>1, <1>2, <4>3, <4>4 DEF HistoryTypeOK, End
    <3> QED
      BY <3>1, <3>2
  <2> QED
    BY <1>1, <1>3, <2>1, <2>3, <2>4 DEF Shape
<1>6. CASE Redo(m)
  <2>1. CASE iter = End
    BY <1>1, <1>2, <1>3, <1>6, <2>1 DEF Redo, Shape, HistoryTypeOK, End
  <2>2. CASE iter # End
    <3>1. /\ iter' = RedoTarget /\ undoOn' = TRUE /\ redoOn' = (redoOn /\ iter' # End)
          /\ queue' = Replay(iter, iter', Tail(queue))
          /\ ShowHistory(list, iter')
          /\ UNCHANGED <<list, indexing, refreshes, told>>
      BY <1>6, <2>2 DEF Redo
    <3>2. iter + 1 \in 1 .. End
      BY <1>1, <2>2
    <3>3. /\ iter' \in iter + 1 .. End
          /\ iter' # End => ~ IsView(list[iter'])
      BY <1>1, <3>1, <3>2, NextStepIs DEF RedoTarget
    <3>4. iter' \in 1 .. End /\ iter' \in Int /\ iter' # 1
      BY <1>1, <3>3
    <3>5. queue' \in Seq(Queued)
      BY <1>1, <1>3, <3>1, <3>4, ReplayIs
    <3>6. offset' \in Nat /\ menu' \in [entries : Seq(Command), current : Int]
      BY <1>1, <3>1, <3>4, ShowHistoryIs
    <3>7. End' = End /\ undoOn' \in BOOLEAN /\ redoOn' \in BOOLEAN
      BY <3>1 DEF End
    <3>8. HistoryTypeOK'
      BY <1>1, <1>2, <3>1, <3>3, <3>4, <3>6, <3>7 DEF HistoryTypeOK
    <3> QED
      BY <1>1, <3>1, <3>5, <3>6, <3>8 DEF Shape
  <2> QED
    BY <2>1, <2>2
<1>7. CASE Undo(m)
  <2>1. CASE queue' = Tail(queue) /\ undoOn' \in BOOLEAN
             /\ UNCHANGED <<iter, offset, menu, redoOn>>
    <3>1. UNCHANGED <<list, indexing, refreshes, told>>
      BY <1>7 DEF Undo
    <3>2. HistoryTypeOK'
      BY <1>1, <1>2, <2>1, <3>1 DEF HistoryTypeOK, End
    <3> QED
      BY <1>1, <1>3, <2>1, <3>1, <3>2 DEF Shape
  <2>2. CASE /\ UndoTarget > 1 /\ iter' = UndoTarget
             /\ undoOn' = (undoOn /\ PreviousStep(UndoTarget) # 1) /\ redoOn' = TRUE
             /\ queue' = Replay(LastActivation(iter'), iter', Tail(queue))
             /\ ShowHistory(list, iter')
    <3>1. UNCHANGED <<list, indexing, refreshes, told>>
      BY <1>7 DEF Undo
    <3>2. iter' \in 0 .. iter - 1 /\ iter' > 1 /\ ~ IsView(list[iter'])
      <4>1. /\ PreviousStep(iter) \in 0 .. iter - 1
            /\ PreviousStep(iter) # 0 => ~ IsView(list[PreviousStep(iter)])
        BY <1>1, PreviousStepIs
      <4>2. iter' = PreviousStep(iter) /\ iter' > 1
        BY <2>2 DEF UndoTarget
      <4> QED
        BY <1>1, <4>1, <4>2
    <3>3. iter' \in 1 .. End /\ iter' \in Int /\ iter' # 1
      BY <1>1, <3>2
    <3>4. LastActivation(iter') \in 1 .. iter'
      BY <1>1, <3>3, LastActivationIs
    <3>5. LastActivation(iter') \in 1 .. End
      BY <1>1, <3>3, <3>4
    <3>6. queue' \in Seq(Queued)
      BY <1>1, <1>3, <2>2, <3>3, <3>5, ReplayIs
    <3>7. offset' \in Nat /\ menu' \in [entries : Seq(Command), current : Int]
      BY <1>1, <2>2, <3>3, ShowHistoryIs
    <3>8. End' = End /\ undoOn' \in BOOLEAN /\ redoOn' \in BOOLEAN
      BY <2>2, <3>1 DEF End
    <3>9. HistoryTypeOK'
      BY <1>1, <1>2, <3>1, <3>2, <3>3, <3>7, <3>8 DEF HistoryTypeOK
    <3> QED
      BY <1>1, <3>1, <3>6, <3>7, <3>9 DEF Shape
  <2> QED
    BY <1>1, <1>7, <2>1, <2>2 DEF Undo
<1>8. CASE ToPosition(m)
  <2> DEFINE newest == Newest(list)
             active == m.index + offset + 1
  <2>1. m.index \in Nat
    BY <1>3, <1>8, QueuedIs DEF ToPosition
  <2>2. active \in Nat \ {0}
    BY <1>1, <2>1
  <2>3. /\ Len(newest) \in Nat
        /\ \A n \in 1 .. Len(newest) : newest[n] \in 1 .. Len(list)
    BY <1>1, NewestIs
  <2>4. /\ IF active <= Len(newest)
             THEN /\ iter' = NextActivation(newest[active] + 1)
                  /\ queue' = Replay(newest[active], iter', Tail(queue))
             ELSE queue' = Tail(queue) /\ UNCHANGED iter
        /\ undoOn' = (Len(newest) > active)
        /\ redoOn' = (iter' # End /\ IsActivation(list[iter']))
        /\ ShowHistory(list, iter')
        /\ UNCHANGED <<list, indexing, refreshes, told>>
    BY <1>8 DEF ToPosition
  <2> HIDE DEF newest, active
  <2>5. /\ iter' \in 1 .. End /\ (iter' = 1 => list = <<>>)
        /\ iter' # End => ~ IsView(list[iter'])
        /\ queue' \in Seq(Queued)
    <3>1. CASE active <= Len(newest)
      <4>1. active \in 1 .. Len(newest)
        BY <2>2, <2>3, <3>1
      <4>2. newest[active] \in 1 .. Len(list)
        BY <2>3, <4>1
      <4>3. newest[active] + 1 \in 1 .. End /\ newest[active] \in 1 .. End
        BY <1>1, <4>2
      <4>4. /\ iter' \in newest[active] + 1 .. End
            /\ iter' # End => IsActivation(list[iter'])
        BY <1>1, <2>4, <3>1, <4>3, NextActivationIs
      <4>5. iter' \in 1 .. End /\ iter' # 1
        BY <1>1, <4>2, <4>4
      <4>6. iter' # End => list[iter'] \in Command
        BY <1>1, <4>5
      <4>7. iter' # End => ~ IsView(list[iter'])
        BY <4>4, <4>6, HistoryKinds
      <4>8. queue' \in Seq(Queued)
        <5>1. queue' = Replay(newest[active], iter', Tail(queue))
          BY <2>4, <3>1
        <5> QED
          BY <1>1, <1>3, <4>3, <4>5, <5>1, ReplayIs
      <4> QED
        BY <4>5, <4>7, <4>8
    <3>2. CASE ~ active <= Len(newest)
      <4>1. iter' = iter /\ queue' = Tail(queue)
        BY <2>4, <3>2
      <4>2. iter # End => iter < End
        BY <1>1
      <4> QED
        BY <1>1, <1>2, <1>3, <4>1, <4>2
    <3> QED
      BY <3>1, <3>2
  <2>6. iter' \in Int
    BY <1>1, <2>5
  <2>7. offset' \in Nat /\ menu' \in [entries : Seq(Command), current : Int]
    BY <1>1, <2>4, <2>6, ShowHistoryIs
  <2>8. End' = End /\ undoOn' \in BOOLEAN /\ redoOn' \in BOOLEAN
    BY <2>4 DEF End, IsActivation
  <2>9. HistoryTypeOK'
    BY <1>1, <1>2, <2>4, <2>5, <2>7, <2>8 DEF HistoryTypeOK
  <2> QED
    BY <1>1, <2>4, <2>5, <2>7, <2>9 DEF Shape
<1>9. CASE HistoryIndexingFinished(m)
  <2> DEFINE some == {i \in DOMAIN list : IsActivation(list[i]) /\ list[i].kind # "bundle"}
  <2>1. /\ list' = Selected(list, some) /\ iter' = Len(list') + 1
        /\ refreshes' = refreshes \cup {TRUE} /\ queue' = Tail(queue)
        /\ UNCHANGED <<offset, menu, undoOn, redoOn, indexing, told>>
    BY <1>9 DEF HistoryIndexingFinished
  <2>2. some \in SUBSET (1 .. Len(list)) /\ \A i \in some : IsActivation(list[i])
    BY <1>1
  <2> HIDE DEF some
  <2>3. /\ list' \in Seq(Command) /\ Len(list') = Cardinality(some)
        /\ \A n \in 1 .. Cardinality(some) : \E i \in some : list'[n] = list[i]
    <3>1. list' = Selected(list, some)
      BY <2>1
    <3>2. /\ Selected(list, some) \in Seq(Command)
          /\ Len(Selected(list, some)) = Cardinality(some)
          /\ \A n \in 1 .. Cardinality(some) :
               \E i \in some : Selected(list, some)[n] = list[i]
      BY <1>1, <2>2, SelectedIs
    <3> QED
      BY <3>1, <3>2
  <2>4. Len(list') \in Nat /\ End' = Len(list') + 1
    BY <2>3 DEF End
  <2>5. list' # <<>> => IsActivation(list'[1])
    <3>1. list' # <<>> => Len(list') # 0
      BY <2>3
    <3>2. list' # <<>> => 1 \in 1 .. Len(list')
      BY <2>4, <3>1
    <3> QED
      BY <2>2, <2>3, <3>2
  <2>6. iter' = 1 => list' = <<>>
    BY <2>1, <2>3, <2>4
  <2>7. iter' \in 1 .. End' /\ ~ iter' < End'
    BY <2>1, <2>4
  <2>8. HistoryTypeOK'
    BY <1>1, <2>1, <2>3, <2>5, <2>6, <2>7 DEF HistoryTypeOK
  <2> QED
    BY <1>1, <1>3, <2>1, <2>8 DEF Shape
<1>10. CASE RefreshUIState(m)
  <2>1. UNCHANGED <<list, iter, offset, menu, undoOn, redoOn, indexing, refreshes, told>>
    BY <1>10 DEF RefreshUIState
  <2>2. Said(Overview) \in Queued
    BY DEF Said, Overview, Queued, Command, AllKinds, Activating
  <2>3. LastActivation(iter) \in 1 .. iter
    BY <1>1, LastActivationIs
  <2>4. LastActivation(iter) \in 1 .. End
    BY <1>1, <2>3
  <2>5. queue' \in Seq(Queued)
    <3>1. CASE queue' = Append(Tail(queue), Said(Overview))
      BY <1>3, <2>2, <3>1, AppendProperties
    <3>2. CASE queue' = Replay(LastActivation(iter), iter, Tail(queue))
      BY <1>1, <1>3, <2>4, <3>2, ReplayIs
    <3> QED
      BY <1>10, <3>1, <3>2 DEF RefreshUIState
  <2>6. HistoryTypeOK'
    BY <1>1, <1>2, <2>1 DEF HistoryTypeOK, End
  <2> QED
    BY <1>1, <2>1, <2>5, <2>6 DEF Shape
<1> QED
  BY <1>4, <1>5, <1>6, <1>7, <1>8, <1>9, <1>10

\* Every step, and so every state.
LEMMA ShapeStep == Shape /\ [HistoryNext]_historyVars => Shape'
<1>1. Shape /\ UNCHANGED historyVars => Shape'
  BY DEF historyVars, Shape, HistoryTypeOK, End
<1> QED
  BY <1>1, ActsShape, AroundShape, DeliverShape DEF HistoryNext

LEMMA ShapeAlways == HistorySpec => []Shape
BY ShapeInit, ShapeStep, PTL DEF HistorySpec

\* The list, its iterator and what the view was told keep their shape, whatever
\* is recorded, replayed, indexed or cleared.
THEOREM HistoryTypeCorrect == HistorySpec => []HistoryTypeOK
<1>1. Shape => HistoryTypeOK
  BY DEF Shape
<1> QED
  BY <1>1, ShapeAlways, PTL

\* Back and forward are inverse to each other, however views are strewn between.
THEOREM BackAndForth == HistorySpec => []BackAndForthAgree
BY HistoryTypeCorrect, StepsAgree, PTL

-----------------------------------------------------------------------------
(* The menu.                                                               *)

\* Fewer lie above the higher of two positions.
LEMMA FewerAbove ==
  ASSUME NEW S, IsFiniteSet(S), \A i \in S : i \in Nat
  PROVE  /\ \A i : /\ Higher(S, i) \in SUBSET S /\ IsFiniteSet(Higher(S, i))
                   /\ Cardinality(Higher(S, i)) \in Nat
         /\ \A i, k \in S :
              i < k => Cardinality(Higher(S, k)) < Cardinality(Higher(S, i))
         /\ \A i \in S : Cardinality(Higher(S, i)) < Cardinality(S)
<1>1. \A i, j : j \in Higher(S, i) <=> j \in S /\ j > i
  BY DEF Higher
<1>2. \A i : Higher(S, i) \in SUBSET S
  BY <1>1
<1>3. \A i : IsFiniteSet(Higher(S, i)) /\ Cardinality(Higher(S, i)) \in Nat
  BY <1>2, FS_Subset, FS_CardinalityType
<1>4. Cardinality(S) \in Nat
  BY FS_CardinalityType
<1>5. ASSUME NEW i \in S, NEW k \in S, i < k
      PROVE  Cardinality(Higher(S, k)) < Cardinality(Higher(S, i))
  <2>1. Higher(S, k) \subseteq Higher(S, i)
    <3> SUFFICES ASSUME NEW j \in Higher(S, k) PROVE j \in Higher(S, i)
      OBVIOUS
    <3>1. j \in S /\ j > k
      BY <1>1
    <3>2. j \in Nat /\ i \in Nat /\ k \in Nat
      BY <3>1
    <3>3. j > i
      BY <1>5, <3>1, <3>2
    <3> QED
      BY <1>1, <3>1, <3>3
  <2>2. k \in Higher(S, i) /\ k \notin Higher(S, k)
    <3>1. i \in Nat /\ k \in Nat
      OBVIOUS
    <3>2. k > i /\ ~ k > k
      BY <1>5, <3>1
    <3> QED
      BY <1>1, <3>2
  <2>3. Higher(S, k) # Higher(S, i)
    BY <2>2
  <2>4. /\ Cardinality(Higher(S, k)) <= Cardinality(Higher(S, i))
        /\ Cardinality(Higher(S, k)) # Cardinality(Higher(S, i))
    BY <1>3, <2>1, <2>3, FS_Subset
  <2> QED
    BY <1>3, <2>4
<1>6. ASSUME NEW i \in S PROVE Cardinality(Higher(S, i)) < Cardinality(S)
  <2>1. i \notin Higher(S, i)
    <3>1. i \in Nat
      OBVIOUS
    <3>2. ~ i > i
      BY <3>1
    <3> QED
      BY <1>1, <3>2
  <2>2. Higher(S, i) \subseteq S /\ Higher(S, i) # S
    BY <1>2, <2>1
  <2>3. /\ Cardinality(Higher(S, i)) <= Cardinality(S)
        /\ Cardinality(Higher(S, i)) # Cardinality(S)
    BY <2>2, FS_Subset
  <2> QED
    BY <1>3, <1>4, <2>3
<1> QED
  BY <1>2, <1>3, <1>5, <1>6

\* The higher of two positions comes first, and every position comes at its rank.
LEMMA FallingFalls ==
  ASSUME NEW x \in Nat, NEW S \in SUBSET (1 .. x)
  PROVE  /\ \A a, b \in 1 .. Len(Falling(S)) : a < b => Falling(S)[b] < Falling(S)[a]
         /\ \A i \in S : Cardinality(Higher(S, i)) + 1 \in 1 .. Len(Falling(S))
         /\ \A i \in S : Falling(S)[Cardinality(Higher(S, i)) + 1] = i
         /\ \A i \in S : \E n \in 1 .. Len(Falling(S)) : Falling(S)[n] = i
<1> DEFINE N == Len(Falling(S))
           t == Falling(S)
           h == [i \in S |-> Cardinality(Higher(S, i))]
<1>1. N \in Nat /\ N = Cardinality(S)
  BY FallingIs
<1>2. IsFiniteSet(S)
  BY Ranks
<1>3. \A i \in S : i \in Nat
  OBVIOUS
<1>4. \A i \in S : h[i] \in Nat /\ h[i] < N
  BY <1>1, <1>2, <1>3, FewerAbove
<1>5. \A i, k \in S : i < k => h[k] < h[i]
  BY <1>2, <1>3, FewerAbove
<1>6. \A n \in 1 .. N : t[n] \in S /\ h[t[n]] = n - 1
  BY FallingIs
<1>7. \A i \in S : h[i] = Cardinality(Higher(S, i))
  OBVIOUS
<1> HIDE DEF N, t, h
<1>8. ASSUME NEW a \in 1 .. N, NEW b \in 1 .. N, a < b PROVE t[b] < t[a]
  <2>1. t[a] \in S /\ t[b] \in S /\ t[a] \in Nat /\ t[b] \in Nat
    BY <1>3, <1>6
  <2>2. a \in Nat /\ b \in Nat /\ h[t[a]] = a - 1 /\ h[t[b]] = b - 1
    BY <1>1, <1>6
  <2>3. ~ t[a] < t[b]
    BY <1>5, <1>8, <2>1, <2>2
  <2>4. t[a] # t[b]
    BY <1>8, <2>2
  <2> QED
    BY <2>1, <2>3, <2>4
<1>9. ASSUME NEW i \in S PROVE h[i] + 1 \in 1 .. N /\ t[h[i] + 1] = i
  <2>1. h[i] + 1 \in 1 .. N
    BY <1>1, <1>4
  <2> DEFINE n == h[i] + 1
             k == t[n]
  <2>2. n \in 1 .. N /\ n - 1 = h[i] /\ h[i] \in Nat
    BY <1>4, <2>1
  <2> HIDE DEF n
  <2>3. k \in S /\ h[k] = h[i] /\ h[i] \in Nat
    BY <1>6, <2>2
  <2> HIDE DEF k
  <2>4. k \in Nat /\ i \in Nat
    BY <1>3, <2>3
  <2>5. ~ k < i /\ ~ i < k
    BY <1>5, <2>3
  <2>6. k = i
    BY <2>4, <2>5
  <2> QED
    BY <2>1, <2>6 DEF k, n
<1>10. /\ \A i \in S : Cardinality(Higher(S, i)) + 1 \in 1 .. N
       /\ \A i \in S : t[Cardinality(Higher(S, i)) + 1] = i
       /\ \A i \in S : \E n \in 1 .. N : t[n] = i
  BY <1>7, <1>9
<1> QED
  BY <1>8, <1>10 DEF N, t

\* The newer of two activations comes first, and every activation comes.
LEMMA NewestFalls ==
  ASSUME NEW l \in Seq(Command)
  PROVE  /\ \A m, n \in 1 .. Len(Newest(l)) : m < n => Newest(l)[n] < Newest(l)[m]
         /\ \A i \in Acts(l) : \E n \in 1 .. Len(Newest(l)) : Newest(l)[n] = i
<1>1. Len(l) \in Nat /\ Acts(l) \in SUBSET (1 .. Len(l))
  BY ActsAre
<1>2. Newest(l) = Falling(Acts(l))
  BY DEF Newest, Acts
<1> QED
  BY <1>1, <1>2, FallingFalls

\* A set is as large as its one-to-one image.
LEMMA SameSize ==
  ASSUME NEW S, NEW T, NEW f \in [S -> T], IsFiniteSet(S),
         \A a, b \in S : f[a] = f[b] => a = b,
         \A b \in T : \E a \in S : f[a] = b
  PROVE  Cardinality(T) = Cardinality(S)
<1>1. f \in Surjection(S, T)
  BY DEF Surjection
<1>2. f \in Injection(S, T)
  BY DEF Injection, IsInjective
<1> QED
  BY <1>1, <1>2, FS_Surjection

\* The activations of l are those of k in their order, and the same of them lie
\* behind position at of l as behind position bt of k: f leads from one to the other.
Follows(l, k, at, bt, f) ==
  /\ f \in [Acts(l) -> Acts(k)]
  /\ \A i, j \in Acts(l) : i < j => f[i] < f[j]
  /\ \A j \in Acts(k) : \E i \in Acts(l) : f[i] = j
  /\ \A i \in Acts(l) : k[f[i]] = l[i] /\ (f[i] >= bt <=> i >= at)

Alike(l, k, at, bt) == \E f : Follows(l, k, at, bt, f)

\* Positions that follow each other in the same order come in the same order.
LEMMA FallingFollows ==
  ASSUME NEW x \in Nat, NEW S \in SUBSET (1 .. x), NEW y \in Nat, NEW T \in SUBSET (1 .. y),
         NEW f \in [S -> T],
         \A i, j \in S : i < j => f[i] < f[j],
         \A j \in T : \E i \in S : f[i] = j
  PROVE  /\ Len(Falling(T)) = Len(Falling(S))
         /\ \A n \in 1 .. Len(Falling(S)) : Falling(T)[n] = f[Falling(S)[n]]
<1> DEFINE N == Len(Falling(S))
           t == Falling(S)
           u == Falling(T)
<1>1. /\ IsFiniteSet(S) /\ \A i \in S : i \in Nat
      /\ IsFiniteSet(T) /\ \A i \in T : i \in Nat
  <2>1. IsFiniteSet(S) /\ IsFiniteSet(T)
    BY Ranks
  <2>2. (\A i \in S : i \in Nat) /\ (\A i \in T : i \in Nat)
    OBVIOUS
  <2> QED
    BY <2>1, <2>2
<1>2. \A i : /\ Higher(S, i) \in SUBSET S /\ IsFiniteSet(Higher(S, i))
             /\ Higher(T, i) \in SUBSET T /\ IsFiniteSet(Higher(T, i))
  <2>1. \A i : Higher(S, i) \in SUBSET S /\ Higher(T, i) \in SUBSET T
    BY DEF Higher
  <2> QED
    BY <1>1, <2>1, FS_Subset
<1>3. \A a, b \in S : f[a] = f[b] => a = b
  <2> SUFFICES ASSUME NEW a \in S, NEW b \in S, f[a] = f[b] PROVE a = b
    OBVIOUS
  <2>1. f[a] \in Nat /\ f[b] \in Nat
    BY <1>1
  <2>2. ~ a < b /\ ~ b < a
    BY <2>1
  <2> QED
    BY <1>1, <2>2
<1>4. Cardinality(T) = Cardinality(S)
  BY <1>1, <1>3, SameSize
<1>5. ASSUME NEW i \in S
      PROVE  Cardinality(Higher(T, f[i])) = Cardinality(Higher(S, i))
  <2> DEFINE g == [a \in Higher(S, i) |-> f[a]]
  <2>1. \A a \in Higher(S, i) : a \in S /\ a > i
    BY DEF Higher
  <2>2. \A a \in Higher(S, i) : f[a] \in Higher(T, f[i])
    <3> TAKE a \in Higher(S, i)
    <3>1. a \in S /\ i < a
      BY <1>1, <2>1
    <3>2. f[i] < f[a] /\ f[a] \in T /\ f[i] \in T
      BY <3>1
    <3> QED
      BY <1>1, <3>2 DEF Higher
  <2>3. g \in [Higher(S, i) -> Higher(T, f[i])]
    BY <2>2
  <2>4. \A b \in Higher(T, f[i]) : \E a \in Higher(S, i) : g[a] = b
    <3> TAKE b \in Higher(T, f[i])
    <3>1. b \in T /\ b > f[i] /\ b \in Nat /\ f[i] \in Nat
      BY <1>1 DEF Higher
    <3>2. PICK a \in S : f[a] = b
      BY <3>1
    <3>3. ~ a < i /\ a # i
      BY <3>1, <3>2
    <3>4. a \in Higher(S, i)
      BY <1>1, <3>3 DEF Higher
    <3> QED
      BY <3>2, <3>4
  <2>5. \A a, b \in Higher(S, i) : g[a] = g[b] => a = b
    BY <1>3, <2>1
  <2> HIDE DEF g
  <2> QED
    BY <1>2, <2>3, <2>4, <2>5, SameSize
<1>6. N \in Nat /\ N = Cardinality(S) /\ Len(u) = Cardinality(T)
  BY FallingIs
<1>7. \A n \in 1 .. N : t[n] \in S /\ Cardinality(Higher(S, t[n])) = n - 1
  BY FallingIs
<1>8. ASSUME NEW n \in 1 .. N PROVE u[n] = f[t[n]]
  <2>1. f[t[n]] \in T /\ Cardinality(Higher(T, f[t[n]])) = n - 1
    BY <1>5, <1>7
  <2>2. u[Cardinality(Higher(T, f[t[n]])) + 1] = f[t[n]]
    BY <2>1, FallingFalls
  <2>3. Cardinality(Higher(T, f[t[n]])) + 1 = n
    BY <1>6, <2>1
  <2> QED
    BY <2>2, <2>3
<1> QED
  BY <1>4, <1>6, <1>8

\* Then the newest first are the same ones, and so are those that are listed.
LEMMA NewestFollows ==
  ASSUME NEW l \in Seq(Command), NEW k \in Seq(Command), NEW at, NEW bt, NEW f,
         Follows(l, k, at, bt, f)
  PROVE  /\ Len(Newest(k)) = Len(Newest(l))
         /\ \A n \in 1 .. Len(Newest(l)) : Newest(k)[n] = f[Newest(l)[n]]
         /\ Len(Named(k)) = Len(Named(l))
         /\ \A n \in 1 .. Len(Named(l)) : Named(k)[n] = f[Named(l)[n]]
<1>1. /\ f \in [Acts(l) -> Acts(k)]
      /\ \A i, j \in Acts(l) : i < j => f[i] < f[j]
      /\ \A j \in Acts(k) : \E i \in Acts(l) : f[i] = j
      /\ \A i \in Acts(l) : k[f[i]] = l[i]
  BY DEF Follows
<1>2. /\ Len(l) \in Nat /\ Acts(l) \in SUBSET (1 .. Len(l)) /\ Newest(l) = Falling(Acts(l))
      /\ Len(k) \in Nat /\ Acts(k) \in SUBSET (1 .. Len(k)) /\ Newest(k) = Falling(Acts(k))
  BY ActsAre DEF Newest, Acts
<1>3. /\ Len(Newest(k)) = Len(Newest(l))
      /\ \A n \in 1 .. Len(Newest(l)) : Newest(k)[n] = f[Newest(l)[n]]
  <2> DEFINE A == Acts(l)
             B == Acts(k)
  <2>1. f \in [A -> B] /\ A \in SUBSET (1 .. Len(l)) /\ B \in SUBSET (1 .. Len(k))
    BY <1>1, <1>2
  <2>2. \A i, j \in A : i < j => f[i] < f[j]
    BY <1>1
  <2>3. \A j \in B : \E i \in A : f[i] = j
    BY <1>1
  <2>4. Newest(l) = Falling(A) /\ Newest(k) = Falling(B)
    BY <1>2
  <2> HIDE DEF A, B
  <2>5. /\ Len(Falling(B)) = Len(Falling(A))
        /\ \A n \in 1 .. Len(Falling(A)) : Falling(B)[n] = f[Falling(A)[n]]
    BY <1>2, <2>1, <2>2, <2>3, FallingFollows
  <2> QED
    BY <2>4, <2>5
<1> DEFINE g == [i \in Names(l) |-> f[i]]
<1>4. /\ Names(l) \in SUBSET (1 .. Len(l)) /\ Named(l) = Falling(Names(l))
      /\ Names(k) \in SUBSET (1 .. Len(k)) /\ Named(k) = Falling(Names(k))
      /\ \A n \in 1 .. Len(Named(l)) : Named(l)[n] \in Names(l)
  BY NamedIs
<1>5. \A i \in Names(l) : i \in Acts(l) /\ f[i] \in Names(k)
  BY <1>1 DEF Names
<1>6. /\ g \in [Names(l) -> Names(k)]
      /\ \A i, j \in Names(l) : i < j => g[i] < g[j]
  BY <1>1, <1>5
<1>7. \A j \in Names(k) : \E i \in Names(l) : g[i] = j
  <2> TAKE j \in Names(k)
  <2>1. j \in Acts(k) /\ HasName(k[j])
    BY DEF Names
  <2>2. PICK i \in Acts(l) : f[i] = j
    BY <1>1, <2>1
  <2>3. i \in Names(l)
    BY <1>1, <2>1, <2>2 DEF Names
  <2> QED
    BY <2>2, <2>3
<1>8. \A i \in Names(l) : g[i] = f[i]
  OBVIOUS
<1> HIDE DEF g
<1>9. /\ Len(Falling(Names(k))) = Len(Falling(Names(l)))
      /\ \A n \in 1 .. Len(Falling(Names(l))) :
           Falling(Names(k))[n] = g[Falling(Names(l))[n]]
  BY <1>2, <1>4, <1>6, <1>7, FallingFollows
<1> QED
  BY <1>3, <1>4, <1>8, <1>9

\* A menu of a list is that of a list that is alike.
LEMMA AlikeShows ==
  ASSUME NEW l \in Seq(Command), NEW k \in Seq(Command), NEW at, NEW bt,
         Alike(l, k, at, bt), at \in Int, bt \in Int, NEW o, NEW m, Shows(l, at, o, m)
  PROVE  Shows(k, bt, o, m)
<1>1. PICK f : Follows(l, k, at, bt, f)
  BY DEF Alike
<1> DEFINE N == Len(Newest(l))
           M == Len(Named(l))
<1>2. /\ Len(Newest(k)) = N
      /\ \A n \in 1 .. N : Newest(k)[n] = f[Newest(l)[n]]
      /\ Len(Named(k)) = M
      /\ \A n \in 1 .. M : Named(k)[n] = f[Named(l)[n]]
  BY <1>1, NewestFollows
<1>3. /\ N \in Nat /\ DOMAIN Newest(l) = 1 .. N /\ DOMAIN Newest(k) = 1 .. N
      /\ \A n \in 1 .. N : Newest(l)[n] \in Acts(l)
  BY <1>2, NewestIs
<1>4. \A i \in Acts(l) : k[f[i]] = l[i] /\ (f[i] >= bt <=> i >= at)
  BY <1>1 DEF Follows
<1>5. \A n \in 1 .. N : Newest(k)[n] >= bt <=> Newest(l)[n] >= at
  BY <1>2, <1>3, <1>4
<1>6. Ahead(k, bt) = Ahead(l, at)
  <2>1. {n \in DOMAIN Newest(k) : Newest(k)[n] >= bt}
          = {n \in DOMAIN Newest(l) : Newest(l)[n] >= at}
    BY <1>3, <1>5
  <2> QED
    BY <2>1 DEF Ahead
<1>7. /\ M \in Nat /\ DOMAIN Named(l) = 1 .. M /\ DOMAIN Named(k) = 1 .. M
      /\ \A n \in 1 .. M : Named(l)[n] \in Acts(l)
  BY <1>2, NamedIs
<1>8. \A n \in 1 .. M : k[Named(k)[n]] = l[Named(l)[n]]
  BY <1>2, <1>4, <1>7
<1>9. Full(k, bt) = Full(l, at)
  <2>1. \A n \in 1 .. M : Named(k)[n] \in Int /\ Named(l)[n] \in Int
    BY <1>2, NamedIs
  <2>2. \A n \in 1 .. M : Named(k)[n] >= bt <=> Named(l)[n] >= at
    BY <1>2, <1>4, <1>7
  <2>3. \A n \in 1 .. M : Named(k)[n] < bt <=> Named(l)[n] < at
    BY <2>1, <2>2
  <2> QED
    BY <1>6, <1>7, <2>3 DEF Full
<1>10. Reached(k, bt) = Reached(l, at) /\ Skipped(k, bt) = Skipped(l, at)
  BY <1>2, <1>9 DEF Reached, Skipped
<1>11. Window(k, bt) = Window(l, at)
  <2> DEFINE R == Reached(l, at)
             S == Skipped(l, at)
  <2>1. R \in Nat /\ S \in Nat /\ R <= M
    BY WindowIs
  <2>2. \A n \in 1 .. R - S : S + n \in 1 .. M
    BY <1>7, <2>1
  <2>3. \A n \in 1 .. R - S : k[Named(k)[S + n]] = l[Named(l)[S + n]]
    BY <1>8, <2>2
  <2>4. /\ Window(l, at) = [n \in 1 .. R - S |-> l[Named(l)[S + n]]]
        /\ Window(k, bt) = [n \in 1 .. R - S |-> k[Named(k)[S + n]]]
    BY <1>10 DEF Window
  <2> HIDE DEF R, S
  <2> QED
    BY <2>3, <2>4
<1> QED
  BY <1>6, <1>10, <1>11 DEF Shows

\* What is left of a list when something is drawn anew at the end of an indexing.
ErrorsLast(l) == \E i \in Acts(l) : l[i].kind = "errors" /\ \A j \in Acts(l) : j <= i
Several(l) == \E i, j \in Acts(l) : i < j
NoBundle(l) == \A i \in Acts(l) : l[i].kind # "bundle"

\* All three are the same for lists that are alike.
LEMMA AlikeKeeps ==
  ASSUME NEW l \in Seq(Command), NEW k \in Seq(Command), NEW at, NEW bt,
         Alike(l, k, at, bt)
  PROVE  /\ ErrorsLast(l) => ErrorsLast(k)
         /\ Several(l) => Several(k)
         /\ NoBundle(l) => NoBundle(k)
<1>1. PICK f : Follows(l, k, at, bt, f)
  BY DEF Alike
<1>2. /\ f \in [Acts(l) -> Acts(k)]
      /\ \A i, j \in Acts(l) : i < j => f[i] < f[j]
      /\ \A j \in Acts(k) : \E i \in Acts(l) : f[i] = j
      /\ \A i \in Acts(l) : k[f[i]] = l[i]
  BY <1>1 DEF Follows
<1>3. /\ \A i \in Acts(l) : i \in Nat
      /\ \A i \in Acts(k) : i \in Nat
  BY ActsAre
<1>4. ErrorsLast(l) => ErrorsLast(k)
  <2> SUFFICES ASSUME ErrorsLast(l) PROVE ErrorsLast(k)
    OBVIOUS
  <2>1. PICK i \in Acts(l) : l[i].kind = "errors" /\ \A j \in Acts(l) : j <= i
    BY DEF ErrorsLast
  <2>2. f[i] \in Acts(k) /\ k[f[i]].kind = "errors"
    BY <1>2, <2>1
  <2>3. ASSUME NEW b \in Acts(k) PROVE b <= f[i]
    <3>1. PICK a \in Acts(l) : f[a] = b
      BY <1>2
    <3>2. a = i \/ a < i
      BY <1>3, <2>1
    <3> QED
      BY <1>2, <1>3, <2>2, <3>1, <3>2
  <2> QED
    BY <2>2, <2>3 DEF ErrorsLast
<1>5. Several(l) => Several(k)
  BY <1>2 DEF Several
<1>6. NoBundle(l) => NoBundle(k)
  BY <1>2 DEF NoBundle
<1> QED
  BY <1>4, <1>5, <1>6

\* What is recorded without being an activation leaves the activations alone.
LEMMA RecordedIs ==
  ASSUME Shape, NEW c \in Command, ~ IsActivation(c), iter # 1,
         NEW k, k = Kept(c),
         list' = SubSeq(list, 1, iter - 1) \o <<c>> \o k
  PROVE  \E p \in iter .. End :
           /\ \A i \in iter .. p - 1 : ~ IsActivation(list[i])
           /\ Len(list') = iter + (End - p) /\ list' \in Seq(Command)
           /\ \A i \in 1 .. Len(list') :
                list'[i] = IF i < iter THEN list[i]
                           ELSE IF i = iter THEN c ELSE list[(i - iter) + p - 1]
<1>1. /\ Len(list) \in Nat /\ End = Len(list) + 1 /\ list \in Seq(Command)
      /\ iter \in 1 .. End
  BY DEF End, HistoryTypeOK, Shape
<1>2. PICK p \in iter .. End : /\ k = SubSeq(list, p, Len(list))
                                 /\ \A i \in iter .. p - 1 : ~ IsActivation(list[i])
  <2>1. CASE c.kind \in Adapting
    <3>1. k = SubSeq(list, NextActivation(iter), Len(list))
      BY <2>1 DEF Kept
    <3> QED
      BY <1>1, <3>1, NextActivationIs
  <2>2. CASE c.kind \notin Adapting
    <3>1. k = SubSeq(list, iter, Len(list))
      BY <2>2 DEF Kept
    <3> QED
      BY <1>1, <3>1
  <2> QED
    BY <2>1, <2>2
<1> DEFINE front == SubSeq(list, 1, iter - 1)
           f == front \o <<c>>
<1>3. /\ front \in Seq(Command) /\ Len(front) = iter - 1
      /\ \A i \in 1 .. iter - 1 : front[i] = list[i]
  <2>1. \A i \in 1 .. iter - 1 : list[i] \in Command
    BY <1>1
  <2>2. /\ SubSeq(list, 1, iter - 1) \in Seq(Command)
        /\ Len(SubSeq(list, 1, iter - 1)) =
             IF 1 <= iter - 1 THEN (iter - 1) - 1 + 1 ELSE 0
        /\ \A i \in 1 .. (iter - 1) - 1 + 1 : SubSeq(list, 1, iter - 1)[i] = list[1 + i - 1]
    BY <1>1, <2>1, SubSeqProperties
  <2> QED
    BY <1>1, <2>2
<1>4. /\ k \in Seq(Command) /\ Len(k) = End - p
      /\ \A j \in 1 .. End - p : k[j] = list[j + p - 1]
  <2>1. \A j \in p .. Len(list) : list[j] \in Command
    BY <1>1
  <2>2. /\ SubSeq(list, p, Len(list)) \in Seq(Command)
        /\ Len(SubSeq(list, p, Len(list))) = IF p <= Len(list) THEN Len(list) - p + 1 ELSE 0
        /\ \A j \in 1 .. Len(list) - p + 1 : SubSeq(list, p, Len(list))[j] = list[p + j - 1]
    BY <1>1, <2>1, SubSeqProperties
  <2> QED
    BY <1>1, <1>2, <2>2
<1> HIDE DEF front
<1>5. /\ f \in Seq(Command) /\ Len(f) = iter
      /\ \A i \in 1 .. iter : f[i] = IF i < iter THEN list[i] ELSE c
  <2>1. <<c>> \in Seq(Command) /\ Len(<<c>>) = 1 /\ <<c>>[1] = c
    OBVIOUS
  <2>2. /\ front \o <<c>> \in Seq(Command)
        /\ Len(front \o <<c>>) = Len(front) + Len(<<c>>)
        /\ \A i \in 1 .. Len(front) + Len(<<c>>) : (front \o <<c>>)[i] =
             IF i <= Len(front) THEN front[i] ELSE <<c>>[i - Len(front)]
    BY <1>3, <2>1, ConcatProperties
  <2> QED
    BY <1>1, <1>3, <2>1, <2>2
<1>6. list' = f \o k
  BY DEF front
<1> HIDE DEF f
<1>7. /\ list' \in Seq(Command) /\ Len(list') = iter + (End - p)
      /\ \A i \in 1 .. iter + (End - p) :
           list'[i] = IF i <= iter THEN f[i] ELSE k[i - iter]
  <2>1. /\ f \o k \in Seq(Command) /\ Len(f \o k) = Len(f) + Len(k)
        /\ \A i \in 1 .. Len(f) + Len(k) : (f \o k)[i] =
             IF i <= Len(f) THEN f[i] ELSE k[i - Len(f)]
    BY <1>4, <1>5, ConcatProperties
  <2> QED
    BY <1>4, <1>5, <1>6, <2>1
<1>8. ASSUME NEW i \in 1 .. Len(list')
      PROVE  list'[i] = IF i < iter THEN list[i]
                        ELSE IF i = iter THEN c ELSE list[(i - iter) + p - 1]
  <2>1. CASE i <= iter
    <3>1. list'[i] = f[i]
      BY <1>1, <1>7, <2>1
    <3> QED
      BY <1>1, <1>5, <2>1, <3>1
  <2>2. CASE i > iter
    <3>1. list'[i] = k[i - iter] /\ i - iter \in 1 .. End - p
      BY <1>1, <1>7, <2>2
    <3>2. k[i - iter] = list[(i - iter) + p - 1]
      BY <1>4, <3>1
    <3>3. ~ i < iter /\ i # iter
      BY <1>1, <2>2
    <3> QED
      BY <3>1, <3>2, <3>3
  <2> QED
    BY <1>1, <2>1, <2>2
<1> QED
  BY <1>2, <1>7, <1>8

\* So the handler of a command that is no activation leaves a list alike.
LEMMA RecordedAlike ==
  ASSUME Shape, NEW c \in Command, ~ IsActivation(c), HandleCommand(c)
  PROVE  /\ Alike(list, list', iter, iter')
         /\ UNCHANGED <<offset, menu>>
         /\ iter = End => iter' = End'
<1>1. /\ Len(list) \in Nat /\ End = Len(list) + 1 /\ list \in Seq(Command)
      /\ iter \in 1 .. End
  BY DEF End, HistoryTypeOK, Shape
<1>2. \A i \in Acts(list) : /\ i \in 1 .. Len(list) /\ i \in Nat
                            /\ IsActivation(list[i])
  BY <1>1 DEF Acts
<1> DEFINE id == [i \in Acts(list) |-> i]
<1>3. CASE Overwrites(c)
  <2>1. /\ list' = [list EXCEPT ![iter - 1].value = c.value]
        /\ UNCHANGED <<iter, offset, menu>>
    BY <1>3 DEF HandleCommand
  <2>2. /\ iter - 1 \in 1 .. Len(list) /\ list[iter - 1].kind = c.kind
        /\ c.kind \in Overwriting
    <3>1. /\ iter - 1 \in 1 .. Len(list) /\ c.kind \in Overwriting
          /\ MessageType(list[iter - 1].kind) = MessageType(c.kind)
      BY <1>1, <1>3 DEF Overwrites, SameMessageTypeAsLast, LastMessage
    <3>2. c.kind \notin {"tokens", "edge", "bundle", "trail", "customTrail",
                         "viewMode", "fileView"}
      BY <3>1 DEF Overwriting
    <3> QED
      BY <3>1, <3>2, TypeIsKind
  <2>3. ~ IsActivation(list[iter - 1])
    BY <2>2 DEF IsActivation
  <2>4. /\ DOMAIN list' = DOMAIN list /\ Len(list') = Len(list)
        /\ \A i \in DOMAIN list : i # iter - 1 => list'[i] = list[i]
        /\ list'[iter - 1].kind = list[iter - 1].kind
    BY <1>1, <2>1, <2>2
  <2>5. \A i \in DOMAIN list : IsActivation(list'[i]) <=> IsActivation(list[i])
    BY <2>4 DEF IsActivation
  <2>6. Acts(list') = Acts(list)
    BY <2>4, <2>5 DEF Acts
  <2>7. \A i \in Acts(list) : list'[i] = list[i]
    BY <1>2, <2>3, <2>4 DEF Acts
  <2>8. Follows(list, list', iter, iter', id)
    BY <2>1, <2>6, <2>7 DEF Follows
  <2>9. End' = End
    BY <2>4 DEF End
  <2> QED
    BY <2>1, <2>8, <2>9 DEF Alike
<1>4. CASE ~ Overwrites(c) /\ (Known(c) \/ (iter = 1 /\ ~ IsActivation(c)))
  <2>1. UNCHANGED <<list, iter, offset, menu>>
    BY <1>4 DEF HandleCommand
  <2>2. Follows(list, list', iter, iter', id)
    BY <2>1 DEF Follows
  <2>3. End' = End
    BY <2>1 DEF End
  <2> QED
    BY <2>1, <2>2, <2>3 DEF Alike
<1>5. CASE ~ Overwrites(c) /\ ~ (Known(c) \/ (iter = 1 /\ ~ IsActivation(c)))
  <2> DEFINE k == Kept(c)
  <2>1. /\ list' = SubSeq(list, 1, iter - 1) \o <<c>> \o k
        /\ iter' = iter + 1
        /\ UNCHANGED <<offset, menu>>
    BY <1>5 DEF HandleCommand
  <2>2. iter # 1
    BY <1>5
  <2> HIDE DEF k
  <2>3. PICK p \in iter .. End :
           /\ \A i \in iter .. p - 1 : ~ IsActivation(list[i])
           /\ Len(list') = iter + (End - p) /\ list' \in Seq(Command)
           /\ \A i \in 1 .. Len(list') :
                list'[i] = IF i < iter THEN list[i]
                           ELSE IF i = iter THEN c ELSE list[(i - iter) + p - 1]
    BY <2>1, <2>2, RecordedIs DEF k
  <2> DEFINE f == [i \in Acts(list) |-> IF i < iter THEN i ELSE (i - p) + iter + 1]
  <2>4. \A i \in Acts(list) : i < iter \/ i >= p
    BY <1>1, <1>2, <2>3
  <2>5. ASSUME NEW i \in Acts(list)
        PROVE  /\ f[i] \in 1 .. Len(list') /\ list'[f[i]] = list[i]
               /\ f[i] >= iter' <=> i >= iter
    <3>1. CASE i < iter
      BY <1>1, <1>2, <2>1, <2>3, <3>1
    <3>2. CASE i >= p
      <4>1. f[i] = (i - p) + iter + 1
        BY <1>1, <1>2, <3>2
      <4>2. f[i] \in 1 .. Len(list') /\ f[i] > iter /\ (f[i] - iter) + p - 1 = i
        BY <1>1, <1>2, <2>3, <3>2, <4>1
      <4> HIDE DEF f
      <4>3. ~ f[i] < iter /\ f[i] # iter
        BY <1>1, <4>2
      <4>4. list'[f[i]] = list[(f[i] - iter) + p - 1]
        BY <2>3, <4>2, <4>3
      <4> QED
        BY <1>1, <1>2, <2>1, <3>2, <4>2, <4>4
    <3> QED
      BY <2>4, <3>1, <3>2
  <2>6. \A i \in Acts(list) : f[i] \in Acts(list')
    BY <1>2, <2>3, <2>5 DEF Acts
  <2>7. \A i, j \in Acts(list) : i < j => f[i] < f[j]
    BY <1>1, <1>2, <2>4
  <2>8. ASSUME NEW j \in Acts(list') PROVE \E i \in Acts(list) : f[i] = j
    <3>1. j \in 1 .. Len(list') /\ IsActivation(list'[j])
      BY <2>3 DEF Acts
    <3>2. CASE j < iter
      <4>1. j \in 1 .. Len(list) /\ list'[j] = list[j]
        BY <1>1, <2>3, <3>1, <3>2
      <4>2. j \in Acts(list)
        BY <1>1, <3>1, <4>1 DEF Acts
      <4> QED
        BY <3>2, <4>2
    <3>3. CASE j = iter
      BY <1>1, <2>3, <3>1, <3>3
    <3>4. CASE j > iter
      <4> DEFINE i == (j - iter) + p - 1
      <4>1. i \in 1 .. Len(list) /\ i >= iter /\ (i - p) + iter + 1 = j
        BY <1>1, <2>3, <3>1, <3>4
      <4>2. ~ j < iter /\ j # iter
        BY <1>1, <3>1, <3>4
      <4>3. list'[j] = list[i]
        BY <2>3, <3>1, <4>2
      <4>4. i \in Acts(list)
        BY <1>1, <3>1, <4>1, <4>3 DEF Acts
      <4>5. f[i] = j
        BY <1>1, <4>1, <4>4
      <4> QED
        BY <4>4, <4>5
    <3> QED
      BY <1>1, <3>1, <3>2, <3>3, <3>4
  <2>9. f \in [Acts(list) -> Acts(list')]
    BY <2>6
  <2> HIDE DEF f
  <2>10. Follows(list, list', iter, iter', f)
    BY <2>5, <2>7, <2>8, <2>9 DEF Follows
  <2>11. iter = End => iter' = End'
    BY <1>1, <2>1, <2>3 DEF End
  <2> QED
    BY <2>1, <2>10, <2>11 DEF Alike
<1> QED
  BY <1>3, <1>4, <1>5

\* A message that will have the menu drawn anew when it is handled: also the
\* overview, because the command before it, the errors, is another one.
Redraws(m, l) ==
  \/ m.is = "refresh"
  \/ m.is = "command" /\ m.replayed /\ IsActivation(m.command)
  \/ m = Said(Overview) /\ ErrorsLast(l)

Due == refreshes # {} \/ \E i \in 1 .. Len(queue) : Redraws(queue[i], list)

\* The menu is that of the list; or an indexing has ended, and the menu shows what
\* is gone or is about to be drawn.
Fresh == list # <<>> => Shows(list, iter, offset, menu)
Pending ==
  /\ iter = End
  /\ NoBundle(list)
  /\ Outdated \/ (Several(list) /\ Due)
MenuInv == Fresh \/ Pending

\* There is more than one element exactly if one lies behind another.
LEMMA MoreThanOne ==
  ASSUME NEW m \in Nat, NEW S \in SUBSET (1 .. m)
  PROVE  (\E i, j \in S : i < j) <=> Cardinality(S) > 1
<1>1. IsFiniteSet(S) /\ Cardinality(S) \in Nat
  BY Ranks
<1>2. ASSUME NEW i \in S, NEW j \in S, i < j PROVE Cardinality(S) > 1
  <2>1. IsFiniteSet(S \ {j}) /\ Cardinality(S \ {j}) = Cardinality(S) - 1
    BY <1>1, FS_RemoveElement
  <2>2. i \in S \ {j}
    BY <1>2
  <2>3. Cardinality(S \ {j}) # 0 /\ Cardinality(S \ {j}) \in Nat
    BY <2>1, <2>2, FS_EmptySet, FS_CardinalityType
  <2> QED
    BY <1>1, <2>1, <2>3
<1>3. ASSUME Cardinality(S) > 1 PROVE \E i, j \in S : i < j
  <2>1. 2 \in 1 .. Cardinality(S)
    BY <1>1, <1>3
  <2>2. PICK j \in S : Cardinality({i \in S : i < j}) = 2 - 1
    BY <2>1, Ranks
  <2>3. {i \in S : i < j} # {}
    BY <2>2, FS_EmptySet
  <2> QED
    BY <2>3
<1> QED
  BY <1>2, <1>3

\* An entry of a bundle that is gone stays outdated until the menu is drawn.
LEMMA OutdatedStays ==
  ASSUME Outdated, menu' = menu, list' \in Seq(Command), NoBundle(list')
  PROVE  Outdated'
<1>1. PICK n \in DOMAIN menu.entries : menu.entries[n].kind = "bundle"
  BY DEF Outdated
<1>2. \A i \in DOMAIN list' : list'[i].kind # "bundle"
  BY DEF NoBundle, Acts, IsActivation, Activating
<1> QED
  BY <1>1, <1>2 DEF Outdated

\* All activations but one are bundles.
OneStays(l) == \E a : \A i \in Acts(l) : i = a \/ l[i].kind = "bundle"

\* A menu of several activations, all but one of them bundles: the window of two
\* entries at least, or of all, has a bundle too.
LEMMA BundleShown ==
  ASSUME NEW l \in Seq(Command), NEW at, NEW o, NEW m, Shows(l, at, o, m),
         Several(l), OneStays(l)
  PROVE  \E n \in DOMAIN m.entries : m.entries[n].kind = "bundle"
<1> DEFINE N == Len(Named(l))
           t == Named(l)
           R == Reached(l, at)
           S == Skipped(l, at)
<1>1. PICK a : \A i \in Acts(l) : i = a \/ l[i].kind = "bundle"
  BY DEF OneStays
<1>2. \A i \in Acts(l) : i \in Nat
  BY ActsAre
<1>3. PICK c \in Acts(l) : l[c].kind = "bundle"
  <2>1. PICK x, y \in Acts(l) : x < y
    BY DEF Several
  <2>2. x # y
    BY <1>2, <2>1
  <2> QED
    BY <1>1, <2>1, <2>2
<1>4. c \in Names(l)
  BY <1>3, UndoRedoAssumption DEF Names, HasName
<1>5. /\ Len(l) \in Nat /\ Names(l) \in SUBSET (1 .. Len(l)) /\ t = Falling(Names(l))
      /\ N \in Nat /\ \A n \in 1 .. N : t[n] \in Names(l)
  BY NamedIs
<1>6. PICK d \in 1 .. N : t[d] = c
  <2>1. \E n \in 1 .. Len(Falling(Names(l))) : Falling(Names(l))[n] = c
    BY <1>4, <1>5, FallingFalls
  <2> QED
    BY <1>5, <2>1
<1>7. HistorySize \in Nat /\ HistorySize >= 2
  BY UndoRedoAssumption
<1>8. /\ R \in Nat /\ S \in Nat /\ R <= N
      /\ HistorySize <= R \/ R = N
      /\ (S = 0 /\ R <= HistorySize) \/ S = R - HistorySize
  BY WindowIs
<1>9. DOMAIN m.entries = 1 .. R - S /\ \A n \in 1 .. R - S : m.entries[n] = l[t[S + n]]
  BY DEF Shows, Window
<1>10. \A x, y \in 1 .. N : x < y => t[y] < t[x]
  BY <1>5, FallingFalls
<1>11. \A n \in 1 .. N : t[n] \in Acts(l) /\ t[n] \in Nat
  BY <1>2, <1>5 DEF Names
<1> HIDE DEF R, S, N, t
<1>12. CASE N = 1
  <2>1. R = 1 /\ S = 0 /\ d = 1
    BY <1>6, <1>7, <1>8, <1>12
  <2>2. 1 \in 1 .. R - S /\ S + 1 = d
    BY <2>1
  <2> QED
    BY <1>3, <1>6, <1>9, <2>2
<1>13. CASE N # 1
  <2>1. R - S >= 2
    BY <1>5, <1>6, <1>7, <1>8, <1>13
  <2>2. S + 1 \in 1 .. N /\ S + 2 \in 1 .. N /\ S + 1 < S + 2
    BY <1>5, <1>8, <2>1
  <2>3. /\ t[S + 2] < t[S + 1] /\ t[S + 1] \in Acts(l) /\ t[S + 2] \in Acts(l)
        /\ t[S + 1] \in Nat /\ t[S + 2] \in Nat
    BY <1>10, <1>11, <2>2
  <2>4. t[S + 1] # a \/ t[S + 2] # a
    BY <2>3
  <2>5. 1 \in 1 .. R - S /\ 2 \in 1 .. R - S
    BY <1>8, <2>1
  <2>6. l[t[S + 1]].kind = "bundle" \/ l[t[S + 2]].kind = "bundle"
    BY <1>1, <2>3, <2>4
  <2> QED
    BY <1>9, <2>5, <2>6
<1> QED
  BY <1>12, <1>13

\* The end of an indexing: what is left are the activations that are no bundles.
LEMMA FinishedMenu ==
  ASSUME Shape, MenuInv, NEW m, HistoryIndexingFinished(m)
  PROVE  MenuInv'
<1> DEFINE some == {i \in DOMAIN list : IsActivation(list[i]) /\ list[i].kind # "bundle"}
<1>1. /\ list' = Selected(list, some) /\ iter' = Len(list') + 1
      /\ refreshes' # {} /\ UNCHANGED <<offset, menu>>
  BY DEF HistoryIndexingFinished
<1>2. /\ Len(list) \in Nat /\ End = Len(list) + 1 /\ list \in Seq(Command)
      /\ iter \in 1 .. End /\ (iter = 1 => list = <<>>)
      /\ (list # <<>> => IsActivation(list[1]))
  BY DEF End, HistoryTypeOK, Shape
<1>3. some \in SUBSET (1 .. Len(list))
  BY <1>2
<1>4. \A i \in Acts(list) : i \in 1 .. Len(list) /\ (i \in some <=> list[i].kind # "bundle")
  BY <1>2 DEF Acts
<1>5. \A i \in some : i \in Acts(list) /\ IsActivation(list[i]) /\ list[i].kind # "bundle"
  BY DEF Acts
<1> HIDE DEF some
<1>6. IsFiniteSet(some) /\ Cardinality(some) \in Nat
  BY <1>2, <1>3, Ranks
<1>7. /\ list' \in Seq(Command) /\ Len(list') = Cardinality(some)
      /\ \A n \in 1 .. Len(list') : \E i \in some : list'[n] = list[i]
  <2>1. /\ Selected(list, some) \in Seq(Command)
        /\ Len(Selected(list, some)) = Cardinality(some)
        /\ \A n \in 1 .. Cardinality(some) : \E i \in some : Selected(list, some)[n] = list[i]
    BY <1>2, <1>3, SelectedIs
  <2> QED
    BY <1>1, <2>1
<1>8. \A n \in 1 .. Len(list') : IsActivation(list'[n]) /\ list'[n].kind # "bundle"
  BY <1>5, <1>7
<1>9. Acts(list') = 1 .. Len(list')
  BY <1>7, <1>8 DEF Acts
<1>10. NoBundle(list') /\ iter' = End'
  BY <1>1, <1>8, <1>9 DEF NoBundle, End
<1>11. CASE Len(list') = 0
  <2>1. list' = <<>>
    BY <1>7, <1>11
  <2> QED
    BY <2>1 DEF MenuInv, Fresh
<1>12. CASE Len(list') > 1
  <2>1. 1 \in Acts(list') /\ 2 \in Acts(list') /\ 1 < 2
    BY <1>6, <1>7, <1>9, <1>12
  <2>2. Several(list')
    BY <2>1 DEF Several
  <2> QED
    BY <1>1, <1>10, <2>2 DEF MenuInv, Pending, Due
<1>13. CASE Len(list') = 1
  <2>1. PICK a \in some : list'[1] = list[a]
    BY <1>7, <1>13
  <2>2. \A i \in some : i = a
    <3> SUFFICES ASSUME NEW i \in some, i # a PROVE FALSE
      OBVIOUS
    <3>1. \E x, y \in some : x < y
      BY <1>2, <1>3
    <3>2. Cardinality(some) > 1
      BY <1>2, <1>3, <3>1, MoreThanOne
    <3> QED
      BY <1>7, <1>13, <3>2
  <2>3. \A i \in Acts(list) : i = a \/ list[i].kind = "bundle"
    BY <1>4, <2>2
  <2>4. list # <<>> /\ iter >= 2 /\ 1 \in Acts(list)
    <3>1. a \in 1 .. Len(list)
      BY <1>3
    <3> QED
      BY <1>2, <3>1 DEF Acts
  <2>5. CASE ~ Several(list)
    <3>1. \A i \in Acts(list) : i = 1
      BY <1>2, <1>4, <2>4, <2>5 DEF Several
    <3>2. a = 1 /\ list'[1] = list[1] /\ Acts(list) = {1} /\ Acts(list') = {1}
      BY <1>5, <1>9, <1>13, <2>1, <2>4, <3>1
    <3> DEFINE f == [i \in {1} |-> 1]
    <3>3. Follows(list, list', iter, iter', f)
      BY <1>1, <1>2, <1>13, <2>4, <3>2 DEF Follows
    <3>4. Alike(list, list', iter, iter')
      BY <3>3 DEF Alike
    <3>5. CASE Fresh
      <4>1. Shows(list, iter, offset, menu)
        BY <2>4, <3>5 DEF Fresh
      <4>2. Shows(list', iter', offset, menu)
        <5>1. iter \in Int /\ iter' \in Int
          BY <1>1, <1>2, <1>7
        <5> QED
          BY <1>2, <1>7, <3>4, <4>1, <5>1, AlikeShows
      <4> QED
        BY <1>1, <4>2 DEF MenuInv, Fresh
    <3>6. CASE Pending
      <4>1. Outdated
        BY <2>5, <3>6 DEF Pending
      <4>2. Outdated'
        BY <1>1, <1>7, <1>10, <4>1, OutdatedStays
      <4> QED
        BY <1>10, <4>2 DEF MenuInv, Pending
    <3> QED
      BY <3>5, <3>6 DEF MenuInv
  <2>6. CASE Several(list)
    <3>1. Outdated'
      <4>1. CASE Fresh
        <5>1. Shows(list, iter, offset, menu)
          BY <2>4, <4>1 DEF Fresh
        <5>2. \E n \in DOMAIN menu.entries : menu.entries[n].kind = "bundle"
          <6>1. OneStays(list)
            BY <2>3 DEF OneStays
          <6> QED
            BY <1>2, <2>6, <5>1, <6>1, BundleShown
        <5>3. \A i \in DOMAIN list' : list'[i].kind # "bundle"
          BY <1>7, <1>8
        <5> QED
          BY <1>1, <5>2, <5>3 DEF Outdated
      <4>2. CASE Pending
        <5>1. \A i \in Acts(list) : i = a
          BY <2>3, <4>2 DEF Pending, NoBundle
        <5>2. FALSE
          BY <1>2, <1>4, <2>6, <5>1 DEF Several
        <5> QED
          BY <5>2
      <4> QED
        BY <4>1, <4>2 DEF MenuInv
    <3> QED
      BY <1>10, <3>1 DEF MenuInv, Pending
  <2> QED
    BY <2>5, <2>6
<1> QED
  BY <1>6, <1>7, <1>11, <1>12, <1>13

\* What waits goes on waiting, unless it is what is handled.
LEMMA StillDue ==
  ASSUME queue \in Seq(Queued), queue # <<>>, Due, ~ Redraws(Head(queue), list),
         queue' = Tail(queue), refreshes \subseteq refreshes',
         ErrorsLast(list) => ErrorsLast(list')
  PROVE  Due'
<1>1. CASE refreshes # {}
  BY <1>1 DEF Due
<1>2. CASE refreshes = {}
  <2>1. PICK i \in 1 .. Len(queue) : Redraws(queue[i], list)
    BY <1>2 DEF Due
  <2>2. i # 1
    BY <2>1
  <2>3. i - 1 \in 1 .. Len(queue') /\ queue'[i - 1] = queue[i]
    BY <2>2, HeadTailProperties
  <2>4. Redraws(queue'[i - 1], list')
    BY <2>1, <2>3 DEF Redraws
  <2> QED
    BY <2>3, <2>4 DEF Due
<1> QED
  BY <1>1, <1>2

\* What is appended, and what waited before it.
LEMMA AppendedDue ==
  ASSUME NEW waiting \in Seq(Queued), NEW m \in Queued, queue' = Append(waiting, m)
  PROVE  /\ Redraws(m, list') => Due'
         /\ \A i \in 1 .. Len(waiting) : Redraws(waiting[i], list') => Due'
<1>1. /\ Len(queue') = Len(waiting) + 1 /\ Len(waiting) \in Nat
      /\ queue'[Len(waiting) + 1] = m
      /\ \A i \in 1 .. Len(waiting) : queue'[i] = waiting[i]
  BY AppendProperties
<1>2. Len(waiting) + 1 \in 1 .. Len(queue')
      /\ \A i \in 1 .. Len(waiting) : i \in 1 .. Len(queue')
  BY <1>1
<1> QED
  BY <1>1, <1>2 DEF Due

\* A stretch that begins with an activation replays it.
LEMMA ReplayDraws ==
  ASSUME list \in Seq(Command), NEW from \in 1 .. Len(list),
         NEW to \in from + 1 .. End, IsActivation(list[from]),
         NEW waiting \in Seq(Queued), queue' = Replay(from, to, waiting)
  PROVE  Due'
<1> DEFINE s == SubSeq(list, from, to - 1)
           stretch == Condensed(s)
           t == [n \in DOMAIN stretch |-> Replayed(stretch[n])]
           some == {i \in DOMAIN s : ~ Replaced(s, i)}
<1>1. Len(list) \in Nat /\ End = Len(list) + 1
  BY DEF End
<1>2. s \in Seq(Command) /\ Len(s) \in Nat /\ Len(s) >= 1 /\ s[1] = list[from]
  <2>1. \A i \in from .. to - 1 : list[i] \in Command
    BY <1>1
  <2>2. /\ s \in Seq(Command)
        /\ Len(s) = IF from <= to - 1 THEN (to - 1) - from + 1 ELSE 0
        /\ \A i \in 1 .. (to - 1) - from + 1 : s[i] = list[from + i - 1]
    BY <1>1, <2>1, SubSeqProperties
  <2>3. 1 \in 1 .. (to - 1) - from + 1
    BY <1>1
  <2>4. s[1] = list[from + 1 - 1]
    BY <2>2, <2>3
  <2> QED
    BY <1>1, <2>2, <2>4
<1> HIDE DEF s
<1>3. stretch = Selected(s, some)
  BY DEF Condensed
<1>4. some \in SUBSET (1 .. Len(s))
  BY <1>2
<1>5. 1 \in some
  <2>1. s[1].kind \notin LastOnly
    BY <1>2 DEF IsActivation, Activating, LastOnly
  <2> QED
    BY <1>2, <2>1 DEF Replaced
<1> HIDE DEF some
<1>6. /\ stretch \in Seq(Command) /\ Len(stretch) \in Nat
      /\ Len(stretch) >= 1 /\ stretch[1] = s[1]
  <2>1. Cardinality(some) \in Nat /\ Cardinality(some) # 0
    BY <1>2, <1>4, <1>5, Ranks, FS_EmptySet
  <2>2. /\ Selected(s, some) \in Seq(Command)
        /\ Len(Selected(s, some)) = Cardinality(some)
        /\ Selected(s, some)[1] = s[1]
    BY <1>2, <1>4, <1>5, SelectedIs
  <2> QED
    BY <1>3, <2>1, <2>2
<1> HIDE DEF stretch
<1>7. 1 \in DOMAIN stretch /\ DOMAIN stretch = 1 .. Len(stretch)
  BY <1>6
<1>8. t[1] = Replayed(list[from])
  BY <1>2, <1>6, <1>7
<1>9. \A c \in Command : Replayed(c) \in Queued
  BY DEF Replayed, Again, Queued, Command
<1>10. t \in Seq(Queued) /\ Len(t) = Len(stretch)
  <2>1. t \in [1 .. Len(stretch) -> Queued]
    BY <1>6, <1>7, <1>9
  <2> QED
    BY <1>6, <2>1
<1>11. queue' = waiting \o t
  BY DEF Replay, stretch, s
<1> HIDE DEF t
<1>12. /\ Len(waiting) \in Nat /\ Len(queue') = Len(waiting) + Len(t)
       /\ queue'[Len(waiting) + 1] = t[1]
  <2>1. /\ Len(waiting \o t) = Len(waiting) + Len(t)
        /\ \A i \in 1 .. Len(waiting) + Len(t) : (waiting \o t)[i] =
             IF i <= Len(waiting) THEN waiting[i] ELSE t[i - Len(waiting)]
    BY <1>10, ConcatProperties
  <2>2. /\ Len(waiting) \in Nat /\ Len(waiting) + 1 \in 1 .. Len(waiting) + Len(t)
        /\ ~ Len(waiting) + 1 <= Len(waiting) /\ (Len(waiting) + 1) - Len(waiting) = 1
    BY <1>6, <1>10
  <2> QED
    BY <1>11, <2>1, <2>2
<1>13. Len(waiting) + 1 \in 1 .. Len(queue')
  BY <1>6, <1>10, <1>12
<1>14. Redraws(Replayed(list[from]), list')
  BY <1>2 DEF Redraws, Replayed, Again, IsActivation, Command
<1> QED
  BY <1>8, <1>12, <1>13, <1>14 DEF Due

\* What leaves list and menu as they are.
LEMMA SameMenu ==
  ASSUME UNCHANGED <<list, iter, offset, menu>>, MenuInv, Pending /\ Due => Due'
  PROVE  MenuInv'
<1>1. Fresh => Fresh'
  BY DEF Fresh
<1>2. Outdated => Outdated'
  BY DEF Outdated
<1>3. Pending => Pending'
  BY <1>2 DEF Pending, End
<1> QED
  BY <1>1, <1>3 DEF MenuInv

\* What draws the menu.
LEMMA DrawnMenu ==
  ASSUME ShowHistory(list', iter')
  PROVE  MenuInv'
<1>1. Shows(list', iter', offset', menu')
  BY ShowHistoryShows
<1> QED
  BY <1>1 DEF MenuInv, Fresh

\* The user, indexing, the Qt thread, another project.
LEMMA AroundMenu ==
  Shape /\ MenuInv
    /\ (UserActs \/ IndexingStarts \/ IndexingEnds \/ QtRefreshes \/ Clear)
  => MenuInv'
<1> SUFFICES ASSUME Shape, MenuInv,
                    UserActs \/ IndexingStarts \/ IndexingEnds \/ QtRefreshes
                      \/ Clear
             PROVE  MenuInv'
  OBVIOUS
<1>1. queue \in Seq(Queued)
  BY DEF Shape
<1>2. ASSUME NEW m, queue' = Append(queue, m), UNCHANGED <<list, refreshes>>
      PROVE  Due => Due'
  <2>1. /\ Len(queue') = Len(queue) + 1 /\ Len(queue) \in Nat
        /\ \A i \in 1 .. Len(queue) : queue'[i] = queue[i]
    BY <1>1, <1>2
  <2>2. \A i \in 1 .. Len(queue) : i \in 1 .. Len(queue')
    BY <2>1
  <2> QED
    BY <1>2, <2>1, <2>2 DEF Due
<1>3. CASE UserActs
  <2>1. PICK m : PushMessage(m)
    BY <1>3 DEF UserActs
  <2>2. queue' = Append(queue, m) /\ UNCHANGED <<list, iter, offset, menu, refreshes>>
    BY <2>1 DEF PushMessage
  <2> QED
    BY <1>2, <2>2, SameMenu
<1>4. CASE IndexingStarts
  <2>1. UNCHANGED <<list, iter, offset, menu, refreshes, queue>>
    BY <1>4 DEF IndexingStarts
  <2>2. Due => Due'
    BY <2>1 DEF Due
  <2> QED
    BY <2>1, <2>2, SameMenu
<1>5. CASE IndexingEnds
  <2>1. /\ queue' = Append(queue, [is |-> "finished"])
        /\ UNCHANGED <<list, iter, offset, menu, refreshes>>
    BY <1>5 DEF IndexingEnds
  <2> QED
    BY <1>2, <2>1, SameMenu
<1>6. CASE QtRefreshes
  <2>1. PICK b \in refreshes : queue' = Append(queue, [is |-> "refresh", after |-> b])
    BY <1>6 DEF QtRefreshes
  <2>2. [is |-> "refresh", after |-> b] \in Queued
    BY DEF Queued, Shape
  <2>3. Redraws([is |-> "refresh", after |-> b], list')
    BY DEF Redraws
  <2>4. Due'
    BY <1>1, <2>1, <2>2, <2>3, AppendedDue
  <2>5. UNCHANGED <<list, iter, offset, menu>>
    BY <1>6 DEF QtRefreshes
  <2> QED
    BY <2>4, <2>5, SameMenu
<1>7. CASE Clear
  BY <1>7 DEF Clear, MenuInv, Fresh
<1> QED
  BY <1>3, <1>4, <1>5, <1>6, <1>7

\* What the handler of a command makes of the menu.
LEMMA RecordedMenu ==
  ASSUME Shape, Shape', MenuInv, NEW m, m = Head(queue), queue # <<>>,
         ~ m.replayed, m.command \in Command, m.is = "command",
         HandleCommand(m.command), queue' = Tail(queue), UNCHANGED refreshes
  PROVE  MenuInv'
<1> DEFINE c == m.command
<1>1. /\ list \in Seq(Command) /\ list' \in Seq(Command) /\ queue \in Seq(Queued)
      /\ Len(list) \in Nat /\ End = Len(list) + 1 /\ iter \in 1 .. End
  BY DEF Shape, HistoryTypeOK, End
<1>2. ASSUME ~ IsActivation(c) PROVE MenuInv'
  <2>1. /\ Alike(list, list', iter, iter')
        /\ UNCHANGED <<offset, menu>>
        /\ iter = End => iter' = End'
    BY <1>2, RecordedAlike
  <2>2. /\ ErrorsLast(list) => ErrorsLast(list')
        /\ Several(list) => Several(list')
        /\ NoBundle(list) => NoBundle(list')
    BY <1>1, <2>1, AlikeKeeps
  <2>3. CASE Fresh
    <3>1. list = <<>> => list' = <<>>
      <4>1. ~ Overwrites(c) \/ list # <<>>
        BY <1>1 DEF Overwrites, SameMessageTypeAsLast
      <4>2. list = <<>> => iter = 1
        BY <1>1
      <4> QED
        BY <1>2, <4>1, <4>2 DEF HandleCommand
    <3>2. CASE list = <<>>
      BY <3>1, <3>2 DEF MenuInv, Fresh
    <3>3. CASE list # <<>>
      <4>1. Shows(list, iter, offset, menu)
        BY <2>3, <3>3 DEF Fresh
      <4>2. Shows(list', iter', offset, menu)
        <5>1. iter \in Int /\ iter' \in Int
          BY DEF Shape, HistoryTypeOK, End
        <5> QED
          BY <1>1, <2>1, <4>1, <5>1, AlikeShows
      <4> QED
        BY <2>1, <4>2 DEF MenuInv, Fresh
    <3> QED
      BY <3>2, <3>3
  <2>4. CASE Pending
    <3>1. iter' = End' /\ NoBundle(list')
      BY <2>1, <2>2, <2>4 DEF Pending
    <3>2. CASE Outdated
      <4>1. Outdated'
        BY <1>1, <2>1, <3>1, <3>2, OutdatedStays
      <4> QED
        BY <3>1, <4>1 DEF MenuInv, Pending
    <3>3. CASE Several(list) /\ Due
      <4>1. CASE ~ Redraws(m, list)
        <5>1. Due'
          BY <1>1, <2>2, <3>3, <4>1, StillDue
        <5> QED
          BY <2>2, <3>1, <3>3, <5>1 DEF MenuInv, Pending
      <4>2. CASE Redraws(m, list)
        <5>1. m = Said(Overview)
          BY <4>2 DEF Redraws
        <5> QED
          BY <1>2, <5>1 DEF Said, Overview, IsActivation, Activating
      <4> QED
        BY <4>1, <4>2
    <3> QED
      BY <2>4, <3>2, <3>3 DEF Pending
  <2> QED
    BY <2>3, <2>4 DEF MenuInv
<1>3. ASSUME IsActivation(c) PROVE MenuInv'
  <2>1. ~ Overwrites(c)
    BY <1>3, HistoryKinds DEF Overwrites, IsView
  <2>2. CASE Known(c)
    <3>1. UNCHANGED <<list, iter, offset, menu>>
      BY <2>1, <2>2 DEF HandleCommand
    <3>2. Pending /\ Due => ~ Redraws(m, list)
      <4> SUFFICES ASSUME Pending, Redraws(m, list) PROVE FALSE
        OBVIOUS
      <4>1. m = Said(Overview) /\ ErrorsLast(list)
        BY DEF Redraws
      <4>2. c.kind = "overview"
        BY <4>1 DEF Said, Overview
      <4>3. iter > 1 /\ list[iter - 1].kind = "overview" /\ iter = End
        <5>1. /\ iter > 1 /\ iter = End
              /\ MessageType(list[iter - 1].kind) = MessageType(c.kind)
          BY <2>2 DEF Known, SameMessageTypeAsLast, LastMessage, Pending
        <5> QED
          BY <4>2, <5>1, TypeIsKind
      <4>4. Len(list) \in Acts(list) /\ list[Len(list)].kind = "overview"
        BY <1>1, <4>3 DEF Acts, IsActivation, Activating
      <4>5. PICK i \in Acts(list) : list[i].kind = "errors" /\ \A j \in Acts(list) : j <= i
        BY <4>1 DEF ErrorsLast
      <4>6. i \in 1 .. Len(list) /\ Len(list) <= i
        BY <1>1, <4>4, <4>5 DEF Acts
      <4>7. i = Len(list)
        BY <1>1, <4>6
      <4> QED
        BY <4>4, <4>5, <4>7
    <3>3. Pending /\ Due => Due'
      <4> SUFFICES ASSUME Pending, Due PROVE Due'
        OBVIOUS
      <4>1. ErrorsLast(list) => ErrorsLast(list')
        BY <3>1
      <4> QED
        BY <1>1, <3>2, <4>1, StillDue
    <3> QED
      BY <3>1, <3>3, SameMenu
  <2>3. CASE ~ Known(c)
    <3>1. ShowHistory(list', iter')
      BY <1>3, <2>1, <2>3 DEF HandleCommand
    <3> QED
      BY <3>1, DrawnMenu
  <2> QED
    BY <2>2, <2>3
<1> QED
  BY <1>2, <1>3

\* The handlers.
LEMMA DeliverMenu == Shape /\ Shape' /\ MenuInv /\ Deliver => MenuInv'
<1> SUFFICES ASSUME Shape, Shape', MenuInv, Deliver PROVE MenuInv'
  OBVIOUS
<1>1. /\ Len(list) \in Nat /\ End = Len(list) + 1 /\ list \in Seq(Command)
      /\ iter \in 1 .. End /\ queue \in Seq(Queued)
  BY DEF End, HistoryTypeOK, Shape
<1> DEFINE m == Head(queue)
<1>2. m \in Queued /\ Tail(queue) \in Seq(Queued) /\ queue # <<>>
  BY <1>1, HeadTailProperties DEF Deliver
<1>3. \/ GetCommand(m) \/ Redo(m) \/ Undo(m) \/ ToPosition(m)
      \/ HistoryIndexingFinished(m) \/ RefreshUIState(m)
  BY DEF Deliver
\* An undo, a redo or a jump that does nothing.
<1>4. ASSUME m.is \notin {"command", "refresh"}, queue' = Tail(queue),
             UNCHANGED <<list, iter, offset, menu, refreshes>>
      PROVE  MenuInv'
  <2>1. ~ Redraws(m, list)
    BY <1>4 DEF Redraws, Said
  <2>2. ErrorsLast(list) => ErrorsLast(list')
    BY <1>4
  <2>3. Due => Due'
    BY <1>1, <1>2, <1>4, <2>1, <2>2, StillDue
  <2> QED
    BY <1>4, <2>3, SameMenu
<1>5. CASE GetCommand(m)
  <2>1. /\ m.is = "command" /\ queue' = Tail(queue) /\ UNCHANGED refreshes
        /\ IF m.replayed THEN HandleReplayed(m.command) ELSE HandleCommand(m.command)
    BY <1>5 DEF GetCommand
  <2>2. m.command \in Command
    BY <1>2, <2>1, QueuedIs
  <2>3. CASE ~ m.replayed
    BY <1>2, <2>1, <2>2, <2>3, RecordedMenu
  <2>4. CASE m.replayed /\ IsActivation(m.command)
    <3>1. ShowHistory(list', iter')
      BY <2>1, <2>4 DEF HandleReplayed
    <3> QED
      BY <3>1, DrawnMenu
  <2>5. CASE m.replayed /\ ~ IsActivation(m.command)
    <3>1. UNCHANGED <<list, iter, offset, menu>>
      BY <2>1, <2>5 DEF HandleReplayed
    <3>2. ~ Redraws(m, list)
      BY <2>1, <2>5 DEF Redraws, Said, Overview, IsActivation, Activating
    <3>3. Due => Due'
      BY <1>1, <1>2, <2>1, <3>1, <3>2, StillDue
    <3> QED
      BY <3>1, <3>3, SameMenu
  <2> QED
    BY <2>3, <2>4, <2>5
<1>6. CASE Redo(m)
  <2>1. m.is = "redo" /\ UNCHANGED <<list, refreshes>>
    BY <1>6 DEF Redo
  <2>2. CASE iter = End
    BY <1>4, <1>6, <2>1, <2>2 DEF Redo
  <2>3. CASE iter # End
    <3>1. ShowHistory(list', iter')
      BY <1>6, <2>3 DEF Redo
    <3> QED
      BY <3>1, DrawnMenu
  <2> QED
    BY <2>2, <2>3
<1>7. CASE Undo(m)
  <2>1. m.is = "undo" /\ UNCHANGED <<list, refreshes>>
    BY <1>7 DEF Undo
  <2>2. CASE queue' = Tail(queue) /\ UNCHANGED <<iter, offset, menu>>
    BY <1>4, <2>1, <2>2
  <2>3. CASE ShowHistory(list, iter')
    <3>1. ShowHistory(list', iter')
      BY <2>1, <2>3
    <3> QED
      BY <3>1, DrawnMenu
  <2> QED
    BY <1>7, <2>2, <2>3 DEF Undo
<1>8. CASE ToPosition(m)
  <2>1. ShowHistory(list, iter') /\ UNCHANGED list
    BY <1>8 DEF ToPosition
  <2>2. ShowHistory(list', iter')
    BY <2>1
  <2> QED
    BY <2>2, DrawnMenu
<1>9. CASE HistoryIndexingFinished(m)
  BY <1>9, FinishedMenu
<1>10. CASE RefreshUIState(m)
  <2> DEFINE start == LastActivation(iter)
  <2>1. UNCHANGED <<list, iter, offset, menu, refreshes>>
    BY <1>10 DEF RefreshUIState
  <2>2. CASE Fresh
    <3>1. Fresh'
      BY <2>1, <2>2 DEF Fresh
    <3> QED
      BY <3>1 DEF MenuInv
  <2>3. CASE Pending /\ Outdated
    <3>1. Outdated'
      BY <2>1, <2>3 DEF Outdated
    <3>2. Pending'
      BY <2>1, <2>3, <3>1 DEF Pending, End
    <3> QED
      BY <3>2 DEF MenuInv
  <2>4. CASE Pending /\ Several(list)
    <3>1. PICK a, b \in Acts(list) : a < b
      BY <2>4 DEF Several
    <3>2. /\ iter = End /\ a \in 1 .. Len(list) /\ b \in 1 .. Len(list)
          /\ IsActivation(list[a]) /\ IsActivation(list[b])
      BY <1>1, <2>4 DEF Pending, Acts
    <3>3. /\ start \in 1 .. iter
          /\ \/ start < iter /\ IsActivation(list[start])
             \/ start = 1 /\ \A k \in 1 .. iter - 1 : ~ IsActivation(list[k])
          /\ \A k \in start + 1 .. iter - 1 : ~ IsActivation(list[k])
      BY <1>1, LastActivationIs
    <3> HIDE DEF start
    <3>4. /\ start \in 1 .. Len(list) /\ IsActivation(list[start])
          /\ \A k \in start + 1 .. Len(list) : ~ IsActivation(list[k])
      BY <1>1, <3>2, <3>3
    <3>5. start # 1
      BY <1>1, <3>1, <3>2, <3>4
    <3>6. \/ /\ list[start].kind = "errors"
             /\ queue' = Append(Tail(queue), Said(Overview))
          \/ queue' = Replay(start, iter, Tail(queue))
      BY <1>10, <3>5 DEF RefreshUIState, start
    <3>7. Due'
      <4>1. CASE /\ list[start].kind = "errors"
                 /\ queue' = Append(Tail(queue), Said(Overview))
        <5>1. ErrorsLast(list)
          <6>1. start \in Acts(list)
            BY <1>1, <3>4 DEF Acts
          <6>2. \A k \in Acts(list) : k <= start
            BY <1>1, <3>4 DEF Acts
          <6> QED
            BY <4>1, <6>1, <6>2 DEF ErrorsLast
        <5>2. Redraws(Said(Overview), list')
          BY <2>1, <5>1 DEF Redraws
        <5>3. Said(Overview) \in Queued
          BY DEF Said, Overview, Queued, Command, AllKinds, Activating
        <5> QED
          BY <1>2, <4>1, <5>2, <5>3, AppendedDue
      <4>2. CASE queue' = Replay(start, iter, Tail(queue))
        <5>1. iter \in start + 1 .. End
          BY <1>1, <3>2, <3>4
        <5> QED
          BY <1>1, <1>2, <3>4, <4>2, <5>1, ReplayDraws
      <4> QED
        BY <3>6, <4>1, <4>2
    <3> QED
      BY <2>1, <3>7, SameMenu
  <2> QED
    BY <2>2, <2>3, <2>4 DEF MenuInv, Pending
<1> QED
  BY <1>3, <1>5, <1>6, <1>7, <1>8, <1>9, <1>10

\* Every step keeps it.
LEMMA MenuAlways == HistorySpec => []MenuInv
<1>1. HistoryInit => MenuInv
  BY DEF HistoryInit, MenuInv, Fresh
<1>2. Shape /\ Shape' /\ MenuInv /\ [HistoryNext]_historyVars => MenuInv'
  <2> SUFFICES ASSUME Shape, Shape', MenuInv, [HistoryNext]_historyVars PROVE MenuInv'
    OBVIOUS
  <2>1. CASE UNCHANGED historyVars
    <3>1. UNCHANGED <<list, iter, offset, menu, queue, refreshes>>
      BY <2>1 DEF historyVars
    <3>2. Due => Due'
      BY <3>1 DEF Due
    <3> QED
      BY <3>1, <3>2, SameMenu
  <2>2. CASE HistoryNext
    BY <2>2, AroundMenu, DeliverMenu DEF HistoryNext
  <2> QED
    BY <2>1, <2>2
<1> QED
  BY <1>1, <1>2, ShapeAlways, PTL DEF HistorySpec

\* An entry of the menu is behind as many activations at least as entries; and if
\* all of these are listed, behind just as many.
LEMMA NamedIsNewest ==
  ASSUME NEW l \in Seq(Command), NEW n \in 1 .. Len(Named(l))
  PROVE  \E m \in n .. Len(Newest(l)) :
           /\ Newest(l)[m] = Named(l)[n]
           /\ (\A j \in 1 .. n : HasName(l[Newest(l)[j]])) => m = n
<1> DEFINE A == Acts(l)
           B == Names(l)
           i == Named(l)[n]
           m == Cardinality(Higher(A, i)) + 1
           a == Falling(A)[n]
<1>1. /\ Len(l) \in Nat /\ A \in SUBSET (1 .. Len(l)) /\ Newest(l) = Falling(A)
      /\ B \in SUBSET (1 .. Len(l)) /\ B \in SUBSET A /\ Named(l) = Falling(B)
      /\ i \in B /\ i \in A
  BY ActsAre, NamedIs DEF Newest, Acts
<1>2. /\ Len(Named(l)) \in Nat /\ n \in Nat /\ n >= 1 /\ Cardinality(Higher(B, i)) = n - 1
  BY <1>1, FallingIs
<1>3. /\ m \in 1 .. Len(Newest(l)) /\ Newest(l)[m] = i
  BY <1>1, FallingFalls
<1>4. IsFiniteSet(A) /\ IsFiniteSet(B)
  BY <1>1, Ranks
<1>5. IsFiniteSet(Higher(A, i)) /\ Cardinality(Higher(A, i)) \in Nat
  <2>1. \A j \in A : j \in Nat
    BY <1>1
  <2> QED
    BY <1>4, <2>1, FewerAbove
<1>6. \A j, k : /\ k \in Higher(A, j) <=> k \in A /\ k > j
                /\ k \in Higher(B, j) <=> k \in B /\ k > j
  BY DEF Higher
<1>7. m >= n
  <2>1. Higher(B, i) \subseteq Higher(A, i)
    BY <1>1, <1>6
  <2>2. Cardinality(Higher(B, i)) <= Cardinality(Higher(A, i))
    BY <1>5, <2>1, FS_Subset
  <2> QED
    BY <1>2, <1>5, <2>2
<1>8. Len(Newest(l)) \in Nat /\ m \in n .. Len(Newest(l))
  BY <1>1, <1>2, <1>3, <1>7, FallingIs
<1>9. \A k \in A : k \in B <=> HasName(l[k])
  BY DEF Names
<1> HIDE DEF A, B, i, m
<1>10. ASSUME \A j \in 1 .. n : HasName(l[Newest(l)[j]]) PROVE m = n
  <2>1. n \in 1 .. Len(Falling(A))
    BY <1>1, <1>2, <1>8
  <2>2. a \in A /\ Cardinality(Higher(A, a)) = n - 1
    BY <1>1, <2>1, FallingIs
  <2>3. \A k \in A : k \in Nat
    BY <1>1
  <2>4. ASSUME NEW k \in A, k >= a PROVE k \in B
    <3>1. PICK j \in 1 .. Len(Falling(A)) : Falling(A)[j] = k
      BY <1>1, FallingFalls
    <3>2. ~ n < j
      <4>1. n < j => Falling(A)[j] < Falling(A)[n]
        BY <1>1, <2>1, FallingFalls
      <4> QED
        BY <2>2, <2>3, <2>4, <3>1, <4>1
    <3>3. j \in 1 .. n
      BY <1>2, <1>8, <3>1, <3>2, <1>1
    <3>4. HasName(l[k])
      BY <1>1, <1>10, <3>1, <3>3
    <3> QED
      BY <1>9, <3>4
  <2>5. a \in B /\ a \in Nat
    BY <2>2, <2>3, <2>4
  <2>6. Higher(B, a) = Higher(A, a)
    <3>1. \A k : k \in Higher(A, a) => k \in B /\ k > a
      <4> SUFFICES ASSUME NEW k, k \in Higher(A, a) PROVE k \in B /\ k > a
        OBVIOUS
      <4>1. k \in A /\ k > a
        BY <1>6
      <4>2. k \in Nat /\ k >= a
        BY <2>3, <2>5, <4>1
      <4> QED
        BY <2>4, <4>1, <4>2
    <3>2. \A k : k \in Higher(B, a) => k \in Higher(A, a)
      BY <1>1, <1>6
    <3>3. \A k : k \in Higher(A, a) => k \in Higher(B, a)
      BY <1>6, <3>1
    <3>4. \A k : k \in Higher(B, a) <=> k \in Higher(A, a)
      BY <3>2, <3>3
    <3>5. Higher(B, a) \subseteq B /\ Higher(A, a) \subseteq A
      BY <1>6
    <3> QED
      BY <3>4, <3>5
  <2>7. Cardinality(Higher(B, a)) + 1 = n
    BY <1>2, <2>2, <2>6
  <2>8. Falling(B)[Cardinality(Higher(B, a)) + 1] = a
    BY <1>1, <2>5, FallingFalls
  <2>9. i = a
    BY <1>1, <2>7, <2>8 DEF i
  <2> QED
    BY <1>2, <2>2, <2>9 DEF m
<1> QED
  BY <1>3, <1>8, <1>10 DEF i

\* A menu that is that of the list leads where it says.
LEMMA FreshLeadsThere ==
  ASSUME Shape, list # <<>>, Shows(list, iter, offset, menu)
  PROVE  MenuLeadsThere
<1> DEFINE t == Newest(list)
           u == Named(list)
           N == Len(t)
           M == Len(u)
           A == Ahead(list, iter)
           R == Reached(list, iter)
           S == Skipped(list, iter)
           F == Full(list, iter)
           p == LastActivation(iter)
           AllListed(n) == \A m \in 1 .. n : HasName(list[t[m]])
<1>1. /\ Len(list) \in Nat /\ End = Len(list) + 1 /\ list \in Seq(Command)
      /\ iter \in 1 .. End /\ iter # 1 /\ IsActivation(list[1])
  BY DEF End, HistoryTypeOK, Shape
<1>2. /\ DOMAIN t = 1 .. N /\ N \in Nat
      /\ \A n \in 1 .. N : t[n] \in 1 .. Len(list) /\ IsActivation(list[t[n]])
  BY <1>1, NewestIs
<1>3. p \in 1 .. iter - 1 /\ IsActivation(list[p])
      /\ \A k \in p + 1 .. iter - 1 : ~ IsActivation(list[k])
  <2>1. 1 \in 1 .. iter - 1
    BY <1>1
  <2> QED
    BY <1>1, <2>1, LastActivationIs
<1> HIDE DEF p
<1>4. p \in Acts(list)
  BY <1>1, <1>3 DEF Acts
<1>5. PICK b \in 1 .. N : t[b] = p
  BY <1>1, <1>4, NewestFalls
<1>6. {n \in DOMAIN t : t[n] >= iter} = 1 .. b - 1
  <2>1. ASSUME NEW n \in 1 .. N, n < b PROVE t[n] >= iter
    <3>1. t[n] > p
      BY <1>1, <1>5, <2>1, NewestFalls
    <3>2. t[n] \in 1 .. Len(list) /\ IsActivation(list[t[n]])
      BY <1>2
    <3> QED
      BY <1>1, <1>3, <3>1, <3>2
  <2>2. ASSUME NEW n \in 1 .. N, n >= b PROVE ~ t[n] >= iter
    <3>1. t[n] <= p
      <4>1. CASE n = b
        BY <1>1, <1>3, <1>5, <4>1
      <4>2. CASE b < n
        <5>1. t[n] < t[b]
          BY <1>1, <4>2, NewestFalls
        <5> QED
          BY <1>1, <1>2, <1>3, <1>5, <5>1
      <4> QED
        BY <1>2, <2>2, <4>1, <4>2
    <3> QED
      BY <1>1, <1>2, <1>3, <3>1
  <2> QED
    BY <1>2, <2>1, <2>2
<1>7. A = b - 1
  <2>1. Cardinality(1 .. b - 1) = b - 1
    BY <1>2, FS_Interval
  <2> QED
    BY <1>6, <2>1 DEF Ahead
<1>8. HistorySize \in Nat /\ HistorySize >= 2
  BY UndoRedoAssumption
<1>9. /\ R \in Nat /\ S \in Nat /\ R <= M /\ M \in Nat
      /\ (S = 0 /\ R <= HistorySize) \/ S = R - HistorySize
  BY <1>1, WindowIs
<1>10. /\ offset = S /\ menu.current = A - S
       /\ DOMAIN menu.entries = 1 .. R - S
       /\ \A n \in 1 .. R - S : menu.entries[n] = list[u[S + n]]
  BY DEF Shows, Window
<1>11. DOMAIN u = 1 .. M /\ \A n \in 1 .. M : u[n] \in 1 .. Len(list) /\ u[n] \in Names(list)
  BY <1>1, NamedIs
<1>12. \A n \in 1 .. M : \E m \in n .. N : t[m] = u[n] /\ (AllListed(n) => m = n)
  BY <1>1, NamedIsNewest
<1>13. \A m \in 1 .. N : HasName(list[t[m]]) => \E n \in 1 .. M : u[n] = t[m]
  <2> SUFFICES ASSUME NEW m \in 1 .. N, HasName(list[t[m]]) PROVE \E n \in 1 .. M : u[n] = t[m]
    OBVIOUS
  <2>1. t[m] \in Names(list)
    BY <1>1, NewestIs DEF Names
  <2>2. /\ Len(list) \in Nat /\ Names(list) \in SUBSET (1 .. Len(list))
        /\ u = Falling(Names(list))
    BY <1>1, NamedIs
  <2>3. \E n \in 1 .. Len(Falling(Names(list))) : Falling(Names(list))[n] = t[m]
    BY <2>1, <2>2, FallingFalls
  <2> QED
    BY <2>2, <2>3
<1>14. \A m, n \in 1 .. N : m < n => t[n] < t[m]
  BY <1>1, NewestFalls
<1>15. \A m, n \in 1 .. M : m < n => u[n] < u[m]
  <2>1. /\ Len(list) \in Nat /\ Names(list) \in SUBSET (1 .. Len(list))
        /\ u = Falling(Names(list))
    BY <1>1, NamedIs
  <2> QED
    BY <2>1, FallingFalls
<1>16. /\ F \in SUBSET (1 .. M)
       /\ \A n \in 1 .. M : n \in F <=> n >= HistorySize /\ u[n] < iter /\ n # A + 1
       /\ F = {} => R = M
       /\ F # {} => R \in F /\ \A n \in F : R <= n
  <2>1. F \in SUBSET (1 .. M)
    BY <1>11 DEF Full
  <2>2. \A n \in 1 .. M : n \in F <=> n >= HistorySize /\ u[n] < iter /\ n # A + 1
    BY <1>11 DEF Full
  <2>3. R = IF F = {} THEN M ELSE First(F)
    BY DEF Reached
  <2>4. F # {} => First(F) \in F /\ \A n \in F : First(F) <= n
    BY <1>9, <2>1, FirstIs
  <2> QED
    BY <2>1, <2>2, <2>3, <2>4
<1> HIDE DEF t, u, N, M, A, R, S, F
<1>17. ASSUME NEW n \in DOMAIN menu.entries
       PROVE  \E m \in n + offset .. N : /\ menu.entries[n] = list[t[m]]
                                         /\ AllListed(n + offset) => m = n + offset
  <2>1. n \in 1 .. R - S /\ n + offset = S + n /\ S + n \in 1 .. M
    BY <1>9, <1>10
  <2>2. PICK m \in S + n .. N : t[m] = u[S + n] /\ (AllListed(S + n) => m = S + n)
    BY <1>12, <2>1
  <2>3. menu.entries[n] = list[u[S + n]]
    BY <1>10, <2>1
  <2> QED
    BY <2>1, <2>2, <2>3
<1>18. menu.current + offset + 1 = b
  BY <1>2, <1>5, <1>7, <1>9, <1>10
<1>19. ASSUME AllListed(b)
       PROVE  /\ menu.current + 1 \in DOMAIN menu.entries
              /\ (\E m \in b + 1 .. N : HasName(list[t[m]]))
                   => menu.current + 2 \in DOMAIN menu.entries
  <2>1. \A n \in 1 .. M : n <= b => u[n] = t[n]
    <3> SUFFICES ASSUME NEW n \in 1 .. M, n <= b PROVE u[n] = t[n]
      OBVIOUS
    <3>1. \A m \in 1 .. n : m \in 1 .. b
      BY <1>2, <1>9
    <3>2. AllListed(n)
      BY <1>19, <3>1
    <3> QED
      BY <1>12, <3>2
  <2>2. b \in 1 .. M /\ u[b] = p
    <3>1. b \in 1 .. b /\ b \in Nat
      BY <1>2
    <3>2. HasName(list[t[b]])
      BY <1>19, <3>1
    <3>3. PICK n \in 1 .. M : u[n] = t[b]
      BY <1>13, <3>2
    <3>4. n \in Nat /\ n <= N /\ \E m \in n .. N : t[m] = u[n]
      BY <1>2, <1>9, <1>12
    <3>5. PICK m \in n .. N : t[m] = t[b]
      BY <3>3, <3>4
    <3>6. m \in 1 .. N /\ ~ m < b /\ ~ b < m
      BY <1>2, <1>9, <1>14, <3>4, <3>5
    <3>7. n <= b
      BY <1>2, <3>4, <3>5, <3>6
    <3>8. ~ n < b
      BY <1>2, <1>9, <1>14, <2>1, <3>3, <3>7
    <3>9. n = b
      BY <1>2, <3>4, <3>7, <3>8
    <3> QED
      BY <1>5, <3>3, <3>9
  <2>3. \A n \in F : n >= b + 1
    <3> SUFFICES ASSUME NEW n \in F PROVE n >= b + 1
      OBVIOUS
    <3>1. n \in 1 .. M /\ u[n] < iter /\ n # b
      BY <1>2, <1>5, <1>7, <1>16
    <3>2. ~ n < b
      <4>1. SUFFICES ASSUME n < b PROVE FALSE
        OBVIOUS
      <4>2. n \in 1 .. N /\ n \in 1 .. b - 1 /\ u[n] = t[n]
        BY <1>2, <1>5, <2>1, <3>1, <4>1
      <4>3. t[n] >= iter
        BY <1>6, <4>2
      <4> QED
        BY <1>1, <1>2, <3>1, <4>2, <4>3
    <3> QED
      BY <1>2, <1>9, <3>1, <3>2
  <2>4. \A n \in 1 .. M : n >= b => u[n] < iter
    <3> SUFFICES ASSUME NEW n \in 1 .. M, n >= b PROVE u[n] < iter
      OBVIOUS
    <3>1. u[n] <= p /\ u[n] \in Nat
      BY <1>2, <1>3, <1>9, <1>11, <1>15, <2>2
    <3> QED
      BY <1>1, <1>3, <3>1
  <2>5. \A n \in 1 .. M : n >= HistorySize /\ n >= b + 1 => n \in F
    BY <1>2, <1>7, <1>9, <1>16, <2>4
  <2>6. R <= HistorySize \/ R <= b + 1
    <3>1. SUFFICES ASSUME R > HistorySize, R > b + 1 PROVE FALSE
      BY <1>2, <1>8, <1>9
    <3>2. R - 1 \in 1 .. M /\ R - 1 >= HistorySize /\ R - 1 >= b + 1
      BY <1>2, <1>8, <1>9, <3>1
    <3>3. R - 1 \in F
      BY <2>5, <3>2
    <3>4. R <= R - 1
      BY <1>16, <3>3
    <3> QED
      BY <1>9, <3>4
  <2>7. R >= b
    <3>1. CASE F = {}
      BY <1>2, <1>9, <1>16, <2>2, <3>1
    <3>2. CASE F # {}
      BY <1>2, <1>9, <1>16, <2>3, <3>2
    <3> QED
      BY <3>1, <3>2
  <2>8. S <= A /\ A + 1 <= R
    BY <1>2, <1>7, <1>8, <1>9, <2>6, <2>7
  <2>9. menu.current + 1 \in DOMAIN menu.entries
    BY <1>2, <1>7, <1>9, <1>10, <2>8
  <2>10. ASSUME NEW m \in b + 1 .. N, HasName(list[t[m]]) PROVE R >= b + 1
    <3>1. m \in 1 .. N /\ b < m
      BY <1>2
    <3>2. PICK n \in 1 .. M : u[n] = t[m]
      BY <1>13, <2>10, <3>1
    <3>3. t[m] < t[b]
      BY <1>14, <3>1
    <3>4. ~ n <= b
      <4>1. SUFFICES ASSUME n <= b PROVE FALSE
        OBVIOUS
      <4>2. u[n] = t[n] /\ n \in 1 .. N
        BY <1>2, <1>9, <2>1, <4>1
      <4>3. n = b \/ n < b
        BY <1>2, <1>9, <4>1
      <4>4. n < b => t[b] < t[n]
        BY <1>14, <4>2
      <4>5. t[n] \in Nat /\ t[b] \in Nat
        BY <1>2, <4>2
      <4> QED
        BY <3>2, <3>3, <4>2, <4>3, <4>4, <4>5
    <3>5. M >= b + 1
      BY <1>2, <1>9, <3>4
    <3>6. CASE F = {}
      BY <1>16, <3>5, <3>6
    <3>7. CASE F # {}
      BY <1>16, <2>3, <3>7
    <3> QED
      BY <3>6, <3>7
  <2>11. R >= b + 1 => menu.current + 2 \in DOMAIN menu.entries
    BY <1>2, <1>7, <1>9, <1>10, <2>8
  <2> QED
    BY <2>9, <2>10, <2>11
<1> QED
  BY <1>2, <1>5, <1>17, <1>18, <1>19 DEF MenuLeadsThere, t, N, p

\* Whenever nothing waits, an entry of the menu leads to what it shows, or, behind
\* an activation that is not listed, to a newer one; unless an end of indexing left
\* in it a bundle that is gone.  For every size of the menu from two entries on,
\* and however fast the user acts.
THEOREM MenuLeads == HistorySpec => []MenuLeadsThere
<1>1. Shape /\ MenuInv => MenuLeadsThere
  <2> SUFFICES ASSUME Shape, MenuInv PROVE MenuLeadsThere
    OBVIOUS
  <2>1. CASE AtRest /\ list # <<>> /\ ~ Outdated
    <3>1. queue = <<>> /\ refreshes = {}
      BY <2>1 DEF AtRest
    <3>2. ~ Due
      BY <3>1 DEF Due
    <3>3. Fresh
      BY <2>1, <3>2 DEF MenuInv, Pending
    <3>4. Shows(list, iter, offset, menu)
      BY <2>1, <3>3 DEF Fresh
    <3> QED
      BY <2>1, <3>4, FreshLeadsThere
  <2>2. CASE ~ (AtRest /\ list # <<>> /\ ~ Outdated)
    BY <2>2 DEF MenuLeadsThere
  <2> QED
    BY <2>1, <2>2
<1> QED
  BY <1>1, ShapeAlways, MenuAlways, PTL
-----------------------------------------------------------------------------
(* What is shown.  Commands picked from a sequence, in their order.        *)

\* f lists the positions D from the first to the last.
Picks(f, m, D) ==
  /\ m \in Nat /\ D \in SUBSET Nat
  /\ f \in [1 .. m -> D]
  /\ \A i, j \in 1 .. m : i < j => f[i] < f[j]
  /\ \A d \in D : \E i \in 1 .. m : f[i] = d

\* Positions have one such list, and it counts those before each.
LEMMA PicksCount ==
  ASSUME NEW f, NEW m, NEW D, Picks(f, m, D)
  PROVE  /\ m = Cardinality(D)
         /\ \A k \in 1 .. m : Cardinality({j \in D : j < f[k]}) = k - 1
<1>1. /\ m \in Nat /\ f \in [1 .. m -> D] /\ \A d \in D : d \in Nat
      /\ \A i, j \in 1 .. m : i < j => f[i] < f[j]
      /\ \A d \in D : \E i \in 1 .. m : f[i] = d
  BY DEF Picks
<1>2. \A i \in 1 .. m : f[i] \in D /\ f[i] \in Nat
  BY <1>1
<1>3. ASSUME NEW k \in 0 .. m, NEW S \in SUBSET D,
             \A i \in 1 .. k : f[i] \in S,
             \A d \in S : \E i \in 1 .. k : f[i] = d
      PROVE  Cardinality(S) = k
  <2> DEFINE g == [i \in 1 .. k |-> f[i]]
  <2>1. \A i \in 1 .. k : i \in 1 .. m
    BY <1>1
  <2>2. g \in [1 .. k -> S]
    BY <1>3
  <2>3. \A i, j \in 1 .. k : g[i] = g[j] => i = j
    <3> SUFFICES ASSUME NEW i \in 1 .. k, NEW j \in 1 .. k, i < j PROVE f[i] # f[j]
      <4>1. \A i, j \in 1 .. k : i = j \/ i < j \/ j < i
        BY <1>3
      <4> QED
        BY <4>1
    <3> QED
      BY <1>1, <1>2, <2>1
  <2>4. \A d \in S : \E i \in 1 .. k : g[i] = d
    BY <1>3
  <2> HIDE DEF g
  <2>5. g \in Bijection(1 .. k, S)
    BY <2>2, <2>3, <2>4 DEF Bijection, Injection, IsInjective, Surjection
  <2>6. ExistsBijection(1 .. k, S)
    BY <2>5 DEF ExistsBijection
  <2>7. IsFiniteSet(1 .. k) /\ Cardinality(1 .. k) = k
    <3>1. k \in Int /\ (IF 1 > k THEN 0 ELSE k - 1 + 1) = k
      BY <1>1
    <3> QED
      BY <3>1, FS_Interval
  <2> QED
    BY <2>6, <2>7, FS_Bijection
<1>4. m = Cardinality(D)
  <2>1. m \in 0 .. m
    BY <1>1
  <2> QED
    BY <1>1, <1>2, <1>3, <2>1
<1>5. ASSUME NEW k \in 1 .. m PROVE Cardinality({j \in D : j < f[k]}) = k - 1
  <2> DEFINE S == {j \in D : j < f[k]}
  <2>1. k - 1 \in 0 .. m /\ \A i \in 1 .. k - 1 : i \in 1 .. m /\ i < k
    BY <1>1
  <2>2. \A i \in 1 .. k - 1 : f[i] \in S
    BY <1>1, <1>2, <2>1
  <2>3. \A d \in S : \E i \in 1 .. k - 1 : f[i] = d
    <3> SUFFICES ASSUME NEW d \in D, d < f[k] PROVE \E i \in 1 .. k - 1 : f[i] = d
      OBVIOUS
    <3>1. PICK i \in 1 .. m : f[i] = d
      BY <1>1
    <3>2. ~ i = k /\ ~ k < i
      BY <1>1, <1>2, <3>1
    <3>3. i \in 1 .. k - 1
      BY <1>1, <3>2
    <3> QED
      BY <3>1, <3>3
  <2> HIDE DEF S
  <2>4. Cardinality(S) = k - 1
    <3>1. S \in SUBSET D
      BY DEF S
    <3> QED
      BY <1>3, <2>1, <2>2, <2>3, <3>1
  <2> QED
    BY <2>4 DEF S
<1> QED
  BY <1>4, <1>5

\* Selected takes the commands in the order of that list.
LEMMA SelectedPicks ==
  ASSUME NEW s, NEW f, NEW m, NEW D, Picks(f, m, D)
  PROVE  Selected(s, D) = [k \in 1 .. m |-> s[f[k]]]
<1> DEFINE Below(i) == Cardinality({j \in D : j < i})
           nth == [k \in 1 .. Cardinality(D) |-> CHOOSE i \in D : Below(i) = k - 1]
<1>1. /\ m \in Nat /\ f \in [1 .. m -> D]
      /\ \A d \in D : \E i \in 1 .. m : f[i] = d
  BY DEF Picks
<1>2. m = Cardinality(D) /\ \A k \in 1 .. m : Below(f[k]) = k - 1
  BY PicksCount
<1>3. Selected(s, D) = [k \in DOMAIN nth |-> s[nth[k]]]
  BY DEF Selected
<1> HIDE DEF Below
<1>4. \A k \in 1 .. m : nth[k] = f[k]
  <2> SUFFICES ASSUME NEW k \in 1 .. m PROVE (CHOOSE i \in D : Below(i) = k - 1) = f[k]
    BY <1>2
  <2>1. f[k] \in D /\ Below(f[k]) = k - 1
    BY <1>1, <1>2
  <2>2. ASSUME NEW i \in D, Below(i) = k - 1 PROVE i = f[k]
    <3>1. PICK h \in 1 .. m : f[h] = i
      BY <1>1
    <3>2. h - 1 = k - 1
      BY <1>2, <2>2, <3>1
    <3>3. h = k
      BY <1>1, <3>2
    <3> QED
      BY <3>1, <3>3
  <2> QED
    BY <2>1, <2>2
<1>5. DOMAIN nth = 1 .. m
  BY <1>2
<1> HIDE DEF nth
<1> QED
  BY <1>3, <1>4, <1>5

\* There is one.
LEMMA PicksExist ==
  ASSUME NEW n \in Nat, NEW D \in SUBSET (1 .. n)
  PROVE  \E f, m : Picks(f, m, D)
<1> DEFINE Below(i) == {j \in D : j < i}
           m == Cardinality(D)
           f == [k \in 1 .. m |-> CHOOSE i \in D : Cardinality(Below(i)) = k - 1]
<1>1. IsFiniteSet(D) /\ m \in Nat /\ \A i \in D : i \in Nat
  <2>1. \A i \in D : i \in Nat
    OBVIOUS
  <2> QED
    BY <2>1, Ranks
<1>2. \A k \in 1 .. m : \E i \in D : Cardinality(Below(i)) = k - 1
  BY Ranks
<1>3. \A i \in D : /\ Below(i) \in SUBSET D /\ IsFiniteSet(Below(i))
                   /\ Cardinality(Below(i)) \in Nat
  <2> SUFFICES ASSUME NEW i \in D PROVE Below(i) \in SUBSET D /\ IsFiniteSet(Below(i))
    BY FS_CardinalityType
  <2>1. Below(i) \in SUBSET D
    OBVIOUS
  <2> QED
    BY <1>1, <2>1, FS_Subset
<1>4. \A i \in D : i \notin Below(i) /\ \A j \in D : i < j => i \in Below(j)
  BY <1>1
<1>5. \A i, j \in D : i <= j => Below(i) \subseteq Below(j)
  <2> SUFFICES ASSUME NEW i \in D, NEW j \in D, i <= j,
                      NEW k \in D, k < i
               PROVE  k < j
    OBVIOUS
  <2>1. i \in Nat /\ j \in Nat /\ k \in Nat
    BY <1>1
  <2> QED
    BY <2>1
<1> HIDE DEF Below, m
<1>6. \A i, j \in D : i < j => Cardinality(Below(i)) < Cardinality(Below(j))
  <2> SUFFICES ASSUME NEW i \in D, NEW j \in D, i < j
               PROVE  Cardinality(Below(i)) < Cardinality(Below(j))
    OBVIOUS
  <2>1. Below(i) \subseteq Below(j) /\ Below(i) # Below(j)
    BY <1>1, <1>4, <1>5
  <2>2. /\ Cardinality(Below(i)) <= Cardinality(Below(j))
        /\ Cardinality(Below(i)) # Cardinality(Below(j))
    BY <1>3, <2>1, FS_Subset
  <2> QED
    BY <1>3, <2>2
<1>7. \A k \in 1 .. m : f[k] \in D /\ Cardinality(Below(f[k])) = k - 1
  BY <1>2
<1>8. f \in [1 .. m -> D]
  BY <1>7
<1> HIDE DEF f
<1>9. \A i, j \in 1 .. m : i < j => f[i] < f[j]
  <2> SUFFICES ASSUME NEW i \in 1 .. m, NEW j \in 1 .. m, i < j, ~ f[i] < f[j]
               PROVE  FALSE
    OBVIOUS
  <2>1. f[i] \in D /\ f[j] \in D /\ Cardinality(Below(f[i])) = i - 1
        /\ Cardinality(Below(f[j])) = j - 1
    BY <1>7
  <2>2. f[j] < f[i] \/ f[i] = f[j]
    <3>1. f[i] \in Nat /\ f[j] \in Nat
      BY <1>1, <2>1
    <3> QED
      BY <3>1
  <2>3. CASE f[j] < f[i]
    <3>1. j - 1 < i - 1
      BY <1>6, <2>1, <2>3
    <3> QED
      BY <1>1, <3>1
  <2>4. CASE f[i] = f[j]
    <3>1. i - 1 = j - 1
      BY <2>1, <2>4
    <3> QED
      BY <1>1, <3>1
  <2> QED
    BY <2>2, <2>3, <2>4
<1>10. \A d \in D : \E i \in 1 .. m : f[i] = d
  <2> SUFFICES ASSUME NEW d \in D PROVE \E i \in 1 .. m : f[i] = d
    OBVIOUS
  <2> DEFINE c == Cardinality(Below(d))
  <2>1. c \in Nat /\ c < m
    <3>1. Below(d) \subseteq D /\ Below(d) # D
      BY <1>3, <1>4
    <3>2. c <= m /\ c # m
      BY <1>1, <1>3, <3>1, FS_Subset DEF m
    <3> QED
      BY <1>1, <1>3, <3>2
  <2> HIDE DEF c
  <2>2. c + 1 \in 1 .. m /\ (c + 1) - 1 = c
    BY <1>1, <2>1
  <2>3. f[c + 1] \in D /\ Cardinality(Below(f[c + 1])) = Cardinality(Below(d))
    BY <1>7, <2>2 DEF c
  <2>4. ~ f[c + 1] < d /\ ~ d < f[c + 1]
    <3>1. Cardinality(Below(d)) \in Nat
      BY <1>3
    <3>2. /\ f[c + 1] < d => Cardinality(Below(f[c + 1])) < Cardinality(Below(d))
          /\ d < f[c + 1] => Cardinality(Below(d)) < Cardinality(Below(f[c + 1]))
      BY <1>6, <2>3
    <3> QED
      BY <2>3, <3>1, <3>2
  <2>5. f[c + 1] = d
    <3>1. f[c + 1] \in Nat /\ d \in Nat
      BY <1>1, <2>3
    <3> QED
      BY <2>4, <3>1
  <2> QED
    BY <2>2, <2>5
<1>11. Picks(f, m, D)
  <2>1. D \in SUBSET Nat
    BY <1>1
  <2> QED
    BY <1>1, <1>8, <1>9, <1>10, <2>1 DEF Picks
<1> QED
  BY <1>11

\* All of a sequence.
LEMMA SelectedAll ==
  ASSUME NEW s \in Seq(Command)
  PROVE  Selected(s, 1 .. Len(s)) = s
<1> DEFINE f == [k \in 1 .. Len(s) |-> k]
           t == [k \in 1 .. Len(s) |-> s[f[k]]]
<1>1. Len(s) \in Nat /\ s = [k \in 1 .. Len(s) |-> s[k]]
  OBVIOUS
<1>2. Picks(f, Len(s), 1 .. Len(s))
  <2>1. \A k \in 1 .. Len(s) : f[k] = k
    OBVIOUS
  <2>2. f \in [1 .. Len(s) -> 1 .. Len(s)]
    OBVIOUS
  <2> HIDE DEF f
  <2> QED
    BY <1>1, <2>1, <2>2 DEF Picks
<1>3. Selected(s, 1 .. Len(s)) = t
  <2> HIDE DEF f
  <2> QED
    BY <1>2, SelectedPicks
<1>4. t = [k \in 1 .. Len(s) |-> s[k]]
  OBVIOUS
<1> QED
  BY <1>1, <1>3, <1>4

\* Positions of a sequence, all of them, and positions moved behind n others.
Within(D, s) == D \in SUBSET (1 .. Len(s))
All(s) == 1 .. Len(s)
Behind(n, E) == {n + e : e \in E}

\* What is selected of two sequences, one behind the other.
LEMMA SelectedJoined ==
  ASSUME NEW s \in Seq(Command), NEW t \in Seq(Command),
         NEW D, Within(D, s), NEW E, Within(E, t)
  PROVE  Selected(s, D) \o Selected(t, E)
           = Selected(s \o t, D \cup Behind(Len(s), E))
<1> DEFINE u == s \o t
           G == D \cup {Len(s) + e : e \in E}
<1>1. /\ Len(s) \in Nat /\ Len(t) \in Nat /\ Len(u) = Len(s) + Len(t)
      /\ \A i \in 1 .. Len(s) : s[i] \in Command
      /\ \A i \in 1 .. Len(t) : t[i] \in Command
      /\ \A i \in 1 .. Len(s) : u[i] = s[i]
      /\ \A i \in 1 .. Len(t) : u[Len(s) + i] = t[i]
  <2>1. /\ Len(s) \in Nat /\ Len(t) \in Nat /\ Len(u) = Len(s) + Len(t)
        /\ \A i \in 1 .. Len(s) + Len(t) : u[i] = IF i <= Len(s) THEN s[i] ELSE t[i - Len(s)]
    BY ConcatProperties
  <2>2. \A i \in 1 .. Len(s) : i \in 1 .. Len(s) + Len(t) /\ i <= Len(s)
    BY <2>1
  <2>3. \A i \in 1 .. Len(t) : /\ Len(s) + i \in 1 .. Len(s) + Len(t)
                               /\ ~ Len(s) + i <= Len(s) /\ (Len(s) + i) - Len(s) = i
    BY <2>1
  <2> HIDE DEF u
  <2> QED
    BY <2>1, <2>2, <2>3
<1> HIDE DEF u
<1>2. PICK f, m : Picks(f, m, D)
  BY <1>1, PicksExist DEF Within
<1>3. PICK g, n : Picks(g, n, E)
  BY <1>1, PicksExist DEF Within
<1>4. /\ m \in Nat /\ f \in [1 .. m -> D]
      /\ \A i, j \in 1 .. m : i < j => f[i] < f[j]
      /\ \A d \in D : \E i \in 1 .. m : f[i] = d
  BY <1>2 DEF Picks
<1>5. /\ n \in Nat /\ g \in [1 .. n -> E]
      /\ \A i, j \in 1 .. n : i < j => g[i] < g[j]
      /\ \A e \in E : \E i \in 1 .. n : g[i] = e
  BY <1>3 DEF Picks
<1> DEFINE h == [k \in 1 .. m + n |-> IF k <= m THEN f[k] ELSE Len(s) + g[k - m]]
<1>6. /\ \A d \in D : d \in 1 .. Len(s)
      /\ \A e \in E : e \in 1 .. Len(t)
      /\ \A k \in 1 .. m : f[k] \in D
      /\ \A k \in 1 .. n : g[k] \in E
  BY <1>4, <1>5 DEF Within
<1>7. /\ \A k \in 1 .. m + n : k <= m \/ k - m \in 1 .. n
      /\ \A k \in 1 .. m + n : k <= m => k \in 1 .. m
      /\ \A k \in 1 .. m : k \in 1 .. m + n /\ k <= m
      /\ \A k \in 1 .. n : m + k \in 1 .. m + n /\ ~ m + k <= m /\ (m + k) - m = k
  BY <1>4, <1>5
<1>8. \A k \in 1 .. m + n : h[k] = IF k <= m THEN f[k] ELSE Len(s) + g[k - m]
  OBVIOUS
<1>9. DOMAIN h = 1 .. m + n
  OBVIOUS
<1>10. h \in [1 .. m + n -> G]
  <2>1. \A k \in 1 .. m + n : h[k] \in G
    BY <1>6, <1>7, <1>8
  <2> QED
    BY <2>1
<1> HIDE DEF h
<1>11. \A i, j \in 1 .. m + n : i < j => h[i] < h[j]
  <2> SUFFICES ASSUME NEW i \in 1 .. m + n, NEW j \in 1 .. m + n, i < j
               PROVE  h[i] < h[j]
    OBVIOUS
  <2>1. i \in Nat /\ j \in Nat
    OBVIOUS
  <2>2. CASE j <= m
    <3>1. i <= m
      BY <1>4, <2>1, <2>2
    <3> QED
      BY <1>4, <1>7, <1>8, <2>2, <3>1
  <2>3. CASE i <= m /\ ~ j <= m
    <3>1. h[i] = f[i] /\ f[i] \in 1 .. Len(s)
      BY <1>6, <1>7, <1>8, <2>3
    <3>2. h[j] = Len(s) + g[j - m] /\ g[j - m] \in 1 .. Len(t)
      BY <1>6, <1>7, <1>8, <2>3
    <3> QED
      BY <1>1, <3>1, <3>2
  <2>4. CASE ~ i <= m
    <3>1. ~ j <= m /\ i - m < j - m
      BY <1>4, <2>1, <2>4
    <3>2. i - m \in 1 .. n /\ j - m \in 1 .. n
      BY <1>7, <2>4, <3>1
    <3>3. g[i - m] < g[j - m] /\ g[i - m] \in 1 .. Len(t) /\ g[j - m] \in 1 .. Len(t)
      BY <1>5, <1>6, <3>1, <3>2
    <3>4. h[i] = Len(s) + g[i - m] /\ h[j] = Len(s) + g[j - m]
      BY <1>8, <2>4, <3>1
    <3> QED
      BY <1>1, <3>3, <3>4
  <2> QED
    BY <2>2, <2>3, <2>4
<1>12. \A d \in G : \E i \in 1 .. m + n : h[i] = d
  <2> SUFFICES ASSUME NEW d \in G PROVE \E i \in 1 .. m + n : h[i] = d
    OBVIOUS
  <2>1. CASE d \in D
    <3>1. PICK i \in 1 .. m : f[i] = d
      BY <1>4, <2>1
    <3> QED
      BY <1>7, <1>8, <3>1
  <2>2. CASE d \notin D
    <3>1. PICK e \in E : d = Len(s) + e
      BY <2>2
    <3>2. PICK i \in 1 .. n : g[i] = e
      BY <1>5
    <3>3. h[m + i] = Len(s) + g[i]
      BY <1>7, <1>8
    <3> QED
      BY <1>7, <3>1, <3>2, <3>3
  <2> QED
    BY <2>1, <2>2
<1>13. G \in SUBSET (1 .. Len(u))
  <2>1. /\ \A d \in D : d \in 1 .. Len(u)
        /\ \A e \in E : Len(s) + e \in 1 .. Len(u)
    BY <1>1, <1>6
  <2> QED
    BY <2>1
<1> HIDE DEF G
<1>14. Picks(h, m + n, G)
  <2>1. G \in SUBSET Nat
    BY <1>1, <1>13
  <2> QED
    BY <1>4, <1>5, <1>10, <1>11, <1>12, <2>1 DEF Picks
<1> DEFINE a == [k \in 1 .. m |-> s[f[k]]]
           b == [k \in 1 .. n |-> t[g[k]]]
           c == [k \in 1 .. m + n |-> u[h[k]]]
<1>15. Selected(s, D) = a /\ Selected(t, E) = b
  BY <1>1, <1>2, <1>3, SelectedPicks
<1>16. Selected(u, G) = c
  BY <1>14, SelectedPicks
<1>17. a \in Seq(Command) /\ Len(a) = m /\ b \in Seq(Command) /\ Len(b) = n
  <2>1. \A k \in 1 .. m : s[f[k]] \in Command
    BY <1>1, <1>6
  <2>2. \A k \in 1 .. n : t[g[k]] \in Command
    BY <1>1, <1>6
  <2>3. a \in [1 .. m -> Command] /\ b \in [1 .. n -> Command]
    BY <2>1, <2>2
  <2>4. DOMAIN a = 1 .. m /\ DOMAIN b = 1 .. n
    OBVIOUS
  <2> HIDE DEF a, b
  <2> QED
    BY <1>4, <1>5, <2>3, <2>4
<1>18. /\ \A k \in 1 .. m : a[k] = s[f[k]]
       /\ \A k \in 1 .. n : b[k] = t[g[k]]
       /\ \A k \in 1 .. m + n : c[k] = u[h[k]]
       /\ DOMAIN c = 1 .. m + n
  OBVIOUS
<1> HIDE DEF a, b
<1>19. \A k \in 1 .. m + n : (a \o b)[k] = c[k]
  <2> SUFFICES ASSUME NEW k \in 1 .. m + n PROVE (a \o b)[k] = c[k]
    OBVIOUS
  <2>1. (a \o b)[k] = IF k <= m THEN a[k] ELSE b[k - m]
    BY <1>17, ConcatProperties
  <2>2. CASE k <= m
    <3>1. k \in 1 .. m /\ f[k] \in 1 .. Len(s)
      BY <1>6, <1>7, <2>2
    <3>2. u[f[k]] = s[f[k]]
      BY <1>1, <3>1
    <3> QED
      BY <1>8, <1>18, <2>1, <2>2, <3>1, <3>2
  <2>3. CASE ~ k <= m
    <3>1. k - m \in 1 .. n /\ g[k - m] \in 1 .. Len(t)
      BY <1>6, <1>7, <2>3
    <3>2. u[Len(s) + g[k - m]] = t[g[k - m]]
      BY <1>1, <3>1
    <3> QED
      BY <1>8, <1>18, <2>1, <2>3, <3>1, <3>2
  <2> QED
    BY <2>2, <2>3
<1> HIDE DEF c
<1>20. a \o b = c
  <2>1. a \o b \in Seq(Command) /\ Len(a \o b) = m + n
    BY <1>17, ConcatProperties
  <2>2. c \in Seq(Command) /\ Len(c) = m + n
    <3>1. c = [k \in 1 .. m + n |-> c[k]]
      BY <1>18 DEF c
    <3>2. \A k \in 1 .. m + n : c[k] \in Command
      BY <1>19, <2>1
    <3>3. c \in [1 .. m + n -> Command]
      BY <3>1, <3>2
    <3>4. m + n \in Nat
      BY <1>4, <1>5
    <3> QED
      BY <1>18, <3>3, <3>4
  <2> QED
    BY <1>19, <2>1, <2>2, SeqEqual
<1> QED
  BY <1>15, <1>16, <1>20 DEF u, G, Behind

\* What counts of a sequence of commands, and what is replayed of it.
Counts(s) == {i \in DOMAIN s : ~ Replaced(s, i) /\ ~ Repeated(s, i)}
Lasts(s) == {i \in DOMAIN s : ~ Replaced(s, i)}

\* What settling and condensing select; what counts is replayed.
LEMMA CountsIs ==
  ASSUME NEW s \in Seq(Command)
  PROVE  /\ Settled(s) = Selected(s, Counts(s)) /\ Condensed(s) = Selected(s, Lasts(s))
         /\ Counts(s) \in SUBSET Lasts(s) /\ Lasts(s) \in SUBSET (1 .. Len(s))
         /\ Len(s) \in Nat
BY DEF Settled, Condensed, Counts, Lasts

\* Behind a command that is replaced one of its kind counts.
LEMMA LastOfKind ==
  ASSUME NEW s \in Seq(Command), NEW i \in 1 .. Len(s), Replaced(s, i)
  PROVE  \E j \in Counts(s) : j > i /\ s[j].kind = s[i].kind
<1>1. Len(s) \in Nat
  OBVIOUS
<1> DEFINE S == {j \in 1 .. Len(s) : s[j].kind = s[i].kind}
<1>2. PICK j \in S : \A k \in S : k <= j
  <2>1. S \in SUBSET (1 .. Len(s)) /\ S # {}
    OBVIOUS
  <2> HIDE DEF S
  <2> QED
    BY <1>1, <2>1, FirstIn
<1>3. /\ s[i].kind \in LastOnly
      /\ \E k \in i + 1 .. Len(s) : s[k].kind = s[i].kind
  BY DEF Replaced
<1>4. j \in 1 .. Len(s) /\ s[j].kind = s[i].kind /\ j > i
  BY <1>1, <1>2, <1>3
<1>5. ~ Replaced(s, j)
  BY <1>1, <1>2, <1>4 DEF Replaced
<1>6. ~ Repeated(s, j)
  <2> SUFFICES ASSUME NEW k \in 1 .. j - 1, s[k] = s[j], ~ Replaced(s, k) PROVE FALSE
    BY DEF Repeated
  <2>1. s[k].kind \in LastOnly /\ j \in k + 1 .. Len(s)
    BY <1>1, <1>3, <1>4
  <2> QED
    BY <2>1 DEF Replaced
<1> QED
  BY <1>4, <1>5, <1>6 DEF Counts

\* Commands that repeat each other are all the same.
LEMMA RepeatsAlike ==
  ASSUME NEW s \in Seq(Command), NEW p \in 1 .. Len(s), ~ Replaced(s, p),
         NEW z \in p .. Len(s),
         \A x \in p + 1 .. z : ~ Replaced(s, x) => Repeated(s, x)
  PROVE  \A x \in p .. z : ~ Replaced(s, x) => s[x] = s[p]
<1>1. Len(s) \in Nat
  OBVIOUS
<1> DEFINE S == {x \in p .. z : ~ Replaced(s, x) /\ s[x] # s[p]}
<1> SUFFICES ASSUME S # {} PROVE FALSE
  OBVIOUS
<1>2. PICK x \in S : \A k \in S : x <= k
  <2>1. S \in SUBSET (1 .. Len(s))
    BY <1>1
  <2> HIDE DEF S
  <2> QED
    BY <1>1, <2>1, FirstIn
<1>3. x \in p + 1 .. z /\ ~ Replaced(s, x) /\ s[x] # s[p]
  BY <1>1, <1>2
<1>4. Repeated(s, x)
  BY <1>3
<1>5. PICK y \in 1 .. x - 1 : /\ s[y] = s[x] /\ ~ Replaced(s, y)
                              /\ \A k \in y + 1 .. x - 1 : Replaced(s, k)
  BY <1>4 DEF Repeated
<1>6. ~ y < p
  <2>1. y < p => p \in y + 1 .. x - 1
    BY <1>1, <1>3
  <2> QED
    BY <1>5, <2>1
<1>7. y # p
  BY <1>3, <1>5
<1>8. y \in S /\ y < x
  BY <1>1, <1>3, <1>5, <1>6, <1>7
<1> QED
  BY <1>1, <1>2, <1>8

\* What counts does not depend on what is left out that does not count.
LEMMA CountsThinned ==
  ASSUME NEW u \in Seq(Command), NEW D \in SUBSET (1 .. Len(u)), Counts(u) \subseteq D,
         NEW f, NEW m, Picks(f, m, D),
         NEW v \in Seq(Command), Len(v) = m, \A k \in 1 .. m : v[k] = u[f[k]]
  PROVE  \A k \in 1 .. m : k \in Counts(v) <=> f[k] \in Counts(u)
<1>1. /\ m \in Nat /\ f \in [1 .. m -> D]
      /\ \A i, j \in 1 .. m : i < j => f[i] < f[j]
      /\ \A d \in D : \E i \in 1 .. m : f[i] = d
  BY DEF Picks
<1>2. /\ Len(u) \in Nat /\ DOMAIN v = 1 .. m /\ DOMAIN u = 1 .. Len(u)
      /\ \A k \in 1 .. m : f[k] \in D /\ f[k] \in 1 .. Len(u)
  <2>1. \A d \in D : d \in 1 .. Len(u)
    OBVIOUS
  <2>2. Len(u) \in Nat /\ DOMAIN v = 1 .. m /\ DOMAIN u = 1 .. Len(u)
    OBVIOUS
  <2>3. \A k \in 1 .. m : f[k] \in D
    BY <1>1
  <2> QED
    BY <2>1, <2>2, <2>3
<1>3. \A i, j \in 1 .. m : f[i] < f[j] => i < j
  <2> SUFFICES ASSUME NEW i \in 1 .. m, NEW j \in 1 .. m, f[i] < f[j], ~ i < j
               PROVE  FALSE
    OBVIOUS
  <2>1. f[i] \in 1 .. Len(u) /\ f[j] \in 1 .. Len(u) /\ (j < i \/ i = j)
    BY <1>1, <1>2
  <2>2. j < i => f[j] < f[i]
    BY <1>1
  <2> QED
    BY <1>2, <2>1, <2>2
<1>4. \A k \in 1 .. m : Replaced(v, k) <=> Replaced(u, f[k])
  <2> SUFFICES ASSUME NEW k \in 1 .. m PROVE Replaced(v, k) <=> Replaced(u, f[k])
    OBVIOUS
  <2>1. ASSUME Replaced(v, k) PROVE Replaced(u, f[k])
    <3>1. PICK j \in k + 1 .. m : v[j].kind = v[k].kind
      BY <2>1 DEF Replaced
    <3>2. j \in 1 .. m /\ k < j
      BY <1>1
    <3>3. f[j] \in f[k] + 1 .. Len(u)
      BY <1>1, <1>2, <3>2
    <3>4. u[f[j]].kind = u[f[k]].kind /\ u[f[k]].kind \in LastOnly
      BY <2>1, <3>1, <3>2 DEF Replaced
    <3> QED
      BY <3>3, <3>4 DEF Replaced
  <2>2. ASSUME Replaced(u, f[k]) PROVE Replaced(v, k)
    <3>1. PICK d \in Counts(u) : d > f[k] /\ u[d].kind = u[f[k]].kind
      BY <1>2, <2>2, LastOfKind
    <3>2. PICK j \in 1 .. m : f[j] = d
      BY <1>1, <3>1
    <3>3. j \in k + 1 .. m
      <4>1. f[k] < f[j]
        BY <1>2, <3>1, <3>2
      <4>2. k < j
        BY <1>3, <4>1
      <4> QED
        BY <1>1, <4>2
    <3>4. v[j].kind = v[k].kind /\ v[k].kind \in LastOnly
      BY <2>2, <3>1, <3>2 DEF Replaced
    <3> QED
      BY <3>3, <3>4 DEF Replaced
  <2> QED
    BY <2>1, <2>2
\* Between two neighbours of D only what repeats the first of them.
<1>5. ASSUME NEW p \in 1 .. m, NEW k \in p + 1 .. m, ~ Replaced(u, f[p]),
             \A j \in p + 1 .. k - 1 : Replaced(v, j)
      PROVE  \A x \in f[p] .. f[k] - 1 : ~ Replaced(u, x) => u[x] = u[f[p]]
  <2>1. k \in 1 .. m /\ p < k /\ f[p] \in 1 .. Len(u) /\ f[k] \in 1 .. Len(u) /\ f[p] < f[k]
    <3>1. m \in Nat
      BY <1>1
    <3>2. k \in 1 .. m /\ p < k
      BY <3>1
    <3>3. f[p] < f[k]
      BY <1>1, <3>2
    <3> QED
      BY <1>2, <3>2, <3>3
  <2>2. f[k] - 1 \in f[p] .. Len(u)
    BY <1>2, <2>1
  <2>3. ASSUME NEW x \in f[p] + 1 .. f[k] - 1, ~ Replaced(u, x) PROVE Repeated(u, x)
    <3>1. x \in 1 .. Len(u) /\ f[p] < x /\ x < f[k]
      BY <1>2, <2>1
    <3>2. x \notin D
      <4> SUFFICES ASSUME x \in D PROVE FALSE
        OBVIOUS
      <4>1. PICK j \in 1 .. m : f[j] = x
        BY <1>1
      <4>2. p < j /\ j < k
        BY <1>3, <2>1, <3>1, <4>1
      <4>3. j \in p + 1 .. k - 1
        BY <1>1, <4>2
      <4>4. Replaced(v, j)
        BY <1>5, <4>3
      <4> QED
        BY <1>4, <2>3, <4>1, <4>4
    <3>3. x \notin Counts(u)
      BY <3>2
    <3> QED
      BY <1>2, <2>3, <3>1, <3>3 DEF Counts
  <2> QED
    BY <1>5, <2>1, <2>2, <2>3, RepeatsAlike
<1>6. ASSUME NEW k \in 1 .. m, ~ Replaced(u, f[k])
      PROVE  Repeated(v, k) <=> Repeated(u, f[k])
  <2>1. f[k] \in 1 .. Len(u) /\ v[k] = u[f[k]] /\ k \in Nat
    BY <1>1, <1>2
  <2>2. ASSUME Repeated(v, k) PROVE Repeated(u, f[k])
    <3>1. PICK p \in 1 .. k - 1 : /\ v[p] = v[k] /\ ~ Replaced(v, p)
                                  /\ \A j \in p + 1 .. k - 1 : Replaced(v, j)
      BY <2>2 DEF Repeated
    <3>2. p \in 1 .. m /\ k \in p + 1 .. m /\ p < k
      BY <1>1, <2>1
    <3>3. ~ Replaced(u, f[p]) /\ u[f[p]] = u[f[k]] /\ f[p] \in 1 .. Len(u) /\ f[p] < f[k]
      BY <1>1, <1>2, <1>4, <2>1, <3>1, <3>2
    <3>4. \A x \in f[p] .. f[k] - 1 : ~ Replaced(u, x) => u[x] = u[f[p]]
      BY <1>5, <3>1, <3>2, <3>3
    <3> DEFINE S == {x \in f[p] .. f[k] - 1 : ~ Replaced(u, x)}
    <3>5. PICK q \in S : \A x \in S : x <= q
      <4>1. S \in SUBSET (1 .. Len(u)) /\ f[p] \in S
        BY <1>2, <2>1, <3>3
      <4> HIDE DEF S
      <4> QED
        BY <1>2, <4>1, FirstIn
    <3>6. q \in 1 .. f[k] - 1 /\ ~ Replaced(u, q) /\ u[q] = u[f[k]]
      BY <2>1, <3>3, <3>4, <3>5
    <3>7. \A x \in q + 1 .. f[k] - 1 : Replaced(u, x)
      <4> SUFFICES ASSUME NEW x \in q + 1 .. f[k] - 1, ~ Replaced(u, x) PROVE FALSE
        OBVIOUS
      <4>1. x \in S /\ ~ x <= q
        BY <2>1, <3>3, <3>5
      <4> QED
        BY <3>5, <4>1
    <3>8. u[f[k]].kind \notin Repeating
      BY <2>1, <2>2 DEF Repeated
    <3> QED
      BY <3>6, <3>7, <3>8 DEF Repeated
  <2>3. ASSUME Repeated(u, f[k]) PROVE Repeated(v, k)
    <3>1. PICK q \in 1 .. f[k] - 1 : /\ u[q] = u[f[k]] /\ ~ Replaced(u, q)
                                     /\ \A x \in q + 1 .. f[k] - 1 : Replaced(u, x)
      BY <2>3 DEF Repeated
    <3> DEFINE F == {x \in 1 .. q : ~ Replaced(u, x)}
               S == {j \in 1 .. k - 1 : ~ Replaced(v, j)}
    <3>2. q \in 1 .. Len(u) /\ q < f[k]
      BY <1>2, <2>1
    <3>3. S # {}
      <4>1. PICK a \in F : \A x \in F : a <= x
        <5>1. F \in SUBSET (1 .. Len(u)) /\ q \in F
          BY <1>2, <3>1, <3>2
        <5> HIDE DEF F
        <5> QED
          BY <1>2, <5>1, FirstIn
      <4>2. a \in 1 .. Len(u) /\ a <= q /\ ~ Replaced(u, a)
        BY <1>2, <3>2
      <4>3. ~ Repeated(u, a)
        <5> SUFFICES ASSUME NEW y \in 1 .. a - 1, ~ Replaced(u, y) PROVE FALSE
          BY DEF Repeated
        <5>1. y \in F /\ ~ a <= y
          BY <1>2, <3>2, <4>2
        <5> QED
          BY <4>1, <5>1
      <4>4. a \in D
        BY <1>2, <4>2, <4>3 DEF Counts
      <4>5. PICK j \in 1 .. m : f[j] = a
        BY <1>1, <4>4
      <4>6. f[j] < f[k]
        BY <1>2, <3>2, <4>2, <4>5
      <4>7. j < k
        BY <1>3, <4>6
      <4>8. j \in 1 .. k - 1 /\ ~ Replaced(v, j)
        BY <1>1, <1>4, <4>2, <4>5, <4>7
      <4> QED
        BY <4>8
    <3>4. PICK p \in S : \A x \in S : x <= p
      <4>1. S \in SUBSET (1 .. m)
        BY <1>1
      <4> HIDE DEF S
      <4> QED
        BY <1>1, <3>3, <4>1, FirstIn
    <3>5. p \in 1 .. k - 1 /\ p \in 1 .. m /\ k \in p + 1 .. m /\ p < k /\ ~ Replaced(v, p)
      BY <1>1, <3>4
    <3>6. \A j \in p + 1 .. k - 1 : Replaced(v, j)
      <4> SUFFICES ASSUME NEW j \in p + 1 .. k - 1, ~ Replaced(v, j) PROVE FALSE
        OBVIOUS
      <4>1. j \in S /\ ~ j <= p
        BY <1>1, <3>5
      <4> QED
        BY <3>4, <4>1
    <3>7. ~ Replaced(u, f[p]) /\ f[p] \in 1 .. Len(u) /\ f[p] < f[k]
      BY <1>1, <1>2, <1>4, <3>5
    <3>8. ~ q < f[p]
      <4>1. q < f[p] => f[p] \in q + 1 .. f[k] - 1
        BY <1>2, <2>1, <3>2, <3>7
      <4> QED
        BY <3>1, <3>7, <4>1
    <3>9. u[q] = u[f[p]]
      <4>1. q \in f[p] .. f[k] - 1
        BY <1>2, <2>1, <3>2, <3>7, <3>8
      <4> QED
        BY <1>5, <3>1, <3>5, <3>6, <3>7, <4>1
    <3>10. v[p] = v[k] /\ v[k].kind \notin Repeating
      BY <2>1, <2>3, <3>1, <3>5, <3>9 DEF Repeated
    <3> QED
      BY <3>5, <3>6, <3>10 DEF Repeated
  <2> QED
    BY <2>2, <2>3
<1> QED
  BY <1>2, <1>4, <1>6 DEF Counts

\* So commands add up to the same without what does not count of them.
LEMMA SettledThinned ==
  ASSUME NEW u \in Seq(Command), NEW D \in SUBSET (1 .. Len(u)), Counts(u) \subseteq D
  PROVE  Settled(Selected(u, D)) = Settled(u)
<1>1. Len(u) \in Nat /\ \A i \in 1 .. Len(u) : u[i] \in Command
  OBVIOUS
<1>2. PICK f, m : Picks(f, m, D)
  BY <1>1, PicksExist
<1> DEFINE v == [k \in 1 .. m |-> u[f[k]]]
<1>3. /\ m \in Nat /\ f \in [1 .. m -> D]
      /\ \A i, j \in 1 .. m : i < j => f[i] < f[j]
      /\ \A d \in D : \E i \in 1 .. m : f[i] = d
  BY <1>2 DEF Picks
<1>4. Selected(u, D) = v
  BY <1>2, SelectedPicks
<1>5. \A k \in 1 .. m : v[k] = u[f[k]]
  OBVIOUS
<1>6. v \in Seq(Command) /\ Len(v) = m
  <2>1. \A k \in 1 .. m : f[k] \in 1 .. Len(u)
    BY <1>3
  <2>2. v \in [1 .. m -> Command] /\ DOMAIN v = 1 .. m
    BY <1>1, <2>1
  <2> HIDE DEF v
  <2> QED
    BY <1>3, <2>2
<1> HIDE DEF v
<1>7. \A k \in 1 .. m : k \in Counts(v) <=> f[k] \in Counts(u)
  BY <1>2, <1>5, <1>6, CountsThinned
<1>8. Counts(v) \in SUBSET (1 .. m) /\ Counts(u) \in SUBSET (1 .. Len(u))
  BY <1>6 DEF Counts
<1>9. PICK g, n : Picks(g, n, Counts(v))
  BY <1>3, <1>8, PicksExist
<1>10. /\ n \in Nat /\ g \in [1 .. n -> Counts(v)]
       /\ \A i, j \in 1 .. n : i < j => g[i] < g[j]
       /\ \A d \in Counts(v) : \E i \in 1 .. n : g[i] = d
  BY <1>9 DEF Picks
<1>11. \A i \in 1 .. n : g[i] \in Counts(v) /\ g[i] \in 1 .. m
  BY <1>8, <1>10
<1> DEFINE h == [i \in 1 .. n |-> f[g[i]]]
<1>12. \A i \in 1 .. n : h[i] = f[g[i]]
  OBVIOUS
<1>13. h \in [1 .. n -> Counts(u)]
  BY <1>7, <1>11
<1> HIDE DEF h
<1>14. Picks(h, n, Counts(u))
  <2>1. Counts(u) \in SUBSET Nat
    BY <1>1, <1>8
  <2>2. \A i, j \in 1 .. n : i < j => h[i] < h[j]
    BY <1>3, <1>10, <1>11, <1>12
  <2>3. \A d \in Counts(u) : \E i \in 1 .. n : h[i] = d
    <3> SUFFICES ASSUME NEW d \in Counts(u) PROVE \E i \in 1 .. n : h[i] = d
      OBVIOUS
    <3>1. PICK k \in 1 .. m : f[k] = d
      BY <1>3
    <3>2. k \in Counts(v)
      BY <1>7, <3>1
    <3>3. PICK i \in 1 .. n : g[i] = k
      BY <1>10, <3>2
    <3> QED
      BY <1>12, <3>1, <3>3
  <2> QED
    BY <1>10, <1>13, <2>1, <2>2, <2>3 DEF Picks
<1>15. Settled(v) = [i \in 1 .. n |-> v[g[i]]]
  <2>1. Settled(v) = Selected(v, Counts(v))
    BY <1>6, CountsIs
  <2> QED
    BY <1>9, <2>1, SelectedPicks
<1>16. Settled(u) = [i \in 1 .. n |-> u[h[i]]]
  <2>1. Settled(u) = Selected(u, Counts(u))
    BY CountsIs
  <2> QED
    BY <1>14, <2>1, SelectedPicks
<1>17. \A i \in 1 .. n : v[g[i]] = u[h[i]]
  BY <1>5, <1>11, <1>12
<1> QED
  BY <1>4, <1>15, <1>16, <1>17

\* They are commands again; an activation in front stays.
LEMMA SettledIs ==
  ASSUME NEW s \in Seq(Command)
  PROVE  /\ Settled(s) \in Seq(Command)
         /\ s # <<>> /\ IsActivation(s[1]) => Settled(s) # <<>>
<1>1. /\ Settled(s) = Selected(s, Counts(s)) /\ Counts(s) \in SUBSET (1 .. Len(s))
      /\ Len(s) \in Nat
  BY CountsIs
<1>2. ASSUME s # <<>>, IsActivation(s[1]) PROVE 1 \in Counts(s)
  <2>1. 1 \in DOMAIN s /\ s[1].kind \notin LastOnly
    BY <1>2 DEF IsActivation, Activating, LastOnly
  <2>2. ~ Replaced(s, 1) /\ ~ Repeated(s, 1)
    BY <2>1 DEF Replaced, Repeated
  <2> QED
    BY <2>1, <2>2 DEF Counts
<1> QED
  BY <1>1, <1>2, SelectedIs

\* What counted before more commands came is all that can count after them.
LEMMA SettledKept ==
  ASSUME NEW s \in Seq(Command), NEW t \in Seq(Command)
  PROVE  Settled(Settled(s) \o t) = Settled(s \o t)
<1> DEFINE u == s \o t
           D == Counts(s) \cup {Len(s) + e : e \in 1 .. Len(t)}
<1>1. /\ Settled(s) = Selected(s, Counts(s)) /\ Counts(s) \in SUBSET (1 .. Len(s))
      /\ t = Selected(t, 1 .. Len(t)) /\ Len(s) \in Nat /\ Len(t) \in Nat
  BY CountsIs, SelectedAll
<1>2. Settled(s) \o t = Selected(u, D)
  <2>1. Within(Counts(s), s) /\ Within(All(t), t)
    BY <1>1 DEF Within, All
  <2>2. Selected(s, Counts(s)) \o Selected(t, All(t)) = Selected(s \o t, Counts(s) \cup Behind(Len(s), All(t)))
    BY <2>1, SelectedJoined
  <2> QED
    BY <1>1, <2>2 DEF All, Behind
<1>3. /\ u \in Seq(Command) /\ Len(u) = Len(s) + Len(t) /\ DOMAIN u = 1 .. Len(u)
      /\ \A i \in 1 .. Len(s) : i \in 1 .. Len(u) /\ u[i] = s[i]
  <2>1. /\ u \in Seq(Command) /\ Len(u) = Len(s) + Len(t)
        /\ \A i \in 1 .. Len(s) + Len(t) : u[i] = IF i <= Len(s) THEN s[i] ELSE t[i - Len(s)]
    BY ConcatProperties
  <2>2. \A i \in 1 .. Len(s) : i \in 1 .. Len(s) + Len(t) /\ i <= Len(s)
    BY <1>1
  <2> HIDE DEF u
  <2> QED
    BY <2>1, <2>2
<1>4. D \in SUBSET (1 .. Len(u))
  <2>1. \A e \in 1 .. Len(t) : Len(s) + e \in 1 .. Len(u)
    BY <1>1, <1>3
  <2>2. \A i \in Counts(s) : i \in 1 .. Len(u)
    BY <1>1, <1>3
  <2> QED
    BY <2>1, <2>2
<1> HIDE DEF u
<1>5. \A i \in 1 .. Len(s) : Replaced(s, i) => Replaced(u, i)
  <2> SUFFICES ASSUME NEW i \in 1 .. Len(s), Replaced(s, i) PROVE Replaced(u, i)
    OBVIOUS
  <2>1. PICK j \in i + 1 .. Len(s) : s[j].kind = s[i].kind
    BY DEF Replaced
  <2>2. j \in i + 1 .. Len(u) /\ u[j] = s[j] /\ u[i] = s[i]
    BY <1>1, <1>3
  <2> QED
    BY <2>1, <2>2 DEF Replaced
<1>6. ASSUME NEW i \in 1 .. Len(s), i \in Counts(u) PROVE i \in Counts(s)
  <2>1. ~ Replaced(u, i) /\ ~ Repeated(u, i)
    BY <1>6 DEF Counts
  <2>2. ~ Replaced(s, i)
    BY <1>5, <2>1
  <2>3. ASSUME Repeated(s, i) PROVE FALSE
    <3>1. PICK q \in 1 .. i - 1 : /\ s[q] = s[i] /\ ~ Replaced(s, q)
                                  /\ \A k \in q + 1 .. i - 1 : Replaced(s, k)
      BY <2>3 DEF Repeated
    <3>2. /\ q \in 1 .. Len(s) /\ i \in q + 1 .. Len(s)
          /\ \A k \in q + 1 .. i - 1 : k \in 1 .. Len(s)
      BY <1>1
    <3>3. u[q] = u[i] /\ u[i].kind \notin Repeating
      BY <1>3, <2>3, <3>1, <3>2 DEF Repeated
    <3>4. ~ Replaced(u, q)
      <4> SUFFICES ASSUME Replaced(u, q) PROVE FALSE
        OBVIOUS
      <4>1. s[q].kind \in LastOnly /\ s[i].kind = s[q].kind
        BY <1>3, <3>1, <3>2 DEF Replaced
      <4>2. Replaced(s, q)
        BY <3>2, <4>1 DEF Replaced
      <4> QED
        BY <3>1, <4>2
    <3>5. \A k \in q + 1 .. i - 1 : Replaced(u, k)
      BY <1>5, <3>1, <3>2
    <3>6. Repeated(u, i)
      BY <3>3, <3>4, <3>5 DEF Repeated
    <3> QED
      BY <2>1, <3>6
  <2> QED
    BY <1>1, <2>2, <2>3 DEF Counts
<1>7. Counts(u) \subseteq D
  <2> SUFFICES ASSUME NEW i \in Counts(u), i \notin 1 .. Len(s)
               PROVE  \E e \in 1 .. Len(t) : i = Len(s) + e
    BY <1>6
  <2>1. i \in 1 .. Len(s) + Len(t)
    BY <1>3 DEF Counts
  <2>2. i - Len(s) \in 1 .. Len(t) /\ i = Len(s) + (i - Len(s))
    BY <1>1, <2>1
  <2> QED
    BY <2>2
<1> HIDE DEF D
<1>8. Settled(Selected(u, D)) = Settled(u)
  BY <1>3, <1>4, <1>7, SettledThinned
<1> QED
  BY <1>2, <1>8 DEF u

\* A replay leaves out only what does not count.
LEMMA SettledReplay ==
  ASSUME NEW s \in Seq(Command), NEW t \in Seq(Command)
  PROVE  Settled(s \o Condensed(t)) = Settled(s \o t)
<1> DEFINE u == s \o t
           D == (1 .. Len(s)) \cup {Len(s) + e : e \in Lasts(t)}
<1>1. /\ Condensed(t) = Selected(t, Lasts(t)) /\ Lasts(t) \in SUBSET (1 .. Len(t))
      /\ s = Selected(s, 1 .. Len(s)) /\ Len(s) \in Nat /\ Len(t) \in Nat
  BY CountsIs, SelectedAll
<1>2. s \o Condensed(t) = Selected(u, D)
  <2>1. Within(All(s), s) /\ Within(Lasts(t), t)
    BY <1>1 DEF Within, All
  <2>2. Selected(s, All(s)) \o Selected(t, Lasts(t)) = Selected(s \o t, All(s) \cup Behind(Len(s), Lasts(t)))
    BY <2>1, SelectedJoined
  <2> QED
    BY <1>1, <2>2 DEF All, Behind
<1>3. /\ u \in Seq(Command) /\ Len(u) = Len(s) + Len(t) /\ DOMAIN u = 1 .. Len(u)
      /\ \A i \in 1 .. Len(t) : Len(s) + i \in 1 .. Len(u) /\ u[Len(s) + i] = t[i]
  <2>1. /\ u \in Seq(Command) /\ Len(u) = Len(s) + Len(t)
        /\ \A i \in 1 .. Len(s) + Len(t) : u[i] = IF i <= Len(s) THEN s[i] ELSE t[i - Len(s)]
    BY ConcatProperties
  <2>2. \A i \in 1 .. Len(t) : /\ Len(s) + i \in 1 .. Len(s) + Len(t)
                               /\ ~ Len(s) + i <= Len(s) /\ (Len(s) + i) - Len(s) = i
    BY <1>1
  <2> HIDE DEF u
  <2> QED
    BY <2>1, <2>2
<1>4. D \in SUBSET (1 .. Len(u))
  <2>1. \A e \in Lasts(t) : Len(s) + e \in 1 .. Len(u)
    BY <1>1, <1>3
  <2>2. \A i \in 1 .. Len(s) : i \in 1 .. Len(u)
    BY <1>1, <1>3
  <2> QED
    BY <2>1, <2>2
<1> HIDE DEF u
<1>5. ASSUME NEW e \in 1 .. Len(t), Replaced(t, e) PROVE Replaced(u, Len(s) + e)
  <2>1. PICK j \in e + 1 .. Len(t) : t[j].kind = t[e].kind
    BY <1>5 DEF Replaced
  <2>2. j \in 1 .. Len(t) /\ Len(s) + j \in (Len(s) + e) + 1 .. Len(u)
    BY <1>1, <1>3
  <2>3. u[Len(s) + j] = t[j] /\ u[Len(s) + e] = t[e]
    BY <1>3, <2>2
  <2> QED
    BY <1>5, <2>1, <2>2, <2>3 DEF Replaced
<1>6. Counts(u) \subseteq D
  <2> SUFFICES ASSUME NEW i \in Counts(u), i \notin 1 .. Len(s)
               PROVE  \E e \in Lasts(t) : i = Len(s) + e
    OBVIOUS
  <2>1. i \in 1 .. Len(s) + Len(t) /\ ~ Replaced(u, i)
    BY <1>3 DEF Counts
  <2>2. i - Len(s) \in 1 .. Len(t) /\ i = Len(s) + (i - Len(s))
    BY <1>1, <2>1
  <2>3. i - Len(s) \in Lasts(t)
    BY <1>5, <2>1, <2>2 DEF Lasts
  <2> QED
    BY <2>2, <2>3
<1> HIDE DEF D
<1>7. Settled(Selected(u, D)) = Settled(u)
  BY <1>3, <1>4, <1>6, SettledThinned
<1> QED
  BY <1>2, <1>7 DEF u

\* What a replay leaves out makes no difference to what its commands add up to.
LEMMA SettledCondensed ==
  ASSUME NEW t \in Seq(Command)
  PROVE  Settled(Condensed(t)) = Settled(t)
<1>1. /\ Condensed(t) = Selected(t, Lasts(t)) /\ Lasts(t) \in SUBSET (1 .. Len(t))
      /\ Counts(t) \subseteq Lasts(t)
  BY CountsIs
<1> QED
  BY <1>1, SettledThinned

\* One command adds up to itself.
LEMMA SettledOne ==
  ASSUME NEW c \in Command
  PROVE  Settled(<<c>>) = <<c>>
<1>1. <<c>> \in Seq(Command) /\ Len(<<c>>) = 1 /\ DOMAIN <<c>> = 1 .. 1
  OBVIOUS
<1>2. Counts(<<c>>) = 1 .. Len(<<c>>)
  <2>1. ~ Replaced(<<c>>, 1) /\ ~ Repeated(<<c>>, 1)
    BY <1>1 DEF Replaced, Repeated
  <2> QED
    BY <1>1, <2>1 DEF Counts
<1> QED
  BY <1>1, <1>2, CountsIs, SelectedAll

\* A command that replaces the one before it.
LEMMA SettledOver ==
  ASSUME NEW s \in Seq(Command), NEW x \in Command, NEW c \in Command,
         x.kind = c.kind, c.kind \in LastOnly
  PROVE  Settled(Append(Append(s, x), c)) = Settled(Append(s, c))
<1> DEFINE u == Append(Append(s, x), c)
           w == Append(s, c)
           n == Len(s)
           D == (1 .. n) \cup {n + 2}
           f == [k \in 1 .. n + 1 |-> IF k <= n THEN k ELSE n + 2]
<1>1. n \in Nat
  OBVIOUS
<1>2. /\ u \in Seq(Command) /\ Len(u) = n + 2 /\ DOMAIN u = 1 .. n + 2
      /\ \A i \in 1 .. n : u[i] = s[i]
      /\ u[n + 1] = x /\ u[n + 2] = c
  <2>1. /\ Append(s, x) \in Seq(Command) /\ Len(Append(s, x)) = n + 1
        /\ \A i \in 1 .. n : Append(s, x)[i] = s[i]
        /\ Append(s, x)[n + 1] = x
    BY AppendProperties
  <2>2. /\ u \in Seq(Command) /\ Len(u) = (n + 1) + 1
        /\ \A i \in 1 .. n + 1 : u[i] = Append(s, x)[i]
        /\ u[(n + 1) + 1] = c
    BY <2>1, AppendProperties
  <2>3. (n + 1) + 1 = n + 2 /\ n + 1 \in 1 .. n + 1 /\ \A i \in 1 .. n : i \in 1 .. n + 1
    BY <1>1
  <2> HIDE DEF u, n
  <2>4. DOMAIN u = 1 .. Len(u)
    BY <2>2
  <2> QED
    BY <2>1, <2>2, <2>3, <2>4
<1>3. /\ w \in Seq(Command) /\ Len(w) = n + 1 /\ DOMAIN w = 1 .. n + 1
      /\ \A i \in 1 .. n : w[i] = s[i]
      /\ w[n + 1] = c
  BY AppendProperties
<1> HIDE DEF u, w, n
<1>4. Picks(f, n + 1, D)
  <2>1. \A k \in 1 .. n + 1 : f[k] = IF k <= n THEN k ELSE n + 2
    OBVIOUS
  <2>2. f \in [1 .. n + 1 -> D] /\ D \in SUBSET Nat /\ n + 1 \in Nat
    BY <1>1
  <2> HIDE DEF f
  <2>3. \A i, j \in 1 .. n + 1 : i < j => f[i] < f[j]
    BY <1>1, <2>1
  <2>4. \A d \in D : \E i \in 1 .. n + 1 : f[i] = d
    <3>1. n + 1 \in 1 .. n + 1 /\ ~ n + 1 <= n
      BY <1>1
    <3>2. \A d \in 1 .. n : d \in 1 .. n + 1 /\ d <= n
      BY <1>1
    <3> QED
      BY <2>1, <3>1, <3>2
  <2> HIDE DEF D
  <2> QED
    BY <2>2, <2>3, <2>4 DEF Picks
<1>5. Selected(u, D) = w
  <2>1. Selected(u, D) = [k \in 1 .. n + 1 |-> u[f[k]]]
    <3> HIDE DEF f, D
    <3> QED
      BY <1>4, SelectedPicks
  <2>2. \A k \in 1 .. n + 1 : u[f[k]] = w[k]
    <3> SUFFICES ASSUME NEW k \in 1 .. n + 1 PROVE u[f[k]] = w[k]
      OBVIOUS
    <3>1. CASE k <= n
      BY <1>1, <1>2, <1>3, <3>1
    <3>2. CASE ~ k <= n
      <4>1. k = n + 1
        BY <1>1, <3>2
      <4> QED
        BY <1>2, <1>3, <3>2, <4>1
    <3> QED
      BY <3>1, <3>2
  <2>3. w = [k \in 1 .. n + 1 |-> w[k]]
    BY <1>3
  <2> HIDE DEF f
  <2> QED
    BY <2>1, <2>2, <2>3
<1>6. Counts(u) \subseteq D
  <2>1. Replaced(u, n + 1)
    <3>1. n + 2 \in (n + 1) + 1 .. Len(u)
      BY <1>1, <1>2
    <3> QED
      BY <1>2, <3>1 DEF Replaced
  <2>2. \A i \in 1 .. n + 2 : i = n + 1 \/ i \in D
    BY <1>1
  <2> HIDE DEF D
  <2> QED
    BY <1>2, <2>1, <2>2 DEF Counts
<1>7. D \in SUBSET (1 .. Len(u))
  BY <1>1, <1>2
<1> HIDE DEF D
<1> QED
  BY <1>2, <1>5, <1>6, <1>7, SettledThinned DEF u, w

\* The same command again.
LEMMA SettledAgain ==
  ASSUME NEW s \in Seq(Command), NEW c \in Command, c.kind \notin Repeating
  PROVE  Settled(Append(Append(s, c), c)) = Settled(Append(s, c))
<1>1. CASE c.kind \in LastOnly
  BY <1>1, SettledOver
<1>2. CASE c.kind \notin LastOnly
  <2> DEFINE w == Append(s, c)
             u == Append(w, c)
             n == Len(w)
             f == [k \in 1 .. n |-> k]
  <2>1. w \in Seq(Command) /\ n \in Nat /\ n >= 1 /\ w[n] = c /\ DOMAIN w = 1 .. n
    BY AppendProperties
  <2> HIDE DEF w
  <2>2. /\ u \in Seq(Command) /\ Len(u) = n + 1 /\ DOMAIN u = 1 .. n + 1
        /\ \A i \in 1 .. n : u[i] = w[i]
        /\ u[n + 1] = c
    BY <2>1, AppendProperties
  <2> HIDE DEF u, n
  <2>3. Picks(f, n, 1 .. n)
    <3>1. f \in [1 .. n -> 1 .. n] /\ 1 .. n \in SUBSET Nat /\ \A k \in 1 .. n : f[k] = k
      OBVIOUS
    <3> HIDE DEF f
    <3> QED
      BY <2>1, <3>1 DEF Picks
  <2>4. Selected(u, 1 .. n) = w
    <3>1. Selected(u, 1 .. n) = [k \in 1 .. n |-> u[f[k]]]
      <4> DEFINE D == 1 .. n
      <4>1. Picks(f, n, D)
        BY <2>3
      <4> HIDE DEF f, D
      <4>2. Selected(u, D) = [k \in 1 .. n |-> u[f[k]]]
        BY <4>1, SelectedPicks
      <4> QED
        BY <4>2 DEF D
    <3>2. \A k \in 1 .. n : u[f[k]] = w[k]
      BY <2>2
    <3>3. w = [k \in 1 .. n |-> w[k]]
      BY <2>1
    <3> HIDE DEF f
    <3> QED
      BY <3>1, <3>2, <3>3
  <2>5. Counts(u) \subseteq 1 .. n
    <3>1. ~ Replaced(u, n)
      BY <1>2, <2>1, <2>2 DEF Replaced
    <3>2. Repeated(u, n + 1)
      <4>1. n \in 1 .. (n + 1) - 1 /\ n + 1 .. (n + 1) - 1 = {} /\ n \in 1 .. n
        BY <2>1
      <4>2. u[n] = u[n + 1] /\ u[n + 1].kind \notin Repeating
        BY <2>1, <2>2, <4>1
      <4> QED
        BY <3>1, <4>1, <4>2 DEF Repeated
    <3>3. \A i \in 1 .. n + 1 : i = n + 1 \/ i \in 1 .. n
      BY <2>1
    <3> QED
      BY <2>2, <3>2, <3>3 DEF Counts
  <2>6. 1 .. n \in SUBSET (1 .. Len(u))
    BY <2>1, <2>2
  <2>7. Settled(u) = Settled(w)
    BY <2>2, <2>4, <2>5, <2>6, SettledThinned
  <2> QED
    BY <2>7 DEF u, w
<1> QED
  BY <1>1, <1>2

\* The message types and the filters of commands.
LEMMA UnfilteredIs ==
  ASSUME NEW c \in Command
  PROVE  /\ Unfiltered(c) \in Command /\ Unfiltered(c).kind = c.kind
         /\ ~ IsActivation(c) => Unfiltered(c) = c
         /\ IsActivation(Unfiltered(c)) <=> IsActivation(c)
<1>1. CASE c.kind = "errors"
  <2>1. Unfiltered(c) = [c EXCEPT !.value = "none"]
    BY <1>1 DEF Unfiltered
  <2>2. Unfiltered(c) = [kind |-> c.kind, value |-> "none", option |-> c.option]
    BY <2>1 DEF Command
  <2> QED
    BY <1>1, <2>2 DEF Command, IsActivation, Activating
<1>2. CASE c.kind # "errors"
  BY <1>2 DEF Unfiltered
<1> QED
  BY <1>1, <1>2

\* The part of a list that is shown, and what it adds up to.
Stretch(l, a, b) == [n \in 1 .. b - a |-> Unfiltered(l[a + n - 1])]

\* Where what is shown begins, in any list l, when the iterator stands at i.
StartOf(l, i) ==
  IF \E j \in 1 .. i - 1 : IsActivation(l[j])
  THEN CHOOSE j \in 1 .. i - 1 :
         IsActivation(l[j]) /\ \A k \in j + 1 .. i - 1 : ~ IsActivation(l[k])
  ELSE 1

\* What is shown when the iterator stands at i.
SumOf(l, i) == Settled(Stretch(l, StartOf(l, i), i))

\* The model says the same of its list and iterator.
LEMMA SumIs ==
  /\ LastActivation(iter) = StartOf(list, iter)
  /\ \A i : LastActivation(i) = StartOf(list, i)
  /\ Settled(Shown) = SumOf(list, iter)
<1>1. \A i : LastActivation(i) = StartOf(list, i)
  BY DEF LastActivation, StartOf
<1>2. Shown = Stretch(list, LastActivation(iter), iter)
  BY DEF Shown, Stretch
<1> QED
  BY <1>1, <1>2 DEF SumOf

\* An activation behind which none follows is where the stretch begins.
LEMMA StartIs ==
  ASSUME NEW l, NEW i \in Nat, NEW a \in 1 .. i - 1, IsActivation(l[a]),
         \A k \in a + 1 .. i - 1 : ~ IsActivation(l[k])
  PROVE  StartOf(l, i) = a
<1> DEFINE P(j) == IsActivation(l[j]) /\ \A k \in j + 1 .. i - 1 : ~ IsActivation(l[k])
<1>1. P(a)
  OBVIOUS
<1>2. ASSUME NEW j \in 1 .. i - 1, P(j) PROVE j = a
  <2>1. ~ j < a /\ ~ a < j
    <3>1. j < a => a \in j + 1 .. i - 1
      OBVIOUS
    <3>2. a < j => j \in a + 1 .. i - 1
      OBVIOUS
    <3> QED
      BY <1>2, <3>1, <3>2
  <2> QED
    BY <2>1
<1>3. StartOf(l, i) = CHOOSE j \in 1 .. i - 1 : P(j)
  BY <1>1 DEF StartOf
<1> HIDE DEF P
<1> QED
  BY <1>1, <1>2, <1>3

\* A list that begins with an activation has one before every position but the first.
LEMMA StartFound ==
  ASSUME NEW l \in Seq(Command), IsActivation(l[1]), NEW i \in 2 .. Len(l) + 1
  PROVE  /\ StartOf(l, i) \in 1 .. i - 1 /\ IsActivation(l[StartOf(l, i)])
         /\ \A k \in StartOf(l, i) + 1 .. i - 1 : ~ IsActivation(l[k])
<1> DEFINE S == {j \in 1 .. i - 1 : IsActivation(l[j])}
<1>1. Len(l) \in Nat /\ i \in Nat /\ i - 1 \in Nat /\ 1 \in S
  OBVIOUS
<1>2. S \in SUBSET (1 .. i - 1) /\ S # {}
  BY <1>1
<1> HIDE DEF S
<1>3. PICK a \in S : \A j \in S : j <= a
  BY <1>1, <1>2, FirstIn
<1>4. a \in 1 .. i - 1 /\ IsActivation(l[a])
  BY <1>3 DEF S
<1>5. ASSUME NEW k \in a + 1 .. i - 1, IsActivation(l[k]) PROVE FALSE
  <2>1. k \in 1 .. i - 1 /\ ~ k <= a
    BY <1>1, <1>4
  <2>2. k \in S
    BY <1>5, <2>1 DEF S
  <2> QED
    BY <1>3, <2>1, <2>2
<1>6. StartOf(l, i) = a
  BY <1>1, <1>4, <1>5, StartIs
<1> QED
  BY <1>4, <1>5, <1>6

\* The length of a stretch, and its commands.
LEMMA StretchIs ==
  ASSUME NEW l \in Seq(Command), NEW a \in 1 .. Len(l) + 1, NEW b \in a .. Len(l) + 1
  PROVE  /\ Stretch(l, a, b) \in Seq(Command) /\ Len(Stretch(l, a, b)) = b - a
         /\ DOMAIN Stretch(l, a, b) = 1 .. b - a
         /\ \A n \in 1 .. b - a : /\ Stretch(l, a, b)[n] = Unfiltered(l[a + n - 1])
                                  /\ a + n - 1 \in a .. b - 1
                                  /\ a + n - 1 \in 1 .. Len(l)
<1> DEFINE t == [n \in 1 .. b - a |-> Unfiltered(l[a + n - 1])]
<1>1. b - a \in Nat /\ \A n \in 1 .. b - a : a + n - 1 \in a .. b - 1 /\ a + n - 1 \in 1 .. Len(l)
  OBVIOUS
<1>2. \A n \in 1 .. b - a : Unfiltered(l[a + n - 1]) \in Command
  <2> SUFFICES ASSUME NEW n \in 1 .. b - a PROVE Unfiltered(l[a + n - 1]) \in Command
    OBVIOUS
  <2>1. l[a + n - 1] \in Command
    BY <1>1
  <2> QED
    BY <2>1, UnfilteredIs
<1>3. t \in [1 .. b - a -> Command]
  BY <1>2
<1>4. DOMAIN t = 1 .. b - a /\ \A n \in 1 .. b - a : t[n] = Unfiltered(l[a + n - 1])
  OBVIOUS
<1>5. t = Stretch(l, a, b)
  BY DEF Stretch
<1> HIDE DEF t
<1>6. t \in Seq(Command) /\ Len(t) = b - a
  <2> DEFINE k == b - a
  <2>1. k \in Nat /\ t \in [1 .. k -> Command] /\ DOMAIN t = 1 .. k
    BY <1>1, <1>3, <1>4
  <2> HIDE DEF k
  <2>2. t \in Seq(Command) /\ Len(t) = k
    BY <2>1
  <2> QED
    BY <2>2 DEF k
<1> QED
  BY <1>1, <1>4, <1>5, <1>6

\* A stretch is the two it is cut into, one behind the other.
LEMMA StretchSplit ==
  ASSUME NEW l \in Seq(Command), NEW a \in 1 .. Len(l) + 1,
         NEW b \in a .. Len(l) + 1, NEW c \in b .. Len(l) + 1
  PROVE  Stretch(l, a, c) = Stretch(l, a, b) \o Stretch(l, b, c)
<1> DEFINE s == Stretch(l, a, b)
           t == Stretch(l, b, c)
           u == Stretch(l, a, c)
<1>1. c \in a .. Len(l) + 1 /\ b \in 1 .. Len(l) + 1 /\ Len(l) \in Nat
  OBVIOUS
<1>2. /\ s \in Seq(Command) /\ Len(s) = b - a
      /\ \A n \in 1 .. b - a : s[n] = Unfiltered(l[a + n - 1])
  BY StretchIs
<1>3. /\ t \in Seq(Command) /\ Len(t) = c - b
      /\ \A n \in 1 .. c - b : t[n] = Unfiltered(l[b + n - 1])
  BY <1>1, StretchIs
<1>4. /\ u \in Seq(Command) /\ Len(u) = c - a
      /\ \A n \in 1 .. c - a : u[n] = Unfiltered(l[a + n - 1])
  BY <1>1, StretchIs
<1> HIDE DEF s, t, u
<1>5. /\ s \o t \in Seq(Command) /\ Len(s \o t) = Len(s) + Len(t)
      /\ \A n \in 1 .. Len(s) + Len(t) : (s \o t)[n] = IF n <= Len(s) THEN s[n] ELSE t[n - Len(s)]
  BY <1>2, <1>3, ConcatProperties
<1>6. Len(s) + Len(t) = c - a
  BY <1>2, <1>3
<1>7. \A n \in 1 .. c - a : (s \o t)[n] = u[n]
  <2> SUFFICES ASSUME NEW n \in 1 .. c - a PROVE (s \o t)[n] = u[n]
    OBVIOUS
  <2>1. CASE n <= b - a
    <3>1. n \in 1 .. b - a
      BY <2>1
    <3> QED
      BY <1>2, <1>4, <1>5, <1>6, <2>1, <3>1
  <2>2. CASE ~ n <= b - a
    <3>1. n - (b - a) \in 1 .. c - b /\ b + (n - (b - a)) - 1 = a + n - 1
      BY <2>2
    <3> QED
      BY <1>2, <1>3, <1>4, <1>5, <1>6, <2>2, <3>1
  <2> QED
    BY <2>1, <2>2
<1>8. u = s \o t
  BY <1>4, <1>5, <1>6, <1>7, SeqEqual
<1> QED
  BY <1>8 DEF s, t, u

\* One command of a list, and one more.
LEMMA StretchOne ==
  ASSUME NEW l \in Seq(Command), NEW a \in 1 .. Len(l)
  PROVE  Stretch(l, a, a + 1) = <<Unfiltered(l[a])>>
<1>1. (a + 1) - a = 1 /\ 1 .. 1 = {1} /\ a + 1 - 1 = a
  OBVIOUS
<1>2. Stretch(l, a, a + 1) = [n \in {1} |-> Unfiltered(l[a])]
  <2>1. \A n \in {1} : a + n - 1 = a
    OBVIOUS
  <2> QED
    BY <1>1, <2>1 DEF Stretch
<1> QED
  BY <1>2

\* The iterator one further: one more command is shown.
LEMMA StretchMore ==
  ASSUME NEW l \in Seq(Command), NEW a \in 1 .. Len(l), NEW b \in a .. Len(l)
  PROVE  Stretch(l, a, b + 1) = Append(Stretch(l, a, b), Unfiltered(l[b]))
<1>1. b \in 1 .. Len(l) /\ a \in 1 .. Len(l) + 1 /\ b \in a .. Len(l) + 1 /\ b + 1 \in b .. Len(l) + 1
  OBVIOUS
<1>2. Stretch(l, a, b + 1) = Stretch(l, a, b) \o Stretch(l, b, b + 1)
  BY <1>1, StretchSplit
<1>3. Stretch(l, b, b + 1) = <<Unfiltered(l[b])>>
  BY <1>1, StretchOne
<1>4. Stretch(l, a, b) \in Seq(Command)
  BY <1>1, StretchIs
<1>5. Unfiltered(l[b]) \in Command
  <2>1. l[b] \in Command
    BY <1>1
  <2> QED
    BY <2>1, UnfilteredIs
<1> DEFINE s == Stretch(l, a, b)
           c == Unfiltered(l[b])
<1> HIDE DEF s, c
<1>6. s \o <<c>> = Append(s, c)
  BY <1>4, <1>5, AppendIsConcat DEF s, c
<1> QED
  BY <1>2, <1>3, <1>6 DEF s, c

\* A stretch and its sum depend on nothing else of the list.
LEMMA StretchSame ==
  ASSUME NEW l, NEW k, NEW a \in Nat, NEW b \in Nat, \A i \in a .. b - 1 : l[i] = k[i]
  PROVE  Stretch(l, a, b) = Stretch(k, a, b)
<1>1. \A n \in 1 .. b - a : l[a + n - 1] = k[a + n - 1]
  OBVIOUS
<1> QED
  BY <1>1 DEF Stretch

\* What is replayed of a stretch.
LEMMA CondensedPicks ==
  ASSUME NEW s \in Seq(Command)
  PROVE  \E f, m : /\ Picks(f, m, Lasts(s))
                   /\ Condensed(s) = [k \in 1 .. m |-> s[f[k]]]
                   /\ Len(Condensed(s)) = m /\ m \in Nat
                   /\ \A k \in 1 .. m : f[k] \in 1 .. Len(s) /\ (k # 1 => f[k] # 1)
<1>1. /\ Condensed(s) = Selected(s, Lasts(s)) /\ Lasts(s) \in SUBSET (1 .. Len(s))
      /\ Len(s) \in Nat
  BY CountsIs
<1>2. PICK f, m : Picks(f, m, Lasts(s))
  BY <1>1, PicksExist
<1>3. Condensed(s) = [k \in 1 .. m |-> s[f[k]]]
  BY <1>1, <1>2, SelectedPicks
<1>4. /\ m \in Nat /\ f \in [1 .. m -> Lasts(s)]
      /\ \A i, j \in 1 .. m : i < j => f[i] < f[j]
  BY <1>2 DEF Picks
<1>5. \A k \in 1 .. m : f[k] \in 1 .. Len(s)
  BY <1>1, <1>4
<1>6. \A k \in 1 .. m : k # 1 => f[k] # 1
  <2> SUFFICES ASSUME NEW k \in 1 .. m, k # 1 PROVE f[k] # 1
    OBVIOUS
  <2>1. 1 \in 1 .. m /\ 1 < k
    BY <1>4
  <2>2. f[1] < f[k] /\ f[1] \in 1 .. Len(s) /\ f[k] \in 1 .. Len(s)
    BY <1>4, <1>5, <2>1
  <2> QED
    BY <1>1, <2>2
<1>7. Len(Condensed(s)) = m
  <2>1. Len(Selected(s, Lasts(s))) = Cardinality(Lasts(s))
    BY <1>1, SelectedIs
  <2>2. m = Cardinality(Lasts(s))
    BY <1>2, PicksCount
  <2> QED
    BY <1>1, <2>1, <2>2
<1> QED
  BY <1>2, <1>3, <1>4, <1>5, <1>6, <1>7

\* The last command is replayed, and an activation in front stays in front.
LEMMA CondensedHead ==
  ASSUME NEW s \in Seq(Command), s # <<>>
  PROVE  /\ Condensed(s) \in Seq(Command) /\ Condensed(s) # <<>>
         /\ \A n \in 1 .. Len(Condensed(s)) : \E i \in 1 .. Len(s) : Condensed(s)[n] = s[i]
         /\ \A n \in 2 .. Len(Condensed(s)) : \E i \in 2 .. Len(s) : Condensed(s)[n] = s[i]
         /\ IsActivation(s[1]) => Condensed(s)[1] = s[1]
<1>1. PICK f, m : /\ Picks(f, m, Lasts(s))
                  /\ Condensed(s) = [k \in 1 .. m |-> s[f[k]]]
                  /\ Len(Condensed(s)) = m /\ m \in Nat
                  /\ \A k \in 1 .. m : f[k] \in 1 .. Len(s) /\ (k # 1 => f[k] # 1)
  BY CondensedPicks
<1>2. Len(s) \in Nat /\ Len(s) >= 1 /\ Len(s) \in DOMAIN s /\ DOMAIN s = 1 .. Len(s)
  BY EmptySeq
<1>3. Condensed(s) \in Seq(Command)
  BY CondensedIs
<1>4. Len(s) \in Lasts(s)
  BY <1>2 DEF Lasts, Replaced
<1>5. \E k \in 1 .. m : f[k] = Len(s)
  BY <1>1, <1>4 DEF Picks
<1>6. Condensed(s) # <<>>
  <2>1. m # 0
    BY <1>5
  <2> QED
    BY <1>1, <2>1
<1>7. \A n \in 1 .. m : Condensed(s)[n] = s[f[n]]
  BY <1>1
<1>8. \A n \in 2 .. m : n \in 1 .. m /\ f[n] \in 2 .. Len(s)
  <2> SUFFICES ASSUME NEW n \in 2 .. m PROVE n \in 1 .. m /\ f[n] \in 2 .. Len(s)
    OBVIOUS
  <2>1. n \in 1 .. m /\ n # 1
    BY <1>1
  <2>2. f[n] \in 1 .. Len(s) /\ f[n] # 1
    BY <1>1, <2>1
  <2> QED
    BY <1>2, <2>1, <2>2
<1>9. ASSUME IsActivation(s[1]) PROVE Condensed(s)[1] = s[1]
  <2>1. 1 \in Lasts(s)
    BY <1>2, <1>9 DEF Lasts, Replaced, IsActivation, Activating, LastOnly
  <2>2. PICK k \in 1 .. m : f[k] = 1
    BY <1>1, <2>1 DEF Picks
  <2>3. k = 1
    BY <1>1, <2>2
  <2> QED
    BY <1>7, <2>2, <2>3
<1> QED
  BY <1>1, <1>3, <1>6, <1>7, <1>8, <1>9

\* The filter of the errors makes no difference to what is left out.
Bare(s) == [n \in DOMAIN s |-> Unfiltered(s[n])]

\* Condensing may come before or after the filter is taken off.
LEMMA CondensedBare ==
  ASSUME NEW s \in Seq(Command)
  PROVE  Condensed(Bare(s)) = Bare(Condensed(s))
<1> DEFINE u == Bare(s)
<1>1. /\ DOMAIN s = 1 .. Len(s) /\ Len(s) \in Nat
      /\ \A n \in 1 .. Len(s) : s[n] \in Command
  OBVIOUS
<1>2. \A n \in 1 .. Len(s) : u[n] = Unfiltered(s[n]) /\ u[n] \in Command /\ u[n].kind = s[n].kind
  <2>1. \A n \in 1 .. Len(s) : u[n] = Unfiltered(s[n])
    BY <1>1 DEF Bare
  <2>2. \A n \in 1 .. Len(s) : Unfiltered(s[n]) \in Command /\ Unfiltered(s[n]).kind = s[n].kind
    BY <1>1, UnfilteredIs
  <2> QED
    BY <2>1, <2>2
<1>3. DOMAIN u = 1 .. Len(s) /\ u \in [1 .. Len(s) -> Command]
  <2>1. u = [n \in 1 .. Len(s) |-> u[n]]
    BY <1>1 DEF Bare
  <2> HIDE DEF u
  <2> QED
    BY <1>2, <2>1
<1> HIDE DEF u
<1>4. u \in Seq(Command) /\ Len(u) = Len(s)
  BY <1>1, <1>3
<1>5. Lasts(u) = Lasts(s)
  <2>1. \A i \in 1 .. Len(s) : Replaced(u, i) <=> Replaced(s, i)
    <3> SUFFICES ASSUME NEW i \in 1 .. Len(s) PROVE Replaced(u, i) <=> Replaced(s, i)
      OBVIOUS
    <3>1. \A j \in i + 1 .. Len(s) : j \in 1 .. Len(s)
      BY <1>1
    <3> QED
      BY <1>2, <1>4, <3>1 DEF Replaced
  <2> QED
    BY <1>1, <1>3, <2>1 DEF Lasts
<1>6. PICK f, m : /\ Picks(f, m, Lasts(s))
                  /\ Condensed(s) = [k \in 1 .. m |-> s[f[k]]]
                  /\ Len(Condensed(s)) = m /\ m \in Nat
                  /\ \A k \in 1 .. m : f[k] \in 1 .. Len(s) /\ (k # 1 => f[k] # 1)
  BY CondensedPicks
<1>7. Condensed(u) = [k \in 1 .. m |-> u[f[k]]]
  <2>1. Condensed(u) = Selected(u, Lasts(s))
    BY <1>4, <1>5, CountsIs
  <2> QED
    BY <1>6, <2>1, SelectedPicks
<1>8. \A k \in 1 .. m : u[f[k]] = Unfiltered(s[f[k]])
  BY <1>2, <1>6
<1>9. Bare(Condensed(s)) = [k \in 1 .. m |-> Unfiltered(s[f[k]])]
  <2>1. DOMAIN Condensed(s) = 1 .. m /\ \A k \in 1 .. m : Condensed(s)[k] = s[f[k]]
    BY <1>6
  <2> QED
    BY <2>1 DEF Bare
<1> QED
  BY <1>7, <1>8, <1>9 DEF u

\* More than nothing adds up to more than nothing.
LEMMA SettledMore ==
  ASSUME NEW s \in Seq(Command), s # <<>>
  PROVE  Settled(s) # <<>>
<1>1. /\ Settled(s) = Selected(s, Counts(s)) /\ Counts(s) \in SUBSET Lasts(s)
      /\ Lasts(s) \in SUBSET (1 .. Len(s)) /\ Len(s) \in Nat
  BY CountsIs
<1>2. Len(s) >= 1 /\ Len(s) \in DOMAIN s /\ DOMAIN s = 1 .. Len(s)
  BY EmptySeq
<1>3. Len(s) \in Lasts(s)
  BY <1>1, <1>2 DEF Lasts, Replaced
<1>4. PICK i \in Lasts(s) : \A j \in Lasts(s) : i <= j
  BY <1>1, <1>3, FirstIn
<1>5. i \in 1 .. Len(s) /\ ~ Replaced(s, i)
  BY <1>1, <1>4 DEF Lasts
<1>6. ~ Repeated(s, i)
  <2> SUFFICES ASSUME NEW j \in 1 .. i - 1, ~ Replaced(s, j) PROVE FALSE
    BY DEF Repeated
  <2>1. j \in 1 .. Len(s) /\ ~ i <= j
    BY <1>1, <1>5
  <2>2. j \in Lasts(s)
    BY <1>2, <2>1 DEF Lasts
  <2> QED
    BY <1>4, <2>1, <2>2
<1>7. i \in Counts(s)
  BY <1>2, <1>5, <1>6 DEF Counts
<1>8. Len(Selected(s, Counts(s))) = Cardinality(Counts(s)) /\ IsFiniteSet(Counts(s))
      /\ Cardinality(Counts(s)) \in Nat
  <2>1. Counts(s) \in SUBSET (1 .. Len(s))
    BY <1>1
  <2> QED
    BY <1>1, <2>1, SelectedIs, Ranks
<1>9. Cardinality(Counts(s)) # 0
  BY <1>7, <1>8, FS_EmptySet
<1> QED
  BY <1>1, <1>8, <1>9

-----------------------------------------------------------------------------
(* What waits while what is shown changes.                                 *)

\* A command of a replay, and the message that indexing has ended.
Plays(m) == m.is = "command" /\ m.replayed
Ends(m) == m.is = "finished"

\* Nothing but ends of indexing waits.
OnlyEnds(q) == \A i \in 1 .. Len(q) : Ends(q[i])

\* Beside a message that is neither of the two only ends of indexing wait.
Alone(q) ==
  \A i \in 1 .. Len(q) :
    Plays(q[i]) \/ Ends(q[i]) \/ \A j \in 1 .. Len(q) : j = i \/ Ends(q[j])

\* Only given commands are in the list l and reach it from the queue q.
Gives(l, q) ==
  /\ \A i \in 1 .. Len(l) : l[i] \in Given
  /\ \A i \in 1 .. Len(q) :
       q[i].is = "command" /\ ~ q[i].replayed => q[i].command \in Given

\* An end of indexing or a refresh is still to come.
Upset(q, due) ==
  \/ due # {}
  \/ \E i \in 1 .. Len(q) : q[i].is \in {"finished", "refresh"}

\* The commands of a replay that still wait, and what they will add up to.
Played(q) == [n \in 1 .. Len(q) |-> Unfiltered(q[n].command)]

\* A replay waits in q; with the t that is shown, or anew if it begins with an
\* activation, it will add up to sum.
Replaying(q, t, sum) ==
  /\ q # <<>>
  /\ \A n \in 1 .. Len(q) : Plays(q[n])
  /\ \A n \in 2 .. Len(q) : ~ IsActivation(q[n].command)
  /\ IF IsActivation(q[1].command)
     THEN Settled(Played(q)) = sum
     ELSE t # <<>> /\ Settled(t \o Played(q)) = sum

\* What is shown is sum, or will be: by the overview, or when the replay is over.
Agrees(q, t, sum) ==
  \/ Len(q) <= 1 /\ (\A n \in 1 .. Len(q) : ~ Plays(q[n])) /\ t = sum
  \/ q = <<Said(Overview)>>
  \/ Replaying(q, t, sum)

\* The inductive invariant: unless something that resets the list is to come,
\* what is shown, or will be, is what the list says.
ShownInv ==
  /\ Alone(queue)
  /\ Gives(list, queue)
  /\ ~ Upset(queue, refreshes) /\ list # <<>> => Agrees(queue, told, SumOf(list, iter))

\* What the rest of a queue keeps.
LEMMA RestWaits ==
  ASSUME NEW q \in Seq(Queued), q # <<>>, NEW l, NEW due, Alone(q), Gives(l, q)
  PROVE  /\ Tail(q) \in Seq(Queued) /\ q[1] \in Queued /\ Head(q) = q[1]
         /\ Alone(Tail(q)) /\ Gives(l, Tail(q))
         /\ Plays(q[1]) \/ Ends(q[1]) \/ OnlyEnds(Tail(q))
         /\ Upset(q, due) => q[1].is \in {"finished", "refresh"} \/ Upset(Tail(q), due)
         /\ q[1].is = "command" /\ ~ q[1].replayed => q[1].command \in Given
         /\ Tail(q) = <<>> => Len(q) = 1
<1>1. /\ Tail(q) \in Seq(Queued) /\ Len(Tail(q)) = Len(q) - 1
      /\ \A i \in 1 .. Len(Tail(q)) : Tail(q)[i] = q[i + 1]
      /\ Len(q) \in Nat /\ Len(q) >= 1
  BY HeadTailProperties, EmptySeq
<1>2. q[1] \in Queued /\ Head(q) = q[1] /\ 1 \in 1 .. Len(q)
  BY <1>1
<1> DEFINE w == Tail(q)
<1> HIDE DEF w
<1>3. /\ Len(w) \in Nat
      /\ \A i \in 1 .. Len(w) : i + 1 \in 1 .. Len(q) /\ i + 1 # 1 /\ w[i] = q[i + 1]
  BY <1>1 DEF w
<1>4. Alone(w)
  <2> SUFFICES ASSUME NEW i \in 1 .. Len(w), ~ Plays(w[i]), ~ Ends(w[i]),
                      NEW j \in 1 .. Len(w), j # i
               PROVE  Ends(w[j])
    BY DEF Alone
  <2>1. i + 1 \in 1 .. Len(q) /\ j + 1 \in 1 .. Len(q) /\ j + 1 # i + 1
    BY <1>3
  <2>2. ~ Plays(q[i + 1]) /\ ~ Ends(q[i + 1]) /\ w[j] = q[j + 1]
    BY <1>3
  <2> QED
    BY <2>1, <2>2 DEF Alone
<1>5. Gives(l, w)
  BY <1>3 DEF Gives
<1>6. Plays(q[1]) \/ Ends(q[1]) \/ OnlyEnds(w)
  <2> SUFFICES ASSUME ~ Plays(q[1]), ~ Ends(q[1]), NEW i \in 1 .. Len(w) PROVE Ends(w[i])
    BY DEF OnlyEnds
  <2> QED
    BY <1>2, <1>3 DEF Alone
<1>7. Upset(q, due) => q[1].is \in {"finished", "refresh"} \/ Upset(w, due)
  <2> SUFFICES ASSUME NEW i \in 1 .. Len(q), q[i].is \in {"finished", "refresh"}, i # 1
               PROVE  Upset(w, due)
    BY DEF Upset
  <2>1. i - 1 \in 1 .. Len(w) /\ (i - 1) + 1 = i
    BY <1>1 DEF w
  <2> QED
    BY <1>3, <2>1 DEF Upset
<1>8. q[1].is = "command" /\ ~ q[1].replayed => q[1].command \in Given
  BY <1>2 DEF Gives
<1>9. w = <<>> => Len(q) = 1
  <2>1. Len(w) = Len(q) - 1 /\ Len(q) \in Nat
    BY <1>1 DEF w
  <2>2. SUFFICES ASSUME w = <<>> PROVE Len(q) = 1
    OBVIOUS
  <2>3. Len(w) = 0
    BY <2>2
  <2> QED
    BY <2>1, <2>3
<1> QED
  BY <1>1, <1>2, <1>4, <1>5, <1>6, <1>7, <1>8, <1>9 DEF w

\* Ends of indexing upset what is shown.
LEMMA EndsUpset ==
  ASSUME NEW q \in Seq(Queued), OnlyEnds(q), NEW due, ~ Upset(q, due)
  PROVE  q = <<>>
<1>1. Len(q) \in Nat /\ (q # <<>> => Len(q) >= 1)
  BY EmptySeq
<1> SUFFICES ASSUME q # <<>> PROVE FALSE
  OBVIOUS
<1>2. 1 \in 1 .. Len(q)
  BY <1>1
<1> QED
  BY <1>2 DEF OnlyEnds, Ends, Upset

\* What a replay is made of.
LEMMA ReplayedIs ==
  ASSUME NEW c \in Command
  PROVE  /\ Replayed(c) \in Queued /\ Plays(Replayed(c))
         /\ Unfiltered(Replayed(c).command) = Unfiltered(c)
         /\ IsActivation(Replayed(c).command) <=> IsActivation(c)
<1>1. CASE c.kind = "errors" /\ indexing
  <2> DEFINE d == [c EXCEPT !.value = "none"]
  <2>1. d = [kind |-> c.kind, value |-> "none", option |-> c.option]
    BY DEF Command
  <2>2. d \in Command /\ d.kind = c.kind /\ d.value = "none"
    BY <2>1 DEF Command
  <2>3. Unfiltered(d) = d
    <3>1. [d EXCEPT !.value = "none"] = d
      BY <2>1
    <3> QED
      BY <3>1 DEF Unfiltered
  <2>4. Unfiltered(c) = d
    BY <1>1 DEF Unfiltered
  <2>5. Replayed(c) = [is |-> "command", command |-> d, replayed |-> TRUE]
    BY <1>1 DEF Replayed, Again
  <2> HIDE DEF d
  <2>6. Replayed(c) \in Queued /\ Plays(Replayed(c)) /\ Replayed(c).command = d
    BY <2>2, <2>5 DEF Queued, Plays
  <2> QED
    BY <2>2, <2>3, <2>4, <2>6 DEF IsActivation
<1>2. CASE ~ (c.kind = "errors" /\ indexing)
  <2>1. Replayed(c) = [is |-> "command", command |-> c, replayed |-> TRUE]
    BY <1>2 DEF Replayed, Again
  <2>2. Replayed(c) \in Queued /\ Plays(Replayed(c)) /\ Replayed(c).command = c
    BY <2>1 DEF Queued, Plays
  <2> QED
    BY <2>2
<1> QED
  BY <1>1, <1>2

\* A replay of a stretch puts its condensed commands behind what waits.
LEMMA ReplayPlays ==
  ASSUME list \in Seq(Command), NEW from \in 1 .. End, NEW to \in from + 1 .. End,
         \A k \in from + 1 .. to - 1 : ~ IsActivation(list[k]),
         NEW w \in Seq(Queued)
  PROVE  \E r \in Seq(Queued) :
           /\ Replay(from, to, w) = w \o r /\ r # <<>>
           /\ \A n \in 1 .. Len(r) : Plays(r[n])
           /\ \A n \in 2 .. Len(r) : ~ IsActivation(r[n].command)
           /\ IsActivation(r[1].command) <=> IsActivation(list[from])
           /\ Played(r) = Condensed(Stretch(list, from, to))
<1> DEFINE s == SubSeq(list, from, to - 1)
           z == Condensed(s)
           r == [n \in DOMAIN z |-> Replayed(z[n])]
<1>1. Len(list) \in Nat /\ End = Len(list) + 1 /\ from \in Nat /\ to \in Nat /\ from < to
  BY DEF End
<1>2. /\ s \in Seq(Command) /\ Len(s) = to - from
      /\ \A n \in 1 .. to - from : s[n] = list[from + n - 1]
  <2>1. \A i \in from .. to - 1 : list[i] \in Command
    BY <1>1
  <2>2. from <= to - 1 /\ (to - 1) - from + 1 = to - from /\ from \in Int /\ to - 1 \in Int
    BY <1>1
  <2>3. /\ s \in Seq(Command)
        /\ Len(s) = (IF from <= to - 1 THEN (to - 1) - from + 1 ELSE 0)
        /\ \A n \in 1 .. (to - 1) - from + 1 : s[n] = list[from + n - 1]
    BY <2>1, <2>2, SubSeqProperties
  <2> HIDE DEF s
  <2> QED
    BY <2>2, <2>3
<1> HIDE DEF s
<1>3. s # <<>> /\ s[1] = list[from] /\ \A n \in 2 .. Len(s) : ~ IsActivation(s[n])
  <2>1. to - from >= 1 /\ 1 \in 1 .. to - from /\ from + 1 - 1 = from
    BY <1>1
  <2>2. s # <<>>
    BY <1>2, <2>1
  <2>3. s[1] = list[from]
    BY <1>2, <2>1
  <2>4. \A n \in 2 .. to - from : n \in 1 .. to - from /\ from + n - 1 \in from + 1 .. to - 1
    BY <1>1
  <2> QED
    BY <1>2, <2>2, <2>3, <2>4
<1>4. /\ z \in Seq(Command) /\ z # <<>>
      /\ \A n \in 1 .. Len(z) : \E i \in 1 .. Len(s) : z[n] = s[i]
      /\ \A n \in 2 .. Len(z) : \E i \in 2 .. Len(s) : z[n] = s[i]
      /\ IsActivation(s[1]) => z[1] = s[1]
  BY <1>2, <1>3, CondensedHead
<1>5. Bare(s) = Stretch(list, from, to)
  <2>1. DOMAIN s = 1 .. to - from
    BY <1>2
  <2> QED
    BY <1>2, <2>1 DEF Bare, Stretch
<1>6. Condensed(Stretch(list, from, to)) = Bare(z)
  BY <1>2, <1>5, CondensedBare
<1> HIDE DEF z
<1>7. DOMAIN z = 1 .. Len(z) /\ Len(z) \in Nat /\ Len(z) >= 1 /\ \A n \in 1 .. Len(z) : z[n] \in Command
  BY <1>4, EmptySeq
<1>8. /\ DOMAIN r = 1 .. Len(z) /\ r \in [1 .. Len(z) -> Queued]
      /\ \A n \in 1 .. Len(z) : r[n] = Replayed(z[n])
  <2>1. \A n \in 1 .. Len(z) : Replayed(z[n]) \in Queued
    BY <1>7, ReplayedIs
  <2> QED
    BY <1>7, <2>1
<1>9. Replay(from, to, w) = w \o r
  BY DEF Replay, s, z
<1> HIDE DEF r
<1>10. r \in Seq(Queued) /\ Len(r) = Len(z)
  BY <1>7, <1>8
<1>11. \A n \in 1 .. Len(z) : /\ Plays(r[n])
                              /\ Unfiltered(r[n].command) = Unfiltered(z[n])
                              /\ IsActivation(r[n].command) <=> IsActivation(z[n])
  BY <1>7, <1>8, ReplayedIs
<1>12. Played(r) = Bare(z)
  BY <1>7, <1>10, <1>11 DEF Played, Bare
<1>13. \A n \in 2 .. Len(z) : ~ IsActivation(z[n])
  BY <1>3, <1>4
<1>14. IsActivation(z[1]) <=> IsActivation(s[1])
  <2>1. 1 \in 1 .. Len(z)
    BY <1>7
  <2>2. PICK i \in 1 .. Len(s) : z[1] = s[i]
    BY <1>4, <2>1
  <2>3. i = 1 \/ i \in 2 .. Len(s)
    BY <1>2
  <2> QED
    BY <1>3, <1>4, <2>2, <2>3
<1>15. 1 \in 1 .. Len(z) /\ \A n \in 2 .. Len(z) : n \in 1 .. Len(z)
  BY <1>7
<1>16. r # <<>>
  BY <1>7, <1>10
<1> QED
  BY <1>3, <1>6, <1>9, <1>10, <1>11, <1>12, <1>13, <1>14, <1>15, <1>16

\* A replay behind ends of indexing.
LEMMA ReplayWaits ==
  ASSUME list \in Seq(Command), NEW from \in 1 .. End, NEW to \in from + 1 .. End,
         \A k \in from + 1 .. to - 1 : ~ IsActivation(list[k]),
         NEW w \in Seq(Queued), OnlyEnds(w), Gives(list, w)
  PROVE  /\ Alone(Replay(from, to, w)) /\ Gives(list, Replay(from, to, w))
         /\ \A due : ~ Upset(Replay(from, to, w), due) => ~ Upset(w, due)
         /\ \A due, t : /\ ~ Upset(Replay(from, to, w), due)
                        /\ \/ IsActivation(list[from])
                           \/ t # <<>> /\ t = SumOf(list, from) /\ from # 1 /\ IsActivation(list[1])
                        => Agrees(Replay(from, to, w), t, SumOf(list, to))
<1>1. PICK r \in Seq(Queued) :
           /\ Replay(from, to, w) = w \o r /\ r # <<>>
           /\ \A n \in 1 .. Len(r) : Plays(r[n])
           /\ \A n \in 2 .. Len(r) : ~ IsActivation(r[n].command)
           /\ IsActivation(r[1].command) <=> IsActivation(list[from])
           /\ Played(r) = Condensed(Stretch(list, from, to))
  BY ReplayPlays
<1>2. Len(list) \in Nat /\ End = Len(list) + 1 /\ from \in Nat /\ to \in Nat /\ from < to
  BY DEF End
<1> DEFINE q == Replay(from, to, w)
<1>3. /\ Len(q) = Len(w) + Len(r) /\ Len(w) \in Nat /\ Len(r) \in Nat
      /\ \A i \in 1 .. Len(w) + Len(r) : q[i] = IF i <= Len(w) THEN w[i] ELSE r[i - Len(w)]
  BY <1>1, ConcatProperties
<1> HIDE DEF q
<1>4. \A i \in 1 .. Len(q) : Ends(q[i]) \/ Plays(q[i])
  <2> SUFFICES ASSUME NEW i \in 1 .. Len(q) PROVE Ends(q[i]) \/ Plays(q[i])
    OBVIOUS
  <2>1. CASE i <= Len(w)
    <3>1. i \in 1 .. Len(w) /\ q[i] = w[i]
      BY <1>3, <2>1
    <3> QED
      BY <3>1 DEF OnlyEnds
  <2>2. CASE ~ i <= Len(w)
    <3>1. i - Len(w) \in 1 .. Len(r) /\ q[i] = r[i - Len(w)]
      BY <1>3, <2>2
    <3> QED
      BY <1>1, <3>1
  <2> QED
    BY <2>1, <2>2
<1>5. Alone(q)
  BY <1>4 DEF Alone
<1>6. Gives(list, q)
  BY <1>4 DEF Gives, Ends, Plays
<1>7. ASSUME NEW due, ~ Upset(q, due) PROVE q = r /\ ~ Upset(w, due)
  <2>1. ~ Upset(w, due)
    <3>1. \A i \in 1 .. Len(w) : i \in 1 .. Len(q) /\ q[i] = w[i]
      BY <1>3
    <3> QED
      BY <1>7, <3>1 DEF Upset
  <2>2. w = <<>>
    BY <2>1, EndsUpset
  <2> QED
    BY <1>1, <2>1, <2>2, ConcatEmptySeq DEF q
<1> DEFINE T == Stretch(list, from, to)
<1>8. from \in 1 .. Len(list) + 1 /\ to \in from .. Len(list) + 1 /\ T \in Seq(Command)
  <2>1. from \in 1 .. Len(list) + 1 /\ to \in from .. Len(list) + 1
    BY <1>2
  <2> QED
    BY <2>1, StretchIs
<1>9. ASSUME IsActivation(list[from]) PROVE \A t : Replaying(r, t, SumOf(list, to))
  <2>1. from \in 1 .. to - 1
    BY <1>2
  <2>2. StartOf(list, to) = from
    BY <1>2, <1>9, <2>1, StartIs
  <2>3. Settled(Played(r)) = SumOf(list, to)
    BY <1>1, <1>8, <2>2, SettledCondensed DEF SumOf
  <2> QED
    BY <1>1, <1>9, <2>3 DEF Replaying
<1>10. ASSUME ~ IsActivation(list[from]), NEW t, t # <<>>, t = SumOf(list, from),
              from # 1, IsActivation(list[1])
       PROVE  Replaying(r, t, SumOf(list, to))
  <2> DEFINE a == StartOf(list, from)
             S == Stretch(list, a, from)
  <2>1. from \in 2 .. Len(list) + 1
    BY <1>2, <1>10
  <2>2. /\ a \in 1 .. from - 1 /\ IsActivation(list[a])
        /\ \A k \in a + 1 .. from - 1 : ~ IsActivation(list[k])
    BY <1>10, <2>1, StartFound
  <2> HIDE DEF a
  <2>3. a \in Nat /\ a \in 1 .. to - 1
    BY <1>2, <2>2
  <2>4. \A k \in a + 1 .. to - 1 : k \in a + 1 .. from - 1 \/ k = from \/ k \in from + 1 .. to - 1
    BY <1>2, <2>3
  <2>5. StartOf(list, to) = a
    BY <1>2, <1>10, <2>2, <2>3, <2>4, StartIs
  <2>6. a \in 1 .. Len(list) + 1 /\ from \in a .. Len(list) + 1
    BY <1>2, <2>2
  <2>7. S \in Seq(Command) /\ Stretch(list, a, to) = S \o T
    BY <1>8, <2>6, StretchIs, StretchSplit
  <2>8. t = Settled(S)
    BY <1>10 DEF SumOf, a
  <2> HIDE DEF S, T
  <2>9. Condensed(T) \in Seq(Command)
    BY <1>8, CondensedIs
  <2>10. Settled(t \o Condensed(T)) = Settled(S \o T)
    <3>1. Settled(Settled(S) \o Condensed(T)) = Settled(S \o Condensed(T))
      BY <2>7, <2>9, SettledKept
    <3>2. Settled(S \o Condensed(T)) = Settled(S \o T)
      BY <1>8, <2>7, SettledReplay
    <3> QED
      BY <2>8, <3>1, <3>2
  <2>11. Settled(t \o Played(r)) = SumOf(list, to)
    BY <1>1, <2>5, <2>7, <2>10 DEF SumOf, T
  <2> QED
    BY <1>1, <1>10, <2>11 DEF Replaying
<1>11. ASSUME NEW due, NEW t, ~ Upset(q, due),
              \/ IsActivation(list[from])
              \/ t # <<>> /\ t = SumOf(list, from) /\ from # 1 /\ IsActivation(list[1])
       PROVE  Agrees(q, t, SumOf(list, to))
  <2>1. q = r
    BY <1>7, <1>11
  <2>2. Replaying(r, t, SumOf(list, to))
    BY <1>9, <1>10, <1>11
  <2> QED
    BY <2>1, <2>2 DEF Agrees
<1> QED
  BY <1>5, <1>6, <1>7, <1>11 DEF q

\* The steps around the controller.
LEMMA ShownInit == HistoryInit => ShownInv
<1> SUFFICES ASSUME HistoryInit PROVE ShownInv
  OBVIOUS
<1>1. queue = <<>> /\ list = <<>> /\ Len(<<>>) = 0 /\ 1 .. 0 = {}
  BY DEF HistoryInit
<1> QED
  BY <1>1 DEF ShownInv, Alone, Gives

\* One message that upsets nothing, or one that ends what upsets.
LEMMA OneWaits ==
  ASSUME NEW m, ~ Plays(m), m.is = "command" /\ ~ m.replayed => m.command \in Given,
         queue = <<>>, Shape, ShownInv, queue' = <<m>>, list' = list, iter' = iter,
         told' = told, m.is = "refresh" \/ refreshes' = refreshes
  PROVE  ShownInv'
<1>1. Len(queue') = 1 /\ queue'[1] = m /\ 1 .. 1 = {1} /\ 1 .. 0 = {} /\ Len(queue) = 0
  OBVIOUS
<1>2. Alone(queue') /\ Gives(list', queue')
  BY <1>1 DEF Alone, Gives, ShownInv
<1>3. ASSUME ~ Upset(queue', refreshes'), list' # <<>>
      PROVE  Agrees(queue', told', SumOf(list', iter'))
  <2>1. m.is # "refresh" /\ refreshes' = {}
    BY <1>1, <1>3 DEF Upset
  <2>2. ~ Upset(queue, refreshes)
    BY <1>1, <2>1 DEF Upset
  <2>3. Agrees(queue, told, SumOf(list, iter))
    BY <1>3, <2>2 DEF ShownInv
  <2>4. queue # <<Said(Overview)>>
    BY <1>1
  <2>5. told = SumOf(list, iter)
    BY <2>3, <2>4 DEF Agrees, Replaying
  <2>6. Len(queue') <= 1 /\ \A n \in 1 .. Len(queue') : ~ Plays(queue'[n])
    BY <1>1
  <2> QED
    BY <2>5, <2>6 DEF Agrees
<1> QED
  BY <1>2, <1>3 DEF ShownInv

\* The user acts when nothing waits: one message waits, and nothing is replayed.
LEMMA ActsShown ==
  ASSUME MaxWaiting = 0, Shape, ShownInv, UserActs
  PROVE  ShownInv'
<1>1. queue = <<>>
  <2>1. Len(queue) <= 0 /\ queue \in Seq(Queued)
    BY DEF UserActs, Shape
  <2> QED
    BY <2>1, EmptySeq
<1>2. /\ list' = list /\ iter' = iter /\ told' = told /\ refreshes' = refreshes
      /\ \E m : queue' = Append(queue, m) /\ ~ Plays(m)
                /\ (m.is = "command" /\ ~ m.replayed => m.command \in Given)
  <2>1. CASE \E c \in Inputs : PushMessage(Said(c))
    BY <2>1 DEF PushMessage, Said, Plays, Given
  <2>2. CASE PushMessage([is |-> "undo"])
    BY <2>2 DEF PushMessage, Plays
  <2>3. CASE PushMessage([is |-> "redo"])
    BY <2>3 DEF PushMessage, Plays
  <2>4. CASE \E n \in DOMAIN menu.entries : PushMessage([is |-> "position", index |-> n - 1])
    BY <2>4 DEF PushMessage, Plays
  <2> QED
    BY <2>1, <2>2, <2>3, <2>4 DEF UserActs
<1>3. PICK m : /\ queue' = Append(queue, m) /\ ~ Plays(m)
               /\ m.is = "command" /\ ~ m.replayed => m.command \in Given
  BY <1>2
<1>4. queue' = <<m>>
  BY <1>1, <1>3
<1> QED
  BY <1>1, <1>2, <1>3, <1>4, OneWaits

\* The Qt thread asks for a refresh when nothing waits.
LEMMA RefreshesShown ==
  ASSUME MaxWaiting = 0, Shape, ShownInv, QtRefreshes
  PROVE  ShownInv'
<1>1. queue = <<>>
  <2>1. Len(queue) <= 0 /\ queue \in Seq(Queued)
    BY DEF QtRefreshes, Shape
  <2> QED
    BY <2>1, EmptySeq
<1>2. PICK after \in refreshes : queue' = Append(queue, [is |-> "refresh", after |-> after])
  BY DEF QtRefreshes
<1> DEFINE m == [is |-> "refresh", after |-> after]
<1>3. ~ Plays(m) /\ m.is = "refresh" /\ m.is # "command"
  BY DEF Plays
<1>4. list' = list /\ iter' = iter /\ told' = told
  BY DEF QtRefreshes
<1>5. queue' = <<m>>
  BY <1>1, <1>2
<1> HIDE DEF m
<1> QED
  BY <1>1, <1>3, <1>4, <1>5, OneWaits

\* An end of indexing joins whatever waits, and upsets until it is handled.
LEMMA EndsShown ==
  ASSUME Shape, ShownInv, IndexingEnds
  PROVE  ShownInv'
<1>1. queue \in Seq(Queued) /\ [is |-> "finished"] \in Queued /\ list' = list
  BY DEF Shape, Queued, IndexingEnds
<1>2. /\ queue' = Append(queue, [is |-> "finished"])
      /\ Len(queue') = Len(queue) + 1 /\ Len(queue) \in Nat
      /\ \A i \in 1 .. Len(queue) : queue'[i] = queue[i]
      /\ queue'[Len(queue) + 1] = [is |-> "finished"]
  <2>1. queue' = Append(queue, [is |-> "finished"])
    BY DEF IndexingEnds
  <2> QED
    BY <1>1, <2>1, AppendProperties
<1>3. \A i \in 1 .. Len(queue') : i \in 1 .. Len(queue) \/ i = Len(queue) + 1
  BY <1>2
<1>4. Ends(queue'[Len(queue) + 1]) /\ queue'[Len(queue) + 1].is = "finished"
  BY <1>2 DEF Ends
<1>5. Alone(queue')
  <2> SUFFICES ASSUME NEW i \in 1 .. Len(queue'), ~ Plays(queue'[i]), ~ Ends(queue'[i]),
                      NEW j \in 1 .. Len(queue'), j # i
               PROVE  Ends(queue'[j])
    BY DEF Alone
  <2>1. i \in 1 .. Len(queue) /\ queue'[i] = queue[i]
    BY <1>2, <1>3, <1>4
  <2>2. CASE j = Len(queue) + 1
    BY <1>4, <2>2
  <2>3. CASE j \in 1 .. Len(queue)
    <3>1. queue'[j] = queue[j]
      BY <1>2, <2>3
    <3> QED
      BY <2>1, <2>3, <3>1 DEF ShownInv, Alone
  <2> QED
    BY <1>3, <2>2, <2>3
<1>6. Gives(list', queue')
  <2> SUFFICES ASSUME NEW i \in 1 .. Len(queue'), queue'[i].is = "command", ~ queue'[i].replayed
               PROVE  queue'[i].command \in Given
    BY <1>1 DEF ShownInv, Gives
  <2>1. i \in 1 .. Len(queue) /\ queue'[i] = queue[i]
    BY <1>2, <1>3, <1>4
  <2> QED
    BY <2>1 DEF ShownInv, Gives
<1>7. Upset(queue', refreshes')
  <2>1. Len(queue) + 1 \in 1 .. Len(queue')
    BY <1>2
  <2> QED
    BY <1>4, <2>1 DEF Upset
<1> QED
  BY <1>5, <1>6, <1>7 DEF ShownInv

\* An indexing that begins, another project, or a stutter.
LEMMA AroundShown ==
  ASSUME ShownInv, IndexingStarts \/ Clear \/ UNCHANGED historyVars
  PROVE  ShownInv'
<1>1. CASE IndexingStarts
  BY <1>1 DEF IndexingStarts, ShownInv
<1>2. CASE UNCHANGED historyVars
  BY <1>2 DEF historyVars, ShownInv
<1>3. CASE Clear
  <2>1. list' = <<>> /\ queue' = queue /\ Len(<<>>) = 0 /\ 1 .. 0 = {}
    BY <1>3 DEF Clear
  <2> QED
    BY <2>1 DEF ShownInv, Gives
<1> QED
  BY <1>1, <1>2, <1>3

\* The commands of a replay, one after the other.
LEMMA PlayedIs ==
  ASSUME NEW q \in Seq(Queued), \A n \in 1 .. Len(q) : Plays(q[n])
  PROVE  /\ Played(q) \in Seq(Command) /\ Len(Played(q)) = Len(q)
         /\ \A n \in 1 .. Len(q) : Played(q)[n] = Unfiltered(q[n].command)
<1> DEFINE t == [n \in 1 .. Len(q) |-> Unfiltered(q[n].command)]
<1>1. Len(q) \in Nat /\ \A n \in 1 .. Len(q) : q[n] \in Queued
  OBVIOUS
<1>2. \A n \in 1 .. Len(q) : q[n].command \in Command
  BY <1>1, QueuedIs DEF Plays
<1>3. \A n \in 1 .. Len(q) : Unfiltered(q[n].command) \in Command
  BY <1>2, UnfilteredIs
<1>4. t \in [1 .. Len(q) -> Command] /\ DOMAIN t = 1 .. Len(q)
      /\ \A n \in 1 .. Len(q) : t[n] = Unfiltered(q[n].command)
  BY <1>3
<1>5. t = Played(q)
  BY DEF Played
<1> HIDE DEF t
<1>6. t \in Seq(Command) /\ Len(t) = Len(q)
  BY <1>1, <1>4
<1> QED
  BY <1>4, <1>5, <1>6

\* The first command of a replay, and the rest.
LEMMA PlayedSplit ==
  ASSUME NEW q \in Seq(Queued), q # <<>>, \A n \in 1 .. Len(q) : Plays(q[n])
  PROVE  /\ Played(Tail(q)) \in Seq(Command)
         /\ Played(q) = <<Unfiltered(q[1].command)>> \o Played(Tail(q))
         /\ Tail(q) = <<>> => Played(Tail(q)) = <<>>
         /\ \A n \in 1 .. Len(Tail(q)) : Plays(Tail(q)[n]) /\ Tail(q)[n] = q[n + 1]
                                         /\ n + 1 \in 2 .. Len(q)
<1> DEFINE w == Tail(q)
           c == Unfiltered(q[1].command)
<1>1. /\ w \in Seq(Queued) /\ Len(w) = Len(q) - 1 /\ Len(q) \in Nat /\ Len(q) >= 1
      /\ \A i \in 1 .. Len(w) : w[i] = q[i + 1]
  BY HeadTailProperties, EmptySeq
<1>2. q[1] \in Queued /\ 1 \in 1 .. Len(q)
  BY <1>1
<1> HIDE DEF w
<1>3. \A i \in 1 .. Len(w) : i + 1 \in 2 .. Len(q) /\ Plays(w[i])
  BY <1>1
<1>4. /\ Played(w) \in Seq(Command) /\ Len(Played(w)) = Len(w)
      /\ \A n \in 1 .. Len(w) : Played(w)[n] = Unfiltered(w[n].command)
  BY <1>1, <1>3, PlayedIs
<1>5. /\ Played(q) \in Seq(Command) /\ Len(Played(q)) = Len(q)
      /\ \A n \in 1 .. Len(q) : Played(q)[n] = Unfiltered(q[n].command)
  BY PlayedIs
<1>6. c \in Command
  <2>1. q[1].command \in Command
    BY <1>2, QueuedIs DEF Plays
  <2> QED
    BY <2>1, UnfilteredIs
<1> DEFINE p == Played(w)
           one == <<c>>
<1>7. one \in Seq(Command) /\ Len(one) = 1 /\ one[1] = c
  BY <1>6
<1>8. Played(q)[1] = c
  BY <1>2, <1>5
<1> HIDE DEF c, one, p
<1>9. /\ one \o p \in Seq(Command) /\ Len(one \o p) = Len(q)
      /\ \A n \in 1 .. Len(q) : (one \o p)[n] = IF n <= 1 THEN c ELSE p[n - 1]
  <2>1. /\ one \o p \in Seq(Command) /\ Len(one \o p) = 1 + Len(p)
        /\ \A n \in 1 .. 1 + Len(p) : (one \o p)[n] = IF n <= 1 THEN one[n] ELSE p[n - 1]
    <3>1. p \in Seq(Command)
      BY <1>4 DEF p
    <3>2. /\ one \o p \in Seq(Command) /\ Len(one \o p) = Len(one) + Len(p)
          /\ \A n \in 1 .. Len(one) + Len(p) :
               (one \o p)[n] = IF n <= Len(one) THEN one[n] ELSE p[n - Len(one)]
      BY <1>7, <3>1, ConcatProperties
    <3> QED
      BY <1>7, <3>2
  <2>2. 1 + Len(p) = Len(q)
    BY <1>1, <1>4 DEF p
  <2>3. \A n \in 1 .. Len(q) : n <= 1 => n = 1
    BY <1>1
  <2> QED
    BY <1>7, <2>1, <2>2, <2>3
<1>10. \A n \in 1 .. Len(q) : Played(q)[n] = (one \o p)[n]
  <2> SUFFICES ASSUME NEW n \in 1 .. Len(q), ~ n <= 1 PROVE Played(q)[n] = p[n - 1]
    <3>1. \A n \in 1 .. Len(q) : n <= 1 => n = 1
      BY <1>1
    <3> QED
      BY <1>8, <1>9, <3>1
  <2>1. n - 1 \in 1 .. Len(w) /\ (n - 1) + 1 = n
    BY <1>1
  <2> QED
    BY <1>1, <1>4, <1>5, <2>1 DEF p
<1>11. Played(q) = one \o p
  BY <1>5, <1>9, <1>10, SeqEqual
<1>12. w = <<>> => p = <<>>
  <2> SUFFICES ASSUME w = <<>> PROVE p = <<>>
    OBVIOUS
  <2>1. Len(w) = 0
    OBVIOUS
  <2>2. Len(p) = 0 /\ p \in Seq(Command)
    BY <1>4, <2>1 DEF p
  <2> QED
    BY <2>2, EmptySeq
<1> QED
  BY <1>1, <1>3, <1>4, <1>11, <1>12 DEF w, p, one, c

\* A command of a replay arrives.
LEMMA PlayedShown ==
  ASSUME Shape, ShownInv, queue # <<>>, GetCommand(Head(queue)), Head(queue).replayed
  PROVE  ShownInv'
<1> DEFINE m == queue[1]
           c == m.command
           w == Tail(queue)
<1>1. queue \in Seq(Queued) /\ told \in Seq(Command)
  BY DEF Shape
<1>2. /\ w \in Seq(Queued) /\ m \in Queued /\ Head(queue) = m
      /\ Alone(w) /\ Gives(list, w)
      /\ Upset(queue, refreshes) => m.is \in {"finished", "refresh"} \/ Upset(w, refreshes)
  BY <1>1, RestWaits DEF ShownInv
<1>3. /\ m.is = "command" /\ Plays(m) /\ queue' = w /\ told' = Told(c)
      /\ list' = list /\ iter' = iter /\ refreshes' = refreshes
  BY <1>2 DEF GetCommand, HandleReplayed, Plays
<1>4. c \in Command /\ Unfiltered(c) \in Command /\ (~ IsActivation(c) => Unfiltered(c) = c)
  <2>1. c \in Command
    BY <1>2, <1>3, QueuedIs
  <2> QED
    BY <2>1, UnfilteredIs
<1> DEFINE sum == SumOf(list, iter)
<1>5. ASSUME ~ Upset(w, refreshes), list # <<>> PROVE Agrees(w, told', sum)
  <2>1. ~ Upset(queue, refreshes)
    BY <1>2, <1>3, <1>5
  <2>2. Agrees(queue, told, sum)
    BY <1>5, <2>1 DEF ShownInv
  <2>3. Replaying(queue, told, sum)
    <3>1. 1 \in 1 .. Len(queue)
      BY <1>1, EmptySeq
    <3>2. queue # <<Said(Overview)>>
      BY <1>3 DEF Plays, Said
    <3> QED
      BY <1>3, <2>2, <3>1, <3>2 DEF Agrees
  <2>4. /\ \A n \in 1 .. Len(queue) : Plays(queue[n])
        /\ \A n \in 2 .. Len(queue) : ~ IsActivation(queue[n].command)
    BY <2>3 DEF Replaying
  <2> DEFINE p == Played(w)
             f == Unfiltered(c)
  <2>5. /\ p \in Seq(Command) /\ Played(queue) = <<f>> \o p
        /\ w = <<>> => p = <<>>
        /\ \A n \in 1 .. Len(w) : /\ Plays(w[n]) /\ w[n] = queue[n + 1]
                                  /\ n + 1 \in 2 .. Len(queue)
    BY <1>1, <2>4, PlayedSplit
  <2>6. \A n \in 1 .. Len(w) : ~ IsActivation(w[n].command)
    BY <2>4, <2>5
  <2>7. told' # <<>> /\ told' \in Seq(Command) /\ Settled(told' \o p) = sum
        /\ (p = <<>> => told' = sum)
    <3> HIDE DEF p, f, w
    <3>1. CASE IsActivation(c)
      <4>1. told' = <<f>> /\ Settled(<<f>> \o p) = sum
        BY <1>3, <2>3, <2>5, <3>1 DEF Told, Replaying, f
      <4>2. <<f>> \in Seq(Command) /\ <<f>> # <<>> /\ f \in Command
        BY <1>4 DEF f
      <4>3. p = <<>> => <<f>> \o p = <<f>> /\ Settled(<<f>>) = <<f>>
        BY <4>2, ConcatEmptySeq, SettledOne
      <4> QED
        BY <4>1, <4>2, <4>3
    <3>2. CASE ~ IsActivation(c)
      <4> DEFINE s == Append(told, c)
      <4>1. told # <<>> /\ Settled(told \o (<<c>> \o p)) = sum /\ told' = Settled(s)
        BY <1>3, <1>4, <2>3, <2>5, <3>2 DEF Told, Replaying, f
      <4>2. s \in Seq(Command) /\ s # <<>>
        BY <1>1, <1>4, AppendProperties
      <4>3. told \o (<<c>> \o p) = s \o p
        <5>1. <<c>> \in Seq(Command) /\ s = told \o <<c>>
          BY <1>1, <1>4, AppendIsConcat
        <5> QED
          BY <1>1, <2>5, <5>1, ConcatAssociative
      <4> HIDE DEF s
      <4>4. Settled(s) # <<>> /\ Settled(s) \in Seq(Command)
        BY <4>2, SettledMore, SettledIs
      <4>5. Settled(Settled(s) \o p) = Settled(s \o p)
        BY <2>5, <4>2, SettledKept
      <4>6. p = <<>> => s \o p = s
        BY <4>2, ConcatEmptySeq
      <4> QED
        BY <4>1, <4>3, <4>4, <4>5, <4>6
    <3> QED
      BY <3>1, <3>2
  <2>8. CASE w = <<>>
    <3>1. told' = sum
      BY <2>5, <2>7, <2>8
    <3>2. Len(w) <= 1 /\ \A n \in 1 .. Len(w) : ~ Plays(w[n])
      <4> HIDE DEF w
      <4>1. Len(w) = 0
        BY <2>8
      <4> QED
        BY <4>1
    <3> QED
      BY <3>1, <3>2 DEF Agrees
  <2>9. CASE w # <<>>
    <3>1. 1 \in 1 .. Len(w)
      BY <1>2, <2>9, EmptySeq
    <3>2. \A n \in 2 .. Len(w) : n \in 1 .. Len(w)
      OBVIOUS
    <3>3. Replaying(w, told', sum)
      <4> HIDE DEF w, p, sum
      <4> QED
        BY <2>5, <2>6, <2>7, <2>9, <3>1, <3>2 DEF Replaying, p
    <3> QED
      BY <3>3 DEF Agrees
  <2> QED
    BY <2>8, <2>9
<1> QED
  BY <1>2, <1>3, <1>5 DEF ShownInv

\* What is given is a command, and only trails have options.
LEMMA GivenIs ==
  ASSUME NEW c \in Given
  PROVE  /\ c \in Command
         /\ c.kind \notin {"trail", "customTrail"} => c.option = "none"
<1>1. Overview \in Command /\ Overview.option = "none"
  BY DEF Overview, Command, AllKinds, Activating
<1> QED
  BY <1>1, UndoRedoAssumption DEF Given

\* What a view overwrites is one of its kind.
LEMMA OverwrittenIs ==
  ASSUME NEW x \in Given, NEW c \in Given, c.kind \in Overwriting,
         MessageType(x.kind) = MessageType(c.kind)
  PROVE  /\ x.kind = c.kind /\ [x EXCEPT !.value = c.value] = c
         /\ c.kind \in LastOnly /\ ~ IsActivation(x) /\ ~ IsActivation(c)
<1>1. /\ c.kind \notin {"tokens", "edge", "bundle", "trail", "customTrail",
                         "viewMode", "fileView"}
      /\ c.kind \notin Activating /\ c.kind \in LastOnly
  BY DEF Overwriting, Activating, LastOnly
<1>2. x.kind = c.kind
  BY <1>1, TypeIsKind
<1>3. x.kind \notin {"trail", "customTrail"}
  BY <1>1, <1>2
<1>4. x \in Command /\ c \in Command /\ x.option = "none" /\ c.option = "none"
  BY <1>1, <1>3, GivenIs
<1>5. c = [kind |-> c.kind, value |-> c.value, option |-> c.option]
  BY <1>4 DEF Command
<1>6. [x EXCEPT !.value = c.value] = [kind |-> x.kind, value |-> c.value, option |-> x.option]
  BY <1>4 DEF Command
<1> QED
  BY <1>1, <1>2, <1>4, <1>5, <1>6 DEF IsActivation

\* Where a command is recorded.
LEMMA RecordedAt ==
  ASSUME Shape, NEW c \in Command, HandleCommand(c), ~ Overwrites(c), ~ Known(c),
         iter # 1 \/ IsActivation(c)
  PROVE  /\ list' \in Seq(Command) /\ iter' = iter + 1 /\ iter \in 1 .. Len(list')
         /\ \A i \in 1 .. iter - 1 : list'[i] = list[i]
         /\ list'[iter] = c
         /\ \A i \in iter + 1 .. Len(list') : \E j \in 1 .. Len(list) : list'[i] = list[j]
<1>1. /\ Len(list) \in Nat /\ End = Len(list) + 1 /\ list \in Seq(Command)
      /\ iter \in 1 .. End
  BY DEF End, HistoryTypeOK, Shape
<1> DEFINE k == Kept(c)
<1>2. list' = SubSeq(list, 1, iter - 1) \o <<c>> \o k /\ iter' = iter + 1
  BY DEF HandleCommand
<1>3. CASE IsActivation(c)
  <2>1. k = <<>>
    BY <1>3, HistoryKinds DEF Kept
  <2> DEFINE f == SubSeq(list, 1, iter - 1)
  <2>2. /\ f \in Seq(Command) /\ Len(f) = iter - 1
        /\ \A i \in 1 .. iter - 1 : f[i] = list[i]
    <3>1. \A i \in 1 .. iter - 1 : list[i] \in Command
      BY <1>1
    <3>2. /\ f \in Seq(Command)
          /\ Len(f) = IF 1 <= iter - 1 THEN (iter - 1) - 1 + 1 ELSE 0
          /\ \A i \in 1 .. (iter - 1) - 1 + 1 : f[i] = list[1 + i - 1]
      BY <1>1, <3>1, SubSeqProperties
    <3> HIDE DEF f
    <3> QED
      BY <1>1, <3>2
  <2> HIDE DEF f, k
  <2>3. list' = Append(f, c)
    <3>1. <<c>> \in Seq(Command) /\ f \o <<c>> \in Seq(Command)
      BY <2>2, ConcatProperties
    <3>2. (f \o <<c>>) \o <<>> = f \o <<c>>
      BY <3>1, ConcatEmptySeq
    <3>3. f \o <<c>> = Append(f, c)
      BY <2>2, AppendIsConcat
    <3> QED
      BY <1>2, <2>1, <3>2, <3>3 DEF f
  <2>4. /\ list' \in Seq(Command) /\ Len(list') = (iter - 1) + 1
        /\ \A i \in 1 .. iter - 1 : list'[i] = f[i]
        /\ list'[(iter - 1) + 1] = c
    BY <2>2, <2>3, AppendProperties
  <2>5. (iter - 1) + 1 = iter /\ iter \in 1 .. iter /\ iter + 1 .. iter = {}
    BY <1>1
  <2> QED
    BY <1>2, <2>2, <2>4, <2>5
<1>4. CASE ~ IsActivation(c)
  <2> HIDE DEF k
  <2>1. k = Kept(c) /\ iter # 1
    BY <1>4 DEF k
  <2>2. PICK p \in iter .. End :
           /\ Len(list') = iter + (End - p) /\ list' \in Seq(Command)
           /\ \A i \in 1 .. Len(list') :
                list'[i] = IF i < iter THEN list[i]
                           ELSE IF i = iter THEN c ELSE list[(i - iter) + p - 1]
    BY <1>2, <1>4, <2>1, RecordedIs
  <2>3. iter \in 1 .. Len(list') /\ \A i \in 1 .. iter - 1 : i \in 1 .. Len(list') /\ i < iter
    BY <1>1, <2>2
  <2>4. \A i \in 1 .. iter - 1 : list'[i] = list[i]
    BY <2>2, <2>3
  <2>5. list'[iter] = c
    BY <1>1, <2>2, <2>3
  <2>6. ASSUME NEW i \in iter + 1 .. Len(list')
        PROVE  \E j \in 1 .. Len(list) : list'[i] = list[j]
    <3>1. i \in 1 .. Len(list') /\ ~ i < iter /\ i # iter /\ (i - iter) + p - 1 \in 1 .. Len(list)
      BY <1>1, <2>2
    <3> QED
      BY <2>2, <3>1
  <2> QED
    BY <1>2, <2>2, <2>3, <2>4, <2>5, <2>6
<1> QED
  BY <1>3, <1>4

\* So the list holds only what was given.
LEMMA RecordedGiven ==
  ASSUME Shape, \A i \in 1 .. Len(list) : list[i] \in Given, NEW c \in Given, HandleCommand(c)
  PROVE  /\ \A i \in 1 .. Len(list') : list'[i] \in Given
         /\ Overwrites(c) => /\ list' = [list EXCEPT ![iter - 1] = c]
                             /\ iter - 1 \in 1 .. Len(list)
                             /\ list[iter - 1] \in Given
                             /\ MessageType(list[iter - 1].kind) = MessageType(c.kind)
<1>1. /\ Len(list) \in Nat /\ End = Len(list) + 1 /\ list \in Seq(Command)
      /\ iter \in 1 .. End /\ c \in Command
  BY GivenIs DEF End, HistoryTypeOK, Shape
<1>2. CASE Overwrites(c)
  <2>1. list' = [list EXCEPT ![iter - 1].value = c.value] /\ c.kind \in Overwriting
    BY <1>2 DEF HandleCommand, Overwrites
  <2>2. iter - 1 \in 1 .. Len(list) /\ MessageType(list[iter - 1].kind) = MessageType(c.kind)
    BY <1>1, <1>2 DEF Overwrites, SameMessageTypeAsLast, LastMessage
  <2> DEFINE x == list[iter - 1]
             e == [x EXCEPT !.value = c.value]
  <2>3. x \in Given
    BY <2>2
  <2>4. e = c
    BY <2>1, <2>2, <2>3, OverwrittenIs
  <2>5. list' = [list EXCEPT ![iter - 1] = e]
    BY <2>1
  <2> HIDE DEF e
  <2>6. list' = [list EXCEPT ![iter - 1] = c]
    BY <2>4, <2>5
  <2>7. Len(list') = Len(list) /\ \A i \in 1 .. Len(list) : list'[i] = list[i] \/ list'[i] = c
    BY <1>1, <2>2, <2>6
  <2> QED
    BY <2>2, <2>3, <2>6, <2>7
<1>3. CASE ~ Overwrites(c) /\ (Known(c) \/ (iter = 1 /\ ~ IsActivation(c)))
  BY <1>3 DEF HandleCommand
<1>4. CASE ~ Overwrites(c) /\ ~ Known(c) /\ (iter # 1 \/ IsActivation(c))
  <2>1. /\ list' \in Seq(Command) /\ iter \in 1 .. Len(list')
        /\ \A i \in 1 .. iter - 1 : list'[i] = list[i]
        /\ list'[iter] = c
        /\ \A i \in iter + 1 .. Len(list') : \E j \in 1 .. Len(list) : list'[i] = list[j]
    BY <1>1, <1>4, RecordedAt
  <2>2. \A i \in 1 .. Len(list') : i \in 1 .. iter - 1 \/ i = iter \/ i \in iter + 1 .. Len(list')
    BY <1>1
  <2>3. \A i \in 1 .. iter - 1 : i \in 1 .. Len(list)
    BY <1>1
  <2> QED
    BY <1>4, <2>1, <2>2, <2>3
<1> QED
  BY <1>2, <1>3, <1>4

\* What an activation that ends a stretch adds up to.
LEMMA SumOfOne ==
  ASSUME NEW l \in Seq(Command), NEW p \in 1 .. Len(l), IsActivation(l[p])
  PROVE  SumOf(l, p + 1) = <<Unfiltered(l[p])>>
<1>1. Len(l) \in Nat /\ p \in Nat /\ p + 1 \in Nat /\ (p + 1) - 1 = p /\ p \in 1 .. (p + 1) - 1
      /\ l[p] \in Command
  OBVIOUS
<1>2. StartOf(l, p + 1) = p
  <2>1. \A k \in p + 1 .. (p + 1) - 1 : ~ IsActivation(l[k])
    BY <1>1
  <2> QED
    BY <1>1, <2>1, StartIs
<1>3. Stretch(l, p, p + 1) = <<Unfiltered(l[p])>>
  BY StretchOne
<1>4. Settled(<<Unfiltered(l[p])>>) = <<Unfiltered(l[p])>>
  BY <1>1, UnfilteredIs, SettledOne
<1> QED
  BY <1>2, <1>3, <1>4 DEF SumOf

\* What one more command adds.
LEMMA SumOfMore ==
  ASSUME NEW l \in Seq(Command), IsActivation(l[1]), NEW p \in 2 .. Len(l), ~ IsActivation(l[p]),
         NEW a, a = StartOf(l, p)
  PROVE  /\ a \in 1 .. p - 1 /\ StartOf(l, p + 1) = a
         /\ Stretch(l, a, p) \in Seq(Command) /\ Stretch(l, a, p) # <<>>
         /\ Stretch(l, a, p + 1) = Append(Stretch(l, a, p), l[p])
         /\ SumOf(l, p) = Settled(Stretch(l, a, p))
         /\ SumOf(l, p + 1) = Settled(Append(Stretch(l, a, p), l[p]))
<1>1. Len(l) \in Nat /\ p \in 2 .. Len(l) + 1 /\ p \in Nat /\ p + 1 \in Nat /\ l[p] \in Command
  OBVIOUS
<1>2. /\ a \in 1 .. p - 1 /\ IsActivation(l[a])
      /\ \A k \in a + 1 .. p - 1 : ~ IsActivation(l[k])
  BY <1>1, StartFound
<1>3. StartOf(l, p + 1) = a
  <2>1. a \in 1 .. (p + 1) - 1
    BY <1>1, <1>2
  <2>2. \A k \in a + 1 .. (p + 1) - 1 : k = p \/ k \in a + 1 .. p - 1
    BY <1>1, <1>2
  <2>3. \A k \in a + 1 .. (p + 1) - 1 : ~ IsActivation(l[k])
    BY <1>2, <2>2
  <2> QED
    BY <1>1, <1>2, <2>1, <2>3, StartIs
<1>4. a \in 1 .. Len(l) /\ a \in 1 .. Len(l) + 1 /\ p \in a .. Len(l) /\ p \in a .. Len(l) + 1
      /\ p - a >= 1
  BY <1>1, <1>2
<1>5. Stretch(l, a, p + 1) = Append(Stretch(l, a, p), l[p])
  BY <1>1, <1>4, StretchMore, UnfilteredIs
<1>6. Stretch(l, a, p) \in Seq(Command) /\ Len(Stretch(l, a, p)) = p - a
  BY <1>4, StretchIs
<1>7. Stretch(l, a, p) # <<>>
  <2> DEFINE s == Stretch(l, a, p)
  <2>1. Len(s) >= 1
    BY <1>4, <1>6
  <2> HIDE DEF s
  <2>2. s # <<>>
    BY <2>1
  <2> QED
    BY <2>2 DEF s
<1> QED
  BY <1>2, <1>3, <1>5, <1>6, <1>7 DEF SumOf

\* The other listeners show what the list says after a command.
LEMMA HandledSum ==
  ASSUME Shape, Shape', ToldApart, \A i \in 1 .. Len(list) : list[i] \in Given,
         NEW c \in Given, HandleCommand(c), told' = Told(c), list' # <<>>,
         list # <<>> /\ ~ IsActivation(c) => told = SumOf(list, iter)
  PROVE  told' = SumOf(list', iter')
<1>1. /\ Len(list) \in Nat /\ End = Len(list) + 1 /\ list \in Seq(Command)
      /\ iter \in 1 .. End /\ c \in Command /\ told \in Seq(Command)
      /\ iter = 1 => list = <<>>
      /\ list # <<>> => IsActivation(list[1])
  BY GivenIs DEF End, HistoryTypeOK, Shape
<1>2. list' \in Seq(Command) /\ IsActivation(list'[1])
  BY DEF Shape, HistoryTypeOK
<1>3. Overwrites(c) => /\ list' = [list EXCEPT ![iter - 1] = c]
                       /\ iter - 1 \in 1 .. Len(list)
                       /\ list[iter - 1] \in Given
                       /\ MessageType(list[iter - 1].kind) = MessageType(c.kind)
  BY RecordedGiven
<1>4. ASSUME Overwrites(c)
      PROVE  /\ list[iter - 1].kind = c.kind /\ c.kind \in LastOnly
             /\ ~ IsActivation(list[iter - 1]) /\ ~ IsActivation(c)
             /\ iter' = iter
  <2>1. c.kind \in Overwriting /\ iter' = iter
    BY <1>4 DEF Overwrites, HandleCommand
  <2> QED
    BY <1>3, <1>4, <2>1, OverwrittenIs
<1>5. ASSUME Known(c), ~ Overwrites(c)
      PROVE  /\ iter - 1 \in 1 .. Len(list) /\ list[iter - 1] = c
             /\ list' = list /\ iter' = iter /\ c.kind \notin Repeating
  <2>1. /\ iter > 1 /\ MessageType(list[iter - 1].kind) = MessageType(c.kind)
        /\ c.kind \notin Repeating \cup Overwriting /\ c.value = list[iter - 1].value
    BY <1>5 DEF Known, SameMessageTypeAsLast, LastMessage
  <2>2. iter - 1 \in 1 .. Len(list)
    BY <1>1, <2>1
  <2>3. list[iter - 1] = c
    BY <2>1, <2>2 DEF ToldApart
  <2> QED
    BY <1>5, <2>1, <2>2, <2>3 DEF HandleCommand
<1>6. ASSUME ~ Known(c), ~ Overwrites(c), iter = 1, ~ IsActivation(c) PROVE FALSE
  BY <1>1, <1>6 DEF HandleCommand
<1>7. ASSUME ~ Known(c), ~ Overwrites(c)
      PROVE  /\ iter' = iter + 1 /\ iter \in 1 .. Len(list')
             /\ \A i \in 1 .. iter - 1 : list'[i] = list[i]
             /\ list'[iter] = c
  BY <1>1, <1>6, <1>7, RecordedAt
<1>8. CASE IsActivation(c)
  <2>1. told' = <<Unfiltered(c)>>
    BY <1>8 DEF Told
  <2>2. PICK p \in 1 .. Len(list') : list'[p] = c /\ iter' = p + 1
    <3>1. CASE Known(c)
      <4>1. ~ Overwrites(c)
        BY <1>4, <1>8
      <4>2. (iter - 1) + 1 = iter
        BY <1>1
      <4> QED
        BY <1>5, <3>1, <4>1, <4>2
    <3>2. CASE ~ Known(c)
      BY <1>4, <1>7, <1>8, <3>2
    <3> QED
      BY <3>1, <3>2
  <2>3. SumOf(list', p + 1) = <<Unfiltered(list'[p])>>
    BY <1>2, <1>8, <2>2, SumOfOne
  <2> QED
    BY <2>1, <2>2, <2>3
<1>9. CASE ~ IsActivation(c)
  <2>1. list # <<>> /\ iter # 1
    <3>1. ASSUME iter = 1 PROVE FALSE
      <4>1. ~ Known(c) /\ ~ Overwrites(c)
        BY <3>1 DEF Known, Overwrites, SameMessageTypeAsLast
      <4> QED
        BY <1>6, <1>9, <3>1, <4>1
    <3>2. ASSUME list = <<>> PROVE iter = 1
      <4>1. Len(list) = 0
        BY <3>2
      <4> QED
        BY <1>1, <4>1
    <3> QED
      BY <3>1, <3>2
  <2>2. told = SumOf(list, iter) /\ IsActivation(list[1]) /\ iter \in 2 .. Len(list) + 1
    BY <1>1, <1>9, <2>1
  <2> DEFINE a == StartOf(list, iter)
             S == Stretch(list, a, iter)
  <2>3. /\ a \in 1 .. iter - 1 /\ IsActivation(list[a])
        /\ \A k \in a + 1 .. iter - 1 : ~ IsActivation(list[k])
    BY <1>1, <2>2, StartFound
  <2> HIDE DEF a
  <2>4. a \in Nat /\ a \in 1 .. Len(list) + 1 /\ iter \in a .. Len(list) + 1 /\ iter - a >= 1
    BY <1>1, <2>3
  <2>5. S \in Seq(Command) /\ Len(S) = iter - a
    BY <1>1, <2>4, StretchIs
  <2>6. told = Settled(S)
    BY <2>2 DEF SumOf, a
  <2> HIDE DEF S
  <2>7. S # <<>>
    <3>1. Len(S) >= 1
      BY <2>4, <2>5
    <3> QED
      BY <3>1
  <2>8. told # <<>>
    BY <2>5, <2>6, <2>7, SettledMore
  <2>9. told' = Settled(Append(S, c))
    <3>1. told' = Settled(Append(told, c))
      BY <1>9, <2>8 DEF Told
    <3>2. Append(told, c) = told \o <<c>> /\ Append(S, c) = S \o <<c>> /\ <<c>> \in Seq(Command)
      BY <1>1, <2>5, AppendIsConcat
    <3>3. Settled(Settled(S) \o <<c>>) = Settled(S \o <<c>>)
      BY <2>5, <3>2, SettledKept
    <3> QED
      BY <2>6, <3>1, <3>2, <3>3
  <2>10. CASE Overwrites(c)
    <3> DEFINE p == iter - 1
    <3>1. /\ p \in 1 .. Len(list) /\ list' = [list EXCEPT ![p] = c] /\ iter' = p + 1
          /\ list[p].kind = c.kind /\ c.kind \in LastOnly /\ ~ IsActivation(list[p])
          /\ list[p] \in Command /\ iter = p + 1
      BY <1>1, <1>3, <1>4, <2>10
    <3> HIDE DEF p
    <3>2. p # 1 /\ p \in 2 .. Len(list)
      BY <1>1, <2>2, <3>1
    <3>3. Len(list') = Len(list) /\ list'[p] = c /\ \A i \in 1 .. Len(list) : i # p => list'[i] = list[i]
      BY <1>1, <3>1
    <3> DEFINE b == StartOf(list, p)
               R == Stretch(list, b, p)
    <3>4. /\ b \in 1 .. p - 1 /\ StartOf(list, p + 1) = b
          /\ R \in Seq(Command)
          /\ Stretch(list, b, p + 1) = Append(R, list[p])
      BY <1>1, <2>2, <3>1, <3>2, SumOfMore
    <3>5. b = a /\ S = Append(R, list[p])
      BY <3>1, <3>4 DEF a, S
    <3>6. StartOf(list', p) = b
      <4>1. /\ IsActivation(list[b]) /\ \A k \in b + 1 .. p - 1 : ~ IsActivation(list[k])
        <5>1. p \in 2 .. Len(list) + 1
          BY <1>1, <3>2
        <5> QED
          BY <1>1, <2>2, <5>1, StartFound
      <4>2. \A k \in b .. p - 1 : k \in 1 .. Len(list) /\ k # p
        BY <1>1, <3>2, <3>4
      <4>3. b \in b .. p - 1 /\ \A k \in b + 1 .. p - 1 : k \in b .. p - 1
        BY <3>4
      <4> HIDE DEF b, R
      <4>4. IsActivation(list'[b]) /\ \A k \in b + 1 .. p - 1 : ~ IsActivation(list'[k])
        BY <3>3, <4>1, <4>2, <4>3
      <4>5. p \in Nat
        BY <3>2
      <4> QED
        BY <3>4, <4>4, <4>5, StartIs
    <3>7. Stretch(list', b, p) = R
      <4>1. \A i \in b .. p - 1 : list'[i] = list[i]
        <5>1. \A i \in b .. p - 1 : i \in 1 .. Len(list) /\ i # p
          BY <1>1, <3>2, <3>4
        <5> QED
          BY <3>3, <5>1
      <4>2. b \in Nat /\ p \in Nat
        BY <3>2, <3>4
      <4> HIDE DEF b
      <4>3. Stretch(list', b, p) = Stretch(list, b, p)
        BY <4>1, <4>2, StretchSame
      <4> QED
        BY <4>3
    <3> HIDE DEF b, R
    <3>8. SumOf(list', p + 1) = Settled(Append(R, c))
      <4>1. p \in 2 .. Len(list') /\ ~ IsActivation(list'[p])
        BY <1>9, <3>2, <3>3
      <4>2. SumOf(list', p + 1) = Settled(Append(Stretch(list', b, p), list'[p]))
        BY <1>2, <3>6, <4>1, SumOfMore
      <4> QED
        BY <3>3, <3>7, <4>2
    <3>9. Settled(Append(Append(R, list[p]), c)) = Settled(Append(R, c))
      BY <1>1, <3>1, <3>4, SettledOver
    <3> QED
      BY <2>9, <3>1, <3>5, <3>8, <3>9
  <2>11. CASE Known(c) /\ ~ Overwrites(c)
    <3> DEFINE p == iter - 1
    <3>1. /\ p \in 1 .. Len(list) /\ list' = list /\ iter' = iter /\ list[p] = c
          /\ c.kind \notin Repeating /\ iter = p + 1
      BY <1>1, <1>5, <2>11
    <3> HIDE DEF p
    <3>2. p # 1 /\ p \in 2 .. Len(list)
      BY <1>1, <1>9, <2>2, <3>1
    <3> DEFINE b == StartOf(list, p)
               R == Stretch(list, b, p)
    <3>3. /\ StartOf(list, p + 1) = b
          /\ R \in Seq(Command)
          /\ Stretch(list, b, p + 1) = Append(R, list[p])
      BY <1>1, <1>9, <2>2, <3>1, <3>2, SumOfMore
    <3>4. S = Append(R, c)
      BY <3>1, <3>3 DEF a, S
    <3> HIDE DEF b, R
    <3>5. Settled(Append(Append(R, c), c)) = Settled(Append(R, c))
      BY <1>1, <3>1, <3>3, SettledAgain
    <3> QED
      BY <2>2, <2>6, <2>9, <3>1, <3>4, <3>5
  <2>12. CASE ~ Known(c) /\ ~ Overwrites(c)
    <3>1. /\ iter' = iter + 1 /\ iter \in 1 .. Len(list')
          /\ \A i \in 1 .. iter - 1 : list'[i] = list[i]
          /\ list'[iter] = c
      BY <1>7, <2>12
    <3>2. iter \in 2 .. Len(list') /\ iter \in Nat /\ a \in 1 .. iter - 1
      BY <1>1, <2>2, <2>3, <3>1
    <3>3. \A k \in a .. iter - 1 : k \in 1 .. iter - 1
      BY <2>3, <2>4
    <3>4. StartOf(list', iter) = a
      <4>1. a \in a .. iter - 1 /\ \A k \in a + 1 .. iter - 1 : k \in a .. iter - 1
        BY <2>3, <2>4
      <4>2. IsActivation(list'[a]) /\ \A k \in a + 1 .. iter - 1 : ~ IsActivation(list'[k])
        BY <2>3, <3>1, <3>3, <4>1
      <4> QED
        BY <3>2, <4>2, StartIs
    <3>5. Stretch(list', a, iter) = S
      <4>1. \A k \in a .. iter - 1 : list'[k] = list[k]
        BY <3>1, <3>3
      <4>2. Stretch(list', a, iter) = Stretch(list, a, iter)
        BY <2>4, <3>2, <4>1, StretchSame
      <4> QED
        BY <4>2 DEF S
    <3>6. SumOf(list', iter + 1) = Settled(Append(Stretch(list', a, iter), list'[iter]))
      BY <1>2, <1>9, <3>1, <3>2, <3>4, SumOfMore
    <3> QED
      BY <2>9, <3>1, <3>5, <3>6
  <2> QED
    BY <2>10, <2>11, <2>12
<1> QED
  BY <1>8, <1>9

\* A command arrives that is not part of a replay.
LEMMA CommandShown ==
  ASSUME Shape, Shape', ToldApart, ShownInv, queue # <<>>, GetCommand(Head(queue)),
         ~ Head(queue).replayed
  PROVE  ShownInv'
<1> DEFINE m == queue[1]
           c == m.command
           w == Tail(queue)
<1>1. queue \in Seq(Queued) /\ Alone(queue) /\ Gives(list, queue)
  BY DEF Shape, ShownInv
<1>2. /\ w \in Seq(Queued) /\ m \in Queued /\ Head(queue) = m
      /\ Alone(w) /\ Gives(list, w)
      /\ Plays(m) \/ Ends(m) \/ OnlyEnds(w)
      /\ Upset(queue, refreshes) => m.is \in {"finished", "refresh"} \/ Upset(w, refreshes)
      /\ m.is = "command" /\ ~ m.replayed => c \in Given
  BY <1>1, RestWaits
<1>3. /\ m.is = "command" /\ ~ m.replayed /\ queue' = w /\ told' = Told(c)
      /\ HandleCommand(c) /\ refreshes' = refreshes
  BY <1>2 DEF GetCommand
<1>4. c \in Given /\ OnlyEnds(w)
  BY <1>2, <1>3 DEF Plays, Ends
<1>5. \A i \in 1 .. Len(list) : list[i] \in Given
  BY <1>1 DEF Gives
<1> HIDE DEF c, w
<1>6. Alone(queue') /\ Gives(list', queue')
  <2>1. \A i \in 1 .. Len(list') : list'[i] \in Given
    BY <1>3, <1>4, <1>5, RecordedGiven
  <2> QED
    BY <1>2, <1>3, <2>1 DEF Gives
<1>7. ASSUME ~ Upset(queue', refreshes'), list' # <<>>
      PROVE  Agrees(queue', told', SumOf(list', iter'))
  <2>1. ~ Upset(w, refreshes) /\ ~ Upset(queue, refreshes)
    BY <1>2, <1>3, <1>7
  <2>2. w = <<>>
    BY <1>2, <1>4, <2>1, EndsUpset
  <2>3. ASSUME list # <<>>, ~ IsActivation(c) PROVE told = SumOf(list, iter)
    <3>1. Agrees(queue, told, SumOf(list, iter))
      BY <2>1, <2>3 DEF ShownInv
    <3>2. queue # <<Said(Overview)>>
      <4>1. IsActivation(Overview)
        BY DEF IsActivation, Overview, Activating
      <4>2. queue = <<Said(Overview)>> => c = Overview
        BY DEF c, Said
      <4> QED
        BY <2>3, <4>1, <4>2
    <3>3. ~ Replaying(queue, told, SumOf(list, iter))
      <4>1. 1 \in 1 .. Len(queue)
        BY <1>1, EmptySeq
      <4> QED
        BY <1>3, <4>1 DEF Replaying, Plays
    <3> QED
      BY <3>1, <3>2, <3>3 DEF Agrees
  <2>4. told' = SumOf(list', iter')
    BY <1>3, <1>4, <1>5, <1>7, <2>3, HandledSum
  <2>5. Len(queue') <= 1 /\ \A n \in 1 .. Len(queue') : ~ Plays(queue'[n])
    <3>1. Len(queue') = 0
      BY <1>3, <2>2
    <3> QED
      BY <3>1
  <2> QED
    BY <2>4, <2>5 DEF Agrees
<1> QED
  BY <1>6, <1>7 DEF ShownInv

\* A message that leaves the list and what is shown as they are.
LEMMA StaysShown ==
  ASSUME Shape, ShownInv, queue # <<>>, Head(queue).is \notin {"finished", "refresh", "command"},
         queue' = Tail(queue), UNCHANGED <<list, iter, told, refreshes>>
  PROVE  ShownInv'
<1> DEFINE m == queue[1]
           w == Tail(queue)
<1>1. queue \in Seq(Queued) /\ Alone(queue) /\ Gives(list, queue)
  BY DEF Shape, ShownInv
<1>2. /\ w \in Seq(Queued) /\ Head(queue) = m
      /\ Alone(w) /\ Gives(list, w)
      /\ Plays(m) \/ Ends(m) \/ OnlyEnds(w)
      /\ Upset(queue, refreshes) => m.is \in {"finished", "refresh"} \/ Upset(w, refreshes)
  BY <1>1, RestWaits
<1>3. OnlyEnds(w)
  BY <1>2 DEF Plays, Ends
<1> HIDE DEF w
<1>4. queue' = w
  BY DEF w
<1>5. ASSUME ~ Upset(w, refreshes), list # <<>>
      PROVE  Agrees(w, told, SumOf(list, iter))
  <2>1. w = <<>>
    BY <1>2, <1>3, <1>5, EndsUpset
  <2>2. Agrees(queue, told, SumOf(list, iter))
    BY <1>2, <1>5 DEF ShownInv
  <2>3. queue # <<Said(Overview)>> /\ ~ Replaying(queue, told, SumOf(list, iter))
    <3>1. 1 \in 1 .. Len(queue)
      BY <1>1, EmptySeq
    <3>2. queue = <<Said(Overview)>> => queue[1].is = "command"
      BY DEF Said
    <3> QED
      BY <1>2, <3>1, <3>2 DEF Replaying, Plays
  <2>4. told = SumOf(list, iter)
    BY <2>2, <2>3 DEF Agrees
  <2>5. Len(w) = 0
    BY <2>1
  <2> QED
    BY <2>4, <2>5 DEF Agrees
<1> QED
  BY <1>2, <1>4, <1>5 DEF ShownInv

\* A stretch is replayed.
LEMMA ReplayedShown ==
  ASSUME Shape, ShownInv, queue # <<>>, ~ Plays(Head(queue)), ~ Ends(Head(queue)),
         NEW from \in 1 .. End, NEW to \in from + 1 .. End,
         \A k \in from + 1 .. to - 1 : ~ IsActivation(list[k]),
         \/ IsActivation(list[from])
         \/ ~ Upset(Tail(queue), refreshes) =>
               told # <<>> /\ told = SumOf(list, from) /\ from # 1 /\ IsActivation(list[1]),
         queue' = Replay(from, to, Tail(queue)), iter' = to,
         UNCHANGED <<list, told, refreshes>>
  PROVE  ShownInv'
<1> DEFINE w == Tail(queue)
           q == Replay(from, to, w)
<1>1. queue \in Seq(Queued) /\ Alone(queue) /\ Gives(list, queue) /\ list \in Seq(Command)
  BY DEF Shape, ShownInv, HistoryTypeOK
<1>2. w \in Seq(Queued) /\ Gives(list, w) /\ OnlyEnds(w)
  BY <1>1, RestWaits
<1> HIDE DEF w
<1>3. /\ Alone(q) /\ Gives(list, q)
      /\ \A due : ~ Upset(q, due) => ~ Upset(w, due)
      /\ \A due, t : /\ ~ Upset(q, due)
                     /\ \/ IsActivation(list[from])
                        \/ t # <<>> /\ t = SumOf(list, from) /\ from # 1 /\ IsActivation(list[1])
                     => Agrees(q, t, SumOf(list, to))
  BY <1>1, <1>2, ReplayWaits
<1>4. queue' = q /\ list' = list /\ told' = told /\ refreshes' = refreshes /\ iter' = to
  BY DEF w
<1> HIDE DEF q
<1>5. ASSUME ~ Upset(q, refreshes) PROVE Agrees(q, told, SumOf(list, to))
  <2>1. ~ Upset(w, refreshes)
    BY <1>3, <1>5
  <2>2. \/ IsActivation(list[from])
        \/ told # <<>> /\ told = SumOf(list, from) /\ from # 1 /\ IsActivation(list[1])
    BY <2>1 DEF w
  <2> QED
    BY <1>3, <1>5, <2>2
<1> QED
  BY <1>3, <1>4, <1>5 DEF ShownInv

\* An indexing has ended.
LEMMA FinishedShown ==
  ASSUME Shape, ShownInv, queue # <<>>, HistoryIndexingFinished(Head(queue))
  PROVE  ShownInv'
<1>1. queue \in Seq(Queued) /\ Alone(queue) /\ Gives(list, queue) /\ list \in Seq(Command)
  BY DEF Shape, ShownInv, HistoryTypeOK
<1>2. Alone(Tail(queue)) /\ Gives(list, Tail(queue))
  BY <1>1, RestWaits
<1> DEFINE some == {i \in DOMAIN list : IsActivation(list[i]) /\ list[i].kind # "bundle"}
<1>3. queue' = Tail(queue) /\ list' = Selected(list, some) /\ refreshes' # {}
  BY DEF HistoryIndexingFinished
<1>4. \A i \in 1 .. Len(list') : list'[i] \in Given
  <2>1. some \in SUBSET (1 .. Len(list))
    BY <1>1
  <2> HIDE DEF some
  <2>2. /\ Len(list') = Cardinality(some)
        /\ \A n \in 1 .. Cardinality(some) : \E i \in some : list'[n] = list[i]
    BY <1>1, <1>3, <2>1, SelectedIs
  <2> QED
    BY <1>1, <2>1, <2>2 DEF Gives
<1>5. Upset(queue', refreshes')
  BY <1>3 DEF Upset
<1>6. Gives(list', queue')
  BY <1>2, <1>3, <1>4 DEF Gives
<1> QED
  BY <1>2, <1>3, <1>5, <1>6 DEF ShownInv

\* The overview is shown instead of the front of the list.
LEMMA OverviewShown ==
  ASSUME Shape, ShownInv, queue # <<>>, ~ Plays(Head(queue)), ~ Ends(Head(queue)),
         queue' = Append(Tail(queue), Said(Overview)),
         UNCHANGED <<list, iter, told, refreshes>>
  PROVE  ShownInv'
<1> DEFINE w == Tail(queue)
           m == Said(Overview)
<1>1. queue \in Seq(Queued) /\ Alone(queue) /\ Gives(list, queue)
  BY DEF Shape, ShownInv
<1>2. w \in Seq(Queued) /\ Gives(list, w) /\ OnlyEnds(w)
  BY <1>1, RestWaits
<1>3. m \in Queued /\ m.is = "command" /\ m.command \in Given
  BY GivenIs DEF Said, Given, Queued
<1> HIDE DEF w, m
<1>4. /\ queue' = Append(w, m) /\ Len(queue') = Len(w) + 1 /\ Len(w) \in Nat
      /\ \A i \in 1 .. Len(w) : queue'[i] = w[i]
      /\ queue'[Len(w) + 1] = m
  <2>1. queue' = Append(w, m)
    BY DEF w, m
  <2> QED
    BY <1>2, <1>3, <2>1, AppendProperties
<1>5. \A i \in 1 .. Len(queue') : i = Len(w) + 1 \/ (i \in 1 .. Len(w) /\ Ends(queue'[i]))
  <2>1. \A i \in 1 .. Len(queue') : i = Len(w) + 1 \/ i \in 1 .. Len(w)
    BY <1>4
  <2> QED
    BY <1>2, <1>4, <2>1 DEF OnlyEnds
<1>6. Alone(queue')
  BY <1>5 DEF Alone
<1>7. Gives(list', queue')
  <2>1. \A i \in 1 .. Len(queue') : queue'[i].is = "command" => queue'[i].command \in Given
    BY <1>3, <1>4, <1>5 DEF Ends
  <2> QED
    BY <1>2, <2>1 DEF Gives
<1>8. ASSUME ~ Upset(queue', refreshes') PROVE queue' = <<Said(Overview)>>
  <2>1. ~ Upset(w, refreshes')
    <3>1. \A i \in 1 .. Len(w) : i \in 1 .. Len(queue') /\ queue'[i] = w[i]
      BY <1>4
    <3> QED
      BY <1>8, <3>1 DEF Upset
  <2>2. w = <<>>
    BY <1>2, <2>1, EndsUpset
  <2>3. Append(<<>>, m) = <<m>>
    OBVIOUS
  <2> QED
    BY <1>4, <2>2, <2>3 DEF m
<1> QED
  BY <1>6, <1>7, <1>8 DEF ShownInv, Agrees

\* A list that begins with an activation adds up to something.
LEMMA SumOfSome ==
  ASSUME NEW l \in Seq(Command), IsActivation(l[1]), NEW i \in 2 .. Len(l) + 1
  PROVE  SumOf(l, i) # <<>>
<1> DEFINE a == StartOf(l, i)
           s == Stretch(l, a, i)
<1>1. a \in 1 .. i - 1
  BY StartFound
<1> HIDE DEF a
<1>2. a \in 1 .. Len(l) + 1 /\ i \in a .. Len(l) + 1 /\ i - a >= 1
  BY <1>1
<1>3. s \in Seq(Command) /\ Len(s) = i - a
  BY <1>2, StretchIs
<1> HIDE DEF s
<1>4. s # <<>>
  <2>1. Len(s) >= 1
    BY <1>2, <1>3
  <2> QED
    BY <2>1
<1>5. Settled(s) # <<>>
  BY <1>3, <1>4, SettledMore
<1> QED
  BY <1>5 DEF SumOf, s, a

\* The handlers of the buttons and of the menu.
LEMMA RedoShown ==
  ASSUME Shape, ShownInv, queue # <<>>, Redo(Head(queue))
  PROVE  ShownInv'
<1>1. /\ Len(list) \in Nat /\ End = Len(list) + 1 /\ list \in Seq(Command)
      /\ iter \in 1 .. End
      /\ iter = 1 => list = <<>>
      /\ list # <<>> => IsActivation(list[1])
      /\ queue \in Seq(Queued)
  BY DEF End, HistoryTypeOK, Shape
<1>2. Head(queue).is = "redo" /\ Head(queue) = queue[1]
      /\ UNCHANGED <<list, told, refreshes>>
  BY <1>1, RestWaits DEF Redo
<1>3. CASE iter = End
  <2>1. queue' = Tail(queue) /\ iter' = iter
    BY <1>3 DEF Redo
  <2> QED
    BY <1>2, <2>1, StaysShown
<1>4. CASE iter # End
  <2>1. iter' = RedoTarget /\ queue' = Replay(iter, iter', Tail(queue))
    BY <1>4 DEF Redo
  <2>2. iter + 1 \in 1 .. End /\ iter # 1 /\ list # <<>>
    <3>1. ASSUME list = <<>> PROVE FALSE
      <4>1. Len(list) = 0
        BY <3>1
      <4> QED
        BY <1>1, <1>4, <4>1
    <3> QED
      BY <1>1, <1>4, <3>1
  <2> DEFINE to == RedoTarget
  <2>3. to \in iter + 1 .. End /\ \A k \in iter + 1 .. to - 1 : IsView(list[k])
    BY <1>1, <2>2, NextStepIs DEF RedoTarget
  <2> HIDE DEF to
  <2>4. \A k \in iter + 1 .. to - 1 : ~ IsActivation(list[k])
    <3>1. \A k \in iter + 1 .. to - 1 : list[k] \in Command
      BY <1>1, <2>3
    <3> QED
      BY <2>3, <3>1, HistoryKinds
  <2>5. ASSUME ~ Upset(Tail(queue), refreshes)
        PROVE  told # <<>> /\ told = SumOf(list, iter) /\ iter # 1 /\ IsActivation(list[1])
    <3>1. ~ Upset(queue, refreshes)
      BY <1>1, <1>2, <2>5, RestWaits DEF ShownInv
    <3>2. Agrees(queue, told, SumOf(list, iter))
      BY <2>2, <3>1 DEF ShownInv
    <3>3. queue # <<Said(Overview)>> /\ ~ Replaying(queue, told, SumOf(list, iter))
      <4>1. 1 \in 1 .. Len(queue)
        BY <1>1, EmptySeq
      <4>2. queue = <<Said(Overview)>> => queue[1].is = "command"
        BY DEF Said
      <4> QED
        BY <1>2, <4>1, <4>2 DEF Replaying, Plays
    <3>4. told = SumOf(list, iter)
      BY <3>2, <3>3 DEF Agrees
    <3>5. iter \in 2 .. Len(list) + 1
      BY <1>1, <2>2
    <3>6. SumOf(list, iter) # <<>>
      BY <1>1, <2>2, <3>5, SumOfSome
    <3> QED
      BY <1>1, <2>2, <3>4, <3>6
  <2>6. ~ Plays(Head(queue)) /\ ~ Ends(Head(queue))
    BY <1>2 DEF Plays, Ends
  <2>7. iter' = to /\ queue' = Replay(iter, to, Tail(queue))
    BY <2>1 DEF to
  <2> QED
    BY <1>1, <1>2, <2>3, <2>4, <2>5, <2>6, <2>7, ReplayedShown
<1> QED
  BY <1>3, <1>4

\* Undo replays from the last activation, or does nothing.
LEMMA UndoShown ==
  ASSUME Shape, ShownInv, queue # <<>>, Undo(Head(queue))
  PROVE  ShownInv'
<1>1. /\ Len(list) \in Nat /\ End = Len(list) + 1 /\ list \in Seq(Command)
      /\ iter \in 1 .. End
      /\ list # <<>> => IsActivation(list[1])
      /\ queue \in Seq(Queued)
  BY DEF End, HistoryTypeOK, Shape
<1>2. Head(queue).is = "undo" /\ UNCHANGED <<list, told, refreshes>>
  BY DEF Undo
<1>3. ~ Plays(Head(queue)) /\ ~ Ends(Head(queue))
  BY <1>2 DEF Plays, Ends
<1>4. CASE queue' = Tail(queue) /\ iter' = iter
  BY <1>2, <1>4, StaysShown
<1>5. CASE /\ UndoTarget > 1 /\ iter' = UndoTarget
           /\ queue' = Replay(LastActivation(iter'), iter', Tail(queue))
  <2> DEFINE to == UndoTarget
             from == LastActivation(to)
  <2>1. to \in 2 .. Len(list) + 1 /\ list # <<>>
    <3>1. to \in 0 .. iter - 1 /\ to > 1
      BY <1>1, <1>5, PreviousStepIs DEF UndoTarget
    <3>2. to \in 2 .. Len(list)
      BY <1>1, <3>1
    <3> HIDE DEF to
    <3>3. ASSUME list = <<>> PROVE FALSE
      <4>1. Len(list) = 0
        BY <3>3
      <4> QED
        BY <3>2, <4>1
    <3> QED
      BY <1>1, <3>2, <3>3
  <2> HIDE DEF to
  <2>2. from = StartOf(list, to)
    BY SumIs
  <2>3. /\ from \in 1 .. to - 1 /\ IsActivation(list[from])
        /\ \A k \in from + 1 .. to - 1 : ~ IsActivation(list[k])
    BY <1>1, <2>1, <2>2, StartFound
  <2>4. queue' = Replay(from, to, Tail(queue)) /\ iter' = to
    BY <1>5 DEF to
  <2> HIDE DEF from
  <2>5. from \in 1 .. End /\ to \in from + 1 .. End
    BY <1>1, <2>1, <2>3
  <2> QED
    BY <1>2, <1>3, <2>3, <2>4, <2>5, ReplayedShown
<1> QED
  BY <1>4, <1>5 DEF Undo

\* An entry of the menu replays from its activation, or does nothing.
LEMMA ToPositionShown ==
  ASSUME Shape, ShownInv, queue # <<>>, ToPosition(Head(queue))
  PROVE  ShownInv'
<1>1. /\ Len(list) \in Nat /\ End = Len(list) + 1 /\ list \in Seq(Command)
      /\ queue \in Seq(Queued) /\ offset \in Nat
  BY DEF End, HistoryTypeOK, Shape
<1>2. Head(queue).is = "position" /\ UNCHANGED <<list, told, refreshes>>
  BY DEF ToPosition
<1>3. ~ Plays(Head(queue)) /\ ~ Ends(Head(queue)) /\ Head(queue).index \in Nat
  <2>1. Head(queue) \in Queued
    BY <1>1, HeadTailProperties
  <2> QED
    BY <1>2, <2>1, QueuedIs DEF Plays, Ends
<1> DEFINE active == Head(queue).index + offset + 1
           newest == Newest(list)
<1>4. CASE active <= Len(newest)
  <2> DEFINE from == newest[active]
             to == NextActivation(from + 1)
  <2>1. active \in 1 .. Len(newest)
    <3>1. active \in Nat /\ active >= 1 /\ Len(newest) \in Nat
      BY <1>1, <1>3, NewestIs
    <3> HIDE DEF active, newest
    <3> QED
      BY <1>4, <3>1
  <2>2. from \in 1 .. Len(list) /\ IsActivation(list[from])
    BY <1>1, <2>1, NewestIs
  <2>3. iter' = to /\ queue' = Replay(from, iter', Tail(queue))
    BY <1>4 DEF ToPosition
  <2> HIDE DEF from, active, newest
  <2>4. from \in 1 .. End /\ from + 1 \in 1 .. End
    BY <1>1, <2>2
  <2>5. to \in from + 1 .. End /\ \A k \in from + 1 .. to - 1 : ~ IsActivation(list[k])
    BY <1>1, <2>4, NextActivationIs
  <2> HIDE DEF to
  <2>6. queue' = Replay(from, to, Tail(queue))
    BY <2>3
  <2> QED
    BY <1>2, <1>3, <2>2, <2>3, <2>4, <2>5, <2>6, ReplayedShown
<1>5. CASE ~ active <= Len(newest)
  <2>1. queue' = Tail(queue) /\ iter' = iter
    BY <1>5 DEF ToPosition
  <2> QED
    BY <1>2, <2>1, StaysShown
<1> QED
  BY <1>4, <1>5

\* A refresh shows the overview or replays what is shown.
LEMMA RefreshShown ==
  ASSUME Shape, ShownInv, queue # <<>>, RefreshUIState(Head(queue))
  PROVE  ShownInv'
<1>1. /\ Len(list) \in Nat /\ End = Len(list) + 1 /\ list \in Seq(Command)
      /\ iter \in 1 .. End
  BY DEF End, HistoryTypeOK, Shape
<1>2. Head(queue).is = "refresh" /\ UNCHANGED <<list, iter, told, refreshes>>
  BY DEF RefreshUIState
<1>3. ~ Plays(Head(queue)) /\ ~ Ends(Head(queue))
  BY <1>2 DEF Plays, Ends
<1>4. CASE queue' = Append(Tail(queue), Said(Overview))
  BY <1>2, <1>3, <1>4, OverviewShown
<1> DEFINE from == LastActivation(iter)
<1>5. CASE from # 1 /\ queue' = Replay(from, iter, Tail(queue))
  <2>1. /\ from \in 1 .. iter
        /\ \/ from < iter /\ IsActivation(list[from])
           \/ from = 1
        /\ \A k \in from + 1 .. iter - 1 : ~ IsActivation(list[k])
    BY <1>1, LastActivationIs
  <2> HIDE DEF from
  <2>2. from \in 1 .. End /\ iter \in from + 1 .. End /\ IsActivation(list[from])
    BY <1>1, <1>5, <2>1
  <2>3. iter' = iter
    BY <1>2
  <2> QED
    BY <1>2, <1>3, <1>5, <2>1, <2>2, <2>3, ReplayedShown
<1> QED
  BY <1>4, <1>5 DEF RefreshUIState

\* Every handler keeps the invariant.
LEMMA DeliverShown ==
  ASSUME ToldApart, Shape, Shape', ShownInv, Deliver
  PROVE  ShownInv'
<1>1. queue # <<>>
  BY DEF Deliver
<1>2. CASE GetCommand(Head(queue)) /\ Head(queue).replayed
  BY <1>1, <1>2, PlayedShown
<1>3. CASE GetCommand(Head(queue)) /\ ~ Head(queue).replayed
  BY <1>1, <1>3, CommandShown
<1>4. CASE Redo(Head(queue))
  BY <1>1, <1>4, RedoShown
<1>5. CASE Undo(Head(queue))
  BY <1>1, <1>5, UndoShown
<1>6. CASE ToPosition(Head(queue))
  BY <1>1, <1>6, ToPositionShown
<1>7. CASE HistoryIndexingFinished(Head(queue))
  BY <1>1, <1>7, FinishedShown
<1>8. CASE RefreshUIState(Head(queue))
  BY <1>1, <1>8, RefreshShown
<1> QED
  BY <1>2, <1>3, <1>4, <1>5, <1>6, <1>7, <1>8 DEF Deliver

\* Every step keeps the invariant.
LEMMA ShownStep ==
  ASSUME MaxWaiting = 0, ToldApart, Shape, Shape', ShownInv, [HistoryNext]_historyVars
  PROVE  ShownInv'
<1>1. CASE UserActs
  BY <1>1, ActsShown
<1>2. CASE QtRefreshes
  BY <1>2, RefreshesShown
<1>3. CASE IndexingEnds
  BY <1>3, EndsShown
<1>4. CASE IndexingStarts \/ Clear \/ UNCHANGED historyVars
  BY <1>4, AroundShown
<1>5. CASE Deliver
  BY <1>5, DeliverShown
<1> QED
  BY <1>1, <1>2, <1>3, <1>4, <1>5 DEF HistoryNext

\* At rest nothing upsets, and nothing is left to be replayed.
LEMMA RestShown ==
  ASSUME ShownInv
  PROVE  ShownIsHistory
<1> SUFFICES ASSUME AtRest, list # <<>> PROVE told = Settled(Shown)
  BY DEF ShownIsHistory
<1>1. queue = <<>> /\ refreshes = {} /\ Len(<<>>) = 0 /\ 1 .. 0 = {}
  BY DEF AtRest
<1>2. ~ Upset(queue, refreshes)
  BY <1>1 DEF Upset
<1>3. Agrees(queue, told, SumOf(list, iter))
  BY <1>2 DEF ShownInv
<1>4. queue # <<Said(Overview)>>
  <2>1. Len(<<Said(Overview)>>) = 1
    OBVIOUS
  <2> QED
    BY <1>1, <2>1
<1>5. told = SumOf(list, iter)
  BY <1>1, <1>3, <1>4 DEF Agrees, Replaying
<1> QED
  BY <1>5, SumIs

\* What a tab shows at rest is what its list says, for a user who waits until
\* everything is shown and commands the handlers tell apart: whatever was gone
\* back to, recorded, overwritten or refreshed, and wherever indexing has ended
\* in between (UndoRedoController.cpp:445-491).
THEOREM ShownIs ==
  ASSUME MaxWaiting = 0, ToldApart
  PROVE  HistorySpec => []ShownIsHistory
<1>1. HistoryInit => ShownInv
  BY ShownInit
<1>2. Shape /\ Shape' /\ ShownInv /\ [HistoryNext]_historyVars => ShownInv'
  BY ShownStep
<1>3. ShownInv => ShownIsHistory
  BY RestShown
<1> QED
  BY <1>1, <1>2, <1>3, ShapeAlways, PTL DEF HistorySpec
=============================================================================
