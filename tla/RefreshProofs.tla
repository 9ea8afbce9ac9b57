--------------------------- MODULE RefreshProofs ---------------------------
(***************************************************************************)
(* What Refresh promises for every project: any files, contents and number *)
(* of edits.                                                               *)
(*                                                                         *)
(* A source file that is not cleared keeps what it needs.  The files that  *)
(* changed and those that refer to them are closed under reference         *)
(* backwards, so what a file outside refers to lies outside too; of the    *)
(* rest only what no source file outside refers to is cleared; and a       *)
(* source file outside exists and counts, since its row would have made it *)
(* a changed one.                                                          *)
(*                                                                         *)
(* One undisturbed refresh is enough.  What is cleared and not parsed      *)
(* again leaves no row; what is parsed is stored with its time and text on *)
(* the disk.                                                               *)
(*                                                                         *)
(* Nothing to refresh is true.  Both databases are sound: what they say of *)
(* a file with a known text is what that text may say, and each indexed    *)
(* source file is backed by a disk on which its parser recorded what is    *)
(* there.  With nothing to refresh every file it came by is known as it is *)
(* now, so the parser would see the same macros and record the same.       *)
(*                                                                         *)
(* A thorough refresh is accurate.  A complete source file missed nothing  *)
(* when it was parsed, so one that is left alone would record the same     *)
(* also where files came into being; the others are parsed again.  A       *)
(* refresh of all files starts from nothing and adds nothing else.         *)
(***************************************************************************)
EXTENDS Refresh, TLAPS

----------------------------------------------------------------------------
(* Reachability.                                                           *)

\* Following is closed under its edges.
LEMMA FollowingCloses ==
  ASSUME NEW S, NEW edges, NEW e \in edges, e[1] \in S \cup Following(S, edges)
  PROVE  e[2] \in Following(S, edges)
<1>1. e[2] \in {d[2] : d \in edges}
  OBVIOUS
<1>2. ASSUME NEW X \in SUBSET {d[2] : d \in edges},
             \A d \in edges : d[1] \in S \cup X => d[2] \in X
      PROVE  e[2] \in X
  BY <1>2 DEF Following
<1> QED
  BY <1>1, <1>2 DEF Following

\* It is the smallest such set.
LEMMA FollowingIsLeast ==
  ASSUME NEW S, NEW edges, NEW X,
         \A e \in edges : e[1] \in S \cup X => e[2] \in X
  PROVE  Following(S, edges) \subseteq X
<1> DEFINE targets == {e[2] : e \in edges}
           Y == X \cap targets
<1>1. Y \in SUBSET targets
  OBVIOUS
<1>2. \A e \in edges : e[1] \in S \cup Y => e[2] \in Y
  OBVIOUS
<1> QED
  BY <1>1, <1>2 DEF Following

\* More files reach more.
LEMMA FollowingGrows ==
  ASSUME NEW S, NEW T, NEW edges, S \subseteq T
  PROVE  Following(S, edges) \subseteq Following(T, edges)
<1>1. \A e \in edges : e[1] \in S \cup Following(T, edges) => e[2] \in Following(T, edges)
  BY FollowingCloses
<1> QED
  BY <1>1, FollowingIsLeast

\* What refers to a set, together with the set, is closed backwards.
LEMMA ReferencingCloses ==
  ASSUME NEW d, NEW C, NEW e \in d.inc, e[2] \in C \cup Referencing(d, C)
  PROVE  e[1] \in C \cup Referencing(d, C)
<1> DEFINE back == {<<x[2], x[1]>> : x \in d.inc}
<1>1. <<e[2], e[1]>> \in back
  OBVIOUS
<1>2. <<e[2], e[1]>>[1] = e[2] /\ <<e[2], e[1]>>[2] = e[1]
  OBVIOUS
<1>3. <<e[2], e[1]>>[1] \in C \cup Following(C, back)
  BY <1>2 DEF Referencing
<1>4. <<e[2], e[1]>>[2] \in Following(C, back)
  <2> HIDE DEF back
  <2> QED BY <1>1, <1>3, FollowingCloses
<1> QED
  BY <1>2, <1>4 DEF Referencing

\* A file outside a set closed backwards refers to files outside only.
LEMMA OutsideStaysOutside ==
  ASSUME NEW d, NEW A, NEW s, s \notin A,
         \A e \in d.inc : e[2] \in A => e[1] \in A
  PROVE  ({s} \cup Referenced(d, {s})) \cap A = {}
<1> DEFINE F == Following({s}, d.inc)
           X == F \ A
<1>1. \A e \in d.inc : e[1] \in {s} \cup F => e[2] \in F
  BY FollowingCloses
<1>2. \A e \in d.inc : e[1] \in {s} \cup X => e[2] \in X
  BY <1>1
<1>3. F \subseteq X
  <2> HIDE DEF X
  <2> QED BY <1>2, FollowingIsLeast
<1> QED
  BY <1>3 DEF Referenced
----------------------------------------------------------------------------
(* What is cleared.                                                        *)

\* What the source file s needs: itself and what it refers to.
Needs(d, s) == {s} \cup Referenced(d, {s})

LEMMA UpdatedKeeps ==
  ASSUME db.indexed \subseteq db.files,
         NEW s \in Sources \cap db.indexed, s \notin UpdatedInfo.clear
  PROVE  Needs(db, s) \cap UpdatedInfo.clear = {}
<1> DEFINE affected == Changed \cup Referencing(db, Changed)
           static == AllSources \ affected
<1>1. UpdatedInfo.clear = affected \cup Unshared(affected)
  BY DEF UpdatedInfo
<1>2. Exists(s)
  BY <1>1 DEF Changed
<1>3. s \in static
  BY <1>1, <1>2 DEF AllSources
<1>4. Needs(db, s) \cap affected = {}
  <2>1. \A e \in db.inc : e[2] \in affected => e[1] \in affected
    BY ReferencingCloses
  <2> HIDE DEF affected
  <2> QED BY <1>1, <2>1, OutsideStaysOutside DEF Needs
<1>5. Referenced(db, {s}) \subseteq Referenced(db, static)
  BY <1>3, FollowingGrows DEF Referenced
<1>6. Needs(db, s) \cap Unshared(affected) = {}
  BY <1>3, <1>5 DEF Needs, Unshared
<1> QED
  BY <1>1, <1>4, <1>6

LEMMA IncompleteKeeps ==
  ASSUME db.indexed \subseteq db.files,
         NEW s \in Sources \cap db.indexed, s \notin IncompleteInfo.clear
  PROVE  Needs(db, s) \cap IncompleteInfo.clear = {}
<1> DEFINE incomplete == db.files \ (db.complete \cup UpdatedInfo.clear)
           more == incomplete \cup Referencing(db, incomplete)
<1>1. IncompleteInfo.clear = UpdatedInfo.clear \cup more
  BY DEF IncompleteInfo
<1>2. Needs(db, s) \cap UpdatedInfo.clear = {}
  BY <1>1, UpdatedKeeps
<1>3. Needs(db, s) \cap more = {}
  <2>1. \A e \in db.inc : e[2] \in more => e[1] \in more
    BY ReferencingCloses
  <2> HIDE DEF more
  <2> QED BY <1>1, <2>1, OutsideStaysOutside DEF Needs
<1> QED
  BY <1>1, <1>2, <1>3
----------------------------------------------------------------------------
(* The invariant.                                                          *)

\* The fields of an index that matter here are there, and what is indexed has a
\* row.
IsIndex(d) ==
  /\ DOMAIN d = DOMAIN Empty
  /\ d.indexed \subseteq d.files

\* From the moment the user is asked, what is to be cleared spares what the
\* source files that stay need.
Spares ==
  stage # "idle" /\ info.mode # AllFiles =>
    \A s \in (Sources \cap db.indexed) \ info.clear :
      Needs(db, s) \cap info.clear = {}

Inv ==
  /\ stage \in {"idle", "asked", "indexing", "stopping"}
  /\ IsIndex(db) /\ IsIndex(temp)
  /\ \A p \in parsed : p.indexed \subseteq p.files
  /\ Spares
  /\ KeptSourcesAreKept

\* An empty index.
LEMMA EmptyIsIndex == IsIndex(Empty)
BY DEF IsIndex, Empty

\* An index that ages keeps its rows and what is in them.
LEMMA AgedKeeps ==
  ASSUME NEW d, NEW f, NEW t, NEW w, IsIndex(d)
  PROVE  /\ IsIndex(Aged(d, f, t, w))
         /\ Aged(d, f, t, w).files = d.files /\ Aged(d, f, t, w).indexed = d.indexed
         /\ Aged(d, f, t, w).inc = d.inc /\ Aged(d, f, t, w).occ = d.occ
BY DEF Aged, IsIndex, Empty

\* Injecting takes nothing away.
LEMMA InjectKeeps ==
  ASSUME NEW d, NEW p, IsIndex(d), p.indexed \subseteq p.files
  PROVE  /\ IsIndex(Inject(d, p))
         /\ d.files \subseteq Inject(d, p).files
         /\ d.inc \subseteq Inject(d, p).inc
         /\ d.occ \subseteq Inject(d, p).occ
BY DEF Inject, IsIndex, Empty

\* Clearing takes away what it is told to.
LEMMA ClearKeeps ==
  ASSUME NEW d, NEW C, IsIndex(d)
  PROVE  /\ IsIndex(Clear(d, C))
         /\ Clear(d, C).files = d.files \ C
         /\ Clear(d, C).inc = {e \in d.inc : e[1] \notin C /\ e[2] \notin C}
         /\ Clear(d, C).occ = {o \in d.occ : o[2] \notin C}
BY DEF Clear, IsIndex, Empty

\* What a parser or the crash of one records has rows.
LEMMA RecordsHaveRows ==
  ASSUME NEW s, NEW r
  PROVE  /\ Recorded(s, r).indexed \subseteq Recorded(s, r).files
         /\ CrashRecord(s).indexed \subseteq CrashRecord(s).files
BY DEF Recorded, CrashRecord

LEMMA InitInv == Init => Inv
BY EmptyIsIndex DEF Init, Inv, Spares, KeptSourcesAreKept

\* Both properties depend on the rows, includes and occurrences of the indexes
\* only.
LEMMA EditInv == ASSUME Inv, NEW f \in Files, Edit(f) PROVE Inv'
<1>1. IsIndex(db') /\ db'.files = db.files /\ db'.indexed = db.indexed
      /\ db'.inc = db.inc /\ db'.occ = db.occ
  BY AgedKeeps DEF Inv, Edit
<1>2. IsIndex(temp') /\ temp'.files = temp.files
      /\ temp'.inc = temp.inc /\ temp'.occ = temp.occ
  BY AgedKeeps DEF Inv, Edit
<1>3. UNCHANGED <<stage, info, parsed>>
  BY DEF Edit
<1>4. ASSUME NEW s PROVE Needs(db', s) = Needs(db, s)
                         /\ Referenced(db', {s}) = Referenced(db, {s})
  BY <1>1 DEF Needs, Referenced
<1>5. Spares'
  BY <1>1, <1>3, <1>4 DEF Inv, Spares, Needs, Referenced
<1>6. KeptSourcesAreKept'
  BY <1>1, <1>2, <1>3, <1>4 DEF Inv, KeptSourcesAreKept
<1> QED
  BY <1>1, <1>2, <1>3, <1>5, <1>6 DEF Inv

LEMMA AskInv == ASSUME Inv, NEW m \in Modes, AskRefresh(m) PROVE Inv'
<1>1. UNCHANGED <<db, temp, parsed>> /\ stage' = "asked" /\ info' = RefreshInfo(m)
  BY DEF AskRefresh
<1>2. db.indexed \subseteq db.files
  BY DEF Inv, IsIndex
<1>3. Spares'
  <2>1. CASE m = Updated
    <3>1. info'.clear = UpdatedInfo.clear
      BY <1>1, <2>1 DEF RefreshInfo, Updated, Incomplete, AllFiles
    <3> QED
      BY <1>1, <1>2, <3>1, UpdatedKeeps DEF Spares, Needs, Referenced
  <2>2. CASE m = Incomplete
    <3>1. info'.clear = IncompleteInfo.clear
      BY <1>1, <2>2 DEF RefreshInfo, Updated, Incomplete, AllFiles
    <3> QED
      BY <1>1, <1>2, <3>1, IncompleteKeeps DEF Spares, Needs, Referenced
  <2>3. CASE m = AllFiles
    <3>1. info'.mode = AllFiles
      BY <1>1, <2>3 DEF RefreshInfo, Updated, Incomplete, AllFiles
    <3> QED
      BY <3>1 DEF Spares
  <2> QED
    BY <2>1, <2>2, <2>3 DEF Modes
<1>4. KeptSourcesAreKept'
  BY <1>1 DEF KeptSourcesAreKept
<1> QED
  BY <1>1, <1>3, <1>4 DEF Inv, IsIndex

LEMMA BuildInv == ASSUME Inv, BuildIndex PROVE Inv'
<1>1. /\ UNCHANGED <<db, info, parsed>>
      /\ stage = "asked" /\ stage' = "indexing"
      /\ temp' = IF info.mode = AllFiles THEN Empty ELSE Clear(db, info.clear)
  BY DEF BuildIndex
<1>2. IsIndex(temp')
  BY <1>1, EmptyIsIndex, ClearKeeps DEF Inv
<1>3. Spares'
  BY <1>1 DEF Inv, Spares, Needs, Referenced
<1>4. KeptSourcesAreKept'
  <2> SUFFICES ASSUME info.mode # AllFiles,
                      NEW s \in (Sources \cap db.indexed) \ info.clear
               PROVE  /\ Needs(db, s) \cap db.files \subseteq temp'.files
                      /\ {e \in db.inc : e[1] \in Needs(db, s)} \subseteq temp'.inc
                      /\ {o \in db.occ : o[2] \in Needs(db, s)} \subseteq temp'.occ
    BY <1>1 DEF KeptSourcesAreKept, Needs, Referenced
  <2>1. Needs(db, s) \cap info.clear = {}
    BY <1>1 DEF Inv, Spares
  <2>2. temp' = Clear(db, info.clear)
    BY <1>1
  <2>3. \A e \in db.inc : e[1] \in Needs(db, s) => e[2] \in Needs(db, s)
    BY FollowingCloses DEF Needs, Referenced
  <2> QED
    BY <2>1, <2>2, <2>3, ClearKeeps DEF Inv
<1> QED
  BY <1>1, <1>2, <1>3, <1>4 DEF Inv, IsIndex

LEMMA InjectInv == ASSUME Inv, InjectStorage PROVE Inv'
<1> PICK p \in parsed : temp' = Inject(temp, p) /\ parsed' = parsed \ {p}
                        /\ UNCHANGED <<db, stage, info>>
  BY DEF InjectStorage
<1>1. p.indexed \subseteq p.files
  BY DEF Inv
<1>2. /\ IsIndex(temp') /\ temp.files \subseteq temp'.files
      /\ temp.inc \subseteq temp'.inc /\ temp.occ \subseteq temp'.occ
  BY <1>1, InjectKeeps DEF Inv
<1>3. Spares'
  BY DEF Inv, Spares, Needs, Referenced
<1>4. KeptSourcesAreKept'
  BY <1>2 DEF Inv, KeptSourcesAreKept, Referenced
<1> QED
  BY <1>2, <1>3, <1>4 DEF Inv, IsIndex

\* The parsers touch neither index.
LEMMA ParseInv == ASSUME Inv, NEW s \in Sources, Parse(s) \/ Crash(s) PROVE Inv'
<1>1. UNCHANGED <<db, temp, stage, info>>
  BY DEF Parse, Crash
<1>2. parsed' \subseteq parsed \cup {Recorded(s, disk), CrashRecord(s)}
  BY DEF Parse, Crash
<1>3. \A p \in parsed' : p.indexed \subseteq p.files
  BY <1>2, RecordsHaveRows DEF Inv
<1>4. Spares' /\ KeptSourcesAreKept'
  BY <1>1 DEF Inv, Spares, Needs, KeptSourcesAreKept, Referenced
<1> QED
  BY <1>1, <1>3, <1>4 DEF Inv, IsIndex

LEMMA EndInv ==
  ASSUME Inv, Cancel \/ NothingToDo \/ Interrupt \/ Finish
  PROVE  Inv'
<1>1. CASE Cancel \/ NothingToDo
  <2>1. stage' = "idle" /\ UNCHANGED <<db, temp, parsed>>
    BY <1>1 DEF Cancel, NothingToDo
  <2> QED
    BY <2>1 DEF Inv, Spares, KeptSourcesAreKept, IsIndex
<1>2. CASE Interrupt
  <2>1. /\ stage = "indexing" /\ stage' = "stopping" /\ parsed' \subseteq parsed
        /\ UNCHANGED <<db, temp, info>>
    BY <1>2 DEF Interrupt
  <2>2. Spares' /\ KeptSourcesAreKept'
    BY <2>1 DEF Inv, Spares, Needs, KeptSourcesAreKept, Referenced
  <2> QED
    BY <2>1, <2>2 DEF Inv, IsIndex
<1>3. CASE Finish
  <2>1. stage' = "idle" /\ db' \in {db, temp} /\ temp' = Empty /\ UNCHANGED parsed
    BY <1>3 DEF Finish
  <2>2. IsIndex(db') /\ IsIndex(temp')
    BY <2>1, EmptyIsIndex DEF Inv
  <2> QED
    BY <2>1, <2>2 DEF Inv, Spares, KeptSourcesAreKept
<1> QED
  BY <1>1, <1>2, <1>3

LEMMA NextInv == ASSUME Inv, [Next]_vars PROVE Inv'
<1>1. CASE UNCHANGED vars
  BY <1>1 DEF vars, Inv, IsIndex, Spares, Needs, KeptSourcesAreKept, Referenced
<1>2. CASE Next
  BY <1>2, EditInv, AskInv, BuildInv, ParseInv, InjectInv, EndInv DEF Next
<1> QED
  BY <1>1, <1>2

\* What a source file that is not cleared needs stays in the index being built,
\* for any files and contents, and any edits, crashes and interruptions.
THEOREM KeptSources == Spec => []KeptSourcesAreKept
<1>1. Init => Inv
  BY InitInv
<1>2. Inv /\ [Next]_vars => Inv'
  BY NextInv
<1>3. Inv => KeptSourcesAreKept
  BY DEF Inv
<1> QED
  BY <1>1, <1>2, <1>3, PTL DEF Spec
----------------------------------------------------------------------------
(* One undisturbed refresh is enough.                                      *)

\* The files of index d that a refresh would find changed.
ChangedIn(d) ==
  {f \in d.files :
     IF f \in Contained /\ Exists(f)
       THEN f \notin d.indexed \/ (f \in d.newer /\ disk[f] # d.text[f])
       ELSE f \in d.indexed \/ (f \in d.newer /\ disk[f] # d.text[f])}

\* Until the end, what an undisturbed refresh has built has no changed file, and
\* each source file is there, waits for a parser or was parsed as it is now.
Building ==
  stage = "indexing" /\ quiet # Disturbed =>
    /\ ChangedIn(temp) = {}
    /\ \A p \in parsed : \E s \in AllSources : p = Recorded(s, disk)
    /\ \A s \in AllSources :
         s \in pending \/ Recorded(s, disk) \in parsed \/ s \in temp.indexed

Fits(d) ==
  /\ IsIndex(d)
  /\ d.files \subseteq Files /\ d.newer \subseteq d.files

Calm ==
  /\ Fits(db) /\ Fits(temp)
  /\ \A p \in parsed : p.files \subseteq Files /\ p.indexed \subseteq p.files
  /\ stage \in {"idle", "asked"} => parsed = {}
  /\ stage = "stopping" => quiet = Disturbed
  /\ stage = "asked" /\ quiet # Disturbed =>
       quiet \in Modes /\ info = RefreshInfo(quiet)
  /\ Building
  /\ OneRefreshIsEnough

\* Nothing follows from nothing.
LEMMA NothingFollows == \A edges : Following({}, edges) = {}
<1> TAKE edges
<1>1. \A e \in edges : e[1] \in {} \cup {} => e[2] \in {}
  OBVIOUS
<1> QED
  BY <1>1, FollowingIsLeast

\* What a refresh of any mode would clear and index covers what one of updated
\* files would.
LEMMA ModesCover ==
  ASSUME NEW m \in Modes, m # AllFiles
  PROVE  /\ UpdatedInfo.clear \subseteq RefreshInfo(m).clear
         /\ UpdatedInfo.index \subseteq RefreshInfo(m).index
<1>1. CASE m = Updated
  BY <1>1 DEF RefreshInfo, Updated, Incomplete, AllFiles
<1>2. CASE m = Incomplete
  BY <1>2 DEF RefreshInfo, IncompleteInfo, Updated, Incomplete
<1> QED
  BY <1>1, <1>2 DEF Modes

\* A parser comes by files that exist.
LEMMA VisitedExist ==
  ASSUME NEW s \in Sources, NEW r, r[s] # Gone
  PROVE  s \in Visited(s, r) /\ \A f \in Visited(s, r) : f \in Files /\ r[f] # Gone
<1> DEFINE X == {f \in Files : r[f] # Gone}
<1>1. \A e \in Edges(s, r) : e[2] \in X
  BY DEF Edges
<1>2. Following({s}, Edges(s, r)) \subseteq X
  <2> HIDE DEF X
  <2> QED BY <1>1, FollowingIsLeast
<1> QED
  BY <1>2 DEF Visited, Files

\* An index that has no changed file has none when a parser's storage is injected.
LEMMA InjectUnchanged ==
  ASSUME NEW d, NEW s \in AllSources, IsIndex(d), d.newer \subseteq d.files,
         d.files \subseteq Files, ChangedIn(d) = {}
  PROVE  ChangedIn(Inject(d, Recorded(s, disk))) = {}
<1> DEFINE p == Recorded(s, disk)
           e == Inject(d, p)
<1>1. \A f \in p.files : f \in Files /\ Exists(f)
  BY VisitedExist DEF Recorded, AllSources, Exists
<1>2. p.indexed = p.files \cap Contained
  BY DEF Recorded
<1>3. /\ e.files = d.files \cup p.files /\ e.indexed = d.indexed \cup p.indexed
      /\ e.newer = d.newer
      /\ \A f \in Files \cap d.files : e.text[f] = d.text[f]
  <2> HIDE DEF p
  <2> QED BY DEF Inject, IsIndex, Empty, StoredText
<1> HIDE DEF p, e
<1> SUFFICES ASSUME NEW f \in ChangedIn(e) PROVE FALSE
  BY DEF e, p
<1>4. CASE f \in d.files /\ f \in Files
  BY <1>4, <1>1, <1>2, <1>3 DEF ChangedIn
<1>5. CASE f \notin d.files
  BY <1>5, <1>1, <1>2, <1>3 DEF ChangedIn, IsIndex
<1> QED
  BY <1>4, <1>5


\* What the operations on an index make of its rows.
LEMMA EmptyFits == Fits(Empty) /\ ChangedIn(Empty) = {}
BY EmptyIsIndex DEF Fits, Empty, ChangedIn

LEMMA AgedFits ==
  ASSUME NEW d, NEW f, NEW t, NEW w, Fits(d)
  PROVE  Fits(Aged(d, f, t, w))
<1>1. Aged(d, f, t, w).newer \subseteq d.newer \cup d.files
  BY DEF Aged, Fits, IsIndex, Empty
<1> QED
  BY <1>1, AgedKeeps DEF Fits

LEMMA InjectFits ==
  ASSUME NEW d, NEW p, Fits(d), p.files \subseteq Files, p.indexed \subseteq p.files
  PROVE  Fits(Inject(d, p)) /\ Inject(d, p).indexed = d.indexed \cup p.indexed
<1>1. /\ Inject(d, p).files = d.files \cup p.files
      /\ Inject(d, p).indexed = d.indexed \cup p.indexed
      /\ Inject(d, p).newer = d.newer
  BY DEF Inject, Fits, IsIndex, Empty
<1>2. IsIndex(Inject(d, p))
  BY InjectKeeps DEF Fits
<1> QED
  BY <1>1, <1>2 DEF Fits

LEMMA ClearFits ==
  ASSUME NEW d, NEW C, Fits(d)
  PROVE  /\ Fits(Clear(d, C))
         /\ Clear(d, C).indexed = d.indexed \ C
         /\ Clear(d, C).newer = d.newer \ C
         /\ \A f \in Files \ C : Clear(d, C).text[f] = d.text[f]
<1>1. /\ Clear(d, C).indexed = d.indexed \ C
      /\ Clear(d, C).newer = d.newer \ C
      /\ \A f \in Files \ C : Clear(d, C).text[f] = d.text[f]
  BY DEF Clear, Fits, IsIndex, Empty
<1>2. IsIndex(Clear(d, C)) /\ Clear(d, C).files = d.files \ C
  BY ClearKeeps DEF Fits
<1> QED
  BY <1>1, <1>2 DEF Fits

\* What is recorded is about files, and s is one of them.
LEMMA RecordsFit ==
  ASSUME NEW s \in Sources, NEW r
  PROVE  /\ Recorded(s, r).files \subseteq Files /\ CrashRecord(s).files \subseteq Files
         /\ s \in Recorded(s, r).indexed
<1>1. \A e \in Edges(s, r) : e[2] \in Files
  BY DEF Edges
<1>2. Following({s}, Edges(s, r)) \subseteq Files
  BY <1>1, FollowingIsLeast
<1> QED
  BY <1>2 DEF Recorded, CrashRecord, Visited, Files, Contained

\* What is built after the changed files were cleared.
LEMMA ClearUnchanged ==
  ASSUME NEW C, Fits(db), Changed \subseteq C
  PROVE  ChangedIn(Clear(db, C)) = {}
<1> DEFINE d == Clear(db, C)
<1>1. /\ d.files = db.files \ C /\ d.indexed = db.indexed \ C
      /\ d.newer = db.newer \ C
      /\ \A f \in Files \ C : d.text[f] = db.text[f]
  BY ClearFits, ClearKeeps DEF Fits
<1> HIDE DEF d
<1> SUFFICES ASSUME NEW f \in ChangedIn(d) PROVE FALSE
  BY DEF d
<1>2. f \in db.files /\ f \notin C /\ f \in Files
  BY <1>1 DEF ChangedIn, Fits
<1>3. f \in Changed
  BY <1>1, <1>2 DEF ChangedIn, Changed, DidFileChange
<1> QED
  BY <1>2, <1>3

\* The source files that are not indexed again are in the copy.
LEMMA RestIsIndexed ==
  ASSUME NEW s \in AllSources, s \notin UpdatedInfo.index
  PROVE  s \in db.indexed
BY DEF UpdatedInfo, AllSources

LEMMA InitCalm == Init => Calm
BY EmptyFits DEF Init, Calm, Building, OneRefreshIsEnough

LEMMA EditCalm == ASSUME Calm, NEW f \in Files, Edit(f) PROVE Calm'
<1>1. Fits(db') /\ Fits(temp')
  BY AgedFits DEF Calm, Edit
<1>2. UNCHANGED <<stage, info, parsed>> /\ quiet' = Disturbed
  BY DEF Edit
<1> QED
  BY <1>1, <1>2 DEF Calm, Building, OneRefreshIsEnough

LEMMA AskCalm == ASSUME Calm, NEW m \in Modes, AskRefresh(m) PROVE Calm'
<1>1. /\ UNCHANGED <<disk, db, temp, pending, parsed>> /\ stage = "idle"
      /\ stage' = "asked" /\ quiet' = m /\ info' = RefreshInfo(m)
  BY DEF AskRefresh
<1>2. UpdatedInfo' = UpdatedInfo /\ AllSources' = AllSources
  BY <1>1 DEF UpdatedInfo, Changed, Unshared, AllSources, Exists, DidFileChange,
     Referencing, Referenced
<1>3. IncompleteInfo' = IncompleteInfo
  BY <1>1, <1>2 DEF IncompleteInfo, Referencing
<1>4. RefreshInfo(m)' = RefreshInfo(m)
  BY <1>2, <1>3 DEF RefreshInfo
<1> QED
  BY <1>1, <1>4 DEF Calm, Fits, IsIndex, Building, OneRefreshIsEnough

\* Nothing to do in a wider mode is nothing to do.
LEMMA NothingCalm == ASSUME Calm, NothingToDo PROVE Calm'
<1>1. /\ UNCHANGED <<disk, db, temp, pending, parsed, quiet>>
      /\ stage = "asked" /\ stage' = "idle" /\ NothingToRefresh(info)
  BY DEF NothingToDo
<1>2. ASSUME quiet # Disturbed PROVE NothingToRefresh(UpdatedInfo)
  <2>1. quiet \in Modes /\ info = RefreshInfo(quiet)
    BY <1>1, <1>2 DEF Calm
  <2>2. quiet # AllFiles
    BY <1>1, <2>1 DEF NothingToRefresh, RefreshInfo, Updated, Incomplete, AllFiles
  <2>3. UpdatedInfo.mode # AllFiles
    BY DEF UpdatedInfo, Updated, AllFiles
  <2> QED
    BY <1>1, <2>1, <2>2, <2>3, ModesCover DEF NothingToRefresh
<1>3. NothingToRefresh(UpdatedInfo)' = NothingToRefresh(UpdatedInfo)
  BY <1>1 DEF NothingToRefresh, UpdatedInfo, Changed, Unshared,
     AllSources, Exists, DidFileChange, Referencing, Referenced
<1> QED
  BY <1>1, <1>2, <1>3 DEF Calm, Fits, IsIndex, Building, OneRefreshIsEnough

LEMMA BuildCalm == ASSUME Calm, BuildIndex PROVE Calm'
<1>1. /\ UNCHANGED <<disk, db, info, parsed, quiet>>
      /\ stage = "asked" /\ stage' = "indexing"
      /\ temp' = IF info.mode = AllFiles THEN Empty ELSE Clear(db, info.clear)
      /\ pending' = info.index \cap AllSources
  BY DEF BuildIndex
<1>2. Fits(db') /\ Fits(temp')
  BY <1>1, EmptyFits, ClearFits DEF Calm, Fits, IsIndex
<1>3. parsed = {}
  BY <1>1 DEF Calm
<1>4. ASSUME quiet # Disturbed
      PROVE  /\ ChangedIn(temp') = {}
             /\ \A s \in AllSources : s \in pending' \/ s \in temp'.indexed
  <2>1. quiet \in Modes /\ info = RefreshInfo(quiet)
    BY <1>1, <1>4 DEF Calm
  <2>2. CASE quiet = AllFiles
    <3>1. info.mode = AllFiles /\ info.index = AllSources
      BY <2>1, <2>2 DEF RefreshInfo, Updated, Incomplete, AllFiles
    <3> QED
      BY <1>1, <3>1, EmptyFits
  <2>3. CASE quiet # AllFiles
    <3>1. info.mode # AllFiles
      BY <2>1, <2>3 DEF RefreshInfo, UpdatedInfo, IncompleteInfo, Modes,
         Updated, Incomplete, AllFiles
    <3>2. temp' = Clear(db, info.clear)
      BY <1>1, <3>1
    <3>3. /\ UpdatedInfo.clear \subseteq info.clear
          /\ UpdatedInfo.index \subseteq info.index
      BY <2>1, <2>3, ModesCover
    <3>4. Changed \subseteq info.clear
      BY <3>3 DEF UpdatedInfo
    <3>5. ASSUME NEW s \in AllSources, s \notin pending'
          PROVE  s \in temp'.indexed
      <4>1. s \notin info.index /\ s \in db.indexed
        BY <1>1, <3>3, <3>5, RestIsIndexed
      <4>2. s \notin info.clear
        BY <4>1, <2>1, <2>3
           DEF RefreshInfo, UpdatedInfo, IncompleteInfo, Modes,
               Updated, Incomplete, AllFiles
      <4> QED
        BY <3>2, <4>1, <4>2, ClearFits DEF Calm
    <3> QED
      BY <3>2, <3>4, <3>5, ClearUnchanged DEF Calm
  <2> QED
    BY <2>2, <2>3
<1>5. Building'
  BY <1>1, <1>3, <1>4 DEF Building, ChangedIn, AllSources, Exists
<1> QED
  BY <1>1, <1>2, <1>5 DEF Calm, OneRefreshIsEnough

LEMMA ParseCalm == ASSUME Calm, NEW s \in Sources, Parse(s) PROVE Calm'
<1>1. /\ UNCHANGED <<disk, db, temp, stage, info, quiet>> /\ stage = "indexing"
      /\ pending' = pending \ {s}
      /\ parsed' = IF Exists(s) THEN parsed \cup {Recorded(s, disk)} ELSE parsed
  BY DEF Parse
<1>2. \A p \in parsed' : p.files \subseteq Files /\ p.indexed \subseteq p.files
  BY <1>1, RecordsFit, RecordsHaveRows DEF Calm
<1>3. \A r : Recorded(r, disk)' = Recorded(r, disk)
  BY <1>1 DEF Recorded, Visited, Edges, Unresolved
<1>4. AllSources' = AllSources /\ ChangedIn(temp)' = ChangedIn(temp)
  BY <1>1 DEF AllSources, Exists, ChangedIn
<1>5. ASSUME quiet # Disturbed
      PROVE  /\ \A p \in parsed' : \E r \in AllSources : p = Recorded(r, disk)
             /\ \A r \in AllSources :
                  r \in pending' \/ Recorded(r, disk) \in parsed' \/ r \in temp.indexed
  BY <1>1, <1>5 DEF Calm, Building, AllSources
<1>6. Building'
  BY <1>1, <1>3, <1>4, <1>5 DEF Calm, Building
<1> QED
  BY <1>1, <1>2, <1>6 DEF Calm, Fits, IsIndex, OneRefreshIsEnough

LEMMA CrashCalm == ASSUME Calm, NEW s \in Sources, Crash(s) PROVE Calm'
<1>1. /\ UNCHANGED <<disk, db, temp, stage, info>> /\ stage = "indexing"
      /\ parsed' = parsed \cup {CrashRecord(s)} /\ quiet' = Disturbed
  BY DEF Crash
<1>2. \A p \in parsed' : p.files \subseteq Files /\ p.indexed \subseteq p.files
  BY <1>1, RecordsFit, RecordsHaveRows DEF Calm
<1> QED
  BY <1>1, <1>2 DEF Calm, Fits, IsIndex, Building, OneRefreshIsEnough

LEMMA InjectCalm == ASSUME Calm, InjectStorage PROVE Calm'
<1> PICK p \in parsed : /\ temp' = Inject(temp, p) /\ parsed' = parsed \ {p}
                        /\ UNCHANGED <<disk, db, stage, info, pending, quiet>>
  BY DEF InjectStorage
<1>1. Fits(temp') /\ temp'.indexed = temp.indexed \cup p.indexed
  BY InjectFits DEF Calm
<1>2. \A r : Recorded(r, disk)' = Recorded(r, disk)
  BY DEF Recorded, Visited, Edges, Unresolved
<1>3. AllSources' = AllSources
  BY DEF AllSources, Exists
<1>4. ASSUME stage = "indexing", quiet # Disturbed
      PROVE  /\ ChangedIn(temp') = {}
             /\ \A r \in AllSources :
                  r \in pending \/ Recorded(r, disk) \in parsed' \/ r \in temp'.indexed
  <2>1. PICK s \in AllSources : p = Recorded(s, disk)
    BY <1>4 DEF Calm, Building
  <2>2. ChangedIn(Inject(temp, Recorded(s, disk))) = {}
    BY <1>4, InjectUnchanged DEF Calm, Building, Fits
  <2>3. ASSUME NEW r \in AllSources, Recorded(r, disk) = p PROVE r \in temp'.indexed
    BY <1>1, <2>3, RecordsFit DEF AllSources
  <2> QED
    BY <1>1, <1>4, <2>1, <2>2, <2>3 DEF Calm, Building
<1>5. ChangedIn(temp)' = ChangedIn(temp')
  BY DEF ChangedIn, Exists
<1>6. Building'
  BY <1>2, <1>3, <1>4, <1>5 DEF Calm, Building
<1> QED
  BY <1>1, <1>6 DEF Calm, Fits, IsIndex, OneRefreshIsEnough

\* In the end the copy is the index, and has no changed file.
LEMMA FinishCalm == ASSUME Calm, Finish PROVE Calm'
<1>1. /\ UNCHANGED <<disk, parsed, quiet>> /\ temp' = Empty /\ stage' = "idle"
      /\ stage \in {"indexing", "stopping"} /\ pending = {} /\ parsed = {}
      /\ db' \in {db, temp}
      /\ stage = "indexing" => db' = temp
  BY DEF Finish
<1>2. Fits(db') /\ Fits(temp')
  BY <1>1, EmptyFits DEF Calm
<1>3. ASSUME quiet # Disturbed PROVE NothingToRefresh(UpdatedInfo)'
  <2>1. stage = "indexing" /\ db' = temp
    BY <1>1, <1>3 DEF Calm
  <2>2. ChangedIn(temp) = {} /\ AllSources \subseteq temp.indexed
    BY <1>1, <1>3, <2>1 DEF Calm, Building
  <2>3. Changed' = {}
    BY <1>1, <2>1, <2>2 DEF Changed, ChangedIn, DidFileChange, Exists
  <2>4. AllSources' \subseteq db'.indexed
    BY <1>1, <2>1, <2>2 DEF AllSources, Exists
  <2>5. Referencing(db, {})' = {} /\ Referenced(db, {})' = {}
    BY NothingFollows DEF Referencing, Referenced
  <2>6. UpdatedInfo.clear' = {}
    BY <2>3, <2>5 DEF UpdatedInfo, Unshared
  <2>7. UpdatedInfo.index' = {}
    BY <2>3, <2>4, <2>6 DEF UpdatedInfo, AllSources, Contained
  <2> QED
    BY <2>6, <2>7 DEF NothingToRefresh, UpdatedInfo, Updated, AllFiles
<1> QED
  BY <1>1, <1>2, <1>3 DEF Calm, Building, OneRefreshIsEnough

LEMMA StopCalm == ASSUME Calm, Cancel \/ Interrupt PROVE Calm'
<1>1. CASE Cancel
  <2>1. UNCHANGED <<db, temp, parsed>> /\ stage' = "idle" /\ quiet' = Disturbed
        /\ stage = "asked"
    BY <1>1 DEF Cancel
  <2> QED
    BY <2>1 DEF Calm, Fits, IsIndex, Building, OneRefreshIsEnough
<1>2. CASE Interrupt
  <2>1. UNCHANGED <<db, temp>> /\ stage' = "stopping" /\ quiet' = Disturbed
        /\ parsed' \subseteq parsed
    BY <1>2 DEF Interrupt
  <2> QED
    BY <2>1 DEF Calm, Fits, IsIndex, Building, OneRefreshIsEnough
<1> QED
  BY <1>1, <1>2

LEMMA NextCalm == ASSUME Calm, [Next]_vars PROVE Calm'
<1>1. CASE UNCHANGED vars
  <2>1. UNCHANGED vars
    BY <1>1
  <2>2. UpdatedInfo' = UpdatedInfo /\ AllSources' = AllSources
    BY <2>1 DEF vars, UpdatedInfo, Changed, Unshared, AllSources, Exists,
       DidFileChange, Referencing, Referenced
  <2>3. IncompleteInfo' = IncompleteInfo
    BY <2>1, <2>2 DEF vars, IncompleteInfo, Referencing
  <2>4. RefreshInfo(quiet)' = RefreshInfo(quiet)
    BY <2>1, <2>2, <2>3 DEF vars, RefreshInfo
  <2>5. \A r : Recorded(r, disk)' = Recorded(r, disk)
    BY <2>1 DEF vars, Recorded, Visited, Edges, Unresolved
  <2>6. ChangedIn(temp)' = ChangedIn(temp)
    BY <2>1 DEF vars, ChangedIn, Exists
  <2>7. Building'
    BY <2>1, <2>2, <2>5, <2>6 DEF vars, Calm, Building
  <2>8. OneRefreshIsEnough'
    BY <2>1, <2>2 DEF vars, Calm, OneRefreshIsEnough, NothingToRefresh
  <2> QED
    BY <2>1, <2>4, <2>7, <2>8 DEF vars, Calm, Fits, IsIndex
<1>2. CASE Next
  BY <1>2, EditCalm, AskCalm, NothingCalm, BuildCalm, ParseCalm, CrashCalm,
     InjectCalm, FinishCalm, StopCalm DEF Next
<1> QED
  BY <1>1, <1>2

\* After a refresh of any mode that nothing disturbs there is nothing to refresh,
\* for any files, contents, errors and orders in which storages are injected, and
\* whatever was edited, interrupted or crashed before.
THEOREM OneRefreshHolds == Spec => []OneRefreshIsEnough
<1>1. Init => Calm
  BY InitCalm
<1>2. Calm /\ [Next]_vars => Calm'
  BY NextCalm
<1>3. Calm => OneRefreshIsEnough
  BY DEF Calm
<1> QED
  BY <1>1, <1>2, <1>3, PTL DEF Spec
----------------------------------------------------------------------------
(* Nothing to refresh is true.                                             *)

\* What a text may say of a file.
LEMMA ContentKinds ==
  ASSUME NEW f \in Files, NEW v \in DOMAIN Content[f]
  PROVE  /\ v \in Texts /\ v # Gone /\ v # NoText
         /\ \A c \in Content[f][v] :
              /\ c.inc \subseteq Files /\ c.decl \subseteq Symbols
              /\ c.uses \subseteq Symbols \X Symbols
BY RefreshAssumption

\* What a parser sees is something the text may say.
LEMMA SeesKinds ==
  ASSUME NEW s \in Sources, NEW r \in Disks, NEW f \in Files, r[f] # Gone
  PROVE  /\ r[f] \in DOMAIN Content[f] /\ Sees(s, r, f) \in Content[f][r[f]]
         /\ r[f] \in Texts /\ Sees(s, r, f).inc \subseteq Files
<1>1. r[f] \in DOMAIN Content[f]
  BY DEF Disks, Possible
<1>2. Sees(s, r, f) \in Content[f][r[f]]
  BY SeesAssumption
<1> QED
  BY <1>1, <1>2, ContentKinds

LEMMA DisksAre == ASSUME NEW r \in Disks PROVE r \in [Files -> Texts \cup {Gone}]
BY DEF Disks

\* The files of index d whose contents are recorded: those outside the project
\* with their row, the others when they are indexed.
Rec(d) == d.indexed \cup (d.files \ Contained)

\* The text whose contents are recorded of file f, when k is the disk, and
\* whether it is known at all: no text is stored of files outside the project,
\* and of those whose parser crashed first.
Version(d, k, f) == IF d.text[f] # NoText THEN d.text[f] ELSE k[f]

Known(d, k, f) ==
  /\ f \in Rec(d) \ d.hidden
  /\ d.text[f] # NoText \/ (k[f] # Gone /\ f \notin d.newer)

\* What this text may say.
Said(d, k, f) == Content[f][Version(d, k, f)]

Rows(d, k) ==
  /\ IsIndex(d)
  /\ d.files \subseteq Files /\ d.indexed \subseteq d.files \cap Contained
  /\ d.newer \subseteq d.files /\ d.complete \subseteq d.files
  /\ d.undated \subseteq d.hidden
  /\ d.text \in [Files -> Texts \cup {Gone, NoText}]
  /\ \A f \in Files : d.text[f] # NoText => f \in d.indexed
  /\ d.inc \subseteq Rec(d) \X Rec(d)
  /\ d.occ \subseteq Symbols \X d.indexed
  /\ d.loc \cup d.torn \subseteq (Symbols \X Symbols) \X d.indexed
  /\ \A f \in d.files \ d.indexed : k[f] = Gone => f \in d.hidden

\* A stored text that is not older than the file is its text.
Dated(d, k) ==
  \A f \in d.files \ d.hidden :
    d.text[f] # NoText /\ k[f] # Gone /\ f \notin d.newer => d.text[f] = k[f]

\* What is recorded of a file with a known text is what the text may say.
Told(d, k) ==
  \A f \in Files : Known(d, k, f) =>
    /\ Version(d, k, f) \in DOMAIN Content[f]
    /\ \A g \in Files : <<f, g>> \in d.inc => \E c \in Said(d, k, f) : g \in c.inc
    /\ \A n \in Symbols : <<n, f>> \in d.occ => \E c \in Said(d, k, f) : n \in c.decl
    /\ \A u \in Symbols \X Symbols :
         <<u, f>> \in d.loc => \E c \in Said(d, k, f) : u \in c.uses

Roots(d) == Sources \cap d.indexed

\* The rows of storage p are in index d.
Holds(d, p) ==
  /\ p.files \subseteq d.files /\ p.indexed \subseteq d.indexed
  /\ p.inc \subseteq d.inc /\ p.occ \subseteq d.occ
  /\ p.loc \subseteq d.loc \cup d.torn

\* No file that source s missed on disk r has come into being on disk k, of those
\* that the files in S include.
StillMissing(s, r, k, S) ==
  \A f \in S : \A g \in Sees(s, r, f).inc : r[g] = Gone => k[g] = Gone

\* Source s is backed by disk r: index d has what its parser recorded there, and
\* where the texts of files it came by are known, they are those of r.
Backs(d, k, s, r) ==
  /\ r[s] # Gone
  /\ Holds(d, Recorded(s, r))
  /\ \A f \in Visited(s, r) : Known(d, k, f) => Version(d, k, f) = r[f]
  /\ d.created = {} => StillMissing(s, r, k, {f \in Visited(s, r) : Known(d, k, f)})
  /\ s \in d.complete => \A f \in Visited(s, r) : ~Unresolved(s, r, f)

Backed(d, k) == \A s \in Roots(d) : \E r \in Disks : Backs(d, k, s, r)

Sound(d, k) == Rows(d, k) /\ Dated(d, k) /\ Told(d, k) /\ Backed(d, k)

\* What parsers record, of whatever disk they found, and what is recorded of a
\* crash; the files a parser missed are still missing, if none came into being.
IsRecord(p, d, k) ==
  \E s \in Sources :
    \/ p = CrashRecord(s)
    \/ \E r \in Disks :
         /\ r[s] # Gone /\ p = Recorded(s, r)
         /\ d.created = {} => StillMissing(s, r, k, Visited(s, r))

\* A file that was read is told as its text may say; a file that was not is one of
\* the project.
IsShaped(p) ==
  /\ p.files \subseteq Files /\ p.complete \subseteq p.files
  /\ DOMAIN p.read \subseteq p.files /\ p.files \ DOMAIN p.read \subseteq Contained
  /\ p.indexed = DOMAIN p.read \cap Contained
  /\ \A f \in DOMAIN p.read : p.read[f] \in DOMAIN Content[f]
  /\ p.inc \subseteq (DOMAIN p.read) \X (DOMAIN p.read)
  /\ p.occ \subseteq Symbols \X p.indexed
  /\ p.loc \subseteq (Symbols \X Symbols) \X p.indexed
  /\ \A e \in p.inc : \E c \in Content[e[1]][p.read[e[1]]] : e[2] \in c.inc
  /\ \A o \in p.occ : \E c \in Content[o[2]][p.read[o[2]]] : o[1] \in c.decl
  /\ \A l \in p.loc : \E c \in Content[l[2]][p.read[l[2]]] : l[1] \in c.uses

\* Where no source file is included, one is recorded once in a refresh.
Apart ==
  /\ pending \subseteq Sources
  /\ stage = "asked" /\ info.mode # AllFiles => info.index \cap db.files \subseteq info.clear
  /\ \A s \in pending : s \notin temp.files /\ \A p \in parsed : s \notin p.files
  /\ \A p \in parsed : p.files \cap Sources \cap temp.files = {}
  /\ \A p \in parsed, q \in parsed : p # q => p.files \cap q.files \cap Sources = {}

Honest ==
  /\ disk \in Disks
  /\ Sound(db, disk) /\ Sound(temp, disk)
  /\ \A p \in parsed : IsRecord(p, temp, disk)
  /\ stage \in {"idle", "asked"} => parsed = {} /\ temp = Empty
  /\ Apart

\* An empty index is sound.
LEMMA EmptySound == ASSUME NEW k PROVE Sound(Empty, k)
<1>1. /\ Empty.files = {} /\ Empty.indexed = {} /\ Empty.newer = {}
      /\ Empty.undated = {} /\ Empty.inc = {} /\ Empty.occ = {} /\ Empty.loc = {}
      /\ Empty.torn = {} /\ Empty.complete = {}
      /\ Empty.text = [f \in Files |-> NoText]
  BY DEF Empty
<1>2. Rec(Empty) = {} /\ \A f : ~Known(Empty, k, f)
  BY <1>1 DEF Rec, Known
<1>3. Rows(Empty, k)
  BY <1>1, <1>2, EmptyIsIndex DEF Rows
<1> QED
  BY <1>1, <1>2, <1>3 DEF Sound, Dated, Told, Backed, Roots

\* Where no source file is included a parser comes by one of them.
LEMMA OneSource ==
  ASSUME SourcesApart, NEW s \in Sources, NEW r \in Disks, r[s] # Gone
  PROVE  Visited(s, r) \cap Sources = {s}
<1> DEFINE X == {f \in Files : f \notin Sources}
<1>1. \A e \in Edges(s, r) : e[2] \in X
  <2> TAKE e \in Edges(s, r)
  <2>1. e[1] \in Files /\ e[2] \in Files /\ r[e[1]] # Gone /\ e[2] \in Sees(s, r, e[1]).inc
    BY DEF Edges
  <2>2. r[e[1]] \in DOMAIN Content[e[1]] /\ Sees(s, r, e[1]) \in Content[e[1]][r[e[1]]]
    BY <2>1, SeesKinds
  <2> QED
    BY <2>1, <2>2 DEF SourcesApart
<1>2. ASSUME NEW f \in Following({s}, Edges(s, r)) PROVE f \in X
  <2> HIDE DEF X
  <2> QED
    BY <1>1, FollowingIsLeast
<1> QED
  BY <1>2 DEF Visited

\* What a parser records has this shape.
LEMMA RecordedIsShaped ==
  ASSUME NEW s \in Sources, NEW r \in Disks, r[s] # Gone
  PROVE  IsShaped(Recorded(s, r))
<1> DEFINE p == Recorded(s, r)
           seen == Visited(s, r)
<1>1. /\ p.files = seen /\ p.indexed = seen \cap Contained
      /\ p.read = [f \in seen |-> r[f]]
      /\ p.inc = {e \in Edges(s, r) : e[1] \in seen}
      /\ p.occ = {o \in Symbols \X p.indexed : o[1] \in Sees(s, r, o[2]).decl}
      /\ p.loc = {l \in (Symbols \X Symbols) \X p.indexed : l[1] \in Sees(s, r, l[2]).uses}
  BY DEF Recorded
<1>2. p.complete \subseteq seen
  BY DEF Recorded
<1>3. \A f \in seen : /\ f \in Files /\ r[f] \in DOMAIN Content[f]
                      /\ Sees(s, r, f) \in Content[f][r[f]]
  BY VisitedExist, SeesKinds
<1>4. \A e \in Edges(s, r) : e[1] \in seen => e[2] \in seen
  BY FollowingCloses DEF Visited
<1>5. \A e \in Edges(s, r) : e \in Files \X Files /\ e[2] \in Sees(s, r, e[1]).inc
  BY DEF Edges
<1> HIDE DEF p, seen
<1>6. DOMAIN p.read = seen /\ \A f \in seen : p.read[f] = r[f]
  BY <1>1
<1>7. p.inc \subseteq seen \X seen
      /\ \A e \in p.inc : \E c \in Content[e[1]][p.read[e[1]]] : e[2] \in c.inc
  BY <1>1, <1>3, <1>4, <1>5, <1>6
<1>8. \A o \in p.occ : \E c \in Content[o[2]][p.read[o[2]]] : o[1] \in c.decl
  BY <1>1, <1>3, <1>6
<1>9. \A l \in p.loc : \E c \in Content[l[2]][p.read[l[2]]] : l[1] \in c.uses
  BY <1>1, <1>3, <1>6
<1>10. p.files \subseteq Files /\ DOMAIN p.read = p.files
       /\ p.indexed = DOMAIN p.read \cap Contained
       /\ \A f \in DOMAIN p.read : p.read[f] \in DOMAIN Content[f]
  BY <1>1, <1>3, <1>6
<1>11. p.occ \subseteq Symbols \X p.indexed /\ p.loc \subseteq (Symbols \X Symbols) \X p.indexed
  BY <1>1
<1>12. p.inc \subseteq (DOMAIN p.read) \X (DOMAIN p.read) /\ p.complete \subseteq p.files
  BY <1>1, <1>2, <1>6, <1>7
<1> QED
  BY <1>7, <1>8, <1>9, <1>10, <1>11, <1>12 DEF IsShaped, p

LEMMA RecordIsShaped == ASSUME NEW p, NEW d, NEW k, IsRecord(p, d, k) PROVE IsShaped(p)
<1> PICK s \in Sources :
      \/ p = CrashRecord(s)
      \/ \E r \in Disks : r[s] # Gone /\ p = Recorded(s, r)
  BY DEF IsRecord
<1>1. CASE p = CrashRecord(s)
  <2>1. p.files = {s} /\ p.indexed = {} /\ DOMAIN p.read = {} /\ p.inc = {}
        /\ p.occ = {} /\ p.loc = {} /\ p.complete = {s}
    BY <1>1 DEF CrashRecord
  <2> QED
    BY <2>1 DEF IsShaped, Files, Contained
<1>2. CASE \E r \in Disks : r[s] # Gone /\ p = Recorded(s, r)
  BY <1>2, RecordedIsShaped
<1> QED
  BY <1>1, <1>2
----------------------------------------------------------------------------
(* A file changes.                                                         *)

Read(g) == {p.read[g] : p \in {p \in parsed : g \in DOMAIN p.read}}

Wanted(d, f) ==
  \E g \in Files : \E v \in ({disk[g], d.text[g]} \cup Read(g)) \cap Texts :
    \E c \in Content[g][v] : f \in c.inc

LEMMA AgedFields ==
  ASSUME NEW d, NEW f, NEW t, NEW w, IsIndex(d)
  PROVE  /\ Aged(d, f, t, w).files = d.files /\ Aged(d, f, t, w).indexed = d.indexed
         /\ Aged(d, f, t, w).undated = d.undated /\ Aged(d, f, t, w).text = d.text
         /\ Aged(d, f, t, w).inc = d.inc /\ Aged(d, f, t, w).occ = d.occ
         /\ Aged(d, f, t, w).loc = d.loc /\ Aged(d, f, t, w).torn = d.torn
         /\ Aged(d, f, t, w).complete = d.complete
         /\ \A x : x # f => (x \in Aged(d, f, t, w).newer <=> x \in d.newer)
         /\ t # Gone /\ f \in d.files \ d.undated =>
              \/ f \in Aged(d, f, t, w).newer
              \/ t = d.text[f] \/ f \in Aged(d, f, t, w).hidden
         /\ f \in Aged(d, f, t, w).newer => f \in d.newer \cup d.files
         /\ \A x \in d.hidden : x \in Aged(d, f, t, w).hidden
         /\ t = Gone /\ f \in d.files \ d.indexed => f \in Aged(d, f, t, w).hidden
         /\ Aged(d, f, t, w).created = {} =>
              d.created = {} /\ (Exists(f) \/ ~Wanted(d, f))
BY DEF Aged, IsIndex, Empty, Wanted, Read

\* A file whose text is known after an edit was known with the same text.
LEMMA AgedKnows ==
  ASSUME NEW d, NEW f \in Files, NEW t \in Possible(f), NEW w, NEW k,
         k[f] = t, \A x \in Files : x # f => k[x] = disk[x],
         Rows(d, disk)
  PROVE  \A g \in Files : Known(Aged(d, f, t, w), k, g) =>
           /\ Known(d, disk, g)
           /\ Version(Aged(d, f, t, w), k, g) = Version(d, disk, g)
<1> DEFINE a == Aged(d, f, t, w)
<1> SUFFICES ASSUME NEW g \in Files, Known(a, k, g)
             PROVE  Known(d, disk, g) /\ Version(a, k, g) = Version(d, disk, g)
  OBVIOUS
<1>0. IsIndex(d) /\ t # NoText
  BY RefreshAssumption DEF Rows, Possible, Gone, NoText
<1>1. /\ a.files = d.files /\ a.indexed = d.indexed /\ a.undated = d.undated
      /\ a.text = d.text
      /\ \A x : x # f => (x \in a.newer <=> x \in d.newer)
      /\ t # Gone /\ f \in d.files \ d.undated =>
           f \in a.newer \/ t = d.text[f] \/ f \in a.hidden
      /\ \A x \in d.hidden : x \in a.hidden
  BY <1>0, AgedFields
<1>2. Rec(a) = Rec(d)
  BY <1>1 DEF Rec
<1>3. Known(a, k, g)
  OBVIOUS
<1> HIDE DEF a
<1>4. g \in Rec(d) \ d.hidden /\ g \in d.files \ d.undated
  BY <1>1, <1>2, <1>3 DEF Known, Rows, Rec
<1>5. CASE g # f
  <2>1. k[g] = disk[g] /\ (g \in a.newer <=> g \in d.newer)
    BY <1>0, <1>1, <1>5
  <2> QED
    BY <1>1, <1>3, <1>4, <2>1 DEF Known, Version
<1>6. CASE g = f
  <2>1. k[f] = t
    BY <1>0
  <2>2. d.text[f] # NoText
    BY <1>0, <1>1, <1>3, <1>4, <1>6, <2>1 DEF Known
  <2> QED
    BY <1>1, <1>4, <1>6, <2>2 DEF Known, Version
<1> QED
  BY <1>5, <1>6

LEMMA AgedRows ==
  ASSUME NEW d, NEW f \in Files, NEW t \in Possible(f), NEW w, NEW k,
         disk \in Disks, k = [disk EXCEPT ![f] = t], Rows(d, disk)
  PROVE  Rows(Aged(d, f, t, w), k)
<1> DEFINE a == Aged(d, f, t, w)
<1>0. IsIndex(d) /\ disk \in [Files -> Texts \cup {Gone}]
  BY DisksAre DEF Rows
<1>1. /\ a.files = d.files /\ a.indexed = d.indexed /\ a.undated = d.undated
      /\ a.text = d.text /\ a.inc = d.inc /\ a.occ = d.occ /\ a.loc = d.loc
      /\ a.torn = d.torn /\ a.complete = d.complete
      /\ \A x : x # f => (x \in a.newer <=> x \in d.newer)
      /\ f \in a.newer => f \in d.newer \cup d.files
  BY <1>0, AgedFields
<1>2. /\ \A x \in d.hidden : x \in a.hidden
      /\ t = Gone /\ f \in d.files \ d.indexed => f \in a.hidden
  BY <1>0, AgedFields
<1>3. IsIndex(a)
  BY AgedKeeps DEF Rows
<1> HIDE DEF a
<1>4. Rec(a) = Rec(d)
  BY <1>1 DEF Rec
<1>5. ASSUME NEW g \in a.files \ a.indexed, k[g] = Gone PROVE g \in a.hidden
  <2>1. g \in d.files \ d.indexed /\ g \in Files
    BY <1>1 DEF Rows
  <2>2. CASE g = f
    BY <1>0, <1>2, <1>5, <2>1, <2>2
  <2>3. CASE g # f
    BY <1>0, <1>2, <1>5, <2>1, <2>3 DEF Rows
  <2> QED
    BY <2>2, <2>3
<1>6. a.newer \subseteq a.files
  BY <1>1 DEF Rows
<1>7. Rows(a, k)
  BY <1>1, <1>2, <1>3, <1>4, <1>5, <1>6 DEF Rows
<1> QED
  BY <1>7 DEF a

LEMMA AgedDated ==
  ASSUME NEW d, NEW f \in Files, NEW t \in Possible(f), NEW w, NEW k,
         disk \in Disks, k = [disk EXCEPT ![f] = t],
         Rows(d, disk), Dated(d, disk)
  PROVE  Dated(Aged(d, f, t, w), k)
<1> DEFINE a == Aged(d, f, t, w)
<1>0. IsIndex(d) /\ disk \in [Files -> Texts \cup {Gone}]
  BY DisksAre DEF Rows
<1>1. /\ a.files = d.files /\ a.text = d.text
      /\ \A x \in d.hidden : x \in a.hidden
      /\ \A x : x # f => (x \in a.newer <=> x \in d.newer)
      /\ t # Gone /\ f \in d.files \ d.undated =>
           f \in a.newer \/ t = d.text[f] \/ f \in a.hidden
  BY <1>0, AgedFields
<1> HIDE DEF a
<1>2. ASSUME NEW g \in a.files \ a.hidden, a.text[g] # NoText, k[g] # Gone, g \notin a.newer
      PROVE  a.text[g] = k[g]
  <2>1. g \in d.files \ d.hidden /\ g \in Files /\ g \notin d.undated
    BY <1>1 DEF Rows
  <2>2. CASE g = f
    BY <1>0, <1>1, <1>2, <2>1, <2>2
  <2>3. CASE g # f
    <3>1. k[g] = disk[g] /\ g \notin d.newer
      BY <1>0, <1>1, <1>2, <2>1, <2>3
    <3> QED
      BY <1>1, <1>2, <2>1, <3>1 DEF Dated
  <2> QED
    BY <2>2, <2>3
<1>3. Dated(a, k)
  BY <1>2 DEF Dated
<1> QED
  BY <1>3 DEF a

LEMMA AgedTold ==
  ASSUME NEW d, NEW f \in Files, NEW t \in Possible(f), NEW w, NEW k,
         disk \in Disks, k = [disk EXCEPT ![f] = t],
         Rows(d, disk), Told(d, disk)
  PROVE  Told(Aged(d, f, t, w), k)
<1> DEFINE a == Aged(d, f, t, w)
<1>0. IsIndex(d) /\ disk \in [Files -> Texts \cup {Gone}]
  BY DisksAre DEF Rows
<1>1. a.inc = d.inc /\ a.occ = d.occ /\ a.loc = d.loc
  BY <1>0, AgedFields
<1>2. \A g \in Files : Known(a, k, g) => /\ Known(d, disk, g)
                                         /\ Version(a, k, g) = Version(d, disk, g)
  <2>1. k[f] = t /\ \A x \in Files : x # f => k[x] = disk[x]
    BY <1>0
  <2> QED
    BY ONLY <2>1, Rows(d, disk), f \in Files, t \in Possible(f), AgedKnows
<1> HIDE DEF a
<1>3. Told(a, k)
  BY <1>1, <1>2 DEF Told, Said
<1> QED
  BY <1>3 DEF a

\* A file that comes into being was not included by any known text, so what was
\* missed by a parser is still missing.
LEMMA AgedBacked ==
  ASSUME NEW d, NEW f \in Files, NEW t \in Possible(f), NEW w, NEW k,
         disk \in Disks, k = [disk EXCEPT ![f] = t],
         Rows(d, disk), Backed(d, disk)
  PROVE  Backed(Aged(d, f, t, w), k)
<1> DEFINE a == Aged(d, f, t, w)
<1>0. IsIndex(d) /\ disk \in [Files -> Texts \cup {Gone}]
  BY DisksAre DEF Rows
<1>1. /\ a.files = d.files /\ a.indexed = d.indexed /\ a.inc = d.inc
      /\ a.occ = d.occ /\ a.loc = d.loc /\ a.torn = d.torn /\ a.complete = d.complete
  BY <1>0, AgedFields
<1>2. a.created = {} => d.created = {} /\ (Exists(f) \/ ~Wanted(d, f))
  BY <1>0, AgedFields
<1>3. \A g \in Files : Known(a, k, g) => /\ Known(d, disk, g)
                                         /\ Version(a, k, g) = Version(d, disk, g)
  <2>1. k[f] = t /\ \A x \in Files : x # f => k[x] = disk[x]
    BY <1>0
  <2> QED
    BY ONLY <2>1, Rows(d, disk), f \in Files, t \in Possible(f), AgedKnows
<1> HIDE DEF a
<1> SUFFICES ASSUME NEW s \in Roots(d) PROVE \E r \in Disks : Backs(a, k, s, r)
  BY <1>1 DEF Backed, Roots, a
<1> PICK r \in Disks : Backs(d, disk, s, r)
  BY DEF Backed
<1>4. s \in Sources /\ r[s] # Gone
  BY DEF Roots, Backs
<1>5. \A g \in Visited(s, r) : g \in Files /\ r[g] # Gone
  BY <1>4, VisitedExist
<1>6. ASSUME a.created = {}, NEW g \in Visited(s, r), Known(a, k, g),
             NEW h \in Sees(s, r, g).inc, r[h] = Gone
      PROVE  k[h] = Gone
  <2>1. g \in Files /\ Known(d, disk, g)
    BY <1>3, <1>5, <1>6
  <2>2. /\ r[g] \in Texts /\ Sees(s, r, g) \in Content[g][r[g]] /\ h \in Files
    BY <1>4, <1>5, <1>6, SeesKinds
  <2>3. Version(d, disk, g) = r[g] /\ disk[h] = Gone
    BY <1>2, <1>6, <2>1 DEF Backs, StillMissing
  <2>4. r[g] \in {disk[g], d.text[g]}
    BY <2>3 DEF Version
  <2>5. Wanted(d, h)
    BY <2>1, <2>2, <2>4, <1>6 DEF Wanted
  <2>6. h # f
    BY <1>2, <1>6, <2>3, <2>5 DEF Exists
  <2> QED
    BY <1>0, <2>2, <2>3, <2>6
<1>7. Holds(a, Recorded(s, r))
  BY <1>1 DEF Backs, Holds
<1>8. \A g \in Visited(s, r) : Known(a, k, g) => Version(a, k, g) = r[g]
  BY <1>3, <1>5 DEF Backs
<1>9. a.created = {} => StillMissing(s, r, k, {g \in Visited(s, r) : Known(a, k, g)})
  BY <1>6 DEF StillMissing
<1>10. Backs(a, k, s, r)
  BY <1>1, <1>4, <1>7, <1>8, <1>9 DEF Backs
<1> QED
  BY <1>10

LEMMA AgedSound ==
  ASSUME NEW d, NEW f \in Files, NEW t \in Possible(f), NEW w, NEW k,
         disk \in Disks, k = [disk EXCEPT ![f] = t], Sound(d, disk)
  PROVE  Sound(Aged(d, f, t, w), k)
<1>1. Rows(d, disk) /\ Dated(d, disk) /\ Told(d, disk) /\ Backed(d, disk)
  BY DEF Sound
<1>2. Rows(Aged(d, f, t, w), k)
  BY <1>1, AgedRows
<1>3. Dated(Aged(d, f, t, w), k)
  BY <1>1, AgedDated
<1>4. Told(Aged(d, f, t, w), k)
  BY <1>1, AgedTold
<1>5. Backed(Aged(d, f, t, w), k)
  BY <1>1, AgedBacked
<1> QED
  BY <1>2, <1>3, <1>4, <1>5 DEF Sound
----------------------------------------------------------------------------
(* Files are cleared.                                                      *)

LEMMA ClearFields ==
  ASSUME NEW d, NEW C, IsIndex(d), d.text \in [Files -> Texts \cup {Gone, NoText}]
  PROVE  /\ Clear(d, C).files = d.files \ C /\ Clear(d, C).indexed = d.indexed \ C
         /\ Clear(d, C).newer = d.newer \ C /\ Clear(d, C).undated = d.undated \ C
         /\ Clear(d, C).hidden = d.hidden \ C /\ Clear(d, C).created = d.created
         /\ Clear(d, C).complete = d.complete \ C
         /\ Clear(d, C).text \in [Files -> Texts \cup {Gone, NoText}]
         /\ \A f \in Files : Clear(d, C).text[f] = IF f \in C THEN NoText ELSE d.text[f]
         /\ \A x : x \in Clear(d, C).inc <=> x \in d.inc /\ x[1] \notin C /\ x[2] \notin C
         /\ \A x : x \in Clear(d, C).occ <=> x \in d.occ /\ x[2] \notin C
         /\ \A x \in Clear(d, C).loc : x \in d.loc /\ x[2] \notin C
         /\ \A x \in Clear(d, C).torn : x \in d.loc \cup d.torn /\ x[2] \notin C
         /\ \A x \in d.loc \cup d.torn :
              x[2] \notin C => x \in Clear(d, C).loc \cup Clear(d, C).torn
<1>1. /\ Clear(d, C).files = d.files \ C /\ Clear(d, C).indexed = d.indexed \ C
      /\ Clear(d, C).newer = d.newer \ C /\ Clear(d, C).undated = d.undated \ C
      /\ Clear(d, C).hidden = d.hidden \ C /\ Clear(d, C).created = d.created
      /\ Clear(d, C).complete = d.complete \ C
      /\ Clear(d, C).text = [f \in Files |-> IF f \in C THEN NoText ELSE d.text[f]]
      /\ Clear(d, C).inc = {e \in d.inc : e[1] \notin C /\ e[2] \notin C}
      /\ Clear(d, C).occ = {o \in d.occ : o[2] \notin C}
  BY DEF Clear, IsIndex, Empty
<1>2. PICK lost \in SUBSET d.loc :
        /\ Clear(d, C).loc = d.loc \ lost
        /\ Clear(d, C).torn = (d.torn \cup lost) \ {l \in lost \cup d.torn : l[2] \in C}
        /\ \A l \in d.loc : l[2] \in C => l \in lost
  <2> DEFINE located == {n \in Symbols : \E f \in C : <<n, f>> \in d.occ}
             edges == {l[1] : l \in {l \in d.loc : l[2] \in C}}
             lost == {l \in d.loc : l[2] \in C \/ l[1] \in edges \/ l[1][1] \in located}
  <2>1. /\ Clear(d, C).loc = d.loc \ lost
        /\ Clear(d, C).torn = (d.torn \cup lost) \ {l \in lost \cup d.torn : l[2] \in C}
    BY DEF Clear, IsIndex, Empty
  <2>2. lost \in SUBSET d.loc /\ \A l \in d.loc : l[2] \in C => l \in lost
    OBVIOUS
  <2> HIDE DEF lost
  <2> QED
    BY <2>1, <2>2
<1> QED
  BY <1>1, <1>2

\* What a parser recorded of files that stay, stays.
LEMMA ClearHolds ==
  ASSUME NEW d, NEW C, Rows(d, disk), NEW s, NEW r, Holds(d, Recorded(s, r)),
         Visited(s, r) \cap C = {}
  PROVE  Holds(Clear(d, C), Recorded(s, r))
<1> DEFINE c == Clear(d, C)
           p == Recorded(s, r)
<1>0. IsIndex(d) /\ d.text \in [Files -> Texts \cup {Gone, NoText}]
  BY DEF Rows
<1>1. c.files = d.files \ C /\ c.indexed = d.indexed \ C
  BY <1>0, ClearFields
<1>2. /\ \A x : x \in c.inc <=> x \in d.inc /\ x[1] \notin C /\ x[2] \notin C
      /\ \A x : x \in c.occ <=> x \in d.occ /\ x[2] \notin C
  BY <1>0, ClearFields
<1>3. \A x \in d.loc \cup d.torn : x[2] \notin C => x \in c.loc \cup c.torn
  BY <1>0, ClearFields
<1>4. p.files \cap C = {} /\ p.indexed \cap C = {}
  BY DEF Recorded
<1>5. \A e \in p.inc : e[1] \in Visited(s, r) /\ e[2] \in Visited(s, r)
  BY FollowingCloses DEF Recorded, Visited
<1>6. \A o \in p.occ : o[2] \in Visited(s, r)
  BY DEF Recorded
<1>7. \A l \in p.loc : l[2] \in Visited(s, r)
  BY DEF Recorded
<1> HIDE DEF c, p
<1>8. p.files \subseteq c.files /\ p.indexed \subseteq c.indexed
  BY <1>1, <1>4 DEF Holds, p
<1>9. p.inc \subseteq c.inc
  BY <1>2, <1>5 DEF Holds, p
<1>10. p.occ \subseteq c.occ
  BY <1>2, <1>6 DEF Holds, p
<1>11. p.loc \subseteq c.loc \cup c.torn
  BY <1>3, <1>7 DEF Holds, p
<1> QED
  BY <1>8, <1>9, <1>10, <1>11 DEF Holds, c, p

\* A source file that is held refers to what its parser came by.
LEMMA HeldIsNeeded ==
  ASSUME NEW d, NEW s, NEW r, Holds(d, Recorded(s, r))
  PROVE  Visited(s, r) \subseteq Needs(d, s)
<1> DEFINE X == Following({s}, Edges(s, r)) \cap Needs(d, s)
<1>1. ASSUME NEW e \in Edges(s, r), e[1] \in {s} \cup X PROVE e[2] \in X
  <2>1. e[1] \in Visited(s, r) /\ e[1] \in Needs(d, s)
    BY <1>1 DEF Visited, Needs
  <2>2. e \in d.inc
    BY <2>1 DEF Recorded, Holds
  <2>3. e[2] \in Needs(d, s)
    BY <2>1, <2>2, FollowingCloses DEF Needs, Referenced
  <2>4. e[2] \in Following({s}, Edges(s, r))
    BY <2>1, FollowingCloses DEF Visited
  <2> QED
    BY <2>3, <2>4
<1>2. ASSUME NEW f \in Following({s}, Edges(s, r)) PROVE f \in X
  <2> HIDE DEF X
  <2> QED
    BY <1>1, FollowingIsLeast
<1> QED
  BY <1>2 DEF Visited, Needs

\* Clearing leaves a sound index sound, if it spares what the source files that
\* stay need.
LEMMA ClearSound ==
  ASSUME NEW d, NEW C, Sound(d, disk),
         \A s \in Roots(d) \ C : Needs(d, s) \cap C = {}
  PROVE  Sound(Clear(d, C), disk)
<1> DEFINE c == Clear(d, C)
<1>0. IsIndex(d) /\ d.text \in [Files -> Texts \cup {Gone, NoText}]
      /\ Rows(d, disk) /\ Dated(d, disk) /\ Told(d, disk) /\ Backed(d, disk)
  BY DEF Sound, Rows
<1>1. /\ c.files = d.files \ C /\ c.indexed = d.indexed \ C
      /\ c.newer = d.newer \ C /\ c.undated = d.undated \ C
      /\ c.hidden = d.hidden \ C /\ c.created = d.created
      /\ c.complete = d.complete \ C
      /\ c.text \in [Files -> Texts \cup {Gone, NoText}]
      /\ \A f \in Files : c.text[f] = IF f \in C THEN NoText ELSE d.text[f]
  BY <1>0, ClearFields
<1>2. /\ \A x : x \in c.inc <=> x \in d.inc /\ x[1] \notin C /\ x[2] \notin C
      /\ \A x : x \in c.occ <=> x \in d.occ /\ x[2] \notin C
  BY <1>0, ClearFields
<1>3. /\ \A x \in c.loc : x \in d.loc /\ x[2] \notin C
      /\ \A x \in c.torn : x \in d.loc \cup d.torn /\ x[2] \notin C
  BY <1>0, ClearFields
<1>4. IsIndex(c)
  BY <1>0, ClearKeeps
<1> HIDE DEF c
<1>5. Rec(c) = Rec(d) \ C
  BY <1>1 DEF Rec
<1>6. Rows(c, disk)
  <2>1. c.inc \subseteq Rec(c) \X Rec(c)
    BY <1>0, <1>2, <1>5 DEF Rows
  <2>2. c.occ \subseteq Symbols \X c.indexed
    BY <1>0, <1>1, <1>2 DEF Rows
  <2>3. c.loc \cup c.torn \subseteq (Symbols \X Symbols) \X c.indexed
    BY <1>0, <1>1, <1>3 DEF Rows
  <2> QED
    BY <1>0, <1>1, <1>4, <2>1, <2>2, <2>3 DEF Rows
<1>7. \A f \in Files : Known(c, disk, f) =>
        f \notin C /\ Known(d, disk, f) /\ Version(c, disk, f) = Version(d, disk, f)
  BY <1>1, <1>5 DEF Known, Version
<1>8. Dated(c, disk)
  BY <1>0, <1>1 DEF Dated, Rows
<1>9. Told(c, disk)
  BY <1>0, <1>2, <1>3, <1>7 DEF Told, Said
<1>10. ASSUME NEW s \in Roots(c) PROVE \E r \in Disks : Backs(c, disk, s, r)
  <2>1. s \in Roots(d) \ C /\ s \in Sources
    BY <1>1 DEF Roots
  <2> PICK r \in Disks : Backs(d, disk, s, r)
    BY <1>0, <2>1 DEF Backed
  <2>2. Visited(s, r) \cap C = {}
    BY <2>1, HeldIsNeeded DEF Backs
  <2>3. Holds(c, Recorded(s, r))
    BY <1>0, <2>2, ClearHolds DEF Backs, c
  <2>4. \A f \in Visited(s, r) : f \in Files
    BY <2>1, VisitedExist DEF Backs
  <2>5. \A f \in Visited(s, r) : Known(c, disk, f) => Version(c, disk, f) = r[f]
    BY <1>7, <2>4 DEF Backs
  <2>6. c.created = {} =>
          StillMissing(s, r, disk, {f \in Visited(s, r) : Known(c, disk, f)})
    BY <1>1, <1>7, <2>4 DEF Backs, StillMissing
  <2>7. Backs(c, disk, s, r)
    BY <1>1, <2>3, <2>5, <2>6 DEF Backs
  <2> QED
    BY <2>7
<1>11. Sound(c, disk)
  BY <1>6, <1>8, <1>9, <1>10 DEF Sound, Backed
<1> QED
  BY <1>11 DEF c
----------------------------------------------------------------------------
(* A storage is injected.                                                  *)

LEMMA InjectFields ==
  ASSUME NEW d, NEW p, IsIndex(d), d.text \in [Files -> Texts \cup {Gone, NoText}],
         disk \in [Files -> Texts \cup {Gone}]
  PROVE  /\ Inject(d, p).files = d.files \cup p.files
         /\ Inject(d, p).indexed = d.indexed \cup p.indexed
         /\ Inject(d, p).newer = d.newer /\ Inject(d, p).created = d.created
         /\ Inject(d, p).inc = d.inc \cup p.inc /\ Inject(d, p).occ = d.occ \cup p.occ
         /\ Inject(d, p).loc = d.loc \cup p.loc /\ Inject(d, p).torn = d.torn \ p.loc
         /\ \A x \in Inject(d, p).complete : x \in d.complete \cup p.complete
         /\ Inject(d, p).text \in [Files -> Texts \cup {Gone, NoText}]
         /\ \A f \in Files : Inject(d, p).text[f] =
              IF f \in (p.files \cap p.indexed) \ d.files THEN disk[f] ELSE d.text[f]
         /\ \A x \in Inject(d, p).undated :
              x \in d.undated \/ (x \in p.files \ d.files /\ disk[x] = Gone)
         /\ \A x \in d.hidden : x \in Inject(d, p).hidden
         /\ \A x \in (p.files \ d.files) \ p.indexed :
              disk[x] = Gone => x \in Inject(d, p).hidden
         /\ \A x \in DOMAIN p.read :
              x \notin Inject(d, p).hidden =>
                p.read[x] = Version(Inject(d, p), disk, x)
<1> DEFINE text == StoredText(d, p)
           new == p.files \ d.files
           Compared(f) == IF text[f] # NoText THEN text[f] ELSE disk[f]
<1>1. /\ Inject(d, p).files = d.files \cup p.files
      /\ Inject(d, p).indexed = d.indexed \cup p.indexed
      /\ Inject(d, p).newer = d.newer /\ Inject(d, p).created = d.created
      /\ Inject(d, p).inc = d.inc \cup p.inc /\ Inject(d, p).occ = d.occ \cup p.occ
      /\ Inject(d, p).loc = d.loc \cup p.loc /\ Inject(d, p).torn = d.torn \ p.loc
      /\ Inject(d, p).text = StoredText(d, p)
  BY DEF Inject, IsIndex, Empty
<1>2. Inject(d, p).undated = d.undated \cup {f \in new : ~Exists(f)}
  BY DEF Inject, IsIndex, Empty
<1>3. Inject(d, p).hidden =
        d.hidden \cup {f \in DOMAIN p.read : p.read[f] # Compared(f)}
          \cup {f \in new \ p.indexed : ~Exists(f)}
  BY DEF Inject, IsIndex, Empty
<1>4. /\ Inject(d, p).text \in [Files -> Texts \cup {Gone, NoText}]
      /\ \A f \in Files : Inject(d, p).text[f] =
           IF f \in (p.files \cap p.indexed) \ d.files THEN disk[f] ELSE d.text[f]
  BY <1>1 DEF StoredText
<1>5. \A x : Compared(x) = Version(Inject(d, p), disk, x)
  BY <1>1 DEF Version
<1>6. \A x \in Inject(d, p).complete : x \in d.complete \cup p.complete
  <2>1. Inject(d, p).complete = Completed(d, p)
    BY DEF Inject, IsIndex, Empty
  <2> QED
    BY <2>1 DEF Completed
<1> HIDE DEF Compared
<1> QED
  BY <1>1, <1>2, <1>3, <1>4, <1>5, <1>6 DEF Exists

\* What is known after a storage was injected was known with the same text, or is
\* known as the parser read it.
LEMMA InjectKnows ==
  ASSUME NEW d, NEW p, Rows(d, disk), IsShaped(p), disk \in [Files -> Texts \cup {Gone}]
  PROVE  /\ Rec(Inject(d, p)) = Rec(d) \cup DOMAIN p.read
         /\ \A f \in Rec(d) : Known(Inject(d, p), disk, f) =>
              Known(d, disk, f) /\ Version(Inject(d, p), disk, f) = Version(d, disk, f)
         /\ \A f \in DOMAIN p.read : Known(Inject(d, p), disk, f) =>
              p.read[f] = Version(Inject(d, p), disk, f)
<1> DEFINE i == Inject(d, p)
<1>0. IsIndex(d) /\ d.text \in [Files -> Texts \cup {Gone, NoText}]
  BY DEF Rows
<1>1. /\ i.files = d.files \cup p.files /\ i.indexed = d.indexed \cup p.indexed
      /\ i.newer = d.newer
      /\ \A f \in Files : i.text[f] =
           IF f \in (p.files \cap p.indexed) \ d.files THEN disk[f] ELSE d.text[f]
      /\ \A x \in d.hidden : x \in i.hidden
  BY <1>0, InjectFields
<1>2. \A x \in DOMAIN p.read : x \notin i.hidden => p.read[x] = Version(i, disk, x)
  BY <1>0, InjectFields
<1> HIDE DEF i
<1>3. Rec(i) = Rec(d) \cup DOMAIN p.read
  BY <1>1 DEF Rec, Rows, IsShaped
<1>4. \A f \in Rec(d) : f \in d.files /\ f \in Files
  BY DEF Rec, Rows
<1>5. ASSUME NEW f \in Rec(d), Known(i, disk, f)
      PROVE  Known(d, disk, f) /\ Version(i, disk, f) = Version(d, disk, f)
  BY <1>1, <1>4, <1>5 DEF Known, Version
<1>6. ASSUME NEW f \in DOMAIN p.read, Known(i, disk, f) PROVE p.read[f] = Version(i, disk, f)
  BY <1>2, <1>6 DEF Known
<1> QED
  BY <1>3, <1>5, <1>6 DEF i

LEMMA InjectRows ==
  ASSUME NEW d, NEW p, Rows(d, disk), IsShaped(p), disk \in [Files -> Texts \cup {Gone}]
  PROVE  Rows(Inject(d, p), disk)
<1> DEFINE i == Inject(d, p)
           A == DOMAIN p.read
<1>0. IsIndex(d) /\ d.text \in [Files -> Texts \cup {Gone, NoText}]
  BY DEF Rows
<1>1. /\ i.files = d.files \cup p.files /\ i.indexed = d.indexed \cup p.indexed
      /\ i.newer = d.newer
      /\ i.inc = d.inc \cup p.inc /\ i.occ = d.occ \cup p.occ
      /\ i.loc = d.loc \cup p.loc /\ i.torn = d.torn \ p.loc
      /\ \A x \in i.complete : x \in d.complete \cup p.complete
  BY <1>0, InjectFields
<1>2. /\ i.text \in [Files -> Texts \cup {Gone, NoText}]
      /\ \A f \in Files : i.text[f] =
           IF f \in (p.files \cap p.indexed) \ d.files THEN disk[f] ELSE d.text[f]
  BY <1>0, InjectFields
<1>3. /\ \A x \in i.undated :
           x \in d.undated \/ (x \in p.files \ d.files /\ disk[x] = Gone)
      /\ \A x \in d.hidden : x \in i.hidden
      /\ \A x \in (p.files \ d.files) \ p.indexed : disk[x] = Gone => x \in i.hidden
  BY <1>0, InjectFields
<1>4. \A x \in A : x \notin i.hidden => p.read[x] = Version(i, disk, x)
  BY <1>0, InjectFields
<1>5. IsIndex(i)
  BY <1>0, InjectKeeps DEF IsShaped
<1>6. Rec(i) = Rec(d) \cup A
  BY InjectKnows
<1> HIDE DEF i
<1>7. /\ A \subseteq Files /\ A \subseteq p.files /\ p.indexed = A \cap Contained
      /\ p.inc \subseteq A \X A /\ p.files \subseteq Files /\ p.complete \subseteq p.files
      /\ \A f \in A : p.read[f] # Gone
  <2>1. A \subseteq p.files /\ p.files \subseteq Files /\ p.complete \subseteq p.files
    BY DEF IsShaped
  <2>2. p.indexed = A \cap Contained /\ p.inc \subseteq A \X A
    BY DEF IsShaped
  <2>3. \A f \in A : p.read[f] \in DOMAIN Content[f]
    BY DEF IsShaped
  <2> HIDE DEF A
  <2> QED
    BY <2>1, <2>2, <2>3, ContentKinds
<1>8. i.inc \subseteq Rec(i) \X Rec(i)
  BY <1>1, <1>6, <1>7 DEF Rows
<1>9. i.occ \subseteq Symbols \X i.indexed
  BY <1>1 DEF Rows, IsShaped
<1>10. i.loc \cup i.torn \subseteq (Symbols \X Symbols) \X i.indexed
  BY <1>1 DEF Rows, IsShaped
<1>11. \A f \in Files : i.text[f] # NoText => f \in i.indexed
  BY <1>1, <1>2 DEF Rows
<1>12. ASSUME NEW x \in i.undated PROVE x \in i.hidden
  <2>1. CASE x \in d.undated
    BY <1>3, <2>1 DEF Rows
  <2>2. CASE x \in p.files \ d.files /\ disk[x] = Gone /\ x \in p.indexed
    <3>1. x \in A /\ x \in Files /\ p.read[x] # Gone
      BY <1>7, <2>2
    <3>2. i.text[x] = Gone
      BY <1>2, <2>2, <3>1
    <3>3. Version(i, disk, x) = Gone
      BY <2>2, <3>2 DEF Version
    <3> QED
      BY <1>4, <3>1, <3>3
  <2>3. CASE x \in p.files \ d.files /\ disk[x] = Gone /\ x \notin p.indexed
    BY <1>3, <2>3
  <2> QED
    BY <1>3, <1>12, <2>1, <2>2, <2>3
<1>13. \A f \in i.files \ i.indexed : disk[f] = Gone => f \in i.hidden
  BY <1>1, <1>3 DEF Rows
<1>14. i.files \subseteq Files /\ i.indexed \subseteq i.files \cap Contained
       /\ i.newer \subseteq i.files /\ i.complete \subseteq i.files
  BY <1>1, <1>7 DEF Rows
<1>15. Rows(i, disk)
  BY <1>2, <1>5, <1>8, <1>9, <1>10, <1>11, <1>12, <1>13, <1>14 DEF Rows
<1> QED
  BY <1>15 DEF i

LEMMA InjectDated ==
  ASSUME NEW d, NEW p, Rows(d, disk), Dated(d, disk), IsShaped(p),
         disk \in [Files -> Texts \cup {Gone}]
  PROVE  Dated(Inject(d, p), disk)
<1> DEFINE i == Inject(d, p)
<1>0. IsIndex(d) /\ d.text \in [Files -> Texts \cup {Gone, NoText}]
  BY DEF Rows
<1>1. /\ i.files = d.files \cup p.files /\ i.newer = d.newer
      /\ \A f \in Files : i.text[f] =
           IF f \in (p.files \cap p.indexed) \ d.files THEN disk[f] ELSE d.text[f]
      /\ \A x \in d.hidden : x \in i.hidden
  BY <1>0, InjectFields
<1>2. i.files \subseteq Files
  BY <1>1 DEF Rows, IsShaped
<1> HIDE DEF i
<1>3. ASSUME NEW f \in i.files \ i.hidden, i.text[f] # NoText, disk[f] # Gone, f \notin i.newer
      PROVE  i.text[f] = disk[f]
  <2>1. CASE f \in d.files
    BY <1>1, <1>2, <1>3, <2>1 DEF Dated
  <2>2. CASE f \notin d.files
    BY <1>1, <1>2, <1>3, <2>2 DEF Rows
  <2> QED
    BY <2>1, <2>2
<1> QED
  BY <1>3 DEF Dated, i

LEMMA InjectTold ==
  ASSUME NEW d, NEW p, Rows(d, disk), Told(d, disk), IsShaped(p),
         disk \in [Files -> Texts \cup {Gone}]
  PROVE  Told(Inject(d, p), disk)
<1> DEFINE i == Inject(d, p)
           A == DOMAIN p.read
<1>0. IsIndex(d) /\ d.text \in [Files -> Texts \cup {Gone, NoText}]
  BY DEF Rows
<1>1. i.inc = d.inc \cup p.inc /\ i.occ = d.occ \cup p.occ /\ i.loc = d.loc \cup p.loc
  BY <1>0, InjectFields
<1>2. /\ Rec(i) = Rec(d) \cup A
      /\ \A f \in Rec(d) : Known(i, disk, f) =>
           Known(d, disk, f) /\ Version(i, disk, f) = Version(d, disk, f)
      /\ \A f \in A : Known(i, disk, f) => p.read[f] = Version(i, disk, f)
  BY InjectKnows
<1> HIDE DEF i
<1> SUFFICES ASSUME NEW f \in Files, Known(i, disk, f)
             PROVE  /\ Version(i, disk, f) \in DOMAIN Content[f]
                    /\ \A g \in Files : <<f, g>> \in i.inc => \E c \in Said(i, disk, f) : g \in c.inc
                    /\ \A n \in Symbols : <<n, f>> \in i.occ => \E c \in Said(i, disk, f) : n \in c.decl
                    /\ \A u \in Symbols \X Symbols :
                         <<u, f>> \in i.loc => \E c \in Said(i, disk, f) : u \in c.uses
  BY DEF Told, i
<1>3. \A x : <<x, f>>[1] = x /\ <<x, f>>[2] = f /\ <<f, x>>[1] = f /\ <<f, x>>[2] = x
  OBVIOUS
<1>4. f \in Rec(d) \cup A
  BY <1>2 DEF Known
<1>5. ASSUME f \in Rec(d)
      PROVE  /\ Version(i, disk, f) \in DOMAIN Content[f]
             /\ \A g \in Files : <<f, g>> \in d.inc => \E c \in Said(i, disk, f) : g \in c.inc
             /\ \A n \in Symbols : <<n, f>> \in d.occ => \E c \in Said(i, disk, f) : n \in c.decl
             /\ \A u \in Symbols \X Symbols :
                  <<u, f>> \in d.loc => \E c \in Said(i, disk, f) : u \in c.uses
  <2>1. Known(d, disk, f) /\ Version(i, disk, f) = Version(d, disk, f)
        /\ Said(i, disk, f) = Said(d, disk, f)
    BY <1>2, <1>5 DEF Said
  <2> QED
    BY <2>1 DEF Told
<1>6. ASSUME f \notin Rec(d)
      PROVE  /\ \A g : <<f, g>> \notin d.inc /\ <<g, f>> \notin d.occ
             /\ \A u : <<u, f>> \notin d.loc
  BY <1>3, <1>6 DEF Rows, Rec
<1>7. ASSUME f \in A
      PROVE  /\ Version(i, disk, f) \in DOMAIN Content[f]
             /\ Said(i, disk, f) = Content[f][p.read[f]]
  BY <1>2, <1>7 DEF Said, IsShaped
<1>8. \A g : <<f, g>> \in p.inc => f \in A /\ \E c \in Content[f][p.read[f]] : g \in c.inc
  BY <1>3 DEF IsShaped
<1>9. \A n : <<n, f>> \in p.occ => f \in A /\ \E c \in Content[f][p.read[f]] : n \in c.decl
  BY <1>3 DEF IsShaped
<1>10. \A u : <<u, f>> \in p.loc => f \in A /\ \E c \in Content[f][p.read[f]] : u \in c.uses
  BY <1>3 DEF IsShaped
<1> HIDE DEF A
<1>11. Version(i, disk, f) \in DOMAIN Content[f]
  BY <1>4, <1>5, <1>7
<1>12. ASSUME NEW g \in Files, <<f, g>> \in i.inc PROVE \E c \in Said(i, disk, f) : g \in c.inc
  BY <1>1, <1>5, <1>6, <1>7, <1>8, <1>12
<1>13. ASSUME NEW n \in Symbols, <<n, f>> \in i.occ PROVE \E c \in Said(i, disk, f) : n \in c.decl
  BY <1>1, <1>5, <1>6, <1>7, <1>9, <1>13
<1>14. ASSUME NEW u \in Symbols \X Symbols, <<u, f>> \in i.loc
       PROVE  \E c \in Said(i, disk, f) : u \in c.uses
  BY <1>1, <1>5, <1>6, <1>7, <1>10, <1>14
<1> QED
  BY <1>11, <1>12, <1>13, <1>14

\* Injecting takes nothing away that is held, and holds what is injected.
LEMMA InjectHolds ==
  ASSUME NEW d, NEW p, IsIndex(d), d.text \in [Files -> Texts \cup {Gone, NoText}],
         disk \in [Files -> Texts \cup {Gone}]
  PROVE  /\ Holds(Inject(d, p), p)
         /\ \A q : Holds(d, q) => Holds(Inject(d, p), q)
<1>1. /\ Inject(d, p).files = d.files \cup p.files
      /\ Inject(d, p).indexed = d.indexed \cup p.indexed
      /\ Inject(d, p).inc = d.inc \cup p.inc /\ Inject(d, p).occ = d.occ \cup p.occ
      /\ Inject(d, p).loc = d.loc \cup p.loc /\ Inject(d, p).torn = d.torn \ p.loc
  BY InjectFields
<1> QED
  BY <1>1 DEF Holds

\* The one source file a storage records is backed by the disk its parser found;
\* the others are backed as they were.
LEMMA InjectBacked ==
  ASSUME SourcesApart, NEW d, NEW p, Rows(d, disk), Backed(d, disk),
         IsRecord(p, d, disk), p.files \cap Sources \cap d.files = {}, disk \in Disks
  PROVE  Backed(Inject(d, p), disk)
<1> DEFINE i == Inject(d, p)
<1>0. IsIndex(d) /\ d.text \in [Files -> Texts \cup {Gone, NoText}]
      /\ disk \in [Files -> Texts \cup {Gone}] /\ IsShaped(p)
  BY DisksAre, RecordIsShaped DEF Rows
<1>1. /\ i.indexed = d.indexed \cup p.indexed /\ i.created = d.created
      /\ \A x \in i.complete : x \in d.complete \cup p.complete
  BY <1>0, InjectFields
<1>2. Holds(i, p) /\ \A q : Holds(d, q) => Holds(i, q)
  BY <1>0, InjectHolds
<1>3. /\ \A f \in Rec(d) : Known(i, disk, f) =>
           Known(d, disk, f) /\ Version(i, disk, f) = Version(d, disk, f)
      /\ \A f \in DOMAIN p.read : Known(i, disk, f) => p.read[f] = Version(i, disk, f)
  BY <1>0, InjectKnows
<1> HIDE DEF i
<1> SUFFICES ASSUME NEW s \in Roots(i) PROVE \E r \in Disks : Backs(i, disk, s, r)
  BY DEF Backed, i
<1>4. s \in Sources /\ s \in i.indexed
  BY DEF Roots
<1>5. CASE s \in d.indexed
  <2> PICK r \in Disks : Backs(d, disk, s, r)
    BY <1>4, <1>5 DEF Backed, Roots
  <2>1. Holds(i, Recorded(s, r))
    BY <1>2 DEF Backs
  <2>2. ASSUME NEW f \in Visited(s, r) PROVE f \in Rec(d)
    <3>1. f \in Recorded(s, r).files /\ (f \in Contained => f \in Recorded(s, r).indexed)
      BY DEF Recorded
    <3> QED
      BY <3>1 DEF Backs, Holds, Rec
  <2>3. \A f \in Visited(s, r) : Known(i, disk, f) =>
          Known(d, disk, f) /\ Version(i, disk, f) = r[f]
    BY <1>3, <2>2 DEF Backs
  <2>4. i.created = {} =>
          StillMissing(s, r, disk, {f \in Visited(s, r) : Known(i, disk, f)})
    BY <1>1, <2>3 DEF Backs, StillMissing
  <2>5. s \in d.files /\ s \notin p.complete
    BY <1>0, <1>4, <1>5 DEF Rows, IsShaped
  <2>6. s \in i.complete => \A f \in Visited(s, r) : ~Unresolved(s, r, f)
    BY <1>1, <2>5 DEF Backs
  <2>7. Backs(i, disk, s, r)
    BY <2>1, <2>3, <2>4, <2>6 DEF Backs
  <2> QED
    BY <2>7
<1>6. CASE s \notin d.indexed
  <2>1. s \in p.indexed
    BY <1>1, <1>4, <1>6
  <2> PICK o \in Sources, r \in Disks :
        /\ r[o] # Gone /\ p = Recorded(o, r)
        /\ d.created = {} => StillMissing(o, r, disk, Visited(o, r))
    BY <2>1 DEF IsRecord, CrashRecord
  <2>2. o = s
    BY <1>4, <2>1, OneSource DEF Recorded
  <2>3. DOMAIN p.read = Visited(s, r) /\ \A f \in Visited(s, r) : p.read[f] = r[f]
    BY <2>2 DEF Recorded
  <2>4. \A f \in Visited(s, r) : Known(i, disk, f) => Version(i, disk, f) = r[f]
    BY <1>3, <2>3
  <2>5. i.created = {} =>
          StillMissing(s, r, disk, {f \in Visited(s, r) : Known(i, disk, f)})
    BY <1>1, <2>2 DEF StillMissing
  <2>6. s \notin d.complete
    BY <1>0, <1>4, <2>1 DEF Rows, IsShaped
  <2>7. ASSUME s \in i.complete, NEW f \in Visited(s, r), Unresolved(s, r, f) PROVE FALSE
    <3>1. s \in p.complete
      BY <1>1, <2>6, <2>7
    <3>2. p.complete = {}
      BY <2>2, <2>7 DEF Recorded
    <3> QED
      BY <3>1, <3>2
  <2>8. Backs(i, disk, s, r)
    BY <1>2, <2>2, <2>4, <2>5, <2>7 DEF Backs
  <2> QED
    BY <2>8
<1> QED
  BY <1>5, <1>6

LEMMA InjectSound ==
  ASSUME SourcesApart, NEW d, NEW p, Sound(d, disk),
         IsRecord(p, d, disk), p.files \cap Sources \cap d.files = {}, disk \in Disks
  PROVE  Sound(Inject(d, p), disk)
<1>1. /\ Rows(d, disk) /\ Dated(d, disk) /\ Told(d, disk) /\ Backed(d, disk)
      /\ IsShaped(p) /\ disk \in [Files -> Texts \cup {Gone}]
  BY DisksAre, RecordIsShaped DEF Sound
<1>2. Rows(Inject(d, p), disk) /\ Dated(Inject(d, p), disk) /\ Told(Inject(d, p), disk)
  BY <1>1, InjectRows, InjectDated, InjectTold
<1>3. Backed(Inject(d, p), disk)
  BY <1>1, InjectBacked
<1> QED
  BY <1>2, <1>3 DEF Sound
----------------------------------------------------------------------------
(* Both databases stay sound.                                              *)

LEMMA EditHonest == ASSUME Honest, Inv, NEW f \in Files, Edit(f) PROVE Honest'
<1> PICK t \in Possible(f) :
      /\ disk' = [disk EXCEPT ![f] = t] /\ \E w \in BOOLEAN : db' = Aged(db, f, t, w)
      /\ IF stage \in {"indexing", "stopping"}
           THEN \E w \in BOOLEAN : temp' = Aged(temp, f, t, w) ELSE temp' = temp
      /\ UNCHANGED <<stage, info, pending, parsed>>
  BY DEF Edit
<1>1. disk \in Disks /\ Sound(db, disk) /\ Sound(temp, disk) /\ IsIndex(db) /\ IsIndex(temp)
  BY DEF Honest, Inv
<1>2. disk \in [Files -> Texts \cup {Gone}] /\ t \in Texts \cup {Gone}
  BY <1>1, DisksAre, RefreshAssumption DEF Possible
<1>3. disk' \in Disks
  BY <1>1, <1>2 DEF Disks
<1>4. Sound(db', disk') /\ db'.files = db.files
  <2> PICK w \in BOOLEAN : db' = Aged(db, f, t, w)
    OBVIOUS
  <2>1. Sound(Aged(db, f, t, w), disk')
    BY <1>1, AgedSound
  <2> QED
    BY <1>1, <2>1, AgedKeeps
<1>5. CASE stage \in {"indexing", "stopping"}
  <2> PICK w \in BOOLEAN : temp' = Aged(temp, f, t, w)
    BY <1>5
  <2>1. Sound(Aged(temp, f, t, w), disk')
    BY <1>1, AgedSound
  <2>2. Sound(temp', disk') /\ temp'.files = temp.files
    BY <1>1, <2>1, AgedKeeps
  <2>3. temp'.created = {} => temp.created = {} /\ (Exists(f) \/ ~Wanted(temp, f))
    BY <1>1, AgedFields
  <2>4. ASSUME NEW p \in parsed PROVE IsRecord(p, temp', disk')
    <3> PICK s \in Sources :
          \/ p = CrashRecord(s)
          \/ \E r \in Disks :
               /\ r[s] # Gone /\ p = Recorded(s, r)
               /\ temp.created = {} => StillMissing(s, r, disk, Visited(s, r))
      BY DEF Honest, IsRecord
    <3>1. CASE p = CrashRecord(s)
      BY <3>1 DEF IsRecord
    <3>2. CASE \E r \in Disks :
                 /\ r[s] # Gone /\ p = Recorded(s, r)
                 /\ temp.created = {} => StillMissing(s, r, disk, Visited(s, r))
      <4> PICK r \in Disks :
            /\ r[s] # Gone /\ p = Recorded(s, r)
            /\ temp.created = {} => StillMissing(s, r, disk, Visited(s, r))
        BY <3>2
      <4>1. ASSUME temp'.created = {}, NEW g \in Visited(s, r),
                   NEW h \in Sees(s, r, g).inc, r[h] = Gone
            PROVE  disk'[h] = Gone
        <5>1. g \in Files /\ r[g] # Gone
          BY VisitedExist
        <5>2. r[g] \in Texts /\ Sees(s, r, g) \in Content[g][r[g]] /\ h \in Files
          BY <5>1, SeesKinds
        <5>3. disk[h] = Gone
          BY <2>3, <4>1 DEF StillMissing
        <5>4. g \in DOMAIN p.read /\ p.read[g] = r[g]
          BY DEF Recorded
        <5>5. r[g] \in Read(g)
          BY <5>4 DEF Read
        <5>6. Wanted(temp, h)
          BY <5>1, <5>2, <5>5 DEF Wanted
        <5>7. h # f
          BY <2>3, <4>1, <5>3, <5>6 DEF Exists
        <5> QED
          BY <1>2, <5>2, <5>3, <5>7
      <4>2. temp'.created = {} => StillMissing(s, r, disk', Visited(s, r))
        BY <4>1 DEF StillMissing
      <4> QED
        BY <4>2 DEF IsRecord
    <3> QED
      BY <3>1, <3>2
  <2>5. Apart'
    BY <1>4, <2>2 DEF Honest, Apart
  <2> QED
    BY <1>3, <1>4, <1>5, <2>2, <2>4, <2>5 DEF Honest
<1>6. CASE stage \in {"idle", "asked"}
  <2>1. temp' = Empty /\ parsed' = {} /\ temp = Empty
    BY <1>6 DEF Honest
  <2>2. Apart'
    BY <1>4, <2>1 DEF Honest, Apart
  <2> QED
    BY <1>3, <1>4, <2>1, <2>2, EmptySound DEF Honest
<1> QED
  BY <1>5, <1>6 DEF Inv

\* What is to be indexed is cleared or has no row.
LEMMA IndexIsCleared ==
  /\ UpdatedInfo.index \cap db.files \subseteq UpdatedInfo.clear
  /\ IncompleteInfo.index \cap db.files \subseteq IncompleteInfo.clear
<1>1. ASSUME NEW s \in UpdatedInfo.index, s \in db.files PROVE s \in UpdatedInfo.clear
  BY <1>1 DEF UpdatedInfo, AllSources, Changed, Contained
<1> QED
  BY <1>1 DEF IncompleteInfo

LEMMA AskHonest == ASSUME Honest, NEW m \in Modes, AskRefresh(m) PROVE Honest'
<1>1. UNCHANGED <<disk, db, temp, pending, parsed>> /\ stage = "idle"
      /\ stage' = "asked" /\ info' = RefreshInfo(m)
  BY DEF AskRefresh
<1>2. m # AllFiles =>
        RefreshInfo(m).index \cap db.files \subseteq RefreshInfo(m).clear
  BY IndexIsCleared DEF RefreshInfo, Modes, Updated, Incomplete, AllFiles
<1>3. info'.mode # AllFiles => m # AllFiles
  BY <1>1 DEF RefreshInfo, Modes, Updated, Incomplete, AllFiles
<1>4. Apart'
  BY <1>1, <1>2, <1>3 DEF Honest, Apart
<1> QED
  BY <1>1, <1>4 DEF Honest

LEMMA BuildHonest == ASSUME Honest, Inv, BuildIndex PROVE Honest'
<1>1. /\ UNCHANGED <<disk, db, info, parsed>> /\ stage = "asked" /\ stage' = "indexing"
      /\ temp' = IF info.mode = AllFiles THEN Empty ELSE Clear(db, info.clear)
      /\ pending' = info.index \cap AllSources
  BY DEF BuildIndex
<1>2. Sound(db, disk) /\ IsIndex(db) /\ parsed = {}
  BY <1>1 DEF Honest, Inv
<1>3. Sound(temp', disk)
  <2>1. CASE info.mode = AllFiles
    BY <1>1, <2>1, EmptySound
  <2>2. CASE info.mode # AllFiles
    <3>1. \A s \in Roots(db) \ info.clear : Needs(db, s) \cap info.clear = {}
      BY <1>1, <2>2 DEF Inv, Spares, Roots
    <3>2. Sound(Clear(db, info.clear), disk)
      BY <1>2, <3>1, ClearSound
    <3> QED
      BY <1>1, <2>2, <3>2
  <2> QED
    BY <2>1, <2>2
<1>4. \A s \in pending' : s \in Sources /\ s \notin temp'.files
  <2>1. CASE info.mode = AllFiles
    BY <1>1, <2>1 DEF AllSources, Empty
  <2>2. CASE info.mode # AllFiles
    <3>1. info.index \cap db.files \subseteq info.clear
      BY <1>1, <2>2 DEF Honest, Apart
    <3>2. temp'.files = db.files \ info.clear
      BY <1>1, <1>2, <2>2, ClearKeeps
    <3> QED
      BY <1>1, <3>1, <3>2 DEF AllSources
  <2> QED
    BY <2>1, <2>2
<1>5. Apart'
  BY <1>1, <1>2, <1>4 DEF Apart
<1> QED
  BY <1>1, <1>2, <1>3, <1>5 DEF Honest

\* A parser takes a source file that nobody recorded, and records no other.
LEMMA ParseHonest ==
  ASSUME SourcesApart, Honest, NEW s \in Sources, Parse(s) \/ Crash(s)
  PROVE  Honest'
<1>1. UNCHANGED <<disk, db, temp, stage, info>> /\ stage = "indexing"
      /\ s \in pending /\ pending' = pending \ {s}
  BY DEF Parse, Crash
<1>2. PICK new :
        /\ parsed' = parsed \cup new
        /\ \A p \in new : IsRecord(p, temp, disk) /\ p.files \cap Sources = {s}
        /\ \A p \in new, q \in new : p = q
  <2>1. CASE Parse(s) /\ Exists(s)
    <3>1. parsed' = parsed \cup {Recorded(s, disk)} /\ disk[s] # Gone /\ disk \in Disks
      BY <2>1 DEF Parse, Exists, Honest
    <3>2. StillMissing(s, disk, disk, Visited(s, disk))
      BY DEF StillMissing
    <3>3. IsRecord(Recorded(s, disk), temp, disk)
      BY <3>1, <3>2 DEF IsRecord
    <3>4. Recorded(s, disk).files \cap Sources = {s}
      BY <3>1, OneSource DEF Recorded
    <3> DEFINE new == {Recorded(s, disk)}
    <3>5. /\ parsed' = parsed \cup new
          /\ \A p \in new : IsRecord(p, temp, disk) /\ p.files \cap Sources = {s}
          /\ \A p \in new, q \in new : p = q
      BY <3>1, <3>3, <3>4
    <3> HIDE DEF new
    <3> QED
      BY <3>5
  <2>2. CASE Parse(s) /\ ~Exists(s)
    <3>1. parsed' = parsed
      BY <2>2 DEF Parse
    <3> DEFINE new == {}
    <3>2. /\ parsed' = parsed \cup new
          /\ \A p \in new : IsRecord(p, temp, disk) /\ p.files \cap Sources = {s}
          /\ \A p \in new, q \in new : p = q
      BY <3>1
    <3> HIDE DEF new
    <3> QED
      BY <3>2
  <2>3. CASE Crash(s)
    <3>1. parsed' = parsed \cup {CrashRecord(s)}
      BY <2>3 DEF Crash
    <3>2. IsRecord(CrashRecord(s), temp, disk)
      BY DEF IsRecord
    <3>3. CrashRecord(s).files \cap Sources = {s}
      BY DEF CrashRecord
    <3> DEFINE new == {CrashRecord(s)}
    <3>4. /\ parsed' = parsed \cup new
          /\ \A p \in new : IsRecord(p, temp, disk) /\ p.files \cap Sources = {s}
          /\ \A p \in new, q \in new : p = q
      BY <3>1, <3>2, <3>3
    <3> HIDE DEF new
    <3> QED
      BY <3>4
  <2> QED
    BY <2>1, <2>2, <2>3
<1>3. Apart'
  <2>1. s \notin temp.files /\ \A p \in parsed : s \notin p.files
    BY <1>1 DEF Honest, Apart
  <2>2. \A r \in pending' : r \in Sources /\ r # s /\ r \in pending
    BY <1>1 DEF Honest, Apart
  <2>3. \A r \in pending' : r \notin temp'.files /\ \A p \in parsed' : r \notin p.files
    BY <1>1, <1>2, <2>2 DEF Honest, Apart
  <2>4. \A p \in parsed' : p.files \cap Sources \cap temp'.files = {}
    BY <1>1, <1>2, <2>1 DEF Honest, Apart
  <2>5. ASSUME NEW p \in parsed', NEW q \in parsed', p # q
        PROVE  p.files \cap q.files \cap Sources = {}
    <3>1. CASE p \in parsed /\ q \in parsed
      BY <2>5, <3>1 DEF Honest, Apart
    <3>2. CASE p \in new \/ q \in new
      BY <1>2, <2>1, <2>5, <3>2
    <3> QED
      BY <1>2, <3>1, <3>2
  <2> QED
    BY <1>1, <2>2, <2>3, <2>4, <2>5 DEF Apart
<1>4. \A p \in parsed' : IsRecord(p, temp, disk)
  BY <1>2 DEF Honest
<1> QED
  BY <1>1, <1>3, <1>4 DEF Honest

LEMMA InjectHonest == ASSUME SourcesApart, Honest, InjectStorage PROVE Honest'
<1> PICK p \in parsed : /\ temp' = Inject(temp, p) /\ parsed' = parsed \ {p}
                        /\ UNCHANGED <<disk, db, stage, info, pending>>
  BY DEF InjectStorage
<1>1. /\ stage \notin {"idle", "asked"} /\ Sound(temp, disk) /\ disk \in Disks
      /\ IsRecord(p, temp, disk) /\ p.files \cap Sources \cap temp.files = {}
  BY DEF Honest, Apart
<1>2. Sound(Inject(temp, p), disk)
  BY <1>1, InjectSound
<1>3. IsIndex(temp) /\ temp.text \in [Files -> Texts \cup {Gone, NoText}]
      /\ disk \in [Files -> Texts \cup {Gone}]
  BY <1>1, DisksAre DEF Sound, Rows
<1>4. temp'.created = temp.created /\ temp'.files = temp.files \cup p.files
  BY <1>3, InjectFields
<1>5. Apart'
  <2>1. \A r \in pending : r \in Sources /\ r \notin temp'.files
    BY <1>4 DEF Honest, Apart
  <2>2. \A q \in parsed' : q.files \cap Sources \cap temp'.files = {}
    BY <1>4 DEF Honest, Apart
  <2>3. \A r \in pending : \A q \in parsed' : r \notin q.files
    BY DEF Honest, Apart
  <2>4. \A q \in parsed', r \in parsed' : q # r => q.files \cap r.files \cap Sources = {}
    BY DEF Honest, Apart
  <2> QED
    BY <1>1, <2>1, <2>2, <2>3, <2>4 DEF Apart
<1>6. \A q \in parsed' : IsRecord(q, temp', disk')
  BY <1>4 DEF Honest, IsRecord
<1> QED
  BY <1>1, <1>2, <1>5, <1>6 DEF Honest

LEMMA RestHonest ==
  ASSUME Honest, Cancel \/ NothingToDo \/ Interrupt \/ Finish
  PROVE  Honest'
<1>1. CASE Cancel \/ NothingToDo
  <2>1. UNCHANGED <<disk, db, temp, pending, parsed>> /\ stage = "asked" /\ stage' = "idle"
    BY <1>1 DEF Cancel, NothingToDo
  <2>2. Apart'
    BY <2>1 DEF Honest, Apart
  <2> QED
    BY <2>1, <2>2 DEF Honest
<1>2. CASE Interrupt
  <2>1. UNCHANGED <<disk, db, temp, info>> /\ stage' = "stopping" /\ parsed' \subseteq parsed
        /\ pending' = {}
    BY <1>2 DEF Interrupt
  <2>2. Apart'
    BY <2>1 DEF Honest, Apart
  <2> QED
    BY <2>1, <2>2 DEF Honest
<1>3. CASE Finish
  <2>1. UNCHANGED disk /\ db' \in {db, temp} /\ temp' = Empty /\ parsed' = {}
        /\ pending' = {} /\ stage' = "idle"
    BY <1>3 DEF Finish
  <2>2. Sound(db', disk') /\ Sound(temp', disk')
    BY <2>1, EmptySound DEF Honest
  <2>3. Apart'
    BY <2>1 DEF Apart
  <2> QED
    BY <2>1, <2>2, <2>3 DEF Honest
<1> QED
  BY <1>1, <1>2, <1>3

LEMMA NextHonest == ASSUME SourcesApart, Honest, Inv, [Next]_vars PROVE Honest'
<1>1. CASE UNCHANGED vars
  BY <1>1 DEF vars, Honest, Apart
<1>2. CASE Next
  BY <1>2, EditHonest, AskHonest, BuildHonest, InjectHonest, ParseHonest, RestHonest DEF Next
<1> QED
  BY <1>1, <1>2

LEMMA InitHonest == Init => Honest
<1> SUFFICES ASSUME Init PROVE Honest
  OBVIOUS
<1>1. disk \in Disks
  BY RefreshAssumption DEF Init
<1>2. Apart
  BY DEF Init, Apart
<1> QED
  BY <1>1, <1>2, EmptySound DEF Init, Honest
----------------------------------------------------------------------------
(* What makes an index accurate.                                           *)

\* A recorded file that exists and did not change is known as it is on disk.
LEMMA UnchangedIsKnown ==
  ASSUME NEW d, Rows(d, disk), Dated(d, disk), d.hidden = {},
         disk \in [Files -> Texts \cup {Gone}],
         NEW f \in Rec(d) \ ChangedIn(d), Exists(f)
  PROVE  /\ Known(d, disk, f) /\ Version(d, disk, f) = disk[f]
         /\ Said(d, disk, f) = Content[f][disk[f]] /\ f \in Files
<1>1. f \in d.files /\ f \in Files
  BY DEF Rows, Rec
<1>2. f \notin d.newer \/ disk[f] = d.text[f]
  BY <1>1 DEF ChangedIn
<1>3. disk[f] # NoText /\ disk[f] # Gone
  BY <1>1, RefreshAssumption DEF Exists, Gone, NoText
<1>4. d.text[f] # NoText => d.text[f] = disk[f]
  BY <1>1, <1>2, <1>3 DEF Dated
<1> QED
  BY <1>1, <1>2, <1>3, <1>4 DEF Known, Version, Said

\* A recorded file that did not change is there.
LEMMA UnchangedExists ==
  ASSUME NEW d, Rows(d, disk), d.hidden = {}, NEW f \in Rec(d) \ ChangedIn(d)
  PROVE  Exists(f)
<1>1. f \in d.files
  BY DEF Rows, Rec
<1>2. CASE f \in d.indexed
  BY <1>1, <1>2 DEF ChangedIn
<1>3. CASE f \notin d.indexed
  BY <1>1, <1>3 DEF Rows, Exists
<1> QED
  BY <1>2, <1>3

\* Two disks that agree on what a parser comes by, and on what it misses, are
\* recorded alike: macros and includes follow from these files.
LEMMA SameView ==
  ASSUME NEW s \in Sources, NEW r \in Disks, NEW k \in Disks, r[s] # Gone,
         \A f \in Visited(s, r) : k[f] = r[f],
         StillMissing(s, r, k, Visited(s, r))
  PROVE  /\ Visited(s, k) = Visited(s, r)
         /\ \A d : Holds(d, Recorded(s, r)) => Holds(d, Recorded(s, k))
<1> DEFINE V == Visited(s, r)
<1>1. \A f \in V : f \in Files /\ r[f] # Gone /\ k[f] # Gone
  BY VisitedExist
<1>2. s \in V /\ \A f \in V : k[f] = r[f]
  BY VisitedExist
<1>3. \A f \in V : Sees(s, k, f) = Sees(s, r, f)
  <2>1. \A f \in V : k[f] = r[f] /\ \A g \in Sees(s, r, f).inc : r[g] = Gone => k[g] = Gone
    BY DEF StillMissing
  <2> QED
    BY <2>1, SeesAssumption
<1>4. \A e \in Edges(s, r) : e[1] \in V => e[2] \in V
  BY FollowingCloses DEF Visited
<1>5. ASSUME NEW e, e[1] \in V PROVE e \in Edges(s, r) <=> e \in Edges(s, k)
  <2>1. ASSUME e \in Edges(s, r) PROVE e \in Edges(s, k)
    BY <1>1, <1>3, <1>4, <1>5, <2>1 DEF Edges
  <2>2. ASSUME e \in Edges(s, k) PROVE e \in Edges(s, r)
    <3>1. e \in Files \X Files /\ k[e[2]] # Gone /\ e[2] \in Sees(s, k, e[1]).inc
      BY <2>2 DEF Edges
    <3>2. e[2] \in Sees(s, r, e[1]).inc /\ r[e[2]] # Gone
      BY <1>3, <1>5, <3>1 DEF StillMissing
    <3> QED
      BY <1>1, <1>5, <3>1, <3>2 DEF Edges
  <2> QED
    BY <2>1, <2>2
<1>6. ASSUME NEW f \in Visited(s, k) PROVE f \in V
  <2>1. \A e \in Edges(s, k) : e[1] \in {s} \cup V => e[2] \in V
    BY <1>2, <1>4, <1>5
  <2> HIDE DEF V
  <2>2. Following({s}, Edges(s, k)) \subseteq V
    BY <2>1, FollowingIsLeast
  <2> QED
    BY <1>2, <2>2 DEF Visited
<1>7. ASSUME NEW f \in V PROVE f \in Visited(s, k)
  <2> DEFINE W == Following({s}, Edges(s, k)) \cap V
  <2>1. ASSUME NEW e \in Edges(s, r), e[1] \in {s} \cup W PROVE e[2] \in W
    <3>1. e[1] \in V /\ e[2] \in V
      BY <1>2, <1>4, <2>1
    <3>2. e \in Edges(s, k)
      BY <1>5, <3>1
    <3>3. e[1] \in {s} \cup Following({s}, Edges(s, k))
      BY <2>1
    <3> HIDE DEF V
    <3>4. e[2] \in Following({s}, Edges(s, k))
      BY <3>2, <3>3, FollowingCloses
    <3> QED
      BY <3>1, <3>4
  <2>2. Following({s}, Edges(s, r)) \subseteq W
    <3> HIDE DEF W
    <3> QED
      BY <2>1, FollowingIsLeast
  <2> QED
    BY <2>2 DEF Visited
<1>8. Visited(s, k) = V
  BY <1>6, <1>7
<1>9. /\ Recorded(s, k).files = Recorded(s, r).files
      /\ Recorded(s, k).indexed = Recorded(s, r).indexed
  BY <1>8 DEF Recorded
<1>10. Recorded(s, k).inc = Recorded(s, r).inc
  <2>1. /\ Recorded(s, k).inc = {e \in Edges(s, k) : e[1] \in V}
        /\ Recorded(s, r).inc = {e \in Edges(s, r) : e[1] \in V}
    BY <1>8 DEF Recorded
  <2> HIDE DEF V
  <2> QED
    BY <1>5, <2>1
<1>11. Recorded(s, k).occ = Recorded(s, r).occ
  <2>1. /\ Recorded(s, k).occ = {o \in Symbols \X (V \cap Contained) : o[1] \in Sees(s, k, o[2]).decl}
        /\ Recorded(s, r).occ = {o \in Symbols \X (V \cap Contained) : o[1] \in Sees(s, r, o[2]).decl}
    BY <1>8 DEF Recorded
  <2> HIDE DEF V
  <2>2. \A o \in Symbols \X (V \cap Contained) : Sees(s, k, o[2]) = Sees(s, r, o[2])
    BY <1>3
  <2> QED
    BY <2>1, <2>2
<1>12. Recorded(s, k).loc = Recorded(s, r).loc
  <2>1. /\ Recorded(s, k).loc = {l \in (Symbols \X Symbols) \X (V \cap Contained) :
                                   l[1] \in Sees(s, k, l[2]).uses}
        /\ Recorded(s, r).loc = {l \in (Symbols \X Symbols) \X (V \cap Contained) :
                                   l[1] \in Sees(s, r, l[2]).uses}
    BY <1>8 DEF Recorded
  <2> HIDE DEF V
  <2>2. \A l \in (Symbols \X Symbols) \X (V \cap Contained) : Sees(s, k, l[2]) = Sees(s, r, l[2])
    BY <1>3
  <2> QED
    BY <2>1, <2>2
<1> QED
  BY <1>8, <1>9, <1>10, <1>11, <1>12 DEF Holds

\* A source file whose files did not change is recorded as it is now, if none of
\* those it missed came into being or it missed none.
LEMMA BackedIsRead ==
  ASSUME NEW d, Sound(d, disk), d.hidden = {}, disk \in Disks,
         NEW s \in AllSources, s \in d.indexed,
         Needs(d, s) \cap ChangedIn(d) = {},
         d.created = {} \/ s \in d.complete
  PROVE  Holds(d, Recorded(s, disk)) /\ Visited(s, disk) \cap ChangedIn(d) = {}
<1>1. /\ Rows(d, disk) /\ Dated(d, disk) /\ Backed(d, disk)
      /\ disk \in [Files -> Texts \cup {Gone}] /\ s \in Sources
  BY DisksAre DEF Sound, AllSources
<1> PICK r \in Disks : Backs(d, disk, s, r)
  BY <1>1 DEF Backed, Roots
<1>2. Visited(s, r) \cap ChangedIn(d) = {}
  BY HeldIsNeeded DEF Backs
<1>3. ASSUME NEW f \in Visited(s, r) PROVE Known(d, disk, f) /\ disk[f] = r[f]
  <2>1. f \in Recorded(s, r).files /\ (f \in Contained => f \in Recorded(s, r).indexed)
    BY DEF Recorded
  <2>2. f \in Rec(d) \ ChangedIn(d)
    BY <1>2, <2>1 DEF Backs, Holds, Rec
  <2>3. Exists(f)
    BY <1>1, <2>2, UnchangedExists
  <2>4. Known(d, disk, f) /\ Version(d, disk, f) = disk[f]
    BY <1>1, <2>2, <2>3, UnchangedIsKnown
  <2> QED
    BY <2>4 DEF Backs
<1>4. StillMissing(s, r, disk, Visited(s, r))
  <2>1. CASE d.created = {}
    BY <1>3, <2>1 DEF Backs, StillMissing
  <2>2. CASE s \in d.complete
    BY <2>2 DEF Backs, StillMissing, Unresolved
  <2> QED
    BY <2>1, <2>2
<1>5. r[s] # Gone /\ Holds(d, Recorded(s, r))
  BY DEF Backs
<1>6. Visited(s, disk) = Visited(s, r)
      /\ \A x : Holds(x, Recorded(s, r)) => Holds(x, Recorded(s, disk))
  BY <1>1, <1>3, <1>4, <1>5, SameView
<1> QED
  BY <1>2, <1>5, <1>6

\* An index is accurate that has what the parsers would record of unchanged files:
\* what else it says of them is what their texts may say.
LEMMA ReadIsAccurate ==
  ASSUME NEW d, Sound(d, disk), d.hidden = {}, disk \in Disks,
         \A s \in AllSources :
           Holds(d, Recorded(s, disk)) /\ Visited(s, disk) \cap ChangedIn(d) = {}
  PROVE  IsAccurate(d)
<1>1. /\ Rows(d, disk) /\ Dated(d, disk) /\ Told(d, disk)
      /\ disk \in [Files -> Texts \cup {Gone}]
  BY DisksAre DEF Sound
<1>2. /\ Full.files = UNION {Recorded(s, disk).files : s \in AllSources}
      /\ Full.indexed = UNION {Recorded(s, disk).indexed : s \in AllSources}
      /\ Full.inc = UNION {Recorded(s, disk).inc : s \in AllSources}
      /\ Full.occ = UNION {Recorded(s, disk).occ : s \in AllSources}
      /\ Full.loc = UNION {Recorded(s, disk).loc : s \in AllSources}
  BY DEF Full
<1>3. \A s \in AllSources :
        /\ Recorded(s, disk).files \subseteq d.files
        /\ Recorded(s, disk).indexed \subseteq d.indexed
        /\ Recorded(s, disk).inc \subseteq d.inc /\ Recorded(s, disk).occ \subseteq d.occ
        /\ Recorded(s, disk).loc \subseteq d.loc \cup d.torn
  BY DEF Holds
<1>4. /\ Full.files \subseteq d.files /\ Full.indexed \subseteq d.indexed
      /\ Full.inc \subseteq d.inc /\ Full.occ \subseteq d.occ
      /\ Full.loc \subseteq d.loc \cup d.torn
  BY <1>2, <1>3
<1>5. ASSUME NEW f \in Full.files
      PROVE  /\ \A e \in d.inc : e[1] = f => \E c \in Content[f][disk[f]] : e[2] \in c.inc
             /\ \A o \in d.occ : o[2] = f => \E c \in Content[f][disk[f]] : o[1] \in c.decl
             /\ \A l \in d.loc : l[2] = f => \E c \in Content[f][disk[f]] : l[1] \in c.uses
  <2>1. PICK s \in AllSources : f \in Recorded(s, disk).files
    BY <1>2
  <2>2. /\ f \in Visited(s, disk) /\ (f \in Contained => f \in Recorded(s, disk).indexed)
    BY <2>1 DEF Recorded
  <2>3. f \in Rec(d) \ ChangedIn(d)
    BY <1>3, <2>1, <2>2 DEF Rec
  <2>4. Exists(f)
    BY <1>1, <2>3, UnchangedExists
  <2>5. Known(d, disk, f) /\ Said(d, disk, f) = Content[f][disk[f]] /\ f \in Files
    BY <1>1, <2>3, <2>4, UnchangedIsKnown
  <2>6. \A e \in d.inc : e = <<e[1], e[2]>> /\ e[2] \in Files
    BY <1>1 DEF Rows, Rec
  <2>7. \A o \in d.occ : o = <<o[1], o[2]>> /\ o[1] \in Symbols
    BY <1>1 DEF Rows
  <2>8. \A l \in d.loc : l = <<l[1], l[2]>> /\ l[1] \in Symbols \X Symbols
    BY <1>1 DEF Rows
  <2>9. /\ \A g \in Files : <<f, g>> \in d.inc => \E c \in Content[f][disk[f]] : g \in c.inc
        /\ \A n \in Symbols : <<n, f>> \in d.occ => \E c \in Content[f][disk[f]] : n \in c.decl
        /\ \A u \in Symbols \X Symbols :
             <<u, f>> \in d.loc => \E c \in Content[f][disk[f]] : u \in c.uses
    BY <1>1, <2>5 DEF Told
  <2> QED
    BY <2>6, <2>7, <2>8, <2>9
<1> QED
  BY <1>4, <1>5 DEF IsAccurate
----------------------------------------------------------------------------
(* A sound index with nothing to refresh is accurate.                      *)

LEMMA ChangedThere == Changed = ChangedIn(db)
BY DEF Changed, ChangedIn, DidFileChange

\* With nothing to refresh, all source files are indexed and did not change.
LEMMA NothingIsUnchanged ==
  ASSUME NothingToRefresh(UpdatedInfo), NEW s \in AllSources
  PROVE  s \in db.indexed /\ s \notin Changed \cup Referencing(db, Changed)
<1>1. s \notin UpdatedInfo.index
  BY DEF NothingToRefresh
<1> QED
  BY <1>1, RestIsIndexed DEF UpdatedInfo

LEMMA SoundIsAccurate ==
  ASSUME Sound(db, disk), disk \in Disks,
         db.hidden = {}, db.created = {}, NothingToRefresh(UpdatedInfo)
  PROVE  IsAccurate(db)
<1> DEFINE affected == Changed \cup Referencing(db, Changed)
<1>1. \A e \in db.inc : e[2] \in affected => e[1] \in affected
  BY ReferencingCloses
<1>2. ASSUME NEW s \in AllSources
      PROVE  Holds(db, Recorded(s, disk)) /\ Visited(s, disk) \cap ChangedIn(db) = {}
  <2>1. s \in db.indexed /\ s \notin affected
    BY NothingIsUnchanged
  <2>2. Needs(db, s) \cap affected = {}
    <3> HIDE DEF affected
    <3> QED
      BY <1>1, <2>1, OutsideStaysOutside DEF Needs
  <2>3. Needs(db, s) \cap ChangedIn(db) = {}
    BY <2>2, ChangedThere
  <2> QED
    BY <2>1, <2>3, BackedIsRead
<1> QED
  BY <1>2, ReadIsAccurate

\* When there is nothing to refresh the index has what a full one would have, and
\* says of the files in use what their texts may say, for any files, contents and
\* macros, whatever was edited, removed, interrupted or crashed before and during
\* whatever refreshes; unless a change is hidden, a missing file came into being
\* or a source file is included.
THEOREM NothingToRefreshHolds == Spec => []NothingToRefreshIsTrue
<1>1. CASE SourcesApart
  <2>1. Init => Inv /\ Honest
    BY InitInv, InitHonest
  <2>2. Inv /\ Honest /\ [Next]_vars => (Inv /\ Honest)'
    BY <1>1, NextInv, NextHonest
  <2>3. Honest => NothingToRefreshIsTrue
    BY SoundIsAccurate DEF Honest, NothingToRefreshIsTrue
  <2> QED
    BY <2>1, <2>2, <2>3, PTL DEF Spec
<1>2. CASE ~SourcesApart
  <2>1. NothingToRefreshIsTrue
    BY <1>2 DEF NothingToRefreshIsTrue
  <2> QED
    BY <2>1, PTL
<1> QED
  BY <1>1, <1>2
----------------------------------------------------------------------------
(* A thorough refresh is accurate.                                         *)

\* Until the end of a thorough refresh each source file waits for a parser, was
\* parsed as it is now, or is recorded in the copy so.
ReadAgain ==
  stage = "indexing" /\ quiet \in {Incomplete, AllFiles} /\ temp.hidden = {} =>
    \A s \in AllSources :
      s \in pending \/ Recorded(s, disk) \in parsed \/ Holds(temp, Recorded(s, disk))

\* An index that says nothing else than a full one.
IsPure(d) ==
  /\ d.files \subseteq Full.files /\ d.indexed \subseteq Full.indexed
  /\ d.inc \subseteq Full.inc /\ d.occ \subseteq Full.occ
  /\ d.loc \subseteq Full.loc /\ d.torn = {}

Pure == stage = "indexing" /\ quiet = AllFiles => IsPure(temp)

Thorough == ReadAgain /\ Pure /\ ThoroughRefreshIsAccurate

All == Inv /\ Honest /\ Calm /\ Thorough

\* A source file that a refresh of incomplete files leaves alone leads to complete
\* files that stay.
LEMMA LeftIsWhole ==
  ASSUME Rows(db, disk), NEW s \in AllSources, s \notin IncompleteInfo.index
  PROVE  /\ s \in db.indexed /\ s \notin IncompleteInfo.clear /\ s \in db.complete
         /\ Needs(db, s) \cap IncompleteInfo.clear = {}
<1> DEFINE incomplete == db.files \ (db.complete \cup UpdatedInfo.clear)
           more == incomplete \cup Referencing(db, incomplete)
<1>1. IncompleteInfo.clear = UpdatedInfo.clear \cup more
      /\ IncompleteInfo.index = UpdatedInfo.index \cup (AllSources \cap more)
  BY DEF IncompleteInfo
<1>2. s \notin UpdatedInfo.index /\ s \notin more
  BY <1>1
<1>3. s \in db.indexed
  BY <1>2, RestIsIndexed
<1>4. s \notin UpdatedInfo.clear
  BY <1>2 DEF UpdatedInfo
<1>5. s \notin IncompleteInfo.clear
  BY <1>1, <1>2, <1>4
<1>6. Needs(db, s) \cap IncompleteInfo.clear = {}
  BY <1>3, <1>5, IncompleteKeeps DEF Rows, IsIndex, AllSources
<1>7. s \in db.complete
  BY <1>2, <1>3, <1>4 DEF Rows
<1> QED
  BY <1>3, <1>5, <1>6, <1>7

\* What a full index is depends on the disk only.
LEMMA FullStays ==
  ASSUME UNCHANGED disk
  PROVE  /\ Full' = Full /\ AllSources' = AllSources
         /\ \A s : Recorded(s, disk)' = Recorded(s, disk)
<1>1. AllSources' = AllSources
  BY DEF AllSources, Exists
<1>2. \A s : Recorded(s, disk)' = Recorded(s, disk)
  BY DEF Recorded, Visited, Edges, Unresolved
<1>3. {Recorded(s, disk) : s \in AllSources}' = {Recorded(s, disk) : s \in AllSources}
  BY <1>1, <1>2
<1>4. Full' = Full
  BY <1>3 DEF Full
<1> QED
  BY <1>1, <1>2, <1>4

LEMMA InitThorough == Init => Thorough
BY DEF Init, Thorough, ReadAgain, Pure, ThoroughRefreshIsAccurate,
       Disturbed, Incomplete, AllFiles

LEMMA DisturbedThorough ==
  ASSUME quiet' = Disturbed
  PROVE  Thorough'
BY DEF Thorough, ReadAgain, Pure, ThoroughRefreshIsAccurate, Disturbed, Incomplete, AllFiles

\* Nothing to do in incomplete files means that no source file missed anything.
LEMMA NothingThorough == ASSUME All, NothingToDo PROVE Thorough'
<1>1. /\ UNCHANGED <<disk, db, quiet>>
      /\ stage = "asked" /\ stage' = "idle" /\ NothingToRefresh(info)
  BY DEF NothingToDo
<1>2. ASSUME quiet \in {Incomplete, AllFiles}
      PROVE  info = IncompleteInfo /\ quiet = Incomplete
  <2>1. info = RefreshInfo(quiet)
    BY <1>1, <1>2 DEF All, Calm, Disturbed, Incomplete, AllFiles
  <2> QED
    BY <1>1, <1>2, <2>1 DEF RefreshInfo, NothingToRefresh, Updated, Incomplete, AllFiles
<1>3. ASSUME quiet \in {Incomplete, AllFiles}, db.hidden = {}
      PROVE  IsAccurate(db)
  <2>1. Sound(db, disk) /\ Rows(db, disk) /\ disk \in Disks
    BY DEF All, Honest, Sound
  <2>2. ASSUME NEW s \in AllSources
        PROVE  Holds(db, Recorded(s, disk)) /\ Visited(s, disk) \cap ChangedIn(db) = {}
    <3>1. s \notin IncompleteInfo.index
      BY <1>1, <1>2, <1>3 DEF NothingToRefresh
    <3>2. Changed \subseteq IncompleteInfo.clear
      BY DEF IncompleteInfo, UpdatedInfo
    <3>3. s \in db.indexed /\ s \in db.complete /\ Needs(db, s) \cap ChangedIn(db) = {}
      BY <2>1, <3>1, <3>2, LeftIsWhole, ChangedThere
    <3> QED
      BY <1>3, <2>1, <3>3, BackedIsRead
  <2> QED
    BY <1>3, <2>1, <2>2, ReadIsAccurate
<1>4. Full' = Full /\ AllFiles # Incomplete
  BY <1>1, FullStays DEF AllFiles, Incomplete
<1>5. ThoroughRefreshIsAccurate'
  BY <1>1, <1>2, <1>3, <1>4 DEF ThoroughRefreshIsAccurate, IsAccurate
<1> QED
  BY <1>1, <1>5 DEF Thorough, ReadAgain, Pure

LEMMA AskThorough == ASSUME All, NEW m \in Modes, AskRefresh(m) PROVE Thorough'
BY DEF AskRefresh, Thorough, ReadAgain, Pure, ThoroughRefreshIsAccurate

\* A source file that is left alone is recorded as it is; a refresh of all files
\* starts from an empty index and parses all.
LEMMA BuildThorough == ASSUME All, BuildIndex PROVE Thorough'
<1>1. /\ UNCHANGED <<disk, db, info, parsed, quiet>>
      /\ stage = "asked" /\ stage' = "indexing"
      /\ temp' = IF info.mode = AllFiles THEN Empty ELSE Clear(db, info.clear)
      /\ pending' = info.index \cap AllSources
  BY DEF BuildIndex
<1>2. Rows(db, disk) /\ IsIndex(db) /\ disk \in Disks
  BY DEF All, Honest, Sound, Rows
<1>3. Sound(temp', disk)
  BY <1>1, BuildHonest DEF All, Honest
<1>4. Full' = Full /\ AllSources' = AllSources
      /\ \A s : Recorded(s, disk)' = Recorded(s, disk)
  BY <1>1, FullStays
<1>5. quiet \in {Incomplete, AllFiles} => info = RefreshInfo(quiet)
  BY <1>1 DEF All, Calm, Disturbed, Incomplete, AllFiles
<1>6. ASSUME quiet = AllFiles PROVE temp' = Empty /\ pending' = AllSources
  BY <1>1, <1>5, <1>6 DEF RefreshInfo, Updated, Incomplete, AllFiles
<1>7. ASSUME quiet = Incomplete, temp'.hidden = {}, NEW s \in AllSources, s \notin pending'
      PROVE  Holds(temp', Recorded(s, disk))
  <2>1. info = IncompleteInfo /\ info.mode # AllFiles
    BY <1>5, <1>7 DEF RefreshInfo, IncompleteInfo, Updated, Incomplete, AllFiles
  <2>2. temp' = Clear(db, info.clear) /\ s \notin IncompleteInfo.index
    BY <1>1, <1>7, <2>1
  <2>3. s \in db.indexed /\ s \notin info.clear /\ s \in db.complete
    BY <1>2, <2>1, <2>2, LeftIsWhole
  <2>4. s \in temp'.indexed /\ s \in temp'.complete
    BY <1>2, <2>2, <2>3, ClearFields DEF Rows
  <2>5. ChangedIn(temp') = {}
    <3>1. Changed \subseteq info.clear
      BY <2>1 DEF IncompleteInfo, UpdatedInfo
    <3> QED
      BY <2>2, <3>1, ClearUnchanged DEF All, Calm
  <2>6. Needs(temp', s) \cap ChangedIn(temp') = {}
    BY <2>5
  <2> QED
    BY <1>2, <1>3, <1>7, <2>4, <2>6, BackedIsRead
<1>8. ReadAgain'
  <2>1. ASSUME quiet' \in {Incomplete, AllFiles}, temp'.hidden = {}, NEW s \in AllSources
        PROVE  s \in pending' \/ Holds(temp', Recorded(s, disk))
    BY <1>1, <1>6, <1>7, <2>1
  <2>2. \A s \in AllSources : Holds(temp', Recorded(s, disk)) => Holds(temp, Recorded(s, disk))'
    BY <1>4 DEF Holds
  <2> QED
    BY <1>4, <2>1, <2>2 DEF ReadAgain
<1>9. Pure'
  <2>1. IsPure(Empty)
    BY DEF Empty, IsPure
  <2> QED
    BY <1>1, <1>4, <1>6, <2>1 DEF Pure, IsPure
<1> QED
  BY <1>1, <1>8, <1>9 DEF Thorough, ThoroughRefreshIsAccurate

LEMMA ParseThorough == ASSUME All, NEW s \in Sources, Parse(s) PROVE Thorough'
<1>1. UNCHANGED <<disk, db, temp, stage, info, quiet>> /\ stage = "indexing"
      /\ pending' = pending \ {s}
      /\ parsed' = IF Exists(s) THEN parsed \cup {Recorded(s, disk)} ELSE parsed
  BY DEF Parse
<1>2. Full' = Full /\ AllSources' = AllSources
      /\ \A r : Recorded(r, disk)' = Recorded(r, disk)
  BY <1>1, FullStays
<1>3. ASSUME quiet \in {Incomplete, AllFiles}, temp.hidden = {}, NEW r \in AllSources
      PROVE  r \in pending' \/ Recorded(r, disk) \in parsed' \/ Holds(temp, Recorded(r, disk))
  <2>1. r \in pending \/ Recorded(r, disk) \in parsed \/ Holds(temp, Recorded(r, disk))
    BY <1>1, <1>3 DEF All, Thorough, ReadAgain
  <2> QED
    BY <1>1, <2>1 DEF AllSources
<1>4. ReadAgain'
  <2>1. \A r \in AllSources : Holds(temp, Recorded(r, disk)) => Holds(temp, Recorded(r, disk))'
    BY <1>1, <1>2 DEF Holds
  <2> QED
    BY <1>1, <1>2, <1>3, <2>1 DEF ReadAgain
<1>5. Pure'
  BY <1>1, <1>2 DEF All, Thorough, Pure, IsPure
<1> QED
  BY <1>1, <1>4, <1>5 DEF Thorough, ThoroughRefreshIsAccurate

LEMMA InjectThorough == ASSUME All, InjectStorage PROVE Thorough'
<1> PICK p \in parsed : /\ temp' = Inject(temp, p) /\ parsed' = parsed \ {p}
                        /\ UNCHANGED <<disk, db, stage, info, pending, quiet>>
  BY DEF InjectStorage
<1>1. IsIndex(temp) /\ temp.text \in [Files -> Texts \cup {Gone, NoText}]
      /\ disk \in [Files -> Texts \cup {Gone}]
  BY DisksAre DEF All, Honest, Sound, Rows
<1>2. /\ temp'.files = temp.files \cup p.files /\ temp'.indexed = temp.indexed \cup p.indexed
      /\ temp'.inc = temp.inc \cup p.inc /\ temp'.occ = temp.occ \cup p.occ
      /\ temp'.loc = temp.loc \cup p.loc /\ temp'.torn = temp.torn \ p.loc
      /\ \A x \in temp.hidden : x \in temp'.hidden
  BY <1>1, InjectFields
<1>3. Holds(temp', p) /\ \A q : Holds(temp, q) => Holds(temp', q)
  BY <1>1, InjectHolds
<1>4. Full' = Full /\ AllSources' = AllSources
      /\ \A s : Recorded(s, disk)' = Recorded(s, disk)
  BY FullStays
<1>5. ReadAgain'
  <2>1. ASSUME stage = "indexing", quiet \in {Incomplete, AllFiles}, temp'.hidden = {},
               NEW s \in AllSources
        PROVE  s \in pending \/ Recorded(s, disk) \in parsed' \/ Holds(temp', Recorded(s, disk))
    <3>1. temp.hidden = {}
      BY <1>2, <2>1
    <3>2. s \in pending \/ Recorded(s, disk) \in parsed \/ Holds(temp, Recorded(s, disk))
      BY <2>1, <3>1 DEF All, Thorough, ReadAgain
    <3> QED
      BY <1>3, <3>2
  <2>2. \A s \in AllSources : Holds(temp', Recorded(s, disk)) => Holds(temp, Recorded(s, disk))'
    BY <1>4 DEF Holds
  <2> QED
    BY <1>4, <2>1, <2>2 DEF ReadAgain
<1>6. Pure'
  <2> SUFFICES ASSUME stage = "indexing", quiet = AllFiles
               PROVE  IsPure(temp)'
    BY DEF Pure
  <2>1. PICK s \in AllSources : p = Recorded(s, disk)
    BY DEF All, Calm, Building, Disturbed, AllFiles
  <2>2. /\ p.files \subseteq Full.files /\ p.indexed \subseteq Full.indexed
        /\ p.inc \subseteq Full.inc /\ p.occ \subseteq Full.occ /\ p.loc \subseteq Full.loc
    BY <2>1 DEF Full
  <2>3. IsPure(temp)
    BY DEF All, Thorough, Pure
  <2> QED
    BY <1>2, <1>4, <2>2, <2>3 DEF IsPure
<1>7. stage \notin {"idle", "asked"}
  BY DEF All, Honest
<1> QED
  BY <1>5, <1>6, <1>7 DEF Thorough, ThoroughRefreshIsAccurate

\* In the end the copy has what the parsers record of all source files, and is the
\* index.
LEMMA FinishThorough == ASSUME All, Finish PROVE Thorough'
<1>1. /\ UNCHANGED <<disk, quiet>> /\ stage' = "idle"
      /\ stage \in {"indexing", "stopping"} /\ pending = {} /\ parsed = {}
      /\ stage = "indexing" => db' = temp
  BY DEF Finish
<1>2. Full' = Full
  BY <1>1, FullStays
<1>3. ASSUME quiet \in {Incomplete, AllFiles}, db'.hidden = {}
      PROVE  /\ db' = temp /\ stage = "indexing" /\ IsAccurate(temp)
             /\ \A s \in AllSources : Holds(temp, Recorded(s, disk))
  <2>1. stage = "indexing" /\ db' = temp /\ quiet # Disturbed
    BY <1>1, <1>3 DEF All, Calm, Disturbed, Incomplete, AllFiles
  <2>2. \A s \in AllSources : Holds(temp, Recorded(s, disk))
    BY <1>1, <1>3, <2>1 DEF All, Thorough, ReadAgain
  <2>3. ChangedIn(temp) = {}
    BY <2>1 DEF All, Calm, Building
  <2>4. Sound(temp, disk) /\ disk \in Disks
    BY DEF All, Honest
  <2>5. IsAccurate(temp)
    BY <1>3, <2>1, <2>2, <2>3, <2>4, ReadIsAccurate
  <2> QED
    BY <2>1, <2>2, <2>5
<1>4. ASSUME quiet = AllFiles, db'.hidden = {} PROVE IsExact(temp)
  <2>1. IsPure(temp) /\ \A s \in AllSources : Holds(temp, Recorded(s, disk))
    BY <1>3, <1>4 DEF All, Thorough, Pure
  <2>2. /\ Full.files = UNION {Recorded(s, disk).files : s \in AllSources}
        /\ Full.indexed = UNION {Recorded(s, disk).indexed : s \in AllSources}
        /\ Full.inc = UNION {Recorded(s, disk).inc : s \in AllSources}
        /\ Full.occ = UNION {Recorded(s, disk).occ : s \in AllSources}
        /\ Full.loc = UNION {Recorded(s, disk).loc : s \in AllSources}
    BY DEF Full
  <2>3. \A s \in AllSources :
          /\ Recorded(s, disk).files \subseteq temp.files
          /\ Recorded(s, disk).indexed \subseteq temp.indexed
          /\ Recorded(s, disk).inc \subseteq temp.inc
          /\ Recorded(s, disk).occ \subseteq temp.occ
          /\ Recorded(s, disk).loc \subseteq temp.loc
    BY <2>1 DEF Holds, IsPure
  <2>4. /\ Full.files \subseteq temp.files /\ Full.indexed \subseteq temp.indexed
        /\ Full.inc \subseteq temp.inc /\ Full.occ \subseteq temp.occ
        /\ Full.loc \subseteq temp.loc
    BY <2>2, <2>3
  <2> QED
    BY <2>1, <2>4 DEF IsExact, IsPure
<1>5. ThoroughRefreshIsAccurate'
  BY <1>1, <1>2, <1>3, <1>4 DEF ThoroughRefreshIsAccurate, IsAccurate, IsExact
<1> QED
  BY <1>1, <1>5 DEF Thorough, ReadAgain, Pure

LEMMA NextAll == ASSUME All, SourcesApart, [Next]_vars PROVE All'
<1>1. Inv' /\ Honest' /\ Calm'
  BY NextInv, NextHonest, NextCalm DEF All
<1>2. CASE UNCHANGED vars
  <2>1. UNCHANGED vars
    BY <1>2
  <2>2. Full' = Full /\ AllSources' = AllSources
        /\ \A r : Recorded(r, disk)' = Recorded(r, disk)
    BY <2>1, FullStays DEF vars
  <2>3. ReadAgain' /\ Pure'
    BY <2>1, <2>2 DEF vars, All, Thorough, ReadAgain, Pure, IsPure, Holds
  <2>4. ThoroughRefreshIsAccurate'
    BY <2>1, <2>2 DEF vars, All, Thorough, ThoroughRefreshIsAccurate, IsAccurate, IsExact
  <2> QED
    BY <1>1, <2>3, <2>4 DEF All, Thorough
<1>3. CASE Next
  <2>1. ASSUME \/ \E f \in Files : Edit(f)
               \/ \E s \in Sources : Crash(s)
               \/ Cancel \/ Interrupt
        PROVE  Thorough'
    BY <2>1, DisturbedThorough DEF Edit, Crash, Cancel, Interrupt
  <2> QED
    BY <1>1, <1>3, <2>1, AskThorough, NothingThorough, BuildThorough,
       ParseThorough, InjectThorough, FinishThorough DEF Next, All
<1> QED
  BY <1>2, <1>3

\* An undisturbed refresh of updated and incomplete files, or of all, makes the
\* index accurate also of files that came into being, and one of all files makes
\* it exact, for any files, contents, macros and errors, as long as no source file
\* is included by another and no change is hidden.
THEOREM ThoroughRefreshHolds == Spec => []ThoroughRefreshIsAccurate
<1>1. CASE SourcesApart
  <2>1. Init => All
    BY InitInv, InitHonest, InitCalm, InitThorough DEF All
  <2>2. All /\ [Next]_vars => All'
    BY <1>1, NextAll
  <2>3. All => ThoroughRefreshIsAccurate
    BY DEF All, Thorough
  <2> QED
    BY <2>1, <2>2, <2>3, PTL DEF Spec
<1>2. CASE ~SourcesApart
  <2>1. ThoroughRefreshIsAccurate
    BY <1>2 DEF ThoroughRefreshIsAccurate
  <2> QED
    BY <2>1, PTL
<1> QED
  BY <1>1, <1>2
=============================================================================
