------------------------------ MODULE Refresh ------------------------------
(***************************************************************************)
(* What a refresh of Sourcetrail clears and indexes, and what the index    *)
(* says afterwards: RefreshInfoGenerator, the part of Project that uses it,*)
(* TaskCleanStorage, and the files, includes, symbols and connections of   *)
(* PersistentStorage and SqliteIndexStorage.                               *)
(*                                                                         *)
(* The user edits, removes and adds files at any time.  A refresh first    *)
(* compares the files with the index and shows what it would do; later, on *)
(* a click, it copies the index, clears files in the copy, has source files *)
(* parsed and injects what the parsers recorded, in any order; in the end  *)
(* the copy becomes the index.  A parser reads all files its source file   *)
(* includes, so what is recorded of a header comes from several parsers,   *)
(* and each sees the header under the macros of its own translation unit.  *)
(***************************************************************************)
EXTENDS Naturals, FiniteSets

CONSTANTS
  Sources,   \* the source files of the project
  Headers,   \* other files the project contains
  External,  \* files that are included and not in an indexed path
  Symbols,
  Texts,     \* what may be in a file
  Content,   \* what a file with a text may include, declare and connect
  Sees(_, _, _),   \* which of it the parser of a source sees on a disk
  Breaks,    \* <<s, f>>: the macros of source s are an error in file f
  Initial,   \* what may be on disk when the project is created
  MaxEdits   \* how often a file may change

Files == Sources \cup Headers \cup External
Contained == Sources \cup Headers   \* filterToContainedFilePaths

Gone == "gone"          \* the file does not exist
NoText == "no text"     \* no row in filecontent

Possible(f) == DOMAIN Content[f] \cup {Gone}
Disks == {d \in [Files -> Texts \cup {Gone}] : \A f \in Files : d[f] \in Possible(f)}

ASSUME RefreshAssumption ==
  /\ Gone \notin Texts /\ NoText \notin Texts
  /\ Sources \cap (Headers \cup External) = {} /\ Headers \cap External = {}
  /\ DOMAIN Content = Files
  /\ \A f \in Files :
       /\ DOMAIN Content[f] \subseteq Texts
       /\ \A v \in DOMAIN Content[f] : \A c \in Content[f][v] :
            /\ c.inc \subseteq Files /\ c.decl \subseteq Symbols
            /\ c.uses \subseteq Symbols \X Symbols
  /\ Initial \subseteq Disks
  /\ MaxEdits \in Nat
  /\ Breaks \subseteq Sources \X Contained

----------------------------------------------------------------------------
(* Files that refer to each other.                                         *)

\* getReferencing of PersistentStorage, with its edges turned: every file that
\* is reached from one of S by one or more edges.
Following(S, edges) ==
  LET targets == {e[2] : e \in edges}
      Closed(X) == \A e \in edges : e[1] \in S \cup X => e[2] \in X
  IN  {f \in targets : \A X \in SUBSET targets : Closed(X) => f \in X}

MutReferencing(d, S) == {e[1] : e \in {e \in d.inc : e[2] \in S}}

Referenced(d, S) == Following(S, d.inc)
Referencing(d, S) == Following(S, {<<e[2], e[1]>> : e \in d.inc})

\* The includes the parser of source s can follow on disk d, what it comes by,
\* and the files in which it misses one.
Edges(s, d) ==
  {e \in Files \X Files :
     d[e[1]] # Gone /\ d[e[2]] # Gone /\ e[2] \in Sees(s, d, e[1]).inc}
Visited(s, d) == {s} \cup Following({s}, Edges(s, d))
Unresolved(s, d, f) == \E g \in Sees(s, d, f).inc : d[g] = Gone

\* What a parser sees is something the text may say.  Which macros are defined
\* there depends on the files it comes by and on the includes it misses only.
ASSUME SeesAssumption ==
  /\ \A s \in Sources, d \in Disks, f \in Files :
       d[f] # Gone => Sees(s, d, f) \in Content[f][d[f]]
  /\ \A s \in Sources, d \in Disks, e \in Disks :
       /\ d[s] # Gone
       /\ \A f \in Visited(s, d) :
            e[f] = d[f] /\ \A g \in Sees(s, d, f).inc : d[g] = Gone => e[g] = Gone
       => \A f \in Visited(s, d) : Sees(s, e, f) = Sees(s, d, f)
----------------------------------------------------------------------------
Updated == "updated"          \* REFRESH_UPDATED_FILES
Incomplete == "incomplete"    \* REFRESH_UPDATED_AND_INCOMPLETE_FILES
AllFiles == "all"             \* REFRESH_ALL_FILES
Modes == {Updated, Incomplete, AllFiles}
Disturbed == "disturbed"

VARIABLES
  disk,     \* the text of each file
  db,       \* the index of the project
  temp,     \* the index that is being built
  stage,    \* where the refresh is
  info,     \* RefreshInfo: mode, files to clear, files to index
  pending,  \* the source files no parser has taken
  parsed,   \* the storages that wait to be injected
  quiet,    \* history: the mode of the last refresh, if nothing came between
  edits     \* how often a file was changed

vars == <<disk, db, temp, stage, info, pending, parsed, quiet, edits>>

(* An index: the rows of file with the time and the content stored, the     *)
(* include edges, the locations of symbols and of connections between      *)
(* symbols, and those of errors.  newer says which files are younger than  *)
(* their row, undated which rows have no time.  The last three are         *)
(* history: files whose rows hide a change, missing files that came into   *)
(* being, and connections cleared in files that were to be kept.           *)
Empty ==
  [files |-> {}, indexed |-> {}, complete |-> {}, newer |-> {}, undated |-> {},
   text |-> [f \in Files |-> NoText], inc |-> {}, occ |-> {}, loc |-> {},
   errs |-> {}, hidden |-> {}, created |-> {}, torn |-> {}]

Nothing == [mode |-> Updated, clear |-> {}, index |-> {}]
----------------------------------------------------------------------------
(* What a parser records.                                                  *)

\* A parser records the files it comes by and, of those the project contains,
\* the symbols, connections and errors.  A missing file is a fatal error: then
\* all files are incomplete, otherwise those with errors (Indexer::index).
Recorded(s, d) ==
  LET seen == Visited(s, d)
      own == seen \cap Contained
      missed == {f \in seen : Unresolved(s, d, f)}
      errors == missed \cup {f \in seen : <<s, f>> \in Breaks}
  IN  [files |-> seen, indexed |-> own, read |-> [f \in seen |-> d[f]],
       complete |-> IF missed # {} THEN {} ELSE seen \ errors,
       inc |-> {e \in Edges(s, d) : e[1] \in seen},
       occ |-> {o \in Symbols \X own : o[1] \in Sees(s, d, o[2]).decl},
       loc |-> {l \in (Symbols \X Symbols) \X own : l[1] \in Sees(s, d, l[2]).uses},
       errs |-> {s} \X errors]

\* What TaskBuildIndex records of a source file whose indexer died.
CrashRecord(s) ==
  [files |-> {s}, indexed |-> {}, read |-> [f \in {} |-> Gone],
   complete |-> {s}, inc |-> {}, occ |-> {}, loc |-> {}, errs |-> {<<s, s>>}]

Exists(f) == disk[f] # Gone

\* A file that is new gets its time and its text from the disk now, not from the
\* parser, and its text only if it is indexed.
StoredText(d, p) ==
  [f \in Files |-> IF f \in (p.files \cap p.indexed) \ d.files THEN disk[f]
                  ELSE d.text[f]]

\* Of a file that is known, the storage sets complete only in accordance with the
\* errors known so far: those of the storage itself come later.
Completed(d, p) ==
  LET known == p.files \cap d.files
      failed == {f \in Files : \E s \in Sources : <<s, f>> \in d.errs}
  IN  (d.complete \ ((known \ p.complete) \cap failed))
        \cup (p.complete \ (known \cap failed))

\* Storage::inject.
Inject(d, p) ==
  LET new == p.files \ d.files
      text == StoredText(d, p)
      Compared(f) == IF text[f] # NoText THEN text[f] ELSE disk[f]
  IN  [d EXCEPT
         !.files = @ \cup p.files,
         !.indexed = @ \cup p.indexed,
         !.complete = Completed(d, p),
         !.undated = @ \cup {f \in new : ~Exists(f)},
         !.text = text,
         !.hidden = @ \cup {f \in DOMAIN p.read : p.read[f] # Compared(f)}
                      \cup {f \in new \ p.indexed : ~Exists(f)},
         !.inc = @ \cup p.inc, !.occ = @ \cup p.occ, !.loc = @ \cup p.loc,
         !.errs = @ \cup p.errs, !.torn = @ \ p.loc]

\* PersistentStorage::clearFileElements.  Connections go that are located in one
\* of the files C, and all that start from a symbol located in one of them,
\* wherever they are located themselves; so do the edges of the files.  Clearing
\* all errors first (mode "incomplete") deletes the messages, not the locations.
Clear(d, C) ==
  LET located == {n \in Symbols : \E f \in C : <<n, f>> \in d.occ}
      edges == {l[1] : l \in {l \in d.loc : l[2] \in C}}
      lost == {l \in d.loc : l[2] \in C \/ l[1] \in edges \/ l[1][1] \in located}
  IN  [d EXCEPT
         !.files = @ \ C, !.indexed = @ \ C, !.complete = @ \ C,
         !.newer = @ \ C, !.undated = @ \ C,
         !.text = [f \in Files |-> IF f \in C THEN NoText ELSE @[f]],
         !.inc = {e \in @ : e[1] \notin C /\ e[2] \notin C},
         !.occ = {o \in @ : o[2] \notin C},
         !.loc = @ \ lost,
         !.errs = {e \in @ : e[2] \notin C},
         !.hidden = @ \ C,
         !.torn = (@ \cup lost) \ {l \in lost \cup @ : l[2] \in C}]
----------------------------------------------------------------------------
(* What a refresh would do (RefreshInfoGenerator).                         *)

\* The file is younger than its row, and its text another one.
DidFileChange(f) == f \in db.newer /\ disk[f] # db.text[f]

Changed ==
  {f \in db.files :
     IF f \in Contained /\ Exists(f)
       THEN f \notin db.indexed \/ DidFileChange(f)
       ELSE f \in db.indexed \/ DidFileChange(f)}

MutAllSources == Sources

AllSources == {s \in Sources : Exists(s)}   \* getAllSourceFilePaths

MutUnshared(affected) ==
  LET static == AllSources \ affected IN Referenced(db, affected) \ static

\* Of what the files refer to, what no other source file refers to: it may not be
\* needed any more.
Unshared(affected) ==
  LET static == AllSources \ affected
  IN  Referenced(db, affected) \ (Referenced(db, static) \cup static)

\* The changed files and those that refer to them, and what they do not share.
UpdatedInfo ==
  LET affected == Changed \cup Referencing(db, Changed)
      clear == affected \cup Unshared(affected)
      unchanged == {f \in db.indexed \cap Contained : Exists(f) /\ f \notin Changed}
  IN  [mode |-> Updated, clear |-> clear,
       index |-> {s \in AllSources : s \in clear \/ s \notin unchanged}]

MutIncompleteInfo ==
  LET incomplete == db.files \ (db.complete \cup UpdatedInfo.clear)
      more == incomplete \cup Referencing(db, incomplete)
  IN  [mode |-> Incomplete, clear |-> UpdatedInfo.clear \cup more,
       index |-> UpdatedInfo.index \cup (AllSources \ more)]

\* Also the incomplete files and those that refer to them.
IncompleteInfo ==
  LET incomplete == db.files \ (db.complete \cup UpdatedInfo.clear)
      more == incomplete \cup Referencing(db, incomplete)
  IN  [mode |-> Incomplete, clear |-> UpdatedInfo.clear \cup more,
       index |-> UpdatedInfo.index \cup (AllSources \cap more)]

RefreshInfo(mode) ==
  CASE mode = Updated -> UpdatedInfo
    [] mode = Incomplete -> IncompleteInfo
    [] mode = AllFiles -> [mode |-> AllFiles, clear |-> {}, index |-> AllSources]

\* "Nothing to refresh, all files are up-to-date."  Files to clear that are not
\* indexed do not count.
NothingToRefresh(i) ==
  i.mode # AllFiles /\ i.clear \cap db.indexed = {} /\ i.index = {}
----------------------------------------------------------------------------
(* The index of a project that was just indexed.                           *)

Full ==
  LET all == {Recorded(s, disk) : s \in AllSources}
  IN  [files |-> UNION {p.files : p \in all}, indexed |-> UNION {p.indexed : p \in all},
       inc |-> UNION {p.inc : p \in all}, occ |-> UNION {p.occ : p \in all},
       loc |-> UNION {p.loc : p \in all}]

Init ==
  /\ disk \in Initial
  /\ edits = 0
  /\ db = Empty
  /\ temp = Empty
  /\ stage = "idle"
  /\ info = Nothing
  /\ pending = {} /\ parsed = {}
  /\ quiet = Disturbed
----------------------------------------------------------------------------
(* The user and the file system.                                           *)

\* What an index shows of file f getting text t.  Times are local and of one
\* second (TimeStamp), so the file may come out no later than its row: it was
\* written in the same second, replaced by an older one, or the clock was set
\* back.  Then its change is not seen.  Nor is a file missed that is not indexed
\* and goes, or a file that comes looked for by those that already include it.
Aged(d, f, t, later) ==
  LET read(g) == {p.read[g] : p \in {p \in parsed : g \in DOMAIN p.read}}
      wanted == \E g \in Files :
                  \E v \in ({disk[g], d.text[g]} \cup read(g)) \cap Texts :
                    \E c \in Content[g][v] : f \in c.inc
  IN  [d EXCEPT
         !.newer = IF later /\ t # Gone THEN @ \cup ({f} \cap (d.files \ d.undated))
                   ELSE @ \ {f},
         !.hidden = @ \cup {x \in {f} \cap d.files :
                             IF t = Gone THEN f \notin d.indexed
                             ELSE ~later /\ t # d.text[f]},
         !.created = @ \cup {x \in {f} : ~Exists(f) /\ wanted}]

Edit(f) ==
  \E t \in Possible(f) :
    /\ edits < MaxEdits /\ edits' = edits + 1
    /\ ~(t = Gone /\ ~Exists(f))
    /\ disk' = [disk EXCEPT ![f] = t]
    /\ \E later \in BOOLEAN : db' = Aged(db, f, t, later)
    /\ IF stage \in {"indexing", "stopping"}
         THEN \E later \in BOOLEAN : temp' = Aged(temp, f, t, later)
         ELSE UNCHANGED temp
    /\ quiet' = Disturbed
    /\ UNCHANGED <<stage, info, pending, parsed>>
----------------------------------------------------------------------------
(* The refresh.                                                            *)

\* The dialog shows what a mode would do; an empty project must be indexed
\* completely (Project::refresh, Project::getRefreshInfo).
AskRefresh(mode) ==
  /\ stage = "idle"
  /\ db.files = {} => mode = AllFiles
  /\ info' = RefreshInfo(mode)
  /\ stage' = "asked"
  /\ quiet' = mode
  /\ UNCHANGED <<disk, db, temp, pending, parsed, edits>>

Cancel ==
  /\ stage = "asked"
  /\ stage' = "idle" /\ info' = Nothing /\ quiet' = Disturbed
  /\ UNCHANGED <<disk, db, temp, pending, parsed, edits>>

\* Project::buildIndex with nothing to do ...
NothingToDo ==
  /\ stage = "asked" /\ NothingToRefresh(info)
  /\ stage' = "idle" /\ info' = Nothing
  /\ UNCHANGED <<disk, db, temp, pending, parsed, quiet, edits>>

\* ... and with the first task of its sequence, TaskCleanStorage, which reads
\* nothing that changes in between.
BuildIndex ==
  /\ stage = "asked" /\ ~NothingToRefresh(info)
  /\ temp' = IF info.mode = AllFiles THEN Empty ELSE Clear(db, info.clear)
  /\ pending' = info.index \cap AllSources
  /\ stage' = "indexing"
  /\ UNCHANGED <<disk, db, info, parsed, quiet, edits>>

\* A parser takes a source file; one that is gone by then yields nothing.
Parse(s) ==
  /\ stage = "indexing" /\ s \in pending
  /\ pending' = pending \ {s}
  /\ parsed' = IF Exists(s) THEN parsed \cup {Recorded(s, disk)} ELSE parsed
  /\ UNCHANGED <<disk, db, temp, stage, info, quiet, edits>>

Crash(s) ==
  /\ stage = "indexing" /\ s \in pending /\ Exists(s)
  /\ pending' = pending \ {s}
  /\ parsed' = parsed \cup {CrashRecord(s)}
  /\ quiet' = Disturbed
  /\ UNCHANGED <<disk, db, temp, stage, info, edits>>

InjectStorage ==
  \E p \in parsed :
    /\ temp' = Inject(temp, p)
    /\ parsed' = parsed \ {p}
    /\ UNCHANGED <<disk, db, stage, info, pending, quiet, edits>>

\* The user stops the indexing: the queue and the storages are dropped, except
\* those that arrive after StorageProvider was cleared.
Interrupt ==
  /\ stage = "indexing"
  /\ \E late \in SUBSET parsed : parsed' = late
  /\ pending' = {}
  /\ stage' = "stopping" /\ quiet' = Disturbed
  /\ UNCHANGED <<disk, db, temp, info, edits>>

\* After an interruption the user may discard what there is.
Finish ==
  /\ stage \in {"indexing", "stopping"} /\ pending = {} /\ parsed = {}
  /\ db' \in IF stage = "stopping" THEN {db, temp} ELSE {temp}
  /\ temp' = Empty
  /\ stage' = "idle" /\ info' = Nothing
  /\ UNCHANGED <<disk, pending, parsed, quiet, edits>>

Next ==
  \/ \E f \in Files : Edit(f)
  \/ \E m \in Modes : AskRefresh(m)
  \/ Cancel \/ NothingToDo \/ BuildIndex
  \/ \E s \in Sources : Parse(s) \/ Crash(s)
  \/ InjectStorage \/ Interrupt \/ Finish

Spec == Init /\ [][Next]_vars
----------------------------------------------------------------------------
\* Whether an index has all a full one would have, but for connections that were
\* torn, and says nothing of a file a source file reaches that its text does not
\* say.  It may say more of a header than any source file still sees: if a source
\* file stops defining a macro, a header it shares with others is not cleared
\* (RefreshInfoGenerator.cpp:109-116).  Of other files it may say anything.
IsAccurate(d) ==
  /\ Full.files \subseteq d.files /\ Full.indexed \subseteq d.indexed
  /\ Full.inc \subseteq d.inc /\ Full.occ \subseteq d.occ
  /\ Full.loc \subseteq d.loc \cup d.torn
  /\ \A f \in Full.files :
       /\ \A e \in d.inc : e[1] = f => \E c \in Content[f][disk[f]] : e[2] \in c.inc
       /\ \A o \in d.occ : o[2] = f => \E c \in Content[f][disk[f]] : o[1] \in c.decl
       /\ \A l \in d.loc : l[2] = f => \E c \in Content[f][disk[f]] : l[1] \in c.uses

\* Whether it says what a full one would and nothing else.
IsExact(d) ==
  /\ d.files = Full.files /\ d.indexed = Full.indexed
  /\ d.inc = Full.inc /\ d.occ = Full.occ /\ d.loc = Full.loc

SourcesApart ==
  \A f \in Files : \A v \in DOMAIN Content[f] : \A c \in Content[f][v] :
    c.inc \cap Sources = {}

\* "Nothing to refresh, all files are up-to-date" (Project.cpp:464) is true,
\* whatever was edited, removed, interrupted or crashed before and during
\* whatever refreshes.  Not if a change is hidden, since a file came out no later
\* than its row or was parsed as another than was stored; nor if a missing file
\* came into being: the times and texts stored cannot show it.  Nor if a source
\* file is included: after its parser crashed that of the other sets it indexed.
NothingToRefreshIsTrue ==
  /\ SourcesApart
  /\ stage = "idle" /\ NothingToRefresh(UpdatedInfo)
  /\ db.hidden = {} /\ db.created = {}
  => IsAccurate(db)

\* A refresh of any mode that nothing disturbs leaves nothing to refresh: what it
\* clears is indexed again or was not needed, and no file stays changed.
OneRefreshIsEnough ==
  stage = "idle" /\ quiet # Disturbed => NothingToRefresh(UpdatedInfo)

\* Files that came into being are missed by "updated files" only: a source file
\* whose parser misses a file is incomplete, however many parsers came by its
\* headers, and an undisturbed refresh of updated and incomplete files makes the
\* index accurate; one of all files makes it exact, also where a macro is gone.
\* Not if a source file is included: the record of its crash then sets it
\* complete, though the parser of the file that includes it said otherwise.
ThoroughRefreshIsAccurate ==
  /\ SourcesApart
  /\ stage = "idle" /\ db.hidden = {}
  => /\ quiet \in {Incomplete, AllFiles} => IsAccurate(db)
     /\ quiet = AllFiles => IsExact(db)

\* A source file that is not cleared is not parsed again: what it needs must stay
\* in the copy that is being built, its own rows and those of every file it
\* reaches, although files it shares with others are cleared for their sake.
KeptSourcesAreKept ==
  stage \in {"indexing", "stopping"} /\ info.mode # AllFiles =>
    \A s \in (Sources \cap db.indexed) \ info.clear :
      LET own == {s} \cup Referenced(db, {s})
      IN  /\ own \cap db.files \subseteq temp.files
          /\ {e \in db.inc : e[1] \in own} \subseteq temp.inc
          /\ {o \in db.occ : o[2] \in own} \subseteq temp.occ

\* A refresh does not lose connections of files that did not change, as
\* RefreshInfoGenerator.cpp:80 says of the files it keeps.  It does: whoever
\* reads a symbol's location in a cleared file clears all that starts from it.
ConnectionsAreKept ==
  /\ stage = "idle" /\ quiet # Disturbed
  /\ db.hidden = {} /\ db.created = {}
  => Full.loc \subseteq db.loc
=============================================================================
