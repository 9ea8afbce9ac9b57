------------------------------ MODULE IndexJob ------------------------------
(***************************************************************************)
(* What one run of the indexer promises, whatever threads, processes and   *)
(* queues carry it out: the database only gains records, it never gains    *)
(* the same record twice, and a run that nobody stopped ends only when     *)
(* every source file has left a trace in it, its index or the error that   *)
(* says its indexer crashed.                                               *)
(***************************************************************************)
CONSTANTS Files     \* the source files to be indexed

VARIABLES db,       \* the records <<file, "index">> and <<file, "crash">> injected so far
          stopped,  \* the user or the application gave up the run
          over      \* the run has ended

jobVars == <<db, stopped, over>>

Record == Files \X {"index", "crash"}
Traced(f) == \E r \in db : r[1] = f

Init == db = {} /\ stopped = FALSE /\ over = FALSE

\* A non-empty batch of new records reaches the database.
Inject == /\ ~over
          /\ \E batch \in (SUBSET Record) \ {{}} :
                /\ batch \cap db = {}
                /\ db' = db \cup batch
          /\ UNCHANGED <<stopped, over>>

Stop == stopped' = TRUE /\ UNCHANGED <<db, over>>

Finish == /\ ~over
          /\ stopped \/ \A f \in Files : Traced(f)
          /\ over' = TRUE
          /\ UNCHANGED <<db, stopped>>

Next == Inject \/ Stop \/ Finish
Spec == Init /\ [][Next]_jobVars
=============================================================================
