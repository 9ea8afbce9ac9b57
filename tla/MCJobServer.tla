---------------------------- MODULE MCJobServer ----------------------------
(***************************************************************************)
(* Instances of JobServer for TLC.  analyze_viz.build_graph makes many     *)
(* callbacks; here the last one, which adds keys to the dictionary, stands *)
(* for those below the analysis loop, and the loop makes its own.          *)
(***************************************************************************)
EXTENDS JobServer

LastAfter == <<[pct |-> 100, stage |-> 6, sized |-> TRUE, extra |-> 2]>>
NoCalls == <<>>
=============================================================================
