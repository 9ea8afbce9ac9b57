----------------------------- MODULE MCLauncher -----------------------------
(* Instances of Launcher for TLC: two jobs of different, or of one file and none. *)
EXTENDS Launcher

TwoJobs == {"j1", "j2"}
TwoSize == [j \in TwoJobs |-> IF j = "j1" THEN 2 ELSE 1]
FewSize == [j \in TwoJobs |-> IF j = "j1" THEN 1 ELSE 0]
=============================================================================
