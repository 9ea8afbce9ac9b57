---------------------------- MODULE JobLifecycle ----------------------------
(***************************************************************************)
(* What a client may rely on about a job, whatever threads serve it: a job *)
(* runs, then succeeds or fails; a failure may also be recorded after the  *)
(* success (the graph stays); success is only ever promised to a client    *)
(* when there is a graph, or when the failure left no message, and the     *)
(* promise is not taken back.                                              *)
(***************************************************************************)
CONSTANTS Jobs, MayRetract, MayBeSilent

VARIABLES phase, promised

pvars == <<phase, promised>>

LInit ==
    /\ phase = [j \in Jobs |-> "absent"]
    /\ promised = {}

Move(j, from, to) ==
    /\ phase[j] = from
    /\ phase' = [phase EXCEPT ![j] = to]
    /\ UNCHANGED promised

Accept(j) == Move(j, "absent", "running")
Succeed(j) == Move(j, "running", "succeeded")
Fail(j) == Move(j, "running", "failed")
FailSilently(j) == MayBeSilent /\ Move(j, "running", "silent")
Retract(j) == MayRetract /\ Move(j, "succeeded", "retracted")

Promise(j) ==
    /\ phase[j] \in {"succeeded", "retracted", "silent"}
    /\ promised' = promised \cup {j}
    /\ UNCHANGED phase

LNext == \E j \in Jobs :
            \/ Accept(j) \/ Succeed(j) \/ Fail(j) \/ FailSilently(j)
            \/ Retract(j) \/ Promise(j)

LSpec == LInit /\ [][LNext]_pvars
=============================================================================
