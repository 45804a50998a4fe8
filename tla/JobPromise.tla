----------------------------- MODULE JobPromise -----------------------------
(***************************************************************************)
(* What the job page promises its user: a submitted job waits, runs unless *)
(* it cannot, and comes to one outcome, which is final.  Only for a job    *)
(* somebody asked to stop may the outcome still change, as the stop can    *)
(* come too late.                                                          *)
(***************************************************************************)
VARIABLES phase, asked

Outcomes == {"finished", "revoked", "failed"}

Init == phase = "new" /\ asked = FALSE

Move(from, to) == phase \in from /\ phase' = to /\ UNCHANGED asked

Submit == Move({"new"}, "waiting")
Begin  == Move({"waiting"}, "running")
Finish == Move({"running"}, "finished")
Fail   == Move({"waiting", "running"}, "failed")
Ask    == phase # "new" /\ asked' = TRUE /\ UNCHANGED phase
Revoke == asked /\ Move({"waiting", "running"}, "revoked")
Revise == asked /\ \E o \in Outcomes : Move(Outcomes, o)

Next == Submit \/ Begin \/ Finish \/ Fail \/ Ask \/ Revoke \/ Revise

vars == <<phase, asked>>

Spec == Init /\ [][Next]_vars

(* A job that runs is brought to an outcome.                               *)
Conclude == phase = "running" /\ (Finish \/ Fail \/ Revoke)

FairSpec == Spec /\ WF_vars(Conclude)
==============================================================================
