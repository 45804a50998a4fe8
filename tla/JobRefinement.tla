---------------------------- MODULE JobRefinement ----------------------------
(***************************************************************************)
(* The promise of the job page, read off the row of the database.          *)
(***************************************************************************)
EXTENDS JobLifecycle

Phase ==
  CASE row.status = Absent    -> "new"
    [] row.status = RUNNING   -> "running"
    [] row.status = FINISHED  -> "finished"
    [] row.status = REVOKED   -> "revoked"
    [] row.status = FAILURE   -> "failed"
    [] OTHER                  -> "waiting"

Promise == INSTANCE JobPromise WITH phase <- Phase

(* As long as nobody but the worker writes to the row of a published job   *)
(* and its message is delivered once, the row keeps the promise.           *)
PromiseKept == Promise!Spec

(* ... and a job that was begun is brought to an outcome.                  *)
PromiseFulfilled == Promise!FairSpec

------------------------------------------------------------------------------
(* The container of the job, seen by the deliveries of its message.        *)
Stand(r) ==
  CASE run[r] = "copy"                                         -> "ready"
    [] run[r] \in {"script", "cleanup"}                        -> "using"
    [] run[r] \in FailingPoints \cup RevokingPoints            -> "owing"
    [] run[r] \in {"append", "link", "success", "done", "lost"} -> "rid"
    [] OTHER                                                   -> "waiting"

Promised == INSTANCE ContainerPromise WITH
  Deliveries <- Runs, phase <- [r \in Runs |-> Stand(r)]

(* The steps that stand for a container in the life of a job are the ones  *)
(* that Container makes up of its calls: both keep one promise.            *)
ContainerKept == Promised!Spec
==============================================================================
