------------------------------ MODULE JobStatus ------------------------------
(***************************************************************************)
(* The status column of a ProcessingJob and the one rule by which the code *)
(* changes it: ProcessingJob.set_status, called with the name of a status  *)
(* of ours or of a task state of celery (apps/processing/models.py).       *)
(***************************************************************************)
EXTENDS Naturals

CREATED   == 10
SCHEDULED == 20
PENDING   == 30
STARTED   == 40
RUNNING   == 50
FINISHED  == 100
REVOKED   == 500
FAILURE   == 999

(* No row in the database yet: below every status a row can have.          *)
Absent == 0

StatusValues ==
  {CREATED, SCHEDULED, PENDING, STARTED, RUNNING, FINISHED, REVOKED, FAILURE}

(* Mutant of Code: celery's name for a task that returned is known.        *)
CodeWithSuccess ==
  [SCHEDULED |-> SCHEDULED, PENDING |-> PENDING, STARTED |-> STARTED,
   RUNNING |-> RUNNING, FINISHED |-> FINISHED, SUCCESS |-> FINISHED,
   REVOKED |-> REVOKED, FAILURE |-> FAILURE]

(* The status a name stands for.  SUCCESS, the state celery gives a task   *)
(* that returned, is not an attribute of ProcessingJob.STATUS.             *)
Code ==
  [SCHEDULED |-> SCHEDULED, PENDING |-> PENDING, STARTED |-> STARTED,
   RUNNING |-> RUNNING, FINISHED |-> FINISHED, REVOKED |-> REVOKED,
   FAILURE |-> FAILURE]

Known(name) == name \in DOMAIN Code

(* Mutant of Raise: the new status is added to the old one.                *)
RaiseBy(old, name) == IF Known(name) THEN old + Code[name] ELSE old

(* The status an object ends up with: a status is only ever raised.        *)
Raise(old, name) ==
  IF Known(name) /\ Code[name] > old THEN Code[name] ELSE old

(* The outcomes of a job, all above every status of a job under way.       *)
Terminal(status) == status >= FINISHED

(* Task states of celery's result store.                                   *)
TaskStates == {"PENDING", "STARTED", "SUCCESS", "FAILURE", "REVOKED"}
==============================================================================
