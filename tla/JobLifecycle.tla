---------------------------- MODULE JobLifecycle ----------------------------
(***************************************************************************)
(* The life of one ProcessingJob: the row in the database, the web         *)
(* requests that create, edit, watch and stop it, the celery task          *)
(* run_script that executes it in a container, the signal handlers around  *)
(* the task, and the linked task commit that publishes the results.        *)
(*                                                                         *)
(* Every process works on a copy of the row: objects.get() reads it, and   *)
(* set_status() and form.save() write the WHOLE row back.  The two are     *)
(* separate steps here, so that other processes may act in between.        *)
(*                                                                         *)
(* Celery itself (broker, result store, revocation, pool) is external and  *)
(* modelled from how the code uses it.                                     *)
(***************************************************************************)
EXTENDS JobStatus

CONSTANTS
  Plans,         \* what a job executes: script, revisions, planned start
  Requests,      \* concurrent web requests (browser windows)
  Pollers,       \* ... those that show the job page, which polls the status
  Editors,       \* ... those that may submit the edit form
  Stoppers,      \* ... those that may press "revoke job"
  Runs,          \* deliveries of the run_script message
  MaxRestarts,   \* bound: how often the worker is restarted
  RequestsDie,   \* may a web request end early (exception, harakiri)?
  ResultsExpire, \* may celery's result expire (30 minutes)?
  CleanupFails   \* may destroying a container fail?

ASSUME ConstantsAssumption ==
  /\ Plans # {}
  /\ Pollers \subseteq Requests
  /\ Editors \subseteq Requests
  /\ Stoppers \subseteq Requests
  /\ MaxRestarts \in Nat
  /\ RequestsDie \in BOOLEAN
  /\ ResultsExpire \in BOOLEAN
  /\ CleanupFails \in BOOLEAN

VARIABLES
  row,       \* the row of the job: its status and its plan
  web,       \* where each web request is
  wobj,      \* the copy of the row each web request works on
  wseen,     \* the task state each web request read
  kwargs,    \* the plan a starting web request puts in the message
  run,       \* where each delivery of run_script is
  args,      \* the plan each delivery carries
  robj,      \* the copy of the row each delivery works on
  rseen,     \* the task state task_prerun read
  commit,    \* where the commit task linked to each delivery is
  cobj,      \* the copy of the row each commit task works on
  result,    \* the state of the task in the result store
  revoking,  \* a revoke broadcast is on its way to the worker
  revoked,   \* the worker remembers the task id as revoked
  image,     \* the container instance of the job exists
  appended,  \* how often the result files were attached to the job
  restarts,  \* how often the worker was restarted
  asked,     \* history: somebody pressed "revoke job"
  raised     \* history: run_script or commit ended with an exception

webVars    == <<web, wobj, wseen, kwargs>>
runVars    == <<run, args, robj, rseen>>
commitVars == <<commit, cobj>>
brokerVars == <<result, revoking, revoked, restarts>>
envVars    == <<image, appended>>
history    == <<asked, raised>>
vars == <<row, webVars, runVars, commitVars, brokerVars, envVars, history>>

------------------------------------------------------------------------------
Rows == [status : StatusValues \cup {Absent}, plan : Plans]

WebPoints ==
  {"idle", "open", "start", "sig_save", "publish", "poll_state", "poll_save",
   "edit_save"}

(* A task in the hands of a pool process ...                               *)
RunningPoints ==
  {"prerun", "prerun_state", "prerun_save", "track", "run", "run_save",
   "create", "copy", "script", "cleanup", "append", "link", "success"}
FailingPoints ==
  {"fail", "fail_get", "fail_save", "fail_append", "fail_cleanup"}
(* ... and one whose revocation the worker's main process handles.         *)
RevokingPoints ==
  {"revoke", "revoke_get", "revoke_save", "revoke_append", "revoke_cleanup"}
Active == RunningPoints \cup FailingPoints

RunPoints ==
  Active \cup RevokingPoints \cup {"none", "queued", "done", "lost"}

CommitFailing == {"fail_get", "fail_save", "fail_append", "fail_cleanup"}
CommitBusy    == {"work", "save"} \cup CommitFailing
CommitPoints  == CommitBusy \cup {"none", "queued", "done", "failed", "lost"}

TypeOK ==
  /\ row \in Rows
  /\ web \in [Requests -> WebPoints]
  /\ wobj \in [Requests -> Rows]
  /\ wseen \in [Requests -> TaskStates]
  /\ kwargs \in [Requests -> Plans]
  /\ run \in [Runs -> RunPoints]
  /\ args \in [Runs -> Plans]
  /\ robj \in [Runs -> Rows]
  /\ rseen \in [Runs -> TaskStates]
  /\ commit \in [Runs -> CommitPoints]
  /\ cobj \in [Runs -> Rows]
  /\ result \in TaskStates
  /\ revoking \in BOOLEAN
  /\ revoked \in BOOLEAN
  /\ image \in BOOLEAN
  /\ appended \in Nat
  /\ restarts \in 0..MaxRestarts
  /\ asked \in BOOLEAN
  /\ raised \in BOOLEAN

(* What a process holds when it has no copy of the row (any more).         *)
AnyPlan == CHOOSE p \in Plans : TRUE
NoCopy  == [status |-> Absent, plan |-> AnyPlan]

Init ==
  /\ row = NoCopy
  /\ web = [q \in Requests |-> "idle"]
  /\ wobj = [q \in Requests |-> NoCopy]
  /\ wseen = [q \in Requests |-> "PENDING"]
  /\ kwargs = [q \in Requests |-> AnyPlan]
  /\ run = [r \in Runs |-> "none"]
  /\ args = [r \in Runs |-> AnyPlan]
  /\ robj = [r \in Runs |-> NoCopy]
  /\ rseen = [r \in Runs |-> "PENDING"]
  /\ commit = [r \in Runs |-> "none"]
  /\ cobj = [r \in Runs |-> NoCopy]
  /\ result = "PENDING"
  /\ revoking = FALSE
  /\ revoked = FALSE
  /\ image = FALSE
  /\ appended = 0
  /\ restarts = 0
  /\ asked = FALSE
  /\ raised = FALSE

Exists == row.status # Absent

(* Mutant of SetStatus: the status is saved on a new object, not the copy. *)
SetStatusBlank(obj, name) == [NoCopy EXCEPT !.status = Raise(obj.status, name)]

(* set_status: raise the status of a copy (and save the copy, whole).      *)
SetStatus(obj, name) == [obj EXCEPT !.status = Raise(@, name)]

------------------------------------------------------------------------------
(* Web requests.                                                           *)

Web(q, from, to) == web[q] = from /\ web' = [web EXCEPT ![q] = to]

(* After a form the browser is sent to the page of the job.                *)
Landing(q) == IF q \in Pollers THEN "open" ELSE "idle"

(* A new job is inserted with status CREATED; save() goes on to start it.  *)
CreateJob(q, p) ==
  /\ ~Exists
  /\ Web(q, "idle", "start")
  /\ row' = [status |-> CREATED, plan |-> p]
  /\ wobj' = [wobj EXCEPT ![q] = row']
  /\ UNCHANGED <<wseen, kwargs, runVars, commitVars, brokerVars, envVars,
                 history>>

(* Mutant of StartJob: the signal handler runs after the publication.      *)
StartJobAtOnce(q) ==
  /\ Web(q, "start", "sig_save")
  /\ wobj' = [wobj EXCEPT ![q] = row]
  /\ \E r \in Runs :
       /\ run[r] = "none"
       /\ run' = [run EXCEPT ![r] = "queued"]
       /\ args' = [args EXCEPT ![r] = wobj[q].plan]
  /\ UNCHANGED <<row, wseen, kwargs, robj, rseen, commitVars, brokerVars,
                 envVars, history>>

(* start_job: the message is made from the object at hand; before it is    *)
(* published the signal handler reads the row anew ...                     *)
StartJob(q) ==
  /\ Web(q, "start", "sig_save")
  /\ kwargs' = [kwargs EXCEPT ![q] = wobj[q].plan]
  /\ wobj' = [wobj EXCEPT ![q] = row]
  /\ UNCHANGED <<row, wseen, runVars, commitVars, brokerVars, envVars,
                 history>>

(* ... and sets it SCHEDULED ...                                           *)
SetScheduled(q) ==
  /\ Web(q, "sig_save", "publish")
  /\ row' = SetStatus(wobj[q], "SCHEDULED")
  /\ wobj' = [wobj EXCEPT ![q] = NoCopy]
  /\ UNCHANGED <<wseen, kwargs, runVars, commitVars, brokerVars,
                 envVars, history>>

(* ... and the message goes to the broker.                                 *)
Publish(q) ==
  /\ Web(q, "publish", Landing(q))
  /\ \E r \in Runs :
       /\ run[r] = "none"
       /\ run' = [run EXCEPT ![r] = "queued"]
       /\ args' = [args EXCEPT ![r] = kwargs[q]]
  /\ kwargs' = [kwargs EXCEPT ![q] = AnyPlan]
  /\ UNCHANGED <<row, wobj, wseen, robj, rseen, commitVars,
                 brokerVars, envVars, history>>

(* The page of a job polls its status until that is terminal.              *)
OpenPage(q) ==
  /\ q \in Pollers
  /\ Exists
  /\ Web(q, "idle", "open")
  /\ UNCHANGED <<row, wobj, wseen, kwargs, runVars, commitVars, brokerVars,
                 envVars, history>>

PollGet(q) ==
  /\ Web(q, "open", "poll_state")
  /\ wobj' = [wobj EXCEPT ![q] = row]
  /\ UNCHANGED <<row, wseen, kwargs, runVars, commitVars, brokerVars, envVars,
                 history>>

(* Mutant of AfterPoll: a page stops polling when the job runs.            *)
AfterPollRunning(status) == IF status >= RUNNING THEN "idle" ELSE "open"

AfterPoll(status) == IF Terminal(status) THEN "idle" ELSE "open"

(* get_current_status: compare the copy with the task's state ...          *)
PollState(q) ==
  LET differs == Known(result) /\ Code[result] # wobj[q].status IN
  /\ Web(q, "poll_state",
         IF differs THEN "poll_save" ELSE AfterPoll(wobj[q].status))
  /\ IF differs
     THEN /\ wseen' = [wseen EXCEPT ![q] = result]
          /\ UNCHANGED wobj
     ELSE /\ wobj' = [wobj EXCEPT ![q] = NoCopy]
          /\ UNCHANGED wseen
  /\ UNCHANGED <<row, kwargs, runVars, commitVars, brokerVars, envVars,
                 history>>

(* ... and when they differ set it; the copy is saved even if not raised.  *)
PollSave(q) ==
  LET obj == SetStatus(wobj[q], wseen[q]) IN
  /\ Web(q, "poll_save", AfterPoll(obj.status))
  /\ row' = obj
  /\ wobj' = [wobj EXCEPT ![q] = NoCopy]
  /\ wseen' = [wseen EXCEPT ![q] = "PENDING"]
  /\ UNCHANGED <<kwargs, runVars, commitVars, brokerVars, envVars,
                 history>>

(* The edit form: fields other than status and environment are the user's. *)
EditGet(q, p) ==
  /\ q \in Editors
  /\ Exists
  /\ Web(q, "idle", "edit_save")
  /\ wobj' = [wobj EXCEPT ![q] = [row EXCEPT !.plan = p]]
  /\ UNCHANGED <<row, wseen, kwargs, runVars, commitVars, brokerVars, envVars,
                 history>>

(* A job read before it was scheduled is started (again) by the save.      *)
EditSave(q) ==
  /\ row' = wobj[q]
  /\ IF wobj[q].status <= CREATED
     THEN /\ Web(q, "edit_save", "start")
          /\ UNCHANGED wobj
     ELSE /\ Web(q, "edit_save", Landing(q))
          /\ wobj' = [wobj EXCEPT ![q] = NoCopy]
  /\ UNCHANGED <<wseen, kwargs, runVars, commitVars, brokerVars, envVars,
                 history>>

(* An exception in a view, harakiri, or the user closing the page.         *)
RequestDies(q) ==
  /\ RequestsDie
  /\ web[q] # "idle"
  /\ web' = [web EXCEPT ![q] = "idle"]
  /\ wobj' = [wobj EXCEPT ![q] = NoCopy]
  /\ wseen' = [wseen EXCEPT ![q] = "PENDING"]
  /\ kwargs' = [kwargs EXCEPT ![q] = AnyPlan]
  /\ UNCHANGED <<row, runVars, commitVars, brokerVars,
                 envVars, history>>

(* Mutant of StopJob: the view cleans up by itself, too.                   *)
StopJobCleaning(q) ==
  /\ q \in Stoppers
  /\ Exists
  /\ revoking' = TRUE
  /\ asked' = TRUE
  /\ image' = FALSE
  /\ UNCHANGED <<row, webVars, runVars, commitVars, result, revoked, restarts,
                 appended, raised>>

(* stop_job broadcasts a revoke to the workers.                            *)
StopJob(q) ==
  /\ q \in Stoppers
  /\ Exists
  /\ revoking' = TRUE
  /\ asked' = TRUE
  /\ UNCHANGED <<row, webVars, runVars, commitVars, result, revoked, restarts,
                 envVars, raised>>

------------------------------------------------------------------------------
(* The worker: run_script and the signal handlers around it.               *)

Run(r, from, to) == run[r] = from /\ run' = [run EXCEPT ![r] = to]

(* What a step of a delivery leaves alone that is not its own.             *)
Elsewhere == UNCHANGED <<webVars, args, commitVars, revoking, revoked,
                         restarts, asked>>

(* objects.get() *)
ReadRow(r, from, to) ==
  /\ Run(r, from, to)
  /\ robj' = [robj EXCEPT ![r] = row]
  /\ UNCHANGED <<row, rseen, result, envVars, raised>>
  /\ Elsewhere

(* set_status() on that copy *)
WriteRow(r, from, name, to) ==
  /\ Run(r, from, to)
  /\ row' = SetStatus(robj[r], name)
  /\ robj' = [robj EXCEPT ![r] = NoCopy]
  /\ UNCHANGED <<rseen, result, envVars, raised>>
  /\ Elsewhere

(* A task state is put in the result store.                                *)
Store(r, from, state, to) ==
  /\ Run(r, from, to)
  /\ result' = state
  /\ UNCHANGED <<row, robj, rseen, envVars, raised>>
  /\ Elsewhere

(* Mutant of Take: revocations are forgotten.                              *)
TakeAnyway(r) ==
  /\ Run(r, "queued", "prerun")
  /\ UNCHANGED <<row, robj, rseen, result, envVars, raised>>
  /\ Elsewhere

(* The planned start has come; the worker hands the task to a process.     *)
Take(r) ==
  /\ ~revoked
  /\ Run(r, "queued", "prerun")
  /\ UNCHANGED <<row, robj, rseen, result, envVars, raised>>
  /\ Elsewhere

(* Mutant of Discard: a task nobody revoked is discarded.                  *)
DiscardAny(r) ==
  /\ Run(r, "queued", "revoke")
  /\ UNCHANGED <<row, robj, rseen, result, envVars, raised>>
  /\ Elsewhere

(* The planned start of a revoked task has come: it is discarded.          *)
Discard(r) ==
  /\ revoked
  /\ Run(r, "queued", "revoke")
  /\ UNCHANGED <<row, robj, rseen, result, envVars, raised>>
  /\ Elsewhere

(* task_prerun: copy the task's state to the row.                          *)
PrerunGet(r) == ReadRow(r, "prerun", "prerun_state")

PrerunState(r) ==
  /\ Run(r, "prerun_state", "prerun_save")
  /\ rseen' = [rseen EXCEPT ![r] = result]
  /\ UNCHANGED <<row, robj, result, envVars, raised>>
  /\ Elsewhere

PrerunSave(r) ==
  /\ Run(r, "prerun_save", "track")
  /\ row' = IF Known(rseen[r]) THEN SetStatus(robj[r], rseen[r]) ELSE row
  /\ robj' = [robj EXCEPT ![r] = NoCopy]
  /\ rseen' = [rseen EXCEPT ![r] = "PENDING"]
  /\ UNCHANGED <<result, envVars, raised>>
  /\ Elsewhere

(* CELERY_TRACK_STARTED *)
Track(r) == Store(r, "track", "STARTED", "run")

(* run_script *)
RunGet(r)  == ReadRow(r, "run", "run_save")
RunSave(r) == WriteRow(r, "run_save", "RUNNING", "create")

(* An exception leaves run_script; what was done stays done.               *)
RunRaises(r, from) ==
  /\ Run(r, from, "fail")
  /\ robj' = [robj EXCEPT ![r] = NoCopy]
  /\ raised' = TRUE
  /\ UNCHANGED <<row, rseen, result>>
  /\ Elsewhere

(* The database cannot be reached, or there is no such row.                *)
RunNotBegun(r) ==
  /\ RunRaises(r, "run") \/ RunRaises(r, "run_save")
  /\ UNCHANGED envVars

(* The instance image must not be there yet ...                            *)
LookForImage(r) ==
  /\ ~image
  /\ Run(r, "create", "copy")
  /\ UNCHANGED <<row, robj, rseen, result, envVars, raised>>
  /\ Elsewhere

LookFails(r) == RunRaises(r, "create") /\ UNCHANGED envVars

(* ... and is copied, also over one that another delivery has made since,  *)
(* and the domain created; any of that may fail.                           *)
CreateContainer(r) ==
  /\ Run(r, "copy", "script")
  /\ image' = TRUE
  /\ UNCHANGED <<row, robj, rseen, result, appended, raised>>
  /\ Elsewhere

CreateFails(r) ==
  /\ RunRaises(r, "copy")
  /\ image' \in {image, TRUE}
  /\ UNCHANGED appended

ScriptEnds(r) ==
  /\ Run(r, "script", "cleanup")
  /\ UNCHANGED <<row, robj, rseen, result, envVars, raised>>
  /\ Elsewhere

ScriptFails(r) == RunRaises(r, "script") /\ UNCHANGED envVars

(* Destroying a container that is gone is only a warning.                  *)
Cleanup(r) ==
  /\ Run(r, "cleanup", "append")
  /\ image' = FALSE
  /\ UNCHANGED <<row, robj, rseen, result, appended, raised>>
  /\ Elsewhere

CleanupRaises(r) ==
  /\ CleanupFails
  /\ RunRaises(r, "cleanup")
  /\ UNCHANGED envVars

(* Mutant of AppendFiles: an error is swallowed.                           *)
AppendNothing(r) ==
  /\ Run(r, "append", "link")
  /\ UNCHANGED <<row, robj, rseen, result, envVars, raised>>
  /\ Elsewhere

AppendFiles(r) ==
  /\ Run(r, "append", "link")
  /\ appended' = appended + 1
  /\ UNCHANGED <<row, robj, rseen, result, image, raised>>
  /\ Elsewhere

(* ... or fails, having attached the file at hand or not.                  *)
AppendRaises(r) ==
  /\ RunRaises(r, "append")
  /\ appended' \in {appended, appended + 1}
  /\ UNCHANGED image

(* The callback is published before the result is stored.                  *)
Link(r) ==
  /\ Run(r, "link", "success")
  /\ commit' = [commit EXCEPT ![r] = "queued"]
  /\ UNCHANGED <<row, webVars, args, robj, rseen, cobj, brokerVars, envVars,
                 history>>

StoreSuccess(r) == Store(r, "success", "SUCCESS", "done")

(* Mutant of FailSave: the handler looks at the row and leaves it.         *)
FailUnrecorded(r) == ReadRow(r, "fail_save", "fail_append")

(* task_failure: the result first, then the handler.                       *)
StoreFailure(r) == Store(r, "fail", "FAILURE", "fail_get")
FailGet(r)      == ReadRow(r, "fail_get", "fail_save")
FailSave(r)     == WriteRow(r, "fail_save", "FAILURE", "fail_append")

(* Both handlers attach the files, whatever comes of it, and clean up,     *)
(* whatever comes of that.                                                 *)
HandlerAppends(r, from, to) ==
  /\ Run(r, from, to)
  /\ appended' \in {appended, appended + 1}
  /\ UNCHANGED <<row, robj, rseen, result, image, raised>>
  /\ Elsewhere

HandlerCleans(r, from) ==
  /\ Run(r, from, "done")
  /\ \/ image' = FALSE
     \/ CleanupFails /\ UNCHANGED image
  /\ UNCHANGED <<row, robj, rseen, result, appended, raised>>
  /\ Elsewhere

FailAppend(r)  == HandlerAppends(r, "fail_append", "fail_cleanup")
FailCleanup(r) == HandlerCleans(r, "fail_cleanup")

(* Mutants of RevokeSave, which is forgotten, and of RevokeAppend, which   *)
(* lets an exception of append_files end the handler.                      *)
RevokeUnrecorded(r)   == ReadRow(r, "revoke_save", "revoke_append")
RevokeAppendRaises(r) == HandlerAppends(r, "revoke_append", "done")

(* task_revoked *)
StoreRevoked(r)  == Store(r, "revoke", "REVOKED", "revoke_get")
RevokeGet(r)     == ReadRow(r, "revoke_get", "revoke_save")
RevokeSave(r)    == WriteRow(r, "revoke_save", "REVOKED", "revoke_append")
RevokeAppend(r)  == HandlerAppends(r, "revoke_append", "revoke_cleanup")
RevokeCleanup(r) == HandlerCleans(r, "revoke_cleanup")

------------------------------------------------------------------------------
(* The worker: commit, linked to a delivery of run_script.                 *)

Commit(r, from, to) ==
  commit[r] = from /\ commit' = [commit EXCEPT ![r] = to]

CommitElsewhere == UNCHANGED <<webVars, runVars, brokerVars, asked>>

(* The row is read before the files are committed ...                      *)
CommitGet(r) ==
  /\ Commit(r, "queued", "work")
  /\ cobj' = [cobj EXCEPT ![r] = row]
  /\ UNCHANGED <<row, envVars, raised>>
  /\ CommitElsewhere

CommitFiles(r) ==
  /\ Commit(r, "work", "save")
  /\ UNCHANGED <<row, cobj, envVars, raised>>
  /\ CommitElsewhere

CommitRaises(r) ==
  /\ \E from \in {"queued", "work", "save"} : Commit(r, from, "fail_get")
  /\ raised' = TRUE
  /\ cobj' = [cobj EXCEPT ![r] = NoCopy]
  /\ UNCHANGED <<row, envVars>>
  /\ CommitElsewhere

(* Mutant of CommitSave: celery's name for the end of a task is used.      *)
CommitSaveSuccess(r) ==
  /\ Commit(r, "save", "done")
  /\ row' = SetStatus(cobj[r], "SUCCESS")
  /\ cobj' = [cobj EXCEPT ![r] = NoCopy]
  /\ UNCHANGED <<envVars, raised>>
  /\ CommitElsewhere

(* ... and that same copy is saved after them.                             *)
CommitSave(r) ==
  /\ Commit(r, "save", "done")
  /\ row' = SetStatus(cobj[r], "FINISHED")
  /\ cobj' = [cobj EXCEPT ![r] = NoCopy]
  /\ UNCHANGED <<envVars, raised>>
  /\ CommitElsewhere

(* task_failure is one handler for run_script and for commit.              *)
CommitFailGet(r) ==
  /\ Commit(r, "fail_get", "fail_save")
  /\ cobj' = [cobj EXCEPT ![r] = row]
  /\ UNCHANGED <<row, envVars, raised>>
  /\ CommitElsewhere

CommitFailSave(r) ==
  /\ Commit(r, "fail_save", "fail_append")
  /\ row' = SetStatus(cobj[r], "FAILURE")
  /\ cobj' = [cobj EXCEPT ![r] = NoCopy]
  /\ UNCHANGED <<envVars, raised>>
  /\ CommitElsewhere

CommitFailAppend(r) ==
  /\ Commit(r, "fail_append", "fail_cleanup")
  /\ appended' \in {appended, appended + 1}
  /\ UNCHANGED <<row, cobj, image, raised>>
  /\ CommitElsewhere

CommitFailCleanup(r) ==
  /\ Commit(r, "fail_cleanup", "failed")
  /\ \/ image' = FALSE
     \/ CleanupFails /\ UNCHANGED image
  /\ UNCHANGED <<row, cobj, appended, raised>>
  /\ CommitElsewhere

------------------------------------------------------------------------------
(* Celery and its broker.                                                  *)

(* The worker remembers the id and kills the process of ONE delivery that  *)
(* carries it, if there is one; what the process was doing ends there.     *)
ReceiveRevoke ==
  /\ revoking
  /\ revoking' = FALSE
  /\ revoked' = TRUE
  /\ \/ \E r \in Runs :
          /\ run[r] \in Active
          /\ run' = [run EXCEPT ![r] = "revoke"]
          /\ robj' = [robj EXCEPT ![r] = NoCopy]
          /\ rseen' = [rseen EXCEPT ![r] = "PENDING"]
     \/ /\ \A r \in Runs : run[r] \notin Active
        /\ UNCHANGED <<run, robj, rseen>>
  /\ UNCHANGED <<row, webVars, args, commitVars, result,
                 restarts, envVars, history>>

(* A task waiting for its planned start is not acknowledged: the redis     *)
(* transport delivers it again after its visibility timeout.               *)
Redeliver(r, s) ==
  /\ run[r] = "queued"
  /\ run[s] = "none"
  /\ run' = [run EXCEPT ![s] = "queued"]
  /\ args' = [args EXCEPT ![s] = args[r]]
  /\ UNCHANGED <<row, webVars, robj, rseen, commitVars, brokerVars, envVars,
                 history>>

(* The worker dies and starts again.  Revocations live in its memory;      *)
(* tasks were acknowledged when they started; waiting ones come back.      *)
Restart ==
  /\ restarts < MaxRestarts
  /\ restarts' = restarts + 1
  /\ revoking' = FALSE
  /\ revoked' = FALSE
  /\ run' = [r \in Runs |->
               IF run[r] \in Active \cup RevokingPoints THEN "lost" ELSE run[r]]
  /\ commit' = [r \in Runs |->
               IF commit[r] \in CommitBusy THEN "lost" ELSE commit[r]]
  /\ robj' = [r \in Runs |-> NoCopy]
  /\ rseen' = [r \in Runs |-> "PENDING"]
  /\ cobj' = [r \in Runs |-> NoCopy]
  /\ UNCHANGED <<row, webVars, args, result, envVars,
                 history>>

(* CELERY_TASK_RESULT_EXPIRES: an unknown task is PENDING.                 *)
Expire ==
  /\ ResultsExpire
  /\ result # "PENDING"
  /\ result' = "PENDING"
  /\ UNCHANGED <<row, webVars, runVars, commitVars, revoking, revoked,
                 restarts, envVars, history>>

------------------------------------------------------------------------------
PollStep(q) == PollGet(q) \/ PollState(q) \/ PollSave(q)

WebStep(q) ==
  \/ \E p \in Plans : CreateJob(q, p) \/ EditGet(q, p)
  \/ StartJob(q) \/ SetScheduled(q) \/ Publish(q)
  \/ OpenPage(q) \/ PollStep(q) \/ EditSave(q)
  \/ RequestDies(q) \/ StopJob(q)

RunStep(r) ==
  \/ Take(r) \/ Discard(r)
  \/ PrerunGet(r) \/ PrerunState(r) \/ PrerunSave(r) \/ Track(r)
  \/ RunGet(r) \/ RunSave(r) \/ RunNotBegun(r)
  \/ LookForImage(r) \/ LookFails(r) \/ CreateContainer(r) \/ CreateFails(r)
  \/ ScriptEnds(r) \/ ScriptFails(r)
  \/ Cleanup(r) \/ CleanupRaises(r)
  \/ AppendFiles(r) \/ AppendRaises(r)
  \/ Link(r) \/ StoreSuccess(r)
  \/ StoreFailure(r) \/ FailGet(r) \/ FailSave(r) \/ FailAppend(r)
  \/ FailCleanup(r)
  \/ StoreRevoked(r) \/ RevokeGet(r) \/ RevokeSave(r) \/ RevokeAppend(r)
  \/ RevokeCleanup(r)

CommitStep(r) ==
  \/ CommitGet(r) \/ CommitFiles(r) \/ CommitRaises(r) \/ CommitSave(r)
  \/ CommitFailGet(r) \/ CommitFailSave(r) \/ CommitFailAppend(r)
  \/ CommitFailCleanup(r)

Next ==
  \/ \E q \in Requests : WebStep(q)
  \/ \E r \in Runs : RunStep(r) \/ CommitStep(r)
  \/ ReceiveRevoke
  \/ \E r, s \in Runs : Redeliver(r, s)
  \/ Restart
  \/ Expire

Spec == Init /\ [][Next]_vars

(* The worker keeps working and a page that is open keeps polling; nothing *)
(* obliges a user to act, a worker to restart or a result to expire.       *)
Fairness ==
  /\ \A r \in Runs : WF_vars(RunStep(r)) /\ WF_vars(CommitStep(r))
  /\ \A q \in Requests : WF_vars(PollStep(q))
  /\ WF_vars(ReceiveRevoke)

FairSpec == Spec /\ Fairness
------------------------------------------------------------------------------
(* Properties.                                                             *)

(* No outcome is invented: a job is FINISHED only if a commit task ended   *)
(* well, FAILURE only if one of its tasks raised, REVOKED only if somebody *)
(* asked for it, whichever stale copies were saved over the row since.     *)
OutcomeHappened(status) ==
  /\ status = FINISHED => \E r \in Runs : commit[r] = "done"
  /\ status = REVOKED  => asked
  /\ status = FAILURE  => raised

NoInventedOutcome == OutcomeHappened(row.status)

(* A job whose results were committed is shown as finished, or as ended    *)
(* otherwise; get_current_status cannot repair it, as SUCCESS is unknown.  *)
FinishIsRecorded ==
  \A r \in Runs : commit[r] = "done" => Terminal(row.status)

(* No outcome is forgotten: once commit ended, or run_script ended with a  *)
(* failure or a revocation that is in the result store, the row says that  *)
(* the job is over.                                                        *)
OutcomeIsRecorded ==
  /\ FinishIsRecorded
  /\ \A r \in Runs :
       (run[r] = "done" /\ result \in {"FAILURE", "REVOKED"})
         => Terminal(row.status)

(* The status of a job nobody asked to stop never goes down in the row.    *)
StatusNeverLowered == [][~asked' => row'.status >= row.status]_vars

(* Results are committed only when some were attached to the job.          *)
CommitsAttachedFiles ==
  \A r \in Runs : commit[r] # "none" => appended > 0

(* No container is left behind: one that exists belongs to a delivery that *)
(* is still to clean up, unless that went down with its worker.            *)
WillCleanUp ==
  {"script", "cleanup"} \cup FailingPoints \cup RevokingPoints

NoContainerLeaked ==
  (image /\ restarts = 0) => \E r \in Runs : run[r] \in WillCleanUp

(* When the worker has seen a revoke, no process executes run_script for   *)
(* the job or handles its failure, none will, and no commit task is linked *)
(* any more, unless the worker is restarted.  (A commit task that had been *)
(* linked is a task with an id of its own: it is not stopped.)             *)
Stopped == asked /\ ~revoking /\ restarts = 0

StopIsFinal ==
  [][Stopped' => \A r \in Runs :
       /\ run'[r] \notin Active
       /\ commit[r] = "none" => commit'[r] = "none"]_vars

(* While nobody edits the job, what each delivery executes is what the row *)
(* shows, whichever requests die, however often the message is delivered   *)
(* and whatever copies are saved over the row: start_job takes the plan    *)
(* from one copy, set_status writes it back from others.                   *)
PlanIsExecuted ==
  Editors = {} => \A r \in Runs : run[r] # "none" => args[r] = row.plan

(* Every published job comes to an end that its row shows.                 *)
PublishedJobEnds ==
  \A r \in Runs : run[r] = "queued" ~> Terminal(row.status)

Submitted == {"start", "sig_save", "publish", "edit_save"}

(* A failure that stays in the result store is shown in the end, when no   *)
(* more forms are submitted, also when stale copies were saved over it:    *)
(* whoever saved one, by a poll or by the edit form, is shown a page that  *)
(* polls on and repairs it.                                                *)
FailureIsHealed ==
  <>[](result = "FAILURE" /\ \A q \in Requests : web[q] \notin Submitted)
    => <>[](row.status = FAILURE)

------------------------------------------------------------------------------
(* Inductive strengthenings.                                               *)

StateHappened(state) ==
  /\ state = "REVOKED" => asked
  /\ state = "FAILURE" => raised

(* The rows and task states that tell of nothing that did not happen.      *)
SoundRows   == {obj \in Rows : OutcomeHappened(obj.status)}
SoundStates == {state \in TaskStates : StateHappened(state)}

(* Every copy of the row and of the task's state, however stale, is sound. *)
SoundCopies ==
  /\ row \in SoundRows
  /\ wobj \in [Requests -> SoundRows]
  /\ robj \in [Runs -> SoundRows]
  /\ cobj \in [Runs -> SoundRows]
  /\ wseen \in [Requests -> SoundStates]
  /\ rseen \in [Runs -> SoundStates]
  /\ result \in SoundStates

(* Handlers run only for what they handle.                                 *)
HandlersCalled ==
  /\ revoking \/ revoked => asked
  /\ \A r \in Runs : /\ run[r] \in RevokingPoints => asked
                     /\ run[r] \in FailingPoints => raised
                     /\ commit[r] \in CommitFailing => raised

(* A commit task is linked once, at the end of run_script.                 *)
LinkedOnce ==
  \A r \in Runs : commit[r] # "none" =>
    run[r] \in {"success", "done", "lost"} \cup RevokingPoints

OutcomeInv == LinkedOnce /\ SoundCopies /\ HandlersCalled

(* Without edits the row never changes its plan, and every copy and message*)
(* that is still of use carries it.                                        *)
Planned(obj) == obj.status # Absent /\ obj.plan = row.plan

WebPlanned ==
  \A q \in Requests :
    /\ web[q] # "edit_save"
    /\ web[q] # "idle" => Exists
    /\ web[q] \in {"start", "sig_save", "poll_state", "poll_save"}
         => Planned(wobj[q])
    /\ web[q] \in {"sig_save", "publish"} => kwargs[q] = row.plan

RunsPlanned ==
  \A r \in Runs :
    /\ run[r] # "none" => Exists /\ args[r] = row.plan
    /\ run[r] \in {"prerun_state", "prerun_save", "run_save", "fail_save",
                    "revoke_save"} => Planned(robj[r])

CommitsPlanned ==
  \A r \in Runs :
    /\ commit[r] # "none" => Exists
    /\ commit[r] \in {"work", "save", "fail_save"} => Planned(cobj[r])

PlanInv == Editors = {} => WebPlanned /\ RunsPlanned /\ CommitsPlanned

AttachedInv ==
  /\ CommitsAttachedFiles
  /\ \A r \in Runs : run[r] = "link" => appended > 0
==============================================================================
