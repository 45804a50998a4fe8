------------------------ MODULE JobRefinementProofs -------------------------
(***************************************************************************)
(* As long as nobody but the worker writes to the row of a published job,  *)
(* and its message is delivered once, the row keeps what the job page      *)
(* promises: for any windows that create and stop, and any restarts.       *)
(***************************************************************************)
EXTENDS JobRefinement, JobLifecycleProofs

WorkerOnly == Pollers = {} /\ Editors = {} /\ DeliveredOnce

(* One window creates and publishes the job; until it has, nobody else     *)
(* touches the row.                                                        *)
WebInv ==
  /\ \A q \in Requests : web[q] \in {"idle", "start", "sig_save", "publish"}
  /\ \A q, s \in Requests : web[q] # "idle" /\ web[s] # "idle" => q = s
  /\ \A q \in Requests : web[q] # "idle" =>
       /\ \A r \in Runs : run[r] = "none"
       /\ row.status = (IF web[q] = "publish" THEN SCHEDULED ELSE CREATED)
       /\ web[q] = "sig_save" => wobj[q].status = CREATED

(* Where the delivery is tells the status of the row and of its copy.      *)
Stage(r) ==
  /\ run[r] = "none" => row.status < PENDING /\ commit[r] = "none"
  /\ run[r] # "none" => row.status >= SCHEDULED
  /\ run[r] \in {"queued", "prerun", "prerun_state", "prerun_save"} =>
       row.status = SCHEDULED
  /\ run[r] \in {"none", "queued", "prerun", "prerun_state", "prerun_save",
                 "track"} => result = "PENDING"
  /\ run[r] \in {"prerun_state", "prerun_save"} => robj[r].status = SCHEDULED
  /\ run[r] = "prerun_save" => rseen[r] = "PENDING"
  /\ run[r] \in {"track", "run", "run_save"} => row.status = PENDING
  /\ run[r] = "run_save" => robj[r].status = PENDING
  /\ run[r] \in {"create", "copy", "script", "cleanup", "append", "link"} =>
       row.status = RUNNING
  /\ run[r] \in {"fail", "fail_get", "fail_save"} =>
       row.status \in {PENDING, RUNNING}
  /\ run[r] = "fail_save" => robj[r].status \in {PENDING, RUNNING}
  /\ run[r] \in {"fail_append", "fail_cleanup"} => row.status = FAILURE
  /\ run[r] = "revoke_save" /\ Terminal(robj[r].status) => Terminal(row.status)
  /\ run[r] \in {"revoke_append", "revoke_cleanup"} => Terminal(row.status)
  /\ run[r] = "done" /\ result \in {"FAILURE", "REVOKED"} => Terminal(row.status)

(* The same of the commit task, beside which only a revocation can write.  *)
Linked(r) ==
  /\ commit[r] # "none" => row.status >= RUNNING
  /\ commit[r] \in {"work", "save", "fail_save"} =>
       /\ cobj[r].status >= RUNNING
       /\ Terminal(cobj[r].status) => Terminal(row.status)
  /\ commit[r] \in {"queued", "work", "save", "fail_get", "fail_save"} /\ ~asked =>
       row.status = RUNNING
  /\ commit[r] \in {"fail_append", "fail_cleanup", "done", "failed"} =>
       Terminal(row.status)

WorkerInv == WebInv /\ \A r \in Runs : Stage(r) /\ Linked(r)

(* How a step changes the status.                                          *)
RowMoves ==
  \/ row'.status = row.status
  \/ /\ UNCHANGED asked
     /\ \/ row.status = Absent /\ row'.status = CREATED
        \/ row.status = CREATED /\ row'.status = SCHEDULED
        \/ row.status = SCHEDULED /\ row'.status = PENDING
        \/ row.status = PENDING /\ row'.status \in {RUNNING, FAILURE}
        \/ row.status = RUNNING /\ row'.status \in {FINISHED, FAILURE}
        \/ asked /\ row.status \in {SCHEDULED, PENDING, STARTED, RUNNING}
                 /\ row'.status = REVOKED
        \/ asked /\ row.status \in {FINISHED, REVOKED, FAILURE}
                 /\ row'.status \in {FINISHED, REVOKED, FAILURE}

(* The status of a copy on which set_status was called.                    *)
LEMMA StatusSet ==
  ASSUME NEW obj \in Rows, NEW name \in DOMAIN Code
  PROVE  /\ SetStatus(obj, name).status =
              (IF Code[name] > obj.status THEN Code[name] ELSE obj.status)
         /\ obj.status \in Nat
         /\ obj.status \in {0, 10, 20, 30, 40, 50, 100, 500, 999}
BY DEF SetStatus, Raise, Known, Rows, StatusValues, CREATED, SCHEDULED, PENDING,
       STARTED, RUNNING, FINISHED, REVOKED, FAILURE, Absent

LEMMA Codes ==
  /\ DOMAIN Code = {"SCHEDULED", "PENDING", "STARTED", "RUNNING", "FINISHED",
                    "REVOKED", "FAILURE"}
  /\ Code["SCHEDULED"] = 20 /\ Code["PENDING"] = 30 /\ Code["RUNNING"] = 50
  /\ Code["FINISHED"] = 100 /\ Code["REVOKED"] = 500 /\ Code["FAILURE"] = 999
BY DEF Code, SCHEDULED, PENDING, STARTED, RUNNING, FINISHED, REVOKED, FAILURE

LEMMA StatusRange ==
  ASSUME TypeOK
  PROVE  /\ row.status \in {0, 10, 20, 30, 40, 50, 100, 500, 999}
         /\ \A q \in Requests : wobj[q] \in Rows
         /\ \A r \in Runs : robj[r] \in Rows /\ cobj[r] \in Rows
         /\ row \in Rows
BY DEF TypeOK, Rows, StatusValues, CREATED, SCHEDULED, PENDING, STARTED,
       RUNNING, FINISHED, REVOKED, FAILURE, Absent

LEMMA WorkerInit == Init => WorkerInv
BY DEF Init, WorkerInv, WebInv, Stage, Linked, NoCopy, Absent, PENDING

(* While a delivery or a commit is there, no window is at the row.         *)
LEMMA WebDone ==
  ASSUME WorkerInv, NEW r \in Runs, run[r] # "none",
         webVars' = webVars, run'[r] # "none"
  PROVE  WebInv'
BY DEF WorkerInv, WebInv, webVars

LEMMA WorkerWeb ==
  ASSUME WorkerOnly, TypeOK, WorkerInv, NEW q \in Requests, WebStep(q)
  PROVE  WorkerInv' /\ RowMoves
<1> USE StatusRange DEF WorkerOnly, DeliveredOnce, Web, CREATED, SCHEDULED,
      PENDING, RUNNING, FINISHED, REVOKED, FAILURE, Absent, Terminal
<1>0. /\ web[q] \in {"idle", "start", "sig_save", "publish"}
      /\ web \in [Requests -> WebPoints]
      /\ wobj \in [Requests -> Rows]
      /\ run \in [Runs -> RunPoints]
  BY DEF WorkerInv, WebInv, TypeOK
<1>1. ASSUME NEW p \in Plans, CreateJob(q, p) PROVE WorkerInv' /\ RowMoves
  <2>1. row.status = 0 /\ row'.status = 10 /\ web[q] = "idle"
    BY <1>1 DEF CreateJob, Exists
  <2>2. \A r \in Runs : run[r] = "none" /\ commit[r] = "none" /\ result = "PENDING"
    BY <2>1 DEF WorkerInv, Stage
  <2>3. \A s \in Requests : web[s] = "idle"
    BY <2>1 DEF WorkerInv, WebInv
  <2>4. web' = [web EXCEPT ![q] = "start"]
        /\ UNCHANGED <<run, robj, rseen, commit, cobj, result, asked>>
    BY <1>1 DEF CreateJob, runVars, commitVars, brokerVars, history
  <2>5. WebInv'
    BY <1>0, <2>1, <2>2, <2>3, <2>4 DEF WebInv
  <2>6. \A r \in Runs : Stage(r)' /\ Linked(r)'
    BY <2>1, <2>2, <2>4 DEF Stage, Linked
  <2> QED
    BY <2>1, <2>4, <2>5, <2>6 DEF WorkerInv, RowMoves
<1>2. ASSUME NEW p \in Plans, EditGet(q, p) PROVE FALSE
  BY <1>2 DEF EditGet
<1>3. CASE PollStep(q) \/ EditSave(q) \/ OpenPage(q)
  BY <1>0, <1>3 DEF PollStep, PollGet, PollState, PollSave, EditSave, OpenPage
<1>4. CASE StartJob(q)
  <2>1. /\ web[q] = "start" /\ web' = [web EXCEPT ![q] = "sig_save"]
        /\ wobj' = [wobj EXCEPT ![q] = row]
        /\ UNCHANGED <<row, run, robj, rseen, commit, cobj, result, asked>>
    BY <1>4 DEF StartJob, runVars, commitVars, brokerVars, history
  <2>2. WebInv'
    BY <1>0, <2>1 DEF WorkerInv, WebInv
  <2> QED
    BY <2>1, <2>2 DEF WorkerInv, RowMoves, Stage, Linked
<1>5. CASE SetScheduled(q)
  <2>1. /\ web[q] = "sig_save" /\ web' = [web EXCEPT ![q] = "publish"]
        /\ row' = SetStatus(wobj[q], "SCHEDULED")
        /\ UNCHANGED <<run, robj, rseen, commit, cobj, result, asked>>
    BY <1>5 DEF SetScheduled, runVars, commitVars, brokerVars, history
  <2>2. row.status = 10 /\ row'.status = 20
    BY <2>1, StatusSet, Codes DEF WorkerInv, WebInv
  <2>3. \A r \in Runs : run[r] = "none" /\ commit[r] = "none" /\ result = "PENDING"
    BY <2>1 DEF WorkerInv, WebInv, Stage
  <2>4. WebInv'
    BY <1>0, <2>1, <2>2 DEF WorkerInv, WebInv
  <2>5. \A r \in Runs : Stage(r)' /\ Linked(r)'
    BY <2>1, <2>2, <2>3 DEF Stage, Linked
  <2> QED
    BY <2>1, <2>2, <2>4, <2>5 DEF WorkerInv, RowMoves
<1>6. CASE Publish(q)
  <2>1. /\ web[q] = "publish" /\ web' = [web EXCEPT ![q] = "idle"]
        /\ UNCHANGED <<row, robj, rseen, commit, cobj, result, asked>>
    BY <1>6 DEF Publish, Landing, commitVars, brokerVars, history
  <2>2. PICK r \in Runs : run[r] = "none" /\ run' = [run EXCEPT ![r] = "queued"]
    BY <1>6 DEF Publish
  <2>3. row.status = 20
    BY <2>1 DEF WorkerInv, WebInv
  <2>4. \A s \in Requests : web'[s] = "idle"
    BY <1>0, <2>1 DEF WorkerInv, WebInv
  <2>5. WebInv'
    BY <2>4 DEF WebInv
  <2>6. \A s \in Runs : s = r
    OBVIOUS
  <2>7. Stage(r)' /\ Linked(r)'
    BY <1>0, <2>1, <2>2, <2>3 DEF WorkerInv, Stage, Linked
  <2> QED
    BY <2>1, <2>5, <2>6, <2>7 DEF WorkerInv, RowMoves
<1>7. CASE RequestDies(q)
  <2>1. /\ web' = [web EXCEPT ![q] = "idle"]
        /\ wobj' = [wobj EXCEPT ![q] = NoCopy]
        /\ UNCHANGED <<row, run, robj, rseen, commit, cobj, result, asked>>
    BY <1>7 DEF RequestDies, runVars, commitVars, brokerVars, history
  <2>2. WebInv'
    BY <1>0, <2>1 DEF WorkerInv, WebInv
  <2> QED
    BY <2>1, <2>2 DEF WorkerInv, RowMoves, Stage, Linked
<1>8. CASE StopJob(q)
  <2>1. /\ UNCHANGED <<row, web, wobj, run, robj, rseen, commit, cobj, result>>
        /\ asked'
    BY <1>8 DEF StopJob, webVars, runVars, commitVars
  <2>2. WebInv' /\ \A r \in Runs : Stage(r)'
    BY <2>1 DEF WorkerInv, WebInv, Stage
  <2>3. \A r \in Runs : Linked(r)'
    BY <2>1 DEF WorkerInv, Linked
  <2> QED
    BY <2>1, <2>2, <2>3 DEF WorkerInv, RowMoves
<1> QED
  BY <1>1, <1>2, <1>3, <1>4, <1>5, <1>6, <1>7, <1>8 DEF WebStep

LEMMA WorkerRun ==
  ASSUME WorkerOnly, TypeOK, OutcomeInv, WorkerInv, NEW r \in Runs, RunStep(r)
  PROVE  WorkerInv' /\ RowMoves
<1> USE DEF WorkerOnly, DeliveredOnce, CREATED, SCHEDULED, PENDING, RUNNING,
      FINISHED, REVOKED, FAILURE, STARTED, Absent, Terminal
<1>0. /\ Stage(r) /\ Linked(r)
      /\ run \in [Runs -> RunPoints] /\ robj \in [Runs -> Rows]
      /\ rseen \in [Runs -> TaskStates]
      /\ \A s \in Runs : s = r
  BY DEF WorkerInv, TypeOK
<1>1. /\ run[r] # "none" /\ run'[r] # "none"
      /\ UNCHANGED <<webVars, asked>>
  BY <1>0, RunFrame DEF RunMoves
<1>2. commit[r] # "none" =>
        run[r] \in {"success", "done", "lost"} \cup RevokingPoints
  BY DEF OutcomeInv, LinkedOnce
<1>3. run[r] \in RevokingPoints => asked
  BY DEF OutcomeInv, HandlersCalled
<1>4. SUFFICES Stage(r)' /\ Linked(r)' /\ RowMoves
  <2>1. WebInv'
    BY <1>1, WebDone
  <2>2. \A s \in Runs : (Stage(s)' /\ Linked(s)') <=> (Stage(r)' /\ Linked(r)')
    BY <1>0
  <2> QED
    BY <2>1, <2>2 DEF WorkerInv
<1>5. CASE Take(r) \/ Discard(r) \/ Track(r) \/ ScriptEnds(r) \/ StoreSuccess(r)
           \/ StoreFailure(r) \/ StoreRevoked(r)
  BY <1>0, <1>5 DEF Take, Discard, Track, ScriptEnds, StoreSuccess, StoreFailure,
     StoreRevoked, Store, Run, Elsewhere, commitVars, Stage, Linked, RowMoves
<1>6. CASE PrerunGet(r) \/ RunGet(r) \/ FailGet(r) \/ RevokeGet(r)
  BY <1>0, <1>6 DEF PrerunGet, RunGet, FailGet, RevokeGet, ReadRow, Run,
     Elsewhere, commitVars, Stage, Linked, RowMoves
<1>7. CASE PrerunState(r)
  BY <1>0, <1>7 DEF PrerunState, Run, Elsewhere, commitVars, Stage, Linked,
     RowMoves
<1>8. CASE LookForImage(r) \/ CreateContainer(r) \/ Cleanup(r) \/ AppendFiles(r)
  BY <1>0, <1>8 DEF LookForImage, CreateContainer, Cleanup, AppendFiles, Run,
     Elsewhere, commitVars, Stage, Linked, RowMoves
<1>9. CASE RunNotBegun(r) \/ LookFails(r) \/ CreateFails(r) \/ ScriptFails(r)
           \/ CleanupRaises(r) \/ AppendRaises(r)
  <2>1. PICK from \in {"run", "run_save", "create", "copy", "script", "cleanup",
                       "append"} :
          RunRaises(r, from)
    BY <1>9 DEF RunNotBegun, LookFails, CreateFails, ScriptFails,
       CleanupRaises, AppendRaises
  <2> QED
    BY <1>0, <2>1 DEF RunRaises, Run, Elsewhere, commitVars, Stage, Linked,
       RowMoves
<1>10. CASE FailAppend(r) \/ RevokeAppend(r)
  BY <1>0, <1>10 DEF FailAppend, RevokeAppend, HandlerAppends, Run, Elsewhere,
     commitVars, Stage, Linked, RowMoves
<1>16. CASE FailCleanup(r) \/ RevokeCleanup(r)
  BY <1>0, <1>16 DEF FailCleanup, RevokeCleanup, HandlerCleans, Run, Elsewhere,
     commitVars, Stage, Linked, RowMoves
<1>11. CASE Link(r)
  <2>1. /\ run[r] = "link" /\ run' = [run EXCEPT ![r] = "success"]
        /\ commit' = [commit EXCEPT ![r] = "queued"]
        /\ UNCHANGED <<row, robj, cobj, result>>
    BY <1>11 DEF Link, Run, brokerVars
  <2>2. row.status = RUNNING /\ commit'[r] = "queued" /\ run'[r] = "success"
    BY <1>0, <2>1 DEF Stage, TypeOK
  <2> QED
    BY <1>0, <1>1, <2>1, <2>2 DEF Stage, Linked, RowMoves
<1>12. CASE PrerunSave(r)
  <2>1. /\ run[r] = "prerun_save" /\ run'[r] = "track"
        /\ rseen[r] = "PENDING" /\ robj[r].status = 20 /\ row.status = 20
        /\ UNCHANGED <<commit, cobj, result>>
    BY <1>0, <1>12 DEF PrerunSave, Run, Elsewhere, commitVars, Stage
  <2>2. row' = SetStatus(robj[r], "PENDING")
    BY <1>12, <2>1, Codes DEF PrerunSave, Known
  <2>3. row'.status = 30
    BY <1>0, <2>1, <2>2, StatusSet, Codes
  <2>4. commit[r] = "none"
    BY <1>2, <2>1 DEF RevokingPoints
  <2> QED
    BY <1>0, <1>1, <2>1, <2>3, <2>4 DEF Stage, Linked, RowMoves
<1>13. CASE RunSave(r)
  <2>1. /\ run[r] = "run_save" /\ run'[r] = "create"
        /\ robj[r].status = 30 /\ row.status = 30
        /\ row' = SetStatus(robj[r], "RUNNING")
        /\ UNCHANGED <<commit, cobj, result>>
    BY <1>0, <1>13 DEF RunSave, WriteRow, Run, Elsewhere, commitVars, Stage
  <2>2. row'.status = 50
    BY <1>0, <2>1, StatusSet, Codes
  <2>3. commit[r] = "none"
    BY <1>2, <2>1 DEF RevokingPoints
  <2> QED
    BY <1>0, <1>1, <2>1, <2>2, <2>3 DEF Stage, Linked, RowMoves
<1>14. CASE FailSave(r)
  <2>1. /\ run[r] = "fail_save" /\ run'[r] = "fail_append"
        /\ robj[r].status \in {30, 50} /\ row.status \in {30, 50}
        /\ row' = SetStatus(robj[r], "FAILURE")
        /\ UNCHANGED <<commit, cobj, result>>
    BY <1>0, <1>14 DEF FailSave, WriteRow, Run, Elsewhere, commitVars, Stage
  <2>2. row'.status = 999
    BY <1>0, <2>1, StatusSet, Codes
  <2>3. commit[r] = "none"
    BY <1>2, <2>1 DEF RevokingPoints
  <2> QED
    BY <1>0, <1>1, <2>1, <2>2, <2>3 DEF Stage, Linked, RowMoves
<1>15. CASE RevokeSave(r)
  <2>1. /\ run[r] = "revoke_save" /\ run'[r] = "revoke_append"
        /\ row' = SetStatus(robj[r], "REVOKED")
        /\ robj[r].status >= 100 => row.status >= 100
        /\ row.status >= 20
        /\ UNCHANGED <<commit, cobj, result>>
    BY <1>0, <1>15 DEF RevokeSave, WriteRow, Run, Elsewhere, commitVars, Stage
  <2>2. /\ robj[r].status \in {0, 10, 20, 30, 40, 50, 100, 500, 999}
        /\ row'.status = (IF 500 > robj[r].status THEN 500 ELSE robj[r].status)
    BY <1>0, <2>1, StatusSet, Codes
  <2>3. asked /\ asked'
    BY <1>1, <1>3, <2>1 DEF RevokingPoints
  <2>4. row.status \in {20, 30, 40, 50, 100, 500, 999}
    BY <2>1, StatusRange
  <2>5. row'.status \in {500, 999} /\ (row'.status = 999 => row.status >= 100)
    BY <2>1, <2>2
  <2>6. Stage(r)' /\ Linked(r)'
    BY <1>0, <2>1, <2>3, <2>5 DEF Stage, Linked
  <2> QED
    BY <1>1, <2>3, <2>4, <2>5, <2>6 DEF RowMoves
<1> QED
  BY <1>5, <1>6, <1>7, <1>8, <1>9, <1>10, <1>11, <1>12, <1>13, <1>14, <1>15,
     <1>16
     DEF RunStep

LEMMA WorkerCommit ==
  ASSUME WorkerOnly, TypeOK, OutcomeInv, WorkerInv, NEW r \in Runs,
         CommitStep(r)
  PROVE  WorkerInv' /\ RowMoves
<1> USE DEF WorkerOnly, DeliveredOnce, CREATED, SCHEDULED, PENDING, RUNNING,
      FINISHED, REVOKED, FAILURE, STARTED, Absent, Terminal
<1>0. /\ Stage(r) /\ Linked(r)
      /\ commit \in [Runs -> CommitPoints] /\ cobj \in [Runs -> Rows]
      /\ \A s \in Runs : s = r
  BY DEF WorkerInv, TypeOK
<1>1. /\ commit[r] # "none"
      /\ UNCHANGED <<webVars, web, wobj, run, robj, rseen, result, asked>>
  BY CommitFrame DEF CommitMoves, webVars, runVars, brokerVars
<1>2. run[r] \in {"success", "done", "lost"} \cup RevokingPoints
  BY <1>1 DEF OutcomeInv, LinkedOnce
<1>3. row.status \in {50, 100, 500, 999} /\ (~asked => row.status >= 50)
  BY <1>0, <1>1, StatusRange DEF Linked
<1>4. SUFFICES Stage(r)' /\ Linked(r)' /\ RowMoves
  <2>1. WebInv'
    BY <1>1, <1>2, WebDone DEF RevokingPoints
  <2>2. \A s \in Runs : (Stage(s)' /\ Linked(s)') <=> (Stage(r)' /\ Linked(r)')
    BY <1>0
  <2> QED
    BY <2>1, <2>2 DEF WorkerInv
<1>5. CASE CommitGet(r) \/ CommitFiles(r) \/ CommitRaises(r) \/ CommitFailGet(r)
           \/ CommitFailAppend(r)
  BY <1>0, <1>1, <1>2, <1>3, <1>5 DEF CommitGet, CommitFiles, CommitRaises,
     CommitFailGet, CommitFailAppend, Commit, CommitElsewhere, RevokingPoints,
     Stage, Linked, RowMoves
<1>6. CASE CommitFailCleanup(r)
  BY <1>0, <1>1, <1>2, <1>3, <1>6 DEF CommitFailCleanup, Commit,
     CommitElsewhere, RevokingPoints, Stage, Linked, RowMoves
<1>7. CASE CommitSave(r)
  <2>1. /\ commit[r] = "save" /\ commit'[r] = "done"
        /\ row' = SetStatus(cobj[r], "FINISHED")
        /\ cobj[r].status >= 50
        /\ cobj[r].status >= 100 => row.status >= 100
        /\ ~asked => row.status = 50
    BY <1>0, <1>7 DEF CommitSave, Commit, Linked
  <2>2. /\ cobj[r].status \in {0, 10, 20, 30, 40, 50, 100, 500, 999}
        /\ row'.status = (IF 100 > cobj[r].status THEN 100 ELSE cobj[r].status)
    BY <1>0, <2>1, StatusSet, Codes
  <2>3. /\ row'.status \in {100, 500, 999}
        /\ row'.status # 100 => row.status >= 100
    BY <2>1, <2>2
  <2>4. Stage(r)' /\ Linked(r)'
    BY <1>0, <1>1, <1>2, <2>1, <2>3 DEF RevokingPoints, Stage, Linked
  <2>5. RowMoves
    BY <1>1, <1>3, <2>1, <2>3 DEF RowMoves
  <2> QED
    BY <2>4, <2>5
<1>8. CASE CommitFailSave(r)
  <2>1. /\ commit[r] = "fail_save" /\ commit'[r] = "fail_append"
        /\ row' = SetStatus(cobj[r], "FAILURE")
        /\ ~asked => row.status = 50
    BY <1>0, <1>8 DEF CommitFailSave, Commit, Linked
  <2>2. row'.status = 999
    BY <1>0, <2>1, StatusSet, Codes
  <2>3. Stage(r)' /\ Linked(r)'
    BY <1>0, <1>1, <1>2, <2>1, <2>2 DEF RevokingPoints, Stage, Linked
  <2>4. RowMoves
    BY <1>1, <1>3, <2>1, <2>2 DEF RowMoves
  <2> QED
    BY <2>3, <2>4
<1> QED
  BY <1>5, <1>6, <1>7, <1>8 DEF CommitStep

LEMMA WorkerBroker ==
  ASSUME WorkerOnly, TypeOK, OutcomeInv, WorkerInv,
         \/ ReceiveRevoke \/ Restart \/ Expire
         \/ \E r, s \in Runs : Redeliver(r, s)
  PROVE  WorkerInv' /\ RowMoves
<1> USE DEF WorkerOnly, DeliveredOnce, PENDING, RUNNING
<1>1. CASE ReceiveRevoke
  <2>1. UNCHANGED <<row, webVars, commit, cobj, result, asked>>
    BY <1>1 DEF ReceiveRevoke, commitVars, history
  <2>2. RowMoves
    BY <2>1 DEF RowMoves
  <2>3. CASE UNCHANGED <<run, robj, rseen>>
    BY <2>1, <2>2, <2>3 DEF webVars, WorkerInv, WebInv, Stage, Linked
  <2>4. ASSUME NEW r \in Runs, run[r] \in Active,
               run' = [run EXCEPT ![r] = "revoke"]
        PROVE  WorkerInv'
    <3>1. run[r] # "none" /\ run'[r] = "revoke" /\ \A s \in Runs : s = r
      BY <2>4 DEF Active, RunningPoints, FailingPoints, TypeOK
    <3>2. WebInv'
      BY <2>1, <3>1, WebDone
    <3>3. Stage(r)' /\ Linked(r)'
      BY <2>1, <3>1 DEF WorkerInv, Stage, Linked
    <3> QED
      BY <3>1, <3>2, <3>3 DEF WorkerInv
  <2> QED
    BY <1>1, <2>2, <2>3, <2>4 DEF ReceiveRevoke
<1>2. CASE Restart
  <2>1. /\ UNCHANGED <<row, web, wobj, result, asked>>
        /\ \A r \in Runs : run'[r] \in {run[r], "lost"} \ (Active \cup RevokingPoints)
        /\ \A r \in Runs : commit'[r] \in {commit[r], "lost"} \ CommitBusy
        /\ \A r \in Runs : run[r] = "none" => run'[r] = "none"
        /\ \A r \in Runs : commit[r] = "none" => commit'[r] = "none"
        /\ \A r \in Runs : run'[r] = "lost" => run[r] # "none"
        /\ \A r \in Runs : commit'[r] = "lost" => commit[r] # "none"
    BY <1>2 DEF Restart, webVars, history, Active, RunningPoints, FailingPoints,
       RevokingPoints, CommitBusy, CommitFailing
  <2>2. WebInv'
    BY <2>1 DEF WorkerInv, WebInv
  <2>3. ASSUME NEW r \in Runs PROVE Stage(r)' /\ Linked(r)'
    BY <2>1 DEF WorkerInv, Stage, Linked, Active, RunningPoints, FailingPoints,
       RevokingPoints, CommitBusy, CommitFailing
  <2> QED
    BY <2>1, <2>2, <2>3 DEF WorkerInv, RowMoves
<1>3. CASE Expire
  <2>1. /\ UNCHANGED <<row, web, wobj, run, robj, rseen, commit, cobj, asked>>
        /\ result' = "PENDING"
    BY <1>3 DEF Expire, webVars, runVars, commitVars, history
  <2>2. WebInv'
    BY <2>1 DEF WorkerInv, WebInv
  <2>3. ASSUME NEW r \in Runs PROVE Stage(r)' /\ Linked(r)'
    BY <2>1 DEF WorkerInv, Stage, Linked
  <2> QED
    BY <2>1, <2>2, <2>3 DEF WorkerInv, RowMoves
<1>4. ASSUME NEW r \in Runs, NEW s \in Runs, Redeliver(r, s) PROVE FALSE
  BY <1>4 DEF Redeliver
<1> QED
  BY <1>1, <1>2, <1>3, <1>4

LEMMA WorkerInvHolds ==
  ASSUME WorkerOnly PROVE Spec => [](TypeOK /\ OutcomeInv /\ WorkerInv)
<1>1. TypeOK /\ OutcomeInv /\ WorkerInv /\ [Next]_vars => WorkerInv'
  <2> SUFFICES ASSUME TypeOK, OutcomeInv, WorkerInv, [Next]_vars
               PROVE  WorkerInv'
    OBVIOUS
  <2>1. CASE UNCHANGED vars
    BY <2>1 DEF vars, webVars, runVars, commitVars, brokerVars, history,
       WorkerInv, WebInv, Stage, Linked
  <2> QED
    BY <2>1, WorkerWeb, WorkerRun, WorkerCommit, WorkerBroker DEF Next
<1> QED
  BY <1>1, WorkerInit, OutcomeInvHolds, PTL DEF Spec

LEMMA RowSteps ==
  ASSUME WorkerOnly, TypeOK, OutcomeInv, WorkerInv, Next PROVE RowMoves
BY WorkerWeb, WorkerRun, WorkerCommit, WorkerBroker DEF Next

(* A commit that ended, a failure and a revocation are in the row: nothing *)
(* but a stale copy of a window or of a second delivery takes them out.    *)
THEOREM OutcomesRecorded ==
  ASSUME WorkerOnly PROVE Spec => []OutcomeIsRecorded
<1>1. TypeOK /\ OutcomeInv /\ WorkerInv => OutcomeIsRecorded
  BY DEF WorkerInv, Stage, Linked, OutcomeIsRecorded, FinishIsRecorded
<1> QED
  BY <1>1, WorkerInvHolds, PTL

(* The status shown of a job nobody asked to stop only ever rises, from    *)
(* one status of the worker to the next, through failures and restarts.    *)
THEOREM StatusOnlyRises == ASSUME WorkerOnly PROVE Spec => StatusNeverLowered
<1>1. TypeOK /\ OutcomeInv /\ WorkerInv /\ [Next]_vars
        => [~asked' => row'.status >= row.status]_vars
  <2> SUFFICES ASSUME TypeOK, OutcomeInv, WorkerInv, Next, ~asked'
               PROVE  row'.status >= row.status
    OBVIOUS
  <2>1. RowMoves
    BY RowSteps
  <2> QED
    BY <2>1, StatusRange DEF RowMoves, CREATED, SCHEDULED, PENDING, STARTED,
       RUNNING, FINISHED, REVOKED, FAILURE, Absent
<1> QED
  BY <1>1, WorkerInvHolds, PTL DEF Spec, StatusNeverLowered

(* Somebody may ask for the end of a job that exists, and nothing else     *)
(* changes in that step.                                                   *)
LEMMA AskSteps ==
  ASSUME TypeOK, [Next]_vars
  PROVE  UNCHANGED asked \/ (Exists /\ asked' = TRUE /\ UNCHANGED row)
<1>1. ASSUME NEW q \in Requests, WebStep(q)
      PROVE  UNCHANGED asked \/ (Exists /\ asked' = TRUE /\ UNCHANGED row)
  BY <1>1 DEF WebStep, CreateJob, EditGet, StartJob, SetScheduled, Publish,
     OpenPage, PollStep, PollGet, PollState, PollSave, EditSave, RequestDies,
     StopJob, history
<1>2. ASSUME NEW r \in Runs, RunStep(r) \/ CommitStep(r)
      PROVE  UNCHANGED asked
  BY <1>2, RunFrame, CommitFrame
<1>3. CASE ReceiveRevoke \/ Restart \/ Expire
           \/ \E r, s \in Runs : Redeliver(r, s)
  BY <1>3 DEF ReceiveRevoke, Restart, Expire, Redeliver, history
<1>4. CASE UNCHANGED vars
  BY <1>4 DEF vars, history
<1> QED
  BY <1>1, <1>2, <1>3, <1>4 DEF Next

LEMMA Phases ==
  ASSUME TypeOK
  PROVE  /\ Phase = "new"      <=> row.status = 0
         /\ Phase = "waiting"  <=> row.status \in {10, 20, 30, 40}
         /\ Phase = "running"  <=> row.status = 50
         /\ Phase = "finished" <=> row.status = 100
         /\ Phase = "revoked"  <=> row.status = 500
         /\ Phase = "failed"   <=> row.status = 999
BY StatusRange DEF Phase, RUNNING, FINISHED, REVOKED, FAILURE, Absent

LEMMA PhasesNext ==
  ASSUME TypeOK'
  PROVE  /\ Phase' = "new"      <=> row'.status = 0
         /\ Phase' = "waiting"  <=> row'.status \in {10, 20, 30, 40}
         /\ Phase' = "running"  <=> row'.status = 50
         /\ Phase' = "finished" <=> row'.status = 100
         /\ Phase' = "revoked"  <=> row'.status = 500
         /\ Phase' = "failed"   <=> row'.status = 999
<1>1. row'.status \in {0, 10, 20, 30, 40, 50, 100, 500, 999}
  BY DEF TypeOK, Rows, StatusValues, CREATED, SCHEDULED, PENDING, STARTED,
     RUNNING, FINISHED, REVOKED, FAILURE, Absent
<1> QED
  BY <1>1 DEF Phase, RUNNING, FINISHED, REVOKED, FAILURE, Absent

(* The row keeps what the job page promises: a job waits, runs, and comes  *)
(* to one outcome; that only changes when somebody asked to stop the job.  *)
THEOREM PromiseIsKept == ASSUME WorkerOnly PROVE Spec => PromiseKept
<1>1. Init => Promise!Init
  <2> SUFFICES ASSUME Init PROVE Promise!Init
    OBVIOUS
  <2>1. row.status = 0 /\ asked = FALSE
    BY DEF Init, NoCopy, Absent
  <2> QED
    BY <2>1, InitType, Phases DEF Promise!Init
<1>2. TypeOK /\ TypeOK' /\ OutcomeInv /\ WorkerInv /\ [Next]_vars
        => [Promise!Next]_(Promise!vars)
  <2> SUFFICES ASSUME TypeOK, TypeOK', OutcomeInv, WorkerInv, [Next]_vars
               PROVE  [Promise!Next]_(Promise!vars)
    OBVIOUS
  <2> USE DEF Promise!vars, Promise!Next
  <2>1. CASE row'.status = row.status /\ UNCHANGED asked
    <3>1. Phase' = Phase
      BY <2>1 DEF Phase
    <3> QED
      BY <2>1, <3>1
  <2>2. CASE ~ UNCHANGED asked
    <3>1. Phase' = Phase /\ Phase # "new" /\ asked' = TRUE
      BY <2>2, AskSteps, Phases DEF Phase, Exists, Absent
    <3> QED
      BY <3>1 DEF Promise!Ask
  <2>3. CASE row'.status # row.status
    <3>1. RowMoves /\ UNCHANGED asked
      BY <2>3, RowSteps DEF RowMoves, vars
    <3>2. \/ Phase = "waiting" /\ Phase' = "waiting"
          \/ Phase = "new" /\ Phase' = "waiting"
          \/ Phase = "waiting" /\ Phase' = "running"
          \/ Phase = "waiting" /\ Phase' = "failed"
          \/ Phase = "running" /\ Phase' \in {"finished", "failed"}
          \/ asked /\ Phase \in {"waiting", "running"} /\ Phase' = "revoked"
          \/ asked /\ Phase \in Promise!Outcomes /\ Phase' \in Promise!Outcomes
      BY <2>3, <3>1, Phases, PhasesNext DEF RowMoves, Promise!Outcomes, CREATED,
         SCHEDULED, PENDING, STARTED, RUNNING, FINISHED, REVOKED, FAILURE, Absent
    <3> QED
      BY <3>1, <3>2 DEF Promise!Move, Promise!Submit, Promise!Begin,
         Promise!Finish, Promise!Fail, Promise!Revoke, Promise!Revise,
         Promise!Outcomes
  <2> QED
    BY <2>1, <2>2, <2>3
<1> QED
  BY <1>1, <1>2, WorkerInvHolds, PTL DEF Spec, PromiseKept, Promise!Spec

------------------------------------------------------------------------------
(* ContainerKept.                                                          *)

(* How a step of a delivery changes where it stands to the container.      *)
StandMoves(r) ==
  LET to == Stand(r)' IN
  \/ to = Stand(r) /\ UNCHANGED image
  \/ Stand(r) = "waiting" /\ to = "ready" /\ ~image /\ UNCHANGED image
  \/ Stand(r) = "ready" /\ to = "using" /\ image' = TRUE
  \/ Stand(r) = "ready" /\ to = "owing" /\ image' = TRUE
  \/ /\ Stand(r) \in {"waiting", "ready", "using", "rid"}
     /\ to = "owing" /\ UNCHANGED image
  \/ Stand(r) \in {"using", "owing"} /\ to = "rid" /\ image' = FALSE
  \/ Stand(r) = "owing" /\ to = "rid" /\ UNCHANGED image

LEMMA StandStep ==
  ASSUME TypeOK, NEW r \in Runs, RunStep(r)
  PROVE  /\ StandMoves(r)
         /\ \A s \in Runs : s # r => Stand(s)' = Stand(s)
<1>1. \A s \in Runs : s # r => Stand(s)' = Stand(s)
  <2>1. \A s \in Runs : s # r => run'[s] = run[s]
    BY RunFrame DEF TypeOK
  <2> QED
    BY ONLY <2>1 DEF Stand
<1> SUFFICES StandMoves(r)
  BY <1>1
<1>0. run \in [Runs -> RunPoints] /\ image \in BOOLEAN
  BY DEF TypeOK
<1> USE DEF Run, Stand, FailingPoints, RevokingPoints, envVars
<1>2. CASE Take(r) \/ Discard(r) \/ PrerunState(r) \/ PrerunSave(r)
  BY ONLY <1>0, <1>2, r \in Runs
     DEF StandMoves, Take, Discard, PrerunState, PrerunSave
<1>3. CASE PrerunGet(r) \/ RunGet(r) \/ FailGet(r) \/ RevokeGet(r)
  BY ONLY <1>0, <1>3, r \in Runs
     DEF StandMoves, PrerunGet, RunGet, FailGet, RevokeGet, ReadRow
<1>4. CASE RunSave(r) \/ FailSave(r) \/ RevokeSave(r)
  BY ONLY <1>0, <1>4, r \in Runs
     DEF StandMoves, RunSave, FailSave, RevokeSave, WriteRow
<1>5. CASE Track(r) \/ StoreSuccess(r) \/ StoreFailure(r) \/ StoreRevoked(r)
  BY ONLY <1>0, <1>5, r \in Runs
     DEF StandMoves, Track, StoreSuccess, StoreFailure, StoreRevoked, Store
<1>6. CASE LookForImage(r) \/ CreateContainer(r) \/ ScriptEnds(r) \/ Cleanup(r)
  BY ONLY <1>0, <1>6, r \in Runs
     DEF StandMoves, LookForImage, CreateContainer, ScriptEnds, Cleanup
<1>7. CASE RunNotBegun(r) \/ LookFails(r) \/ CreateFails(r) \/ ScriptFails(r)
           \/ CleanupRaises(r)
  BY ONLY <1>0, <1>7, r \in Runs
     DEF StandMoves, RunNotBegun, LookFails, CreateFails, ScriptFails,
         CleanupRaises, RunRaises
<1>8. CASE AppendFiles(r) \/ AppendRaises(r) \/ Link(r)
  BY ONLY <1>0, <1>8, r \in Runs
     DEF StandMoves, AppendFiles, AppendRaises, RunRaises, Link
<1>9. CASE FailAppend(r) \/ RevokeAppend(r)
  BY ONLY <1>0, <1>9, r \in Runs
     DEF StandMoves, FailAppend, RevokeAppend, HandlerAppends
<1>10. CASE FailCleanup(r) \/ RevokeCleanup(r)
  BY ONLY <1>0, <1>10, r \in Runs
     DEF StandMoves, FailCleanup, RevokeCleanup, HandlerCleans
<1> HIDE DEF Stand, Run
<1> QED
  BY <1>2, <1>3, <1>4, <1>5, <1>6, <1>7, <1>8, <1>9, <1>10 DEF RunStep

Standing == [r \in Runs |-> Stand(r)]

(* The steps of JobLifecycle that stand for a container (the look for an   *)
(* image, the creation, the clean-ups) keep the promise that Container     *)
(* keeps with its calls, however often the message is delivered, revoked   *)
(* and lost with its worker: who creates has seen no image before, though  *)
(* another delivery may have made one since.                               *)
THEOREM ContainerIsKept == Spec => ContainerKept
<1>1. Init => Promised!Init
  <2> SUFFICES ASSUME Init PROVE Promised!Init
    OBVIOUS
  <2>1. \A r \in Runs : Stand(r) = "waiting"
    BY DEF Init, Stand, FailingPoints, RevokingPoints
  <2> QED
    BY <2>1 DEF Init, Promised!Init
<1>2. TypeOK /\ OutcomeInv /\ [Next]_vars => [Promised!Next]_(Promised!vars)
  <2> SUFFICES ASSUME TypeOK, OutcomeInv, [Next]_vars
               PROVE  [Promised!Next]_(Promised!vars)
    OBVIOUS
  <2>a. CASE UNCHANGED image /\ \A r \in Runs : Stand(r)' = Stand(r)
    BY <2>a DEF Promised!vars
  <2>1. ASSUME NEW q \in Requests, WebStep(q)
        PROVE  UNCHANGED image /\ \A r \in Runs : Stand(r)' = Stand(r)
    BY <2>1, WebFrame
       DEF envVars, Stand, TypeOK, FailingPoints, RevokingPoints
  <2>2. ASSUME NEW r \in Runs, RunStep(r)
        PROVE  [Promised!Next]_(Promised!vars)
    <3>1. Standing[r] = Stand(r)
      BY DEF Standing
    <3>2. Standing' = [Standing EXCEPT ![r] = Stand(r)']
      BY <2>2, StandStep DEF Standing
    <3>3. StandMoves(r)
      BY <2>2, StandStep
    <3>4. CASE Stand(r)' = Stand(r) /\ UNCHANGED image
      BY <2>2, <2>a, <3>4, StandStep
    <3>5. CASE ~(Stand(r)' = Stand(r) /\ UNCHANGED image)
      <4>1. \/ Promised!Look(r) \/ Promised!Create(r)
            \/ Promised!CreateFails(r) \/ Promised!Fail(r)
            \/ Promised!Remove(r) \/ Promised!Abandon(r)
        BY <3>1, <3>2, <3>3, <3>5
           DEF StandMoves, Promised!Look, Promised!Create,
               Promised!CreateFails, Promised!Fail, Promised!Remove,
               Promised!Abandon, Promised!Move, Standing
      <4> QED
        BY <4>1 DEF Promised!Next
    <3> QED
      BY <3>4, <3>5
  <2>3. ASSUME NEW r \in Runs, CommitStep(r)
        PROVE  [Promised!Next]_(Promised!vars)
    <3>1. \A s \in Runs : Stand(s)' = Stand(s)
      BY <2>3, CommitFrame DEF runVars, Stand
    <3>2. UNCHANGED image \/ image' = FALSE
      BY <2>3 DEF CommitStep, CommitGet, CommitFiles, CommitRaises, CommitSave,
         CommitFailGet, CommitFailSave, CommitFailAppend, CommitFailCleanup,
         envVars
    <3>3. commit[r] # "none"
      BY <2>3, CommitFrame DEF CommitMoves
    <3>4. Stand(r) \in {"owing", "rid"}
      BY <3>3 DEF OutcomeInv, LinkedOnce, Stand, FailingPoints, RevokingPoints
    <3>5. CASE image' = FALSE
      <4>1. Promised!RemoveAgain(r)
        BY <3>1, <3>4, <3>5 DEF Promised!RemoveAgain
      <4> QED
        BY <4>1 DEF Promised!Next
    <3> QED
      BY <2>a, <3>1, <3>2, <3>5
  <2>4. CASE ReceiveRevoke
    <3>1. UNCHANGED image
      BY <2>4 DEF ReceiveRevoke, envVars
    <3>2. CASE UNCHANGED run
      BY <2>a, <3>1, <3>2 DEF Stand
    <3>3. ASSUME NEW r \in Runs, run[r] \in Active,
                 run' = [run EXCEPT ![r] = "revoke"]
          PROVE  [Promised!Next]_(Promised!vars)
      <4>1. Stand(r)' = "owing" /\ \A s \in Runs : s # r => Stand(s)' = Stand(s)
        BY <3>3 DEF Stand, TypeOK, FailingPoints, RevokingPoints
      <4>2. CASE Stand(r) = "owing"
        BY <2>a, <3>1, <4>1, <4>2
      <4>3. CASE Stand(r) # "owing"
        <5>1. Stand(r) \in {"waiting", "ready", "using", "rid"}
          BY <4>3 DEF Stand
        <5>2. Promised!Fail(r)
          BY <3>1, <4>1, <5>1 DEF Promised!Fail, Promised!Move
        <5> QED
          BY <5>2 DEF Promised!Next
      <4> QED
        BY <4>2, <4>3
    <3> QED
      BY <2>4, <3>2, <3>3 DEF ReceiveRevoke
  <2>5. ASSUME NEW r \in Runs, NEW s \in Runs, Redeliver(r, s)
        PROVE  UNCHANGED image /\ \A t \in Runs : Stand(t)' = Stand(t)
    BY <2>5 DEF Redeliver, envVars, Stand, TypeOK, FailingPoints, RevokingPoints
  <2>6. CASE Restart
    <3> DEFINE dead == {r \in Runs : run[r] \in Active \cup RevokingPoints}
    <3>1. UNCHANGED image
      BY <2>6 DEF Restart, envVars
    <3>2. \A r \in Runs : Stand(r)' = IF r \in dead THEN "rid" ELSE Stand(r)
      BY <2>6 DEF Restart, Stand, FailingPoints, RevokingPoints
    <3>3. Promised!Crash
      BY <3>1, <3>2 DEF Promised!Crash
    <3> QED
      BY <3>3 DEF Promised!Next
  <2>7. CASE Expire \/ UNCHANGED vars
    BY <2>a, <2>7 DEF Expire, vars, runVars, envVars, Stand
  <2> QED
    BY <2>a, <2>1, <2>2, <2>3, <2>4, <2>5, <2>6, <2>7 DEF Next
<1> QED
  BY <1>1, <1>2, OutcomeInvHolds, PTL DEF Spec, ContainerKept, Promised!Spec
=============================================================================
