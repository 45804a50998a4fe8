------------------------- MODULE JobLifecycleProofs -------------------------
(***************************************************************************)
(* Theorems about JobLifecycle for every number of requests, deliveries,   *)
(* restarts and plans.                                                     *)
(***************************************************************************)
EXTENDS JobLifecycle, TLAPS

(* What set_status makes of a copy of the row is a copy of a row.          *)
LEMMA SetStatusType ==
  ASSUME NEW obj \in Rows, NEW name
  PROVE  SetStatus(obj, name) \in Rows
BY DEF SetStatus, Raise, Known, Code, Rows, StatusValues, CREATED, SCHEDULED,
       PENDING, STARTED, RUNNING, FINISHED, REVOKED, FAILURE, Absent

LEMMA NoCopyType == NoCopy \in Rows
BY ConstantsAssumption DEF NoCopy, AnyPlan, Rows

LEMMA InitType == Init => TypeOK
<1> SUFFICES ASSUME Init PROVE TypeOK
  OBVIOUS
<1> AnyPlan \in Plans
  BY ConstantsAssumption DEF AnyPlan
<1>1. /\ row \in Rows
      /\ wobj \in [Requests -> Rows]
      /\ robj \in [Runs -> Rows]
      /\ cobj \in [Runs -> Rows]
  BY NoCopyType DEF Init
<1>2. /\ web \in [Requests -> WebPoints]
      /\ wseen \in [Requests -> TaskStates]
      /\ kwargs \in [Requests -> Plans]
  BY DEF Init, WebPoints, TaskStates
<1>3. /\ run \in [Runs -> RunPoints]
      /\ args \in [Runs -> Plans]
      /\ rseen \in [Runs -> TaskStates]
      /\ commit \in [Runs -> CommitPoints]
  BY DEF Init, RunPoints, CommitPoints, TaskStates
<1>4. restarts \in 0..MaxRestarts
  BY ConstantsAssumption DEF Init
<1> QED
  BY <1>1, <1>2, <1>3, <1>4 DEF Init, TypeOK, TaskStates

LEMMA WebType == ASSUME TypeOK, NEW q \in Requests, WebStep(q) PROVE TypeOK'
<1> USE NoCopyType, ConstantsAssumption DEF TypeOK, Web, WebPoints, TaskStates,
      webVars, runVars, commitVars, brokerVars, envVars, history
<1>0. AnyPlan \in Plans BY DEF AnyPlan
<1>1. ASSUME NEW p \in Plans, CreateJob(q, p) PROVE TypeOK'
  BY <1>1 DEF CreateJob, Rows, StatusValues
<1>2. ASSUME NEW p \in Plans, EditGet(q, p) PROVE TypeOK'
  BY <1>2 DEF EditGet, Rows
<1>3. CASE StartJob(q) BY <1>3 DEF StartJob, Rows
<1>4. CASE SetScheduled(q) BY <1>4, SetStatusType DEF SetScheduled
<1>5. CASE Publish(q)
  BY <1>0, <1>5 DEF Publish, Landing, RunPoints
<1>6. CASE OpenPage(q) BY <1>6 DEF OpenPage
<1>7. CASE PollGet(q) BY <1>7 DEF PollGet
<1>8. CASE PollState(q) BY <1>8 DEF PollState, AfterPoll
<1>9. CASE PollSave(q) BY <1>9, SetStatusType DEF PollSave, AfterPoll
<1>10. CASE EditSave(q) BY <1>10 DEF EditSave, Landing
<1>11. CASE RequestDies(q) BY <1>0, <1>11 DEF RequestDies
<1>12. CASE StopJob(q) BY <1>12 DEF StopJob
<1> QED
  BY <1>1, <1>2, <1>3, <1>4, <1>5, <1>6, <1>7, <1>8, <1>9, <1>10, <1>11,
     <1>12 DEF WebStep, PollStep

(* Steps of a delivery are built from a few shapes.                        *)
LEMMA ShapeTypes ==
  ASSUME TypeOK, NEW r \in Runs, NEW from, NEW to \in RunPoints
  PROVE  /\ ReadRow(r, from, to) => TypeOK'
         /\ \A name : WriteRow(r, from, name, to) => TypeOK'
         /\ \A state \in TaskStates : Store(r, from, state, to) => TypeOK'
         /\ HandlerAppends(r, from, to) => TypeOK'
         /\ HandlerCleans(r, from) => TypeOK'
<1> USE DEF TypeOK, Run, Elsewhere, webVars, commitVars, envVars
<1>1. ReadRow(r, from, to) => TypeOK'
  BY DEF ReadRow
<1>2. ASSUME NEW name, WriteRow(r, from, name, to) PROVE TypeOK'
  BY <1>2, SetStatusType, NoCopyType DEF WriteRow
<1>3. ASSUME NEW state \in TaskStates, Store(r, from, state, to) PROVE TypeOK'
  BY <1>3 DEF Store
<1>4. HandlerAppends(r, from, to) => TypeOK'
  BY DEF HandlerAppends
<1>5. HandlerCleans(r, from) => TypeOK'
  BY DEF HandlerCleans, RunPoints
<1> QED
  BY <1>1, <1>2, <1>3, <1>4, <1>5

LEMMA RunType == ASSUME TypeOK, NEW r \in Runs, RunStep(r) PROVE TypeOK'
<1>s. TaskStates = {"PENDING", "STARTED", "SUCCESS", "FAILURE", "REVOKED"}
  BY DEF TaskStates
<1>a. {"prerun_state", "track", "run", "run_save", "create", "done", "fail_get",
       "fail_save", "fail_append", "fail_cleanup", "revoke_get", "revoke_save",
       "revoke_append", "revoke_cleanup"} \subseteq RunPoints
  BY DEF RunPoints, Active, RunningPoints, FailingPoints, RevokingPoints
<1>1. CASE \/ PrerunGet(r) \/ RunGet(r) \/ FailGet(r) \/ RevokeGet(r)
  BY <1>1, <1>a, ShapeTypes DEF PrerunGet, RunGet, FailGet, RevokeGet
<1>2. CASE \/ RunSave(r) \/ FailSave(r) \/ RevokeSave(r)
  BY <1>2, <1>a, ShapeTypes DEF RunSave, FailSave, RevokeSave
<1>3. CASE \/ Track(r) \/ StoreSuccess(r) \/ StoreFailure(r)
           \/ StoreRevoked(r)
  BY <1>3, <1>a, <1>s, ShapeTypes
     DEF Track, StoreSuccess, StoreFailure, StoreRevoked
<1>4. CASE \/ FailAppend(r) \/ FailCleanup(r) \/ RevokeAppend(r)
           \/ RevokeCleanup(r)
  BY <1>4, <1>a, ShapeTypes
     DEF FailAppend, FailCleanup, RevokeAppend, RevokeCleanup
<1> USE DEF TypeOK, Run, Elsewhere, webVars, commitVars, envVars, RunPoints,
      Active, RunningPoints, FailingPoints, RevokingPoints
<1>5. CASE Take(r) \/ Discard(r)
  BY <1>5 DEF Take, Discard
<1>6. CASE PrerunState(r)
  BY <1>6 DEF PrerunState
<1>7. CASE PrerunSave(r)
  BY <1>7, SetStatusType, NoCopyType DEF PrerunSave, TaskStates
<1>8. CASE \/ LookForImage(r) \/ CreateContainer(r) \/ ScriptEnds(r)
           \/ Cleanup(r)
  BY <1>8 DEF LookForImage, CreateContainer, ScriptEnds, Cleanup
<1>9. CASE \/ RunNotBegun(r) \/ LookFails(r) \/ CreateFails(r)
           \/ ScriptFails(r) \/ CleanupRaises(r)
  BY <1>9, NoCopyType DEF RunNotBegun, LookFails, CreateFails, ScriptFails,
     CleanupRaises, RunRaises
<1>10. CASE AppendFiles(r) \/ AppendRaises(r)
  <2>1. appended' \in Nat
    BY <1>10 DEF AppendFiles, AppendRaises
  <2>2. run' \in [Runs -> RunPoints] /\ raised' \in BOOLEAN
    BY <1>10 DEF AppendFiles, AppendRaises, RunRaises
  <2>3. robj' \in [Runs -> Rows]
    BY <1>10, NoCopyType DEF AppendFiles, AppendRaises, RunRaises
  <2> QED
    BY <1>10, <2>1, <2>2, <2>3 DEF AppendFiles, AppendRaises, RunRaises
<1>11. CASE Link(r)
  BY <1>11 DEF Link, brokerVars, history, CommitPoints
<1> HIDE DEF TypeOK, Run, Elsewhere, RunPoints, Active
<1> QED
  BY <1>1, <1>2, <1>3, <1>4, <1>5, <1>6, <1>7, <1>8, <1>9, <1>10, <1>11
     DEF RunStep

LEMMA CommitType == ASSUME TypeOK, NEW r \in Runs, CommitStep(r) PROVE TypeOK'
<1> USE NoCopyType DEF TypeOK, Commit, CommitElsewhere, CommitPoints,
      CommitBusy, CommitFailing, webVars, runVars, brokerVars, envVars
<1>1. CASE CommitGet(r) BY <1>1 DEF CommitGet
<1>2. CASE CommitFiles(r) \/ CommitRaises(r)
  BY <1>2 DEF CommitFiles, CommitRaises
<1>3. CASE CommitSave(r) BY <1>3, SetStatusType DEF CommitSave
<1>4. CASE CommitFailGet(r) BY <1>4 DEF CommitFailGet
<1>5. CASE CommitFailSave(r) BY <1>5, SetStatusType DEF CommitFailSave
<1>6. CASE CommitFailAppend(r) BY <1>6 DEF CommitFailAppend
<1>7. CASE CommitFailCleanup(r) BY <1>7 DEF CommitFailCleanup
<1> HIDE DEF TypeOK, Commit, CommitElsewhere
<1> QED
  BY <1>1, <1>2, <1>3, <1>4, <1>5, <1>6, <1>7 DEF CommitStep

LEMMA BrokerType ==
  ASSUME TypeOK,
         \/ ReceiveRevoke
         \/ \E r, s \in Runs : Redeliver(r, s)
         \/ Restart
         \/ Expire
  PROVE  TypeOK'
<1> USE NoCopyType DEF TypeOK, webVars, runVars, commitVars, brokerVars,
      envVars, history
<1>1. CASE ReceiveRevoke
  BY <1>1 DEF ReceiveRevoke, RunPoints, RevokingPoints, TaskStates
<1>2. CASE \E r, s \in Runs : Redeliver(r, s)
  BY <1>2 DEF Redeliver, RunPoints
<1>3. CASE Restart
  <2>1. restarts' \in 0..MaxRestarts
    BY <1>3, ConstantsAssumption DEF Restart
  <2>2. run' \in [Runs -> RunPoints]
    BY <1>3 DEF Restart, RunPoints
  <2>3. commit' \in [Runs -> CommitPoints]
    BY <1>3 DEF Restart, CommitPoints
  <2>4. /\ robj' \in [Runs -> Rows]
        /\ rseen' \in [Runs -> TaskStates]
        /\ cobj' \in [Runs -> Rows]
    BY <1>3 DEF Restart, TaskStates
  <2> QED
    BY <1>3, <2>1, <2>2, <2>3, <2>4 DEF Restart
<1>4. CASE Expire
  BY <1>4 DEF Expire, TaskStates
<1> QED
  BY <1>1, <1>2, <1>3, <1>4

(* Whatever the processes do, the row and the copies of it stay what they  *)
(* are declared to be: set_status writes known statuses only.              *)
THEOREM TypeCorrect == Spec => []TypeOK
<1>1. Init => TypeOK
  BY InitType
<1>2. TypeOK /\ [Next]_vars => TypeOK'
  <2> SUFFICES ASSUME TypeOK, [Next]_vars PROVE TypeOK'
    OBVIOUS
  <2>1. CASE Next
    BY <2>1, WebType, RunType, CommitType, BrokerType DEF Next
  <2>2. CASE UNCHANGED vars
    BY <2>2 DEF vars, TypeOK, webVars, runVars, commitVars, brokerVars,
       envVars, history
  <2> QED
    BY <2>1, <2>2
<1> QED
  BY <1>1, <1>2, PTL DEF Spec

------------------------------------------------------------------------------
(* What the steps of each kind of process leave alone.                     *)

LEMMA WebFrame ==
  ASSUME TypeOK, NEW q \in Requests, WebStep(q)
  PROVE  /\ \/ UNCHANGED run
            \/ \E r \in Runs : /\ run[r] = "none"
                               /\ run' = [run EXCEPT ![r] = "queued"]
         /\ UNCHANGED <<robj, rseen, commitVars, result, revoked, restarts,
                        envVars, raised>>
         /\ \/ UNCHANGED <<revoking, asked>>
            \/ revoking' /\ asked' /\ UNCHANGED run
BY DEF WebStep, PollStep, CreateJob, EditGet, StartJob, SetScheduled, Publish,
       OpenPage, PollGet, PollState, PollSave, EditSave, RequestDies, StopJob,
       webVars, runVars, commitVars, brokerVars, envVars, history

(* The moves a delivery makes by itself.                                   *)
RunMoves ==
  {<<"queued", "prerun">>, <<"queued", "revoke">>, <<"prerun", "prerun_state">>,
   <<"prerun_state", "prerun_save">>, <<"prerun_save", "track">>,
   <<"track", "run">>, <<"run", "run_save">>, <<"run", "fail">>,
   <<"run_save", "create">>, <<"run_save", "fail">>, <<"create", "copy">>,
   <<"create", "fail">>, <<"copy", "script">>, <<"copy", "fail">>,
   <<"script", "cleanup">>, <<"script", "fail">>, <<"cleanup", "append">>,
   <<"cleanup", "fail">>,
   <<"append", "link">>, <<"append", "fail">>, <<"link", "success">>,
   <<"success", "done">>, <<"fail", "fail_get">>, <<"fail_get", "fail_save">>,
   <<"fail_save", "fail_append">>, <<"fail_append", "fail_cleanup">>,
   <<"fail_cleanup", "done">>, <<"revoke", "revoke_get">>,
   <<"revoke_get", "revoke_save">>, <<"revoke_save", "revoke_append">>,
   <<"revoke_append", "revoke_cleanup">>, <<"revoke_cleanup", "done">>}

LEMMA RunFrame ==
  ASSUME TypeOK, NEW r \in Runs, RunStep(r)
  PROVE  /\ \E to \in RunPoints : /\ run' = [run EXCEPT ![r] = to]
                                  /\ <<run[r], to>> \in RunMoves
         /\ \/ UNCHANGED commitVars
            \/ /\ run[r] = "link"
               /\ commit' = [commit EXCEPT ![r] = "queued"]
               /\ UNCHANGED cobj
         /\ UNCHANGED <<webVars, revoking, revoked, restarts, asked>>
         /\ UNCHANGED raised \/ raised'
         /\ appended' \in {appended, appended + 1}
<1> DEFINE Goal == /\ \E to \in RunPoints : /\ run' = [run EXCEPT ![r] = to]
                                            /\ <<run[r], to>> \in RunMoves
                   /\ \/ UNCHANGED commitVars
                      \/ /\ run[r] = "link"
                         /\ commit' = [commit EXCEPT ![r] = "queued"]
                         /\ UNCHANGED cobj
                   /\ UNCHANGED <<webVars, revoking, revoked, restarts, asked>>
                   /\ UNCHANGED raised \/ raised'
                   /\ appended' \in {appended, appended + 1}
<1> SUFFICES Goal
  OBVIOUS
<1> USE DEF Run, Elsewhere, RunMoves, RunPoints, Active, RunningPoints,
      FailingPoints, RevokingPoints, envVars
<1>1. CASE Take(r) \/ Discard(r) \/ PrerunState(r) \/ PrerunSave(r)
  BY <1>1 DEF Take, Discard, PrerunState, PrerunSave
<1>2. CASE PrerunGet(r) \/ RunGet(r) \/ FailGet(r) \/ RevokeGet(r)
  BY <1>2 DEF PrerunGet, RunGet, FailGet, RevokeGet, ReadRow
<1>3. CASE RunSave(r) \/ FailSave(r) \/ RevokeSave(r)
  BY <1>3 DEF RunSave, FailSave, RevokeSave, WriteRow
<1>4. CASE Track(r) \/ StoreSuccess(r) \/ StoreFailure(r) \/ StoreRevoked(r)
  BY <1>4 DEF Track, StoreSuccess, StoreFailure, StoreRevoked, Store
<1>5. CASE \/ LookForImage(r) \/ CreateContainer(r) \/ ScriptEnds(r)
           \/ Cleanup(r)
  BY <1>5 DEF LookForImage, CreateContainer, ScriptEnds, Cleanup
<1>6. CASE \/ RunNotBegun(r) \/ LookFails(r) \/ CreateFails(r)
           \/ ScriptFails(r) \/ CleanupRaises(r)
  BY <1>6 DEF RunNotBegun, LookFails, CreateFails, ScriptFails, CleanupRaises,
     RunRaises
<1>7. CASE AppendFiles(r)
  BY <1>7 DEF AppendFiles
<1>11. CASE AppendRaises(r)
  <2>1. /\ Run(r, "append", "fail")
        /\ raised'
        /\ appended' \in {appended, appended + 1}
        /\ Elsewhere
    BY <1>11 DEF AppendRaises, RunRaises
  <2> QED
    BY <2>1
<1>8. CASE FailAppend(r) \/ RevokeAppend(r)
  BY <1>8 DEF FailAppend, RevokeAppend, HandlerAppends
<1>9. CASE FailCleanup(r) \/ RevokeCleanup(r)
  BY <1>9 DEF FailCleanup, RevokeCleanup, HandlerCleans
<1>10. CASE Link(r)
  BY <1>10 DEF Link, webVars, brokerVars, history
<1> HIDE DEF Goal, Run, Elsewhere, RunMoves, RunPoints, Active
<1> QED
  BY <1>1, <1>2, <1>3, <1>4, <1>5, <1>6, <1>7, <1>8, <1>9, <1>10, <1>11
     DEF RunStep

(* Which actions make the moves that matter.                               *)
LEMMA MovesMade ==
  ASSUME TypeOK, NEW r \in Runs, RunStep(r)
  PROVE  /\ <<run[r], run'[r]>> = <<"queued", "prerun">> => Take(r)
         /\ <<run[r], run'[r]>> = <<"queued", "revoke">> => Discard(r)
         /\ <<run[r], run'[r]>> = <<"append", "link">> => AppendFiles(r)
         /\ run'[r] = "fail" => raised'
BY DEF TypeOK, RunStep, Run, Take, Discard, PrerunGet, PrerunState, PrerunSave,
       Track, RunGet, RunSave, RunNotBegun, LookForImage, LookFails,
       CreateContainer, CreateFails, ScriptEnds, ScriptFails, Cleanup,
       CleanupRaises, AppendFiles, AppendRaises, Link, StoreSuccess,
       StoreFailure, FailGet, FailSave, FailAppend, FailCleanup, StoreRevoked,
       RevokeGet, RevokeSave, RevokeAppend, RevokeCleanup, ReadRow, WriteRow,
       Store, RunRaises, HandlerAppends, HandlerCleans

CommitMoves ==
  {<<"queued", "work">>, <<"queued", "fail_get">>, <<"work", "save">>,
   <<"work", "fail_get">>, <<"save", "done">>, <<"save", "fail_get">>,
   <<"fail_get", "fail_save">>, <<"fail_save", "fail_append">>,
   <<"fail_append", "fail_cleanup">>, <<"fail_cleanup", "failed">>}

LEMMA CommitFrame ==
  ASSUME TypeOK, NEW r \in Runs, CommitStep(r)
  PROVE  /\ \E to \in CommitPoints : /\ commit' = [commit EXCEPT ![r] = to]
                                     /\ <<commit[r], to>> \in CommitMoves
         /\ UNCHANGED <<webVars, runVars, brokerVars, asked>>
         /\ UNCHANGED raised \/ raised'
         /\ appended' \in {appended, appended + 1}
BY DEF CommitStep, CommitGet, CommitFiles, CommitRaises, CommitSave,
       CommitFailGet, CommitFailSave, CommitFailAppend, CommitFailCleanup,
       Commit, CommitElsewhere, CommitMoves, CommitPoints, CommitBusy,
       CommitFailing, envVars

------------------------------------------------------------------------------
(* NoInventedOutcome.                                                      *)

LEMMA LinkedOnceStays ==
  ASSUME TypeOK, LinkedOnce, [Next]_vars PROVE LinkedOnce'
<1> USE DEF LinkedOnce, TypeOK
<1>1. ASSUME NEW q \in Requests, WebStep(q) PROVE LinkedOnce'
  BY <1>1, WebFrame DEF commitVars, RevokingPoints
<1>2. ASSUME NEW r \in Runs, RunStep(r) PROVE LinkedOnce'
  BY <1>2, RunFrame DEF commitVars, RevokingPoints, RunMoves
<1>3. ASSUME NEW r \in Runs, CommitStep(r) PROVE LinkedOnce'
  BY <1>3, CommitFrame DEF CommitMoves, runVars
<1>4. CASE ReceiveRevoke
  BY <1>4 DEF ReceiveRevoke, commitVars, RevokingPoints
<1>5. ASSUME NEW r \in Runs, NEW s \in Runs, Redeliver(r, s)
      PROVE  LinkedOnce'
  BY <1>5 DEF Redeliver, commitVars, RevokingPoints
<1>6. CASE Restart
  <2> SUFFICES ASSUME NEW r \in Runs, commit'[r] # "none"
               PROVE  run'[r] \in {"success", "done", "lost"} \cup RevokingPoints
    OBVIOUS
  <2>1. commit[r] # "none"
    BY <1>6 DEF Restart, CommitBusy, CommitFailing
  <2>2. run'[r] \in {"lost", run[r]}
    BY <1>6 DEF Restart
  <2> QED
    BY <2>1, <2>2
<1>7. CASE Expire \/ UNCHANGED vars
  BY <1>7 DEF Expire, vars, runVars, commitVars
<1> QED
  BY <1>1, <1>2, <1>3, <1>4, <1>5, <1>6, <1>7 DEF Next

(* What an outcome rests on does not go away again.                        *)
LEMMA EvidenceStays ==
  ASSUME TypeOK, LinkedOnce, [Next]_vars
  PROVE  /\ asked => asked'
         /\ raised => raised'
         /\ \A r \in Runs : commit[r] = "done" => commit'[r] = "done"
<1> USE DEF LinkedOnce, TypeOK
<1>1. ASSUME NEW q \in Requests, WebStep(q)
      PROVE  (asked => asked') /\ UNCHANGED <<raised, commit>>
  BY <1>1, WebFrame DEF commitVars
<1>2. ASSUME NEW r \in Runs, RunStep(r)
      PROVE  /\ UNCHANGED asked
             /\ raised => raised'
             /\ \A s \in Runs : commit[s] = "done" => commit'[s] = "done"
  BY <1>2, RunFrame DEF commitVars, RevokingPoints
<1>3. ASSUME NEW r \in Runs, CommitStep(r)
      PROVE  /\ UNCHANGED asked
             /\ raised => raised'
             /\ \A s \in Runs : commit[s] = "done" => commit'[s] = "done"
  BY <1>3, CommitFrame DEF CommitMoves
<1>4. ASSUME \/ ReceiveRevoke \/ Restart \/ Expire
             \/ \E r, s \in Runs : Redeliver(r, s)
             \/ UNCHANGED vars
      PROVE  /\ UNCHANGED <<asked, raised>>
             /\ \A s \in Runs : commit[s] = "done" => commit'[s] = "done"
  BY <1>4 DEF ReceiveRevoke, Restart, Expire, Redeliver, vars, commitVars,
     history, CommitBusy, CommitFailing
<1> QED
  BY <1>1, <1>2, <1>3, <1>4 DEF Next

LEMMA SoundGrows ==
  ASSUME TypeOK, LinkedOnce, [Next]_vars
  PROVE  SoundRows \subseteq SoundRows' /\ SoundStates \subseteq SoundStates'
<1>1. ASSUME NEW status, OutcomeHappened(status)
      PROVE  OutcomeHappened(status)'
  BY <1>1, EvidenceStays DEF OutcomeHappened
<1>2. ASSUME NEW state, StateHappened(state)
      PROVE  StateHappened(state)'
  BY <1>2, EvidenceStays DEF StateHappened
<1> QED
  BY <1>1, <1>2 DEF SoundRows, SoundStates, OutcomeHappened, StateHappened

(* The sound rows and states there are to write.                           *)
LEMMA SoundValues ==
  ASSUME TypeOK
  PROVE  /\ NoCopy \in SoundRows
         /\ \A p \in Plans : [status |-> CREATED, plan |-> p] \in SoundRows
         /\ {"PENDING", "STARTED", "SUCCESS"} \subseteq SoundStates
         /\ raised => "FAILURE" \in SoundStates
         /\ asked => "REVOKED" \in SoundStates
BY NoCopyType
   DEF SoundRows, SoundStates, OutcomeHappened, StateHappened, Rows, NoCopy,
       TaskStates, StatusValues, CREATED, FINISHED, REVOKED, FAILURE, Absent

LEMMA SoundEdit ==
  ASSUME NEW obj \in SoundRows, NEW p \in Plans
  PROVE  [obj EXCEPT !.plan = p] \in SoundRows
BY DEF SoundRows, OutcomeHappened, Rows

LEMMA SoundSet ==
  ASSUME NEW obj \in SoundRows,
         NEW name \in {"SCHEDULED", "RUNNING"} \cup SoundStates
  PROVE  SetStatus(obj, name) \in SoundRows
<1>1. SetStatus(obj, name) \in Rows
  BY SetStatusType DEF SoundRows
<1>2. SetStatus(obj, name).status = Raise(obj.status, name)
  BY DEF SetStatus, SoundRows, Rows
<1>3. OutcomeHappened(Raise(obj.status, name))
  BY DEF SoundRows, SoundStates, OutcomeHappened, StateHappened, Raise, Known,
     Code, SCHEDULED, PENDING, STARTED, RUNNING, FINISHED, REVOKED, FAILURE,
     TaskStates
<1> QED
  BY <1>1, <1>2, <1>3 DEF SoundRows

(* A copy saved by commit is sound from then on.                           *)
LEMMA SoundFinish ==
  ASSUME TypeOK, LinkedOnce, NEW obj \in SoundRows, NEW r \in Runs, CommitSave(r)
  PROVE  SetStatus(obj, "FINISHED") \in SoundRows'
<1>1. SetStatus(obj, "FINISHED") \in Rows
  BY SetStatusType DEF SoundRows
<1>2. SetStatus(obj, "FINISHED").status \in {obj.status, FINISHED}
  BY DEF SetStatus, SoundRows, Rows, Raise, Code
<1>3. OutcomeHappened(obj.status)'
  BY EvidenceStays DEF SoundRows, OutcomeHappened, Next, CommitStep
<1>4. OutcomeHappened(FINISHED)'
  BY DEF OutcomeHappened, CommitSave, Commit, TypeOK, FINISHED, REVOKED, FAILURE
<1> QED
  BY <1>1, <1>2, <1>3, <1>4 DEF SoundRows

LEMMA SoundCopiesWeb ==
  ASSUME TypeOK, OutcomeInv, NEW q \in Requests, WebStep(q)
  PROVE  SoundCopies'
<1>1. SoundRows \subseteq SoundRows' /\ SoundStates \subseteq SoundStates'
  BY SoundGrows DEF OutcomeInv, Next
<1>2. UNCHANGED <<robj, cobj, rseen, result>>
  BY WebFrame DEF commitVars
<1> SUFFICES /\ row' \in SoundRows
             /\ wobj' \in [Requests -> SoundRows]
             /\ wseen' \in [Requests -> SoundStates]
  BY <1>1, <1>2 DEF SoundCopies, OutcomeInv
<1> USE SoundValues DEF OutcomeInv, SoundCopies, runVars, commitVars,
      brokerVars, envVars, history, webVars
<1>3. ASSUME NEW p \in Plans, CreateJob(q, p) \/ EditGet(q, p)
      PROVE  /\ row' \in SoundRows
             /\ wobj' \in [Requests -> SoundRows]
             /\ wseen' \in [Requests -> SoundStates]
  BY <1>3, SoundEdit DEF CreateJob, EditGet
<1>4. CASE StartJob(q) \/ Publish(q) \/ OpenPage(q) \/ StopJob(q)
  BY <1>4 DEF StartJob, Publish, OpenPage, StopJob
<1>5. CASE SetScheduled(q)
  BY <1>5, SoundSet DEF SetScheduled
<1>6. CASE PollGet(q) \/ PollState(q)
  BY <1>6 DEF PollGet, PollState
<1>7. CASE PollSave(q)
  BY <1>7, SoundSet DEF PollSave
<1>8. CASE EditSave(q) \/ RequestDies(q)
  BY <1>8 DEF EditSave, RequestDies
<1> QED
  BY <1>3, <1>4, <1>5, <1>6, <1>7, <1>8 DEF WebStep, PollStep

LEMMA SoundCopiesRun ==
  ASSUME TypeOK, OutcomeInv, NEW r \in Runs, RunStep(r)
  PROVE  SoundCopies'
<1>1. SoundRows \subseteq SoundRows' /\ SoundStates \subseteq SoundStates'
  BY SoundGrows DEF OutcomeInv, Next
<1>2. UNCHANGED <<wobj, cobj, wseen>>
  BY RunFrame DEF commitVars, webVars
<1> DEFINE Written == /\ row' \in SoundRows
                      /\ robj' \in [Runs -> SoundRows]
                      /\ rseen' \in [Runs -> SoundStates]
                      /\ result' \in SoundStates
<1> SUFFICES Written
  BY <1>1, <1>2 DEF SoundCopies, OutcomeInv
<1>3. /\ run[r] \in FailingPoints => "FAILURE" \in SoundStates
      /\ run[r] \in RevokingPoints => "REVOKED" \in SoundStates
  BY SoundValues DEF OutcomeInv, HandlersCalled
<1> USE SoundValues DEF OutcomeInv, SoundCopies, Run, FailingPoints,
      RevokingPoints
<1>4. CASE PrerunGet(r) \/ RunGet(r) \/ FailGet(r) \/ RevokeGet(r)
  BY <1>4 DEF PrerunGet, RunGet, FailGet, RevokeGet, ReadRow
<1>5. CASE RunSave(r) \/ FailSave(r) \/ RevokeSave(r)
  BY <1>5, <1>3, SoundSet DEF RunSave, FailSave, RevokeSave, WriteRow
<1>6. CASE Track(r) \/ StoreSuccess(r) \/ StoreFailure(r) \/ StoreRevoked(r)
  BY <1>6, <1>3 DEF Track, StoreSuccess, StoreFailure, StoreRevoked, Store
<1>7. CASE Take(r) \/ Discard(r) \/ PrerunState(r)
  BY <1>7 DEF Take, Discard, PrerunState
<1>8. CASE PrerunSave(r)
  BY <1>8, SoundSet DEF PrerunSave
<1>9. CASE \/ LookForImage(r) \/ CreateContainer(r) \/ ScriptEnds(r)
           \/ Cleanup(r)
  BY <1>9 DEF LookForImage, CreateContainer, ScriptEnds, Cleanup
<1>12. CASE \/ RunNotBegun(r) \/ LookFails(r) \/ CreateFails(r)
            \/ ScriptFails(r) \/ CleanupRaises(r)
  BY <1>12 DEF RunNotBegun, LookFails, CreateFails, ScriptFails, CleanupRaises,
     RunRaises
<1>10. CASE AppendFiles(r) \/ AppendRaises(r) \/ Link(r)
  BY <1>10 DEF AppendFiles, AppendRaises, RunRaises, Link, brokerVars
<1>11. CASE \/ FailAppend(r) \/ FailCleanup(r) \/ RevokeAppend(r)
            \/ RevokeCleanup(r)
  BY <1>11 DEF FailAppend, FailCleanup, RevokeAppend, RevokeCleanup,
     HandlerAppends, HandlerCleans
<1> HIDE DEF Written
<1> QED
  BY <1>4, <1>5, <1>6, <1>7, <1>8, <1>9, <1>10, <1>11, <1>12 DEF RunStep

LEMMA SoundCopiesCommit ==
  ASSUME TypeOK, OutcomeInv, NEW r \in Runs, CommitStep(r)
  PROVE  SoundCopies'
<1>1. SoundRows \subseteq SoundRows' /\ SoundStates \subseteq SoundStates'
  BY SoundGrows DEF OutcomeInv, Next
<1>2. UNCHANGED <<wobj, robj, wseen, rseen, result>>
  BY CommitFrame DEF runVars, webVars, brokerVars
<1> DEFINE Written == /\ row' \in SoundRows'
                      /\ cobj' \in [Runs -> SoundRows']
<1> SUFFICES Written
  BY <1>1, <1>2 DEF SoundCopies, OutcomeInv
<1>3. commit[r] \in CommitFailing => "FAILURE" \in SoundStates
  BY SoundValues DEF OutcomeInv, HandlersCalled
<1>4. NoCopy \in SoundRows'
  BY <1>1, SoundValues
<1> USE DEF OutcomeInv, SoundCopies, Commit, CommitFailing
<1>5. CASE CommitGet(r) \/ CommitFiles(r) \/ CommitRaises(r)
  BY <1>5, <1>1, <1>4 DEF CommitGet, CommitFiles, CommitRaises
<1>6. CASE CommitSave(r)
  BY <1>6, <1>1, <1>4, SoundFinish DEF CommitSave
<1>7. CASE CommitFailGet(r) \/ CommitFailAppend(r) \/ CommitFailCleanup(r)
  BY <1>7, <1>1, <1>4 DEF CommitFailGet, CommitFailAppend, CommitFailCleanup
<1>8. CASE CommitFailSave(r)
  BY <1>8, <1>1, <1>3, <1>4, SoundSet DEF CommitFailSave
<1> HIDE DEF Written
<1> QED
  BY <1>5, <1>6, <1>7, <1>8 DEF CommitStep

LEMMA SoundCopiesBroker ==
  ASSUME TypeOK, OutcomeInv,
         \/ ReceiveRevoke
         \/ \E r, s \in Runs : Redeliver(r, s)
         \/ Restart
         \/ Expire
         \/ UNCHANGED vars
  PROVE  SoundCopies'
<1>1. SoundRows \subseteq SoundRows' /\ SoundStates \subseteq SoundStates'
  BY SoundGrows DEF OutcomeInv, Next
<1> USE SoundValues DEF OutcomeInv, SoundCopies, runVars, commitVars, webVars,
      brokerVars, vars
<1>2. /\ UNCHANGED <<row, wobj, wseen>>
      /\ robj' \in [Runs -> SoundRows]
      /\ rseen' \in [Runs -> SoundStates]
      /\ cobj' \in [Runs -> SoundRows]
      /\ result' \in SoundStates
  BY DEF ReceiveRevoke, Redeliver, Restart, Expire
<1> QED
  BY <1>1, <1>2

LEMMA HandlersStayCalled ==
  ASSUME TypeOK, OutcomeInv, [Next]_vars PROVE HandlersCalled'
<1>1. (asked => asked') /\ (raised => raised')
  BY EvidenceStays DEF OutcomeInv
<1> USE <1>1 DEF OutcomeInv, HandlersCalled, TypeOK
<1>2. ASSUME NEW q \in Requests, WebStep(q) PROVE HandlersCalled'
  BY <1>2, WebFrame DEF commitVars, RevokingPoints, FailingPoints
<1>3. ASSUME NEW r \in Runs, RunStep(r) PROVE HandlersCalled'
  <2>1. /\ UNCHANGED <<revoking, revoked, asked>>
        /\ \A s \in Runs : commit'[s] \in CommitFailing => commit[s] \in CommitFailing
    BY <1>3, RunFrame DEF commitVars, CommitFailing
  <2>2. ASSUME run'[r] \in RevokingPoints, run[r] \notin RevokingPoints
        PROVE  asked
    <3>1. run[r] = "queued" /\ run'[r] = "revoke"
      BY <1>3, <2>2, RunFrame DEF RunMoves, RevokingPoints
    <3>2. Discard(r)
      BY <1>3, <3>1, MovesMade
    <3> QED
      BY <3>2 DEF Discard
  <2>3. ASSUME run'[r] \in FailingPoints, run[r] \notin FailingPoints
        PROVE  raised'
    <3>1. run'[r] = "fail"
      BY <1>3, <2>3, RunFrame DEF RunMoves, FailingPoints
    <3> QED
      BY <1>3, <3>1, MovesMade
  <2>4. \A s \in Runs : s # r => run'[s] = run[s]
    BY <1>3, RunFrame
  <2> QED
    BY <2>1, <2>2, <2>3, <2>4
<1>4. ASSUME NEW r \in Runs, CommitStep(r) PROVE HandlersCalled'
  <2>1. UNCHANGED <<run, revoking, revoked, asked>>
    BY <1>4, CommitFrame DEF runVars, brokerVars
  <2>2. ASSUME commit'[r] \in CommitFailing, commit[r] \notin CommitFailing
        PROVE  raised'
    BY <1>4, <2>2
       DEF CommitStep, Commit, CommitGet, CommitFiles, CommitRaises,
           CommitSave, CommitFailGet, CommitFailSave, CommitFailAppend,
           CommitFailCleanup, CommitFailing
  <2>3. \A s \in Runs : s # r => commit'[s] = commit[s]
    BY <1>4, CommitFrame
  <2> QED
    BY <2>1, <2>2, <2>3
<1>5. CASE ReceiveRevoke
  BY <1>5 DEF ReceiveRevoke, commitVars, history, RevokingPoints, FailingPoints
<1>6. ASSUME NEW r \in Runs, NEW s \in Runs, Redeliver(r, s)
      PROVE  HandlersCalled'
  BY <1>6 DEF Redeliver, commitVars, brokerVars, history, RevokingPoints,
     FailingPoints
<1>7. CASE Restart
  BY <1>7 DEF Restart, history, RevokingPoints, FailingPoints, Active,
     CommitBusy, CommitFailing
<1>8. CASE Expire \/ UNCHANGED vars
  BY <1>8 DEF Expire, vars, runVars, commitVars, brokerVars, history
<1> QED
  BY <1>2, <1>3, <1>4, <1>5, <1>6, <1>7, <1>8 DEF Next

LEMMA OutcomeInvHolds == Spec => [](TypeOK /\ OutcomeInv)
<1>1. Init => OutcomeInv
  <2> SUFFICES ASSUME Init PROVE OutcomeInv
    OBVIOUS
  <2>1. SoundCopies
    BY InitType, SoundValues DEF Init, SoundCopies
  <2>2. LinkedOnce /\ HandlersCalled
    BY DEF Init, LinkedOnce, HandlersCalled, RevokingPoints, FailingPoints,
       CommitFailing
  <2> QED
    BY <2>1, <2>2 DEF OutcomeInv
<1>2. TypeOK /\ OutcomeInv /\ [Next]_vars => OutcomeInv'
  <2> SUFFICES ASSUME TypeOK, OutcomeInv, [Next]_vars PROVE OutcomeInv'
    OBVIOUS
  <2>1. SoundCopies'
    BY SoundCopiesWeb, SoundCopiesRun, SoundCopiesCommit, SoundCopiesBroker
       DEF Next
  <2> QED
    BY <2>1, LinkedOnceStays, HandlersStayCalled DEF OutcomeInv
<1> QED
  BY <1>1, <1>2, TypeCorrect, PTL DEF Spec

(* The status a user sees tells of what happened: however many windows,    *)
(* deliveries and stale copies there are, a job is shown FINISHED, FAILURE *)
(* or REVOKED only if a commit ended, a task raised, or somebody asked.    *)
THEOREM OutcomesHappened == Spec => []NoInventedOutcome
<1>1. OutcomeInv => NoInventedOutcome
  BY DEF OutcomeInv, SoundCopies, SoundRows, NoInventedOutcome
<1> QED
  BY <1>1, OutcomeInvHolds, PTL

------------------------------------------------------------------------------
(* CommitsAttachedFiles.                                                   *)

(* Results are committed only when there are some: commit is linked behind *)
(* append_files, whatever handlers, redeliveries and restarts do meanwhile.*)
THEOREM CommitsFollowFiles == Spec => []CommitsAttachedFiles
<1>1. Init => AttachedInv
  BY DEF Init, AttachedInv, CommitsAttachedFiles
<1>2. TypeOK /\ AttachedInv /\ [Next]_vars => AttachedInv'
  <2> SUFFICES ASSUME TypeOK, AttachedInv, [Next]_vars PROVE AttachedInv'
    OBVIOUS
  <2> USE DEF AttachedInv, CommitsAttachedFiles, TypeOK
  <2>1. ASSUME NEW q \in Requests, WebStep(q) PROVE AttachedInv'
    BY <2>1, WebFrame DEF commitVars, envVars
  <2>2. ASSUME NEW r \in Runs, RunStep(r) PROVE AttachedInv'
    <3>1. appended > 0 => appended' > 0
      BY <2>2, RunFrame
    <3>2. ASSUME run'[r] = "link", run[r] # "link" PROVE appended' > 0
      <4>1. run[r] = "append"
        BY <2>2, <3>2, RunFrame DEF RunMoves
      <4>2. AppendFiles(r)
        BY <2>2, <3>2, <4>1, MovesMade
      <4> QED
        BY <4>2 DEF AppendFiles
    <3>3. \A s \in Runs : s # r => run'[s] = run[s]
      BY <2>2, RunFrame
    <3>4. \A s \in Runs : commit'[s] # "none" =>
            commit[s] # "none" \/ run[s] = "link"
      BY <2>2, RunFrame DEF commitVars
    <3> QED
      BY <3>1, <3>2, <3>3, <3>4
  <2>3. ASSUME NEW r \in Runs, CommitStep(r) PROVE AttachedInv'
    <3>1. appended > 0 => appended' > 0
      BY <2>3, CommitFrame
    <3>2. UNCHANGED run /\ \A s \in Runs : commit'[s] # "none" => commit[s] # "none"
      BY <2>3, CommitFrame DEF CommitMoves, runVars
    <3> QED
      BY <3>1, <3>2
  <2>4. CASE ReceiveRevoke
    BY <2>4 DEF ReceiveRevoke, commitVars, envVars
  <2>5. ASSUME NEW r \in Runs, NEW s \in Runs, Redeliver(r, s)
        PROVE  AttachedInv'
    BY <2>5 DEF Redeliver, commitVars, envVars
  <2>6. CASE Restart
    BY <2>6 DEF Restart, envVars, CommitBusy, CommitFailing
  <2>7. CASE Expire \/ UNCHANGED vars
    BY <2>7 DEF Expire, vars, runVars, commitVars, envVars
  <2> QED
    BY <2>1, <2>2, <2>3, <2>4, <2>5, <2>6, <2>7 DEF Next
<1>3. AttachedInv => CommitsAttachedFiles
  BY DEF AttachedInv
<1> QED
  BY <1>1, <1>2, <1>3, TypeCorrect, PTL DEF Spec

------------------------------------------------------------------------------
(* NoContainerLeaked.                                                      *)

(* As long as containers can be destroyed and the worker stays up, one     *)
(* that exists is still to be cleaned up, however many deliveries share it.*)
THEOREM ContainersCleaned ==
  ASSUME ~CleanupFails PROVE Spec => []NoContainerLeaked
<1>1. Init => NoContainerLeaked
  BY DEF Init, NoContainerLeaked
<1>2. TypeOK /\ NoContainerLeaked /\ [Next]_vars => NoContainerLeaked'
  <2> SUFFICES ASSUME TypeOK, NoContainerLeaked, [Next]_vars
               PROVE  NoContainerLeaked'
    OBVIOUS
  <2> USE DEF NoContainerLeaked, TypeOK, WillCleanUp, FailingPoints,
        RevokingPoints
  <2>1. ASSUME NEW q \in Requests, WebStep(q) PROVE NoContainerLeaked'
    BY <2>1, WebFrame DEF envVars
  <2>2. ASSUME NEW r \in Runs, RunStep(r) PROVE NoContainerLeaked'
    <3>1. UNCHANGED restarts /\ \A s \in Runs : s # r => run'[s] = run[s]
      BY <2>2, RunFrame
    <3>2. CASE CreateContainer(r) \/ CreateFails(r)
      BY <3>2 DEF CreateContainer, CreateFails, RunRaises, Run
    <3>3. CASE Cleanup(r) \/ FailCleanup(r) \/ RevokeCleanup(r)
      BY <3>3 DEF Cleanup, FailCleanup, RevokeCleanup, HandlerCleans
    <3>4. CASE ~(\/ CreateContainer(r) \/ CreateFails(r) \/ Cleanup(r)
                 \/ FailCleanup(r) \/ RevokeCleanup(r))
      <4>1. UNCHANGED image
        BY <2>2, <3>4
           DEF RunStep, Take, Discard, PrerunGet, PrerunState, PrerunSave,
               Track, RunGet, RunSave, RunNotBegun, LookForImage, LookFails,
               ScriptEnds, ScriptFails, CleanupRaises, AppendFiles,
               AppendRaises, Link, StoreSuccess, StoreFailure, FailGet,
               FailSave, FailAppend, StoreRevoked, RevokeGet, RevokeSave,
               RevokeAppend, ReadRow, WriteRow, Store, RunRaises,
               HandlerAppends, envVars
      <4>2. run[r] \in WillCleanUp => run'[r] \in WillCleanUp
        BY <2>2, <3>4
           DEF RunStep, Run, Take, Discard, PrerunGet, PrerunState, PrerunSave,
               Track, RunGet, RunSave, RunNotBegun, LookForImage, LookFails,
               ScriptEnds, ScriptFails, CleanupRaises, AppendFiles,
               AppendRaises, Link, StoreSuccess, StoreFailure, FailGet,
               FailSave, FailAppend, StoreRevoked, RevokeGet, RevokeSave,
               RevokeAppend, ReadRow, WriteRow, Store, RunRaises,
               HandlerAppends
      <4> QED
        BY <3>1, <4>1, <4>2
    <3> QED
      BY <3>2, <3>3, <3>4
  <2>3. ASSUME NEW r \in Runs, CommitStep(r) PROVE NoContainerLeaked'
    <3>1. UNCHANGED <<run, restarts>>
      BY <2>3, CommitFrame DEF runVars, brokerVars
    <3>2. UNCHANGED image \/ image' = FALSE
      BY <2>3 DEF CommitStep, CommitGet, CommitFiles, CommitRaises, CommitSave,
         CommitFailGet, CommitFailSave, CommitFailAppend, CommitFailCleanup,
         envVars
    <3> QED
      BY <3>1, <3>2
  <2>4. CASE ReceiveRevoke
    BY <2>4 DEF ReceiveRevoke, envVars
  <2>5. ASSUME NEW r \in Runs, NEW s \in Runs, Redeliver(r, s)
        PROVE  NoContainerLeaked'
    BY <2>5 DEF Redeliver, envVars, brokerVars
  <2>6. CASE Restart
    <3>1. restarts' # 0
      BY <2>6, ConstantsAssumption DEF Restart
    <3> QED
      BY <3>1
  <2>7. CASE Expire \/ UNCHANGED vars
    BY <2>7 DEF Expire, vars, runVars, brokerVars, envVars
  <2> QED
    BY <2>1, <2>2, <2>3, <2>4, <2>5, <2>6, <2>7 DEF Next
<1> QED
  BY <1>1, <1>2, TypeCorrect, PTL DEF Spec

------------------------------------------------------------------------------
(* PlanIsExecuted.                                                         *)

PlanKept == row'.plan = row.plan /\ row'.status # Absent

LEMMA SetPlanned ==
  ASSUME NEW obj \in Rows, NEW name, Planned(obj)
  PROVE  LET new == SetStatus(obj, name)
         IN  new.plan = row.plan /\ new.status # Absent
BY DEF SetStatus, Raise, Known, Code, Rows, Planned, SCHEDULED, PENDING,
       STARTED, RUNNING, FINISHED, REVOKED, FAILURE, Absent

(* What is written over the row has its plan.                              *)
LEMMA PlanStays ==
  ASSUME TypeOK, WebPlanned, RunsPlanned, CommitsPlanned, Editors = {}, Exists,
         [Next]_vars
  PROVE  PlanKept
<1> USE DEF PlanKept, Exists, TypeOK
<1>0. UNCHANGED row => PlanKept
  OBVIOUS
<1>1. ASSUME NEW q \in Requests, WebStep(q) PROVE PlanKept
  <2>1. ASSUME NEW p \in Plans PROVE ~CreateJob(q, p) /\ ~EditGet(q, p)
    BY DEF CreateJob, EditGet
  <2>2. ~EditSave(q)
    BY DEF EditSave, Web, WebPlanned
  <2>3. CASE \/ StartJob(q) \/ Publish(q) \/ OpenPage(q) \/ PollGet(q)
             \/ PollState(q) \/ RequestDies(q) \/ StopJob(q)
    BY <1>0, <2>3 DEF StartJob, Publish, OpenPage, PollGet, PollState,
       RequestDies, StopJob
  <2>4. CASE SetScheduled(q) \/ PollSave(q)
    <3>1. Planned(wobj[q])
      BY <2>4 DEF SetScheduled, PollSave, Web, WebPlanned
    <3>2. \E name : row' = SetStatus(wobj[q], name)
      BY <2>4 DEF SetScheduled, PollSave
    <3> QED
      BY <3>1, <3>2, SetPlanned
  <2> QED
    BY <1>1, <2>1, <2>2, <2>3, <2>4 DEF WebStep, PollStep
<1>2. ASSUME NEW r \in Runs, RunStep(r) PROVE PlanKept
  <2>1. \/ UNCHANGED row
        \/ /\ run[r] \in {"prerun_save", "run_save", "fail_save", "revoke_save"}
           /\ \E name : row' = SetStatus(robj[r], name)
    BY <1>2
       DEF RunStep, Run, Take, Discard, PrerunGet, PrerunState, PrerunSave,
           Track, RunGet, RunSave, RunNotBegun, LookForImage, LookFails,
           CreateContainer, CreateFails, ScriptEnds, ScriptFails, Cleanup,
           CleanupRaises, AppendFiles, AppendRaises, Link, StoreSuccess,
           StoreFailure, FailGet, FailSave, FailAppend, FailCleanup,
           StoreRevoked, RevokeGet, RevokeSave, RevokeAppend, RevokeCleanup,
           ReadRow, WriteRow, Store, RunRaises, HandlerAppends, HandlerCleans
  <2>2. CASE /\ run[r] \in {"prerun_save", "run_save", "fail_save",
                            "revoke_save"}
             /\ \E name : row' = SetStatus(robj[r], name)
    BY <2>2, SetPlanned DEF RunsPlanned
  <2> QED
    BY <1>0, <2>1, <2>2
<1>3. ASSUME NEW r \in Runs, CommitStep(r) PROVE PlanKept
  <2>1. \/ UNCHANGED row
        \/ /\ commit[r] \in {"save", "fail_save"}
           /\ \E name : row' = SetStatus(cobj[r], name)
    BY <1>3
       DEF CommitStep, Commit, CommitGet, CommitFiles, CommitRaises,
           CommitSave, CommitFailGet, CommitFailSave, CommitFailAppend,
           CommitFailCleanup
  <2>2. CASE /\ commit[r] \in {"save", "fail_save"}
             /\ \E name : row' = SetStatus(cobj[r], name)
    BY <2>2, SetPlanned DEF CommitsPlanned
  <2> QED
    BY <1>0, <2>1, <2>2
<1>4. CASE \/ ReceiveRevoke \/ Restart \/ Expire
           \/ \E r, s \in Runs : Redeliver(r, s)
           \/ UNCHANGED vars
  BY <1>0, <1>4 DEF ReceiveRevoke, Restart, Expire, Redeliver, vars
<1> QED
  BY <1>1, <1>2, <1>3, <1>4 DEF Next

(* Before the job exists nothing works on it.                              *)
LEMMA PlannedFromCreation ==
  ASSUME TypeOK, WebPlanned, RunsPlanned, CommitsPlanned, Editors = {}, ~Exists,
         [Next]_vars
  PROVE  WebPlanned' /\ RunsPlanned' /\ CommitsPlanned'
<1> USE DEF TypeOK
<1>0. /\ \A q \in Requests : web[q] = "idle"
      /\ \A r \in Runs : run[r] = "none" /\ commit[r] = "none"
  BY DEF WebPlanned, RunsPlanned, CommitsPlanned
<1>1. ASSUME NEW q \in Requests, NEW p \in Plans, CreateJob(q, p)
      PROVE  WebPlanned' /\ RunsPlanned' /\ CommitsPlanned'
  <2>1. /\ row' = [status |-> CREATED, plan |-> p]
        /\ wobj' = [wobj EXCEPT ![q] = row']
        /\ web' = [web EXCEPT ![q] = "start"]
        /\ UNCHANGED <<run, commit>>
    BY <1>1 DEF CreateJob, Web, runVars, commitVars
  <2>2. Exists' /\ Planned(row)'
    BY <2>1 DEF Exists, Planned, CREATED, Absent
  <2>3. WebPlanned'
    BY <1>0, <2>1, <2>2 DEF WebPlanned, Planned
  <2> QED
    BY <1>0, <2>1, <2>3 DEF RunsPlanned, CommitsPlanned
<1>2. CASE UNCHANGED <<web, run, commit>>
  BY <1>0, <1>2 DEF WebPlanned, RunsPlanned, CommitsPlanned
<1>3. ASSUME NEW q \in Requests, WebStep(q)
      PROVE  \E p \in Plans : CreateJob(q, p)
  BY <1>0, <1>3
     DEF WebStep, PollStep, EditGet, StartJob, SetScheduled, Publish, OpenPage,
         PollGet, PollState, PollSave, EditSave, RequestDies, StopJob, Web
<1>4. ASSUME NEW r \in Runs PROVE ~RunStep(r) /\ ~CommitStep(r)
  BY <1>0, RunFrame, CommitFrame DEF RunMoves, CommitMoves
<1>5. CASE ReceiveRevoke
  BY <1>0, <1>2, <1>5
     DEF ReceiveRevoke, webVars, commitVars, Active, RunningPoints,
         FailingPoints
<1>6. ASSUME NEW r \in Runs, NEW s \in Runs PROVE ~Redeliver(r, s)
  BY <1>0 DEF Redeliver
<1>7. CASE Restart
  <2>1. run' = run /\ commit' = commit
    BY <1>0, <1>7
       DEF Restart, Active, RunningPoints, FailingPoints, RevokingPoints,
           CommitBusy, CommitFailing
  <2> QED
    BY <1>2, <1>7, <2>1 DEF Restart, webVars
<1>8. CASE Expire \/ UNCHANGED vars
  BY <1>2, <1>8 DEF Expire, vars, webVars, runVars, commitVars
<1> QED
  BY <1>1, <1>3, <1>4, <1>5, <1>6, <1>7, <1>8 DEF Next

LEMMA WebPlannedStays ==
  ASSUME TypeOK, WebPlanned, RunsPlanned, CommitsPlanned, Editors = {}, Exists,
         [Next]_vars
  PROVE  WebPlanned'
<1>0. row'.plan = row.plan /\ Exists'
  BY PlanStays DEF PlanKept, Exists
<1> USE DEF TypeOK
<1>1. CASE UNCHANGED webVars
  BY <1>0, <1>1 DEF WebPlanned, Planned, webVars
<1>2. ASSUME NEW q \in Requests, WebStep(q) PROVE WebPlanned'
  <2>1. ASSUME NEW p \in Plans PROVE ~CreateJob(q, p) /\ ~EditGet(q, p)
    BY DEF CreateJob, EditGet
  <2>2. ~EditSave(q)
    BY DEF EditSave, Web, WebPlanned
  <2>3. Planned(row)
    BY DEF Planned, Exists
  <2> USE DEF WebPlanned, Planned, Web
  <2>4. CASE StartJob(q)
    BY <1>0, <2>3, <2>4 DEF StartJob
  <2>5. CASE SetScheduled(q)
    BY <1>0, <2>5 DEF SetScheduled
  <2>6. CASE Publish(q)
    BY <1>0, <2>6 DEF Publish, Landing
  <2>7. CASE OpenPage(q) \/ StopJob(q)
    BY <1>0, <2>7 DEF OpenPage, StopJob, webVars
  <2>8. CASE PollGet(q)
    BY <1>0, <2>3, <2>8 DEF PollGet
  <2>9. CASE PollState(q)
    BY <1>0, <2>9 DEF PollState, AfterPoll
  <2>10. CASE PollSave(q)
    BY <1>0, <2>10 DEF PollSave, AfterPoll
  <2>11. CASE RequestDies(q)
    BY <1>0, <2>11 DEF RequestDies
  <2> QED
    BY <1>2, <2>1, <2>2, <2>4, <2>5, <2>6, <2>7, <2>8, <2>9, <2>10, <2>11
       DEF WebStep, PollStep
<1>3. ASSUME NEW r \in Runs, RunStep(r) \/ CommitStep(r)
      PROVE  UNCHANGED webVars
  BY <1>3, RunFrame, CommitFrame
<1>4. CASE \/ ReceiveRevoke \/ Restart \/ Expire
           \/ \E r, s \in Runs : Redeliver(r, s)
           \/ UNCHANGED vars
  BY <1>1, <1>4 DEF ReceiveRevoke, Restart, Expire, Redeliver, vars
<1> QED
  BY <1>1, <1>2, <1>3, <1>4 DEF Next

(* A delivery reads its copy of the row on the way to where it holds one.  *)
Held == {"prerun_state", "prerun_save", "run_save", "fail_save", "revoke_save"}

LEMMA CopiesHeld ==
  ASSUME TypeOK, NEW r \in Runs, RunStep(r)
  PROVE  /\ run'[r] \in Held =>
              robj'[r] = row \/ (robj'[r] = robj[r] /\ run[r] \in Held)
         /\ \A s \in Runs : s # r => robj'[s] = robj[s]
<1> DEFINE Goal ==
      /\ run'[r] \in Held =>
           robj'[r] = row \/ (robj'[r] = robj[r] /\ run[r] \in Held)
      /\ \A s \in Runs : s # r => robj'[s] = robj[s]
<1> SUFFICES Goal
  OBVIOUS
<1>0. run \in [Runs -> RunPoints] /\ robj \in [Runs -> Rows]
  BY DEF TypeOK
<1> USE DEF Run, Held, envVars
<1>1. CASE PrerunGet(r) \/ RunGet(r) \/ FailGet(r) \/ RevokeGet(r)
  BY ONLY <1>0, <1>1, r \in Runs
     DEF PrerunGet, RunGet, FailGet, RevokeGet, ReadRow
<1>2. CASE RunSave(r) \/ FailSave(r) \/ RevokeSave(r) \/ PrerunSave(r)
  BY ONLY <1>0, <1>2, r \in Runs
     DEF RunSave, FailSave, RevokeSave, PrerunSave, WriteRow
<1>3. CASE PrerunState(r)
  BY ONLY <1>0, <1>3, r \in Runs DEF PrerunState
<1>4. CASE \/ Take(r) \/ Discard(r) \/ RunNotBegun(r) \/ LookForImage(r)
           \/ LookFails(r) \/ CreateContainer(r) \/ CreateFails(r)
           \/ ScriptEnds(r) \/ ScriptFails(r) \/ Cleanup(r) \/ CleanupRaises(r)
           \/ AppendFiles(r) \/ AppendRaises(r) \/ Link(r)
  BY ONLY <1>0, <1>4, r \in Runs
     DEF Take, Discard, RunNotBegun, LookForImage, LookFails, CreateContainer,
         CreateFails, ScriptEnds, ScriptFails, Cleanup, CleanupRaises,
         AppendFiles, AppendRaises, Link, RunRaises
<1>5. CASE \/ Track(r) \/ StoreSuccess(r) \/ StoreFailure(r) \/ StoreRevoked(r)
  BY ONLY <1>0, <1>5, r \in Runs
     DEF Track, StoreSuccess, StoreFailure, StoreRevoked, Store
<1>6. CASE \/ FailAppend(r) \/ FailCleanup(r) \/ RevokeAppend(r)
           \/ RevokeCleanup(r)
  BY ONLY <1>0, <1>6, r \in Runs
     DEF FailAppend, FailCleanup, RevokeAppend, RevokeCleanup, HandlerAppends,
         HandlerCleans
<1> HIDE DEF Goal
<1> QED
  BY <1>1, <1>2, <1>3, <1>4, <1>5, <1>6 DEF RunStep

LEMMA RunsPlannedStays ==
  ASSUME TypeOK, WebPlanned, RunsPlanned, CommitsPlanned, Editors = {}, Exists,
         [Next]_vars
  PROVE  RunsPlanned'
<1>0. row'.plan = row.plan /\ Exists'
  BY PlanStays DEF PlanKept, Exists
<1> USE DEF TypeOK
<1>1. CASE UNCHANGED <<run, args, robj>>
  BY <1>0, <1>1 DEF RunsPlanned, Planned
<1>2. ASSUME NEW q \in Requests, WebStep(q) PROVE RunsPlanned'
  <2>1. CASE Publish(q)
    <3>1. kwargs[q] = row.plan
      BY <2>1 DEF Publish, Web, WebPlanned
    <3> QED
      BY <1>0, <2>1, <3>1 DEF Publish, RunsPlanned, Planned
  <2>2. CASE ~Publish(q)
    <3>1. UNCHANGED <<run, args, robj>>
      BY <1>2, <2>2
         DEF WebStep, PollStep, CreateJob, EditGet, StartJob, SetScheduled,
             OpenPage, PollGet, PollState, PollSave, EditSave, RequestDies,
             StopJob, runVars
    <3> QED
      BY <1>1, <3>1
  <2> QED
    BY <2>1, <2>2
<1>3. ASSUME NEW r \in Runs, RunStep(r) PROVE RunsPlanned'
  <2>1. UNCHANGED args
    BY <1>3
       DEF RunStep, Take, Discard, PrerunGet, PrerunState, PrerunSave, Track,
           RunGet, RunSave, RunNotBegun, LookForImage, LookFails,
           CreateContainer, CreateFails, ScriptEnds, ScriptFails, Cleanup,
           CleanupRaises, AppendFiles, AppendRaises, Link, StoreSuccess,
           StoreFailure, FailGet, FailSave, FailAppend, FailCleanup,
           StoreRevoked, RevokeGet, RevokeSave, RevokeAppend, RevokeCleanup,
           ReadRow, WriteRow, Store, RunRaises, HandlerAppends, HandlerCleans,
           Elsewhere
  <2>2. run[r] # "none" /\ \A s \in Runs : s # r => run'[s] = run[s]
    BY <1>3, RunFrame DEF RunMoves
  <2>3. /\ run'[r] \in Held =>
             robj'[r] = row \/ (robj'[r] = robj[r] /\ run[r] \in Held)
        /\ \A s \in Runs : s # r => robj'[s] = robj[s]
    BY <1>3, CopiesHeld
  <2> SUFFICES ASSUME NEW s \in Runs
               PROVE  /\ run'[s] # "none" => args'[s] = row'.plan
                      /\ run'[s] \in Held => Planned(robj[s])'
    BY <1>0 DEF RunsPlanned, Held, Planned
  <2>4. CASE s = r
    BY <1>0, <2>1, <2>2, <2>3, <2>4 DEF RunsPlanned, Planned, Held, Exists
  <2>5. CASE s # r
    BY <1>0, <2>1, <2>2, <2>3, <2>5 DEF RunsPlanned, Planned, Held
  <2> QED
    BY <2>4, <2>5
<1>4. ASSUME NEW r \in Runs, CommitStep(r) PROVE RunsPlanned'
  BY <1>1, <1>4, CommitFrame DEF runVars
<1>5. CASE ReceiveRevoke
  BY <1>0, <1>5
     DEF ReceiveRevoke, RunsPlanned, Planned, Active, RunningPoints,
         FailingPoints
<1>6. ASSUME NEW r \in Runs, NEW s \in Runs, Redeliver(r, s)
      PROVE  RunsPlanned'
  BY <1>0, <1>6 DEF Redeliver, RunsPlanned, Planned
<1>7. CASE Restart
  <2> SUFFICES ASSUME NEW r \in Runs, run'[r] # "none"
               PROVE  args'[r] = row'.plan /\ run'[r] \notin Held
    BY <1>0 DEF RunsPlanned, Held
  <2>1. run[r] # "none" /\ UNCHANGED args
    BY <1>7 DEF Restart, Active, RunningPoints, FailingPoints, RevokingPoints
  <2>2. run'[r] \notin Held
    BY <1>7 DEF Restart, Held, Active, RunningPoints, FailingPoints,
       RevokingPoints
  <2> QED
    BY <1>0, <2>1, <2>2 DEF RunsPlanned
<1>8. CASE Expire \/ UNCHANGED vars
  BY <1>1, <1>8 DEF Expire, vars, runVars
<1> QED
  BY <1>2, <1>3, <1>4, <1>5, <1>6, <1>7, <1>8 DEF Next

LEMMA CommitsPlannedStays ==
  ASSUME TypeOK, WebPlanned, RunsPlanned, CommitsPlanned, Editors = {}, Exists,
         [Next]_vars
  PROVE  CommitsPlanned'
<1>0. row'.plan = row.plan /\ Exists'
  BY PlanStays DEF PlanKept, Exists
<1> USE DEF TypeOK, CommitsPlanned, Planned
<1>1. CASE UNCHANGED commitVars
  BY <1>0, <1>1 DEF commitVars
<1>2. ASSUME NEW q \in Requests, WebStep(q) PROVE CommitsPlanned'
  BY <1>1, <1>2, WebFrame
<1>3. ASSUME NEW r \in Runs, RunStep(r) PROVE CommitsPlanned'
  BY <1>0, <1>1, <1>3, RunFrame
<1>4. ASSUME NEW r \in Runs, CommitStep(r) PROVE CommitsPlanned'
  BY <1>0, <1>4
     DEF CommitStep, Commit, CommitGet, CommitFiles, CommitRaises, CommitSave,
         CommitFailGet, CommitFailSave, CommitFailAppend, CommitFailCleanup,
         Exists
<1>5. CASE Restart
  <2>1. \A r \in Runs : commit'[r] \notin {"work", "save", "fail_save"}
    BY <1>5 DEF Restart, CommitBusy, CommitFailing
  <2> QED
    BY <1>0, <2>1
<1>6. CASE \/ ReceiveRevoke \/ Expire
           \/ \E r, s \in Runs : Redeliver(r, s)
           \/ UNCHANGED vars
  BY <1>1, <1>6 DEF ReceiveRevoke, Expire, Redeliver, vars
<1> QED
  BY <1>2, <1>3, <1>4, <1>5, <1>6 DEF Next

(* Nothing but an edit makes a delivery execute another plan than the row  *)
(* shows: no stale copy of a request, a task or a handler that is saved    *)
(* over the row, and no message that is delivered again.                   *)
THEOREM PlanExecuted == Spec => []PlanIsExecuted
<1>1. Init => PlanInv
  BY DEF Init, PlanInv, WebPlanned, RunsPlanned, CommitsPlanned
<1>2. TypeOK /\ PlanInv /\ [Next]_vars => PlanInv'
  BY WebPlannedStays, RunsPlannedStays, CommitsPlannedStays,
     PlannedFromCreation DEF PlanInv
<1>3. PlanInv => PlanIsExecuted
  BY DEF PlanInv, RunsPlanned, PlanIsExecuted
<1> QED
  BY <1>1, <1>2, <1>3, TypeCorrect, PTL DEF Spec

------------------------------------------------------------------------------
(* What holds when the message of a job is delivered once.                 *)

DeliveredOnce == \A r, s \in Runs : r = s

(* When the worker has heard of the stop, nobody works on run_script.  A   *)
(* process that starts would have to have missed the revocation.           *)
StopInv ==
  /\ Stopped => \A r \in Runs : run[r] \notin Active
  /\ Stopped => revoked

LEMMA StopInvStays ==
  ASSUME DeliveredOnce, TypeOK, StopInv, [Next]_vars PROVE StopInv'
<1> USE DEF StopInv, Stopped, TypeOK
<1>a. /\ "queued" \notin Active
      /\ "revoke" \notin Active
      /\ "lost" \notin Active
  BY DEF Active, RunningPoints, FailingPoints
<1>1. ASSUME NEW q \in Requests, WebStep(q) PROVE StopInv'
  BY <1>1, <1>a, WebFrame
<1>2. ASSUME NEW r \in Runs, RunStep(r) PROVE StopInv'
  <2>1. UNCHANGED <<asked, revoking, revoked, restarts>>
    BY <1>2, RunFrame
  <2>2. CASE ~Stopped
    BY <2>1, <2>2
  <2>3. CASE Stopped
    <3>1. revoked /\ run[r] \notin Active
      BY <2>3
    <3>2. ~Take(r)
      BY <3>1 DEF Take
    <3>3. ASSUME run'[r] \in Active PROVE FALSE
      <4>1. run[r] = "queued" /\ run'[r] = "prerun"
        BY <1>2, <3>1, <3>3, RunFrame
           DEF RunMoves, Active, RunningPoints, FailingPoints
      <4> QED
        BY <1>2, <3>2, <4>1, MovesMade
    <3>4. \A s \in Runs : s # r => run'[s] = run[s]
      BY <1>2, RunFrame
    <3> QED
      BY <2>1, <2>3, <3>1, <3>3, <3>4
  <2> QED
    BY <2>2, <2>3
<1>3. ASSUME NEW r \in Runs, CommitStep(r) PROVE StopInv'
  BY <1>3, CommitFrame DEF runVars, brokerVars
<1>4. CASE ReceiveRevoke
  <2>1. revoked' /\ UNCHANGED <<asked, restarts>>
    BY <1>4 DEF ReceiveRevoke, history
  <2>2. \A r \in Runs : run'[r] \notin Active
    BY <1>4, <1>a DEF ReceiveRevoke, DeliveredOnce
  <2> QED
    BY <2>1, <2>2
<1>5. ASSUME NEW r \in Runs, NEW s \in Runs, Redeliver(r, s) PROVE StopInv'
  BY <1>5, <1>a DEF Redeliver, brokerVars, history
<1>6. CASE Restart
  <2>1. restarts' # 0
    BY <1>6, ConstantsAssumption DEF Restart
  <2> QED
    BY <2>1
<1>7. CASE Expire \/ UNCHANGED vars
  BY <1>7 DEF Expire, vars, runVars, brokerVars, history
<1> QED
  BY <1>1, <1>2, <1>3, <1>4, <1>5, <1>6, <1>7 DEF Next

(* Only a delivery that comes to its end links a commit task, and it is    *)
(* not stopped then.                                                       *)
LEMMA LinkedUnlessStopped ==
  ASSUME TypeOK, StopInv, [Next]_vars, Stopped', NEW r \in Runs,
         commit[r] = "none"
  PROVE  commit'[r] = "none"
<1> USE DEF TypeOK
<1>1. ASSUME NEW q \in Requests, WebStep(q) PROVE commit'[r] = "none"
  BY <1>1, WebFrame DEF commitVars
<1>2. ASSUME NEW s \in Runs, RunStep(s) PROVE commit'[r] = "none"
  <2>1. Stopped
    BY <1>2, RunFrame DEF Stopped
  <2>2. run[s] # "link"
    BY <2>1 DEF StopInv, Active, RunningPoints
  <2> QED
    BY <1>2, <2>2, RunFrame DEF commitVars
<1>3. ASSUME NEW s \in Runs, CommitStep(s) PROVE commit'[r] = "none"
  BY <1>3, CommitFrame DEF CommitMoves
<1>4. CASE \/ ReceiveRevoke \/ Restart \/ Expire
           \/ \E s, t \in Runs : Redeliver(s, t)
           \/ UNCHANGED vars
  BY <1>4 DEF ReceiveRevoke, Restart, Expire, Redeliver, vars, commitVars,
     CommitBusy, CommitFailing
<1> QED
  BY <1>1, <1>2, <1>3, <1>4 DEF Next

(* When the worker has heard of the stop, no process executes run_script   *)
(* or handles its failure any more and none will, be the task queued,      *)
(* planned or in the middle; and no commit task is linked.  One that was   *)
(* linked before has an id of its own and goes on.                         *)
THEOREM StopIsObeyed == ASSUME DeliveredOnce PROVE Spec => StopIsFinal
<1>1. Init => StopInv
  BY DEF Init, StopInv, Stopped
<1>2. TypeOK /\ StopInv /\ [Next]_vars => StopInv'
  BY StopInvStays
<1>3. TypeOK /\ StopInv /\ [Next]_vars
        => [Stopped' => \A r \in Runs :
              /\ run'[r] \notin Active
              /\ commit[r] = "none" => commit'[r] = "none"]_vars
  BY StopInvStays, LinkedUnlessStopped DEF StopInv
<1> QED
  BY <1>1, <1>2, <1>3, TypeCorrect, PTL DEF Spec, StopIsFinal
==============================================================================
