----------------------------- MODULE CommitTask ------------------------------
(***************************************************************************)
(* The task commit (tasks.py, commit_worker.py): it goes through the files *)
(* that were attached to a job and publishes each by its kind.  A NetCDF   *)
(* file is marked and put in the OPeNDAP directory by ncatted, a KML file  *)
(* is copied to the KML directory, a CSV file is imported by csv_worker.   *)
(*                                                                         *)
(* Tasks of several jobs, or of a job that was delivered twice, run beside *)
(* each other; those of one repository share its directories, and files    *)
(* that have one name in it their destination.  The file system, ncatted   *)
(* and csv_worker are modelled from how the code uses them; what an import *)
(* does to the table is in CsvCommit.                                      *)
(***************************************************************************)
EXTENDS FiniteSets

CONSTANTS
  Tasks,    \* commit tasks
  Files,    \* files attached to their jobs, of the kinds it publishes
  FilesOf,  \* those of the job of each task
  Kind,     \* of each file
  Dests,    \* paths of published files
  Dest,     \* of each file
  Dirs,     \* directories of repositories, for OPeNDAP and for KML
  Dir,      \* of each destination
  Nothing   \* no file; a part of one that was not written

Kinds == {"netcdf", "csv", "kml"}

ASSUME CommitAssumption ==
  /\ FilesOf \in [Tasks -> SUBSET Files]
  /\ Kind \in [Files -> Kinds]
  /\ Dest \in [Files -> Dests]
  /\ Dir \in [Dests -> Dirs]
  /\ Nothing \notin Files

VARIABLES
  at,        \* where each task is
  todo,      \* the files it has not come to
  file,      \* the file it is at
  committed, \* the files it published
  reported,  \* the files whose failure it only logged
  dirs,      \* the directories there are
  store,     \* the two parts of what is stored at each destination
  erred,     \* history: the tasks that met an error of their own
  met,       \* history: the tasks that were at work at the same time
  broken     \* history: destinations where a copy broke off

task   == <<at, todo, file>>
done   == <<committed, reported>>
world  == <<dirs, store>>
history == <<erred, met, broken>>
vars   == <<task, done, world, history>>

Copying == {"part1", "part2"}
Busy    == {"loop", "look", "make", "publish"} \cup Copying
Over    == {"finished", "failed", "lost"}

TypeOK ==
  /\ at \in [Tasks -> Busy \cup Over \cup {"waiting"}]
  /\ todo \in [Tasks -> SUBSET Files]
  /\ file \in [Tasks -> Files \cup {Nothing}]
  /\ committed \in [Tasks -> SUBSET Files]
  /\ reported \in [Tasks -> SUBSET Files]
  /\ dirs \subseteq Dirs
  /\ store \in [Dests -> [{"part1", "part2"} -> Files \cup {Nothing}]]
  /\ erred \subseteq Tasks
  /\ met \subseteq Tasks \X Tasks
  /\ broken \subseteq Dests

Empty == [part \in {"part1", "part2"} |-> Nothing]

Init ==
  /\ at = [t \in Tasks |-> "waiting"]
  /\ todo = FilesOf
  /\ file = [t \in Tasks |-> Nothing]
  /\ committed = [t \in Tasks |-> {}]
  /\ reported = [t \in Tasks |-> {}]
  /\ dirs \in SUBSET Dirs
  /\ store = [d \in Dests |-> Empty]
  /\ erred = {}
  /\ met = {}
  /\ broken = {}

Is(t, kind) == Kind[file[t]] = kind
DirOf(t)    == Dir[Dest[file[t]]]

Goto(t, from, to) == at[t] = from /\ at' = [at EXCEPT ![t] = to]

------------------------------------------------------------------------------
(* job.processing_result.all() is read at once.                            *)
Start(t) ==
  /\ Goto(t, "waiting", "loop")
  /\ met' = met \cup {s \in Tasks \X Tasks :
                        \/ s[1] = t /\ at[s[2]] \in Busy
                        \/ s[2] = t /\ at[s[1]] \in Busy}
  /\ UNCHANGED <<todo, file, done, world, erred, broken>>

(* The next file: its kind says what is done with it; files of any other   *)
(* kind are passed over.                                                   *)
NextFile(t, f) ==
  /\ f \in todo[t]
  /\ Goto(t, "loop", IF Kind[f] = "csv" THEN "publish" ELSE "look")
  /\ todo' = [todo EXCEPT ![t] = @ \ {f}]
  /\ file' = [file EXCEPT ![t] = f]
  /\ UNCHANGED <<done, world, history>>

(* Mutant of LookForDir: the directory is always made.                     *)
LookForNothing(t) ==
  /\ Goto(t, "look", "make")
  /\ UNCHANGED <<todo, file, done, world, history>>

(* os.path.exists(dest_dir) ...                                            *)
LookForDir(t) ==
  /\ Goto(t, "look", IF DirOf(t) \in dirs THEN "publish" ELSE "make")
  /\ UNCHANGED <<todo, file, done, world, history>>

(* ... and os.makedirs(dest_dir) ...                                       *)
MakeDir(t) ==
  /\ Goto(t, "make", "publish")
  /\ DirOf(t) \notin dirs
  /\ dirs' = dirs \cup {DirOf(t)}
  /\ UNCHANGED <<todo, file, done, store, history>>

(* Mutant of DirIsThere: it tries again.                                   *)
DirTriedAgain(t) ==
  /\ Goto(t, "make", "make")
  /\ DirOf(t) \in dirs
  /\ UNCHANGED <<todo, file, done, world, history>>

(* ... which raises when it is there by now.                               *)
DirIsThere(t) ==
  /\ Goto(t, "make", "failed")
  /\ DirOf(t) \in dirs
  /\ UNCHANGED <<todo, file, done, world, history>>

Committed(t) ==
  /\ committed' = [committed EXCEPT ![t] = @ \cup {file[t]}]
  /\ file' = [file EXCEPT ![t] = Nothing]
  /\ UNCHANGED <<todo, reported, dirs, history>>

(* ncatted writes a file of its own and puts it in place.                  *)
CommitNetCDF(t) ==
  /\ Goto(t, "publish", "loop")
  /\ Is(t, "netcdf")
  /\ store' = [store EXCEPT ![Dest[file[t]]] =
                 [part \in {"part1", "part2"} |-> file[t]]]
  /\ Committed(t)

(* csv_worker ended well.                                                  *)
CommitCSV(t) ==
  /\ Goto(t, "publish", "loop")
  /\ Is(t, "csv")
  /\ UNCHANGED store
  /\ Committed(t)

(* copyfile opens the destination for writing, which empties it, ...       *)
OpenCopy(t) ==
  /\ Goto(t, "publish", "part1")
  /\ Is(t, "kml")
  /\ store' = [store EXCEPT ![Dest[file[t]]] = Empty]
  /\ broken' = broken \ {Dest[file[t]]}
  /\ UNCHANGED <<todo, file, done, dirs, erred, met>>

(* Mutant of CopyPart1: it is taken for the whole file.                    *)
CopyPart1Only(t) ==
  /\ Goto(t, "part1", "loop")
  /\ store' = [store EXCEPT ![Dest[file[t]]]["part1"] = file[t]]
  /\ Committed(t)

(* ... and copies piece by piece.                                          *)
CopyPart1(t) ==
  /\ Goto(t, "part1", "part2")
  /\ store' = [store EXCEPT ![Dest[file[t]]]["part1"] = file[t]]
  /\ UNCHANGED <<todo, file, done, dirs, history>>

CopyPart2(t) ==
  /\ Goto(t, "part2", "loop")
  /\ store' = [store EXCEPT ![Dest[file[t]]]["part2"] = file[t]]
  /\ Committed(t)

(* CommitError, raised when ncatted ends with an error or csv_worker was   *)
(* killed, is caught and logged.                                           *)
OnlyLogged(t) ==
  /\ Goto(t, "publish", "loop")
  /\ Is(t, "netcdf") \/ Is(t, "csv")
  /\ reported' = [reported EXCEPT ![t] = @ \cup {file[t]}]
  /\ file' = [file EXCEPT ![t] = Nothing]
  /\ UNCHANGED <<todo, committed, world, history>>

Breaks(t) == IF at[t] \in Copying THEN broken \cup {Dest[file[t]]} ELSE broken

(* Mutant of Raises: the loop goes on with the next file.                  *)
RaisesOn(t) ==
  /\ at[t] \in {"make", "publish"} \cup Copying
  /\ at' = [at EXCEPT ![t] = "loop"]
  /\ file' = [file EXCEPT ![t] = Nothing]
  /\ erred' = erred \cup {t}
  /\ broken' = Breaks(t)
  /\ UNCHANGED <<todo, done, world, met>>

(* Any other exception ends the task: no right to make the directory, no   *)
(* ncatted, csv_worker ended with an error, the disk is full.              *)
Raises(t) ==
  /\ at[t] \in {"make", "publish"} \cup Copying
  /\ at' = [at EXCEPT ![t] = "failed"]
  /\ erred' = erred \cup {t}
  /\ broken' = Breaks(t)
  /\ UNCHANGED <<todo, file, done, world, met>>

(* The worker goes down.                                                   *)
Dies(t) ==
  /\ at[t] \in Busy
  /\ at' = [at EXCEPT ![t] = "lost"]
  /\ file' = [file EXCEPT ![t] = Nothing]
  /\ broken' = Breaks(t)
  /\ UNCHANGED <<todo, done, world, erred, met>>

(* job.set_status('FINISHED')                                              *)
Finish(t) ==
  /\ todo[t] = {}
  /\ Goto(t, "loop", "finished")
  /\ UNCHANGED <<todo, file, done, world, history>>

Work(t) ==
  \/ \E f \in Files : NextFile(t, f)
  \/ LookForDir(t) \/ MakeDir(t) \/ DirIsThere(t)
  \/ CommitNetCDF(t) \/ CommitCSV(t)
  \/ OpenCopy(t) \/ CopyPart1(t) \/ CopyPart2(t)
  \/ Finish(t)

Next ==
  \E t \in Tasks : Start(t) \/ Work(t) \/ OnlyLogged(t) \/ Raises(t) \/ Dies(t)

Spec == Init /\ [][Next]_vars

(* A task that was begun goes on; no error has to happen.                  *)
FairSpec == Spec /\ \A t \in Tasks : WF_vars(Work(t))

------------------------------------------------------------------------------
(* A job is FINISHED when each of its results was published, or its loss   *)
(* is in the log of the job; only NetCDF and CSV files are lost so.        *)
FinishedIsComplete ==
  \A t \in Tasks : at[t] = "finished" =>
    /\ FilesOf[t] = committed[t] \cup reported[t]
    /\ \A f \in reported[t] : Kind[f] \in {"netcdf", "csv"}

(* A commit task that met no error of its own fails only when another task *)
(* for the same repository ran beside it and made a directory first.       *)
FailsOverDirsOnly ==
  \A t \in Tasks : at[t] = "failed" /\ t \notin erred =>
    \E s \in Tasks \ {t} :
      /\ <<s, t>> \in met
      /\ DirOf(t) \in {Dir[Dest[f]] : f \in FilesOf[s]}

Whole(d)   == store[d]["part1"] = store[d]["part2"]
Copied(d)  == \E t \in Tasks : at[t] \in Copying /\ Dest[file[t]] = d

(* Files of different jobs with one name, published at the same time.      *)
Clash(d) ==
  \E s, t \in Tasks : <<s, t>> \in met /\
    \E f \in FilesOf[s], g \in FilesOf[t] : f # g /\ Dest[f] = d /\ Dest[g] = d

(* What is stored is one file, whole, unless it is being copied, or a copy *)
(* broke off, or two jobs wrote different files over each other; a second  *)
(* delivery of one job, with the same files, does no harm.                 *)
StoreIsWhole == \A d \in Dests : Whole(d) \/ Copied(d) \/ d \in broken \/ Clash(d)

(* Every commit task comes to an end.                                      *)
CommitEnds == \A t \in Tasks : at[t] = "loop" ~> at[t] \in Over
==============================================================================
