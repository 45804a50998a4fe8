------------------------------ MODULE CsvCommit ------------------------------
(***************************************************************************)
(* Importing the CSV results of jobs into the table of observations: the   *)
(* processes csv_worker, one for each CSV file, each run by the commit     *)
(* task of its job (commit_worker.py, management/commands/csv_worker.py).  *)
(*                                                                         *)
(* An import first takes the reference to its environment and script off   *)
(* the observations and deletes those left without one, in two statements  *)
(* that are transactions of their own; then it saves the rows of the file  *)
(* chunk by chunk in one transaction.  An observation is known by its data;*)
(* its row in the table by the import that inserted it.  Django and        *)
(* PostgreSQL (read committed, row locks, unique index, deadlocks) are     *)
(* modelled from how the code uses them.                                   *)
(***************************************************************************)
EXTENDS Naturals, Sequences, FiniteSets

CONSTANTS
  Imports,  \* runs of csv_worker
  Jobs,
  JobOf,    \* the job an import belongs to
  Before,   \* the imports of earlier files of the same job
  Hashes,   \* hashes of environment and script
  Hash,     \* of each job
  Data,     \* contents an observation may have
  Places,   \* spots on the map, more than a metre from each other
  PlaceOf,  \* the spot of each observation, which is among its data
  Chunks,   \* the file of each import, a sequence of sets of data
  Nobody,
  MayDie    \* may a csv_worker be killed by a signal?

ASSUME CsvAssumption ==
  /\ JobOf \in [Imports -> Jobs]
  /\ Before \in [Imports -> SUBSET Imports]
  /\ Hash \in [Jobs -> Hashes]
  /\ Chunks \in [Imports -> Seq(SUBSET Data)]
  /\ PlaceOf \in [Data -> Places]
  /\ Nobody \notin Imports \cup Jobs
  /\ MayDie \in BOOLEAN

VARIABLES
  table,      \* the observations, as committed
  at,         \* where each import is
  chunkno,    \* the chunk it is at
  found,      \* the objects it has read or made for the rows of that chunk
  todo,       \* the rows of the chunk it has still to save
  own,        \* what its transaction has written so far
  scan,       \* the rows its UPDATE or DELETE has still to look at
  held,       \* ... and those it has locked, to change them
  points,     \* how many LocationPoints each spot has, as committed
  made,       \* how many the open transaction of each import has made
  latest,     \* history: the job that last dereferenced a hash
  unpurged,   \* history: an import broke off between its dereference and the
              \* end of its purge, and no purge was begun since
  overlapped  \* history: two imports were at work at the same time

sites     == <<points, made>>
statement == <<scan, held>>
history   == <<latest, unpurged, overlapped>>
vars == <<table, at, chunkno, found, todo, own, statement, sites, history>>

Row      == [by : Imports \cup {Nobody}, envs : SUBSET Hashes]
NoRow    == [by |-> Nobody, envs |-> {}]
Stored(row) == row.by # Nobody

Purging == {"purge", "purge_rows"}
Busy == {"deref", "deref_rows", "read", "save"} \cup Purging
Over == {"done", "failed", "killed"}

TypeOK ==
  /\ table \in [Data -> Row]
  /\ at \in [Imports -> Busy \cup Over \cup {"waiting"}]
  /\ chunkno \in [Imports -> Nat]
  /\ found \in [Imports -> [Data -> Row]]
  /\ todo \in [Imports -> SUBSET Data]
  /\ own \in [Imports -> [Data -> Row]]
  /\ scan \in [Imports -> SUBSET Data]
  /\ held \in [Imports -> SUBSET Data]
  /\ points \in [Places -> Nat]
  /\ made \in [Imports -> [Places -> Nat]]
  /\ latest \in [Hashes -> Jobs \cup {Nobody}]
  /\ unpurged \in BOOLEAN
  /\ overlapped \in BOOLEAN

Nothing  == [d \in Data |-> NoRow]
NoPoints == [p \in Places |-> 0]

Init ==
  /\ table = Nothing
  /\ at = [i \in Imports |-> "waiting"]
  /\ chunkno = [i \in Imports |-> 1]
  /\ found = [i \in Imports |-> Nothing]
  /\ todo = [i \in Imports |-> {}]
  /\ own = [i \in Imports |-> Nothing]
  /\ scan = [i \in Imports |-> {}]
  /\ held = [i \in Imports |-> {}]
  /\ points = NoPoints
  /\ made = [i \in Imports |-> NoPoints]
  /\ latest = [h \in Hashes |-> Nobody]
  /\ unpurged = FALSE
  /\ overlapped = FALSE

EnvHash(i) == Hash[JobOf[i]]
Contents(i) == UNION {Chunks[i][n] : n \in 1..Len(Chunks[i])}

(* A row that the open transaction of another import, or its statement,    *)
(* has written or is to write.                                             *)
Wrote(j, d)  == Stored(own[j][d])
Locks(j, d)  == Wrote(j, d) \/ d \in held[j]
Locked(i, d) == \E j \in Imports \ {i} : Locks(j, d)

Goto(i, from, to) == at[i] = from /\ at' = [at EXCEPT ![i] = to]

------------------------------------------------------------------------------
(* commit imports the files of a job one by one; an import that was killed *)
(* is only reported, one that failed ends the task.                        *)
Start(i) ==
  /\ \A j \in Before[i] : at[j] \in {"done", "killed"}
  /\ Goto(i, "waiting", "deref")
  /\ overlapped' = (overlapped \/ \E j \in Imports : at[j] \in Busy)
  /\ UNCHANGED <<table, chunkno, found, todo, own, statement, sites, latest,
                 unpurged>>

(* remove_or_deref_observations: an UPDATE and a DELETE, each committed on *)
(* its own.  A statement goes for the rows that qualified when it began;   *)
(* it takes them one by one, in an order that PostgreSQL chooses, waits    *)
(* for one that is locked, and leaves one that qualifies no longer.        *)
Begin(i, from, to, rows) ==
  /\ Goto(i, from, to)
  /\ scan' = [scan EXCEPT ![i] = rows]
  /\ UNCHANGED <<table, chunkno, found, todo, own, held, sites>>

TakeRow(i, d, qualifies) ==
  /\ d \in scan[i]
  /\ ~Locked(i, d)
  /\ scan' = [scan EXCEPT ![i] = @ \ {d}]
  /\ held' = IF qualifies THEN [held EXCEPT ![i] = @ \cup {d}] ELSE held
  /\ UNCHANGED <<table, at, chunkno, found, todo, own, sites, history>>

Named(i)  == {d \in Data : EnvHash(i) \in table[d].envs}
Orphan(d) == Stored(table[d]) /\ table[d].envs = {}

DerefBegins(i) ==
  Begin(i, "deref", "deref_rows", Named(i)) /\ UNCHANGED history

DerefRow(i, d) == at[i] = "deref_rows" /\ TakeRow(i, d, d \in Named(i))

(* Mutant of DerefEnds: the observations are removed, whoever refers to    *)
(* them.                                                                   *)
DerefRemoves(i) ==
  /\ scan[i] = {}
  /\ Goto(i, "deref_rows", "purge")
  /\ table' = [d \in Data |-> IF d \in held[i] THEN NoRow ELSE table[d]]
  /\ held' = [held EXCEPT ![i] = {}]
  /\ latest' = [latest EXCEPT ![EnvHash(i)] = JobOf[i]]
  /\ UNCHANGED <<chunkno, found, todo, own, scan, sites, unpurged, overlapped>>

DerefEnds(i) ==
  /\ scan[i] = {}
  /\ Goto(i, "deref_rows", "purge")
  /\ table' = [d \in Data |->
                 IF d \in held[i]
                 THEN [table[d] EXCEPT !.envs = @ \ {EnvHash(i)}]
                 ELSE table[d]]
  /\ held' = [held EXCEPT ![i] = {}]
  /\ latest' = [latest EXCEPT ![EnvHash(i)] = JobOf[i]]
  /\ UNCHANGED <<chunkno, found, todo, own, scan, sites, unpurged, overlapped>>

PurgeBegins(i) ==
  /\ Begin(i, "purge", "purge_rows", {d \in Data : Orphan(d)})
  /\ unpurged' = FALSE
  /\ UNCHANGED <<latest, overlapped>>

PurgeRow(i, d) == at[i] = "purge_rows" /\ TakeRow(i, d, Orphan(d))

(* A row that is gone is none of the other statements' any more.           *)
PurgeEnds(i) ==
  /\ scan[i] = {}
  /\ Goto(i, "purge_rows", "read")
  /\ table' = [d \in Data |-> IF d \in held[i] THEN NoRow ELSE table[d]]
  /\ held' = [held EXCEPT ![i] = {}]
  /\ scan' = [j \in Imports |-> scan[j] \ held[i]]
  /\ UNCHANGED <<chunkno, found, todo, own, sites, history>>

(* A row as the transaction of i sees it.                                  *)
Seen(i, d) == IF Wrote(i, d) THEN own[i][d] ELSE table[d]

(* Mutant of WithPoints: each chunk makes its own.                         *)
WithNewPoints(i, chunk) ==
  [p \in Places |->
     IF \E d \in chunk : PlaceOf[d] = p THEN made[i][p] + 1 ELSE made[i][p]]

(* point_exists: a spot without a point in the eyes of the transaction     *)
(* gets one.                                                               *)
WithPoints(i, chunk) ==
  [p \in Places |->
     IF points[p] + made[i][p] = 0 /\ \E d \in chunk : PlaceOf[d] = p
     THEN 1 ELSE made[i][p]]

(* Mutant of ReadChunk: an observation that exists is used as it is.       *)
ReadChunkReusing(i) ==
  /\ chunkno[i] \in 1..Len(Chunks[i])
  /\ Goto(i, "read", "save")
  /\ LET chunk == Chunks[i][chunkno[i]] IN
       /\ todo' = [todo EXCEPT ![i] = chunk]
       /\ found' = [found EXCEPT ![i] =
            [d \in Data |->
               CASE d \notin chunk       -> NoRow
                 [] Stored(Seen(i, d))   -> Seen(i, d)
                 [] OTHER -> [by |-> Nobody, envs |-> {EnvHash(i)}]]]
  /\ made' = [made EXCEPT ![i] = WithPoints(i, Chunks[i][chunkno[i]])]
  /\ UNCHANGED <<table, chunkno, own, statement, points, history>>

(* chunk_to_db: for each row of a chunk the point is looked up or made,    *)
(* then the observation is looked up and the hash added to its references, *)
(* or a new one is made.                                                   *)
ReadChunk(i) ==
  /\ chunkno[i] \in 1..Len(Chunks[i])
  /\ Goto(i, "read", "save")
  /\ LET chunk == Chunks[i][chunkno[i]] IN
       /\ todo' = [todo EXCEPT ![i] = chunk]
       /\ found' = [found EXCEPT ![i] =
            [d \in Data |->
               IF d \in chunk
               THEN [Seen(i, d) EXCEPT !.envs = @ \cup {EnvHash(i)}]
               ELSE NoRow]]
  /\ made' = [made EXCEPT ![i] = WithPoints(i, Chunks[i][chunkno[i]])]
  /\ UNCHANGED <<table, chunkno, own, statement, points, history>>

(* save_observations: the new ones first.                                  *)
Turn(i, d) ==
  /\ d \in todo[i]
  /\ Stored(found[i][d]) => \A e \in todo[i] : Stored(found[i][e])

(* The unique index: another row with this data was inserted meanwhile.    *)
Collides(i, d) ==
  /\ Stored(Seen(i, d))
  /\ Seen(i, d).by # found[i][d].by

Rollback(i, end) ==
  /\ at' = [at EXCEPT ![i] = end]
  /\ own' = [own EXCEPT ![i] = Nothing]
  /\ found' = [found EXCEPT ![i] = Nothing]
  /\ todo' = [todo EXCEPT ![i] = {}]
  /\ scan' = [scan EXCEPT ![i] = {}]
  /\ held' = [held EXCEPT ![i] = {}]
  /\ made' = [made EXCEPT ![i] = NoPoints]
  /\ unpurged' = (unpurged \/ at[i] \in Purging)
  /\ UNCHANGED <<table, chunkno, points, latest, overlapped>>

(* An object that was read is saved whole, by its id; if its row has been  *)
(* deleted meanwhile it is inserted again.                                 *)
SaveRow(i, d) ==
  /\ at[i] = "save"
  /\ Turn(i, d)
  /\ ~Locked(i, d)
  /\ ~Collides(i, d)
  /\ own' = [own EXCEPT ![i][d] =
               IF Stored(found[i][d]) THEN found[i][d]
               ELSE [found[i][d] EXCEPT !.by = i]]
  /\ todo' = [todo EXCEPT ![i] = @ \ {d}]
  /\ UNCHANGED <<table, at, chunkno, found, statement, sites, history>>

(* Mutant of SaveCollides: the row is tried again.                         *)
SaveRetries(i, d) ==
  /\ at[i] = "save"
  /\ Turn(i, d)
  /\ ~Locked(i, d)
  /\ Collides(i, d)
  /\ UNCHANGED vars

SaveCollides(i, d) ==
  /\ at[i] = "save"
  /\ Turn(i, d)
  /\ ~Locked(i, d)
  /\ Collides(i, d)
  /\ Rollback(i, "failed")

(* A saving transaction, an UPDATE or a DELETE waits for a row that another*)
(* import has locked; of imports that wait in a circle PostgreSQL aborts   *)
(* one.                                                                    *)
WaitsFor(i, j) ==
  /\ i # j
  /\ \E d \in Data : /\ Locks(j, d)
                     /\ (at[i] = "save" /\ Turn(i, d)) \/ d \in scan[i]

DeadlockAborts(i) ==
  /\ \E circle \in SUBSET Imports :
       /\ i \in circle
       /\ \E next \in [circle -> circle] :
            /\ \A j \in circle : WaitsFor(j, next[j])
            /\ \A j \in circle : \E k \in circle : next[k] = j
  /\ Rollback(i, "failed")

NextChunk(i) ==
  /\ todo[i] = {}
  /\ Goto(i, "save", "read")
  /\ chunkno' = [chunkno EXCEPT ![i] = @ + 1]
  /\ found' = [found EXCEPT ![i] = Nothing]
  /\ UNCHANGED <<table, todo, own, statement, sites, history>>

(* Mutant of CommitImport: only the last chunk is in the transaction.      *)
CommitLastChunk(i) ==
  /\ chunkno[i] > Len(Chunks[i])
  /\ Goto(i, "read", "done")
  /\ table' = [d \in Data |->
                 IF Wrote(i, d) /\ d \in Chunks[i][Len(Chunks[i])]
                 THEN own[i][d] ELSE table[d]]
  /\ own' = [own EXCEPT ![i] = Nothing]
  /\ points' = [p \in Places |-> points[p] + made[i][p]]
  /\ made' = [made EXCEPT ![i] = NoPoints]
  /\ UNCHANGED <<chunkno, found, todo, statement, history>>

(* The end of transaction.atomic().                                        *)
CommitImport(i) ==
  /\ chunkno[i] > Len(Chunks[i])
  /\ Goto(i, "read", "done")
  /\ table' = [d \in Data |-> Seen(i, d)]
  /\ own' = [own EXCEPT ![i] = Nothing]
  /\ points' = [p \in Places |-> points[p] + made[i][p]]
  /\ made' = [made EXCEPT ![i] = NoPoints]
  /\ UNCHANGED <<chunkno, found, todo, statement, history>>

(* Mutant of Invalid: what was saved up to then stays.                     *)
InvalidKeeping(i) ==
  /\ at[i] = "read"
  /\ chunkno[i] <= Len(Chunks[i])
  /\ at' = [at EXCEPT ![i] = "failed"]
  /\ table' = [d \in Data |-> Seen(i, d)]
  /\ own' = [own EXCEPT ![i] = Nothing]
  /\ points' = [p \in Places |-> points[p] + made[i][p]]
  /\ made' = [made EXCEPT ![i] = NoPoints]
  /\ UNCHANGED <<chunkno, found, todo, statement, history>>

(* A missing column, a value that is not in its list, an unreadable file.  *)
Invalid(i) ==
  /\ at[i] = "read"
  /\ chunkno[i] <= Len(Chunks[i])
  /\ Rollback(i, "failed")

(* Any query may fail; an UPDATE or DELETE then changes nothing.           *)
DatabaseError(i) == at[i] \in Busy /\ Rollback(i, "failed")

(* The process is killed: PostgreSQL rolls its transaction back.           *)
Killed(i) ==
  /\ MayDie
  /\ at[i] \in Busy
  /\ Rollback(i, "killed")

BreaksOff(i) == Invalid(i) \/ DatabaseError(i) \/ Killed(i)

Work(i) ==
  \/ DerefBegins(i) \/ DerefEnds(i) \/ PurgeBegins(i) \/ PurgeEnds(i)
  \/ \E d \in Data : DerefRow(i, d) \/ PurgeRow(i, d)
  \/ ReadChunk(i) \/ NextChunk(i) \/ CommitImport(i)
  \/ \E d \in Data : SaveRow(i, d) \/ SaveCollides(i, d)
  \/ DeadlockAborts(i)

Next == \E i \in Imports : Start(i) \/ Work(i) \/ BreaksOff(i)

Spec == Init /\ [][Next]_vars

(* A csv_worker that was started goes on.                                  *)
FairSpec == Spec /\ \A i \in Imports : WF_vars(Work(i))
------------------------------------------------------------------------------
(* When the files of a job were imported one after the other, with no      *)
(* import of another job at work meanwhile, the observations that refer to *)
(* its environment and script are those of its files: nothing of an        *)
(* earlier run is left and nothing of this one is missing.                 *)
TableShowsLatestRun ==
  ~overlapped =>
    \A job \in Jobs :
      LET mine == {i \in Imports : JobOf[i] = job} IN
      (mine # {} /\ latest[Hash[job]] = job /\ \A i \in mine : at[i] = "done")
        => {d \in Data : Hash[job] \in table[d].envs} = UNION {Contents(i) : i \in mine}

(* A reference stands for data that a finished import of that environment  *)
(* and script did contain, however stale the objects that were saved.      *)
NoInventedReference ==
  \A d \in Data : \A h \in table[d].envs :
    \E i \in Imports : at[i] = "done" /\ EnvHash(i) = h /\ d \in Contents(i)

(* An observation without a reference is gone when no import is between    *)
(* its dereference and the end of its purge, unless one broke off there    *)
(* and nobody has begun a purge since: a purge also takes what others left *)
(* behind, and no saving import brings one back, however stale its objects.*)
NoOrphans ==
  (~unpurged /\ \A i \in Imports : at[i] \notin Purging) =>
    \A d \in Data : ~Orphan(d)

(* Points within a metre of each other are merged: unless imports overlap, *)
(* when neither sees those that the other makes, a spot has one at most.   *)
OnePointPerPlace == ~overlapped => \A p \in Places : points[p] <= 1

(* An import clears of its environment and script what was shown when it   *)
(* began to, and later shows its whole file at once, or nothing of it, as  *)
(* ResultTable has it; what it may change of others' references is said    *)
(* there too.                                                              *)
Phase(i) ==
  CASE at[i] = "waiting"    -> "waiting"
    [] at[i] = "deref"      -> "begun"
    [] at[i] = "deref_rows" -> "clearing"
    [] at[i] \in Purging \cup {"read", "save"} -> "cleared"
    [] at[i] = "done"       -> "landed"
    [] OTHER                -> "off"

Clearing(i) == IF at[i] = "deref_rows" THEN scan[i] \cup held[i] ELSE {}

Refs(h) == {d \in Data : h \in table[d].envs}

Results == INSTANCE ResultTable WITH
  HashOf   <- [i \in Imports |-> EnvHash(i)],
  InFile   <- [i \in Imports |-> Contents(i)],
  shown    <- [h \in Hashes |-> Refs(h)],
  phase    <- [i \in Imports |-> Phase(i)],
  old      <- [i \in Imports |-> Clearing(i)],
  together <- overlapped

ResultsShown == Results!Spec

(* Imports that wait for each other's rows all come to an end.             *)
ImportsEnd == \A i \in Imports : at[i] = "deref" ~> at[i] \in Over
==============================================================================
