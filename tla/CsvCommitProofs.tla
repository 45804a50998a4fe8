--------------------------- MODULE CsvCommitProofs ---------------------------
(***************************************************************************)
(* Theorems about CsvCommit for any imports, jobs, files and data.         *)
(***************************************************************************)
EXTENDS CsvCommit, TLAPS

LEMMA HashesKnown ==
  ASSUME NEW i \in Imports
  PROVE  /\ EnvHash(i) \in Hashes
         /\ JobOf[i] \in Jobs
         /\ \A n \in 1..Len(Chunks[i]) : Chunks[i][n] \in SUBSET Data
BY CsvAssumption DEF EnvHash

LEMMA NoRowType ==
  /\ NoRow \in Row /\ Nothing \in [Data -> Row]
  /\ NoPoints \in [Places -> Nat]
BY DEF NoRow, Row, Nothing, NoPoints

LEMMA SeenType ==
  ASSUME TypeOK, NEW i \in Imports, NEW d \in Data
  PROVE  Seen(i, d) \in Row
BY DEF TypeOK, Seen

(* Steps of a statement that change nothing but where it has come, ...     *)
Scanning(i) ==
  \/ DerefBegins(i) \/ PurgeBegins(i)
  \/ \E d \in Data : DerefRow(i, d) \/ PurgeRow(i, d)

LEMMA ScanStep ==
  ASSUME TypeOK, NEW i \in Imports, Scanning(i)
  PROVE  /\ UNCHANGED <<table, chunkno, found, todo, own, points, made, latest,
                        overlapped>>
         /\ \/ at' = at
            \/ at[i] = "deref" /\ at' = [at EXCEPT ![i] = "deref_rows"]
            \/ at[i] = "purge" /\ at' = [at EXCEPT ![i] = "purge_rows"]
         /\ scan' \in [Imports -> SUBSET Data]
         /\ held' \in [Imports -> SUBSET Data]
         /\ unpurged' \in BOOLEAN
         /\ \A j \in Imports \ {i} : scan'[j] = scan[j] /\ held'[j] = held[j]
<1> USE DEF TypeOK, Goto, sites, history
<1>1. CASE DerefBegins(i)
  BY <1>1 DEF DerefBegins, Begin, Named
<1>2. CASE PurgeBegins(i)
  BY <1>2 DEF PurgeBegins, Begin
<1>3. ASSUME NEW d \in Data, NEW q, TakeRow(i, d, q)
      PROVE  /\ scan' \in [Imports -> SUBSET Data]
             /\ held' \in [Imports -> SUBSET Data]
             /\ \A j \in Imports \ {i} : scan'[j] = scan[j] /\ held'[j] = held[j]
             /\ UNCHANGED <<table, at, chunkno, found, todo, own, points, made,
                            latest, unpurged, overlapped>>
  <2>1. scan[i] \ {d} \in SUBSET Data /\ held[i] \cup {d} \in SUBSET Data
    OBVIOUS
  <2> QED
    BY <1>3, <2>1 DEF TakeRow
<1>4. ASSUME NEW d \in Data, DerefRow(i, d) \/ PurgeRow(i, d)
      PROVE  \E q : TakeRow(i, d, q)
  BY <1>4 DEF DerefRow, PurgeRow
<1> QED
  BY <1>1, <1>2, <1>3, <1>4 DEF Scanning

(* ... and those by which an import ends before its time.                  *)
Broken(i) == (\E d \in Data : SaveCollides(i, d)) \/ DeadlockAborts(i) \/ BreaksOff(i)

LEMMA BrokenRollsBack ==
  ASSUME NEW i \in Imports, Broken(i)
  PROVE  Rollback(i, "failed") \/ Rollback(i, "killed")
BY DEF Broken, SaveCollides, DeadlockAborts, BreaksOff, Invalid, DatabaseError,
   Killed

LEMMA StepCases ==
  ASSUME Next
  PROVE  \E i \in Imports :
           \/ Start(i) \/ Scanning(i) \/ DerefEnds(i) \/ PurgeEnds(i)
           \/ ReadChunk(i) \/ NextChunk(i) \/ CommitImport(i)
           \/ (\E d \in Data : SaveRow(i, d)) \/ Broken(i)
BY DEF Next, Work, Scanning, Broken

LEMMA TypeKept ==
  ASSUME TypeOK, [Next]_vars
  PROVE  TypeOK'
<1> USE NoRowType DEF TypeOK, Busy, Over, Purging, Goto, sites, statement,
        history
<1>1. ASSUME NEW i \in Imports, Start(i) \/ NextChunk(i) PROVE TypeOK'
  <2>1. CASE Start(i)
    BY <2>1 DEF Start
  <2>2. CASE NextChunk(i)
    <3>1. chunkno' \in [Imports -> Nat]
      BY <2>2 DEF NextChunk
    <3>2. found' \in [Imports -> [Data -> Row]]
      BY <2>2 DEF NextChunk
    <3> QED
      BY <2>2, <3>1, <3>2 DEF NextChunk
  <2> QED
    BY <1>1, <2>1, <2>2
<1>a. ASSUME NEW i \in Imports, Scanning(i) PROVE TypeOK'
  BY <1>a, ScanStep
<1>2. ASSUME NEW i \in Imports, DerefEnds(i) PROVE TypeOK'
  BY <1>2, HashesKnown DEF DerefEnds, Row
<1>3. ASSUME NEW i \in Imports, PurgeEnds(i) PROVE TypeOK'
  BY <1>3 DEF PurgeEnds
<1>4. ASSUME NEW i \in Imports, ReadChunk(i) PROVE TypeOK'
  <2> DEFINE chunk == Chunks[i][chunkno[i]]
  <2>1. chunk \in SUBSET Data
    BY <1>4, HashesKnown DEF ReadChunk
  <2>2. \A d \in Data : [Seen(i, d) EXCEPT !.envs = @ \cup {EnvHash(i)}] \in Row
    BY SeenType, HashesKnown DEF Row
  <2>3. found' \in [Imports -> [Data -> Row]]
    BY <1>4, <2>2 DEF ReadChunk
  <2>4. todo' \in [Imports -> SUBSET Data]
    BY <1>4, <2>1 DEF ReadChunk
  <2>5. WithPoints(i, chunk) \in [Places -> Nat]
    BY DEF WithPoints
  <2>6. made' \in [Imports -> [Places -> Nat]]
    BY <1>4, <2>5 DEF ReadChunk
  <2> QED
    BY <1>4, <2>3, <2>4, <2>6 DEF ReadChunk
<1>5. ASSUME NEW i \in Imports, CommitImport(i) PROVE TypeOK'
  <2>1. points' \in [Places -> Nat] /\ made' \in [Imports -> [Places -> Nat]]
    BY <1>5 DEF CommitImport
  <2>2. table' \in [Data -> Row] /\ own' \in [Imports -> [Data -> Row]]
    BY <1>5, SeenType DEF CommitImport
  <2> QED
    BY <1>5, <2>1, <2>2 DEF CommitImport
<1>6. ASSUME NEW i \in Imports, NEW d \in Data, SaveRow(i, d) PROVE TypeOK'
  <2> DEFINE w == IF Stored(found[i][d]) THEN found[i][d]
                  ELSE [found[i][d] EXCEPT !.by = i]
  <2>1. found[i][d] \in Row
    OBVIOUS
  <2>2. own' \in [Imports -> [Data -> Row]]
    <3>1. w \in Row
      BY <2>1 DEF Row
    <3>2. own' = [own EXCEPT ![i][d] = w]
      BY <1>6 DEF SaveRow
    <3> HIDE DEF w
    <3>3. [own[i] EXCEPT ![d] = w] \in [Data -> Row]
      BY <3>1
    <3> QED
      BY <3>2, <3>3
  <2>3. todo' \in [Imports -> SUBSET Data]
    BY <1>6 DEF SaveRow
  <2> QED
    BY <1>6, <2>2, <2>3 DEF SaveRow
<1>7. ASSUME NEW i \in Imports, Broken(i) PROVE TypeOK'
  <2>1. Rollback(i, "failed") \/ Rollback(i, "killed")
    BY <1>7, BrokenRollsBack
  <2>a. /\ own' = [own EXCEPT ![i] = Nothing]
        /\ found' = [found EXCEPT ![i] = Nothing]
        /\ made' = [made EXCEPT ![i] = NoPoints]
    BY <2>1 DEF Rollback
  <2>2. /\ own' \in [Imports -> [Data -> Row]]
        /\ found' \in [Imports -> [Data -> Row]]
        /\ made' \in [Imports -> [Places -> Nat]]
    BY <2>a
  <2>3. /\ at' \in [Imports -> Busy \cup Over \cup {"waiting"}]
        /\ todo' \in [Imports -> SUBSET Data]
        /\ scan' \in [Imports -> SUBSET Data]
        /\ held' \in [Imports -> SUBSET Data]
        /\ unpurged' \in BOOLEAN
        /\ UNCHANGED <<table, chunkno, points, latest, overlapped>>
    BY <2>1 DEF Rollback
  <2> QED
    BY <2>2, <2>3
<1>8. CASE UNCHANGED vars
  BY <1>8 DEF vars
<1> HIDE DEF TypeOK
<1> QED
  BY <1>1, <1>a, <1>2, <1>3, <1>4, <1>5, <1>6, <1>7, <1>8, StepCases

(* The table and the objects of every import keep their shape.             *)
THEOREM CsvTypeCorrect == Spec => []TypeOK
<1>1. Init => TypeOK
  <2> SUFFICES ASSUME Init PROVE TypeOK
    OBVIOUS
  <2>1. /\ table \in [Data -> Row]
        /\ found \in [Imports -> [Data -> Row]]
        /\ own \in [Imports -> [Data -> Row]]
        /\ points \in [Places -> Nat]
        /\ made \in [Imports -> [Places -> Nat]]
    BY NoRowType DEF Init
  <2>2. /\ at \in [Imports -> Busy \cup Over \cup {"waiting"}]
        /\ chunkno \in [Imports -> Nat]
        /\ todo \in [Imports -> SUBSET Data]
        /\ scan \in [Imports -> SUBSET Data]
        /\ held \in [Imports -> SUBSET Data]
        /\ latest \in [Hashes -> Jobs \cup {Nobody}]
        /\ unpurged \in BOOLEAN
        /\ overlapped \in BOOLEAN
    BY DEF Init
  <2> QED
    BY <2>1, <2>2 DEF TypeOK
<1>2. TypeOK /\ [Next]_vars => TypeOK'
  BY TypeKept
<1> QED
  BY <1>1, <1>2, PTL DEF Spec

------------------------------------------------------------------------------
(* What an UPDATE or DELETE has locked nobody else has; and what a DELETE  *)
(* has locked stays without a reference until it is gone.                  *)
StatementInv ==
  \A i \in Imports :
    /\ at[i] \notin {"deref_rows", "purge_rows"} => scan[i] = {} /\ held[i] = {}
    /\ at[i] = "purge_rows" => \A d \in held[i] : table[d].envs = {}
    /\ \A d \in held[i] : ~Locked(i, d)

LEMMA BrokenBusy ==
  ASSUME StatementInv, NEW i \in Imports, Broken(i)
  PROVE  at[i] \in Busy
<1>1. CASE DeadlockAborts(i)
  <2>1. PICK circle \in SUBSET Imports :
          /\ i \in circle
          /\ \E next \in [circle -> circle] : \A j \in circle : WaitsFor(j, next[j])
    BY <1>1 DEF DeadlockAborts
  <2>2. PICK j : WaitsFor(i, j)
    BY <2>1
  <2> QED
    BY <2>2 DEF WaitsFor, StatementInv, Busy, Purging
<1> QED
  BY <1>1 DEF Broken, SaveCollides, BreaksOff, Invalid, DatabaseError, Killed,
     Busy

LEMMA StatementStep ==
  ASSUME TypeOK, StatementInv, [Next]_vars
  PROVE  StatementInv'
<1> USE DEF TypeOK, Goto
<1>1. ASSUME NEW i \in Imports, Start(i) \/ ReadChunk(i) \/ NextChunk(i)
      PROVE  StatementInv'
  <2>1. /\ UNCHANGED <<table, own, scan, held>>
        /\ at[i] \notin {"deref_rows", "purge_rows"}
        /\ at'[i] \notin {"deref_rows", "purge_rows"}
        /\ \A j \in Imports \ {i} : at'[j] = at[j]
    BY <1>1 DEF Start, ReadChunk, NextChunk, statement
  <2> QED
    BY <2>1 DEF StatementInv, Locked, Locks, Wrote
<1>2. ASSUME NEW i \in Imports, DerefBegins(i) \/ PurgeBegins(i)
      PROVE  StatementInv'
  <2>1. /\ UNCHANGED <<table, own, held>>
        /\ at[i] \in {"deref", "purge"} /\ at'[i] \in {"deref_rows", "purge_rows"}
        /\ \A j \in Imports \ {i} : at'[j] = at[j] /\ scan'[j] = scan[j]
    BY <1>2 DEF DerefBegins, PurgeBegins, Begin
  <2>2. held[i] = {}
    BY <2>1 DEF StatementInv
  <2> QED
    BY <2>1, <2>2 DEF StatementInv, Locked, Locks, Wrote
<1>3. ASSUME NEW i \in Imports, NEW d \in Data, DerefRow(i, d) \/ PurgeRow(i, d)
      PROVE  StatementInv'
  <2>1. /\ UNCHANGED <<table, at, own>>
        /\ ~Locked(i, d)
        /\ at[i] \in {"deref_rows", "purge_rows"}
        /\ \A j \in Imports \ {i} : scan'[j] = scan[j] /\ held'[j] = held[j]
        /\ held'[i] \in {held[i], held[i] \cup {d}}
    BY <1>3 DEF DerefRow, PurgeRow, TakeRow
  <2>2. at[i] = "purge_rows" =>
          held'[i] = held[i] \/ table[d].envs = {}
    BY <1>3 DEF DerefRow, PurgeRow, TakeRow, Orphan
  <2>3. \A j \in Imports : \A e \in held'[j] : ~Locked(j, e)'
    <3> SUFFICES ASSUME NEW j \in Imports, NEW e \in held'[j],
                        NEW k \in Imports \ {j}, Locks(k, e)'
                 PROVE  FALSE
      BY DEF Locked
    <3>1. \A m \in Imports : Wrote(m, e)' <=> Wrote(m, e)
      BY <2>1 DEF Wrote
    <3>2. CASE j # i /\ k # i
      BY <2>1, <3>1, <3>2 DEF StatementInv, Locked, Locks
    <3>3. CASE j = i
      <4>1. k # i /\ (e \in held[i] \/ e = d)
        BY <2>1, <3>3
      <4>2. Locks(k, e)
        BY <2>1, <3>1, <4>1 DEF Locks
      <4>3. ~Locked(i, e)
        BY <2>1, <4>1 DEF StatementInv
      <4> QED
        BY <4>1, <4>2, <4>3 DEF Locked
    <3>4. CASE k = i
      BY <2>1, <3>1, <3>4 DEF StatementInv, Locked, Locks
    <3> QED
      BY <3>2, <3>3, <3>4
  <2> QED
    BY <2>1, <2>2, <2>3 DEF StatementInv
<1>4. ASSUME NEW i \in Imports, DerefEnds(i) \/ PurgeEnds(i)
      PROVE  StatementInv'
  <2>1. /\ UNCHANGED own
        /\ at'[i] \in {"purge", "read"} /\ held'[i] = {} /\ scan'[i] = {}
        /\ \A j \in Imports \ {i} : /\ at'[j] = at[j] /\ held'[j] = held[j]
                                     /\ scan'[j] \subseteq scan[j]
    BY <1>4 DEF DerefEnds, PurgeEnds
  <2>2. ASSUME NEW d \in Data, table[d].envs = {}
        PROVE  table'[d].envs = {}
    <3>1. table[d] \in Row
      OBVIOUS
    <3>2. \/ table'[d] = table[d] \/ table'[d] = NoRow
          \/ table'[d] = [table[d] EXCEPT !.envs = @ \ {EnvHash(i)}]
      BY <1>4 DEF DerefEnds, PurgeEnds
    <3> QED
      BY <2>2, <3>1, <3>2 DEF NoRow, Row
  <2> QED
    BY <2>1, <2>2 DEF StatementInv, Locked, Locks, Wrote
<1>5. ASSUME NEW i \in Imports, CommitImport(i) PROVE StatementInv'
  <2>1. /\ at[i] = "read" /\ at'[i] = "done"
        /\ \A j \in Imports \ {i} : at'[j] = at[j] /\ own'[j] = own[j]
        /\ \A d \in Data : Wrote(i, d) \/ table'[d] = table[d]
        /\ \A d \in Data : ~Wrote(i, d)'
        /\ UNCHANGED <<scan, held>>
    BY <1>5 DEF CommitImport, Seen, statement, Wrote, Nothing, NoRow, Stored
  <2>2. \A j \in Imports \ {i} : \A d \in held[j] : table'[d] = table[d]
    BY <2>1 DEF StatementInv, Locked, Locks
  <2> QED
    BY <2>1, <2>2 DEF StatementInv, Locked, Locks, Wrote
<1>6. ASSUME NEW i \in Imports, NEW d \in Data, SaveRow(i, d)
      PROVE  StatementInv'
  <2>1. /\ UNCHANGED <<table, at, scan, held>>
        /\ at[i] = "save" /\ ~Locked(i, d)
        /\ \A j \in Imports, e \in Data :
             j # i \/ e # d => own'[j][e] = own[j][e]
    BY <1>6 DEF SaveRow, statement
  <2>2. \A j \in Imports : \A e \in held[j] : ~Locked(j, e)'
    <3> SUFFICES ASSUME NEW j \in Imports, NEW e \in held[j],
                        NEW k \in Imports \ {j}, Locks(k, e)'
                 PROVE  FALSE
      BY DEF Locked
    <3>1. e \in Data
      OBVIOUS
    <3>2. CASE k = i /\ e = d
      BY <2>1, <3>2 DEF Locked, Locks
    <3>3. CASE ~(k = i /\ e = d)
      BY <2>1, <3>1, <3>3 DEF StatementInv, Locked, Locks, Wrote
    <3> QED
      BY <3>2, <3>3
  <2> QED
    BY <2>1, <2>2 DEF StatementInv
<1>7. ASSUME NEW i \in Imports, Broken(i) PROVE StatementInv'
  <2>1. /\ table' = table /\ at'[i] \in {"failed", "killed"}
        /\ held'[i] = {} /\ scan'[i] = {} /\ own'[i] = Nothing
        /\ \A j \in Imports \ {i} :
             /\ at'[j] = at[j] /\ own'[j] = own[j]
             /\ held'[j] = held[j] /\ scan'[j] = scan[j]
    BY <1>7, BrokenRollsBack DEF Rollback
  <2>2. \A d \in Data : ~Locks(i, d)'
    BY <2>1 DEF Locks, Wrote, Nothing, NoRow, Stored
  <2> QED
    BY <2>1, <2>2 DEF StatementInv, Locked, Locks, Wrote
<1>8. CASE UNCHANGED vars
  BY <1>8 DEF vars, statement, StatementInv, Locked, Locks, Wrote
<1> QED
  BY <1>1, <1>2, <1>3, <1>4, <1>5, <1>6, <1>7, <1>8, StepCases DEF Scanning

LEMMA StatementKept == Spec => []StatementInv
<1>1. Init => StatementInv
  BY DEF Init, StatementInv
<1>2. TypeOK /\ StatementInv /\ [Next]_vars => StatementInv'
  BY StatementStep
<1> QED
  BY <1>1, <1>2, CsvTypeCorrect, PTL DEF Spec

------------------------------------------------------------------------------
(* NoInventedReference.                                                    *)

(* The references the data d may have.                                     *)
Earned(d) == {h \in Hashes : \E i \in Imports :
                at[i] = "done" /\ EnvHash(i) = h /\ d \in Contents(i)}

(* What an import has read or written, it may have from the table or owe   *)
(* to its own file.                                                        *)
ReferenceInv ==
  /\ \A d \in Data : table[d].envs \subseteq Earned(d)
  /\ \A i \in Imports, d \in Data :
       /\ d \in todo[i] => d \in Contents(i)
       /\ found[i][d].envs \subseteq Earned(d) \cup {EnvHash(i)}
       /\ Wrote(i, d) => d \in Contents(i)
       /\ own[i][d].envs \subseteq Earned(d) \cup {EnvHash(i)}

LEMMA EarnedGrows ==
  ASSUME TypeOK, StatementInv, [Next]_vars, NEW d \in Data
  PROVE  Earned(d) \subseteq Earned(d)'
<1>1. \A i \in Imports : at[i] = "done" => at'[i] = "done"
  <2>1. ASSUME NEW i \in Imports, Scanning(i)
        PROVE  \A j \in Imports : at[j] = "done" => at'[j] = "done"
    BY <2>1, ScanStep DEF TypeOK
  <2>2. ASSUME NEW i \in Imports, Broken(i)
        PROVE  \A j \in Imports : at[j] = "done" => at'[j] = "done"
    <3>1. at[i] # "done"
      BY <2>2, BrokenBusy DEF Busy, Purging
    <3> QED
      BY <2>2, <3>1, BrokenRollsBack DEF TypeOK, Rollback
  <2>3. ASSUME NEW i \in Imports,
               \/ Start(i) \/ DerefEnds(i) \/ PurgeEnds(i) \/ ReadChunk(i)
               \/ NextChunk(i) \/ CommitImport(i) \/ \E e \in Data : SaveRow(i, e)
        PROVE  \A j \in Imports : at[j] = "done" => at'[j] = "done"
    BY <2>3 DEF TypeOK, Start, DerefEnds, PurgeEnds, ReadChunk, NextChunk,
       CommitImport, SaveRow, Goto
  <2>4. CASE UNCHANGED vars
    BY <2>4 DEF vars
  <2> QED
    BY <2>1, <2>2, <2>3, <2>4, StepCases
<1> QED
  BY <1>1 DEF Earned

LEMMA ReferencesKept == Spec => []ReferenceInv
<1>1. Init => ReferenceInv
  BY DEF Init, ReferenceInv, Nothing, NoRow, Wrote, Stored
<1>2. TypeOK /\ StatementInv /\ ReferenceInv /\ [Next]_vars => ReferenceInv'
  <2> SUFFICES ASSUME TypeOK, StatementInv, ReferenceInv, [Next]_vars
               PROVE  ReferenceInv'
    OBVIOUS
  <2>a. \A d \in Data : Earned(d) \subseteq Earned(d)'
    BY EarnedGrows
  <2> USE <2>a DEF TypeOK, ReferenceInv
  <2>1. ASSUME NEW i \in Imports, Start(i) \/ NextChunk(i) PROVE ReferenceInv'
    <3>1. \A d \in Data : Nothing[d].envs = {}
      BY DEF Nothing, NoRow
    <3> QED
      BY <2>1, <3>1 DEF Start, NextChunk, Wrote
  <2>b. ASSUME NEW i \in Imports, Scanning(i) PROVE ReferenceInv'
    BY <2>b, ScanStep DEF Wrote
  <2>2. ASSUME NEW i \in Imports, DerefEnds(i) \/ PurgeEnds(i)
        PROVE  ReferenceInv'
    <3>1. UNCHANGED <<found, todo, own>>
      BY <2>2 DEF DerefEnds, PurgeEnds
    <3>2. ASSUME NEW d \in Data PROVE table'[d].envs \subseteq table[d].envs
      <4>1. table[d] \in Row
        OBVIOUS
      <4>2. \/ table'[d] = table[d] \/ table'[d] = NoRow
            \/ table'[d] = [table[d] EXCEPT !.envs = @ \ {EnvHash(i)}]
        BY <2>2 DEF DerefEnds, PurgeEnds
      <4> QED
        BY <4>1, <4>2 DEF NoRow, Row
    <3> QED
      BY <3>1, <3>2 DEF Wrote
  <2>4. ASSUME NEW i \in Imports, ReadChunk(i) PROVE ReferenceInv'
    <3> DEFINE chunk == Chunks[i][chunkno[i]]
    <3>1. chunk \subseteq Contents(i)
      BY <2>4 DEF ReadChunk, Contents
    <3>2. \A d \in Data : /\ Seen(i, d) \in Row
                          /\ Seen(i, d).envs \subseteq Earned(d) \cup {EnvHash(i)}
      BY SeenType DEF Seen
    <3>3. \A d \in Data : found'[i][d].envs \subseteq Earned(d) \cup {EnvHash(i)}
      BY <2>4, <3>2 DEF ReadChunk, NoRow, Row
    <3>4. \A j \in Imports : j # i => found'[j] = found[j] /\ todo'[j] = todo[j]
      BY <2>4 DEF ReadChunk
    <3>5. todo'[i] = chunk /\ UNCHANGED <<table, own>>
      BY <2>4 DEF ReadChunk
    <3> QED
      BY <3>1, <3>3, <3>4, <3>5 DEF Wrote
  <2>5. ASSUME NEW i \in Imports, CommitImport(i) PROVE ReferenceInv'
    <3>1. at'[i] = "done"
      BY <2>5 DEF CommitImport, Goto
    <3>2. \A d \in Contents(i) \cap Data : EnvHash(i) \in Earned(d)'
      BY <3>1, HashesKnown DEF Earned
    <3>3. \A d \in Data : table'[d].envs \subseteq Earned(d)'
      BY <2>5, <3>2 DEF CommitImport, Seen
    <3> QED
      BY <2>5, <3>3 DEF CommitImport, Wrote, Nothing, NoRow, Stored
  <2>6. ASSUME NEW i \in Imports, NEW d \in Data, SaveRow(i, d)
        PROVE  ReferenceInv'
    <3>1. d \in todo[i]
      BY <2>6 DEF SaveRow, Turn
    <3>2. own'[i][d].envs = found[i][d].envs
      BY <2>6 DEF SaveRow, Row
    <3>3. \A j \in Imports, e \in Data :
            j # i \/ e # d => own'[j][e] = own[j][e]
      BY <2>6 DEF SaveRow
    <3>4. /\ UNCHANGED <<table, found>>
          /\ \A j \in Imports : todo'[j] \subseteq todo[j]
      BY <2>6 DEF SaveRow
    <3> QED
      BY <3>1, <3>2, <3>3, <3>4 DEF Wrote
  <2>7. ASSUME NEW i \in Imports, Broken(i) PROVE ReferenceInv'
    <3>1. Rollback(i, "failed") \/ Rollback(i, "killed")
      BY <2>7, BrokenRollsBack
    <3>2. /\ table' = table
          /\ own' = [own EXCEPT ![i] = Nothing]
          /\ found' = [found EXCEPT ![i] = Nothing]
          /\ todo' = [todo EXCEPT ![i] = {}]
      BY <3>1 DEF Rollback
    <3>3. \A d \in Data : ~Stored(Nothing[d]) /\ Nothing[d].envs = {}
      BY DEF Nothing, NoRow, Stored
    <3>4. \A j \in Imports :
            \/ j # i /\ own'[j] = own[j] /\ found'[j] = found[j] /\ todo'[j] = todo[j]
            \/ j = i /\ own'[j] = Nothing /\ found'[j] = Nothing /\ todo'[j] = {}
      BY <3>2
    <3> QED
      BY <3>2, <3>3, <3>4 DEF Wrote
  <2>8. CASE UNCHANGED vars
    BY <2>8 DEF vars, Wrote
  <2> HIDE DEF ReferenceInv
  <2> QED
    BY <2>1, <2>b, <2>2, <2>4, <2>5, <2>6, <2>7, <2>8, StepCases
<1> QED
  BY <1>1, <1>2, CsvTypeCorrect, StatementKept, PTL DEF Spec

(* However stale the objects that are saved, the table tells of no import  *)
(* that did not commit that data for that environment and script.          *)
THEOREM ReferencesEarned == Spec => []NoInventedReference
<1>1. ReferenceInv => NoInventedReference
  BY DEF ReferenceInv, NoInventedReference, Earned
<1> QED
  BY <1>1, ReferencesKept, PTL

------------------------------------------------------------------------------
(* NoOrphans.                                                              *)

(* An import saves no observation without a reference; and one in the      *)
(* table is yet to be looked at by a purge, which has locked it or will, if*)
(* none broke off.                                                         *)
ToPurge(i, d) ==
  at[i] = "purge" \/ (at[i] = "purge_rows" /\ d \in scan[i] \cup held[i])

OrphanInv ==
  /\ unpurged \/ \A d \in Data : Orphan(d) => \E i \in Imports : ToPurge(i, d)
  /\ \A i \in Imports, d \in Data :
       /\ Wrote(i, d) => own[i][d].envs # {}
       /\ d \in todo[i] => found[i][d].envs # {}

(* Dereference and purge are committed one by one, and other imports save  *)
(* what they have read before; yet when no import is between the two, an   *)
(* observation has no reference only if an import broke off there (killed, *)
(* aborted in a deadlock, by an error) and none has begun a purge since.   *)
THEOREM OrphansPurged == Spec => []NoOrphans
<1>1. Init => OrphanInv
  BY DEF Init, OrphanInv, Orphan, Nothing, NoRow, Stored, Wrote
<1>2. TypeOK /\ OrphanInv /\ [Next]_vars => OrphanInv'
  <2> SUFFICES ASSUME TypeOK, OrphanInv, [Next]_vars PROVE OrphanInv'
    OBVIOUS
  <2> USE DEF TypeOK, OrphanInv, Wrote
  <2> DEFINE Covered == unpurged \/ \A d \in Data :
                          Orphan(d) => \E i \in Imports : ToPurge(i, d)
  <2>1. ASSUME NEW i \in Imports, Start(i) \/ NextChunk(i) PROVE OrphanInv'
    <3>1. /\ UNCHANGED <<table, scan, held, own, todo, unpurged>>
          /\ at[i] \notin Purging
          /\ \A j \in Imports \ {i} : at'[j] = at[j] /\ found'[j] = found[j]
          /\ todo[i] = {} \/ found' = found
      BY <2>1 DEF Start, NextChunk, Goto, statement, history, Purging
    <3>2. Covered'
      BY <3>1 DEF Orphan, ToPurge, Purging
    <3> QED
      BY <3>1, <3>2
  <2>2. ASSUME NEW i \in Imports, Scanning(i) PROVE OrphanInv'
    <3>1. UNCHANGED <<table, found, todo, own>>
      BY <2>2, ScanStep
    <3>2. Covered'
      <4>1. CASE DerefBegins(i)
        <5>1. /\ unpurged' = unpurged /\ at[i] = "deref"
              /\ \A j \in Imports \ {i} :
                   at'[j] = at[j] /\ scan'[j] = scan[j] /\ held'[j] = held[j]
          BY <4>1 DEF DerefBegins, Begin, Goto, history
        <5> QED
          BY <3>1, <5>1 DEF Orphan, ToPurge
      <4>2. CASE PurgeBegins(i)
        <5>1. /\ at'[i] = "purge_rows"
              /\ scan'[i] = {d \in Data : Orphan(d)}
          BY <4>2 DEF PurgeBegins, Begin, Goto
        <5> QED
          BY <3>1, <5>1 DEF Orphan, ToPurge
      <4>3. ASSUME NEW d \in Data, DerefRow(i, d) PROVE Covered'
        <5>1. /\ UNCHANGED <<at, unpurged>> /\ at[i] = "deref_rows"
              /\ \A j \in Imports \ {i} : scan'[j] = scan[j] /\ held'[j] = held[j]
          BY <4>3 DEF DerefRow, TakeRow, history
        <5> QED
          BY <3>1, <5>1 DEF Orphan, ToPurge
      <4>4. ASSUME NEW d \in Data, PurgeRow(i, d) PROVE Covered'
        <5>1. /\ UNCHANGED <<at, unpurged>>
              /\ \A j \in Imports \ {i} : scan'[j] = scan[j] /\ held'[j] = held[j]
              /\ scan'[i] = scan[i] \ {d}
              /\ held'[i] = IF Orphan(d) THEN held[i] \cup {d} ELSE held[i]
          BY <4>4 DEF PurgeRow, TakeRow, history
        <5> QED
          BY <3>1, <5>1 DEF Orphan, ToPurge
      <4> QED
        BY <2>2, <4>1, <4>2, <4>3, <4>4 DEF Scanning
    <3> QED
      BY <3>1, <3>2
  <2>3. ASSUME NEW i \in Imports, DerefEnds(i) PROVE OrphanInv'
    <3>1. at'[i] = "purge" /\ UNCHANGED <<found, todo, own>>
      BY <2>3 DEF DerefEnds, Goto
    <3> QED
      BY <3>1 DEF ToPurge
  <2>4. ASSUME NEW i \in Imports, PurgeEnds(i) PROVE OrphanInv'
    <3>1. /\ UNCHANGED <<found, todo, own, unpurged>> /\ scan[i] = {}
          /\ at[i] = "purge_rows"
          /\ \A j \in Imports \ {i} : /\ at'[j] = at[j] /\ held'[j] = held[j]
                                       /\ scan'[j] = scan[j] \ held[i]
          /\ \A d \in Data :
               table'[d] = IF d \in held[i] THEN NoRow ELSE table[d]
      BY <2>4 DEF PurgeEnds, Goto, history
    <3>2. ASSUME NEW d \in Data, Orphan(d)'
          PROVE  d \notin held[i] /\ Orphan(d)
      BY <3>1, <3>2 DEF Orphan, NoRow, Stored
    <3>3. Covered'
      BY <3>1, <3>2 DEF ToPurge
    <3> QED
      BY <3>1, <3>3
  <2>5. ASSUME NEW i \in Imports, ReadChunk(i) PROVE OrphanInv'
    <3> DEFINE chunk == Chunks[i][chunkno[i]]
    <3>1. \A d \in chunk : d \in Data => found'[i][d].envs # {}
      BY <2>5, SeenType DEF ReadChunk, Row
    <3>2. \A j \in Imports : j # i => found'[j] = found[j] /\ todo'[j] = todo[j]
      BY <2>5 DEF ReadChunk
    <3>3. /\ todo'[i] = chunk /\ UNCHANGED <<table, own, scan, held, unpurged>>
          /\ at[i] = "read" /\ \A j \in Imports \ {i} : at'[j] = at[j]
      BY <2>5 DEF ReadChunk, Goto, statement, history
    <3> HIDE DEF chunk
    <3>4. Covered'
      BY <3>3 DEF Orphan, ToPurge
    <3> QED
      BY <3>1, <3>2, <3>3, <3>4
  <2>6. ASSUME NEW i \in Imports, CommitImport(i) PROVE OrphanInv'
    <3>1. ASSUME NEW d \in Data
          PROVE  table'[d] = table[d] \/ table'[d].envs # {}
      <4>1. CASE Stored(own[i][d])
        <5>1. table'[d] = own[i][d]
          BY <2>6, <4>1 DEF CommitImport, Seen
        <5>2. own[i][d].envs # {}
          BY <4>1
        <5> QED
          BY <5>1, <5>2
      <4>2. CASE ~Stored(own[i][d])
        BY <2>6, <4>2 DEF CommitImport, Seen
      <4> QED
        BY <4>1, <4>2
    <3>2. /\ UNCHANGED <<found, todo, scan, held, unpurged>>
          /\ at[i] = "read" /\ \A j \in Imports \ {i} : at'[j] = at[j]
          /\ \A j \in Imports, d \in Data :
               own'[j][d] = own[j][d] \/ ~Stored(own'[j][d])
      BY <2>6 DEF CommitImport, Goto, statement, history, Nothing, NoRow, Stored
    <3>3. Covered'
      BY <3>1, <3>2 DEF Orphan, ToPurge
    <3> QED
      BY <3>2, <3>3
  <2>7. ASSUME NEW i \in Imports, NEW d \in Data, SaveRow(i, d)
        PROVE  OrphanInv'
    <3>1. found[i][d].envs # {}
      BY <2>7 DEF SaveRow, Turn
    <3>2. own'[i][d].envs = found[i][d].envs
      BY <2>7 DEF SaveRow, Row
    <3>3. \A j \in Imports, e \in Data :
            j # i \/ e # d => own'[j][e] = own[j][e]
      BY <2>7 DEF SaveRow
    <3>4. /\ UNCHANGED <<table, found, at, scan, held, unpurged>>
          /\ \A j \in Imports : todo'[j] \subseteq todo[j]
      BY <2>7 DEF SaveRow, statement, history
    <3>5. Covered'
      BY <3>4 DEF Orphan, ToPurge
    <3> QED
      BY <3>1, <3>2, <3>3, <3>4, <3>5
  <2>8. ASSUME NEW i \in Imports, Broken(i) PROVE OrphanInv'
    <3>1. Rollback(i, "killed") \/ Rollback(i, "failed")
      BY <2>8, BrokenRollsBack
    <3>2. /\ table' = table
          /\ unpurged' = (unpurged \/ at[i] \in Purging)
          /\ \A j \in Imports \ {i} :
               at'[j] = at[j] /\ scan'[j] = scan[j] /\ held'[j] = held[j]
      BY <3>1 DEF Rollback
    <3>3. Covered'
      BY <3>2 DEF Orphan, ToPurge, Purging
    <3>4. \A j \in Imports : \A d \in Data :
            \/ own'[j] = own[j] /\ found'[j] = found[j] /\ todo'[j] = todo[j]
            \/ ~Stored(own'[j][d]) /\ todo'[j] = {}
      BY <3>1 DEF Rollback, Nothing, NoRow, Stored
    <3> QED
      BY <3>3, <3>4
  <2>9. CASE UNCHANGED vars
    BY <2>9 DEF vars, statement, history, Orphan, ToPurge
  <2> HIDE DEF OrphanInv
  <2> QED
    BY <2>1, <2>2, <2>3, <2>4, <2>5, <2>6, <2>7, <2>8, <2>9, StepCases
<1>3. OrphanInv => NoOrphans
  BY DEF OrphanInv, NoOrphans, ToPurge, Purging
<1> QED
  BY <1>1, <1>2, <1>3, CsvTypeCorrect, PTL DEF Spec
------------------------------------------------------------------------------
(* OnePointPerPlace.                                                       *)

(* While imports do not overlap one has points of its own at most, only    *)
(* for spots that have none.                                               *)
Alone == \A i, j \in Imports : at[i] \in Busy /\ at[j] \in Busy => i = j

PointInv ==
  ~overlapped =>
    /\ Alone
    /\ \A i \in Imports : at[i] \notin Busy => made[i] = NoPoints
    /\ \A p \in Places :
         /\ points[p] <= 1
         /\ \A i \in Imports : points[p] + made[i][p] <= 1

LEMMA OverlapStays ==
  ASSUME TypeOK, [Next]_vars, overlapped
  PROVE  overlapped'
<1>1. ASSUME NEW i \in Imports, Scanning(i) \/ Broken(i) PROVE overlapped'
  BY <1>1, ScanStep, BrokenRollsBack DEF Rollback
<1>2. ASSUME NEW i \in Imports,
             \/ Start(i) \/ DerefEnds(i) \/ PurgeEnds(i) \/ ReadChunk(i)
             \/ NextChunk(i) \/ CommitImport(i) \/ \E d \in Data : SaveRow(i, d)
      PROVE  overlapped'
  BY <1>2 DEF Start, DerefEnds, PurgeEnds, ReadChunk, NextChunk, CommitImport,
     SaveRow, history
<1>3. CASE UNCHANGED vars
  BY <1>3 DEF vars, history
<1> QED
  BY <1>1, <1>2, <1>3, StepCases

(* Unless imports overlap, point_exists finds each point that was made.    *)
THEOREM PointsMerged == Spec => []OnePointPerPlace
<1>1. Init => PointInv
  BY DEF Init, PointInv, Alone, NoPoints, Busy, Purging
<1>2. TypeOK /\ PointInv /\ [Next]_vars => PointInv'
  <2> SUFFICES ASSUME TypeOK, PointInv, [Next]_vars, ~overlapped' PROVE PointInv'
    BY DEF PointInv
  <2>0. ~overlapped
    BY OverlapStays
  <2> USE <2>0 DEF TypeOK, PointInv, Alone, Busy, Purging
  <2>1. ASSUME NEW i \in Imports, Start(i) PROVE PointInv'
    BY <2>1 DEF Start, Goto, sites
  <2>2. ASSUME NEW i \in Imports,
               \/ DerefEnds(i) \/ PurgeEnds(i) \/ NextChunk(i)
               \/ \E d \in Data : SaveRow(i, d)
        PROVE  PointInv'
    <3>1. /\ UNCHANGED <<points, made>> /\ at[i] \in Busy /\ at'[i] \in Busy
          /\ \A j \in Imports \ {i} : at'[j] = at[j]
      BY <2>2 DEF DerefEnds, PurgeEnds, NextChunk, SaveRow, Goto, sites
    <3> QED
      BY <3>1
  <2>a. ASSUME NEW i \in Imports, Scanning(i) PROVE PointInv'
    <3>1. /\ UNCHANGED <<points, made>>
          /\ at[i] \in Busy <=> at'[i] \in Busy
          /\ \A j \in Imports \ {i} : at'[j] = at[j]
      BY <2>a, ScanStep
    <3> QED
      BY <3>1
  <2>3. ASSUME NEW i \in Imports, ReadChunk(i) PROVE PointInv'
    <3> DEFINE new == WithPoints(i, Chunks[i][chunkno[i]])
    <3>1. \A p \in Places : points[p] + new[p] <= 1
      BY DEF WithPoints
    <3>2. at' = [at EXCEPT ![i] = "save"] /\ at[i] = "read"
          /\ made' = [made EXCEPT ![i] = new] /\ points' = points
      BY <2>3 DEF ReadChunk, Goto
    <3> HIDE DEF new
    <3> QED
      BY <3>1, <3>2
  <2>4. ASSUME NEW i \in Imports, CommitImport(i) PROVE PointInv'
    <3>1. /\ at' = [at EXCEPT ![i] = "done"] /\ at[i] = "read"
          /\ made' = [made EXCEPT ![i] = NoPoints]
          /\ \A p \in Places : points'[p] = points[p] + made[i][p]
      BY <2>4 DEF CommitImport, Goto
    <3>2. \A j \in Imports : made'[j] = NoPoints
      BY <3>1
    <3>3. \A p \in Places : NoPoints[p] = 0
      BY DEF NoPoints
    <3> QED
      BY <3>1, <3>2, <3>3
  <2>5. ASSUME NEW i \in Imports, Broken(i) PROVE PointInv'
    <3>1. Rollback(i, "failed") \/ Rollback(i, "killed")
      BY <2>5, BrokenRollsBack
    <3>2. /\ at' \in {[at EXCEPT ![i] = end] : end \in {"failed", "killed"}}
          /\ made' = [made EXCEPT ![i] = NoPoints] /\ points' = points
      BY <3>1 DEF Rollback
    <3>3. \A p \in Places : NoPoints[p] = 0
      BY DEF NoPoints
    <3>4. \A j \in Imports : made'[j] \in {made[j], NoPoints}
                          /\ (at'[j] = at[j] \/ made'[j] = NoPoints)
      BY <3>2
    <3>5. Alone'
      BY <3>2
    <3>6. \A p \in Places : /\ points'[p] <= 1
                            /\ \A j \in Imports : points'[p] + made'[j][p] <= 1
      BY <3>2, <3>3, <3>4
    <3>7. \A j \in Imports : at'[j] \notin Busy => made'[j] = NoPoints
      BY <3>4
    <3> HIDE DEF Alone, Busy
    <3> QED
      BY <3>5, <3>6, <3>7
  <2>6. CASE UNCHANGED vars
    BY <2>6 DEF vars, sites
  <2> QED
    BY <2>1, <2>a, <2>2, <2>3, <2>4, <2>5, <2>6, StepCases
<1>3. PointInv => OnePointPerPlace
  BY DEF PointInv, OnePointPerPlace
<1> QED
  BY <1>1, <1>2, <1>3, CsvTypeCorrect, PTL DEF Spec
------------------------------------------------------------------------------
(* TableShowsLatestRun.                                                    *)

Written(i) == {d \in Data : Wrote(i, d)}

(* What the first n chunks of a file hold.                                 *)
Upto(i, n) == {d \in Data : \E k \in 1..n : d \in Chunks[i][k]}

LEMMA UptoGrows ==
  ASSUME NEW i \in Imports
  PROVE  /\ Upto(i, 0) = {}
         /\ Upto(i, Len(Chunks[i])) = Contents(i)
         /\ \A n \in 1..Len(Chunks[i]) :
              Upto(i, n) = Upto(i, n - 1) \cup Chunks[i][n]
<1>1. Upto(i, 0) = {}
  BY DEF Upto
<1>2. Upto(i, Len(Chunks[i])) = Contents(i)
  BY HashesKnown DEF Upto, Contents
<1>3. ASSUME NEW n \in 1..Len(Chunks[i])
      PROVE  Upto(i, n) = Upto(i, n - 1) \cup Chunks[i][n]
  <2>1. Len(Chunks[i]) \in Nat /\ n \in Nat /\ Chunks[i][n] \subseteq Data
    BY HashesKnown, CsvAssumption
  <2>2. \A k : k \in 1..n <=> k \in 1..(n - 1) \/ k = n
    BY <2>1
  <2> QED
    BY <2>1, <2>2 DEF Upto
<1> QED
  BY <1>1, <1>2, <1>3

(* Import by import: where it has come in its file, and what it has        *)
(* written and will write.                                                 *)
ProgressInv ==
  \A i \in Imports :
    /\ at[i] \notin {"read", "save"} => Written(i) = {}
    /\ at[i] # "save" => todo[i] = {}
    /\ at[i] \in {"waiting", "deref", "deref_rows"} \cup Purging => chunkno[i] = 1
    /\ at[i] = "read" => /\ chunkno[i] \in 1..(Len(Chunks[i]) + 1)
                         /\ Written(i) = Upto(i, chunkno[i] - 1)
    /\ at[i] = "save" => /\ chunkno[i] \in 1..Len(Chunks[i])
                         /\ Written(i) \cup todo[i] = Upto(i, chunkno[i])

(* When they do not overlap: what it reads is what the table holds, ...     *)
CopiesInv ==
  \A i \in Imports : \A d \in Data :
    /\ Wrote(i, d)  => own[i][d].envs = table[d].envs \cup {EnvHash(i)}
    /\ d \in todo[i] => found[i][d].envs = table[d].envs \cup {EnvHash(i)}

OneFileEach == \A i, j \in Imports : JobOf[i] = JobOf[j] => i = j

(* ... and what it will leave, if the job has no other file.               *)
LatestInv ==
  OneFileEach => \A i \in Imports :
    /\ at[i] = "deref_rows" => Refs(EnvHash(i)) \subseteq scan[i] \cup held[i]
    /\ at[i] \in Purging \cup {"read", "save"} =>
         latest[EnvHash(i)] = JobOf[i] /\ Refs(EnvHash(i)) = {}
    /\ at[i] = "done" /\ latest[EnvHash(i)] = JobOf[i] =>
         Refs(EnvHash(i)) = Contents(i)

RunInv == ProgressInv /\ (~overlapped => Alone /\ CopiesInv /\ LatestInv)

LEMMA ProgressStep ==
  ASSUME TypeOK, ProgressInv, [Next]_vars
  PROVE  ProgressInv'
<1> USE DEF TypeOK, Purging
<1>1. ASSUME NEW i \in Imports, Start(i) PROVE ProgressInv'
  <2>1. /\ at' = [at EXCEPT ![i] = "deref"] /\ at[i] = "waiting"
        /\ UNCHANGED <<chunkno, todo, own>>
    BY <1>1 DEF Start, Goto
  <2>2. \A j \in Imports : Written(j)' = Written(j)
    BY <2>1 DEF Written, Wrote
  <2> QED
    BY <2>1, <2>2 DEF ProgressInv
<1>2. ASSUME NEW i \in Imports, Scanning(i) \/ DerefEnds(i) PROVE ProgressInv'
  <2>1. /\ \/ at' = at
           \/ at[i] = "deref" /\ at' = [at EXCEPT ![i] = "deref_rows"]
           \/ at[i] = "deref_rows" /\ at' = [at EXCEPT ![i] = "purge"]
           \/ at[i] = "purge" /\ at' = [at EXCEPT ![i] = "purge_rows"]
        /\ UNCHANGED <<chunkno, todo, own>>
    BY <1>2, ScanStep DEF DerefEnds, Goto
  <2>2. \A j \in Imports : Written(j)' = Written(j)
    BY <2>1 DEF Written, Wrote
  <2> QED
    BY <2>1, <2>2 DEF ProgressInv
<1>3. ASSUME NEW i \in Imports, PurgeEnds(i) PROVE ProgressInv'
  <2>1. /\ at' = [at EXCEPT ![i] = "read"] /\ at[i] = "purge_rows"
        /\ UNCHANGED <<chunkno, todo, own>>
    BY <1>3 DEF PurgeEnds, Goto
  <2>2. \A j \in Imports : Written(j)' = Written(j)
    BY <2>1 DEF Written, Wrote
  <2>3. Len(Chunks[i]) \in Nat
    BY CsvAssumption
  <2>4. Written(i) = {} /\ chunkno[i] = 1
    BY <2>1 DEF ProgressInv
  <2>5. chunkno'[i] = 1 /\ chunkno'[i] - 1 = 0
    BY <2>1, <2>4
  <2>6. /\ chunkno'[i] \in 1..(Len(Chunks[i]) + 1)
        /\ Written(i)' = Upto(i, chunkno'[i] - 1)
    <3>1. chunkno'[i] \in 1..(Len(Chunks[i]) + 1)
      BY <2>3, <2>5
    <3>2. Upto(i, chunkno'[i] - 1) = {}
      BY <2>5, UptoGrows
    <3> QED
      BY <2>2, <2>4, <3>1, <3>2
  <2>7. at'[i] = "read" /\ todo'[i] = {} /\ at[i] # "save"
    BY <2>1 DEF ProgressInv
  <2>8. \A j \in Imports \ {i} :
          /\ at'[j] = at[j] /\ todo'[j] = todo[j] /\ chunkno'[j] = chunkno[j]
          /\ Written(j)' = Written(j)
    BY <2>1, <2>2
  <2> QED
    BY <2>6, <2>7, <2>8 DEF ProgressInv
<1>4. ASSUME NEW i \in Imports, ReadChunk(i) PROVE ProgressInv'
  <2> DEFINE chunk == Chunks[i][chunkno[i]]
  <2>1. /\ at' = [at EXCEPT ![i] = "save"] /\ at[i] = "read"
        /\ todo' = [todo EXCEPT ![i] = chunk]
        /\ chunkno[i] \in 1..Len(Chunks[i])
        /\ UNCHANGED <<chunkno, own>>
    BY <1>4 DEF ReadChunk, Goto
  <2>2. \A j \in Imports : Written(j)' = Written(j)
    BY <2>1 DEF Written, Wrote
  <2>3. Upto(i, chunkno[i]) = Upto(i, chunkno[i] - 1) \cup chunk
    BY <2>1, UptoGrows
  <2> HIDE DEF chunk
  <2> QED
    BY <2>1, <2>2, <2>3 DEF ProgressInv
<1>5. ASSUME NEW i \in Imports, NEW d \in Data, SaveRow(i, d)
      PROVE  ProgressInv'
  <2>1. /\ at[i] = "save" /\ d \in todo[i]
        /\ todo' = [todo EXCEPT ![i] = @ \ {d}]
        /\ UNCHANGED <<at, chunkno>>
    BY <1>5 DEF SaveRow, Turn
  <2>2. /\ \A j \in Imports, e \in Data :
             j # i \/ e # d => own'[j][e] = own[j][e]
        /\ Stored(own'[i][d])
    BY <1>5, CsvAssumption DEF SaveRow, Row, Stored
  <2>3. /\ Written(i)' = Written(i) \cup {d}
        /\ \A j \in Imports \ {i} : Written(j)' = Written(j)
    BY <2>2 DEF Written, Wrote
  <2> QED
    BY <2>1, <2>3 DEF ProgressInv
<1>6. ASSUME NEW i \in Imports, NextChunk(i) PROVE ProgressInv'
  <2>1. /\ at' = [at EXCEPT ![i] = "read"] /\ at[i] = "save" /\ todo[i] = {}
        /\ chunkno' = [chunkno EXCEPT ![i] = @ + 1]
        /\ UNCHANGED <<todo, own>>
    BY <1>6 DEF NextChunk, Goto
  <2>2. \A j \in Imports : Written(j)' = Written(j)
    BY <2>1 DEF Written, Wrote
  <2>3. Len(Chunks[i]) \in Nat /\ chunkno[i] \in 1..Len(Chunks[i])
    BY <2>1, CsvAssumption DEF ProgressInv
  <2>4. chunkno'[i] \in 1..(Len(Chunks[i]) + 1) /\ chunkno'[i] - 1 = chunkno[i]
    BY <2>1, <2>3
  <2>5. Written(i)' = Upto(i, chunkno'[i] - 1)
    BY <2>1, <2>2, <2>4 DEF ProgressInv
  <2> QED
    BY <2>1, <2>2, <2>4, <2>5 DEF ProgressInv
<1>7. ASSUME NEW i \in Imports, CommitImport(i) \/ Broken(i)
      PROVE  ProgressInv'
  <2>1. /\ at' \in {[at EXCEPT ![i] = end] : end \in Over}
        /\ own' = [own EXCEPT ![i] = Nothing]
        /\ \A j \in Imports \ {i} : todo'[j] = todo[j]
        /\ todo'[i] = {} /\ UNCHANGED chunkno
    <3>1. CASE CommitImport(i)
      BY <3>1 DEF CommitImport, Goto, Over, ProgressInv
    <3>2. CASE Rollback(i, "failed") \/ Rollback(i, "killed")
      BY <3>2 DEF Rollback, Over
    <3> QED
      BY <1>7, <3>1, <3>2, BrokenRollsBack
  <2>2. Written(i)' = {} /\ \A j \in Imports \ {i} : Written(j)' = Written(j)
    BY <2>1 DEF Written, Wrote, Nothing, NoRow, Stored
  <2>3. at'[i] \in Over /\ \A j \in Imports \ {i} : at'[j] = at[j]
    BY <2>1
  <2> QED
    BY <2>1, <2>2, <2>3 DEF ProgressInv, Over
<1>8. CASE UNCHANGED vars
  BY <1>8 DEF vars, ProgressInv, Written, Wrote
<1> QED
  BY <1>1, <1>2, <1>3, <1>4, <1>5, <1>6, <1>7, <1>8, StepCases

(* An import that comes to its end has written its whole file.             *)
LEMMA WrittenAll ==
  ASSUME TypeOK, ProgressInv, NEW i \in Imports, CommitImport(i)
  PROVE  Written(i) = Contents(i)
<1>1. Len(Chunks[i]) \in Nat /\ chunkno[i] > Len(Chunks[i]) /\ at[i] = "read"
  BY CsvAssumption DEF CommitImport, Goto
<1>2. chunkno[i] \in 1..(Len(Chunks[i]) + 1)
  BY <1>1 DEF ProgressInv
<1>3. chunkno[i] - 1 = Len(Chunks[i])
  BY <1>1, <1>2
<1> QED
  BY <1>1, <1>3, UptoGrows DEF ProgressInv

LEMMA RunStep ==
  ASSUME TypeOK, StatementInv, RunInv, [Next]_vars
  PROVE  RunInv'
<1>p. ProgressInv /\ ProgressInv'
  BY ProgressStep DEF RunInv
<1> SUFFICES ASSUME ~overlapped' PROVE (Alone /\ CopiesInv /\ LatestInv)'
  BY <1>p DEF RunInv
<1>0. ~overlapped
  BY OverlapStays
<1>a. Alone /\ ProgressInv /\ CopiesInv /\ LatestInv
  BY <1>0, <1>p DEF RunInv
<1>1. ASSUME NEW i \in Imports, Start(i)
      PROVE  (Alone /\ CopiesInv /\ LatestInv)'
  <2>1. /\ at' = [at EXCEPT ![i] = "deref"] /\ at[i] = "waiting"
        /\ \A j \in Imports : at[j] \notin Busy
        /\ UNCHANGED <<table, chunkno, found, todo, own, scan, held, latest>>
    BY <1>1 DEF Start, Goto, statement
  <2>2. (\A j \in Imports : Written(j)' = Written(j)) /\ \A h : Refs(h)' = Refs(h)
    BY <2>1 DEF Written, Wrote, Refs
  <2> USE <2>1, <2>2, <1>a DEF TypeOK
  <2>3. Alone' /\ LatestInv'
    BY DEF Alone, LatestInv, OneFileEach, Busy, Purging
  <2>5. CopiesInv'
    BY DEF CopiesInv, Wrote
  <2> QED
    BY <2>3, <2>5
<1>b. ASSUME NEW i \in Imports, Scanning(i)
      PROVE  (Alone /\ CopiesInv /\ LatestInv)'
  <2>1. /\ UNCHANGED <<table, chunkno, found, todo, own, latest>>
        /\ \/ at' = at
           \/ at[i] = "deref" /\ at' = [at EXCEPT ![i] = "deref_rows"]
           \/ at[i] = "purge" /\ at' = [at EXCEPT ![i] = "purge_rows"]
        /\ \A j \in Imports \ {i} : scan'[j] = scan[j] /\ held'[j] = held[j]
    BY <1>b, ScanStep
  <2>2. \A h : Refs(h)' = Refs(h)
    BY <2>1 DEF Refs
  <2>3. OneFileEach /\ at'[i] = "deref_rows" =>
          Refs(EnvHash(i)) \subseteq scan'[i] \cup held'[i]
    <3>1. CASE DerefBegins(i)
      BY <3>1 DEF DerefBegins, Begin, Named, Refs, TypeOK
    <3>2. CASE PurgeBegins(i)
      BY <3>2 DEF PurgeBegins, Begin, Goto, TypeOK
    <3>3. ASSUME NEW d \in Data, DerefRow(i, d)
          PROVE  Refs(EnvHash(i)) \subseteq scan'[i] \cup held'[i]
                 \/ at'[i] # "deref_rows" \/ ~OneFileEach
      <4>1. /\ scan'[i] = scan[i] \ {d}
            /\ held'[i] = IF d \in Named(i) THEN held[i] \cup {d} ELSE held[i]
            /\ at[i] = "deref_rows"
        BY <3>3 DEF DerefRow, TakeRow, TypeOK
      <4>2. Refs(EnvHash(i)) = Named(i)
        BY DEF Refs, Named
      <4> QED
        BY <1>a, <4>1, <4>2 DEF LatestInv
    <3>4. ASSUME NEW d \in Data, PurgeRow(i, d) PROVE at'[i] # "deref_rows"
      BY <3>4 DEF PurgeRow, TakeRow
    <3> QED
      BY <1>b, <3>1, <3>2, <3>3, <3>4 DEF Scanning
  <2>4. Alone' /\ LatestInv'
    BY <1>a, <2>1, <2>2, <2>3
       DEF Alone, LatestInv, OneFileEach, EnvHash, Busy, Purging, TypeOK
  <2>5. CopiesInv'
    BY <1>a, <2>1 DEF CopiesInv, Wrote, EnvHash
  <2> QED
    BY <2>4, <2>5
<1>2. ASSUME NEW i \in Imports, DerefEnds(i)
      PROVE  (Alone /\ CopiesInv /\ LatestInv)'
  <2>1. /\ at' = [at EXCEPT ![i] = "purge"] /\ at[i] = "deref_rows"
        /\ table' = [d \in Data |->
                       IF d \in held[i]
                       THEN [table[d] EXCEPT !.envs = @ \ {EnvHash(i)}]
                       ELSE table[d]]
        /\ latest' = [latest EXCEPT ![EnvHash(i)] = JobOf[i]]
        /\ scan[i] = {}
        /\ UNCHANGED <<chunkno, found, todo, own, scan>>
        /\ \A j \in Imports \ {i} : held'[j] = held[j]
    BY <1>2 DEF DerefEnds, Goto
  <2>2. \A j \in Imports : Written(j)' = Written(j)
    BY <2>1 DEF Written, Wrote
  <2>3. /\ OneFileEach => Refs(EnvHash(i))' = {}
        /\ \A h \in Hashes \ {EnvHash(i)} : Refs(h)' = Refs(h)
    <3>1. ASSUME NEW d \in Data
          PROVE  /\ d \in held[i] => table'[d].envs = table[d].envs \ {EnvHash(i)}
                 /\ d \notin held[i] => table'[d].envs = table[d].envs
      <4>1. table[d] \in Row
        BY DEF TypeOK
      <4> QED
        BY <2>1, <4>1 DEF Row
    <3>2. OneFileEach => Refs(EnvHash(i)) \subseteq held[i]
      BY <1>a, <2>1 DEF LatestInv
    <3> QED
      BY <3>1, <3>2 DEF Refs, EnvHash
  <2>4. \A j \in Imports \ {i} : at[j] \notin Busy
    BY <1>a, <2>1 DEF Alone, Busy
  <2>5. Alone'
    BY <1>a, <2>1, <2>4 DEF Alone, TypeOK, Busy
  <2>7. CopiesInv'
    <3>1. \A j \in Imports : Written(j) = {} /\ todo[j] = {}
      BY <1>a, <2>1, <2>4 DEF ProgressInv, Busy
    <3> QED
      BY <2>1, <3>1 DEF CopiesInv, Written, Wrote
  <2>8. LatestInv'
    <3> SUFFICES ASSUME OneFileEach, NEW j \in Imports
                 PROVE  /\ at'[j] # "deref_rows"
                        /\ at'[j] \in Purging \cup {"read", "save"} =>
                             /\ latest'[EnvHash(j)] = JobOf[j]
                             /\ Refs(EnvHash(j))' = {}
                        /\ at'[j] = "done" /\ latest'[EnvHash(j)] = JobOf[j] =>
                             Refs(EnvHash(j))' = Contents(j)
      BY DEF LatestInv, EnvHash, OneFileEach
    <3>1. EnvHash(i) \in Hashes /\ EnvHash(j) \in Hashes
      BY HashesKnown
    <3>2. CASE j = i
      BY <2>1, <2>3, <3>1, <3>2 DEF TypeOK
    <3>3. CASE j # i
      <4>1. at'[j] = at[j] /\ at[j] \notin Busy
        BY <2>1, <2>4, <3>3
      <4>2. CASE EnvHash(j) = EnvHash(i)
        BY <2>1, <3>1, <3>3, <4>1, <4>2 DEF OneFileEach, TypeOK, Busy
      <4>3. CASE EnvHash(j) # EnvHash(i)
        BY <1>a, <2>1, <2>3, <3>1, <4>1, <4>3 DEF LatestInv, TypeOK, Busy
      <4> QED
        BY <4>2, <4>3
    <3> QED
      BY <3>2, <3>3
  <2> QED
    BY <2>5, <2>7, <2>8
<1>3. ASSUME NEW i \in Imports, PurgeEnds(i)
      PROVE  (Alone /\ CopiesInv /\ LatestInv)'
  <2>1. /\ at' = [at EXCEPT ![i] = "read"] /\ at[i] = "purge_rows"
        /\ \A d \in Data : table'[d] = table[d]
                            \/ (table[d].envs = {} /\ table'[d] = NoRow)
        /\ UNCHANGED <<chunkno, found, todo, own, latest>>
    <3>1. \A d \in held[i] : table[d].envs = {}
      BY <1>3 DEF PurgeEnds, Goto, StatementInv
    <3> QED
      BY <1>3, <3>1 DEF PurgeEnds, Goto, history
  <2>2. /\ \A j \in Imports : Written(j)' = Written(j)
        /\ \A d \in Data : table'[d].envs = table[d].envs
    <3>1. NoRow.envs = {}
      BY DEF NoRow
    <3>2. \A d \in Data : table'[d].envs = table[d].envs
      BY <2>1, <3>1
    <3> QED
      BY <2>1, <3>2 DEF Written, Wrote
  <2>3. \A h : Refs(h)' = Refs(h)
    BY <2>2 DEF Refs
  <2>a. \A j \in Imports \ {i} : at[j] \notin Busy
    BY <1>a, <2>1 DEF Alone, Busy, Purging
  <2>4. Alone' /\ LatestInv'
    BY <1>a, <2>1, <2>3, <2>a
       DEF Alone, LatestInv, OneFileEach, EnvHash, Busy, Purging, TypeOK
  <2>6. CopiesInv'
    BY <1>a, <2>1, <2>2 DEF CopiesInv, Wrote, EnvHash
  <2> QED
    BY <2>4, <2>6
<1>4. ASSUME NEW i \in Imports, ReadChunk(i)
      PROVE  (Alone /\ CopiesInv /\ LatestInv)'
  <2> DEFINE chunk == Chunks[i][chunkno[i]]
  <2>1. /\ at' = [at EXCEPT ![i] = "save"] /\ at[i] = "read"
        /\ todo' = [todo EXCEPT ![i] = chunk]
        /\ chunkno[i] \in 1..Len(Chunks[i])
        /\ \A j \in Imports \ {i} : found'[j] = found[j]
        /\ UNCHANGED <<table, chunkno, own, scan, held, latest>>
    BY <1>4 DEF ReadChunk, Goto, statement, history
  <2>2. \A d \in Data : d \in chunk =>
          found'[i][d].envs = Seen(i, d).envs \cup {EnvHash(i)}
    BY <1>4, SeenType DEF ReadChunk, TypeOK, Row
  <2>3. (\A j \in Imports : Written(j)' = Written(j)) /\ \A h : Refs(h)' = Refs(h)
    BY <2>1 DEF Written, Wrote, Refs
  <2>4. Alone' /\ LatestInv'
    BY <1>a, <2>1, <2>3
       DEF Alone, LatestInv, OneFileEach, Busy, Purging, TypeOK
  <2>6. CopiesInv'
    <3>1. \A d \in Data : d \in chunk =>
            found'[i][d].envs = table[d].envs \cup {EnvHash(i)}
      BY <1>a, <2>2 DEF CopiesInv, Seen
    <3> HIDE DEF chunk
    <3> QED
      BY <1>a, <2>1, <3>1 DEF CopiesInv, Wrote, EnvHash, TypeOK
  <2> QED
    BY <2>4, <2>6
<1>5. ASSUME NEW i \in Imports, NEW d \in Data, SaveRow(i, d)
      PROVE  (Alone /\ CopiesInv /\ LatestInv)'
  <2>1. /\ at[i] = "save" /\ d \in todo[i]
        /\ todo' = [todo EXCEPT ![i] = @ \ {d}]
        /\ UNCHANGED <<table, at, chunkno, found, scan, held, latest>>
    BY <1>5 DEF SaveRow, Turn, statement, history
  <2>2. /\ \A j \in Imports, e \in Data :
             j # i \/ e # d => own'[j][e] = own[j][e]
        /\ Stored(own'[i][d])
        /\ own'[i][d].envs = found[i][d].envs
    BY <1>5, CsvAssumption DEF SaveRow, Row, Stored, TypeOK
  <2>3. /\ Written(i)' = Written(i) \cup {d}
        /\ \A j \in Imports \ {i} : Written(j)' = Written(j)
        /\ \A h : Refs(h)' = Refs(h)
    BY <2>1, <2>2 DEF Written, Wrote, Refs
  <2>4. Alone' /\ LatestInv'
    BY <1>a, <2>1, <2>3 DEF Alone, LatestInv, OneFileEach, EnvHash
  <2>6. CopiesInv'
    BY <1>a, <2>1, <2>2 DEF CopiesInv, Wrote, EnvHash, TypeOK
  <2> QED
    BY <2>4, <2>6
<1>6. ASSUME NEW i \in Imports, NextChunk(i)
      PROVE  (Alone /\ CopiesInv /\ LatestInv)'
  <2>1. /\ at' = [at EXCEPT ![i] = "read"] /\ at[i] = "save" /\ todo[i] = {}
        /\ chunkno' = [chunkno EXCEPT ![i] = @ + 1]
        /\ \A j \in Imports \ {i} : found'[j] = found[j]
        /\ UNCHANGED <<table, todo, own, scan, held, latest>>
    BY <1>6 DEF NextChunk, Goto, statement, history
  <2>2. (\A j \in Imports : Written(j)' = Written(j)) /\ \A h : Refs(h)' = Refs(h)
    BY <2>1 DEF Written, Wrote, Refs
  <2>3. Alone' /\ LatestInv'
    BY <1>a, <2>1, <2>2
       DEF Alone, LatestInv, OneFileEach, Busy, Purging, TypeOK
  <2>5. CopiesInv'
    BY <1>a, <2>1 DEF CopiesInv, Wrote, EnvHash
  <2> QED
    BY <2>3, <2>5
<1>7. ASSUME NEW i \in Imports, CommitImport(i)
      PROVE  (Alone /\ CopiesInv /\ LatestInv)'
  <2>1. /\ at' = [at EXCEPT ![i] = "done"] /\ at[i] = "read"
        /\ chunkno[i] > Len(Chunks[i])
        /\ \A d \in Data : table'[d] = Seen(i, d)
        /\ own' = [own EXCEPT ![i] = Nothing]
        /\ UNCHANGED <<chunkno, found, todo, latest>>
    BY <1>7 DEF CommitImport, Goto, history
  <2>2. \A j \in Imports \ {i} : at[j] \notin Busy
    BY <1>a, <2>1 DEF Alone, Busy
  <2>3. Written(i) = Contents(i)
    BY <1>7, <1>p, WrittenAll
  <2>4. \A d \in Data :
          table'[d].envs = IF d \in Written(i)
                           THEN table[d].envs \cup {EnvHash(i)}
                           ELSE table[d].envs
    BY <1>a, <2>1 DEF CopiesInv, Seen, Written
  <2>5. /\ \A j \in Imports : Written(j)' = {} /\ todo[j] = {}
        /\ todo' = todo
    <3>1. \A d \in Data : ~Stored(Nothing[d])
      BY DEF Nothing, NoRow, Stored
    <3>2. \A j \in Imports \ {i} : Written(j) = {} /\ own'[j] = own[j]
      BY <1>a, <2>1, <2>2 DEF ProgressInv, Busy
    <3>3. \A j \in Imports : todo[j] = {}
      BY <1>a, <2>1, <2>2 DEF ProgressInv, Busy
    <3>4. own'[i] = Nothing
      BY <2>1 DEF TypeOK
    <3> QED
      BY <2>1, <3>1, <3>2, <3>3, <3>4 DEF Written, Wrote
  <2>6. Alone'
    BY <1>a, <2>1, <2>5 DEF Alone, Busy, Purging, TypeOK
  <2>7. CopiesInv'
    BY <2>5 DEF CopiesInv, Written
  <2>8. LatestInv'
    <3> SUFFICES ASSUME OneFileEach, NEW j \in Imports
                 PROVE  /\ at'[j] # "deref_rows"
                        /\ at'[j] \in Purging \cup {"read", "save"} =>
                             /\ latest'[EnvHash(j)] = JobOf[j]
                             /\ Refs(EnvHash(j))' = {}
                        /\ at'[j] = "done" /\ latest'[EnvHash(j)] = JobOf[j] =>
                             Refs(EnvHash(j))' = Contents(j)
      BY DEF LatestInv, EnvHash, OneFileEach
    <3>1. latest[EnvHash(i)] = JobOf[i] /\ Refs(EnvHash(i)) = {}
      BY <1>a, <2>1 DEF LatestInv
    <3>2. CASE j = i
      <4>1. Refs(EnvHash(i))' = Written(i)
        BY <2>4, <3>1 DEF Refs, Written
      <4> QED
        BY <2>1, <2>3, <3>2, <4>1 DEF TypeOK, Purging
    <3>3. CASE j # i
      <4>1. at'[j] = at[j] /\ at[j] \notin Busy
        BY <2>1, <2>2, <3>3
      <4>2. CASE EnvHash(j) = EnvHash(i)
        BY <2>1, <3>1, <3>3, <4>1, <4>2 DEF OneFileEach, Busy, Purging
      <4>3. CASE EnvHash(j) # EnvHash(i)
        <5>1. Refs(EnvHash(j))' = Refs(EnvHash(j))
          BY <2>4, <4>3 DEF Refs
        <5> QED
          BY <1>a, <2>1, <4>1, <5>1 DEF LatestInv, Busy, Purging
      <4> QED
        BY <4>2, <4>3
    <3> QED
      BY <3>2, <3>3
  <2> QED
    BY <2>6, <2>7, <2>8
<1>8. ASSUME NEW i \in Imports, Broken(i)
      PROVE  (Alone /\ CopiesInv /\ LatestInv)'
  <2>1. Rollback(i, "failed") \/ Rollback(i, "killed")
    BY <1>8, BrokenRollsBack
  <2>2. /\ at' \in {[at EXCEPT ![i] = end] : end \in {"failed", "killed"}}
        /\ own' = [own EXCEPT ![i] = Nothing]
        /\ todo' = [todo EXCEPT ![i] = {}]
        /\ \A j \in Imports \ {i} : /\ found'[j] = found[j]
                                     /\ scan'[j] = scan[j] /\ held'[j] = held[j]
        /\ UNCHANGED <<table, chunkno, latest>>
    <3>1. CASE Rollback(i, "failed")
      BY <3>1 DEF Rollback, TypeOK
    <3>2. CASE Rollback(i, "killed")
      BY <3>2 DEF Rollback, TypeOK
    <3> QED
      BY <2>1, <3>1, <3>2
  <2>3. /\ \A d \in Data : ~Wrote(i, d)'
        /\ \A j \in Imports \ {i} : own'[j] = own[j]
        /\ \A j \in Imports \ {i} : at'[j] = at[j] /\ todo'[j] = todo[j]
        /\ at'[i] \in {"failed", "killed"} /\ todo'[i] = {}
    BY <2>2 DEF TypeOK, Wrote, Nothing, NoRow, Stored
  <2>4. /\ Written(i)' = {}
        /\ \A j \in Imports \ {i} : Written(j)' = Written(j)
        /\ \A h : Refs(h)' = Refs(h)
    BY <2>2, <2>3 DEF Written, Wrote, Refs
  <2>5. Alone' /\ LatestInv'
    BY <1>a, <2>2, <2>3, <2>4
       DEF Alone, LatestInv, OneFileEach, EnvHash, Busy, Purging
  <2>7. CopiesInv'
    BY <1>a, <2>2, <2>3 DEF CopiesInv, Wrote, EnvHash
  <2> QED
    BY <2>5, <2>7
<1>9. CASE UNCHANGED vars
  BY <1>a, <1>9 DEF vars, statement, history, Alone, CopiesInv, LatestInv,
     OneFileEach, Wrote, Written, Refs, EnvHash
<1> QED
  BY <1>1, <1>b, <1>2, <1>3, <1>4, <1>5, <1>6, <1>7, <1>8, <1>9, StepCases

LEMMA RunKept == Spec => []RunInv
<1>1. Init => RunInv
  <2>1. \A n \in Nat : 1 \in 1..(n + 1)
    OBVIOUS
  <2> QED
    BY <2>1 DEF Init, RunInv, Alone, ProgressInv, CopiesInv, LatestInv, Written,
       Wrote, Nothing, NoRow, Stored, Busy, Purging
<1>2. TypeOK /\ StatementInv /\ RunInv /\ [Next]_vars => RunInv'
  BY RunStep
<1> QED
  BY <1>1, <1>2, CsvTypeCorrect, StatementKept, PTL DEF Spec

(* When each job has one CSV file, the table shows of each environment and *)
(* script what the latest run of it imported (csv_worker.py, handle); with *)
(* more files it does not.                                                 *)
THEOREM LatestRunShown ==
  ASSUME \A i, j \in Imports : JobOf[i] = JobOf[j] => i = j
  PROVE  Spec => []TableShowsLatestRun
<1>1. RunInv => TableShowsLatestRun
  <2> SUFFICES ASSUME LatestInv, NEW i \in Imports, at[i] = "done",
                      latest[Hash[JobOf[i]]] = JobOf[i]
               PROVE  {d \in Data : Hash[JobOf[i]] \in table[d].envs}
                      = UNION {Contents(j) : j \in {k \in Imports : JobOf[k] = JobOf[i]}}
    BY DEF RunInv, TableShowsLatestRun
  <2>1. {k \in Imports : JobOf[k] = JobOf[i]} = {i}
    OBVIOUS
  <2>2. Refs(EnvHash(i)) = Contents(i)
    BY DEF LatestInv, OneFileEach, EnvHash
  <2> QED
    BY <2>1, <2>2 DEF Refs, EnvHash
<1> QED
  BY <1>1, RunKept, PTL
------------------------------------------------------------------------------
(* ResultTable.                                                            *)

(* However stale an object is, it refers to the hash of who saves it.      *)
OwnInv ==
  \A i \in Imports : \A d \in Data :
    /\ Wrote(i, d)  => EnvHash(i) \in own[i][d].envs
    /\ d \in todo[i] => EnvHash(i) \in found[i][d].envs

LEMMA OwnKept == Spec => []OwnInv
<1>1. Init => OwnInv
  BY DEF Init, OwnInv, Wrote, Nothing, NoRow, Stored
<1>2. TypeOK /\ OwnInv /\ [Next]_vars => OwnInv'
  <2> SUFFICES ASSUME TypeOK, OwnInv, [Next]_vars PROVE OwnInv'
    OBVIOUS
  <2> USE DEF OwnInv, EnvHash, Wrote
  <2>1. ASSUME NEW i \in Imports,
               Start(i) \/ Scanning(i) \/ DerefEnds(i) \/ PurgeEnds(i)
        PROVE  OwnInv'
    <3>1. UNCHANGED <<found, todo, own>>
      BY <2>1, ScanStep DEF Start, DerefEnds, PurgeEnds
    <3> QED
      BY <3>1
  <2>2. ASSUME NEW i \in Imports, NextChunk(i) PROVE OwnInv'
    <3>1. /\ todo[i] = {} /\ UNCHANGED <<todo, own>>
          /\ \A j \in Imports \ {i} : found'[j] = found[j]
      BY <2>2 DEF NextChunk, TypeOK
    <3> QED
      BY <3>1
  <2>3. ASSUME NEW i \in Imports, ReadChunk(i) PROVE OwnInv'
    <3> DEFINE chunk == Chunks[i][chunkno[i]]
    <3>1. \A d \in Data : d \in chunk => EnvHash(i) \in found'[i][d].envs
      BY <2>3, SeenType DEF ReadChunk, TypeOK, Row
    <3>2. /\ todo' = [todo EXCEPT ![i] = chunk] /\ own' = own
          /\ \A j \in Imports \ {i} : found'[j] = found[j]
      BY <2>3 DEF ReadChunk, TypeOK
    <3> HIDE DEF chunk
    <3> QED
      BY <3>1, <3>2 DEF TypeOK
  <2>4. ASSUME NEW i \in Imports, NEW d \in Data, SaveRow(i, d)
        PROVE  OwnInv'
    <3>1. /\ d \in todo[i] /\ todo' = [todo EXCEPT ![i] = @ \ {d}]
          /\ found' = found
      BY <2>4 DEF SaveRow, Turn
    <3>2. /\ own'[i][d].envs = found[i][d].envs
          /\ \A j \in Imports, e \in Data :
               j # i \/ e # d => own'[j][e] = own[j][e]
      BY <2>4 DEF SaveRow, TypeOK, Row
    <3> QED
      BY <3>1, <3>2 DEF TypeOK
  <2>5. ASSUME NEW i \in Imports, CommitImport(i) \/ Broken(i)
        PROVE  OwnInv'
    <3>1. /\ own' = [own EXCEPT ![i] = Nothing]
          /\ \/ found' = found /\ todo' = todo
             \/ /\ found' = [found EXCEPT ![i] = Nothing]
                /\ todo' = [todo EXCEPT ![i] = {}]
      BY <2>5, BrokenRollsBack DEF CommitImport, Rollback
    <3>2. \A d \in Data : ~Stored(Nothing[d])
      BY DEF Nothing, NoRow, Stored
    <3> QED
      BY <3>1, <3>2 DEF TypeOK
  <2>6. CASE UNCHANGED vars
    BY <2>6 DEF vars
  <2> QED
    BY <2>1, <2>2, <2>3, <2>4, <2>5, <2>6, StepCases
<1> QED
  BY <1>1, <1>2, CsvTypeCorrect, PTL DEF Spec

(* How a step of an import changes its phase, and what is shown.           *)
PhaseKept(i) ==
  /\ Phase(i)' = Phase(i)
  /\ \A h \in Hashes : Refs(h)' = Refs(h)
  /\ \A j \in Imports :
       /\ Clearing(j)' \subseteq Clearing(j)
       /\ (Clearing(j) \ Clearing(j)') \cap Refs(EnvHash(j)) = {}
  /\ overlapped' = overlapped

PhaseMoves(i) ==
  \/ /\ Phase(i) = "waiting" /\ Phase(i)' = "begun"
     /\ \A h \in Hashes : Refs(h)' = Refs(h)
     /\ overlapped' = (overlapped \/ \E j \in Imports : at[j] \in Busy)
  \/ /\ Phase(i) = "begun" /\ Phase(i)' = "clearing"
     /\ Clearing(i)' = Refs(EnvHash(i))
     /\ \A h \in Hashes : Refs(h)' = Refs(h)
     /\ overlapped' = overlapped
  \/ /\ Phase(i) = "clearing" /\ Phase(i)' = "cleared"
     /\ Refs(EnvHash(i))' = Refs(EnvHash(i)) \ Clearing(i)
     /\ \A h \in Hashes \ {EnvHash(i)} : Refs(h)' = Refs(h)
     /\ overlapped' = overlapped
  \/ /\ Phase(i) \in {"begun", "clearing", "cleared"} /\ Phase(i)' = "off"
     /\ \A h \in Hashes : Refs(h)' = Refs(h)
     /\ overlapped' = overlapped
  \/ /\ Phase(i) = "cleared" /\ Phase(i)' = "landed"
     /\ Refs(EnvHash(i))' = Refs(EnvHash(i)) \cup Contents(i)
     /\ \A h \in Hashes \ {EnvHash(i)} :
          \/ Refs(h)' = Refs(h)
          \/ /\ overlapped
             /\ Refs(h)' \ Contents(i) = Refs(h) \ Contents(i)
             /\ \A d \in Refs(h)' \ Refs(h) : h \in Earned(d)
     /\ overlapped' = overlapped

OthersRest(i) ==
  \A j \in Imports \ {i} : at'[j] = at[j] /\ Clearing(j)' = Clearing(j)

LEMMA PhaseStep ==
  ASSUME TypeOK, StatementInv, ReferenceInv, RunInv, OwnInv,
         NEW i \in Imports,
         \/ Start(i) \/ Scanning(i) \/ DerefEnds(i) \/ PurgeEnds(i)
         \/ ReadChunk(i) \/ NextChunk(i) \/ CommitImport(i)
         \/ (\E d \in Data : SaveRow(i, d)) \/ Broken(i)
  PROVE  /\ PhaseKept(i) \/ (PhaseMoves(i) /\ OthersRest(i))
         /\ \A j \in Imports \ {i} : at'[j] = at[j]
<1> DEFINE Goal == /\ PhaseKept(i) \/ (PhaseMoves(i) /\ OthersRest(i))
                   /\ \A j \in Imports \ {i} : at'[j] = at[j]
<1> SUFFICES Goal
  OBVIOUS
<1>a. ASSUME UNCHANGED <<scan, held>>, \A j \in Imports \ {i} : at'[j] = at[j]
      PROVE  OthersRest(i)
  BY <1>a DEF OthersRest, Clearing
<1>1. CASE Start(i)
  <2>1. /\ at' = [at EXCEPT ![i] = "deref"] /\ at[i] = "waiting"
        /\ UNCHANGED <<table, scan, held>>
        /\ overlapped' = (overlapped \/ \E j \in Imports : at[j] \in Busy)
    BY <1>1 DEF Start, Goto, statement
  <2> QED
    BY <1>a, <2>1 DEF TypeOK, PhaseMoves, Phase, Purging, Refs
<1>2. CASE Scanning(i)
  <2>1. /\ UNCHANGED <<table, overlapped>>
        /\ \A j \in Imports \ {i} :
             at'[j] = at[j] /\ scan'[j] = scan[j] /\ held'[j] = held[j]
    BY <1>2, ScanStep DEF TypeOK
  <2>2. OthersRest(i) /\ \A h : Refs(h)' = Refs(h)
    BY <2>1 DEF OthersRest, Clearing, Refs
  <2>3. CASE DerefBegins(i)
    <3>1. /\ at[i] = "deref" /\ at'[i] = "deref_rows"
          /\ scan'[i] = Named(i) /\ held' = held
      BY <2>3 DEF DerefBegins, Begin, Goto, TypeOK
    <3>2. held[i] = {}
      BY <3>1 DEF StatementInv
    <3> QED
      BY <2>1, <2>2, <3>1, <3>2
         DEF PhaseMoves, Phase, Purging, Clearing, Named, Refs, EnvHash
  <2>4. CASE PurgeBegins(i)
    <3>1. at[i] = "purge" /\ at'[i] = "purge_rows"
      BY <2>4 DEF PurgeBegins, Begin, Goto, TypeOK
    <3> QED
      BY <2>1, <2>2, <3>1 DEF OthersRest, PhaseKept, Phase, Clearing, Purging
  <2>5. ASSUME NEW d \in Data, DerefRow(i, d) PROVE PhaseKept(i)
    <3>1. /\ at' = at /\ at[i] = "deref_rows"
          /\ scan'[i] = scan[i] \ {d} /\ d \in scan[i]
          /\ held'[i] = IF d \in Named(i) THEN held[i] \cup {d} ELSE held[i]
      BY <2>5 DEF DerefRow, TakeRow, TypeOK
    <3>2. Named(i) = Refs(EnvHash(i))
      BY DEF Named, Refs
    <3> QED
      BY <2>1, <2>2, <3>1, <3>2 DEF OthersRest, PhaseKept, Phase, Clearing
  <2>6. ASSUME NEW d \in Data, PurgeRow(i, d) PROVE PhaseKept(i)
    <3>1. at' = at /\ at[i] = "purge_rows"
      BY <2>6 DEF PurgeRow, TakeRow
    <3> QED
      BY <2>1, <2>2, <3>1 DEF OthersRest, PhaseKept, Phase, Clearing, Purging
  <2> QED
    BY <1>2, <2>1, <2>2, <2>3, <2>4, <2>5, <2>6 DEF Scanning
<1>3. CASE DerefEnds(i)
  <2>1. /\ at[i] = "deref_rows" /\ at'[i] = "purge" /\ scan[i] = {}
        /\ \A j \in Imports \ {i} :
             at'[j] = at[j] /\ scan'[j] = scan[j] /\ held'[j] = held[j]
        /\ overlapped' = overlapped
    BY <1>3 DEF DerefEnds, Goto, TypeOK
  <2>2. ASSUME NEW d \in Data
        PROVE  table'[d].envs = IF d \in held[i] THEN table[d].envs \ {EnvHash(i)}
                                ELSE table[d].envs
    <3>1. table[d] \in Row
      BY DEF TypeOK
    <3> QED
      BY <1>3, <3>1 DEF DerefEnds, Row
  <2>3. /\ Refs(EnvHash(i))' = Refs(EnvHash(i)) \ Clearing(i)
        /\ \A h \in Hashes \ {EnvHash(i)} : Refs(h)' = Refs(h)
    BY <2>1, <2>2 DEF Refs, Clearing, EnvHash
  <2> QED
    BY <2>1, <2>3 DEF OthersRest, PhaseMoves, Phase, Clearing, Purging
<1>4. CASE PurgeEnds(i)
  <2>1. /\ at[i] = "purge_rows" /\ at'[i] = "read"
        /\ \A j \in Imports \ {i} : /\ at'[j] = at[j] /\ held'[j] = held[j]
                                     /\ scan'[j] = scan[j] \ held[i]
        /\ overlapped' = overlapped
    BY <1>4 DEF PurgeEnds, Goto, TypeOK, history
  <2>2. \A d \in held[i] : d \in Data /\ table[d].envs = {}
    BY <2>1 DEF StatementInv, TypeOK
  <2>3. \A d \in Data : table'[d].envs = table[d].envs
    BY <1>4, <2>2 DEF PurgeEnds, NoRow
  <2>4. \A h : Refs(h)' = Refs(h) /\ Refs(h) \cap held[i] = {}
    BY <2>2, <2>3 DEF Refs
  <2> QED
    BY <2>1, <2>4 DEF PhaseKept, Phase, Clearing, Purging
<1>7. CASE ReadChunk(i) \/ NextChunk(i) \/ \E d \in Data : SaveRow(i, d)
  <2>1. \/ at[i] = "read" /\ at' = [at EXCEPT ![i] = "save"]
        \/ at[i] = "save" /\ at' = [at EXCEPT ![i] = "read"]
        \/ at' = at
    BY <1>7 DEF ReadChunk, NextChunk, SaveRow, Goto
  <2>2. UNCHANGED <<table, overlapped, scan, held>>
    BY <1>7 DEF ReadChunk, NextChunk, SaveRow, statement, history
  <2> QED
    BY <2>1, <2>2 DEF TypeOK, PhaseKept, Phase, Refs, Clearing, Purging
<1>5. CASE CommitImport(i)
  <2>1. /\ at' = [at EXCEPT ![i] = "done"] /\ at[i] = "read"
        /\ \A d \in Data : table'[d] = Seen(i, d)
        /\ UNCHANGED <<overlapped, scan, held>>
    BY <1>5 DEF CommitImport, Goto, statement, history
  <2>2. Written(i) = Contents(i)
    BY <1>5, WrittenAll DEF RunInv
  <2>3. \A d \in Data :
          /\ d \in Contents(i) => EnvHash(i) \in table'[d].envs
          /\ d \notin Contents(i) => table'[d] = table[d]
    BY <2>1, <2>2 DEF OwnInv, Written, Seen
  <2>4. Refs(EnvHash(i))' = Refs(EnvHash(i)) \cup Contents(i)
    <3>1. Contents(i) \subseteq Data
      BY <2>2 DEF Written
    <3> QED
      BY <2>3, <3>1 DEF Refs, EnvHash
  <2>5. ASSUME NEW h \in Hashes \ {EnvHash(i)}
        PROVE  \/ Refs(h)' = Refs(h)
               \/ /\ overlapped
                  /\ Refs(h)' \ Contents(i) = Refs(h) \ Contents(i)
                  /\ \A d \in Refs(h)' \ Refs(h) : h \in Earned(d)
    <3>1. Refs(h)' \ Contents(i) = Refs(h) \ Contents(i)
      BY <2>3 DEF Refs
    <3>2. \A d \in Refs(h)' \ Refs(h) : h \in Earned(d)
      BY <2>1 DEF Refs, Seen, ReferenceInv
    <3>3. ~overlapped => Refs(h)' = Refs(h)
      BY <2>1 DEF Refs, Seen, RunInv, CopiesInv
    <3> QED
      BY <3>1, <3>2, <3>3 DEF TypeOK
  <2> QED
    BY <1>a, <2>1, <2>4, <2>5 DEF TypeOK, PhaseMoves, Phase, Purging
<1>6. CASE Broken(i)
  <2>1. /\ at[i] \in Busy
        /\ at' \in {[at EXCEPT ![i] = end] : end \in {"failed", "killed"}}
        /\ \A j \in Imports \ {i} : scan'[j] = scan[j] /\ held'[j] = held[j]
        /\ UNCHANGED <<table, overlapped>>
    <3>1. at[i] \in Busy
      BY <1>6, BrokenBusy
    <3>2. CASE Rollback(i, "failed")
      BY <3>1, <3>2 DEF Rollback, TypeOK
    <3>3. CASE Rollback(i, "killed")
      BY <3>1, <3>3 DEF Rollback, TypeOK
    <3> QED
      BY <1>6, <3>2, <3>3, BrokenRollsBack
  <2>2. OthersRest(i)
    BY <2>1 DEF OthersRest, Clearing, TypeOK
  <2> QED
    BY <2>1, <2>2 DEF TypeOK, PhaseMoves, Phase, Refs, Busy, Purging
<1> HIDE DEF Goal
<1> QED
  BY <1>1, <1>2, <1>3, <1>4, <1>5, <1>6, <1>7

(* Whatever order imports take their row locks in, and whatever ends one   *)
(* before its time: it clears of its environment and script what it found  *)
(* shown when its UPDATE began, all or nothing (not what others add        *)
(* meanwhile), later shows its whole file or nothing, and of the           *)
(* references of others it changes those in its file at most.              *)
THEOREM ImportsShowResults == Spec => ResultsShown
<1>1. Init => Results!Init
  BY DEF Init, Results!Init, Refs, Phase, Clearing, Purging, Nothing, NoRow
<1>2. TypeOK /\ StatementInv /\ ReferenceInv /\ RunInv /\ OwnInv /\ [Next]_vars
        => [Results!Next]_(Results!vars)
  <2> SUFFICES ASSUME TypeOK, StatementInv, ReferenceInv, RunInv, OwnInv,
                      [Next]_vars
               PROVE  [Results!Next]_(Results!vars)
    OBVIOUS
  <2> DEFINE shows == [h \in Hashes |-> Refs(h)]
             phase == [i \in Imports |-> Phase(i)]
             old == [i \in Imports |-> Clearing(i)]
  <2>1. CASE UNCHANGED vars
    BY <2>1 DEF vars, statement, history, Results!vars, Refs, Phase, Clearing
  <2>2. ASSUME NEW i \in Imports,
               \/ Start(i) \/ Scanning(i) \/ DerefEnds(i) \/ PurgeEnds(i)
               \/ ReadChunk(i) \/ NextChunk(i) \/ CommitImport(i)
               \/ (\E d \in Data : SaveRow(i, d)) \/ Broken(i)
        PROVE  [Results!Next]_(Results!vars)
    <3>1. /\ PhaseKept(i) \/ (PhaseMoves(i) /\ OthersRest(i))
          /\ \A j \in Imports \ {i} : Phase(j)' = Phase(j)
      BY <2>2, PhaseStep DEF Phase
    <3>2. phase' = [phase EXCEPT ![i] = Phase(i)'] /\ phase[i] = Phase(i)
      BY <3>1
    <3>3. EnvHash(i) \in Hashes
      BY HashesKnown
    <3>a. \A j \in Imports : EnvHash(j)' = EnvHash(j) /\ Clearing(j)' \subseteq Data
                            /\ EnvHash(j) \in Hashes
      <4>1. TypeOK'
        BY TypeKept
      <4> QED
        BY <4>1, HashesKnown DEF TypeOK, Clearing, EnvHash
    <3>b. ASSUME OthersRest(i)
          PROVE  old' = [old EXCEPT ![i] = Clearing(i)'] /\ old[i] = Clearing(i)
      BY <3>b DEF OthersRest
    <3>4. CASE PhaseKept(i)
      <4>1. phase' = phase /\ shows' = shows /\ overlapped' = overlapped
        BY <3>2, <3>4 DEF PhaseKept
      <4>2. old' \in [Imports -> SUBSET Data]
        BY <3>a
      <4>3. \A j \in Imports : /\ old'[j] \subseteq old[j]
                              /\ (old[j] \ old'[j]) \cap shows[EnvHash(j)] = {}
        BY <3>4, <3>a DEF PhaseKept
      <4> HIDE DEF phase, shows, old
      <4>4. Results!Forget
        BY <4>1, <4>2, <4>3 DEF Results!Forget, phase, shows, old
      <4> QED
        BY <4>4 DEF Results!Next
    <3>5. CASE /\ OthersRest(i)
               /\ Phase(i) = "waiting" /\ Phase(i)' = "begun"
               /\ \A h \in Hashes : Refs(h)' = Refs(h)
               /\ overlapped' = (overlapped \/ \E j \in Imports : at[j] \in Busy)
      <4>1. \A j \in Imports : at[j] \in Busy <=>
              phase[j] \in {"begun", "clearing", "cleared"}
        BY DEF Phase, Busy, Purging, TypeOK
      <4>2. shows' = shows /\ old' = old
        BY <3>5, <3>b DEF Clearing, Phase
      <4> HIDE DEF phase, shows, old
      <4>3. Results!Begin(i)
        BY <3>2, <3>5, <4>1, <4>2
           DEF Results!Begin, Results!Move, Results!AtWork, phase, shows, old
      <4> QED
        BY <4>3 DEF Results!Next
    <3>6. CASE /\ OthersRest(i)
               /\ Phase(i) = "begun" /\ Phase(i)' = "clearing"
               /\ Clearing(i)' = Refs(EnvHash(i))
               /\ \A h \in Hashes : Refs(h)' = Refs(h)
               /\ overlapped' = overlapped
      <4>1. shows' = shows /\ old' = [old EXCEPT ![i] = shows[EnvHash(i)]]
        BY <3>3, <3>6, <3>b
      <4>2. Results!Look(i)
        BY <3>2, <3>6, <4>1 DEF Results!Look, Results!Move
      <4> QED
        BY <4>2 DEF Results!Next
    <3>7. CASE /\ OthersRest(i)
               /\ Phase(i) = "clearing" /\ Phase(i)' = "cleared"
               /\ Refs(EnvHash(i))' = Refs(EnvHash(i)) \ Clearing(i)
               /\ \A h \in Hashes \ {EnvHash(i)} : Refs(h)' = Refs(h)
               /\ overlapped' = overlapped
      <4>1. shows' = [shows EXCEPT ![EnvHash(i)] = @ \ old[i]]
        BY <3>3, <3>7
      <4>2. old' = [old EXCEPT ![i] = {}]
        BY <3>7, <3>b DEF Clearing, Phase
      <4>3. Results!Clear(i)
        BY <3>2, <3>7, <4>1, <4>2 DEF Results!Clear, Results!Move
      <4> QED
        BY <4>3 DEF Results!Next
    <3>9. CASE /\ OthersRest(i)
               /\ Phase(i) \in {"begun", "clearing", "cleared"}
               /\ Phase(i)' = "off"
               /\ \A h \in Hashes : Refs(h)' = Refs(h)
               /\ overlapped' = overlapped
      <4>1. shows' = shows /\ old' = [old EXCEPT ![i] = {}]
        BY <3>9, <3>b DEF Clearing, Phase
      <4>2. Results!Drop(i)
        BY <3>2, <3>9, <4>1 DEF Results!Drop, Results!AtWork
      <4> QED
        BY <4>2 DEF Results!Next
    <3>8. CASE /\ OthersRest(i)
               /\ Phase(i) = "cleared" /\ Phase(i)' = "landed"
               /\ Refs(EnvHash(i))' = Refs(EnvHash(i)) \cup Contents(i)
               /\ \A h \in Hashes \ {EnvHash(i)} :
                    \/ Refs(h)' = Refs(h)
                    \/ /\ overlapped
                       /\ Refs(h)' \ Contents(i) = Refs(h) \ Contents(i)
                       /\ \A d \in Refs(h)' \ Refs(h) : h \in Earned(d)
               /\ overlapped' = overlapped
      <4>a. Clearing(i)' = {} /\ Clearing(i) = {}
        BY <3>8 DEF Clearing, Phase, Purging
      <4>b. old' = old
        BY <3>8, <3>b, <4>a
      <4>1. shows' \in [Hashes -> SUBSET Data]
        BY DEF Refs
      <4>2. \A h \in Hashes : shows[h] = Refs(h) /\ shows'[h] = Refs(h)'
        OBVIOUS
      <4>3. ASSUME NEW h \in Hashes, NEW d, h \in Earned(d)
            PROVE  Results!Landed(h, d)
        <5>1. PICK j \in Imports : at[j] = "done" /\ EnvHash(j) = h /\ d \in Contents(j)
          BY <4>3 DEF Earned
        <5>2. Phase(j) = "landed"
          BY <5>1 DEF Phase
        <5> QED
          BY <5>1, <5>2 DEF Results!Landed
      <4> HIDE DEF shows, old
      <4>4. Results!Land(i)
        BY <3>2, <3>3, <3>8, <4>b, <4>1, <4>2, <4>3
           DEF Results!Land, Results!Move, Results!OutOfDate, Results!Untouched,
               shows, old
      <4> QED
        BY <4>4 DEF Results!Next
    <3> QED
      BY <3>1, <3>4, <3>5, <3>6, <3>7, <3>8, <3>9 DEF PhaseMoves
  <2> QED
    BY <2>1, <2>2, StepCases
<1> QED
  BY <1>1, <1>2, CsvTypeCorrect, StatementKept, ReferencesKept, RunKept, OwnKept, PTL
     DEF Spec, ResultsShown, Results!Spec
=============================================================================
