-------------------------- MODULE CommitTaskProofs ---------------------------
(***************************************************************************)
(* Theorems about CommitTask for any tasks, files and directories.         *)
(***************************************************************************)
EXTENDS CommitTask, TLAPS

(* A task has a file in hand from the moment it picks it until it is done  *)
(* with it; the file is one of its job, of the kind for what is done.      *)
HasFile(t) == at[t] \in {"look", "make", "publish", "failed"} \cup Copying

FileInv ==
  \A t \in Tasks :
    /\ HasFile(t) <=> file[t] # Nothing
    /\ HasFile(t) => file[t] \in FilesOf[t]
    /\ at[t] \in {"look", "make"} \cup Copying => Kind[file[t]] # "csv"
    /\ at[t] \in Copying => Kind[file[t]] = "kml"
    /\ at[t] = "failed" /\ t \notin erred => Kind[file[t]] # "csv"

(* Every file of a task is still to come, in hand, published or reported.  *)
AccountInv ==
  \A t \in Tasks :
    /\ at[t] \notin {"failed", "lost"} =>
         FilesOf[t] = todo[t] \cup committed[t] \cup reported[t]
                      \cup {f \in {file[t]} : f # Nothing}
    /\ at[t] = "finished" => todo[t] = {}
    /\ todo[t] \subseteq FilesOf[t]
    /\ \A f \in reported[t] : Kind[f] \in {"netcdf", "csv"}

(* Tasks that are at work together have met.                               *)
MetInv ==
  \A s, t \in Tasks :
    s # t /\ at[s] \in Busy /\ at[t] \in Busy => <<s, t>> \in met

(* A task finds the directory it is to make only when one beside it has    *)
(* made it.                                                                *)
Beaten(t) ==
  \E s \in Tasks \ {t} :
    <<s, t>> \in met /\ DirOf(t) \in {Dir[Dest[f]] : f \in FilesOf[s]}

RaceInv ==
  \A t \in Tasks :
    \/ at[t] = "make" /\ DirOf(t) \in dirs
    \/ at[t] = "failed" /\ t \notin erred
    => Beaten(t)

(* Without a clash those that copy to one place write the same file, the   *)
(* first part is there or one of them is still to write it, and when they  *)
(* are through the file is whole.                                          *)
CopiesTo(t, d) == at[t] \in Copying /\ Dest[file[t]] = d

InOrder(d) ==
  /\ \A t \in Tasks : CopiesTo(t, d) =>
       /\ store[d]["part1"] \in {Nothing, file[t]}
       /\ store[d]["part2"] \in {Nothing, file[t]}
       /\ \/ store[d]["part1"] # Nothing
          \/ \E s \in Tasks : CopiesTo(s, d) /\ at[s] = "part1"
  /\ Copied(d) \/ Whole(d)

StoreInv == \A d \in Dests : d \in broken \/ Clash(d) \/ InOrder(d)

CommitInv == TypeOK /\ FileInv /\ AccountInv /\ MetInv /\ RaceInv /\ StoreInv

------------------------------------------------------------------------------
LEMMA TypeStep == TypeOK /\ FileInv /\ [Next]_vars => TypeOK'
<1> SUFFICES ASSUME TypeOK, FileInv, [Next]_vars PROVE TypeOK'
  OBVIOUS
<1> USE CommitAssumption DEF TypeOK, FileInv, HasFile, Busy, Copying, Over
<1>1. CASE UNCHANGED vars
  BY <1>1 DEF vars, task, done, world, history
<1>2. ASSUME NEW t \in Tasks, Start(t) PROVE TypeOK'
  BY <1>2 DEF Start, Goto, done, world
<1>3. ASSUME NEW t \in Tasks, NEW f \in Files, NextFile(t, f) PROVE TypeOK'
  BY <1>3 DEF NextFile, Goto, done, world, history
<1>4. ASSUME NEW t \in Tasks, LookForDir(t) \/ DirIsThere(t) \/ Finish(t)
      PROVE  TypeOK'
  BY <1>4 DEF LookForDir, DirIsThere, Finish, Goto, done, world, history
<1>5. ASSUME NEW t \in Tasks, MakeDir(t) PROVE TypeOK'
  <2>1. file[t] \in Files
    BY <1>5 DEF MakeDir, Goto
  <2> QED
    BY <1>5, <2>1 DEF MakeDir, Goto, DirOf, done, history
<1>6. ASSUME NEW t \in Tasks,
             CommitNetCDF(t) \/ CommitCSV(t) \/ CopyPart2(t) PROVE TypeOK'
  <2>1. file[t] \in Files /\ Dest[file[t]] \in Dests
    BY <1>6 DEF CommitNetCDF, CommitCSV, CopyPart2, Goto
  <2>2. /\ committed' \in [Tasks -> SUBSET Files]
        /\ file' \in [Tasks -> Files \cup {Nothing}]
        /\ UNCHANGED <<todo, reported, dirs, erred, met, broken>>
    BY <1>6, <2>1 DEF CommitNetCDF, CommitCSV, CopyPart2, Committed, history
  <2>3. at' \in [Tasks -> Busy \cup Over \cup {"waiting"}]
    BY <1>6 DEF CommitNetCDF, CommitCSV, CopyPart2, Goto
  <2>4. store' \in [Dests -> [{"part1", "part2"} -> Files \cup {Nothing}]]
    BY <1>6, <2>1 DEF CommitNetCDF, CommitCSV, CopyPart2
  <2> QED
    BY <2>2, <2>3, <2>4
<1>7. ASSUME NEW t \in Tasks, OpenCopy(t) \/ CopyPart1(t) PROVE TypeOK'
  <2>1. file[t] \in Files /\ Dest[file[t]] \in Dests
    BY <1>7 DEF OpenCopy, CopyPart1, Goto
  <2>2. store' \in [Dests -> [{"part1", "part2"} -> Files \cup {Nothing}]]
    BY <1>7, <2>1 DEF OpenCopy, CopyPart1, Empty
  <2>3. at' \in [Tasks -> Busy \cup Over \cup {"waiting"}]
    BY <1>7 DEF OpenCopy, CopyPart1, Goto
  <2> QED
    BY <1>7, <2>2, <2>3 DEF OpenCopy, CopyPart1, done, history
<1>8. ASSUME NEW t \in Tasks, OnlyLogged(t) PROVE TypeOK'
  <2>1. file[t] \in Files
    BY <1>8 DEF OnlyLogged, Goto
  <2> QED
    BY <1>8, <2>1 DEF OnlyLogged, Goto, world, history
<1>9. ASSUME NEW t \in Tasks, Raises(t) \/ Dies(t) PROVE TypeOK'
  <2>1. broken' \subseteq Dests
    <3>1. at[t] \in Copying => Dest[file[t]] \in Dests
      OBVIOUS
    <3> QED
      BY <1>9, <3>1 DEF Raises, Dies, Breaks
  <2> QED
    BY <1>9, <2>1 DEF Raises, Dies, done, world
<1> QED
  BY <1>1, <1>2, <1>3, <1>4, <1>5, <1>6, <1>7, <1>8, <1>9 DEF Next, Work

LEMMA FileStep == TypeOK /\ FileInv /\ AccountInv /\ [Next]_vars => FileInv'
<1> SUFFICES ASSUME TypeOK, FileInv, AccountInv, [Next]_vars PROVE FileInv'
  OBVIOUS
<1> USE CommitAssumption
    DEF TypeOK, FileInv, AccountInv, HasFile, Busy, Copying, Over
<1>1. CASE UNCHANGED vars
  BY <1>1 DEF vars, task, done, world, history
<1>2. ASSUME NEW t \in Tasks, Start(t) PROVE FileInv'
  BY <1>2 DEF Start, Goto, done, world
<1>3. ASSUME NEW t \in Tasks, NEW f \in Files, NextFile(t, f) PROVE FileInv'
  BY <1>3 DEF NextFile, Goto, done, world, history
<1>4. ASSUME NEW t \in Tasks, LookForDir(t) \/ DirIsThere(t) \/ Finish(t)
      PROVE  FileInv'
  BY <1>4 DEF LookForDir, DirIsThere, Finish, Goto, done, world, history
<1>5. ASSUME NEW t \in Tasks, MakeDir(t) PROVE FileInv'
  BY <1>5 DEF MakeDir, Goto, done, history
<1>6. ASSUME NEW t \in Tasks,
             CommitNetCDF(t) \/ CommitCSV(t) \/ CopyPart2(t) PROVE FileInv'
  <2>1. /\ at' = [at EXCEPT ![t] = "loop"]
        /\ file' = [file EXCEPT ![t] = Nothing]
        /\ UNCHANGED erred
    BY <1>6 DEF CommitNetCDF, CommitCSV, CopyPart2, Committed, Goto, history
  <2> QED
    BY <2>1
<1>7. ASSUME NEW t \in Tasks, OpenCopy(t) \/ CopyPart1(t) PROVE FileInv'
  <2>1. /\ at' \in {[at EXCEPT ![t] = p] : p \in Copying}
        /\ Kind[file[t]] = "kml" /\ HasFile(t)
        /\ UNCHANGED <<file, erred>>
    BY <1>7 DEF OpenCopy, CopyPart1, Goto, Is, history
  <2> QED
    BY <2>1
<1>8. ASSUME NEW t \in Tasks, OnlyLogged(t) PROVE FileInv'
  BY <1>8 DEF OnlyLogged, Goto, world, history
<1>9. ASSUME NEW t \in Tasks, Raises(t) \/ Dies(t) PROVE FileInv'
  BY <1>9 DEF Raises, Dies, done, world
<1> QED
  BY <1>1, <1>2, <1>3, <1>4, <1>5, <1>6, <1>7, <1>8, <1>9 DEF Next, Work

LEMMA AccountStep == TypeOK /\ FileInv /\ AccountInv /\ [Next]_vars => AccountInv'
<1> SUFFICES ASSUME TypeOK, FileInv, AccountInv, [Next]_vars PROVE AccountInv'
  OBVIOUS
<1> USE CommitAssumption
    DEF TypeOK, FileInv, AccountInv, HasFile, Busy, Copying, Over
<1>1. CASE UNCHANGED vars
  BY <1>1 DEF vars, task, done, world, history
<1>2. ASSUME NEW t \in Tasks,
             Start(t) \/ LookForDir(t) \/ MakeDir(t) \/ DirIsThere(t)
             \/ OpenCopy(t) \/ CopyPart1(t) \/ Raises(t)
      PROVE  AccountInv'
  <2>1. UNCHANGED <<todo, file, committed, reported>>
    BY <1>2 DEF Start, LookForDir, MakeDir, DirIsThere, OpenCopy, CopyPart1,
                Raises, done
  <2>2. \A s \in Tasks : at'[s] = at[s] \/ at[s] \notin {"failed", "lost"}
    BY <1>2 DEF Start, LookForDir, MakeDir, DirIsThere, OpenCopy, CopyPart1,
                Raises, Goto
  <2>3. \A s \in Tasks : at'[s] = "finished" => at[s] = "finished"
    BY <1>2 DEF Start, LookForDir, MakeDir, DirIsThere, OpenCopy, CopyPart1,
                Raises, Goto
  <2> QED
    BY <2>1, <2>2, <2>3
<1>3. ASSUME NEW t \in Tasks, NEW f \in Files, NextFile(t, f) PROVE AccountInv'
  BY <1>3 DEF NextFile, Goto, done, world, history
<1>4. ASSUME NEW t \in Tasks, Finish(t) PROVE AccountInv'
  BY <1>4 DEF Finish, Goto, done
<1>5. ASSUME NEW t \in Tasks,
             CommitNetCDF(t) \/ CommitCSV(t) \/ CopyPart2(t) PROVE AccountInv'
  <2>1. /\ at[t] \in {"publish", "part2"}
        /\ at' = [at EXCEPT ![t] = "loop"]
        /\ file' = [file EXCEPT ![t] = Nothing]
        /\ committed' = [committed EXCEPT ![t] = @ \cup {file[t]}]
        /\ UNCHANGED <<todo, reported>>
    BY <1>5 DEF CommitNetCDF, CommitCSV, CopyPart2, Committed, Goto
  <2> QED
    BY <2>1
<1>6. ASSUME NEW t \in Tasks, OnlyLogged(t) PROVE AccountInv'
  BY <1>6 DEF OnlyLogged, Goto, Is
<1>7. ASSUME NEW t \in Tasks, Dies(t) PROVE AccountInv'
  BY <1>7 DEF Dies, done
<1> QED
  BY <1>1, <1>2, <1>3, <1>4, <1>5, <1>6, <1>7 DEF Next, Work

LEMMA MetStep == TypeOK /\ MetInv /\ [Next]_vars => MetInv'
<1> SUFFICES ASSUME TypeOK, MetInv, [Next]_vars,
                    NEW s \in Tasks, NEW t \in Tasks, s # t,
                    at'[s] \in Busy, at'[t] \in Busy
             PROVE  <<s, t>> \in met'
  BY DEF MetInv
<1> USE DEF TypeOK, MetInv
<1>1. ASSUME NEW u \in Tasks, Start(u) PROVE <<s, t>> \in met'
  <2>1. CASE u = s \/ u = t
    BY <1>1, <2>1 DEF Start, Goto
  <2>2. CASE u # s /\ u # t
    BY <1>1, <2>2 DEF Start, Goto
  <2> QED
    BY <2>1, <2>2
<1>2. CASE ~\E u \in Tasks : Start(u)
  <2>1. at[s] \in Busy /\ at[t] \in Busy /\ met' = met
    BY <1>2 DEF Next, Work, NextFile, LookForDir, MakeDir, DirIsThere,
                CommitNetCDF, CommitCSV, Committed, OpenCopy, CopyPart1,
                CopyPart2, OnlyLogged, Raises, Finish, Dies, Goto, Busy,
                Copying, vars, task, done, world, history
  <2> QED
    BY <2>1
<1> QED
  BY <1>1, <1>2

LEMMA RaceStep ==
  TypeOK /\ FileInv /\ MetInv /\ RaceInv /\ [Next]_vars => RaceInv'
<1> SUFFICES ASSUME TypeOK, FileInv, MetInv, RaceInv, [Next]_vars,
                    NEW t \in Tasks,
                    \/ at'[t] = "make" /\ DirOf(t)' \in dirs'
                    \/ at'[t] = "failed" /\ t \notin erred'
             PROVE  Beaten(t)'
  BY DEF RaceInv
<1> USE CommitAssumption DEF TypeOK
<1>1. ASSUME UNCHANGED file[t], met \subseteq met', Beaten(t)
      PROVE  Beaten(t)'
  BY <1>1 DEF Beaten, DirOf
<1>2. ASSUME NEW u \in Tasks, MakeDir(u) PROVE Beaten(t)'
  <2>1. CASE u = t
    BY <1>2, <2>1 DEF MakeDir, Goto
  <2>2. CASE u # t /\ Beaten(t)
    BY <1>2, <2>2, <1>1 DEF MakeDir, history
  <2>3. CASE u # t /\ ~Beaten(t)
    <3>0. at'[t] = at[t] /\ UNCHANGED <<file, erred, met>>
      BY <1>2, <2>3 DEF MakeDir, Goto, history
    <3>1. at[t] = "make" /\ DirOf(t) \notin dirs /\ DirOf(t) \in dirs'
      BY <2>3, <3>0 DEF RaceInv, DirOf
    <3>2. DirOf(u) = DirOf(t)
      BY <1>2, <3>1 DEF MakeDir
    <3>3. file[u] \in FilesOf[u] /\ at[u] = "make"
      BY <1>2 DEF MakeDir, Goto, FileInv, HasFile
    <3>4. <<u, t>> \in met
      BY <2>3, <3>1, <3>3 DEF MetInv, Busy
    <3>5. DirOf(t) \in {Dir[Dest[f]] : f \in FilesOf[u]}
      BY <3>2, <3>3 DEF DirOf
    <3>6. u \in Tasks \ {t}
      BY <2>3
    <3> HIDE DEF DirOf
    <3> QED
      BY <2>3, <3>4, <3>5, <3>6 DEF Beaten
  <2> QED
    BY <2>1, <2>2, <2>3
<1>3. ASSUME NEW u \in Tasks, Start(u) PROVE Beaten(t)'
  BY <1>3, <1>1 DEF Start, Goto, RaceInv, DirOf, done, world
<1>4. ASSUME NEW u \in Tasks, NEW f \in Files, NextFile(u, f) PROVE Beaten(t)'
  BY <1>4, <1>1 DEF NextFile, Goto, RaceInv, DirOf, done, world, history
<1>5. ASSUME NEW u \in Tasks, LookForDir(u) \/ DirIsThere(u) \/ Finish(u)
      PROVE  Beaten(t)'
  BY <1>5, <1>1 DEF LookForDir, DirIsThere, Finish, Goto, RaceInv, DirOf, done,
                    world, history
<1>6. ASSUME NEW u \in Tasks,
             CommitNetCDF(u) \/ CommitCSV(u) \/ CopyPart2(u) \/ OnlyLogged(u)
      PROVE  Beaten(t)'
  <2>1. /\ at' = [at EXCEPT ![u] = "loop"]
        /\ file' = [file EXCEPT ![u] = Nothing]
        /\ UNCHANGED <<dirs, erred, met>>
    BY <1>6 DEF CommitNetCDF, CommitCSV, CopyPart2, OnlyLogged, Committed,
                Goto, world, history
  <2>2. u # t /\ UNCHANGED <<at[t], file[t]>>
    BY <2>1
  <2> QED
    BY <2>1, <2>2, <1>1 DEF RaceInv, DirOf
<1>7. ASSUME NEW u \in Tasks, OpenCopy(u) \/ CopyPart1(u) PROVE Beaten(t)'
  BY <1>7, <1>1 DEF OpenCopy, CopyPart1, Goto, RaceInv, DirOf, done, history,
                    Copying
<1>8. ASSUME NEW u \in Tasks, Raises(u) PROVE Beaten(t)'
  BY <1>8, <1>1 DEF Raises, RaceInv, DirOf, done, world
<1>9. ASSUME NEW u \in Tasks, Dies(u) PROVE Beaten(t)'
  <2>1. u # t /\ UNCHANGED <<at[t], file[t], dirs, erred, met>>
    BY <1>9 DEF Dies, done, world
  <2> QED
    BY <2>1, <1>1 DEF RaceInv, DirOf
<1>10. CASE UNCHANGED vars
  BY <1>10, <1>1 DEF vars, task, done, world, history, RaceInv, DirOf
<1> QED
  BY <1>2, <1>3, <1>4, <1>5, <1>6, <1>7, <1>8, <1>9, <1>10 DEF Next, Work

(* Two that copy to one place at the same time copy the same file, or the  *)
(* place has a clash.                                                      *)
LEMMA SameFile ==
  ASSUME TypeOK, FileInv, MetInv, NEW s \in Tasks, NEW t \in Tasks,
         HasFile(s), HasFile(t), at[s] \in Busy, at[t] \in Busy,
         Dest[file[s]] = Dest[file[t]], ~Clash(Dest[file[t]])
  PROVE  file[s] = file[t]
<1>1. CASE s = t
  BY <1>1
<1>2. CASE s # t
  <2>1. <<s, t>> \in met
    BY <1>2 DEF MetInv
  <2>2. file[s] \in FilesOf[s] /\ file[t] \in FilesOf[t]
    BY DEF FileInv
  <2> QED
    BY <2>1, <2>2 DEF Clash
<1> QED
  BY <1>1, <1>2

(* A clash stays.                                                          *)
LEMMA ClashStays ==
  ASSUME met \subseteq met', NEW d, Clash(d)
  PROVE  Clash(d)'
  BY DEF Clash

LEMMA MetGrows == [Next]_vars => met \subseteq met'
  BY DEF Next, Work, Start, NextFile, LookForDir, MakeDir, DirIsThere,
         CommitNetCDF, CommitCSV, Committed, OpenCopy, CopyPart1, CopyPart2,
         OnlyLogged, Raises, Finish, Dies, vars, history

(* What is in order at a destination stays so while nothing is written     *)
(* there and no copy to it is begun or ended.                              *)
LEMMA Untouched ==
  ASSUME NEW d, InOrder(d), store'[d] = store[d],
         \A t \in Tasks :
           /\ CopiesTo(t, d)' <=> CopiesTo(t, d)
           /\ CopiesTo(t, d) => UNCHANGED <<at[t], file[t]>>
  PROVE  InOrder(d)'
<1>1. Copied(d)' <=> Copied(d)
  BY DEF Copied, CopiesTo
<1>2. Whole(d)' <=> Whole(d)
  BY DEF Whole
<1> QED
  BY <1>1, <1>2 DEF InOrder

LEMMA StoreStep ==
  TypeOK /\ FileInv /\ MetInv /\ StoreInv /\ [Next]_vars => StoreInv'
<1> SUFFICES ASSUME TypeOK, FileInv, MetInv, StoreInv, [Next]_vars,
                    NEW d \in Dests, d \notin broken', ~Clash(d)'
             PROVE  InOrder(d)'
  BY DEF StoreInv
<1>0. ~Clash(d)
  BY MetGrows, ClashStays
<1> USE CommitAssumption DEF TypeOK
<1>1. ASSUME d \notin broken, store'[d] = store[d],
             \A t \in Tasks :
               /\ at'[t] \in Copying \/ at[t] \in Copying =>
                    UNCHANGED <<at[t], file[t]>>
      PROVE  InOrder(d)'
  <2>1. InOrder(d)
    BY <1>0, <1>1 DEF StoreInv
  <2> QED
    BY <1>1, <2>1, Untouched DEF CopiesTo
<1>2. ASSUME NEW t \in Tasks, Start(t) \/ LookForDir(t) \/ MakeDir(t)
             \/ DirIsThere(t) \/ CommitCSV(t) \/ OnlyLogged(t) \/ Finish(t)
             \/ \E f \in Files : NextFile(t, f)
      PROVE  InOrder(d)'
  <2>1. UNCHANGED <<store, broken>>
    BY <1>2 DEF Start, LookForDir, MakeDir, DirIsThere, CommitCSV, Committed,
                OnlyLogged, Finish, NextFile, world, history
  <2>2. at[t] \notin Copying /\ at'[t] \notin Copying
    BY <1>2 DEF Start, LookForDir, MakeDir, DirIsThere, CommitCSV, OnlyLogged,
                Finish, NextFile, Goto, Copying
  <2>3. \A s \in Tasks \ {t} : UNCHANGED <<at[s], file[s]>>
    BY <1>2 DEF Start, LookForDir, MakeDir, DirIsThere, CommitCSV, Committed,
                OnlyLogged, Finish, NextFile, Goto
  <2> QED
    BY <2>1, <2>2, <2>3, <1>1
<1>3. ASSUME NEW t \in Tasks, Raises(t) \/ Dies(t) PROVE InOrder(d)'
  <2>1. /\ store' = store /\ broken' = Breaks(t) /\ at'[t] \notin Copying
        /\ \A s \in Tasks \ {t} : UNCHANGED <<at[s], file[s]>>
    BY <1>3 DEF Raises, Dies, Copying, world
  <2>2. d \notin broken /\ ~CopiesTo(t, d) /\ ~CopiesTo(t, d)'
    BY <2>1 DEF Breaks, CopiesTo
  <2>3. InOrder(d)
    BY <1>0, <2>2 DEF StoreInv
  <2>4. \A s \in Tasks :
          /\ CopiesTo(s, d)' <=> CopiesTo(s, d)
          /\ CopiesTo(s, d) => UNCHANGED <<at[s], file[s]>>
    BY <2>1, <2>2 DEF CopiesTo
  <2> QED
    BY <2>1, <2>3, <2>4, Untouched
<1>4. ASSUME NEW t \in Tasks, OpenCopy(t) PROVE InOrder(d)'
  <2>1. /\ HasFile(t) /\ at[t] = "publish" /\ file[t] \in Files
        /\ at' = [at EXCEPT ![t] = "part1"] /\ file' = file
        /\ store' = [store EXCEPT ![Dest[file[t]]] = Empty]
        /\ broken' = broken \ {Dest[file[t]]}
    BY <1>4 DEF OpenCopy, Goto, FileInv, HasFile
  <2>2. CASE d = Dest[file[t]]
    <3>1. store'[d] = Empty /\ CopiesTo(t, d)' /\ at'[t] = "part1"
      BY <2>1, <2>2 DEF CopiesTo, Copying
    <3> QED
      BY <3>1 DEF InOrder, Whole, Empty
  <2>3. CASE d # Dest[file[t]]
    <3>1. InOrder(d) /\ store'[d] = store[d]
      BY <1>0, <2>1, <2>3 DEF StoreInv
    <3>2. \A s \in Tasks :
            /\ CopiesTo(s, d)' <=> CopiesTo(s, d)
            /\ CopiesTo(s, d) => UNCHANGED <<at[s], file[s]>>
      BY <2>1, <2>3 DEF CopiesTo
    <3> QED
      BY <3>1, <3>2, Untouched
  <2> QED
    BY <2>2, <2>3
<1>5. ASSUME NEW t \in Tasks, CopyPart1(t) PROVE InOrder(d)'
  <2>1. /\ at[t] = "part1" /\ file[t] \in Files
        /\ at' = [at EXCEPT ![t] = "part2"] /\ file' = file
        /\ store' = [store EXCEPT ![Dest[file[t]]]["part1"] = file[t]]
        /\ broken' = broken
    BY <1>5 DEF CopyPart1, Goto, FileInv, HasFile, Copying, history
  <2>2. InOrder(d)
    BY <1>0, <2>1 DEF StoreInv
  <2>3. CASE d = Dest[file[t]]
    <3>1. CopiesTo(t, d) /\ CopiesTo(t, d)'
      BY <2>1, <2>3 DEF CopiesTo, Copying
    <3>2. \A s \in Tasks : CopiesTo(s, d) => file[s] = file[t]
      <4> SUFFICES ASSUME NEW s \in Tasks, CopiesTo(s, d)
                   PROVE  file[s] = file[t]
        OBVIOUS
      <4> QED
        BY <1>0, <2>3, <3>1, SameFile DEF CopiesTo, Copying, Busy, HasFile
    <3>3. \A s \in Tasks : CopiesTo(s, d)' => CopiesTo(s, d)
      BY <2>1, <3>1 DEF CopiesTo
    <3>4. /\ store'[d]["part1"] = file[t]
          /\ store'[d]["part2"] = store[d]["part2"]
          /\ file[t] # Nothing
      BY <2>1, <2>3
    <3>5. Copied(d)'
      BY <3>1 DEF Copied, CopiesTo
    <3> QED
      BY <2>1, <2>2, <3>1, <3>2, <3>3, <3>4, <3>5 DEF InOrder
  <2>4. CASE d # Dest[file[t]]
    <3>1. store'[d] = store[d]
      BY <2>1, <2>4
    <3>2. \A s \in Tasks :
            /\ CopiesTo(s, d)' <=> CopiesTo(s, d)
            /\ CopiesTo(s, d) => UNCHANGED <<at[s], file[s]>>
      BY <2>1, <2>4 DEF CopiesTo
    <3> QED
      BY <2>2, <3>1, <3>2, Untouched
  <2> QED
    BY <2>3, <2>4
<1>6. ASSUME NEW t \in Tasks, CopyPart2(t) PROVE InOrder(d)'
  <2>1. /\ at[t] = "part2" /\ file[t] \in Files
        /\ at' = [at EXCEPT ![t] = "loop"]
        /\ file' = [file EXCEPT ![t] = Nothing]
        /\ store' = [store EXCEPT ![Dest[file[t]]]["part2"] = file[t]]
        /\ broken' = broken
    BY <1>6 DEF CopyPart2, Committed, Goto, FileInv, HasFile, Copying, history
  <2>2. InOrder(d)
    BY <1>0, <2>1 DEF StoreInv
  <2>3. CASE d = Dest[file[t]]
    <3>1. CopiesTo(t, d) /\ ~CopiesTo(t, d)'
      BY <2>1, <2>3 DEF CopiesTo, Copying
    <3>2. \A s \in Tasks : CopiesTo(s, d) => file[s] = file[t]
      <4> SUFFICES ASSUME NEW s \in Tasks, CopiesTo(s, d)
                   PROVE  file[s] = file[t]
        OBVIOUS
      <4> QED
        BY <1>0, <2>3, <3>1, SameFile DEF CopiesTo, Copying, Busy, HasFile
    <3>3. \A s \in Tasks \ {t} :
            /\ UNCHANGED <<at[s], file[s]>>
            /\ CopiesTo(s, d)' <=> CopiesTo(s, d)
      BY <2>1 DEF CopiesTo
    <3>4. /\ store'[d]["part1"] = store[d]["part1"]
          /\ store'[d]["part2"] = file[t]
          /\ file[t] # Nothing
      BY <2>1, <2>3
    <3>5. \A s \in Tasks : CopiesTo(s, d) /\ at[s] = "part1" =>
            s # t /\ CopiesTo(s, d)' /\ at'[s] = "part1"
      BY <2>1, <3>3
    <3>6. Copied(d)' \/ Whole(d)'
      <4>1. CASE store[d]["part1"] = file[t]
        BY <3>4, <4>1 DEF Whole
      <4>2. CASE store[d]["part1"] # file[t]
        <5>1. PICK s \in Tasks : CopiesTo(s, d) /\ at[s] = "part1"
          BY <2>2, <3>1, <4>2 DEF InOrder
        <5> QED
          BY <3>5, <5>1 DEF Copied, CopiesTo
      <4> QED
        BY <4>1, <4>2
    <3> QED
      BY <2>2, <3>1, <3>2, <3>3, <3>4, <3>5, <3>6 DEF InOrder
  <2>4. CASE d # Dest[file[t]]
    <3>1. store'[d] = store[d]
      BY <2>1, <2>4
    <3>2. \A s \in Tasks :
            /\ CopiesTo(s, d)' <=> CopiesTo(s, d)
            /\ CopiesTo(s, d) => UNCHANGED <<at[s], file[s]>>
      BY <2>1, <2>4 DEF CopiesTo, Copying
    <3> QED
      BY <2>2, <3>1, <3>2, Untouched
  <2> QED
    BY <2>3, <2>4
<1>7. ASSUME NEW t \in Tasks, CommitNetCDF(t) PROVE InOrder(d)'
  <2>1. /\ HasFile(t) /\ at[t] = "publish" /\ file[t] \in Files
        /\ Kind[file[t]] = "netcdf"
        /\ at' = [at EXCEPT ![t] = "loop"]
        /\ file' = [file EXCEPT ![t] = Nothing]
        /\ store' = [store EXCEPT ![Dest[file[t]]] =
                       [part \in {"part1", "part2"} |-> file[t]]]
        /\ broken' = broken
    BY <1>7 DEF CommitNetCDF, Committed, Is, Goto, FileInv, HasFile, history
  <2>2. InOrder(d)
    BY <1>0, <2>1 DEF StoreInv
  <2>3. CASE d = Dest[file[t]]
    <3>1. \A s \in Tasks : ~CopiesTo(s, d)
      <4> SUFFICES ASSUME NEW s \in Tasks, CopiesTo(s, d) PROVE FALSE
        OBVIOUS
      <4>1. file[s] = file[t]
        BY <1>0, <2>1, <2>3, SameFile DEF CopiesTo, Copying, Busy, HasFile
      <4>2. Kind[file[s]] = "kml"
        BY DEF FileInv, CopiesTo
      <4> QED
        BY <2>1, <4>1, <4>2
    <3>2. \A s \in Tasks : ~CopiesTo(s, d)'
      BY <2>1, <3>1 DEF CopiesTo, Copying
    <3>3. Whole(d)'
      BY <2>1, <2>3 DEF Whole
    <3> QED
      BY <3>2, <3>3 DEF InOrder
  <2>4. CASE d # Dest[file[t]]
    <3>1. store'[d] = store[d]
      BY <2>1, <2>4
    <3>2. \A s \in Tasks :
            /\ CopiesTo(s, d)' <=> CopiesTo(s, d)
            /\ CopiesTo(s, d) => UNCHANGED <<at[s], file[s]>>
      BY <2>1, <2>4 DEF CopiesTo, Copying
    <3> QED
      BY <2>2, <3>1, <3>2, Untouched
  <2> QED
    BY <2>3, <2>4
<1>8. CASE UNCHANGED vars
  BY <1>8, <1>1 DEF vars, task, world, history
<1> QED
  BY <1>2, <1>3, <1>4, <1>5, <1>6, <1>7, <1>8 DEF Next, Work

------------------------------------------------------------------------------
LEMMA CommitInit == Init => CommitInv
<1> SUFFICES ASSUME Init PROVE CommitInv
  OBVIOUS
<1> USE CommitAssumption DEF Init
<1>1. TypeOK
  BY DEF TypeOK, Empty
<1>2. FileInv /\ AccountInv /\ MetInv
  BY DEF FileInv, AccountInv, MetInv, HasFile, Copying, Busy
<1>3. RaceInv
  BY DEF RaceInv
<1>4. StoreInv
  BY DEF StoreInv, InOrder, CopiesTo, Copying, Whole, Empty
<1> QED
  BY <1>1, <1>2, <1>3, <1>4 DEF CommitInv

LEMMA CommitInvariant == Spec => []CommitInv
<1>1. CommitInv /\ [Next]_vars => CommitInv'
  BY TypeStep, FileStep, AccountStep, MetStep, RaceStep, StoreStep
     DEF CommitInv
<1> QED
  BY CommitInit, <1>1, PTL DEF Spec

(* The variables of a commit hold what they should in every state.         *)
THEOREM CommitTypeCorrect == Spec => []TypeOK
<1>1. CommitInv => TypeOK
  BY DEF CommitInv
<1> QED
  BY CommitInvariant, <1>1, PTL

(* When the task makes its job FINISHED (tasks.py, commit), each file was  *)
(* published or, NetCDF and CSV only, its failure logged.                  *)
THEOREM FinishedComplete == Spec => []FinishedIsComplete
<1>1. CommitInv => FinishedIsComplete
  <2> SUFFICES ASSUME CommitInv, NEW t \in Tasks, at[t] = "finished"
               PROVE  /\ FilesOf[t] = committed[t] \cup reported[t]
                      /\ \A f \in reported[t] : Kind[f] \in {"netcdf", "csv"}
    BY DEF FinishedIsComplete
  <2>1. file[t] = Nothing
    BY DEF CommitInv, TypeOK, FileInv, HasFile, Copying
  <2> QED
    BY <2>1 DEF CommitInv, AccountInv
<1> QED
  BY CommitInvariant, <1>1, PTL

(* Between os.path.exists and os.makedirs only a task beside it makes a    *)
(* commit fail that met no other error.                                    *)
THEOREM DirsOnly == Spec => []FailsOverDirsOnly
<1>1. CommitInv => FailsOverDirsOnly
  BY DEF CommitInv, RaceInv, Beaten, FailsOverDirsOnly
<1> QED
  BY CommitInvariant, <1>1, PTL

(* Copies of one file over each other leave it whole (copyfile).           *)
THEOREM StoreWhole == Spec => []StoreIsWhole
<1>1. CommitInv => StoreIsWhole
  BY DEF CommitInv, StoreInv, InOrder, StoreIsWhole
<1> QED
  BY CommitInvariant, <1>1, PTL
==============================================================================
