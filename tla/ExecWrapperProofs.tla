-------------------------- MODULE ExecWrapperProofs --------------------------
(***************************************************************************)
(* Theorems about ExecWrapper for any pipes, capacity and output.          *)
(***************************************************************************)
EXTENDS ExecWrapper, TLAPS

(* A command that ended has closed its pipes; it writes to open ones only. *)
CommandInv ==
  /\ exit # "none" => open = {} /\ writing = "nothing"
  /\ writing # "nothing" => into \in open

(* readline is entered when there is something to read, and stays only     *)
(* with a line that has not ended; the lines of all else were yielded.     *)
ReadlineInv ==
  /\ reader = "readline" =>
       HasData(reading) \/ (taken[reading] > 0 /\ ~Line(reading, taken[reading]))
  /\ \A p \in Pipes :
       \/ reader = "readline" /\ reading = p
       \/ taken[p] = 0
       \/ taken[p] \in ends[p]

(* A pipe that epoll does not watch any more was read to its end.          *)
DroppedInv ==
  /\ reader = "readline" => reading \in fds
  /\ \A p \in Pipes \ fds : HungUp(p) /\ ~HasData(p)
  /\ Ended => fds = {} /\ exit # "none"

ExecInv == TypeOK /\ CommandInv /\ LinesAreWhole /\ ReadlineInv /\ DroppedInv

LEMMA ExecInit == Init => ExecInv
  BY DEF Init, ExecInv, TypeOK, CommandInv, LinesAreWhole, ReadlineInv,
         DroppedInv, Ended, HasData

LEMMA CommandStep ==
  ASSUME ExecInv, \/ \E p \in Pipes : ClosePipe(p) \/ \E u \in Units : Begin(p, u)
                  \/ Write \/ Exits \/ Killed
  PROVE  ExecInv'
<1> USE ExecAssumption
    DEF ExecInv, TypeOK, CommandInv, LinesAreWhole, ReadlineInv, DroppedInv,
        Ended, HasData, HungUp, Line, Units, wrapper
<1>1. ASSUME NEW p \in Pipes, ClosePipe(p) PROVE ExecInv'
  BY <1>1 DEF ClosePipe
<1>2. ASSUME NEW p \in Pipes, NEW u \in Units, Begin(p, u) PROVE ExecInv'
  BY <1>2 DEF Begin
<1>3. CASE Write
  <2>1. /\ into \in open /\ into \in Pipes /\ writing \in Units
        /\ written' = [written EXCEPT ![into] = Append(@, writing)]
    BY <1>3 DEF Write
  <2>2. written' \in [Pipes -> Seq(Units)]
    BY <2>1
  <2>3. \A p \in Pipes :
          /\ Len(written'[p]) >= Len(written[p])
          /\ p # into => written'[p] = written[p]
          /\ \A k \in 1..Len(written[p]) : written'[p][k] = written[p][k]
    BY <2>1
  <2>4. \A p \in Pipes : taken[p] <= Len(written[p]) /\ taken[p] \in Nat
                         /\ Len(written[p]) \in Nat /\ Len(written'[p]) \in Nat
    BY <2>2
  <2>5. TypeOK' /\ CommandInv'
    BY <1>3, <2>2, <2>3, <2>4 DEF Write
  <2>6. UNCHANGED <<taken, ends, open, reader, reading, fds, exit>>
    BY <1>3 DEF Write
  <2>7. LinesAreWhole'
    <3>1. ASSUME NEW p \in Pipes, NEW k \in 1..taken[p]
          PROVE  Line(p, k)' <=> Line(p, k)
      BY <2>3, <2>4
    <3>2. ASSUME NEW p \in Pipes, NEW k \in ends[p], ~Line(p, k)
          PROVE  k = Len(written'[p]) /\ p \notin open
      <4>1. p \notin open /\ p # into
        BY <2>1, <3>2
      <4> QED
        BY <2>3, <3>2, <4>1
    <3> QED
      BY <2>6, <3>1, <3>2
  <2>8. ReadlineInv'
    <3>1. \A p \in Pipes : HasData(p) => HasData(p)'
      BY <2>3, <2>4, <2>6
    <3>2. reader = "readline" /\ taken[reading] > 0 =>
            Line(reading, taken[reading])' = Line(reading, taken[reading])
      BY <2>3, <2>4, <2>6
    <3> QED
      BY <2>6, <3>1, <3>2
  <2>9. DroppedInv'
    BY <2>1, <2>3, <2>6
  <2> QED
    BY <2>5, <2>7, <2>8, <2>9
<1>4. CASE Exits
  BY <1>4 DEF Exits, Exit
<1>5. CASE Killed
  BY <1>5 DEF Killed
<1> QED
  BY <1>1, <1>2, <1>3, <1>4, <1>5

LEMMA WrapperStep ==
  ASSUME ExecInv, StartProcess
  PROVE  ExecInv'
<1> USE ExecAssumption
    DEF ExecInv, TypeOK, CommandInv, LinesAreWhole, ReadlineInv, DroppedInv,
        Ended, HasData, HungUp, Line, command
<1>1. ASSUME NEW p \in Pipes, PollIn(p) PROVE ExecInv'
  <2>1. TypeOK' /\ CommandInv' /\ LinesAreWhole'
    BY <1>1 DEF PollIn
  <2>2. ReadlineInv'
    BY <1>1 DEF PollIn
  <2>3. DroppedInv'
    BY <1>1 DEF PollIn
  <2> QED
    BY <2>1, <2>2, <2>3
<1>2. ASSUME NEW p \in Pipes, PollHangUp(p) PROVE ExecInv'
  BY <1>2 DEF PollHangUp
<1>3. CASE ReadUnit
  <2>1. /\ taken' = [taken EXCEPT ![reading] = @ + 1]
        /\ taken[reading] < Len(written[reading])
        /\ taken[reading] \in Nat /\ Len(written[reading]) \in Nat
    BY <1>3 DEF ReadUnit
  <2>2. CASE written[reading][taken[reading] + 1] = "newline"
    <3>1. /\ ends' = [ends EXCEPT ![reading] = @ \cup {taken[reading] + 1}]
          /\ reader' = "poll"
          /\ UNCHANGED <<exit, writing, into, open, written, fds, reading>>
      BY <1>3, <2>2 DEF ReadUnit
    <3>2. TypeOK' /\ CommandInv' /\ DroppedInv'
      BY <2>1, <3>1
    <3>3. LinesAreWhole'
      BY <2>1, <2>2, <3>1
    <3>4. ReadlineInv'
      BY <1>3, <2>1, <3>1 DEF ReadUnit
    <3> QED
      BY <3>2, <3>3, <3>4
  <2>3. CASE written[reading][taken[reading] + 1] # "newline"
    BY <1>3, <2>1, <2>3 DEF ReadUnit
  <2> QED
    BY <2>2, <2>3
<1>4. CASE ReadEnd
  <2>1. taken[reading] = Len(written[reading]) /\ taken[reading] > 0
    BY <1>4 DEF ReadEnd
  <2> QED
    BY <1>4, <2>1 DEF ReadEnd
<1>5. CASE Wait
  BY <1>5 DEF Wait
<1> QED
  BY <1>1, <1>2, <1>3, <1>4, <1>5 DEF StartProcess

LEMMA ExecStep == ExecInv /\ [Next]_vars => ExecInv'
<1> SUFFICES ASSUME ExecInv, [Next]_vars PROVE ExecInv'
  OBVIOUS
<1>1. CASE UNCHANGED vars
  BY <1>1 DEF vars, command, wrapper, ExecInv, TypeOK, CommandInv,
              LinesAreWhole, ReadlineInv, DroppedInv, Ended, HasData, HungUp,
              Line
<1> QED
  BY <1>1, CommandStep, WrapperStep DEF Next

LEMMA ExecInvariant == Spec => []ExecInv
  BY ExecInit, ExecStep, PTL DEF Spec

(* The wrapper keeps its shape, and reads nothing that was not written.    *)
THEOREM ExecTypeCorrect == Spec => []TypeOK
<1>1. ExecInv => TypeOK
  BY DEF ExecInv
<1> QED
  BY <1>1, ExecInvariant, PTL

(* Whatever the command writes to its pipes and in what order, each entry  *)
(* of the log is one line of one pipe.                                     *)
THEOREM LinesWhole == Spec => []LinesAreWhole
<1>1. ExecInv => LinesAreWhole
  BY DEF ExecInv
<1> QED
  BY <1>1, ExecInvariant, PTL

(* start_process never comes back with output left in a pipe.              *)
THEOREM OutputComplete == Spec => []OutputIsComplete
<1>1. ExecInv => OutputIsComplete
  <2> SUFFICES ASSUME ExecInv, Ended PROVE OutputIsComplete
    BY DEF OutputIsComplete
  <2> USE DEF ExecInv, DroppedInv, ReadlineInv, TypeOK, HasData, Ended
  <2>1. exit # "none" /\ fds = {}
    OBVIOUS
  <2>2. ASSUME NEW p \in Pipes PROVE taken[p] = Len(written[p])
    <3>1. Len(written[p]) \in Nat /\ taken[p] <= Len(written[p])
      OBVIOUS
    <3> QED
      BY <2>1, <3>1
  <2> QED
    BY <2>1, <2>2 DEF OutputIsComplete
<1> QED
  BY <1>1, ExecInvariant, PTL

(* Worker and command hold each other up only over a line left open.       *)
THEOREM StuckOnlyOnOpenLine == Spec => []StuckOnOpenLine
<1>1. ExecInv => StuckOnOpenLine
  BY DEF ExecInv, StuckOnOpenLine, Stuck, ReadlineInv, TypeOK, HasData,
         LineOpen, Line
<1> QED
  BY <1>1, ExecInvariant, PTL
==============================================================================
