----------------------------- MODULE ExecWrapper -----------------------------
(***************************************************************************)
(* ExecWrapper.start_process (exec_wrapper.py): the worker runs a command  *)
(* and yields, line by line, what it writes to its two pipes.  One thread  *)
(* serves both: epoll says which pipe has something to read, and readline  *)
(* then stays with that pipe until a line is complete or the pipe ends.    *)
(*                                                                         *)
(* What is written is text or the newline that ends a line.  The command   *)
(* and the pipes of the kernel are modelled from how the code uses them.   *)
(***************************************************************************)
EXTENDS Naturals, Sequences

CONSTANTS
  Pipes,        \* stdout and stderr
  Capacity,     \* what a pipe holds before its writer has to wait
  OutputLimit   \* bound: what the command writes to each pipe

ASSUME ExecAssumption == Capacity \in Nat \ {0} /\ OutputLimit \in Nat

VARIABLES
  exit,     \* how the command ended
  writing,  \* what it is at writing
  into,     \* ... and to which pipe
  open,     \* the pipes it has not closed
  written,  \* what it has written to each pipe
  taken,    \* how much of that was read
  fds,      \* the pipes registered with epoll
  reader,   \* where start_process is
  reading,  \* the pipe it reads a line from
  ends      \* where the lines it yielded end

command == <<exit, writing, into, open, written>>
wrapper == <<taken, fds, reader, reading, ends>>
vars    == <<command, wrapper>>

Units == {"text", "newline"}

TypeOK ==
  /\ exit \in {"none", "zero", "positive", "signal"}
  /\ writing \in Units \cup {"nothing"}
  /\ into \in Pipes
  /\ open \subseteq Pipes
  /\ written \in [Pipes -> Seq(Units)]
  /\ taken \in [Pipes -> Nat]
  /\ \A p \in Pipes : taken[p] <= Len(written[p])
  /\ fds \subseteq Pipes
  /\ reader \in {"poll", "readline", "returned", "raised"}
  /\ reading \in Pipes
  /\ ends \in [Pipes -> SUBSET Nat]

Init ==
  /\ exit = "none"
  /\ writing = "nothing"
  /\ into \in Pipes
  /\ open = Pipes
  /\ written = [p \in Pipes |-> <<>>]
  /\ taken = [p \in Pipes |-> 0]
  /\ fds = Pipes
  /\ reader = "poll"
  /\ reading \in Pipes
  /\ ends = [p \in Pipes |-> {}]

Held(p)   == Len(written[p]) - taken[p]
HasData(p) == taken[p] < Len(written[p])
HungUp(p) == p \notin open

------------------------------------------------------------------------------
(* The command.                                                            *)

Begin(p, u) ==
  /\ exit = "none"
  /\ writing = "nothing"
  /\ p \in open
  /\ Len(written[p]) < OutputLimit
  /\ writing' = u
  /\ into' = p
  /\ UNCHANGED <<exit, open, written, wrapper>>

(* A write waits until the pipe has room.                                  *)
Write ==
  /\ writing # "nothing"
  /\ Held(into) < Capacity
  /\ written' = [written EXCEPT ![into] = Append(@, writing)]
  /\ writing' = "nothing"
  /\ UNCHANGED <<exit, into, open, wrapper>>

ClosePipe(p) ==
  /\ exit = "none"
  /\ writing = "nothing"
  /\ p \in open
  /\ open' = open \ {p}
  /\ UNCHANGED <<exit, writing, into, written, wrapper>>

Exit(code) ==
  /\ exit = "none"
  /\ writing = "nothing"
  /\ exit' = code
  /\ open' = {}
  /\ UNCHANGED <<writing, into, written, wrapper>>

(* A signal ends it wherever it is.                                        *)
Killed ==
  /\ exit = "none"
  /\ exit' = "signal"
  /\ writing' = "nothing"
  /\ open' = {}
  /\ UNCHANGED <<into, written, wrapper>>

------------------------------------------------------------------------------
(* start_process.                                                          *)

(* epoll reports one pipe at a time; one that has data is read, ...        *)
PollIn(p) ==
  /\ reader = "poll"
  /\ p \in fds
  /\ HasData(p)
  /\ reader' = "readline"
  /\ reading' = p
  /\ UNCHANGED <<command, taken, fds, ends>>

(* Mutant of PollHangUp: a pipe that hung up is dropped with what it holds. *)
PollHangUpFirst(p) ==
  /\ reader = "poll"
  /\ p \in fds
  /\ HungUp(p)
  /\ fds' = fds \ {p}
  /\ UNCHANGED <<command, taken, reader, reading, ends>>

(* Mutant of PollHangUp: it stays registered.                              *)
PollHangUpKeeping(p) ==
  /\ reader = "poll"
  /\ p \in fds
  /\ HungUp(p) /\ ~HasData(p)
  /\ UNCHANGED vars

(* ... one that hung up is dropped only when it has none left.             *)
PollHangUp(p) ==
  /\ reader = "poll"
  /\ p \in fds
  /\ HungUp(p) /\ ~HasData(p)
  /\ fds' = fds \ {p}
  /\ UNCHANGED <<command, taken, reader, reading, ends>>

(* Mutant of ReadUnit: readline stays for another line.                    *)
ReadUnitOn ==
  /\ reader = "readline"
  /\ HasData(reading)
  /\ taken' = [taken EXCEPT ![reading] = @ + 1]
  /\ IF written[reading][taken[reading] + 1] = "newline" /\ taken[reading] > 0
     THEN /\ ends' = [ends EXCEPT ![reading] = @ \cup {taken[reading] + 1}]
          /\ reader' = "poll"
     ELSE UNCHANGED <<ends, reader>>
  /\ UNCHANGED <<command, fds, reading>>

(* readline takes what there is, up to a newline: then the line is yielded. *)
ReadUnit ==
  /\ reader = "readline"
  /\ HasData(reading)
  /\ taken' = [taken EXCEPT ![reading] = @ + 1]
  /\ IF written[reading][taken[reading] + 1] = "newline"
     THEN /\ ends' = [ends EXCEPT ![reading] = @ \cup {taken[reading] + 1}]
          /\ reader' = "poll"
     ELSE UNCHANGED <<ends, reader>>
  /\ UNCHANGED <<command, fds, reading>>

(* Mutant of ReadEnd: readline returns what there is.                      *)
ReadSome ==
  /\ reader = "readline"
  /\ ~HasData(reading)
  /\ ends' = [ends EXCEPT ![reading] = @ \cup {taken[reading]}]
  /\ reader' = "poll"
  /\ UNCHANGED <<command, taken, fds, reading>>

(* The pipe ended: what came of the last line is yielded.                  *)
ReadEnd ==
  /\ reader = "readline"
  /\ ~HasData(reading) /\ HungUp(reading)
  /\ ends' = [ends EXCEPT ![reading] = @ \cup {taken[reading]}]
  /\ reader' = "poll"
  /\ UNCHANGED <<command, taken, fds, reading>>

(* process.wait(), when both pipes are gone; a positive code is raised.    *)
Wait ==
  /\ reader = "poll"
  /\ fds = {}
  /\ exit # "none"
  /\ reader' = IF exit = "positive" THEN "raised" ELSE "returned"
  /\ UNCHANGED <<command, taken, fds, reading, ends>>

StartProcess ==
  (\E p \in Pipes : PollIn(p) \/ PollHangUp(p)) \/ ReadUnit \/ ReadEnd \/ Wait

Exits == \E code \in {"zero", "positive"} : Exit(code)

Next ==
  \/ \E p \in Pipes : ClosePipe(p) \/ \E u \in Units : Begin(p, u)
  \/ Write \/ Exits \/ Killed
  \/ StartProcess

Spec == Init /\ [][Next]_vars

(* The worker goes on reading, and a command that nothing holds up ends.   *)
FairSpec == Spec /\ WF_vars(StartProcess) /\ WF_vars(Write) /\ WF_vars(Exits)

------------------------------------------------------------------------------
Ended == reader \in {"returned", "raised"}

Line(p, k)  == written[p][k] = "newline"
LineOpen(p) == Len(written[p]) > 0 /\ ~Line(p, Len(written[p]))

(* Each entry of the log is one line of one pipe, however the writes to    *)
(* the two are mixed: it ends with the line, or with the end of its pipe,  *)
(* and no line is joined to the next.                                      *)
LinesAreWhole ==
  \A p \in Pipes :
    /\ \A k \in ends[p] : k \in 1..taken[p]
    /\ \A k \in ends[p] : Line(p, k) \/ (HungUp(p) /\ k = Len(written[p]))
    /\ \A k \in 1..taken[p] : Line(p, k) => k \in ends[p]

(* start_process comes back when the command is over and all it wrote, up  *)
(* to an unfinished line before a hang-up or a kill, was yielded.          *)
OutputIsComplete ==
  Ended =>
    /\ exit # "none"
    /\ \A p \in Pipes :
         /\ taken[p] = Len(written[p])
         /\ Len(written[p]) > 0 => Len(written[p]) \in ends[p]

(* The worker waits for the end of a line on one pipe and the command for  *)
(* room in the other: neither will go on.                                  *)
Stuck ==
  /\ reader = "readline" /\ ~HasData(reading) /\ ~HungUp(reading)
  /\ exit = "none" /\ writing # "nothing" /\ Held(into) >= Capacity

(* They do not get stuck when the command ends its lines, whatever the     *)
(* pipes hold: it must have left one open on the pipe that is read.        *)
StuckOnOpenLine == Stuck => LineOpen(reading)

(* Otherwise every command is read to its end.                             *)
CommandEnds == <>(Ended \/ Stuck)
==============================================================================
