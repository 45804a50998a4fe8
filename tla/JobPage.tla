------------------------------- MODULE JobPage -------------------------------
(***************************************************************************)
(* The job page in the browser (processing.js): it handles one after the   *)
(* other the log messages that LogStream sends it.  A message of progress  *)
(* is shown in a bar, any other as a line of the terminal.                 *)
(*                                                                         *)
(* Each of Reporters logs its progress under a bar of its own; the number  *)
(* of a message stands for the percentage.                                 *)
(***************************************************************************)
EXTENDS LogStream

CONSTANT Reporters   \* processes whose messages tell of progress

ASSUME ReportersAssumption == Reporters \subseteq Publishers

VARIABLES
  handled,   \* how many of the messages it was sent a page has handled
  rows,      \* the rows of its table of progress, without the template
  terminal   \* the lines of its terminal

browser == <<handled, rows, terminal>>

PageInit ==
  /\ Init
  /\ handled  = [q \in Pages |-> 0]
  /\ rows     = [q \in Pages |-> <<>>]
  /\ terminal = [q \in Pages |-> <<>>]

Blank(m) == [id |-> m[1], value |-> 0, visible |-> FALSE]
Bar(m)   == [id |-> m[1], value |-> m[2], visible |-> TRUE]

(* $('#' + bar_id): the first element of that id.                          *)
First(table, id, i) ==
  /\ i \in DOMAIN table
  /\ table[i].id = id
  /\ \A j \in DOMAIN table : table[j].id = id => i <= j

(* Mutant of updateProgressBar: it is the new row that is updated.         *)
updateNewRow(table, m) == Append(table, Bar(m))

(* The hidden template row is cloned for every message, then the first row *)
(* of that id is updated and shown.                                        *)
updateProgressBar(table, m) ==
  LET cloned == Append(table, Blank(m))
  IN [cloned EXCEPT ![CHOOSE i \in DOMAIN cloned : First(cloned, m[1], i)] = Bar(m)]

(* What colorString finds of progress in a message.                        *)
matches(m) == m[1] \in Reporters

(* What comes over the websocket goes to the bars or to the terminal.      *)
onmessage(q) ==
  /\ handled[q] < Len(shown[q])
  /\ handled' = [handled EXCEPT ![q] = @ + 1]
  /\ LET m == shown[q][handled[q] + 1] IN
       IF matches(m)
       THEN /\ rows' = [rows EXCEPT ![q] = updateProgressBar(@, m)]
            /\ UNCHANGED terminal
       ELSE /\ terminal' = [terminal EXCEPT ![q] = Append(@, m)]
            /\ UNCHANGED rows
  /\ UNCHANGED vars

(* onbeforeunload closes the socket; what the page shows goes with it.     *)
Unload(q) ==
  /\ Close(q)
  /\ handled'  = [handled EXCEPT ![q] = 0]
  /\ rows'     = [rows EXCEPT ![q] = <<>>]
  /\ terminal' = [terminal EXCEPT ![q] = <<>>]

PageNext ==
  \/ \E p \in Publishers : /\ SetupLogger(p) \/ Log(p) \/ Emit(p) \/ Die(p)
                           /\ UNCHANGED browser
  \/ \E q \in Pages : (Connect(q) \/ Serve(q)) /\ UNCHANGED browser
  \/ \E q \in Pages : onmessage(q) \/ Unload(q)

PageSpec == PageInit /\ [][PageNext]_<<vars, browser>>

(* As in LogStream; and a page handles the messages that have come.        *)
FairPageSpec ==
  /\ PageSpec
  /\ \A p \in Publishers : WF_vars(Emit(p))
  /\ \A q \in Pages : WF_vars(Serve(q)) /\ WF_browser(onmessage(q))

------------------------------------------------------------------------------
Progress(q, p) == {m[2] : m \in {s \in Range(shown[q]) : s[1] = p}}

(* The visible bars of a process.                                          *)
Bars(q, p) == {i \in DOMAIN rows[q] : rows[q][i].id = p /\ rows[q][i].visible}

CaughtUp(q) ==
  /\ page[q] = "listening" /\ socket[q] = <<>> /\ buffer[q] = <<>>
  /\ handled[q] = Len(shown[q])

(* A page that has handled all that came shows of each process one bar,    *)
(* with the latest progress that was sent to it; although messages it was  *)
(* sent as history come a second time over the subscription, when the bar  *)
(* goes back, and although a row was added for each of them.               *)
BarsAreCurrent ==
  \A q \in Pages, p \in Reporters :
    CaughtUp(q) =>
      /\ {rows[q][i].value : i \in Bars(q, p)} =
           {n \in Progress(q, p) : \A k \in Progress(q, p) : k <= n}
      /\ \A i, j \in Bars(q, p) : i = j
==============================================================================
