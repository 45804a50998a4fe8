------------------------------ MODULE LogStream ------------------------------
(***************************************************************************)
(* The log of one job on its way to the job pages: processes of the worker *)
(* log through WebsocketLoggerHandler (tasks.py, logger.py), which sends   *)
(* each message to the subscribers in Redis and pushes it on the history   *)
(* of the job (store.py); a page subscribes, is sent the history and then  *)
(* listens (wsgi_server.py, processing.js).                                *)
(*                                                                         *)
(* A message is <<p, n>>, the n-th that process p logged.  Redis and the   *)
(* RedisStore of ws4redis are modelled from how store.py uses them.        *)
(***************************************************************************)
EXTENDS Naturals, Sequences, FiniteSets, Functions

CONSTANTS
  Publishers,   \* worker processes that log for the job
  Pages,
  LogLimit,     \* bound: messages of each process
  SetupLimit    \* bound: calls of setup_logger in each process

ASSUME LogAssumption == LogLimit \in Nat /\ SetupLimit \in Nat

VARIABLES
  at,        \* where each process is in emitting a message
  handlers,  \* the WebsocketLoggerHandlers of its logger for the job
  setups,    \* how often it called setup_logger
  logged,    \* how many messages it logged
  left,      \* the handlers that have still to emit the last one
  history,   \* the list "<user>:<job>:hist"
  page,      \* where each page is
  key,       \* whether it found the key of the history
  socket,    \* what came over its subscription and was not received yet
  buffer,    \* what was received with an earlier entry and not read yet
  shown      \* what was sent to it

process == <<at, handlers, setups, logged, left>>
pages   == <<page, key, socket, buffer, shown>>
vars    == <<process, history, pages>>

Message == Publishers \X (1..LogLimit)

(* Redis confirms the subscription over the same connection.               *)
Confirmation == <<"psubscribe", 0>>
Entry        == Message \cup {Confirmation}

TypeOK ==
  /\ at \in [Publishers -> {"idle", "send", "push", "gone"}]
  /\ handlers \in [Publishers -> 0..1]
  /\ setups \in [Publishers -> 0..SetupLimit]
  /\ logged \in [Publishers -> 0..LogLimit]
  /\ left \in [Publishers -> 0..1]
  /\ history \in Seq(Message)
  /\ page \in [Pages -> {"away", "subscribed", "history", "listening", "closed"}]
  /\ key \in [Pages -> BOOLEAN]
  /\ socket \in [Pages -> Seq(Entry)]
  /\ buffer \in [Pages -> Seq(Entry)]
  /\ shown \in [Pages -> Seq(Message)]

Init ==
  /\ at = [p \in Publishers |-> "idle"]
  /\ handlers = [p \in Publishers |-> 0]
  /\ setups = [p \in Publishers |-> 0]
  /\ logged = [p \in Publishers |-> 0]
  /\ left = [p \in Publishers |-> 0]
  /\ history = <<>>
  /\ page = [q \in Pages |-> "away"]
  /\ key = [q \in Pages |-> FALSE]
  /\ socket = [q \in Pages |-> <<>>]
  /\ buffer = [q \in Pages |-> <<>>]
  /\ shown = [q \in Pages |-> <<>>]

Newest(p) == <<p, logged[p]>>

(* Mutant of Subscribed: a page subscribes when it was sent the history.   *)
SubscribedLate(q) == page[q] = "listening"

Subscribed(q) == page[q] \in {"subscribed", "history", "listening"}

------------------------------------------------------------------------------
(* Worker processes.                                                       *)

(* Mutant of SetupLogger: a handler is added whatever there is.            *)
SetupAnother(p) ==
  /\ at[p] = "idle"
  /\ setups[p] < SetupLimit
  /\ setups' = [setups EXCEPT ![p] = @ + 1]
  /\ handlers' = [handlers EXCEPT ![p] = @ + 1]
  /\ UNCHANGED <<at, logged, left, history, pages>>

(* run_script, commit and the failure handler each call setup_logger, in   *)
(* the same process or in another; a logger gets its handler once.         *)
SetupLogger(p) ==
  /\ at[p] = "idle"
  /\ setups[p] < SetupLimit
  /\ setups' = [setups EXCEPT ![p] = @ + 1]
  /\ handlers' = [handlers EXCEPT ![p] = IF @ = 0 THEN 1 ELSE @]
  /\ UNCHANGED <<at, logged, left, history, pages>>

(* logger.info and the like: every handler emits the record.               *)
Log(p) ==
  /\ at[p] = "idle"
  /\ handlers[p] > 0
  /\ logged[p] < LogLimit
  /\ at' = [at EXCEPT ![p] = "send"]
  /\ logged' = [logged EXCEPT ![p] = @ + 1]
  /\ left' = [left EXCEPT ![p] = handlers[p]]
  /\ UNCHANGED <<handlers, setups, history, pages>>

(* RedisStore.publish_message: to the subscribers ...                      *)
Send(p) ==
  /\ at[p] = "send"
  /\ at' = [at EXCEPT ![p] = "push"]
  /\ socket' = [q \in Pages |->
                  IF Subscribed(q) THEN Append(socket[q], Newest(p)) ELSE socket[q]]
  /\ UNCHANGED <<handlers, setups, logged, left, history, page, key, buffer,
                 shown>>

(* ... then it is pushed on the history.                                   *)
Push(p) ==
  /\ at[p] = "push"
  /\ at' = [at EXCEPT ![p] = IF left[p] > 1 THEN "send" ELSE "idle"]
  /\ left' = [left EXCEPT ![p] = @ - 1]
  /\ history' = Append(history, Newest(p))
  /\ UNCHANGED <<handlers, setups, logged, pages>>

(* The process is killed, or has nothing more to log.                      *)
Die(p) ==
  /\ at[p] # "gone"
  /\ at' = [at EXCEPT ![p] = "gone"]
  /\ UNCHANGED <<handlers, setups, logged, left, history, pages>>

------------------------------------------------------------------------------
(* Pages.                                                                  *)

Connect(q) ==
  /\ page[q] = "away"
  /\ page' = [page EXCEPT ![q] = "subscribed"]
  /\ socket' = [socket EXCEPT ![q] = <<Confirmation>>]
  /\ UNCHANGED <<process, history, key, buffer, shown>>

(* get_history_key                                                         *)
FindHistory(q) ==
  /\ page[q] = "subscribed"
  /\ page' = [page EXCEPT ![q] = "history"]
  /\ key' = [key EXCEPT ![q] = history # <<>>]
  /\ UNCHANGED <<process, history, socket, buffer, shown>>

(* lrange(key, 1, -1)                                                      *)
Persisted == IF history = <<>> THEN <<>> ELSE Tail(history)

SendHistory(q) ==
  /\ page[q] = "history"
  /\ page' = [page EXCEPT ![q] = "listening"]
  /\ shown' = [shown EXCEPT ![q] = IF key[q] THEN @ \o Persisted ELSE @]
  /\ UNCHANGED <<process, history, key, socket, buffer>>

(* What parse_response has at hand: what is left of the last reception, or *)
(* all that has come since.                                                *)
Received(q) == IF buffer[q] = <<>> THEN socket[q] ELSE buffer[q]

(* Mutant of Listen: each reception starts afresh, what is left is lost.   *)
ListenAfresh(q) ==
  /\ page[q] = "listening"
  /\ socket[q] # <<>>
  /\ socket' = [socket EXCEPT ![q] = <<>>]
  /\ buffer' = [buffer EXCEPT ![q] = Tail(socket[q])]
  /\ shown' = [shown EXCEPT ![q] =
                 IF Head(socket[q]) = Confirmation THEN @
                 ELSE Append(@, Head(socket[q]))]
  /\ UNCHANGED <<process, history, page, key>>

(* select looks at the socket; then one entry is parsed, and sent to the   *)
(* page if it is a message.  The other entries that were received with it  *)
(* wait in the client, where select does not see them.                     *)
Listen(q) ==
  /\ page[q] = "listening"
  /\ socket[q] # <<>>
  /\ socket' = [socket EXCEPT ![q] = IF buffer[q] = <<>> THEN <<>> ELSE @]
  /\ buffer' = [buffer EXCEPT ![q] = Tail(Received(q))]
  /\ shown' = [shown EXCEPT ![q] =
                 IF Head(Received(q)) = Confirmation THEN @
                 ELSE Append(@, Head(Received(q)))]
  /\ UNCHANGED <<process, history, page, key>>

Close(q) ==
  /\ Subscribed(q)
  /\ page' = [page EXCEPT ![q] = "closed"]
  /\ socket' = [socket EXCEPT ![q] = <<>>]
  /\ buffer' = [buffer EXCEPT ![q] = <<>>]
  /\ shown' = [shown EXCEPT ![q] = <<>>]
  /\ UNCHANGED <<process, history, key>>

Emit(p)  == Send(p) \/ Push(p)
Serve(q) == FindHistory(q) \/ SendHistory(q) \/ Listen(q)

Next ==
  \/ \E p \in Publishers : SetupLogger(p) \/ Log(p) \/ Emit(p) \/ Die(p)
  \/ \E q \in Pages : Connect(q) \/ Serve(q) \/ Close(q)

Spec == Init /\ [][Next]_vars

(* A message once logged is emitted, a page once open is served.           *)
FairSpec ==
  /\ Spec
  /\ \A p \in Publishers : WF_vars(Emit(p))
  /\ \A q \in Pages : WF_vars(Serve(q))

------------------------------------------------------------------------------
(* What a page has been sent, or will be when it has read all that came.   *)
Reaches(q) == Range(shown[q]) \cup Range(buffer[q]) \cup Range(socket[q])

(* Messages that were pushed before a page read the history, or sent after *)
(* it subscribed, but for the first of the history.                        *)
Due(p, q) ==
  {n \in 1..logged[p] : /\ n < logged[p] \/ at[p] \in {"idle", "push"}
                        /\ history = <<>> \/ Head(history) # <<p, n>>}

(* Of each process a listening page misses, next to the first message of   *)
(* the history, at most one: that which was on its way between subscribers *)
(* and history when the page came in.                                      *)
MissesOneAtMost ==
  \A q \in Pages, p \in Publishers :
    page[q] = "listening" =>
      \A n, m \in Due(p, q) :
        <<p, n>> \notin Reaches(q) /\ <<p, m>> \notin Reaches(q) => n = m

(* The history has no message twice and those of a process in order, also  *)
(* when setup_logger was called again by a handler in the same process.    *)
HistoryInOrder ==
  \A i, j \in 1..Len(history) :
    i < j /\ history[i][1] = history[j][1] => history[i][2] < history[j][2]

(* A page that stays open shows a message that was sent after it came.     *)
PageCatchesUp ==
  \A q \in Pages : \A m \in Message :
    m \in Range(socket[q]) ~> m \in Range(shown[q]) \/ page[q] = "closed"

(* At the latest it does so when another message has come after the one    *)
(* that was received and kept in the client.                               *)
NextMessageShows ==
  \A q \in Pages : \A m \in Message :
    (m \in Range(buffer[q]) /\ socket[q] # <<>>)
      ~> m \in Range(shown[q]) \/ page[q] = "closed"
=============================================================================
