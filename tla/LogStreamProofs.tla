--------------------------- MODULE LogStreamProofs ---------------------------
(***************************************************************************)
(* Theorems about LogStream and JobPage for any processes, pages and       *)
(* bounds.                                                                 *)
(***************************************************************************)
EXTENDS JobPage, TLAPS

(* While a process emits a message, one handler has it in hand, and it was *)
(* counted.                                                                *)
EmitInv ==
  \A p \in Publishers :
    at[p] \in {"send", "push"} => left[p] = 1 /\ logged[p] \in 1..LogLimit

LEMMA EmitInvStep == TypeOK /\ EmitInv /\ [Next]_vars => EmitInv'
<1> SUFFICES ASSUME TypeOK, EmitInv, [Next]_vars PROVE EmitInv'
  OBVIOUS
<1> USE LogAssumption DEF TypeOK, EmitInv
<1>1. ASSUME NEW p \in Publishers, SetupLogger(p) \/ Die(p) PROVE EmitInv'
  BY <1>1 DEF SetupLogger, Die
<1>2. ASSUME NEW p \in Publishers, Log(p) PROVE EmitInv'
  BY <1>2 DEF Log
<1>3. ASSUME NEW p \in Publishers, Emit(p) PROVE EmitInv'
  BY <1>3 DEF Emit, Send, Push
<1>4. ASSUME NEW q \in Pages, Connect(q) \/ Serve(q) \/ Close(q) PROVE EmitInv'
  BY <1>4 DEF Connect, Serve, FindHistory, SendHistory, Listen, Close, process
<1>5. CASE UNCHANGED vars
  BY <1>5 DEF vars, process
<1> QED
  BY <1>1, <1>2, <1>3, <1>4, <1>5 DEF Next

LEMMA TypeStep == TypeOK /\ EmitInv /\ [Next]_vars => TypeOK'
<1> SUFFICES ASSUME TypeOK, EmitInv, [Next]_vars PROVE TypeOK'
  OBVIOUS
<1> USE LogAssumption DEF TypeOK
<1>1. ASSUME NEW p \in Publishers, SetupLogger(p) \/ Die(p) PROVE TypeOK'
  <2>1. CASE SetupLogger(p)
    <3>1. setups' \in [Publishers -> 0..SetupLimit]
      BY <2>1 DEF SetupLogger
    <3>2. handlers' \in [Publishers -> 0..1]
      BY <2>1 DEF SetupLogger
    <3> QED
      BY <2>1, <3>1, <3>2 DEF SetupLogger, pages
  <2>2. CASE Die(p)
    <3>1. at' \in [Publishers -> {"idle", "send", "push", "gone"}]
      BY <2>2 DEF Die
    <3> QED
      BY <2>2, <3>1 DEF Die, pages
  <2> QED
    BY <1>1, <2>1, <2>2
<1>2. ASSUME NEW p \in Publishers, Log(p) PROVE TypeOK'
  BY <1>2 DEF Log, pages
<1>3. ASSUME NEW p \in Publishers, Emit(p) PROVE TypeOK'
  <2>0. at[p] \in {"send", "push"} /\ left[p] = 1
    BY <1>3 DEF Emit, Send, Push, EmitInv
  <2>1. Newest(p) \in Message
    BY <2>0 DEF Newest, Message, EmitInv
  <2>2. CASE Send(p)
    <3>1. /\ socket' \in [Pages -> Seq(Entry)]
          /\ at' \in [Publishers -> {"idle", "send", "push", "gone"}]
      BY <2>1, <2>2 DEF Send, Entry
    <3> QED
      BY <2>2, <3>1 DEF Send
  <2>3. CASE Push(p)
    BY <2>0, <2>1, <2>3 DEF Push, pages
  <2> QED
    BY <1>3, <2>2, <2>3 DEF Emit
<1>4. ASSUME NEW q \in Pages, Connect(q) \/ Serve(q) \/ Close(q) PROVE TypeOK'
  <2>1. CASE Connect(q)
    <3>1. socket' \in [Pages -> Seq(Entry)]
      BY <2>1 DEF Connect, Entry
    <3> QED
      BY <2>1, <3>1 DEF Connect, process
  <2>4. CASE FindHistory(q)
    <3>1. key' \in [Pages -> BOOLEAN]
      BY <2>4 DEF FindHistory
    <3> QED
      BY <2>4, <3>1 DEF FindHistory, process
  <2>5. CASE Close(q)
    <3>1. /\ shown' \in [Pages -> Seq(Message)]
          /\ socket' \in [Pages -> Seq(Entry)]
          /\ buffer' \in [Pages -> Seq(Entry)]
      BY <2>5 DEF Close
    <3> QED
      BY <2>5, <3>1 DEF Close, process
  <2>2. CASE SendHistory(q)
    <3>1. Persisted \in Seq(Message)
      BY DEF Persisted
    <3>2. shown' \in [Pages -> Seq(Message)]
      BY <2>2, <3>1 DEF SendHistory
    <3> QED
      BY <2>2, <3>2 DEF SendHistory, process
  <2>3. CASE Listen(q)
    <3>1. Received(q) \in Seq(Entry) /\ Received(q) # <<>>
      BY <2>3 DEF Listen, Received
    <3>2. /\ Head(Received(q)) \in Entry
          /\ Tail(Received(q)) \in Seq(Entry)
      BY <3>1
    <3>3. shown' \in [Pages -> Seq(Message)]
      BY <2>3, <3>2 DEF Listen, Entry
    <3>4. /\ socket' \in [Pages -> Seq(Entry)]
          /\ buffer' \in [Pages -> Seq(Entry)]
      BY <2>3, <3>2 DEF Listen
    <3> QED
      BY <2>3, <3>3, <3>4 DEF Listen, process
  <2> QED
    BY <1>4, <2>1, <2>2, <2>3, <2>4, <2>5 DEF Serve
<1>5. CASE UNCHANGED vars
  BY <1>5 DEF vars, process, pages
<1> QED
  BY <1>1, <1>2, <1>3, <1>4, <1>5 DEF Next

LEMMA EmitCorrect == Spec => [](TypeOK /\ EmitInv)
<1>1. Init => TypeOK /\ EmitInv
  BY LogAssumption DEF Init, TypeOK, EmitInv, Message
<1>2. TypeOK /\ EmitInv /\ [Next]_vars => (TypeOK /\ EmitInv)'
  BY EmitInvStep, TypeStep
<1> QED
  BY <1>1, <1>2, PTL DEF Spec

(* The log keeps its shape; no process gets a second handler (setup_logger *)
(* in tasks.py).                                                           *)
THEOREM LogTypeCorrect == Spec => []TypeOK
BY EmitCorrect, PTL

------------------------------------------------------------------------------
(* What the history has of a process was logged, and is older than what it *)
(* is emitting.                                                            *)
PastInv ==
  \A i \in 1..Len(history) :
    LET p == history[i][1] IN
      /\ history[i][2] <= logged[p]
      /\ at[p] \in {"send", "push"} => history[i][2] < logged[p]

HistoryInv == HistoryInOrder /\ PastInv

LEMMA HistoryStep ==
  TypeOK /\ EmitInv /\ HistoryInv /\ [Next]_vars => HistoryInv'
<1> SUFFICES ASSUME TypeOK, EmitInv, HistoryInv, [Next]_vars
             PROVE  HistoryInv'
  OBVIOUS
<1> USE LogAssumption DEF TypeOK, HistoryInv
<1>0. \A i \in 1..Len(history) :
        history[i][1] \in Publishers /\ history[i][2] \in 1..LogLimit
  BY DEF Message
<1>1. ASSUME UNCHANGED history,
             \A p \in Publishers :
               \/ UNCHANGED <<at[p], logged[p]>>
               \/ at'[p] \notin {"send", "push"} /\ UNCHANGED logged[p]
               \/ at[p] = "send" /\ UNCHANGED logged[p]
               \/ logged'[p] = logged[p] + 1
      PROVE  HistoryInv'
  <2>1. HistoryInOrder'
    BY <1>1 DEF HistoryInOrder
  <2>2. ASSUME NEW i \in 1..Len(history)
        PROVE  /\ history[i][2] <= logged'[history[i][1]]
               /\ at'[history[i][1]] \in {"send", "push"} =>
                    history[i][2] < logged'[history[i][1]]
    <3> DEFINE p == history[i][1]
    <3>1. /\ p \in Publishers
          /\ history[i][2] \in Nat
          /\ logged[p] \in Nat
      BY <1>0
    <3>2. /\ history[i][2] <= logged[p]
          /\ at[p] \in {"send", "push"} => history[i][2] < logged[p]
      BY DEF PastInv
    <3>3. \/ at'[p] = at[p] /\ logged'[p] = logged[p]
          \/ at'[p] \notin {"send", "push"} /\ logged'[p] = logged[p]
          \/ at[p] = "send" /\ logged'[p] = logged[p]
          \/ logged'[p] = logged[p] + 1
      BY <1>1, <3>1
    <3> DEFINE n == history[i][2]
    <3>4. /\ n <= logged'[p]
          /\ at'[p] \in {"send", "push"} => n < logged'[p]
      <4> HIDE DEF p, n
      <4>1. n \in Nat /\ logged[p] \in Nat /\ n <= logged[p]
        BY <3>1, <3>2 DEF n
      <4>2. at[p] \in {"send", "push"} => n < logged[p]
        BY <3>2 DEF n
      <4> QED
        BY <3>3, <4>1, <4>2
    <3> QED
      BY <3>4
  <2>3. PastInv'
    BY <1>1, <2>2 DEF PastInv
  <2> QED
    BY <2>1, <2>3
<1>2. ASSUME NEW p \in Publishers, SetupLogger(p) \/ Log(p) \/ Send(p) \/ Die(p)
      PROVE  HistoryInv'
  BY <1>1, <1>2 DEF SetupLogger, Log, Send, Die
<1>3. ASSUME NEW p \in Publishers, Push(p) PROVE HistoryInv'
  <2>1. at[p] = "push" /\ at'[p] = "idle" /\ UNCHANGED logged
    BY <1>3 DEF Push, EmitInv
  <2>2. \A o \in Publishers \ {p} : at'[o] = at[o]
    BY <1>3 DEF Push
  <2>3. /\ Len(history') = Len(history) + 1
        /\ \A i \in 1..Len(history) : history'[i] = history[i]
        /\ history'[Len(history')] = <<p, logged[p]>>
    BY <1>3 DEF Push, Newest
  <2>4. \A i \in 1..Len(history) : history[i][1] = p => history[i][2] < logged[p]
    BY <2>1 DEF PastInv
  <2>b. Len(history) \in Nat /\ logged[p] \in Nat
    OBVIOUS
  <2>a. ASSUME NEW i \in 1..Len(history')
        PROVE  \/ i \in 1..Len(history)
               \/ history'[i] = <<p, logged[p]>> /\ i = Len(history')
    <3>1. CASE i = Len(history')
      BY <3>1, <2>3
    <3>2. CASE i # Len(history')
      BY <3>2, <2>3, <2>b
    <3> QED
      BY <3>1, <3>2
  <2>5. HistoryInOrder'
    <3> SUFFICES ASSUME NEW i \in 1..Len(history'), NEW j \in 1..Len(history'),
                        i < j, history'[i][1] = history'[j][1]
                 PROVE  history'[i][2] < history'[j][2]
      BY DEF HistoryInOrder
    <3>1. i \in 1..Len(history) /\ history'[i] = history[i]
      BY <2>3, <2>a, <2>b
    <3>2. CASE j \in 1..Len(history)
      BY <3>1, <3>2, <2>3 DEF HistoryInOrder
    <3>3. CASE history'[j] = <<p, logged[p]>>
      BY <3>1, <3>3, <2>4
    <3> QED
      BY <2>a, <3>2, <3>3
  <2>6. PastInv'
    <3> SUFFICES ASSUME NEW i \in 1..Len(history')
                 PROVE  /\ history'[i][2] <= logged'[history'[i][1]]
                        /\ at'[history'[i][1]] \in {"send", "push"} =>
                             history'[i][2] < logged'[history'[i][1]]
      BY DEF PastInv
    <3>1. CASE history'[i] = <<p, logged[p]>>
      BY <3>1, <2>1, <2>b
    <3>2. CASE i \in 1..Len(history)
      <4>1. history'[i] = history[i] /\ history[i][1] \in Publishers
        BY <3>2, <2>3, <1>0
      <4>2. CASE history[i][1] = p
        BY <3>2, <4>1, <4>2, <2>1 DEF PastInv
      <4>3. CASE history[i][1] # p
        BY <3>2, <4>1, <4>3, <2>1, <2>2 DEF PastInv
      <4> QED
        BY <4>2, <4>3
    <3> QED
      BY <2>a, <3>1, <3>2
  <2> QED
    BY <2>5, <2>6
<1>4. ASSUME NEW q \in Pages, Connect(q) \/ Serve(q) \/ Close(q)
      PROVE  HistoryInv'
  BY <1>1, <1>4 DEF Connect, Serve, FindHistory, SendHistory, Listen, Close,
     process
<1>5. CASE UNCHANGED vars
  BY <1>1, <1>5 DEF vars, process
<1> QED
  BY <1>2, <1>3, <1>4, <1>5 DEF Next, Emit

(* Whatever the processes that log for a job at the same time, and however *)
(* often each of them calls setup_logger, the history has no message twice *)
(* and those of each process in order.                                     *)
THEOREM HistoryOrdered == Spec => []HistoryInOrder
<1>1. Init => HistoryInv
  BY DEF Init, HistoryInv, HistoryInOrder, PastInv
<1>2. TypeOK /\ EmitInv /\ HistoryInv /\ [Next]_vars => HistoryInv'
  BY HistoryStep
<1> QED
  BY <1>1, <1>2, EmitCorrect, PTL DEF HistoryInv, Spec
------------------------------------------------------------------------------
(* MissesOneAtMost.                                                        *)

LEMMA RangeAppend ==
  ASSUME NEW S, NEW s \in Seq(S), NEW x \in S
  PROVE  Range(Append(s, x)) = Range(s) \cup {x}
<1>1. /\ DOMAIN Append(s, x) = 1..(Len(s) + 1) /\ DOMAIN s = 1..Len(s)
      /\ \A i \in 1..Len(s) : Append(s, x)[i] = s[i]
      /\ Append(s, x)[Len(s) + 1] = x
  OBVIOUS
<1>2. Len(s) \in Nat
  OBVIOUS
<1>3. ASSUME NEW i \in 1..(Len(s) + 1), i # Len(s) + 1 PROVE i \in 1..Len(s)
  BY <1>2, <1>3
<1>4. Range(Append(s, x)) \subseteq Range(s) \cup {x}
  BY <1>1, <1>3 DEF Range
<1>5. Range(s) \cup {x} \subseteq Range(Append(s, x))
  BY <1>1, <1>2 DEF Range
<1> QED
  BY <1>4, <1>5

LEMMA RangeConcat ==
  ASSUME NEW S, NEW s \in Seq(S), NEW t \in Seq(S)
  PROVE  Range(s) \cup Range(t) \subseteq Range(s \o t)
<1>1. /\ DOMAIN (s \o t) = 1..(Len(s) + Len(t))
      /\ \A i \in 1..Len(s) : (s \o t)[i] = s[i]
      /\ \A i \in 1..Len(t) : (s \o t)[Len(s) + i] = t[i]
      /\ DOMAIN s = 1..Len(s) /\ DOMAIN t = 1..Len(t)
      /\ Len(s) \in Nat /\ Len(t) \in Nat
  OBVIOUS
<1>2. \A i \in 1..Len(t) : Len(s) + i \in 1..(Len(s) + Len(t))
  BY <1>1
<1>3. \A i \in 1..Len(s) : i \in 1..(Len(s) + Len(t))
  BY <1>1
<1> QED
  BY <1>1, <1>2, <1>3 DEF Range

LEMMA RangeTail ==
  ASSUME NEW S, NEW s \in Seq(S), s # <<>>
  PROVE  Range(s) = {Head(s)} \cup Range(Tail(s))
<1>1. /\ Len(s) \in Nat /\ Len(s) >= 1 /\ Head(s) = s[1]
      /\ DOMAIN s = 1..Len(s) /\ DOMAIN Tail(s) = 1..(Len(s) - 1)
      /\ \A i \in 1..(Len(s) - 1) : Tail(s)[i] = s[i + 1]
  OBVIOUS
<1>2. \A i \in 1..Len(s) : i = 1 \/ (i - 1 \in 1..(Len(s) - 1) /\ (i - 1) + 1 = i)
  BY <1>1
<1>3. \A i \in 1..(Len(s) - 1) : i + 1 \in 1..Len(s)
  BY <1>1
<1>a. ASSUME NEW i \in 1..Len(s)
      PROVE  s[i] \in {Head(s)} \cup Range(Tail(s))
  <2>1. CASE i = 1
    BY <1>1, <2>1
  <2>2. CASE i # 1
    <3>1. i - 1 \in DOMAIN Tail(s) /\ Tail(s)[i - 1] = s[i]
      BY <1>1, <1>2, <2>2
    <3> QED
      BY <3>1 DEF Range
  <2> QED
    BY <2>1, <2>2
<1>4. Range(s) \subseteq {Head(s)} \cup Range(Tail(s))
  BY <1>1, <1>a DEF Range
<1>5. {Head(s)} \cup Range(Tail(s)) \subseteq Range(s)
  BY <1>1, <1>3 DEF Range
<1> QED
  BY <1>4, <1>5
(* A message was pushed before its process logged the next one.            *)
PushedInv ==
  \A p \in Publishers : \A n \in 1..logged[p] :
    n < logged[p] \/ at[p] = "idle" => <<p, n>> \in Range(history)

Sent(p, n) == n < logged[p] \/ at[p] \in {"idle", "push"}

(* The messages of a process up to the c-th were logged before the page    *)
(* subscribed: those before c are in the history, and so is what a page    *)
(* that listens was sent of it; those after c come over the subscription.  *)
Cut(p, q, c) ==
  /\ \A n \in 1..logged[p] : n > c /\ Sent(p, n) => <<p, n>> \in Reaches(q)
  /\ \A n \in 1..logged[p] : n < c => <<p, n>> \in Range(history)
  /\ page[q] = "history" /\ ~key[q] => c <= 1
  /\ page[q] = "listening" =>
       \A n \in 1..logged[p] : n < c =>
         <<p, n>> \in Range(shown[q]) \/ <<p, n>> = Head(history)

CutInv ==
  \A p \in Publishers, q \in Pages :
    Subscribed(q) => \E c \in 0..logged[p] : Cut(p, q, c)

LEMMA PushedStep == TypeOK /\ EmitInv /\ PushedInv /\ [Next]_vars => PushedInv'
<1> SUFFICES ASSUME TypeOK, EmitInv, PushedInv, [Next]_vars PROVE PushedInv'
  OBVIOUS
<1> USE LogAssumption DEF TypeOK, PushedInv
<1>1. ASSUME NEW p \in Publishers, SetupLogger(p) \/ Die(p) \/ Send(p)
      PROVE  PushedInv'
  BY <1>1 DEF SetupLogger, Die, Send
<1>2. ASSUME NEW p \in Publishers, Log(p) PROVE PushedInv'
  BY <1>2 DEF Log
<1>3. ASSUME NEW p \in Publishers, Push(p) PROVE PushedInv'
  <2>1. Newest(p) \in Message
    BY <1>3 DEF Push, Newest, Message, EmitInv
  <2>2. Range(history') = Range(history) \cup {<<p, logged[p]>>}
    <3>1. history \in Seq(Message)
      OBVIOUS
    <3>2. history' = Append(history, Newest(p))
      BY <1>3 DEF Push
    <3>3. Range(Append(history, Newest(p))) = Range(history) \cup {Newest(p)}
      <4> HIDE DEF TypeOK
      <4> QED
        BY ONLY <2>1, <3>1, RangeAppend
    <3> QED
      BY ONLY <3>2, <3>3 DEF Newest
  <2>3. logged' = logged /\ \A o \in Publishers \ {p} : at'[o] = at[o]
    BY <1>3 DEF Push
  <2>4. ASSUME NEW o \in Publishers, NEW n \in 1..logged[o],
               n < logged[o] \/ at'[o] = "idle"
        PROVE  <<o, n>> \in Range(history) \cup {<<p, logged[p]>>}
    <3>1. n \in Nat /\ logged[o] \in Nat /\ n <= logged[o]
      OBVIOUS
    <3>2. CASE n < logged[o] \/ o # p
      BY <2>3, <2>4, <3>2
    <3>3. CASE o = p /\ ~(n < logged[o])
      BY <3>1, <3>3
    <3> QED
      BY <3>2, <3>3
  <2> QED
    BY <2>2, <2>3, <2>4
<1>4. ASSUME NEW q \in Pages, Connect(q) \/ Serve(q) \/ Close(q)
      PROVE  PushedInv'
  BY <1>4 DEF Connect, Serve, FindHistory, SendHistory, Listen, Close, process
<1>5. CASE UNCHANGED vars
  BY <1>5 DEF vars, process
<1> QED
  BY <1>1, <1>2, <1>3, <1>4, <1>5 DEF Next, Emit

(* What reaches a page stays, and a history keeps its messages and head.   *)
LEMMA CutKept ==
  ASSUME TypeOK, NEW p \in Publishers, NEW q \in Pages, NEW c \in 0..logged[p],
         Cut(p, q, c),
         logged[p] <= logged'[p], logged'[p] \in Nat,
         Range(history) \subseteq Range(history)',
         history # <<>> => Head(history') = Head(history),
         Reaches(q) \subseteq Reaches(q)',
         \A n \in 1..logged'[p] : Sent(p, n)' =>
            n \in 1..logged[p] /\ (Sent(p, n) \/ <<p, n>> \in Reaches(q)'),
         UNCHANGED <<page[q], key[q]>>,
         page[q] = "listening" => Range(shown[q]) \subseteq Range(shown'[q])
  PROVE  c \in 0..logged'[p] /\ Cut(p, q, c)'
<1> USE DEF TypeOK
<1>0. logged[p] \in Nat
  BY LogAssumption
<1>1. c \in 0..logged'[p]
  BY <1>0
<1>2. \A n \in 1..logged'[p] : n > c /\ Sent(p, n)' => <<p, n>> \in Reaches(q)'
  BY DEF Cut
<1>3. \A n \in 1..logged'[p] : n < c => n \in 1..logged[p]
  BY <1>0
<1>4. \A n \in 1..logged'[p] : n < c => <<p, n>> \in Range(history)'
  BY <1>3 DEF Cut
<1>5. ASSUME page[q] = "listening", NEW n \in 1..logged'[p], n < c
      PROVE  <<p, n>> \in Range(shown[q])' \/ <<p, n>> = Head(history')
  <2>1. n \in 1..logged[p]
    BY <1>3, <1>5
  <2>2. <<p, n>> \in Range(history)
    BY <1>5, <2>1 DEF Cut
  <2>3. history # <<>>
    BY <2>2 DEF Range
  <2> QED
    BY <1>5, <2>1, <2>3 DEF Cut
<1> QED
  BY <1>1, <1>2, <1>4, <1>5 DEF Cut

LEMMA CutOfWorker ==
  ASSUME TypeOK, EmitInv, NEW o \in Publishers,
         SetupLogger(o) \/ Log(o) \/ Emit(o) \/ Die(o),
         NEW p \in Publishers, NEW q \in Pages, Subscribed(q),
         NEW c \in 0..logged[p], Cut(p, q, c)
  PROVE  c \in 0..logged'[p] /\ Cut(p, q, c)'
<1> USE LogAssumption DEF TypeOK
<1>0. /\ history \in Seq(Message) /\ socket[q] \in Seq(Entry)
      /\ logged[p] \in Nat /\ logged[o] \in Nat
  OBVIOUS
<1>1. logged[p] <= logged'[p] /\ logged'[p] \in Nat
  <2>1. logged' = logged \/ logged' = [logged EXCEPT ![o] = @ + 1]
    BY DEF SetupLogger, Log, Emit, Send, Push, Die
  <2>2. logged \in [Publishers -> 0..LogLimit]
    OBVIOUS
  <2> HIDE DEF TypeOK
  <2> QED
    BY ONLY <1>0, <2>1, <2>2
<1>2. UNCHANGED <<page[q], key[q], shown[q], buffer[q]>>
  BY DEF SetupLogger, Log, Emit, Send, Push, Die, pages
<1>3. CASE Send(o)
  <2>1. Newest(o) \in Message
    BY <1>3 DEF Send, EmitInv, Newest, Message
  <2>2. socket'[q] = Append(socket[q], Newest(o)) /\ UNCHANGED <<history, logged>>
    BY <1>3 DEF Send
  <2>3. Range(Append(socket[q], Newest(o))) = Range(socket[q]) \cup {Newest(o)}
    <3>1. Newest(o) \in Entry
      BY <2>1 DEF Entry
    <3> HIDE DEF TypeOK
    <3> QED
      BY ONLY <1>0, <3>1, RangeAppend
  <2>4. Reaches(q)' = Reaches(q) \cup {Newest(o)}
    BY <1>2, <2>2, <2>3 DEF Reaches
  <2>5. ASSUME NEW n \in 1..logged'[p], Sent(p, n)'
        PROVE  n \in 1..logged[p] /\ (Sent(p, n) \/ <<p, n>> \in Reaches(q)')
    <3>1. n \in 1..logged[p] /\ n \in Nat
      BY <2>2
    <3>2. CASE p = o /\ n = logged[p]
      BY <3>1, <3>2, <2>4 DEF Newest
    <3>3. CASE p # o
      BY <3>1, <3>3, <2>5, <1>3 DEF Send, Sent
    <3>4. CASE n # logged[p]
      BY <3>1, <3>4, <1>0 DEF Sent
    <3> QED
      BY <3>1, <3>2, <3>3, <3>4
  <2> QED
    BY <1>1, <1>2, <2>2, <2>4, <2>5, CutKept
<1>4. CASE SetupLogger(o) \/ Log(o) \/ Push(o) \/ Die(o)
  <2>1. Reaches(q)' = Reaches(q)
    BY <1>4 DEF SetupLogger, Log, Push, Die, pages, Reaches
  <2>2. /\ Range(history) \subseteq Range(history)'
        /\ history # <<>> => Head(history') = Head(history)
    <3>1. CASE Push(o)
      <4>1. Newest(o) \in Message /\ history' = Append(history, Newest(o))
        BY <3>1 DEF Push, EmitInv, Newest, Message
      <4>2. Range(Append(history, Newest(o))) = Range(history) \cup {Newest(o)}
        BY ONLY <1>0, <4>1, RangeAppend
      <4>3. history # <<>> => Head(Append(history, Newest(o))) = Head(history)
        BY <4>1
      <4> QED
        BY ONLY <4>1, <4>2, <4>3
    <3>2. CASE ~Push(o)
      BY <1>4, <3>2 DEF SetupLogger, Log, Die
    <3> QED
      BY <3>1, <3>2
  <2>3. ASSUME NEW n \in 1..logged'[p], Sent(p, n)'
        PROVE  n \in 1..logged[p] /\ Sent(p, n)
    <3>1. CASE SetupLogger(o)
      BY <2>3, <3>1 DEF SetupLogger, Sent
    <3>2. CASE Log(o)
      BY <2>3, <3>2, <1>0 DEF Log, Sent
    <3>3. CASE Push(o)
      BY <2>3, <3>3, <1>0 DEF Push, Sent
    <3>4. CASE Die(o)
      BY <2>3, <3>4 DEF Die, Sent
    <3> QED
      BY <1>4, <3>1, <3>2, <3>3, <3>4
  <2> QED
    BY <1>1, <1>2, <2>1, <2>2, <2>3, CutKept
<1> QED
  BY <1>3, <1>4 DEF Emit

LEMMA CutOfPage ==
  ASSUME TypeOK, PushedInv, NEW p \in Publishers, NEW q \in Pages,
         NEW r \in Pages, Connect(r) \/ Serve(r) \/ Close(r),
         Subscribed(q)',
         Subscribed(q) => \E c \in 0..logged[p] : Cut(p, q, c)
  PROVE  \E c \in 0..logged'[p] : Cut(p, q, c)'
<1> USE LogAssumption DEF TypeOK
<1>0. /\ history \in Seq(Message) /\ logged[p] \in Nat
      /\ shown[q] \in Seq(Message)
      /\ socket[q] \in Seq(Entry) /\ buffer[q] \in Seq(Entry)
  OBVIOUS
<1>1. UNCHANGED <<history, at, logged>>
  BY DEF Connect, Serve, FindHistory, SendHistory, Listen, Close, process
<1>a. \A n \in 1..logged[p] : Sent(p, n)' <=> Sent(p, n)
  BY <1>1 DEF Sent
<1>2. CASE r # q
  <2>1. UNCHANGED <<page[q], key[q], socket[q], buffer[q], shown[q]>>
    BY <1>2 DEF Connect, Serve, FindHistory, SendHistory, Listen, Close
  <2>2. Subscribed(q) /\ Reaches(q)' = Reaches(q)
    BY <2>1 DEF Subscribed, Reaches
  <2>3. PICK c \in 0..logged[p] : Cut(p, q, c)
    BY <2>2
  <2>4. ASSUME NEW n \in 1..logged'[p], Sent(p, n)'
        PROVE  n \in 1..logged[p] /\ Sent(p, n)
    BY <1>1, <2>4 DEF Sent
  <2>5. /\ Range(history) \subseteq Range(history)'
        /\ history # <<>> => Head(history') = Head(history)
        /\ Range(shown[q]) \subseteq Range(shown'[q])
        /\ logged[p] <= logged'[p] /\ logged'[p] \in Nat
        /\ Reaches(q) \subseteq Reaches(q)'
    BY <1>0, <1>1, <2>1, <2>2
  <2>6. c \in 0..logged'[p] /\ Cut(p, q, c)'
    BY <2>1, <2>3, <2>4, <2>5, CutKept
  <2> QED
    BY ONLY <2>6 DEF Cut, Sent, Reaches
<1>3. CASE r = q /\ Connect(q)
  <2>1. page'[q] = "subscribed"
    BY <1>3 DEF Connect
  <2>2. \A n \in 1..logged[p] : n < logged[p] => <<p, n>> \in Range(history)
    BY DEF PushedInv
  <2>3. PICK c \in Nat : c = logged[p]
    BY <1>0
  <2>4. c \in 0..logged'[p] /\ Cut(p, q, c)'
    BY <1>0, <1>1, <2>1, <2>2, <2>3 DEF Cut
  <2> QED
    BY ONLY <2>4 DEF Cut, Sent, Reaches
<1>4. CASE r = q /\ Serve(q)
  <2>1. Subscribed(q)
    BY <1>4 DEF Serve, FindHistory, SendHistory, Listen, Subscribed
  <2>2. PICK c \in 0..logged[p] : Cut(p, q, c)
    BY <2>1
  <2>3. CASE FindHistory(q)
    <3>1. /\ page'[q] = "history" /\ (key'[q] <=> history # <<>>)
          /\ UNCHANGED <<socket, buffer, shown>>
      BY <2>3 DEF FindHistory
    <3>2. Reaches(q)' = Reaches(q)
      BY <3>1 DEF Reaches
    <3>3. ~key'[q] => c <= 1
      <4> SUFFICES ASSUME history = <<>>, c > 1 PROVE FALSE
        BY <1>0, <3>1
      <4>1. 1 \in 1..logged[p] /\ 1 < c
        BY <1>0
      <4>2. <<p, 1>> \in Range(history)
        BY <2>2, <4>1 DEF Cut
      <4> QED
        BY <4>2 DEF Range
    <3> QED
      BY <1>1, <1>a, <2>2, <3>1, <3>2, <3>3 DEF Cut
  <2>4. CASE SendHistory(q)
    <3>1. /\ page[q] = "history" /\ page'[q] = "listening"
          /\ shown'[q] = IF key[q] THEN shown[q] \o Persisted ELSE shown[q]
          /\ UNCHANGED <<socket, buffer>>
      BY <2>4 DEF SendHistory
    <3>2. Persisted \in Seq(Message)
      BY DEF Persisted
    <3>3. /\ Range(shown[q]) \subseteq Range(shown'[q])
          /\ key[q] => Range(Persisted) \subseteq Range(shown'[q])
      <4>1. Range(shown[q]) \cup Range(Persisted)
              \subseteq Range(shown[q] \o Persisted)
        BY ONLY <1>0, <3>2, RangeConcat
      <4> QED
        BY <3>1, <4>1
    <3>4. Reaches(q) \subseteq Reaches(q)'
      BY <3>1, <3>3 DEF Reaches
    <3>5. ASSUME NEW n \in 1..logged[p], n < c
          PROVE  <<p, n>> \in Range(shown'[q]) \/ <<p, n>> = Head(history)
      <4>1. key[q]
        BY <1>0, <2>2, <3>1, <3>5 DEF Cut
      <4>2. <<p, n>> \in Range(history) /\ history # <<>>
        BY <2>2, <3>5 DEF Cut, Range
      <4>3. Range(history) = {Head(history)} \cup Range(Tail(history))
        BY ONLY <1>0, <4>2, RangeTail
      <4> QED
        BY <3>3, <4>1, <4>2, <4>3 DEF Persisted
    <3> QED
      BY <1>1, <1>a, <2>2, <3>1, <3>4, <3>5 DEF Cut
  <2>5. CASE Listen(q)
    <3>1. /\ page[q] = "listening" /\ page'[q] = "listening"
          /\ UNCHANGED key
          /\ socket[q] # <<>>
          /\ socket'[q] = IF buffer[q] = <<>> THEN <<>> ELSE socket[q]
          /\ buffer'[q] = Tail(Received(q))
          /\ shown'[q] = IF Head(Received(q)) = Confirmation THEN shown[q]
                         ELSE Append(shown[q], Head(Received(q)))
      BY <2>5 DEF Listen
    <3>2. /\ Received(q) \in Seq(Entry) /\ Received(q) # <<>>
          /\ Head(Received(q)) \in Entry
      BY <1>0, <3>1 DEF Received
    <3>3. Range(Received(q)) = {Head(Received(q))} \cup Range(buffer'[q])
      BY ONLY <3>1, <3>2, RangeTail
    <3>4. Range(buffer[q]) \cup Range(socket[q])
            \subseteq Range(Received(q)) \cup Range(socket'[q])
      BY <3>1 DEF Received, Range
    <3>5. /\ Range(shown[q]) \subseteq Range(shown'[q])
          /\ Head(Received(q)) # Confirmation =>
               Head(Received(q)) \in Range(shown'[q])
      <4>1. CASE Head(Received(q)) = Confirmation
        BY <3>1, <4>1
      <4>2. CASE Head(Received(q)) # Confirmation
        <5>1. Head(Received(q)) \in Message
          BY <3>2, <4>2 DEF Entry
        <5>2. Range(Append(shown[q], Head(Received(q))))
                = Range(shown[q]) \cup {Head(Received(q))}
          BY ONLY <1>0, <5>1, RangeAppend
        <5> QED
          BY <3>1, <4>2, <5>2
      <4> QED
        BY <4>1, <4>2
    <3>6. Reaches(q) \subseteq Reaches(q)' \cup {Confirmation}
      BY <3>3, <3>4, <3>5 DEF Reaches
    <3>7. \A n \in 1..logged[p] : <<p, n>> # Confirmation
      BY DEF Confirmation
    <3> QED
      BY <1>1, <1>a, <2>2, <3>1, <3>5, <3>6, <3>7 DEF Cut
  <2> QED
    BY <1>4, <2>3, <2>4, <2>5 DEF Serve
<1>5. CASE r = q /\ Close(q)
  BY <1>5 DEF Close, Subscribed
<1> QED
  BY <1>2, <1>3, <1>4, <1>5

(* Of each process a page that listens misses one message at most, next to *)
(* the first of the history, however the process logs while the page       *)
(* subscribes, reads the history and receives (store.py and                *)
(* wsgi_server.py).                                                        *)
THEOREM OneMissedAtMost == Spec => []MissesOneAtMost
<1>1. Init => PushedInv /\ CutInv
  BY DEF Init, PushedInv, CutInv, Subscribed
<1>2. TypeOK /\ EmitInv /\ PushedInv /\ CutInv /\ [Next]_vars
        => (PushedInv /\ CutInv)'
  <2> SUFFICES ASSUME TypeOK, EmitInv, PushedInv, CutInv, [Next]_vars,
                      NEW p \in Publishers, NEW q \in Pages, Subscribed(q)'
               PROVE  \E c \in 0..logged'[p] : Cut(p, q, c)'
    BY PushedStep DEF CutInv
  <2>1. Subscribed(q) => \E c \in 0..logged[p] : Cut(p, q, c)
    BY DEF CutInv
  <2>2. ASSUME NEW o \in Publishers,
               SetupLogger(o) \/ Log(o) \/ Emit(o) \/ Die(o)
        PROVE  \E c \in 0..logged'[p] : Cut(p, q, c)'
    <3>1. Subscribed(q)
      BY <2>2 DEF SetupLogger, Log, Emit, Send, Push, Die, pages, Subscribed
    <3> QED
      BY <2>1, <2>2, <3>1, CutOfWorker
  <2>3. ASSUME NEW r \in Pages, Connect(r) \/ Serve(r) \/ Close(r)
        PROVE  \E c \in 0..logged'[p] : Cut(p, q, c)'
    BY <2>1, <2>3, CutOfPage
  <2>4. CASE UNCHANGED vars
    BY <2>1, <2>4 DEF vars, process, pages, Subscribed, Cut, Sent, Reaches
  <2> QED
    BY <2>2, <2>3, <2>4 DEF Next
<1>3. TypeOK /\ CutInv => MissesOneAtMost
  <2> SUFFICES ASSUME TypeOK, CutInv, NEW q \in Pages, NEW p \in Publishers,
                      page[q] = "listening",
                      NEW n \in Due(p, q), NEW m \in Due(p, q),
                      <<p, n>> \notin Reaches(q), <<p, m>> \notin Reaches(q)
               PROVE  n = m
    BY DEF MissesOneAtMost
  <2>1. PICK c \in 0..logged[p] : Cut(p, q, c)
    BY DEF CutInv, Subscribed
  <2>2. logged[p] \in Nat
    BY LogAssumption DEF TypeOK
  <2>3. ASSUME NEW k \in Due(p, q), <<p, k>> \notin Reaches(q)
        PROVE  k = c
    <3>1. k \in 1..logged[p] /\ k \in Nat /\ Sent(p, k)
      BY DEF Due, Sent
    <3>2. ~(k > c)
      BY <2>1, <2>3, <3>1 DEF Cut
    <3>3. ASSUME k < c PROVE FALSE
      <4>1. <<p, k>> \in Range(history)
        BY <2>1, <3>1, <3>3 DEF Cut
      <4>2. Head(history) # <<p, k>>
        BY <4>1 DEF Due, Range
      <4>3. <<p, k>> \in Range(shown[q])
        BY <2>1, <3>1, <3>3, <4>2 DEF Cut
      <4> QED
        BY <2>3, <4>3 DEF Reaches
    <3> QED
      BY <2>2, <3>1, <3>2, <3>3
  <2> QED
    BY <2>3
<1> QED
  BY <1>1, <1>2, <1>3, EmitCorrect, PTL DEF Spec
------------------------------------------------------------------------------
(* BarsAreCurrent.  First LogStream: what a page is sent twice comes again *)
(* until the latest is the last.                                           *)

Ordered(s) ==
  \A i, j \in DOMAIN s : i < j /\ s[i][1] = s[j][1] => s[i][2] < s[j][2]

Queued(q) == Range(buffer[q]) \cup Range(socket[q])

(* What waits for a page is in the order of each process.                  *)
QueueOrdered(q) ==
  /\ Ordered(buffer[q])
  /\ Ordered(socket[q])
  /\ \A b \in Range(buffer[q]), s \in Range(socket[q]) :
       b[1] = s[1] => b[2] < s[2]

(* Messages of S were logged, and that which is still to be sent is none.  *)
PastOf(S) ==
  \A m \in S \cap Message :
    /\ m[2] <= logged[m[1]]
    /\ at[m[1]] = "send" => m[2] < logged[m[1]]

QueueInvOf(q) ==
  /\ page[q] # "listening" => buffer[q] = <<>> /\ shown[q] = <<>>
  /\ ~Subscribed(q) => socket[q] = <<>>
  /\ QueueOrdered(q)
  /\ PastOf(Queued(q) \cup Range(shown[q]))

QueueInv == \A q \in Pages : QueueInvOf(q)

LEMMA OrderedAppend ==
  ASSUME NEW s \in Seq(Entry), Ordered(s), NEW x \in Entry,
         \A y \in Range(s) : y[1] = x[1] => y[2] < x[2]
  PROVE  Ordered(Append(s, x))
<1>1. /\ DOMAIN Append(s, x) = 1..(Len(s) + 1) /\ DOMAIN s = 1..Len(s)
      /\ \A i \in 1..Len(s) : Append(s, x)[i] = s[i]
      /\ Append(s, x)[Len(s) + 1] = x
      /\ Len(s) \in Nat
  OBVIOUS
<1> SUFFICES ASSUME NEW i \in 1..(Len(s) + 1), NEW j \in 1..(Len(s) + 1), i < j,
                    Append(s, x)[i][1] = Append(s, x)[j][1]
             PROVE  Append(s, x)[i][2] < Append(s, x)[j][2]
  BY <1>1 DEF Ordered
<1>2. i \in 1..Len(s)
  BY <1>1
<1>3. CASE j \in 1..Len(s)
  BY <1>1, <1>2, <1>3 DEF Ordered
<1>4. CASE j = Len(s) + 1
  <2>1. s[i] \in Range(s)
    BY <1>1, <1>2 DEF Range
  <2> QED
    BY <1>1, <1>2, <1>4, <2>1
<1> QED
  BY <1>1, <1>3, <1>4

LEMMA OrderedTail ==
  ASSUME NEW s \in Seq(Entry), Ordered(s), s # <<>>
  PROVE  /\ Ordered(Tail(s))
         /\ \A y \in Range(Tail(s)) : y[1] = Head(s)[1] => Head(s)[2] < y[2]
<1>1. /\ Len(s) \in Nat /\ Len(s) >= 1 /\ Head(s) = s[1]
      /\ DOMAIN s = 1..Len(s) /\ DOMAIN Tail(s) = 1..(Len(s) - 1)
      /\ \A i \in 1..(Len(s) - 1) : Tail(s)[i] = s[i + 1]
  OBVIOUS
<1>2. \A i \in 1..(Len(s) - 1) : i + 1 \in 1..Len(s) /\ i \in Int
  BY <1>1
<1>3. Ordered(Tail(s))
  BY <1>1, <1>2 DEF Ordered
<1>4. ASSUME NEW y \in Range(Tail(s)), y[1] = Head(s)[1]
      PROVE  Head(s)[2] < y[2]
  <2>1. PICK i \in 1..(Len(s) - 1) : y = s[i + 1]
    BY <1>1 DEF Range
  <2>2. 1 \in 1..Len(s) /\ i + 1 \in 1..Len(s) /\ 1 < i + 1
    BY <1>1, <1>2
  <2> QED
    BY <1>1, <1>4, <2>1, <2>2 DEF Ordered
<1> QED
  BY <1>3, <1>4

LEMMA RangeEmpty == Range(<<>>) = {}
BY DEF Range

LEMMA ConfirmationNoMessage == Confirmation \notin Message
BY LogAssumption DEF Confirmation, Message

(* Listen takes the first of what waits.                                   *)
LEMMA ListenTakes ==
  ASSUME TypeOK, NEW q \in Pages, QueueOrdered(q), Listen(q)
  PROVE  \E h \in Entry :
           /\ Queued(q) = {h} \cup Queued(q)'
           /\ \A y \in Queued(q)' : y[1] = h[1] => h[2] < y[2]
           /\ QueueOrdered(q)'
           /\ shown'[q] = IF h = Confirmation THEN shown[q]
                          ELSE Append(shown[q], h)
<1> USE DEF TypeOK
<1>0. /\ shown[q] \in Seq(Message)
      /\ socket[q] \in Seq(Entry) /\ buffer[q] \in Seq(Entry)
  OBVIOUS
<1>1. /\ socket[q] # <<>>
      /\ socket'[q] = IF buffer[q] = <<>> THEN <<>> ELSE socket[q]
      /\ buffer'[q] = Tail(Received(q))
      /\ shown'[q] = IF Head(Received(q)) = Confirmation THEN shown[q]
                     ELSE Append(shown[q], Head(Received(q)))
  BY DEF Listen
<1>2. /\ Received(q) \in Seq(Entry) /\ Received(q) # <<>>
      /\ Head(Received(q)) \in Entry
  BY <1>0, <1>1 DEF Received
<1>3. Ordered(Received(q))
  BY DEF Received, QueueOrdered
<1>4. Range(Received(q)) = {Head(Received(q))} \cup Range(buffer'[q])
  BY ONLY <1>1, <1>2, RangeTail
<1>5. /\ Ordered(buffer'[q])
      /\ \A y \in Range(buffer'[q]) :
           y[1] = Head(Received(q))[1] => Head(Received(q))[2] < y[2]
  BY ONLY <1>1, <1>2, <1>3, OrderedTail
<1>6. CASE buffer[q] = <<>>
  <2>1. socket'[q] = <<>> /\ Received(q) = socket[q]
    BY <1>1, <1>6 DEF Received
  <2>2. Range(socket'[q]) = {} /\ Range(buffer[q]) = {}
    BY <1>6, <2>1, RangeEmpty
  <2>3. Ordered(socket'[q])
    BY <2>1 DEF Ordered
  <2> QED
    BY <1>1, <1>2, <1>4, <1>5, <2>1, <2>2, <2>3 DEF Queued, QueueOrdered
<1>7. CASE buffer[q] # <<>>
  <2>1. socket'[q] = socket[q] /\ Received(q) = buffer[q]
    BY <1>1, <1>7 DEF Received
  <2> QED
    BY <1>1, <1>2, <1>4, <1>5, <2>1 DEF Queued, QueueOrdered
<1> QED
  BY <1>6, <1>7

LEMMA EmptyConcat == ASSUME NEW S, NEW s \in Seq(S) PROVE <<>> \o s = s
OBVIOUS

(* What the history gives a page is in the history.                        *)
LEMMA PersistedInHistory ==
  ASSUME TypeOK
  PROVE  /\ Persisted \in Seq(Message)
         /\ Range(Persisted) \subseteq Range(history)
<1>1. history \in Seq(Message)
  BY DEF TypeOK
<1>2. CASE history = <<>>
  BY <1>2, RangeEmpty DEF Persisted
<1>3. CASE history # <<>>
  <2>1. Range(history) = {Head(history)} \cup Range(Tail(history))
    BY ONLY <1>1, <1>3, RangeTail
  <2> QED
    BY <1>1, <1>3, <2>1 DEF Persisted
<1> QED
  BY <1>2, <1>3

(* SendHistory shows a page nothing, or all that is persisted.             *)
LEMMA HistorySent ==
  ASSUME TypeOK, NEW q \in Pages, SendHistory(q), shown[q] = <<>>
  PROVE  shown'[q] = <<>> \/ shown'[q] = Persisted
<1>1. Persisted \in Seq(Message)
  BY PersistedInHistory
<1>2. <<>> \o Persisted = Persisted
  BY ONLY <1>1, EmptyConcat
<1>3. shown'[q] = IF key[q] THEN shown[q] \o Persisted ELSE shown[q]
  BY DEF SendHistory, TypeOK
<1> QED
  BY <1>2, <1>3

LEMMA PastOfStep ==
  ASSUME TypeOK, EmitInv, [Next]_vars, NEW S, PastOf(S)
  PROVE  \A m \in S \cap Message :
           /\ m[2] <= logged'[m[1]]
           /\ at'[m[1]] = "send" => m[2] < logged'[m[1]]
<1> USE LogAssumption DEF TypeOK
<1> SUFFICES ASSUME NEW m \in S \cap Message
             PROVE  /\ m[2] <= logged'[m[1]]
                    /\ at'[m[1]] = "send" => m[2] < logged'[m[1]]
  OBVIOUS
<1> DEFINE p == m[1]
           n == m[2]
<1>1. p \in Publishers /\ n \in Nat /\ logged[p] \in Nat
  BY DEF Message
<1>2. n <= logged[p] /\ (at[p] = "send" => n < logged[p])
  BY DEF PastOf
<1>3. \/ at'[p] = at[p] /\ logged'[p] = logged[p]
      \/ at'[p] # "send" /\ logged'[p] = logged[p]
      \/ logged'[p] = logged[p] + 1
  <2>1. ASSUME NEW o \in Publishers, SetupLogger(o) \/ Log(o) \/ Send(o) \/ Die(o)
        PROVE  <1>3!:
    BY <1>1, <2>1 DEF SetupLogger, Log, Send, Die
  <2>2. ASSUME NEW o \in Publishers, Push(o) PROVE <1>3!:
    BY <1>1, <2>2 DEF Push, EmitInv
  <2>3. ASSUME NEW q \in Pages, Connect(q) \/ Serve(q) \/ Close(q) PROVE <1>3!:
    BY <1>1, <2>3 DEF Connect, Serve, FindHistory, SendHistory, Listen, Close,
       process
  <2>4. CASE UNCHANGED vars
    BY <2>4 DEF vars, process
  <2> QED
    BY <2>1, <2>2, <2>3, <2>4 DEF Next, Emit
<1> HIDE DEF p, n
<1>4. n <= logged'[p] /\ (at'[p] = "send" => n < logged'[p])
  BY <1>1, <1>2, <1>3
<1> QED
  BY <1>4 DEF p, n

LEMMA QueueStep ==
  ASSUME TypeOK, EmitInv, HistoryInv, QueueInv, [Next]_vars
  PROVE  QueueInv'
<1> USE LogAssumption DEF TypeOK
<1> SUFFICES ASSUME NEW q \in Pages PROVE QueueInvOf(q)'
  BY DEF QueueInv
<1>0. QueueInvOf(q)
  BY DEF QueueInv
<1>a. PastOf(Queued(q) \cup Range(shown[q]))
  BY <1>0 DEF QueueInvOf
<1>b. PastOf(Range(history))
  <2> SUFFICES ASSUME NEW m \in Range(history)
               PROVE  /\ m[2] <= logged[m[1]]
                      /\ at[m[1]] = "send" => m[2] < logged[m[1]]
    BY DEF PastOf
  <2>1. PICK i \in 1..Len(history) : m = history[i]
    BY DEF Range
  <2> QED
    BY <2>1 DEF HistoryInv, PastInv
<1>1. ASSUME UNCHANGED <<page[q], socket[q], buffer[q], shown[q]>>
      PROVE  QueueInvOf(q)'
  <2>1. /\ Queued(q)' = Queued(q) /\ (Subscribed(q)' <=> Subscribed(q))
        /\ QueueOrdered(q)'
    BY <1>0, <1>1 DEF QueueInvOf, Queued, Subscribed, QueueOrdered
  <2>2. PastOf(Queued(q) \cup Range(shown[q]))'
    BY <1>1, <1>a, <2>1, PastOfStep DEF PastOf
  <2> QED
    BY <1>0, <1>1, <2>1, <2>2 DEF QueueInvOf
<1>2. ASSUME NEW o \in Publishers, SetupLogger(o) \/ Log(o) \/ Push(o) \/ Die(o)
      PROVE  QueueInvOf(q)'
  BY <1>1, <1>2 DEF SetupLogger, Log, Push, Die, pages
<1>3. ASSUME NEW o \in Publishers, Send(o), Subscribed(q)
      PROVE  QueueInvOf(q)'
  <2>1. /\ at[o] = "send" /\ logged[o] \in 1..LogLimit /\ UNCHANGED logged
        /\ at'[o] = "push"
        /\ UNCHANGED <<page, buffer, shown>>
        /\ socket'[q] = Append(socket[q], Newest(o))
        /\ Newest(o) \in Message /\ Newest(o) \in Entry
        /\ socket[q] \in Seq(Entry) /\ buffer[q] \in Seq(Entry)
    BY <1>3 DEF Send, EmitInv, Newest, Message, Entry
  <2>2. Range(socket'[q]) = Range(socket[q]) \cup {Newest(o)}
    BY ONLY <2>1, RangeAppend
  <2>3. \A y \in Queued(q) : y[1] = o => y[2] < logged[o]
    <3>1. Queued(q) \subseteq Entry
      BY <2>1 DEF Queued, Range
    <3>2. Confirmation[2] = 0
      BY DEF Confirmation
    <3>3. ASSUME NEW y \in Queued(q), y[1] = o PROVE y[2] < logged[o]
      <4>1. CASE y = Confirmation
        BY <2>1, <3>2, <4>1
      <4>2. CASE y \in Message
        BY <1>a, <2>1, <3>3, <4>2 DEF PastOf
      <4> QED
        BY <3>1, <4>1, <4>2 DEF Entry
    <3> QED
      BY <3>3
  <2>4. Ordered(socket'[q])
    <3>1. Ordered(socket[q])
      BY <1>0 DEF QueueInvOf, QueueOrdered
    <3>2. \A y \in Range(socket[q]) : y[1] = Newest(o)[1] => y[2] < Newest(o)[2]
      BY <2>3 DEF Queued, Newest
    <3> QED
      BY ONLY <2>1, <3>1, <3>2, OrderedAppend
  <2>5. QueueOrdered(q)'
    <3>1. Ordered(buffer'[q])
      BY <1>0, <2>1 DEF QueueInvOf, QueueOrdered
    <3>2. ASSUME NEW b \in Range(buffer[q]), NEW x \in Range(socket'[q]),
                 b[1] = x[1]
          PROVE  b[2] < x[2]
      <4>1. CASE x = Newest(o)
        BY <2>3, <3>2, <4>1 DEF Queued, Newest
      <4>2. CASE x \in Range(socket[q])
        BY <1>0, <3>2, <4>2 DEF QueueInvOf, QueueOrdered
      <4> QED
        BY <2>2, <4>1, <4>2
    <3> QED
      BY <2>1, <2>4, <3>1, <3>2 DEF QueueOrdered
  <2>6. Queued(q)' = Queued(q) \cup {Newest(o)}
    BY <2>1, <2>2 DEF Queued
  <2>7. PastOf(Queued(q) \cup Range(shown[q]))'
    BY <1>a, <2>1, <2>6, PastOfStep DEF PastOf, Newest
  <2> QED
    BY <1>0, <1>3, <2>1, <2>5, <2>7 DEF QueueInvOf, Subscribed
<1>4. ASSUME NEW o \in Publishers, Send(o), ~Subscribed(q)
      PROVE  QueueInvOf(q)'
  BY <1>1, <1>4 DEF Send
<1>5. ASSUME NEW r \in Pages, r # q, Connect(r) \/ Serve(r) \/ Close(r)
      PROVE  QueueInvOf(q)'
  BY <1>1, <1>5 DEF Connect, Serve, FindHistory, SendHistory, Listen, Close
<1>6. CASE Connect(q)
  <2>1. /\ page'[q] = "subscribed" /\ socket'[q] = <<Confirmation>>
        /\ buffer'[q] = <<>> /\ shown'[q] = <<>>
    BY <1>0, <1>6 DEF Connect, QueueInvOf
  <2>2. QueueOrdered(q)' /\ Queued(q)' = {Confirmation} /\ Range(shown'[q]) = {}
    BY <2>1 DEF QueueOrdered, Ordered, Queued, Range
  <2> QED
    BY <2>1, <2>2, ConfirmationNoMessage DEF QueueInvOf, Subscribed, PastOf
<1>7. CASE FindHistory(q)
  <2>1. /\ page[q] = "subscribed" /\ page'[q] = "history"
        /\ UNCHANGED <<socket, buffer, shown>>
    BY <1>7 DEF FindHistory
  <2>2. PastOf(Queued(q) \cup Range(shown[q]))'
    BY <1>a, <2>1, PastOfStep DEF PastOf, Queued
  <2> QED
    BY <1>0, <2>1, <2>2 DEF QueueInvOf, QueueOrdered, Subscribed
<1>8. CASE SendHistory(q)
  <2>1. /\ page[q] = "history" /\ page'[q] = "listening"
        /\ UNCHANGED <<socket, buffer>>
    BY <1>8 DEF SendHistory
  <2>2. Range(shown'[q]) \subseteq Range(history)
    BY <1>0, <1>8, <2>1, HistorySent, PersistedInHistory, RangeEmpty DEF QueueInvOf
  <2>3. PastOf(Queued(q) \cup Range(shown[q]))'
    BY <1>a, <1>b, <2>1, <2>2, PastOfStep DEF PastOf, Queued
  <2> QED
    BY <1>0, <2>1, <2>3 DEF QueueInvOf, QueueOrdered, Subscribed
<1>9. CASE Listen(q)
  <2>1. page[q] = "listening" /\ page'[q] = "listening"
    BY <1>9 DEF Listen
  <2>2. PICK h \in Entry :
           /\ Queued(q) = {h} \cup Queued(q)'
           /\ QueueOrdered(q)'
           /\ shown'[q] = IF h = Confirmation THEN shown[q]
                          ELSE Append(shown[q], h)
    BY <1>0, <1>9, ListenTakes DEF QueueInvOf
  <2>3. Range(shown'[q]) \subseteq Range(shown[q]) \cup {h}
    <3>1. CASE h # Confirmation
      <4>1. h \in Message /\ shown[q] \in Seq(Message)
        BY <3>1 DEF Entry
      <4> QED
        BY ONLY <2>2, <3>1, <4>1, RangeAppend
    <3> QED
      BY <2>2, <3>1
  <2>4. PastOf(Queued(q) \cup Range(shown[q]))'
    BY <1>a, <2>2, <2>3, PastOfStep DEF PastOf
  <2> QED
    BY <2>1, <2>2, <2>4 DEF QueueInvOf, Subscribed
<1>10. CASE Close(q)
  <2>1. socket'[q] = <<>> /\ buffer'[q] = <<>> /\ shown'[q] = <<>>
    BY <1>10 DEF Close
  <2> QED
    BY <2>1, RangeEmpty DEF QueueInvOf, QueueOrdered, Ordered, Queued, PastOf
<1>11. CASE UNCHANGED vars
  BY <1>1, <1>11 DEF vars, pages
<1> QED
  BY <1>2, <1>3, <1>4, <1>5, <1>6, <1>7, <1>8, <1>9, <1>10, <1>11
     DEF Next, Emit, Serve

(* What a page was sent, or can find in the history.                       *)
Known(q) == IF page[q] = "listening" THEN Range(shown[q]) ELSE Range(history)

(* If a page that has not read the history has a message of a process      *)
(* waiting, it has also that which the process is about to push.           *)
SentInvOf(q) ==
  Subscribed(q) /\ page[q] # "listening" =>
    \A h \in Queued(q) \cap Message :
      at[h[1]] = "push" => Newest(h[1]) \in Queued(q)

(* What a page knows and is later than a message that waits, waits too.    *)
AgainInvOf(q) ==
  Subscribed(q) =>
    \A m \in Known(q), h \in Queued(q) \cap Message :
      m[1] = h[1] /\ m[2] > h[2] => m \in Queued(q)

(* When an earlier message is shown after a later one, the later one comes *)
(* again.                                                                  *)
BackInvOf(q) ==
  \A j, k \in DOMAIN shown[q] :
    j < k /\ shown[q][j][1] = shown[q][k][1] /\ shown[q][j][2] > shown[q][k][2]
      => \/ shown[q][j] \in Queued(q)
         \/ \E l \in DOMAIN shown[q] : l > k /\ shown[q][l] = shown[q][j]

OrderInv == \A q \in Pages : SentInvOf(q) /\ AgainInvOf(q) /\ BackInvOf(q)

LEMMA WorkerQueues ==
  ASSUME TypeOK, EmitInv, NEW o \in Publishers, NEW q \in Pages,
         SetupLogger(o) \/ Log(o) \/ Emit(o) \/ Die(o)
  PROVE  /\ UNCHANGED <<page[q], shown[q]>> /\ (Subscribed(q)' <=> Subscribed(q))
         /\ \/ Queued(q)' = Queued(q) /\ (Send(o) => ~Subscribed(q))
            \/ Send(o) /\ Queued(q)' = Queued(q) \cup {Newest(o)}
<1> USE LogAssumption DEF TypeOK
<1>1. UNCHANGED <<page, shown, buffer>>
  BY DEF SetupLogger, Log, Emit, Send, Push, Die, pages
<1>2. CASE Send(o) /\ Subscribed(q)
  <2>1. /\ socket'[q] = Append(socket[q], Newest(o))
        /\ Newest(o) \in Entry /\ socket[q] \in Seq(Entry)
    BY <1>2 DEF Send, EmitInv, Newest, Message, Entry
  <2>2. Range(socket'[q]) = Range(socket[q]) \cup {Newest(o)}
    BY ONLY <2>1, RangeAppend
  <2> QED
    BY <1>1, <1>2, <2>2 DEF Queued, Subscribed
<1>3. CASE ~(Send(o) /\ Subscribed(q))
  <2>1. socket'[q] = socket[q]
    BY <1>3 DEF SetupLogger, Log, Emit, Send, Push, Die, pages
  <2> QED
    BY <1>1, <1>3, <2>1 DEF Queued, Subscribed
<1> QED
  BY <1>2, <1>3

LEMMA OrderOfWorker ==
  ASSUME TypeOK, EmitInv, HistoryInv, QueueInv, OrderInv,
         NEW o \in Publishers, SetupLogger(o) \/ Log(o) \/ Emit(o) \/ Die(o),
         NEW q \in Pages
  PROVE  SentInvOf(q)' /\ AgainInvOf(q)' /\ BackInvOf(q)'
<1> USE LogAssumption DEF TypeOK
<1>1. SentInvOf(q) /\ AgainInvOf(q) /\ BackInvOf(q)
  BY DEF OrderInv
<1>2. /\ UNCHANGED <<page[q], shown[q]>> /\ (Subscribed(q)' <=> Subscribed(q))
      /\ Queued(q) \subseteq Queued(q)'
      /\ Queued(q)' # Queued(q) =>
           Send(o) /\ Queued(q)' = Queued(q) \cup {Newest(o)}
      /\ Send(o) /\ Subscribed(q) => Newest(o) \in Queued(q)'
  BY WorkerQueues
<1>3. BackInvOf(q)'
  BY <1>1, <1>2 DEF BackInvOf
<1>4. SentInvOf(q)'
  <2> SUFFICES ASSUME Subscribed(q)', page'[q] # "listening",
                      NEW h \in Queued(q)' \cap Message, at'[h[1]] = "push"
               PROVE  Newest(h[1])' \in Queued(q)'
    BY DEF SentInvOf
  <2>1. h[1] \in Publishers
    BY DEF Message
  <2>2. CASE Send(o) /\ h[1] = o
    <3>1. Newest(h[1])' = Newest(o)
      BY <2>2 DEF Send, Newest
    <3> QED
      BY <1>2, <2>2, <3>1
  <2>3. CASE ~(Send(o) /\ h[1] = o)
    <3>1. at[h[1]] = "push" /\ logged'[h[1]] = logged[h[1]]
      BY <2>1, <2>3 DEF SetupLogger, Log, Emit, Send, Push, Die
    <3>2. h \in Queued(q)
      BY <1>2, <2>3 DEF Newest
    <3>3. Newest(h[1]) \in Queued(q)
      BY <1>1, <1>2, <3>1, <3>2 DEF SentInvOf
    <3> QED
      BY <1>2, <3>1, <3>3 DEF Newest
  <2> QED
    BY <2>2, <2>3
<1>5. AgainInvOf(q)'
  <2> SUFFICES ASSUME Subscribed(q)', NEW m \in Known(q)',
                      NEW h \in Queued(q)' \cap Message,
                      m[1] = h[1], m[2] > h[2]
               PROVE  m \in Queued(q)'
    BY DEF AgainInvOf
  <2>1. \/ m \in Known(q)
        \/ Push(o) /\ m = Newest(o) /\ page[q] # "listening"
    <3>1. CASE Push(o)
      <4>1. history \in Seq(Message) /\ history' = Append(history, Newest(o))
            /\ Newest(o) \in Message
        BY <3>1 DEF Push, EmitInv, Newest, Message
      <4>2. Range(history') = Range(history) \cup {Newest(o)}
        BY ONLY <4>1, RangeAppend
      <4> QED
        BY <1>2, <3>1, <4>2 DEF Known
    <3>2. CASE ~Push(o)
      <4>1. history' = history
        BY <3>2 DEF SetupLogger, Log, Emit, Send, Die
      <4> QED
        BY <1>2, <4>1 DEF Known
    <3> QED
      BY <3>1, <3>2
  <2>2. CASE h \in Queued(q)
    <3>1. CASE m \in Known(q)
      BY <1>1, <1>2, <2>2, <3>1 DEF AgainInvOf
    <3>2. CASE Push(o) /\ m = Newest(o) /\ page[q] # "listening"
      <4>1. at[o] = "push" /\ h[1] = o
        BY <3>2 DEF Push, Newest
      <4> QED
        BY <1>1, <1>2, <2>2, <3>2, <4>1 DEF SentInvOf
    <3> QED
      BY <2>1, <3>1, <3>2
  <2>3. CASE h \notin Queued(q)
    <3>1. Send(o) /\ h = Newest(o)
      BY <1>2, <2>3
    <3>2. at[o] = "send" /\ logged[o] \in Nat /\ ~Push(o)
      BY <3>1 DEF Send, Push
    <3>3. m \in Known(q) /\ m \in Message
      BY <2>1, <3>2 DEF Known, Range
    <3>4. m[2] <= logged[m[1]]
      <4>1. CASE page[q] = "listening"
        BY <3>3, <4>1 DEF Known, QueueInv, QueueInvOf, PastOf
      <4>2. CASE page[q] # "listening"
        <5>1. PICK i \in 1..Len(history) : m = history[i]
          BY <3>3, <4>2 DEF Known, Range
        <5> QED
          BY <5>1 DEF HistoryInv, PastInv
      <4> QED
        BY <4>1, <4>2
    <3>5. m[2] \in Nat /\ m[1] = o /\ h[2] = logged[o]
      BY <3>1, <3>3 DEF Newest, Message
    <3> QED
      BY <3>2, <3>4, <3>5
  <2> QED
    BY <2>2, <2>3
<1> QED
  BY <1>3, <1>4, <1>5

LEMMA PersistedOrdered ==
  ASSUME TypeOK, HistoryInOrder
  PROVE  Ordered(Persisted)
<1>1. history \in Seq(Message) /\ Message \subseteq Entry
  BY DEF TypeOK, Entry
<1>2. history \in Seq(Entry)
  BY <1>1
<1>3. Ordered(history)
  BY <1>1 DEF HistoryInOrder, Ordered
<1>4. CASE history # <<>>
  BY <1>2, <1>3, <1>4, OrderedTail DEF Persisted
<1>5. CASE history = <<>>
  BY <1>3, <1>5 DEF Persisted
<1> QED
  BY <1>4, <1>5

LEMMA BackOfListen ==
  ASSUME TypeOK, NEW q \in Pages, AgainInvOf(q), BackInvOf(q),
         Subscribed(q), page[q] = "listening",
         NEW h \in Entry, Queued(q) = {h} \cup Queued(q)',
         shown'[q] = IF h = Confirmation THEN shown[q] ELSE Append(shown[q], h)
  PROVE  BackInvOf(q)'
<1> USE LogAssumption DEF TypeOK
<1>0. shown[q] \in Seq(Message) /\ Confirmation \notin Message
  BY ConfirmationNoMessage
<1>1. CASE h = Confirmation
  <2>1. \A j \in DOMAIN shown[q] : shown[q][j] # h
    BY <1>0, <1>1
  <2> QED
    BY <1>1, <2>1 DEF BackInvOf
<1>2. CASE h # Confirmation
  <2>1. h \in Message
    BY <1>2 DEF Entry
  <2>2. /\ DOMAIN shown[q] = 1..Len(shown[q]) /\ Len(shown[q]) \in Nat
        /\ DOMAIN shown'[q] = 1..(Len(shown[q]) + 1)
        /\ \A i \in 1..Len(shown[q]) : shown'[q][i] = shown[q][i]
        /\ shown'[q][Len(shown[q]) + 1] = h
    BY <1>0, <1>2, <2>1
  <2> SUFFICES ASSUME NEW j \in DOMAIN shown'[q], NEW k \in DOMAIN shown'[q],
                      j < k, shown'[q][j][1] = shown'[q][k][1],
                      shown'[q][j][2] > shown'[q][k][2]
               PROVE  \/ shown'[q][j] \in Queued(q)'
                      \/ \E l \in DOMAIN shown'[q] :
                           l > k /\ shown'[q][l] = shown'[q][j]
    BY DEF BackInvOf
  <2>3. j \in 1..Len(shown[q]) /\ shown'[q][j] = shown[q][j]
    BY <2>2
  <2>4. CASE k \in 1..Len(shown[q])
    <3>1. \/ shown[q][j] \in Queued(q)
          \/ \E l \in DOMAIN shown[q] : l > k /\ shown[q][l] = shown[q][j]
      BY <2>2, <2>3, <2>4 DEF BackInvOf
    <3>2. CASE shown[q][j] \in Queued(q)'
      BY <2>3, <3>2
    <3>3. CASE shown[q][j] = h
      <4>1. /\ Len(shown[q]) + 1 \in DOMAIN shown'[q] /\ Len(shown[q]) + 1 > k
            /\ shown'[q][Len(shown[q]) + 1] = shown'[q][j]
        BY <2>2, <2>3, <2>4, <3>3
      <4> QED
        BY <4>1
    <3>4. CASE \E l \in DOMAIN shown[q] : l > k /\ shown[q][l] = shown[q][j]
      BY <2>2, <2>3, <3>4
    <3> QED
      BY <3>1, <3>2, <3>3, <3>4
  <2>5. CASE k = Len(shown[q]) + 1
    <3>1. shown[q][j] \in Known(q) /\ shown[q][j] # h
      BY <2>1, <2>2, <2>3, <2>5 DEF Known, Range, Message
    <3>2. shown[q][j] \in Queued(q)
      BY <2>1, <2>2, <2>3, <2>5, <3>1 DEF AgainInvOf
    <3> QED
      BY <2>3, <3>1, <3>2
  <2> QED
    BY <2>2, <2>4, <2>5
<1> QED
  BY <1>1, <1>2

LEMMA AgainOfListen ==
  ASSUME TypeOK, NEW q \in Pages, AgainInvOf(q),
         Subscribed(q), page[q] = "listening", page'[q] = "listening",
         NEW h \in Entry, Queued(q) = {h} \cup Queued(q)',
         \A y \in Queued(q)' : y[1] = h[1] => h[2] < y[2],
         shown'[q] = IF h = Confirmation THEN shown[q] ELSE Append(shown[q], h)
  PROVE  AgainInvOf(q)'
<1> USE LogAssumption DEF TypeOK
<1>0. shown[q] \in Seq(Message)
  OBVIOUS
<1>1. Known(q)' \subseteq Known(q) \cup {h}
  <2>1. CASE h # Confirmation
    <3>1. h \in Message
      BY <2>1 DEF Entry
    <3>2. Range(Append(shown[q], h)) = Range(shown[q]) \cup {h}
      BY ONLY <1>0, <3>1, RangeAppend
    <3> QED
      BY <2>1, <3>2 DEF Known
  <2>2. CASE h = Confirmation
    BY <2>2 DEF Known
  <2> QED
    BY <2>1, <2>2
<1> SUFFICES ASSUME NEW m \in Known(q)', NEW g \in Queued(q)' \cap Message,
                    m[1] = g[1], m[2] > g[2]
             PROVE  m \in Queued(q)'
  BY DEF AgainInvOf
<1>2. m # h
  <2> SUFFICES ASSUME m = h PROVE FALSE
    OBVIOUS
  <2>1. h[2] < g[2] /\ h[2] > g[2]
    OBVIOUS
  <2>2. h[2] \in Nat /\ g[2] \in Nat
    BY DEF Entry, Message, Confirmation
  <2> QED
    BY <2>1, <2>2
<1>3. m \in Queued(q)
  BY <1>1, <1>2 DEF AgainInvOf
<1> QED
  BY <1>2, <1>3

LEMMA OrderOfPage ==
  ASSUME TypeOK, HistoryInv, QueueInv, OrderInv,
         NEW r \in Pages, Connect(r) \/ Serve(r) \/ Close(r), NEW q \in Pages
  PROVE  SentInvOf(q)' /\ AgainInvOf(q)' /\ BackInvOf(q)'
<1> USE LogAssumption DEF TypeOK
<1>1. SentInvOf(q) /\ AgainInvOf(q) /\ BackInvOf(q) /\ QueueInvOf(q)
  BY DEF OrderInv, QueueInv
<1>2. UNCHANGED <<at, logged, history>>
  BY DEF Connect, Serve, FindHistory, SendHistory, Listen, Close, process
<1>3. CASE r # q
  <2>1. UNCHANGED <<page[q], socket[q], buffer[q], shown[q]>>
    BY <1>3 DEF Connect, Serve, FindHistory, SendHistory, Listen, Close
  <2>2. /\ Queued(q)' = Queued(q) /\ Known(q)' = Known(q)
        /\ (Subscribed(q)' <=> Subscribed(q))
        /\ \A p \in Publishers : Newest(p)' = Newest(p)
    BY <1>2, <2>1 DEF Queued, Known, Subscribed, Newest
  <2>3. \A h \in Message : h[1] \in Publishers
    BY DEF Message
  <2> QED
    BY <1>1, <1>2, <2>1, <2>2, <2>3 DEF SentInvOf, AgainInvOf, BackInvOf
<1>4. CASE r = q /\ Connect(q)
  <2>1. /\ page'[q] = "subscribed" /\ socket'[q] = <<Confirmation>>
        /\ buffer'[q] = <<>> /\ shown'[q] = <<>>
    BY <1>1, <1>4 DEF Connect, QueueInvOf
  <2>2. Queued(q)' = {Confirmation}
    BY <2>1 DEF Queued, Range
  <2> QED
    BY <2>1, <2>2, ConfirmationNoMessage DEF SentInvOf, AgainInvOf, BackInvOf
<1>5. CASE r = q /\ FindHistory(q)
  <2>1. /\ page[q] = "subscribed" /\ page'[q] = "history"
        /\ UNCHANGED <<socket, buffer, shown>>
    BY <1>5 DEF FindHistory
  <2>2. /\ Queued(q)' = Queued(q) /\ Known(q)' = Known(q) /\ Subscribed(q)
        /\ \A p \in Publishers : Newest(p)' = Newest(p)
    BY <1>2, <2>1 DEF Queued, Known, Subscribed, Newest
  <2>3. \A h \in Message : h[1] \in Publishers
    BY DEF Message
  <2> QED
    BY <1>1, <1>2, <2>1, <2>2, <2>3 DEF SentInvOf, AgainInvOf, BackInvOf
<1>6. CASE r = q /\ SendHistory(q)
  <2>1. /\ page[q] = "history" /\ page'[q] = "listening" /\ Subscribed(q)
        /\ UNCHANGED <<socket, buffer>>
    BY <1>6 DEF SendHistory, Subscribed
  <2>2. shown'[q] = <<>> \/ shown'[q] = Persisted
    BY <1>1, <1>6, <2>1, HistorySent DEF QueueInvOf
  <2>3. /\ Known(q)' \subseteq Known(q) /\ Queued(q)' = Queued(q)
    BY <2>1, <2>2, PersistedInHistory, RangeEmpty DEF Known, Queued
  <2>4. Ordered(shown'[q])
    <3>1. Ordered(Persisted) /\ Ordered(<<>>)
      BY PersistedOrdered DEF HistoryInv, Ordered
    <3> QED
      BY ONLY <2>2, <3>1
  <2>5. \A j \in DOMAIN shown'[q] : shown'[q][j][2] \in Nat
    <3>1. Persisted \in Seq(Message)
      BY PersistedInHistory
    <3>2. CASE shown'[q] = <<>>
      BY <3>2
    <3>3. CASE shown'[q] = Persisted
      <4>1. shown'[q] \in Seq(Message)
        BY ONLY <3>1, <3>3
      <4>2. \A j \in DOMAIN shown'[q] : shown'[q][j] \in Message
        BY ONLY <4>1
      <4> QED
        BY <4>2 DEF Message
    <3> QED
      BY <2>2, <3>2, <3>3
  <2>6. BackInvOf(q)'
    <3> SUFFICES ASSUME NEW j \in DOMAIN shown'[q], NEW k \in DOMAIN shown'[q],
                        j < k, shown'[q][j][1] = shown'[q][k][1]
                 PROVE  ~(shown'[q][j][2] > shown'[q][k][2])
      BY DEF BackInvOf
    <3>1. shown'[q][j][2] < shown'[q][k][2]
      BY ONLY <2>4, j < k, shown'[q][j][1] = shown'[q][k][1],
         j \in DOMAIN shown'[q], k \in DOMAIN shown'[q] DEF Ordered
    <3> QED
      BY <2>5, <3>1
  <2> QED
    BY <1>1, <2>1, <2>3, <2>6 DEF SentInvOf, AgainInvOf
<1>7. CASE r = q /\ Listen(q)
  <2>1. page[q] = "listening" /\ page'[q] = "listening" /\ Subscribed(q)
    BY <1>7 DEF Listen, Subscribed
  <2>2. PICK h \in Entry :
           /\ Queued(q) = {h} \cup Queued(q)'
           /\ \A y \in Queued(q)' : y[1] = h[1] => h[2] < y[2]
           /\ shown'[q] = IF h = Confirmation THEN shown[q]
                          ELSE Append(shown[q], h)
    BY <1>1, <1>7, ListenTakes DEF QueueInvOf
  <2>3. AgainInvOf(q)'
    BY <1>1, <2>1, <2>2, AgainOfListen
  <2>4. BackInvOf(q)'
    BY <1>1, <2>1, <2>2, BackOfListen
  <2> QED
    BY <2>1, <2>3, <2>4 DEF SentInvOf
<1>8. CASE r = q /\ Close(q)
  <2>1. page'[q] = "closed" /\ shown'[q] = <<>>
    BY <1>8 DEF Close
  <2> QED
    BY <2>1 DEF SentInvOf, AgainInvOf, BackInvOf, Subscribed
<1> QED
  BY <1>3, <1>4, <1>5, <1>6, <1>7, <1>8 DEF Serve

LEMMA OrderCorrect == Spec => [](TypeOK /\ HistoryInv /\ QueueInv /\ OrderInv)
<1>1. Init => HistoryInv /\ QueueInv /\ OrderInv
  <2> SUFFICES ASSUME Init PROVE HistoryInv /\ QueueInv /\ OrderInv
    OBVIOUS
  <2>1. HistoryInv
    BY DEF Init, HistoryInv, HistoryInOrder, PastInv
  <2>2. ASSUME NEW q \in Pages
        PROVE  /\ page[q] = "away" /\ shown[q] = <<>> /\ Queued(q) = {}
               /\ socket[q] = <<>> /\ buffer[q] = <<>> /\ Range(shown[q]) = {}
    BY RangeEmpty DEF Init, Queued
  <2>3. QueueInv /\ OrderInv
    BY <2>2, RangeEmpty DEF QueueInv, QueueInvOf, QueueOrdered, Ordered, PastOf,
       OrderInv, SentInvOf, AgainInvOf, BackInvOf, Subscribed
  <2> QED
    BY <2>1, <2>3
<1>2. TypeOK /\ EmitInv /\ HistoryInv /\ QueueInv /\ OrderInv /\ [Next]_vars
        => QueueInv' /\ OrderInv'
  <2> SUFFICES ASSUME TypeOK, EmitInv, HistoryInv, QueueInv, OrderInv, [Next]_vars
               PROVE  OrderInv'
    BY QueueStep
  <2>1. CASE UNCHANGED vars
    BY <2>1 DEF vars, process, pages, OrderInv, SentInvOf, AgainInvOf,
       BackInvOf, Subscribed, Known, Queued, Newest
  <2> QED
    BY <2>1, OrderOfWorker, OrderOfPage DEF Next, OrderInv
<1>3. TypeOK /\ EmitInv /\ HistoryInv /\ [Next]_vars => HistoryInv'
  BY HistoryStep
<1> QED
  BY <1>1, <1>2, <1>3, EmitCorrect, PTL DEF Spec

------------------------------------------------------------------------------
(* Now the page.                                                           *)

Row == [id : Reporters, value : Nat, visible : BOOLEAN]

(* <<id, v>> is the last message of id among the first n of s.             *)
LastOf(s, n, id, v) ==
  \E j \in 1..n : s[j] = <<id, v>> /\ \A k \in (j + 1)..n : s[k][1] # id

(* A table made of the first n messages of s: the first row of an id is    *)
(* its only visible one and shows the last message; each reporter of a     *)
(* message has a row.                                                      *)
TableOf(t, s, n) ==
  /\ \A i \in DOMAIN t :
       \E b \in DOMAIN t : First(t, t[i].id, b) /\ t[b].visible
  /\ \A i \in DOMAIN t :
       t[i].visible => First(t, t[i].id, i) /\ LastOf(s, n, t[i].id, t[i].value)
  /\ \A j \in 1..n :
       s[j][1] \in Reporters => \E i \in DOMAIN t : t[i].id = s[j][1]

TableInvOf(q) ==
  /\ handled[q] \in 0..Len(shown[q])
  /\ rows[q] \in Seq(Row)
  /\ TableOf(rows[q], shown[q], handled[q])

TableInv ==
  /\ handled \in [Pages -> Nat]
  /\ rows \in [Pages -> Seq(Row)]
  /\ \A q \in Pages : TableInvOf(q)

(* Whatever the browser does is invisible to the log: what is proved of    *)
(* LogStream holds with the pages that show it (processing.js).            *)
THEOREM PageImplementsLog == PageSpec => Spec
<1>1. PageInit => Init
  BY DEF PageInit
<1>2. [PageNext]_<<vars, browser>> => [Next]_vars
  BY DEF PageNext, Next, onmessage, Unload
<1> QED
  BY <1>1, <1>2, PTL DEF PageSpec, Spec

(* updateProgressBar adds a row and shows the message in the first of its  *)
(* id.                                                                     *)
LEMMA ProgressBarUpdated ==
  ASSUME NEW t \in Seq(Row), NEW m \in Message, m[1] \in Reporters,
         \A i \in DOMAIN t : \E b \in DOMAIN t : First(t, t[i].id, b)
  PROVE  LET u == updateProgressBar(t, m) IN
           /\ u \in Seq(Row)
           /\ DOMAIN u = 1..(Len(t) + 1)
           /\ \A i \in 1..Len(t) : u[i].id = t[i].id
           /\ u[Len(t) + 1].id = m[1]
           /\ \E b \in DOMAIN u :
                /\ First(u, m[1], b)
                /\ u[b] = Bar(m)
                /\ \A i \in DOMAIN u \ {b} :
                     u[i] = IF i = Len(t) + 1 THEN Blank(m) ELSE t[i]
<1> DEFINE c == Append(t, Blank(m))
           b == CHOOSE i \in DOMAIN c : First(c, m[1], i)
           u == updateProgressBar(t, m)
<1>1. /\ m[1] \in Reporters /\ m[2] \in Nat /\ Len(t) \in Nat
      /\ Blank(m) \in Row /\ Bar(m) \in Row
      /\ Blank(m).id = m[1] /\ Bar(m).id = m[1]
  BY LogAssumption DEF Message, Row, Blank, Bar
<1>2. /\ c \in Seq(Row)
      /\ DOMAIN c = 1..(Len(t) + 1) /\ DOMAIN t = 1..Len(t)
      /\ \A i \in 1..Len(t) : c[i] = t[i]
      /\ c[Len(t) + 1] = Blank(m)
  BY <1>1
<1>3. \E i \in DOMAIN c : First(c, m[1], i)
  <2>1. CASE \E i \in DOMAIN t : t[i].id = m[1]
    <3>1. PICK i \in DOMAIN t : First(t, m[1], i)
      BY <2>1
    <3> HIDE DEF c
    <3>2. First(c, m[1], i)
      <4>1. i \in 1..Len(t) /\ i \in DOMAIN c /\ c[i].id = m[1]
        BY <1>1, <1>2, <3>1 DEF First
      <4>2. ASSUME NEW j \in DOMAIN c, c[j].id = m[1] PROVE i <= j
        <5>1. CASE j \in 1..Len(t)
          BY <1>2, <3>1, <4>2, <5>1 DEF First
        <5>2. CASE j = Len(t) + 1
          BY <1>1, <4>1, <5>2
        <5> QED
          BY <1>1, <1>2, <5>1, <5>2
      <4> QED
        BY <4>1, <4>2 DEF First
    <3> QED
      BY <1>2, <3>2 DEF First
  <2>2. CASE ~ \E i \in DOMAIN t : t[i].id = m[1]
    <3> HIDE DEF c
    <3>1. First(c, m[1], Len(t) + 1)
      BY <1>1, <1>2, <2>2 DEF First
    <3> QED
      BY <1>1, <1>2, <3>1
  <2> QED
    BY <2>1, <2>2
<1>4. b \in DOMAIN c /\ First(c, m[1], b)
  BY <1>3
<1>5. u = [c EXCEPT ![b] = Bar(m)]
  BY DEF updateProgressBar
<1> HIDE DEF c, b, u
<1>6. /\ u \in Seq(Row) /\ DOMAIN u = DOMAIN c
      /\ u[b] = Bar(m) /\ \A i \in DOMAIN u \ {b} : u[i] = c[i]
  BY <1>1, <1>2, <1>4, <1>5
<1>7. \A i \in DOMAIN u : u[i].id = c[i].id
  BY <1>1, <1>4, <1>6 DEF First
<1>8. First(u, m[1], b)
  BY <1>4, <1>6, <1>7 DEF First
<1>9. /\ \A i \in 1..Len(t) : u[i].id = t[i].id
      /\ u[Len(t) + 1].id = m[1]
  BY <1>1, <1>2, <1>6, <1>7
<1>10. \A i \in DOMAIN u \ {b} : u[i] = IF i = Len(t) + 1 THEN Blank(m) ELSE t[i]
  BY <1>1, <1>2, <1>6
<1> QED
  BY <1>2, <1>4, <1>6, <1>8, <1>9, <1>10 DEF u

(* A message of progress.                                                  *)
LEMMA TableUpdated ==
  ASSUME NEW t \in Seq(Row), NEW s \in Seq(Message), NEW n \in Nat,
         n < Len(s), TableOf(t, s, n), s[n + 1][1] \in Reporters
  PROVE  LET u == updateProgressBar(t, s[n + 1])
         IN  u \in Seq(Row) /\ TableOf(u, s, n + 1)
<1> DEFINE m == s[n + 1]
           u == updateProgressBar(t, m)
<1>1. m \in Message
  OBVIOUS
<1> HIDE DEF u
<1>2. /\ u \in Seq(Row)
      /\ DOMAIN u = 1..(Len(t) + 1) /\ DOMAIN t = 1..Len(t) /\ Len(t) \in Nat
      /\ \A i \in 1..Len(t) : u[i].id = t[i].id
      /\ u[Len(t) + 1].id = m[1]
  BY <1>1, ProgressBarUpdated DEF TableOf, u
<1>3. PICK b \in DOMAIN u :
        /\ First(u, m[1], b)
        /\ u[b] = Bar(m)
        /\ \A i \in DOMAIN u \ {b} :
             u[i] = IF i = Len(t) + 1 THEN Blank(m) ELSE t[i]
  BY <1>1, ProgressBarUpdated DEF TableOf, u
<1>4. /\ u[b].visible /\ u[b].id = m[1] /\ u[b].value = m[2]
      /\ ~Blank(m).visible /\ Blank(m).id = m[1]
      /\ m = <<m[1], m[2]>>
  BY <1>1, <1>3 DEF Bar, Blank, Message
<1>5. ASSUME NEW id, id # m[1], NEW i, First(t, id, i)
      PROVE  First(u, id, i) /\ u[i] = t[i]
  <2>1. i \in 1..Len(t) /\ u[i].id = id /\ i # b /\ i \in DOMAIN u
    BY <1>2, <1>4, <1>5 DEF First
  <2>2. \A j \in DOMAIN u : u[j].id = id => j \in 1..Len(t) /\ t[j].id = id
    BY <1>2, <1>5
  <2> QED
    BY <1>2, <1>3, <1>5, <2>1, <2>2 DEF First
<1>6. ASSUME NEW i \in DOMAIN u
      PROVE  \E f \in DOMAIN u : First(u, u[i].id, f) /\ u[f].visible
  <2>1. CASE u[i].id = m[1]
    BY <1>3, <1>4, <2>1
  <2>2. CASE u[i].id # m[1]
    <3>1. i \in DOMAIN t /\ t[i].id = u[i].id
      BY <1>2, <2>2
    <3>2. PICK f \in DOMAIN t : First(t, t[i].id, f) /\ t[f].visible
      BY <3>1 DEF TableOf
    <3>3. First(u, u[i].id, f) /\ u[f] = t[f] /\ f \in DOMAIN u
      BY <1>2, <1>5, <2>2, <3>1, <3>2
    <3> QED
      BY <3>2, <3>3
  <2> QED
    BY <2>1, <2>2
<1>7. ASSUME NEW i \in DOMAIN u, u[i].visible
      PROVE  First(u, u[i].id, i) /\ LastOf(s, n + 1, u[i].id, u[i].value)
  <2>1. CASE i = b
    BY <1>3, <1>4, <2>1 DEF LastOf
  <2>2. CASE i # b
    <3>1. i \in DOMAIN t /\ u[i] = t[i]
      BY <1>2, <1>3, <1>4, <1>7, <2>2
    <3>2. First(t, t[i].id, i) /\ LastOf(s, n, t[i].id, t[i].value)
      BY <1>7, <3>1 DEF TableOf
    <3>3. t[i].id # m[1]
      <4> SUFFICES ASSUME t[i].id = m[1] PROVE FALSE
        OBVIOUS
      <4>1. b = Len(t) + 1
        <5>1. b <= i
          BY <1>3, <3>1 DEF First
        <5>2. i <= b \/ b = Len(t) + 1
          BY <1>2, <1>3, <3>1, <3>2 DEF First
        <5> QED
          BY <1>2, <2>2, <5>1, <5>2
      <4>2. b <= i
        BY <1>3, <3>1 DEF First
      <4> QED
        BY <1>2, <3>1, <4>1, <4>2
    <3>4. First(u, u[i].id, i)
      BY <1>5, <3>1, <3>2, <3>3
    <3>5. LastOf(s, n + 1, t[i].id, t[i].value)
      <4>1. PICK j \in 1..n : /\ s[j] = <<t[i].id, t[i].value>>
                              /\ \A k \in (j + 1)..n : s[k][1] # t[i].id
        BY <3>2 DEF LastOf
      <4>2. \A k \in (j + 1)..(n + 1) : k \in (j + 1)..n \/ k = n + 1
        OBVIOUS
      <4>3. \A k \in (j + 1)..(n + 1) : s[k][1] # t[i].id
        BY <3>3, <4>1, <4>2
      <4>4. j \in 1..(n + 1)
        OBVIOUS
      <4> QED
        BY <4>1, <4>3, <4>4 DEF LastOf
    <3> QED
      BY <3>1, <3>4, <3>5
  <2> QED
    BY <2>1, <2>2
<1>8. ASSUME NEW j \in 1..(n + 1), s[j][1] \in Reporters
      PROVE  \E i \in DOMAIN u : u[i].id = s[j][1]
  <2>1. CASE j = n + 1
    BY <1>3, <1>4, <2>1
  <2>2. CASE j # n + 1
    <3>1. PICK i \in DOMAIN t : t[i].id = s[j][1]
      BY <1>8, <2>2 DEF TableOf
    <3> QED
      BY <1>2, <3>1
  <2> QED
    BY <2>1, <2>2
<1>9. TableOf(u, s, n + 1)
  BY <1>6, <1>7, <1>8 DEF TableOf
<1> QED
  BY <1>2, <1>9 DEF u

(* Any other message.                                                      *)
LEMMA TableSkipped ==
  ASSUME NEW t \in Seq(Row), NEW s \in Seq(Message), NEW n \in Nat,
         n < Len(s), TableOf(t, s, n), s[n + 1][1] \notin Reporters
  PROVE  TableOf(t, s, n + 1)
<1>1. ASSUME NEW id \in Reporters, NEW v, LastOf(s, n, id, v)
      PROVE  LastOf(s, n + 1, id, v)
  <2>1. PICK j \in 1..n : s[j] = <<id, v>> /\ \A k \in (j + 1)..n : s[k][1] # id
    BY <1>1 DEF LastOf
  <2>2. \A k \in (j + 1)..(n + 1) : k \in (j + 1)..n \/ k = n + 1
    OBVIOUS
  <2>3. \A k \in (j + 1)..(n + 1) : s[k][1] # id
    BY <2>1, <2>2
  <2>4. j \in 1..(n + 1)
    OBVIOUS
  <2> QED
    BY <2>1, <2>3, <2>4 DEF LastOf
<1>2. \A i \in DOMAIN t : t[i].id \in Reporters
  <2>1. \A i \in DOMAIN t : t[i] \in Row
    OBVIOUS
  <2> QED
    BY <2>1 DEF Row
<1>3. \A j \in 1..(n + 1) : s[j][1] \in Reporters => j \in 1..n
  OBVIOUS
<1> QED
  BY <1>1, <1>2, <1>3 DEF TableOf

(* A page that is sent more has still handled the same.                    *)
LEMMA TableKept ==
  ASSUME NEW t, NEW n \in Nat, NEW s, NEW s1, TableOf(t, s, n),
         \A j \in 1..n : s1[j] = s[j]
  PROVE  TableOf(t, s1, n)
<1>1. ASSUME NEW id, NEW v, LastOf(s, n, id, v) PROVE LastOf(s1, n, id, v)
  <2>1. PICK j \in 1..n : s[j] = <<id, v>> /\ \A k \in (j + 1)..n : s[k][1] # id
    BY <1>1 DEF LastOf
  <2>2. \A k \in (j + 1)..n : k \in 1..n
    OBVIOUS
  <2> QED
    BY <2>1, <2>2 DEF LastOf
<1> QED
  BY <1>1 DEF TableOf

LEMMA EmptyTable == ASSUME NEW s PROVE TableOf(<<>>, s, 0)
BY DEF TableOf

LEMMA TableStep ==
  ASSUME TypeOK, QueueInv, TableInv, [PageNext]_<<vars, browser>>
  PROVE  TableInv'
<1> USE DEF TypeOK
<1>0. \A q \in Pages : shown[q] \in Seq(Message) /\ TableInvOf(q)
  BY DEF TableInv
<1>1. ASSUME UNCHANGED browser,
             \A q \in Pages :
               /\ Len(shown'[q]) \in Nat /\ Len(shown[q]) <= Len(shown'[q])
               /\ \A j \in 1..Len(shown[q]) : shown'[q][j] = shown[q][j]
      PROVE  TableInv'
  <2> SUFFICES ASSUME NEW q \in Pages PROVE TableInvOf(q)'
    BY <1>1 DEF TableInv, browser
  <2>1. UNCHANGED <<handled, rows>>
    BY <1>1 DEF browser
  <2>2. handled[q] \in 0..Len(shown'[q]) /\ handled[q] \in Nat
    BY <1>0, <1>1 DEF TableInvOf
  <2>3. \A j \in 1..handled[q] : shown'[q][j] = shown[q][j]
    BY <1>0, <1>1 DEF TableInvOf
  <2>4. TableOf(rows[q], shown'[q], handled[q])
    BY <1>0, <2>2, <2>3, TableKept DEF TableInvOf
  <2> QED
    BY <1>0, <2>1, <2>2, <2>4 DEF TableInvOf
<1>2. ASSUME NEW p \in Publishers,
             SetupLogger(p) \/ Log(p) \/ Emit(p) \/ Die(p), UNCHANGED browser
      PROVE  TableInv'
  <2>1. UNCHANGED shown
    BY <1>2 DEF SetupLogger, Log, Emit, Send, Push, Die, pages
  <2> QED
    BY <1>0, <1>1, <1>2, <2>1
<1>3. ASSUME NEW r \in Pages, Connect(r) \/ FindHistory(r), UNCHANGED browser
      PROVE  TableInv'
  <2>1. UNCHANGED shown
    BY <1>3 DEF Connect, FindHistory
  <2> QED
    BY <1>0, <1>1, <1>3, <2>1
<1>4. ASSUME NEW r \in Pages, SendHistory(r), UNCHANGED browser
      PROVE  TableInv'
  <2>1. shown[r] = <<>>
    BY <1>4 DEF SendHistory, QueueInv, QueueInvOf
  <2>2. shown'[r] \in Seq(Message)
    BY <1>4, <2>1, HistorySent, PersistedInHistory
  <2>3. \A q \in Pages \ {r} : shown'[q] = shown[q]
    BY <1>4 DEF SendHistory
  <2>4. /\ Len(shown'[r]) \in Nat /\ Len(shown[r]) = 0
        /\ \A j \in 1..Len(shown[r]) : shown'[r][j] = shown[r][j]
    BY <2>1, <2>2
  <2>5. \A q \in Pages :
          /\ Len(shown'[q]) \in Nat /\ Len(shown[q]) <= Len(shown'[q])
          /\ \A j \in 1..Len(shown[q]) : shown'[q][j] = shown[q][j]
    BY <1>0, <2>3, <2>4
  <2> QED
    BY <1>1, <1>4, <2>5
<1>5. ASSUME NEW r \in Pages, Listen(r), UNCHANGED browser PROVE TableInv'
  <2>1. PICK h \in Entry : shown'[r] = IF h = Confirmation THEN shown[r]
                                       ELSE Append(shown[r], h)
    BY <1>5, ListenTakes DEF QueueInv, QueueInvOf
  <2>2. \A q \in Pages \ {r} : shown'[q] = shown[q]
    BY <1>5 DEF Listen
  <2>3. /\ Len(shown'[r]) \in Nat /\ Len(shown[r]) <= Len(shown'[r])
        /\ \A j \in 1..Len(shown[r]) : shown'[r][j] = shown[r][j]
    <3>1. CASE h = Confirmation
      BY <1>0, <2>1, <3>1
    <3>2. CASE h # Confirmation
      BY <1>0, <2>1, <3>2 DEF Entry
    <3> QED
      BY <3>1, <3>2
  <2>4. ASSUME NEW q \in Pages
        PROVE  /\ Len(shown'[q]) \in Nat /\ Len(shown[q]) <= Len(shown'[q])
               /\ \A j \in 1..Len(shown[q]) : shown'[q][j] = shown[q][j]
    <3>1. CASE q = r
      BY ONLY <2>3, <3>1
    <3>2. CASE q # r
      <4>1. shown'[q] = shown[q] /\ shown[q] \in Seq(Message)
        BY <1>0, <2>2, <3>2
      <4> QED
        BY ONLY <4>1
    <3> QED
      BY <3>1, <3>2
  <2> QED
    BY <1>1, <1>5, <2>4
<1>6. ASSUME NEW r \in Pages, onmessage(r) PROVE TableInv'
  <2> DEFINE n == handled[r]
             m == shown[r][n + 1]
  <2>1. /\ UNCHANGED shown
        /\ n \in Nat /\ n < Len(shown[r]) /\ m \in Message
        /\ handled' = [handled EXCEPT ![r] = n + 1]
    BY <1>0, <1>6 DEF onmessage, TableInv, vars, pages
  <2>2. /\ rows'[r] \in Seq(Row)
        /\ TableOf(rows'[r], shown[r], n + 1)
        /\ rows' = [rows EXCEPT ![r] = rows'[r]]
    <3>1. rows[r] \in Seq(Row) /\ TableOf(rows[r], shown[r], n)
      BY <1>0 DEF TableInvOf
    <3>2. CASE m[1] \in Reporters
      <4>1. rows' = [rows EXCEPT ![r] = updateProgressBar(rows[r], m)]
        BY <1>6, <3>2 DEF onmessage, matches
      <4>2. rows'[r] = updateProgressBar(rows[r], m)
        BY <4>1 DEF TableInv
      <4>3. /\ updateProgressBar(rows[r], m) \in Seq(Row)
            /\ TableOf(updateProgressBar(rows[r], m), shown[r], n + 1)
        BY <1>0, <2>1, <3>1, <3>2, TableUpdated
      <4> QED
        BY <4>1, <4>2, <4>3
    <3>3. CASE m[1] \notin Reporters
      <4>1. rows' = rows
        BY <1>6, <3>3 DEF onmessage, matches
      <4>2. TableOf(rows[r], shown[r], n + 1)
        BY <1>0, <2>1, <3>1, <3>3, TableSkipped
      <4> QED
        BY <3>1, <4>1, <4>2 DEF TableInv
    <3> QED
      BY <3>2, <3>3
  <2>3. /\ handled' \in [Pages -> Nat] /\ rows' \in [Pages -> Seq(Row)]
        /\ handled'[r] = n + 1 /\ n + 1 \in 0..Len(shown[r])
        /\ \A q \in Pages \ {r} :
             handled'[q] = handled[q] /\ rows'[q] = rows[q]
    <3>1. /\ handled' \in [Pages -> Nat] /\ handled'[r] = n + 1
          /\ \A q \in Pages \ {r} : handled'[q] = handled[q]
      BY <2>1 DEF TableInv
    <3>2. /\ rows' \in [Pages -> Seq(Row)]
          /\ \A q \in Pages \ {r} : rows'[q] = rows[q]
      BY <2>2 DEF TableInv
    <3>3. n + 1 \in 0..Len(shown[r])
      BY <1>0, <2>1
    <3> QED
      BY <3>1, <3>2, <3>3
  <2>4. TableInvOf(r)'
    BY <2>1, <2>2, <2>3 DEF TableInvOf
  <2>5. \A q \in Pages \ {r} : TableInvOf(q)'
    BY <1>0, <2>1, <2>3 DEF TableInvOf
  <2> QED
    BY <2>3, <2>4, <2>5 DEF TableInv
<1>7. ASSUME NEW r \in Pages, Unload(r) PROVE TableInv'
  <2>1. /\ shown'[r] = <<>> /\ \A q \in Pages \ {r} : shown'[q] = shown[q]
        /\ handled' = [handled EXCEPT ![r] = 0]
        /\ rows' = [rows EXCEPT ![r] = <<>>]
    BY <1>7 DEF Unload, Close
  <2> QED
    BY <1>0, <2>1, EmptyTable DEF TableInv, TableInvOf
<1>8. CASE UNCHANGED <<vars, browser>>
  BY <1>0, <1>1, <1>8 DEF vars, pages
<1> QED
  BY <1>2, <1>3, <1>4, <1>5, <1>6, <1>7, <1>8 DEF PageNext, Serve

(* When nothing waits, the last message of a process that a page was sent  *)
(* is its latest.                                                          *)
LEMMA LastIsLatest ==
  ASSUME TypeOK, NEW q \in Pages, BackInvOf(q), Queued(q) = {}, NEW p, NEW v,
         LastOf(shown[q], Len(shown[q]), p, v)
  PROVE  v \in Progress(q, p) /\ \A k \in Progress(q, p) : k <= v
<1> DEFINE s == shown[q]
<1>1. s \in Seq(Message) /\ DOMAIN s = 1..Len(s) /\ Len(s) \in Nat
  BY DEF TypeOK
<1>2. \A i \in 1..Len(s) : s[i][2] \in Nat
  <2>1. \A i \in 1..Len(s) : s[i] \in Message
    BY <1>1
  <2> QED
    BY <2>1 DEF Message
<1>3. PICK j \in 1..Len(s) : s[j] = <<p, v>> /\ \A k \in (j + 1)..Len(s) : s[k][1] # p
  BY DEF LastOf
<1>4. v \in Progress(q, p)
  <2>1. <<p, v>> \in Range(s)
    BY <1>1, <1>3 DEF Range
  <2> QED
    BY <2>1 DEF Progress
<1>5. ASSUME NEW k \in Progress(q, p) PROVE k <= v
  <2>1. PICK i \in 1..Len(s) : s[i][1] = p /\ s[i][2] = k
    BY <1>1 DEF Progress, Range
  <2>2. i <= j
    BY <1>1, <1>3, <2>1
  <2>3. k \in Nat /\ v \in Nat
    BY <1>2, <1>3, <2>1
  <2>4. CASE i < j /\ k > v
    <3>1. \E l \in DOMAIN s : l > j /\ s[l] = s[i]
      BY <1>1, <1>3, <2>1, <2>4 DEF BackInvOf
    <3> QED
      BY <1>1, <1>3, <2>1, <3>1
  <2>5. CASE i = j
    BY <1>3, <2>1, <2>3, <2>5
  <2> QED
    BY <2>2, <2>3, <2>4, <2>5
<1> QED
  BY <1>4, <1>5

(* Of each reporter a page that has handled all that came shows one bar,   *)
(* at the latest progress it was sent, however history and subscription    *)
(* overlap and whatever rows were added (processing.js, wsgi_server.py).   *)
THEOREM BarsCurrent == PageSpec => []BarsAreCurrent
<1>1. PageInit => TableInv
  <2> SUFFICES ASSUME PageInit PROVE TableInv
    OBVIOUS
  <2>1. ASSUME NEW q \in Pages
        PROVE  handled[q] = 0 /\ rows[q] = <<>> /\ shown[q] = <<>>
    BY DEF PageInit, Init
  <2>2. /\ handled \in [Pages -> Nat] /\ rows \in [Pages -> Seq(Row)]
    BY DEF PageInit
  <2> QED
    BY <2>1, <2>2, EmptyTable DEF TableInv, TableInvOf
<1>2. TypeOK /\ QueueInv /\ TableInv /\ [PageNext]_<<vars, browser>> => TableInv'
  BY TableStep
<1>3. TypeOK /\ OrderInv /\ TableInv => BarsAreCurrent
  <2> SUFFICES ASSUME TypeOK, OrderInv, TableInv, NEW q \in Pages,
                      NEW p \in Reporters, CaughtUp(q)
               PROVE  /\ {rows[q][i].value : i \in Bars(q, p)} =
                           {n \in Progress(q, p) : \A k \in Progress(q, p) : k <= n}
                      /\ \A i, j \in Bars(q, p) : i = j
    BY DEF BarsAreCurrent
  <2>1. /\ rows[q] \in Seq(Row)
        /\ shown[q] \in Seq(Message)
        /\ TableOf(rows[q], shown[q], Len(shown[q]))
        /\ BackInvOf(q)
        /\ Queued(q) = {}
    BY RangeEmpty DEF TypeOK, CaughtUp, Queued, OrderInv, TableInv, TableInvOf
  <2>2. ASSUME NEW i \in Bars(q, p)
        PROVE  /\ rows[q][i].value \in Progress(q, p)
               /\ \A k \in Progress(q, p) : k <= rows[q][i].value
               /\ First(rows[q], p, i)
    <3>1. /\ First(rows[q], p, i)
          /\ LastOf(shown[q], Len(shown[q]), p, rows[q][i].value)
      BY <2>1 DEF Bars, TableOf
    <3> QED
      BY <2>1, <3>1, LastIsLatest
  <2>3. \A i, j \in Bars(q, p) : i = j
    <3> SUFFICES ASSUME NEW i \in Bars(q, p), NEW j \in Bars(q, p) PROVE i = j
      OBVIOUS
    <3>1. /\ i \in 1..Len(rows[q]) /\ j \in 1..Len(rows[q]) /\ Len(rows[q]) \in Nat
          /\ rows[q][i].id = p /\ rows[q][j].id = p
      BY <2>1 DEF Bars
    <3>2. i <= j /\ j <= i
      BY <2>2, <3>1 DEF First, Bars
    <3> QED
      BY <3>1, <3>2
  <2>4. ASSUME NEW n \in Progress(q, p), \A k \in Progress(q, p) : k <= n
        PROVE  \E i \in Bars(q, p) : rows[q][i].value = n
    <3>1. PICK j \in 1..Len(shown[q]) : shown[q][j][1] = p /\ shown[q][j][2] = n
      BY <2>1 DEF Progress, Range
    <3>2. PICK i \in DOMAIN rows[q] : rows[q][i].id = p
      BY <2>1, <3>1 DEF TableOf
    <3>3. PICK b \in DOMAIN rows[q] : First(rows[q], p, b) /\ rows[q][b].visible
      BY <2>1, <3>2 DEF TableOf
    <3>4. b \in Bars(q, p)
      BY <3>3 DEF Bars, First
    <3>5. rows[q][b].value <= n /\ n <= rows[q][b].value
      BY <2>2, <2>4, <3>4
    <3>6. n \in Nat /\ rows[q][b].value \in Nat
      <4>1. rows[q][b] \in Row /\ shown[q][j] \in Message
        BY <2>1, <3>1, <3>3
      <4> QED
        BY <3>1, <4>1 DEF Row, Message
    <3> QED
      BY <3>4, <3>5, <3>6
  <2> QED
    BY <2>2, <2>3, <2>4
<1>4. PageSpec => [](TypeOK /\ QueueInv /\ OrderInv)
  BY PageImplementsLog, OrderCorrect, PTL
<1> QED
  BY <1>1, <1>2, <1>3, <1>4, PTL DEF PageSpec

=============================================================================
