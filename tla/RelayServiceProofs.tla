------------------------- MODULE RelayServiceProofs -------------------------
(****************************************************************************)
(* The safety properties of the client connection, for any number of        *)
(* sockets, streams, requests and calls.  IInv is inductive: TypeOK bounds  *)
(* what the timers can be, OpenStreamsListed says that what is sent again   *)
(* covers the open streams, and NoStreamForgotten then survives the steps   *)
(* that lose a socket (they arm a timer or use up the attempts) and those   *)
(* that spend a timer (they create the socket that will serve it).          *)
(****************************************************************************)
EXTENDS RelayService, TLAPS

ConnInv == TypeOK /\ StateTellsSocket
StreamInv == OpenStreamsListed /\ NoStreamForgotten
IInv == ConnInv /\ StreamInv /\ EntriesWait

\* What the steps do to the record besides scheduling keeps it in range.
LEMMA TimersUpdates ==
    ASSUME NEW r \in Timers
    PROVE  /\ [r EXCEPT !.armed = FALSE] \in Timers
           /\ [r EXCEPT !.attempts = 0] \in Timers
           /\ [attempts |-> 0, armed |-> FALSE, strays |-> r.strays] \in Timers
           /\ r.strays > 0 => [r EXCEPT !.strays = @ - 1] \in Timers
  <1> USE RelayServiceAssumption DEF Timers
  <1>1. [r EXCEPT !.armed = FALSE] \in Timers
    OBVIOUS
  <1>2. [r EXCEPT !.attempts = 0] \in Timers
    OBVIOUS
  <1>3. [attempts |-> 0, armed |-> FALSE, strays |-> r.strays] \in Timers
    OBVIOUS
  <1>4. r.strays > 0 => [r EXCEPT !.strays = @ - 1] \in Timers
    OBVIOUS
  <1> QED
    BY <1>1, <1>2, <1>3, <1>4

\* What a schedule can do to the counters, whatever the strays come to.
LEMMA ScheduleSteps ==
    ASSUME NEW r \in [attempts : 0..MaxAttempts, armed : BOOLEAN, strays : Nat]
    PROVE  /\ Schedule(r) \in [attempts : 0..MaxAttempts, armed : BOOLEAN, strays : Nat]
           /\ Schedule(r).strays >= r.strays
           /\ Schedule(r).armed \/ ~AutoReconnect \/ Schedule(r).attempts = MaxAttempts
  BY RelayServiceAssumption DEF Schedule

-----------------------------------------------------------------------------
(* onclose *)

\* After onclose, on a record one schedule may already have passed, the state
\* is well typed and something is on its way unless it gave up.
LEMMA OnCloseSafe ==
    ASSUME TypeOK, NEW s \in Sockets,
           NEW r \in [attempts : 0..MaxAttempts, armed : BOOLEAN, strays : Nat],
           OnClose(s, r)
    PROVE  /\ TypeOK'
           /\ StateTellsSocket'
           /\ reconnect'.armed \/ GaveUp'
  <1>1. /\ reconnect' \in [attempts : 0..MaxAttempts, armed : BOOLEAN, strays : Nat]
        /\ reconnect'.strays <= MaxStrays
        /\ reconnect'.armed \/ ~AutoReconnect \/ reconnect'.attempts = MaxAttempts
    BY ScheduleSteps DEF OnClose
  <1>2. reconnect' \in Timers
    BY <1>1, RelayServiceAssumption DEF Timers
  <1>3. /\ sockets' \in
              [Sockets -> {"none", "connecting", "reconnecting", "open", "closing"}]
        /\ reqs' \in [Sockets -> SUBSET Streams]
        /\ unanswered' \in [Sockets -> SUBSET Requests]
    BY DEF TypeOK, OnClose
  <1>4. TypeOK'
    BY <1>2, <1>3 DEF TypeOK, OnClose
  <1>5. StateTellsSocket'
    BY DEF OnClose, StateTellsSocket
  <1> QED
    BY <1>1, <1>4, <1>5 DEF GaveUp

\* Every way a socket ends is onclose on such a record.
LEMMA EndIsOnClose ==
    ASSUME TypeOK, NEW s \in Sockets, SocketFails(s) \/ SocketCloses(s)
    PROVE  \E r \in [attempts : 0..MaxAttempts, armed : BOOLEAN, strays : Nat] :
              OnClose(s, r)
  <1> DEFINE R == [attempts : 0..MaxAttempts, armed : BOOLEAN, strays : Nat]
  <1>1. reconnect \in R
    BY RelayServiceAssumption DEF TypeOK, Timers
  <1>2. Schedule(reconnect) \in R
    BY <1>1, ScheduleSteps
  <1> QED
    BY <1>1, <1>2 DEF SocketFails, SocketCloses

-----------------------------------------------------------------------------
(* Types and the socket *)

LEMMA ConnStep ==
    ASSUME ConnInv, [Next]_vars
    PROVE  ConnInv'
  <1> USE DEF ConnInv
  <1> SUFFICES TypeOK' /\ StateTellsSocket'
    OBVIOUS
  <1> USE RelayServiceAssumption DEF Streams, Requests
  <1>1. CASE \E s \in Sockets : Connect(s)
    BY <1>1 DEF TypeOK, StateTellsSocket, Connect, streaming, calling
  <1>2. CASE \E s \in Sockets : TimerFires(s)
    <2>1. PICK s \in Sockets : TimerFires(s)
      BY <1>2
    <2>2. reconnect' \in Timers
      BY <2>1, TimersUpdates DEF TypeOK, TimerFires
    <2>3. sockets' \in
            [Sockets -> {"none", "connecting", "reconnecting", "open", "closing"}]
      BY <2>1 DEF TypeOK, TimerFires
    <2> QED
      BY <2>1, <2>2, <2>3
      DEF TypeOK, StateTellsSocket, TimerFires, streaming, calling
  <1>3. CASE \E s \in Sockets : ConnectOpens(s)
    BY <1>3 DEF TypeOK, StateTellsSocket, ConnectOpens, streaming, calling
  <1>4. CASE \E s \in Sockets : ReconnectOpens(s)
    <2>1. PICK s \in Sockets : ReconnectOpens(s)
      BY <1>4
    <2>2. reconnect' \in Timers /\ reqs' \in [Sockets -> SUBSET Streams]
      BY <2>1, TimersUpdates DEF TypeOK, ReconnectOpens
    <2> QED
      BY <2>1, <2>2 DEF TypeOK, StateTellsSocket, ReconnectOpens, calling
  <1>5. CASE \E s \in Sockets : SocketFails(s) \/ SocketCloses(s)
    BY <1>5, EndIsOnClose, OnCloseSafe
  <1>6. CASE \E s \in Sockets : SocketCloseBegins(s) \/ InterruptConnect(s)
    BY <1>6 DEF TypeOK, StateTellsSocket, SocketCloseBegins, InterruptConnect,
                streaming, calling
  <1>7. CASE Disconnect
    <2>1. reconnect' \in Timers
      BY <1>7, TimersUpdates DEF TypeOK, Disconnect
    <2>2. /\ sockets' \in
                [Sockets -> {"none", "connecting", "reconnecting", "open", "closing"}]
          /\ pending' \in [Requests -> Calls \cup {NoCall}]
      BY <1>7 DEF TypeOK, Disconnect
    <2>3. calls' \in [Calls -> [req : Requests \cup {NoRequest},
                                status : {"idle", "waiting", "answered", "failed"}]]
      BY <1>7 DEF TypeOK, Disconnect
    <2> QED
      BY <1>7, <2>1, <2>2, <2>3 DEF TypeOK, StateTellsSocket, Disconnect
  <1>8. CASE \E i \in Subs : Subscribe(i) \/ Unsubscribe(i)
    BY <1>8 DEF TypeOK, StateTellsSocket, Subscribe, Unsubscribe, CanSend, connection,
                calling
  <1>9. CASE \E i \in Sessions : NegOpen(i) \/ NegClose(i)
    BY <1>9 DEF TypeOK, StateTellsSocket, NegOpen, NegClose, CanSend, connection,
                calling
  <1>10. CASE \E s \in Sockets, i \in Streams : RelayCloses(s, i)
    BY <1>10 DEF TypeOK, StateTellsSocket, RelayCloses, connection, calling
  <1>11. CASE \E p \in Calls, r \in Requests : Request(p, r)
    BY <1>11 DEF TypeOK, StateTellsSocket, Request, CanSend, connection, streaming
  <1>12. CASE \E s \in Sockets, r \in Requests : Answer(s, r)
    BY <1>12 DEF TypeOK, StateTellsSocket, Answer, connection, streaming
  <1>13. CASE \E p \in Calls : Timeout(p) \/ Interrupt(p) \/ Return(p)
    BY <1>13 DEF TypeOK, StateTellsSocket, Timeout, Interrupt, Return, Idle,
                 connection, streaming
  <1>14. CASE UNCHANGED vars
    BY <1>14 DEF TypeOK, StateTellsSocket, vars, connection, streaming, calling
  <1> QED
    BY <1>1, <1>2, <1>3, <1>4, <1>5, <1>6, <1>7, <1>8, <1>9, <1>10, <1>11, <1>12,
       <1>13, <1>14 DEF Next

-----------------------------------------------------------------------------
(* Streams *)

\* Every step keeps open streams in the maps.
LEMMA ListedStep ==
    ASSUME OpenStreamsListed, [Next]_vars
    PROVE  OpenStreamsListed'
  <1> USE DEF OpenStreamsListed
  <1>1. CASE \E s \in Sockets :
                \/ Connect(s) \/ TimerFires(s) \/ ConnectOpens(s) \/ ReconnectOpens(s)
                \/ SocketCloseBegins(s) \/ InterruptConnect(s)
    BY <1>1 DEF Connect, TimerFires, ConnectOpens, ReconnectOpens, SocketCloseBegins,
                InterruptConnect, streaming
  <1>2. CASE \E s \in Sockets : SocketFails(s) \/ SocketCloses(s)
    BY <1>2 DEF SocketFails, SocketCloses, OnClose
  <1>3. CASE Disconnect
    BY <1>3 DEF Disconnect
  <1>4. CASE \E i \in Subs : Subscribe(i) \/ Unsubscribe(i)
    BY <1>4 DEF Subscribe, Unsubscribe
  <1>5. CASE \E i \in Sessions : NegOpen(i) \/ NegClose(i)
    BY <1>5 DEF NegOpen, NegClose
  <1>6. CASE \E s \in Sockets, i \in Streams : RelayCloses(s, i)
    BY <1>6 DEF RelayCloses
  <1>7. CASE \/ \E p \in Calls, r \in Requests : Request(p, r)
             \/ \E s \in Sockets, r \in Requests : Answer(s, r)
             \/ \E p \in Calls : Timeout(p) \/ Interrupt(p) \/ Return(p)
    BY <1>7 DEF Request, Answer, Timeout, Interrupt, Return, streaming
  <1>8. CASE UNCHANGED vars
    BY <1>8 DEF vars, streaming
  <1> QED
    BY <1>1, <1>2, <1>3, <1>4, <1>5, <1>6, <1>7, <1>8 DEF Next

\* A step that leaves the sockets' fate, the timers and the relay's subscriptions
\* of every other stream alone forgets none of them.
LEMMA NotForgottenByOthers ==
    ASSUME NoStreamForgotten, NEW X,
           \A i \in (streams' \cap Subs) \ X : i \in streams,
           \A s \in Sockets :
              /\ sockets[s] \in {"open", "closing"} =>
                    sockets'[s] \in {"open", "closing"}
              /\ reqs[s] \ X \subseteq reqs'[s]
              /\ sockets[s] = "reconnecting" => sockets'[s] = "reconnecting",
           reconnect' = reconnect
    PROVE  \A i \in (streams' \cap Subs) \ X : Served(i)' \/ Recovering' \/ GaveUp'
  <1> TAKE i \in (streams' \cap Subs) \ X
  <1>1. ASSUME Served(i) PROVE Served(i)'
    <2>1. PICK s \in Sockets : sockets[s] \in {"open", "closing"} /\ i \in reqs[s]
      BY <1>1 DEF Served
    <2>2. sockets'[s] \in {"open", "closing"} /\ i \in reqs'[s]
      BY <2>1
    <2> QED
      BY <2>2 DEF Served
  <1>2. ASSUME Recovering PROVE Recovering'
    <2>1. CASE reconnect.armed \/ reconnect.strays > 0
      BY <2>1 DEF Recovering
    <2>2. CASE \E s \in Sockets : sockets[s] = "reconnecting"
      BY <2>2 DEF Recovering
    <2> QED
      BY <1>2, <2>1, <2>2 DEF Recovering
  <1>3. GaveUp => GaveUp'
    BY DEF GaveUp
  <1> QED
    BY <1>1, <1>2, <1>3 DEF NoStreamForgotten

LEMMA ForgottenStep ==
    ASSUME ConnInv, StreamInv, [Next]_vars
    PROVE  NoStreamForgotten'
  <1> USE DEF ConnInv, StreamInv
  <1>1. CASE \E s \in Sockets : \/ Connect(s) \/ ConnectOpens(s)
                               \/ SocketCloseBegins(s) \/ InterruptConnect(s)
    <2>1. PICK s \in Sockets : \/ Connect(s) \/ ConnectOpens(s)
                              \/ SocketCloseBegins(s) \/ InterruptConnect(s)
      BY <1>1
    <2>2. /\ streams' = streams /\ reqs' = reqs /\ reconnect' = reconnect
          /\ \A t \in Sockets :
                /\ sockets[t] \in {"open", "closing"} =>
                      sockets'[t] \in {"open", "closing"}
                /\ sockets[t] = "reconnecting" => sockets'[t] = "reconnecting"
      BY <2>1 DEF TypeOK, Connect, ConnectOpens, SocketCloseBegins, InterruptConnect,
                  streaming
    <2>3. \A i \in (streams' \cap Subs) \ {} : Served(i)' \/ Recovering' \/ GaveUp'
      BY <2>2, NotForgottenByOthers
    <2> QED
      BY <2>3 DEF NoStreamForgotten
  <1>2. CASE \E s \in Sockets : TimerFires(s)
    <2>1. PICK s \in Sockets : TimerFires(s)
      BY <1>2
    <2>2. sockets'[s] = "reconnecting"
      BY <2>1 DEF TimerFires, TypeOK
    <2> QED
      BY <2>2 DEF NoStreamForgotten, Recovering
  <1>3. CASE \E s \in Sockets : ReconnectOpens(s)
    <2>1. PICK s \in Sockets : ReconnectOpens(s)
      BY <1>3
    <2>2. sockets'[s] = "open" /\ reqs'[s] = subscriptions /\ streams' = streams
      BY <2>1 DEF ReconnectOpens, TypeOK
    <2>3. streams \cap Subs \subseteq subscriptions
      BY RelayServiceAssumption DEF TypeOK, OpenStreamsListed
    <2> QED
      BY <2>2, <2>3 DEF NoStreamForgotten, Served
  <1>4. CASE \E s \in Sockets : SocketFails(s) \/ SocketCloses(s)
    BY <1>4, EndIsOnClose, OnCloseSafe DEF NoStreamForgotten, Recovering
  <1>5. CASE Disconnect
    <2>1. streams' \cap Subs = {}
      BY <1>5, RelayServiceAssumption DEF Disconnect, TypeOK, OpenStreamsListed
    <2> QED
      BY <2>1 DEF NoStreamForgotten
  <1>6. ASSUME NEW i \in Streams, Subscribe(i) \/ NegOpen(i)
        PROVE  NoStreamForgotten'
    <2>1. /\ reconnect' = reconnect /\ sockets' = sockets
          /\ streams' \subseteq streams \cup {i}
          /\ \A s \in Sockets : reqs[s] \subseteq reqs'[s]
      BY <1>6 DEF Subscribe, NegOpen, connection, CanSend, TypeOK
    <2>2. \A j \in (streams' \cap Subs) \ {i} : Served(j)' \/ Recovering' \/ GaveUp'
      BY <2>1, NotForgottenByOthers
    <2>3. i \in streams' => Served(i)'
      <3> SUFFICES ASSUME i \in streams' PROVE Served(i)'
        OBVIOUS
      <3>1. CanSend /\ reqs' = [reqs EXCEPT ![ws] = @ \cup {i}] /\ ws \in Sockets
        BY <1>6 DEF Subscribe, NegOpen, Fresh, CanSend, TypeOK
      <3>2. sockets'[ws] = "open" /\ i \in reqs'[ws]
        BY <3>1, <2>1 DEF CanSend, TypeOK
      <3> QED
        BY <3>1, <3>2 DEF Served
    <2> QED
      BY <2>2, <2>3 DEF NoStreamForgotten
  <1>7. ASSUME NEW i \in Streams,
               \/ Unsubscribe(i) \/ NegClose(i)
               \/ \E s \in Sockets : RelayCloses(s, i)
        PROVE  NoStreamForgotten'
    <2>1. /\ reconnect' = reconnect /\ sockets' = sockets
          /\ streams' = streams \ {i}
          /\ \A s \in Sockets : reqs[s] \ {i} \subseteq reqs'[s]
      BY <1>7 DEF Unsubscribe, NegClose, RelayCloses, connection, CanSend, TypeOK
    <2>2. \A j \in (streams' \cap Subs) \ {i} : Served(j)' \/ Recovering' \/ GaveUp'
      BY <2>1, NotForgottenByOthers
    <2> QED
      BY <2>1, <2>2 DEF NoStreamForgotten
  <1>8. CASE \/ \E p \in Calls, r \in Requests : Request(p, r)
             \/ \E s \in Sockets, r \in Requests : Answer(s, r)
             \/ \E p \in Calls : Timeout(p) \/ Interrupt(p) \/ Return(p)
             \/ UNCHANGED vars
    <2>1. streams' = streams /\ reqs' = reqs /\ reconnect' = reconnect /\ sockets' = sockets
      BY <1>8 DEF Request, Answer, Timeout, Interrupt, Return, vars, connection, streaming
    <2>2. \A i \in (streams' \cap Subs) \ {} : Served(i)' \/ Recovering' \/ GaveUp'
      BY <2>1, NotForgottenByOthers
    <2> QED
      BY <2>2 DEF NoStreamForgotten
  <1> QED
    BY <1>1, <1>2, <1>3, <1>4, <1>5, <1>6, <1>7, <1>8 DEF Next, Streams

-----------------------------------------------------------------------------
(* Calls *)

LEMMA EntriesStep ==
    ASSUME TypeOK, EntriesWait, [Next]_vars
    PROVE  EntriesWait'
  <1> USE RelayServiceAssumption DEF EntriesWait
  <1>1. CASE UNCHANGED <<pending, calls>>
    BY <1>1
  <1>2. CASE Disconnect
    <2> SUFFICES ASSUME NEW r \in Requests, pending'[r] # NoCall
                 PROVE  calls'[pending'[r]] = [req |-> r, status |-> "waiting"]
      OBVIOUS
    <2>1. r \notin Publishes /\ pending'[r] = pending[r]
      BY <1>2 DEF Disconnect
    <2>2. calls[pending[r]] = [req |-> r, status |-> "waiting"] /\ pending[r] \in Calls
      BY <2>1 DEF TypeOK
    <2>3. ~\E q \in Publishes : pending[q] = pending[r]
      <3> SUFFICES ASSUME NEW q \in Publishes, pending[q] = pending[r] PROVE FALSE
        OBVIOUS
      <3>1. calls[pending[r]] = [req |-> q, status |-> "waiting"]
        BY <2>1 DEF Requests
      <3> QED
        BY <2>1, <2>2, <3>1
    <2> QED
      BY <1>2, <2>1, <2>2, <2>3 DEF Disconnect
  <1>3. CASE \E p \in Calls, r \in Requests : Request(p, r)
    <2>1. PICK p \in Calls, r \in Requests : Request(p, r)
      BY <1>3
    <2> SUFFICES ASSUME NEW q \in Requests, pending'[q] # NoCall
                 PROVE  calls'[pending'[q]] = [req |-> q, status |-> "waiting"]
      OBVIOUS
    <2>2. CASE q = r
      BY <2>1, <2>2 DEF Request, TypeOK
    <2>3. CASE q # r
      <3>1. pending'[q] = pending[q] /\ calls[p] = Idle
        BY <2>1, <2>3 DEF Request, TypeOK
      <3>2. calls[pending[q]] = [req |-> q, status |-> "waiting"] /\ pending[q] \in Calls
        BY <3>1 DEF TypeOK
      <3>3. pending[q] # p
        BY <3>1, <3>2 DEF Idle
      <3> QED
        BY <2>1, <3>1, <3>2, <3>3 DEF Request, TypeOK
    <2> QED
      BY <2>2, <2>3
  <1>4. ASSUME NEW p \in Calls, calls[p].status = "waiting", calls[p].req \in Requests,
               \E v : calls' = [calls EXCEPT ![p] = v],
               pending' = [pending EXCEPT ![calls[p].req] = NoCall]
        PROVE  EntriesWait'
    <2> SUFFICES ASSUME NEW q \in Requests, pending'[q] # NoCall
                 PROVE  calls'[pending'[q]] = [req |-> q, status |-> "waiting"]
      OBVIOUS
    <2>1. q # calls[p].req /\ pending'[q] = pending[q]
      BY <1>4 DEF TypeOK
    <2>2. calls[pending[q]] = [req |-> q, status |-> "waiting"] /\ pending[q] \in Calls
      BY <2>1 DEF TypeOK
    <2>3. pending[q] # p
      BY <2>1, <2>2
    <2> QED
      BY <1>4, <2>1, <2>2, <2>3 DEF TypeOK
  <1>5. CASE \E s \in Sockets, r \in Requests : Answer(s, r)
    <2>1. PICK s \in Sockets, r \in Requests : Answer(s, r)
      BY <1>5
    <2>2. CASE pending[r] = NoCall
      BY <2>1, <2>2, <1>1 DEF Answer
    <2>3. CASE pending[r] # NoCall
      <3>1. pending[r] \in Calls /\ calls[pending[r]] = [req |-> r, status |-> "waiting"]
        BY <2>3 DEF TypeOK
      <3>2. /\ calls' = [calls EXCEPT ![pending[r]].status = "answered"]
            /\ pending' = [pending EXCEPT ![r] = NoCall]
        BY <2>1, <2>3 DEF Answer
      <3>3. \E v : calls' = [calls EXCEPT ![pending[r]] = v]
        BY <3>2
      <3>4. calls[pending[r]].status = "waiting" /\ calls[pending[r]].req = r
        BY <3>1
      <3> HIDE DEF EntriesWait
      <3> QED
        BY <3>1, <3>2, <3>3, <3>4, <1>4
    <2> QED
      BY <2>2, <2>3
  <1>6. ASSUME NEW p \in Calls, Timeout(p) \/ Interrupt(p)
        PROVE  EntriesWait'
    <2>1. /\ calls[p].status = "waiting"
          /\ \E v : calls' = [calls EXCEPT ![p] = v]
          /\ pending' = [pending EXCEPT ![calls[p].req] = NoCall]
      BY <1>6 DEF Timeout, Interrupt
    <2>2. CASE calls[p].req \in Requests
      BY <2>1, <2>2, <1>4
    <2>3. CASE calls[p].req \notin Requests
      <3> SUFFICES ASSUME NEW q \in Requests, pending'[q] # NoCall
                   PROVE  calls'[pending'[q]] = [req |-> q, status |-> "waiting"]
        OBVIOUS
      <3>1. pending' = pending
        BY <2>1, <2>3 DEF TypeOK
      <3>2. calls[pending[q]] = [req |-> q, status |-> "waiting"] /\ pending[q] # p
        BY <3>1, <2>3
      <3> QED
        BY <2>1, <3>1, <3>2 DEF TypeOK
    <2> QED
      BY <2>2, <2>3
  <1>7. CASE \E p \in Calls : Return(p)
    <2>1. PICK p \in Calls : Return(p)
      BY <1>7
    <2> SUFFICES ASSUME NEW q \in Requests, pending'[q] # NoCall
                 PROVE  calls'[pending'[q]] = [req |-> q, status |-> "waiting"]
      OBVIOUS
    <2>2. pending' = pending /\ pending[q] \in Calls
      BY <2>1 DEF Return, TypeOK
    <2>3. calls[pending[q]] = [req |-> q, status |-> "waiting"]
      BY <2>2
    <2>4. pending[q] # p
      BY <2>1, <2>3 DEF Return
    <2> QED
      BY <2>1, <2>2, <2>3, <2>4 DEF Return, TypeOK
  <1>8. CASE \/ \E s \in Sockets :
                   \/ Connect(s) \/ TimerFires(s) \/ ConnectOpens(s) \/ ReconnectOpens(s)
                   \/ SocketFails(s) \/ SocketCloses(s)
                   \/ SocketCloseBegins(s) \/ InterruptConnect(s)
             \/ \E i \in Subs : Subscribe(i) \/ Unsubscribe(i)
             \/ \E i \in Sessions : NegOpen(i) \/ NegClose(i)
             \/ \E s \in Sockets, i \in Streams : RelayCloses(s, i)
             \/ UNCHANGED vars
    <2>1. UNCHANGED <<pending, calls>>
      BY <1>8 DEF Connect, TimerFires, ConnectOpens, ReconnectOpens, SocketFails,
                  SocketCloses, OnClose, SocketCloseBegins, InterruptConnect, Subscribe,
                  Unsubscribe, NegOpen, NegClose, RelayCloses, calling, vars
    <2> QED
      BY <2>1, <1>1
  <1> QED
    BY <1>2, <1>3, <1>5, <1>6, <1>7, <1>8 DEF Next

AnswerIsOwn ==
    \A p \in Calls :
        (calls[p].status = "waiting" /\ calls'[p].status = "answered") =>
            \E s \in Sockets :
                calls[p].req \in unanswered[s] /\ calls[p].req \notin unanswered'[s]

\* Only Answer makes a waiting call answered, and the entry it follows is the
\* call's own.
LEMMA AnswerStep ==
    ASSUME TypeOK, EntriesWait, [Next]_vars
    PROVE  AnswerIsOwn
  <1> SUFFICES ASSUME NEW p \in Calls,
                      calls[p].status = "waiting", calls'[p].status = "answered"
               PROVE  \E s \in Sockets : /\ calls[p].req \in unanswered[s]
                                         /\ calls[p].req \notin unanswered'[s]
    BY DEF AnswerIsOwn
  <1>1. ASSUME NEW s \in Sockets, NEW r \in Requests, Answer(s, r)
        PROVE  calls[p].req \in unanswered[s] /\ calls[p].req \notin unanswered'[s]
    <2>1. pending[r] # NoCall /\ calls' = [calls EXCEPT ![pending[r]].status = "answered"]
      BY <1>1 DEF Answer
    <2>2. p = pending[r]
      BY <2>1 DEF TypeOK
    <2>3. calls[p] = [req |-> r, status |-> "waiting"]
      BY <2>1, <2>2 DEF EntriesWait
    <2>4. calls[p].req = r
      BY <2>3
    <2> QED
      BY <1>1, <2>4 DEF Answer, TypeOK
  <1>2. CASE Disconnect
    <2>1. calls'[p] = calls[p] \/ calls'[p] = [calls[p] EXCEPT !.status = "failed"]
      BY <1>2 DEF Disconnect
    <2> QED
      BY <2>1 DEF TypeOK
  <1>3. CASE \E q \in Calls, r \in Requests : Request(q, r)
    BY <1>3 DEF Request, TypeOK, Idle
  <1>4. CASE \E q \in Calls : Timeout(q) \/ Interrupt(q) \/ Return(q)
    BY <1>4 DEF Timeout, Interrupt, Return, TypeOK, Idle
  <1>5. CASE calls' = calls
    BY <1>5
  <1>6. CASE \/ \E s \in Sockets :
                   \/ Connect(s) \/ TimerFires(s) \/ ConnectOpens(s) \/ ReconnectOpens(s)
                   \/ SocketFails(s) \/ SocketCloses(s)
                   \/ SocketCloseBegins(s) \/ InterruptConnect(s)
             \/ \E i \in Subs : Subscribe(i) \/ Unsubscribe(i)
             \/ \E i \in Sessions : NegOpen(i) \/ NegClose(i)
             \/ \E s \in Sockets, i \in Streams : RelayCloses(s, i)
             \/ UNCHANGED vars
    <2>1. calls' = calls
      BY <1>6 DEF Connect, TimerFires, ConnectOpens, ReconnectOpens, SocketFails,
                  SocketCloses, OnClose, SocketCloseBegins, InterruptConnect, Subscribe,
                  Unsubscribe, NegOpen, NegClose, RelayCloses, calling, vars
    <2> QED
      BY <2>1
  <1> QED
    BY <1>1, <1>2, <1>3, <1>4, <1>6 DEF Next

-----------------------------------------------------------------------------
(* The theorems *)

\* The invariant holds in every reachable state.
THEOREM ClientInvariance == Spec => []IInv
  <1>1. Init => IInv
    BY RelayServiceAssumption
    DEF Init, IInv, ConnInv, StreamInv, TypeOK, Timers, Idle, StateTellsSocket,
        OpenStreamsListed, NoStreamForgotten, EntriesWait
  <1>2. IInv /\ [Next]_vars => IInv'
    BY ConnStep, ListedStep, ForgottenStep, EntriesStep DEF IInv, ConnInv, StreamInv
  <1> QED
    BY <1>1, <1>2, PTL DEF Spec

\* Every variable of the connection keeps its type, whatever callbacks run.
THEOREM ClientTypes == Spec => []TypeOK
  <1>1. IInv => TypeOK
    BY DEF IInv, ConnInv
  <1> QED
    BY <1>1, ClientInvariance, PTL

\* connectionState() says "connected" exactly when there is a socket to send on.
THEOREM StateIsSocket == Spec => []StateTellsSocket
  <1>1. IInv => StateTellsSocket
    BY DEF IInv, ConnInv
  <1> QED
    BY <1>1, ClientInvariance, PTL

\* No reader is left on a queue that no map knows.
THEOREM StreamsListed == Spec => []OpenStreamsListed
  <1>1. IInv => OpenStreamsListed
    BY DEF IInv, StreamInv
  <1> QED
    BY <1>1, ClientInvariance, PTL

\* Reconnection forgets no open subscription until it gives up.
THEOREM StreamsRemembered == Spec => []NoStreamForgotten
  <1>1. IInv => NoStreamForgotten
    BY DEF IInv, StreamInv
  <1> QED
    BY <1>1, ClientInvariance, PTL

\* The maps hold entries of waiting calls only.
THEOREM EntriesAreWaiting == Spec => []EntriesWait
  <1>1. IInv => EntriesWait
    BY DEF IInv
  <1> QED
    BY <1>1, ClientInvariance, PTL

\* Only the relay's answer to a call's own request answers it.
THEOREM AnswersAreOwn == Spec => AnswersMatch
  <1>1. IInv /\ [Next]_vars => [AnswerIsOwn]_vars
    BY AnswerStep DEF IInv, ConnInv
  <1> QED
    BY <1>1, ClientInvariance, PTL DEF Spec, AnswersMatch, AnswerIsOwn
=============================================================================
