---------------------------- MODULE RelayService ----------------------------
(****************************************************************************)
(* One client's connection to one relay: client/RelayService.ts.  Its state *)
(* is plain JavaScript that the callers' fibers, the callbacks of every     *)
(* WebSocket it ever created and its timers all change.  A callback and the *)
(* continuation it resumes (a microtask) are one action.                    *)
(*                                                                          *)
(* Sockets are slots: a WebSocket that is gone leaves its slot to the next. *)
(* The relay is on the other end of each of them and may answer in any      *)
(* order, or not at all.  What the streams carry is left out.               *)
(*                                                                          *)
(* "Mutant" marks a deliberate mistake, used only to show which property    *)
(* notices it.                                                              *)
(****************************************************************************)
EXTENDS Integers

CONSTANTS
    Sockets,        \* bound on the WebSockets that exist at a time
    NoSocket,       \* ws = null
    Subs,           \* subscriptions; generated ids are fresh
    Sessions,       \* negentropy sessions, likewise
    Publishes,      \* ids of events to publish
    Counts,         \* ids of COUNT requests
    Calls,          \* calls of publish() and count() at a time
    NoCall,         \* no entry in pendingOks or pendingCounts
    NoRequest,      \* what an idle call waits for
    AutoReconnect,  \* config.reconnect
    MaxAttempts,    \* config.maxReconnectAttempts
    MaxStrays       \* bound on the armed timers no handle refers to

ASSUME RelayServiceAssumption ==
    /\ NoSocket \notin Sockets
    /\ Subs \cap Sessions = {}
    /\ Publishes \cap Counts = {}
    /\ NoCall \notin Calls
    /\ NoRequest \notin Publishes \cup Counts
    /\ AutoReconnect \in BOOLEAN
    /\ MaxAttempts \in Nat
    /\ MaxStrays \in Nat

Streams == Subs \cup Sessions
Requests == Publishes \cup Counts

VARIABLES
    state,          \* what connectionState() tells
    ws,             \* the socket messages are sent on
    sockets,        \* readyState, CONNECTING split by what awaits it
    reconnect,      \* attempts; armed: reconnectTimeout is an armed timer;
                    \*   strays: armed timers whose handle was overwritten
    subscriptions,  \* keys of the subscriptions map
    negQueues,      \* keys of the negQueues map
    streams,        \* streams a caller holds whose queue is not shut down
    pending,        \* pendingOks and pendingCounts: the call that is told
    calls,          \* publish() and count() calls
    reqs,           \* at the relay: the subscriptions and sessions of a socket
    unanswered,     \* at the relay: the EVENTs and COUNTs of a socket
    wish            \* history: the last of connect() and disconnect()

connection == <<state, ws, sockets, reconnect>>
streaming == <<subscriptions, negQueues, streams, reqs>>
calling == <<pending, calls, unanswered>>
vars == <<connection, streaming, calling, wish>>

Timers == [attempts : 0..MaxAttempts, armed : BOOLEAN, strays : 0..MaxStrays]

Idle == [req |-> NoRequest, status |-> "idle"]

TypeOK ==
    /\ state \in {"disconnected", "connecting", "connected"}
    /\ ws \in Sockets \cup {NoSocket}
    /\ sockets \in
          [Sockets -> {"none", "connecting", "reconnecting", "open", "closing"}]
    /\ reconnect \in Timers
    /\ subscriptions \subseteq Subs
    /\ negQueues \subseteq Sessions
    /\ streams \subseteq Streams
    /\ pending \in [Requests -> Calls \cup {NoCall}]
    /\ calls \in [Calls -> [req : Requests \cup {NoRequest},
                            status : {"idle", "waiting", "answered", "failed"}]]
    /\ reqs \in [Sockets -> SUBSET Streams]
    /\ unanswered \in [Sockets -> SUBSET Requests]
    /\ wish \in {"up", "down"}

Init ==
    /\ state = "disconnected"
    /\ ws = NoSocket
    /\ sockets = [s \in Sockets |-> "none"]
    /\ reconnect = [attempts |-> 0, armed |-> FALSE, strays |-> 0]
    /\ subscriptions = {}
    /\ negQueues = {}
    /\ streams = {}
    /\ pending = [r \in Requests |-> NoCall]
    /\ calls = [p \in Calls |-> Idle]
    /\ reqs = [s \in Sockets |-> {}]
    /\ unanswered = [s \in Sockets |-> {}]
    /\ wish = "down"

CanSend == ws # NoSocket /\ sockets[ws] = "open"

-----------------------------------------------------------------------------
(* Connecting *)

\* Mutant: one attempt more than the configuration allows.
ScheduleOnceMore(r) ==
    IF AutoReconnect /\ r.attempts <= MaxAttempts
    THEN [attempts |-> r.attempts + 1,
          armed    |-> TRUE,
          strays   |-> IF r.armed THEN r.strays + 1 ELSE r.strays]
    ELSE r

\* scheduleReconnect: the handle of a timer still armed is overwritten.
Schedule(r) ==
    IF AutoReconnect /\ r.attempts < MaxAttempts
    THEN [attempts |-> r.attempts + 1,
          armed    |-> TRUE,
          strays   |-> IF r.armed THEN r.strays + 1 ELSE r.strays]
    ELSE r

\* connect: it returns at once only if connected.
Connect(s) ==
    /\ state # "connected"
    /\ sockets[s] = "none"
    /\ state' = "connecting"
    /\ sockets' = [sockets EXCEPT ![s] = "connecting"]
    /\ wish' = "up"
    /\ UNCHANGED <<ws, reconnect, streaming, calling>>

\* The timer's callback; the handle itself keeps its value, which does nothing.
TimerFires(s) ==
    /\ sockets[s] = "none"
    /\ \/ /\ reconnect.armed
          /\ reconnect' = [reconnect EXCEPT !.armed = FALSE]
       \/ /\ reconnect.strays > 0
          /\ reconnect' = [reconnect EXCEPT !.strays = @ - 1]
    /\ sockets' = [sockets EXCEPT ![s] = "reconnecting"]
    /\ UNCHANGED <<state, ws, streaming, calling, wish>>

\* onopen of a socket that connect() waits for.
ConnectOpens(s) ==
    /\ sockets[s] = "connecting"
    /\ sockets' = [sockets EXCEPT ![s] = "open"]
    /\ ws' = s
    /\ state' = "connected"
    /\ UNCHANGED <<reconnect, streaming, calling, wish>>

\* Mutant: the subscriptions are not sent again.
ReopenOnly(s) ==
    /\ sockets[s] = "reconnecting"
    /\ sockets' = [sockets EXCEPT ![s] = "open"]
    /\ ws' = s
    /\ state' = "connected"
    /\ reconnect' = [reconnect EXCEPT !.attempts = 0]
    /\ UNCHANGED <<streaming, calling, wish>>

\* onopen of a socket a timer created, and what the timer does then.
ReconnectOpens(s) ==
    /\ sockets[s] = "reconnecting"
    /\ sockets' = [sockets EXCEPT ![s] = "open"]
    /\ ws' = s
    /\ state' = "connected"
    /\ reconnect' = [reconnect EXCEPT !.attempts = 0]
    /\ reqs' = [reqs EXCEPT ![s] = subscriptions]
    /\ UNCHANGED <<subscriptions, negQueues, streams, calling, wish>>

\* Mutant: a socket forgets ws only if it is ws itself, state in any case.
OnCloseOfOwn(s, r) ==
    /\ Schedule(r).strays <= MaxStrays
    /\ reconnect' = Schedule(r)
    /\ ws' = IF ws = s THEN NoSocket ELSE ws
    /\ state' = "disconnected"
    /\ sockets' = [sockets EXCEPT ![s] = "none"]
    /\ reqs' = [reqs EXCEPT ![s] = {}]
    /\ unanswered' = [unanswered EXCEPT ![s] = {}]
    /\ UNCHANGED <<subscriptions, negQueues, streams, pending, calls, wish>>

\* onclose, of whichever socket.
OnClose(s, r) ==
    /\ Schedule(r).strays <= MaxStrays
    /\ reconnect' = Schedule(r)
    /\ ws' = NoSocket
    /\ state' = "disconnected"
    /\ sockets' = [sockets EXCEPT ![s] = "none"]
    /\ reqs' = [reqs EXCEPT ![s] = {}]
    /\ unanswered' = [unanswered EXCEPT ![s] = {}]
    /\ UNCHANGED <<subscriptions, negQueues, streams, pending, calls, wish>>

\* A connection fails: onerror, then onclose.  A timer's attempt schedules the
\* next in both.
SocketFails(s) ==
    \/ sockets[s] = "connecting" /\ OnClose(s, reconnect)
    \/ sockets[s] = "reconnecting" /\ OnClose(s, Schedule(reconnect))

SocketCloses(s) == sockets[s] \in {"open", "closing"} /\ OnClose(s, reconnect)

\* The relay or the network ends it: CLOSING until onclose runs.
SocketCloseBegins(s) ==
    /\ sockets[s] = "open"
    /\ sockets' = [sockets EXCEPT ![s] = "closing"]
    /\ UNCHANGED <<state, ws, reconnect, streaming, calling, wish>>

\* The fiber in connect() is interrupted: the socket is closed.
InterruptConnect(s) ==
    /\ sockets[s] = "connecting"
    /\ sockets' = [sockets EXCEPT ![s] = "closing"]
    /\ UNCHANGED <<state, ws, reconnect, streaming, calling, wish>>

\* Mutant: the queues of the subscriptions are not shut down.
DisconnectQuietly ==
    /\ reconnect' = [attempts |-> 0, armed |-> FALSE, strays |-> reconnect.strays]
    /\ sockets' = [s \in Sockets |-> IF s = ws THEN "closing" ELSE sockets[s]]
    /\ ws' = NoSocket
    /\ subscriptions' = {}
    /\ pending' = [r \in Requests |-> IF r \in Publishes THEN NoCall ELSE pending[r]]
    /\ calls' = [p \in Calls |->
                    IF \E r \in Publishes : pending[r] = p
                    THEN [calls[p] EXCEPT !.status = "failed"] ELSE calls[p]]
    /\ state' = "disconnected"
    /\ wish' = "down"
    /\ UNCHANGED <<streams, negQueues, reqs, unanswered>>

\* disconnect: counts and negentropy sessions are left as they are.
Disconnect ==
    /\ reconnect' = [attempts |-> 0, armed |-> FALSE, strays |-> reconnect.strays]
    /\ sockets' = [s \in Sockets |-> IF s = ws THEN "closing" ELSE sockets[s]]
    /\ ws' = NoSocket
    /\ streams' = streams \ subscriptions
    /\ subscriptions' = {}
    /\ pending' = [r \in Requests |-> IF r \in Publishes THEN NoCall ELSE pending[r]]
    /\ calls' = [p \in Calls |->
                    IF \E r \in Publishes : pending[r] = p
                    THEN [calls[p] EXCEPT !.status = "failed"] ELSE calls[p]]
    /\ state' = "disconnected"
    /\ wish' = "down"
    /\ UNCHANGED <<negQueues, reqs, unanswered>>

-----------------------------------------------------------------------------
(* Streams *)

\* No map and no relay knows the id: a generated one.
Fresh(i) ==
    /\ i \notin subscriptions \cup negQueues \cup streams
    /\ \A s \in Sockets : i \notin reqs[s]

\* subscribe registers, then sends; when that fails the caller has no handle
\* and the entry stays.
Subscribe(i) ==
    /\ state = "connected"
    /\ Fresh(i)
    /\ subscriptions' = subscriptions \cup {i}
    /\ \/ /\ CanSend
          /\ streams' = streams \cup {i}
          /\ reqs' = [reqs EXCEPT ![ws] = @ \cup {i}]
       \/ ~CanSend /\ UNCHANGED <<streams, reqs>>
    /\ UNCHANGED <<connection, negQueues, calling, wish>>

\* unsubscribe: that CLOSE could not be sent is ignored.
Unsubscribe(i) ==
    /\ i \in streams
    /\ subscriptions' = subscriptions \ {i}
    /\ streams' = streams \ {i}
    /\ reqs' = [s \in Sockets |-> IF CanSend /\ s = ws THEN reqs[s] \ {i} ELSE reqs[s]]
    /\ UNCHANGED <<connection, negQueues, calling, wish>>

\* negOpen, likewise.
NegOpen(i) ==
    /\ state = "connected"
    /\ Fresh(i)
    /\ negQueues' = negQueues \cup {i}
    /\ \/ /\ CanSend
          /\ streams' = streams \cup {i}
          /\ reqs' = [reqs EXCEPT ![ws] = @ \cup {i}]
       \/ ~CanSend /\ UNCHANGED <<streams, reqs>>
    /\ UNCHANGED <<connection, subscriptions, calling, wish>>

\* close of a session: nothing happens when NEG-CLOSE cannot be sent.
NegClose(i) ==
    /\ i \in streams
    /\ CanSend
    /\ negQueues' = negQueues \ {i}
    /\ streams' = streams \ {i}
    /\ reqs' = [reqs EXCEPT ![ws] = @ \ {i}]
    /\ UNCHANGED <<connection, subscriptions, calling, wish>>

\* CLOSED and NEG-ERR, on any socket that still delivers.
RelayCloses(s, i) ==
    /\ sockets[s] = "open"
    /\ i \in reqs[s]
    /\ subscriptions' = subscriptions \ {i}
    /\ negQueues' = negQueues \ {i}
    /\ streams' = streams \ {i}
    /\ reqs' = [reqs EXCEPT ![s] = @ \ {i}]
    /\ UNCHANGED <<connection, calling, wish>>

-----------------------------------------------------------------------------
(* publish and count *)

\* The message is sent and the call enters the map, over an entry that another
\* call made for the same id.
Request(p, r) ==
    /\ calls[p] = Idle
    /\ CanSend
    /\ calls' = [calls EXCEPT ![p] = [req |-> r, status |-> "waiting"]]
    /\ pending' = [pending EXCEPT ![r] = p]
    /\ unanswered' = [unanswered EXCEPT ![ws] = @ \cup {r}]
    /\ UNCHANGED <<connection, streaming, wish>>

\* Mutant: the answer goes to whichever call waits.
AnswerAnyone(s, r) ==
    /\ sockets[s] = "open"
    /\ r \in unanswered[s]
    /\ unanswered' = [unanswered EXCEPT ![s] = @ \ {r}]
    /\ \E q \in Requests :
          /\ pending[q] # NoCall
          /\ calls' = [calls EXCEPT ![pending[q]].status = "answered"]
          /\ pending' = [pending EXCEPT ![q] = NoCall]
    /\ UNCHANGED <<connection, streaming, wish>>

\* OK and COUNT from the relay: the call in the map, if any, is answered.
Answer(s, r) ==
    /\ sockets[s] = "open"
    /\ r \in unanswered[s]
    /\ unanswered' = [unanswered EXCEPT ![s] = @ \ {r}]
    /\ \/ /\ pending[r] # NoCall
          /\ calls' = [calls EXCEPT ![pending[r]].status = "answered"]
          /\ pending' = [pending EXCEPT ![r] = NoCall]
       \/ pending[r] = NoCall /\ UNCHANGED <<calls, pending>>
    /\ UNCHANGED <<connection, streaming, wish>>

\* Mutants: a timeout tells its call only if the map still has it; it leaves
\* the entry behind.
TimeoutIfListed(p) ==
    /\ calls[p].status = "waiting"
    /\ pending[calls[p].req] = p
    /\ calls' = [calls EXCEPT ![p].status = "failed"]
    /\ pending' = [pending EXCEPT ![calls[p].req] = NoCall]
    /\ UNCHANGED <<connection, streaming, unanswered, wish>>

TimeoutBeside(p) ==
    /\ calls[p].status = "waiting"
    /\ calls' = [calls EXCEPT ![p].status = "failed"]
    /\ UNCHANGED <<connection, streaming, pending, unanswered, wish>>

\* A call's own timer: it fails, and the entry of its id goes, whoever made it.
Timeout(p) ==
    /\ calls[p].status = "waiting"
    /\ calls' = [calls EXCEPT ![p].status = "failed"]
    /\ pending' = [pending EXCEPT ![calls[p].req] = NoCall]
    /\ UNCHANGED <<connection, streaming, unanswered, wish>>

\* The caller's fiber is interrupted: the cleanup of waitForOk and count.
Interrupt(p) ==
    /\ calls[p].status = "waiting"
    /\ calls' = [calls EXCEPT ![p] = Idle]
    /\ pending' = [pending EXCEPT ![calls[p].req] = NoCall]
    /\ UNCHANGED <<connection, streaming, unanswered, wish>>

\* The caller goes on.
Return(p) ==
    /\ calls[p].status \in {"answered", "failed"}
    /\ calls' = [calls EXCEPT ![p] = Idle]
    /\ UNCHANGED <<connection, streaming, pending, unanswered, wish>>

-----------------------------------------------------------------------------

Next ==
    \/ \E s \in Sockets : Connect(s)
    \/ \E s \in Sockets : TimerFires(s)
    \/ \E s \in Sockets : ConnectOpens(s)
    \/ \E s \in Sockets : ReconnectOpens(s)
    \/ \E s \in Sockets : SocketFails(s)
    \/ \E s \in Sockets : SocketCloses(s)
    \/ \E s \in Sockets : SocketCloseBegins(s)
    \/ \E s \in Sockets : InterruptConnect(s)
    \/ Disconnect
    \/ \E i \in Subs : Subscribe(i)
    \/ \E i \in Subs : Unsubscribe(i)
    \/ \E i \in Sessions : NegOpen(i)
    \/ \E i \in Sessions : NegClose(i)
    \/ \E s \in Sockets, i \in Streams : RelayCloses(s, i)
    \/ \E p \in Calls, r \in Requests : Request(p, r)
    \/ \E s \in Sockets, r \in Requests : Answer(s, r)
    \/ \E p \in Calls : Timeout(p)
    \/ \E p \in Calls : Interrupt(p)
    \/ \E p \in Calls : Return(p)

Spec == Init /\ [][Next]_vars

\* setTimeout fires; nothing is assumed of the relay or of the callers.
FairSpec == Spec /\ \A p \in Calls : WF_vars(Timeout(p))

-----------------------------------------------------------------------------
(* Correctness *)

\* connectionState() tells whether there is a socket to send on, however many
\* sockets open and close behind it.
StateTellsSocket == state = "connected" <=> ws # NoSocket

\* A stream a caller reads is in the maps: whatever ends it (CLOSED, NEG-ERR,
\* disconnect) finds its queue, so no reader is left on a queue nobody knows.
OpenStreamsListed == streams \subseteq subscriptions \cup negQueues

Served(i) ==
    \E s \in Sockets : sockets[s] \in {"open", "closing"} /\ i \in reqs[s]

Recovering ==
    \/ reconnect.armed
    \/ reconnect.strays > 0
    \/ \E s \in Sockets : sockets[s] = "reconnecting"

GaveUp == ~AutoReconnect \/ reconnect.attempts = MaxAttempts

\* No subscription is forgotten by a reconnection: an open subscription is
\* known to the relay on some socket, or an attempt that will send it again is
\* on its way, unless all attempts are used up.
NoStreamForgotten ==
    \A i \in streams \cap Subs : Served(i) \/ Recovering \/ GaveUp

\* The maps hold no entry of a call that is over: what a timeout, an answer, an
\* interruption or a disconnect ends never stays to swallow a later answer.
EntriesWait ==
    \A r \in Requests :
        pending[r] # NoCall => calls[pending[r]] = [req |-> r, status |-> "waiting"]

\* A call is answered only by the relay's answer to its own request.
AnswersMatch ==
    [][\A p \in Calls :
          (calls[p].status = "waiting" /\ calls'[p].status = "answered") =>
              \E s \in Sockets :
                  calls[p].req \in unanswered[s] /\ calls[p].req \notin unanswered'[s]]_vars

\* Every publish() and count() ends, whatever becomes of the connection and of
\* other calls for the same id.
CallsEnd == \A p \in Calls : calls[p].status = "waiting" ~> calls[p].status # "waiting"

\* After disconnect(), which says "Cancel reconnection", no socket is created
\* until connect() is called.
DisconnectStays ==
    [][\A s \in Sockets :
          (wish = "down" /\ wish' = "down" /\ sockets[s] = "none")
              => sockets'[s] = "none"]_vars

=============================================================================
