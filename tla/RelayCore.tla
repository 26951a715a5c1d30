------------------------------ MODULE RelayCore ------------------------------
(****************************************************************************)
(* What the relay does with a client message, whatever the backend:         *)
(* relay/core/MessageHandler.ts over SubscriptionManager.ts, NipRegistry.ts *)
(* and an EventStore, in the default assembly of relay/index.ts (registry,  *)
(* no AuthService, rate limiter off).  One handler runs to completion       *)
(* before the next message is looked at (runSync on Bun; on a Durable       *)
(* Object the effect is synchronous and its continuation is a microtask),   *)
(* so one message is one action.  A backend supplies the queries:           *)
(* BunRelay and DoRelay extend this module.                                 *)
(*                                                                          *)
(* With StatementsFail, SQLite may refuse a statement at any moment.        *)
(****************************************************************************)
EXTENDS EventStore, FiniteSets

CONSTANTS
    Conn,         \* slots for live sockets; connection ids are never reused,
                  \* so a slot that opens again starts from nothing
    SubId,        \* subscription ids the clients choose
    FilterLists,  \* the filter lists of REQ messages, as sequences
    NoSub,        \* no such subscription
    Invalid,      \* events NIP-01's policies refuse (signature, size, tags)
    Nip42Loaded,  \* whether createNip42Module is among the modules
    StatementsFail,  \* whether a statement may fail (disk full, locked, I/O)
    NoActor,      \* no EVENT was handled
    NoVersion,    \* an empty slot of the abstract register
    MaxTime       \* bound on the clock

ASSUME RelayAssumption ==
    /\ NoSub \notin FilterLists
    /\ \A filters \in FilterLists : filters = << >> \/ 1 \in DOMAIN filters
    /\ Invalid \subseteq Events
    /\ Nip42Loaded \in BOOLEAN
    /\ StatementsFail \in BOOLEAN
    /\ MaxTime \in Nat
    /\ \A e \in Events : e.pubkey # NoActor
    /\ NoVersion \notin Events

VARIABLES
    store,          \* rows of the events table, on disk
    now,            \* the clock the expiry tests read
    connections,    \* sockets the server can send to
    subscriptions,  \* SubscriptionManager's nested map
    delivered,      \* history: events framed to a subscription since its REQ
    eose,           \* history: subscriptions whose REQ was answered to its EOSE
    offered,        \* history: events answered OK true since their slot was
                    \*   last cleared by a deletion
    torn,           \* history: slots whose replacement stopped half way
    actor           \* history: author of the EVENT the last step handled

vars == <<store, now, connections, subscriptions, delivered, eose, offered, torn,
          actor>>

Keys == Conn \X SubId
SlotSet == {Slot(e) : e \in Events}
Authors == {e.pubkey : e \in Events}

TypeOK ==
    /\ store \subseteq Events
    /\ now \in 0..MaxTime
    /\ connections \subseteq Conn
    /\ subscriptions \in [Keys -> FilterLists \cup {NoSub}]
    /\ delivered \in [Keys -> SUBSET Events]
    /\ eose \subseteq Keys
    /\ offered \subseteq Events
    /\ torn \subseteq SlotSet
    /\ actor \in Authors \cup {NoActor}

Init ==
    /\ store = {}
    /\ now = 0
    /\ connections = {}
    /\ subscriptions = [k \in Keys |-> NoSub]
    /\ delivered = [k \in Keys |-> {}]
    /\ eose = {}
    /\ offered = {}
    /\ torn = {}
    /\ actor = NoActor

-----------------------------------------------------------------------------
(* Policies: NIP-01's and NIP-40's modules handle every kind, in that order; *)
(* the first that does not accept decides (policy/Policy.ts "all").          *)

Decision(e) ==
    IF e \in Invalid \/ Expired(e, now) THEN "Reject"
    ELSE IF Nip42Loaded /\ e.kind = AuthKind THEN "Shadow"
    ELSE "Accept"

\* NIP-70: without an AuthService a protected event is always refused.
Admitted(e) == Decision(e) = "Accept" /\ ~e.protected

\* Mutant: only the first filter of a subscription is looked at.
ReceivesByFirstFilter(k, e) ==
    /\ k[1] \in connections
    /\ subscriptions[k] # NoSub
    /\ subscriptions[k] # << >>
    /\ MatchesFilter(e, subscriptions[k][1])

\* getMatchingSubscriptions, then sendToConnection, which needs the socket.
Receives(k, e) ==
    /\ k[1] \in connections
    /\ subscriptions[k] # NoSub
    /\ MatchesFilters(e, subscriptions[k])

Broadcast(e) ==
    [k \in Keys |-> IF Receives(k, e) THEN delivered[k] \cup {e}
                                      ELSE delivered[k]]

\* Mutant: ORDER BY created_at without DESC.
OldestFirst(rows, n) ==
    IF n = NoLimit \/ Cardinality(rows) <= n THEN {rows}
    ELSE {R \in SUBSET rows :
             /\ Cardinality(R) = n
             /\ \A x \in rows \ R, r \in R : x.created_at >= r.created_at}

\* The first n of the rows in ORDER BY created_at DESC; ties in any order.
NewestFirst(rows, n) ==
    IF n = NoLimit \/ Cardinality(rows) <= n THEN {rows}
    ELSE {R \in SUBSET rows :
             /\ Cardinality(R) = n
             /\ \A x \in rows \ R, r \in R : x.created_at <= r.created_at}

-----------------------------------------------------------------------------
(* EVENT *)

\* The rows a series of deletions removes: one that fails is ignored and the
\* rest goes on (Effect.ignore).
Deletions(targets) == IF StatementsFail THEN SUBSET targets ELSE {targets}

\* handleEvent up to its answer.  "targets" are the rows that the deletions of
\* a kind 5 or kind 62 event find.  The event is then stored by its kind and,
\* when that stored it, framed to every matching subscription, the sender's
\* own included.
HandleEvent(c, e, targets) ==
    /\ c \in connections
    /\ Admitted(e)
    /\ \E D \in Deletions(targets) :
          LET result == Treat(store \ D, e)
          IN  /\ store' = result.rows
              /\ delivered' = IF result.stored THEN Broadcast(e) ELSE delivered
              /\ offered' = {x \in offered : Slot(x) \notin SlotsOf(D)} \cup {e}
              /\ torn' = torn \ SlotsOf(D)
    /\ actor' = e.pubkey
    /\ UNCHANGED <<now, connections, subscriptions, eose>>

\* A statement of the handler fails, or the process is about to die in it:
\* what was deleted stays deleted, a replacement may have run its DELETE and
\* not its INSERT, nothing is framed and the answer is a NOTICE.
FailEvent(c, e, targets) ==
    /\ StatementsFail
    /\ c \in connections
    /\ Admitted(e)
    /\ \E D \in SUBSET targets :
       \E lost \in {{}, Displaced(store \ D, e)} :
          /\ store' = (store \ D) \ lost
          /\ offered' = {x \in offered : Slot(x) \notin SlotsOf(D)}
          /\ torn' = (torn \ SlotsOf(D)) \cup SlotsOf(lost)
    /\ actor' = e.pubkey
    /\ UNCHANGED <<now, connections, subscriptions, delivered, eose>>

\* Rejected, shadowed or protected: an answer and nothing else.
RefuseEvent(c, e) ==
    /\ c \in connections
    /\ ~Admitted(e)
    /\ actor' = NoActor
    /\ UNCHANGED <<store, now, connections, subscriptions, delivered, eose, offered,
                   torn>>

-----------------------------------------------------------------------------
(* REQ and CLOSE *)

\* handleReq registers first, replacing a subscription of the same id, and
\* answers with what the query finds, then EOSE.
HandleReq(c, s, filters, found) ==
    /\ c \in connections
    /\ subscriptions' = [subscriptions EXCEPT ![<<c, s>>] = filters]
    /\ \E R \in found : delivered' = [delivered EXCEPT ![<<c, s>>] = R]
    /\ eose' = eose \cup {<<c, s>>}
    /\ actor' = NoActor
    /\ UNCHANGED <<store, now, connections, offered, torn>>

\* The query fails: the answer is a NOTICE, without an EVENT or an EOSE, but
\* the subscription has been registered.
FailReq(c, s, filters) ==
    /\ StatementsFail
    /\ c \in connections
    /\ subscriptions' = [subscriptions EXCEPT ![<<c, s>>] = filters]
    /\ delivered' = [delivered EXCEPT ![<<c, s>>] = {}]
    /\ eose' = eose \ {<<c, s>>}
    /\ actor' = NoActor
    /\ UNCHANGED <<store, now, connections, offered, torn>>

\* Mutant: CLOSE is acknowledged and the subscription stays in the map.
HandleCloseIdly(c, s) ==
    /\ c \in connections
    /\ delivered' = [delivered EXCEPT ![<<c, s>>] = {}]
    /\ eose' = eose \ {<<c, s>>}
    /\ actor' = NoActor
    /\ UNCHANGED <<store, now, connections, subscriptions, offered, torn>>

\* unsubscribe
HandleClose(c, s) ==
    /\ c \in connections
    /\ subscriptions' = [subscriptions EXCEPT ![<<c, s>>] = NoSub]
    /\ delivered' = [delivered EXCEPT ![<<c, s>>] = {}]
    /\ eose' = eose \ {<<c, s>>}
    /\ actor' = NoActor
    /\ UNCHANGED <<store, now, connections, offered, torn>>

-----------------------------------------------------------------------------
(* Sockets and time *)

Open(c) ==
    /\ c \notin connections
    /\ connections' = connections \cup {c}
    /\ actor' = NoActor
    /\ UNCHANGED <<store, now, subscriptions, delivered, eose, offered, torn>>

\* Mutant: the close callback only forgets the socket.
ForgetSocket(c) ==
    /\ c \in connections
    /\ connections' = connections \ {c}
    /\ actor' = NoActor
    /\ UNCHANGED <<store, now, subscriptions, delivered, eose, offered, torn>>

\* removeConnection, then the server forgets the socket.
CloseSocket(c) ==
    /\ c \in connections
    /\ connections' = connections \ {c}
    /\ subscriptions' =
          [k \in Keys |-> IF k[1] = c THEN NoSub ELSE subscriptions[k]]
    /\ delivered' = [k \in Keys |-> IF k[1] = c THEN {} ELSE delivered[k]]
    /\ eose' = {k \in eose : k[1] # c}
    /\ actor' = NoActor
    /\ UNCHANGED <<store, now, offered, torn>>

Tick ==
    /\ now < MaxTime
    /\ now' = now + 1
    /\ actor' = NoActor
    /\ UNCHANGED <<store, connections, subscriptions, delivered, eose, offered, torn>>

-----------------------------------------------------------------------------
(* Correctness of the store *)

\* At most one stored event per slot: two versions of a profile, a follow
\* list or an addressable event are never both in the table, whatever
\* deletions and failures came between.
OneVersionPerSlot == OneVersion(store)

\* An event answered OK true (stored, duplicate or older) stays answerable:
\* until a deletion clears its slot, the slot holds it or one that beats it,
\* in whatever order the versions arrived; slots torn by a failed
\* replacement excepted.
AcceptedSurvives ==
    \A e \in offered :
        Slot(e) \notin torn => \E f \in store : Covers(f, e)

\* The same without the exception.  EventStore's storeReplaceableEvent
\* "Replaces existing event with same pubkey+kind if newer": it does not
\* remove one.
ReplaceKeepsOne ==
    \A e \in offered : \E f \in store : Covers(f, e)

OwnerActs == \A e \in store \ store' : actor' = e.pubkey

\* A row goes away only in the handling of an EVENT of its own author.
OnlyOwnerRemoves == [][OwnerActs]_vars

VersionsRise == \A e \in store, f \in store' : Slot(e) = Slot(f) => Covers(f, e)

\* No step puts an older version where a newer one was: a slot that is
\* occupied before and after a step holds the same event or one that beats it.
NeverOlder == [][VersionsRise]_vars

(* The abstract register the store implements *)

Version(rows, s) ==
    IF \E e \in rows : Slot(e) = s THEN CHOOSE e \in rows : Slot(e) = s
                                   ELSE NoVersion

LatestVersion == [s \in SlotSet |-> Version(store, s)]

Register == INSTANCE VersionRegister WITH
    Slots <- SlotSet, Versions <- Events, None <- NoVersion,
    SlotOf <- [e \in Events |-> Slot(e)],
    AuthorOf <- [e \in Events |-> e.pubkey],
    Beats <- {p \in Events \X Events : Newer(p[1], p[2])},
    latest <- LatestVersion

\* The table is a register of versions per slot: every step is the write of
\* one author, who may clear slots of his own and put one version that wins.
ImplementsRegister == Register!RegisterSpec

(* Correctness of delivery *)

\* No subscription outlives its socket: what the map holds for a connection
\* goes with it, so no broadcast is computed for a client that has left.
SubscriptionsHaveSockets ==
    \A k \in Keys : subscriptions[k] # NoSub => k[1] \in connections

Unlimited(filters) ==
    \A i \in DOMAIN filters : filters[i].limit = NoLimit

\* No gap between stored and live events: whenever a subscription is open and
\* its client has seen the EOSE, every stored, unexpired event its filters
\* match has been framed to it, by the answer to the REQ or by a broadcast
\* since (filters with a limit excepted).
NoMissedEvents ==
    \A k \in eose :
        subscriptions[k] # NoSub =>
            \A e \in store :
                (/\ Unlimited(subscriptions[k])
                 /\ ~Expired(e, now)
                 /\ MatchesFilters(e, subscriptions[k])) => e \in delivered[k]

\* With a limit on the first filter, a stored event that was not framed is
\* outweighed by that many framed events that are at least as new.
NewestDelivered ==
    \A k \in eose :
        (subscriptions[k] # NoSub /\ subscriptions[k] # << >>) =>
            \A e \in store :
                (/\ subscriptions[k][1].limit # NoLimit
                 /\ ~Expired(e, now)
                 /\ MatchesFilters(e, subscriptions[k])
                 /\ e \notin delivered[k])
                => Cardinality({f \in delivered[k] : f.created_at >= e.created_at})
                     >= subscriptions[k][1].limit

=============================================================================
