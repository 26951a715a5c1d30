------------------------------ MODULE SimplePool ------------------------------
(* The pool with the interface of nostr-tools (wrappers/pool.ts): callbacks   *)
(* of sockets, promises of ensureRelay, subscriptions over several relays,    *)
(* querySync and publish with their timers.  A callback of a socket and the   *)
(* continuations of the promises it settles, microtasks, are one action.      *)
(* Every event here matches the filters and has a valid signature: the others *)
(* change nothing.                                                            *)
EXTENDS Naturals, FiniteSets, Sequences, SequencesExt

CONSTANTS Urls,           \* normalized URLs
          Conns,          \* WebSocket objects, each used once
          Queries,        \* calls of subscribe and querySync
          QueryUrls,      \* the relays of each
          Syncs,          \* those made by querySync, which close themselves on EOSE
          Timed,          \* those with a maxWait
          Posts,          \* calls of publish, one URL each
          PostUrl,
          PostEvent,
          SeenEvents,     \* events that relays hold
          MaxSeen,        \* the size at which half of seenEvents is forgotten (10000)
          MaxDelivered,   \* bound: deliveries in a behaviour
          EnableReconnect,\* options.enableReconnect
          NoConn

ASSUME SimpleAssumption ==
    /\ QueryUrls \in [Queries -> SUBSET Urls] /\ Syncs \subseteq Queries /\ Timed \subseteq Syncs
    /\ PostUrl \in [Posts -> Urls] /\ PostEvent \in [Posts -> SeenEvents]
    /\ MaxSeen \in Nat \ {0} /\ EnableReconnect \in BOOLEAN /\ NoConn \notin Conns \union Posts
    /\ Queries \intersect Posts = {}

VARIABLES relays,         \* the map: URL -> connection
          conns,          \* RelayConnection objects with their sockets and promises
          seenEvents,     \* the set of seen events, in insertion order
          queries,        \* what each subscribe or querySync has seen
          delivered,      \* the calls of onevent: <<query, event>>, since the last destroy
          posts,          \* the promise of each publish, and the connection it used
          reqs,           \* the relay's side: subscriptions a socket has asked for,
          owed,           \* publishes whose EVENT it has not answered
          accepted        \* history: <<url, event>> that a relay has answered OK true

simpleVars == <<relays, conns, seenEvents, queries, delivered, posts, reqs, owed, accepted>>

FreeConn == [url |-> NoConn, socket |-> "free", connected |-> FALSE, promise |-> "none",
             caller |-> NoConn, subs |-> {}, eosed |-> {},
             pendingPublishes |-> [e \in SeenEvents |-> NoConn]]
IdleQuery == [step |-> "idle", eoses |-> {}, closes |-> {}]
IdlePost == [step |-> "idle", on |-> NoConn]

SimpleInit ==
    /\ relays = [u \in Urls |-> NoConn]
    /\ conns = [c \in Conns |-> FreeConn]
    /\ seenEvents = <<>>
    /\ queries = [q \in Queries |-> IdleQuery]
    /\ delivered = <<>>
    /\ posts = [p \in Posts |-> IdlePost]
    /\ reqs = [c \in Conns |-> {}]
    /\ owed = [c \in Conns |-> {}]
    /\ accepted = {}

\* relay?.connected in ensureRelay.
Usable(u) == relays[u] # NoConn /\ conns[relays[u]].connected

\* The constructor part of ensureRelay: a new socket, in the map before it opens.
NewConn(u, caller) ==
    [FreeConn EXCEPT !.url = u, !.socket = "connecting", !.promise = "pending", !.caller = caller]

\* ws.send: an open socket carries it, one that is CLOSING drops it without an error.
Sent(k, caller) == IF k.socket = "open" THEN {caller} ELSE {}

\* What awaits the promise of connection c goes on: a subscription sends its REQ, a
\* publish its EVENT.  k is the connection as the socket's callback leaves it.
Proceed(c, k, caller) ==
    IF caller \in Queries
    THEN /\ conns' = [conns EXCEPT ![c] = [k EXCEPT !.subs = @ \union {caller}]]
         /\ reqs' = [reqs EXCEPT ![c] = @ \union Sent(k, caller)]
         /\ UNCHANGED <<posts, owed>>
    ELSE /\ conns' = [conns EXCEPT ![c] = [k EXCEPT !.pendingPublishes[PostEvent[caller]] = caller]]
         /\ posts' = [posts EXCEPT ![caller] = [step |-> "sent", on |-> c]]
         /\ owed' = [owed EXCEPT ![c] = @ \union Sent(k, caller)]
         /\ UNCHANGED reqs

\* checkAllClosed: onclose once no relay of the subscription could be reached.
Closes(q, u) ==
    LET closes == queries[q].closes \union {u} IN
    [queries EXCEPT ![q].closes = closes,
                    ![q].step = IF q \in Syncs /\ closes = QueryUrls[q] /\ @ = "open"
                                THEN "resolved" ELSE @]

\* Mutant: only the callers that subscribe learn that the connection failed.
RejectQuietly(k) ==
    IF k.promise = "pending" /\ k.caller \in Queries
    THEN queries' = Closes(k.caller, k.url) /\ UNCHANGED posts
    ELSE UNCHANGED <<queries, posts>>

\* The promise of connection k is rejected, if it is not settled yet.
Reject(k) ==
    IF k.promise # "pending" THEN UNCHANGED <<queries, posts>>
    ELSE IF k.caller \in Queries
    THEN queries' = Closes(k.caller, k.url) /\ UNCHANGED posts
    ELSE posts' = [posts EXCEPT ![k.caller].step = "rejected"] /\ UNCHANGED queries

-----------------------------------------------------------------------------
(* Sockets *)

\* onopen.  A promise its timer has rejected stays so, but the connection enters the map.
Opens(c) ==
    LET k == [conns[c] EXCEPT !.socket = "open", !.connected = TRUE, !.promise = "settled"] IN
    /\ conns[c].socket = "connecting"
    /\ relays' = [relays EXCEPT ![conns[c].url] = c]
    /\ IF conns[c].promise = "pending" THEN Proceed(c, k, k.caller)
       ELSE conns' = [conns EXCEPT ![c] = k] /\ UNCHANGED <<posts, reqs, owed>>
    /\ UNCHANGED <<seenEvents, queries, delivered, accepted>>

\* The relay or the network ends an open socket: it is CLOSING until its onclose runs, the
\* relay has answered the last of it, and nothing here has noticed.
SocketEnding(c) ==
    /\ conns[c].socket = "open"
    /\ conns' = [conns EXCEPT ![c].socket = "ending"]
    /\ reqs' = [reqs EXCEPT ![c] = {}]
    /\ owed' = [owed EXCEPT ![c] = {}]
    /\ UNCHANGED <<relays, seenEvents, queries, delivered, posts, accepted>>

\* Mutant: onclose leaves the entry of its URL in the map.
SocketEndsInMap(c) ==
    /\ conns[c].socket \in {"connecting", "open", "ending", "closing"}
    /\ Reject(conns[c])
    /\ conns' = [conns EXCEPT ![c] = [FreeConn EXCEPT !.url = conns[c].url, !.socket = "closed"]]
    /\ reqs' = [reqs EXCEPT ![c] = {}]
    /\ owed' = [owed EXCEPT ![c] = {}]
    /\ UNCHANGED <<relays, seenEvents, delivered, accepted>>

\* onclose, after onerror when the socket never opened: the entry of the URL goes,
\* whichever connection it names.  Nothing reads the subscriptions and resolvers of the
\* connection any more.
SocketEnds(c) ==
    /\ conns[c].socket \in {"connecting", "open", "ending", "closing"}
    /\ Reject(conns[c])
    /\ conns' = [conns EXCEPT ![c] = [FreeConn EXCEPT !.url = conns[c].url, !.socket = "closed"]]
    /\ relays' = IF EnableReconnect THEN relays ELSE [relays EXCEPT ![conns[c].url] = NoConn]
    /\ reqs' = [reqs EXCEPT ![c] = {}]
    /\ owed' = [owed EXCEPT ![c] = {}]
    /\ UNCHANGED <<seenEvents, delivered, accepted>>

\* The connection timer: it rejects the promise and leaves the socket alone.
ConnectionTimeout(c) ==
    /\ conns[c].promise = "pending"
    /\ Reject(conns[c])
    /\ conns' = [conns EXCEPT ![c].promise = "settled"]
    /\ UNCHANGED <<relays, seenEvents, delivered, reqs, owed, accepted>>

\* A socket that has not ended yet, nor been closed by the pool.
Held(c) == conns[c].socket \in {"connecting", "open", "ending"}

\* ws.close()
ClosedByUser(cs) ==
    conns' = [c \in Conns |-> IF c \in cs /\ Held(c) THEN [conns[c] EXCEPT !.socket = "closing"]
                                                   ELSE conns[c]]

\* close(relays), one URL.
CloseRelay(u) ==
    /\ relays[u] # NoConn
    /\ ClosedByUser({relays[u]})
    /\ relays' = [relays EXCEPT ![u] = NoConn]
    /\ UNCHANGED <<seenEvents, queries, delivered, posts, reqs, owed, accepted>>

Destroy ==
    /\ \E u \in Urls : relays[u] # NoConn
    /\ ClosedByUser({relays[u] : u \in Urls})
    /\ relays' = [u \in Urls |-> NoConn]
    /\ seenEvents' = <<>>
    /\ delivered' = <<>>
    /\ UNCHANGED <<queries, posts, reqs, owed, accepted>>

-----------------------------------------------------------------------------
(* Subscriptions *)

\* subscribe: one ensureRelay for each relay, of which those that are connected go on at once.
Subscribe(q) ==
    LET ready == {u \in QueryUrls[q] : Usable(u)}
        reached == {relays[u] : u \in ready}
        free == {c \in Conns : conns[c].socket = "free"}
        missing == QueryUrls[q] \ ready
    IN
    /\ queries[q].step = "idle"
    /\ \E new \in [missing -> free] :
         /\ \A u, w \in missing : new[u] = new[w] => u = w
         /\ conns' = [c \in Conns |->
              IF c \in reached THEN [conns[c] EXCEPT !.subs = @ \union {q}]
              ELSE IF \E u \in missing : new[u] = c
              THEN NewConn(CHOOSE u \in missing : new[u] = c, q)
              ELSE conns[c]]
         /\ relays' = [u \in Urls |-> IF u \in missing THEN new[u] ELSE relays[u]]
    /\ reqs' = [c \in Conns |-> IF c \in reached THEN reqs[c] \union Sent(conns[c], q) ELSE reqs[c]]
    /\ queries' = [queries EXCEPT ![q].step = "open"]
    /\ UNCHANGED <<seenEvents, delivered, posts, owed, accepted>>

\* close() of a subscription: the connections the map names now.
Left(q) ==
    [c \in Conns |-> IF \E u \in QueryUrls[q] : relays[u] = c /\ conns[c].connected
                     THEN [conns[c] EXCEPT !.subs = @ \ {q}] ELSE conns[c]]

Unsubscribe(q) ==
    /\ q \notin Syncs
    /\ queries[q].step = "open"
    /\ conns' = Left(q)
    /\ queries' = [queries EXCEPT ![q].step = "closed"]
    /\ UNCHANGED <<relays, seenEvents, delivered, posts, reqs, owed, accepted>>

\* The timer of querySync's maxWait.
MaxWait(q) ==
    /\ q \in Timed
    /\ queries[q].step = "open"
    /\ conns' = Left(q)
    /\ queries' = [queries EXCEPT ![q].step = "resolved"]
    /\ UNCHANGED <<relays, seenEvents, delivered, posts, reqs, owed, accepted>>

\* Mutant: once it is too large, the set of seen events starts again with e.
RememberLast(e) ==
    IF Len(seenEvents) >= MaxSeen THEN <<e>> ELSE Append(seenEvents, e)

\* The set of seen events with e, without its older half once it is too large.
Remember(e) ==
    LET seen == Append(seenEvents, e) IN
    IF Len(seen) > MaxSeen THEN SubSeq(seen, MaxSeen \div 2 + 1, Len(seen)) ELSE seen

\* EVENT: a relay sends e for a REQ of this socket.
OnEvent(c, q, e) ==
    /\ conns[c].socket \in {"open", "closing"}
    /\ q \in reqs[c] \intersect conns[c].subs
    /\ ~Contains(seenEvents, e)
    /\ Len(delivered) < MaxDelivered
    /\ seenEvents' = Remember(e)
    /\ delivered' = Append(delivered, <<q, e>>)
    /\ UNCHANGED <<relays, conns, queries, posts, reqs, owed, accepted>>

\* EOSE, and checkAllEose; the callback of a querySync closes its subscription.
OnEose(c, q) ==
    LET eoses == queries[q].eoses \union {conns[c].url}
        marked == [conns EXCEPT ![c].eosed = @ \union {q}]
    IN
    /\ conns[c].socket \in {"open", "closing"}
    /\ q \in (reqs[c] \intersect conns[c].subs) \ conns[c].eosed
    /\ queries' = [queries EXCEPT ![q].eoses = eoses]
    /\ conns' = IF q \in Syncs /\ eoses = QueryUrls[q]
                THEN [d \in Conns |-> [marked[d] EXCEPT !.subs = Left(q)[d].subs]]
                ELSE marked
    /\ UNCHANGED <<relays, seenEvents, delivered, posts, reqs, owed, accepted>>

\* CLOSED: the relay has ended the subscription; nobody is told.
OnClosed(c, q) ==
    /\ conns[c].socket \in {"open", "closing"}
    /\ q \in reqs[c]
    /\ reqs' = [reqs EXCEPT ![c] = @ \ {q}]
    /\ conns' = [conns EXCEPT ![c].subs = @ \ {q}]
    /\ UNCHANGED <<relays, seenEvents, queries, delivered, posts, owed, accepted>>

-----------------------------------------------------------------------------
(* Publishing *)

Publish(p) ==
    LET u == PostUrl[p] IN
    /\ posts[p].step = "idle"
    /\ IF Usable(u)
       THEN Proceed(relays[u], conns[relays[u]], p) /\ UNCHANGED relays
       ELSE \E c \in Conns :
            /\ conns[c].socket = "free"
            /\ conns' = [conns EXCEPT ![c] = NewConn(u, p)]
            /\ relays' = [relays EXCEPT ![u] = c]
            /\ posts' = [posts EXCEPT ![p].step = "connecting"]
            /\ UNCHANGED <<reqs, owed>>
    /\ UNCHANGED <<seenEvents, queries, delivered, accepted>>

\* Mutant: an OK resolves the publish, whatever it says.
OnAnyOk(c, p, ok) ==
    LET e == PostEvent[p]
        resolver == conns[c].pendingPublishes[e]
    IN
    /\ conns[c].socket \in {"open", "closing"}
    /\ p \in owed[c]
    /\ owed' = [owed EXCEPT ![c] = @ \ {p}]
    /\ accepted' = IF ok THEN accepted \union {<<conns[c].url, e>>} ELSE accepted
    /\ IF resolver = NoConn THEN UNCHANGED <<conns, posts>>
       ELSE /\ conns' = [conns EXCEPT ![c].pendingPublishes[e] = NoConn]
            /\ posts' = [posts EXCEPT ![resolver].step = "resolved"]
    /\ UNCHANGED <<relays, seenEvents, queries, delivered, reqs>>

\* OK, the answer to the EVENT of publish p: it settles the publish whose resolver the
\* entry of the event holds, the last one of this event on the connection.
OnOk(c, p, ok) ==
    LET e == PostEvent[p]
        resolver == conns[c].pendingPublishes[e]
    IN
    /\ conns[c].socket \in {"open", "closing"}
    /\ p \in owed[c]
    /\ owed' = [owed EXCEPT ![c] = @ \ {p}]
    /\ accepted' = IF ok THEN accepted \union {<<conns[c].url, e>>} ELSE accepted
    /\ IF resolver = NoConn THEN UNCHANGED <<conns, posts>>
       ELSE /\ conns' = [conns EXCEPT ![c].pendingPublishes[e] = NoConn]
            /\ posts' = [posts EXCEPT ![resolver].step = IF ok THEN "resolved" ELSE "rejected"]
    /\ UNCHANGED <<relays, seenEvents, queries, delivered, reqs>>

\* The timer of a publish deletes the entry of its event, whoever's it is.
PublishTimeout(p) ==
    /\ posts[p].step = "sent"
    /\ posts' = [posts EXCEPT ![p].step = "rejected"]
    /\ conns' = [conns EXCEPT ![posts[p].on].pendingPublishes[PostEvent[p]] = NoConn]
    /\ UNCHANGED <<relays, seenEvents, queries, delivered, reqs, owed, accepted>>

SimpleNext ==
    \/ \E c \in Conns :
         \/ Opens(c) \/ SocketEnding(c) \/ SocketEnds(c) \/ ConnectionTimeout(c)
         \/ \E q \in Queries :
              \/ \E e \in SeenEvents : OnEvent(c, q, e)
              \/ OnEose(c, q) \/ OnClosed(c, q)
         \/ \E p \in Posts, ok \in BOOLEAN : OnOk(c, p, ok)
    \/ \E u \in Urls : CloseRelay(u)
    \/ Destroy
    \/ \E q \in Queries : Subscribe(q) \/ Unsubscribe(q) \/ MaxWait(q)
    \/ \E p \in Posts : Publish(p) \/ PublishTimeout(p)

SimpleSpec == SimpleInit /\ [][SimpleNext]_simpleVars

\* Timers fire while the process lives; nothing is assumed of the relays.
TimersFire ==
    /\ \A c \in Conns : WF_simpleVars(ConnectionTimeout(c))
    /\ \A p \in Posts : WF_simpleVars(PublishTimeout(p))
    /\ \A q \in Queries : WF_simpleVars(MaxWait(q))

\* Relays that can be reached and answer each REQ with its EOSE.
RelaysAnswer ==
    \A c \in Conns : /\ WF_simpleVars(Opens(c))
                      /\ \A q \in Queries : WF_simpleVars(OnEose(c, q))

-----------------------------------------------------------------------------
(* Properties *)

SimpleTypeOK ==
    /\ relays \in [Urls -> Conns \union {NoConn}]
    /\ conns \in [Conns ->
         [url : Urls \union {NoConn},
          socket : {"free", "connecting", "open", "ending", "closing", "closed"},
          connected : BOOLEAN, promise : {"none", "pending", "settled"},
          caller : Queries \union Posts \union {NoConn},
          subs : SUBSET Queries, eosed : SUBSET Queries,
          pendingPublishes : [SeenEvents -> Posts \union {NoConn}]]]
    /\ seenEvents \in Seq(SeenEvents)
    /\ queries \in [Queries -> [step : {"idle", "open", "closed", "resolved"},
                                eoses : SUBSET Urls, closes : SUBSET Urls]]
    /\ delivered \in Seq(Queries \X SeenEvents)
    /\ posts \in [Posts -> [step : {"idle", "connecting", "sent", "resolved", "rejected"},
                            on : Conns \union {NoConn}]]
    /\ reqs \in [Conns -> SUBSET Queries]
    /\ owed \in [Conns -> SUBSET Posts]
    /\ accepted \subseteq Urls \X SeenEvents

\* The map never names a socket whose onclose has run or that the pool closed (unless
\* enableReconnect keeps the entry), nor the socket of another URL, although a late onclose
\* deletes by URL and a late onopen writes by URL.  It does name one that its relay has
\* ended, until its onclose: what is sent there meanwhile is lost.
MapNamesHeldSockets ==
    \A u \in Urls : relays[u] # NoConn =>
        /\ conns[relays[u]].url = u
        /\ ~EnableReconnect => Held(relays[u])

\* The other way round: the pool loses hold of a socket, so that neither close() nor
\* destroy() ever ends it, only if there was another socket of its URL, made while this one
\* was not yet connected.
LostHadRival ==
    \A c \in Conns : Held(c) =>
        \/ relays[conns[c].url] = c
        \/ \E d \in Conns \ {c} : conns[d].socket # "free" /\ conns[d].url = conns[c].url

\* A subscription counts a relay as failed or hears its EOSE, never both: a socket that
\* opens after its timer does not start the subscription it was given up for.  So the
\* EOSE of the whole subscription needs every relay, and one failure withholds it.
FailedOrEosed == \A q \in Queries : queries[q].eoses \intersect queries[q].closes = {}

\* No duplicate soon: between two deliveries of an event lie at least half of the events
\* that the set of seen events remembers, over all subscriptions.
NoEarlyDuplicate ==
    \A i, j \in DOMAIN delivered :
        i < j /\ delivered[i][2] = delivered[j][2] => j - i > MaxSeen \div 2 + 1

\* A resolver in a connection's map is the one of a publish that still waits there.
ResolversWait ==
    \A c \in Conns, e \in SeenEvents :
        LET p == conns[c].pendingPublishes[e] IN
        p # NoConn => posts[p] = [step |-> "sent", on |-> c] /\ PostEvent[p] = e

\* A publish that resolves was accepted by its relay, also when two of the same event
\* share a resolver and a timer of one deletes the entry of the other.
ResolvedWasAccepted ==
    \A p \in Posts : posts[p].step = "resolved" => <<PostUrl[p], PostEvent[p]>> \in accepted

\* Every publish settles, whatever the relay does.
PostsEnd == \A p \in Posts : posts[p].step \in {"connecting", "sent"} ~>
                              posts[p].step \in {"resolved", "rejected"}

\* querySync resolves: "wait for EOSE then return all events".
QueriesEnd == \A q \in Syncs : queries[q].step = "open" ~> queries[q].step = "resolved"
=============================================================================
