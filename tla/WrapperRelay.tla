----------------------------- MODULE WrapperRelay -----------------------------
(* One relay with the interface of nostr-tools (wrappers/relay.ts): connect    *)
(* with its shared promise and timer, callbacks of sockets that the object may *)
(* have given up, subscriptions and publishes.  onerror is followed by onclose *)
(* in the same task.  What EVENT and NOTICE do is SimplePool's handler.        *)
EXTENDS Naturals, FiniteSets

CONSTANTS RelaySockets,   \* WebSocket objects of one Relay, each used once
          RelaySubs,      \* calls of subscribe
          RelayPosts,     \* calls of publish, all of one event
          NoWs

ASSUME WrapperAssumption == NoWs \notin RelaySockets \union RelayPosts

VARIABLES status, ws, connectionPromise,
          wsState,        \* the sockets, and whether connect's promise for each is settled
          subscriptions,  \* the map's keys
          subState,       \* what the caller of each subscribe knows
          asked,          \* subscriptions each socket has been sent a REQ for
          resolver,       \* pendingPublishes, of the one event
          relayPosts,
          unanswered,     \* publishes whose EVENT a socket carried and the relay has not answered
          acknowledged    \* history: the relay has answered OK true

wrapperVars == <<status, ws, connectionPromise, wsState, subscriptions, subState, asked,
                 resolver, relayPosts, unanswered, acknowledged>>
connectionVars == <<status, ws, connectionPromise, wsState>>
subVars == <<subscriptions, subState, asked>>
postVars == <<resolver, relayPosts, unanswered, acknowledged>>

WrapperInit ==
    /\ status = "disconnected" /\ ws = NoWs /\ connectionPromise = NoWs
    /\ wsState = [s \in RelaySockets |-> [socket |-> "free", promise |-> "none"]]
    /\ subscriptions = {}
    /\ subState = [k \in RelaySubs |-> "idle"]
    /\ asked = [s \in RelaySockets |-> {}]
    /\ resolver = NoWs
    /\ relayPosts = [p \in RelayPosts |-> "idle"]
    /\ unanswered = [s \in RelaySockets |-> {}]
    /\ acknowledged = FALSE

Connected == ws # NoWs /\ status = "connected"

\* ws.send reaches the relay: a socket that is CLOSING drops what it is given.
Carries == Connected /\ wsState[ws].socket = "open"

\* connect(), when it does not return at once or join the promise of another call.
RelayConnect(s) ==
    /\ status # "connected" /\ connectionPromise = NoWs
    /\ wsState[s].socket = "free"
    /\ status' = "connecting"
    /\ connectionPromise' = s
    /\ wsState' = [wsState EXCEPT ![s] = [socket |-> "connecting", promise |-> "pending"]]
    /\ UNCHANGED <<ws, subVars, postVars>>

\* connect's timer: the socket stays, and may open later.
ConnectTimeout(s) ==
    /\ wsState[s].promise = "pending"
    /\ wsState' = [wsState EXCEPT ![s].promise = "rejected"]
    /\ status' = "error"
    /\ connectionPromise' = NoWs
    /\ UNCHANGED <<ws, subVars, postVars>>

Settled(s, outcome) == IF wsState[s].promise = "pending" THEN outcome ELSE wsState[s].promise

\* onopen, of the newest socket or of one given up: it becomes the socket in use.
RelayOpens(s) ==
    /\ wsState[s].socket = "connecting"
    /\ wsState' = [wsState EXCEPT ![s] = [socket |-> "open", promise |-> Settled(s, "resolved")]]
    /\ status' = "connected" /\ ws' = s /\ connectionPromise' = NoWs
    /\ UNCHANGED <<subVars, postVars>>

\* The relay or the network ends an open socket: it is CLOSING until its onclose runs, the
\* relay has answered the last of it, and the object has not noticed.
RelayEnding(s) ==
    /\ wsState[s].socket = "open"
    /\ wsState' = [wsState EXCEPT ![s].socket = "ending"]
    /\ asked' = [asked EXCEPT ![s] = {}]
    /\ unanswered' = [unanswered EXCEPT ![s] = {}]
    /\ UNCHANGED <<status, ws, connectionPromise, subscriptions, subState, resolver, relayPosts,
                   acknowledged>>

\* onclose of any socket, after onerror when it was still connecting or failed.
RelaySocketEnds(s) ==
    /\ wsState[s].socket \in {"connecting", "open", "ending", "closing"}
    /\ wsState' = [wsState EXCEPT ![s] = [socket |-> "closed", promise |-> Settled(s, "rejected")]]
    /\ \/ connectionPromise' = NoWs
       \/ wsState[s].socket # "connecting" /\ UNCHANGED connectionPromise
    /\ status' = "disconnected" /\ ws' = NoWs
    /\ subState' = [k \in RelaySubs |-> IF k \in subscriptions THEN "told" ELSE subState[k]]
    /\ subscriptions' = {}
    /\ asked' = [asked EXCEPT ![s] = {}]
    /\ unanswered' = [unanswered EXCEPT ![s] = {}]
    /\ UNCHANGED <<resolver, relayPosts, acknowledged>>

\* close(): a socket that is still connecting is not the one in use, and stays.
RelayClose ==
    /\ status # "disconnected" \/ subscriptions # {}
    /\ wsState' = IF ws = NoWs THEN wsState ELSE [wsState EXCEPT ![ws].socket = "closing"]
    /\ ws' = NoWs /\ status' = "disconnected"
    /\ subscriptions' = {}
    /\ resolver' = NoWs
    /\ UNCHANGED <<connectionPromise, subState, asked, relayPosts, unanswered, acknowledged>>

RelaySubscribe(k) ==
    /\ subState[k] = "idle"
    /\ subscriptions' = subscriptions \union {k}
    /\ subState' = [subState EXCEPT ![k] = "open"]
    /\ asked' = IF Carries THEN [asked EXCEPT ![ws] = @ \union {k}] ELSE asked
    /\ UNCHANGED <<connectionVars, postVars>>

SubscriptionClose(k) ==
    /\ subState[k] \in {"open", "eose"}
    /\ subscriptions' = subscriptions \ {k}
    /\ subState' = [subState EXCEPT ![k] = "closed"]
    /\ asked' = IF Carries THEN [asked EXCEPT ![ws] = @ \ {k}] ELSE asked
    /\ UNCHANGED <<connectionVars, postVars>>

RelayEose(s, k) ==
    /\ wsState[s].socket \in {"open", "closing"} /\ k \in asked[s] \intersect subscriptions
    /\ subState[k] = "open"
    /\ subState' = [subState EXCEPT ![k] = "eose"]
    /\ UNCHANGED <<subscriptions, asked, connectionVars, postVars>>

\* CLOSED, with the callback of a subscription that is still in the map.
RelayClosed(s, k) ==
    /\ wsState[s].socket \in {"open", "closing"} /\ k \in asked[s]
    /\ asked' = [asked EXCEPT ![s] = @ \ {k}]
    /\ subscriptions' = subscriptions \ {k}
    /\ subState' = IF k \in subscriptions THEN [subState EXCEPT ![k] = "told"] ELSE subState
    /\ UNCHANGED <<connectionVars, postVars>>

RelayPublish(p) ==
    /\ relayPosts[p] = "idle"
    /\ IF Connected
       THEN /\ relayPosts' = [relayPosts EXCEPT ![p] = "sent"]
            /\ resolver' = p
            /\ unanswered' = IF Carries THEN [unanswered EXCEPT ![ws] = @ \union {p}] ELSE unanswered
       ELSE /\ relayPosts' = [relayPosts EXCEPT ![p] = "rejected"]
            /\ UNCHANGED <<resolver, unanswered>>
    /\ UNCHANGED <<acknowledged, connectionVars, subVars>>

RelayOk(s, p, ok) ==
    /\ wsState[s].socket \in {"open", "closing"} /\ p \in unanswered[s]
    /\ unanswered' = [unanswered EXCEPT ![s] = @ \ {p}]
    /\ acknowledged' = (acknowledged \/ ok)
    /\ resolver' = NoWs
    /\ relayPosts' = IF resolver = NoWs THEN relayPosts
                     ELSE [relayPosts EXCEPT ![resolver] = IF ok THEN "resolved" ELSE "rejected"]
    /\ UNCHANGED <<connectionVars, subVars>>

RelayPublishTimeout(p) ==
    /\ relayPosts[p] = "sent"
    /\ relayPosts' = [relayPosts EXCEPT ![p] = "rejected"]
    /\ resolver' = NoWs
    /\ UNCHANGED <<unanswered, acknowledged, connectionVars, subVars>>

WrapperNext ==
    \/ \E s \in RelaySockets :
         \/ RelayConnect(s) \/ ConnectTimeout(s) \/ RelayOpens(s)
         \/ RelayEnding(s) \/ RelaySocketEnds(s)
         \/ \E k \in RelaySubs : RelayEose(s, k) \/ RelayClosed(s, k)
         \/ \E p \in RelayPosts, ok \in BOOLEAN : RelayOk(s, p, ok)
    \/ RelayClose
    \/ \E k \in RelaySubs : RelaySubscribe(k) \/ SubscriptionClose(k)
    \/ \E p \in RelayPosts : RelayPublish(p) \/ RelayPublishTimeout(p)

WrapperSpec == WrapperInit /\ [][WrapperNext]_wrapperVars

-----------------------------------------------------------------------------
(* Properties *)

WrapperTypeOK ==
    /\ status \in {"disconnected", "connecting", "connected", "error"}
    /\ ws \in RelaySockets \union {NoWs} /\ connectionPromise \in RelaySockets \union {NoWs}
    /\ wsState \in [RelaySockets ->
                      [socket : {"free", "connecting", "open", "ending", "closing", "closed"},
                       promise : {"none", "pending", "resolved", "rejected"}]]
    /\ subscriptions \subseteq RelaySubs
    /\ subState \in [RelaySubs -> {"idle", "open", "eose", "told", "closed"}]
    /\ asked \in [RelaySockets -> SUBSET RelaySubs]
    /\ resolver \in RelayPosts \union {NoWs}
    /\ relayPosts \in [RelayPosts -> {"idle", "sent", "resolved", "rejected"}]
    /\ unanswered \in [RelaySockets -> SUBSET RelayPosts]
    /\ acknowledged \in BOOLEAN

\* What `connected` reports is a socket that has opened, that close() has not let go and
\* whose onclose has not run, whichever sockets were given up and whatever their callbacks
\* did since.  Its relay may have ended it: what is sent before its onclose is lost.
ConnectedHasSocket ==
    status = "connected" => ws # NoWs /\ wsState[ws].socket \in {"open", "ending"}

\* The other way round: an open socket that is not the one in use, and that close() will
\* never end, had a rival, a second connect() after the first gave it up.
UnusedHadRival ==
    \A s \in RelaySockets : wsState[s].socket \in {"open", "ending"} =>
        ws = s \/ \E t \in RelaySockets \ {s} : wsState[t].socket # "free"

\* connect() never waits for a socket that cannot settle its promise.
PromiseIsPending ==
    connectionPromise # NoWs => wsState[connectionPromise].promise = "pending"

\* The map holds the subscriptions whose caller believes them open, and a caller is told
\* of an end once: a later end of a socket tells only those in the map.
MapIsOpen == \A k \in subscriptions : subState[k] \in {"open", "eose"}

\* The resolver is that of a publish that still waits, and what resolves was accepted.
ResolverWaits ==
    /\ resolver # NoWs => relayPosts[resolver] = "sent"
    /\ (\E p \in RelayPosts : relayPosts[p] = "resolved") => acknowledged
=============================================================================
