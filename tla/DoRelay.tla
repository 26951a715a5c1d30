------------------------------- MODULE DoRelay -------------------------------
(****************************************************************************)
(* The Cloudflare relay: RelayCore over DoSqliteStore.queryEvents and the   *)
(* WebSocket callbacks of NostrRelayDO.ts.  The runtime may hibernate the   *)
(* object when it is idle: its fields (the Effect runtime, with the         *)
(* subscription map in it) are gone, its sockets and its SQL storage stay.  *)
(****************************************************************************)
EXTENDS RelayCore

CONSTANTS
    DefaultLimit,  \* rows of a filter that gives no limit (100)
    MaxLimit       \* the most rows of any filter (1000)

ASSUME LimitAssumption ==
    DefaultLimit \in Nat \ {0} /\ MaxLimit \in Nat \ {0}

VARIABLE wanted    \* history: the REQs each client has not closed

doVars == <<vars, wanted>>

DoTypeOK == TypeOK /\ wanted \in [Keys -> FilterLists \cup {NoSub}]

-----------------------------------------------------------------------------
(* Queries *)

\* The d_tag column: null except for addressable events.
DTagColumn(e) ==
    IF IsParameterizedReplaceableKind(e.kind) THEN DTagValue(e) ELSE NoTag

\* instr(tags, '"e","v"'): the pair anywhere in the JSON text of the tags.
InText(e, name, v) ==
    \/ name = "e" /\ v \in e.e
    \/ <<name, v>> \in e.tagged \cup e.further

\* buildWhereClause: "#d" looks at the column, "#e" and "#p" at the text of
\* the tags; "#a", "#t" and "search" add no condition.
WhereClause(e, f) ==
    /\ MatchesColumns(e, f)
    /\ f.dTags # {} => DTagColumn(e) \in f.dTags
    /\ f.eTags # {} => \E v \in f.eTags : InText(e, "e", v)
    /\ "p" \in DOMAIN f.asks => \E v \in f.asks["p"] : InText(e, "p", v)

RowLimit(f) ==
    CASE f.limit = NoLimit -> DefaultLimit
      [] f.limit = 0 -> 1
      [] OTHER -> IF f.limit > MaxLimit THEN MaxLimit ELSE f.limit

\* What the statement of each filter may return ...
Selections(filters) ==
    [i \in DOMAIN filters |->
        NewestFirst({e \in store : WhereClause(e, filters[i])}, RowLimit(filters[i]))]

\* ... joined, then tested against the filters once more.
QueryEvents(filters) ==
    IF filters = << >> THEN NewestFirst(store, DefaultLimit)
    ELSE LET sel == Selections(filters)
         IN  {{e \in UNION {pick[i] : i \in DOMAIN filters} :
                  MatchesFilters(e, filters)} :
                pick \in {p \in [DOMAIN filters -> UNION {sel[i] : i \in DOMAIN filters}] :
                             \A i \in DOMAIN filters : p[i] \in sel[i]}}

\* What the deletions of a kind 5 or kind 62 event may find: the latter looks
\* through an "authors" query, which has the default limit.
DeletionTargets(e) ==
    CASE e.kind = DeletionKind ->
            {{t \in store : t.id \in e.e /\ t.pubkey = e.pubkey}}
      [] e.kind = VanishKind ->
            {{t \in found : t.created_at <= e.created_at} :
                found \in NewestFirst({t \in store : t.pubkey = e.pubkey}, DefaultLimit)}
      [] OTHER -> {{}}

-----------------------------------------------------------------------------
(* Callbacks *)

WebSocketEvent(c, e) ==
    /\ \/ \E targets \in DeletionTargets(e) : HandleEvent(c, e, targets)
       \/ \E targets \in DeletionTargets(e) : FailEvent(c, e, targets)
       \/ RefuseEvent(c, e)
    /\ UNCHANGED wanted

WebSocketReq(c, s, filters) ==
    /\ \/ HandleReq(c, s, filters, QueryEvents(filters))
       \/ FailReq(c, s, filters)
    /\ wanted' = [wanted EXCEPT ![<<c, s>>] = filters]

WebSocketUnsubscribe(c, s) ==
    /\ HandleClose(c, s)
    /\ wanted' = [wanted EXCEPT ![<<c, s>>] = NoSub]

WebSocketClose(c) ==
    /\ CloseSocket(c)
    /\ wanted' = [k \in Keys |-> IF k[1] = c THEN NoSub ELSE wanted[k]]

\* acceptWebSocket
Upgrade(c) == Open(c) /\ UNCHANGED wanted

\* Idle time passes and the object leaves memory.
Hibernate ==
    /\ subscriptions' = [k \in Keys |-> NoSub]
    /\ actor' = NoActor
    /\ UNCHANGED <<store, now, connections, delivered, eose, offered, torn, wanted>>

DoInit == Init /\ wanted = [k \in Keys |-> NoSub]

DoNext ==
    \/ \E c \in Conn, e \in Events : WebSocketEvent(c, e)
    \/ \E c \in Conn, s \in SubId, filters \in FilterLists : WebSocketReq(c, s, filters)
    \/ \E c \in Conn, s \in SubId : WebSocketUnsubscribe(c, s)
    \/ \E c \in Conn : WebSocketClose(c)
    \/ \E c \in Conn : Upgrade(c)
    \/ Tick /\ UNCHANGED wanted
    \/ Hibernate

DoSpec == DoInit /\ [][DoNext]_doVars

-----------------------------------------------------------------------------

\* The statement of a filter selects what the filter matches.  Not so for "#d"
\* where an event has a "d" tag and no column, for "#e" and "#p" where a pair
\* stands further on in a tag, and for "#a", "#t" and "search" ever, unless
\* every event the rest of the filter selects has the tag.
Exact(f) == \A e \in Events : WhereClause(e, f) <=> MatchesFilter(e, f)

\* Whatever an answered subscription was not shown of the table is outweighed,
\* in every filter that matches it and whose statement is exact, by a full
\* page of framed events that are at least as new.  The other filters are
\* excepted: LIMIT counts rows that the test after it drops, and a page may be
\* short, or empty, while the table holds what it asks for.
PageDelivered ==
    \A k \in eose : \A e \in store :
        (/\ subscriptions[k] # NoSub
         /\ MatchesFilters(e, subscriptions[k])
         /\ e \notin delivered[k]) =>
            \A i \in DOMAIN subscriptions[k] :
                LET f == subscriptions[k][i]
                IN  (Exact(f) /\ MatchesFilter(e, f)) =>
                        Cardinality({x \in delivered[k] : x.created_at >= e.created_at})
                            >= RowLimit(f)

\* A client that opened a subscription on a socket that is still up, and has
\* not closed it, is framed every matching event the relay then stores:
\* docs/CLOUDFLARE.md has the object "hibernate while maintaining WebSocket
\* connections".  (Step form: what enters the table is framed in that step.)
OpenSubscriptionsServed ==
    [][\A k \in Keys : \A e \in store' \ store :
          (wanted[k] # NoSub /\ MatchesFilters(e, wanted[k])) => e \in delivered'[k]]_doVars

\* Once a request to vanish is stored, nothing else of its author up to its
\* time is: handleEvent's "delete all events from pubkey up to created_at".
VanishTakesAll ==
    [][\A v \in store' \ store : v.kind = VanishKind =>
          \A t \in store' : t.pubkey = v.pubkey /\ t # v =>
              t.created_at > v.created_at]_doVars

\* A client never knows less than the relay: a subscription in the map is one
\* its client still wants, with the same filters, on a socket that is up.
MapWithinWanted ==
    \A k \in Keys :
        subscriptions[k] # NoSub => k[1] \in connections /\ wanted[k] = subscriptions[k]

=============================================================================
