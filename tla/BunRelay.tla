------------------------------ MODULE BunRelay ------------------------------
(****************************************************************************)
(* The Bun relay: RelayCore over BunSqliteStore.queryEvents and the socket  *)
(* callbacks of BunServer.ts.  The process may die; its SQLite file stays.  *)
(****************************************************************************)
EXTENDS RelayCore

CONSTANT UnfilteredCap  \* rows a query without filters returns (1000)

ASSUME BunAssumption == UnfilteredCap \in Nat

Live(rows) == {e \in rows : ~Expired(e, now)}

\* Mutant: the limit is applied before the filters.
LimitThenFilter(filters) ==
    IF filters = << >> THEN NewestFirst(store, UnfilteredCap)
    ELSE {{e \in R : MatchesFilters(e, filters)} :
             R \in NewestFirst(Live(store), filters[1].limit)}

\* The limit of the first filter alone applies.  Without filters the expiry
\* test is not reached and the result is capped.
QueryEvents(filters) ==
    IF filters = << >> THEN NewestFirst(store, UnfilteredCap)
    ELSE NewestFirst({e \in Live(store) : MatchesFilters(e, filters)},
                     filters[1].limit)

\* Mutant: the author of a referenced event is not compared.
TargetsOfAnyone(e) ==
    CASE e.kind = DeletionKind -> {t \in Live(store) : t.id \in e.e}
      [] e.kind = VanishKind ->
            {t \in Live(store) : t.pubkey = e.pubkey /\ t.created_at <= e.created_at}
      [] OTHER -> {}

\* Kind 5: each referenced id is looked up and deleted if it is the sender's
\* own; kind 62: everything the author stored up to its created_at.  Both
\* look through queryEvents, which does not see expired rows.
DeletionTargets(e) ==
    CASE e.kind = DeletionKind ->
            {t \in Live(store) : t.id \in e.e /\ t.pubkey = e.pubkey}
      [] e.kind = VanishKind ->
            {t \in Live(store) : t.pubkey = e.pubkey /\ t.created_at <= e.created_at}
      [] OTHER -> {}

\* The process dies and starts again on the same file: sockets and
\* subscriptions are gone.  Dying inside a handler is FailEvent, then this.
Crash ==
    /\ connections' = {}
    /\ subscriptions' = [k \in Keys |-> NoSub]
    /\ delivered' = [k \in Keys |-> {}]
    /\ eose' = {}
    /\ actor' = NoActor
    /\ UNCHANGED <<store, now, offered, torn>>

Next ==
    \/ \E c \in Conn, e \in Events : HandleEvent(c, e, DeletionTargets(e))
    \/ \E c \in Conn, e \in Events : FailEvent(c, e, DeletionTargets(e))
    \/ \E c \in Conn, e \in Events : RefuseEvent(c, e)
    \/ \E c \in Conn, s \in SubId, filters \in FilterLists :
          \/ HandleReq(c, s, filters, QueryEvents(filters))
          \/ FailReq(c, s, filters)
    \/ \E c \in Conn, s \in SubId : HandleClose(c, s)
    \/ \E c \in Conn : Open(c)
    \/ \E c \in Conn : CloseSocket(c)
    \/ Tick
    \/ Crash

Spec == Init /\ [][Next]_vars

=============================================================================
