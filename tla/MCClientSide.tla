---------------------------- MODULE MCClientSide ----------------------------
(* The parts of the client above one connection, each over small instances:   *)
(* RelayPool, SimplePool, WrapperRelay, ReplaceableLists and Nip77Sync.  They  *)
(* share no state, so one run takes them in turn: part says which one a        *)
(* behaviour is of, and the others stay as they began.                         *)
EXTENDS RelayPool, SimplePool, WrapperRelay, ReplaceableLists, Nip77Sync

CONSTANTS u1, u2, q1, q2, p1, p2, e1, sync1

VARIABLE part

-----------------------------------------------------------------------------
(* SimplePool: one subscription over both relays, which querySync made with a  *)
(* maxWait, and one over the first; two publishes of one event to one relay.   *)

SimpleQueryUrls == [q \in {q1, q2} |-> IF q = q1 THEN {u1, u2} ELSE {u1}]
SimplePostUrl == [p \in {p1, p2} |-> u1]
SimplePostEvent == [p \in {p1, p2} |-> e1]

\* Bounds: publishes and subscriptions are not mixed, the second subscription comes before
\* the second delivery, and with a third connection comes no delivery and none is CLOSING
\* before its onclose.
Separate ==
    /\ \/ \A q \in Queries : queries[q].step = "idle"
       \/ /\ \A p \in Posts : posts[p].step = "idle"
          /\ Len(delivered) > 1 => queries[q2].step = "idle"
    /\ conns[3].socket # "free" =>
          delivered = <<>> /\ \A c \in Conns : conns[c].socket # "ending"
    /\ \/ \A k \in PoolSubs : merged[k].step = "idle"
       \/ \A w \in PoolPubs : pubs[w].step = "idle"

-----------------------------------------------------------------------------
(* Nip77Sync: the client holds one of the two events.                          *)

SyncLocalIds == [s \in Sessions |-> IF s = sync1 THEN {1} ELSE {}]

-----------------------------------------------------------------------------
(* The parts together                                                          *)

allVars == <<part, poolVars, simpleVars, wrapperVars, listVars, syncVars>>

Init ==
    /\ part \in {"pool", "simple", "wrapper", "lists", "sync"}
    /\ PoolInit /\ SimpleInit /\ WrapperInit /\ ListsInit /\ SyncInit
    /\ part # "sync" => held = {}

Next ==
    /\ UNCHANGED part
    /\ \/ part = "pool" /\ PoolNext
          /\ UNCHANGED <<simpleVars, wrapperVars, listVars, syncVars>>
       \/ part = "simple" /\ SimpleNext
          /\ UNCHANGED <<poolVars, wrapperVars, listVars, syncVars>>
       \/ part = "wrapper" /\ WrapperNext
          /\ UNCHANGED <<poolVars, simpleVars, listVars, syncVars>>
       \/ part = "lists" /\ ListsNext
          /\ UNCHANGED <<poolVars, simpleVars, wrapperVars, syncVars>>
       \/ part = "sync" /\ SyncNext
          /\ UNCHANGED <<poolVars, simpleVars, wrapperVars, listVars>>

Spec == Init /\ [][Next]_allVars /\ TimersFire

\* The state of every part has the shape its module gives it.
ClientTypesOK ==
    /\ part = "pool" => PoolTypeOK
    /\ part = "simple" => SimpleTypeOK
    /\ part = "wrapper" => WrapperTypeOK
    /\ part = "lists" => ListsTypeOK
    /\ part = "sync" => SyncTypeOK

\* What RelayPool gives its caller accounts for every relay: the merged stream gives an
\* event once and loses none, a publish reports each relay it asked.
PoolAccountsForAll ==
    part = "pool" => MergedExactly /\ EveryRelayReported /\ EntriesAreOfTheirUrl

\* Sockets that were given up, and their late callbacks, never leave a map or a `connected`
\* naming a socket whose onclose has run or that was closed here; and a socket that is open
\* and named nowhere had a second one beside it, the only way either object loses one.  A
\* socket its relay has ended is still named until its onclose: this does not say that what
\* is named can be sent on.  Neither in SimplePool nor in a Relay.
SocketsAreLive ==
    /\ part = "simple" => MapNamesHeldSockets /\ LostHadRival
    /\ part = "wrapper" => ConnectedHasSocket /\ UnusedHadRival /\ PromiseIsPending

\* A subscription hears what there is and hears it once: no duplicate while the set of seen
\* events remembers, no relay both failed and at its end; and who was told of an end is not
\* told again.
HeardOnce ==
    /\ part = "simple" => NoEarlyDuplicate /\ FailedOrEosed
    /\ part = "wrapper" => MapIsOpen

\* A reconcile that was answered returns the difference, and the relay forgets its session.
SyncTells == part = "sync" => AnsweredIsDifference /\ SessionsEnd

\* A publish resolves only if its relay accepted the event, and a resolver in a map is the
\* one of a publish that still waits, in SimplePool and in a Relay.
ResolvedWasAnswered ==
    /\ part = "simple" => ResolvedWasAccepted /\ ResolversWait
    /\ part = "wrapper" => ResolverWaits
=============================================================================
