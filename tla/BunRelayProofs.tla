---------------------------- MODULE BunRelayProofs ----------------------------
(****************************************************************************)
(* The Bun relay, for any events, connections, subscription ids, filter     *)
(* lists and clock bound, with statements that may fail and crashes at any  *)
(* moment: its inductive invariant, and what follows from it.               *)
(****************************************************************************)
EXTENDS BunRelay, RelayCoreProofs

IInv == StoreInv /\ DeliveryInv

-----------------------------------------------------------------------------
(* What the backend supplies *)

\* Deletions find stored rows of the requester, and only plain kinds ask.
LEMMA TargetsAreOwn ==
    ASSUME NEW e \in Events
    PROVE  /\ DeletionTargets(e) \in SUBSET store
           /\ \A t \in DeletionTargets(e) : t.pubkey = e.pubkey
           /\ DeletionTargets(e) = {} \/ ~IsAnyReplaceableKind(e.kind)
BY DEF DeletionTargets, Live, DeletionKind, VanishKind, IsAnyReplaceableKind,
       IsReplaceableKind, IsParameterizedReplaceableKind

LEMMA NewestFirstSelects ==
    ASSUME NEW rows, NEW n, NEW R \in NewestFirst(rows, n)
    PROVE  R \subseteq rows /\ (n = NoLimit => R = rows)
BY DEF NewestFirst

LEMMA QueryIsComplete ==
    ASSUME TypeOK, NEW filters \in FilterLists
    PROVE  /\ QueryEvents(filters) \subseteq SUBSET Events
           /\ Complete(QueryEvents(filters), filters)
<1>1. CASE filters = << >>
  <2>1. \A R \in QueryEvents(filters) : R \subseteq store
    BY <1>1, NewestFirstSelects DEF QueryEvents
  <2>2. \A x : ~MatchesFilters(x, filters)
    BY <1>1 DEF MatchesFilters
  <2> QED BY <2>1, <2>2 DEF Complete, TypeOK
<1>2. CASE filters # << >>
  <2> DEFINE found == {e \in Live(store) : MatchesFilters(e, filters)}
  <2>1. QueryEvents(filters) = NewestFirst(found, filters[1].limit)
    BY <1>2 DEF QueryEvents
  <2>2. found \subseteq Events
    BY DEF Live, TypeOK
  <2>3. QueryEvents(filters) \subseteq SUBSET Events
    BY <2>1, <2>2, NewestFirstSelects
  <2>4. ASSUME Unlimited(filters), NEW R \in QueryEvents(filters)
        PROVE  R = found
    <3>1. 1 \in DOMAIN filters
      BY <1>2, RelayAssumption
    <3>2. filters[1].limit = NoLimit
      BY <2>4, <3>1 DEF Unlimited
    <3> QED BY <2>1, <2>4, <3>2, NewestFirstSelects
  <2>5. Complete(QueryEvents(filters), filters)
    BY <2>4 DEF Complete, Live
  <2> QED BY <2>3, <2>5
<1> QED BY <1>1, <1>2

-----------------------------------------------------------------------------
(* The invariant is inductive *)

LEMMA InitEstablishes == Init => IInv
BY RelayAssumption
   DEF Init, IInv, StoreInv, DeliveryInv, TypeOK, OneVersionPerSlot, OneVersion,
       AcceptedSurvives, SubscriptionsHaveSockets, NoMissedEvents

LEMMA StepPreserves == IInv /\ [Next]_vars => IInv'
<1> SUFFICES ASSUME IInv, [Next]_vars PROVE IInv'
  OBVIOUS
<1>0. StoreInv /\ DeliveryInv /\ TypeOK
  BY DEF IInv, StoreInv
<1>1. ASSUME NEW c \in Conn, NEW e \in Events, HandleEvent(c, e, DeletionTargets(e))
      PROVE  IInv'
  BY <1>0, <1>1, TargetsAreOwn, HandleEventKeepsStore, HandleEventKeepsDelivery
     DEF IInv
<1>2. ASSUME NEW c \in Conn, NEW e \in Events, FailEvent(c, e, DeletionTargets(e))
      PROVE  IInv'
  BY <1>0, <1>2, TargetsAreOwn, FailEventKeepsStore, FailEventKeepsDelivery DEF IInv
<1>3. ASSUME NEW c \in Conn, NEW e \in Events, RefuseEvent(c, e)
      PROVE  IInv'
  <2>1. UNCHANGED <<store, now, connections, subscriptions, delivered, eose, offered, torn>>
        /\ actor' = NoActor
    BY <1>3 DEF RefuseEvent
  <2>2. TypeOK'
    BY <1>0, <2>1 DEF TypeOK
  <2>3. DeliveryInv'
    BY <1>0, <2>1 DEF DeliveryInv, SubscriptionsHaveSockets, NoMissedEvents
  <2> QED BY <1>0, <2>1, <2>2, <2>3, UntouchedStore DEF IInv
<1>4. ASSUME NEW c \in Conn, NEW s \in SubId, NEW filters \in FilterLists,
             HandleReq(c, s, filters, QueryEvents(filters))
      PROVE  IInv'
  <2>1. /\ UNCHANGED <<store, now, connections, offered, torn>> /\ actor' = NoActor
        /\ subscriptions' = [subscriptions EXCEPT ![<<c, s>>] = filters]
        /\ eose' = eose \cup {<<c, s>>}
    BY <1>4 DEF HandleReq
  <2>2. PICK R \in QueryEvents(filters) :
           delivered' = [delivered EXCEPT ![<<c, s>>] = R]
    BY <1>4 DEF HandleReq
  <2>3. R \subseteq Events
    BY <1>0, QueryIsComplete
  <2>4. TypeOK'
    BY <1>0, <2>1, <2>2, <2>3 DEF TypeOK, Keys
  <2>5. DeliveryInv'
    BY <1>0, <1>4, QueryIsComplete, ReqKeepsDelivery
  <2> QED BY <1>0, <2>1, <2>4, <2>5, UntouchedStore DEF IInv
<1>5. ASSUME NEW c \in Conn, NEW s \in SubId, NEW filters \in FilterLists,
              FailReq(c, s, filters)
       PROVE  IInv'
  <2>1. /\ UNCHANGED <<store, now, connections, offered, torn>> /\ actor' = NoActor
        /\ subscriptions' = [subscriptions EXCEPT ![<<c, s>>] = filters]
        /\ delivered' = [delivered EXCEPT ![<<c, s>>] = {}]
        /\ eose' = eose \ {<<c, s>>}
    BY <1>5 DEF FailReq
  <2>2. TypeOK'
    BY <1>0, <2>1 DEF TypeOK
  <2>3. DeliveryInv'
    BY <1>0, <1>5, FailReqKeepsDelivery
  <2> QED BY <1>0, <2>1, <2>2, <2>3, UntouchedStore DEF IInv
<1>6. ASSUME NEW c \in Conn, NEW s \in SubId, HandleClose(c, s)
      PROVE  IInv'
  <2>1. /\ UNCHANGED <<store, now, connections, offered, torn>> /\ actor' = NoActor
        /\ subscriptions' = [subscriptions EXCEPT ![<<c, s>>] = NoSub]
        /\ delivered' = [delivered EXCEPT ![<<c, s>>] = {}]
        /\ eose' = eose \ {<<c, s>>}
    BY <1>6 DEF HandleClose
  <2>2. TypeOK'
    BY <1>0, <2>1 DEF TypeOK
  <2>3. \A k \in Keys : subscriptions'[k] # NoSub =>
           /\ k[1] \in connections' /\ subscriptions'[k] = subscriptions[k]
           /\ delivered'[k] = delivered[k]
    BY <1>0, <2>1 DEF TypeOK, DeliveryInv, SubscriptionsHaveSockets
  <2>4. DeliveryInv'
    BY <1>0, <2>1, <2>3, RemovalKeepsDelivery DEF Expired
  <2> QED BY <1>0, <2>1, <2>2, <2>4, UntouchedStore DEF IInv
<1>7. ASSUME NEW c \in Conn, Open(c)
      PROVE  IInv'
  <2>1. /\ UNCHANGED <<store, now, subscriptions, delivered, eose, offered, torn>>
        /\ actor' = NoActor /\ connections' = connections \cup {c}
    BY <1>7 DEF Open
  <2>2. TypeOK'
    BY <1>0, <2>1 DEF TypeOK
  <2>3. DeliveryInv'
    BY <1>0, <2>1 DEF DeliveryInv, SubscriptionsHaveSockets, NoMissedEvents
  <2> QED BY <1>0, <2>1, <2>2, <2>3, UntouchedStore DEF IInv
<1>8. ASSUME NEW c \in Conn, CloseSocket(c)
      PROVE  IInv'
  <2>1. /\ UNCHANGED <<store, now, offered, torn>> /\ actor' = NoActor
        /\ connections' = connections \ {c}
        /\ subscriptions' =
              [k \in Keys |-> IF k[1] = c THEN NoSub ELSE subscriptions[k]]
        /\ delivered' = [k \in Keys |-> IF k[1] = c THEN {} ELSE delivered[k]]
        /\ eose' = {k \in eose : k[1] # c}
    BY <1>8 DEF CloseSocket
  <2>2. TypeOK'
    BY <1>0, <2>1 DEF TypeOK
  <2>3. \A k \in Keys : subscriptions'[k] # NoSub =>
           /\ k[1] \in connections' /\ subscriptions'[k] = subscriptions[k]
           /\ delivered'[k] = delivered[k]
    BY <1>0, <2>1 DEF DeliveryInv, SubscriptionsHaveSockets
  <2>4. DeliveryInv'
    BY <1>0, <2>1, <2>3, RemovalKeepsDelivery DEF Expired
  <2> QED BY <1>0, <2>1, <2>2, <2>4, UntouchedStore DEF IInv
<1>9. ASSUME Tick
      PROVE  IInv'
  <2>1. /\ UNCHANGED <<store, connections, subscriptions, delivered, eose, offered, torn>>
        /\ actor' = NoActor /\ now < MaxTime /\ now' = now + 1
    BY <1>9 DEF Tick
  <2>2. TypeOK'
    BY <1>0, <2>1, RelayAssumption DEF TypeOK
  <2>3. \A x \in store : ~Expired(x, now)' => ~Expired(x, now)
    BY <1>0, <2>1, EventsAssumption, RelayAssumption DEF Expired, TypeOK
  <2>4. DeliveryInv'
    BY <1>0, <2>1, <2>3, RemovalKeepsDelivery DEF DeliveryInv, SubscriptionsHaveSockets
  <2> QED BY <1>0, <2>1, <2>2, <2>4, UntouchedStore DEF IInv
<1>10. ASSUME Crash
      PROVE  IInv'
  <2>1. /\ UNCHANGED <<store, now, offered, torn>> /\ actor' = NoActor
        /\ connections' = {}
        /\ subscriptions' = [k \in Keys |-> NoSub]
        /\ delivered' = [k \in Keys |-> {}]
        /\ eose' = {}
    BY <1>10 DEF Crash
  <2>2. TypeOK'
    BY <1>0, <2>1 DEF TypeOK
  <2>3. DeliveryInv'
    BY <2>1 DEF DeliveryInv, SubscriptionsHaveSockets, NoMissedEvents
  <2> QED BY <1>0, <2>1, <2>2, <2>3, UntouchedStore DEF IInv
<1>11. CASE UNCHANGED vars
  <2>1. TypeOK'
    BY <1>0, <1>11 DEF vars, TypeOK
  <2>2. DeliveryInv'
    BY <1>0, <1>11 DEF vars, DeliveryInv, SubscriptionsHaveSockets, NoMissedEvents
  <2> QED BY <1>0, <1>11, <2>1, <2>2, UntouchedStore DEF vars, IInv
<1> QED BY <1>1, <1>2, <1>3, <1>4, <1>5, <1>6, <1>7, <1>8, <1>9, <1>10, <1>11
        DEF Next

\* The inductive invariant holds in every state the relay reaches.
THEOREM Invariance == Spec => []IInv
BY InitEstablishes, StepPreserves, PTL DEF Spec

-----------------------------------------------------------------------------
(* What follows from it *)

\* Every variable keeps its type.
THEOREM TypeCorrect == Spec => []TypeOK
<1>1. IInv => TypeOK
  BY DEF IInv, StoreInv
<1> QED BY <1>1, Invariance, PTL

\* The events table never holds two versions of one slot, although the
\* SELECT, the DELETE and the INSERT of a replacement are three statements
\* any of which may fail.
THEOREM OneVersionAlways == Spec => []OneVersionPerSlot
<1>1. IInv => OneVersionPerSlot
  BY DEF IInv, StoreInv
<1> QED BY <1>1, Invariance, PTL

\* What was answered OK true stays in the table or is beaten by what is, until
\* its author deletes it or a failed replacement tears its slot.
THEOREM AcceptedAlwaysSurvives == Spec => []AcceptedSurvives
<1>1. IInv => AcceptedSurvives
  BY DEF IInv, StoreInv
<1> QED BY <1>1, Invariance, PTL

\* The subscription map holds nothing of a socket that is gone.
THEOREM SocketsOfSubscriptions == Spec => []SubscriptionsHaveSockets
<1>1. IInv => SubscriptionsHaveSockets
  BY DEF IInv, DeliveryInv
<1> QED BY <1>1, Invariance, PTL

\* Between the answer to a REQ and the broadcasts after it no stored event of
\* an unlimited subscription falls through.
THEOREM NoGapInDelivery == Spec => []NoMissedEvents
<1>1. IInv => NoMissedEvents
  BY DEF IInv, DeliveryInv
<1> QED BY <1>1, Invariance, PTL

\* Only the handling of an EVENT changes the table.
LEMMA OtherActionsKeepStore ==
    ASSUME [Next]_vars
    PROVE  \/ \E c \in Conn, e \in Events : HandleEvent(c, e, DeletionTargets(e))
           \/ \E c \in Conn, e \in Events : FailEvent(c, e, DeletionTargets(e))
           \/ store' = store
BY DEF Next, RefuseEvent, HandleReq, FailReq, HandleClose, Open, CloseSocket, Tick,
       Crash, vars

\* Every step of the relay acts for the author of what it removes, and leaves
\* no older version where a newer one was.
LEMMA StepActs ==
    ASSUME IInv, [Next]_vars
    PROVE  OwnerActs /\ VersionsRise
<1>0. StoreInv
  BY DEF IInv
<1>1. CASE \E c \in Conn, e \in Events : HandleEvent(c, e, DeletionTargets(e))
  BY <1>0, <1>1, TargetsAreOwn, HandleEventActs
<1>2. CASE \E c \in Conn, e \in Events : FailEvent(c, e, DeletionTargets(e))
  BY <1>0, <1>2, TargetsAreOwn, FailEventActs
<1>3. CASE store' = store
  BY <1>0, <1>3, UntouchedActs
<1> QED BY <1>1, <1>2, <1>3, OtherActionsKeepStore

\* No author's request removes another author's row.
THEOREM OwnersOnly == Spec => OnlyOwnerRemoves
<1>1. IInv /\ [Next]_vars => [OwnerActs]_vars
  BY StepActs
<1> QED BY <1>1, Invariance, PTL DEF Spec, OnlyOwnerRemoves

\* A slot that is occupied before and after a step never goes back in time.
THEOREM SlotsNeverAge == Spec => NeverOlder
<1>1. IInv /\ [Next]_vars => [VersionsRise]_vars
  BY StepActs
<1> QED BY <1>1, Invariance, PTL DEF Spec, NeverOlder

-----------------------------------------------------------------------------
(* What a limit leaves out: the page of a limited subscription.  The answer  *)
(* to its REQ is such a page; broadcasts only add to it, and what enters the *)
(* table meanwhile is broadcast.                                             *)

\* Of the rows at time t that a limited subscription matches, those it was not
\* shown are outweighed by what it was shown.
PageSeen(filters, rows, shown, t) ==
    filters # << >> =>
        \A e \in rows :
            (/\ filters[1].limit # NoLimit
             /\ ~Expired(e, t)
             /\ MatchesFilters(e, filters)
             /\ e \notin shown) => Outweighed(shown, e, filters[1].limit)

NewestInv ==
    /\ FiniteInv
    /\ \A k \in eose : subscriptions[k] # NoSub =>
          PageSeen(subscriptions[k], store, delivered[k], now)

\* The rows of a page may change, if what comes is shown and what expires
\* does not come back.
LEMMA PageSeenStays ==
    ASSUME NEW filters, NEW rows, NEW later, NEW shown, NEW more, NEW t, NEW u,
           PageSeen(filters, rows, shown, t), shown \subseteq more, IsFiniteSet(more),
           \A e \in later : e \in rows \/ (MatchesFilters(e, filters) => e \in more),
           \A e \in rows : ~Expired(e, u) => ~Expired(e, t)
    PROVE  PageSeen(filters, later, more, u)
<1> SUFFICES ASSUME filters # << >>, NEW e \in later, filters[1].limit # NoLimit,
                    ~Expired(e, u), MatchesFilters(e, filters), e \notin more
             PROVE  Outweighed(more, e, filters[1].limit)
  BY DEF PageSeen
<1>1. e \in rows /\ ~Expired(e, t) /\ e \notin shown
  OBVIOUS
<1>2. Outweighed(shown, e, filters[1].limit)
  BY <1>1 DEF PageSeen
<1> QED BY <1>2, OutweighedGrows

\* The answer to a REQ is a page.
LEMMA QueryIsPage ==
    ASSUME TypeOK, IsFiniteSet(store), NEW filters \in FilterLists,
           NEW R \in QueryEvents(filters)
    PROVE  IsFiniteSet(R) /\ PageSeen(filters, store, R, now)
<1>1. CASE filters = << >>
  <2>1. R \subseteq store
    BY <1>1, NewestFirstSelects DEF QueryEvents
  <2> QED BY <1>1, <2>1, FS_Subset DEF PageSeen
<1>2. CASE filters # << >>
  <2> DEFINE found == {e \in Live(store) : MatchesFilters(e, filters)}
             n == filters[1].limit
  <2>1. R \in NewestFirst(found, n)
    BY <1>2 DEF QueryEvents
  <2>2. found \subseteq store /\ R \subseteq found
    BY <2>1, NewestFirstSelects DEF Live
  <2>3. IsFiniteSet(found) /\ IsFiniteSet(R)
    BY <2>2, FS_Subset
  <2>4. \A r \in found : r.created_at \in Nat
    BY <2>2, EventsAssumption DEF TypeOK
  <2>5. ASSUME NEW x \in found, x \notin R
        PROVE  Outweighed(R, x, n)
    <3> HIDE DEF found, n
    <3> QED BY <2>1, <2>3, <2>4, <2>5, PageOutweighs
  <2>6. \A x \in store : ~Expired(x, now) /\ MatchesFilters(x, filters) => x \in found
    BY DEF Live
  <2> QED BY <2>3, <2>5, <2>6 DEF PageSeen
<1> QED BY <1>1, <1>2

\* Whatever a step does, the pages stay when each open subscription was open
\* before and was shown what came, or has just been answered.
LEMMA PagesStay ==
    ASSUME TypeOK, NewestInv, FiniteInv', eose' \subseteq Keys,
           \A x \in store : ~Expired(x, now') => ~Expired(x, now),
           \A k \in eose' : subscriptions'[k] # NoSub =>
              \/ /\ k \in eose
                 /\ subscriptions'[k] = subscriptions[k]
                 /\ delivered[k] \subseteq delivered'[k]
                 /\ \A x \in store' :
                       x \in store \/ (MatchesFilters(x, subscriptions[k]) => x \in delivered'[k])
              \/ PageSeen(subscriptions'[k], store', delivered'[k], now')
    PROVE  NewestInv'
<1> SUFFICES ASSUME NEW k \in eose', subscriptions'[k] # NoSub
             PROVE  PageSeen(subscriptions'[k], store', delivered'[k], now')
  BY DEF NewestInv
<1> DEFINE filters == subscriptions[k]
<1>1. CASE /\ k \in eose
           /\ subscriptions'[k] = filters
           /\ delivered[k] \subseteq delivered'[k]
           /\ \A x \in store' :
                 x \in store \/ (MatchesFilters(x, filters) => x \in delivered'[k])
  <2>1. PageSeen(filters, store, delivered[k], now)
    BY <1>1 DEF NewestInv
  <2>2. IsFiniteSet(delivered'[k])
    BY DEF FiniteInv
  <2>3. PageSeen(filters, store', delivered'[k], now')
    BY <1>1, <2>1, <2>2, PageSeenStays
  <2> QED BY <1>1, <2>3
<1> QED BY <1>1

LEMMA StepKeepsPages ==
    ASSUME IInv, NewestInv, [Next]_vars
    PROVE  NewestInv'
<1>0. /\ StoreInv /\ TypeOK /\ SubscriptionsHaveSockets /\ FiniteInv
      /\ subscriptions \in [Keys -> FilterLists \cup {NoSub}]
      /\ delivered \in [Keys -> SUBSET Events] /\ eose \subseteq Keys
  BY DEF IInv, StoreInv, DeliveryInv, TypeOK, NewestInv
<1>1. ASSUME NEW c \in Conn, NEW e \in Events, HandleEvent(c, e, DeletionTargets(e))
      PROVE  NewestInv'
  <2>1. UNCHANGED <<now, subscriptions, eose>>
    BY <1>1 DEF HandleEvent
  <2>2. DeletionTargets(e) \in SUBSET store
    BY TargetsAreOwn
  <2>3. /\ FiniteInv'
        /\ \A k \in Keys : delivered[k] \subseteq delivered'[k]
        /\ \A x \in store' : \/ x \in store
                             \/ \A k \in Keys :
                                   /\ subscriptions[k] # NoSub
                                   /\ MatchesFilters(x, subscriptions[k])
                                   => x \in delivered'[k]
    BY <1>0, <1>1, <2>2, HandleEventFrames
  <2>4. \A x \in store : ~Expired(x, now') => ~Expired(x, now)
    BY <2>1
  <2>5. \A k \in eose' : subscriptions'[k] # NoSub =>
           /\ k \in eose
           /\ subscriptions'[k] = subscriptions[k]
           /\ delivered[k] \subseteq delivered'[k]
           /\ \A x \in store' :
                 x \in store \/ (MatchesFilters(x, subscriptions[k]) => x \in delivered'[k])
    BY <1>0, <2>1, <2>3
  <2>6. eose' \subseteq Keys
    BY <1>0, <2>1
  <2> QED BY <1>0, <2>3, <2>4, <2>5, <2>6, PagesStay
<1>2. ASSUME NEW c \in Conn, NEW s \in SubId, NEW filters \in FilterLists,
             HandleReq(c, s, filters, QueryEvents(filters))
      PROVE  NewestInv'
  <2> DEFINE q == <<c, s>>
  <2>1. /\ UNCHANGED <<store, now>>
        /\ subscriptions' = [subscriptions EXCEPT ![q] = filters]
        /\ eose' = eose \cup {q}
        /\ q \in Keys
    BY <1>2 DEF HandleReq, Keys
  <2>2. PICK R \in QueryEvents(filters) : delivered' = [delivered EXCEPT ![q] = R]
    BY <1>2 DEF HandleReq
  <2>3. IsFiniteSet(R) /\ PageSeen(filters, store, R, now)
    BY <1>0, QueryIsPage DEF FiniteInv
  <2>4. \A k \in Keys : IF k = q THEN delivered'[k] = R /\ subscriptions'[k] = filters
                        ELSE delivered'[k] = delivered[k] /\ subscriptions'[k] = subscriptions[k]
    <3> HIDE DEF q
    <3> QED BY <1>0, <2>1, <2>2
  <2>5. FiniteInv'
    <3>1. \A k \in Keys : IsFiniteSet(delivered'[k]) \/ delivered'[k] = delivered[k]
      BY <2>3, <2>4
    <3> QED BY <1>0, <2>1, <3>1, FiniteStays
  <2>6. PageSeen(filters, store', R, now')
    BY <2>1, <2>3
  <2>7. \A k \in eose' : subscriptions'[k] # NoSub =>
           \/ /\ k \in eose
              /\ subscriptions'[k] = subscriptions[k]
              /\ delivered[k] \subseteq delivered'[k]
              /\ \A x \in store' :
                    x \in store \/ (MatchesFilters(x, subscriptions[k]) => x \in delivered'[k])
           \/ PageSeen(subscriptions'[k], store', delivered'[k], now')
    <3> SUFFICES ASSUME NEW k \in eose'
                 PROVE  \/ /\ k \in eose
                           /\ subscriptions'[k] = subscriptions[k]
                           /\ delivered[k] \subseteq delivered'[k]
                           /\ store' = store
                        \/ PageSeen(subscriptions'[k], store', delivered'[k], now')
      OBVIOUS
    <3>1. CASE k = q
      <4>1. delivered'[k] = R /\ subscriptions'[k] = filters
        BY <2>1, <2>4, <3>1
      <4> QED BY <2>6, <4>1
    <3>2. CASE k # q
      <4>1. k \in eose /\ k \in Keys
        BY <1>0, <2>1, <3>2
      <4> QED BY <2>1, <2>4, <3>2, <4>1
    <3> QED BY <3>1, <3>2
  <2>8. /\ eose' \subseteq Keys
        /\ \A x \in store : ~Expired(x, now') => ~Expired(x, now)
    BY <1>0, <2>1
  <2> QED BY <1>0, <2>5, <2>7, <2>8, PagesStay
<1>3. ASSUME /\ store' \subseteq store /\ eose' \subseteq eose
             /\ \A x \in store : ~Expired(x, now') => ~Expired(x, now)
             /\ \A k \in Keys : \/ delivered'[k] = delivered[k]
                                \/ delivered'[k] = {} /\ subscriptions'[k] = NoSub
                                \/ delivered'[k] = {} /\ k \notin eose'
             /\ \A k \in eose' : subscriptions'[k] \in {NoSub, subscriptions[k]}
      PROVE  NewestInv'
  <2>1. FiniteInv'
    <3>1. \A k \in Keys : IsFiniteSet(delivered'[k]) \/ delivered'[k] = delivered[k]
      BY <1>3, FS_EmptySet
    <3> QED BY <1>0, <1>3, <3>1, FiniteStays
  <2>2. eose' \subseteq Keys
    BY <1>0, <1>3
  <2>3. \A k \in eose' : subscriptions'[k] # NoSub =>
           /\ k \in eose
           /\ subscriptions'[k] = subscriptions[k]
           /\ delivered[k] \subseteq delivered'[k]
           /\ \A x \in store' :
                 x \in store \/ (MatchesFilters(x, subscriptions[k]) => x \in delivered'[k])
    BY <1>0, <1>3, <2>2
  <2> QED BY <1>0, <1>3, <2>1, <2>2, <2>3, PagesStay
<1>4. ASSUME NEW c \in Conn, NEW e \in Events,
             FailEvent(c, e, DeletionTargets(e)) \/ RefuseEvent(c, e)
      PROVE  NewestInv'
  BY <1>3, <1>4 DEF FailEvent, RefuseEvent
<1>5. ASSUME NEW c \in Conn, NEW s \in SubId,
             (\E filters \in FilterLists : FailReq(c, s, filters)) \/ HandleClose(c, s)
      PROVE  NewestInv'
  <2> DEFINE q == <<c, s>>
  <2>1. /\ UNCHANGED <<store, now>>
        /\ \E new : subscriptions' = [subscriptions EXCEPT ![q] = new]
        /\ delivered' = [delivered EXCEPT ![q] = {}]
        /\ eose' = eose \ {q}
        /\ q \in Keys
    BY <1>5 DEF FailReq, HandleClose, Keys
  <2>2. \A k \in Keys : IF k = q THEN delivered'[k] = {}
                        ELSE delivered'[k] = delivered[k] /\ subscriptions'[k] = subscriptions[k]
    <3> HIDE DEF q
    <3> QED BY <1>0, <2>1
  <2>3. \A k \in Keys : \/ delivered'[k] = delivered[k]
                        \/ delivered'[k] = {} /\ k \notin eose'
    BY <2>1, <2>2
  <2>4. \A k \in eose' : subscriptions'[k] \in {NoSub, subscriptions[k]}
    BY <1>0, <2>1, <2>2
  <2> QED BY <1>3, <2>1, <2>3, <2>4
<1>6. ASSUME NEW c \in Conn, Open(c)
      PROVE  NewestInv'
  BY <1>0, <1>3, <1>6 DEF Open
<1>7. ASSUME NEW c \in Conn, CloseSocket(c)
      PROVE  NewestInv'
  <2>1. /\ UNCHANGED <<store, now>>
        /\ subscriptions' =
              [k \in Keys |-> IF k[1] = c THEN NoSub ELSE subscriptions[k]]
        /\ delivered' = [k \in Keys |-> IF k[1] = c THEN {} ELSE delivered[k]]
        /\ eose' = {k \in eose : k[1] # c}
    BY <1>7 DEF CloseSocket
  <2>2. \A k \in Keys : \/ delivered'[k] = delivered[k]
                        \/ delivered'[k] = {} /\ subscriptions'[k] = NoSub
    BY <2>1
  <2>3. \A k \in eose' : subscriptions'[k] \in {NoSub, subscriptions[k]}
    BY <1>0, <2>1
  <2> QED BY <1>3, <2>1, <2>2, <2>3
<1>8. ASSUME Tick
      PROVE  NewestInv'
  <2>1. UNCHANGED <<store, subscriptions, delivered, eose>> /\ now' = now + 1
    BY <1>8 DEF Tick
  <2>2. \A x \in store : ~Expired(x, now') => ~Expired(x, now)
    BY <1>0, <2>1, EventsAssumption, RelayAssumption DEF Expired, TypeOK
  <2> QED BY <1>0, <1>3, <2>1, <2>2
<1>9. ASSUME Crash
      PROVE  NewestInv'
  <2>1. /\ UNCHANGED <<store, now>>
        /\ subscriptions' = [k \in Keys |-> NoSub]
        /\ delivered' = [k \in Keys |-> {}]
        /\ eose' = {}
    BY <1>9 DEF Crash
  <2> QED BY <1>3, <2>1
<1>10. CASE UNCHANGED vars
  BY <1>0, <1>3, <1>10 DEF vars
<1> QED BY <1>1, <1>2, <1>4, <1>5, <1>6, <1>7, <1>8, <1>9, <1>10 DEF Next

\* A limit keeps the newest: what a limited subscription was not shown is
\* outweighed by as many events as its limit, all at least as new, from its
\* EOSE on, whatever is stored, deleted or expires afterwards.
THEOREM NewestAlwaysDelivered == Spec => []NewestDelivered
<1>1. Init => NewestInv
  <2> SUFFICES ASSUME Init PROVE NewestInv
    OBVIOUS
  <2>1. store = {} /\ eose = {} /\ delivered = [k \in Keys |-> {}]
    BY DEF Init
  <2> QED BY <2>1, FS_EmptySet DEF NewestInv, FiniteInv
<1>2. IInv /\ NewestInv /\ [Next]_vars => NewestInv'
  BY StepKeepsPages
<1>3. NewestInv => NewestDelivered
  BY DEF NewestInv, NewestDelivered, PageSeen, Outweighed
<1> QED BY <1>1, <1>2, <1>3, Invariance, PTL DEF Spec

-----------------------------------------------------------------------------
(* The events table implements the register of VersionRegister. *)

LEMMA StepWrites ==
    ASSUME IInv, [Next]_vars
    PROVE  [Register!RegisterNext]_LatestVersion
<1>0. StoreInv
  BY DEF IInv
<1>1. CASE \E c \in Conn, e \in Events : HandleEvent(c, e, DeletionTargets(e))
  BY <1>0, <1>1, TargetsAreOwn, HandleEventWrites
<1>2. CASE \E c \in Conn, e \in Events : FailEvent(c, e, DeletionTargets(e))
  BY <1>0, <1>2, TargetsAreOwn, FailEventWithdraws
<1>3. CASE store' = store
  BY <1>3 DEF LatestVersion
<1> QED BY <1>1, <1>2, <1>3, OtherActionsKeepStore

\* The SQLite table, its failing statements and its crashes included, is a
\* register of versions per slot that only a slot's author writes and that
\* only a version that wins replaces.
THEOREM TableIsRegister == Spec => ImplementsRegister
<1>1. Init => Register!RegisterInit
  BY EmptyIsInitial
<1>2. IInv /\ [Next]_vars => [Register!RegisterNext]_LatestVersion
  BY StepWrites
<1> QED BY <1>1, <1>2, Invariance, PTL DEF Spec, ImplementsRegister, Register!RegisterSpec
=============================================================================
