---------------------------- MODULE DoRelayProofs ----------------------------
(****************************************************************************)
(* The Cloudflare relay, for any events, connections, filters and limits,   *)
(* with statements that may fail and hibernation at any moment: what it     *)
(* keeps of the store's promises, and the map it may lose but not falsify.  *)
(****************************************************************************)
EXTENDS DoRelay, RelayCoreProofs

DoInv == StoreInv /\ DoTypeOK /\ MapWithinWanted

-----------------------------------------------------------------------------
(* What the backend supplies *)

\* A page is taken from the rows it is a page of.
LEMMA PageOfRows ==
    ASSUME NEW rows, NEW n, NEW R \in NewestFirst(rows, n)
    PROVE  R \subseteq rows
BY DEF NewestFirst

\* Deletions find stored rows of the requester, and only plain kinds ask.
LEMMA DoTargetsAreOwn ==
    ASSUME NEW e \in Events, NEW targets \in DeletionTargets(e)
    PROVE  /\ targets \in SUBSET store
           /\ \A t \in targets : t.pubkey = e.pubkey
           /\ targets = {} \/ ~IsAnyReplaceableKind(e.kind)
<1>1. CASE e.kind = DeletionKind
  BY <1>1 DEF DeletionTargets, DeletionKind, VanishKind, IsAnyReplaceableKind,
       IsReplaceableKind, IsParameterizedReplaceableKind
<1>2. CASE e.kind = VanishKind
  <2>1. DeletionTargets(e) =
          {{t \in found : t.created_at <= e.created_at} :
              found \in NewestFirst({t \in store : t.pubkey = e.pubkey}, DefaultLimit)}
    BY <1>2 DEF DeletionTargets, DeletionKind, VanishKind
  <2>2. PICK found \in NewestFirst({t \in store : t.pubkey = e.pubkey}, DefaultLimit) :
           targets = {t \in found : t.created_at <= e.created_at}
    BY <2>1
  <2>3. \A t \in targets : t \in store /\ t.pubkey = e.pubkey
    BY <2>2, PageOfRows
  <2>4. ~IsAnyReplaceableKind(e.kind)
    BY <1>2 DEF VanishKind, IsAnyReplaceableKind, IsReplaceableKind,
         IsParameterizedReplaceableKind
  <2> QED BY <2>3, <2>4
<1>3. CASE e.kind # DeletionKind /\ e.kind # VanishKind
  <2>1. DeletionTargets(e) = {{}}
    BY <1>3 DEF DeletionTargets
  <2> QED BY <2>1
<1> QED BY <1>1, <1>2, <1>3

\* A query answers with stored rows.
LEMMA QueryIsStored ==
    ASSUME TypeOK, NEW filters \in FilterLists, NEW R \in QueryEvents(filters)
    PROVE  R \subseteq Events
<1>1. CASE filters = << >>
  BY <1>1, PageOfRows DEF QueryEvents, TypeOK
<1>2. CASE filters # << >>
  <2> DEFINE sel == Selections(filters)
             picks == {p \in [DOMAIN filters -> UNION {sel[i] : i \in DOMAIN filters}] :
                         \A i \in DOMAIN filters : p[i] \in sel[i]}
  <2>1. PICK pick \in picks :
          R = {e \in UNION {pick[i] : i \in DOMAIN filters} : MatchesFilters(e, filters)}
    BY <1>2 DEF QueryEvents
  <2>2. ASSUME NEW i \in DOMAIN filters
        PROVE  pick[i] \subseteq store
    <3>1. pick[i] \in NewestFirst({e \in store : WhereClause(e, filters[i])},
                                  RowLimit(filters[i]))
      BY <2>1 DEF Selections
    <3> QED BY <3>1, PageOfRows
  <2> QED BY <2>1, <2>2 DEF TypeOK
<1> QED BY <1>1, <1>2

-----------------------------------------------------------------------------
(* The invariant is inductive *)

LEMMA DoInitEstablishes == DoInit => DoInv
BY RelayAssumption
   DEF DoInit, Init, DoInv, DoTypeOK, StoreInv, TypeOK, OneVersionPerSlot, OneVersion,
       AcceptedSurvives, MapWithinWanted

LEMMA EventKeepsDoInv ==
    ASSUME DoInv, NEW c \in Conn, NEW e \in Events, WebSocketEvent(c, e)
    PROVE  DoInv'
<1>1. UNCHANGED <<connections, subscriptions, wanted>>
  BY DEF WebSocketEvent, HandleEvent, FailEvent, RefuseEvent
<1>2. StoreInv'
  <2>1. CASE \E targets \in DeletionTargets(e) : HandleEvent(c, e, targets)
    BY <2>1, DoTargetsAreOwn, HandleEventKeepsStore DEF DoInv
  <2>2. CASE \E targets \in DeletionTargets(e) : FailEvent(c, e, targets)
    BY <2>2, DoTargetsAreOwn, FailEventKeepsStore DEF DoInv
  <2>3. CASE RefuseEvent(c, e)
    <3>1. TypeOK'
      BY <2>3 DEF RefuseEvent, DoInv, StoreInv, TypeOK
    <3> QED BY <2>3, <3>1, UntouchedStore DEF RefuseEvent, DoInv
  <2> QED BY <2>1, <2>2, <2>3 DEF WebSocketEvent
<1> QED BY <1>1, <1>2 DEF DoInv, DoTypeOK, StoreInv, MapWithinWanted

LEMMA ReqKeepsDoInv ==
    ASSUME DoInv, NEW c \in Conn, NEW s \in SubId, NEW filters \in FilterLists,
           WebSocketReq(c, s, filters)
    PROVE  DoInv'
<1> DEFINE q == <<c, s>>
<1>1. q \in Keys /\ q[1] = c /\ TypeOK
  BY DEF Keys, DoInv, StoreInv
<1>2. /\ UNCHANGED <<store, now, connections, offered, torn>> /\ actor' = NoActor
      /\ subscriptions' = [subscriptions EXCEPT ![q] = filters]
      /\ wanted' = [wanted EXCEPT ![q] = filters]
      /\ c \in connections
      /\ eose' \subseteq eose \cup {q}
  BY DEF WebSocketReq, HandleReq, FailReq
<1>3. PICK R \in SUBSET Events : delivered' = [delivered EXCEPT ![q] = R]
  BY <1>1, QueryIsStored DEF WebSocketReq, HandleReq, FailReq
<1>4. TypeOK'
  BY <1>1, <1>2, <1>3 DEF TypeOK
<1>5. wanted' \in [Keys -> FilterLists \cup {NoSub}]
  BY <1>1, <1>2 DEF DoInv, DoTypeOK
<1>6. MapWithinWanted'
  BY <1>1, <1>2 DEF DoInv, DoTypeOK, TypeOK, MapWithinWanted
<1> QED BY <1>2, <1>4, <1>5, <1>6, UntouchedStore DEF DoInv, DoTypeOK

LEMMA UnsubscribeKeepsDoInv ==
    ASSUME DoInv, NEW c \in Conn, NEW s \in SubId, WebSocketUnsubscribe(c, s)
    PROVE  DoInv'
<1> DEFINE q == <<c, s>>
<1>1. q \in Keys /\ TypeOK
  BY DEF Keys, DoInv, StoreInv
<1>2. /\ UNCHANGED <<store, now, connections, offered, torn>> /\ actor' = NoActor
      /\ subscriptions' = [subscriptions EXCEPT ![q] = NoSub]
      /\ wanted' = [wanted EXCEPT ![q] = NoSub]
      /\ delivered' = [delivered EXCEPT ![q] = {}]
      /\ eose' = eose \ {q}
  BY DEF WebSocketUnsubscribe, HandleClose
<1>3. TypeOK'
  BY <1>1, <1>2 DEF TypeOK
<1>4. wanted' \in [Keys -> FilterLists \cup {NoSub}]
  BY <1>1, <1>2 DEF DoInv, DoTypeOK
<1>5. MapWithinWanted'
  BY <1>1, <1>2 DEF DoInv, DoTypeOK, TypeOK, MapWithinWanted
<1> QED BY <1>2, <1>3, <1>4, <1>5, UntouchedStore DEF DoInv, DoTypeOK

LEMMA CloseKeepsDoInv ==
    ASSUME DoInv, NEW c \in Conn, WebSocketClose(c)
    PROVE  DoInv'
<1>1. /\ UNCHANGED <<store, now, offered, torn>> /\ actor' = NoActor
      /\ connections' = connections \ {c}
      /\ subscriptions' = [k \in Keys |-> IF k[1] = c THEN NoSub ELSE subscriptions[k]]
      /\ delivered' = [k \in Keys |-> IF k[1] = c THEN {} ELSE delivered[k]]
      /\ eose' = {k \in eose : k[1] # c}
      /\ wanted' = [k \in Keys |-> IF k[1] = c THEN NoSub ELSE wanted[k]]
  BY DEF WebSocketClose, CloseSocket
<1>2. TypeOK'
  BY <1>1 DEF DoInv, StoreInv, TypeOK
<1>3. DoTypeOK'
  BY <1>1, <1>2 DEF DoInv, DoTypeOK
<1>4. MapWithinWanted'
  BY <1>1 DEF DoInv, MapWithinWanted
<1> QED BY <1>1, <1>2, <1>3, <1>4, UntouchedStore DEF DoInv

LEMMA DoStepPreserves == DoInv /\ [DoNext]_doVars => DoInv'
<1> SUFFICES ASSUME DoInv, [DoNext]_doVars PROVE DoInv'
  OBVIOUS
<1>1. CASE \E c \in Conn, e \in Events : WebSocketEvent(c, e)
  BY <1>1, EventKeepsDoInv
<1>2. CASE \E c \in Conn, s \in SubId, filters \in FilterLists : WebSocketReq(c, s, filters)
  BY <1>2, ReqKeepsDoInv
<1>3. CASE \E c \in Conn, s \in SubId : WebSocketUnsubscribe(c, s)
  BY <1>3, UnsubscribeKeepsDoInv
<1>4. CASE \E c \in Conn : WebSocketClose(c)
  BY <1>4, CloseKeepsDoInv
<1>5. CASE \/ \E c \in Conn : Upgrade(c)
           \/ Tick /\ UNCHANGED wanted
           \/ Hibernate
           \/ UNCHANGED doVars
  <2>1. /\ UNCHANGED <<store, offered, torn, wanted>>
        /\ connections \subseteq connections'
        /\ \A k \in Keys : subscriptions'[k] = NoSub \/ subscriptions'[k] = subscriptions[k]
    BY <1>5 DEF Upgrade, Open, Tick, Hibernate, doVars, vars
  <2>2. TypeOK'
    BY <1>5, RelayAssumption
       DEF Upgrade, Open, Tick, Hibernate, doVars, vars, DoInv, StoreInv, TypeOK
  <2>3. DoTypeOK' /\ MapWithinWanted'
    BY <2>1, <2>2 DEF DoInv, DoTypeOK, MapWithinWanted
  <2> QED BY <2>1, <2>2, <2>3, UntouchedStore DEF DoInv
<1> QED BY <1>1, <1>2, <1>3, <1>4, <1>5 DEF DoNext

\* The inductive invariant holds in every state the object reaches.
THEOREM DoInvariance == DoSpec => []DoInv
BY DoInitEstablishes, DoStepPreserves, PTL DEF DoSpec

-----------------------------------------------------------------------------
(* What follows from it *)

\* Every variable keeps its type, the history of what clients want included.
THEOREM DoTypeCorrect == DoSpec => []DoTypeOK
<1>1. DoInv => DoTypeOK
  BY DEF DoInv
<1> QED BY <1>1, DoInvariance, PTL

\* Hibernation or not, the table holds one version per slot and what was
\* answered OK true is in it or beaten.
THEOREM DoStoreIsSound == DoSpec => [](OneVersionPerSlot /\ AcceptedSurvives)
<1>1. DoInv => OneVersionPerSlot /\ AcceptedSurvives
  BY DEF DoInv, StoreInv
<1> QED BY <1>1, DoInvariance, PTL

\* The subscription map may forget what clients want, but holds nothing they
\* have closed, changed or left.
THEOREM MapIsWanted == DoSpec => []MapWithinWanted
<1>1. DoInv => MapWithinWanted
  BY DEF DoInv
<1> QED BY <1>1, DoInvariance, PTL

LEMMA DoStepActs ==
    ASSUME DoInv, [DoNext]_doVars
    PROVE  [OwnerActs /\ VersionsRise]_vars
<1>0. StoreInv
  BY DEF DoInv
<1>1. CASE \E c \in Conn, e \in Events : \E targets \in DeletionTargets(e) :
              HandleEvent(c, e, targets)
  BY <1>0, <1>1, DoTargetsAreOwn, HandleEventActs
<1>2. CASE \E c \in Conn, e \in Events : \E targets \in DeletionTargets(e) :
              FailEvent(c, e, targets)
  BY <1>0, <1>2, DoTargetsAreOwn, FailEventActs
<1>3. CASE store' = store
  BY <1>0, <1>3, UntouchedActs
<1>4. \/ \E c \in Conn, e \in Events : WebSocketEvent(c, e)
      \/ store' = store
  BY DEF DoNext, WebSocketReq, HandleReq, FailReq, WebSocketUnsubscribe, HandleClose,
         WebSocketClose, CloseSocket, Upgrade, Open, Tick, Hibernate, doVars, vars
<1> QED BY <1>1, <1>2, <1>3, <1>4 DEF WebSocketEvent, RefuseEvent

\* On this backend too a row goes only at its author's request, and no step
\* puts an older version where a newer one was.
THEOREM DoStepsAreSound == DoSpec => OnlyOwnerRemoves /\ NeverOlder
<1>1. DoInv /\ [DoNext]_doVars => [OwnerActs /\ VersionsRise]_vars
  BY DoStepActs
<1>2. [OwnerActs /\ VersionsRise]_vars => [OwnerActs]_vars /\ [VersionsRise]_vars
  OBVIOUS
<1> QED BY <1>1, <1>2, DoInvariance, PTL DEF DoSpec, OnlyOwnerRemoves, NeverOlder

-----------------------------------------------------------------------------
(* Pages: every filter has a limit here, its own or the default, and so      *)
(* every answered subscription is a page, which broadcasts add to.           *)

\* Of the rows a subscription matches, those it was not shown are outweighed,
\* filter by filter, by what it was shown.
PageSeen(filters, rows, shown) ==
    \A e \in rows :
        MatchesFilters(e, filters) /\ e \notin shown =>
            \A i \in DOMAIN filters :
                Exact(filters[i]) /\ MatchesFilter(e, filters[i]) =>
                    Outweighed(shown, e, RowLimit(filters[i]))

PageInv ==
    /\ FiniteInv
    /\ \A k \in eose : subscriptions[k] # NoSub =>
          PageSeen(subscriptions[k], store, delivered[k])

\* The rows of a page may change, if what comes is shown.
LEMMA PageSeenStays ==
    ASSUME NEW filters, NEW rows, NEW later, NEW shown, NEW more,
           PageSeen(filters, rows, shown), shown \subseteq more, IsFiniteSet(more),
           \A e \in later : e \in rows \/ (MatchesFilters(e, filters) => e \in more)
    PROVE  PageSeen(filters, later, more)
<1> SUFFICES ASSUME NEW e \in later, MatchesFilters(e, filters), e \notin more,
                    NEW i \in DOMAIN filters, Exact(filters[i]),
                    MatchesFilter(e, filters[i])
             PROVE  Outweighed(more, e, RowLimit(filters[i]))
  BY DEF PageSeen
<1>1. e \in rows /\ e \notin shown
  OBVIOUS
<1>2. Outweighed(shown, e, RowLimit(filters[i]))
  BY <1>1 DEF PageSeen
<1> QED BY <1>2, OutweighedGrows

\* The answer to a REQ, which joins one page per filter, is a page for each.
LEMMA QueryIsPage ==
    ASSUME TypeOK, IsFiniteSet(store), NEW filters \in FilterLists,
           NEW R \in QueryEvents(filters)
    PROVE  IsFiniteSet(R) /\ PageSeen(filters, store, R)
<1>1. CASE filters = << >>
  <2>1. R \subseteq store
    BY <1>1, PageOfRows DEF QueryEvents
  <2>2. \A x : ~MatchesFilters(x, filters)
    BY <1>1 DEF MatchesFilters
  <2> QED BY <2>1, <2>2, FS_Subset DEF PageSeen
<1>2. CASE filters # << >>
  <2> DEFINE sel == Selections(filters)
             picks == {p \in [DOMAIN filters -> UNION {sel[i] : i \in DOMAIN filters}] :
                         \A i \in DOMAIN filters : p[i] \in sel[i]}
             found(i) == {e \in store : WhereClause(e, filters[i])}
  <2>1. PICK pick \in picks :
          R = {e \in UNION {pick[i] : i \in DOMAIN filters} : MatchesFilters(e, filters)}
    BY <1>2 DEF QueryEvents
  <2>2. ASSUME NEW i \in DOMAIN filters
        PROVE  /\ pick[i] \in NewestFirst(found(i), RowLimit(filters[i]))
               /\ pick[i] \subseteq found(i)
    <3>1. pick[i] \in NewestFirst(found(i), RowLimit(filters[i]))
      BY <2>1 DEF Selections
    <3> QED BY <3>1, PageOfRows
  <2>3. R \subseteq store
    BY <2>1, <2>2
  <2>4. IsFiniteSet(R)
    BY <2>3, FS_Subset
  <2>5. ASSUME NEW x \in store, MatchesFilters(x, filters), x \notin R,
               NEW i \in DOMAIN filters, Exact(filters[i]),
               MatchesFilter(x, filters[i])
        PROVE  Outweighed(R, x, RowLimit(filters[i]))
    <3> DEFINE rows == found(i)
               n == RowLimit(filters[i])
    <3>1. \A y \in store : WhereClause(y, filters[i]) <=> MatchesFilter(y, filters[i])
      BY <2>5 DEF Exact, TypeOK
    <3>2. x \in rows /\ x \notin pick[i]
      BY <2>1, <2>5, <3>1
    <3>3. pick[i] \subseteq R
      BY <2>1, <2>2, <3>1 DEF MatchesFilters
    <3>4. IsFiniteSet(rows) /\ \A r \in rows : r.created_at \in Nat
      <4>1. rows \subseteq store
        OBVIOUS
      <4> QED BY <4>1, FS_Subset, EventsAssumption DEF TypeOK
    <3>5. Outweighed(pick[i], x, n)
      <4>1. pick[i] \in NewestFirst(rows, n)
        BY <2>2
      <4> HIDE DEF rows, n
      <4> QED BY <3>2, <3>4, <4>1, PageOutweighs
    <3> QED BY <2>4, <3>3, <3>5, OutweighedGrows
  <2> QED BY <2>4, <2>5 DEF PageSeen
<1> QED BY <1>1, <1>2

\* Whatever a step does, the pages stay when each open subscription was open
\* before and was shown what came, or has just been answered.
LEMMA PagesStay ==
    ASSUME TypeOK, PageInv, FiniteInv', eose' \subseteq Keys,
           \A k \in eose' : subscriptions'[k] # NoSub =>
              \/ /\ k \in eose
                 /\ subscriptions'[k] = subscriptions[k]
                 /\ delivered[k] \subseteq delivered'[k]
                 /\ \A x \in store' :
                       x \in store \/ (MatchesFilters(x, subscriptions[k]) => x \in delivered'[k])
              \/ PageSeen(subscriptions'[k], store', delivered'[k])
    PROVE  PageInv'
<1> SUFFICES ASSUME NEW k \in eose', subscriptions'[k] # NoSub
             PROVE  PageSeen(subscriptions'[k], store', delivered'[k])
  BY DEF PageInv
<1> DEFINE filters == subscriptions[k]
<1>1. CASE /\ k \in eose
           /\ subscriptions'[k] = filters
           /\ delivered[k] \subseteq delivered'[k]
           /\ \A x \in store' :
                 x \in store \/ (MatchesFilters(x, filters) => x \in delivered'[k])
  <2>1. PageSeen(filters, store, delivered[k])
    BY <1>1 DEF PageInv
  <2>2. IsFiniteSet(delivered'[k])
    BY DEF FiniteInv
  <2>3. PageSeen(filters, store', delivered'[k])
    BY <1>1, <2>1, <2>2, PageSeenStays
  <2> QED BY <1>1, <2>3
<1> QED BY <1>1

LEMMA DoStepKeepsPages ==
    ASSUME DoInv, PageInv, [DoNext]_doVars
    PROVE  PageInv'
<1>0. /\ StoreInv /\ TypeOK /\ SubscriptionsHaveSockets /\ FiniteInv
      /\ subscriptions \in [Keys -> FilterLists \cup {NoSub}]
      /\ delivered \in [Keys -> SUBSET Events] /\ eose \subseteq Keys
  BY DEF DoInv, StoreInv, MapWithinWanted, SubscriptionsHaveSockets, TypeOK, PageInv
<1>1. ASSUME NEW c \in Conn, NEW e \in Events, NEW targets \in DeletionTargets(e),
             HandleEvent(c, e, targets)
      PROVE  PageInv'
  <2>1. UNCHANGED <<subscriptions, eose>>
    BY <1>1 DEF HandleEvent
  <2>2. targets \in SUBSET store
    BY <1>1, DoTargetsAreOwn
  <2>3. /\ FiniteInv'
        /\ \A k \in Keys : delivered[k] \subseteq delivered'[k]
        /\ \A x \in store' : \/ x \in store
                             \/ \A k \in Keys :
                                   /\ subscriptions[k] # NoSub
                                   /\ MatchesFilters(x, subscriptions[k])
                                   => x \in delivered'[k]
    BY <1>0, <1>1, <2>2, HandleEventFrames
  <2>4. \A k \in eose' : subscriptions'[k] # NoSub =>
           /\ k \in eose
           /\ subscriptions'[k] = subscriptions[k]
           /\ delivered[k] \subseteq delivered'[k]
           /\ \A x \in store' :
                 x \in store \/ (MatchesFilters(x, subscriptions[k]) => x \in delivered'[k])
    BY <1>0, <2>1, <2>3
  <2>5. eose' \subseteq Keys
    BY <1>0, <2>1
  <2> QED BY <1>0, <2>3, <2>4, <2>5, PagesStay
<1>2. ASSUME NEW c \in Conn, NEW s \in SubId, NEW filters \in FilterLists,
             HandleReq(c, s, filters, QueryEvents(filters))
      PROVE  PageInv'
  <2> DEFINE q == <<c, s>>
  <2>1. /\ UNCHANGED store
        /\ subscriptions' = [subscriptions EXCEPT ![q] = filters]
        /\ eose' = eose \cup {q}
        /\ q \in Keys
    BY <1>2 DEF HandleReq, Keys
  <2>2. PICK R \in QueryEvents(filters) : delivered' = [delivered EXCEPT ![q] = R]
    BY <1>2 DEF HandleReq
  <2>3. IsFiniteSet(R) /\ PageSeen(filters, store, R)
    BY <1>0, QueryIsPage DEF FiniteInv
  <2>4. \A k \in Keys : IF k = q THEN delivered'[k] = R /\ subscriptions'[k] = filters
                        ELSE delivered'[k] = delivered[k] /\ subscriptions'[k] = subscriptions[k]
    <3> HIDE DEF q
    <3> QED BY <1>0, <2>1, <2>2
  <2>5. FiniteInv'
    <3>1. \A k \in Keys : IsFiniteSet(delivered'[k]) \/ delivered'[k] = delivered[k]
      BY <2>3, <2>4
    <3> QED BY <1>0, <2>1, <3>1, FiniteStays
  <2>6. PageSeen(filters, store', R)
    BY <2>1, <2>3
  <2>7. ASSUME NEW k \in eose'
        PROVE  \/ /\ k \in eose
                  /\ subscriptions'[k] = subscriptions[k]
                  /\ delivered[k] \subseteq delivered'[k]
                  /\ store' = store
               \/ PageSeen(subscriptions'[k], store', delivered'[k])
    <3>1. CASE k = q
      <4>1. delivered'[k] = R /\ subscriptions'[k] = filters
        BY <2>1, <2>4, <3>1
      <4> QED BY <2>6, <4>1
    <3>2. CASE k # q
      <4>1. k \in eose /\ k \in Keys
        BY <1>0, <2>1, <3>2
      <4> QED BY <2>1, <2>4, <3>2, <4>1
    <3> QED BY <3>1, <3>2
  <2>8. \A k \in eose' : subscriptions'[k] # NoSub =>
           \/ /\ k \in eose
              /\ subscriptions'[k] = subscriptions[k]
              /\ delivered[k] \subseteq delivered'[k]
              /\ \A x \in store' :
                    x \in store \/ (MatchesFilters(x, subscriptions[k]) => x \in delivered'[k])
           \/ PageSeen(subscriptions'[k], store', delivered'[k])
    BY <2>7
  <2>9. eose' \subseteq Keys
    BY <1>0, <2>1
  <2> QED BY <1>0, <2>5, <2>8, <2>9, PagesStay
<1>3. ASSUME /\ store' \subseteq store /\ eose' \subseteq eose
             /\ \A k \in Keys : \/ delivered'[k] = delivered[k]
                                \/ delivered'[k] = {} /\ subscriptions'[k] = NoSub
                                \/ delivered'[k] = {} /\ k \notin eose'
             /\ \A k \in eose' : subscriptions'[k] \in {NoSub, subscriptions[k]}
      PROVE  PageInv'
  <2>1. FiniteInv'
    <3>1. \A k \in Keys : IsFiniteSet(delivered'[k]) \/ delivered'[k] = delivered[k]
      BY <1>3, FS_EmptySet
    <3> QED BY <1>0, <1>3, <3>1, FiniteStays
  <2>2. eose' \subseteq Keys
    BY <1>0, <1>3
  <2>3. \A k \in eose' : subscriptions'[k] # NoSub =>
           /\ k \in eose
           /\ subscriptions'[k] = subscriptions[k]
           /\ delivered[k] \subseteq delivered'[k]
           /\ \A x \in store' :
                 x \in store \/ (MatchesFilters(x, subscriptions[k]) => x \in delivered'[k])
    BY <1>0, <1>3, <2>2
  <2> QED BY <1>0, <1>3, <2>1, <2>2, <2>3, PagesStay
<1>4. ASSUME NEW c \in Conn, NEW e \in Events, NEW targets,
             FailEvent(c, e, targets) \/ RefuseEvent(c, e)
      PROVE  PageInv'
  BY <1>3, <1>4 DEF FailEvent, RefuseEvent
<1>5. ASSUME NEW c \in Conn, NEW s \in SubId,
             (\E filters \in FilterLists : FailReq(c, s, filters)) \/ HandleClose(c, s)
      PROVE  PageInv'
  <2> DEFINE q == <<c, s>>
  <2>1. /\ UNCHANGED store
        /\ \E new : subscriptions' = [subscriptions EXCEPT ![q] = new]
        /\ delivered' = [delivered EXCEPT ![q] = {}]
        /\ eose' = eose \ {q}
        /\ q \in Keys
    BY <1>5 DEF FailReq, HandleClose, Keys
  <2>2. \A k \in Keys : IF k = q THEN delivered'[k] = {}
                        ELSE delivered'[k] = delivered[k] /\ subscriptions'[k] = subscriptions[k]
    <3> HIDE DEF q
    <3> QED BY <1>0, <2>1
  <2>3. \A k \in Keys : \/ delivered'[k] = delivered[k]
                        \/ delivered'[k] = {} /\ k \notin eose'
    BY <2>1, <2>2
  <2>4. \A k \in eose' : subscriptions'[k] \in {NoSub, subscriptions[k]}
    BY <1>0, <2>1, <2>2
  <2> QED BY <1>3, <2>1, <2>3, <2>4
<1>6. ASSUME NEW c \in Conn, CloseSocket(c)
      PROVE  PageInv'
  <2>1. /\ UNCHANGED store
        /\ subscriptions' =
              [k \in Keys |-> IF k[1] = c THEN NoSub ELSE subscriptions[k]]
        /\ delivered' = [k \in Keys |-> IF k[1] = c THEN {} ELSE delivered[k]]
        /\ eose' = {k \in eose : k[1] # c}
    BY <1>6 DEF CloseSocket
  <2>2. \A k \in Keys : \/ delivered'[k] = delivered[k]
                        \/ delivered'[k] = {} /\ subscriptions'[k] = NoSub
    BY <2>1
  <2>3. \A k \in eose' : subscriptions'[k] \in {NoSub, subscriptions[k]}
    BY <1>0, <2>1
  <2> QED BY <1>3, <2>1, <2>2, <2>3
<1>7. CASE \/ \E c \in Conn : Open(c)
           \/ Tick
           \/ UNCHANGED doVars
  <2>1. UNCHANGED <<store, subscriptions, delivered, eose>>
    BY <1>7 DEF Open, Tick, doVars, vars
  <2> QED BY <1>3, <2>1
<1>8. CASE Hibernate
  <2>1. /\ UNCHANGED <<store, delivered, eose>>
        /\ subscriptions' = [k \in Keys |-> NoSub]
    BY <1>8 DEF Hibernate
  <2>2. \A k \in eose' : subscriptions'[k] \in {NoSub, subscriptions[k]}
    BY <1>0, <2>1
  <2> QED BY <1>3, <2>1, <2>2
<1>9. \/ \E c \in Conn, e \in Events : WebSocketEvent(c, e)
      \/ \E c \in Conn, s \in SubId, filters \in FilterLists :
            \/ HandleReq(c, s, filters, QueryEvents(filters))
            \/ FailReq(c, s, filters)
      \/ \E c \in Conn, s \in SubId : HandleClose(c, s)
      \/ \E c \in Conn : CloseSocket(c)
      \/ \E c \in Conn : Open(c)
      \/ Tick
      \/ Hibernate
      \/ UNCHANGED doVars
  BY DEF DoNext, WebSocketReq, WebSocketUnsubscribe, WebSocketClose, Upgrade
<1>10. ASSUME NEW c \in Conn, NEW e \in Events, WebSocketEvent(c, e)
       PROVE  PageInv'
  BY <1>1, <1>4, <1>10 DEF WebSocketEvent
<1> QED BY <1>2, <1>5, <1>6, <1>7, <1>8, <1>9, <1>10

\* What an answered subscription of the object was not shown is outweighed, in
\* each filter that matches it and whose statement selects exactly what the
\* filter matches, by as many events at least as new as that filter's limit,
\* the default or the maximum (backends/cloudflare/DoSqliteStore.ts
\* queryEvents).  Of the other filters it claims nothing: their pages may be
\* short or empty.
THEOREM PageAlwaysDelivered == DoSpec => []PageDelivered
<1>1. DoInit => PageInv
  <2> SUFFICES ASSUME DoInit PROVE PageInv
    OBVIOUS
  <2>1. store = {} /\ eose = {} /\ delivered = [k \in Keys |-> {}]
    BY DEF DoInit, Init
  <2> QED BY <2>1, FS_EmptySet DEF PageInv, FiniteInv
<1>2. DoInv /\ PageInv /\ [DoNext]_doVars => PageInv'
  BY DoStepKeepsPages
<1>3. PageInv => PageDelivered
  BY DEF PageInv, PageDelivered, PageSeen, Outweighed
<1> QED BY <1>1, <1>2, <1>3, DoInvariance, PTL DEF DoSpec

-----------------------------------------------------------------------------
(* The object's table implements the register of VersionRegister. *)

LEMMA DoStepWrites ==
    ASSUME DoInv, [DoNext]_doVars
    PROVE  [Register!RegisterNext]_LatestVersion
<1>0. StoreInv
  BY DEF DoInv
<1>1. CASE \E c \in Conn, e \in Events : \E targets \in DeletionTargets(e) :
              HandleEvent(c, e, targets)
  BY <1>0, <1>1, DoTargetsAreOwn, HandleEventWrites
<1>2. CASE \E c \in Conn, e \in Events : \E targets \in DeletionTargets(e) :
              FailEvent(c, e, targets)
  BY <1>0, <1>2, DoTargetsAreOwn, FailEventWithdraws
<1>3. CASE store' = store
  BY <1>3 DEF LatestVersion
<1>4. \/ \E c \in Conn, e \in Events : WebSocketEvent(c, e)
      \/ store' = store
  BY DEF DoNext, WebSocketReq, HandleReq, FailReq, WebSocketUnsubscribe, HandleClose,
         WebSocketClose, CloseSocket, Upgrade, Open, Tick, Hibernate, doVars, vars
<1> QED BY <1>1, <1>2, <1>3, <1>4 DEF WebSocketEvent, RefuseEvent

\* The table of the Durable Object is the same register as the Bun relay's: its
\* deletions may find less, for their page is limited, but every step is still the
\* write of one author, and replaces only versions that the new one beats.
THEOREM DoTableIsRegister == DoSpec => ImplementsRegister
<1>1. DoInit => Register!RegisterInit
  BY EmptyIsInitial DEF DoInit
<1>2. DoInv /\ [DoNext]_doVars => [Register!RegisterNext]_LatestVersion
  BY DoStepWrites
<1> QED BY <1>1, <1>2, DoInvariance, PTL
        DEF DoSpec, ImplementsRegister, Register!RegisterSpec

=============================================================================
