--------------------------- MODULE RelayCoreProofs ---------------------------
(****************************************************************************)
(* What the statements of EventStore return, preserve and lose, for any     *)
(* events; and what every handler of RelayCore keeps, for any set of rows   *)
(* the deletions of a backend may find and any result its query may give.   *)
(****************************************************************************)
EXTENDS RelayCore, FiniteSetTheorems, TLAPS

-----------------------------------------------------------------------------
(* Versions of one slot are totally ordered by created_at, then id. *)

LEMMA Trichotomy ==
    ASSUME NEW e \in Events, NEW f \in Events
    PROVE  e = f \/ Newer(e, f) \/ Newer(f, e)
BY EventsAssumption DEF Newer

LEMMA Transitivity ==
    ASSUME NEW e \in Events, NEW f \in Events, NEW g \in Events,
           Newer(e, f), Newer(f, g)
    PROVE  Newer(e, g)
BY EventsAssumption DEF Newer

\* The test of the code is that order.
LEMMA ReplacesNewer ==
    ASSUME NEW e \in Events, NEW f \in Events
    PROVE  ShouldReplace(e, f) <=> Newer(e, f)
BY EventsAssumption DEF ShouldReplace, Newer

LEMMA CoversTransitive ==
    ASSUME NEW e \in Events, NEW f \in Events, NEW g \in Events,
           Covers(e, f), Covers(f, g)
    PROVE  Covers(e, g)
BY Transitivity DEF Covers

-----------------------------------------------------------------------------
(* The rows the SELECT of a replacement finds are those of the slot. *)

LEMMA KindsApart ==
    ASSUME NEW k \in Nat, IsReplaceableKind(k)
    PROVE  ~IsParameterizedReplaceableKind(k)
BY DEF IsReplaceableKind, IsParameterizedReplaceableKind

LEMMA IncumbentsAreOfSlot ==
    ASSUME NEW rows, rows \subseteq Events, NEW e \in Events,
           IsAnyReplaceableKind(e.kind)
    PROVE  Incumbents(rows, e) = {x \in rows : Slot(x) = Slot(e)}
<1>1. ASSUME NEW x \in rows, x \in Incumbents(rows, e)
      PROVE  Slot(x) = Slot(e)
  BY <1>1, KindsApart DEF Incumbents, Slot, IsAnyReplaceableKind
<1>2. ASSUME NEW x \in rows, Slot(x) = Slot(e)
      PROVE  x \in Incumbents(rows, e)
  BY <1>2, KindsApart DEF Incumbents, Slot, IsAnyReplaceableKind
<1> QED BY <1>1, <1>2 DEF Incumbents

LEMMA PlainSlot ==
    ASSUME NEW e \in Events, NEW f \in Events,
           ~IsAnyReplaceableKind(e.kind), Slot(f) = Slot(e)
    PROVE  f = e
BY EventsAssumption DEF Slot, IsAnyReplaceableKind

-----------------------------------------------------------------------------
(* One lemma per statement *)

\* The row a replacement deletes is the one of the slot, and e beats it.
LEMMA DisplacedIsBeaten ==
    ASSUME NEW rows, rows \subseteq Events, NEW e \in Events,
           IsAnyReplaceableKind(e.kind), NEW x \in Displaced(rows, e)
    PROVE  x \in rows /\ Slot(x) = Slot(e) /\ Newer(e, x)
<1>1. Incumbents(rows, e) # {}
  BY DEF Displaced
<1>2. Existing(rows, e) \in Incumbents(rows, e)
  BY <1>1 DEF Existing
<1>3. x = Existing(rows, e) /\ ShouldReplace(e, x)
  BY <1>1 DEF Displaced
<1>4. x \in rows /\ Slot(x) = Slot(e)
  BY <1>2, <1>3, IncumbentsAreOfSlot
<1> QED BY <1>3, <1>4, ReplacesNewer

\* In a table with one row per slot, a stored event displaces all of its
\* slot, and an event that is not stored is covered by what is there.
LEMMA ReplaceWins ==
    ASSUME NEW rows, rows \subseteq Events, OneVersion(rows), NEW e \in Events,
           IsAnyReplaceableKind(e.kind)
    PROVE  LET r == StoreReplaceable(rows, e) IN
           /\ r.stored => /\ r.rows = (rows \ Displaced(rows, e)) \cup {e}
                          /\ \A x \in rows : Slot(x) = Slot(e) => x \in Displaced(rows, e)
           /\ ~r.stored => /\ r.rows = rows
                           /\ \E x \in rows : Covers(x, e)
<1> DEFINE inc == Incumbents(rows, e)
<1>1. CASE inc = {}
  <2>1. \A x \in rows : Slot(x) # Slot(e)
    BY <1>1, IncumbentsAreOfSlot
  <2> QED BY <1>1, <2>1 DEF StoreReplaceable
<1>2. CASE inc # {}
  <2> DEFINE x == Existing(rows, e)
  <2>1. x \in rows /\ Slot(x) = Slot(e)
    BY <1>2, IncumbentsAreOfSlot DEF Existing
  <2>2. \A y \in rows : Slot(y) = Slot(e) => y = x
    BY <2>1 DEF OneVersion
  <2>3. CASE x.id # e.id /\ ShouldReplace(e, x)
    <3>1. Displaced(rows, e) = {x}
      BY <1>2, <2>3 DEF Displaced
    <3> QED BY <3>1, <2>2 DEF StoreReplaceable
  <2>4. CASE ~(x.id # e.id /\ ShouldReplace(e, x))
    <3>1. Displaced(rows, e) = {}
      BY <1>2, <2>4 DEF Displaced
    <3>2. Covers(x, e)
      BY <2>1, <2>4, Trichotomy, ReplacesNewer, EventsAssumption DEF Covers
    <3> QED BY <1>2, <2>1, <3>1, <3>2 DEF StoreReplaceable
  <2> QED BY <2>3, <2>4
<1> QED BY <1>1, <1>2

\* The treatment of any kind: the event ends up in the table or covered by
\* it, and only a beaten version of the same slot and author leaves.
LEMMA TreatEffect ==
    ASSUME NEW rows, rows \subseteq Events, OneVersion(rows), NEW e \in Events
    PROVE  LET r == Treat(rows, e) IN
           /\ r.rows \subseteq rows \cup {e}
           /\ r.stored => e \in r.rows
           /\ ~r.stored => r.rows = rows
           /\ \E x \in r.rows : Covers(x, e)
           /\ \A x \in rows \ r.rows :
                 e \in r.rows /\ Slot(x) = Slot(e) /\ Newer(e, x)
           /\ OneVersion(r.rows)
<1> DEFINE r == Treat(rows, e)
<1>1. CASE IsAnyReplaceableKind(e.kind)
  <2>1. r = StoreReplaceable(rows, e)
    BY <1>1 DEF Treat
  <2>2. CASE r.stored
    <3>1. /\ r.rows = (rows \ Displaced(rows, e)) \cup {e}
          /\ \A x \in rows : Slot(x) = Slot(e) => x \in Displaced(rows, e)
      BY <1>1, <2>1, <2>2, ReplaceWins
    <3>2. \A x \in rows \ r.rows : Slot(x) = Slot(e) /\ Newer(e, x)
      BY <1>1, <3>1, DisplacedIsBeaten
    <3>3. OneVersion(r.rows)
      BY <3>1 DEF OneVersion
    <3>4. Covers(e, e)
      BY DEF Covers
    <3> QED BY <2>2, <3>1, <3>2, <3>3, <3>4
  <2>3. CASE ~r.stored
    <3>1. r.rows = rows /\ \E x \in rows : Covers(x, e)
      BY <1>1, <2>1, <2>3, ReplaceWins
    <3> QED BY <2>3, <3>1
  <2> QED BY <2>2, <2>3
<1>2. CASE ~IsAnyReplaceableKind(e.kind)
  <2>1. r = [stored |-> e \notin rows, rows |-> rows \cup {e}]
    BY <1>2 DEF Treat, StoreEvent
  <2>2. \A x \in rows : Slot(x) = Slot(e) => x = e
    BY <1>2, PlainSlot
  <2>3. OneVersion(r.rows)
    BY <2>1, <2>2 DEF OneVersion
  <2>4. Covers(e, e)
    BY DEF Covers
  <2>5. ~r.stored => r.rows = rows
    <3>1. r.stored = (e \notin rows) /\ r.rows = rows \cup {e}
      BY <2>1
    <3> QED BY <3>1
  <2> QED BY <2>1, <2>3, <2>4, <2>5
<1> QED BY <1>1, <1>2

\* Versions of one slot have one author.
LEMMA SlotHasOneAuthor ==
    ASSUME NEW e \in Events, NEW f \in Events, Slot(e) = Slot(f)
    PROVE  e.pubkey = f.pubkey
BY EventsAssumption DEF Slot

-----------------------------------------------------------------------------
(* What the handlers keep *)

StoreInv == TypeOK /\ OneVersionPerSlot /\ AcceptedSurvives

DeliveryInv == SubscriptionsHaveSockets /\ NoMissedEvents

-----------------------------------------------------------------------------
(* EVENT *)

\* Fewer rows of a table with one version per slot still are such a table.
LEMMA SubsetKeepsOneVersion ==
    ASSUME NEW rows, OneVersion(rows), NEW D
    PROVE  OneVersion(rows \ D)
BY DEF OneVersion

LEMMA BroadcastType ==
    ASSUME TypeOK, NEW e \in Events
    PROVE  Broadcast(e) \in [Keys -> SUBSET Events]
BY DEF TypeOK, Broadcast

LEMMA HandleEventKeepsStore ==
    ASSUME StoreInv, NEW c \in Conn, NEW e \in Events,
           NEW targets \in SUBSET store, HandleEvent(c, e, targets)
    PROVE  StoreInv'
<1>1. PICK D \in Deletions(targets) :
         LET result == Treat(store \ D, e)
         IN  /\ store' = result.rows
             /\ delivered' = IF result.stored THEN Broadcast(e) ELSE delivered
             /\ offered' = {x \in offered : Slot(x) \notin SlotsOf(D)} \cup {e}
             /\ torn' = torn \ SlotsOf(D)
  BY DEF HandleEvent
<1> DEFINE rest == store \ D
           result == Treat(rest, e)
<1>2. D \subseteq store /\ rest \subseteq Events /\ OneVersion(rest)
  BY SubsetKeepsOneVersion DEF Deletions, StoreInv, TypeOK, OneVersionPerSlot
<1>3. /\ result.rows \subseteq rest \cup {e}
      /\ \E x \in result.rows : Covers(x, e)
      /\ \A x \in rest \ result.rows :
            e \in result.rows /\ Slot(x) = Slot(e) /\ Newer(e, x)
      /\ OneVersion(result.rows)
  BY <1>2, TreatEffect
<1>4. TypeOK'
  <2>1. delivered' \in [Keys -> SUBSET Events]
    BY <1>1, BroadcastType DEF StoreInv, TypeOK
  <2>2. store' \subseteq Events /\ offered' \subseteq Events /\ torn' \subseteq SlotSet
    BY <1>1, <1>2, <1>3 DEF StoreInv, TypeOK
  <2>3. actor' \in Authors /\ UNCHANGED <<now, connections, subscriptions, eose>>
    BY DEF HandleEvent, Authors
  <2> QED BY <2>1, <2>2, <2>3 DEF StoreInv, TypeOK
<1>5. OneVersionPerSlot'
  BY <1>1, <1>3 DEF OneVersionPerSlot
<1>6. AcceptedSurvives'
  <2> SUFFICES ASSUME NEW x \in offered', Slot(x) \notin torn'
               PROVE  \E f \in store' : Covers(f, x)
    BY DEF AcceptedSurvives
  <2>1. CASE x = e
    BY <1>1, <1>3, <2>1
  <2>2. CASE x \in offered /\ Slot(x) \notin SlotsOf(D)
    <3>1. Slot(x) \notin torn
      BY <1>1, <2>2
    <3>2. PICK f \in store : Covers(f, x)
      BY <2>2, <3>1 DEF StoreInv, AcceptedSurvives
    <3>3. f \notin D
      BY <2>2, <3>2 DEF Covers, SlotsOf
    <3>4. CASE f \in result.rows
      BY <1>1, <3>2, <3>4
    <3>5. CASE f \notin result.rows
      <4>1. e \in result.rows /\ Covers(e, f)
        BY <1>3, <3>3, <3>5 DEF Covers
      <4>2. Covers(e, x)
        BY <2>2, <3>2, <4>1, CoversTransitive DEF StoreInv, TypeOK
      <4> QED BY <1>1, <4>1, <4>2
    <3> QED BY <3>4, <3>5
  <2> QED BY <1>1, <2>1, <2>2
<1> QED BY <1>4, <1>5, <1>6 DEF StoreInv

\* A displaced row is one of the table.
LEMMA DisplacedIsStored ==
    ASSUME NEW rows, NEW e
    PROVE  Displaced(rows, e) \subseteq rows
BY DEF Displaced, Existing, Incumbents

LEMMA FailEventKeepsStore ==
    ASSUME StoreInv, NEW c \in Conn, NEW e \in Events,
           NEW targets \in SUBSET store, FailEvent(c, e, targets)
    PROVE  StoreInv'
<1>0. PICK D \in SUBSET targets :
         \E lost \in {{}, Displaced(store \ D, e)} :
            /\ store' = (store \ D) \ lost
            /\ offered' = {x \in offered : Slot(x) \notin SlotsOf(D)}
            /\ torn' = (torn \ SlotsOf(D)) \cup SlotsOf(lost)
  BY DEF FailEvent
<1>1. PICK lost \in {{}, Displaced(store \ D, e)} :
         /\ store' = (store \ D) \ lost
         /\ offered' = {x \in offered : Slot(x) \notin SlotsOf(D)}
         /\ torn' = (torn \ SlotsOf(D)) \cup SlotsOf(lost)
  BY <1>0
<1>2. D \subseteq store /\ lost \subseteq store
  BY DisplacedIsStored
<1>3. TypeOK'
  <2>1. SlotsOf(lost) \subseteq SlotSet
    BY <1>2 DEF StoreInv, TypeOK, SlotsOf, SlotSet
  <2>2. actor' \in Authors
        /\ UNCHANGED <<now, connections, subscriptions, delivered, eose>>
    BY DEF FailEvent, Authors
  <2> QED BY <1>1, <2>1, <2>2 DEF StoreInv, TypeOK
<1>4. OneVersionPerSlot'
  BY <1>1, SubsetKeepsOneVersion DEF StoreInv, OneVersionPerSlot
<1>5. AcceptedSurvives'
  <2> SUFFICES ASSUME NEW x \in offered', Slot(x) \notin torn'
               PROVE  \E f \in store' : Covers(f, x)
    BY DEF AcceptedSurvives
  <2>1. x \in offered /\ Slot(x) \notin SlotsOf(D) /\ Slot(x) \notin SlotsOf(lost)
    BY <1>1
  <2>2. PICK f \in store : Covers(f, x)
    BY <1>1, <2>1 DEF StoreInv, AcceptedSurvives
  <2>3. f \notin D /\ f \notin lost
    BY <2>1, <2>2 DEF Covers, SlotsOf
  <2> QED BY <1>1, <2>2, <2>3
<1> QED BY <1>3, <1>4, <1>5 DEF StoreInv

\* Every other action leaves the table and its history alone.
LEMMA UntouchedStore ==
    ASSUME StoreInv, TypeOK', UNCHANGED <<store, offered, torn>>
    PROVE  StoreInv'
BY DEF StoreInv, OneVersionPerSlot, AcceptedSurvives

-----------------------------------------------------------------------------
(* The same handlers against the action properties *)

LEMMA HandleEventActs ==
    ASSUME StoreInv, NEW c \in Conn, NEW e \in Events, NEW targets \in SUBSET store,
           targets = {} \/ ~IsAnyReplaceableKind(e.kind),
           \A t \in targets : t.pubkey = e.pubkey,
           HandleEvent(c, e, targets)
    PROVE  OwnerActs /\ VersionsRise
<1>1. PICK D \in Deletions(targets) : store' = Treat(store \ D, e).rows
  BY DEF HandleEvent
<1> DEFINE rest == store \ D
           rows == Treat(rest, e).rows
<1>2. D \subseteq targets /\ rest \subseteq Events /\ OneVersion(rest)
  BY SubsetKeepsOneVersion DEF Deletions, StoreInv, TypeOK, OneVersionPerSlot
<1>3. /\ rows \subseteq rest \cup {e}
      /\ \A x \in rest \ rows : Slot(x) = Slot(e) /\ Newer(e, x)
      /\ \E x \in rows : Covers(x, e)
      /\ OneVersion(rows)
  BY <1>2, TreatEffect
<1>4. OwnerActs
  <2> SUFFICES ASSUME NEW x \in store, x \notin rows PROVE x.pubkey = e.pubkey
    BY <1>1 DEF OwnerActs, HandleEvent
  <2>1. CASE x \in D
    BY <1>2, <2>1
  <2>2. CASE x \notin D
    BY <1>3, <2>2, SlotHasOneAuthor DEF StoreInv, TypeOK
  <2> QED BY <2>1, <2>2
<1>5. VersionsRise
  <2> SUFFICES ASSUME NEW x \in store, NEW y \in rows, Slot(x) = Slot(y)
               PROVE  Covers(y, x)
    BY <1>1 DEF VersionsRise
  <2>1. CASE y \in store
    BY <2>1 DEF StoreInv, OneVersionPerSlot, OneVersion, Covers
  <2>2. CASE y \notin store
    <3>1. y = e
      BY <1>3, <2>2
    <3>2. CASE x \in D
      <4>1. ~IsAnyReplaceableKind(e.kind)
        BY <1>2, <3>2
      <4>2. x = e
        BY <3>1, <4>1, PlainSlot DEF StoreInv, TypeOK
      <4> QED BY <3>1, <4>2 DEF Covers
    <3>3. CASE x \notin D
      BY <1>3, <2>2, <3>1, <3>3 DEF Covers, OneVersion
    <3> QED BY <3>2, <3>3
  <2> QED BY <2>1, <2>2
<1> QED BY <1>4, <1>5

LEMMA FailEventActs ==
    ASSUME StoreInv, NEW c \in Conn, NEW e \in Events, NEW targets \in SUBSET store,
           \A t \in targets : t.pubkey = e.pubkey,
           FailEvent(c, e, targets)
    PROVE  OwnerActs /\ VersionsRise
<1>0. PICK D \in SUBSET targets :
         \E lost \in {{}, Displaced(store \ D, e)} : store' = (store \ D) \ lost
  BY DEF FailEvent
<1>1. PICK lost \in {{}, Displaced(store \ D, e)} : store' = (store \ D) \ lost
  BY <1>0
<1>2. ASSUME NEW x \in lost PROVE x.pubkey = e.pubkey
  BY <1>2 DEF Displaced, Existing, Incumbents
<1>3. OwnerActs
  BY <1>1, <1>2 DEF OwnerActs, FailEvent
<1>4. VersionsRise
  BY <1>1 DEF VersionsRise, Covers, StoreInv, OneVersionPerSlot, OneVersion
<1> QED BY <1>3, <1>4

\* A step that keeps the table acts for nobody and changes no version.
LEMMA UntouchedActs ==
    ASSUME StoreInv, store' = store
    PROVE  OwnerActs /\ VersionsRise
BY DEF OwnerActs, VersionsRise, Covers, StoreInv, OneVersionPerSlot, OneVersion

-----------------------------------------------------------------------------
(* Delivery *)

LEMMA HandleEventKeepsDelivery ==
    ASSUME StoreInv, DeliveryInv, NEW c \in Conn, NEW e \in Events,
           NEW targets \in SUBSET store, HandleEvent(c, e, targets)
    PROVE  DeliveryInv'
<1>1. PICK D \in Deletions(targets) :
         LET result == Treat(store \ D, e)
         IN  /\ store' = result.rows
             /\ delivered' = IF result.stored THEN Broadcast(e) ELSE delivered
  BY DEF HandleEvent
<1> DEFINE rest == store \ D
           result == Treat(rest, e)
<1>2. rest \subseteq Events /\ OneVersion(rest)
  BY SubsetKeepsOneVersion DEF StoreInv, TypeOK, OneVersionPerSlot
<1>3. /\ result.rows \subseteq rest \cup {e}
      /\ ~result.stored => result.rows = rest
  BY <1>2, TreatEffect
<1>4. UNCHANGED <<now, connections, subscriptions, eose>>
  BY DEF HandleEvent
<1>5. SubscriptionsHaveSockets'
  BY <1>4 DEF DeliveryInv, SubscriptionsHaveSockets
<1>6. NoMissedEvents'
  <2> SUFFICES ASSUME NEW k \in eose, subscriptions[k] # NoSub, NEW x \in store',
                      Unlimited(subscriptions[k]), ~Expired(x, now),
                      MatchesFilters(x, subscriptions[k])
               PROVE  x \in delivered'[k]
    BY <1>4 DEF NoMissedEvents
  <2>0. k \in Keys
    BY DEF StoreInv, TypeOK
  <2>1. CASE x \in store
    <3>1. x \in delivered[k]
      BY <2>1 DEF DeliveryInv, NoMissedEvents
    <3> QED BY <1>1, <2>0, <3>1 DEF Broadcast
  <2>2. CASE x \notin store
    <3>1. x = e /\ result.stored
      BY <1>1, <1>3, <2>2
    <3>2. Receives(k, e)
      BY <2>0, <3>1 DEF Receives, DeliveryInv, SubscriptionsHaveSockets
    <3> QED BY <1>1, <2>0, <3>1, <3>2 DEF Broadcast
  <2> QED BY <2>1, <2>2
<1> QED BY <1>5, <1>6 DEF DeliveryInv

LEMMA FailEventKeepsDelivery ==
    ASSUME DeliveryInv, NEW c, NEW e, NEW targets, FailEvent(c, e, targets)
    PROVE  DeliveryInv'
<1>1. /\ store' \subseteq store
      /\ UNCHANGED <<now, connections, subscriptions, delivered, eose>>
  BY DEF FailEvent
<1> QED BY <1>1 DEF DeliveryInv, SubscriptionsHaveSockets, NoMissedEvents

\* A query has no gaps when, for filters without a limit, every result it may
\* give holds all that matches and has not expired.
Complete(found, filters) ==
    Unlimited(filters) =>
        \A R \in found, x \in store :
            ~Expired(x, now) /\ MatchesFilters(x, filters) => x \in R

LEMMA ReqKeepsDelivery ==
    ASSUME TypeOK, DeliveryInv, NEW c \in Conn, NEW s \in SubId,
           NEW filters \in FilterLists, NEW found, Complete(found, filters),
           HandleReq(c, s, filters, found)
    PROVE  DeliveryInv'
<1> DEFINE q == <<c, s>>
<1>1. q \in Keys /\ q[1] = c
  BY DEF Keys
<1>2. PICK R \in found : delivered' = [delivered EXCEPT ![q] = R]
  BY DEF HandleReq
<1>3. /\ subscriptions' = [subscriptions EXCEPT ![q] = filters]
      /\ eose' = eose \cup {q}
      /\ UNCHANGED <<store, now, connections>>
      /\ c \in connections
  BY DEF HandleReq
<1>4. SubscriptionsHaveSockets'
  BY <1>1, <1>3 DEF DeliveryInv, SubscriptionsHaveSockets, TypeOK
<1>5. NoMissedEvents'
  <2> SUFFICES ASSUME NEW k \in eose', subscriptions'[k] # NoSub, NEW x \in store,
                      Unlimited(subscriptions'[k]), ~Expired(x, now),
                      MatchesFilters(x, subscriptions'[k])
               PROVE  x \in delivered'[k]
    BY <1>3 DEF NoMissedEvents
  <2>1. CASE k = q
    <3>1. subscriptions'[k] = filters /\ delivered'[k] = R
      BY <1>1, <1>2, <1>3, <2>1 DEF TypeOK
    <3> QED BY <3>1 DEF Complete
  <2>2. CASE k # q
    <3>1. k \in eose /\ k \in Keys
      BY <1>3, <2>2 DEF TypeOK
    <3>2. subscriptions'[k] = subscriptions[k] /\ delivered'[k] = delivered[k]
      BY <1>2, <1>3, <2>2, <3>1 DEF TypeOK
    <3> QED BY <3>1, <3>2 DEF DeliveryInv, NoMissedEvents
  <2> QED BY <2>1, <2>2
<1> QED BY <1>4, <1>5 DEF DeliveryInv

\* A REQ whose query fails leaves a subscription nobody was told is open.
LEMMA FailReqKeepsDelivery ==
    ASSUME TypeOK, DeliveryInv, NEW c \in Conn, NEW s \in SubId,
           NEW filters \in FilterLists, FailReq(c, s, filters)
    PROVE  DeliveryInv'
<1> DEFINE q == <<c, s>>
<1>1. q \in Keys /\ q[1] = c
  BY DEF Keys
<1>2. /\ subscriptions' = [subscriptions EXCEPT ![q] = filters]
      /\ delivered' = [delivered EXCEPT ![q] = {}]
      /\ eose' = eose \ {q}
      /\ UNCHANGED <<store, now, connections>>
      /\ c \in connections
  BY DEF FailReq
<1>3. SubscriptionsHaveSockets'
  BY <1>1, <1>2 DEF DeliveryInv, SubscriptionsHaveSockets, TypeOK
<1>4. ASSUME NEW k \in eose'
      PROVE  /\ k \in eose
             /\ subscriptions'[k] = subscriptions[k]
             /\ delivered'[k] = delivered[k]
  BY <1>2, <1>4 DEF TypeOK
<1>5. NoMissedEvents'
  BY <1>2, <1>4 DEF DeliveryInv, NoMissedEvents
<1> QED BY <1>3, <1>5 DEF DeliveryInv

\* Subscriptions and sockets may go, time may pass: what stays open misses
\* nothing, as long as every subscription that stays keeps its socket.
LEMMA RemovalKeepsDelivery ==
    ASSUME TypeOK, DeliveryInv, store' = store, eose' \subseteq eose,
           \A x \in store : ~Expired(x, now)' => ~Expired(x, now),
           \A k \in Keys : subscriptions'[k] # NoSub =>
               /\ k[1] \in connections'
               /\ subscriptions'[k] = subscriptions[k]
               /\ delivered'[k] = delivered[k]
    PROVE  DeliveryInv'
<1>1. SubscriptionsHaveSockets'
  BY DEF SubscriptionsHaveSockets
<1>2. NoMissedEvents'
  <2> SUFFICES ASSUME NEW k \in eose, subscriptions'[k] # NoSub, NEW x \in store,
                      Unlimited(subscriptions'[k]), ~Expired(x, now'),
                      MatchesFilters(x, subscriptions'[k])
               PROVE  x \in delivered'[k]
    BY DEF NoMissedEvents
  <2>1. k \in Keys /\ ~Expired(x, now)
    BY DEF Expired, TypeOK
  <2> QED BY <2>1 DEF DeliveryInv, NoMissedEvents
<1> QED BY <1>1, <1>2 DEF DeliveryInv

-----------------------------------------------------------------------------
(* Pages: what a limit left out of an answer *)

\* What a subscription was shown, and what there is to show, is finite.
FiniteInv == IsFiniteSet(store) /\ \A k \in Keys : IsFiniteSet(delivered[k])

\* At least n of the events shown are as new as x.
Outweighed(shown, x, n) ==
    n \in Nat /\ Cardinality({f \in shown : f.created_at >= x.created_at}) >= n

\* To show more cannot make a page smaller.
LEMMA OutweighedGrows ==
    ASSUME NEW shown, NEW more, shown \subseteq more, IsFiniteSet(more), NEW x, NEW n,
           Outweighed(shown, x, n)
    PROVE  Outweighed(more, x, n)
<1> DEFINE before == {f \in shown : f.created_at >= x.created_at}
           after  == {f \in more : f.created_at >= x.created_at}
<1>1. after \subseteq more /\ before \subseteq after
  OBVIOUS
<1>2. IsFiniteSet(after)
  BY <1>1, FS_Subset
<1>3. IsFiniteSet(before) /\ Cardinality(before) <= Cardinality(after)
  BY <1>1, <1>2, FS_Subset
<1>4. Cardinality(before) \in Nat /\ Cardinality(after) \in Nat
  BY <1>2, <1>3, FS_CardinalityType
<1>5. n \in Nat /\ Cardinality(before) >= n
  BY DEF Outweighed
<1>6. Cardinality(after) >= n
  <2> HIDE DEF before, after
  <2> QED BY <1>3, <1>4, <1>5
<1> QED BY <1>5, <1>6 DEF Outweighed

\* A row that is not on the page of n it competed for is outweighed by the page.
LEMMA PageOutweighs ==
    ASSUME NEW rows, IsFiniteSet(rows), \A r \in rows : r.created_at \in Nat,
           NEW n, NEW R \in NewestFirst(rows, n), NEW x \in rows, x \notin R
    PROVE  Outweighed(R, x, n)
<1>1. ~(n = NoLimit \/ Cardinality(rows) <= n)
  BY DEF NewestFirst
<1>2. R \in SUBSET rows /\ Cardinality(R) = n
      /\ \A y \in rows \ R, r \in R : y.created_at <= r.created_at
  BY <1>1 DEF NewestFirst
<1>3. \A f \in R : f.created_at >= x.created_at
  BY <1>2
<1>4. {f \in R : f.created_at >= x.created_at} = R
  BY <1>3
<1>5. Cardinality(R) \in Nat
  BY <1>2, FS_Subset, FS_CardinalityType
<1> QED BY <1>2, <1>4, <1>5 DEF Outweighed

\* An EVENT adds at most its event to the table and to what is shown, and what
\* enters the table is framed to every subscription it matches.
LEMMA HandleEventFrames ==
    ASSUME StoreInv, SubscriptionsHaveSockets, FiniteInv, NEW c \in Conn,
           NEW e \in Events, NEW targets \in SUBSET store, HandleEvent(c, e, targets)
    PROVE  /\ FiniteInv'
           /\ \A k \in Keys : delivered[k] \subseteq delivered'[k]
           /\ \A x \in store' : \/ x \in store
                                \/ \A k \in Keys :
                                      /\ subscriptions[k] # NoSub
                                      /\ MatchesFilters(x, subscriptions[k])
                                      => x \in delivered'[k]
<1>1. PICK D \in Deletions(targets) :
         LET result == Treat(store \ D, e)
         IN  /\ store' = result.rows
             /\ delivered' = IF result.stored THEN Broadcast(e) ELSE delivered
  BY DEF HandleEvent
<1> DEFINE rest == store \ D
           result == Treat(rest, e)
<1>2. rest \subseteq Events /\ OneVersion(rest)
  BY SubsetKeepsOneVersion DEF StoreInv, TypeOK, OneVersionPerSlot
<1>3. /\ result.rows \subseteq rest \cup {e}
      /\ ~result.stored => result.rows = rest
  BY <1>2, TreatEffect
<1>4. IsFiniteSet(store')
  <2>1. store' \subseteq store \cup {e}
    BY <1>1, <1>3
  <2>2. IsFiniteSet(store \cup {e})
    BY FS_AddElement DEF FiniteInv
  <2> QED BY <2>1, <2>2, FS_Subset
<1>5. ASSUME NEW k \in Keys
      PROVE  delivered[k] \subseteq delivered'[k] /\ delivered'[k] \subseteq delivered[k] \cup {e}
  BY <1>1 DEF Broadcast
<1>6. ASSUME NEW k \in Keys
      PROVE  IsFiniteSet(delivered'[k])
  <2>1. IsFiniteSet(delivered[k] \cup {e})
    BY FS_AddElement DEF FiniteInv
  <2> QED BY <1>5, <2>1, FS_Subset
<1>7. ASSUME NEW x \in store', x \notin store, NEW k \in Keys, subscriptions[k] # NoSub,
             MatchesFilters(x, subscriptions[k])
      PROVE  x \in delivered'[k]
  <2>1. x = e /\ result.stored
    BY <1>1, <1>3, <1>7
  <2>2. Receives(k, e)
    BY <1>7, <2>1 DEF Receives, SubscriptionsHaveSockets
  <2> QED BY <1>1, <2>1, <2>2 DEF Broadcast
<1> QED BY <1>4, <1>5, <1>6, <1>7 DEF FiniteInv

\* A step that only removes rows, or shows a finite answer, keeps things finite.
LEMMA FiniteStays ==
    ASSUME TypeOK, FiniteInv, store' \subseteq store,
           \A k \in Keys : IsFiniteSet(delivered'[k]) \/ delivered'[k] = delivered[k]
    PROVE  FiniteInv'
BY FS_Subset DEF FiniteInv

-----------------------------------------------------------------------------
(* The events table implements the register of VersionRegister: the initial  *)
(* table is the empty register, every step is a write of one author or a     *)
(* stutter.                                                                  *)

\* Without rows the register is empty.
LEMMA EmptyIsInitial == Init => Register!RegisterInit
BY DEF Init, Register!RegisterInit, LatestVersion, Version

\* In a table with one version per slot, a row is the version of its slot.
LEMMA RowIsVersion ==
    ASSUME NEW rows, OneVersion(rows), NEW x \in rows
    PROVE  Version(rows, Slot(x)) = x
BY DEF Version, OneVersion

\* Withdrawing rows empties their slots and no other.
LEMMA VersionWithout ==
    ASSUME NEW rows, OneVersion(rows), NEW D \in SUBSET rows, NEW s
    PROVE  Version(rows \ D, s) =
              IF s \in SlotsOf(D) THEN NoVersion ELSE Version(rows, s)
<1>1. OneVersion(rows \ D)
  BY SubsetKeepsOneVersion
<1>2. CASE s \in SlotsOf(D)
  <2>1. \A x \in rows \ D : Slot(x) # s
    BY <1>2 DEF SlotsOf, OneVersion
  <2> QED BY <1>2, <2>1 DEF Version
<1>3. CASE s \notin SlotsOf(D) /\ \E x \in rows : Slot(x) = s
  <2>1. PICK x \in rows : Slot(x) = s
    BY <1>3
  <2>2. x \in rows \ D
    BY <1>3, <2>1 DEF SlotsOf
  <2> QED BY <1>1, <1>3, <2>1, <2>2, RowIsVersion
<1>4. CASE s \notin SlotsOf(D) /\ ~ \E x \in rows : Slot(x) = s
  BY <1>4 DEF Version
<1> QED BY <1>2, <1>3, <1>4

\* Storing e over rows of its own slot changes that slot and no other.
LEMMA VersionWith ==
    ASSUME NEW rest, OneVersion(rest), NEW rows, OneVersion(rows), NEW e \in rows,
           rows \subseteq rest \cup {e},
           \A x \in rest \ rows : Slot(x) = Slot(e),
           NEW s
    PROVE  Version(rows, s) = IF s = Slot(e) THEN e ELSE Version(rest, s)
<1>1. CASE s = Slot(e)
  BY <1>1, RowIsVersion
<1>2. CASE s # Slot(e) /\ \E x \in rest : Slot(x) = s
  <2>1. PICK x \in rest : Slot(x) = s
    BY <1>2
  <2>2. x \in rows
    BY <1>2, <2>1
  <2> QED BY <1>2, <2>1, <2>2, RowIsVersion
<1>3. CASE s # Slot(e) /\ ~ \E x \in rest : Slot(x) = s
  <2>1. \A x \in rows : Slot(x) # s
    BY <1>3
  <2> QED BY <1>3, <2>1 DEF Version
<1> QED BY <1>1, <1>2, <1>3

\* The slots of an author's rows are his own in the register.
LEMMA OwnRowsOwnSlots ==
    ASSUME StoreInv, NEW e \in Events, NEW D \in SUBSET store,
           \A x \in D : x.pubkey = e.pubkey
    PROVE  SlotsOf(D) \in SUBSET Register!OwnSlots(e.pubkey)
<1> SUFFICES ASSUME NEW x \in D
             PROVE  Slot(x) \in Register!OwnSlots(e.pubkey)
  BY DEF SlotsOf
<1>1. x \in Events /\ Slot(x) \in SlotSet
  BY DEF StoreInv, TypeOK, SlotSet
<1>2. LatestVersion[Slot(x)] = x
  BY <1>1, RowIsVersion DEF LatestVersion, StoreInv, OneVersionPerSlot
<1>3. x # NoVersion
  BY <1>1, RelayAssumption
<1> QED BY <1>1, <1>2, <1>3 DEF Register!OwnSlots

\* Withdrawing rows withdraws their slots.
LEMMA WithdrawnVersions ==
    ASSUME StoreInv, NEW D \in SUBSET store
    PROVE  Register!Withdrawn(SlotsOf(D)) = [s \in SlotSet |-> Version(store \ D, s)]
<1>1. \A s \in SlotSet :
         Version(store \ D, s) =
            IF s \in SlotsOf(D) THEN NoVersion ELSE LatestVersion[s]
  BY VersionWithout DEF LatestVersion, StoreInv, OneVersionPerSlot
<1> QED BY <1>1 DEF Register!Withdrawn

LEMMA FailEventWithdraws ==
    ASSUME StoreInv, NEW c \in Conn, NEW e \in Events, NEW targets \in SUBSET store,
           \A t \in targets : t.pubkey = e.pubkey,
           FailEvent(c, e, targets)
    PROVE  Register!RegisterNext
<1>0. PICK D \in SUBSET targets :
         \E lost \in {{}, Displaced(store \ D, e)} : store' = (store \ D) \ lost
  BY DEF FailEvent
<1>1. PICK lost \in {{}, Displaced(store \ D, e)} : store' = (store \ D) \ lost
  BY <1>0
<1> DEFINE gone == D \cup lost
<1>2. gone \in SUBSET store /\ \A x \in gone : x.pubkey = e.pubkey
  BY <1>1, DisplacedIsStored DEF Displaced, Existing, Incumbents
<1>3. store' = store \ gone
  BY <1>1
<1>4. LatestVersion' = Register!Withdrawn(SlotsOf(gone))
  BY <1>2, <1>3, WithdrawnVersions DEF LatestVersion
<1>5. SlotsOf(gone) \in SUBSET Register!OwnSlots(e.pubkey)
  BY <1>2, OwnRowsOwnSlots
<1>6. Register!Withdraw(e.pubkey, SlotsOf(gone))
  BY <1>4 DEF Register!Withdraw
<1>7. e.pubkey \in {[x \in Events |-> x.pubkey][v] : v \in Events}
  OBVIOUS
<1> QED BY <1>5, <1>6, <1>7 DEF Register!RegisterNext

\* Only an event the table does not have is ever stored.
LEMMA StoredIsNew ==
    ASSUME NEW rows, rows \subseteq Events, OneVersion(rows), NEW e \in Events,
           Treat(rows, e).stored
    PROVE  e \notin rows
<1>1. CASE IsAnyReplaceableKind(e.kind)
  <2>1. \A x \in rows : Slot(x) = Slot(e) => x \in Displaced(rows, e)
    BY <1>1, ReplaceWins DEF Treat
  <2>2. ~Newer(e, e)
    BY EventsAssumption DEF Newer
  <2> QED BY <1>1, <2>1, <2>2, DisplacedIsBeaten
<1>2. CASE ~IsAnyReplaceableKind(e.kind)
  BY <1>2 DEF Treat, StoreEvent
<1> QED BY <1>1, <1>2

\* handleEvent withdraws what its deletions removed and, when it stores the
\* event, publishes it over an empty slot, itself or a version it beats.
LEMMA HandleEventWrites ==
    ASSUME StoreInv, NEW c \in Conn, NEW e \in Events, NEW targets \in SUBSET store,
           \A t \in targets : t.pubkey = e.pubkey,
           targets = {} \/ ~IsAnyReplaceableKind(e.kind),
           HandleEvent(c, e, targets)
    PROVE  Register!RegisterNext
<1>1. PICK D \in Deletions(targets) : store' = Treat(store \ D, e).rows
  BY DEF HandleEvent
<1> DEFINE rest == store \ D
           result == Treat(rest, e)
           W == SlotsOf(D)
           before == Register!Withdrawn(W)
<1>2. D \in SUBSET store /\ rest \subseteq Events /\ OneVersion(rest)
      /\ \A x \in D : x.pubkey = e.pubkey
  BY SubsetKeepsOneVersion DEF Deletions, StoreInv, TypeOK, OneVersionPerSlot
<1>3. /\ result.rows \subseteq rest \cup {e}
      /\ result.stored => e \in result.rows
      /\ ~result.stored => result.rows = rest
      /\ \A x \in rest \ result.rows : Slot(x) = Slot(e) /\ Newer(e, x)
      /\ OneVersion(result.rows)
  BY <1>2, TreatEffect
<1>4. before = [s \in SlotSet |-> Version(rest, s)]
  BY <1>2, WithdrawnVersions
<1>5. W \in SUBSET Register!OwnSlots(e.pubkey)
  BY <1>2, OwnRowsOwnSlots
<1>6. e.pubkey \in {[x \in Events |-> x.pubkey][v] : v \in Events}
  OBVIOUS
<1>7. CASE ~result.stored
  <2>1. LatestVersion' = before
    BY <1>1, <1>3, <1>4, <1>7 DEF LatestVersion
  <2>2. Register!Withdraw(e.pubkey, W)
    BY <2>1 DEF Register!Withdraw
  <2> QED BY <1>5, <1>6, <2>2 DEF Register!RegisterNext
<1>8. CASE result.stored
  <2> DEFINE s == [x \in Events |-> Slot(x)][e]
  <2>1. s = Slot(e) /\ s \in SlotSet
    BY DEF SlotSet
  <2>2. \A t \in SlotSet :
           Version(result.rows, t) = IF t = Slot(e) THEN e ELSE Version(rest, t)
    <3> DEFINE rows == result.rows
    <3>1. OneVersion(rest) /\ OneVersion(rows) /\ rows \subseteq rest \cup {e}
      BY <1>2, <1>3
    <3>2. e \in rows /\ \A x \in rest \ rows : Slot(x) = Slot(e)
      BY <1>3, <1>8
    <3>3. \A t \in SlotSet : Version(rows, t) = IF t = Slot(e) THEN e ELSE Version(rest, t)
      <4> HIDE DEF rest, rows
      <4> QED BY <3>1, <3>2, VersionWith
    <3> QED BY <3>3
  <2>3. LatestVersion' = [before EXCEPT ![s] = e]
    <3> HIDE DEF s, before, rest, result
    <3>1. LatestVersion' = [t \in SlotSet |-> Version(result.rows, t)]
      BY <1>1 DEF LatestVersion, result, rest
    <3>2. [before EXCEPT ![s] = e]
             = [t \in SlotSet |-> IF t = s THEN e ELSE Version(rest, t)]
      BY <1>4, <2>1
    <3> QED BY <2>1, <2>2, <3>1, <3>2
  <2>4. \/ LatestVersion[s] \in {NoVersion, e}
        \/ <<e, LatestVersion[s]>> \in {p \in Events \X Events : Newer(p[1], p[2])}
    <3>1. LatestVersion[s] = Version(store, Slot(e)) /\ OneVersion(store)
      BY <2>1 DEF LatestVersion, StoreInv, OneVersionPerSlot
    <3>2. CASE \E x \in store : Slot(x) = Slot(e)
      <4>1. PICK x \in store : Slot(x) = Slot(e)
        BY <3>2
      <4>2. LatestVersion[s] = x /\ x \in Events
        BY <3>1, <4>1, RowIsVersion DEF StoreInv, TypeOK
      <4>3. CASE x \in D
        <5>1. x \in targets
          BY <4>3 DEF Deletions
        <5>2. x = e
          BY <4>1, <4>2, <5>1, PlainSlot
        <5> QED BY <4>2, <5>2
      <4>4. CASE x \in rest
        <5>1. x # e
          BY <1>2, <1>8, <4>4, StoredIsNew
        <5>2. Newer(e, x)
          BY <1>3, <1>8, <4>1, <4>4, <5>1 DEF OneVersion
        <5> QED BY <4>2, <5>2
      <4> QED BY <4>3, <4>4
    <3>3. CASE ~ \E x \in store : Slot(x) = Slot(e)
      BY <3>1, <3>3 DEF Version
    <3> QED BY <3>2, <3>3
  <2>5. Register!Publish(e.pubkey, W, e)
    BY <2>3, <2>4 DEF Register!Publish
  <2> QED BY <1>5, <1>6, <2>5 DEF Register!RegisterNext
<1> QED BY <1>7, <1>8

=============================================================================
