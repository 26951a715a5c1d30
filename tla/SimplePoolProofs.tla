--------------------------- MODULE SimplePoolProofs ---------------------------
(****************************************************************************)
(* The safety properties of SimplePool, for any number of relays, sockets,  *)
(* subscriptions and publishes.  The invariant has four parts: how the map  *)
(* and the sockets are linked, what a subscription has asked of whom, what  *)
(* a publish waits for, and what was delivered.                             *)
(****************************************************************************)
EXTENDS SimplePool, TLAPS

-----------------------------------------------------------------------------
(* The invariant                                                             *)

ConnRecords ==
    [url : Urls \union {NoConn}, socket : {"free", "connecting", "open", "ending", "closing", "closed"},
     connected : BOOLEAN, promise : {"none", "pending", "settled"},
     caller : Queries \union Posts \union {NoConn},
     subs : SUBSET Queries, eosed : SUBSET Queries,
     pendingPublishes : [SeenEvents -> Posts \union {NoConn}]]
QueryRecords ==
    [step : {"idle", "open", "closed", "resolved"}, eoses : SUBSET Urls, closes : SUBSET Urls]
PostRecords ==
    [step : {"idle", "connecting", "sent", "resolved", "rejected"}, on : Conns \union {NoConn}]

\* A socket that is in use has a URL, and no one waits for one that is not.
ConnsInUse ==
    \A c \in Conns :
        /\ conns[c].socket = "free" => conns[c].promise = "none" /\ reqs[c] = {}
        /\ conns[c].socket # "free" => conns[c].url \in Urls
        /\ conns[c].promise = "pending" => conns[c].caller \in Queries \union Posts

MapIsOfUsed == \A u \in Urls : relays[u] # NoConn => conns[relays[u]].socket # "free"

\* The promise of connection c is pending, and x awaits it.
Awaits(c, x) == conns[c].promise = "pending" /\ conns[c].caller = x

\* A subscription makes one attempt at each relay: it waits for one connection, or it has
\* sent its REQ.
OneAttempt ==
    \A q \in Queries, c, d \in Conns :
        Awaits(c, q) /\ conns[d].url = conns[c].url =>
            q \notin reqs[d] /\ (Awaits(d, q) => d = c)

\* What has not begun has asked nobody; a relay that failed is not asked any more; one that
\* has come to its end is not waited for.
AttemptsSettle ==
    \A q \in Queries :
        /\ queries[q].step = "idle" => queries[q].eoses = {} /\ queries[q].closes = {}
        /\ \A c \in Conns :
             /\ queries[q].step = "idle" \/ conns[c].url \in queries[q].closes =>
                    ~Awaits(c, q) /\ q \notin reqs[c]
             /\ conns[c].url \in queries[q].eoses => ~Awaits(c, q)

\* A publish waits for one connection, to its relay, before it sends.
PostsAwaitOne ==
    \A p \in Posts, c \in Conns :
        Awaits(c, p) =>
            /\ posts[p].step = "connecting" /\ conns[c].url = PostUrl[p]
            /\ \A d \in Conns : Awaits(d, p) => d = c

\* A publish was sent to its relay.
SentToItsRelay ==
    \A p \in Posts :
        posts[p].step = "sent" =>
            /\ posts[p].on \in Conns
            /\ conns[posts[p].on].socket # "free" /\ conns[posts[p].on].url = PostUrl[p]

\* The set of seen events is what was delivered last, and no less than the newer half of
\* what it may hold unless it is all there was.
SeenIsRecent ==
    LET s == Len(seenEvents)
        n == Len(delivered)
    IN
    /\ s <= n
    /\ s = n \/ s > MaxSeen \div 2
    /\ \A i \in 1..s : seenEvents[i] = delivered[n - s + i][2]

LinksInv == ConnsInUse /\ MapIsOfUsed /\ MapNamesHeldSockets
AttemptsInv == OneAttempt /\ AttemptsSettle /\ FailedOrEosed
PostsInv == PostsAwaitOne /\ SentToItsRelay /\ ResolversWait /\ ResolvedWasAccepted
DeliveryInv == SeenIsRecent /\ NoEarlyDuplicate
SimpleInv == SimpleTypeOK /\ LinksInv /\ AttemptsInv /\ PostsInv /\ DeliveryInv

-----------------------------------------------------------------------------
(* What the steps do to the records *)

\* The shape of the state, with the records named.
LEMMA SimpleTypes ==
    SimpleTypeOK <=> /\ relays \in [Urls -> Conns \union {NoConn}]
                     /\ conns \in [Conns -> ConnRecords]
                     /\ seenEvents \in Seq(SeenEvents)
                     /\ queries \in [Queries -> QueryRecords]
                     /\ delivered \in Seq(Queries \X SeenEvents)
                     /\ posts \in [Posts -> PostRecords]
                     /\ reqs \in [Conns -> SUBSET Queries]
                     /\ owed \in [Conns -> SUBSET Posts]
                     /\ accepted \subseteq Urls \X SeenEvents
  BY DEF SimpleTypeOK, ConnRecords, QueryRecords, PostRecords

\* Two records of a connection that differ in their subscriptions at most.
SameLink(k, n) ==
    /\ n.url = k.url /\ n.socket = k.socket /\ n.promise = k.promise /\ n.caller = k.caller
    /\ n.connected = k.connected /\ n.pendingPublishes = k.pendingPublishes

\* A change of its subscriptions leaves the rest of a connection.
LEMMA SubsChange ==
    ASSUME NEW k \in ConnRecords, NEW S \in SUBSET Queries
    PROVE  /\ [k EXCEPT !.subs = S] \in ConnRecords /\ SameLink(k, [k EXCEPT !.subs = S])
           /\ [k EXCEPT !.eosed = S] \in ConnRecords /\ SameLink(k, [k EXCEPT !.eosed = S])
  BY DEF ConnRecords, SameLink

\* So does a change of its socket or promise.
LEMMA SocketChange ==
    ASSUME NEW k \in ConnRecords
    PROVE  LET o == [k EXCEPT !.socket = "open", !.connected = TRUE, !.promise = "settled"]
               x == [k EXCEPT !.socket = "closing"]
               y == [k EXCEPT !.socket = "ending"]
               t == [k EXCEPT !.promise = "settled"]
           IN  /\ o \in ConnRecords /\ x \in ConnRecords /\ y \in ConnRecords
               /\ t \in ConnRecords
               /\ o.socket = "open" /\ o.promise = "settled" /\ o.url = k.url
               /\ o.caller = k.caller /\ o.pendingPublishes = k.pendingPublishes
               /\ o.subs = k.subs
               /\ x.socket = "closing" /\ x.url = k.url /\ x.promise = k.promise
               /\ x.caller = k.caller /\ x.pendingPublishes = k.pendingPublishes
               /\ y.socket = "ending" /\ y.url = k.url /\ y.promise = k.promise
               /\ y.caller = k.caller /\ y.pendingPublishes = k.pendingPublishes
               /\ t.promise = "settled" /\ t.url = k.url /\ t.socket = k.socket
               /\ t.caller = k.caller /\ t.pendingPublishes = k.pendingPublishes
  BY DEF ConnRecords

\* And a change of the resolver of one event.
LEMMA ResolverChange ==
    ASSUME NEW k \in ConnRecords, NEW e \in SeenEvents, NEW p \in Posts \union {NoConn}
    PROVE  LET n == [k EXCEPT !.pendingPublishes[e] = p]
           IN  /\ n \in ConnRecords /\ n.url = k.url /\ n.socket = k.socket
               /\ n.promise = k.promise /\ n.caller = k.caller
               /\ \A x \in SeenEvents :
                    n.pendingPublishes[x] = IF x = e THEN p ELSE k.pendingPublishes[x]
  <1> DEFINE n == [k EXCEPT !.pendingPublishes[e] = p]
             f == [k.pendingPublishes EXCEPT ![e] = p]
  <1>1. n = [k EXCEPT !.pendingPublishes = f]
    OBVIOUS
  <1>2. k.pendingPublishes \in [SeenEvents -> Posts \union {NoConn}]
    BY DEF ConnRecords
  <1>3. /\ f \in [SeenEvents -> Posts \union {NoConn}]
        /\ \A x \in SeenEvents : f[x] = IF x = e THEN p ELSE k.pendingPublishes[x]
    BY <1>2
  <1> HIDE DEF f, n
  <1>4. /\ n \in ConnRecords /\ n.url = k.url /\ n.socket = k.socket
        /\ n.promise = k.promise /\ n.caller = k.caller /\ n.pendingPublishes = f
    BY <1>1, <1>3 DEF ConnRecords
  <1>5. /\ n \in ConnRecords /\ n.url = k.url /\ n.socket = k.socket
        /\ n.promise = k.promise /\ n.caller = k.caller
        /\ \A x \in SeenEvents :
             n.pendingPublishes[x] = IF x = e THEN p ELSE k.pendingPublishes[x]
    BY <1>3, <1>4
  <1> QED
    BY <1>5 DEF n

\* A connection that begins, and one whose socket has ended.
LEMMA FreshConn ==
    ASSUME NEW u \in Urls, NEW x \in Queries \union Posts
    PROVE  LET n == NewConn(u, x)
               f == [FreeConn EXCEPT !.url = u, !.socket = "closed"]
           IN  /\ n \in ConnRecords /\ n.url = u /\ n.socket = "connecting"
               /\ n.promise = "pending" /\ n.caller = x
               /\ n.pendingPublishes = [e \in SeenEvents |-> NoConn]
               /\ f \in ConnRecords /\ f.url = u /\ f.socket = "closed" /\ f.promise = "none"
               /\ f.pendingPublishes = [e \in SeenEvents |-> NoConn]
  BY DEF NewConn, FreeConn, ConnRecords

\* Changes of single fields keep the records of queries and publishes.
LEMMA QueryChange ==
    ASSUME NEW k \in QueryRecords, NEW S \in SUBSET Urls,
           NEW step \in {"open", "closed", "resolved"}
    PROVE  LET c == [k EXCEPT !.closes = S, !.step = step]
               e == [k EXCEPT !.eoses = S]
               s == [k EXCEPT !.step = step]
               o == [k EXCEPT !.closes = S]
           IN  /\ c \in QueryRecords /\ c.closes = S /\ c.eoses = k.eoses /\ c.step = step
               /\ o \in QueryRecords /\ o.closes = S /\ o.eoses = k.eoses /\ o.step = k.step
               /\ e \in QueryRecords /\ e.eoses = S /\ e.closes = k.closes /\ e.step = k.step
               /\ s \in QueryRecords /\ s.eoses = k.eoses /\ s.closes = k.closes
               /\ s.step = step
  BY DEF QueryRecords

\* The same for the records of publishes.
LEMMA PostChange ==
    ASSUME NEW k \in PostRecords, NEW step \in {"connecting", "sent", "resolved", "rejected"}
    PROVE  LET s == [k EXCEPT !.step = step]
           IN  s \in PostRecords /\ s.step = step /\ s.on = k.on
  BY DEF PostRecords

\* A connection that fails counts as failed for the subscription that waited for it.
LEMMA ClosesOne ==
    ASSUME NEW q \in Queries, NEW u \in Urls, queries \in [Queries -> QueryRecords],
           queries' = Closes(q, u)
    PROVE  /\ queries' \in [Queries -> QueryRecords]
           /\ queries'[q].closes = queries[q].closes \union {u}
           /\ queries'[q].eoses = queries[q].eoses
           /\ queries'[q].step = "idle" => queries[q].step = "idle"
           /\ \A x \in Queries \ {q} : queries'[x] = queries[x]
  <1> DEFINE k == queries[q]
             S == k.closes \union {u}
             step == IF q \in Syncs /\ S = QueryUrls[q] /\ k.step = "open"
                     THEN "resolved" ELSE k.step
             n == [k EXCEPT !.closes = S, !.step = step]
  <1>1. queries' = [queries EXCEPT ![q] = n]
    BY DEF Closes
  <1>2. /\ k \in QueryRecords /\ S \in SUBSET Urls
        /\ step \in {"idle", "open", "closed", "resolved"} /\ (step = "idle" => k.step = "idle")
    BY DEF QueryRecords
  <1> HIDE DEF k, S, step
  <1>3. n \in QueryRecords /\ n.closes = S /\ n.eoses = k.eoses /\ n.step = step
    BY <1>2 DEF QueryRecords
  <1> HIDE DEF n
  <1>4. queries'[q] = n /\ \A x \in Queries \ {q} : queries'[x] = queries[x]
    BY <1>1
  <1> USE DEF k, S
  <1> QED
    BY <1>1, <1>2, <1>3, <1>4

\* What the invariants of the connections read of the state, typed.
SimpleShape ==
    /\ relays \in [Urls -> Conns \union {NoConn}]
    /\ conns \in [Conns -> ConnRecords]
    /\ queries \in [Queries -> QueryRecords]
    /\ posts \in [Posts -> PostRecords]
    /\ reqs \in [Conns -> SUBSET Queries]
    /\ owed \in [Conns -> SUBSET Posts]
    /\ accepted \subseteq Urls \X SeenEvents

SharedInv == SimpleShape /\ LinksInv /\ AttemptsInv /\ PostsInv

-----------------------------------------------------------------------------
(* Steps that change no connection and no promise                            *)

\* A relay whose REQ of q is answered adds its URL to eoses; nothing else of the
\* subscriptions moves but their steps, and REQs only end.
Quiet ==
    /\ conns' \in [Conns -> ConnRecords] /\ \A c \in Conns : SameLink(conns[c], conns'[c])
    /\ reqs' \in [Conns -> SUBSET Queries] /\ \A c \in Conns : reqs'[c] \subseteq reqs[c]
    /\ queries' \in [Queries -> QueryRecords]
    /\ \A q \in Queries :
         /\ queries'[q].closes = queries[q].closes
         /\ queries'[q].step = "idle" => queries[q].step = "idle"
         /\ \/ queries'[q].eoses = queries[q].eoses
            \/ \E c \in Conns : /\ q \in reqs[c]
                                /\ queries'[q].eoses = queries[q].eoses \union {conns[c].url}
    /\ UNCHANGED <<relays, posts, owed, accepted>>

\* Such a step keeps the invariants.
LEMMA QuietSafe == SharedInv /\ Quiet => SharedInv'
  <1> SUFFICES ASSUME SharedInv, Quiet PROVE SharedInv'
    OBVIOUS
  <1>1. \A c \in Conns : SameLink(conns[c], conns'[c])
    BY DEF Quiet
  <1>2. SimpleShape'
    BY DEF Quiet, SharedInv, SimpleShape
  <1>3. LinksInv'
    <2>1. ConnsInUse'
      BY <1>1 DEF Quiet, SharedInv, SimpleShape, LinksInv, ConnsInUse, SameLink
    <2>2. MapIsOfUsed' /\ MapNamesHeldSockets'
      <3>1. ASSUME NEW u \in Urls, relays[u] # NoConn
            PROVE  SameLink(conns[relays[u]], conns'[relays[u]])
        BY <1>1, <3>1 DEF SharedInv, SimpleShape
      <3> QED
        BY <3>1
        DEF Quiet, SharedInv, LinksInv, MapIsOfUsed, MapNamesHeldSockets, Held, SameLink
    <2> QED
      BY <2>1, <2>2 DEF LinksInv
  <1>4. \A c \in Conns, x \in Queries \union Posts : Awaits(c, x)' <=> Awaits(c, x)
    BY <1>1 DEF Awaits, SameLink
  <1>5. AttemptsInv'
    <2>1. OneAttempt'
      BY <1>1, <1>4 DEF Quiet, SharedInv, AttemptsInv, OneAttempt, SameLink
    <2> SUFFICES ASSUME NEW q \in Queries
                 PROVE  /\ queries'[q].step = "idle" =>
                               queries'[q].eoses = {} /\ queries'[q].closes = {}
                        /\ \A c \in Conns :
                             /\ queries'[q].step = "idle" \/ conns'[c].url \in queries'[q].closes
                                    => ~Awaits(c, q)' /\ q \notin reqs'[c]
                             /\ conns'[c].url \in queries'[q].eoses => ~Awaits(c, q)'
                        /\ queries'[q].eoses \intersect queries'[q].closes = {}
      BY <2>1 DEF AttemptsInv, AttemptsSettle, FailedOrEosed
    <2>2. /\ queries[q].step = "idle" => queries[q].eoses = {} /\ queries[q].closes = {}
          /\ \A c \in Conns :
               /\ queries[q].step = "idle" \/ conns[c].url \in queries[q].closes =>
                      ~Awaits(c, q) /\ q \notin reqs[c]
               /\ conns[c].url \in queries[q].eoses => ~Awaits(c, q)
          /\ queries[q].eoses \intersect queries[q].closes = {}
      BY DEF SharedInv, AttemptsInv, AttemptsSettle, FailedOrEosed
    <2>3. \A c, d \in Conns : Awaits(c, q) /\ conns[d].url = conns[c].url => q \notin reqs[d]
      BY DEF SharedInv, AttemptsInv, OneAttempt
    <2>4. /\ queries'[q].closes = queries[q].closes
          /\ queries'[q].step = "idle" => queries[q].step = "idle"
          /\ \A c \in Conns : reqs'[c] \subseteq reqs[c] /\ conns'[c].url = conns[c].url
      BY <1>1 DEF Quiet, SameLink
    <2>5. CASE queries'[q].eoses = queries[q].eoses
      BY <1>4, <2>2, <2>4, <2>5
    <2>6. ASSUME NEW d \in Conns, q \in reqs[d],
                 queries'[q].eoses = queries[q].eoses \union {conns[d].url}
          PROVE  /\ queries'[q].step # "idle"
                 /\ \A c \in Conns : conns[c].url \in queries'[q].eoses => ~Awaits(c, q)
                 /\ queries'[q].eoses \intersect queries'[q].closes = {}
      BY <2>2, <2>3, <2>4, <2>6
    <2> QED
      <3>1. \/ queries'[q].eoses = queries[q].eoses
            \/ \E c \in Conns : /\ q \in reqs[c]
                                /\ queries'[q].eoses = queries[q].eoses \union {conns[c].url}
        BY DEF Quiet
      <3>2. CASE \E c \in Conns : /\ q \in reqs[c]
                                  /\ queries'[q].eoses = queries[q].eoses \union {conns[c].url}
        <4>1. /\ queries'[q].step # "idle"
              /\ \A c \in Conns : conns[c].url \in queries'[q].eoses => ~Awaits(c, q)
              /\ queries'[q].eoses \intersect queries'[q].closes = {}
          BY <2>6, <3>2
        <4> QED
          BY <1>4, <2>2, <2>4, <4>1
      <3> QED
        BY <2>5, <3>1, <3>2
  <1>6. PostsInv'
    <2>1. PostsAwaitOne'
      BY <1>1, <1>4 DEF Quiet, SharedInv, PostsInv, PostsAwaitOne, SameLink
    <2>2. SentToItsRelay'
      BY <1>1 DEF Quiet, SharedInv, PostsInv, SentToItsRelay, SameLink
    <2>3. ResolversWait'
      BY <1>1 DEF Quiet, SharedInv, PostsInv, ResolversWait, SameLink
    <2>4. ResolvedWasAccepted'
      BY DEF Quiet, SharedInv, PostsInv, ResolvedWasAccepted
    <2> QED
      BY <2>1, <2>2, <2>3, <2>4 DEF PostsInv
  <1> QED
    BY <1>2, <1>3, <1>5, <1>6 DEF SharedInv

\* close() of a subscription leaves the connections as they are.
LEMMA LeftIsQuiet ==
    ASSUME SimpleShape, NEW q \in Queries
    PROVE  Left(q) \in [Conns -> ConnRecords] /\ \A c \in Conns : SameLink(conns[c], Left(q)[c])
  <1>1. ASSUME NEW c \in Conns
        PROVE  Left(q)[c] \in ConnRecords /\ SameLink(conns[c], Left(q)[c])
    <2>1. conns[c] \in ConnRecords /\ conns[c].subs \ {q} \in SUBSET Queries
      BY DEF SimpleShape, ConnRecords
    <2> DEFINE n == [conns[c] EXCEPT !.subs = conns[c].subs \ {q}]
    <2>2. Left(q)[c] = conns[c] \/ Left(q)[c] = n
      BY DEF Left
    <2>3. n \in ConnRecords /\ SameLink(conns[c], n)
      BY <2>1, SubsChange
    <2> HIDE DEF n
    <2>4. SameLink(conns[c], conns[c])
      BY DEF SameLink
    <2> QED
      BY <2>1, <2>2, <2>3, <2>4
  <1> QED
    BY <1>1 DEF Left

\* The steps of subscriptions that go on, and of relays that answer them.
LEMMA QuietSteps ==
    ASSUME SimpleShape, ConnsInUse, NEW q \in Queries,
           \/ Unsubscribe(q) \/ MaxWait(q)
           \/ \E c \in Conns : OnEose(c, q) \/ OnClosed(c, q) \/ \E e \in SeenEvents : OnEvent(c, q, e)
    PROVE  Quiet
  <1> USE DEF SimpleShape
  <1>1. ASSUME NEW step \in {"closed", "resolved"}, conns' = Left(q),
               queries' = [queries EXCEPT ![q].step = step],
               UNCHANGED <<relays, posts, reqs, owed, accepted>>
        PROVE  Quiet
    <2> DEFINE n == [queries[q] EXCEPT !.step = step]
    <2>1. queries' = [queries EXCEPT ![q] = n]
      BY <1>1
    <2>2. /\ n \in QueryRecords /\ n.eoses = queries[q].eoses /\ n.closes = queries[q].closes
          /\ n.step # "idle"
      BY DEF QueryRecords
    <2> HIDE DEF n
    <2> QED
      BY <1>1, <2>1, <2>2, LeftIsQuiet DEF Quiet
  <1>2. CASE Unsubscribe(q)
    BY <1>1, <1>2 DEF Unsubscribe
  <1>3. CASE MaxWait(q)
    BY <1>1, <1>3 DEF MaxWait
  <1>4. ASSUME NEW c \in Conns, OnClosed(c, q)
        PROVE  Quiet
    <2> DEFINE n == [conns[c] EXCEPT !.subs = conns[c].subs \ {q}]
    <2>1. conns[c] \in ConnRecords /\ conns[c].subs \ {q} \in SUBSET Queries
      BY DEF ConnRecords
    <2>2. n \in ConnRecords /\ SameLink(conns[c], n)
      BY <2>1, SubsChange
    <2>3. /\ conns' = [conns EXCEPT ![c] = n] /\ reqs' = [reqs EXCEPT ![c] = reqs[c] \ {q}]
          /\ UNCHANGED <<relays, queries, posts, owed, accepted>>
      BY <1>4 DEF OnClosed
    <2> HIDE DEF n
    <2>4. conns' \in [Conns -> ConnRecords] /\ \A d \in Conns : SameLink(conns[d], conns'[d])
      BY <2>2, <2>3 DEF SameLink
    <2> QED
      BY <2>3, <2>4 DEF Quiet
  <1>5. ASSUME NEW c \in Conns, OnEose(c, q)
        PROVE  Quiet
    <2> DEFINE n == [conns[c] EXCEPT !.eosed = conns[c].eosed \union {q}]
               marked == [conns EXCEPT ![c] = n]
               eoses == queries[q].eoses \union {conns[c].url}
               m == [queries[q] EXCEPT !.eoses = eoses]
    <2>1. conns[c] \in ConnRecords /\ conns[c].eosed \union {q} \in SUBSET Queries
      BY DEF ConnRecords
    <2>2. n \in ConnRecords /\ SameLink(conns[c], n)
      BY <2>1, SubsChange
    <2>3. /\ \/ conns' = marked
             \/ conns' = [d \in Conns |-> [marked[d] EXCEPT !.subs = Left(q)[d].subs]]
          /\ queries' = [queries EXCEPT ![q] = m] /\ q \in reqs[c]
          /\ UNCHANGED <<relays, posts, reqs, owed, accepted>>
      BY <1>5 DEF OnEose
    <2>4. conns[c].url \in Urls
      BY <2>3 DEF ConnsInUse
    <2>5. eoses \in SUBSET Urls
      BY <2>4 DEF QueryRecords
    <2>6. /\ m \in QueryRecords /\ m.eoses = eoses /\ m.closes = queries[q].closes
          /\ m.step = queries[q].step
      BY <2>5 DEF QueryRecords
    <2>7. \A d \in Conns : marked[d] \in ConnRecords /\ SameLink(conns[d], marked[d])
      BY <2>2 DEF SameLink
    <2>m. eoses = queries[q].eoses \union {conns[c].url}
      OBVIOUS
    <2> HIDE DEF n, m, marked, eoses
    <2>8. conns' \in [Conns -> ConnRecords] /\ \A d \in Conns : SameLink(conns[d], conns'[d])
      <3>1. CASE conns' = marked
        <4>1. marked \in [Conns -> ConnRecords]
          BY <2>2 DEF marked
        <4> QED
          BY <2>7, <3>1, <4>1
      <3>2. CASE conns' = [d \in Conns |-> [marked[d] EXCEPT !.subs = Left(q)[d].subs]]
        <4>1. ASSUME NEW d \in Conns
              PROVE  conns'[d] \in ConnRecords /\ SameLink(conns[d], conns'[d])
          <5>1. Left(q)[d].subs \in SUBSET Queries
            BY LeftIsQuiet DEF ConnRecords
          <5>2. conns'[d] \in ConnRecords /\ SameLink(marked[d], conns'[d])
            BY <2>7, <3>2, <5>1, SubsChange
          <5> QED
            BY <2>7, <5>2 DEF SameLink
        <4> QED
          BY <3>2, <4>1
      <3> QED
        BY <2>3, <3>1, <3>2
    <2>9. /\ queries' \in [Queries -> QueryRecords]
          /\ \A x \in Queries :
               /\ queries'[x].closes = queries[x].closes
               /\ queries'[x].step = "idle" => queries[x].step = "idle"
               /\ \/ queries'[x].eoses = queries[x].eoses
                  \/ x = q /\ queries'[x].eoses = queries[q].eoses \union {conns[c].url}
      BY <2>3, <2>6, <2>m
    <2> QED
      BY <2>3, <2>8, <2>9 DEF Quiet
  <1>6. ASSUME NEW c \in Conns, NEW e \in SeenEvents, OnEvent(c, q, e)
        PROVE  Quiet
    BY <1>6 DEF OnEvent, Quiet, SameLink
  <1> QED
    BY <1>2, <1>3, <1>4, <1>5, <1>6

-----------------------------------------------------------------------------
(* Sockets that begin to close                                               *)

\* The pool may close a socket once no entry of the map names it, a relay an open one.
Closing ==
    /\ conns' \in [Conns -> ConnRecords]
    /\ \A c \in Conns :
         /\ conns'[c].url = conns[c].url /\ conns'[c].promise = conns[c].promise
         /\ conns'[c].caller = conns[c].caller
         /\ conns'[c].pendingPublishes = conns[c].pendingPublishes
         /\ \/ conns'[c].socket = conns[c].socket
            \/ /\ conns[c].socket # "free" /\ conns'[c].socket = "closing"
               /\ \A u \in Urls : relays'[u] # c
            \/ conns[c].socket = "open" /\ conns'[c].socket = "ending"
    /\ relays' \in [Urls -> Conns \union {NoConn}]
    /\ \A u \in Urls : relays'[u] \in {NoConn, relays[u]}
    /\ reqs' \in [Conns -> SUBSET Queries] /\ \A c \in Conns : reqs'[c] \subseteq reqs[c]
    /\ owed' \in [Conns -> SUBSET Posts]
    /\ UNCHANGED <<queries, posts, accepted>>

\* Such a step keeps the invariants.
LEMMA ClosingSafe == SharedInv /\ Closing => SharedInv'
  <1> SUFFICES ASSUME SharedInv, Closing PROVE SharedInv'
    OBVIOUS
  <1>1. SimpleShape'
    BY DEF Closing, SharedInv, SimpleShape
  <1>2. LinksInv'
    <2>1. ConnsInUse'
      BY DEF Closing, SharedInv, LinksInv, ConnsInUse
    <2>2. MapIsOfUsed' /\ MapNamesHeldSockets'
      <3>1. ASSUME NEW u \in Urls, relays'[u] # NoConn
            PROVE  /\ relays'[u] = relays[u] /\ relays[u] \in Conns
                   /\ \/ conns'[relays[u]].socket = conns[relays[u]].socket
                      \/ /\ conns[relays[u]].socket = "open"
                         /\ conns'[relays[u]].socket = "ending"
                   /\ conns'[relays[u]].url = conns[relays[u]].url
        BY <3>1 DEF Closing, SharedInv, SimpleShape
      <3> QED
        BY <3>1 DEF Closing, SharedInv, LinksInv, MapIsOfUsed, MapNamesHeldSockets, Held
    <2> QED
      BY <2>1, <2>2 DEF LinksInv
  <1>3. \A c \in Conns, x \in Queries \union Posts : Awaits(c, x)' <=> Awaits(c, x)
    BY DEF Closing, Awaits
  <1>4. AttemptsInv'
    <2>1. OneAttempt'
      BY <1>3 DEF Closing, SharedInv, AttemptsInv, OneAttempt
    <2>2. AttemptsSettle' /\ FailedOrEosed'
      BY <1>3 DEF Closing, SharedInv, AttemptsInv, AttemptsSettle, FailedOrEosed
    <2> QED
      BY <2>1, <2>2 DEF AttemptsInv
  <1>5. PostsInv'
    <2>1. PostsAwaitOne'
      BY <1>3 DEF Closing, SharedInv, PostsInv, PostsAwaitOne
    <2>2. SentToItsRelay'
      BY DEF Closing, SharedInv, PostsInv, SentToItsRelay
    <2>3. ResolversWait'
      BY DEF Closing, SharedInv, PostsInv, ResolversWait
    <2>4. ResolvedWasAccepted'
      BY DEF Closing, SharedInv, PostsInv, ResolvedWasAccepted
    <2> QED
      BY <2>1, <2>2, <2>3, <2>4 DEF PostsInv
  <1> QED
    BY <1>1, <1>2, <1>4, <1>5 DEF SharedInv

\* close of one URL takes the entry that names the socket with it: no other does.
LEMMA ClosingSteps ==
    ASSUME SimpleAssumption, SharedInv,
           \/ Destroy
           \/ \E u \in Urls : CloseRelay(u)
           \/ \E c \in Conns : SocketEnding(c)
    PROVE  Closing
  <1> USE DEF SharedInv, SimpleShape
  <1>1. ASSUME NEW cs \in SUBSET Conns, ClosedByUser(cs),
               \A c \in cs : \A u \in Urls : relays'[u] # c,
               relays' \in [Urls -> Conns \union {NoConn}],
               \A u \in Urls : relays'[u] \in {NoConn, relays[u]},
               UNCHANGED <<queries, posts, reqs, owed, accepted>>
        PROVE  Closing
    <2>1. ASSUME NEW c \in Conns
          PROVE  /\ conns'[c] \in ConnRecords
                 /\ conns'[c].url = conns[c].url /\ conns'[c].promise = conns[c].promise
                 /\ conns'[c].caller = conns[c].caller
                 /\ conns'[c].pendingPublishes = conns[c].pendingPublishes
                 /\ \/ conns'[c].socket = conns[c].socket
                    \/ c \in cs /\ conns[c].socket # "free" /\ conns'[c].socket = "closing"
      <3> DEFINE n == [conns[c] EXCEPT !.socket = "closing"]
      <3>1. conns[c] \in ConnRecords
        OBVIOUS
      <3>2. /\ n \in ConnRecords /\ n.url = conns[c].url /\ n.promise = conns[c].promise
            /\ n.caller = conns[c].caller /\ n.socket = "closing"
            /\ n.pendingPublishes = conns[c].pendingPublishes
        BY <3>1, SocketChange
      <3>3. conns'[c] = IF c \in cs /\ Held(c) THEN n ELSE conns[c]
        BY <1>1 DEF ClosedByUser
      <3>4. Held(c) => conns[c].socket # "free"
        BY DEF Held
      <3> HIDE DEF n
      <3> QED
        BY <3>1, <3>2, <3>3, <3>4
    <2>2. conns' \in [Conns -> ConnRecords]
      BY <1>1, <2>1 DEF ClosedByUser
    <2> QED
      BY <1>1, <2>1, <2>2 DEF Closing
  <1>2. CASE Destroy
    <2> DEFINE all == {relays[u] : u \in Urls}
               cs == all \intersect Conns
    <2>c. ClosedByUser(all) => ClosedByUser(cs)
      BY DEF ClosedByUser
    <2>1. /\ ClosedByUser(cs) /\ relays' = [u \in Urls |-> NoConn]
          /\ UNCHANGED <<queries, posts, reqs, owed, accepted>>
      BY <1>2, <2>c DEF Destroy
    <2>2. cs \in SUBSET Conns
      OBVIOUS
    <2> HIDE DEF cs
    <2>3. NoConn \notin Conns
      BY DEF SimpleAssumption
    <2> QED
      BY <1>1, <2>1, <2>2, <2>3
  <1>3. ASSUME NEW u \in Urls, CloseRelay(u)
        PROVE  Closing
    <2> DEFINE all == {relays[u]}
               cs == all \intersect Conns
    <2>c. ClosedByUser(all) => ClosedByUser(cs)
      BY DEF ClosedByUser
    <2>1. /\ ClosedByUser(cs) /\ relays' = [relays EXCEPT ![u] = NoConn]
          /\ UNCHANGED <<queries, posts, reqs, owed, accepted>>
      BY <1>3, <2>c DEF CloseRelay
    <2>2. /\ cs \in SUBSET Conns
          /\ \A c \in cs : c = relays[u] /\ c \in Conns
      OBVIOUS
    <2> HIDE DEF cs
    <2>3. NoConn \notin Conns
      BY DEF SimpleAssumption
    <2>4. \A w \in Urls : relays[w] # NoConn /\ relays[w] = relays[u] => w = u
      BY DEF LinksInv, MapNamesHeldSockets, Held
    <2>5. \A c \in cs : \A w \in Urls : relays'[w] # c
      BY <2>1, <2>2, <2>3, <2>4
    <2> QED
      BY <1>1, <2>1, <2>2, <2>5
  <1>4. ASSUME NEW c \in Conns, SocketEnding(c)
        PROVE  Closing
    <2> DEFINE n == [conns[c] EXCEPT !.socket = "ending"]
    <2>1. /\ conns[c].socket = "open" /\ conns' = [conns EXCEPT ![c] = n]
          /\ reqs' = [reqs EXCEPT ![c] = {}] /\ owed' = [owed EXCEPT ![c] = {}]
          /\ UNCHANGED <<relays, queries, posts, accepted>>
      BY <1>4 DEF SocketEnding
    <2>2. /\ n \in ConnRecords /\ n.url = conns[c].url /\ n.promise = conns[c].promise
          /\ n.caller = conns[c].caller /\ n.socket = "ending"
          /\ n.pendingPublishes = conns[c].pendingPublishes
      BY SocketChange
    <2> HIDE DEF n
    <2>3. ASSUME NEW d \in Conns
          PROVE  /\ conns'[d].url = conns[d].url /\ conns'[d].promise = conns[d].promise
                 /\ conns'[d].caller = conns[d].caller
                 /\ conns'[d].pendingPublishes = conns[d].pendingPublishes
                 /\ \/ conns'[d].socket = conns[d].socket
                    \/ conns[d].socket = "open" /\ conns'[d].socket = "ending"
      BY <2>1, <2>2
    <2>4. /\ conns' \in [Conns -> ConnRecords] /\ reqs' \in [Conns -> SUBSET Queries]
          /\ \A d \in Conns : reqs'[d] \subseteq reqs[d]
          /\ owed' \in [Conns -> SUBSET Posts] /\ relays' \in [Urls -> Conns \union {NoConn}]
      BY <2>1, <2>2
    <2> QED
      BY <2>1, <2>3, <2>4 DEF Closing
  <1> QED
    BY <1>2, <1>3, <1>4

-----------------------------------------------------------------------------
(* Sockets that end and connection timers                                    *)

\* The promise of connection c is given up, and perhaps the socket with it.
GivesUp(c) ==
    /\ conns[c].socket # "free" /\ Reject(conns[c])
    /\ conns' \in [Conns -> ConnRecords] /\ \A d \in Conns \ {c} : conns'[d] = conns[d]
    /\ conns'[c].url = conns[c].url /\ conns'[c].promise # "pending"
    /\ conns'[c].socket # "free"
    /\ \A e \in SeenEvents :
         conns'[c].pendingPublishes[e] \in {NoConn, conns[c].pendingPublishes[e]}
    /\ reqs' \in [Conns -> SUBSET Queries] /\ \A d \in Conns : reqs'[d] \subseteq reqs[d]
    /\ relays' \in [Urls -> Conns \union {NoConn}]
    /\ \A u \in Urls : relays'[u] \in {NoConn, relays[u]}
    /\ \/ conns'[c].socket = conns[c].socket
       \/ EnableReconnect
       \/ \A u \in Urls : relays'[u] # c
    /\ owed' \in [Conns -> SUBSET Posts] /\ accepted' = accepted

\* Whoever waited for it, a subscription or a publish, waited for nothing else there.
LEMMA GivesUpSafe ==
    ASSUME SharedInv, NEW c \in Conns, GivesUp(c), Queries \intersect Posts = {},
           NoConn \notin Conns \union Posts
    PROVE  SharedInv'
  <1> USE DEF GivesUp
  <1>1. /\ relays \in [Urls -> Conns \union {NoConn}] /\ conns \in [Conns -> ConnRecords]
        /\ queries \in [Queries -> QueryRecords] /\ posts \in [Posts -> PostRecords]
        /\ reqs \in [Conns -> SUBSET Queries] /\ accepted \subseteq Urls \X SeenEvents
    BY DEF SharedInv, SimpleShape
  <1>2. conns[c].url \in Urls
    BY DEF SharedInv, LinksInv, ConnsInUse
  <1>3. LinksInv'
    <2>1. ConnsInUse'
      BY <1>2 DEF SharedInv, LinksInv, ConnsInUse
    <2>2. ASSUME NEW u \in Urls, relays'[u] # NoConn
          PROVE  /\ relays'[u] = relays[u] /\ relays[u] \in Conns
                 /\ conns'[relays[u]].url = conns[relays[u]].url
                 /\ conns'[relays[u]].socket # "free" \/ conns'[relays[u]].socket = conns[relays[u]].socket
                 /\ EnableReconnect \/ conns'[relays[u]].socket = conns[relays[u]].socket
      BY <1>1, <2>2
    <2>3. MapIsOfUsed' /\ MapNamesHeldSockets'
      BY <2>2 DEF SharedInv, LinksInv, MapIsOfUsed, MapNamesHeldSockets, Held
    <2> QED
      BY <2>1, <2>3 DEF LinksInv
  <1>4. \A d \in Conns, x \in Queries \union Posts : Awaits(d, x)' <=> d # c /\ Awaits(d, x)
    BY DEF Awaits
  <1>5. \A d \in Conns : conns'[d].url = conns[d].url
    OBVIOUS
  <1>6. OneAttempt'
    BY <1>4, <1>5 DEF SharedInv, AttemptsInv, OneAttempt
  <1>7. /\ queries' \in [Queries -> QueryRecords]
        /\ AttemptsSettle' /\ FailedOrEosed'
    <2>1. CASE UNCHANGED queries
      BY <1>1, <1>4, <1>5, <2>1 DEF SharedInv, AttemptsInv, AttemptsSettle, FailedOrEosed
    <2>2. ASSUME NEW q \in Queries, conns[c].caller = q, conns[c].promise = "pending",
                 queries' = Closes(q, conns[c].url)
          PROVE  queries' \in [Queries -> QueryRecords] /\ AttemptsSettle' /\ FailedOrEosed'
      <3>1. /\ queries' \in [Queries -> QueryRecords]
            /\ queries'[q].closes = queries[q].closes \union {conns[c].url}
            /\ queries'[q].eoses = queries[q].eoses
            /\ queries'[q].step = "idle" => queries[q].step = "idle"
            /\ \A x \in Queries \ {q} : queries'[x] = queries[x]
        BY <1>1, <1>2, <2>2, ClosesOne
      <3>2. Awaits(c, q)
        BY <2>2 DEF Awaits
      <3>3. /\ queries'[q].step # "idle" /\ conns[c].url \notin queries[q].eoses
            /\ \A d \in Conns : conns[d].url = conns[c].url =>
                                    q \notin reqs[d] /\ (Awaits(d, q) => d = c)
        BY <3>1, <3>2 DEF SharedInv, AttemptsInv, OneAttempt, AttemptsSettle
      <3>4. ASSUME NEW x \in Queries
            PROVE  /\ queries'[x].step = "idle" =>
                          queries'[x].eoses = {} /\ queries'[x].closes = {}
                   /\ \A d \in Conns :
                        /\ queries'[x].step = "idle" \/ conns[d].url \in queries'[x].closes =>
                               ~Awaits(d, x)' /\ x \notin reqs'[d]
                        /\ conns[d].url \in queries'[x].eoses => ~Awaits(d, x)'
                   /\ queries'[x].eoses \intersect queries'[x].closes = {}
        <4>1. /\ queries[x].step = "idle" => queries[x].eoses = {} /\ queries[x].closes = {}
              /\ \A d \in Conns :
                   /\ queries[x].step = "idle" \/ conns[d].url \in queries[x].closes =>
                          ~Awaits(d, x) /\ x \notin reqs[d]
                   /\ conns[d].url \in queries[x].eoses => ~Awaits(d, x)
              /\ queries[x].eoses \intersect queries[x].closes = {}
          BY DEF SharedInv, AttemptsInv, AttemptsSettle, FailedOrEosed
        <4>2. \A d \in Conns : reqs'[d] \subseteq reqs[d]
          OBVIOUS
        <4>3. CASE x # q
          BY <1>4, <3>1, <4>1, <4>2, <4>3
        <4>4. CASE x = q
          BY <1>4, <3>1, <3>3, <4>1, <4>2, <4>4
        <4> QED
          BY <4>3, <4>4
      <3> QED
        BY <1>5, <3>1, <3>4 DEF AttemptsSettle, FailedOrEosed
    <2> QED
      BY <2>1, <2>2 DEF Reject
  <1>8. posts' \in [Posts -> PostRecords] /\ PostsInv'
    <2>1. CASE UNCHANGED posts
      <3>1. PostsAwaitOne' /\ SentToItsRelay' /\ ResolvedWasAccepted'
        BY <1>4, <1>5, <2>1
        DEF SharedInv, PostsInv, PostsAwaitOne, SentToItsRelay, ResolvedWasAccepted
      <3>2. ResolversWait'
        BY <2>1 DEF SharedInv, PostsInv, ResolversWait
      <3> QED
        BY <1>1, <2>1, <3>1, <3>2 DEF PostsInv
    <2>2. ASSUME NEW p \in Posts, conns[c].caller = p, conns[c].promise = "pending",
                 posts' = [posts EXCEPT ![p].step = "rejected"]
          PROVE  posts' \in [Posts -> PostRecords] /\ PostsInv'
      <3> DEFINE n == [posts[p] EXCEPT !.step = "rejected"]
      <3>1. n \in PostRecords /\ n.step = "rejected"
        BY <1>1, PostChange
      <3>2. posts' = [posts EXCEPT ![p] = n]
        BY <2>2
      <3> HIDE DEF n
      <3>3. posts'[p] = n /\ \A x \in Posts \ {p} : posts'[x] = posts[x]
        BY <1>1, <3>2
      <3>4. Awaits(c, p)
        BY <2>2 DEF Awaits
      <3>5. posts[p].step = "connecting" /\ \A d \in Conns : Awaits(d, p) => d = c
        BY <3>4 DEF SharedInv, PostsInv, PostsAwaitOne
      <3>6. PostsAwaitOne'
        BY <1>4, <1>5, <3>3, <3>5 DEF SharedInv, PostsInv, PostsAwaitOne
      <3>7. SentToItsRelay' /\ ResolvedWasAccepted'
        BY <1>5, <3>1, <3>3 DEF SharedInv, PostsInv, SentToItsRelay, ResolvedWasAccepted
      <3>8. ResolversWait'
        <4>1. ASSUME NEW d \in Conns, NEW e \in SeenEvents,
                     conns'[d].pendingPublishes[e] # NoConn
              PROVE  /\ conns'[d].pendingPublishes[e] = conns[d].pendingPublishes[e]
                     /\ conns[d].pendingPublishes[e] \in Posts \ {p}
          <5>1. conns'[d].pendingPublishes[e] = conns[d].pendingPublishes[e]
            BY <4>1
          <5>2. conns[d] \in ConnRecords
            BY <1>1
          <5>3. conns[d].pendingPublishes[e] \in Posts
            BY <4>1, <5>1, <5>2 DEF ConnRecords
          <5>4. ResolversWait
            BY DEF SharedInv, PostsInv
          <5>5. posts[conns[d].pendingPublishes[e]] = [step |-> "sent", on |-> d]
            <6>1. conns[d].pendingPublishes[e] # NoConn
              BY <4>1, <5>1
            <6> QED
              BY <5>4, <6>1 DEF ResolversWait
          <5>6. posts[conns[d].pendingPublishes[e]].step = "sent"
            BY <5>5
          <5> QED
            BY <3>5, <5>1, <5>3, <5>6
        <4> QED
          BY <3>3, <4>1 DEF SharedInv, PostsInv, ResolversWait
      <3> QED
        BY <1>1, <3>1, <3>2, <3>6, <3>7, <3>8 DEF PostsInv
    <2>3. conns[c].promise = "pending" => conns[c].caller \in Queries \union Posts
      BY DEF SharedInv, LinksInv, ConnsInUse
    <2> QED
      BY <2>1, <2>2, <2>3 DEF Reject
  <1>9. SimpleShape'
    BY <1>1, <1>7, <1>8 DEF SimpleShape
  <1> QED
    BY <1>3, <1>6, <1>7, <1>8, <1>9 DEF SharedInv, AttemptsInv

\* onclose and the connection timer are such steps.
LEMMA GivesUpSteps ==
    ASSUME SimpleAssumption, SharedInv, NEW c \in Conns, SocketEnds(c) \/ ConnectionTimeout(c)
    PROVE  GivesUp(c)
  <1>1. /\ relays \in [Urls -> Conns \union {NoConn}] /\ conns \in [Conns -> ConnRecords]
        /\ reqs \in [Conns -> SUBSET Queries] /\ owed \in [Conns -> SUBSET Posts]
    BY DEF SharedInv, SimpleShape
  <1>2. conns[c].socket # "free"
    BY DEF SocketEnds, ConnectionTimeout, SharedInv, LinksInv, ConnsInUse
  <1>3. conns[c] \in ConnRecords /\ conns[c].url \in Urls
    BY <1>1, <1>2 DEF SharedInv, LinksInv, ConnsInUse
  <1>4. CASE SocketEnds(c)
    <2> DEFINE n == [FreeConn EXCEPT !.url = conns[c].url, !.socket = "closed"]
    <2>1. /\ n \in ConnRecords /\ n.url = conns[c].url /\ n.socket = "closed"
          /\ n.promise = "none" /\ n.pendingPublishes = [e \in SeenEvents |-> NoConn]
      BY <1>3 DEF FreeConn, ConnRecords
    <2>2. /\ conns' = [conns EXCEPT ![c] = n] /\ Reject(conns[c])
          /\ reqs' = [reqs EXCEPT ![c] = {}] /\ owed' = [owed EXCEPT ![c] = {}]
          /\ relays' = IF EnableReconnect THEN relays
                       ELSE [relays EXCEPT ![conns[c].url] = NoConn]
          /\ accepted' = accepted
      BY <1>4 DEF SocketEnds
    <2> HIDE DEF n
    <2>3. \A u \in Urls : relays[u] = c => u = conns[c].url
      BY DEF SharedInv, LinksInv, MapNamesHeldSockets, Held, SimpleAssumption
    <2>4. EnableReconnect \/ \A u \in Urls : relays'[u] # c
      BY <1>1, <1>3, <2>2, <2>3 DEF SimpleAssumption
    <2>5. /\ relays' \in [Urls -> Conns \union {NoConn}]
          /\ \A u \in Urls : relays'[u] \in {NoConn, relays[u]}
      BY <1>1, <1>3, <2>2
    <2>6. /\ conns' \in [Conns -> ConnRecords] /\ conns'[c] = n
          /\ \A d \in Conns \ {c} : conns'[d] = conns[d]
      BY <1>1, <2>1, <2>2
    <2>7. /\ reqs' \in [Conns -> SUBSET Queries] /\ \A d \in Conns : reqs'[d] \subseteq reqs[d]
          /\ owed' \in [Conns -> SUBSET Posts]
      BY <1>1, <2>2
    <2> QED
      BY <1>2, <2>1, <2>2, <2>4, <2>5, <2>6, <2>7 DEF GivesUp
  <1>5. CASE ConnectionTimeout(c)
    <2> DEFINE n == [conns[c] EXCEPT !.promise = "settled"]
    <2>1. /\ n \in ConnRecords /\ n.promise = "settled" /\ n.url = conns[c].url
          /\ n.socket = conns[c].socket /\ n.pendingPublishes = conns[c].pendingPublishes
      BY <1>3, SocketChange
    <2>2. /\ conns' = [conns EXCEPT ![c] = n] /\ Reject(conns[c])
          /\ UNCHANGED <<relays, reqs, owed, accepted>>
      BY <1>5 DEF ConnectionTimeout
    <2> HIDE DEF n
    <2>3. /\ conns' \in [Conns -> ConnRecords] /\ conns'[c] = n
          /\ \A d \in Conns \ {c} : conns'[d] = conns[d]
      BY <1>1, <2>1, <2>2
    <2> QED
      BY <1>1, <1>2, <2>1, <2>2, <2>3 DEF GivesUp
  <1> QED
    BY <1>4, <1>5

-----------------------------------------------------------------------------
(* Calls that need new connections                                           *)

\* The unused sockets cs become connections to different URLs that x awaits; the map may
\* name them under their URLs.
NewFor(x, cs) ==
    /\ cs \subseteq Conns /\ x \in Queries \union Posts
    /\ conns' \in [Conns -> ConnRecords] /\ reqs' \in [Conns -> SUBSET Queries]
    /\ \A c \in cs :
         /\ conns[c].socket = "free" /\ conns'[c].url \in Urls
         /\ conns'[c] = NewConn(conns'[c].url, x) /\ reqs'[c] = {}
    /\ \A c, d \in cs : conns'[c].url = conns'[d].url => c = d
    /\ \A c \in Conns \ cs :
         SameLink(conns[c], conns'[c]) /\ (conns[c].socket = "free" => reqs'[c] = reqs[c])
    /\ relays' \in [Urls -> Conns \union {NoConn}]
    /\ \A u \in Urls :
         \/ relays'[u] = relays[u]
         \/ relays'[u] \in cs /\ conns'[relays'[u]].url = u
    /\ UNCHANGED <<owed, accepted>>

\* The links stay right, and x awaits the new connections and nothing else does.
LEMMA NewForLinks ==
    ASSUME SharedInv, NEW x, NEW cs, NewFor(x, cs), NoConn \notin Conns \union Posts
    PROVE  /\ LinksInv'
           /\ \A c \in Conns, y \in Queries \union Posts :
                Awaits(c, y)' <=> IF c \in cs THEN y = x ELSE Awaits(c, y)
           /\ \A c \in cs : /\ \A e \in SeenEvents : conns'[c].pendingPublishes[e] = NoConn
                            /\ conns'[c].socket = "connecting" /\ reqs[c] = {}
  <1>1. /\ relays \in [Urls -> Conns \union {NoConn}] /\ conns \in [Conns -> ConnRecords]
        /\ LinksInv
    BY DEF SharedInv, SimpleShape
  <1>2. ASSUME NEW c \in cs
        PROVE  /\ conns'[c].socket = "connecting" /\ conns'[c].promise = "pending"
               /\ conns'[c].caller = x /\ reqs[c] = {} /\ reqs'[c] = {}
               /\ conns'[c].url \in Urls /\ conns[c].socket = "free" /\ c \in Conns
               /\ conns'[c].pendingPublishes = [e \in SeenEvents |-> NoConn]
    <2>1. /\ conns[c].socket = "free" /\ conns'[c].url \in Urls /\ reqs'[c] = {}
          /\ conns'[c] = NewConn(conns'[c].url, x) /\ x \in Queries \union Posts /\ c \in Conns
      BY DEF NewFor
    <2>u. PICK u \in Urls : u = conns'[c].url
      BY <2>1
    <2>2. /\ NewConn(u, x).socket = "connecting" /\ NewConn(u, x).promise = "pending"
          /\ NewConn(u, x).caller = x
          /\ NewConn(u, x).pendingPublishes = [e \in SeenEvents |-> NoConn]
      BY <2>1 DEF NewConn, FreeConn
    <2>3. reqs[c] = {}
      BY <1>1, <2>1 DEF LinksInv, ConnsInUse
    <2> QED
      BY <2>1, <2>u, <2>2, <2>3
  <1>3. ASSUME NEW c \in Conns \ cs
        PROVE  /\ SameLink(conns[c], conns'[c])
               /\ conns[c].socket = "free" => reqs'[c] = reqs[c]
    BY DEF NewFor
  <1>4. ConnsInUse'
    <2>1. ASSUME NEW c \in Conns
          PROVE  /\ conns'[c].socket = "free" => conns'[c].promise = "none" /\ reqs'[c] = {}
                 /\ conns'[c].socket # "free" => conns'[c].url \in Urls
                 /\ conns'[c].promise = "pending" => conns'[c].caller \in Queries \union Posts
      <3>1. CASE c \in cs
        BY <1>2, <3>1 DEF NewFor
      <3>2. CASE c \notin cs
        BY <1>1, <1>3, <3>2 DEF LinksInv, ConnsInUse, SameLink
      <3> QED
        BY <3>1, <3>2
    <2> QED
      BY <2>1 DEF ConnsInUse
  <1>5. MapIsOfUsed' /\ MapNamesHeldSockets'
    <2>1. ASSUME NEW u \in Urls, relays'[u] # NoConn
          PROVE  /\ conns'[relays'[u]].socket # "free" /\ conns'[relays'[u]].url = u
                 /\ ~EnableReconnect => conns'[relays'[u]].socket \in {"connecting", "open", "ending"}
      <3>1. CASE relays'[u] \in cs /\ conns'[relays'[u]].url = u
        BY <1>2, <3>1
      <3>2. CASE relays'[u] = relays[u]
        <4>1. /\ relays[u] \in Conns /\ conns[relays[u]].socket # "free"
              /\ conns[relays[u]].url = u
              /\ ~EnableReconnect => conns[relays[u]].socket \in {"connecting", "open", "ending"}
          BY <1>1, <2>1, <3>2 DEF LinksInv, MapIsOfUsed, MapNamesHeldSockets, Held
        <4>2. relays[u] \notin cs
          BY <1>2, <4>1
        <4> QED
          BY <1>3, <3>2, <4>1, <4>2 DEF SameLink
      <3> QED
        BY <3>1, <3>2 DEF NewFor
    <2> QED
      BY <2>1 DEF MapIsOfUsed, MapNamesHeldSockets, Held
  <1>6. ASSUME NEW c \in Conns, NEW y \in Queries \union Posts
        PROVE  Awaits(c, y)' <=> IF c \in cs THEN y = x ELSE Awaits(c, y)
    BY <1>2, <1>3 DEF Awaits, SameLink
  <1> QED
    BY <1>2, <1>4, <1>5, <1>6 DEF LinksInv

\* subscribe begins with one attempt at each relay: its connection, or a new one.
LEMMA SubscribeSafe ==
    ASSUME SimpleAssumption, SharedInv, NEW q \in Queries, Subscribe(q)
    PROVE  SharedInv'
  <1> DEFINE ready == {u \in QueryUrls[q] : Usable(u)}
             reached == {relays[u] : u \in ready}
             missing == QueryUrls[q] \ ready
             free == {c \in Conns : conns[c].socket = "free"}
  <1>1. /\ relays \in [Urls -> Conns \union {NoConn}] /\ conns \in [Conns -> ConnRecords]
        /\ queries \in [Queries -> QueryRecords] /\ posts \in [Posts -> PostRecords]
        /\ reqs \in [Conns -> SUBSET Queries] /\ LinksInv
    BY DEF SharedInv, SimpleShape
  <1>2. PICK new \in [missing -> free] :
          /\ \A u, w \in missing : new[u] = new[w] => u = w
          /\ conns' = [c \in Conns |->
               IF c \in reached THEN [conns[c] EXCEPT !.subs = @ \union {q}]
               ELSE IF \E u \in missing : new[u] = c
               THEN NewConn(CHOOSE u \in missing : new[u] = c, q)
               ELSE conns[c]]
          /\ relays' = [u \in Urls |-> IF u \in missing THEN new[u] ELSE relays[u]]
    BY DEF Subscribe
  <1>3. /\ queries[q].step = "idle"
        /\ reqs' = [c \in Conns |->
                       IF c \in reached THEN reqs[c] \union Sent(conns[c], q) ELSE reqs[c]]
        /\ queries' = [queries EXCEPT ![q].step = "open"]
        /\ UNCHANGED <<posts, owed, accepted>>
    BY DEF Subscribe
  <1> DEFINE cs == {new[u] : u \in missing}
  <1>4. QueryUrls[q] \subseteq Urls /\ NoConn \notin Conns \union Posts /\ q \notin Posts
    BY DEF SimpleAssumption
  <1>5. /\ \A c \in reached : c \in Conns /\ conns[c].url \in ready /\ conns[c].socket # "free"
        /\ missing \subseteq Urls /\ ready \intersect missing = {}
        /\ \A u \in missing : new[u] \in Conns /\ conns[new[u]].socket = "free"
        /\ cs \subseteq Conns
    <2>1. ASSUME NEW u \in ready
          PROVE  relays[u] \in Conns /\ conns[relays[u]].url = u /\ conns[relays[u]].socket # "free"
      <3>1. u \in Urls /\ relays[u] # NoConn
        BY <1>4 DEF Usable
      <3> QED
        BY <1>1, <3>1 DEF LinksInv, MapIsOfUsed, MapNamesHeldSockets, Held
    <2> QED
      BY <1>4, <2>1
  <1>6. \A c \in Conns : c \in cs <=> \E u \in missing : new[u] = c
    OBVIOUS
  <1> HIDE DEF ready, reached, missing, free, cs
  <1>7. ASSUME NEW u \in missing
        PROVE  conns'[new[u]] = NewConn(u, q)
    <2>1. new[u] \in Conns /\ new[u] \notin reached
      BY <1>5
    <2>2. (CHOOSE w \in missing : new[w] = new[u]) = u
      BY <1>2
    <2> QED
      BY <1>2, <2>1, <2>2
  <1>8. ASSUME NEW c \in cs
        PROVE  /\ c \in Conns /\ conns[c].socket = "free" /\ c \notin reached
               /\ conns'[c].url \in missing /\ new[conns'[c].url] = c
               /\ conns'[c] = NewConn(conns'[c].url, q) /\ conns'[c] \in ConnRecords
    <2>1. PICK u \in missing : new[u] = c
      BY <1>5, <1>6
    <2>2. conns'[c] = NewConn(u, q)
      BY <1>7, <2>1
    <2>3. u \in Urls
      BY <1>5
    <2>4. NewConn(u, q) \in ConnRecords /\ NewConn(u, q).url = u
      BY <2>3, FreshConn
    <2> QED
      BY <1>5, <2>1, <2>2, <2>4
  <1>9. ASSUME NEW c \in Conns, c \notin cs
        PROVE  conns'[c] \in ConnRecords /\ SameLink(conns[c], conns'[c])
    <2> DEFINE n == [conns[c] EXCEPT !.subs = conns[c].subs \union {q}]
    <2>1. conns[c] \in ConnRecords /\ conns[c].subs \union {q} \in SUBSET Queries
      BY <1>1 DEF ConnRecords
    <2>2. n \in ConnRecords /\ SameLink(conns[c], n)
      BY <2>1, SubsChange
    <2>3. conns'[c] = n \/ conns'[c] = conns[c]
      BY <1>2, <1>6, <1>9
    <2> HIDE DEF n
    <2> QED
      BY <2>1, <2>2, <2>3 DEF SameLink
  <1>s. \A c \in Conns : Sent(conns[c], q) \subseteq {q}
    BY DEF Sent
  <1>10. reqs' \in [Conns -> SUBSET Queries]
    BY <1>1, <1>3, <1>s
  <1>r. \A c \in reached : reqs[c] \union Sent(conns[c], q) \in {reqs[c], reqs[c] \union {q}}
    BY <1>5 DEF Sent
  <1>11. /\ \A c \in reached : reqs'[c] \in {reqs[c], reqs[c] \union {q}}
         /\ \A c \in Conns \ reached : reqs'[c] = reqs[c]
    BY <1>3, <1>5, <1>r
  <1>12. \A c \in cs : reqs[c] = {}
    BY <1>1, <1>8 DEF LinksInv, ConnsInUse
  <1>13. conns' \in [Conns -> ConnRecords]
    BY <1>2, <1>8, <1>9
  <1>14. /\ relays' \in [Urls -> Conns \union {NoConn}]
         /\ \A u \in missing : relays'[u] = new[u]
         /\ \A u \in Urls \ missing : relays'[u] = relays[u]
    BY <1>1, <1>2, <1>5
  <1>15. \A u \in missing : new[u] \in cs /\ conns'[new[u]].url = u
    <2>1. ASSUME NEW u \in missing
          PROVE  new[u] \in cs /\ conns'[new[u]].url = u
      <3>1. new[u] \in cs
        BY <1>5, <1>6
      <3>2. PICK w \in missing : w = conns'[new[u]].url /\ new[w] = new[u]
        BY <1>8, <3>1
      <3>3. w = u
        BY <1>2, <3>2
      <3> QED
        BY <3>1, <3>2, <3>3
    <2> QED
      BY <2>1
  <1>16. NewFor(q, cs)
    BY <1>3, <1>5, <1>8, <1>9, <1>10, <1>11, <1>12, <1>13, <1>14, <1>15 DEF NewFor
  <1>17. /\ LinksInv'
         /\ \A c \in Conns, y \in Queries \union Posts :
              Awaits(c, y)' <=> IF c \in cs THEN y = q ELSE Awaits(c, y)
         /\ \A c \in cs : \A e \in SeenEvents : conns'[c].pendingPublishes[e] = NoConn
    BY <1>4, <1>16, NewForLinks
  <1>18. /\ queries' \in [Queries -> QueryRecords] /\ queries'[q].step = "open"
         /\ queries'[q].eoses = queries[q].eoses /\ queries'[q].closes = queries[q].closes
         /\ \A y \in Queries \ {q} : queries'[y] = queries[y]
    <2> DEFINE n == [queries[q] EXCEPT !.step = "open"]
    <2>1. /\ n \in QueryRecords /\ n.step = "open" /\ n.eoses = queries[q].eoses
          /\ n.closes = queries[q].closes
      BY <1>1 DEF QueryRecords
    <2>2. queries' = [queries EXCEPT ![q] = n]
      BY <1>3
    <2> HIDE DEF n
    <2> QED
      BY <1>1, <2>1, <2>2
  <1>19. /\ queries[q].eoses = {} /\ queries[q].closes = {}
         /\ \A c \in Conns : ~Awaits(c, q) /\ q \notin reqs[c]
    BY <1>3 DEF SharedInv, AttemptsInv, AttemptsSettle
  <1>20. \A c \in Conns \ cs : conns'[c].url = conns[c].url
    BY <1>9 DEF SameLink
  <1>21. OneAttempt'
    <2>1. ASSUME NEW y \in Queries, NEW c \in Conns, NEW d \in Conns, Awaits(c, y)',
                 conns'[d].url = conns'[c].url
          PROVE  y \notin reqs'[d] /\ (Awaits(d, y)' => d = c)
      <3>1. CASE y = q
        <4>1. c \in cs
          BY <1>17, <1>19, <2>1, <3>1
        <4>2. d \notin reached
          <5>1. conns'[d].url \in missing
            BY <1>8, <2>1, <4>1
          <5>2. ASSUME d \in reached PROVE FALSE
            <6>1. d \notin cs
              BY <1>8, <5>2
            <6>2. conns'[d].url \in ready
              BY <1>5, <1>20, <5>2, <6>1
            <6> QED
              BY <1>5, <5>1, <6>2
          <5> QED
            BY <5>2
        <4>3. q \notin reqs'[d]
          BY <1>11, <1>19, <4>2
        <4>4. Awaits(d, q)' => d = c
          <5>1. ASSUME d \in cs PROVE d = c
            BY <1>8, <2>1, <4>1, <5>1
          <5> QED
            BY <1>17, <1>19, <5>1
        <4> QED
          BY <3>1, <4>3, <4>4
      <3>2. CASE y # q
        <4>1. c \notin cs /\ Awaits(c, y)
          BY <1>17, <2>1, <3>2
        <4>2. y \in reqs'[d] => y \in reqs[d] /\ d \notin cs
          BY <1>11, <1>12, <1>8, <3>2
        <4>3. d \notin cs => conns[d].url = conns[c].url
          BY <1>20, <2>1, <4>1
        <4>4. Awaits(d, y)' => d \notin cs /\ Awaits(d, y)
          BY <1>17, <3>2
        <4> QED
          BY <4>1, <4>2, <4>3, <4>4 DEF SharedInv, AttemptsInv, OneAttempt
      <3> QED
        BY <3>1, <3>2
    <2> QED
      BY <2>1 DEF OneAttempt
  <1>22. AttemptsSettle'
    <2>1. ASSUME NEW y \in Queries
          PROVE  /\ queries'[y].step = "idle" => queries'[y].eoses = {} /\ queries'[y].closes = {}
                 /\ \A c \in Conns :
                      /\ queries'[y].step = "idle" \/ conns'[c].url \in queries'[y].closes =>
                             ~Awaits(c, y)' /\ y \notin reqs'[c]
                      /\ conns'[c].url \in queries'[y].eoses => ~Awaits(c, y)'
      <3>1. CASE y = q
        BY <1>18, <1>19, <3>1
      <3>2. CASE y # q
        <4>1. /\ queries[y].step = "idle" => queries[y].eoses = {} /\ queries[y].closes = {}
              /\ \A c \in Conns :
                   /\ queries[y].step = "idle" \/ conns[c].url \in queries[y].closes =>
                          ~Awaits(c, y) /\ y \notin reqs[c]
                   /\ conns[c].url \in queries[y].eoses => ~Awaits(c, y)
          BY DEF SharedInv, AttemptsInv, AttemptsSettle
        <4>2. queries'[y] = queries[y]
          BY <1>18, <3>2
        <4>3. \A c \in cs : ~Awaits(c, y)' /\ y \notin reqs'[c]
          BY <1>8, <1>11, <1>12, <1>17, <3>2
        <4>4. \A c \in Conns \ cs : (Awaits(c, y)' <=> Awaits(c, y)) /\ (y \in reqs'[c] <=> y \in reqs[c])
          BY <1>11, <1>17, <3>2
        <4> QED
          BY <1>20, <4>1, <4>2, <4>3, <4>4
      <3> QED
        BY <3>1, <3>2
    <2> QED
      BY <2>1 DEF AttemptsSettle
  <1>23. FailedOrEosed'
    BY <1>18 DEF SharedInv, AttemptsInv, FailedOrEosed
  <1>24. PostsInv'
    <2>1. PostsAwaitOne'
      <3>1. \A c \in Conns, p \in Posts : Awaits(c, p)' => c \notin cs /\ Awaits(c, p)
        BY <1>4, <1>17
      <3> QED
        BY <1>3, <1>20, <3>1 DEF SharedInv, PostsInv, PostsAwaitOne
    <2>2. SentToItsRelay'
      <3>1. \A c \in Conns : conns[c].socket # "free" =>
              conns'[c].socket = conns[c].socket /\ conns'[c].url = conns[c].url
        BY <1>8, <1>9 DEF SameLink
      <3> QED
        BY <1>3, <3>1 DEF SharedInv, PostsInv, SentToItsRelay
    <2>3. ResolversWait'
      <3>1. \A c \in Conns, e \in SeenEvents :
              conns'[c].pendingPublishes[e] # NoConn =>
                conns'[c].pendingPublishes[e] = conns[c].pendingPublishes[e]
        BY <1>9, <1>17 DEF SameLink
      <3> QED
        BY <1>3, <3>1 DEF SharedInv, PostsInv, ResolversWait
    <2>4. ResolvedWasAccepted'
      BY <1>3 DEF SharedInv, PostsInv, ResolvedWasAccepted
    <2> QED
      BY <2>1, <2>2, <2>3, <2>4 DEF PostsInv
  <1>25. SimpleShape'
    BY <1>3, <1>10, <1>13, <1>14, <1>18 DEF SharedInv, SimpleShape
  <1> QED
    BY <1>17, <1>21, <1>22, <1>23, <1>24, <1>25 DEF SharedInv, AttemptsInv

\* A publish whose relay has no usable connection waits for a new one.
LEMMA ConnectToPublish ==
    ASSUME SimpleAssumption, SharedInv, NEW p \in Posts, Publish(p), ~Usable(PostUrl[p])
    PROVE  SharedInv'
  <1> DEFINE u == PostUrl[p]
  <1>1. /\ relays \in [Urls -> Conns \union {NoConn}] /\ conns \in [Conns -> ConnRecords]
        /\ queries \in [Queries -> QueryRecords] /\ posts \in [Posts -> PostRecords]
        /\ reqs \in [Conns -> SUBSET Queries] /\ LinksInv
    BY DEF SharedInv, SimpleShape
  <1>2. u \in Urls /\ NoConn \notin Conns \union Posts /\ Queries \intersect Posts = {}
    BY DEF SimpleAssumption
  <1>3. PICK c \in Conns :
          /\ conns[c].socket = "free"
          /\ conns' = [conns EXCEPT ![c] = NewConn(u, p)]
          /\ relays' = [relays EXCEPT ![u] = c]
          /\ posts' = [posts EXCEPT ![p].step = "connecting"]
          /\ posts[p].step = "idle"
          /\ UNCHANGED <<queries, reqs, owed, accepted>>
    BY DEF Publish
  <1>4. NewConn(u, p) \in ConnRecords /\ NewConn(u, p).url = u
    BY <1>2, FreshConn
  <1> HIDE DEF u
  <1>5. conns'[c] = NewConn(u, p) /\ \A d \in Conns \ {c} : conns'[d] = conns[d]
    BY <1>1, <1>3
  <1>6. conns' \in [Conns -> ConnRecords]
    BY <1>1, <1>3, <1>4
  <1>7. reqs[c] = {}
    BY <1>1, <1>3 DEF LinksInv, ConnsInUse
  <1>8. /\ relays' \in [Urls -> Conns \union {NoConn}] /\ relays'[u] = c
        /\ \A w \in Urls \ {u} : relays'[w] = relays[w]
    BY <1>1, <1>2, <1>3
  <1>9. NewFor(p, {c})
    BY <1>1, <1>2, <1>3, <1>4, <1>5, <1>6, <1>7, <1>8 DEF NewFor, SameLink
  <1>10. /\ LinksInv'
         /\ \A d \in Conns, y \in Queries \union Posts :
              Awaits(d, y)' <=> IF d = c THEN y = p ELSE Awaits(d, y)
         /\ \A e \in SeenEvents : conns'[c].pendingPublishes[e] = NoConn
    BY <1>2, <1>9, NewForLinks
  <1>11. /\ posts' \in [Posts -> PostRecords] /\ posts'[p].step = "connecting"
         /\ \A x \in Posts \ {p} : posts'[x] = posts[x]
    <2> DEFINE n == [posts[p] EXCEPT !.step = "connecting"]
    <2>1. n \in PostRecords /\ n.step = "connecting"
      BY <1>1 DEF PostRecords
    <2>2. posts' = [posts EXCEPT ![p] = n]
      BY <1>3
    <2> HIDE DEF n
    <2> QED
      BY <1>1, <2>1, <2>2
  <1>12. OneAttempt'
    <2>1. ASSUME NEW y \in Queries, NEW a \in Conns, NEW d \in Conns, Awaits(a, y)',
                 conns'[d].url = conns'[a].url
          PROVE  y \notin reqs'[d] /\ (Awaits(d, y)' => d = a)
      <3>1. a # c /\ Awaits(a, y)
        BY <1>2, <1>10, <2>1
      <3>2. CASE d = c
        BY <1>2, <1>3, <1>7, <1>10, <3>2
      <3>3. CASE d # c
        BY <1>2, <1>3, <1>5, <1>10, <2>1, <3>1, <3>3 DEF SharedInv, AttemptsInv, OneAttempt
      <3> QED
        BY <3>2, <3>3
    <2> QED
      BY <2>1 DEF OneAttempt
  <1>13. AttemptsSettle' /\ FailedOrEosed'
    <2>1. \A y \in Queries, d \in Conns : Awaits(d, y)' => d # c /\ Awaits(d, y)
      BY <1>2, <1>10
    <2>2. AttemptsSettle'
      BY <1>3, <1>5, <1>7, <2>1 DEF SharedInv, AttemptsInv, AttemptsSettle
    <2>3. FailedOrEosed'
      BY <1>3 DEF SharedInv, AttemptsInv, FailedOrEosed
    <2> QED
      BY <2>2, <2>3
  <1>14. PostsInv'
    <2>1. PostsAwaitOne'
      <3>1. \A d \in Conns : ~Awaits(d, p)
        BY <1>3 DEF SharedInv, PostsInv, PostsAwaitOne
      <3>2. ASSUME NEW x \in Posts, NEW d \in Conns, Awaits(d, x)'
            PROVE  /\ posts'[x].step = "connecting" /\ conns'[d].url = PostUrl[x]
                   /\ \A b \in Conns : Awaits(b, x)' => b = d
        <4>1. CASE x = p
          BY <1>4, <1>5, <1>10, <1>11, <3>1, <3>2, <4>1 DEF u
        <4>2. CASE x # p
          BY <1>5, <1>10, <1>11, <3>2, <4>2 DEF SharedInv, PostsInv, PostsAwaitOne
        <4> QED
          BY <4>1, <4>2
      <3> QED
        BY <3>2 DEF PostsAwaitOne
    <2>2. SentToItsRelay' /\ ResolvedWasAccepted'
      BY <1>3, <1>5, <1>11 DEF SharedInv, PostsInv, SentToItsRelay, ResolvedWasAccepted
    <2>3. ResolversWait'
      <3>1. \A d \in Conns, e \in SeenEvents :
              conns'[d].pendingPublishes[e] # NoConn =>
                conns'[d].pendingPublishes[e] = conns[d].pendingPublishes[e]
        BY <1>5, <1>10
      <3>2. \A d \in Conns, e \in SeenEvents :
              conns[d].pendingPublishes[e] # NoConn =>
                /\ conns[d].pendingPublishes[e] \in Posts
                /\ posts[conns[d].pendingPublishes[e]] = [step |-> "sent", on |-> d]
                /\ PostEvent[conns[d].pendingPublishes[e]] = e
        <4>1. \A d \in Conns, e \in SeenEvents :
                conns[d].pendingPublishes[e] \in Posts \union {NoConn}
          BY <1>1 DEF ConnRecords
        <4> QED
          BY <4>1 DEF SharedInv, PostsInv, ResolversWait
      <3>3. posts[p] # [step |-> "sent", on |-> c] /\ \A d \in Conns : posts[p] # [step |-> "sent", on |-> d]
        BY <1>3
      <3> QED
        BY <1>11, <3>1, <3>2, <3>3 DEF ResolversWait
    <2> QED
      BY <2>1, <2>2, <2>3 DEF PostsInv
  <1>15. SimpleShape'
    BY <1>3, <1>6, <1>8, <1>11 DEF SharedInv, SimpleShape
  <1> QED
    BY <1>10, <1>12, <1>13, <1>14, <1>15 DEF SharedInv, AttemptsInv

-----------------------------------------------------------------------------
(* Publishes that are sent, and sockets that open                            *)

\* A publish that has not been sent yet is sent to its relay on connection c, and awaits
\* no connection any more.
LEMMA SendSafe ==
    ASSUME SharedInv, NEW p \in Posts, NEW c \in Conns,
           posts[p].step \in {"idle", "connecting"}, conns[c].url = PostUrl[p],
           conns[c].socket # "free", NoConn \notin Posts,
           posts' = [posts EXCEPT ![p] = [step |-> "sent", on |-> c]], accepted' = accepted,
           \A d \in Conns :
             /\ conns'[d].url = conns[d].url
             /\ conns[d].socket # "free" => conns'[d].socket # "free"
             /\ ~Awaits(d, p)'
             /\ \A x \in Posts : Awaits(d, x)' => Awaits(d, x)
             /\ \A e \in SeenEvents :
                  conns'[d].pendingPublishes[e] =
                      IF d = c /\ e = PostEvent[p] THEN p ELSE conns[d].pendingPublishes[e]
    PROVE  posts' \in [Posts -> PostRecords] /\ PostsInv'
  <1>1. /\ conns \in [Conns -> ConnRecords] /\ posts \in [Posts -> PostRecords]
        /\ PostsAwaitOne /\ SentToItsRelay /\ ResolversWait /\ ResolvedWasAccepted
    BY DEF SharedInv, SimpleShape, PostsInv
  <1>2. [step |-> "sent", on |-> c] \in PostRecords
    BY DEF PostRecords
  <1>3. /\ posts'[p] = [step |-> "sent", on |-> c]
        /\ \A x \in Posts \ {p} : posts'[x] = posts[x]
    BY <1>1
  <1>4. PostsAwaitOne'
    BY <1>1, <1>3 DEF PostsAwaitOne
  <1>5. SentToItsRelay'
    BY <1>1, <1>3 DEF SentToItsRelay
  <1>6. ResolversWait'
    <2>1. ASSUME NEW d \in Conns, NEW e \in SeenEvents,
                 conns'[d].pendingPublishes[e] # NoConn
          PROVE  /\ posts'[conns'[d].pendingPublishes[e]] = [step |-> "sent", on |-> d]
                 /\ PostEvent[conns'[d].pendingPublishes[e]] = e
      <3>1. CASE d = c /\ e = PostEvent[p]
        BY <1>3, <3>1
      <3>2. CASE ~(d = c /\ e = PostEvent[p])
        <4>1. conns'[d].pendingPublishes[e] = conns[d].pendingPublishes[e]
          BY <3>2
        <4>2. conns[d] \in ConnRecords
          BY <1>1
        <4>3. PICK x \in Posts : x = conns[d].pendingPublishes[e]
          BY <2>1, <4>1, <4>2 DEF ConnRecords
        <4>4. posts[x] = [step |-> "sent", on |-> d] /\ PostEvent[x] = e
          BY <1>1, <2>1, <4>1, <4>3 DEF ResolversWait
        <4>5. x # p
          BY <4>4
        <4> QED
          BY <1>3, <4>1, <4>3, <4>4, <4>5
      <3> QED
        BY <3>1, <3>2
    <2> QED
      BY <2>1 DEF ResolversWait
  <1>7. ResolvedWasAccepted'
    BY <1>1, <1>3 DEF ResolvedWasAccepted
  <1> QED
    BY <1>1, <1>2, <1>4, <1>5, <1>6, <1>7 DEF PostsInv

\* A publish whose relay is connected sends its EVENT at once.
LEMMA SendAtOnce ==
    ASSUME SimpleAssumption, SharedInv, NEW p \in Posts, Publish(p), Usable(PostUrl[p])
    PROVE  SharedInv'
  <1>1. /\ relays \in [Urls -> Conns \union {NoConn}] /\ conns \in [Conns -> ConnRecords]
        /\ queries \in [Queries -> QueryRecords] /\ posts \in [Posts -> PostRecords]
        /\ reqs \in [Conns -> SUBSET Queries] /\ owed \in [Conns -> SUBSET Posts] /\ LinksInv
    BY DEF SharedInv, SimpleShape
  <1>2. /\ PostUrl[p] \in Urls /\ PostEvent[p] \in SeenEvents /\ p \notin Queries
        /\ NoConn \notin Posts
    BY DEF SimpleAssumption
  <1>3. PICK c \in Conns : c = relays[PostUrl[p]]
    BY <1>1, <1>2 DEF Usable
  <1>4. conns[c].url = PostUrl[p] /\ conns[c].socket # "free"
    BY <1>1, <1>2, <1>3 DEF Usable, LinksInv, MapIsOfUsed, MapNamesHeldSockets, Held
  <1> DEFINE n == [conns[c] EXCEPT !.pendingPublishes[PostEvent[p]] = p]
  <1>5. /\ posts[p].step = "idle"
        /\ conns' = [conns EXCEPT ![c] = n]
        /\ posts' = [posts EXCEPT ![p] = [step |-> "sent", on |-> c]]
        /\ owed' = [owed EXCEPT ![c] = owed[c] \union Sent(conns[c], p)]
        /\ UNCHANGED <<relays, queries, reqs, accepted>>
    BY <1>2, <1>3 DEF Publish, Proceed
  <1>6. conns[c] \in ConnRecords
    BY <1>1
  <1>7. /\ n \in ConnRecords /\ n.url = conns[c].url /\ n.socket = conns[c].socket
        /\ n.promise = conns[c].promise /\ n.caller = conns[c].caller
        /\ \A x \in SeenEvents : n.pendingPublishes[x] =
             IF x = PostEvent[p] THEN p ELSE conns[c].pendingPublishes[x]
    BY <1>2, <1>6, ResolverChange
  <1> HIDE DEF n
  <1>8. /\ conns' \in [Conns -> ConnRecords] /\ conns'[c] = n
        /\ \A d \in Conns \ {c} : conns'[d] = conns[d]
    BY <1>1, <1>5, <1>7
  <1>9. ASSUME NEW d \in Conns
        PROVE  /\ conns'[d].url = conns[d].url /\ conns'[d].socket = conns[d].socket
               /\ conns'[d].promise = conns[d].promise /\ conns'[d].caller = conns[d].caller
               /\ \A e \in SeenEvents :
                    conns'[d].pendingPublishes[e] =
                        IF d = c /\ e = PostEvent[p] THEN p ELSE conns[d].pendingPublishes[e]
    <2>1. CASE d = c
      BY <1>7, <1>8, <2>1
    <2>2. CASE d # c
      BY <1>8, <2>2
    <2> QED
      BY <2>1, <2>2
  <1>10. \A d \in Conns, y \in Queries \union Posts : Awaits(d, y)' <=> Awaits(d, y)
    BY <1>9 DEF Awaits
  <1>11. \A d \in Conns : ~Awaits(d, p)
    BY <1>5 DEF SharedInv, PostsInv, PostsAwaitOne
  <1>12. posts' \in [Posts -> PostRecords] /\ PostsInv'
    <2>1. \A d \in Conns :
            /\ conns'[d].url = conns[d].url
            /\ conns[d].socket # "free" => conns'[d].socket # "free"
            /\ ~Awaits(d, p)'
            /\ \A x \in Posts : Awaits(d, x)' => Awaits(d, x)
            /\ \A e \in SeenEvents :
                 conns'[d].pendingPublishes[e] =
                     IF d = c /\ e = PostEvent[p] THEN p ELSE conns[d].pendingPublishes[e]
      BY <1>9, <1>10, <1>11
    <2>2. posts[p].step \in {"idle", "connecting"}
      BY <1>5
    <2> QED
      BY <1>2, <1>4, <1>5, <2>1, <2>2, SendSafe
  <1>13. LinksInv'
    <2>1. ConnsInUse'
      BY <1>1, <1>5, <1>9 DEF LinksInv, ConnsInUse
    <2>2. MapIsOfUsed' /\ MapNamesHeldSockets'
      BY <1>1, <1>5, <1>9 DEF LinksInv, MapIsOfUsed, MapNamesHeldSockets, Held
    <2> QED
      BY <2>1, <2>2 DEF LinksInv
  <1>14. AttemptsInv'
    <2>1. OneAttempt'
      BY <1>5, <1>9, <1>10 DEF SharedInv, AttemptsInv, OneAttempt
    <2>2. AttemptsSettle' /\ FailedOrEosed'
      BY <1>5, <1>9, <1>10 DEF SharedInv, AttemptsInv, AttemptsSettle, FailedOrEosed
    <2> QED
      BY <2>1, <2>2 DEF AttemptsInv
  <1>15. owed' \in [Conns -> SUBSET Posts]
    BY <1>1, <1>5 DEF Sent
  <1>16. SimpleShape'
    BY <1>5, <1>8, <1>12, <1>15 DEF SharedInv, SimpleShape
  <1> QED
    BY <1>12, <1>13, <1>14, <1>16 DEF SharedInv

\* onopen: whoever waited for the connection goes on, unless its timer has given it up.
LEMMA OpensSafe ==
    ASSUME SimpleAssumption, SharedInv, NEW c \in Conns, Opens(c)
    PROVE  SharedInv'
  <1> DEFINE k == [conns[c] EXCEPT !.socket = "open", !.connected = TRUE, !.promise = "settled"]
  <1>1. /\ relays \in [Urls -> Conns \union {NoConn}] /\ conns \in [Conns -> ConnRecords]
        /\ queries \in [Queries -> QueryRecords] /\ posts \in [Posts -> PostRecords]
        /\ reqs \in [Conns -> SUBSET Queries] /\ owed \in [Conns -> SUBSET Posts] /\ LinksInv
    BY DEF SharedInv, SimpleShape
  <1>2. NoConn \notin Conns \union Posts /\ Queries \intersect Posts = {}
    BY DEF SimpleAssumption
  <1>3. /\ conns[c].socket = "connecting"
        /\ relays' = [relays EXCEPT ![conns[c].url] = c]
        /\ IF conns[c].promise = "pending" THEN Proceed(c, k, k.caller)
           ELSE conns' = [conns EXCEPT ![c] = k] /\ UNCHANGED <<posts, reqs, owed>>
        /\ UNCHANGED <<queries, accepted>>
    BY DEF Opens
  <1>4. conns[c] \in ConnRecords
    BY <1>1
  <1>5. /\ k \in ConnRecords /\ k.socket = "open" /\ k.promise = "settled"
        /\ k.url = conns[c].url /\ k.caller = conns[c].caller
        /\ k.pendingPublishes = conns[c].pendingPublishes
    BY <1>4, SocketChange
  <1>6. conns[c].url \in Urls /\ (conns[c].promise = "pending" => conns[c].caller \in Queries \union Posts)
    BY <1>1, <1>3 DEF LinksInv, ConnsInUse
  <1> HIDE DEF k
  <1>7. /\ relays' \in [Urls -> Conns \union {NoConn}] /\ relays'[conns[c].url] = c
        /\ \A u \in Urls \ {conns[c].url} : relays'[u] = relays[u]
    BY <1>1, <1>3, <1>6
  \* What the three cases share.
  <1>8. ASSUME NEW n \in ConnRecords, conns' = [conns EXCEPT ![c] = n],
               n.socket = "open", n.promise = "settled", n.url = conns[c].url,
               reqs' \in [Conns -> SUBSET Queries],
               \A d \in Conns \ {c} : reqs'[d] = reqs[d]
        PROVE  /\ conns' \in [Conns -> ConnRecords] /\ LinksInv'
               /\ conns'[c] = n /\ \A d \in Conns \ {c} : conns'[d] = conns[d]
               /\ \A d \in Conns : conns'[d].url = conns[d].url
               /\ \A d \in Conns : conns[d].socket # "free" => conns'[d].socket # "free"
               /\ \A d \in Conns, x \in Queries \union Posts :
                    Awaits(d, x)' <=> d # c /\ Awaits(d, x)
    <2>1. /\ conns' \in [Conns -> ConnRecords] /\ conns'[c] = n
          /\ \A d \in Conns \ {c} : conns'[d] = conns[d]
      BY <1>1, <1>8
    <2>2. ConnsInUse'
      BY <1>1, <1>6, <1>8, <2>1 DEF LinksInv, ConnsInUse
    <2>3. ASSUME NEW u \in Urls, relays'[u] # NoConn
          PROVE  /\ conns'[relays'[u]].socket # "free" /\ conns'[relays'[u]].url = u
                 /\ ~EnableReconnect => conns'[relays'[u]].socket \in {"connecting", "open", "ending"}
      <3>1. CASE relays'[u] = c
        <4>1. u = conns[c].url
          BY <1>1, <1>2, <1>7, <3>1 DEF LinksInv, MapNamesHeldSockets, Held
        <4> QED
          BY <1>8, <2>1, <3>1, <4>1
      <3>2. CASE relays'[u] # c
        <4>1. u # conns[c].url /\ relays'[u] = relays[u] /\ relays[u] \in Conns \ {c}
          BY <1>1, <1>7, <2>3, <3>2
        <4> QED
          BY <1>1, <2>1, <2>3, <4>1 DEF LinksInv, MapIsOfUsed, MapNamesHeldSockets, Held
      <3> QED
        BY <3>1, <3>2
    <2>4. LinksInv'
      BY <2>2, <2>3 DEF LinksInv, MapIsOfUsed, MapNamesHeldSockets, Held
    <2>5. \A d \in Conns, x \in Queries \union Posts : Awaits(d, x)' <=> d # c /\ Awaits(d, x)
      BY <1>8, <2>1 DEF Awaits
    <2> QED
      BY <1>8, <2>1, <2>4, <2>5
  <1>9. ASSUME NEW n \in ConnRecords, conns' = [conns EXCEPT ![c] = n],
               n.socket = "open", n.promise = "settled", n.url = conns[c].url, reqs' = reqs
        PROVE  AttemptsInv'
    <2>1. /\ \A d \in Conns : conns'[d].url = conns[d].url
          /\ \A d \in Conns, x \in Queries \union Posts : Awaits(d, x)' <=> d # c /\ Awaits(d, x)
      BY <1>1, <1>8, <1>9
    <2>2. OneAttempt'
      BY <1>9, <2>1 DEF SharedInv, AttemptsInv, OneAttempt
    <2>3. AttemptsSettle' /\ FailedOrEosed'
      BY <1>3, <1>9, <2>1 DEF SharedInv, AttemptsInv, AttemptsSettle, FailedOrEosed
    <2> QED
      BY <2>2, <2>3 DEF AttemptsInv
  <1>10. ASSUME NEW n \in ConnRecords, conns' = [conns EXCEPT ![c] = n],
                n.socket = "open", n.promise = "settled", n.url = conns[c].url,
                n.pendingPublishes = conns[c].pendingPublishes, posts' = posts,
                reqs' \in [Conns -> SUBSET Queries], \A d \in Conns \ {c} : reqs'[d] = reqs[d]
         PROVE  PostsInv'
    <2>1. /\ \A d \in Conns : conns'[d].url = conns[d].url
          /\ \A d \in Conns : conns'[d].pendingPublishes = conns[d].pendingPublishes
          /\ \A d \in Conns : conns[d].socket # "free" => conns'[d].socket # "free"
          /\ \A d \in Conns, x \in Queries \union Posts : Awaits(d, x)' <=> d # c /\ Awaits(d, x)
      BY <1>8, <1>10
    <2>2. PostsAwaitOne' /\ SentToItsRelay'
      BY <1>10, <2>1 DEF SharedInv, PostsInv, PostsAwaitOne, SentToItsRelay
    <2>3. ResolversWait' /\ ResolvedWasAccepted'
      BY <1>3, <1>10, <2>1 DEF SharedInv, PostsInv, ResolversWait, ResolvedWasAccepted
    <2> QED
      BY <2>2, <2>3 DEF PostsInv
  <1>11. CASE conns[c].promise # "pending"
    <2>1. conns' = [conns EXCEPT ![c] = k] /\ UNCHANGED <<posts, reqs, owed>>
      BY <1>3, <1>11
    <2>2. conns' \in [Conns -> ConnRecords] /\ LinksInv'
      BY <1>1, <1>5, <1>8, <2>1
    <2>3. AttemptsInv'
      BY <1>5, <1>9, <2>1
    <2>4. PostsInv'
      BY <1>1, <1>5, <1>10, <2>1
    <2> QED
      BY <1>3, <1>7, <2>1, <2>2, <2>3, <2>4 DEF SharedInv, SimpleShape
  <1>12. ASSUME NEW q \in Queries, conns[c].promise = "pending", conns[c].caller = q
         PROVE  SharedInv'
    <2> DEFINE n == [k EXCEPT !.subs = k.subs \union {q}]
    <2>1. /\ conns' = [conns EXCEPT ![c] = n] /\ reqs' = [reqs EXCEPT ![c] = reqs[c] \union {q}]
          /\ UNCHANGED <<posts, owed>>
      BY <1>3, <1>5, <1>12 DEF Proceed, Sent
    <2>2. k.subs \union {q} \in SUBSET Queries
      BY <1>5 DEF ConnRecords
    <2>3. n \in ConnRecords /\ SameLink(k, n)
      BY <1>5, <2>2, SubsChange
    <2> HIDE DEF n
    <2>4. /\ n.socket = "open" /\ n.promise = "settled" /\ n.url = conns[c].url
          /\ n.pendingPublishes = conns[c].pendingPublishes
      BY <1>5, <2>3 DEF SameLink
    <2>5. /\ reqs' \in [Conns -> SUBSET Queries] /\ reqs'[c] = reqs[c] \union {q}
          /\ \A d \in Conns \ {c} : reqs'[d] = reqs[d]
      BY <1>1, <2>1
    <2>6. /\ conns' \in [Conns -> ConnRecords] /\ LinksInv'
          /\ \A d \in Conns : conns'[d].url = conns[d].url
          /\ \A d \in Conns, x \in Queries \union Posts : Awaits(d, x)' <=> d # c /\ Awaits(d, x)
      BY <1>8, <2>1, <2>3, <2>4, <2>5
    <2>7. PostsInv'
      BY <1>10, <2>1, <2>3, <2>4, <2>5
    <2>8. Awaits(c, q)
      BY <1>12 DEF Awaits
    <2>9. OneAttempt'
      <3>1. ASSUME NEW y \in Queries, NEW a \in Conns, NEW d \in Conns, Awaits(a, y)',
                   conns'[d].url = conns'[a].url
            PROVE  y \notin reqs'[d] /\ (Awaits(d, y)' => d = a)
        <4>1. a # c /\ Awaits(a, y) /\ conns[d].url = conns[a].url
          BY <2>6, <3>1
        <4>2. y \notin reqs[d] /\ (Awaits(d, y) => d = a)
          BY <4>1 DEF SharedInv, AttemptsInv, OneAttempt
        <4>3. ~(y = q /\ d = c)
          BY <2>8, <4>1, <4>2
        <4> QED
          BY <2>5, <2>6, <4>2, <4>3
      <3> QED
        BY <3>1 DEF OneAttempt
    <2>10. AttemptsSettle'
      <3>1. ASSUME NEW y \in Queries
            PROVE  /\ queries'[y].step = "idle" => queries'[y].eoses = {} /\ queries'[y].closes = {}
                   /\ \A d \in Conns :
                        /\ queries'[y].step = "idle" \/ conns'[d].url \in queries'[y].closes =>
                               ~Awaits(d, y)' /\ y \notin reqs'[d]
                        /\ conns'[d].url \in queries'[y].eoses => ~Awaits(d, y)'
        <4>1. /\ queries[y].step = "idle" => queries[y].eoses = {} /\ queries[y].closes = {}
              /\ \A d \in Conns :
                   /\ queries[y].step = "idle" \/ conns[d].url \in queries[y].closes =>
                          ~Awaits(d, y) /\ y \notin reqs[d]
                   /\ conns[d].url \in queries[y].eoses => ~Awaits(d, y)
          BY DEF SharedInv, AttemptsInv, AttemptsSettle
        <4>2. \A d \in Conns : y \in reqs'[d] => y \in reqs[d] \/ Awaits(d, y)
          BY <2>5, <2>8
        <4>3. queries'[y] = queries[y]
          BY <1>3
        <4> QED
          BY <2>6, <4>1, <4>2, <4>3
      <3> QED
        BY <3>1 DEF AttemptsSettle
    <2>11. FailedOrEosed'
      BY <1>3 DEF SharedInv, AttemptsInv, FailedOrEosed
    <2> QED
      BY <1>3, <1>7, <2>1, <2>5, <2>6, <2>7, <2>9, <2>10, <2>11
      DEF SharedInv, SimpleShape, AttemptsInv
  <1>13. ASSUME NEW p \in Posts, conns[c].promise = "pending", conns[c].caller = p
         PROVE  SharedInv'
    <2> DEFINE n == [k EXCEPT !.pendingPublishes[PostEvent[p]] = p]
    <2>1. /\ conns' = [conns EXCEPT ![c] = n]
          /\ posts' = [posts EXCEPT ![p] = [step |-> "sent", on |-> c]]
          /\ owed' = [owed EXCEPT ![c] = owed[c] \union {p}] /\ reqs' = reqs
      BY <1>2, <1>3, <1>5, <1>13 DEF Proceed, Sent
    <2>2. PostEvent[p] \in SeenEvents
      BY DEF SimpleAssumption
    <2>3. /\ n \in ConnRecords /\ n.url = k.url /\ n.socket = k.socket
          /\ n.promise = k.promise
          /\ \A x \in SeenEvents :
               n.pendingPublishes[x] = IF x = PostEvent[p] THEN p ELSE k.pendingPublishes[x]
      BY <1>5, <2>2, ResolverChange
    <2> HIDE DEF n
    <2>4. Awaits(c, p)
      BY <1>13 DEF Awaits
    <2>5. /\ posts[p].step = "connecting" /\ conns[c].url = PostUrl[p]
          /\ \A d \in Conns : Awaits(d, p) => d = c
      BY <2>4 DEF SharedInv, PostsInv, PostsAwaitOne
    <2>6. /\ conns' \in [Conns -> ConnRecords] /\ LinksInv' /\ conns'[c] = n
          /\ \A d \in Conns \ {c} : conns'[d] = conns[d]
          /\ \A d \in Conns : conns'[d].url = conns[d].url
          /\ \A d \in Conns : conns[d].socket # "free" => conns'[d].socket # "free"
          /\ \A d \in Conns, x \in Queries \union Posts : Awaits(d, x)' <=> d # c /\ Awaits(d, x)
      BY <1>1, <1>5, <1>8, <2>1, <2>3
    <2>7. AttemptsInv'
      BY <1>5, <1>9, <2>1, <2>3
    <2>8. \A d \in Conns :
            /\ conns'[d].url = conns[d].url
            /\ conns[d].socket # "free" => conns'[d].socket # "free"
            /\ ~Awaits(d, p)'
            /\ \A x \in Posts : Awaits(d, x)' => Awaits(d, x)
            /\ \A e \in SeenEvents :
                 conns'[d].pendingPublishes[e] =
                     IF d = c /\ e = PostEvent[p] THEN p ELSE conns[d].pendingPublishes[e]
      <3>1. \A d \in Conns : ~Awaits(d, p)' /\ \A x \in Posts : Awaits(d, x)' => Awaits(d, x)
        BY <2>5, <2>6
      <3>2. \A d \in Conns, e \in SeenEvents :
              conns'[d].pendingPublishes[e] =
                  IF d = c /\ e = PostEvent[p] THEN p ELSE conns[d].pendingPublishes[e]
        BY <1>5, <2>3, <2>6
      <3> QED
        BY <2>6, <3>1, <3>2
    <2>9. posts' \in [Posts -> PostRecords] /\ PostsInv'
      <3>1. posts[p].step \in {"idle", "connecting"} /\ conns[c].socket # "free" /\ NoConn \notin Posts
        BY <1>2, <1>3, <2>5
      <3> QED
        BY <1>3, <2>1, <2>5, <2>8, <3>1, SendSafe
    <2>10. owed' \in [Conns -> SUBSET Posts]
      BY <1>1, <2>1
    <2> QED
      BY <1>3, <1>7, <2>1, <2>6, <2>7, <2>9, <2>10 DEF SharedInv, SimpleShape
  <1> QED
    BY <1>6, <1>11, <1>12, <1>13

-----------------------------------------------------------------------------
(* Publishes that settle                                                     *)

\* The publish p that waits on connection c settles, and its resolver goes.
Settles(c, p, step) ==
    /\ posts[p].step = "sent" /\ posts[p].on = c
    /\ conns' = [conns EXCEPT ![c].pendingPublishes[PostEvent[p]] = NoConn]
    /\ posts' = [posts EXCEPT ![p].step = step]
    /\ accepted \subseteq accepted' /\ accepted' \subseteq Urls \X SeenEvents
    /\ step = "resolved" => <<PostUrl[p], PostEvent[p]>> \in accepted'
    /\ owed' \in [Conns -> SUBSET Posts]
    /\ UNCHANGED <<relays, queries, reqs>>

\* No other resolver is the one of p.
LEMMA SettlesSafe ==
    ASSUME SimpleAssumption, SharedInv, NEW c \in Conns, NEW p \in Posts,
           NEW step \in {"resolved", "rejected"}, Settles(c, p, step)
    PROVE  SharedInv'
  <1> DEFINE n == [conns[c] EXCEPT !.pendingPublishes[PostEvent[p]] = NoConn]
             m == [posts[p] EXCEPT !.step = step]
  <1>1. /\ relays \in [Urls -> Conns \union {NoConn}] /\ conns \in [Conns -> ConnRecords]
        /\ queries \in [Queries -> QueryRecords] /\ posts \in [Posts -> PostRecords]
        /\ reqs \in [Conns -> SUBSET Queries] /\ LinksInv
    BY DEF SharedInv, SimpleShape
  <1>2. PostEvent[p] \in SeenEvents /\ NoConn \notin Posts
    BY DEF SimpleAssumption
  <1>3. conns' = [conns EXCEPT ![c] = n] /\ posts' = [posts EXCEPT ![p] = m]
    BY DEF Settles
  <1>4. conns[c] \in ConnRecords /\ posts[p] \in PostRecords
    BY <1>1
  <1>5. /\ n \in ConnRecords /\ n.url = conns[c].url /\ n.socket = conns[c].socket
        /\ n.promise = conns[c].promise /\ n.caller = conns[c].caller
        /\ \A x \in SeenEvents :
             n.pendingPublishes[x] =
                 IF x = PostEvent[p] THEN NoConn ELSE conns[c].pendingPublishes[x]
    BY <1>2, <1>4, ResolverChange
  <1>6. m \in PostRecords /\ m.step = step
    BY <1>4, PostChange
  <1> HIDE DEF n, m
  <1>7. /\ conns' \in [Conns -> ConnRecords] /\ conns'[c] = n
        /\ \A d \in Conns \ {c} : conns'[d] = conns[d]
        /\ posts' \in [Posts -> PostRecords] /\ posts'[p] = m
        /\ \A x \in Posts \ {p} : posts'[x] = posts[x]
    BY <1>1, <1>3, <1>5, <1>6
  <1>8. ASSUME NEW d \in Conns
        PROVE  /\ conns'[d].url = conns[d].url /\ conns'[d].socket = conns[d].socket
               /\ conns'[d].promise = conns[d].promise /\ conns'[d].caller = conns[d].caller
               /\ \A e \in SeenEvents :
                    conns'[d].pendingPublishes[e] =
                      IF d = c /\ e = PostEvent[p] THEN NoConn ELSE conns[d].pendingPublishes[e]
    <2>1. CASE d = c
      BY <1>5, <1>7, <2>1
    <2>2. CASE d # c
      BY <1>7, <2>2
    <2> QED
      BY <2>1, <2>2
  <1>9. \A d \in Conns, y \in Queries \union Posts : Awaits(d, y)' <=> Awaits(d, y)
    BY <1>8 DEF Awaits
  <1>10. LinksInv'
    <2>1. ConnsInUse'
      BY <1>1, <1>8 DEF Settles, LinksInv, ConnsInUse
    <2>2. MapIsOfUsed' /\ MapNamesHeldSockets'
      BY <1>1, <1>8 DEF Settles, LinksInv, MapIsOfUsed, MapNamesHeldSockets, Held
    <2> QED
      BY <2>1, <2>2 DEF LinksInv
  <1>11. AttemptsInv'
    <2>1. OneAttempt'
      BY <1>8, <1>9 DEF Settles, SharedInv, AttemptsInv, OneAttempt
    <2>2. AttemptsSettle' /\ FailedOrEosed'
      BY <1>8, <1>9 DEF Settles, SharedInv, AttemptsInv, AttemptsSettle, FailedOrEosed
    <2> QED
      BY <2>1, <2>2 DEF AttemptsInv
  <1>12. PostsInv'
    <2>1. PostsAwaitOne /\ SentToItsRelay /\ ResolversWait /\ ResolvedWasAccepted
      BY DEF SharedInv, PostsInv
    <2>2. PostsAwaitOne'
      <3>1. \A d \in Conns : ~Awaits(d, p)
        BY <2>1 DEF Settles, PostsAwaitOne
      <3> QED
        BY <1>7, <1>8, <1>9, <2>1, <3>1 DEF PostsAwaitOne
    <2>3. SentToItsRelay'
      BY <1>6, <1>7, <1>8, <2>1 DEF SentToItsRelay
    <2>4. ResolversWait'
      <3>1. ASSUME NEW d \in Conns, NEW e \in SeenEvents,
                   conns'[d].pendingPublishes[e] # NoConn
            PROVE  /\ posts'[conns'[d].pendingPublishes[e]] = [step |-> "sent", on |-> d]
                   /\ PostEvent[conns'[d].pendingPublishes[e]] = e
        <4>1. /\ ~(d = c /\ e = PostEvent[p])
              /\ conns'[d].pendingPublishes[e] = conns[d].pendingPublishes[e]
          BY <1>8, <3>1
        <4>2. conns[d] \in ConnRecords
          BY <1>1
        <4>3. PICK x \in Posts : x = conns[d].pendingPublishes[e]
          BY <3>1, <4>1, <4>2 DEF ConnRecords
        <4>4. posts[x] = [step |-> "sent", on |-> d] /\ PostEvent[x] = e
          BY <2>1, <3>1, <4>1, <4>3 DEF ResolversWait
        <4>5. posts[x].on = d
          BY <4>4
        <4>6. x # p
          BY <4>1, <4>4, <4>5 DEF Settles
        <4> QED
          BY <1>7, <4>1, <4>3, <4>4, <4>6
      <3> QED
        BY <3>1 DEF ResolversWait
    <2>5. ResolvedWasAccepted'
      BY <1>6, <1>7, <2>1 DEF Settles, ResolvedWasAccepted
    <2> QED
      BY <2>2, <2>3, <2>4, <2>5 DEF PostsInv
  <1>13. SimpleShape'
    BY <1>7 DEF Settles, SharedInv, SimpleShape
  <1> QED
    BY <1>10, <1>11, <1>12, <1>13 DEF SharedInv

\* The timer of a publish, and an OK for it or for another of the same event.
LEMMA AnswerSafe ==
    ASSUME SimpleAssumption, SharedInv, NEW p \in Posts,
           PublishTimeout(p) \/ \E c \in Conns, ok \in BOOLEAN : OnOk(c, p, ok)
    PROVE  SharedInv'
  <1>1. /\ conns \in [Conns -> ConnRecords] /\ posts \in [Posts -> PostRecords]
        /\ owed \in [Conns -> SUBSET Posts] /\ accepted \subseteq Urls \X SeenEvents
        /\ LinksInv /\ SentToItsRelay /\ ResolversWait
    BY DEF SharedInv, SimpleShape, PostsInv
  <1>2. CASE PublishTimeout(p)
    <2>1. PICK c \in Conns : c = posts[p].on
      BY <1>1, <1>2 DEF PublishTimeout, SentToItsRelay
    <2>2. Settles(c, p, "rejected")
      BY <1>1, <1>2, <2>1 DEF PublishTimeout, Settles
    <2> QED
      BY <2>2, SettlesSafe
  <1>3. ASSUME NEW c \in Conns, NEW ok \in BOOLEAN, OnOk(c, p, ok)
        PROVE  SharedInv'
    <2>1. PICK e \in SeenEvents : e = PostEvent[p]
      BY DEF SimpleAssumption
    <2>2. conns[c] \in ConnRecords
      BY <1>1
    <2>3. PICK r \in Posts \union {NoConn} : r = conns[c].pendingPublishes[e]
      BY <2>2 DEF ConnRecords
    <2>4. /\ conns[c].socket # "free"
          /\ owed' = [owed EXCEPT ![c] = @ \ {p}]
          /\ accepted' = IF ok THEN accepted \union {<<conns[c].url, e>>} ELSE accepted
          /\ IF r = NoConn THEN UNCHANGED <<conns, posts>>
             ELSE /\ conns' = [conns EXCEPT ![c].pendingPublishes[e] = NoConn]
                  /\ posts' = [posts EXCEPT ![r].step = IF ok THEN "resolved" ELSE "rejected"]
          /\ UNCHANGED <<relays, queries, reqs>>
      BY <1>3, <2>1, <2>3 DEF OnOk
    <2>5. conns[c].url \in Urls
      BY <1>1, <2>4 DEF LinksInv, ConnsInUse
    <2>6. owed' \in [Conns -> SUBSET Posts]
      BY <1>1, <2>4
    <2>7. accepted' \subseteq Urls \X SeenEvents /\ accepted \subseteq accepted'
      BY <1>1, <2>4, <2>5
    <2>8. CASE r = NoConn
      <3>1. UNCHANGED <<conns, posts, relays, queries, reqs>>
        BY <2>4, <2>8
      <3>2. SimpleShape'
        BY <2>6, <2>7, <3>1 DEF SharedInv, SimpleShape
      <3>3. LinksInv'
        BY <3>1 DEF SharedInv, LinksInv, ConnsInUse, MapIsOfUsed, MapNamesHeldSockets, Held
      <3>4. AttemptsInv'
        BY <3>1 DEF SharedInv, AttemptsInv, OneAttempt, AttemptsSettle, FailedOrEosed, Awaits
      <3>5. PostsInv'
        BY <2>7, <3>1
        DEF SharedInv, PostsInv, PostsAwaitOne, SentToItsRelay, ResolversWait,
            ResolvedWasAccepted, Awaits
      <3> QED
        BY <3>2, <3>3, <3>4, <3>5 DEF SharedInv
    <2>9. CASE r # NoConn
      <3>1. /\ r \in Posts /\ posts[r] = [step |-> "sent", on |-> c] /\ PostEvent[r] = e
        BY <1>1, <2>3, <2>9 DEF ResolversWait
      <3>2. posts[r].step = "sent" /\ posts[r].on = c
        BY <3>1
      <3>3. conns[c].url = PostUrl[r]
        BY <1>1, <3>1, <3>2 DEF SentToItsRelay
      <3>4. PICK step \in {"resolved", "rejected"} : step = IF ok THEN "resolved" ELSE "rejected"
        OBVIOUS
      <3>5. step = "resolved" => <<PostUrl[r], PostEvent[r]>> \in accepted'
        BY <2>4, <3>1, <3>3, <3>4
      <3>6. Settles(c, r, step)
        BY <2>4, <2>6, <2>7, <2>9, <3>1, <3>2, <3>4, <3>5 DEF Settles
      <3> QED
        BY <3>1, <3>6, SettlesSafe
    <2> QED
      BY <2>8, <2>9
  <1> QED
    BY <1>2, <1>3

-----------------------------------------------------------------------------
(* What was delivered                                                        *)

\* Remember appends e and may drop the oldest, but keeps more than half of MaxSeen then.
LEMMA Remembered ==
    ASSUME SimpleAssumption, seenEvents \in Seq(SeenEvents), NEW e \in SeenEvents
    PROVE  LET r == Remember(e)
               s == Len(seenEvents)
           IN  /\ r \in Seq(SeenEvents) /\ Len(r) \in Nat /\ 1 <= Len(r) /\ Len(r) <= s + 1
               /\ Len(r) = s + 1 \/ Len(r) > MaxSeen \div 2
               /\ \A i \in 1..Len(r) :
                    r[i] = IF i = Len(r) THEN e ELSE seenEvents[s + 1 - Len(r) + i]
  <1> DEFINE r == Remember(e)
             s == Len(seenEvents)
             h == MaxSeen \div 2
             seen == Append(seenEvents, e)
  <1>1. s \in Nat /\ MaxSeen \in Nat /\ h \in Nat /\ 2 * h <= MaxSeen /\ MaxSeen >= 1
    BY DEF SimpleAssumption
  <1>2. /\ seen \in Seq(SeenEvents) /\ Len(seen) = s + 1 /\ seen[s + 1] = e
        /\ \A i \in 1..s : seen[i] = seenEvents[i]
    OBVIOUS
  <1>3. r = IF Len(seen) > MaxSeen THEN SubSeq(seen, h + 1, Len(seen)) ELSE seen
    BY DEF Remember
  <1>4. MaxSeen \div 2 = h
    OBVIOUS
  <1> HIDE DEF seen, r, h
  <1>5. CASE Len(seen) > MaxSeen
    <2>1. s + 1 > MaxSeen /\ h + 1 <= s + 1 /\ h + 1 >= 1
      BY <1>1, <1>2, <1>5
    <2>2. r = SubSeq(seen, h + 1, s + 1)
      BY <1>2, <1>3, <1>5
    <2>3. r \in Seq(SeenEvents) /\ Len(r) = s + 1 - h
      BY <1>1, <1>2, <2>1, <2>2
    <2>4. Len(r) \in Nat /\ 1 <= Len(r) /\ Len(r) <= s + 1 /\ Len(r) > h
      BY <1>1, <2>1, <2>3
    <2>5. ASSUME NEW i \in 1..Len(r)
          PROVE  r[i] = IF i = Len(r) THEN e ELSE seenEvents[s + 1 - Len(r) + i]
      <3>1. r[i] = seen[h + i]
        BY <1>1, <1>2, <2>1, <2>2, <2>3
      <3>2. h = s + 1 - Len(r) /\ i \in Int /\ 1 <= i /\ i <= Len(r)
        BY <1>1, <2>3, <2>4
      <3>3. CASE i = Len(r)
        BY <1>1, <1>2, <3>1, <3>2, <3>3
      <3>4. CASE i # Len(r)
        <4> DEFINE l == Len(r)
        <4>0. l \in Nat /\ l = s + 1 - h /\ i <= l /\ i # l
          BY <2>3, <2>4, <3>2, <3>4
        <4> HIDE DEF l, s
        <4>1. h + i \in 1..s /\ h + i = s + 1 - l + i
          BY <1>1, <3>2, <4>0
        <4> USE DEF l, s
        <4> QED
          BY <1>2, <3>1, <3>4, <4>1
      <3> QED
        BY <3>3, <3>4
    <2> QED
      BY <1>4, <2>3, <2>4, <2>5 DEF r
  <1>6. CASE ~(Len(seen) > MaxSeen)
    <2>1. r = seen /\ Len(r) = s + 1
      BY <1>2, <1>3, <1>6
    <2>2. ASSUME NEW i \in 1..Len(r)
          PROVE  r[i] = IF i = Len(r) THEN e ELSE seenEvents[s + 1 - Len(r) + i]
      <3>1. s + 1 - Len(r) + i = i /\ (i # Len(r) => i \in 1..s)
        BY <1>1, <2>1
      <3> QED
        BY <1>2, <2>1, <3>1
    <2> QED
      BY <1>1, <1>2, <2>1, <2>2 DEF r
  <1> QED
    BY <1>5, <1>6

\* An event that is delivered is not among the seen ones.
LEMMA DeliverySafe ==
    ASSUME SimpleAssumption, seenEvents \in Seq(SeenEvents),
           delivered \in Seq(Queries \X SeenEvents), DeliveryInv,
           NEW q \in Queries, NEW e \in SeenEvents, ~Contains(seenEvents, e),
           seenEvents' = Remember(e), delivered' = Append(delivered, <<q, e>>)
    PROVE  /\ seenEvents' \in Seq(SeenEvents) /\ delivered' \in Seq(Queries \X SeenEvents)
           /\ DeliveryInv'
  <1> DEFINE s == Len(seenEvents)
             n == Len(delivered)
             h == MaxSeen \div 2
             t == Len(seenEvents')
  <1>1. /\ seenEvents' \in Seq(SeenEvents) /\ t \in Nat /\ 1 <= t /\ t <= s + 1
        /\ t = s + 1 \/ t > h
        /\ \A i \in 1..t : seenEvents'[i] = IF i = t THEN e ELSE seenEvents[s + 1 - t + i]
    BY Remembered
  <1>2. s \in Nat /\ n \in Nat /\ h \in Nat
    BY DEF SimpleAssumption
  <1>3. /\ s <= n /\ (s = n \/ s > h)
        /\ \A i \in 1..s : seenEvents[i] = delivered[n - s + i][2]
    BY DEF DeliveryInv, SeenIsRecent
  <1>4. /\ delivered' \in Seq(Queries \X SeenEvents) /\ Len(delivered') = n + 1
        /\ delivered'[n + 1] = <<q, e>> /\ \A i \in 1..n : delivered'[i] = delivered[i]
    OBVIOUS
  <1>5. \A i \in 1..s : seenEvents[i] # e
    BY DEF Contains
  <1>d. DOMAIN delivered = 1..n /\ DOMAIN delivered' = 1..(n + 1)
    BY <1>4
  <1>6. \A i, j \in 1..n : i < j /\ delivered[i][2] = delivered[j][2] => j - i > h + 1
    BY <1>d DEF DeliveryInv, NoEarlyDuplicate
  <1> DEFINE m == Len(delivered')
  <1>7. SeenIsRecent' <=> /\ t <= m /\ (t = m \/ t > h)
                          /\ \A i \in 1..t : seenEvents'[i] = delivered'[m - t + i][2]
    BY DEF SeenIsRecent
  <1>8. NoEarlyDuplicate' <=>
          \A i, j \in DOMAIN delivered' :
              i < j /\ delivered'[i][2] = delivered'[j][2] => j - i > h + 1
    BY DEF NoEarlyDuplicate
  <1>m. m = n + 1
    BY <1>4
  <1> HIDE DEF m
  <1> HIDE DEF s, n, h, t
  <1>9. SeenIsRecent'
    <2>1. t <= n + 1 /\ (t = n + 1 \/ t > h)
      BY <1>1, <1>2, <1>3
    <2>2. ASSUME NEW i \in 1..t
          PROVE  seenEvents'[i] = delivered'[n + 1 - t + i][2]
      <3>1. i \in Int /\ 1 <= i /\ i <= t
        BY <1>1
      <3>2. CASE i = t
        <4>1. n + 1 - t + i = n + 1
          BY <1>1, <1>2, <3>2
        <4>2. seenEvents'[i] = e
          BY <1>1, <3>2
        <4> QED
          BY <1>4, <4>1, <4>2
      <3>3. CASE i # t
        <4> DEFINE j == s + 1 - t + i
        <4>1. j \in 1..s /\ n - s + j = n + 1 - t + i /\ n - s + j \in 1..n
          BY <1>1, <1>2, <1>3, <3>1, <3>3
        <4>2. seenEvents'[i] = seenEvents[j]
          BY <1>1, <3>3
        <4> HIDE DEF j
        <4>3. seenEvents[j] = delivered[n - s + j][2]
          BY <1>3, <4>1
        <4>4. delivered'[n - s + j] = delivered[n - s + j]
          BY <1>4, <4>1
        <4> QED
          BY <4>1, <4>2, <4>3, <4>4
      <3> QED
        BY <3>2, <3>3
    <2>3. t <= m /\ (t = m \/ t > h)
      BY <1>m, <2>1
    <2>4. ASSUME NEW i \in 1..t
          PROVE  seenEvents'[i] = delivered'[m - t + i][2]
      <3> DEFINE k == n + 1 - t + i
      <3>1. m - t + i = k
        BY <1>1, <1>2, <1>m
      <3>2. seenEvents'[i] = delivered'[k][2]
        BY <2>2, Zenon
      <3> HIDE DEF k
      <3> QED
        BY <3>1, <3>2, Zenon
    <2> QED
      BY <1>7, <2>3, <2>4, Zenon
  <1>10. NoEarlyDuplicate'
    <2>1. ASSUME NEW i \in 1..(n + 1), NEW j \in 1..(n + 1), i < j,
                 delivered'[i][2] = delivered'[j][2]
          PROVE  j - i > h + 1
      <3>1. i \in Int /\ j \in Int /\ 1 <= i /\ i <= n /\ j <= n + 1
        BY <1>2, <2>1
      <3>2. i \in 1..n /\ delivered'[i] = delivered[i]
        BY <1>2, <1>4, <3>1
      <3>3. CASE j # n + 1
        <4>1. j \in 1..n
          BY <1>2, <3>1, <3>3
        <4> QED
          BY <1>4, <1>6, <2>1, <3>2, <4>1
      <3>4. CASE j = n + 1
        <4>1. delivered[i][2] = e
          BY <1>4, <2>1, <3>2, <3>4
        <4>2. ASSUME i > n - s PROVE FALSE
          <5> DEFINE k == i - (n - s)
          <5>1. k \in 1..s /\ n - s + k = i
            BY <1>2, <1>3, <3>1, <4>2
          <5> HIDE DEF k
          <5>2. seenEvents[k] = delivered[n - s + k][2]
            BY <1>3, <5>1
          <5> QED
            BY <1>5, <4>1, <5>1, <5>2
        <4>3. i <= n - s
          BY <1>2, <3>1, <4>2
        <4> QED
          BY <1>2, <1>3, <3>1, <3>4, <4>3
      <3> QED
        BY <3>3, <3>4
    <2> QED
      BY <1>8, <1>d, <2>1
  <1> QED
    BY <1>1, <1>4, <1>9, <1>10 DEF DeliveryInv

-----------------------------------------------------------------------------
(* Every step                                                                *)

\* No step of SimplePool breaks the invariant.
LEMMA SimpleStep == SimpleAssumption /\ SimpleInv /\ [SimpleNext]_simpleVars => SimpleInv'
  <1> SUFFICES ASSUME SimpleAssumption, SimpleInv, [SimpleNext]_simpleVars
               PROVE  SimpleInv'
    OBVIOUS
  <1>1. /\ SharedInv /\ DeliveryInv /\ seenEvents \in Seq(SeenEvents)
        /\ delivered \in Seq(Queries \X SeenEvents)
    BY SimpleTypes DEF SimpleInv, SharedInv, SimpleShape
  <1>2. SimpleInv' <=> SharedInv' /\ DeliveryInv' /\ (seenEvents \in Seq(SeenEvents))'
                       /\ (delivered \in Seq(Queries \X SeenEvents))'
    <2>1. SimpleTypeOK' <=> /\ SimpleShape' /\ (seenEvents \in Seq(SeenEvents))'
                            /\ (delivered \in Seq(Queries \X SeenEvents))'
      BY DEF SimpleTypeOK, SimpleShape, ConnRecords, QueryRecords, PostRecords
    <2> QED
      BY <2>1 DEF SimpleInv, SharedInv
  <1>3. SimpleShape /\ ConnsInUse /\ NoConn \notin Conns \union Posts /\ Queries \intersect Posts = {}
    BY <1>1 DEF SharedInv, LinksInv, SimpleAssumption
  <1>4. ASSUME SharedInv', UNCHANGED <<seenEvents, delivered>>
        PROVE  SimpleInv'
    BY <1>1, <1>2, <1>4 DEF DeliveryInv, SeenIsRecent, NoEarlyDuplicate
  <1>5. ASSUME NEW c \in Conns, Opens(c)
        PROVE  SimpleInv'
    <2>1. SharedInv'
      BY <1>1, <1>5, OpensSafe
    <2> QED
      BY <1>4, <1>5, <2>1 DEF Opens
  <1>6. ASSUME NEW c \in Conns, SocketEnds(c) \/ ConnectionTimeout(c)
        PROVE  SimpleInv'
    <2>1. SharedInv'
      BY <1>1, <1>3, <1>6, GivesUpSafe, GivesUpSteps
    <2> QED
      BY <1>4, <1>6, <2>1 DEF SocketEnds, ConnectionTimeout
  <1>7. ASSUME NEW c \in Conns, NEW q \in Queries, NEW e \in SeenEvents, OnEvent(c, q, e)
        PROVE  SimpleInv'
    <2>1. SharedInv'
      BY <1>1, <1>3, <1>7, QuietSafe, QuietSteps
    <2>2. /\ seenEvents' \in Seq(SeenEvents) /\ delivered' \in Seq(Queries \X SeenEvents)
          /\ DeliveryInv'
      <3>1. /\ ~Contains(seenEvents, e) /\ seenEvents' = Remember(e)
            /\ delivered' = Append(delivered, <<q, e>>)
        BY <1>7 DEF OnEvent
      <3> QED
        BY <1>1, <3>1, DeliverySafe
    <2> QED
      BY <1>2, <2>1, <2>2
  <1>8. ASSUME NEW q \in Queries,
               Unsubscribe(q) \/ MaxWait(q) \/ \E c \in Conns : OnEose(c, q) \/ OnClosed(c, q)
        PROVE  SimpleInv'
    <2>1. SharedInv'
      BY <1>1, <1>3, <1>8, QuietSafe, QuietSteps
    <2> QED
      BY <1>4, <1>8, <2>1 DEF Unsubscribe, MaxWait, OnEose, OnClosed
  <1>9. ASSUME NEW u \in Urls, CloseRelay(u)
        PROVE  SimpleInv'
    <2>1. SharedInv'
      BY <1>1, <1>9, ClosingSafe, ClosingSteps
    <2> QED
      BY <1>4, <1>9, <2>1 DEF CloseRelay
  <1>9b. ASSUME NEW c \in Conns, SocketEnding(c)
         PROVE  SimpleInv'
    <2>1. SharedInv'
      BY <1>1, <1>9b, ClosingSafe, ClosingSteps
    <2> QED
      BY <1>4, <1>9b, <2>1 DEF SocketEnding
  <1>10. CASE Destroy
    <2>1. SharedInv'
      BY <1>1, <1>10, ClosingSafe, ClosingSteps
    <2>2. seenEvents' = <<>> /\ delivered' = <<>>
      BY <1>10 DEF Destroy
    <2>3. DeliveryInv'
      BY <2>2 DEF DeliveryInv, SeenIsRecent, NoEarlyDuplicate
    <2> QED
      BY <1>2, <2>1, <2>2, <2>3
  <1>11. ASSUME NEW q \in Queries, Subscribe(q)
         PROVE  SimpleInv'
    <2>1. SharedInv'
      BY <1>1, <1>11, SubscribeSafe
    <2> QED
      BY <1>4, <1>11, <2>1 DEF Subscribe
  <1>12. ASSUME NEW p \in Posts, Publish(p)
         PROVE  SimpleInv'
    <2>1. SharedInv'
      BY <1>1, <1>12, ConnectToPublish, SendAtOnce
    <2> QED
      BY <1>4, <1>12, <2>1 DEF Publish
  <1>13. ASSUME NEW p \in Posts,
                PublishTimeout(p) \/ \E c \in Conns, ok \in BOOLEAN : OnOk(c, p, ok)
         PROVE  SimpleInv'
    <2>1. SharedInv'
      BY <1>1, <1>13, AnswerSafe
    <2> QED
      BY <1>4, <1>13, <2>1 DEF PublishTimeout, OnOk
  <1>14. CASE UNCHANGED simpleVars
    <2>1. SharedInv'
      <3>1. SimpleShape'
        BY <1>3, <1>14 DEF simpleVars, SimpleShape
      <3>2. LinksInv'
        BY <1>1, <1>14
        DEF simpleVars, SharedInv, LinksInv, ConnsInUse, MapIsOfUsed, MapNamesHeldSockets, Held
      <3>3. AttemptsInv'
        BY <1>1, <1>14
        DEF simpleVars, SharedInv, AttemptsInv, OneAttempt, AttemptsSettle, FailedOrEosed, Awaits
      <3>4. PostsInv'
        BY <1>1, <1>14
        DEF simpleVars, SharedInv, PostsInv, PostsAwaitOne, SentToItsRelay, ResolversWait,
            ResolvedWasAccepted, Awaits
      <3> QED
        BY <3>1, <3>2, <3>3, <3>4 DEF SharedInv
    <2> QED
      BY <1>4, <1>14, <2>1 DEF simpleVars
  <1> QED
    BY <1>5, <1>6, <1>7, <1>8, <1>9, <1>9b, <1>10, <1>11, <1>12, <1>13, <1>14 DEF SimpleNext

\* A pool that has done nothing satisfies it.
LEMMA SimpleStart == SimpleAssumption /\ SimpleInit => SimpleInv
  <1> SUFFICES ASSUME SimpleAssumption, SimpleInit PROVE SimpleInv
    OBVIOUS
  <1>1. /\ FreeConn \in ConnRecords /\ FreeConn.socket = "free" /\ FreeConn.promise = "none"
        /\ FreeConn.pendingPublishes = [e \in SeenEvents |-> NoConn]
        /\ IdleQuery \in QueryRecords /\ IdleQuery.eoses = {} /\ IdleQuery.closes = {}
        /\ IdlePost \in PostRecords /\ IdlePost.step = "idle"
    BY DEF FreeConn, IdleQuery, IdlePost, ConnRecords, QueryRecords, PostRecords
  <1>2. /\ relays = [u \in Urls |-> NoConn] /\ conns = [c \in Conns |-> FreeConn]
        /\ seenEvents = <<>> /\ queries = [q \in Queries |-> IdleQuery] /\ delivered = <<>>
        /\ posts = [p \in Posts |-> IdlePost]
        /\ reqs = [c \in Conns |-> {}] /\ owed = [c \in Conns |-> {}] /\ accepted = {}
    BY DEF SimpleInit
  <1>3. SimpleTypeOK
    BY <1>1, <1>2, SimpleTypes
  <1>4. LinksInv
    BY <1>1, <1>2 DEF LinksInv, ConnsInUse, MapIsOfUsed, MapNamesHeldSockets, Held
  <1>5. AttemptsInv
    BY <1>1, <1>2 DEF AttemptsInv, OneAttempt, AttemptsSettle, FailedOrEosed, Awaits
  <1>6. PostsInv
    BY <1>1, <1>2
    DEF PostsInv, PostsAwaitOne, SentToItsRelay, ResolversWait, ResolvedWasAccepted, Awaits
  <1>7. DeliveryInv
    BY <1>2 DEF DeliveryInv, SeenIsRecent, NoEarlyDuplicate
  <1> QED
    BY <1>3, <1>4, <1>5, <1>6, <1>7 DEF SimpleInv

-----------------------------------------------------------------------------
(* Sockets the pool has lost                                                 *)

\* Sockets stay used and under their URL, and none comes back to life; a new one is in the
\* map; one that leaves the map while it is held leaves it to another of its URL.
RivalsRemain ==
    \A c \in Conns :
        /\ conns[c].socket # "free" =>
               /\ conns'[c].url = conns[c].url /\ conns'[c].socket # "free"
               /\ Held(c)' => Held(c)
        /\ conns[c].socket = "free" /\ Held(c)' => relays'[conns'[c].url] = c
        /\ Held(c) /\ Held(c)' /\ relays[conns[c].url] = c =>
               \/ relays'[conns[c].url] = c
               \/ \E d \in Conns \ {c} :
                     conns'[d].socket # "free" /\ conns'[d].url = conns[c].url

\* Such a step loses no socket without a rival.
LEMMA RivalsKept == LostHadRival /\ RivalsRemain => LostHadRival'
  <1> SUFFICES ASSUME LostHadRival, RivalsRemain, NEW c \in Conns, Held(c)'
               PROVE  \/ relays'[conns'[c].url] = c
                      \/ \E d \in Conns \ {c} :
                            conns'[d].socket # "free" /\ conns'[d].url = conns'[c].url
    BY DEF LostHadRival
  <1>1. CASE conns[c].socket = "free"
    BY <1>1 DEF RivalsRemain
  <1>2. CASE conns[c].socket # "free"
    <2>1. Held(c) /\ conns'[c].url = conns[c].url
      BY <1>2 DEF RivalsRemain
    <2>2. CASE relays[conns[c].url] = c
      BY <2>1, <2>2 DEF RivalsRemain
    <2>3. CASE relays[conns[c].url] # c
      <3>1. PICK d \in Conns \ {c} : conns[d].socket # "free" /\ conns[d].url = conns[c].url
        BY <2>1, <2>3 DEF LostHadRival
      <3>2. conns'[d].socket # "free" /\ conns'[d].url = conns[d].url
        BY <3>1 DEF RivalsRemain
      <3> QED
        BY <2>1, <3>1, <3>2
    <2> QED
      BY <2>2, <2>3
  <1> QED
    BY <1>1, <1>2

\* Steps that leave the map and the sockets alone, but for their subscriptions and promises.
LEMMA RivalsAside ==
    ASSUME relays' = relays,
           \A c \in Conns : /\ conns'[c].url = conns[c].url
                            /\ \/ conns'[c].socket = conns[c].socket
                               \/ conns[c].socket # "free" /\ conns'[c].socket = "closed"
                               \/ conns[c].socket = "open" /\ conns'[c].socket = "ending"
    PROVE  RivalsRemain
  BY DEF RivalsRemain, Held

\* A subscription's new connections take the entries of their URLs.
LEMMA RivalsOfSubscribe ==
    ASSUME SimpleAssumption, SharedInv, NEW q \in Queries, Subscribe(q)
    PROVE  RivalsRemain
  <1> DEFINE ready == {u \in QueryUrls[q] : Usable(u)}
             reached == {relays[u] : u \in ready}
             missing == QueryUrls[q] \ ready
             free == {c \in Conns : conns[c].socket = "free"}
  <1>1. PICK new \in [missing -> free] :
          /\ \A u, w \in missing : new[u] = new[w] => u = w
          /\ conns' = [c \in Conns |->
               IF c \in reached THEN [conns[c] EXCEPT !.subs = @ \union {q}]
               ELSE IF \E u \in missing : new[u] = c
               THEN NewConn(CHOOSE u \in missing : new[u] = c, q)
               ELSE conns[c]]
          /\ relays' = [u \in Urls |-> IF u \in missing THEN new[u] ELSE relays[u]]
    BY DEF Subscribe
  <1>2. /\ QueryUrls[q] \subseteq Urls /\ conns \in [Conns -> ConnRecords] /\ LinksInv
        /\ relays \in [Urls -> Conns \union {NoConn}]
    BY DEF SimpleAssumption, SharedInv, SimpleShape
  <1>3. \A c \in reached : conns[c].socket # "free"
    BY <1>2 DEF Usable, LinksInv, MapIsOfUsed
  <1>4. missing \subseteq Urls /\ \A u \in missing : new[u] \in Conns /\ conns[new[u]].socket = "free"
    BY <1>2
  <1> HIDE DEF ready, reached, missing, free
  <1>5. ASSUME NEW u \in missing
        PROVE  /\ relays'[u] = new[u] /\ conns'[new[u]].url = u
               /\ conns'[new[u]].socket = "connecting"
    <2>1. new[u] \in Conns /\ new[u] \notin reached /\ u \in Urls
      BY <1>3, <1>4
    <2>2. (CHOOSE w \in missing : new[w] = new[u]) = u
      BY <1>1
    <2>3. conns'[new[u]] = NewConn(u, q)
      BY <1>1, <2>1, <2>2
    <2>4. NewConn(u, q).url = u /\ NewConn(u, q).socket = "connecting"
      BY DEF NewConn, FreeConn
    <2> QED
      BY <1>1, <2>1, <2>3, <2>4
  <1>6. ASSUME NEW c \in Conns, \A u \in missing : new[u] # c
        PROVE  conns'[c].url = conns[c].url /\ conns'[c].socket = conns[c].socket
    <2> DEFINE n == [conns[c] EXCEPT !.subs = conns[c].subs \union {q}]
    <2>1. conns[c] \in ConnRecords /\ conns[c].subs \union {q} \in SUBSET Queries
      BY <1>2 DEF ConnRecords
    <2>2. SameLink(conns[c], n)
      BY <2>1, SubsChange
    <2>3. conns'[c] = n \/ conns'[c] = conns[c]
      BY <1>1, <1>6
    <2> HIDE DEF n
    <2> QED
      BY <2>2, <2>3 DEF SameLink
  <1>7. ASSUME NEW c \in Conns, conns[c].socket # "free"
        PROVE  /\ conns'[c].url = conns[c].url /\ conns'[c].socket = conns[c].socket
               /\ relays[conns[c].url] = c => \/ relays'[conns[c].url] = c
                                              \/ \E d \in Conns \ {c} :
                                                    /\ conns'[d].socket # "free"
                                                    /\ conns'[d].url = conns[c].url
    <2>1. \A u \in missing : new[u] # c
      BY <1>4, <1>7
    <2>2. conns[c].url \in Urls
      BY <1>2, <1>7 DEF LinksInv, ConnsInUse
    <2>3. CASE conns[c].url \in missing
      <3>1. new[conns[c].url] \in Conns \ {c}
        BY <1>4, <2>1, <2>3
      <3> QED
        BY <1>5, <1>6, <2>1, <2>3, <3>1
    <2>4. CASE conns[c].url \notin missing
      BY <1>1, <1>6, <2>1, <2>2, <2>4
    <2> QED
      BY <2>3, <2>4
  <1>8. ASSUME NEW c \in Conns, conns[c].socket = "free", Held(c)'
        PROVE  relays'[conns'[c].url] = c
    <2>1. conns'[c].socket # "free"
      BY <1>8 DEF Held
    <2>2. PICK u \in missing : new[u] = c
      BY <1>6, <1>8, <2>1
    <2> QED
      BY <1>5, <2>2
  <1> QED
    BY <1>7, <1>8 DEF RivalsRemain, Held

\* So does the connection of a publish.
LEMMA RivalsOfPublish ==
    ASSUME SimpleAssumption, SharedInv, NEW p \in Posts, Publish(p)
    PROVE  RivalsRemain
  <1>1. /\ PostUrl[p] \in Urls /\ PostEvent[p] \in SeenEvents /\ p \notin Queries
        /\ conns \in [Conns -> ConnRecords] /\ LinksInv
        /\ relays \in [Urls -> Conns \union {NoConn}]
    BY DEF SimpleAssumption, SharedInv, SimpleShape
  <1>2. CASE Usable(PostUrl[p])
    <2>1. PICK c \in Conns : c = relays[PostUrl[p]]
      BY <1>1, <1>2 DEF Usable
    <2> DEFINE n == [conns[c] EXCEPT !.pendingPublishes[PostEvent[p]] = p]
    <2>2. conns' = [conns EXCEPT ![c] = n] /\ relays' = relays
      BY <1>1, <1>2, <2>1 DEF Publish, Proceed
    <2>3. n.url = conns[c].url /\ n.socket = conns[c].socket
      BY <1>1, ResolverChange
    <2> HIDE DEF n
    <2>4. \A d \in Conns : conns'[d].url = conns[d].url /\ conns'[d].socket = conns[d].socket
      BY <1>1, <2>2, <2>3
    <2> QED
      BY <2>2, <2>4, RivalsAside
  <1>3. CASE ~Usable(PostUrl[p])
    <2>1. PICK c \in Conns : /\ conns[c].socket = "free"
                             /\ conns' = [conns EXCEPT ![c] = NewConn(PostUrl[p], p)]
                             /\ relays' = [relays EXCEPT ![PostUrl[p]] = c]
      BY <1>3 DEF Publish
    <2>2. NewConn(PostUrl[p], p).url = PostUrl[p] /\ NewConn(PostUrl[p], p).socket = "connecting"
      BY DEF NewConn, FreeConn
    <2>3. /\ conns'[c].url = PostUrl[p] /\ conns'[c].socket = "connecting"
          /\ \A d \in Conns \ {c} : conns'[d] = conns[d]
          /\ relays'[PostUrl[p]] = c
          /\ \A u \in Urls \ {PostUrl[p]} : relays'[u] = relays[u]
      BY <1>1, <2>1, <2>2
    <2>4. \A d \in Conns : conns[d].socket # "free" => conns[d].url \in Urls
      BY <1>1 DEF LinksInv, ConnsInUse
    <2>5. ASSUME NEW d \in Conns \ {c}, conns[d].socket # "free", relays[conns[d].url] = d
          PROVE  \/ relays'[conns[d].url] = d
                 \/ \E x \in Conns \ {d} : conns'[x].socket # "free" /\ conns'[x].url = conns[d].url
      BY <2>3, <2>4, <2>5
    <2> QED
      BY <2>1, <2>3, <2>5 DEF RivalsRemain, Held
  <1> QED
    BY <1>2, <1>3

\* The pool loses a socket it has not ended to another of its URL only.
LEMMA RivalStep ==
    SimpleAssumption /\ SimpleInv /\ LostHadRival /\ [SimpleNext]_simpleVars => LostHadRival'
  <1> SUFFICES ASSUME SimpleAssumption, SimpleInv, LostHadRival, [SimpleNext]_simpleVars
               PROVE  RivalsRemain
    BY RivalsKept
  <1>1. /\ SharedInv /\ SimpleShape /\ LinksInv /\ ConnsInUse /\ conns \in [Conns -> ConnRecords]
        /\ relays \in [Urls -> Conns \union {NoConn}]
    BY SimpleTypes DEF SimpleInv, SharedInv, SimpleShape, LinksInv
  <1>2. \A c \in Conns : conns[c].socket # "free" => conns[c].url \in Urls
    BY <1>1 DEF ConnsInUse
  <1>3. ASSUME NEW c \in Conns, Opens(c)
        PROVE  RivalsRemain
    <2> DEFINE k == [conns[c] EXCEPT !.socket = "open", !.connected = TRUE, !.promise = "settled"]
    <2>1. k \in ConnRecords /\ k.socket = "open" /\ k.url = conns[c].url
      BY <1>1, SocketChange
    <2>2. /\ conns[c].socket = "connecting" /\ relays' = [relays EXCEPT ![conns[c].url] = c]
          /\ \/ conns' = [conns EXCEPT ![c] = k]
             \/ \E x : conns' = [conns EXCEPT ![c] = [k EXCEPT !.subs = k.subs \union {x}]]
             \/ \E x : conns' = [conns EXCEPT ![c] =
                         [k EXCEPT !.pendingPublishes[PostEvent[x]] = x]]
      BY <1>3 DEF Opens, Proceed
    <2> HIDE DEF k
    <2>3. \A x : /\ [k EXCEPT !.subs = k.subs \union {x}].url = k.url
                 /\ [k EXCEPT !.subs = k.subs \union {x}].socket = k.socket
                 /\ [k EXCEPT !.pendingPublishes[PostEvent[x]] = x].url = k.url
                 /\ [k EXCEPT !.pendingPublishes[PostEvent[x]] = x].socket = k.socket
      BY <2>1 DEF ConnRecords
    <2>4. /\ conns'[c].url = conns[c].url /\ conns'[c].socket = "open"
          /\ \A d \in Conns \ {c} : conns'[d] = conns[d]
      BY <1>1, <2>1, <2>2, <2>3
    <2>5. /\ relays'[conns[c].url] = c
          /\ \A u \in Urls \ {conns[c].url} : relays'[u] = relays[u]
      BY <1>1, <1>2, <2>2
    <2>6. ASSUME NEW d \in Conns, conns[d].socket # "free", relays[conns[d].url] = d
          PROVE  \/ relays'[conns[d].url] = d
                 \/ \E x \in Conns \ {d} : conns'[x].socket # "free" /\ conns'[x].url = conns[d].url
      BY <1>2, <2>4, <2>5, <2>6
    <2> QED
      BY <2>2, <2>4, <2>6 DEF RivalsRemain, Held
  <1>4. ASSUME NEW c \in Conns, SocketEnds(c)
        PROVE  RivalsRemain
    <2> DEFINE n == [FreeConn EXCEPT !.url = conns[c].url, !.socket = "closed"]
    <2>1. n.url = conns[c].url /\ n.socket = "closed"
      BY DEF FreeConn
    <2>2. /\ conns[c].socket # "free" /\ conns' = [conns EXCEPT ![c] = n]
          /\ relays' = relays \/ relays' = [relays EXCEPT ![conns[c].url] = NoConn]
      BY <1>4 DEF SocketEnds
    <2> HIDE DEF n
    <2>3. /\ conns'[c].url = conns[c].url /\ conns'[c].socket = "closed"
          /\ \A d \in Conns \ {c} : conns'[d] = conns[d]
      BY <1>1, <2>1, <2>2
    <2>4. \A u \in Urls \ {conns[c].url} : relays'[u] = relays[u]
      BY <1>1, <2>2
    <2>5. ASSUME NEW d \in Conns \ {c}, conns[d].socket # "free", relays[conns[d].url] = d
          PROVE  \/ relays'[conns[d].url] = d
                 \/ \E x \in Conns \ {d} : conns'[x].socket # "free" /\ conns'[x].url = conns[d].url
      BY <1>2, <2>3, <2>4, <2>5
    <2> QED
      BY <2>2, <2>3, <2>5 DEF RivalsRemain, Held
  <1>5. ASSUME NEW c \in Conns, ConnectionTimeout(c)
        PROVE  RivalsRemain
    <2> DEFINE n == [conns[c] EXCEPT !.promise = "settled"]
    <2>1. /\ n.url = conns[c].url /\ n.socket = conns[c].socket
          /\ conns' = [conns EXCEPT ![c] = n] /\ relays' = relays
      BY <1>1, <1>5, SocketChange DEF ConnectionTimeout
    <2> HIDE DEF n
    <2>2. \A d \in Conns : conns'[d].url = conns[d].url /\ conns'[d].socket = conns[d].socket
      BY <1>1, <2>1
    <2> QED
      BY <2>1, <2>2, RivalsAside
  <1>6. ASSUME NEW q \in Queries,
               \/ Unsubscribe(q) \/ MaxWait(q)
               \/ \E c \in Conns : \/ OnEose(c, q) \/ OnClosed(c, q)
                                   \/ \E e \in SeenEvents : OnEvent(c, q, e)
        PROVE  RivalsRemain
    <2>1. Quiet
      BY <1>1, <1>6, QuietSteps
    <2> QED
      BY <2>1, RivalsAside DEF Quiet, SameLink
  <1>7. ASSUME NEW cs, ClosedByUser(cs), relays' \in [Urls -> Conns \union {NoConn}],
               \A u \in Urls : relays'[u] = relays[u] \/ relays[u] \in cs
        PROVE  RivalsRemain
    <2>1. ASSUME NEW c \in Conns
          PROVE  /\ conns'[c].url = conns[c].url
                 /\ IF c \in cs /\ Held(c) THEN conns'[c].socket = "closing"
                    ELSE conns'[c].socket = conns[c].socket
      <3> DEFINE n == [conns[c] EXCEPT !.socket = "closing"]
      <3>1. n.url = conns[c].url /\ n.socket = "closing"
        BY <1>1, SocketChange
      <3>2. conns'[c] = IF c \in cs /\ Held(c) THEN n ELSE conns[c]
        BY <1>7 DEF ClosedByUser
      <3> HIDE DEF n
      <3> QED
        BY <3>1, <3>2
    <2> QED
      BY <1>2, <1>7, <2>1 DEF RivalsRemain, Held
  <1>8. CASE Destroy
    <2>1. /\ ClosedByUser({relays[u] : u \in Urls}) /\ relays' = [u \in Urls |-> NoConn]
      BY <1>8 DEF Destroy
    <2> QED
      BY <1>7, <2>1
  <1>9. ASSUME NEW u \in Urls, CloseRelay(u)
        PROVE  RivalsRemain
    <2>1. /\ ClosedByUser({relays[u]}) /\ relays' = [relays EXCEPT ![u] = NoConn]
      BY <1>9 DEF CloseRelay
    <2> QED
      BY <1>1, <1>7, <2>1
  <1>10. ASSUME NEW c \in Conns, SocketEnding(c)
         PROVE  RivalsRemain
    <2> DEFINE n == [conns[c] EXCEPT !.socket = "ending"]
    <2>1. /\ n.url = conns[c].url /\ n.socket = "ending" /\ conns[c].socket = "open"
          /\ conns' = [conns EXCEPT ![c] = n] /\ relays' = relays
      BY <1>1, <1>10, SocketChange DEF SocketEnding
    <2> HIDE DEF n
    <2>2. \A d \in Conns : /\ conns'[d].url = conns[d].url
                            /\ \/ conns'[d].socket = conns[d].socket
                               \/ conns[d].socket = "open" /\ conns'[d].socket = "ending"
      BY <1>1, <2>1
    <2> QED
      BY <2>1, <2>2, RivalsAside
  <1>11. ASSUME NEW p \in Posts, NEW c \in Conns, NEW e \in SeenEvents, relays' = relays,
                \/ conns' = conns
                \/ conns' = [conns EXCEPT ![c].pendingPublishes[e] = NoConn]
         PROVE  RivalsRemain
    <2> DEFINE n == [conns[c] EXCEPT !.pendingPublishes[e] = NoConn]
    <2>1. n.url = conns[c].url /\ n.socket = conns[c].socket
      BY <1>1, ResolverChange
    <2>2. conns' = conns \/ conns' = [conns EXCEPT ![c] = n]
      BY <1>11
    <2> HIDE DEF n
    <2>3. \A d \in Conns : conns'[d].url = conns[d].url /\ conns'[d].socket = conns[d].socket
      BY <1>1, <2>1, <2>2
    <2> QED
      BY <1>11, <2>3, RivalsAside
  <1>12. ASSUME NEW p \in Posts,
                PublishTimeout(p) \/ \E c \in Conns, ok \in BOOLEAN : OnOk(c, p, ok)
         PROVE  RivalsRemain
    <2>1. PostEvent[p] \in SeenEvents
      BY DEF SimpleAssumption
    <2>2. CASE PublishTimeout(p)
      <3>1. posts[p].on \in Conns
        BY <2>2 DEF PublishTimeout, SimpleInv, PostsInv, SentToItsRelay
      <3> QED
        BY <1>11, <2>1, <2>2, <3>1 DEF PublishTimeout
    <2>3. ASSUME NEW c \in Conns, NEW ok \in BOOLEAN, OnOk(c, p, ok)
          PROVE  RivalsRemain
      BY <1>11, <2>1, <2>3 DEF OnOk
    <2> QED
      BY <1>12, <2>2, <2>3
  <1>13. CASE UNCHANGED simpleVars
    BY <1>13, RivalsAside DEF simpleVars
  <1> QED
    BY <1>1, <1>3, <1>4, <1>5, <1>6, <1>8, <1>9, <1>10, <1>12, <1>13, RivalsOfSubscribe,
       RivalsOfPublish DEF SimpleNext

\* A pool that has done nothing holds no socket.
LEMMA RivalStart == SimpleInit => LostHadRival
  BY DEF SimpleInit, FreeConn, LostHadRival, Held
=============================================================================
