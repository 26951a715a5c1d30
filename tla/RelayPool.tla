------------------------------ MODULE RelayPool ------------------------------
(* The client's pool of relays (client/RelayPool.ts): a map from URLs to     *)
(* connections, read before addRelay waits and written after it; publishing  *)
(* to every connected relay; and the merge of the relays' streams.           *)
(* Each addRelay creates one connection, so a connection is named by the     *)
(* call that created it.  RelayService models what a connection does; here   *)
(* it is up or down, and goes from one to the other at any time.             *)
EXTENDS Naturals, FiniteSets, Sequences

CONSTANTS PoolUrls,       \* normalized URLs
          Adds,           \* calls of addRelay
          PoolSubs,       \* calls of subscribe
          PoolPubs,       \* calls of publish
          PoolEvents,
          AutoConnect,    \* config.autoConnect
          DeduplicateEvents,  \* config.deduplicateEvents
          NoEntry

ASSUME PoolAssumption ==
    AutoConnect \in BOOLEAN /\ DeduplicateEvents \in BOOLEAN /\ NoEntry \notin Adds

VARIABLES relaysRef,      \* the map: URL -> connection
          adds,           \* what each addRelay has done
          up,             \* connections that are connected
          merged,         \* what each subscription holds
          pubs,           \* what each publish holds
          promised,       \* history: the URLs that the calls which returned leave in the pool
          overlapped      \* history: a call changed the map while an addRelay waited

poolVars == <<relaysRef, adds, up, merged, pubs, promised, overlapped>>

EmptyMap == [u \in PoolUrls |-> NoEntry]
Listed == {u \in PoolUrls : relaysRef[u] # NoEntry}
Entries == {relaysRef[u] : u \in Listed}
ConnectedRelays == {u \in Listed : relaysRef[u] \in up}

NoAdd == [step |-> "idle", url |-> NoEntry, relays |-> EmptyMap]
NoSub == [step |-> "idle", handles |-> {}, ended |-> {}, waiting |-> [a \in Adds |-> {}],
          received |-> [a \in Adds |-> {}], seen |-> {}, delivered |-> <<>>]
NoPub == [step |-> "idle", asked |-> {}, accepted |-> {}, failed |-> {}]

PoolInit ==
    /\ relaysRef = EmptyMap
    /\ adds = [a \in Adds |-> NoAdd]
    /\ up = {}
    /\ merged = [k \in PoolSubs |-> NoSub]
    /\ pubs = [p \in PoolPubs |-> NoPub]
    /\ promised = {}
    /\ overlapped = FALSE

Waiting == {a \in Adds : adds[a].step \in {"creating", "connecting"}}
Created == {a \in Adds : adds[a].step \notin {"idle", "present"}}

-----------------------------------------------------------------------------
(* The map *)

\* addRelay until its first await: the map as it is now is kept for later.
AddRelay(a, u) ==
    /\ adds[a].step = "idle"
    /\ IF relaysRef[u] # NoEntry
       THEN adds' = [adds EXCEPT ![a] = [step |-> "present", url |-> u, relays |-> EmptyMap]]
       ELSE adds' = [adds EXCEPT ![a] = [step |-> "creating", url |-> u, relays |-> relaysRef]]
    /\ UNCHANGED <<relaysRef, up, merged, pubs, promised, overlapped>>

\* Mutant: the copy is written back as it was kept.
WriteCopy(a) ==
    LET url == adds[a].url IN
    /\ relaysRef' = adds[a].relays
    /\ adds' = [adds EXCEPT ![a] = [step |-> "added", url |-> url, relays |-> EmptyMap]]
    /\ promised' = promised \union {url}
    /\ overlapped' = (overlapped \/ Waiting # {a})

\* The last two statements of addRelay, on the copy it has kept.
Write(a) ==
    LET url == adds[a].url IN
    /\ relaysRef' = [adds[a].relays EXCEPT ![url] = a]
    /\ adds' = [adds EXCEPT ![a] = [step |-> "added", url |-> url, relays |-> EmptyMap]]
    /\ promised' = promised \union {url}
    /\ overlapped' = (overlapped \/ Waiting # {a})

\* makeRelayServiceScoped has connected, whatever autoConnect says; the connect that
\* follows finds the state connected.
CreateConnected(a) ==
    /\ adds[a].step = "creating"
    /\ up' = up \union {a}
    /\ Write(a)
    /\ UNCHANGED <<merged, pubs>>

\* Its attempt has failed, which it ignores; without autoConnect the relay is added.
CreateFails(a) ==
    /\ adds[a].step = "creating"
    /\ IF AutoConnect
       THEN /\ adds' = [adds EXCEPT ![a].step = "connecting"]
            /\ UNCHANGED <<relaysRef, promised, overlapped>>
       ELSE Write(a)
    /\ UNCHANGED <<up, merged, pubs>>

ConnectSucceeds(a) ==
    /\ adds[a].step = "connecting"
    /\ up' = up \union {a}
    /\ Write(a)
    /\ UNCHANGED <<merged, pubs>>

\* addRelay fails: its connection is in no map, with its reconnection timer running.
ConnectFails(a) ==
    /\ adds[a].step = "connecting"
    /\ adds' = [adds EXCEPT ![a] = [step |-> "failed", url |-> adds[a].url, relays |-> EmptyMap]]
    /\ UNCHANGED <<relaysRef, up, merged, pubs, promised, overlapped>>

\* disconnect() shuts down the queues of a connection: their streams end, what waits is lost.
Disconnected(gone) ==
    /\ up' = up \ gone
    /\ merged' = [k \in PoolSubs |->
                    [merged[k] EXCEPT !.ended = @ \union (gone \intersect merged[k].handles),
                                      !.waiting = [a \in Adds |-> IF a \in gone THEN {} ELSE @[a]]]]

RemoveRelay(u) ==
    /\ relaysRef[u] # NoEntry
    /\ Disconnected({relaysRef[u]})
    /\ relaysRef' = [relaysRef EXCEPT ![u] = NoEntry]
    /\ promised' = promised \ {u}
    /\ overlapped' = (overlapped \/ Waiting # {})
    /\ UNCHANGED <<adds, pubs>>

Close ==
    /\ Listed # {}
    /\ Disconnected(Entries)
    /\ relaysRef' = EmptyMap
    /\ promised' = {}
    /\ overlapped' = (overlapped \/ Waiting # {})
    /\ UNCHANGED <<adds, pubs>>

\* A connection is lost, or its own timers bring it back; RelayService shows that
\* disconnect() does not stop them.
GoesDown(a) ==
    /\ a \in up
    /\ up' = up \ {a}
    /\ UNCHANGED <<relaysRef, adds, merged, pubs, promised, overlapped>>

ComesUp(a) ==
    /\ a \in Created \ (Waiting \union up)
    /\ up' = up \union {a}
    /\ UNCHANGED <<relaysRef, adds, merged, pubs, promised, overlapped>>

-----------------------------------------------------------------------------
(* Subscriptions *)

\* One subscribe at each connected relay.  Those that fail are left out without a word; it
\* fails itself when there is none or every one fails.
PoolSubscribe(k) ==
    /\ merged[k].step = "idle"
    /\ \E handles \in SUBSET (Entries \intersect up) :
          merged' = [merged EXCEPT ![k] =
                       IF handles = {} THEN [NoSub EXCEPT !.step = "refused"]
                       ELSE [NoSub EXCEPT !.step = "open", !.handles = handles]]
    /\ UNCHANGED <<relaysRef, adds, up, pubs, promised, overlapped>>

\* A relay sends an event, which its connection puts in the queue of the handle.
Receive(k, a, e) ==
    /\ merged[k].step = "open"
    /\ a \in (merged[k].handles \ merged[k].ended) \intersect up
    /\ merged' = [merged EXCEPT ![k].waiting[a] = @ \union {e},
                                ![k].received[a] = @ \union {e}]
    /\ UNCHANGED <<relaysRef, adds, up, pubs, promised, overlapped>>

\* Mutant: the merged stream is not filtered.
MergeAll(k, a, e) ==
    /\ merged[k].step = "open"
    /\ e \in merged[k].waiting[a]
    /\ merged' = [merged EXCEPT
                    ![k].waiting[a] = @ \ {e},
                    ![k].seen = @ \union {e},
                    ![k].delivered = Append(@, e)]
    /\ UNCHANGED <<relaysRef, adds, up, pubs, promised, overlapped>>

\* One element of one stream through mergeAll, mapAccum and filter, when the reader pulls.
Merge(k, a, e) ==
    /\ merged[k].step = "open"
    /\ e \in merged[k].waiting[a]
    /\ merged' = [merged EXCEPT
                    ![k].waiting[a] = @ \ {e},
                    ![k].seen = IF DeduplicateEvents THEN @ \union {e} ELSE @,
                    ![k].delivered = IF e \in merged[k].seen THEN @ ELSE Append(@, e)]
    /\ UNCHANGED <<relaysRef, adds, up, pubs, promised, overlapped>>

PoolUnsubscribe(k) ==
    /\ merged[k].step = "open"
    /\ merged' = [merged EXCEPT ![k].step = "closed", ![k].waiting = [a \in Adds |-> {}]]
    /\ UNCHANGED <<relaysRef, adds, up, pubs, promised, overlapped>>

-----------------------------------------------------------------------------
(* Publishing *)

PoolPublish(p) ==
    /\ pubs[p].step = "idle"
    /\ pubs' = [pubs EXCEPT ![p] =
                  IF Entries \intersect up = {} THEN [NoPub EXCEPT !.step = "done"]
                  ELSE [NoPub EXCEPT !.step = "waiting", !.asked = Entries \intersect up]]
    /\ UNCHANGED <<relaysRef, adds, up, merged, promised, overlapped>>

\* The call of one connection ends, with the relay's answer or an error; the last one
\* resumes Effect.all.
Answered(p, a, accepted) ==
    LET pub == [pubs[p] EXCEPT
                  !.accepted = IF accepted THEN @ \union {a} ELSE @,
                  !.failed = IF accepted THEN @ ELSE @ \union {a}]
    IN
    /\ pubs[p].step = "waiting"
    /\ a \in pubs[p].asked \ (pubs[p].accepted \union pubs[p].failed)
    /\ pubs' = [pubs EXCEPT ![p] =
                  [pub EXCEPT !.step = IF pub.accepted \union pub.failed = pub.asked
                                       THEN "done" ELSE "waiting"]]
    /\ UNCHANGED <<relaysRef, adds, up, merged, promised, overlapped>>

PoolNext ==
    \/ \E a \in Adds :
         \/ \E u \in PoolUrls : AddRelay(a, u)
         \/ CreateConnected(a) \/ CreateFails(a) \/ ConnectSucceeds(a) \/ ConnectFails(a)
         \/ GoesDown(a) \/ ComesUp(a)
    \/ \E u \in PoolUrls : RemoveRelay(u)
    \/ Close
    \/ \E k \in PoolSubs :
         \/ PoolSubscribe(k) \/ PoolUnsubscribe(k)
         \/ \E a \in Adds, e \in PoolEvents : Receive(k, a, e) \/ Merge(k, a, e)
    \/ \E p \in PoolPubs :
         \/ PoolPublish(p)
         \/ \E a \in Adds, accepted \in BOOLEAN : Answered(p, a, accepted)

PoolSpec == PoolInit /\ [][PoolNext]_poolVars

-----------------------------------------------------------------------------
(* Properties *)

PoolTypeOK ==
    /\ relaysRef \in [PoolUrls -> Adds \union {NoEntry}]
    /\ adds \in [Adds -> [step : {"idle", "creating", "connecting", "added", "present", "failed"},
                          url : PoolUrls \union {NoEntry},
                          relays : [PoolUrls -> Adds \union {NoEntry}]]]
    /\ up \subseteq Adds
    /\ merged \in [PoolSubs ->
         [step : {"idle", "refused", "open", "closed"}, handles : SUBSET Adds, ended : SUBSET Adds,
          waiting : [Adds -> SUBSET PoolEvents], received : [Adds -> SUBSET PoolEvents],
          seen : SUBSET PoolEvents, delivered : Seq(PoolEvents)]]
    /\ pubs \in [PoolPubs -> [step : {"idle", "waiting", "done"}, asked : SUBSET Adds,
                              accepted : SUBSET Adds, failed : SUBSET Adds]]
    /\ promised \subseteq PoolUrls
    /\ overlapped \in BOOLEAN

\* As long as no call changes the map while an addRelay waits for its connection, the
\* pool lists exactly the relays that the calls which returned have left in it.
MapIsWhatCallsSay == overlapped \/ Listed = promised

\* A URL is only ever bound to a connection that an addRelay of this URL has made, and a
\* connection to one URL, also when a stale copy of the map is written back.
EntriesAreOfTheirUrl ==
    \A u \in Listed : adds[relaysRef[u]].url = u /\ adds[relaysRef[u]].step = "added"

\* The merged stream gives an event once, whatever number of relays send it (unless the pool
\* is configured to give it as often), and loses none: what a connection that let the pool
\* subscribe received, and has not lost by a disconnect, is given or waits.
MergedExactly ==
    \A k \in PoolSubs :
      LET given == {merged[k].delivered[i] : i \in DOMAIN merged[k].delivered} IN
      /\ DeduplicateEvents =>
           \A i, j \in DOMAIN merged[k].delivered :
              merged[k].delivered[i] = merged[k].delivered[j] => i = j
      /\ merged[k].step = "open" =>
           \A a \in merged[k].handles \ merged[k].ended :
              merged[k].received[a] = (given \intersect merged[k].received[a])
                                        \union merged[k].waiting[a]

\* A publish that has returned names every relay it asked, in one of its two lists.
EveryRelayReported ==
    \A p \in PoolPubs : pubs[p].step = "done" =>
        /\ pubs[p].accepted \union pubs[p].failed = pubs[p].asked
        /\ pubs[p].accepted \intersect pubs[p].failed = {}

\* What addRelay has added stays until a removeRelay or a close: what "Add a relay to the
\* pool" means to the second of two callers.
AddedStays == promised \subseteq Listed
=============================================================================
