------------------------------- MODULE Nip77Sync -------------------------------
(* Nip77Service.reconcile against the relay's NEG-OPEN, NEG-MSG and NEG-CLOSE:  *)
(* one list of ids each way, while the events of the relay change.  A session   *)
(* has an id of its own, and the messages of one session arrive in order.       *)
EXTENDS Naturals, FiniteSets, Sequences

CONSTANTS SyncIds,        \* events that match the filter
          Sessions,       \* calls of reconcile or open
          LocalIds,       \* localIds of each call
          MaxInFlight     \* bound: messages on their way when a session sends one more

ASSUME SyncAssumption == LocalIds \in [Sessions -> SUBSET SyncIds] /\ MaxInFlight \in Nat

VARIABLES held,           \* ids the relay's query finds
          toRelay,        \* messages of each session on their way
          toClient,
          negSessions,    \* the relay's table of sessions
          syncs,          \* the client's side
          always, ever    \* history: ids held all the time, or at some time, since the call began

syncVars == <<held, toRelay, toClient, negSessions, syncs, always, ever>>

SyncInit ==
    /\ held \in SUBSET SyncIds
    /\ toRelay = [s \in Sessions |-> << >>] /\ toClient = [s \in Sessions |-> << >>]
    /\ negSessions = {}
    /\ syncs = [s \in Sessions |-> [step |-> "idle", result |-> {}]]
    /\ always = [s \in Sessions |-> {}] /\ ever = [s \in Sessions |-> {}]

Send(s, type, ids) == toRelay' = [toRelay EXCEPT ![s] = Append(@, [type |-> type, ids |-> ids])]
Running == {s \in Sessions : syncs[s].step = "waiting"}

\* open: the NEG-OPEN with the list of the local ids.
SyncOpen(s) ==
    /\ syncs[s].step = "idle"
    /\ syncs' = [syncs EXCEPT ![s].step = "waiting"]
    /\ Send(s, "NEG-OPEN", LocalIds[s])
    /\ always' = [always EXCEPT ![s] = held] /\ ever' = [ever EXCEPT ![s] = held]
    /\ UNCHANGED <<held, toClient, negSessions>>

\* A message of the session's own, through the handle that open returned.
SyncSend(s, ids) ==
    /\ syncs[s].step = "waiting" /\ Len(toRelay[s]) + Len(toClient[s]) < MaxInFlight
    /\ Send(s, "NEG-MSG", ids)
    /\ UNCHANGED <<held, toClient, negSessions, syncs, always, ever>>

\* Mutant: the relay answers with all it finds.
RelayNegAll(s) ==
    /\ toRelay[s] # << >> /\ Head(toRelay[s]).type \in {"NEG-OPEN", "NEG-MSG"}
    /\ negSessions' = IF Head(toRelay[s]).type = "NEG-OPEN" THEN negSessions \union {s} ELSE negSessions
    /\ toClient' = [toClient EXCEPT ![s] =
                      Append(@, [type |-> IF s \in negSessions' THEN "NEG-MSG" ELSE "NEG-ERR", ids |-> held])]
    /\ toRelay' = [toRelay EXCEPT ![s] = Tail(@)]
    /\ UNCHANGED <<held, syncs, always, ever>>

\* NEG-OPEN and NEG-MSG at the relay: what the query finds now without the client's ids.
RelayNeg(s) ==
    /\ toRelay[s] # << >> /\ Head(toRelay[s]).type \in {"NEG-OPEN", "NEG-MSG"}
    /\ LET m == Head(toRelay[s])
           missing == [type |-> "NEG-MSG", ids |-> held \ m.ids]
           noSession == [type |-> "NEG-ERR", ids |-> {}]
       IN /\ negSessions' = IF m.type = "NEG-OPEN" THEN negSessions \union {s} ELSE negSessions
          /\ toClient' = [toClient EXCEPT ![s] =
                            Append(@, IF s \in negSessions' THEN missing ELSE noSession)]
    /\ toRelay' = [toRelay EXCEPT ![s] = Tail(@)]
    /\ UNCHANGED <<held, syncs, always, ever>>

RelayNegClose(s) ==
    /\ toRelay[s] # << >> /\ Head(toRelay[s]).type = "NEG-CLOSE"
    /\ negSessions' = negSessions \ {s}
    /\ toRelay' = [toRelay EXCEPT ![s] = Tail(@)]
    /\ UNCHANGED <<held, toClient, syncs, always, ever>>

\* The first message of the stream wins the race with the timeout; reconcile closes.
SyncAnswered(s) ==
    /\ syncs[s].step = "waiting" /\ toClient[s] # << >>
    /\ syncs' = [syncs EXCEPT ![s] =
                   IF Head(toClient[s]).type = "NEG-MSG"
                   THEN [step |-> "answered", result |-> Head(toClient[s]).ids]
                   ELSE [step |-> "empty", result |-> {}]]
    /\ toClient' = [toClient EXCEPT ![s] = Tail(@)]
    /\ Send(s, "NEG-CLOSE", {})
    /\ UNCHANGED <<held, negSessions, always, ever>>

\* The timeout: an empty list, as if nothing were missing.
SyncTimeout(s) ==
    /\ syncs[s].step = "waiting"
    /\ syncs' = [syncs EXCEPT ![s] = [step |-> "empty", result |-> {}]]
    /\ Send(s, "NEG-CLOSE", {})
    /\ UNCHANGED <<held, toClient, negSessions, always, ever>>

\* A message after close(): its queue is gone.
SyncLate(s) ==
    /\ syncs[s].step \in {"answered", "empty"} /\ toClient[s] # << >>
    /\ toClient' = [toClient EXCEPT ![s] = Tail(@)]
    /\ UNCHANGED <<held, toRelay, negSessions, syncs, always, ever>>

\* Events are stored and deleted.
HeldChanges(new) ==
    /\ held' = new
    /\ always' = [s \in Sessions |-> IF s \in Running THEN always[s] \intersect new ELSE always[s]]
    /\ ever' = [s \in Sessions |-> IF s \in Running THEN ever[s] \union new ELSE ever[s]]
    /\ UNCHANGED <<toRelay, toClient, negSessions, syncs>>

SyncNext ==
    \/ \E s \in Sessions :
         \/ SyncOpen(s) \/ RelayNeg(s) \/ RelayNegClose(s)
         \/ SyncAnswered(s) \/ SyncTimeout(s) \/ SyncLate(s)
         \/ \E ids \in SUBSET SyncIds : SyncSend(s, ids)
    \/ \E id \in SyncIds \ held : HeldChanges(held \union {id})
    \/ \E id \in held : HeldChanges(held \ {id})

SyncSpec == SyncInit /\ [][SyncNext]_syncVars

-----------------------------------------------------------------------------
(* Properties *)

SyncTypeOK ==
    LET Messages == [type : {"NEG-OPEN", "NEG-MSG", "NEG-CLOSE", "NEG-ERR"}, ids : SUBSET SyncIds] IN
    /\ held \subseteq SyncIds /\ negSessions \subseteq Sessions
    /\ toRelay \in [Sessions -> Seq(Messages)] /\ toClient \in [Sessions -> Seq(Messages)]
    /\ syncs \in [Sessions -> [step : {"idle", "waiting", "answered", "empty"},
                               result : SUBSET SyncIds]]
    /\ always \in [Sessions -> SUBSET SyncIds] /\ ever \in [Sessions -> SUBSET SyncIds]

\* What an answered reconcile returns was true while it ran: every id the relay held all the
\* time and the client lacks, and none that the relay never held or the client has.
AnsweredIsDifference ==
    \A s \in Sessions : syncs[s].step = "answered" =>
        /\ always[s] \ LocalIds[s] \subseteq syncs[s].result
        /\ syncs[s].result \subseteq ever[s] \ LocalIds[s]

\* The relay forgets a session when its last message has arrived, however the answer, the
\* timeout and the close overtake each other.
SessionsEnd ==
    \A s \in Sessions :
        (syncs[s].step \in {"answered", "empty"} /\ toRelay[s] = << >>) => s \notin negSessions
=============================================================================
