---------------------------- MODULE ClientServices ----------------------------
(* The services of client/ at work over one relay: accounts publish with the  *)
(* operations of ServiceCatalog, and one call reads with a query of it while  *)
(* they do.  A scenario is the operations that may run and the subscriptions  *)
(* of the reader.  The relay is that of RelayCore, which stores with          *)
(* EventStore, answers a REQ with its newest events and then sends what it    *)
(* stores; the frames of one subscription arrive in order (those of another   *)
(* may pass them, which no one could tell).  How many events it gives at most *)
(* is the scenario's page: without limits for the Bun relay's store, 100 and  *)
(* 1000 for the Durable Object's.  The reader takes from the queue            *)
(* of each subscription as RelayService's Stream.fromQueue gives it: a pull   *)
(* takes all that waits, and runHead keeps the first of it.                   *)
EXTENDS ServiceCatalog, EventStore, SequencesExt

CONSTANTS Scenarios,      \* [operations: sets of sequences of templates, reader: queries,
                          \*  by, wanted: what it should find, page: the relay's default and
                          \*  greatest limit, ids: bound on the events]
          Accounts,
          MaxTime,        \* bound: the clock
          Idle

ASSUME ClientServicesAssumption ==
    /\ MaxTime \in Nat
    /\ \A s \in Scenarios : Len(s.reader) > 0 /\ s.ids \subseteq Nat /\ IsFiniteSet(s.ids)

VARIABLES scenario,
          rows,           \* what the relay stores
          clock,
          call,           \* the operation in progress: its author, templates to come, and
                          \* since when the next of them may have been stamped
          reader,         \* step, takes done, what it has found
          wire,           \* of each subscription: the events in flight to the reader
          queues,         \* and its queue
          ever,           \* history: every event the relay accepted
          before,         \* history: what was stored when the reader subscribed
          dropped,        \* history: events that a runHead took and threw away
          refused         \* history: accounts whose operation went on after a refusal

servicesVars ==
    <<scenario, rows, clock, call, reader, wire, queues, ever, before, dropped,
      refused>>

Subscriptions == DOMAIN scenario.reader
EmptyQueues == [i \in Subscriptions |-> <<>>]

ServicesInit ==
    /\ scenario \in Scenarios
    /\ rows = {} /\ clock = 0
    /\ call = Idle
    /\ reader = [step |-> "idle", taken |-> 0, found |-> <<>>]
    /\ wire = EmptyQueues /\ queues = EmptyQueues
    /\ ever = {} /\ before = {} /\ dropped = {} /\ refused = {}

-----------------------------------------------------------------------------
(* Publishing *)

\* createEvent, with the time of the client; its id is a hash.
Event(id, author, template, at) ==
    [id |-> id, created_at |-> at, kind |-> template.kind, pubkey |-> author,
     d |-> IF \E t \in template.tags : t[1] = "d"
           THEN (CHOOSE t \in template.tags : t[1] = "d")[2] ELSE NoTag,
     e |-> {t[2] : t \in {u \in template.tags : u[1] = "e"}},
     protected |-> FALSE, expiration |-> Never, tags |-> template.tags]

\* Events are referred to after they exist.
Refers(template) == {t[2] : t \in {u \in template.tags : u[1] = "e"}}
CanRefer(op) == \A i \in DOMAIN op : Refers(op[i]) \subseteq {x.id : x \in ever}

BeginCall(author, op) ==
    /\ call = Idle
    /\ CanRefer(op)
    /\ call' = [author |-> author, rest |-> op, since |-> clock]
    /\ UNCHANGED <<scenario, rows, clock, reader, wire, queues, ever, before, dropped, refused>>

Deleted(e) == IF e.kind = DeletionKind THEN {x \in rows : x.id \in e.e /\ x.pubkey = e.pubkey}
              ELSE {}

\* The relay sends an event it has stored to the reader's subscriptions that ask for it.
Forwarded(e) ==
    [i \in Subscriptions |-> IF Asks(DecodeFilter(scenario.reader[i]), e)
                             THEN Append(wire[i], e) ELSE wire[i]]

\* What is left of a call after its next event.
CallGoesOn == [call EXCEPT !.rest = Tail(@), !.since = clock]

\* relay.publish of the call's next event, which was stamped before, with the relay's
\* handling of it.
PublishNext(id, at) ==
    /\ call # Idle
    /\ id \notin {x.id : x \in ever}
    /\ at \in call.since..clock
    /\ LET e == Event(id, call.author, Head(call.rest), at)
           result == Treat(rows \ Deleted(e), e)
       IN
       /\ rows' = result.rows
       /\ ever' = ever \union {e}
       /\ wire' = IF result.stored /\ reader.step = "reading" THEN Forwarded(e) ELSE wire
    /\ call' = IF Len(call.rest) = 1 THEN Idle ELSE CallGoesOn
    /\ UNCHANGED <<scenario, clock, reader, queues, before, dropped, refused>>

\* A publish fails, or the process ends: the rest of the operation is not done.
AbandonCall ==
    /\ call # Idle
    /\ call' = Idle
    /\ UNCHANGED <<scenario, rows, clock, reader, wire, queues, ever, before, dropped, refused>>

\* The relay answers OK false to an event of a call that does not look at the answer
\* (after the last event, this is AbandonCall).
RefuseNext ==
    /\ call # Idle /\ Len(call.rest) > 1
    /\ call' = CallGoesOn
    /\ refused' = refused \union {call.author}
    /\ UNCHANGED <<scenario, rows, clock, reader, wire, queues, ever, before, dropped>>

TickSecond ==
    /\ clock < MaxTime
    /\ clock' = clock + 1
    /\ UNCHANGED <<scenario, rows, call, reader, wire, queues, ever, before, dropped, refused>>

-----------------------------------------------------------------------------
(* Reading *)

IsNewestFirst(s) == \A i, j \in DOMAIN s : i < j => s[i].created_at >= s[j].created_at

\* The most events that the relay gives to a query.
PageLimit(q) ==
    CASE q.limit = NoLimit -> scenario.page.default
      [] scenario.page.most # NoLimit /\ q.limit # NoLimit /\ q.limit > scenario.page.most ->
           scenario.page.most
      [] OTHER -> q.limit

CutTo(s, n) == SubSeq(s, 1, IF n = NoLimit \/ n > Len(s) THEN Len(s) ELSE n)

\* Mutant: the answer is cut before it is sorted.
PagesUnsorted(q) ==
    LET matching == {x \in rows : Asks(DecodeFilter(q), x)} IN
    {CutTo(s, PageLimit(q)) : s \in SetToSeqs(matching)}

\* The relay's answers to one REQ: a page of events, newest first, ties in any order.
Pages(q) ==
    LET matching == {x \in rows : Asks(DecodeFilter(q), x)} IN
    {CutTo(s, PageLimit(q)) : s \in {t \in SetToSeqs(matching) : IsNewestFirst(t)}}

\* relay.subscribe, of each of the reader's queries.
StartRead ==
    /\ reader.step = "idle"
    /\ reader' = [reader EXCEPT !.step = "reading"]
    /\ wire' \in [Subscriptions -> UNION {Pages(scenario.reader[i]) : i \in Subscriptions}]
    /\ \A i \in Subscriptions : wire'[i] \in Pages(scenario.reader[i])
    /\ before' = rows
    /\ UNCHANGED <<scenario, rows, clock, call, queues, ever, dropped, refused>>

\* A frame reaches the client.
Arrive(i) ==
    /\ wire[i] # <<>> /\ reader.step = "reading"
    /\ queues' = [queues EXCEPT ![i] = Append(@, Head(wire[i]))]
    /\ wire' = [wire EXCEPT ![i] = Tail(@)]
    /\ UNCHANGED <<scenario, rows, clock, call, reader, ever, before, dropped, refused>>

Mode == scenario.reader[1].mode
Takes == scenario.reader[1].takes
Keeps(e) == scenario.reader[1].local \subseteq e.tags
Counted(found, taken) ==
    [step |-> IF Mode # "stream" /\ taken = Takes THEN "done" ELSE "reading",
     taken |-> taken, found |-> found]

\* runHead: the pull empties the queue, and all but its first element are gone.
TakeHead(i) ==
    /\ reader.step = "reading" /\ Mode # "stream" /\ queues[i] # <<>>
    /\ LET e == Head(queues[i]) IN
       reader' = Counted(IF Keeps(e) THEN Append(reader.found, e) ELSE reader.found,
                         reader.taken + 1)
    /\ queues' = [queues EXCEPT ![i] = <<>>]
    /\ dropped' = dropped \union ToSet(Tail(queues[i]))
    /\ UNCHANGED <<scenario, rows, clock, call, wire, ever, before, refused>>

\* Mutant: a pull gives one element and the others are lost.
TakeFirst(i) ==
    /\ reader.step = "reading" /\ Mode = "stream" /\ queues[i] # <<>>
    /\ LET found == Append(reader.found, Head(queues[i]))
           full == Takes # NoLimit /\ Len(found) >= Takes
       IN reader' = [step |-> IF full THEN "done" ELSE "reading", taken |-> reader.taken,
                     found |-> found]
    /\ queues' = [queues EXCEPT ![i] = <<>>]
    /\ UNCHANGED <<scenario, rows, clock, call, wire, ever, before, dropped, refused>>

\* runForEach, with take(n): every element of the pull counts.
TakeAll(i) ==
    /\ reader.step = "reading" /\ Mode = "stream" /\ queues[i] # <<>>
    /\ LET found == reader.found \o queues[i]
           full == Takes # NoLimit /\ Len(found) >= Takes
       IN reader' = [step |-> IF full THEN "done" ELSE "reading", taken |-> reader.taken,
                     found |-> IF full THEN SubSeq(found, 1, Takes) ELSE found]
    /\ queues' = [queues EXCEPT ![i] = <<>>]
    /\ UNCHANGED <<scenario, rows, clock, call, wire, ever, before, dropped, refused>>

\* The timer of one take: an element that waits would have won the race.
TakeTimesOut ==
    /\ reader.step = "reading" /\ \A i \in Subscriptions : queues[i] = <<>>
    /\ reader' = IF Mode = "each" THEN Counted(reader.found, reader.taken + 1)
                 ELSE [reader EXCEPT !.step = "done"]
    /\ UNCHANGED <<scenario, rows, clock, call, wire, queues, ever, before, dropped, refused>>

\* The timer of a whole loop, which may run out between two takes.
BudgetSpent ==
    /\ reader.step = "reading" /\ Mode = "loop"
    /\ reader' = [reader EXCEPT !.step = "done"]
    /\ UNCHANGED <<scenario, rows, clock, call, wire, queues, ever, before, dropped, refused>>

ServicesNext ==
    \/ \E a \in Accounts, op \in scenario.operations : BeginCall(a, op)
    \/ \E id \in scenario.ids, at \in 0..clock : PublishNext(id, at)
    \/ RefuseNext \/ AbandonCall
    \/ TickSecond
    \/ StartRead
    \/ \E i \in Subscriptions : Arrive(i) \/ TakeHead(i) \/ TakeAll(i)
    \/ TakeTimesOut \/ BudgetSpent

ServicesSpec == ServicesInit /\ [][ServicesNext]_servicesVars

-----------------------------------------------------------------------------
(* Properties.  A call asks for what its filters, as decodeFilter leaves them, *)
(* let through; what its service means is said by the filters as it wrote them *)
(* and by its own test; and what the caller wants is given beside the query:   *)
(* what the matching operation publishes, by the accounts it names.            *)

Sees(i, e) == Asks(DecodeFilter(scenario.reader[i]), e)
Asked(e) == \E i \in Subscriptions : Sees(i, e)
Meant(e) == (\E i \in Subscriptions : Asks(scenario.reader[i], e)) /\ Keeps(e)
Wanted(e) ==
    e.pubkey \in scenario.by /\ [kind |-> e.kind, tags |-> e.tags] \in scenario.wanted

\* The call has conditions that decodeFilter drops.
IsNarrowed ==
    \E i \in Subscriptions : DecodeFilter(scenario.reader[i]) # scenario.reader[i]

\* How often an event is among the sequences of the subscriptions, and in all.
Copies(seqs, e) ==
    Cardinality({p \in UNION {{i} \X DOMAIN seqs[i] : i \in Subscriptions} : seqs[p[1]][p[2]] = e})
TimesGiven(e) ==
    Cardinality({i \in DOMAIN reader.found : reader.found[i] = e})
      + Copies(wire, e) + Copies(queues, e)

ServicesTypeOK ==
    /\ scenario \in Scenarios
    /\ rows \subseteq ever /\ before \subseteq ever /\ dropped \subseteq ever
    /\ \A x \in ever : x.id \in scenario.ids /\ x.created_at \in 0..clock /\ x.pubkey \in Accounts
    /\ clock \in 0..MaxTime
    /\ \/ call = Idle
       \/ call.author \in Accounts /\ Len(call.rest) > 0 /\ call.since \in 0..clock
    /\ reader.step \in {"idle", "reading", "done"} /\ reader.taken \in Nat
    /\ ToSet(reader.found) \subseteq ever /\ refused \subseteq Accounts
    /\ wire \in [Subscriptions -> Seq(ever)] /\ queues \in [Subscriptions -> Seq(ever)]

\* A service that looks for one event returns the latest version of what it asks for that
\* was stored when the call began, whatever is published, replaced or tied meanwhile.
HeadIsLatest ==
    Mode = "head" /\ reader.found # <<>> =>
        /\ Asked(reader.found[1])
        /\ \A x \in before : Asked(x) => x.created_at <= reader.found[1].created_at

\* A call that returns nothing although the relay had what it asks for has run out of time
\* before the first frame, or has taken events that its own test then refused.
FoundIfStored ==
    /\ reader.step = "done" /\ reader.found = <<>>
    /\ wire = EmptyQueues /\ queues = EmptyQueues
    /\ ~\E y \in ever : Asked(y) /\ ~Keeps(y)
    => ~\E x \in before : Asked(x)

\* A service returns nothing but what it was asked for, and what its own test keeps.
OnlyAsked == \A i \in DOMAIN reader.found : Asked(reader.found[i]) /\ Keeps(reader.found[i])

\* A service means what the matching operation publishes, and asks for it; it asks for more
\* only where decodeFilter drops a condition of it.
AskedIsMeant ==
    \A e \in ever :
        /\ Meant(e) <=> Wanted(e)
        /\ Meant(e) => Asked(e)
        /\ Asked(e) /\ Keeps(e) => Meant(e) \/ IsNarrowed

\* An event had no place on its page: others took it, as new and given themselves.
HadNoPlace(e) ==
    \E i \in Subscriptions :
        /\ e \in before /\ Sees(i, e) /\ PageLimit(scenario.reader[i]) # NoLimit
        /\ Cardinality({y \in before : /\ Sees(i, y) /\ y # e /\ TimesGiven(y) = 1
                                        /\ y.created_at >= e.created_at})
             >= PageLimit(scenario.reader[i])

\* A stream that has not ended gives every event it asks for, stored before the subscription
\* or while it is open, exactly once; only one that was stored before and had no place on
\* the page is never given.
StreamComplete ==
    Mode = "stream" /\ reader.step = "reading" =>
        \A x \in before \union rows : Asked(x) =>
            TimesGiven(x) = 1 \/ (TimesGiven(x) = 0 /\ HadNoPlace(x))

\* rollOverToken never leaves an account without a token, wherever it stops: the old one
\* is deleted after the new one is stored.  It does not look at the relay's answer, so this
\* holds of the accounts whose new token the relay did not refuse.
TokenKept ==
    \A a \in Accounts \ refused :
        (\E x \in ever : x.kind = 7375 /\ x.pubkey = a) =>
            \E x \in rows : x.kind = 7375 /\ x.pubkey = a
=============================================================================
