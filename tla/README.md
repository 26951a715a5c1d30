# A TLA+ model of nostr-effect

nostr-effect is a Nostr library in TypeScript on Effect: a relay with two
backends (Bun with SQLite, Cloudflare Durable Objects), a client, and wrappers
with the interface of nostr-tools.  The modules here model what the relay keeps
and sends and how a client holds its connection, check it with TLC on small
instances and prove the main properties of the relay, of the clients and of admission
and administration with TLAPS for any instance.  Paths below are relative to `src/`
of the repository.

## The system

| Component | State | Operations | Talks to | What is hard about it |
|---|---|---|---|---|
| Event store (`relay/storage`, `relay/backends/*/…SqliteStore.ts`) | the `events` table | store, store replaceable, store addressable, delete, query | message handler | DELETE then INSERT without a transaction; versions in any order; ties in one second; limits; expiry |
| Message handler (`relay/core/MessageHandler.ts`) | negentropy sessions, rate limits | EVENT, REQ, CLOSE, COUNT, AUTH, NEG-* | store, subscriptions, policies | several statements per message, any of which may fail; register before query |
| Subscriptions (`SubscriptionManager.ts`) | map connection → id → filters | subscribe, unsubscribe, removeConnection, match | handler, server | outliving or not outliving its socket |
| Policies and NIP modules (`relay/core/policy`, `relay/core/nip`) | none | accept, reject, shadow; pre-store hooks | handler | order of decisions |
| Bun server (`backends/bun/BunServer.ts`) | open sockets | open, message, close, stop | handler | broadcasts to sockets that left; process death |
| Durable Object (`backends/cloudflare/NostrRelayDO.ts`) | runtime in memory, sockets held by the platform | upgrade, message, close, hibernation | handler | memory goes, sockets stay |
| Admission (`AuthService.ts`, `ConnectionManager.ts`, `Nip01Module`, `Nip42Module`) | challenge and pubkey per connection, rate buckets | connect, challenge, AUTH, policies | handler (only when configured) | a challenge against the connection it was made for; windows; limits advertised and enforced |
| Administration (`Nip86AdminService.ts`, HTTP of `BunServer.ts`) | lists, overrides, the information document | management calls | HTTP clients | requests that interleave at their awaits |
| Reconciliation (`wrappers/nip77.ts`, `Nip77Service.ts`, NEG-* of the handler) | sessions, two sets of ids | NEG-OPEN, NEG-MSG, NEG-CLOSE | client and relay | frame limits, splits, timeouts, events that come meanwhile |
| Client connection (`client/RelayService.ts`) | socket, state, timers, maps of subscriptions, OKs, counts, sessions | connect, disconnect, publish, subscribe, count, negOpen | relay, callers | callbacks of old sockets, several timers, timeouts against late answers |
| Client pool (`client/RelayPool.ts`) | map of relays | addRelay, removeRelay, publish, subscribe, close | `RelayService` | map read before an await and written after it |
| SimplePool and Relay (`wrappers/pool.ts`, `wrappers/relay.ts`) | connections, subscriptions, seen events | ensureRelay, subscribe, querySync, publish, close | relays | duplicate sockets, callbacks of replaced connections, promises nobody resolves |
| Remote signing (`client/Nip46Service.ts`) | state, pending requests | connect, request, disconnect | a relay | a state that forbids its own handshake; requests left pending |
| Lists (`client/FollowListService.ts`, `RelayListService.ts`) | none; the relay's replaceable event | get, set, add, remove | `RelayService` | read, modify and write without a version |
| Other client services (`client/*Service.ts`) | none that survives a call | publish an event; read one, some or a stream | `RelayService` | a read while others publish, replace and delete; timers; operations of two publishes |
| Encodings and parsers (`core/Nip*.ts`, `wrappers/`) | none | write, parse | services | tags that stand for several fields; order and repetition of what relays send |
| Cryptography | none | hash, sign, encrypt | | big numbers, not modelled |

What makes each correct: the store keeps one version per slot and never goes
back to an older one; only an author removes its events; a subscription sees
every matching event from its EOSE on, and nothing of it outlives its socket;
a client's calls end, answers reach the call that asked, and a reconnection
forgets no subscription; a map or `connected` names no socket that
is known here to have ended, and a promise that resolves was answered; what a service asks
for it finds, and nothing else; what is written can be read.  `PROJECT.json` lists the hazards line by line.

## Modules

| Module | Models |
|---|---|
| `NostrEvents` | kind ranges, d tag, expiry, filter matching (`core/Schema.ts`, `core/Nip40.ts`, `relay/core/FilterMatcher.ts`) |
| `EventStore` | the statements of both SQLite stores as functions from rows to rows, and what a slot and a newer version are by NIP-01 |
| `RelayCore` | message handling, subscriptions, broadcasts, sockets and the clock; the properties both backends share; the refinement mapping |
| `BunRelay` | `RelayCore` with `BunSqliteStore.queryEvents`, Bun's callbacks, process death |
| `DoRelay` | `RelayCore` with `DoSqliteStore.queryEvents`, the Durable Object's callbacks, hibernation |
| `VersionRegister` | abstract: a register with one version per slot, written by its author only |
| `RelayService` | the client's connection to one relay, with the relay's side of each socket as an environment |
| `RelayPool` | the client's map of relays, the merge of their streams, publish to all |
| `SimplePool` | the pool of `wrappers/pool.ts`: sockets, subscriptions over several relays, `querySync`, publishes, their timers |
| `WrapperRelay` | `wrappers/relay.ts`: one relay, its shared connection promise, sockets it gave up |
| `ReplaceableLists` | follow and relay lists changed by several devices, over `EventStore` |
| `Nip77Sync` | `Nip77Service` against the relay's negentropy messages while events come and go |
| `Nip46` | the client of a remote signer |
| `ServiceCatalog` | what the services of `client/` publish and what they ask for, one operator per operation |
| `ClientServices` | one reading call of the catalog at work over a relay while accounts publish |
| `RelayAccess` | rate limit, policies, NIP-42 over the `ConnectionManager`, NIP-70, advertised limits |
| `RelayAdmin` | NIP-86 calls and the information document of the Bun server |
| `Negentropy` | set reconciliation by ranges of `wrappers/nip77.ts` |
| `Pointers` | NIP-19 entities |
| `EventTags` | how objects are put into tags and taken from them |
| `GitEvents`, `ServiceEvents` | NIP-34 objects; objects of the services, products, listings, files, lists |
| `References` | reactions, reposts, channel messages, threads |
| `Selections` | counts of polls, latest versions, events without repetitions |
| `Chunks` | NIP-BE: a message in chunks |
| `MCBunRelay`, `MCDoRelay`, `MCRelayService`, `MCClientSide`, `MCExchange` | instances for TLC |
| `RelayCoreProofs`, `BunRelayProofs`, `DoRelayProofs`, `RelayServiceProofs`, `SimplePoolProofs`, `ClientSideProofs`, `ServiceProofs`, `ExchangeProofs` | lemmas and theorems |

### Relay: state and actions

`store` is the table (a row is its event), `connections` the sockets the server
can send to, `subscriptions` the manager's map, `now` the clock of the expiry
tests.  `delivered`, `eose`, `offered`, `torn` and `actor` are histories: the
events framed to a subscription, whether its REQ reached EOSE, the events
answered OK true, the slots a failed replacement emptied, and the author of the
EVENT just handled.

One message is one action: Bun runs the handler with `runSync`; on a Durable
Object the effect is synchronous and what follows it is a microtask.
`HandleEvent` is the whole of `handleEvent` (deletions of kinds 5 and 62, the
store statement of the kind, the broadcast); `FailEvent` is the same handler
stopped by a failing statement, with any prefix of its effects; `RefuseEvent`
covers rejected, shadowed and protected events.  `HandleReq`, `FailReq` and
`HandleClose` are REQ and CLOSE; `Open`, `CloseSocket`, `Crash` and `Hibernate`
the fate of sockets, process and object.  Queries that sort by `created_at`
return a set of possible results: SQLite orders ties as it likes.

The two backends look a filter up differently.  Bun reads the newest rows, tests them
with `matchesFilter` and then cuts.  The Durable Object builds a statement per filter
(`WhereClause`), cuts it with LIMIT, and tests what is left.  Its statement has no condition for
`#a`, `#t` or `search`, looks for `#e` and `#p` anywhere in the JSON text of the tags, and for
`#d` in a column that only addressable events have; an event therefore has the pairs its
tags begin with (`tagged`) and those further on (`further`).

Assumed of the configuration: the default assembly (NIP registry, no
`AuthService`, rate limiter off).  `Nip42Loaded` says whether the NIP-42 module
is present; NIP-70 events are refused in either case.  `Existing` is a CHOOSE:
the table has at most one such row, which `OneVersionPerSlot` proves.

### Client: state and actions

`sockets` are slots for WebSocket objects with their `readyState`, where
CONNECTING is split by what awaits it (`connect()` or a timer), since a failed
attempt of a timer schedules the next one twice.  `reconnect` holds the attempts
and the timers: `reconnectTimeout` refers to one, earlier ones that are still
armed are `strays`.  `subscriptions`, `negQueues` and `pending` are the code's
maps; `streams` are the streams a caller reads.  `reqs` and `unanswered` are the
relay's side of a socket.  A callback and the continuation of the fiber it
resumes, a microtask, are one action.  Ids of streams are fresh, as generated
ids are; an id the caller reuses on purpose is outside the model.

### Above one connection

`RelayPool` keeps `relaysRef` and, for each `addRelay`, the copy of the map it read
before it waited; a connection is up or down at any time, which is what
`RelayService` shows its users.  `merged` holds for each subscription what every
relay's stream has received, what waits and what was given; a subscribe that fails at
some relays goes on with the others, and `DeduplicateEvents` says whether what two relays
give is given twice.

`SimplePool` and `WrapperRelay` name each WebSocket object: `conns` and `wsState`
keep the sockets that the map or `ws` has let go, whose callbacks still come.  A
callback and the promises it settles are one action.  A socket that its relay ends is
CLOSING (`ending`) until its `onclose` runs: the map and `connected` still name it, and a REQ or
an EVENT sent to it is lost (`Sent`, `Carries`).  `reqs`, `owed`, `asked` and
`unanswered` are what the relay still has to answer; `accepted` what it accepted.
`seenEvents` is the set with its order of insertion, which decides what the code
drops when it is full.

`ReplaceableLists` splits a change where the code waits: the REQ, its answer or its
timer, the publish and its answer.  A version is stored by the operators of
`EventStore`.  `said` is the list that the returned calls imply, `disturbed`
whether calls overlapped, a read timed out or two versions fell into one second.

`Nip77Sync` has a queue each way per session.  `Nip46` has the state of the
service, its pending requests and where each call stands; encryption is abstract.

### Services and what they exchange

`ServiceCatalog` reduces a service to templates (kind and tags) and queries (a
filter, and how the stream is taken: one event, a loop with a timer each, a loop
with one budget, all until closed).  `DecodeFilter` drops the conditions that the Filter
schema does not have, as `decodeFilter` does.  `ClientServices` runs them: a scenario names
the operations that accounts may publish with, the reading call, what it should find, and
the relay's page.  Three things are told apart: what the relay is asked for (`Asked`, by the
decoded filter), what the call means (`Meant`, by the filter as the service wrote it and the
test it makes itself), and what the caller wants (`Wanted`, the scenario's own list of what the
matching operation publishes).  An event is stamped at the client, at some time since its
operation came to it, and published later (`at \in call.since..clock`), so the relay may get
older events after newer ones.  `rows` is the relay's table,
`wire` the frames on their way of each subscription (one frame of several
subscriptions enters their queues one by one, so their order across subscriptions
says nothing), `queues` the client's.  `BeginCall`,
`PublishNext`, `RefuseNext` and `AbandonCall` are the steps of an operation of one
or more publishes; `StartRead`, `Arrive`, `TakeHead`, `TakeAll`, `TakeTimesOut`
and `BudgetSpent` those of the reader.

`RelayAccess` has the clock, the contexts of the `ConnectionManager`, the buckets
of the limiter and histories: who proved which key on which life of a connection
(`epoch` counts them), and what was stored through which.  Policies are data that
`PolicyOf` interprets as `Policy.ts` does.  `RelayAdmin` has an action for every
stretch of a management request between two awaits.  `Negentropy` keeps both
sides' items, the message on its way and what the callbacks were given; a
fingerprint is the set it stands for, and the length of a message counts its
parts.  `lastTimestampOut` is kept because bounds are coded as differences from it.

The format modules have three steps: write an object, or receive what another
program wrote, and read it.  Text is a member of a small set except where its
form matters (colons in identifiers, lengths in TLV entries, the scheme of a URL).

### Composition

Pool, wrappers, lists, services and formats share no state: each talks to relays of
its own in a process of its own.  `MCClientSide` and `MCExchange` therefore join
their modules as a sum: `part` chooses one in the initial state, and the others
stay as they began, so that one run gives the states of each, added and not
multiplied.  Properties of these runs name the part they are about.  The parts that
do interact are composed by EXTENDS: `EventStore` in `RelayCore`, `ReplaceableLists`
and `ClientServices`; `ServiceCatalog` in `ClientServices`; `EventTags` in
`GitEvents`, `ServiceEvents` and `References`.

## Runs

| Run | Bounds | Question |
|---|---|---|
| `bun_store` | 12 events of two authors in 9 slots or so, one socket, clock 0..1, statements may fail | is the table a register of versions? |
| `bun_delivery` | 4 events, 2 sockets, 3 filter lists (two filters, a limit, none), cap of 2 for an unfiltered query | does a subscription see what it should? |
| `bun_torn` | as `bun_store` | fails: a replacement may lose both versions |
| `do_relay` | 4 events, 2 sockets, 5 filter lists (7 filters, of which 3 have statements that are not exact), page 2, largest limit 3 | pages, and the map against what clients want |
| `do_hibernation` | 4 events, one filter | fails: open sockets are not served after hibernation |
| `do_vanish` | 3 events of one author besides the request, page 2 | fails: a page of events is deleted, not all |
| `client_streams` | 2 sockets at a time, a subscription, a session, 3 attempts, 1 stray timer | streams under reconnection |
| `client_calls` | 2 sockets, an event and a COUNT, 2 calls | answers, entries and the end of calls |
| `client_disconnect` | one subscription, 2 attempts | fails: disconnect is followed by a reconnection |
| `client_side` | pool: 2 URLs, 2 `addRelay`, 2 events; SimplePool: 2 relays, 3 sockets, 2 subscriptions, 2 publishes of one event, a set of 2 seen events; Relay: 3 sockets; lists: 2 devices, 2 entries, 2 modes; reconcile: 2 events, one held locally | do maps, promises and streams tell the truth, and do publishes end? |
| `exchange` | a scenario per reading operation with 2 or 3 events, of which six for conditions that are dropped or tested late and two whose page is cut at one event; 2 connections with 2 lives, 3 submissions, 5 AUTH events; 3 management requests; 8 ids over 3 seconds, of which a side holds some of six, or seven; objects with fields absent, present and repeated | is what is asked found, admission sound, and what is written read? |
| `signer` | one handshake, one method | fails: connect never asks the signer |

Why these bounds are enough to meet the cases: the events of `bun_store` hold a
tie within a second in which the later id is lower, two addressable slots of
which one has an empty d tag, an event that expires at the first tick, a
deletion that names two ids, a stranger's deletion that names the same, a
protected event and an invalid one.  The scaled constants (100 and 1000 rows in
the code) are smaller than the number of events, so limits do cut.  Two sockets
let an old one end after a new one has opened; one stray timer lets two attempts
overlap; three attempts let them be used up with a timer still armed; two calls
share one event id.  The theorems below do not depend on any of these bounds.

In `client_side`, three sockets allow one given up, one that replaced it and one
more, and each may be CLOSING; the set of seen events drops its older half when a third event comes; two
publishes of one event share a resolver.  `Separate` keeps publishes apart from
subscriptions, whose maps have nothing in common, and allows no delivery once a
third socket is in use.  In `exchange`, six ids in groups of a second, which differ
in the first byte or the last, make bounds of every length of prefix; `Buckets` 2
makes ranges split three times, and `MaxFrame` cuts messages off; two initiates
are needed to reuse an object.  The clock of `RelayAccess` passes two windows.
`ByteSize` 4 and `KeyLen` 2 leave room for wrong lengths, repeated entries and
unknown types in six bytes.  Three posts make a reply to a reply.  `Focus` lets the
connections be made twice, then one event pass, and refers to no object with three
foreign tags.  In scenarios in which any account's events are wanted and several are read, it
lets one account publish, as the others are alike; in that of `rollOverToken`, whose
property knows no times, the clock stands.  Two management requests are enough for one to
change a field while the other waits; the theorem is of any number.

`PROJECT.json` pairs each property with a mutant of a mapped definition, such as
a forgotten DELETE or a lost tie-break, that the run of the property finds.

### Fairness

The relay's properties and the stream properties are safety and assume none.
`CallsEnd` is checked under weak fairness of each call's `Timeout` alone:
`setTimeout` fires as long as the process lives.  `PostsEnd` assumes `TimersFire`,
the same of SimplePool's timers of connections, publishes and `maxWait`.  Nothing
is assumed of the relay, the network or other callers.

### Disagreements found

The five violation runs are disagreements of the code with its own comments and
documents, quoted under `findings` in `PROJECT.json`: replacement without a
transaction, subscriptions lost to hibernation, a request to vanish cut at a
page, reconnection after `disconnect()`, and a `connect()` to a remote signer
that fails before it asks.  (In that model no answer ever comes, since no request
is ever pending.)

Others are stated by the models and checked by no run.  A formula named here is a
definition of its module that the code does not satisfy; the property that a run
does check excepts the case.

- `AddedStays` (`RelayPool`): `addRelay` writes back the copy of the map it read
  before it waited, so overlapping additions are lost (`client/RelayPool.ts:142`).
- `QueriesEnd` (`SimplePool`): `querySync` resolves only through `onclose`, which
  comes when every relay failed; with one relay that answers it needs `maxWait`
  (`wrappers/pool.ts:541`).
- `AddKeeps` (`ReplaceableLists`): two devices, or a read that times out, lose the
  entries of a list (`client/FollowListService.ts:194`, `:254`).
- `HaveIsExact` (`Negentropy`): facing this repository's relay, which answers with
  what the client lacks only, every id of the client is reported as missing there.
- The information document of the Bun server also shows `config.relayInfo.limitation`, which
  nothing enforces.  `AdvertisedIsEnforced` means the merge of the modules' limits
  (`relay/core/nip/NipModule.ts:150`).
- `AuthRequiredEnforced` (`RelayAccess`): the NIP-42 module advertises
  `auth_required` and has no policy for it (`relay/core/nip/modules/Nip42Module.ts:31`).
- The Durable Object answers a filter with `#a`, `#t` or `search`, and sometimes one with
  `#e`, `#p` or `#d`, from a page that LIMIT filled with rows that do not match: a REQ such as
  `{"#t": ["nostr"], "limit": 20}` may get fewer events than there are, or none, when the newest
  20 rows have no such tag (`backends/cloudflare/DoSqliteStore.ts:275`, `:282`, `:387`).
  `PageDelivered` says nothing of filters that are not `Exact`; in `do_relay`, `posts`,
  `topical` and `mentions` are such.
- A socket that its relay has ended is CLOSING until its `onclose`.  In between, the map of
  `SimplePool` and `connected` of a `Relay` call it connected, and what is sent is dropped: a
  publish ends by its timer, a subscription hears nothing (`wrappers/pool.ts:219`, `:411`,
  `wrappers/relay.ts:110`).  `SocketsAreLive` says no more than that neither names a socket whose
  `onclose` has run or that was closed here.
- A late `onclose` of `SimplePool` deletes by URL the entry of an open socket, and one of `Relay`
  clears the socket made since (`wrappers/pool.ts:264`, `wrappers/relay.ts:159`): it stays open and
  nothing closes it.  `SocketsAreLive` says that this takes a second socket (`LostHadRival`,
  `UnusedHadRival`), not that it cannot be.
- Some services write conditions that the Filter schema drops, and return what they should
  leave out: `findIncoming({mints})` (`#u`, `client/NutzapService.ts:143`), `findRecommendations`
  with `filterByKind` (`#k`, `client/MintDiscoverabilityService.ts:299`), `queryLabels` with
  `namespaces` (`L` without `#`) and with targets such as `r` (`client/Nip32Service.ts:92`), and
  `getHandlers` (`#k`, `client/HandlerService.ts:325`).  Each is a scenario of `exchange`;
  `AskedIsMeant` allows a call to get more than it means only where a condition is dropped
  (`IsNarrowed`), and theorem `CatalogIsRead` states for each what decides and what does not.
- `findRelays` tests network, NIP and topic after it has counted an event, so with a limit the
  records of other topics use it up, and it may return none of those it looks for
  (`client/RelayDiscoveryService.ts:213`-`244`).  Its test finds one of two records with a limit
  of five; in one scenario here the limit is one.  `FoundIfStored` excepts a call whose own test
  refused what it took.
- A pull of a stream takes all that waits and `runHead` keeps the first, so the loops of
  `runHead` lose the events that wait behind it (`dropped`).
- A second `initiate` of one negentropy object codes its bounds from the last bound
  it sent: it may lose differences, and, when a bound is read before 0, report ids that
  both sides hold (`wrappers/nip77.ts:314`).  `NeedIsExact` and `DifferencesAreKnown`
  (`Negentropy`) are therefore claimed of the first initiate only.
- `DifferencesAreKnown` also fails when the frame limit cuts off two answers in a row: "a
  fingerprint for the remaining range" begins after the range that did not fit, and when
  nothing is after it the other side, which has nothing there either, takes the two
  sets for equal (`wrappers/nip77.ts:408`).  After a single cut the fingerprint differs
  from what the other side has, and the range comes back.
- `rollOverToken` deletes the old token although the relay refused the new one
  (`client/CashuWalletService.ts:161`).
- What `Tellable` (`GitEvents`) and `TagsTell` (`ServiceEvents`) exclude is read
  back as something else: a mention without an owner is read as the owner, a commit
  without the earliest one as that, the toggles of a group by the nip29 wrapper,
  the magnet link of a file, identifiers with a colon.

## Proofs

All theorems are checked by `tlapm` (SMT, Zenon, LS4) and assume only the named
assumptions on the constants.

*Relay.*  `IInv` is `StoreInv /\ DeliveryInv`.  `StoreInv` joins `TypeOK`,
`OneVersionPerSlot` and `AcceptedSurvives`: the code looks at one incumbent row
only, so that a replacement leaves one version needs that there was one before,
and that an accepted event survives a replacement needs that what replaced it is
the one row of its slot.  `RelayCoreProofs` proves what `Treat` does to a table
with one version per slot and carries it over each action;
`DeliveryInv` adds that subscriptions have sockets and that no answered
subscription without limits has a gap.  `BunRelayProofs` concludes the
invariants and, from them, the action properties `OnlyOwnerRemoves` and
`NeverOlder`.  `NewestDelivered` needs `NewestInv`: that what a subscription was
shown is finite, for a page is counted, and that the limit it is counted against
was a number, which a REQ that left anything out proves.  `DoRelayProofs` reuses
the lemmas of the core for the Durable Object, proves `MapWithinWanted`, and
`PageDelivered` from the same argument, filter by filter, for the filters whose statement is
exact (`Exact`, a condition on the filter and the events, not on the state).  Both backends implement
`VersionRegister` under `LatestVersion`: every action is a write of one author or a
stutter, whatever rows the deletions of the backend find (`HandleEventWrites`,
`FailEventWithdraws`); TLC checks it of the Bun table only, in `bun_store`.

*Client.*  `IInv` joins `TypeOK`, `StateTellsSocket`, `OpenStreamsListed`,
`NoStreamForgotten` and `EntriesWait`.  `NoStreamForgotten` is not inductive by
itself: that the REQs a timer sends again cover the open streams is
`OpenStreamsListed`, and that a lost socket leaves a timer or no attempt is in
the lemma on `OnClose`.  `AnswersMatch` follows from `EntriesWait`.

*Pools and lists.*  `MCClientSide` runs five components side by side, each with a
tuple of variables of its own, so that a step of one leaves the others unchanged:
`PartsHold` proves the invariant of each over the common specification, and the
theorems of `ClientSideProofs` take their properties from it.  For `RelayPool` the
invariant is about the copies: an `addRelay` in flight works on a map that differs
from the pool's in what other calls wrote since.  For `SimplePool`
(`SimplePoolProofs`) it says to whom a socket belongs: a slot is named by the map, is
awaited by one `ensureRelay`, or was given up, and every subscription, timer and
resolver names slots of its own life; `FailedOrEosed` needs in addition that a
relay is counted once.  `WrapperRelay` needs that one promise is shared by all who
wait.  For the lists the invariant relates what a device read to the rows that
were there then; for NIP-77, what a session reported to what both sides had when
it opened.

*Admission and administration* (`ExchangeProofs`, over the specification of
`MCExchange`).  `AuthIsOwners` follows from `AuthInv`: a pubkey of a context was
proved against a challenge, and every challenge in a context was made since that
context was created.  `AdvertisedIsEnforced` needs the assumption on the modules,
`ModulesAssumption`: a module that advertises a limit has the policy that tests it; lemma
`Nip01Tests` shows it of the modules in the code.  `RateHolds` follows from `RateInv`, which counts by
window: the events admitted in the current one are at most its counter, those of
the one before at most the limit.  `DocumentShowsChanges` follows from `AdminInv`:
a change is made once, the overrides hold the last one made, and a document is
built from overrides no older than its request.

*Services* (`ServiceProofs`, concluded in `ExchangeProofs`).  `CallInv` says where a call of
a service is in its operation, `EverInv` what the relay has ever stored, `ReadInv` what of it
is where on the way to the reader: every row that the query asks for had no place on the page,
or was answered, is forwarded to the queue, was taken, or came when the reader had ended.
From these follow `HeadIsLatest` (the event taken is the latest of those asked for that were
stored before the read), `FoundIfStored`, `OnlyAsked` and `StreamComplete`.  Their theorems have
two hypotheses on the scenarios, and neither says what a query asks for: `HasOperations` (an
operation is a sequence of at least one event) and `IsReader` (limits are counts or absent; a
call that takes one event has one query; a stream makes no test of its own, and of its
subscriptions no two ask for the same event).  A limit may cut, and so may the relay's page:
`HadNoPlace` is where `StreamComplete` allows for that.  `TokensAreKept` has
`ReplacesBeforeDeleting`: where tokens are published, an operation that deletes has published
a token first; `TokenInv` adds to the property that, once a call has published a token that
was not refused, its author has one that the rest of the operation does not refer to.

What the calls of the catalogue ask for is proved apart from that, for all their arguments.
`CatalogIsRead` says of each which events of the operation it goes with it gets: those of the
author, address or topic it names, whatever the conditions that `decodeFilter` drops.
`CatalogReads` and `CatalogReplaces` show that every call, with any limit and page, is an
`IsReader`, and that operations of one event and `rollOverToken` satisfy the other hypotheses
(where tokens are published, no other operation deletes); `CatalogIsServed` concludes the
properties of a read and `TokenKept` together.  Its scenarios are not the list of
`MCExchange` but any that are made of calls of the catalogue.  That a call asks for what the
scenario's list says it should find (`AskedIsMeant`, the third part of `AskedIsFound`) is
checked by TLC for the scenarios of the run.

*Selections* (`Selections`, proved in `ServiceProofs`).  What the code computes by a `reduce`
over the responses is a fold here, and lemma `FoldExists` and those named `...Fold` show that
a fold has its function for a sequence of any length, so that what it computes can be
followed element by element.  `Arrivals` says only that what came are responses; from it
follow that what is counted is the first of each voter's latest responses in time, that
repetitions change nothing, and that the order does not either (`VotesFree`), hence
`VotesAreFree`.

*Negentropy* (`Negentropy`, proved in `ServiceProofs`).  The argument has four layers.  Items
and bounds are in one strict order (`BeforeTotal`), a sealed storage lists its items by it
(`SealedIs`), and each bound cuts it at one index, which `findLowerBound` finds
(`LowerBoundIsCut`); the minimal bound of two neighbours cuts between them
(`MinimalBoundIsCut`).  A message is a `Run`: its bounds do not decrease, and each range is
`Fair` about what its sender holds from the bound before it, with the weaker form for the
last fingerprint of an answer that was cut off.  The ranges that `splitRange` makes are such
a run and leave out no item (`SplitTells`), and of a run the other side decodes what was
encoded (`MessageIsRead`: timestamps are sent as differences, which would be read wrongly if
they could decrease).  Reading a run range by range (`AtRangeStep`, `ExactStep`, `ToldStep`)
tells the callbacks of differences only, keeps the output a run, and leaves each difference
of a range that was read either known or within the output.  `NegInv` puts this together:
during the first exchange of an object every difference is known to one side, or in a range
of the message in flight that is no skip; when no message is in flight, all are known.  It
needs `initiates = 1`, as `initiate` does not reset the last timestamp it sent, and
`cuts < 2`, as the second of two answers that are cut off may lose the remaining range; for
both TLC has shown what goes wrong without them.  A fingerprint stands for the set of ids,
so the theorem is modulo collisions of SHA-256.

*Chunks* (`Chunks`, proved in `ServiceProofs`).  `WrittenIsRead` checks two things of chunks;
`ChunksAreReassembled` proves the second, `AnyOrderIsRead`, for any messages, chunk sizes and
width of a byte.  `FragmentCuts` says where each chunk of a message starts and ends and that its
index, in two bytes, is its place (`IndexIsTold`; this is where `ChunksAssumption` needs the
indices to fit).  Chunks that came in another order are a permutation of these (`ShuffleIs`), as
many precede each of them as have a smaller index (`PlaceIs`), so that sorting puts them back
(`SortedIs`), and their payloads one after the other are the bytes that were cut
(`PayloadsAre`).  `ChunksArrive`, what was sent and received, is all the invariant it takes.
The first, `NothingElseIsRead`, cannot be proved of every compression: nothing in a chunk names
its message, and only the checksum within the compressed bytes tells that chunks of two messages
were mixed, which TLC checks for the bytes of the run.

*Only model-checked*: of `client_side` the liveness properties; of `exchange` `AskedIsMeant`, the rest of
`WrittenIsRead`, the outputs of encodings and parsers, and `ExchangeTypesOK`, the types of all
its parts.  The readers of tags (`GitEvents`, `ServiceEvents`, `References`, `Pointers`) are
written with `SelectSeq`, a primitive of the prover's of which it has no facts.
Liveness under fairness, ENABLED and induction over data other than numbers are out of the
prover's reach.

## Not modelled, and the plan

Left out for good: cryptography (signatures, NIP-04, NIP-44, NIP-49, NIP-59 and key
derivation are functions of big numbers: events enter verified or not); scanners
of text (NIP-21, NIP-27, NIP-30, NIP-54), `fakejson` and other character work; HTTP
of other servers (Blossom uploads, NIP-05, NIP-11 fetches, LNURL); starting and
mounting servers; `count`, which only reads; and the wrappers that rename what
core and services do.  `BunServer.stop` needs to know what Bun does with open
sockets, which is not in this code.  Backpressure of `ws.send` is ignored by the
code and here.  The Cloudflare store is modelled by its own declaration of
`.one()`, which may return null.  A request to vanish that an EVENT's own hooks
then refuse cannot occur with the default modules.  Events carry at most one d tag.
The `BunkerSigner` of `wrappers/nip46.ts` and wallet connections (NIP-47) are not
modelled yet.

Simplifications to know of: fingerprints never collide, and timestamps stay below
2^31 (`decodeVarInt` reads more as negative); ids of streams and sessions are
fresh.  Values with a quotation mark in them, which the Durable Object's `instr` may take for
the end of a name, are left out.

`ReassembledIsSent` and the other round trips of the formats need induction over the data
and stay with TLC.
