---------------------------- MODULE ServiceCatalog ----------------------------
(* What each service of client/ publishes and what it asks a relay for, one   *)
(* operator per operation.  An operation that publishes is the template of    *)
(* its event: the kind and the tags that some query looks at, as pairs of a   *)
(* name and a value.  An operation that reads is its query: the filter it     *)
(* builds, and how it takes events from the subscription.  Content,           *)
(* encryption and the other tags are left out.                                *)
EXTENDS NostrEvents, FiniteSets, Sequences

\* An address is the value of an "a" tag; an event id is a number.
Template(kind, tags) == [kind |-> kind, tags |-> tags]

Or(n, default) == IF n = NoLimit THEN default ELSE n

(* mode is how the events of the subscription are taken:                      *)
(*   head    one runHead or a timer                                           *)
(*   loop    a loop of runHead with a timer each, which ends at the first     *)
(*           timeout, after `takes` of them or when its budget is spent       *)
(*   each    `takes` times runHead or a timer, whatever the timers did        *)
(*   stream  the stream itself, until `takes` events, a timer or unsubscribe  *)
(* local is what the service tests itself, after it has counted the event.    *)
AskFor(kinds) ==
    [ids |-> {}, authors |-> {}, kinds |-> kinds, tags |-> {}, limit |-> NoLimit,
     mode |-> "head", takes |-> 1, local |-> {}]

First(q) == [q EXCEPT !.limit = 1]
Loop(q, n, default) == [q EXCEPT !.mode = "loop", !.limit = n, !.takes = Or(n, default)]
\* The limit of the filter and the number of takes have defaults of their own.
Each(q, n, default) ==
    [q EXCEPT !.mode = "each", !.limit = Or(n, default), !.takes = Or(n, 1)]
Streamed(q, n) == [q EXCEPT !.mode = "stream", !.limit = n, !.takes = n]

\* The latest event of one author at one address.
FirstAt(kind, author, d) ==
    First([AskFor({kind}) EXCEPT !.authors = {author}, !.tags = {<<"d", d>>}])

\* The latest event of one author and kind.
FirstBy(kind, author) == First([AskFor({kind}) EXCEPT !.authors = {author}])

\* A query's own conditions: OR over the values of a tag name, AND over the names.
TagNames(q) == {t[1] : t \in q.tags}
Asks(q, e) ==
    /\ q.ids # {} => e.id \in q.ids
    /\ q.authors # {} => e.pubkey \in q.authors
    /\ q.kinds # {} => e.kind \in q.kinds
    /\ \A name \in TagNames(q) : \E t \in q.tags : t[1] = name /\ t \in e.tags

\* decodeFilter keeps the fields of the Filter schema: conditions on any other tag are
\* dropped, without an error.
FilterTags == {"e", "p", "a", "d", "t", "search"}
DecodeFilter(q) == [q EXCEPT !.tags = {t \in @ : t[1] \in FilterTags}]

-----------------------------------------------------------------------------
(* Application data, articles, lists, status, bookmarks *)

PutAppData(key) == Template(30078, {<<"d", key>>})
GetAppData(author, key) == FirstAt(30078, author, key)
\* The limit counts the events taken and is not part of the filter.
ListKeys(author, n) ==
    [Loop([AskFor({30078}) EXCEPT !.authors = {author}], n, 100) EXCEPT !.limit = NoLimit]

PublishArticle(d) == Template(30023, {<<"d", d>>})
GetArticle(author, d) == FirstAt(30023, author, d)
ListArticles(author, n) == Loop([AskFor({30023}) EXCEPT !.authors = {author}], n, 10)

\* publishList fails for an addressable kind without d; of the tags only d is queried.
ListNeedsD(kind) == IsParameterizedReplaceableKind(kind)
PublishList(kind, d) ==
    Template(kind, IF ListNeedsD(kind) THEN {<<"d", d>>} ELSE {})
GetLatestList(author, kind, d, n) ==
    [FirstBy(kind, author) EXCEPT !.limit = Or(n, 1),
                                  !.tags = IF ListNeedsD(kind) THEN {<<"d", d>>} ELSE {}]

PublishStatus(type) == Template(30315, {<<"d", type>>})
ClearStatus(type) == PublishStatus(type)
GetStatus(author, type) == FirstAt(30315, author, type)

\* Mutant: the scheme is kept.
UrlAsGiven(url) == url.scheme \o url.rest

\* The d tag of a bookmark: its URL without the scheme and the trailing slash.
ToDTag(url) == url.rest
PublishBookmark(url, topics) ==
    Template(39701, {<<"d", ToDTag(url)>>} \union {<<"t", t>> : t \in topics})
GetByUrl(url, authors) ==
    First([AskFor({39701}) EXCEPT !.authors = authors, !.tags = {<<"d", ToDTag(url)>>}])
ListByTopic(topic, authors, n) ==
    Each([AskFor({39701}) EXCEPT !.authors = authors, !.tags = {<<"t", topic>>}], n, NoLimit)

-----------------------------------------------------------------------------
(* Money *)

UpsertWallet == Template(17375, {})
PublishToken == Template(7375, {})
PublishSpendingHistory(redeemed) == Template(7376, {<<"e", id>> : id \in redeemed})
DeleteToken(old) == Template(5, {<<"e", old>>, <<"k", 7375>>})
\* Mutant: the old token is deleted first.
DeleteThenPublish(old) == <<DeleteToken(old), PublishToken>>
\* rollOverToken: a token and then the deletion of the one it replaces.
RollOverToken(old) == <<PublishToken, DeleteToken(old)>>
GetLatestWallet(author) == FirstBy(17375, author)
GetTokens(author, n) == Each([AskFor({7375}) EXCEPT !.authors = {author}], n, 10)
GetHistory(author, n) == Each([AskFor({7376}) EXCEPT !.authors = {author}], n, 10)

PublishNutzapInfo == Template(10019, {})
GetNutzapInfo(author) == FirstBy(10019, author)
PublishNutzap(recipient, mint) == Template(9321, {<<"p", recipient>>, <<"u", mint>>})
FindIncoming(recipient, mints, n) ==
    Each([AskFor({9321}) EXCEPT !.tags = {<<"p", recipient>>} \union {<<"u", m>> : m \in mints}],
         n, 3)
Redeem(nutzap, sender) == Template(7376, {<<"e", nutzap>>, <<"p", sender>>})

PublishCashuMintInfo(d, url) == Template(38172, {<<"d", d>>, <<"u", url>>})
PublishFedimintInfo(d, invites) ==
    Template(38173, {<<"d", d>>} \union {<<"u", i>> : i \in invites})
\* The a tags of a recommendation, kind:pubkey:d.
MintPointers(pointers) == {<<"a", p>> : p \in pointers}
RecommendMint(kind, d, pointers) ==
    Template(38000, {<<"k", kind>>, <<"d", d>>} \union MintPointers(pointers))
GetMintInfoByD(kind, d) == First([AskFor({kind}) EXCEPT !.tags = {<<"d", d>>}])
FindRecommendations(kinds, authors, n) ==
    Each([AskFor({38000}) EXCEPT !.authors = authors, !.tags = {<<"k", k>> : k \in kinds}],
         n, NoLimit)

-----------------------------------------------------------------------------
(* Marketplace: the user interface is addressable and has no d tag *)

PublishStall(id) == Template(30017, {<<"d", id>>})
GetStall(author, id) == FirstAt(30017, author, id)
PublishProduct(id, categories) ==
    Template(30018, {<<"d", id>>} \union {<<"t", c>> : c \in categories})
GetProduct(author, id) == FirstAt(30018, author, id)
PublishMarketUI == Template(30019, {})
GetMarketUI(author, n) == Each([AskFor({30019}) EXCEPT !.authors = {author}], n, 3)
PublishAuction(id, categories) ==
    Template(30020, {<<"d", id>>} \union {<<"t", c>> : c \in categories})
GetAuction(author, id) == FirstAt(30020, author, id)
PublishBid(auction) == Template(1021, {<<"e", auction>>})
ConfirmBid(bid, auction) == Template(1022, {<<"e", bid>>, <<"e", auction>>})

-----------------------------------------------------------------------------
(* Calendars, live events, videos, labels, polls, threads, snippets, chat *)

PublishDateEvent(d, hashtags, calendars) ==
    Template(31922, {<<"d", d>>} \union {<<"t", h>> : h \in hashtags}
                      \union {<<"a", c>> : c \in calendars})
PublishTimeEvent(d, hashtags, calendars) ==
    [PublishDateEvent(d, hashtags, calendars) EXCEPT !.kind = 31923]
PublishCalendar(d, includes) ==
    Template(31924, {<<"d", d>>} \union {<<"a", i>> : i \in includes})
PublishRsvp(d, address) == Template(31925, {<<"a", address>>, <<"d", d>>})
GetByD(kind, author, d) == FirstAt(kind, author, d)

PublishLiveEvent(d) == Template(30311, {<<"d", d>>})
GetLiveEvent(author, d) == FirstAt(30311, author, d)
PublishLiveChat(author, d) == Template(1311, {<<"a", <<30311, author, d>>>>})

PublishVideo(kind, hashtags) == Template(kind, {<<"t", h>> : h \in hashtags})
ListVideos(kinds, authors, n) ==
    Loop([AskFor(IF kinds = {} THEN {21, 22} ELSE kinds) EXCEPT !.authors = authors], n, 5)

\* targetToTag: what a label is about is one tag.
PublishLabel(namespaces, target) ==
    Template(1985, {<<"L", ns>> : ns \in namespaces} \union {target})
\* The condition on namespaces is under "L", not "#L".
QueryLabels(namespaces, targets, n) ==
    Loop([AskFor({1985}) EXCEPT !.tags = {<<"L", ns>> : ns \in namespaces} \union targets],
         n, 10)

PublishPoll == Template(1068, {})
PublishResponse(poll) == Template(1018, {<<"e", poll>>})
ListResponses(poll, authors, n) ==
    Loop([AskFor({1018}) EXCEPT !.authors = authors, !.tags = {<<"e", poll>>}], n, 10)

PublishThread == Template(11, {})
ReplyToThread(root) == Template(1111, {<<"e", root.id>>, <<"p", root.pubkey>>, <<"k", 11>>})
ListThreadsByAuthor(author, n) ==
    Each([AskFor({11}) EXCEPT !.authors = {author}], n, NoLimit)

PublishSnippet == Template(1337, {})
ListSnippets(author, n) == Each([AskFor({1337}) EXCEPT !.authors = {author}], n, NoLimit)

SendChat == Template(9, {})
\* The quoted parent is in a q tag, which no query looks at.
ReplyChat == SendChat
ListChats(author, n) == Each([AskFor({9}) EXCEPT !.authors = {author}], n, NoLimit)

\* search is a field of the Filter schema, which the relay looks for in the content: a
\* word of the content is modelled as a tag of that name.
Search(word, kinds, authors, n) ==
    Each([AskFor(kinds) EXCEPT !.authors = authors, !.tags = {<<"search", word>>}], n, NoLimit)

PublishKeyPackage == Template(443, {})
PublishKeyPackageRelays == Template(10051, {})
GetLatestKeyPackage(author) == FirstBy(443, author)

-----------------------------------------------------------------------------
(* Relays and application handlers *)

PublishDiscovery(relay, network, nips, topics) ==
    Template(30166, {<<"d", relay>>, <<"n", network>>} \union {<<"N", n>> : n \in nips}
                      \union {<<"t", t>> : t \in topics})
PublishMonitorAnnouncement == Template(10166, {})
GetLatestForRelay(relay) == First([AskFor({30166}) EXCEPT !.tags = {<<"d", relay>>}])
\* The relay is asked for any relay's record; network, NIP and topic are tested here.
FindRelays(conditions, n) == [Loop(AskFor({30166}), n, 10) EXCEPT !.local = conditions]

PublishHandlerInfo(d, kinds) ==
    Template(31990, {<<"d", d>>} \union {<<"k", k>> : k \in kinds})
PublishRecommendation(kind, handler) == Template(31989, {<<"d", kind>>, <<"a", handler>>})
GetHandlers(kind, authors) ==
    Streamed([AskFor({31990}) EXCEPT !.authors = authors, !.tags = {<<"k", kind>>}], NoLimit)
GetRecommendations(kind, authors) ==
    Streamed([AskFor({31989}) EXCEPT !.authors = authors, !.tags = {<<"d", kind>>}], NoLimit)
GetHandlerByAddress(author, d) == FirstAt(31990, author, d)

-----------------------------------------------------------------------------
(* Channels and groups *)

CreateChannel == Template(40, {})
UpdateChannelMetadata(channel) == Template(41, {<<"e", channel>>})
SendMessage(channel, replyTo) ==
    Template(42, {<<"e", channel>>} \union {<<"e", r>> : r \in replyTo})
HideMessage(message) == Template(43, {<<"e", message>>})
MuteUser(user) == Template(44, {<<"p", user>>})
\* getChannel: the channel, then the metadata its creator published.
GetChannel(channel) == First([AskFor({40}) EXCEPT !.ids = {channel}])
GetChannelMetadata(channel, creator) ==
    First([AskFor({41}) EXCEPT !.authors = {creator}, !.tags = {<<"e", channel>>}])
GetMessages(channel, n) ==
    Streamed([AskFor({42}) EXCEPT !.tags = {<<"e", channel>>}], Or(n, 50))

\* What a relay publishes of its groups, external; the client asks for it by group only.
GroupEvent(kind, group) == Template(kind, {<<"d", group>>})
FetchEventByKind(kind, group) == First([AskFor({kind}) EXCEPT !.tags = {<<"d", group>>}])

-----------------------------------------------------------------------------
(* Jobs: the answers are read from two subscriptions, merged *)

IsJobRequestKind(kind) == kind \in 5000..5999
CreateJobRequest(kind, providers) == Template(kind, {<<"p", p>> : p \in providers})
CancelJob(request) == Template(5, {<<"e", request>>})
\* A provider's answers, external.
Feedback(request) == Template(7000, {<<"e", request>>})
JobResult(kind, request) == Template(kind + 1000, {<<"e", request>>})
SubscribeToJob(request) ==
    <<Streamed([AskFor({7000}) EXCEPT !.tags = {<<"e", request>>}], NoLimit),
      Streamed([AskFor(6000..6999) EXCEPT !.tags = {<<"e", request>>}], NoLimit)>>

CreateSandbox == Template(5700, {})
Execute(sandbox) == Template(5701, {<<"sandbox", sandbox>>})
UploadFile(sandbox) == Template(5702, {<<"sandbox", sandbox>>})
DownloadFile(sandbox) == Template(5703, {<<"sandbox", sandbox>>})
Control(sandbox) == Template(5704, {<<"sandbox", sandbox>>})
SandboxStatus(sandbox) == Template(5705, {<<"sandbox", sandbox>>})
GitClone(sandbox) == Template(5706, {<<"sandbox", sandbox>>})
PortForward(sandbox) == Template(5707, {<<"sandbox", sandbox>>})
SubscribeToRequest(request, kind) ==
    <<Streamed([AskFor({7000}) EXCEPT !.tags = {<<"e", request>>}], NoLimit),
      Streamed([AskFor({kind + 1000}) EXCEPT !.tags = {<<"e", request>>}], NoLimit)>>
=============================================================================
