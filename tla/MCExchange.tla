----------------------------- MODULE MCExchange -----------------------------
(* What clients and relays give each other: the services of the client over a  *)
(* relay, what a relay lets in (RelayAccess) and shows of itself (RelayAdmin), *)
(* reconciliation (Negentropy), and the formats of what they exchange.  These  *)
(* share no state, so one run takes them in turn: part says which one a        *)
(* behaviour is of, and the others stay as they began.                         *)
EXTENDS ClientServices, RelayAccess, RelayAdmin, Negentropy,
        Pointers, GitEvents, ServiceEvents, References, Selections, Chunks

CONSTANTS message1, message2

VARIABLE part

-----------------------------------------------------------------------------
(* ClientServices: one scenario per operation that reads, with the operations  *)
(* that publish what it wants, others that publish something close to it, and  *)
(* its query.  The relay is the Bun one, whose pages have no bound, except     *)
(* where a page is smaller than what is stored.                                *)

NoBound == [default |-> NoLimit, most |-> NoLimit]
OnePerPage == [default |-> 1, most |-> 1]

Reads(wanted, noise, by, query) ==
    [operations |-> {<<t>> : t \in wanted \union noise}, by |-> by, wanted |-> wanted,
     reader |-> <<query>>, page |-> NoBound, ids |-> {1, 2}]

ByA(wanted, noise, query) == Reads(wanted, noise, {"a"}, query)
ByAny(wanted, noise, query) == Reads(wanted, noise, Accounts, query)

PlainUrl == [scheme |-> "https://", rest |-> "x"]
OtherUrl == [scheme |-> "http://", rest |-> "x"]

HeadScenarios ==
    {ByA({PutAppData("x")}, {PutAppData("y")}, GetAppData("a", "x")),
     ByA({PublishArticle("x")}, {PublishArticle("y")}, GetArticle("a", "x")),
     ByA({PublishList(30000, "x")}, {PublishList(30000, "y")}, GetLatestList("a", 30000, "x", NoLimit)),
     ByA({PublishList(10000, "x")}, {PublishList(10003, "x")}, GetLatestList("a", 10000, "x", NoLimit)),
     ByA({PublishStatus("x")}, {ClearStatus("y")}, GetStatus("a", "x")),
     ByA({PublishBookmark(PlainUrl, {"t"})}, {PublishArticle("x")}, GetByUrl(OtherUrl, {"a"})),
     ByA({UpsertWallet}, {PublishToken}, GetLatestWallet("a")),
     ByA({PublishNutzapInfo}, {UpsertWallet}, GetNutzapInfo("a")),
     ByAny({PublishCashuMintInfo("x", "u")}, {PublishFedimintInfo("x", {"u"})},
           GetMintInfoByD(38172, "x")),
     ByA({PublishStall("x")}, {PublishProduct("x", {})}, GetStall("a", "x")),
     ByA({PublishProduct("x", {"t"})}, {PublishStall("x")}, GetProduct("a", "x")),
     ByA({PublishAuction("x", {"t"})}, {PublishBid(1)}, GetAuction("a", "x")),
     ByA({PublishDateEvent("x", {}, {})}, {PublishTimeEvent("x", {}, {})}, GetByD(31922, "a", "x")),
     ByA({PublishCalendar("x", {})}, {PublishRsvp("x", <<31923, "a", "x">>)}, GetByD(31924, "a", "x")),
     ByA({PublishLiveEvent("x")}, {PublishLiveChat("a", "x")}, GetLiveEvent("a", "x")),
     ByA({PublishKeyPackage}, {PublishKeyPackageRelays}, GetLatestKeyPackage("a")),
     ByAny({PublishDiscovery("x", "n", {}, {})}, {PublishMonitorAnnouncement},
           GetLatestForRelay("x")),
     ByA({PublishHandlerInfo("x", {"1"})}, {PublishHandlerInfo("y", {"1"})},
         GetHandlerByAddress("a", "x")),
     ByA({UpdateChannelMetadata(1)}, {CreateChannel}, GetChannelMetadata(1, "a")),
     ByAny({GroupEvent(39000, "x")}, {GroupEvent(39001, "x")}, FetchEventByKind(39000, "x"))}

ListScenarios ==
    {ByA({PutAppData("x"), PutAppData("y")}, {PublishArticle("x")}, ListKeys("a", 2)),
     ByA({PublishArticle("x")}, {PutAppData("x")}, ListArticles("a", NoLimit)),
     ByAny({PublishBookmark(PlainUrl, {"t"})}, {PublishArticle("x")},
           ListByTopic("t", {}, NoLimit)),
     ByAny({PublishNutzap("a", "m")}, {PublishNutzap("b", "m")}, FindIncoming("a", {}, 2)),
     ByAny({RecommendMint("1", "x", {<<38172, "a", "x">>})}, {PublishCashuMintInfo("x", "u")},
           FindRecommendations({}, {}, 2)),
     ByAny({PublishDiscovery("x", "n", {1}, {"t"})}, {PublishMonitorAnnouncement},
           FindRelays({<<"t", "t">>}, NoLimit)),
     ByA({PublishToken}, {UpsertWallet}, GetTokens("a", 2)),
     ByA({PublishSpendingHistory({}), Redeem(1, "b")}, {PublishToken}, GetHistory("a", NoLimit)),
     ByA({PublishMarketUI}, {PublishStall("x")}, GetMarketUI("a", 2)),
     ByAny({PublishVideo(21, {}), PublishVideo(22, {})}, {}, ListVideos({}, {}, 2)),
     ByAny({PublishLabel({}, <<"p", "b">>)}, {PublishLabel({}, <<"p", "a">>)},
           QueryLabels({}, {<<"p", "b">>}, NoLimit)),
     ByAny({PublishResponse(1)}, {PublishPoll}, ListResponses(1, {}, NoLimit)),
     ByA({PublishThread}, {ReplyToThread([id |-> 1, pubkey |-> "a"])}, ListThreadsByAuthor("a", 2)),
     ByA({PublishSnippet}, {PublishThread}, ListSnippets("a", 2)),
     ByA({SendChat}, {PublishThread}, ListChats("a", 2)),
     ByAny({Template(1, {<<"search", "w">>})}, {Template(1, {})}, Search("w", {}, {}, 2)),
     ByAny({PublishNutzap("a", "m")}, {PublishNutzap("a", "n")}, FindIncoming("a", {"m"}, 1)),
     ByAny({RecommendMint("1", "x", {})}, {RecommendMint("2", "y", {})},
           FindRecommendations({"1"}, {}, 1)),
     ByAny({PublishLabel({"n"}, <<"p", "b">>)}, {PublishLabel({}, <<"p", "b">>)},
           QueryLabels({"n"}, {}, 1)),
     ByAny({PublishLabel({}, <<"r", "u">>)}, {PublishLabel({}, <<"p", "b">>)},
           QueryLabels({}, {<<"r", "u">>}, 1)),
     ByAny({PublishDiscovery("x", "n", {1}, {"t"})}, {PublishDiscovery("y", "n", {1}, {})},
           FindRelays({<<"t", "t">>}, 1))}

StreamScenarios ==
    {[ByAny({PublishRecommendation("1", <<31990, "a", "x">>)}, {PublishHandlerInfo("x", {"1"})},
            GetRecommendations("1", {})) EXCEPT !.page = OnePerPage],
     ByAny({PublishHandlerInfo("x", {"1"})}, {PublishHandlerInfo("y", {"2"})},
           GetHandlers("1", {})),
     ByAny({SendMessage(1, {})}, {CreateChannel, HideMessage(1)}, GetMessages(1, 2)),
     [ByAny({SendMessage(1, {})}, {CreateChannel}, GetMessages(1, 1)) EXCEPT !.ids = {1, 2, 3}],
     [operations |-> {<<CreateJobRequest(5001, {})>>, <<Feedback(1)>>, <<JobResult(5001, 1)>>},
      by |-> Accounts, wanted |-> {Feedback(1), JobResult(5001, 1)}, reader |-> SubscribeToJob(1),
      page |-> NoBound, ids |-> {1, 2, 3}],
     [operations |-> {<<CreateSandbox>>, <<CancelJob(1)>>, <<Feedback(1)>>, <<JobResult(5700, 1)>>},
      by |-> Accounts, wanted |-> {Feedback(1), JobResult(5700, 1)},
      reader |-> SubscribeToRequest(1, 5700), page |-> NoBound, ids |-> {1, 2}]}

\* rollOverToken, and publishToken for what it replaces.
RollOver ==
    [operations |-> {<<PublishToken>>, RollOverToken(1)}, by |-> {"a"},
     wanted |-> {PublishToken}, reader |-> <<GetTokens("a", 1)>>, page |-> NoBound,
     ids |-> {1, 2, 3}]

\* Bounds: where accounts do not matter, one publishes in the calls that read several events;
\* the time does not matter to a rollOverToken.
ServicesFocus ==
    /\ scenario.by = Accounts /\ (Mode \in {"each", "loop"} \/ 3 \in scenario.ids) /\ call # Idle =>
         call.author = "a"
    /\ scenario = RollOver => clock = 0

AllScenarios == HeadScenarios \union ListScenarios \union StreamScenarios \union {RollOver}

-----------------------------------------------------------------------------
(* RelayAccess: alice may write what is protected, bob's note comes late and   *)
(* is too long for one of the modules; AUTH events good and bad of each way.   *)

Submission(id, pubkey, kind, content, at, isProtected) ==
    [id |-> id, pubkey |-> pubkey, kind |-> kind, content |-> content, tags |-> 1,
     longestTag |-> 1, created_at |-> at, protected |-> isProtected, signed |-> TRUE]

AccessSubmissions ==
    {Submission(1, "alice", 1, 1, 1, TRUE), Submission(2, "bob", 1, 2, 3, FALSE),
     Submission(3, "bob", 22242, 1, 0, FALSE)}

AuthOf(pubkey, challenge, host) ==
    [pubkey |-> pubkey, challenge |-> challenge, host |-> host, created_at |-> 0,
     kind |-> 22242, signed |-> TRUE]

AccessAuthEvents ==
    {AuthOf("alice", 1, "relay"), AuthOf("alice", 2, "relay"), AuthOf("bob", 1, "relay"),
     AuthOf("alice", 1, "other"), [AuthOf("bob", 2, "relay") EXCEPT !.signed = FALSE]}

AccessModules ==
    <<Nip01(3, 2, 1, 2), Nip42(TRUE),
      [kinds |-> {},
       policies |->
         <<[is |-> "maxContentLength", arg |-> 2],
           [is |-> "any", arg |-> <<[is |-> "allowKinds", arg |-> {1}],
                                    [is |-> "blockPubkeys", arg |-> {"carol"}]>>],
           [is |-> "forKinds", kinds |-> {1}, arg |-> <<[is |-> "maxTagValueLength", arg |-> 2]>>]>>,
       limits |-> [max_content_length |-> 2]]>>

\* Bounds: connections are made twice, of one id or of two, and then one event passes; an
\* object with three tags is not referred to.
Focus ==
    /\ ServicesFocus
    /\ epoch["c1"] + epoch["c2"] <= 2
    /\ \/ \A c \in AccessConns : epoch[c] = 0
       \/ Len(passed["c1"]) + Len(passed["c2"]) <= 1
    /\ posts # << >> /\ Len(posts[1].tags) = 3 => Len(posts) = 1

-----------------------------------------------------------------------------
(* RelayAdmin: two requests, and tokens of which one is too old.               *)

AdminConfigured == [f \in InfoFields |-> IF f = "name" THEN "configured" ELSE Unset]
AdminDefault == [f \in InfoFields |-> IF f = "icon" THEN Unset ELSE "default"]
GoodToken == [kind |-> 27235, age |-> 0, u |-> "this URL", method |-> "post",
              payload |-> "hash of this body"]
AdminTokens == {GoodToken, [GoodToken EXCEPT !.age = 60]}

-----------------------------------------------------------------------------
(* Negentropy: eight events, up to three of a second, whose ids differ in the  *)
(* first byte or in the last.  A side holds any of the first six, or seven of  *)
(* the eight, which is enough for two answers in a row to be cut off.          *)

NegStorages == SUBSET (1..6) \union {{1, 2, 3, 4, 6, 7, 8}}
NegTimes == [i \in Ids |-> i \div 3]
NegBytes == [i \in Ids |-> <<i % 2, i>>]

-----------------------------------------------------------------------------
(* The formats *)

PointerKeys == {<<0, 1>>, <<3, 2>>, <<1>>}
PointerTexts == {<< >>, <<2>>, <<3, 1, 0>>, <<1, 2, 0, 0, 3, 2>>}
PointerReceived ==
    [prefix : {"nevent", "naddr", "nprofile", "npub", "lnurl"}, bytes : UNION {[1..n -> 0..3] : n \in 0..6}]
    \union [prefix : {"naddr"},
            bytes : {<<0, 1, 1, 2, 2, 3, 3, 3, 1, 0>> \o t : t \in UNION {[1..n -> 0..3] : n \in 0..5}}]

GitRepoIds == {<<"r">>, <<"r", "s">>}
GitForeignTags ==
    {<<"d", "x">>, <<"r", "c0">>, <<"r", "c0", "euc">>, <<"p">>, <<"p", "k">>, <<"p", "l">>,
     <<"e", "c1", "", "root">>, <<"clone">>, <<"c", "c1">>, <<"refs/a", "c1">>, <<"refs/a">>,
     <<"q", "c1", "w">>, <<"t", "root">>, <<"relays">>, <<"E", "c1">>, <<"P", "k">>}

ServiceNames == {<<"n">>, <<"n", "m">>}

ReferenceTags ==
    {<<"e", "x">>, <<"e", "y", "u", "root", "a">>, <<"e", "z", "", "reply">>,
     <<"e", "x", "", "mention", "b">>, <<"e", "y">>, <<"e", "">>, <<"p", "a", "u">>,
     <<"p", "b">>, <<"p">>, <<"-">>}
ReferenceExtras == {<<"e", "x", "", "reply">>, <<"p", "b">>}

ChunkBytes == (message1 :> <<0, 0, 1, 1>>) @@ (message2 :> <<1, 0, 1>>)

-----------------------------------------------------------------------------
(* The parts together                                                          *)

allVars ==
    <<part, servicesVars, accessVars, adminVars, negVars, pointerVars, gitVars, serviceVars,
      refVars, selectVars, chunkVars>>

Init ==
    /\ part \in {"services", "access", "admin", "negentropy", "pointers", "git",
                "objects", "references", "selections", "chunks"}
    /\ ServicesInit /\ AccessInit /\ AdminInit /\ NegInit /\ PointersInit
    /\ GitInit /\ ServiceInit /\ RefInit /\ SelectInit /\ ChunksInit
    /\ part # "services" => scenario = RollOver
    /\ part # "negentropy" => peerIs = "object" /\ \A s \in Sides : items[s] = {}
    /\ part # "selections" => ~poll.multiple /\ poll.until = NoEnd

Next ==
    /\ UNCHANGED part
    /\ \/ part = "services" /\ ServicesNext
          /\ UNCHANGED <<accessVars, adminVars, negVars, pointerVars, gitVars,
                         serviceVars, refVars, selectVars, chunkVars>>
       \/ part = "access" /\ AccessNext
          /\ UNCHANGED <<servicesVars, adminVars, negVars, pointerVars, gitVars,
                         serviceVars, refVars, selectVars, chunkVars>>
       \/ part = "admin" /\ AdminNext
          /\ UNCHANGED <<servicesVars, accessVars, negVars, pointerVars, gitVars,
                         serviceVars, refVars, selectVars, chunkVars>>
       \/ part = "negentropy" /\ NegNext
          /\ UNCHANGED <<servicesVars, accessVars, adminVars, pointerVars, gitVars,
                         serviceVars, refVars, selectVars, chunkVars>>
       \/ part = "pointers" /\ PointersNext
          /\ UNCHANGED <<servicesVars, accessVars, adminVars, negVars, gitVars,
                         serviceVars, refVars, selectVars, chunkVars>>
       \/ part = "git" /\ GitNext
          /\ UNCHANGED <<servicesVars, accessVars, adminVars, negVars, pointerVars,
                         serviceVars, refVars, selectVars, chunkVars>>
       \/ part = "objects" /\ ServiceNext
          /\ UNCHANGED <<servicesVars, accessVars, adminVars, negVars, pointerVars,
                         gitVars, refVars, selectVars, chunkVars>>
       \/ part = "references" /\ RefNext
          /\ UNCHANGED <<servicesVars, accessVars, adminVars, negVars, pointerVars,
                         gitVars, serviceVars, selectVars, chunkVars>>
       \/ part = "selections" /\ SelectNext
          /\ UNCHANGED <<servicesVars, accessVars, adminVars, negVars, pointerVars,
                         gitVars, serviceVars, refVars, chunkVars>>
       \/ part = "chunks" /\ ChunksNext
          /\ UNCHANGED <<servicesVars, accessVars, adminVars, negVars, pointerVars,
                         gitVars, serviceVars, refVars, selectVars>>

Spec == Init /\ [][Next]_allVars

\* The state of every part has the shape its module gives it.
ExchangeTypesOK ==
    /\ part = "services" => ServicesTypeOK
    /\ part = "access" => AccessTypeOK
    /\ part = "admin" => AdminTypeOK
    /\ part = "negentropy" => NegTypeOK /\ ExchangeEnds
    /\ part = "pointers" => PointersTypeOK
    /\ part = "git" => GitTypeOK
    /\ part = "objects" => ServiceTypeOK
    /\ part = "references" => RefTypeOK
    /\ part = "selections" => SelectTypeOK
    /\ part = "chunks" => ChunksTypeOK

\* What a service asks for it finds, if it was stored, and it returns nothing else; and what
\* it asks for is what the matching operation publishes, or more where the schema of the
\* filters drops a condition.
AskedIsFound == part = "services" => FoundIfStored /\ OnlyAsked /\ AskedIsMeant

\* What is written is read as it was meant: pointers, Git and service objects whose tags
\* can tell what they hold, a message whose chunks come in any order, and references to the
\* event reacted to or reposted, the channel or message answered, the root and parent of a
\* thread; and no text of another program is read as a pointer that could not be written.
WrittenIsRead ==
    /\ part = "pointers" => PointersRoundTrip /\ DecodedIsNormal
    /\ part = "git" => GitReadBack /\ GitReadIsStable
    /\ part = "objects" => ServiceReadBack
    /\ part = "chunks" => ReassembledIsSent
    /\ part = "references" => PointersTell /\ MessagesPlaced /\ ThreadsRead

\* Votes do not depend on the order and the number of times in which responses came.
VotesAreOrderFree == part = "selections" => CountIsOrderFree /\ LatestOfDistinct

\* A context is authenticated as who answered its own challenge, on the connection it is of
\* now, and a protected event was stored only through a connection of its author.
AuthIsOwners == part = "access" => AuthIsProven /\ ProtectedFromOwner

\* No side is told of an id on which both agree, and when an exchange is over every difference
\* is known to one of them, unless the frame limit cut off two answers in a row.
ReconciliationTells == part = "negentropy" => CallbacksAreExact /\ DifferencesKnown
=============================================================================
