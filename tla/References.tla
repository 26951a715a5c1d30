----------------------------- MODULE References -----------------------------
(* Events that refer to others: reactions (NIP-25), reposts (NIP-18), messages *)
(* of a channel (NIP-28) and replies in a thread (NIP-10), each written by a   *)
(* service and read back from its tags.                                        *)
EXTENDS EventTags, TLC

CONSTANTS Authors, Urls,
          ForeignRefs,    \* tags a note from elsewhere may carry
          MaxForeign,     \* how many of them
          ExtraRefs,      \* tags that callers add, one at most
          MaxPosts,       \* how many events are made
          Nothing         \* undefined

VARIABLE posts            \* the events made, in order; the id of an event is its place

refVars == <<posts>>

Note == 1
Repost == 6
Reaction == 7
GenericRepost == 16
ChannelCreation == 40
ChannelMessage == 42

IdOf(n) == ToString(n)
EventOf(kind, author, tags, content, about, reply) ==
    [kind |-> kind, author |-> author, tags |-> tags, content |-> content,
     about |-> about, reply |-> reply]
RefTags(tags) == SelectSeq(tags, LAMBDA tag : Len(tag) >= 2 /\ tag[1] \in {"e", "p"})

-----------------------------------------------------------------------------
(* Writing *)

\* The tags of the event reacted to come first, its own id and author last.
ReactionTags(n, extra) ==
    extra \o RefTags(posts[n].tags) \o << <<"e", IdOf(n)>>, <<"p", posts[n].author>> >>

IsProtected(n) == \E i \in DOMAIN posts[n].tags : posts[n].tags[i][1] = "-"
RepostTags(n, extra, url) ==
    extra \o << <<"e", IdOf(n), url>>, <<"p", posts[n].author>> >>
      \o (IF posts[n].kind = Note THEN << >> ELSE << <<"k", ToString(posts[n].kind)>> >>)
RepostKind(n) == IF posts[n].kind = Note THEN Repost ELSE GenericRepost

MessageTags(channel, reply, extra, url) ==
    << <<"e", IdOf(channel), url, "root">> >>
      \o (IF reply = Nothing THEN << >> ELSE << <<"e", IdOf(reply), url, "reply">> >>)
      \o extra

-----------------------------------------------------------------------------
(* Reading *)

LastTag(tags, name) ==
    LET named == SelectSeq(tags, LAMBDA tag : Len(tag) >= 2 /\ tag[1] = name) IN
    IF named = << >> THEN Nothing ELSE Last(named)
Third(tag) == IF tag = Nothing \/ Len(tag) < 3 THEN << >> ELSE <<tag[3]>>

GetRepostedEventPointer(event) ==
    LET e == LastTag(event.tags, "e")
        p == LastTag(event.tags, "p")
    IN
    IF event.kind \notin {Repost, GenericRepost} \/ e = Nothing THEN Nothing
    ELSE [id |-> e[2], relays |-> Third(e) \o Third(p), author |-> IF p = Nothing THEN "" ELSE p[2]]

\* The content is the event reposted, if it was written; its signature is verified by a library.
GetRepostedEvent(event) ==
    LET pointer == GetRepostedEventPointer(event) IN
    IF pointer = Nothing \/ event.content = Nothing THEN Nothing
    ELSE IF IdOf(event.content) # pointer.id THEN Nothing ELSE event.content

GetReactedEventPointer(event) ==
    LET e == LastTag(event.tags, "e")
        p == LastTag(event.tags, "p")
    IN
    IF event.kind # Reaction \/ e = Nothing \/ p = Nothing THEN Nothing
    ELSE [id |-> e[2], relays |-> Third(e) \o Third(p), author |-> p[2]]

MarkedE(tags, marker) == SelectSeq(tags, LAMBDA tag : tag[1] = "e" /\ At(tag, 4) = marker)
FoundId(tags) == IF tags = << >> THEN "" ELSE At(tags[1], 2)

GetChannelIdFromMessage(event) ==
    IF FoundId(MarkedE(event.tags, "root")) # "" THEN FoundId(MarkedE(event.tags, "root"))
    ELSE FoundId(Named(event.tags, "e"))
GetReplyToFromMessage(event) == FoundId(MarkedE(event.tags, "reply"))

\* NIP-10, read from the last tag to the first.
ThreadPointer(tag) == [id |-> tag[2], relays |-> Truthy(At(tag, 3)), author |-> At(tag, 5)]

\* A pointer with an author takes the relays of the author's p tag, the last of them.
WithAuthorRelays(pointer, profiles) ==
    LET own == SelectSeq(profiles, LAMBDA p : p[2] = pointer.author) IN
    IF pointer.author = "" \/ own = << >> THEN pointer
    ELSE [pointer EXCEPT !.relays = @ \o SelectSeq(Truthy(At(own[1], 3)),
                                                   LAMBDA url : ~Contains(pointer.relays, url))]

ParseThread(tags) ==
    LET backwards == Reverse(tags)
        es == SelectSeq(backwards, LAMBDA tag : tag[1] = "e" /\ At(tag, 2) # "")
        profiles == SelectSeq(backwards, LAMBDA tag : tag[1] = "p" /\ At(tag, 2) # "")
        roots == SelectSeq(es, LAMBDA tag : At(tag, 4) = "root")
        replies == SelectSeq(es, LAMBDA tag : At(tag, 4) = "reply")
        unmarked == SelectSeq(es, LAMBDA tag : At(tag, 4) \notin {"root", "reply", "mention"})
        mentioned == SelectSeq(es, LAMBDA tag : At(tag, 4) \notin {"root", "reply"})
        root == IF roots # << >> THEN ThreadPointer(Last(roots))
                ELSE IF unmarked # << >> THEN ThreadPointer(Last(unmarked))
                ELSE IF replies # << >> THEN ThreadPointer(Last(replies))
                ELSE Nothing
        reply == IF replies # << >> THEN ThreadPointer(Last(replies))
                 ELSE IF unmarked # << >> THEN ThreadPointer(unmarked[1])
                 ELSE root
        mentions == SelectSeq([i \in DOMAIN mentioned |-> ThreadPointer(mentioned[i])],
                              LAMBDA m : (root # Nothing => m.id # root.id)
                                         /\ (reply # Nothing => m.id # reply.id))
        Full(pointer) == IF pointer = Nothing THEN Nothing ELSE WithAuthorRelays(pointer, profiles)
    IN [root |-> Full(root), reply |-> Full(reply),
        mentions |-> [i \in DOMAIN mentions |-> Full(mentions[i])]]

-----------------------------------------------------------------------------
RefInit == posts = << >>

Made(event) == Len(posts) < MaxPosts /\ posts' = Append(posts, event)

\* A note or a channel of another program, with any tags.
PostForeign(kind, author, tags) == Made(EventOf(kind, author, tags, Nothing, Nothing, Nothing))

\* createReaction, finishReactionEvent
React(n, author, extra) ==
    Made(EventOf(Reaction, author, ReactionTags(n, extra), Nothing, n, Nothing))

\* createRepost, finishRepostEvent: empty content is asked for with template.content "".
RepostEvent(n, author, extra, url, empty) ==
    Made(EventOf(RepostKind(n), author, RepostTags(n, extra, url),
                 IF empty \/ IsProtected(n) THEN Nothing ELSE n, n, Nothing))

\* sendMessage, channelMessageEvent
SendChannelMessage(channel, reply, author, extra, url) ==
    Made(EventOf(ChannelMessage, author, MessageTags(channel, reply, extra, url), Nothing, channel, reply))

Extras == {<< >>} \union {<<tag>> : tag \in ExtraRefs}

RefNext ==
    \/ \E kind \in {Note, ChannelCreation}, author \in Authors :
         \E tags \in IF posts = << >> THEN SeqOf(ForeignRefs, MaxForeign) ELSE Extras :
           PostForeign(kind, author, tags)
    \/ \E n \in DOMAIN posts, author \in Authors, extra \in Extras : React(n, author, extra)
    \/ \E n \in DOMAIN posts, author \in Authors, extra \in Extras, url \in Urls, empty \in BOOLEAN :
         RepostEvent(n, author, extra, url, empty)
    \/ \E n \in DOMAIN posts, reply \in DOMAIN posts \union {Nothing} :
         \E author \in Authors, extra \in Extras, url \in Urls :
           posts[n].kind = ChannelCreation /\ SendChannelMessage(n, reply, author, extra, url)

RefSpec == RefInit /\ [][RefNext]_refVars

-----------------------------------------------------------------------------
(* Properties *)

RefTypeOK ==
    /\ Len(posts) <= MaxPosts
    /\ \A i \in DOMAIN posts : posts[i].about \in {Nothing} \union 1..(i - 1)

\* A reaction or a repost is read as one of the event it was made for, with that event's author,
\* whatever that event refers to and whatever tags were added; the relay of a repost is the first.
PointersTell ==
    \A i \in DOMAIN posts :
        LET event == posts[i] IN
        /\ event.kind = Reaction =>
             LET pointer == GetReactedEventPointer(event) IN
             pointer # Nothing /\ pointer.id = IdOf(event.about) /\ pointer.author = posts[event.about].author
        /\ event.kind \in {Repost, GenericRepost} =>
             LET pointer == GetRepostedEventPointer(event) IN
             /\ pointer.id = IdOf(event.about) /\ pointer.author = posts[event.about].author
             /\ pointer.relays[1] \in Urls
             /\ GetRepostedEvent(event) \in {event.about, Nothing}
             /\ GetRepostedEvent(event) = Nothing <=> event.content = Nothing

\* A message is read as one of its channel, and as the reply it is; one that is no reply may carry
\* tags of its caller with that mark.
MessagesPlaced ==
    \A i \in DOMAIN posts :
        posts[i].kind = ChannelMessage =>
            /\ GetChannelIdFromMessage(posts[i]) = IdOf(posts[i].about)
            /\ posts[i].reply # Nothing => GetReplyToFromMessage(posts[i]) = IdOf(posts[i].reply)

\* Read forwards: the root of a thread is the first event marked so, or the first without a mark,
\* or the first reply; the reply is the first marked so, or the last without a mark, or the root;
\* and every other event without those marks is a mention.
ThreadsRead ==
    \A i \in DOMAIN posts :
        LET thread == ParseThread(posts[i].tags)
            es == SelectSeq(posts[i].tags, LAMBDA tag : tag[1] = "e" /\ At(tag, 2) # "")
            Having(markers) == {k \in DOMAIN es : At(es[k], 4) \in markers}
            Plain == {k \in DOMAIN es : At(es[k], 4) \notin {"root", "reply", "mention"}}
            IsId(pointer, k) == pointer # Nothing /\ pointer.id = es[k][2]
            First(K) == CHOOSE k \in K : \A l \in K : k <= l
            Final(K) == CHOOSE k \in K : \A l \in K : k >= l
        IN
        /\ thread.root = Nothing <=> (es = << >> \/ Having({"mention"}) = DOMAIN es)
        /\ Having({"root"}) # {} => IsId(thread.root, First(Having({"root"})))
        /\ (Having({"root"}) = {} /\ Plain # {}) => IsId(thread.root, First(Plain))
        /\ Having({"reply"}) # {} => IsId(thread.reply, First(Having({"reply"})))
        /\ (Having({"reply"}) = {} /\ Plain # {}) => IsId(thread.reply, Final(Plain))
        /\ \A k \in Plain \union Having({"mention"}) :
             \/ IsId(thread.root, k) \/ IsId(thread.reply, k)
             \/ \E m \in DOMAIN thread.mentions : IsId(thread.mentions[m], k)
        /\ \A m \in DOMAIN thread.mentions :
             /\ thread.root # Nothing => thread.mentions[m].id # thread.root.id
             /\ thread.reply # Nothing => thread.mentions[m].id # thread.reply.id
=============================================================================
