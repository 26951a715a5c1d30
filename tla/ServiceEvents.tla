---------------------------- MODULE ServiceEvents ----------------------------
(* The objects that services write into events and read back: follows and      *)
(* relays, handlers and their recommendations, groups (written by wrappers/    *)
(* nip29.ts, read by it and by Nip29Service), listings, files, relay reports,  *)
(* mint recommendations, video variants and identity claims.                   *)
EXTENDS EventTags, FiniteSets

CONSTANTS Words,          \* texts, none of them ""
          Titles,         \* the texts of fields that stand alone
          Numbers,        \* texts that are numbers
          Currencies,     \* texts of three characters
          Sizes,          \* texts like 800x600
          Names,          \* identifiers and identities, split at their colons
          NoService,      \* nothing was given to encode
          Refused         \* undefined, or a thrown error

ASSUME ServiceAssumption == "" \notin Words \union Titles \union Numbers \union Currencies \union Sizes

VARIABLES object,         \* what was written, or NoService
          written,        \* [content, tags], or NoService
          readBack        \* what was read from it, Refused, or NoService

serviceVars == <<object, written, readBack>>

Written(content, tags) == [content |-> content, tags |-> tags]

\* A tag that ends before its first element nobody gave; a gap is filled with "".
Trailing(elements) ==
    LET given == {i \in DOMAIN elements : elements[i] # ""} IN
    SubSeq(elements, 1, IF given = {} THEN 0 ELSE CHOOSE i \in given : \A j \in given : j <= i)
TagsOf(list, Tag(_)) == [i \in DOMAIN list |-> Tag(list[i])]
ReadEach(tags, Reader(_)) == [i \in DOMAIN tags |-> Reader(tags[i])]
WithValue(tags) == SelectSeq(tags, LAMBDA tag : At(tag, 2) # "")

-----------------------------------------------------------------------------
(* Follows, relays, handlers *)

FollowsToTags(o) == Written("", TagsOf(o.follows,
    LAMBDA f : <<"p", f.pubkey>> \o Trailing(<<f.relay, f.petname>>)))
ParseFollows(tags) ==
    [is |-> "follows",
     follows |-> ReadEach(Named(tags, "p"),
         LAMBDA tag : [pubkey |-> At(tag, 2), relay |-> At(tag, 3), petname |-> At(tag, 4)])]

RelaysToTags(o) == Written("", TagsOf(o.relays,
    LAMBDA r : <<"r", r.url>> \o (IF r.mode = "both" THEN << >> ELSE <<r.mode>>)))
ParseRelays(tags) ==
    [is |-> "relays",
     relays |-> ReadEach(WithValue(Named(tags, "r")),
         LAMBDA tag : [url |-> tag[2],
                       mode |-> IF At(tag, 3) \in {"read", "write"} THEN tag[3] ELSE "both"])]

Platforms == {"web", "ios", "android", "desktop"}

HandlerInfoToTags(o) == Written(At(o.metadata, 1),
    << <<"d", o.identifier[1]>> >> \o EachTag("k", o.kinds)
      \o TagsOf(o.urls, LAMBDA u : <<u.platform, u.url>> \o Truthy(u.entity)))
ParseHandlerInfo(event) ==
    LET tags == event.tags
        urls == WithValue(SelectSeq(tags, LAMBDA tag : At(tag, 1) \in Platforms))
    IN
    IF LastOf(tags, "d") = << >> THEN Refused
    ELSE [is |-> "handler", identifier |-> LastOf(tags, "d"),
          kinds |-> SelectSeq(ValuesOf(tags, "k"), LAMBDA k : k \in Numbers),
          urls |-> ReadEach(urls, LAMBDA tag : [platform |-> tag[1], url |-> tag[2], entity |-> At(tag, 3)]),
          metadata |-> Truthy(event.content)]

-----------------------------------------------------------------------------
(* Jobs: what a request names as its inputs, and what a result repeats of it *)

BuildJobRequestTags(o) == Written("",
    TagsOf(o.inputs, LAMBDA i : <<"i", i.data, i.type>> \o Trailing(<<i.relay, i.marker>>))
      \o TagsOf(o.params, LAMBDA p : <<"param", p.key, p.value>>)
      \o OneTag("output", o.output) \o EachTag("bid", o.bid) \o SpreadTag("relays", o.relays)
      \o EachTag("p", o.providers))
ParseJobInputs(tags) ==
    LET inputs == SelectSeq(Named(tags, "i"), LAMBDA tag : At(tag, 2) # "" /\ At(tag, 3) # "") IN
    ReadEach(inputs, LAMBDA tag : [data |-> tag[2], type |-> tag[3], relay |-> At(tag, 4),
                                   marker |-> At(tag, 5)])

-----------------------------------------------------------------------------
(* Groups *)

GroupMetadataTags(o) == Written("",
    << <<"d", o.id[1]>> >> \o OneTag("name", o.name) \o OneTag("picture", o.picture)
      \o OneTag("about", o.about) \o FlagTag(<<"public">>, o.isPublic) \o FlagTag(<<"open">>, o.isOpen))
GroupMetadata(is, tags, isPublic, isOpen) ==
    [is |-> is, id |-> LastOf(tags, "d"), name |-> LastOf(tags, "name"),
     picture |-> LastOf(tags, "picture"), about |-> LastOf(tags, "about"),
     isPublic |-> isPublic, isOpen |-> isOpen]
Present(tags, name) == IF Named(tags, name) = << >> THEN << >> ELSE <<"true">>

\* wrappers/nip29.ts skips a tag without a value before it looks at its name.
WrapperParseMetadata(tags) ==
    IF ValuesOf(tags, "d") = << >> THEN Refused
    ELSE GroupMetadata("group", tags, Present(WithValue(tags), "public"), Present(WithValue(tags), "open"))
\* Nip29Service looks at the name first.
ServiceParseMetadata(tags) ==
    GroupMetadata("service group", tags, Present(tags, "public"), Present(tags, "open"))

GroupAdminsTags(o) == Written("",
    << <<"d", "group">> >> \o TagsOf(o.admins, LAMBDA a : <<"p", a.pubkey, a.label>> \o a.permissions))
ParseAdmins(tags) ==
    [is |-> "admins",
     admins |-> ReadEach(WithValue(Named(tags, "p")),
         LAMBDA tag : [pubkey |-> tag[2], label |-> At(tag, 3), permissions |-> SubSeq(tag, 4, Len(tag))])]

GroupMembersTags(o) == Written("",
    << <<"d", "group">> >> \o TagsOf(o.members, LAMBDA m : <<"p", m.pubkey>> \o Truthy(m.label)))
ParseMembers(tags) ==
    [is |-> "members",
     members |-> ReadEach(WithValue(Named(tags, "p")),
         LAMBDA tag : [pubkey |-> tag[2], label |-> At(tag, 3)])]

-----------------------------------------------------------------------------
(* Listings (core/Nip99.ts) and files (core/Nip94.ts), which are validated first *)

ListingRequired == {"d", "title", "summary", "location", "published_at", "price"}

\* The identifier is made from the title; nothing reads it back.
GenerateListing(o) == Written(o.content[1],
    << <<"d", o.title[1]>>, <<"title", o.title[1]>>, <<"published_at", o.published[1]>>,
       <<"summary", o.summary[1]>>, <<"location", o.location[1]>>,
       <<"price", o.price.amount, o.price.currency>> \o Truthy(o.price.frequency) >>
      \o TagsOf(o.images, LAMBDA i : <<"image", i.url>> \o Truthy(i.dimensions))
      \o EachTag("t", o.hashtags)
      \o FlattenSeq(TagsOf(o.additional, LAMBDA a : EachTag(a.name, a.values))))

ValidListing(tags) ==
    /\ Len(tags) >= Cardinality(ListingRequired)
    /\ \A name \in ListingRequired : Len(Named(tags, name)) = 1
    /\ \A i \in DOMAIN tags :
         /\ Len(tags[i]) >= 2
         /\ tags[i][1] = "published_at" => tags[i][2] \in Numbers
         /\ tags[i][1] = "price" => /\ Len(tags[i]) >= 3
                                    /\ tags[i][2] \in Numbers /\ tags[i][3] \in Currencies
         /\ tags[i][1] \in {"e", "a"} => Len(tags[i]) = 3

ParseListing(event) ==
    LET tags == event.tags
        Second(name) == <<Named(tags, name)[1][2]>>
        price == Named(tags, "price")[1]
        others == SelectSeq(tags, LAMBDA tag : tag[1] \in {"e", "a"})
    IN
    IF ~ValidListing(tags) THEN Refused
    ELSE [is |-> "listing", content |-> <<event.content>>, title |-> Second("title"),
          summary |-> Second("summary"), location |-> Second("location"),
          published |-> Second("published_at"),
          price |-> [amount |-> price[2], currency |-> price[3],
                     frequency |-> IF Len(price) = 4 THEN price[4] ELSE ""],
          images |-> ReadEach(Named(tags, "image"), LAMBDA tag : [url |-> tag[2], dimensions |-> At(tag, 3)]),
          hashtags |-> SecondsOf(Named(tags, "t")),
          additional |-> ReadEach(others, LAMBDA tag : [name |-> tag[1], values |-> Tail(tag)])]

GenerateFile(o) == Written(o.content[1],
    EachTag("url", o.url) \o EachTag("m", o.m) \o EachTag("x", o.x) \o EachTag("ox", o.ox)
      \o OneTag("size", o.size) \o OneTag("dim", o.dim) \o OneTag("i", o.i)
      \o OneTag("blurhash", o.blurhash) \o OneTag("thumb", o.thumb) \o OneTag("image", o.image)
      \o OneTag("summary", o.summary) \o OneTag("alt", o.alt) \o EachTag("fallback", o.fallback))

ValidFile(event) ==
    /\ event.content # ""
    /\ \A name \in {"url", "m", "x", "ox"} : Named(event.tags, name) # << >>
    /\ Named(event.tags, "size") # << >> => At(Named(event.tags, "size")[1], 2) \in Numbers
    /\ Named(event.tags, "dim") # << >> => At(Named(event.tags, "dim")[1], 2) \in Sizes

ParseFile(event) ==
    LET tags == event.tags IN
    IF ~ValidFile(event) THEN Refused
    ELSE [is |-> "file", content |-> <<event.content>>, url |-> LastOf(tags, "url"),
          m |-> LastOf(tags, "m"), x |-> LastOf(tags, "x"), ox |-> LastOf(tags, "ox"),
          size |-> LastOf(tags, "size"), dim |-> LastOf(tags, "dim"), magnet |-> LastOf(tags, "magnet"),
          i |-> LastOf(tags, "i"), blurhash |-> LastOf(tags, "blurhash"), thumb |-> LastOf(tags, "thumb"),
          image |-> LastOf(tags, "image"), summary |-> LastOf(tags, "summary"), alt |-> LastOf(tags, "alt"),
          fallback |-> ValuesOf(tags, "fallback")]

-----------------------------------------------------------------------------
(* Relay reports, recommendations of mints, variants of a video, identities *)

BuildDiscoveryTags(o) == Written("",
    << <<"d", o.relayId[1]>> >> \o EachTag("rtt-open", o.open) \o EachTag("rtt-read", o.read)
      \o OneTag("n", o.network) \o OneTag("T", o.relayType) \o EachTag("N", o.nips)
      \o EachTag("R", o.requirements) \o EachTag("t", o.topics) \o EachTag("k", o.kinds)
      \o OneTag("g", o.geohash) \o TagsOf(o.languages, LAMBDA l : <<"l", l, "ISO-639-1">>))
ParseDiscovery(tags) ==
    IF FoundOf(tags, "d") = << >> THEN Refused
    ELSE [is |-> "discovery", relayId |-> FoundOf(tags, "d"), open |-> FoundOf(tags, "rtt-open"),
          read |-> FoundOf(tags, "rtt-read"), network |-> FoundOf(tags, "n"),
          relayType |-> FoundOf(tags, "T"), nips |-> SecondsOf(Named(tags, "N")),
          requirements |-> ValuesOf(tags, "R"), topics |-> ValuesOf(tags, "t"),
          kinds |-> ValuesOf(tags, "k"), geohash |-> FoundOf(tags, "g"), languages |-> ValuesOf(tags, "l")]

MintKinds == {"38172", "38173"}

\* kind:pubkey:d, as what stands between the colons; the name d may hold more of them.
MintAddress(p) == <<p.kind, p.pubkey>> \o p.d
RecommendationTags(o) == Written("",
    << <<"k", o.kind[1]>>, <<"d", o.d[1]>> >> \o EachTag("u", o.urls)
      \o TagsOf(o.pointers, LAMBDA p : <<"a", MintAddress(p)>> \o Truthy(p.relay) \o Truthy(p.label)))
ParseRecommendation(tags) ==
    LET pointers == SelectSeq(Named(tags, "a"), LAMBDA tag :
            Len(tag[2]) >= 3 /\ tag[2][1] \in MintKinds /\ tag[2][2] # "" /\ tag[2][3] # "")
    IN
    IF FoundOf(tags, "k") = << >> \/ FoundOf(tags, "d") = << >> \/ FoundOf(tags, "k")[1] \notin MintKinds
    THEN Refused
    ELSE [is |-> "mint", kind |-> FoundOf(tags, "k"), d |-> FoundOf(tags, "d"),
          urls |-> ValuesOf(tags, "u"),
          pointers |-> ReadEach(pointers, LAMBDA tag :
              [kind |-> tag[2][1], pubkey |-> tag[2][2], d |-> <<tag[2][3]>>,
               relay |-> At(tag, 3), label |-> At(tag, 4)])]

\* An entry "key value" stands for its two parts.
BuildImetaTag(o) == Written("",
    OneTag("dim", o.dim) \o OneTag("url", o.url) \o OneTag("x", o.x) \o OneTag("m", o.m)
      \o EachTag("image", o.images) \o EachTag("fallback", o.fallbacks)
      \o OneTag("service", o.service) \o EachTag("bitrate", o.bitrate) \o EachTag("duration", o.duration))
ParseImetaTag(entries) ==
    [is |-> "imeta", dim |-> LastOf(entries, "dim"), url |-> LastOf(entries, "url"),
     x |-> LastOf(entries, "x"), m |-> LastOf(entries, "m"), images |-> ValuesOf(entries, "image"),
     fallbacks |-> ValuesOf(entries, "fallback"), service |-> LastOf(entries, "service"),
     bitrate |-> LastOf(entries, "bitrate"), duration |-> LastOf(entries, "duration")]

IdentityPlatforms == {"github", "twitter", "mastodon", "telegram"}

CreateIdentityTag(o) == Written("", << <<"i", <<o.platform>> \o o.identity, o.proof>> >>)
ParseIdentityClaims(tags) ==
    LET claims == SelectSeq(Named(tags, "i"), LAMBDA tag :
            /\ Len(tag) >= 3 /\ tag[3] # ""
            /\ Len(tag[2]) >= 2 /\ tag[2][1] \in IdentityPlatforms /\ tag[2][2] # "")
    IN
    IF claims = << >> THEN Refused
    ELSE [is |-> "identity", platform |-> claims[1][2][1], identity |-> <<claims[1][2][2]>>,
          proof |-> claims[1][3]]

-----------------------------------------------------------------------------
Write(o) ==
    CASE o.is = "follows"   -> FollowsToTags(o)
      [] o.is = "relays"    -> RelaysToTags(o)
      [] o.is = "handler"   -> HandlerInfoToTags(o)
      [] o.is = "job"       -> BuildJobRequestTags(o)
      [] o.is \in {"group", "service group"} -> GroupMetadataTags(o)
      [] o.is = "admins"    -> GroupAdminsTags(o)
      [] o.is = "members"   -> GroupMembersTags(o)
      [] o.is = "listing"   -> GenerateListing(o)
      [] o.is = "file"      -> GenerateFile(o)
      [] o.is = "discovery" -> BuildDiscoveryTags(o)
      [] o.is = "mint"      -> RecommendationTags(o)
      [] o.is = "imeta"     -> BuildImetaTag(o)
      [] o.is = "identity"  -> CreateIdentityTag(o)

\* The reader of that kind of object; of a job only the inputs are read.
Read(o, event) ==
    CASE o.is = "follows"   -> ParseFollows(event.tags)
      [] o.is = "relays"    -> ParseRelays(event.tags)
      [] o.is = "handler"   -> ParseHandlerInfo(event)
      [] o.is = "job"       -> [o EXCEPT !.inputs = ParseJobInputs(event.tags)]
      [] o.is = "group"     -> WrapperParseMetadata(event.tags)
      [] o.is = "service group" -> ServiceParseMetadata(event.tags)
      [] o.is = "admins"    -> ParseAdmins(event.tags)
      [] o.is = "members"   -> ParseMembers(event.tags)
      [] o.is = "listing"   -> ParseListing(event)
      [] o.is = "file"      -> ParseFile(event)
      [] o.is = "discovery" -> ParseDiscovery(event.tags)
      [] o.is = "mint"      -> ParseRecommendation(event.tags)
      [] o.is = "imeta"     -> ParseImetaTag(event.tags)
      [] o.is = "identity"  -> ParseIdentityClaims(event.tags)

-----------------------------------------------------------------------------
Text == Words \union {""}

ServiceObjects ==
    [is : {"follows"}, follows : ListsOf([pubkey : Words, relay : Text, petname : Text])]
    \union [is : {"relays"}, relays : ListsOf([url : Words, mode : {"read", "write", "both"}])]
    \union [is : {"handler"}, identifier : One(Words), kinds : ListsOf(Numbers),
            urls : ListsOf([platform : {"web", "ios"}, url : Words, entity : Text]), metadata : Maybe(Words)]
    \union [is : {"job"}, inputs : ListsOf([data : Words, type : {"url"}, relay : Text, marker : Text]),
            params : Maybe([key : Titles, value : Titles]), output : Maybe(Titles), bid : Maybe(Numbers),
            relays : ListsOf(Words), providers : Maybe(Titles)]
    \union [is : {"group", "service group"}, id : One(Words), name : Maybe(Words), picture : Maybe(Words),
            about : Maybe(Words), isPublic : Flags, isOpen : Flags]
    \union [is : {"admins"}, admins : ListsOf([pubkey : Words, label : Text, permissions : ListsOf(Words)])]
    \union [is : {"members"}, members : ListsOf([pubkey : Words, label : Text])]
    \union [is : {"listing"}, content : One(Titles), title : One(Titles), summary : One(Titles),
            location : One(Titles), published : One(Numbers \union Titles),
            price : [amount : Numbers, currency : Currencies \union Titles, frequency : Titles \union {""}],
            images : ListsOf([url : Words, dimensions : Text]), hashtags : ListsOf(Words),
            additional : Maybe([name : {"e", "a", "other"}, values : ListsOf(Titles)])]
    \union [is : {"file"}, content : One(Titles \union {""}), url : One(Titles), m : One(Titles),
            x : One(Words), ox : One(Words), size : Maybe(Numbers \union Titles),
            dim : Maybe(Sizes \union Titles), magnet : Maybe(Titles), i : Maybe(Titles),
            blurhash : Maybe(Titles), thumb : Maybe(Titles), image : Maybe(Titles),
            summary : Maybe(Titles), alt : Maybe(Titles), fallback : ListsOf(Words)]
    \union [is : {"discovery"}, relayId : One(Words), open : Maybe(Numbers), read : Maybe(Numbers),
            network : Maybe(Titles), relayType : Maybe(Titles), nips : ListsOf(Numbers),
            requirements : Maybe(Titles), topics : Maybe(Titles), kinds : Maybe(Numbers),
            geohash : Maybe(Titles), languages : ListsOf(Words)]
    \union [is : {"mint"}, kind : One(MintKinds), d : One(Titles), urls : ListsOf(Words),
            pointers : ListsOf([kind : MintKinds, pubkey : Titles, d : Names, relay : Text, label : Text])]
    \union [is : {"imeta"}, dim : Maybe(Sizes), url : Maybe(Titles), x : Maybe(Titles), m : Maybe(Titles),
            images : ListsOf(Words), fallbacks : ListsOf(Words), service : Maybe(Titles),
            bitrate : Maybe(Numbers), duration : Maybe(Numbers)]
    \union [is : {"identity"}, platform : IdentityPlatforms, identity : Names, proof : Words]

Untouched == object = NoService /\ written = NoService /\ readBack = NoService

ServiceInit == Untouched

WriteObject(o) ==
    /\ object' = o
    /\ written' = Write(o)
    /\ UNCHANGED readBack

ReadObject ==
    /\ object # NoService /\ readBack = NoService
    /\ readBack' = Read(object, written)
    /\ UNCHANGED <<object, written>>

ServiceNext ==
    \/ Untouched /\ \E o \in ServiceObjects : WriteObject(o)
    \/ ReadObject

ServiceSpec == ServiceInit /\ [][ServiceNext]_serviceVars

-----------------------------------------------------------------------------
(* Properties *)

\* No tag is empty, and what is read is of the kind that was written.
ServiceTypeOK ==
    /\ object # NoService => \A i \in DOMAIN written.tags : Len(written.tags[i]) >= 1
    /\ readBack \notin {NoService, Refused} => readBack.is = object.is

\* The objects whose tags can tell them: no toggle of a group for the wrapper's reader, valid
\* listings without further tags, valid files without a magnet link, no label without a relay,
\* names without a colon.
TagsTell(o) ==
    CASE o.is = "group"    -> o.isPublic = << >> /\ o.isOpen = << >>
      [] o.is = "listing"  -> /\ o.published[1] \in Numbers /\ o.price.currency \in Currencies
                              /\ \A i \in DOMAIN o.additional : FALSE
      [] o.is = "file"     -> /\ o.content[1] # "" /\ o.magnet = << >>
                              /\ o.size # << >> => o.size[1] \in Numbers
                              /\ o.dim # << >> => o.dim[1] \in Sizes
      [] o.is = "mint"     -> \A i \in DOMAIN o.pointers :
                                /\ Len(o.pointers[i].d) = 1
                                /\ o.pointers[i].label # "" => o.pointers[i].relay # ""
      [] o.is = "identity" -> Len(o.identity) = 1
      [] OTHER -> TRUE

\* What was written is read back field by field, exactly when it is one of those.
ServiceReadBack == readBack # NoService => (readBack = object <=> TagsTell(object))
=============================================================================
