------------------------------ MODULE GitEvents ------------------------------
(* NIP-34 (core/Nip34.ts): repositories, their state, patches, pull requests,  *)
(* issues, statuses and server lists written as events and parsed back.        *)
EXTENDS EventTags, FiniteSets

CONSTANTS Earliest, Commits, Owners, People, Addresses, GitWords,   \* texts, none of them ""
          RefNames,       \* names of refs
          RefsPrefixed,   \* those of them that start with "refs/"
          RepoIds,        \* identifiers, split at their colons
          ForeignTags,    \* tags that events from elsewhere carry
          NoObject,       \* nothing was given to encode
          Malformed       \* a thrown error

ASSUME GitAssumption == RefsPrefixed \subseteq RefNames /\ {"d", "HEAD"} \intersect RefNames = {}

RepositoryKind == 30617
StateKind == 30618
PatchKind == 1617
PullRequestKind == 1618
UpdateKind == 1619
IssueKind == 1621
GraspKind == 10317
StatusTypes == <<"open", "applied", "closed", "draft">>
GetStatusKind(type) == 1629 + (CHOOSE i \in 1..4 : StatusTypes[i] = type)
GetStatusType(kind) == IF kind \in 1630..1633 THEN StatusTypes[kind - 1629] ELSE "none"
GitKinds == {RepositoryKind, StateKind, PatchKind, PullRequestKind, UpdateKind, IssueKind,
             GraspKind} \union (1630..1633)
IsGitEvent(event) == event.kind \in GitKinds

VARIABLES gitObject,      \* what was encoded, or NoObject
          gitEvent,       \* [kind, content, tags], or NoObject before there is one
          gitParsed       \* what was parsed from it, Malformed, or NoObject

gitVars == <<gitObject, gitEvent, gitParsed>>

GitEvent(kind, content, tags) == [kind |-> kind, content |-> content, tags |-> tags]

-----------------------------------------------------------------------------
(* Generating *)

GenerateRepository(r) == GitEvent(RepositoryKind, "",
    << <<"d", r.id[1]>> >> \o OneTag("name", r.name) \o OneTag("description", r.description)
      \o EachTag("web", r.web) \o EachTag("clone", r.clone) \o SpreadTag("relays", r.relays)
      \o FlagTag(<<"r">> \o r.euc \o <<"euc">>, r.euc) \o SpreadTag("maintainers", r.maintainers)
      \o FlagTag(<<"t", "personal-fork">>, r.isPersonalFork) \o EachTag("t", r.tags))

\* refs is a Map: a sequence of a name with its commits, no name twice.
GenerateRepositoryState(s) == GitEvent(StateKind, "",
    << <<"d", s.id[1]>> >> \o s.refs \o OneTag("HEAD", s.head))

\* What patches, pull requests and updates begin with.
Origin(o) == OneTag("a", o.repository) \o OneTag("r", o.euc) \o OneTag("p", o.owner)
               \o EachTag("p", o.mentions)

GeneratePatch(p) == GitEvent(PatchKind, p.content[1],
    Origin(p) \o FlagTag(<<"t", "root">>, p.isRoot) \o FlagTag(<<"t", "root-revision">>, p.isRootRevision)
      \o OneTag("commit", p.commit) \o OneTag("r", p.commit) \o OneTag("parent-commit", p.parent)
      \o EachTag("commit-pgp-sig", p.signature) \o SpreadTag("committer", p.committer))

GeneratePullRequest(p) == GitEvent(PullRequestKind, p.content[1],
    Origin(p) \o OneTag("subject", p.subject) \o EachTag("t", p.labels) \o EachTag("c", p.commit)
      \o EachTag("clone", p.clone) \o OneTag("branch-name", p.branch) \o OneTag("e", p.rootPatch)
      \o OneTag("merge-base", p.mergeBase))

GeneratePullRequestUpdate(u) == GitEvent(UpdateKind, "",
    Origin(u) \o EachTag("E", u.pullRequest) \o EachTag("P", u.author) \o EachTag("c", u.commit)
      \o EachTag("clone", u.clone) \o OneTag("merge-base", u.mergeBase))

GenerateIssue(i) == GitEvent(IssueKind, i.content[1],
    OneTag("a", i.repository) \o OneTag("p", i.owner) \o OneTag("subject", i.subject)
      \o EachTag("t", i.labels))

\* A relay that is undefined leaves no place in the tag.
PatchTag(applied) == <<"q", applied.id>> \o Truthy(applied.relay) \o Truthy(applied.pubkey)

GenerateStatus(s) == GitEvent(GetStatusKind(s.status[1]), s.content[1],
    << <<"e", s.root[1], "", "root">> >>
      \o FlagTag(<<"e">> \o s.revision \o <<"", "reply">>, s.revision)
      \o OneTag("p", s.owner) \o OneTag("p", s.rootAuthor) \o OneTag("p", s.revisionAuthor)
      \o OneTag("a", s.repository) \o OneTag("r", s.euc)
      \o [i \in DOMAIN s.applied |-> PatchTag(s.applied[i])]
      \o OneTag("merge-commit", s.merge) \o OneTag("r", s.merge)
      \o SpreadTag("applied-as-commits", s.asCommits) \o EachTag("r", s.asCommits))

GenerateGraspList(l) == GitEvent(GraspKind, "", EachTag("g", l.servers))

Generate(o) ==
    CASE o.is = "repository" -> GenerateRepository(o)
      [] o.is = "state"      -> GenerateRepositoryState(o)
      [] o.is = "patch"      -> GeneratePatch(o)
      [] o.is = "pull"       -> GeneratePullRequest(o)
      [] o.is = "update"     -> GeneratePullRequestUpdate(o)
      [] o.is = "issue"      -> GenerateIssue(o)
      [] o.is = "status"     -> GenerateStatus(o)
      [] o.is = "grasp"      -> GenerateGraspList(o)

-----------------------------------------------------------------------------
(* Parsing *)

ParseRepository(tags) ==
    IF FoundOf(tags, "d") = << >> THEN Malformed
    ELSE [is |-> "repository", id |-> FoundOf(tags, "d"),
          name |-> LastOf(tags, "name"), description |-> LastOf(tags, "description"),
          web |-> ValuesOf(tags, "web"), clone |-> ValuesOf(tags, "clone"),
          relays |-> RestOf(tags, "relays"), maintainers |-> RestOf(tags, "maintainers"),
          euc |-> LastOf(SelectSeq(tags, LAMBDA tag : At(tag, 3) = "euc"), "r"),
          isPersonalFork |-> HasTag(tags, "t", "personal-fork"),
          tags |-> SelectSeq(ValuesOf(tags, "t"), LAMBDA v : v # "personal-fork")]

\* refs.set: a name seen again keeps its place and takes the new commits.
SetRef(refs, tag) ==
    IF \E i \in DOMAIN refs : refs[i][1] = tag[1]
    THEN [i \in DOMAIN refs |-> IF refs[i][1] = tag[1] THEN tag ELSE refs[i]]
    ELSE Append(refs, tag)

ParseRepositoryState(tags) ==
    IF FoundOf(tags, "d") = << >> THEN Malformed
    ELSE [is |-> "state", id |-> FoundOf(tags, "d"),
          refs |-> FoldLeft(SetRef, << >>, SelectSeq(tags, LAMBDA tag : At(tag, 1) \in RefsPrefixed)),
          head |-> LastOf(tags, "HEAD")]

\* Mutant: the owner is among the mentioned.
AllMentioned(tags) == ValuesOf(tags, "p")

\* The first p tag is the owner of the repository, the others are mentions.
Mentions(tags) == IF ValuesOf(tags, "p") = << >> THEN << >> ELSE Tail(ValuesOf(tags, "p"))

ParsePatch(event) ==
    LET tags == event.tags
        signatures == SecondsOf(SelectSeq(Named(tags, "commit-pgp-sig"), LAMBDA tag : Len(tag) > 1))
        committers == SelectSeq(Named(tags, "committer"), LAMBDA tag : \A i \in 2..5 : At(tag, i) # "")
    IN [is |-> "patch", content |-> <<event.content>>,
        repository |-> LastOf(tags, "a"), euc |-> FirstOf(tags, "r"),
        owner |-> FirstOf(tags, "p"), mentions |-> Mentions(tags),
        isRoot |-> HasTag(tags, "t", "root"), isRootRevision |-> HasTag(tags, "t", "root-revision"),
        commit |-> LastOf(tags, "commit"), parent |-> LastOf(tags, "parent-commit"),
        signature |-> LastOrNone(signatures),
        committer |-> IF committers = << >> THEN << >> ELSE SubSeq(Last(committers), 2, 5)]

ParsePullRequest(event) ==
    LET tags == event.tags IN
    IF FoundOf(tags, "c") = << >> \/ Named(tags, "clone") = << >> THEN Malformed
    ELSE [is |-> "pull", content |-> <<event.content>>,
          repository |-> LastOf(tags, "a"), euc |-> LastOf(tags, "r"),
          owner |-> FirstOf(tags, "p"), mentions |-> Mentions(tags),
          subject |-> LastOf(tags, "subject"), labels |-> ValuesOf(tags, "t"),
          commit |-> FoundOf(tags, "c"), clone |-> SecondsOf(Named(tags, "clone")),
          branch |-> LastOf(tags, "branch-name"), rootPatch |-> LastOf(tags, "e"),
          mergeBase |-> LastOf(tags, "merge-base")]

ParsePullRequestUpdate(tags) ==
    IF \/ \E name \in {"E", "P", "c"} : FoundOf(tags, name) = << >>
       \/ Named(tags, "clone") = << >>
    THEN Malformed
    ELSE [is |-> "update",
          repository |-> LastOf(tags, "a"), euc |-> LastOf(tags, "r"),
          owner |-> FirstOf(tags, "p"), mentions |-> Mentions(tags),
          pullRequest |-> FoundOf(tags, "E"), author |-> FoundOf(tags, "P"),
          commit |-> FoundOf(tags, "c"), clone |-> SecondsOf(Named(tags, "clone")),
          mergeBase |-> LastOf(tags, "merge-base")]

ParseIssue(event) ==
    [is |-> "issue", content |-> <<event.content>>,
     repository |-> LastOf(event.tags, "a"), owner |-> LastOf(event.tags, "p"),
     subject |-> LastOf(event.tags, "subject"), labels |-> ValuesOf(event.tags, "t")]

\* The p tags are told apart by their place only, and every r tag may be the earliest commit.
ParseStatus(event) ==
    LET tags == event.tags
        roots == SelectSeq(Named(tags, "e"), LAMBDA tag : At(tag, 4) = "root")
        replies == SelectSeq(Named(tags, "e"), LAMBDA tag : At(tag, 4) = "reply")
        people == SecondsOf(Named(tags, "p"))
        applied == SelectSeq(Named(tags, "q"), LAMBDA tag : At(tag, 2) # "")
    IN
    IF roots = << >> \/ (roots # << >> /\ At(roots[1], 2) = "") THEN Malformed
    ELSE [is |-> "status", status |-> <<GetStatusType(event.kind)>>, content |-> <<event.content>>,
          root |-> <<roots[1][2]>>, revision |-> LastOf(replies, "e"),
          owner |-> Truthy(At(people, 1)), rootAuthor |-> Truthy(At(people, 2)),
          revisionAuthor |-> Truthy(At(people, 3)),
          repository |-> LastOf(tags, "a"), euc |-> FirstOf(tags, "r"),
          applied |-> [i \in DOMAIN applied |->
                         [id |-> applied[i][2], relay |-> At(applied[i], 3), pubkey |-> At(applied[i], 4)]],
          merge |-> LastOf(tags, "merge-commit"), asCommits |-> RestOf(tags, "applied-as-commits")]

ParseGraspList(tags) == [is |-> "grasp", servers |-> SecondsOf(Named(tags, "g"))]

\* The parser of the event's kind.
Parse(event) ==
    CASE event.kind = RepositoryKind  -> ParseRepository(event.tags)
      [] event.kind = StateKind       -> ParseRepositoryState(event.tags)
      [] event.kind = PatchKind       -> ParsePatch(event)
      [] event.kind = PullRequestKind -> ParsePullRequest(event)
      [] event.kind = UpdateKind      -> ParsePullRequestUpdate(event.tags)
      [] event.kind = IssueKind       -> ParseIssue(event)
      [] event.kind = GraspKind       -> ParseGraspList(event.tags)
      [] GetStatusType(event.kind) # "none" -> ParseStatus(event)

-----------------------------------------------------------------------------
(* Addresses of repositories, as what stands between their colons *)

CreateRepositoryAddress(pubkey, repoId) == <<RepositoryKind, pubkey>> \o repoId
ParseRepositoryAddress(parts) ==
    IF Len(parts) # 3 \/ parts[1] # RepositoryKind THEN NoObject
    ELSE [pubkey |-> parts[2], repoId |-> <<parts[3]>>]

-----------------------------------------------------------------------------
RefListTags == {<<ref, commit>> : ref \in RefNames, commit \in Commits}
RefMaps == {refs \in ListsOf(RefListTags) : Len(refs) = 2 => refs[1][1] # refs[2][1]}
Applied == [id : Commits, relay : GitWords \union {""}, pubkey : People \union {""}]

GitObjects ==
    [is : {"repository"}, id : One(GitWords), name : Maybe(GitWords), description : Maybe(GitWords),
     web : ListsOf(GitWords), clone : Maybe(GitWords), relays : ListsOf(GitWords), euc : Maybe(Earliest),
     maintainers : ListsOf(People), isPersonalFork : Flags, tags : ListsOf(GitWords \union {"personal-fork"})]
    \union
    [is : {"state"}, id : One(GitWords), refs : RefMaps, head : Maybe(GitWords)]
    \union
    [is : {"patch"}, content : One(GitWords), repository : Maybe(Addresses), euc : Maybe(Earliest),
     owner : Maybe(Owners), mentions : ListsOf(People), isRoot : Flags, isRootRevision : Flags,
     commit : Maybe(Commits), parent : Maybe(Commits), signature : Maybe(GitWords \union {""}),
     committer : {<< >>} \union (GitWords \X GitWords \X GitWords \X GitWords)]
    \union
    [is : {"pull"}, content : One(GitWords), repository : Maybe(Addresses), euc : Maybe(Earliest),
     owner : Maybe(Owners), mentions : ListsOf(People), subject : Maybe(GitWords), labels : ListsOf(GitWords),
     commit : One(Commits), clone : ListsOf(GitWords), branch : Maybe(GitWords), rootPatch : Maybe(Commits),
     mergeBase : Maybe(Commits)]
    \union
    [is : {"update"}, repository : Maybe(Addresses), euc : Maybe(Earliest), owner : Maybe(Owners),
     mentions : ListsOf(People), pullRequest : One(Commits), author : One(People), commit : One(Commits),
     clone : ListsOf(GitWords), mergeBase : Maybe(Commits)]
    \union
    [is : {"issue"}, content : One(GitWords), repository : Maybe(Addresses), owner : Maybe(Owners),
     subject : Maybe(GitWords), labels : ListsOf(GitWords)]
    \union
    [is : {"status"}, status : One(Range(StatusTypes)), content : One(GitWords), root : One(Commits),
     revision : Maybe(Commits), owner : Maybe(Owners), rootAuthor : Maybe(People),
     revisionAuthor : Maybe(People), repository : Maybe(Addresses), euc : Maybe(Earliest),
     applied : Maybe(Applied), merge : Maybe(Commits), asCommits : ListsOf(Commits)]
    \union
    [is : {"grasp"}, servers : ListsOf(GitWords)]

NoTagsYet == gitObject = NoObject /\ gitEvent = NoObject /\ gitParsed = NoObject

GitInit == NoTagsYet

\* One of the generate* functions is called.
GenerateEvent(o) ==
    /\ gitObject' = o
    /\ gitEvent' = Generate(o)
    /\ UNCHANGED gitParsed

\* An event of another program.
ReceiveEvent(kind, tags) ==
    /\ gitEvent' = GitEvent(kind, "", tags)
    /\ UNCHANGED <<gitObject, gitParsed>>

ParseEvent ==
    /\ gitEvent # NoObject /\ gitParsed = NoObject
    /\ gitParsed' = Parse(gitEvent)
    /\ UNCHANGED <<gitObject, gitEvent>>

\* An address is made from a key and an identifier, and taken apart.
AddressRepository(pubkey, repoId) ==
    /\ gitObject' = [pubkey |-> pubkey, repoId |-> repoId]
    /\ gitParsed' = ParseRepositoryAddress(CreateRepositoryAddress(pubkey, repoId))
    /\ UNCHANGED gitEvent

GitNext ==
    \/ NoTagsYet /\ \E o \in GitObjects : GenerateEvent(o)
    \/ NoTagsYet /\ \E kind \in GitKinds, tags \in SeqOf(ForeignTags, 3) : ReceiveEvent(kind, tags)
    \/ NoTagsYet /\ \E pubkey \in People, repoId \in RepoIds : AddressRepository(pubkey, repoId)
    \/ ParseEvent

GitSpec == GitInit /\ [][GitNext]_gitVars

-----------------------------------------------------------------------------
(* Properties *)

\* What is generated is an event the module recognises as its own.
GitTypeOK == gitEvent # NoObject => IsGitEvent(gitEvent) /\ gitEvent.tags \in Seq(Seq(STRING))

\* The objects that the tags can tell: no mention without an owner, no commit without the
\* earliest one, no person of a status without those before him, a relay for a patch with an
\* author, a repository to clone from, refs under refs/, no label that is the mark of a fork.
Tellable(o) ==
    CASE "repoId" \in DOMAIN o -> Len(o.repoId) = 1
      [] "is" \notin DOMAIN o -> TRUE
      [] o.is = "repository" -> ~Contains(o.tags, "personal-fork")
      [] o.is = "state" -> \A i \in DOMAIN o.refs : o.refs[i][1] \in RefsPrefixed
      [] o.is = "patch" -> (o.mentions # << >> => o.owner # << >>) /\ (o.commit # << >> => o.euc # << >>)
      [] o.is \in {"pull", "update"} -> (o.mentions # << >> => o.owner # << >>) /\ o.clone # << >>
      [] o.is = "status" ->
           /\ o.rootAuthor # << >> => o.owner # << >>
           /\ o.revisionAuthor # << >> => o.rootAuthor # << >>
           /\ (o.merge # << >> \/ o.asCommits # << >>) => o.euc # << >>
           /\ \A i \in DOMAIN o.applied : o.applied[i].pubkey # "" => o.applied[i].relay # ""
      [] OTHER -> TRUE

\* What was written is read back field by field, exactly when it is one of those.
GitReadBack ==
    (gitObject # NoObject /\ (gitParsed # NoObject \/ gitEvent = NoObject)) =>
        (gitParsed = gitObject <=> Tellable(gitObject))

\* What was read from an event of another program survives being written and read again, as
\* far as its tags can tell it (Tellable): absent and repeated tags may make an object whose
\* tags cannot.
GitReadIsStable ==
    (gitParsed \notin {NoObject, Malformed} /\ gitEvent # NoObject /\ Tellable(gitParsed)) =>
        Parse(Generate(gitParsed)) = gitParsed
=============================================================================
