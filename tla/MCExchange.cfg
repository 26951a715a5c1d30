SPECIFICATION Spec
CONSTANTS
    Events = {}
    NoTag = NoTag
    Never = Never
    NoLimit = NoLimit
    Idle = Idle
    Scenarios <- AllScenarios
    Accounts = {"a", "b"}
    MaxTime = 1
    AccessConns = {"c1", "c2"}
    Submissions <- AccessSubmissions
    AuthEvents <- AccessAuthEvents
    Modules <- AccessModules
    RelayHosts = {"relay"}
    MaxAuthAge = 2
    RlMax = 1
    RlWindow = 2
    MaxEpoch = 2
    MaxChallenge = 2
    MaxAccessTime = 4
    Nobody = Nobody
    AdminCalls = {a1, a2}
    Lists = {"bannedEvents"}
    AdminKeys = {"k"}
    InfoFields = {"name", "icon", "pubkey"}
    ChangeFields = {"name", "icon"}
    ConfiguredInfo <- AdminConfigured
    DefaultInfo <- AdminDefault
    Tokens <- AdminTokens
    Unset = Unset
    Ids = {1, 2, 3, 4, 5, 6, 7, 8}
    Storages <- NegStorages
    TimeOf <- NegTimes
    BytesOf <- NegBytes
    Buckets = 2
    MaxFrame = 5
    VarIntBits = 4
    MaxInitiates = 2
    PeerKinds = {"object", "relay"}
    ByteSize = 4
    KeyLen = 2
    KindLen = 1
    MaxBytes = 20
    Keys32 <- PointerKeys
    Texts <- PointerTexts
    Kinds32 = {0, 3}
    ReceivedTexts <- PointerReceived
    Missing = Missing
    Failed = Failed
    Earliest = {"c0"}
    Commits = {"c1"}
    Owners = {"o"}
    People = {"k", "l"}
    Addresses = {"a"}
    GitWords = {"w"}
    RefNames = {"refs/a", "refs/b", "main"}
    RefsPrefixed = {"refs/a", "refs/b"}
    RepoIds <- GitRepoIds
    ForeignTags <- GitForeignTags
    NoObject = NoObject
    Malformed = Malformed
    Words = {"w", "v"}
    Titles = {"t"}
    Numbers = {"0"}
    Currencies = {"usd"}
    Sizes = {"1x1"}
    Names <- ServiceNames
    NoService = NoService
    Refused = Refused
    Authors = {"a"}
    Urls = {"u"}
    ForeignRefs <- ReferenceTags
    MaxForeign = 3
    ExtraRefs <- ReferenceExtras
    MaxPosts = 3
    Nothing = Nothing
    Voters = {v1, v2}
    Options = {o1, o2}
    MaxVoteTime = 2
    MaxResponses = 3
    NoEnd = NoEnd
    message1 = message1
    message2 = message2
    Messages = {message1, message2}
    Deflated <- ChunkBytes
    ByteRange = 2
    MinChunk = 4
    MaxChunk = 5
    ChunkSizes = {3, 5}
    MaxReceived = 5
    Fault = Fault
CONSTRAINT Focus
INVARIANTS
    ExchangeTypesOK
    HeadIsLatest
    AskedIsFound
    StreamComplete
    TokenKept
    RateHolds
    AuthIsOwners
    AdvertisedIsEnforced
    DocumentShowsChanges
    ReconciliationTells
    WrittenIsRead
    VotesAreOrderFree
CHECK_DEADLOCK FALSE
