SPECIFICATION Spec
CONSTANTS
    PoolUrls = {u1, u2}
    Adds = {a1, a2}
    PoolSubs = {s1}
    PoolPubs = {w1}
    PoolEvents = {n1, n2}
    AutoConnect = TRUE
    DeduplicateEvents = TRUE
    NoEntry = NoEntry
    u1 = u1
    u2 = u2
    q1 = q1
    q2 = q2
    p1 = p1
    p2 = p2
    e1 = e1
    Urls = {u1, u2}
    Conns = {1, 2, 3}
    Queries = {q1, q2}
    QueryUrls <- SimpleQueryUrls
    Syncs = {q1}
    Timed = {q1}
    Posts = {p1, p2}
    PostUrl <- SimplePostUrl
    PostEvent <- SimplePostEvent
    SeenEvents = {e1, e2, e3}
    MaxSeen = 2
    MaxDelivered = 4
    EnableReconnect = FALSE
    NoConn = NoConn
    RelaySockets = {1, 2, 3}
    RelaySubs = {k1}
    RelayPosts = {r1}
    NoWs = NoWs
    Events = {}
    NoTag = NoTag
    Never = Never
    NoLimit = NoLimit
    Devices = {d1, d2}
    ListEntries = {x, y}
    Modes = {"read", "both"}
    NoMode = NoMode
    NoVersion = NoVersion
    IsFollowList = FALSE
    ListIds = {1, 2}
    MaxListTime = 1
    SyncIds = {1, 2}
    Sessions = {sync1}
    sync1 = sync1
    LocalIds <- SyncLocalIds
    MaxInFlight = 2
CONSTRAINT Separate
INVARIANTS
    ClientTypesOK
    MapIsWhatCallsSay
    PoolAccountsForAll
    SocketsAreLive
    HeardOnce
    ResolvedWasAnswered
    ListIsWhatCallsSay
    SyncTells
PROPERTIES
    PostsEnd
CHECK_DEADLOCK FALSE
