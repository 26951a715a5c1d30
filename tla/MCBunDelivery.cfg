SPECIFICATION Spec
CONSTANTS
    alice = alice
    bob = bob
    noTag = noTag
    never = never
    noLimit = noLimit
    NoTag = noTag
    Never = never
    NoLimit = noLimit
    NoSub = NoSub
    NoVersion = NoVersion
    NoActor = NoActor
    Events <- FewEvents
    Conn = {1, 2}
    SubId = {1}
    FilterLists <- MCFilterLists
    Invalid = {}
    Nip42Loaded = FALSE
    StatementsFail = TRUE
    MaxTime = 1
    UnfilteredCap = 2
INVARIANTS
    SubscriptionsHaveSockets
    NoMissedEvents
    NewestDelivered
