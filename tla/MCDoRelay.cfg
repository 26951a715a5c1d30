SPECIFICATION DoSpec
CONSTANTS
    alice = alice
    bob = bob
    noTag = noTag
    never = never
    noLimit = noLimit
    NoTag = noTag
    Never = never
    NoLimit = noLimit
    NoSub = NoSub
    NoActor = NoActor
    NoVersion = NoVersion
    Events <- MCEvents
    Conn = {1, 2}
    SubId = {1}
    FilterLists <- MCFilterLists
    Invalid = {}
    Nip42Loaded = FALSE
    StatementsFail = TRUE
    MaxTime = 1
    DefaultLimit = 2
    MaxLimit = 3
INVARIANTS
    DoTypeOK
    PageDelivered
    MapWithinWanted
