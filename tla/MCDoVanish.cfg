SPECIFICATION DoSpec
CONSTANTS
    alice = alice
    bob = bob
    noTag = noTag
    never = never
    noLimit = noLimit
    NoTag = noTag
    Never = never
    NoLimit = noLimit
    NoSub = NoSub
    NoActor = NoActor
    NoVersion = NoVersion
    Events <- Notes
    Conn = {1}
    SubId = {1}
    FilterLists <- OneFilter
    Invalid = {}
    Nip42Loaded = FALSE
    StatementsFail = FALSE
    MaxTime = 0
    DefaultLimit = 2
    MaxLimit = 3
PROPERTIES
    VanishTakesAll
