SPECIFICATION Spec
CONSTANTS
    alice = alice
    bob = bob
    noTag = noTag
    never = never
    noLimit = noLimit
    NoTag = noTag
    Never = never
    NoLimit = noLimit
    NoSub = NoSub
    NoVersion = NoVersion
    NoActor = NoActor
    Events <- MCEvents
    Conn = {1}
    SubId = {1}
    FilterLists = {}
    Invalid <- MCInvalid
    Nip42Loaded = TRUE
    StatementsFail = TRUE
    MaxTime = 1
    UnfilteredCap = 2
INVARIANTS
    ReplaceKeepsOne
