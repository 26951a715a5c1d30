SPECIFICATION Spec
CONSTANTS
    NoSocket = NoSocket
    NoCall = NoCall
    NoRequest = NoRequest
    Sockets = {1, 2}
    Subs = {sub}
    Sessions = {session}
    Publishes = {}
    Counts = {}
    Calls = {}
    sub = sub
    session = session
    event = event
    count = count
    AutoReconnect = TRUE
    MaxAttempts = 3
    MaxStrays = 1
INVARIANTS
    TypeOK
    StateTellsSocket
    OpenStreamsListed
    NoStreamForgotten
