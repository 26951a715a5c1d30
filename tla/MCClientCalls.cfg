SPECIFICATION FairSpec
CONSTANTS
    NoSocket = NoSocket
    NoCall = NoCall
    NoRequest = NoRequest
    Sockets = {1, 2}
    Subs = {}
    Sessions = {}
    Publishes = {event}
    Counts = {count}
    Calls = {1, 2}
    sub = sub
    session = session
    event = event
    count = count
    AutoReconnect = TRUE
    MaxAttempts = 1
    MaxStrays = 1
INVARIANTS
    EntriesWait
PROPERTIES
    AnswersMatch
    CallsEnd
