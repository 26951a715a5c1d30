SPECIFICATION Spec
CONSTANTS
    NoSocket = NoSocket
    NoCall = NoCall
    NoRequest = NoRequest
    Sockets = {1, 2}
    Subs = {sub}
    Sessions = {}
    Publishes = {}
    Counts = {}
    Calls = {}
    sub = sub
    session = session
    event = event
    count = count
    AutoReconnect = TRUE
    MaxAttempts = 2
    MaxStrays = 1
PROPERTIES
    DisconnectStays
