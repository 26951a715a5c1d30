SPECIFICATION SignerSpec
CONSTANTS
    Handshakes = {connect}
    Methods = {sign}
INVARIANTS ConnectAsks
CHECK_DEADLOCK FALSE
