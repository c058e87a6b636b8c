\* Searches, handshakes and losses, with up to three disturbances. A client that
\* is connected, or was stopped, waits for the outside.
SPECIFICATION Spec
CONSTANTS
    Endpoint = {1, 2}
    Hint = 1
    Nowhere = 0
    Sock = {"s1", "s2", "s3"}
    NoSock = "noSock"
    MaxCycle = 3
    MaxChains = 2
    MaxDisturbances = 3
INVARIANTS
    SearchGoesOn
    ConnectionIsTrue
PROPERTIES
    Reconnects
CHECK_DEADLOCK FALSE
