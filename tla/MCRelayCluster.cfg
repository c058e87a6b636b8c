\* Three relays, one with an explicit port, two ports, three disturbances. A relay
\* at rest waits for the outside, so the system may stop when these are used up.
SPECIFICATION Spec
CONSTANTS
    Proc = {"p1", "p2", "p3"}
    DefaultPort = 1
    RangeEnd = 2
    Fixed <- MCFixed
    NoPort = 0
    NoProc = "noProc"
    MaxAttempts = 5
    MaxDisturbances = 3
INVARIANTS
    LinksLeadToServers
    NobodyWaitsInVain
PROPERTIES
    Recovers
CHECK_DEADLOCK FALSE
