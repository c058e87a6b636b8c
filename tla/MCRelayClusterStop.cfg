\* stop() while a reconnect is under way.
SPECIFICATION SafetySpec
CONSTANTS
    Proc = {"p1", "p2", "p3"}
    DefaultPort = 1
    RangeEnd = 2
    Fixed <- MCFixed
    NoPort = 0
    NoProc = "noProc"
    MaxAttempts = 5
    MaxDisturbances = 2
INVARIANTS
    StopIsFinal
CHECK_DEADLOCK FALSE
