\* Two changes of the page and up to three faults. Once all is told, the client
\* waits for the page.
SPECIFICATION Spec
CONSTANTS
    Sock = {"s1", "s2"}
    NoSock = "noSock"
    MaxResyncs = 3
    MaxChanges = 2
    MaxFaults = 3
INVARIANTS
    PushesAreSound
PROPERTIES
    ListsMoveForward
    RelayLearns
CHECK_DEADLOCK FALSE
