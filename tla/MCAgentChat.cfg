CONSTANTS
    Agent = {"a", "b"}
    Caller = {"chat", "debug"}
    Lists <- MCLists
    MaxSaves = 2
    MaxPolls = 1
    MaxTurns = 1
    MaxRounds = 2
    MaxToolCalls = 2
    MaxMoves = 4
SPECIFICATION Spec
INVARIANTS
    ConversationsArePaired
    SessionsStayApart
    OneTaskPerAgent
    ToolsFollowTheList
PROPERTIES
    StoppedTurnsLeaveNoTrace
    StoppedTurnsEnd
