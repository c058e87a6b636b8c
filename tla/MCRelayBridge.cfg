\* Safety: two allowed browser sources, one relay client, one call.
SPECIFICATION SafetySpec
CONSTANTS
    Conn = {"b1", "b2", "r"}
    Browser = {"b1", "b2"}
    Disallowed = {}
    Call = {1}
    Mcp = "mcp"
    NoConn = "noConn"
    NoView = NoView
    ToolOrder <- MCToolOrder
    TabOrder <- MCTabOrder
    Safe <- MCSafe
    MaxParts = 2
    Short <- MCShort
    Numeral <- MCNumeral
    NoTab = "noTab"
    Anyone = "anyone"
INVARIANTS
    NoCallIsForgotten
    RelayViewsCurrent
    RelayCallsAnswered
PROPERTIES
    KeepsLedgerSafety
