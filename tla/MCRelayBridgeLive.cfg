\* Liveness: one of the browser sources has a disallowed origin.
SPECIFICATION Spec
CONSTANTS
    Conn = {"b1", "b2", "r"}
    Browser = {"b1", "b2"}
    Disallowed = {"b2"}
    Call = {1}
    Mcp = "mcp"
    NoConn = "noConn"
    NoView = NoView
    ToolOrder <- MCToolOrder
    TabOrder <- MCTabOrder
    Safe <- MCSafe
    MaxParts = 2
    Short <- MCShort
    Numeral <- MCNumeral
    NoTab = "noTab"
    Anyone = "anyone"
INVARIANTS
    NothingOutlivesItsSocket
PROPERTIES
    KeepsLedger
    ProbesAreClosed
