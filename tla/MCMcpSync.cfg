\* The registry, its names and routes, and the MCP tools that follow it.
SPECIFICATION Spec
CHECK_DEADLOCK FALSE
CONSTANTS
    Conn = {"c1", "c2"}
    ToolOrder <- MCToolOrder
    TabOrder <- MCTabOrder
    Safe <- MCSafe
    MaxParts = 3
    Short <- MCShort
    Numeral <- MCNumeral
    NoTab = "noTab"
    Anyone = "anyone"
    Offers <- MCOffers
    Static <- MCStatic
    Uncompilable = {"a_1234"}
INVARIANTS
    ListingIsTrue
    NamesIdentifyTools
PROPERTIES
    ToolsCatchUp
