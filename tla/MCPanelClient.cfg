\* The panel's connections to the selected tabs.
SPECIFICATION Spec
CONSTANTS
    Tab = {"t1", "t2"}
    Object = {1}
    Listing = {"l1", "l2", "l3", "l4"}
    Restless = {"t1"}
    SlowPages = {"t1"}
    MaxChanges = 1
    MaxSlow = 1
INVARIANTS
    OnlyTargetsRetry
    RoutesLeadToTargets
PROPERTIES
    ListingsEnd
    ToolsAreShown
