\* Two tabs and up to two disturbances.
SPECIFICATION MCSpec
CONSTANTS
    Tab = {"t1", "t2"}
    Page = {"h1", "h2", "x"}
    Http = {"h1", "h2"}
    NoPage = "noPage"
    Task = {"k1"}
    Boot = "boot"
    MaxDisturbances = 2
INVARIANTS
    EntriesAreTended
    EntriesShowThePage
    SelectionIsStored
PROPERTIES
    SelectedEndUpConnected
CHECK_DEADLOCK FALSE
