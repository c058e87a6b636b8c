CONSTANTS
  t1 = t1
  t2 = t2
  Tabs <- MCTabs
  NoTab = NoTab
  Cap = 1
  MaxCalls = 2
  MaxInFlight = 2
  MaxEvents = 1
SPECIFICATION Spec
INVARIANT LogsAgree
INVARIANT SelectionIsShown
INVARIANT PanelIsTruthful
PROPERTY RunningEnds
