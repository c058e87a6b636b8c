---------------------------- MODULE MCPanelClient ----------------------------
(***************************************************************************)
(* Two tabs, the page of one of which comes, goes, changes and may answer  *)
(* too late.  A tab is selected again once nothing holds its old           *)
(* connection.  Of the four listings, three are there for what the ports   *)
(* report while one is under way.                                          *)
(***************************************************************************)
EXTENDS PanelClient
==============================================================================
