----------------------------- MODULE MCAgentChat -----------------------------
(***************************************************************************)
(* Two remote agents, one of which changes its protocol; two lists.        *)
(***************************************************************************)
EXTENDS AgentChat

Tool(id, protocol) == [id |-> id, protocol |-> protocol]
MCLists == {<<Tool("a", "jsonrpc"), Tool("b", "dify")>>, <<Tool("a", "dify")>>}
==============================================================================
