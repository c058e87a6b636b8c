---------------------------- MODULE MCRelayBridge ----------------------------
(***************************************************************************)
(* Two browser sources, one of a disallowed origin, and a relay client,    *)
(* over one tab and one tool.                                              *)
(***************************************************************************)
EXTENDS RelayBridge

MCToolOrder == <<"a">>
MCTabOrder  == <<"12345">>
MCSafe == [tool \in {"a"} |-> <<"a">>]
MCShort == [tab \in {"12345"} |-> "1234"]
MCNumeral == <<"1", "2", "3">>
==============================================================================
