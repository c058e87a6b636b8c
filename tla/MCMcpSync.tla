------------------------------ MODULE MCMcpSync ------------------------------
(***************************************************************************)
(* Two connections, two tabs whose ids share their first four characters,  *)
(* and three tools whose names collide with the names disambiguation and   *)
(* numbering produce: a of tab 12345 wants a_1234, which is a tool too.    *)
(* Names have room for three parts: a_1234_2 of that tab is cut to         *)
(* a_1234_1234, and a number takes the place of its last part.             *)
(***************************************************************************)
EXTENDS McpSync

MCToolOrder == <<"a", "a_1234", "a_1234_2">>
MCTabOrder  == <<"12345", "12346">>
MCSafe == [tool \in {"a", "a_1234", "a_1234_2"} |->
              CASE tool = "a"        -> <<"a">>
                [] tool = "a_1234"   -> <<"a", "1234">>
                [] tool = "a_1234_2" -> <<"a", "1234", "2">>]
MCShort == [tab \in {"12345", "12346"} |-> "1234"]
MCNumeral == <<"1", "2", "3", "4", "5", "6", "7", "8", "9", "10">>
MCOffers == {{}, {"a"}, {"a_1234", "a_1234_2"}, {"a", "a_1234", "a_1234_2"}}
MCStatic == {<<"a", "1234", "2">>}
==============================================================================
