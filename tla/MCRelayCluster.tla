---------------------------- MODULE MCRelayCluster ----------------------------
(***************************************************************************)
(* Three relays, one of them with an explicit port, over a range of two.   *)
(***************************************************************************)
EXTENDS RelayCluster, TLC

MCFixed == ("p1" :> 0) @@ ("p2" :> 0) @@ ("p3" :> 1)
==============================================================================
