---------------------------- MODULE MCSourceClient ----------------------------
(***************************************************************************)
(* Two endpoints, the first of which is hinted, and three sockets.         *)
(***************************************************************************)
EXTENDS SourceClient
==============================================================================
