------------------------------ MODULE MCToolPush ------------------------------
(***************************************************************************)
(* Two sockets, so that one may be found while another is closing, and the *)
(* three resync timers of the code.                                        *)
(***************************************************************************)
EXTENDS ToolPush
==============================================================================
