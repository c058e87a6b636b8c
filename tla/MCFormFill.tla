----------------------------- MODULE MCFormFill -----------------------------
(***************************************************************************)
(* Two slots, so that one can be forgotten while it loads, and three       *)
(* versions of the data: an option is added and another one goes.          *)
(***************************************************************************)
EXTENDS FormFill

MCOffered == <<{"x"}, {"x", "y"}, {"y"}>>
==============================================================================
