--------------------------- MODULE MCStatusPanel ---------------------------
(***************************************************************************)
(* Two tabs, two calls over a log of one entry (so that the entry of a     *)
(* running call is trimmed), two things in flight at a time (two requests, *)
(* a request and a call, two calls), and one event of the browser: a stop  *)
(* of the worker, a closed tab or another active tab.                      *)
(***************************************************************************)
EXTENDS StatusPanel

CONSTANTS t1, t2
MCTabs == {t1, t2}

=============================================================================
