----------------------------- MODULE MCTabSources -----------------------------
(***************************************************************************)
(* Two tabs over two http(s) pages and one other page, and one selection   *)
(* besides the initial one.  The tabs are alike, and so are the two pages, *)
(* so it is enough to begin with the first tab open, and on "h1" if it is  *)
(* on one of them; that neither is open yet is left out.                   *)
(***************************************************************************)
EXTENDS TabSources

MCInit == Init /\ shows["t1"] \in {"h1", "x"} /\ shows["t2"] \in {"h2", NoPage}
MCSpec == MCInit /\ [][Next]_vars /\ Fairness
==============================================================================
