------------------------------ MODULE MCNetwork ------------------------------
(* Two networks, named as the two tests that run them. *)
EXTENDS Network, TLC

CONSTANTS n1, n2, t1, t2
NetworkNames == (n1 :> t1) @@ (n2 :> t2)
==============================================================================
