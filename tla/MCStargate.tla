------------------------------ MODULE MCStargate ------------------------------
(* Instances of Stargate for TLC. *)
EXTENDS Stargate, TLC

CONSTANTS v1, d1, d2, d3

\* Weights 1, 2 and 4; rewards that these do not divide, one of them 0.
MCValue == (d1 :> 1) @@ (d2 :> 1) @@ (d3 :> 2)
MCMultiplier == (d1 :> 150) @@ (d2 :> 200) @@ (d3 :> 200)
MCDelegatorsRewards == (v1 :> [p \in Periods |-> IF p = 3 THEN 0 ELSE 10 + p])
=============================================================================
