-------------------------- MODULE MCPositionManager --------------------------
(* Instances of PositionManager for TLC. *)
EXTENDS PositionManager, TLC

CONSTANTS v1, v2, p1, p2

\* Two validators share a cap of 3 and one of 1.  Both round the odd position
\* up, so that shares (2 + 2 and 1 + 1) and caps both get to bind.
MCValidators == {v1, v2}
MCPositionNames == {p1, p2}
MCMainnetUsed == (p1 :> 3) @@ (p2 :> 1)
MClastByte == (v1 :> 0) @@ (v2 :> 100)
MCscore == (v1 :> 0) @@ (v2 :> 1)
=============================================================================
