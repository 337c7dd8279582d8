------------------------ MODULE MCDelegatorLifecycle ------------------------
(* Model values for DelegatorLifecycle. *)
EXTENDS DelegatorLifecycle, TLC

\* The jobs of one lifecycle are interchangeable.
JobSymmetry == Permutations(Slots)
=============================================================================
