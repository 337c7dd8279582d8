------------------------ MODULE MCValidatorLifecycle ------------------------
(* The validators are alike; the run with temporal properties cannot use it. *)
EXTENDS ValidatorLifecycle, TLC

ValidatorSymmetry == Permutations(Validators)
=============================================================================
