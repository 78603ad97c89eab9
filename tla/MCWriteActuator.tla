-------------------------- MODULE MCWriteActuator --------------------------
(* WriteActuator for TLC *)
EXTENDS WriteActuator, TLC

Symmetry == Permutations(Workers)
=============================================================================
