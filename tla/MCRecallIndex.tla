---------------------------- MODULE MCRecallIndex ----------------------------
(* RecallIndex for TLC *)
EXTENDS RecallIndex, TLC

Symmetry == Permutations(Recalls) \cup Permutations(Notes) \cup Permutations(Migrations)
=============================================================================
