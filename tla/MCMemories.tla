------------------------------ MODULE MCMemories ------------------------------
(* Two clients, one session with two bodies of one passage each. *)
EXTENDS Memories, TLC

CONSTANTS c1, c2, s1, b1, b2

MCPassagesOf == b1 :> 1 @@ b2 :> 1
Symm == Permutations({c1, c2}) \cup Permutations({b1, b2})
=============================================================================
