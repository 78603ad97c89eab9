---------------------------- MODULE MCConflictSweep ----------------------------
(* One session of two passages, and a pair of notes the judge always fails on. *)
EXTENDS ConflictSweep

CONSTANT s1

MCErring == {{Note(1), Note(2)}}
=============================================================================
