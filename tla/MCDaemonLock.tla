---------------------------- MODULE MCDaemonLock ----------------------------
(* DaemonLock for TLC *)
EXTENDS DaemonLock, TLC

Symmetry == Permutations(Procs)
=============================================================================
