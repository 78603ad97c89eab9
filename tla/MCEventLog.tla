----------------------------- MODULE MCEventLog -----------------------------
(* EventLog for TLC: a few ids, lineages that name early, later and lost ids *)
EXTENDS EventLog, TLC

MCLineages == {{1}, {2}, {1, 3}}
=============================================================================
