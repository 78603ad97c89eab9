--------------------------- MODULE MemoryLifecycle ---------------------------
(***************************************************************************)
(* What the log promises the owner of a memory (log.rs, the doc comments   *)
(* of unretire and capture_session): a note can be put away and taken      *)
(* back, but an edited-away note never returns, and a deleted session is   *)
(* gone forever.  Memories implements this.                                *)
(***************************************************************************)
CONSTANTS NoteIds, Sessions

VARIABLES
    note,      \* note[n]: "absent", "current", "retired" or "replaced"
    session    \* session[s]: "absent", "captured" or "deleted"

lvars == <<note, session>>

\* A note is remembered, retired, taken back, or replaced for good by an edit
NoteMoves == {<<"absent", "current">>, <<"current", "retired">>, <<"retired", "current">>,
              <<"current", "replaced">>, <<"retired", "replaced">>}

\* A capture after the deletion changes nothing
SessionMoves == {<<"absent", "captured">>, <<"captured", "deleted">>}

Init ==
    /\ note = [n \in NoteIds |-> "absent"]
    /\ session = [s \in Sessions |-> "absent"]

\* One note moves, or an edit replaces one by another
NoteStep(was, is) ==
    LET moved == {n \in NoteIds : was[n] # is[n]}
        to(state) == {n \in moved : is[n] = state}
    IN /\ \A n \in moved : <<was[n], is[n]>> \in NoteMoves
       /\ \A m, n \in moved : m = n \/ "replaced" \in {is[m], is[n]}
       /\ \A m, n \in to("replaced") : m = n
       /\ to("replaced") # {} => \E n \in to("current") : was[n] = "absent"

SessionStep(was, is) ==
    LET moved == {s \in Sessions : was[s] # is[s]}
    IN /\ \A s \in moved : <<was[s], is[s]>> \in SessionMoves
       /\ \A s, t \in moved : s = t

Next ==
    \/ NoteStep(note, note') /\ UNCHANGED session
    \/ SessionStep(session, session') /\ UNCHANGED note

Spec == Init /\ [][Next]_lvars
=============================================================================
