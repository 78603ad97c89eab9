------------------------------- MODULE Memories -------------------------------
(***************************************************************************)
(* Notes, captured sessions, their retirement and the resolution of        *)
(* conflicts (log.rs, engine/mod.rs), called by several clients of one     *)
(* daemon at once.                                                         *)
(*                                                                         *)
(* An operation reads the log in one lock section and appends in another,  *)
(* so it is two steps here: the check, and the append of what was decided. *)
(* Only resolve_conflict holds a lock (resolve_lock) across its steps; it  *)
(* appends a retire marker and then the terminal marker.  A crash loses    *)
(* what is in flight and nothing that was appended.                        *)
(***************************************************************************)
EXTENDS MemoryFold

CONSTANTS
    Clients,      \* connections of the daemon, one request at a time each
    Sessions,     \* session ids
    Bodies,       \* bodies a session can have (their sha256)
    PassagesOf,   \* PassagesOf[b]: the passages body b is chunked to
    MaxEvents,    \* bound: memory events in the log
    Nil

ASSUME MemoriesAssumption ==
    /\ MaxEvents \in Nat
    /\ PassagesOf \in [Bodies -> Nat]
    /\ Nil \notin Clients

VARIABLES
    log,          \* the memory events
    rows,         \* rows[c]: rows of session_passage_vectors of capture c
    call,         \* what each client has in flight
    resolver,     \* the client holding resolve_lock
    refused       \* history: <<p, via>>: a retirement for p refused, loser retired via `via`

vars == <<log, rows, call, resolver, refused>>

Idle == [op |-> "idle"]
Room(n) == Len(log) + n <= MaxEvents
IsIdle(c) == call[c] = Idle
Goto(c, next) == call' = [call EXCEPT ![c] = next]
Append1(e) == Room(1) /\ log' = Append(log, e)
Quiet == UNCHANGED <<rows, resolver, refused>>

Refs == {Note(n) : n \in Of(log, "memory")}
        \cup {Passage(s, k) : s \in Sessions, k \in UNION {0..(PassagesOf[b] - 1) : b \in Bodies}}

-----------------------------------------------------------------------------
(* Notes *)

\* remember: one append
Remember ==
    /\ Append1(Memory(0))
    /\ Quiet /\ UNCHANGED call

\* supersede_note: the target is a note that is not superseded ...
SupersedeCheck(c, n) ==
    /\ IsIdle(c) /\ n \notin Superseded(log)
    /\ Goto(c, [op |-> "supersede", target |-> n])
    /\ Quiet /\ UNCHANGED log

\* ... then the supersede and the corrected note go in as one pair
SupersedeAppend(c) ==
    /\ call[c].op = "supersede"
    /\ Room(2)
    /\ log' = log \o <<Supersede(call[c].target), Memory(call[c].target)>>
    /\ Goto(c, Idle) /\ Quiet

\* assert_retirable_note, and the checks of retire_passage
Retirable(r) ==
    /\ r \notin Retired(log)
    /\ \/ r.kind = "note" /\ r.of \notin Superseded(log)
       \/ r.kind = "passage" /\ \E h \in HeadOf(log, r.of) : r.passage < rows[h]

\* retire_memory and retire_passage of the App
RetireCheck(c, r) ==
    /\ IsIdle(c) /\ Retirable(r)
    /\ Goto(c, [op |-> "retire", ref |-> r])
    /\ Quiet /\ UNCHANGED log

RetireAppend(c) ==
    /\ call[c].op = "retire"
    /\ Append1(Retirement(call[c].ref, 0))
    /\ Goto(c, Idle) /\ Quiet

\* unretire and unretire_passage
UnretireCheck(c, r) ==
    /\ IsIdle(c) /\ r \in Retired(log)
    /\ Goto(c, [op |-> "unretire", ref |-> r])
    /\ Quiet /\ UNCHANGED log

UnretireAppend(c) ==
    /\ call[c].op = "unretire"
    /\ Append1(UnretireEvent(call[c].ref))
    /\ Goto(c, Idle) /\ Quiet

-----------------------------------------------------------------------------
(* Sessions *)

\* capture_session: refused for a deleted session
CaptureCheck(c, s, b) ==
    /\ IsIdle(c) /\ s \notin Deleted(log)
    /\ \A h \in HeadOf(log, s) : log[h].sha256 # b
    /\ Goto(c, [op |-> "capture", session |-> s, body |-> b, prev |-> HeadOf(log, s)])
    /\ Quiet /\ UNCHANGED log

\* A head with this body is left as it is, and the caller fills in passages a crash lost
RecaptureCheck(c, s) ==
    /\ IsIdle(c)
    /\ \E h \in HeadOf(log, s) : rows[h] = 0 /\ Goto(c, [op |-> "passages", capture |-> h])
    /\ Quiet /\ UNCHANGED log

\* A changed body supersedes the capture that was current at the check
CaptureAppend(c) ==
    /\ call[c].op = "capture"
    /\ LET new == Captured(call[c].session, call[c].body)
           prev == {<<Supersede(h)>> : h \in call[c].prev}
           pair == IF prev = {} THEN <<new>> ELSE (CHOOSE e \in prev : TRUE) \o <<new>>
       IN /\ Room(Len(pair))
          /\ log' = log \o pair
    /\ Goto(c, [op |-> "passages", capture |-> Len(log')])
    /\ Quiet

\* The caller of capture_session stores the passages of a capture that has none yet
StorePassages(c) ==
    /\ call[c].op = "passages"
    /\ LET h == call[c].capture
       IN rows' = [rows EXCEPT ![h] = IF @ = 0 THEN PassagesOf[log[h].sha256] ELSE @]
    /\ Goto(c, Idle)
    /\ UNCHANGED <<log, resolver, refused>>

\* delete_session
DeleteCheck(c, s) ==
    /\ IsIdle(c) /\ HeadOf(log, s) # {}
    /\ Goto(c, [op |-> "delete", session |-> s])
    /\ Quiet /\ UNCHANGED log

DeleteAppend(c) ==
    /\ call[c].op = "delete"
    /\ Append1(SessionDeleted(call[c].session))
    /\ Goto(c, Idle) /\ Quiet

-----------------------------------------------------------------------------
(* Conflicts *)

\* A passage is as old as its session's head (ref_ts)
Age(r) == IF r.kind = "note" THEN {r.of} ELSE HeadOf(log, r.of)

\* The detection cycle files a proposal, older memory first (ConflictSweep has its steps)
AppendConflictProposal(a, b) ==
    /\ a # b
    /\ \A i \in Age(a), j \in Age(b) : i <= j
    /\ {a, b} \notin Excluded(log)
    /\ ~Suppressed(log, rows, a, b)
    /\ Append1(Proposal(a, b))
    /\ Quiet /\ UNCHANGED call

Loser(p, act) == IF act = "retire_older" THEN log[p].a ELSE log[p].b

\* The same resolution, one step on
Onward(c, op) ==
    [op |-> op, proposal |-> call[c].proposal, action |-> call[c].action, heads |-> call[c].heads]

\* Mutant: no resolve_lock
ResolveCheckUnlocked(c, p, act) ==
    /\ IsIdle(c)
    /\ IF Resolution(log, p) # {}
       THEN UNCHANGED <<call, resolver>>
       ELSE /\ resolver' = c
            /\ Goto(c, [op |-> IF act \in Retiring /\ Loser(p, act) \notin Retired(log)
                               THEN "resolve_retire" ELSE "resolve_mark",
                        proposal |-> p, action |-> act,
                        heads |-> IF act = "dismiss" THEN SessionHeads(log, p) ELSE {}])
    /\ UNCHANGED <<log, rows, refused>>

\* resolve_conflict under resolve_lock, up to its first append: an answer to a resolved
\* proposal (NoOp or an error), a roll forward when the loser is retired already, or a fresh start
ResolveCheck(c, p, act) ==
    /\ IsIdle(c) /\ resolver = Nil
    /\ IF Resolution(log, p) # {}
       THEN UNCHANGED <<call, resolver>>
       ELSE /\ resolver' = c
            /\ Goto(c, [op |-> IF act \in Retiring /\ Loser(p, act) \notin Retired(log)
                               THEN "resolve_retire" ELSE "resolve_mark",
                        proposal |-> p, action |-> act,
                        heads |-> IF act = "dismiss" THEN SessionHeads(log, p) ELSE {}])
    /\ UNCHANGED <<log, rows, refused>>

\* Mutant: the marker is written although the retirement was refused
ResolveRetireCheckIgnored(c) ==
    /\ call[c].op = "resolve_retire"
    /\ Goto(c, Onward(c, IF Retirable(Loser(call[c].proposal, call[c].action))
                         THEN "resolve_append" ELSE "resolve_mark"))
    /\ UNCHANGED <<log, rows, refused, resolver>>

\* retire_memory or retire_passage for the proposal: its own check may refuse
ResolveRetireCheck(c) ==
    /\ call[c].op = "resolve_retire"
    /\ LET p == call[c].proposal
           r == Loser(p, call[c].action)
           marks == {i \in Of(log, "retired") : log[i].ref = r}
           live == {log[i].via : i \in {i \in marks : \A j \in marks : j <= i}}
       IN IF Retirable(r)
          THEN Goto(c, Onward(c, "resolve_append")) /\ UNCHANGED <<resolver, refused>>
          ELSE /\ Goto(c, Idle) /\ resolver' = Nil
               /\ refused' = refused \cup {<<p, v>> : v \in IF r \in Retired(log) THEN live ELSE {}}
    /\ UNCHANGED <<log, rows>>

ResolveRetireAppend(c) ==
    /\ call[c].op = "resolve_append"
    /\ LET p == call[c].proposal
       IN Append1(Retirement(Loser(p, call[c].action), p))
    /\ Goto(c, Onward(c, "resolve_mark"))
    /\ Quiet

\* Mutant: the lock is not released
ResolveMarkKeepsLock(c) ==
    /\ call[c].op = "resolve_mark"
    /\ Append1(Terminal(call[c].proposal, call[c].action, call[c].heads))
    /\ Goto(c, Idle) /\ Quiet

\* append_conflict_resolved, append_pair_terminal
ResolveMark(c) ==
    /\ call[c].op = "resolve_mark"
    /\ Append1(Terminal(call[c].proposal, call[c].action, call[c].heads))
    /\ Goto(c, Idle) /\ resolver' = Nil
    /\ UNCHANGED <<rows, refused>>

-----------------------------------------------------------------------------
\* The process dies: calls and locks are gone, the log and the rows are not
Crash ==
    /\ \E c \in Clients : ~IsIdle(c)
    /\ call' = [c \in Clients |-> Idle]
    /\ resolver' = Nil
    /\ UNCHANGED <<log, rows, refused>>

Init ==
    /\ log = <<>>
    /\ rows = [i \in 1..MaxEvents |-> 0]
    /\ call = [c \in Clients |-> Idle]
    /\ resolver = Nil
    /\ refused = {}

Next ==
    \/ Remember
    \/ Crash
    \/ \E a, b \in CurrentRefs(log, rows) : AppendConflictProposal(a, b)
    \/ \E c \in Clients :
        \/ \E n \in Of(log, "memory") : SupersedeCheck(c, n)
        \/ \E r \in Refs : RetireCheck(c, r) \/ UnretireCheck(c, r)
        \/ \E s \in Sessions : DeleteCheck(c, s) \/ RecaptureCheck(c, s) \/ \E b \in Bodies : CaptureCheck(c, s, b)
        \/ \E p \in Of(log, "conflict_proposal"), act \in Actions : ResolveCheck(c, p, act)
        \/ SupersedeAppend(c)
        \/ RetireAppend(c)
        \/ UnretireAppend(c)
        \/ CaptureAppend(c)
        \/ StorePassages(c)
        \/ DeleteAppend(c)
        \/ ResolveRetireCheck(c)
        \/ ResolveRetireAppend(c)
        \/ ResolveMark(c)

Spec == Init /\ [][Next]_vars

-----------------------------------------------------------------------------
(* Properties *)

\* A conflict is answered once: however often two clients submit answers, the same or
\* different ones, a proposal has at most one terminal marker (resolution_markers keeps
\* the earliest "defensively"; resolve_lock and the guard are what makes it unique).
OneTerminal == \A p \in Of(log, "conflict_proposal") : Cardinality(Markers(log, p)) <= 1

\* A retiring answer is recorded only after its loser was retired: with a crash between the
\* two appends of resolve_conflict the log never claims a retirement that was not made.
MarkerAfterRetire ==
    \A i \in Of(log, "terminal") : log[i].action \in Retiring =>
        \E j \in Of(log, "retired") :
            /\ j < i
            /\ log[j].ref = Loser(log[i].proposal, log[i].action)

\* A resolve_conflict is refused with "already retired" only when somebody else retired the
\* loser: a double submit of one proposal is Applied and NoOp, never a spurious refusal.
CleanDoubleSubmit == \A r \in refused : r[1] # r[2]

-----------------------------------------------------------------------------
(* The abstract lifecycle: what the projections show decides the state *)

NoteState(n) ==
    IF n \notin Of(log, "memory") THEN "absent"
    ELSE IF n \in CurrentNotes(log) THEN "current"
    ELSE IF n \in Superseded(log) THEN "replaced" ELSE "retired"

SessionState(s) ==
    IF HeadOf(log, s) # {} THEN "captured"
    ELSE IF s \in Deleted(log) THEN "deleted" ELSE "absent"

Lifecycle == INSTANCE MemoryLifecycle WITH
    NoteIds <- 1..MaxEvents,
    note <- [n \in 1..MaxEvents |-> NoteState(n)],
    session <- [s \in Sessions |-> SessionState(s)]

\* Edited-away notes and deleted sessions never come back, whatever races: the operations of
\* any number of clients implement the abstract lifecycle.
ImplementsLifecycle == Lifecycle!Spec
=============================================================================
