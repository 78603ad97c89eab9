------------------------------ MODULE MemoryFold ------------------------------
(***************************************************************************)
(* The memory events of the signed log and the projections log.rs folds    *)
(* out of them: current notes and sessions, retired notes and passages,    *)
(* open, resolved and pending conflict proposals.                          *)
(*                                                                         *)
(* A log l is the sequence of its memory events; an event's id is its      *)
(* position, which is its seq.  Texts, vectors, titles and digests of a    *)
(* body are left out: a body is a member of a small set.  rows[c] is the   *)
(* number of passage rows stored for capture c.                            *)
(***************************************************************************)
EXTENDS Integers, Sequences, FiniteSets

\* What a conflict speaks of: a note by its event, or a passage by its session and ordinal
Note(n) == [kind |-> "note", of |-> n, passage |-> 0]
Passage(s, k) == [kind |-> "passage", of |-> s, passage |-> k]

Memory(from) == [type |-> "memory", from |-> from]
Supersede(e) == [type |-> "supersede", supersedes |-> e]
Captured(s, b) == [type |-> "session_captured", session |-> s, sha256 |-> b]
SessionDeleted(s) == [type |-> "session_deleted", session |-> s]
Retirement(r, via) == [type |-> "retired", ref |-> r, via |-> via]
UnretireEvent(r) == [type |-> "unretire", ref |-> r]
Proposal(a, b) == [type |-> "conflict_proposal", a |-> a, b |-> b]
Terminal(p, act, heads) ==
    [type |-> "terminal", proposal |-> p, action |-> act, heads |-> heads]

Actions == {"retire_older", "retire_newer", "keep_both", "dismiss"}
Retiring == {"retire_older", "retire_newer"}

\* events_of_types
Of(l, t) == {i \in DOMAIN l : l[i].type = t}

-----------------------------------------------------------------------------
(* fold_sessions and fold_notes *)

Superseded(l) == {l[i].supersedes : i \in Of(l, "supersede")}
Deleted(l) == {l[i].session : i \in Of(l, "session_deleted")}

Retired(l) ==
    {l[i].ref : i \in {i \in Of(l, "retired") :
        \A j \in Of(l, "unretire") : j > i => l[j].ref # l[i].ref}}

\* Mutant: a deletion only covers the captures before it
CapturesAfterDelete(l) ==
    {c \in Of(l, "session_captured") : c \notin Superseded(l) /\
        \A d \in Of(l, "session_deleted") : d > c => l[d].session # l[c].session}

Captures(l) ==
    {c \in Of(l, "session_captured") :
        c \notin Superseded(l) /\ l[c].session \notin Deleted(l)}

\* The current capture of every session: the last one wins
Heads(l) == {c \in Captures(l) : \A d \in Captures(l) : l[d].session = l[c].session => d <= c}

CurrentNotes(l) == {n \in Of(l, "memory") : n \notin Superseded(l) /\ Note(n) \notin Retired(l)}

HeadOf(l, s) == {c \in Heads(l) : l[c].session = s}

-----------------------------------------------------------------------------
(* Conflict proposals *)

\* The refs ref_is_current holds of
CurrentRefs(l, rows) ==
    {Note(n) : n \in CurrentNotes(l)}
    \cup ((UNION {{Passage(l[c].session, k) : k \in 0..(rows[c] - 1)} : c \in Heads(l)}) \ Retired(l))

\* open_conflict_proposals
OpenProposals(l, rows) ==
    LET current == CurrentRefs(l, rows)
    IN {p \in Of(l, "conflict_proposal") : {l[p].a, l[p].b} \subseteq current}

\* Mutant: a pair is keyed by its older side only
PairOlder(l, p) == {l[p].a}

\* conflict_pair_key
Pair(l, p) == {l[p].a, l[p].b}

\* is_conflict_proposal_suppressed
Suppressed(l, rows, a, b) == \E p \in OpenProposals(l, rows) : Pair(l, p) = {a, b}

\* resolution_markers: the terminal markers of a proposal, the earliest counts
Markers(l, p) == {i \in Of(l, "terminal") : l[i].proposal = p}
Resolution(l, p) ==
    {l[i].action : i \in {i \in Markers(l, p) : \A j \in Markers(l, p) : i <= j}}

\* The heads a dismissal records: one <<session, capture>> per passage that has a head
SessionHeads(l, p) ==
    UNION {{<<r.of, c>> : c \in HeadOf(l, r.of)} : r \in {r \in Pair(l, p) : r.kind = "passage"}}

\* resolution_exclusions
Excluded(l) ==
    {Pair(l, l[i].proposal) : i \in {i \in Of(l, "terminal") :
        \/ l[i].action = "keep_both"
        \/ l[i].action = "dismiss" /\ \A h \in l[i].heads : HeadOf(l, h[1]) = {h[2]}}}

\* pending_conflict_proposals
Pending(l, rows) == {p \in OpenProposals(l, rows) : Pair(l, p) \notin Excluded(l)}
=============================================================================
