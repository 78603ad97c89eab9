---------------------------- MODULE ConflictSweep ----------------------------
(***************************************************************************)
(* The conflict-detection cycle (log.rs detect_conflicts_once, the cursor  *)
(* and the per-pair error counts; engine/mod.rs; conflict/sweeper.rs).     *)
(*                                                                         *)
(* conflict_lock admits one cycle at a time.  A cycle lists the subjects   *)
(* at or after its durable cursor, rebuilds the index, reads the settled   *)
(* pairs, and judges the pairs of one subject after another.  Users write  *)
(* between any two of its reads (Memories has the steps of their           *)
(* operations, which are one step here), and it may die anywhere.          *)
(*                                                                         *)
(* Every two memories are similar enough to be a pair.  The judge answers  *)
(* anything, and fails on the pairs of Erring always and on the others     *)
(* MaxFaults times.                                                       *)
(***************************************************************************)
EXTENDS MemoryFold

CONSTANTS
    SessionIds,
    Passages,       \* passages of every capture
    ScanBound,      \* CONFLICT_SCAN_BOUND
    JudgeBudget,    \* CONFLICT_JUDGE_PER_SWEEP, which is CONFLICT_SEARCH_K too
    OpenCeiling,    \* CONFLICT_OPEN_CEILING
    ErrorBudget,    \* CONFLICT_PAIR_ERROR_BUDGET
    Erring,         \* pairs the judge always fails on
    Backlog,        \* notes put away before the owner turned detection on
    MaxUserEvents,  \* bound: events users append, less one for each note of the backlog
    MaxFaults       \* bound: transient failures of the judge, of reads and writes, and crashes

ASSUME ConflictSweepAssumption ==
    /\ {Passages, Backlog, MaxUserEvents, MaxFaults} \subseteq Nat
    /\ {ScanBound, JudgeBudget, OpenCeiling, ErrorBudget} \subseteq Nat \ {0}

VARIABLES
    memlog,       \* the memory events
    stored,    \* captures whose passages are stored
    cursor,    \* durable: <<seq, subject_offset>>
    errors,    \* durable: errors[pair], 0 when absent
    sweep,     \* the running cycle
    rewind,    \* unretired memories whose cursor rewind is still to come
    excused,   \* history: pairs that need no proposal, or whose loss the code accepts
    left       \* what is left of each bound

sweepVars == <<memlog, stored, cursor, errors, sweep, rewind, excused, left>>
durable == <<memlog, stored, cursor, errors>>

Rest == [pc |-> "rest", todo |-> {}, index |-> {}, settled |-> {}, open |-> 0, vectors |-> {},
         budget |-> 0, pairs |-> {}, blocked |-> FALSE, propose |-> <<>>]

Seqs == 1..Len(memlog)
Before(x, y) == x[1] < y[1] \/ (x[1] = y[1] /\ x[2] < y[2])
Errors(pair) == IF pair \in DOMAIN errors THEN errors[pair] ELSE 0
SetErrors(pair, n) ==
    errors' = [q \in DOMAIN errors \cup {pair} |-> IF q = pair THEN n ELSE errors[q]]
Fault == left.faults > 0 /\ left' = [left EXCEPT !.faults = @ - 1]

\* The seq a memory's subject has, and its place within it
Seats(r) == {<<c, r.passage>> : c \in IF r.kind = "note" THEN {r.of} ELSE HeadOf(memlog, r.of)}
Seat(r) == CHOOSE seat \in Seats(r) : TRUE

MemoryRefs ==
    {Note(n) : n \in Of(memlog, "memory")} \cup
    {Passage(s, k) : s \in SessionIds, k \in 0..(Passages - 1)}

\* The number of stored passages of every capture
Rows == [c \in Of(memlog, "session_captured") |-> IF c \in stored THEN Passages ELSE 0]
Current == CurrentRefs(memlog, Rows)

-----------------------------------------------------------------------------
(* The cycle *)

\* unprocessed_conflict_subjects_since: the first ScanBound events at or after the cursor,
\* then those of them that are still current, without what the cursor's event has behind it
Window ==
    LET source == {i \in Seqs : memlog[i].type \in {"memory", "session_captured"} /\ i >= cursor[1]}
    IN {i \in source : Cardinality({j \in source : j < i}) < ScanBound}
Subjects == {r \in Current : Seat(r)[1] \in Window /\ ~Before(Seat(r), cursor)}

\* An empty list ends the cycle before it has done anything
Begin ==
    /\ sweep = Rest /\ Subjects # {}
    /\ sweep' = [Rest EXCEPT !.pc = "rebuild", !.todo = {<<Seat(r), r>> : r \in Subjects}]
    /\ UNCHANGED <<durable, rewind, excused, left>>

\* rebuild_conflict_index
Rebuild ==
    /\ sweep.pc = "rebuild"
    /\ sweep' = [sweep EXCEPT !.pc = "opens", !.index = Current]
    /\ UNCHANGED <<durable, rewind, excused, left>>

\* The open pairs, the kept and dismissed ones, and the sessions' heads
ReadOpens ==
    /\ sweep.pc = "opens"
    /\ LET open == OpenProposals(memlog, Rows)
       IN sweep' = [sweep EXCEPT !.pc = "subject",
                                 !.settled = {Pair(memlog, p) : p \in open} \cup Excluded(memlog),
                                 !.open = Cardinality(open),
                                 !.vectors = {r \in MemoryRefs : r.kind = "note" \/
                                     \E c \in HeadOf(memlog, r.of) : r.passage < Rows[c]},
                                 !.budget = JudgeBudget]
    /\ UNCHANGED <<durable, rewind, excused, left>>

First == CHOOSE t \in sweep.todo : \A u \in sweep.todo : u = t \/ Before(t[1], u[1])
Past(t) == <<t[1][1], t[1][2] + 1>>
Skip(t) == [sweep EXCEPT !.pc = "subject", !.todo = @ \ {t}]

\* conflict_search_refs: the JudgeBudget nearest memories, whichever they are
Neighbours(subject) ==
    {near \in SUBSET (sweep.index \ {subject}) :
        \/ Cardinality(near) = JudgeBudget
        \/ near = sweep.index \ {subject} /\ Cardinality(near) < JudgeBudget}

\* decide_conflict_sweep
Candidates(subject, near) == {{subject, r} : r \in near} \ sweep.settled

\* The pairs of the next subject, if the judge calls left are enough for all of them
NextSubject ==
    /\ sweep.pc = "subject" /\ sweep.todo # {}
    /\ LET subject == First[2]
       IN IF subject \notin sweep.vectors
          THEN sweep' = Skip(First) /\ cursor' = Past(First) /\ UNCHANGED excused
          ELSE \E near \in Neighbours(subject) :
            /\ sweep' = IF Cardinality(Candidates(subject, near)) > sweep.budget THEN Rest
                        ELSE [sweep EXCEPT !.pc = "pair", !.pairs = Candidates(subject, near),
                                           !.blocked = FALSE]
            /\ excused' = excused \cup {{subject, r} : r \in sweep.index \ (near \cup {subject})}
            /\ UNCHANGED cursor
    /\ UNCHANGED <<memlog, stored, errors, rewind, left>>

EndCycle ==
    /\ sweep.pc = "subject" /\ sweep.todo = {}
    /\ sweep' = Rest
    /\ UNCHANGED <<durable, rewind, excused, left>>

\* The pairs come in an order of their own (by similarity)
NextPair ==
    IF sweep.pc = "pair" /\ sweep.pairs # {} THEN {CHOOSE pair \in sweep.pairs : TRUE} ELSE {}

\* The text of a note is in the log, that of a passage in the file of the current body
HasText(r) == r.kind = "note" \/ \E c \in HeadOf(memlog, r.of) : r.passage < Passages

\* A pair that is given up on, or that lost its text, is passed over without a judge call
PassOver(pair) ==
    /\ Errors(pair) >= ErrorBudget \/ \E r \in pair : ~HasText(r)
    /\ sweep' = [sweep EXCEPT !.pairs = @ \ {pair}]
    /\ UNCHANGED <<durable, rewind, excused, left>>

\* Mutant: a pair that used up its errors is judged again
JudgeableAgain(pair) == \A r \in pair : HasText(r)

Judgeable(pair) == Errors(pair) < ErrorBudget /\ \A r \in pair : HasText(r)
Judged(pair) == [sweep EXCEPT !.pairs = @ \ {pair}, !.budget = @ - 1]

\* A text that cannot be read (ref_text maps every failure of the log, of the body's file and
\* of its JSON to None) passes for a lost one: the pair is dropped, and nothing brings it back
TextUnread(pair) ==
    /\ Judgeable(pair) /\ Fault
    /\ sweep' = [sweep EXCEPT !.pairs = @ \ {pair}]
    /\ excused' = excused \cup {pair}
    /\ UNCHANGED <<durable, rewind>>

\* The judge declines
Decline(pair) ==
    /\ Judgeable(pair) /\ pair \notin Erring
    /\ sweep' = Judged(pair)
    /\ SetErrors(pair, 0)
    /\ excused' = excused \cup {pair}
    /\ UNCHANGED <<memlog, stored, cursor, rewind, left>>

\* Mutant: the error count is not kept, so the subject is held back for ever
JudgeFailsUncounted(pair) ==
    /\ Judgeable(pair)
    /\ IF pair \in Erring THEN UNCHANGED left ELSE Fault
    /\ sweep' = [Judged(pair) EXCEPT !.blocked = TRUE]
    /\ UNCHANGED <<durable, rewind, excused>>

\* The judge fails: short of the budget, the subject is held back for the next cycle
JudgeFails(pair) ==
    /\ Judgeable(pair)
    /\ IF pair \in Erring THEN UNCHANGED left ELSE Fault
    /\ SetErrors(pair, Errors(pair) + 1)
    /\ sweep' = [Judged(pair) EXCEPT !.blocked = @ \/ Errors(pair) + 1 < ErrorBudget]
    /\ UNCHANGED <<memlog, stored, cursor, rewind, excused>>

\* A contradiction is proposed unless the ceiling is hit or the log has it open by now
Contradicts(pair) ==
    /\ Judgeable(pair) /\ pair \notin Erring
    /\ SetErrors(pair, 0)
    /\ IF sweep.open >= OpenCeiling
       THEN excused' = excused \cup {pair} /\ sweep' = Judged(pair)
       ELSE /\ UNCHANGED excused
            /\ \E a, b \in pair :
                /\ Before(Seat(a), Seat(b))
                /\ sweep' = IF Suppressed(memlog, Rows, a, b) THEN Judged(pair)
                            ELSE [Judged(pair) EXCEPT !.pc = "append", !.propose = <<a, b>>]
    /\ UNCHANGED <<memlog, stored, cursor, rewind, left>>

ProposeConflict ==
    /\ sweep.pc = "append"
    /\ LET a == sweep.propose[1]
           b == sweep.propose[2]
       IN /\ memlog' = Append(memlog, Proposal(a, b))
          /\ sweep' = [sweep EXCEPT !.pc = "pair", !.settled = @ \cup {{a, b}}, !.open = @ + 1,
                                    !.propose = <<>>]
    /\ UNCHANGED <<stored, cursor, errors, rewind, excused, left>>

\* Mutant: the cursor passes a subject that has an outstanding error
EndSubjectAdvances ==
    /\ sweep.pc = "pair" /\ sweep.pairs = {}
    /\ sweep' = Skip(First) /\ cursor' = Past(First)
    /\ UNCHANGED <<memlog, stored, errors, rewind, excused, left>>

\* The subject's pairs are done: the cursor passes it, or the cycle ends here
EndSubject ==
    /\ sweep.pc = "pair" /\ sweep.pairs = {}
    /\ IF sweep.blocked
       THEN sweep' = Rest /\ UNCHANGED cursor
       ELSE sweep' = Skip(First) /\ cursor' = Past(First)
    /\ UNCHANGED <<memlog, stored, errors, rewind, excused, left>>

\* A statement of the cycle fails: its ? ends the cycle where it stands
CycleFails ==
    /\ sweep # Rest /\ Fault
    /\ sweep' = Rest
    /\ UNCHANGED <<durable, rewind, excused>>

Sweep ==
    \/ Begin
    \/ Rebuild
    \/ ReadOpens
    \/ NextSubject
    \/ EndCycle
    \/ \E pair \in NextPair :
        PassOver(pair) \/ TextUnread(pair) \/ Decline(pair) \/ JudgeFails(pair) \/ Contradicts(pair)
    \/ ProposeConflict
    \/ EndSubject

-----------------------------------------------------------------------------
(* Users, each operation one step; excused marks the losses the code accepts *)

With(r) == {{r, x} : x \in MemoryRefs \ {r}}
User(events) ==
    /\ left.events >= Len(events) /\ left' = [left EXCEPT !.events = @ - Len(events)]
    /\ memlog' = memlog \o events
    /\ UNCHANGED <<cursor, errors, sweep>>

RememberNote == User(<<Memory(0)>>) /\ UNCHANGED <<stored, rewind, excused>>

\* supersede_note
Edit(n) ==
    /\ n \in CurrentNotes(memlog)
    /\ User(<<Supersede(n), Memory(n)>>)
    /\ UNCHANGED <<stored, rewind, excused>>

\* capture_session with a new or changed body
Capture(s) ==
    /\ s \notin Deleted(memlog)
    /\ LET new == Captured(s, Len(memlog) + 1)
       IN \/ HeadOf(memlog, s) = {} /\ User(<<new>>)
          \/ \E h \in HeadOf(memlog, s) : User(<<Supersede(h), new>>)
    /\ UNCHANGED <<stored, rewind, excused>>

\* store_session_passages comes after the capture's append: when the cursor is past the capture
\* by then, its passages are met only as neighbours of later subjects
StoreSessionPassages(c) ==
    /\ c \in Of(memlog, "session_captured") \ stored
    /\ stored' = stored \cup {c}
    /\ excused' = excused \cup
        IF sweep = Rest /\ ~Before(<<c, 0>>, cursor) THEN {}
        ELSE UNION {With(Passage(memlog[c].session, k)) : k \in 0..(Passages - 1)}
    /\ UNCHANGED <<memlog, cursor, errors, sweep, rewind, left>>

DeleteSession(s) ==
    /\ HeadOf(memlog, s) # {}
    /\ User(<<SessionDeleted(s)>>)
    /\ UNCHANGED <<stored, rewind, excused>>

\* retire_memory, retire_passage
Retire(r) ==
    /\ r \in Current
    /\ User(<<Retirement(r, 0)>>)
    /\ UNCHANGED <<stored, rewind, excused>>

\* unretire, unretire_passage: the marker first ...
Unretire(r) ==
    /\ r \in Retired(memlog)
    /\ User(<<UnretireEvent(r)>>)
    /\ rewind' = rewind \cup (Seats(r) \X {r})
    /\ UNCHANGED <<stored, excused>>

\* ... then rewind_conflict_cursor, which a running cycle may overwrite ("accepted benign race")
Rewind(t) ==
    /\ t \in rewind /\ rewind' = rewind \ {t}
    /\ cursor' = IF Before(t[1], cursor) THEN t[1] ELSE cursor
    /\ excused' = IF sweep = Rest THEN excused ELSE excused \cup With(t[2])
    /\ UNCHANGED <<memlog, stored, errors, sweep, left>>

\* A rewind that fails: the marker is in the log, the caller gets the error and has no way to
\* ask for the rewind again (assert_note_retired refuses a second unretire)
RewindFails(t) ==
    /\ t \in rewind /\ Fault
    /\ rewind' = rewind \ {t}
    /\ excused' = excused \cup With(t[2])
    /\ UNCHANGED <<durable, sweep>>

\* resolve_conflict with keep_both or dismiss (a retirement is Retire here)
Resolve(p, act) ==
    /\ Resolution(memlog, p) = {}
    /\ User(<<Terminal(p, act, IF act = "dismiss" THEN SessionHeads(memlog, p) ELSE {})>>)
    /\ UNCHANGED <<stored, rewind, excused>>

\* The daemon dies and starts again; a rewind that is lost is a "benign, bounded loss"
Die ==
    /\ Fault
    /\ sweep # Rest \/ rewind # {}
    /\ sweep' = Rest /\ rewind' = {}
    /\ excused' = excused \cup UNION {With(t[2]) : t \in rewind}
    /\ UNCHANGED durable

Users ==
    \/ RememberNote
    \/ \E n \in CurrentNotes(memlog) : Edit(n)
    \/ \E s \in SessionIds : Capture(s) \/ DeleteSession(s)
    \/ \E r \in MemoryRefs : Retire(r) \/ Unretire(r)
    \/ \E p \in Of(memlog, "conflict_proposal"), act \in {"keep_both", "dismiss"} : Resolve(p, act)

Settle == \E t \in rewind : Rewind(t)
Store == \E c \in Seqs : StoreSessionPassages(c)

\* n notes, and their retirements
PutAway(n) == [i \in 1..(2 * n) |-> IF i <= n THEN Memory(0) ELSE Retirement(Note(i - n), 0)]

SweepInit ==
    /\ \E n \in {0, Backlog} :
        /\ memlog = PutAway(n)
        /\ left = [events |-> MaxUserEvents - n, faults |-> MaxFaults]
    /\ stored = {}
    /\ cursor = <<0, 0>> /\ errors = <<>>
    /\ sweep = Rest /\ rewind = {} /\ excused = {}

SweepNext ==
    Sweep \/ CycleFails \/ Users \/ Settle \/ (\E t \in rewind : RewindFails(t)) \/ Store \/ Die

\* The ticker runs a cycle every 300 s, and an operation that began a rewind goes on to make it
SweepSpec == SweepInit /\ [][SweepNext]_sweepVars /\ WF_sweepVars(Sweep) /\ WF_sweepVars(Settle)

-----------------------------------------------------------------------------
(* Properties *)

\* The pairs of current memories nothing was decided about
Unsettled ==
    LET pairs == {{t[1], t[2]} : t \in {t \in Current \X Current : t[1] # t[2]}}
        open == {Pair(memlog, p) : p \in OpenProposals(memlog, Rows)}
    IN {pair \in pairs \ (excused \cup open \cup Excluded(memlog)) : Errors(pair) < ErrorBudget}

\* Never skip: between cycles, two current memories the cursor has passed were judged against
\* each other, through budget cut-offs, judge failures, crashes, edits and unretirements,
\* except where the code accepts a loss.
NothingSkipped ==
    sweep = Rest /\ rewind = {} =>
        \A pair \in Unsettled : \E r \in pair : ~Before(Seat(r), cursor)

\* A pair of notes is never open twice, unless a note was put away and taken back meanwhile.
OpenOnce ==
    Of(memlog, "unretire") = {} =>
        \A p, q \in OpenProposals(memlog, Rows) :
            /\ Pair(memlog, p) = Pair(memlog, q)
            /\ \A r \in Pair(memlog, p) : r.kind = "note"
            => p = q

\* A window of events that are all put away, or judged already, gives no subjects, and an empty
\* list leaves the cursor where it is: what lies beyond the window is not reached.
Stalled ==
    /\ sweep = Rest /\ Subjects = {}
    /\ \E i \in Seqs : memlog[i].type \in {"memory", "session_captured"} /\ \A j \in Window : j < i

\* No stall of the judge's making: whatever pair it fails on for good, every pair of memories
\* that stay current is settled in the end ("no permanent cursor stall", conflict.rs:159),
\* unless ScanBound events at the cursor hold no subject any more.
EventuallySettled == []<>(Unsettled = {} \/ Stalled)
=============================================================================
