--------------------------- MODULE WriteActuator ---------------------------
(***************************************************************************)
(* How the engine changes a user's file: apply_proposal and undo_apply     *)
(* (bossclawd engine/mod.rs), propose_write, execute_write_inner and       *)
(* undo_write (bossclaw-core log.rs), atomic_write (actuator.rs).          *)
(*                                                                         *)
(* One target file.  A worker is one blocking task of the daemon: nothing  *)
(* serialises two calls except rename_lock, held from the grant re-check   *)
(* to the end of execute_write_inner.  Everything a worker read before it  *)
(* took that lock can be stale, other programs change the file at any      *)
(* moment, any fallible step can fail and the process can die anywhere.    *)
(*                                                                         *)
(* Contents are numbers; two contents have the same length when they have  *)
(* the same parity.  A new file gets any inode the old one does not hold:  *)
(* inode numbers are reused.                                               *)
(***************************************************************************)
EXTENDS Naturals, Sequences, FiniteSets

CONSTANTS
    Workers,
    Inodes,
    UNDO_DEPTH,       \* undo frames kept per target
    LinuxRename,      \* target_os = "linux": create is an atomic NOREPLACE rename
    MaxProposals,     \* bound: proposals ever suggested
    MaxEvents,        \* bound: no call starts once so many events are recorded
    MaxEnv,           \* bound: foreign changes, grant changes, failed steps and crashes
    Nil

ASSUME DepthAssumption == UNDO_DEPTH \in Nat \ {0}
ASSUME LinuxRenameAssumption == LinuxRename \in BOOLEAN
ASSUME InodesAssumption == Inodes # {}
ASSUME NilAssumption == Nil \notin Workers

VARIABLES
    file,         \* Nil, or the target [ino, bytes]
    grant,        \* the target is under an active write grant
    proposals,    \* write_proposal events, each with its write_declined if there is one
    events,       \* file_written events
    undo,         \* undo_state rows of the target, in rowid order
    rename_lock,  \* Nil, or the worker inside execute_write_inner
    wk,           \* the workers' locals
    fresh,        \* next content, next undo_id, environment steps so far
    lastWrite,    \* history: the forward mutation the file on disk comes from
    late,         \* history: what other programs left at the name between a guard and its rename
    lost          \* history: contents a forward write destroyed without a frame

vars == <<file, grant, proposals, events, undo, rename_lock, wk, fresh,
          lastWrite, late, lost>>

Ops == {"create", "edit", "delete"}

\* (dev, ino, size) of what is at the name
Identity(f) == [ino |-> f.ino, size |-> f.bytes % 2]

NewInodes == Inodes \ (IF file = Nil THEN {} ELSE {file.ino})

BytesOf(f) == IF f = Nil THEN Nil ELSE f.bytes

IdleWorker ==
    [pc |-> "idle", pid |-> 0, undoOf |-> 0, op |-> "edit", new |-> Nil,
     base |-> Nil, ident |-> Nil, pre |-> Nil, row |-> 0, fw |-> 0, post |-> Nil,
     replaced |-> Nil, granted |-> FALSE]

Return(w) == wk' = [wk EXCEPT ![w] = IdleWorker]

\* The worker leaves execute_write_inner with an error.
Refuse(w) ==
    /\ Return(w)
    /\ rename_lock' = Nil

-----------------------------------------------------------------------------
(* apply_proposal *)

declined == {i \in DOMAIN proposals : proposals[i].declined}

resolved == {events[i].resolves : i \in DOMAIN events} \cup declined

Recorded == Len(events) + Cardinality(declined)

pending_proposals == {i \in DOMAIN proposals : i \notin resolved}

\* The evolve tick or a mandate suggests a change of the file as it is.
Suggest ==
    /\ Len(proposals) < MaxProposals
    /\ \E op \in Ops :
        /\ (op = "create") <=> (file = Nil)
        /\ proposals' = Append(proposals,
              [op |-> op, base |-> BytesOf(file),
               new |-> IF op = "delete" THEN Nil ELSE fresh.bytes, declined |-> FALSE])
    /\ fresh' = [fresh EXCEPT !.bytes = @ + 1]
    /\ UNCHANGED <<file, grant, events, undo, rename_lock, wk, lastWrite, late, lost>>

apply_proposal(w) ==
    /\ wk[w].pc = "idle"
    /\ Recorded < MaxEvents
    /\ \E i \in pending_proposals :
        LET p == proposals[i]
        IN  wk' = [wk EXCEPT ![w] = [IdleWorker EXCEPT
                      !.pc = IF p.op = "create" THEN "propose" ELSE "live",
                      !.pid = i, !.op = p.op, !.new = p.new]]
    /\ UNCHANGED <<file, grant, proposals, events, undo, rename_lock, fresh,
                   lastWrite, late, lost>>

\* Read the live target: Stale unless it is still what the proposal was made for.
anti_clobber(w) ==
    /\ wk[w].pc = "live"
    /\ IF BytesOf(file) = proposals[wk[w].pid].base
       THEN wk' = [wk EXCEPT ![w].pc = "propose"]
       ELSE Return(w)
    /\ UNCHANGED <<file, grant, proposals, events, undo, rename_lock, fresh,
                   lastWrite, late, lost>>

\* Any known proposal, also one that is being applied: there is no check.  One that
\* is resolved already gets another event that says so, which changes nothing here.
decline_write_proposal ==
    /\ \E i \in pending_proposals : proposals' = [proposals EXCEPT ![i].declined = TRUE]
    /\ UNCHANGED <<file, grant, events, undo, rename_lock, wk, fresh,
                   lastWrite, late, lost>>

-----------------------------------------------------------------------------
(* propose_write *)

requires_loud_modal(op, untrusted) == untrusted \/ op = "delete"

classify_op_existence(op, f) == (op = "create") <=> (f = Nil)

\* The gate: grant, one stat of the name, taint (of the cited sources and of
\* the target, any outcome here).  A rejected, ungranted, or loud and
\* unacknowledged proposal goes no further; an undo acknowledges itself.
propose_write(w) ==
    /\ wk[w].pc = "propose"
    /\ \E untrusted, acknowledged_loud \in BOOLEAN :
        IF /\ grant
           /\ classify_op_existence(wk[w].op, file)
           /\ requires_loud_modal(wk[w].op, untrusted)
                 => acknowledged_loud \/ wk[w].undoOf # 0
        THEN wk' = [wk EXCEPT ![w] = [@ EXCEPT
               !.pc = IF wk[w].op = "create" THEN "gated" ELSE "stat",
               !.ident = IF file = Nil THEN Nil ELSE Identity(file)]]
        ELSE Return(w)
    /\ UNCHANGED <<file, grant, proposals, events, undo, rename_lock, fresh,
                   lastWrite, late, lost>>

\* Then the base is read and hashed.
read_base(w) ==
    /\ wk[w].pc = "stat"
    /\ IF file # Nil
       THEN wk' = [wk EXCEPT ![w] = [@ EXCEPT !.pc = "gated", !.base = file.bytes]]
       ELSE Return(w)
    /\ UNCHANGED <<file, grant, proposals, events, undo, rename_lock, fresh,
                   lastWrite, late, lost>>

-----------------------------------------------------------------------------
(* execute_write_inner *)

\* Seeded fault: a section is entered while another worker is in it.
EnterUnlocked(w) ==
    /\ wk[w].pc = "gated"
    /\ rename_lock' = w
    /\ wk' = [wk EXCEPT ![w] = [@ EXCEPT !.pc = "locked", !.granted = grant]]
    /\ UNCHANGED <<file, grant, proposals, events, undo, fresh, lastWrite, late, lost>>

lock_rename(w) ==
    /\ wk[w].pc = "gated"
    /\ rename_lock = Nil
    /\ rename_lock' = w
    /\ wk' = [wk EXCEPT ![w] = [@ EXCEPT !.pc = "locked", !.granted = grant]]
    /\ UNCHANGED <<file, grant, proposals, events, undo, fresh, lastWrite, late, lost>>

\* Seeded fault: the grant is not looked at again under the lock.
GuardTrustsVerdict(w) ==
    /\ wk[w].pc = "locked"
    /\ IF wk[w].op = "create" \/ (file # Nil /\ Identity(file) = wk[w].ident /\ file.bytes = wk[w].base)
       THEN /\ wk' = [wk EXCEPT ![w] = [@ EXCEPT
                  !.pc = IF wk[w].undoOf = 0 THEN "guarded" ELSE "captured",
                  !.pre = IF wk[w].op = "create" THEN Nil ELSE file.bytes]]
            /\ UNCHANGED rename_lock
       ELSE Refuse(w)
    /\ UNCHANGED <<file, grant, proposals, events, undo, fresh, lastWrite, late, lost>>

\* Seeded fault: only the identity of the base is compared, not its hash.
GuardIdentityOnly(w) ==
    /\ wk[w].pc = "locked"
    /\ IF /\ grant
          /\ wk[w].op = "create" \/ (file # Nil /\ Identity(file) = wk[w].ident)
       THEN /\ wk' = [wk EXCEPT ![w] = [@ EXCEPT
                  !.pc = IF wk[w].undoOf = 0 THEN "guarded" ELSE "captured",
                  !.pre = IF wk[w].op = "create" THEN Nil ELSE file.bytes]]
            /\ UNCHANGED rename_lock
       ELSE Refuse(w)
    /\ UNCHANGED <<file, grant, proposals, events, undo, fresh, lastWrite, late, lost>>

\* Grant re-check, then identity and hash of the base against the verdict; the
\* bytes just read are the ones the undo frame will hold.
base_guard(w) ==
    /\ wk[w].pc = "locked"
    /\ IF /\ grant
          /\ \/ wk[w].op = "create"
             \/ file # Nil /\ Identity(file) = wk[w].ident /\ file.bytes = wk[w].base
       THEN /\ wk' = [wk EXCEPT ![w] = [@ EXCEPT
                  !.pc = IF wk[w].undoOf = 0 THEN "guarded" ELSE "captured",
                  !.pre = IF wk[w].op = "create" THEN Nil ELSE file.bytes]]
            /\ UNCHANGED rename_lock
       ELSE Refuse(w)
    /\ UNCHANGED <<file, grant, proposals, events, undo, fresh, lastWrite, late, lost>>

\* Seeded fault: the frame is only written when the write is bound.
CaptureNothing(w) ==
    /\ wk[w].pc = "guarded"
    /\ wk' = [wk EXCEPT ![w] = [@ EXCEPT !.pc = "captured", !.row = fresh.row]]
    /\ fresh' = [fresh EXCEPT !.row = @ + 1]
    /\ UNCHANGED <<file, grant, proposals, events, undo, rename_lock, lastWrite, late, lost>>

\* Seeded fault: the frame holds the new bytes.
CaptureNewBytes(w) ==
    /\ wk[w].pc = "guarded"
    /\ undo' = Append(undo, [id |-> fresh.row, fw |-> 0, op |-> wk[w].op,
                             pre |-> IF wk[w].op = "create" THEN Nil ELSE wk[w].new, post |-> Nil])
    /\ wk' = [wk EXCEPT ![w] = [@ EXCEPT !.pc = "captured", !.row = fresh.row]]
    /\ fresh' = [fresh EXCEPT !.row = @ + 1]
    /\ UNCHANGED <<file, grant, proposals, events, rename_lock, lastWrite, late, lost>>

\* The pre-bytes are committed before the file is touched; file_written_id is NULL.
capture_undo(w) ==
    /\ wk[w].pc = "guarded"
    /\ undo' = Append(undo, [id |-> fresh.row, fw |-> 0, op |-> wk[w].op,
                             pre |-> wk[w].pre, post |-> Nil])
    /\ wk' = [wk EXCEPT ![w] = [@ EXCEPT !.pc = "captured", !.row = fresh.row]]
    /\ fresh' = [fresh EXCEPT !.row = @ + 1]
    /\ UNCHANGED <<file, grant, proposals, events, rename_lock, lastWrite, late, lost>>

\* Seeded fault: the name is not looked at again before the rename.
RestatNothing(w) ==
    /\ wk[w].pc = "captured"
    /\ wk' = [wk EXCEPT ![w].pc = "restatted"]
    /\ UNCHANGED <<file, grant, proposals, events, undo, rename_lock, fresh,
                   lastWrite, late, lost>>

\* Edit and delete: (dev, ino) of the name must still be the guard's.  Create
\* off Linux: the name must still be free.
restat_identity_matches(w) ==
    /\ wk[w].pc = "captured"
    /\ IF IF wk[w].op = "create" THEN LinuxRename \/ file = Nil
          ELSE file # Nil /\ file.ino = wk[w].ident.ino
       THEN wk' = [wk EXCEPT ![w].pc = "restatted"] /\ UNCHANGED rename_lock
       ELSE Refuse(w)
    /\ UNCHANGED <<file, grant, proposals, events, undo, fresh, lastWrite, late, lost>>

\* renameat or unlinkat, by name.  NOREPLACE fails on an existing name, unlinkat
\* on a missing one; an edit's rename overwrites whatever is there.
mutate(w) ==
    /\ wk[w].pc = "restatted"
    /\ IF CASE wk[w].op = "create" -> LinuxRename /\ file # Nil
            [] wk[w].op = "delete" -> file = Nil
            [] OTHER -> FALSE
       THEN Refuse(w) /\ UNCHANGED <<file, lastWrite, lost>>
       ELSE /\ IF wk[w].op = "delete" THEN file' = Nil
               ELSE \E i \in NewInodes : file' = [ino |-> i, bytes |-> wk[w].new]
            /\ wk' = [wk EXCEPT ![w] = [@ EXCEPT !.pc = IF wk[w].undoOf = 0 THEN "mutated" ELSE "posted",
                                !.replaced = BytesOf(file)]]
            /\ lastWrite' = IF wk[w].undoOf = 0
                            THEN [row |-> wk[w].row, replaced |-> BytesOf(file)] ELSE Nil
            /\ lost' = IF wk[w].undoOf = 0 /\ file # Nil /\ file.bytes # wk[w].pre
                       THEN lost \cup {file.bytes} ELSE lost
            /\ UNCHANGED rename_lock
    /\ UNCHANGED <<grant, proposals, events, undo, fresh, late>>

\* The identity the write left, read back by name.
post_identity(w) ==
    /\ wk[w].pc = "mutated"
    /\ IF wk[w].op # "delete" /\ file = Nil
       THEN Refuse(w)
       ELSE /\ wk' = [wk EXCEPT ![w] = [@ EXCEPT !.pc = "posted",
                        !.post = IF wk[w].op = "delete" THEN Nil ELSE Identity(file)]]
            /\ UNCHANGED rename_lock
    /\ UNCHANGED <<file, grant, proposals, events, undo, fresh, lastWrite, late, lost>>

\* The signed file_written event.  An undo returns from execute_write_inner here.
append_file_written(w) ==
    /\ wk[w].pc = "posted"
    /\ events' = Append(events,
          [resolves |-> wk[w].pid, undo_of |-> wk[w].undoOf,
           bytes |-> wk[w].new, base |-> wk[w].base, replaced |-> wk[w].replaced])
    /\ IF wk[w].undoOf = 0
       THEN wk' = [wk EXCEPT ![w] = [@ EXCEPT !.pc = "appended", !.fw = Len(events')]] /\ UNCHANGED rename_lock
       ELSE wk' = [wk EXCEPT ![w].pc = "undone"] /\ rename_lock' = Nil
    /\ UNCHANGED <<file, grant, proposals, undo, fresh, lastWrite, late, lost>>

Bound(w) ==
    [k \in DOMAIN undo |->
        IF undo[k].id = wk[w].row
        THEN [undo[k] EXCEPT !.fw = wk[w].fw, !.post = wk[w].post] ELSE undo[k]]

\* Seeded fault: the frames that go are the newest.
KeepOldest(w) ==
    /\ wk[w].pc = "appended"
    /\ undo' = IF Len(undo) <= UNDO_DEPTH THEN Bound(w) ELSE SubSeq(Bound(w), 1, UNDO_DEPTH)
    /\ Refuse(w)
    /\ UNCHANGED <<file, grant, proposals, events, fresh, lastWrite, late, lost>>

\* The frame gets the event's id and all but the newest frames go: one transaction.
bind_and_gc_undo(w) ==
    /\ wk[w].pc = "appended"
    /\ undo' = IF Len(undo) <= UNDO_DEPTH THEN Bound(w)
               ELSE SubSeq(Bound(w), Len(undo) - UNDO_DEPTH + 1, Len(undo))
    /\ Refuse(w)
    /\ UNCHANGED <<file, grant, proposals, events, fresh, lastWrite, late, lost>>

-----------------------------------------------------------------------------
(* undo_write *)

inverse_op == [create |-> "delete", edit |-> "edit", delete |-> "create"]

\* The frame of the write, which must be on top of the stack; a frame with no
\* post identity skips the identity check.
undo_write(w) ==
    /\ wk[w].pc = "idle"
    /\ Recorded < MaxEvents
    /\ undo # << >>
    /\ LET top == undo[Len(undo)]
       IN  /\ top.fw # 0
           /\ wk' = [wk EXCEPT ![w] = [IdleWorker EXCEPT
                        !.pc = IF top.post = Nil THEN "propose" ELSE "loaded",
                        !.undoOf = top.fw, !.op = inverse_op[top.op], !.new = top.pre,
                        !.row = top.id, !.post = top.post]]
    /\ UNCHANGED <<file, grant, proposals, events, undo, rename_lock, fresh,
                   lastWrite, late, lost>>

\* The target must still have the identity the write left.
undo_identity(w) ==
    /\ wk[w].pc = "loaded"
    /\ IF file # Nil /\ Identity(file) = wk[w].post
       THEN wk' = [wk EXCEPT ![w].pc = "propose"]
       ELSE Return(w)
    /\ UNCHANGED <<file, grant, proposals, events, undo, rename_lock, fresh,
                   lastWrite, late, lost>>

\* Back from execute_write_inner, outside rename_lock: what is at the name now?
stat_after_undo(w) ==
    /\ wk[w].pc = "undone"
    /\ wk' = [wk EXCEPT ![w] = [@ EXCEPT !.pc = "popping",
                        !.post = IF file = Nil THEN Nil ELSE Identity(file)]]
    /\ UNCHANGED <<file, grant, proposals, events, undo, rename_lock, fresh,
                   lastWrite, late, lost>>

\* The rows without row id: undo_id is the primary key.
Without(id) ==
    LET rows == {k \in DOMAIN undo : undo[k].id = id}
        k == CHOOSE i \in rows : TRUE
    IN  IF rows = {} THEN undo ELSE SubSeq(undo, 1, k - 1) \o SubSeq(undo, k + 1, Len(undo))

\* Delete the frame; the new top, if any, takes over the identity just read.
pop_and_handoff_undo(w) ==
    /\ wk[w].pc = "popping"
    /\ LET rest == Without(wk[w].row)
       IN  undo' = IF rest = << >> THEN rest ELSE [rest EXCEPT ![Len(rest)].post = wk[w].post]
    /\ Return(w)
    /\ UNCHANGED <<file, grant, proposals, events, rename_lock, fresh, lastWrite, late, lost>>

-----------------------------------------------------------------------------
(* The environment *)

\* Another program replaces the file, writes to it in place or removes it.
\* It may do so between a worker's base guard and its rename: those contents are late.
Foreign(f) ==
    /\ fresh.env < MaxEnv
    /\ file' = f
    /\ lastWrite' = Nil
    /\ late' = IF \E w \in Workers : wk[w].pc \in {"guarded", "captured", "restatted"}
               THEN late \cup {BytesOf(f)} ELSE late
    /\ UNCHANGED <<grant, proposals, events, undo, rename_lock, wk, lost>>

foreign_write ==
    \E b \in {fresh.bytes, fresh.bytes + 1},
       i \in NewInodes \cup (IF file = Nil THEN {} ELSE {file.ino}) :
        /\ Foreign([ino |-> i, bytes |-> b])
        /\ fresh' = [fresh EXCEPT !.bytes = b + 1, !.env = @ + 1]

foreign_delete ==
    /\ file # Nil
    /\ Foreign(Nil)
    /\ fresh' = [fresh EXCEPT !.env = @ + 1]

\* add_write_grant and revoke_write_grant
SetGrant ==
    /\ fresh.env < MaxEnv
    /\ grant' = ~grant
    /\ wk' = [w \in Workers |-> [wk[w] EXCEPT !.granted = @ \/ (rename_lock = w /\ ~grant)]]
    /\ fresh' = [fresh EXCEPT !.env = @ + 1]
    /\ UNCHANGED <<file, proposals, events, undo, rename_lock, lastWrite, late, lost>>

\* A step of w fails (SQLite, an I/O error): the call returns the error.
Abort(w) ==
    /\ wk[w].pc # "idle"
    /\ fresh.env < MaxEnv
    /\ Return(w)
    /\ rename_lock' = IF rename_lock = w THEN Nil ELSE rename_lock
    /\ fresh' = [fresh EXCEPT !.env = @ + 1]
    /\ UNCHANGED <<file, grant, proposals, events, undo, lastWrite, late, lost>>

\* The daemon dies and comes back: the file, the log and the frames are durable.
Crash ==
    /\ fresh.env < MaxEnv
    /\ wk' = [w \in Workers |-> IdleWorker]
    /\ rename_lock' = Nil
    /\ fresh' = [fresh EXCEPT !.env = @ + 1]
    /\ UNCHANGED <<file, grant, proposals, events, undo, lastWrite, late, lost>>

-----------------------------------------------------------------------------
Init ==
    /\ file \in {Nil, [ino |-> CHOOSE i \in Inodes : TRUE, bytes |-> 0]}
    /\ grant = TRUE
    /\ proposals = << >>
    /\ events = << >>
    /\ undo = << >>
    /\ rename_lock = Nil
    /\ wk = [w \in Workers |-> IdleWorker]
    /\ fresh = [bytes |-> 1, row |-> 1, env |-> 0]
    /\ lastWrite = Nil
    /\ late = {}
    /\ lost = {}

Step(w) ==
    \/ apply_proposal(w) \/ anti_clobber(w) \/ propose_write(w) \/ read_base(w)
    \/ lock_rename(w) \/ base_guard(w) \/ capture_undo(w) \/ restat_identity_matches(w)
    \/ mutate(w) \/ post_identity(w) \/ append_file_written(w) \/ bind_and_gc_undo(w)
    \/ undo_write(w) \/ undo_identity(w) \/ stat_after_undo(w) \/ pop_and_handoff_undo(w)

Next ==
    \/ Suggest \/ decline_write_proposal
    \/ \E w \in Workers : Step(w)
    \/ \E w \in Workers : Abort(w)
    \/ foreign_write \/ foreign_delete \/ SetGrant \/ Crash

Spec == Init /\ [][Next]_vars

-----------------------------------------------------------------------------
(* Properties *)

\* A forward write destroys no bytes that its undo frame does not hold, except
\* bytes another program wrote between the base guard and the rename (the gap
\* the comments of execute_write_inner call irreducible).
OnlyLateBytesLost == lost \subseteq late

\* The pre-bytes of the write that is on disk are durable from before the
\* rename on, through failures, crashes, garbage collection and concurrent undos.
TipRecoverable ==
    lastWrite # Nil =>
        \E k \in DOMAIN undo :
            /\ undo[k].id = lastWrite.row
            /\ undo[k].pre = lastWrite.replaced \/ lastWrite.replaced \in late

\* An undo leaves exactly what the write it undoes replaced.
UndoRestores ==
    \A i \in DOMAIN events :
        events[i].undo_of # 0 =>
            LET e == events[events[i].undo_of]
            IN  events[i].bytes = e.replaced \/ e.replaced \in late

\* No rename or unlink on a grant revoked before rename_lock was taken: the grant
\* was active at some moment of the critical section.
GrantHeldInSection ==
    \A w \in Workers :
        wk[w].pc \in {"mutated", "posted", "appended"} => wk[w].granted

\* Every write replaced the very bytes its verdict was computed on, however long
\* ago and whatever other workers did since, late bytes aside.
VerdictBaseReplaced ==
    \A i \in DOMAIN events :
        events[i].replaced = events[i].base \/ events[i].replaced \in late
=============================================================================
