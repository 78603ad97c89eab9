------------------------ MODULE WriteActuatorProofs ------------------------
(***************************************************************************)
(* The properties of WriteActuator for any number of workers, inodes,       *)
(* proposals, events and interferences, any undo depth and either kind of   *)
(* rename.                                                                  *)
(*                                                                         *)
(* The invariant says, for every place a worker can be at, what it may rely *)
(* on.  Inside the section of rename_lock it relies on the file (up to late *)
(* bytes) and on its frame being the top of the stack.  Outside, only on    *)
(* what nobody takes back: events, and late.  An undo pops its frame when   *)
(* the lock is free again, which is harmless because the write on disk is   *)
(* never the one that frame belongs to.                                     *)
(***************************************************************************)
EXTENDS WriteActuator, SequenceTheorems, TLAPS

Bytes == Nat \cup {Nil}
Idents == [ino : Inodes, size : {b % 2 : b \in Bytes}] \cup {Nil}
Forward == {"guarded", "mutated", "appended"}
Watching == {"guarded", "captured", "restatted"}
Done == {"mutated", "posted", "appended"}
Guarded == Watching \cup Done
Section == Guarded \cup {"locked"}
Behind == {"undone", "popping"}
Places == Section \cup Behind \cup {"idle", "live", "propose", "stat", "gated", "loaded"}

Locals == [pc : Places, pid : Nat, undoOf : Nat, op : Ops, new : Bytes,
           base : Bytes, ident : Idents, pre : Bytes, row : Nat, fw : Nat, post : Idents,
           replaced : Bytes, granted : BOOLEAN]
Frames == [id : Nat, fw : Nat, op : Ops, pre : Bytes, post : Idents]
Proposals == [op : Ops, base : Bytes, new : Bytes, declined : BOOLEAN]
Events == [resolves : Nat, undo_of : Nat, bytes : Bytes, base : Bytes, replaced : Bytes]
Writes == [row : Nat, replaced : Bytes]

TypeOK ==
    /\ file \in [ino : Inodes, bytes : Bytes] \cup {Nil}
    /\ grant \in BOOLEAN
    /\ proposals \in Seq(Proposals)
    /\ events \in Seq(Events)
    /\ undo \in Seq(Frames)
    /\ wk \in [Workers -> Locals]
    /\ fresh \in [bytes : Nat, row : Nat \ {0}, env : Nat]
    /\ lastWrite \in Writes \cup {Nil}

\* What a worker with locals r relies on.

\* The file is what the guard saw.  A create is not guarded by it but by the restat.
Tracks(r) ==
    r.op # "create" \/ (r.pc = "restatted" /\ ~LinuxRename) =>
        BytesOf(file) = r.pre \/ BytesOf(file) \in late

\* A forward write whose frame is there but not bound: it is the top.
InFlight(r) == r.undoOf = 0 /\ r.pc \in Guarded \ {"guarded"}
OnTop(r) ==
    /\ undo # << >>
    /\ undo[Len(undo)].id = r.row /\ undo[Len(undo)].pre = r.pre /\ undo[Len(undo)].fw = 0
OnDisk(r) == lastWrite = Nil \/ lastWrite = [row |-> r.row, replaced |-> r.replaced]

\* b is what the write recorded as event e replaced.
Undoes(e, b) ==
    e \in DOMAIN events /\ (b = events[e].replaced \/ events[e].replaced \in late)

InSection(w, r) ==
    /\ r.pc \in Section => rename_lock = w
    /\ r.pc = "locked" => (grant => r.granted)
    /\ r.pc \in Guarded => r.granted /\ r.pre = r.base
    /\ r.pc \in Watching => Tracks(r)
    /\ r.pc \in Done => r.replaced = r.base \/ r.replaced \in late
    /\ InFlight(r) => OnTop(r)
    /\ InFlight(r) /\ r.pc \in Done => OnDisk(r)
    /\ r.pc = "appended" => r.fw \in DOMAIN events /\ events[r.fw].replaced = r.replaced

Undoing(r) ==
    r.undoOf # 0 =>
        /\ r.row < fresh.row
        /\ Undoes(r.undoOf, r.new)
        /\ r.pc \in Behind \cup {"posted"} => lastWrite = Nil \/ lastWrite.row # r.row

Always(r) ==
    /\ r.op = "create" => r.base = Nil /\ r.pc # "stat"
    /\ r.pc \in Forward => r.undoOf = 0
    /\ r.pc \in Behind => r.undoOf # 0

WorkerOK(w, r) == InSection(w, r) /\ Undoing(r) /\ Always(r)

Apart(q, r) == q.undoOf # 0 /\ InFlight(r) => q.row # r.row

FramesOK ==
    /\ \A k \in DOMAIN undo :
         /\ undo[k].id < fresh.row
         /\ undo[k].fw # 0 => Undoes(undo[k].fw, undo[k].pre)
    /\ \A j, k \in DOMAIN undo : j < k => undo[j].id < undo[k].id

EventsOK ==
    \A i \in DOMAIN events :
        events[i].undo_of # 0 => Undoes(events[i].undo_of, events[i].bytes)

WorkersOK == \A w \in Workers : WorkerOK(w, wk[w])
AllApart == \A v, w \in Workers : Apart(wk[v], wk[w])
HistoryOK == TipRecoverable /\ EventsOK /\ VerdictBaseReplaced /\ OnlyLateBytesLost

IInv == TypeOK /\ WorkersOK /\ AllApart /\ FramesOK /\ HistoryOK

-----------------------------------------------------------------------------
(* Types *)

\* Without a row the stack is still a stack of frames.
LEMMA WithoutIsSeq ==
  ASSUME TypeOK, NEW id PROVE Without(id) \in Seq(Frames)
<1> DEFINE rows == {k \in DOMAIN undo : undo[k].id = id}
           k == CHOOSE i \in rows : TRUE
<1>1. CASE rows = {} BY <1>1 DEF Without, TypeOK
<1>2. CASE rows # {}
  <2>1. k \in 1 .. Len(undo) /\ Len(undo) \in Nat
    BY <1>2, LenProperties DEF TypeOK
  <2> HIDE DEF k
  <2>2. SubSeq(undo, 1, k - 1) \in Seq(Frames)
    BY <2>1, SubSeqProperties DEF TypeOK
  <2>3. SubSeq(undo, k + 1, Len(undo)) \in Seq(Frames)
    BY <2>1, SubSeqProperties DEF TypeOK
  <2>4. SubSeq(undo, 1, k - 1) \o SubSeq(undo, k + 1, Len(undo)) \in Seq(Frames)
    BY <2>2, <2>3, ConcatProperties
  <2> QED BY <1>2, <2>4 DEF Without, k
<1> QED BY <1>1, <1>2

\* Neither is one with the top re-pointed, or the frame of a write bound.
LEMMA BoundIsSeq ==
  ASSUME TypeOK, NEW w \in Workers
  PROVE  Bound(w) \in Seq(Frames) /\ Len(Bound(w)) = Len(undo)
<1>1. wk[w] \in Locals BY DEF TypeOK
<1>2. \A k \in 1 .. Len(undo) : undo[k] \in Frames BY ElementOfSeq DEF TypeOK
<1>3. \A k \in 1 .. Len(undo) : Bound(w)[k] \in Frames
  BY <1>1, <1>2, LenProperties DEF Bound, Frames, Locals, TypeOK
<1>4. Bound(w) \in [1 .. Len(undo) -> Frames]
  BY <1>3, LenProperties DEF Bound, TypeOK
<1>5. Len(undo) \in Nat BY LenProperties DEF TypeOK
<1> QED BY <1>4, <1>5, IsASeq, LenProperties

LEMMA IdleIsLocals == IdleWorker \in Locals
BY DEF IdleWorker, Locals, Ops, Places, Bytes, Idents

LEMMA ReturnTypes ==
  ASSUME TypeOK, NEW w \in Workers, Return(w) PROVE wk' \in [Workers -> Locals]
BY IdleIsLocals DEF Return, TypeOK

LEMMA FileTypes ==
  ASSUME TypeOK
  PROVE  /\ BytesOf(file) \in Bytes
         /\ file # Nil => Identity(file) \in Idents /\ file.bytes \in Bytes
         /\ NewInodes \subseteq Inodes
BY DEF TypeOK, BytesOf, Bytes, Identity, Idents, NewInodes

LEMMA AppendTypes ==
  ASSUME NEW S, NEW s \in Seq(S), NEW x \in S
  PROVE  Append(s, x) \in Seq(S) /\ Len(Append(s, x)) = Len(s) + 1 /\ Len(s) \in Nat
BY AppendProperties, LenProperties

LEMMA Moved ==
  ASSUME TypeOK, NEW w \in Workers, NEW q \in Locals,
         wk' = [wk EXCEPT ![w] = q] \/ Return(w)
  PROVE  wk' \in [Workers -> Locals]
BY IdleIsLocals DEF Return, TypeOK

LEMMA Going ==
  ASSUME TypeOK, NEW w \in Workers, NEW p \in Places,
         wk' = [wk EXCEPT ![w].pc = p] \/ Return(w)
  PROVE  wk' \in [Workers -> Locals]
<1>1. wk[w] \in Locals BY DEF TypeOK
<1>2. [wk[w] EXCEPT !.pc = p] \in Locals BY <1>1 DEF Locals
<1>3. wk' = [wk EXCEPT ![w] = [wk[w] EXCEPT !.pc = p]] \/ Return(w) OBVIOUS
<1> QED BY <1>2, <1>3, Moved

LEMMA StepTypes ==
  ASSUME TypeOK, NEW w \in Workers, Step(w) PROVE TypeOK'
<1> USE FileTypes, ReturnTypes
<1>l. wk[w] \in Locals BY DEF TypeOK
<1>1. CASE apply_proposal(w)
  <2>1. PICK i \in pending_proposals :
          wk' = [wk EXCEPT ![w] = [IdleWorker EXCEPT
                   !.pc = IF proposals[i].op = "create" THEN "propose" ELSE "live",
                   !.pid = i, !.op = proposals[i].op, !.new = proposals[i].new]]
    BY <1>1 DEF apply_proposal
  <2>2. i \in Nat /\ proposals[i] \in Proposals
    BY ElementOfSeq, LenProperties DEF pending_proposals, TypeOK
  <2>3. wk' \in [Workers -> Locals]
    BY <2>1, <2>2 DEF TypeOK, Locals, IdleWorker, Proposals, Places, Bytes, Idents
  <2> QED BY <1>1, <2>3 DEF apply_proposal, TypeOK
<1>2. CASE anti_clobber(w)
  <2>1. wk' \in [Workers -> Locals]
    <3>1. "propose" \in Places BY DEF Places, Section, Guarded, Watching
    <3>2. wk' = [wk EXCEPT ![w].pc = "propose"] \/ Return(w) BY <1>2 DEF anti_clobber, Refuse
    <3> QED BY <3>1, <3>2, Going
  <2> QED BY <1>2, <2>1 DEF anti_clobber, TypeOK
<1>3. CASE propose_write(w)
  <2>1. PICK i \in Idents, p \in Places :
          i = (IF file = Nil THEN Nil ELSE Identity(file))
          /\ p = IF wk[w].op = "create" THEN "gated" ELSE "stat"
    BY DEF Idents, Places
  <2>2. wk' = [wk EXCEPT ![w] = [wk[w] EXCEPT !.pc = p, !.ident = i]] \/ Return(w)
    BY <1>3, <2>1 DEF propose_write
  <2>3. [wk[w] EXCEPT !.pc = p, !.ident = i] \in Locals BY <1>l DEF Locals
  <2> QED BY <1>3, <2>2, <2>3, Moved DEF propose_write, TypeOK
<1>4. CASE read_base(w)
  <2>1. "gated" \in Places BY DEF Places
  <2>2. CASE file = Nil BY <1>4, <2>2 DEF read_base, TypeOK
  <2>3. CASE file # Nil
    <3>1. PICK b \in Bytes : b = file.bytes BY <2>3
    <3>2. [wk[w] EXCEPT !.pc = "gated", !.base = b] \in Locals BY <2>1, <1>l DEF Locals
    <3>3. wk' = [wk EXCEPT ![w] = [wk[w] EXCEPT !.pc = "gated", !.base = b]]
      BY <1>4, <2>3, <3>1 DEF read_base
    <3> QED BY <1>4, <3>2, <3>3, Moved DEF read_base, TypeOK
  <2> QED BY <2>2, <2>3
<1>5. CASE lock_rename(w)
  <2>1. "locked" \in Places BY DEF Places, Section
  <2>2. [wk[w] EXCEPT !.pc = "locked", !.granted = grant] \in Locals
    BY <2>1, <1>l DEF Locals, TypeOK
  <2>3. wk' = [wk EXCEPT ![w] = [wk[w] EXCEPT !.pc = "locked", !.granted = grant]]
    BY <1>5 DEF lock_rename
  <2> QED BY <1>5, <2>2, <2>3, Moved DEF lock_rename, TypeOK
<1>6. CASE base_guard(w)
  <2>1. CASE Refuse(w) BY <1>6, <2>1 DEF base_guard, Refuse, TypeOK
  <2>2. CASE ~Refuse(w)
    <3>1. PICK b, p : b = (IF wk[w].op = "create" THEN Nil ELSE file.bytes)
                      /\ p = IF wk[w].undoOf = 0 THEN "guarded" ELSE "captured"
      OBVIOUS
    <3>2. b \in Bytes /\ p \in Places
      BY <1>6, <2>2, <3>1 DEF base_guard, Bytes, Places, Section, Guarded, Watching
    <3>3. wk' = [wk EXCEPT ![w] = [wk[w] EXCEPT !.pc = p, !.pre = b]]
      BY <1>6, <2>2, <3>1 DEF base_guard
    <3>4. [wk[w] EXCEPT !.pc = p, !.pre = b] \in Locals BY <3>2, <1>l DEF Locals
    <3> QED BY <1>6, <3>3, <3>4, Moved DEF base_guard, TypeOK
  <2> QED BY <2>1, <2>2
<1>7. CASE capture_undo(w)
  <2>1. wk' \in [Workers -> Locals]
    <3>1. PICK n \in Nat : n = fresh.row BY DEF TypeOK
    <3>2. [wk[w] EXCEPT !.pc = "captured", !.row = n] \in Locals
      BY <1>l DEF Locals, Places, Section, Guarded, Watching
    <3>3. wk' = [wk EXCEPT ![w] = [wk[w] EXCEPT !.pc = "captured", !.row = n]]
      BY <1>7, <3>1 DEF capture_undo
    <3> QED BY <3>2, <3>3, Moved
  <2>2. undo' \in Seq(Frames)
    <3> DEFINE f == [id |-> fresh.row, fw |-> 0, op |-> wk[w].op, pre |-> wk[w].pre, post |-> Nil]
    <3>1. f \in Frames BY <1>l DEF TypeOK, Frames, Locals, Idents
    <3> HIDE DEF f
    <3>2. Append(undo, f) \in Seq(Frames) BY <3>1, AppendTypes DEF TypeOK
    <3> QED BY <1>7, <3>2 DEF capture_undo, f
  <2>3. fresh' \in [bytes : Nat, row : Nat \ {0}, env : Nat]
    <3>1. fresh' = [fresh EXCEPT !.row = fresh.row + 1] BY <1>7 DEF capture_undo
    <3>2. fresh \in [bytes : Nat, row : Nat \ {0}, env : Nat] BY DEF TypeOK
    <3>3. fresh.row + 1 \in Nat \ {0} BY <3>2
    <3> QED BY <3>1, <3>2, <3>3
  <2> QED BY <1>7, <2>1, <2>2, <2>3 DEF capture_undo, TypeOK
<1>8. CASE restat_identity_matches(w)
  <2>1. wk' \in [Workers -> Locals]
    <3>1. "restatted" \in Places BY DEF Places, Section, Guarded, Watching
    <3>2. wk' = [wk EXCEPT ![w].pc = "restatted"] \/ Return(w) BY <1>8 DEF restat_identity_matches, Refuse
    <3> QED BY <3>1, <3>2, Going
  <2> QED BY <1>8, <2>1 DEF restat_identity_matches, TypeOK
<1>9. CASE mutate(w)
  <2>1. CASE Refuse(w) /\ UNCHANGED <<file, lastWrite, lost>>
    BY <1>9, <2>1 DEF mutate, Refuse, TypeOK
  <2>2. CASE ~ (Refuse(w) /\ UNCHANGED <<file, lastWrite, lost>>)
    <3>1. PICK b \in Bytes, p \in Places :
            b = BytesOf(file) /\ p = IF wk[w].undoOf = 0 THEN "mutated" ELSE "posted"
      BY DEF Places, Section, Guarded, Done
    <3>2. wk' \in [Workers -> Locals]
      <4>1. wk' = [wk EXCEPT ![w] = [wk[w] EXCEPT !.pc = p, !.replaced = b]]
        BY <1>9, <2>2, <3>1 DEF mutate
      <4>2. [wk[w] EXCEPT !.pc = p, !.replaced = b] \in Locals BY <1>l DEF Locals
      <4> QED BY <4>1, <4>2, Moved
    <3>3. file' \in [ino : Inodes, bytes : Bytes] \cup {Nil}
      BY <1>9, <2>2, <1>l DEF mutate, Locals
    <3>4. lastWrite' \in Writes \cup {Nil}
      BY <1>9, <2>2, <1>l DEF mutate, Locals, Writes
    <3> QED BY <1>9, <3>2, <3>3, <3>4 DEF mutate, TypeOK
  <2> QED BY <2>1, <2>2
<1>10. CASE post_identity(w)
  <2>1. wk' \in [Workers -> Locals]
    <3>1. CASE Refuse(w) BY <3>1 DEF Refuse
    <3>2. CASE ~Refuse(w)
      <4>1. PICK i : i = IF wk[w].op = "delete" THEN Nil ELSE Identity(file) OBVIOUS
      <4>2. i \in Idents BY <1>10, <3>2, <4>1 DEF post_identity, Idents
      <4>3. [wk[w] EXCEPT !.pc = "posted", !.post = i] \in Locals
        BY <1>l, <4>2 DEF Locals, Places, Section, Guarded, Done
      <4>4. wk' = [wk EXCEPT ![w] = [wk[w] EXCEPT !.pc = "posted", !.post = i]]
        BY <1>10, <3>2, <4>1 DEF post_identity
      <4> QED BY <4>3, <4>4, Moved
    <3> QED BY <3>1, <3>2
  <2> QED BY <1>10, <2>1 DEF post_identity, TypeOK
<1>11. CASE append_file_written(w)
  <2> DEFINE e == [resolves |-> wk[w].pid, undo_of |-> wk[w].undoOf,
                   bytes |-> wk[w].new, base |-> wk[w].base, replaced |-> wk[w].replaced]
  <2>1. e \in Events BY <1>l DEF Events, Locals
  <2>2. events' = Append(events, e) BY <1>11 DEF append_file_written
  <2> HIDE DEF e
  <2>3. events' \in Seq(Events) /\ Len(events') \in Nat
    BY <2>1, <2>2, AppendTypes, LenProperties DEF TypeOK
  <2>4. wk' \in [Workers -> Locals]
    <3>1. PICK n \in Nat : n = Len(events') BY <2>3
    <3>2. [wk[w] EXCEPT !.pc = "appended", !.fw = n] \in Locals
          /\ [wk[w] EXCEPT !.pc = "undone"] \in Locals
      BY <1>l DEF Locals, Places, Section, Guarded, Done, Behind
    <3>3. wk' = [wk EXCEPT ![w] = [wk[w] EXCEPT !.pc = "appended", !.fw = n]]
          \/ wk' = [wk EXCEPT ![w] = [wk[w] EXCEPT !.pc = "undone"]]
      BY <1>11, <3>1 DEF append_file_written
    <3> QED BY <3>2, <3>3, Moved
  <2> QED BY <1>11, <2>3, <2>4 DEF append_file_written, TypeOK
<1>12. CASE bind_and_gc_undo(w)
  <2>1. Bound(w) \in Seq(Frames) /\ Len(Bound(w)) = Len(undo) /\ Len(undo) \in Nat
    BY BoundIsSeq, LenProperties DEF TypeOK
  <2>2. undo' \in Seq(Frames)
    BY <1>12, <2>1, SubSeqProperties, DepthAssumption DEF bind_and_gc_undo
  <2> QED BY <1>12, <2>2 DEF bind_and_gc_undo, Refuse, TypeOK
<1>13. CASE undo_write(w)
  <2>1. PICK top : top = undo[Len(undo)] OBVIOUS
  <2>2. top \in Frames
    BY <1>13, <2>1, ElementOfSeq, LenProperties, EmptySeq DEF undo_write, TypeOK
  <2>3. wk' = [wk EXCEPT ![w] = [IdleWorker EXCEPT
                !.pc = IF top.post = Nil THEN "propose" ELSE "loaded",
                !.undoOf = top.fw, !.op = inverse_op[top.op], !.new = top.pre,
                !.row = top.id, !.post = top.post]]
    BY <1>13, <2>1 DEF undo_write
  <2>4. inverse_op[top.op] \in Ops BY <2>2 DEF Frames, Ops, inverse_op
  <2>5. wk' \in [Workers -> Locals]
    BY <2>2, <2>3, <2>4 DEF TypeOK, Locals, IdleWorker, Frames, Places, Bytes, Idents
  <2> QED BY <1>13, <2>5 DEF undo_write, TypeOK
<1>14. CASE undo_identity(w)
  <2>1. wk' \in [Workers -> Locals]
    <3>1. "propose" \in Places BY DEF Places, Section, Guarded, Watching
    <3>2. wk' = [wk EXCEPT ![w].pc = "propose"] \/ Return(w) BY <1>14 DEF undo_identity, Refuse
    <3> QED BY <3>1, <3>2, Going
  <2> QED BY <1>14, <2>1 DEF undo_identity, TypeOK
<1>15. CASE stat_after_undo(w)
  <2>1. wk' \in [Workers -> Locals]
    <3>1. PICK i \in Idents : i = IF file = Nil THEN Nil ELSE Identity(file) BY DEF Idents
    <3>2. [wk[w] EXCEPT !.pc = "popping", !.post = i] \in Locals
      BY <1>l DEF Locals, Places, Behind
    <3>3. wk' = [wk EXCEPT ![w] = [wk[w] EXCEPT !.pc = "popping", !.post = i]]
      BY <1>15, <3>1 DEF stat_after_undo
    <3> QED BY <3>2, <3>3, Moved
  <2> QED BY <1>15, <2>1 DEF stat_after_undo, TypeOK
<1>16. CASE pop_and_handoff_undo(w)
  <2>1. PICK rest \in Seq(Frames) : rest = Without(wk[w].row) BY WithoutIsSeq
  <2>2. undo' = IF rest = << >> THEN rest ELSE [rest EXCEPT ![Len(rest)].post = wk[w].post]
    BY <1>16, <2>1 DEF pop_and_handoff_undo
  <2>3. CASE rest # << >>
    <3>1. Len(rest) \in 1 .. Len(rest) BY <2>3, LenProperties, EmptySeq
    <3>2. rest[Len(rest)] \in Frames BY <3>1, ElementOfSeq
    <3>3. [rest[Len(rest)] EXCEPT !.post = wk[w].post] \in Frames
      BY <3>2, <1>l DEF Frames, Locals
    <3>4. undo' = [rest EXCEPT ![Len(rest)] = [rest[Len(rest)] EXCEPT !.post = wk[w].post]]
      BY <2>2, <2>3
    <3>5. undo' \in Seq(Frames) BY <3>1, <3>3, <3>4, ExceptSeq
    <3> QED BY <1>16, <3>5 DEF pop_and_handoff_undo, TypeOK
  <2> QED BY <1>16, <2>1, <2>2, <2>3 DEF pop_and_handoff_undo, TypeOK
<1> QED
  BY <1>1, <1>2, <1>3, <1>4, <1>5, <1>6, <1>7, <1>8, <1>9, <1>10, <1>11, <1>12, <1>13, <1>14,
     <1>15, <1>16 DEF Step

LEMMA TypesInductive == TypeOK /\ [Next]_vars => TypeOK'
<1> SUFFICES ASSUME TypeOK, [Next]_vars PROVE TypeOK' OBVIOUS
<1> USE FileTypes, IdleIsLocals
<1>1. CASE Suggest
  <2>1. PICK op \in Ops : proposals' = Append(proposals,
              [op |-> op, base |-> BytesOf(file),
               new |-> IF op = "delete" THEN Nil ELSE fresh.bytes, declined |-> FALSE])
    BY <1>1 DEF Suggest
  <2> DEFINE p == [op |-> op, base |-> BytesOf(file),
                   new |-> IF op = "delete" THEN Nil ELSE fresh.bytes, declined |-> FALSE]
  <2>2. p \in Proposals BY DEF Proposals, TypeOK, Bytes
  <2> HIDE DEF p
  <2>3. Append(proposals, p) \in Seq(Proposals) BY <2>2, AppendTypes DEF TypeOK
  <2>4. proposals' \in Seq(Proposals) BY <2>1, <2>3 DEF p
  <2>5. /\ UNCHANGED <<file, grant, events, undo, wk, lastWrite>>
        /\ fresh' = [fresh EXCEPT !.bytes = fresh.bytes + 1]
    BY <1>1 DEF Suggest
  <2>6. fresh' \in [bytes : Nat, row : Nat \ {0}, env : Nat] BY <2>5 DEF TypeOK
  <2> QED BY <2>4, <2>5, <2>6 DEF TypeOK
<1>2. CASE decline_write_proposal
  <2>1. PICK i \in pending_proposals : proposals' = [proposals EXCEPT ![i].declined = TRUE]
    BY <1>2 DEF decline_write_proposal
  <2>2. i \in 1 .. Len(proposals) /\ proposals[i] \in Proposals
    BY ElementOfSeq, LenProperties DEF pending_proposals, TypeOK
  <2>3. proposals' = [proposals EXCEPT ![i] = [proposals[i] EXCEPT !.declined = TRUE]] BY <2>1
  <2>4. [proposals[i] EXCEPT !.declined = TRUE] \in Proposals BY <2>2 DEF Proposals
  <2> QED BY <1>2, <2>2, <2>3, <2>4, ExceptSeq DEF decline_write_proposal, TypeOK
<1>3. CASE \E w \in Workers : Step(w) BY <1>3, StepTypes
<1>4. CASE \E w \in Workers : Abort(w)
  <2>1. PICK w \in Workers : Abort(w) BY <1>4
  <2>2. wk' \in [Workers -> Locals] BY <2>1, ReturnTypes DEF Abort
  <2>3. fresh' = [fresh EXCEPT !.env = fresh.env + 1] BY <2>1 DEF Abort
  <2> QED BY <2>1, <2>2, <2>3 DEF Abort, TypeOK
<1>5. CASE foreign_write
  <2>1. PICK b \in {fresh.bytes, fresh.bytes + 1},
             i \in NewInodes \cup (IF file = Nil THEN {} ELSE {file.ino}) :
          /\ Foreign([ino |-> i, bytes |-> b])
          /\ fresh' = [fresh EXCEPT !.bytes = b + 1, !.env = fresh.env + 1]
    BY <1>5 DEF foreign_write
  <2>2. b \in Nat /\ i \in Inodes BY DEF TypeOK
  <2>3. fresh' \in [bytes : Nat, row : Nat \ {0}, env : Nat]
    <3>1. PICK e : e = fresh.env + 1 OBVIOUS
    <3>2. fresh \in [bytes : Nat, row : Nat \ {0}, env : Nat] BY DEF TypeOK
    <3>3. e \in Nat /\ b + 1 \in Nat BY <2>2, <3>1, <3>2
    <3>4. fresh' = [fresh EXCEPT !.bytes = b + 1, !.env = e] BY <2>1, <3>1
    <3> QED BY <3>2, <3>3, <3>4
  <2> QED BY <2>1, <2>2, <2>3 DEF Foreign, TypeOK, Bytes
<1>6. CASE foreign_delete BY <1>6 DEF foreign_delete, Foreign, TypeOK
<1>7. CASE SetGrant
  <2>1. \A w \in Workers : [wk[w] EXCEPT !.granted = wk[w].granted \/ (rename_lock = w /\ ~grant)]
                             \in Locals
    <3> SUFFICES ASSUME NEW w \in Workers
                 PROVE [wk[w] EXCEPT !.granted = wk[w].granted \/ (rename_lock = w /\ ~grant)]
                         \in Locals
      OBVIOUS
    <3>1. PICK b : b = (wk[w].granted \/ (rename_lock = w /\ ~grant)) OBVIOUS
    <3>2. b \in BOOLEAN BY <3>1
    <3>3. wk[w] \in Locals BY DEF TypeOK
    <3>4. [wk[w] EXCEPT !.granted = b] \in Locals BY <3>2, <3>3 DEF Locals
    <3> QED BY <3>1, <3>4
  <2>2. wk' \in [Workers -> Locals] BY <1>7, <2>1 DEF SetGrant
  <2>3. fresh' \in [bytes : Nat, row : Nat \ {0}, env : Nat]
    BY <1>7 DEF SetGrant, TypeOK
  <2>4. grant' \in BOOLEAN BY <1>7 DEF SetGrant
  <2> QED BY <1>7, <2>2, <2>3, <2>4 DEF SetGrant, TypeOK
<1>8. CASE Crash BY <1>8 DEF Crash, TypeOK
<1>9. CASE UNCHANGED vars BY <1>9 DEF vars, TypeOK
<1> QED BY <1>1, <1>2, <1>3, <1>4, <1>5, <1>6, <1>7, <1>8, <1>9 DEF Next

-----------------------------------------------------------------------------
(* What the steps of others leave alone *)

\* Nobody takes back an event, late bytes or the use of a row id.
Grown ==
    /\ late \subseteq late'
    /\ \A e \in DOMAIN events : e \in DOMAIN events' /\ events'[e] = events[e]
    /\ fresh.row <= fresh'.row

LEMMA RowsAreNumbers == TypeOK => fresh.row \in Nat /\ fresh.row # 0
BY DEF TypeOK

LEMMA FrameFacts ==
  ASSUME TypeOK
  PROVE  /\ Len(undo) \in Nat /\ DOMAIN undo = 1 .. Len(undo)
         /\ \A k \in DOMAIN undo : undo[k] \in Frames /\ undo[k].id \in Nat
<1>1. undo \in Seq(Frames) BY DEF TypeOK
<1>2. Len(undo) \in Nat /\ DOMAIN undo = 1 .. Len(undo) BY <1>1, LenProperties
<1>3. \A k \in 1 .. Len(undo) : undo[k] \in Frames BY <1>1, ElementOfSeq
<1> QED BY <1>2, <1>3 DEF Frames

LEMMA SameGrown ==
  ASSUME TypeOK, late \subseteq late', events' = events, fresh' = fresh
  PROVE  Grown
BY RowsAreNumbers DEF Grown

LEMMA UndoesStays ==
  ASSUME NEW e, NEW b, Grown, Undoes(e, b) PROVE Undoes(e, b)'
BY DEF Grown, Undoes

LEMMA UndoingStays ==
  ASSUME NEW r \in Locals, TypeOK, TypeOK', Grown, Undoing(r),
         r.pc \in Behind \cup {"posted"} /\ r.undoOf # 0 =>
            lastWrite' = lastWrite \/ lastWrite' = Nil \/ lastWrite'.row # r.row
  PROVE  Undoing(r)'
<1> SUFFICES ASSUME r.undoOf # 0
             PROVE  /\ r.row < fresh'.row
                    /\ Undoes(r.undoOf, r.new)'
                    /\ r.pc \in Behind \cup {"posted"} => lastWrite' = Nil \/ lastWrite'.row # r.row
  BY DEF Undoing
<1>1. r.row \in Nat /\ fresh.row \in Nat /\ fresh'.row \in Nat
  BY DEF Locals, TypeOK
<1>2. r.row < fresh'.row BY <1>1 DEF Undoing, Grown
<1>3. Undoes(r.undoOf, r.new)' BY UndoesStays DEF Undoing
<1> QED BY <1>2, <1>3 DEF Undoing

\* A worker outside the section is sure of its own locals and of what only grows.
LEMMA OutsideKeeps ==
  ASSUME NEW v, NEW r \in Locals, TypeOK, TypeOK', Grown, WorkerOK(v, r), r.pc \notin Section,
         r.pc \in Behind /\ r.undoOf # 0 =>
            lastWrite' = lastWrite \/ lastWrite' = Nil \/ lastWrite'.row # r.row
  PROVE  WorkerOK(v, r)'
<1>1. Undoing(r)'
  BY UndoingStays DEF WorkerOK, Section, Guarded, Done, Watching
<1>2. Always(r)' BY DEF Always, WorkerOK
<1>3. InSection(v, r)'
  BY DEF InSection, InFlight, Section, Guarded, Watching, Done
<1> QED BY <1>1, <1>2, <1>3 DEF WorkerOK

\* One inside it is also sure of its frame, and of the file but for late bytes.
LEMMA InsideKeeps ==
  ASSUME NEW v, NEW r \in Locals, TypeOK, TypeOK', Grown, WorkerOK(v, r),
         r.pc \in Section => rename_lock' = rename_lock,
         grant' = grant,
         r.pc \in Watching => file' = file \/ BytesOf(file)' \in late',
         InFlight(r) /\ OnTop(r) => OnTop(r)',
         lastWrite' = lastWrite \/ lastWrite' = Nil
  PROVE  WorkerOK(v, r)'
<1>1. Undoing(r)' BY UndoingStays DEF WorkerOK
<1>2. Always(r)' BY DEF Always, WorkerOK
<1>3. r.pc \in Watching => Tracks(r)'
  BY DEF Tracks, WorkerOK, InSection, Grown, BytesOf
<1>4. r.pc = "appended" => r.fw \in DOMAIN events' /\ events'[r.fw].replaced = r.replaced
  BY DEF WorkerOK, InSection, Grown
<1>5. r.pc \in Done => r.replaced = r.base \/ r.replaced \in late'
  BY DEF WorkerOK, InSection, Grown
<1>6. InFlight(r)' = InFlight(r) BY DEF InFlight
<1>7. InFlight(r) => OnTop(r)' BY DEF WorkerOK, InSection
<1>8. InFlight(r) /\ r.pc \in Done => OnDisk(r)' BY DEF WorkerOK, InSection, OnDisk
<1>9. r.pc \in Section => rename_lock' = v BY DEF WorkerOK, InSection
<1>10. r.pc = "locked" => (grant' => r.granted) BY DEF WorkerOK, InSection
<1>11. r.pc \in Guarded => r.granted /\ r.pre = r.base BY DEF WorkerOK, InSection
<1>12. InSection(v, r)'
  BY <1>3, <1>4, <1>5, <1>6, <1>7, <1>8, <1>9, <1>10, <1>11 DEF InSection
<1> QED BY <1>1, <1>2, <1>12 DEF WorkerOK

LEMMA Collect ==
  ASSUME TypeOK, NEW w \in Workers,
         \A v \in Workers \ {w} : wk'[v] = wk[v],
         \A q : q = wk'[w] => WorkerOK(w, q)',
         \A v \in Workers \ {w} : \A s \in Locals : s = wk[v] => WorkerOK(v, s)'
  PROVE  WorkersOK'
<1> SUFFICES ASSUME NEW v \in Workers PROVE WorkerOK(v, wk[v])' BY DEF WorkersOK
<1>1. PICK s : s = wk'[v] OBVIOUS
<1>2. CASE v = w
  <2>1. WorkerOK(w, s)' BY <1>1, <1>2
  <2> QED BY <1>1, <1>2, <2>1 DEF WorkerOK, InSection, Undoing, Always, Tracks, InFlight, OnTop,
                                  OnDisk, Undoes
<1>3. CASE v # w
  <2>1. s \in Locals /\ s = wk[v] BY <1>1, <1>3 DEF TypeOK
  <2>2. WorkerOK(v, s)' BY <1>3, <2>1
  <2> QED BY <1>1, <2>2 DEF WorkerOK, InSection, Undoing, Always, Tracks, InFlight, OnTop,
                            OnDisk, Undoes
<1> QED BY <1>2, <1>3

LEMMA StaysApart ==
  ASSUME AllApart, NEW w \in Workers,
         \A v \in Workers \ {w} : wk'[v] = wk[v],
         wk'[w].undoOf # 0 => wk[w].undoOf # 0 /\ wk'[w].row = wk[w].row,
         wk'[w].undoOf = 0 /\ wk'[w].pc \in Guarded \ {"guarded"} =>
            InFlight(wk[w]) /\ wk'[w].row = wk[w].row
  PROVE  AllApart'
BY DEF AllApart, Apart, InFlight

\* A step that does not touch the frames or the events.
LEMMA Quiet ==
  ASSUME IInv, Grown, UNCHANGED <<undo, events, lost>>, TypeOK',
         lastWrite' = lastWrite \/ lastWrite' = Nil
  PROVE  FramesOK' /\ HistoryOK'
<1>1. \A k \in DOMAIN undo : undo[k].id \in Nat
  BY FrameFacts DEF IInv
<1>2. fresh.row \in Nat /\ fresh'.row \in Nat BY DEF IInv, TypeOK
<1>3. \A k \in DOMAIN undo : undo[k].id < fresh'.row
  BY <1>1, <1>2 DEF IInv, FramesOK, Grown
<1>4. \A e, b : Undoes(e, b) => Undoes(e, b)' BY UndoesStays
<1>5. FramesOK'
  <2>1. \A k \in DOMAIN undo : undo[k].fw # 0 => Undoes(undo[k].fw, undo[k].pre)
    BY DEF IInv, FramesOK
  <2>2. ASSUME NEW k \in DOMAIN undo, undo[k].fw # 0
        PROVE  Undoes(undo[k].fw, undo[k].pre)'
    <3>1. PICK e, b : e = undo[k].fw /\ b = undo[k].pre OBVIOUS
    <3>2. Undoes(e, b) BY <2>1, <2>2, <3>1
    <3>3. Undoes(e, b)' BY <3>2, <1>4
    <3> QED BY <3>1, <3>3 DEF Undoes
  <2> QED BY <2>2, <1>3 DEF IInv, FramesOK
<1>6. TipRecoverable' BY DEF IInv, HistoryOK, TipRecoverable, Grown
<1>7. EventsOK' BY <1>4 DEF IInv, HistoryOK, EventsOK
<1>8. VerdictBaseReplaced' BY DEF IInv, HistoryOK, VerdictBaseReplaced, Grown
<1>9. OnlyLateBytesLost' BY DEF IInv, HistoryOK, OnlyLateBytesLost, Grown
<1> QED BY <1>5, <1>6, <1>7, <1>8, <1>9 DEF HistoryOK

-----------------------------------------------------------------------------
(* Steps that change only the worker's locals, and those that end a call *)

Bystanders == <<file, grant, events, undo, fresh, lastWrite, late, lost>>

LEMMA OthersKeep ==
  ASSUME IInv, TypeOK', NEW w \in Workers, Grown, grant' = grant,
         rename_lock' = rename_lock \/ rename_lock = w \/ rename_lock = Nil,
         file' = file \/ BytesOf(file)' \in late',
         \A v \in Workers \ {w} : \A s \in Locals :
            s = wk[v] /\ InFlight(s) /\ OnTop(s) => OnTop(s)',
         lastWrite' = lastWrite \/ lastWrite' = Nil
  PROVE  \A v \in Workers \ {w} : \A s \in Locals : s = wk[v] => WorkerOK(v, s)'
<1> SUFFICES ASSUME NEW v \in Workers \ {w}, NEW s \in Locals, s = wk[v] PROVE WorkerOK(v, s)'
  OBVIOUS
<1>1. WorkerOK(v, s)
  BY DEF IInv, WorkersOK, WorkerOK, InSection, Undoing, Always, Tracks, InFlight, OnTop, OnDisk,
         Undoes
<1>2. s.pc \in Section => rename_lock = v BY <1>1 DEF WorkerOK, InSection
<1>3. s.pc \in Section => rename_lock' = rename_lock BY <1>2, NilAssumption
<1> QED BY <1>1, <1>3, InsideKeeps DEF IInv

LEMMA LocalStep ==
  ASSUME IInv, TypeOK', NEW w \in Workers, UNCHANGED Bystanders,
         rename_lock' = rename_lock \/ rename_lock = w \/ rename_lock = Nil,
         \A v \in Workers \ {w} : wk'[v] = wk[v],
         \A q : q = wk'[w] => WorkerOK(w, q)',
         AllApart'
  PROVE  IInv'
<1>1. Grown BY SameGrown DEF IInv, Bystanders
<1>2. \A v \in Workers \ {w} : \A s \in Locals : s = wk[v] => WorkerOK(v, s)'
  <2>1. \A s \in Locals : InFlight(s) /\ OnTop(s) => OnTop(s)' BY DEF OnTop, Bystanders
  <2> QED BY <1>1, <2>1, OthersKeep DEF Bystanders
<1>3. WorkersOK' BY <1>2, Collect DEF IInv
<1>4. FramesOK' /\ HistoryOK' BY <1>1, Quiet DEF Bystanders
<1> QED BY <1>3, <1>4 DEF IInv

LEMMA IdleOK == ASSUME NEW w, NEW q, q = IdleWorker PROVE WorkerOK(w, q)'
BY DEF IdleWorker, WorkerOK, InSection, Undoing, Always, InFlight, Section, Guarded, Watching,
       Done, Forward, Behind

LEMMA LeaveStep ==
  ASSUME IInv, TypeOK', NEW w \in Workers, Return(w), Grown,
         UNCHANGED <<file, grant, events, undo, lastWrite, late, lost>>,
         rename_lock' = rename_lock \/ rename_lock = w
  PROVE  IInv'
<1>0. wk \in [Workers -> Locals] BY DEF IInv, TypeOK
<1>1. wk'[w] = IdleWorker /\ \A v \in Workers \ {w} : wk'[v] = wk[v] BY <1>0 DEF Return
<1>2. \A v \in Workers \ {w} : \A s \in Locals : s = wk[v] => WorkerOK(v, s)'
  <2>1. \A s \in Locals : InFlight(s) /\ OnTop(s) => OnTop(s)' BY DEF OnTop
  <2> QED BY <2>1, OthersKeep
<1>3. WorkersOK' BY <1>1, <1>2, IdleOK, Collect DEF IInv
<1>4. AllApart'
  BY <1>1, StaysApart DEF IInv, IdleWorker, Guarded, Watching, Done
<1>5. FramesOK' /\ HistoryOK' BY Quiet
<1> QED BY <1>3, <1>4, <1>5 DEF IInv

LEMMA RefuseStep ==
  ASSUME IInv, TypeOK', NEW w \in Workers, wk[w].pc \in Section, Refuse(w), UNCHANGED Bystanders
  PROVE  IInv'
<1>1. rename_lock = w BY DEF IInv, WorkersOK, WorkerOK, InSection
<1>2. Grown BY SameGrown DEF IInv, Bystanders
<1> QED BY <1>1, <1>2, LeaveStep DEF Refuse, Bystanders

\* A worker that is outside the section and stays there.
LEMMA OwnOutside ==
  ASSUME NEW w \in Workers, NEW r \in Locals, NEW q \in Locals, TypeOK, TypeOK', Grown,
         WorkerOK(w, r), q.pc \notin Section, Always(q),
         q.undoOf # 0 => q.undoOf = r.undoOf /\ q.row = r.row /\ q.new = r.new,
         q.pc \in Behind => r.pc \in Behind, lastWrite' = lastWrite
  PROVE  WorkerOK(w, q)'
<1>1. InSection(w, q)' BY DEF InSection, InFlight, Section, Guarded, Watching, Done
<1>2. q.undoOf # 0 => r.row \in Nat /\ r.row < fresh'.row /\ Undoes(q.undoOf, q.new)'
  <2> SUFFICES ASSUME q.undoOf # 0
               PROVE  r.row \in Nat /\ r.row < fresh'.row /\ Undoes(q.undoOf, q.new)'
    OBVIOUS
  <2>1. Undoes(q.undoOf, q.new) /\ r.row < fresh.row BY DEF WorkerOK, Undoing
  <2>2. r.row \in Nat /\ fresh.row \in Nat /\ fresh'.row \in Nat BY DEF Locals, TypeOK
  <2> QED BY <2>1, <2>2, UndoesStays DEF Grown
<1>3. Undoing(q)'
  BY <1>2 DEF WorkerOK, Undoing, Section, Guarded, Done
<1> QED BY <1>1, <1>3 DEF WorkerOK, Always

\* What a worker holds, with its locals at hand.
LEMMA Mine ==
  ASSUME IInv, NEW w \in Workers
  PROVE  \E r \in Locals : r = wk[w] /\ WorkerOK(w, r)
BY DEF IInv, TypeOK, WorkersOK, WorkerOK, InSection, Undoing, Always, Tracks, InFlight, OnTop,
       OnDisk, Undoes

LEMMA OutsideStep ==
  ASSUME IInv, TypeOK', NEW w \in Workers, NEW r \in Locals, r = wk[w], WorkerOK(w, r),
         NEW q \in Locals, wk' = [wk EXCEPT ![w] = q],
         UNCHANGED Bystanders, rename_lock' = rename_lock,
         q.pc \notin Section, Always(q),
         q.undoOf # 0 => q.undoOf = r.undoOf /\ q.row = r.row /\ q.new = r.new,
         q.pc \in Behind => r.pc \in Behind
  PROVE  IInv'
<1>1. wk \in [Workers -> Locals] BY DEF IInv, TypeOK
<1>2. wk'[w] = q /\ \A v \in Workers \ {w} : wk'[v] = wk[v] BY <1>1
<1>3. Grown BY SameGrown DEF IInv, Bystanders
<1>4. WorkerOK(w, q)' BY <1>3, OwnOutside DEF IInv, Bystanders
<1>5. AllApart' BY <1>2, StaysApart DEF IInv, Section
<1> QED BY <1>2, <1>4, <1>5, LocalStep

-----------------------------------------------------------------------------
(* The way to the lock *)

LEMMA NotBusy ==
  /\ {"propose", "live", "loaded", "gated", "stat", "undone", "popping"} \cap Section = {}
  /\ {"propose", "live", "loaded", "gated", "stat"} \cap Behind = {}
  /\ {"propose", "live", "loaded", "gated", "stat", "undone", "popping"} \cap Forward = {}
BY DEF Section, Guarded, Watching, Done, Behind, Forward

LEMMA ApplyStep ==
  ASSUME IInv, TypeOK', NEW w \in Workers, apply_proposal(w) PROVE IInv'
<1>1. PICK r \in Locals : r = wk[w] /\ WorkerOK(w, r) BY Mine
<1>2. PICK i \in pending_proposals :
        wk' = [wk EXCEPT ![w] = [IdleWorker EXCEPT
                 !.pc = IF proposals[i].op = "create" THEN "propose" ELSE "live",
                 !.pid = i, !.op = proposals[i].op, !.new = proposals[i].new]]
  BY DEF apply_proposal
<1>3. PICK q : q = [IdleWorker EXCEPT
                 !.pc = IF proposals[i].op = "create" THEN "propose" ELSE "live",
                 !.pid = i, !.op = proposals[i].op, !.new = proposals[i].new]
  OBVIOUS
<1>4. q.pc \in {"propose", "live"} /\ q.undoOf = 0 /\ q.base = Nil
  BY <1>3 DEF IdleWorker
<1>5. wk \in [Workers -> Locals] /\ wk' \in [Workers -> Locals] BY DEF IInv, TypeOK
<1>6. wk' = [wk EXCEPT ![w] = q] BY <1>2, <1>3
<1>7. q \in Locals BY <1>5, <1>6
<1>8. Always(q) BY <1>4, NotBusy DEF Always
<1> QED BY <1>1, <1>4, <1>6, <1>7, <1>8, NotBusy, OutsideStep DEF apply_proposal, Bystanders

LEMMA ReturnStep ==
  ASSUME IInv, TypeOK', NEW w \in Workers, Return(w), UNCHANGED Bystanders,
         rename_lock' = rename_lock
  PROVE  IInv'
<1>1. Grown BY SameGrown DEF IInv, Bystanders
<1> QED BY <1>1, LeaveStep DEF Bystanders

LEMMA ClobberStep ==
  ASSUME IInv, TypeOK', NEW w \in Workers, anti_clobber(w) \/ undo_identity(w) PROVE IInv'
<1>1. PICK r \in Locals : r = wk[w] /\ WorkerOK(w, r) BY Mine
<1>2. UNCHANGED Bystanders /\ rename_lock' = rename_lock
  BY DEF anti_clobber, undo_identity, Bystanders
<1>3. CASE Return(w) BY <1>2, <1>3, ReturnStep
<1>4. CASE ~Return(w)
  <2>1. PICK q : q = [r EXCEPT !.pc = "propose"] OBVIOUS
  <2>2. wk' = [wk EXCEPT ![w].pc = "propose"] BY <1>4 DEF anti_clobber, undo_identity
  <2>3. wk' = [wk EXCEPT ![w] = q] BY <1>1, <2>1, <2>2
  <2>4. /\ q.pc = "propose" /\ q.undoOf = r.undoOf /\ q.row = r.row /\ q.new = r.new
        /\ q.op = r.op /\ q.base = r.base /\ q \in Locals
    BY <2>1 DEF Locals, Places
  <2>5. Always(q) BY <1>1, <2>4, NotBusy DEF Always, WorkerOK
  <2> QED BY <1>1, <1>2, <2>3, <2>4, <2>5, NotBusy, OutsideStep
<1> QED BY <1>3, <1>4

LEMMA ProposeStep ==
  ASSUME IInv, TypeOK', NEW w \in Workers, propose_write(w) PROVE IInv'
<1>1. PICK r \in Locals : r = wk[w] /\ WorkerOK(w, r) BY Mine
<1>2. UNCHANGED Bystanders /\ rename_lock' = rename_lock BY DEF propose_write, Bystanders
<1>3. CASE Return(w) BY <1>2, <1>3, ReturnStep
<1>4. CASE ~Return(w)
  <2>1. PICK i \in Idents, p \in Places : i = (IF file = Nil THEN Nil ELSE Identity(file))
                                         /\ p = IF r.op = "create" THEN "gated" ELSE "stat"
    BY FileTypes DEF Idents, IInv, Places
  <2>2. PICK q : q = [r EXCEPT !.pc = p, !.ident = i] OBVIOUS
  <2>3. wk' = [wk EXCEPT ![w] = q] BY <1>1, <1>4, <2>1, <2>2 DEF propose_write
  <2>4. /\ q.pc = p /\ q.undoOf = r.undoOf /\ q.row = r.row /\ q.new = r.new
        /\ q.op = r.op /\ q.base = r.base /\ q \in Locals
    BY <2>1, <2>2 DEF Locals, Places
  <2>5. Always(q) BY <1>1, <2>1, <2>4, NotBusy DEF Always, WorkerOK
  <2> QED BY <1>1, <1>2, <2>1, <2>3, <2>4, <2>5, NotBusy, OutsideStep
<1> QED BY <1>3, <1>4

LEMMA ReadBaseStep ==
  ASSUME IInv, TypeOK', NEW w \in Workers, read_base(w) PROVE IInv'
<1>1. PICK r \in Locals : r = wk[w] /\ WorkerOK(w, r) BY Mine
<1>2. UNCHANGED Bystanders /\ rename_lock' = rename_lock BY DEF read_base, Bystanders
<1>3. CASE file = Nil BY <1>2, <1>3, ReturnStep DEF read_base
<1>4. CASE file # Nil
  <2>1. PICK b \in Bytes : b = file.bytes BY <1>4, FileTypes DEF IInv
  <2>2. PICK q : q = [r EXCEPT !.pc = "gated", !.base = b] OBVIOUS
  <2>3. wk' = [wk EXCEPT ![w] = q] BY <1>1, <1>4, <2>1, <2>2 DEF read_base
  <2>4. /\ q.pc = "gated" /\ q.undoOf = r.undoOf /\ q.row = r.row /\ q.new = r.new
        /\ q.op = r.op /\ q \in Locals
    BY <2>2 DEF Locals, Places
  <2>5. r.op # "create" BY <1>1 DEF read_base, Always, WorkerOK
  <2>6. Always(q) BY <2>4, <2>5, NotBusy DEF Always
  <2> QED BY <1>1, <1>2, <2>3, <2>4, <2>6, NotBusy, OutsideStep
<1> QED BY <1>3, <1>4

LEMMA StatAfterStep ==
  ASSUME IInv, TypeOK', NEW w \in Workers, stat_after_undo(w) PROVE IInv'
<1>1. PICK r \in Locals : r = wk[w] /\ WorkerOK(w, r) BY Mine
<1>2. UNCHANGED Bystanders /\ rename_lock' = rename_lock BY DEF stat_after_undo, Bystanders
<1>3. PICK i \in Idents : i = IF file = Nil THEN Nil ELSE Identity(file)
  BY FileTypes DEF Idents, IInv
<1>4. PICK q : q = [r EXCEPT !.pc = "popping", !.post = i] OBVIOUS
<1>5. wk' = [wk EXCEPT ![w] = q] BY <1>1, <1>3, <1>4 DEF stat_after_undo
<1>6. /\ q.pc = "popping" /\ q.undoOf = r.undoOf /\ q.row = r.row /\ q.new = r.new
      /\ q.op = r.op /\ q.base = r.base /\ q \in Locals
  BY <1>4 DEF Locals, Places, Behind
<1>7. r.pc = "undone" BY <1>1 DEF stat_after_undo
<1>8. Always(q) BY <1>1, <1>6, <1>7, NotBusy DEF Always, WorkerOK, Behind
<1> QED BY <1>1, <1>2, <1>5, <1>6, <1>7, <1>8, NotBusy, OutsideStep DEF Behind

\* The frame an undo takes is bound, so it is nobody's in flight.
LEMMA UndoStep ==
  ASSUME IInv, TypeOK', NEW w \in Workers, undo_write(w) PROVE IInv'
<1>1. wk \in [Workers -> Locals] /\ wk' \in [Workers -> Locals] BY DEF IInv, TypeOK
<1>2. PICK top : top = undo[Len(undo)] OBVIOUS
<1>3. PICK q : q = [IdleWorker EXCEPT
                !.pc = IF top.post = Nil THEN "propose" ELSE "loaded",
                !.undoOf = top.fw, !.op = inverse_op[top.op], !.new = top.pre,
                !.row = top.id, !.post = top.post]
  OBVIOUS
<1>4. wk' = [wk EXCEPT ![w] = q] BY <1>2, <1>3 DEF undo_write
<1>5. q \in Locals /\ wk'[w] = q /\ \A v \in Workers \ {w} : wk'[v] = wk[v] BY <1>1, <1>4
<1>6. /\ q.pc \in {"propose", "loaded"} /\ q.undoOf = top.fw /\ q.new = top.pre
      /\ q.row = top.id /\ q.base = Nil
  BY <1>3 DEF IdleWorker
<1>7. Len(undo) \in DOMAIN undo /\ undo # << >>
  BY FrameFacts, EmptySeq, LenProperties DEF undo_write, IInv, TypeOK
<1>8. top.fw # 0 /\ top.id < fresh.row /\ Undoes(top.fw, top.pre)
  BY <1>2, <1>7 DEF undo_write, IInv, FramesOK
<1>9. UNCHANGED Bystanders /\ rename_lock' = rename_lock BY DEF undo_write, Bystanders
<1>10. Grown BY <1>9, SameGrown DEF IInv, Bystanders
<1>11. WorkerOK(w, q)'
  <2>1. Undoes(top.fw, top.pre)' BY <1>8, <1>10, UndoesStays
  <2>2. Undoing(q)' BY <1>6, <1>8, <1>9, <2>1, NotBusy DEF Undoing, Bystanders, Section, Guarded, Done
  <2>3. InSection(w, q)'
    BY <1>6, NotBusy DEF InSection, InFlight, Section, Guarded, Watching, Done
  <2>4. Always(q)' BY <1>6, NotBusy DEF Always
  <2> QED BY <2>2, <2>3, <2>4 DEF WorkerOK
<1>12. AllApart'
  <2>1. \A u \in Workers : InFlight(wk[u]) => wk[u].row # top.id
    <3> SUFFICES ASSUME NEW u \in Workers, InFlight(wk[u]) PROVE wk[u].row # top.id OBVIOUS
    <3>1. OnTop(wk[u]) /\ wk[u].undoOf = 0
      BY DEF IInv, WorkersOK, WorkerOK, InSection, InFlight
    <3> QED BY <3>1, <1>2, <1>8 DEF OnTop
  <2>2. ~InFlight(q) BY <1>6, NotBusy DEF InFlight, Section
  <2> QED BY <1>5, <1>6, <2>1, <2>2 DEF IInv, AllApart, Apart, InFlight
<1> QED BY <1>5, <1>9, <1>11, <1>12, LocalStep

-----------------------------------------------------------------------------
(* Under the lock *)

LEMMA LockStep ==
  ASSUME IInv, TypeOK', NEW w \in Workers, lock_rename(w) PROVE IInv'
<1>1. PICK r \in Locals : r = wk[w] /\ WorkerOK(w, r) BY Mine
<1>2. wk \in [Workers -> Locals] /\ grant \in BOOLEAN BY DEF IInv, TypeOK
<1>3. PICK q : q = [r EXCEPT !.pc = "locked", !.granted = grant] OBVIOUS
<1>4. wk' = [wk EXCEPT ![w] = q] BY <1>1, <1>3 DEF lock_rename
<1>5. wk'[w] = q /\ \A v \in Workers \ {w} : wk'[v] = wk[v] BY <1>2, <1>4
<1>6. /\ q.pc = "locked" /\ q.granted = grant /\ q.undoOf = r.undoOf /\ q.row = r.row
      /\ q.new = r.new /\ q.op = r.op /\ q.base = r.base
  BY <1>2, <1>3 DEF Locals
<1>7. UNCHANGED Bystanders /\ rename_lock = Nil /\ rename_lock' = w /\ r.pc = "gated"
  BY <1>1 DEF lock_rename, Bystanders
<1>8. WorkerOK(w, q)'
  <2>1. InSection(w, q)'
    BY <1>6, <1>7 DEF InSection, InFlight, Guarded, Watching, Done, Bystanders
  <2>2. Undoing(q)'
    BY <1>1, <1>6, <1>7 DEF Undoing, WorkerOK, Behind, Undoes, Bystanders
  <2>3. Always(q)' BY <1>1, <1>6 DEF Always, WorkerOK, Forward, Behind
  <2> QED BY <2>1, <2>2, <2>3 DEF WorkerOK
<1>9. AllApart'
  BY <1>1, <1>5, <1>6, StaysApart DEF IInv, Guarded, Watching, Done
<1> QED BY <1>5, <1>7, <1>8, <1>9, LocalStep

LEMMA GuardStep ==
  ASSUME IInv, TypeOK', NEW w \in Workers, base_guard(w) PROVE IInv'
<1>1. PICK r \in Locals : r = wk[w] /\ WorkerOK(w, r) BY Mine
<1>2. UNCHANGED Bystanders /\ r.pc = "locked" BY <1>1 DEF base_guard, Bystanders
<1>3. CASE Refuse(w) BY <1>1, <1>2, <1>3, RefuseStep DEF Section
<1>4. CASE ~Refuse(w)
  <2>1. PICK b, p : b = (IF r.op = "create" THEN Nil ELSE file.bytes)
                    /\ p = IF r.undoOf = 0 THEN "guarded" ELSE "captured"
    OBVIOUS
  <2>2. PICK q : q = [r EXCEPT !.pc = p, !.pre = b] OBVIOUS
  <2>3. wk' = [wk EXCEPT ![w] = q] /\ rename_lock' = rename_lock
    BY <1>1, <1>4, <2>1, <2>2 DEF base_guard
  <2>4. /\ grant
        /\ r.op = "create" \/ (file # Nil /\ file.bytes = r.base)
    BY <1>1, <1>4 DEF base_guard
  <2>5. wk \in [Workers -> Locals] BY DEF IInv, TypeOK
  <2>6. wk'[w] = q /\ \A v \in Workers \ {w} : wk'[v] = wk[v] BY <2>3, <2>5
  <2>7. /\ q.pc = p /\ q.pre = b /\ q.undoOf = r.undoOf /\ q.row = r.row /\ q.new = r.new
        /\ q.op = r.op /\ q.base = r.base /\ q.granted = r.granted
    BY <2>2 DEF Locals
  <2>8. WorkerOK(w, q)'
    <3>1. rename_lock' = w /\ r.granted
      BY <1>1, <1>2, <2>3, <2>4 DEF WorkerOK, InSection, Section
    <3>2. b = r.base BY <1>1, <2>1, <2>4 DEF WorkerOK, Always
    <3>3. p \in Watching /\ p \notin Done /\ p # "restatted"
      BY <2>1 DEF Watching, Done
    <3>4. Tracks(q)'
      BY <1>2, <2>1, <2>4, <2>7, <3>3 DEF Tracks, Bystanders, BytesOf
    <3>5. ~InFlight(q) BY <2>1, <2>7 DEF InFlight
    <3>6. InSection(w, q)'
      BY <2>7, <3>1, <3>2, <3>3, <3>4, <3>5 DEF InSection, InFlight, Watching, Done, Guarded
    <3>7. Undoing(q)'
      BY <1>1, <1>2, <2>1, <2>7 DEF Undoing, WorkerOK, Behind, Undoes, Bystanders
    <3>8. Always(q)' BY <1>1, <2>1, <2>7 DEF Always, WorkerOK, Forward, Behind
    <3> QED BY <3>6, <3>7, <3>8 DEF WorkerOK
  <2>9. AllApart'
    BY <1>1, <2>1, <2>6, <2>7, StaysApart DEF IInv
  <2> QED BY <1>2, <2>3, <2>6, <2>8, <2>9, LocalStep
<1> QED BY <1>3, <1>4

LEMMA RestatStep ==
  ASSUME IInv, TypeOK', NEW w \in Workers, restat_identity_matches(w) PROVE IInv'
<1>1. PICK r \in Locals : r = wk[w] /\ WorkerOK(w, r) BY Mine
<1>2. UNCHANGED Bystanders /\ r.pc = "captured" BY <1>1 DEF restat_identity_matches, Bystanders
<1>3. CASE Refuse(w) BY <1>1, <1>2, <1>3, RefuseStep DEF Section, Guarded, Watching
<1>4. CASE ~Refuse(w)
  <2>1. PICK q : q = [r EXCEPT !.pc = "restatted"] OBVIOUS
  <2>2. wk' = [wk EXCEPT ![w].pc = "restatted"] /\ rename_lock' = rename_lock
    BY <1>4 DEF restat_identity_matches
  <2>3. wk' = [wk EXCEPT ![w] = q] BY <1>1, <2>1, <2>2
  <2>4. r.op = "create" => LinuxRename \/ file = Nil
    BY <1>1, <1>4 DEF restat_identity_matches
  <2>5. wk \in [Workers -> Locals] BY DEF IInv, TypeOK
  <2>6. wk'[w] = q /\ \A v \in Workers \ {w} : wk'[v] = wk[v] BY <2>3, <2>5
  <2>7. /\ q.pc = "restatted" /\ q.pre = r.pre /\ q.undoOf = r.undoOf /\ q.row = r.row
        /\ q.new = r.new /\ q.op = r.op /\ q.base = r.base /\ q.granted = r.granted
    BY <2>1 DEF Locals
  <2>8. WorkerOK(w, q)'
    <3>1. rename_lock = w /\ r.granted /\ r.pre = r.base /\ Tracks(r)
      BY <1>1, <1>2 DEF WorkerOK, InSection, Section, Guarded, Watching
    <3>2. Tracks(q)'
      <4>1. r.op = "create" => r.base = Nil BY <1>1 DEF WorkerOK, Always
      <4> QED BY <1>2, <2>4, <2>7, <3>1, <4>1 DEF Tracks, Bystanders, BytesOf
    <3>3. InFlight(q) => OnTop(q)'
      BY <1>1, <1>2, <2>7 DEF WorkerOK, InSection, InFlight, OnTop, Bystanders, Guarded, Watching
    <3>4. InSection(w, q)'
      BY <2>2, <2>7, <3>1, <3>2, <3>3 DEF InSection, InFlight, Watching, Done, Guarded
    <3>5. Undoing(q)'
      BY <1>1, <1>2, <2>7 DEF Undoing, WorkerOK, Behind, Undoes, Bystanders
    <3>6. Always(q)' BY <1>1, <2>7 DEF Always, WorkerOK, Forward, Behind
    <3> QED BY <3>4, <3>5, <3>6 DEF WorkerOK
  <2>9. AllApart'
    BY <1>1, <1>2, <2>6, <2>7, StaysApart DEF IInv, InFlight, Guarded, Watching
  <2> QED BY <1>2, <2>2, <2>6, <2>8, <2>9, LocalStep
<1> QED BY <1>3, <1>4

LEMMA PostIdentityStep ==
  ASSUME IInv, TypeOK', NEW w \in Workers, post_identity(w) PROVE IInv'
<1>1. PICK r \in Locals : r = wk[w] /\ WorkerOK(w, r) BY Mine
<1>2. UNCHANGED Bystanders /\ r.pc = "mutated" BY <1>1 DEF post_identity, Bystanders
<1>3. CASE Refuse(w) BY <1>1, <1>2, <1>3, RefuseStep DEF Section, Guarded, Done
<1>4. CASE ~Refuse(w)
  <2>1. PICK i : i = IF r.op = "delete" THEN Nil ELSE Identity(file) OBVIOUS
  <2>2. PICK q : q = [r EXCEPT !.pc = "posted", !.post = i] OBVIOUS
  <2>3. wk' = [wk EXCEPT ![w] = q] /\ rename_lock' = rename_lock
    BY <1>1, <1>4, <2>1, <2>2 DEF post_identity
  <2>5. wk \in [Workers -> Locals] BY DEF IInv, TypeOK
  <2>6. wk'[w] = q /\ \A v \in Workers \ {w} : wk'[v] = wk[v] BY <2>3, <2>5
  <2>7. /\ q.pc = "posted" /\ q.pre = r.pre /\ q.undoOf = r.undoOf /\ q.row = r.row
        /\ q.new = r.new /\ q.op = r.op /\ q.base = r.base /\ q.granted = r.granted
        /\ q.replaced = r.replaced
    BY <2>2 DEF Locals
  <2>8. r.undoOf = 0 BY <1>1, <1>2 DEF WorkerOK, Always, Forward
  <2>9. WorkerOK(w, q)'
    <3>1. /\ rename_lock = w /\ r.granted /\ r.pre = r.base
          /\ r.replaced = r.base \/ r.replaced \in late
          /\ OnTop(r) /\ OnDisk(r)
      BY <1>1, <1>2, <2>8 DEF WorkerOK, InSection, Section, Guarded, Done, InFlight
    <3>2. OnTop(q)' /\ OnDisk(q)' BY <1>2, <2>7, <3>1 DEF OnTop, OnDisk, Bystanders
    <3>3. InSection(w, q)'
      BY <1>2, <2>3, <2>7, <3>1, <3>2 DEF InSection, Watching, Done, Guarded, Bystanders
    <3>4. Undoing(q)' BY <2>7, <2>8 DEF Undoing
    <3>5. Always(q)' BY <1>1, <2>7 DEF Always, WorkerOK, Forward, Behind
    <3> QED BY <3>3, <3>4, <3>5 DEF WorkerOK
  <2>10. AllApart'
    BY <1>1, <1>2, <2>6, <2>7, StaysApart DEF IInv, InFlight, Guarded, Watching, Done
  <2> QED BY <1>2, <2>3, <2>6, <2>9, <2>10, LocalStep
<1> QED BY <1>3, <1>4

\* While w is in the section, the others are outside of it.
LEMMA OthersOutside ==
  ASSUME IInv, TypeOK', NEW w \in Workers, rename_lock = w, Grown,
         \A v \in Workers \ {w} : \A s \in Locals :
            s = wk[v] /\ s.pc \in Behind /\ s.undoOf # 0 =>
              lastWrite' = lastWrite \/ lastWrite' = Nil \/ lastWrite'.row # s.row
  PROVE  \A v \in Workers \ {w} : \A s \in Locals : s = wk[v] => WorkerOK(v, s)'
<1> SUFFICES ASSUME NEW v \in Workers \ {w}, NEW s \in Locals, s = wk[v] PROVE WorkerOK(v, s)'
  OBVIOUS
<1>1. PICK u \in Locals : u = wk[v] /\ WorkerOK(v, u) BY Mine
<1>2. u = s BY <1>1
<1>3. s.pc \notin Section BY <1>1, <1>2 DEF WorkerOK, InSection
<1> QED BY <1>1, <1>2, <1>3, OutsideKeeps DEF IInv

LEMMA CaptureStep ==
  ASSUME IInv, TypeOK', NEW w \in Workers, capture_undo(w) PROVE IInv'
<1>1. PICK r \in Locals : r = wk[w] /\ WorkerOK(w, r) BY Mine
<1>2. wk \in [Workers -> Locals] BY DEF IInv, TypeOK
<1>3. PICK n \in Nat : n = fresh.row BY DEF IInv, TypeOK
<1>4. PICK q : q = [r EXCEPT !.pc = "captured", !.row = n] OBVIOUS
<1>5. wk' = [wk EXCEPT ![w] = q] BY <1>1, <1>3, <1>4 DEF capture_undo
<1>6. wk'[w] = q /\ \A v \in Workers \ {w} : wk'[v] = wk[v] BY <1>2, <1>5
<1>7. /\ q.pc = "captured" /\ q.row = n /\ q.pre = r.pre /\ q.undoOf = r.undoOf
      /\ q.op = r.op /\ q.base = r.base /\ q.granted = r.granted
  BY <1>4 DEF Locals
<1>8. /\ UNCHANGED <<file, grant, proposals, events, rename_lock, lastWrite, late, lost>>
      /\ r.pc = "guarded"
  BY <1>1 DEF capture_undo
<1>9. /\ rename_lock = w /\ r.granted /\ r.pre = r.base /\ Tracks(r) /\ r.undoOf = 0
      /\ r.op = "create" => r.base = Nil
  BY <1>1, <1>8 DEF WorkerOK, InSection, Always, Section, Guarded, Watching, Forward
<1>10. PICK f : f = [id |-> n, fw |-> 0, op |-> r.op, pre |-> r.pre, post |-> Nil] OBVIOUS
<1>11. undo' = Append(undo, f) BY <1>1, <1>3, <1>10 DEF capture_undo
<1>12. f \in Frames BY <1>10 DEF Frames, Locals, Idents
<1>13. /\ DOMAIN undo' = 1 .. (Len(undo) + 1) /\ Len(undo') = Len(undo) + 1
       /\ \A k \in DOMAIN undo : k \in DOMAIN undo' /\ undo'[k] = undo[k]
       /\ undo'[Len(undo) + 1] = f
  <2>1. undo \in Seq(Frames) BY DEF IInv, TypeOK
  <2> QED BY <1>11, <1>12, <2>1, AppendProperties, LenProperties
<1>14. fresh'.row = n + 1
  <2>1. fresh' = [fresh EXCEPT !.row = fresh.row + 1] BY DEF capture_undo
  <2> QED BY <1>3, <2>1 DEF IInv, TypeOK
<1>15. Grown BY <1>3, <1>8, <1>14 DEF Grown
<1>16. WorkerOK(w, q)'
  <2>1. Tracks(q)' BY <1>7, <1>8, <1>9 DEF Tracks, BytesOf
  <2>2. OnTop(q)'
    <3>1. undo' # << >> BY <1>13, FrameFacts DEF IInv
    <3> QED BY <1>7, <1>10, <1>13, <3>1 DEF OnTop
  <2>3. InSection(w, q)'
    BY <1>7, <1>8, <1>9, <2>1, <2>2 DEF InSection, Watching, Guarded, Done
  <2>4. Undoing(q)' BY <1>7, <1>9 DEF Undoing
  <2>5. Always(q)' BY <1>1, <1>7, <1>9 DEF Always, Forward, Behind
  <2> QED BY <2>3, <2>4, <2>5 DEF WorkerOK
<1>17. WorkersOK'
  <2>1. \A v \in Workers \ {w} : \A s \in Locals : s = wk[v] => WorkerOK(v, s)'
    BY <1>8, <1>9, <1>15, OthersOutside
  <2> QED BY <1>6, <1>16, <2>1, Collect DEF IInv
<1>18. AllApart'
  <2>1. \A v \in Workers : wk[v].undoOf # 0 => wk[v].row # n
    <3> SUFFICES ASSUME NEW v \in Workers, wk[v].undoOf # 0 PROVE wk[v].row # n OBVIOUS
    <3>1. PICK s \in Locals : s = wk[v] /\ WorkerOK(v, s) BY Mine
    <3>2. s.row < n /\ s.row \in Nat BY <1>3, <3>1 DEF WorkerOK, Undoing, Locals
    <3> QED BY <3>1, <3>2
  <2> QED BY <1>1, <1>6, <1>7, <1>9, <2>1 DEF IInv, AllApart, Apart, InFlight
<1>19. FramesOK'
  <2>1. ASSUME NEW k \in DOMAIN undo'
        PROVE  /\ undo'[k].id < n + 1
               /\ undo'[k].fw # 0 => Undoes(undo[k].fw, undo[k].pre)'
    <3>1. CASE k \in DOMAIN undo
      <4>1. undo'[k] = undo[k] /\ undo[k].id < n /\ undo[k].id \in Nat
        BY <1>3, <1>13, <3>1, FrameFacts DEF IInv, FramesOK
      <4>2. undo[k].fw # 0 => Undoes(undo[k].fw, undo[k].pre)
        BY <3>1 DEF IInv, FramesOK
      <4> QED BY <1>8, <4>1, <4>2 DEF Undoes
    <3>2. CASE k \notin DOMAIN undo
      <4>1. k = Len(undo) + 1 BY <1>13, <2>1, <3>2, FrameFacts DEF IInv
      <4> QED BY <1>10, <1>13, <4>1
    <3> QED BY <3>1, <3>2
  <2>2. ASSUME NEW j \in DOMAIN undo', NEW k \in DOMAIN undo', j < k
        PROVE  undo'[j].id < undo'[k].id
    <3>1. j \in DOMAIN undo BY <1>13, <2>2, FrameFacts DEF IInv
    <3>2. undo'[j].id = undo[j].id /\ undo[j].id < n
      BY <1>3, <1>13, <3>1 DEF IInv, FramesOK
    <3>3. CASE k \in DOMAIN undo
      BY <1>13, <2>2, <3>1, <3>3 DEF IInv, FramesOK
    <3>4. CASE k \notin DOMAIN undo
      <4>1. k = Len(undo) + 1 BY <1>13, <2>2, <3>4, FrameFacts DEF IInv
      <4> QED BY <1>10, <1>13, <3>2, <4>1
    <3> QED BY <3>3, <3>4
  <2> QED BY <1>14, <2>1, <2>2 DEF FramesOK
<1>20. HistoryOK'
  BY <1>8, <1>13 DEF IInv, HistoryOK, TipRecoverable, EventsOK, Undoes, VerdictBaseReplaced,
                     OnlyLateBytesLost
<1> QED BY <1>17, <1>18, <1>19, <1>20 DEF IInv

\* The rename hits what the guard read, or late bytes.
LEMMA MutateStep ==
  ASSUME IInv, TypeOK', NEW w \in Workers, mutate(w) PROVE IInv'
<1>1. PICK r \in Locals : r = wk[w] /\ WorkerOK(w, r) BY Mine
<1>2. UNCHANGED <<grant, proposals, events, undo, fresh, late>> /\ r.pc = "restatted"
  BY <1>1 DEF mutate
<1>3. CASE Refuse(w) /\ UNCHANGED <<file, lastWrite, lost>>
  BY <1>1, <1>2, <1>3, RefuseStep DEF Section, Guarded, Watching, Bystanders
<1>4. CASE ~(Refuse(w) /\ UNCHANGED <<file, lastWrite, lost>>)
  <2>1. PICK b, p : b = BytesOf(file) /\ p = IF r.undoOf = 0 THEN "mutated" ELSE "posted"
    OBVIOUS
  <2>2. PICK q : q = [r EXCEPT !.pc = p, !.replaced = b] OBVIOUS
  <2>3. wk' = [wk EXCEPT ![w] = q] /\ rename_lock' = rename_lock
    BY <1>1, <1>4, <2>1, <2>2 DEF mutate
  <2>4. /\ r.op = "create" => ~LinuxRename \/ file = Nil
        /\ lastWrite' = IF r.undoOf = 0 THEN [row |-> r.row, replaced |-> b] ELSE Nil
        /\ lost' = IF r.undoOf = 0 /\ file # Nil /\ file.bytes # r.pre
                   THEN lost \cup {file.bytes} ELSE lost
    BY <1>1, <1>4, <2>1 DEF mutate
  <2>5. wk \in [Workers -> Locals] BY DEF IInv, TypeOK
  <2>6. wk'[w] = q /\ \A v \in Workers \ {w} : wk'[v] = wk[v] BY <2>3, <2>5
  <2>7. /\ q.pc = p /\ q.pre = r.pre /\ q.undoOf = r.undoOf /\ q.row = r.row
        /\ q.new = r.new /\ q.op = r.op /\ q.base = r.base /\ q.granted = r.granted
        /\ q.replaced = b
    BY <2>2 DEF Locals
  <2>8. /\ rename_lock = w /\ r.granted /\ r.pre = r.base
        /\ b = r.pre \/ b \in late
        /\ InFlight(r) => OnTop(r)
    <3>1. /\ rename_lock = w /\ r.granted /\ r.pre = r.base /\ Tracks(r)
          /\ InFlight(r) => OnTop(r)
      BY <1>1, <1>2 DEF WorkerOK, InSection, Section, Guarded, Watching
    <3>2. r.op = "create" => r.base = Nil BY <1>1 DEF WorkerOK, Always
    <3> QED BY <1>2, <2>1, <2>4, <3>1, <3>2 DEF Tracks, BytesOf
  <2>9. Grown BY <1>2, SameGrown DEF IInv
  <2>10. WorkerOK(w, q)'
    <3>1. p \in Done /\ p \notin Watching /\ p # "appended" BY <2>1 DEF Done, Watching
    <3>2. InFlight(q) => OnTop(q)' /\ OnDisk(q)'
      BY <1>2, <2>4, <2>7, <2>8, <3>1 DEF InFlight, OnTop, OnDisk, Guarded, Watching
    <3>3. InSection(w, q)'
      BY <1>2, <2>1, <2>3, <2>7, <2>8, <3>1, <3>2
         DEF InSection, Section, Guarded, Done, InFlight
    <3>4. Undoing(q)'
      BY <1>1, <1>2, <2>4, <2>7 DEF Undoing, WorkerOK, Undoes
    <3>5. Always(q)' BY <1>1, <2>1, <2>7 DEF Always, WorkerOK, Forward, Behind
    <3> QED BY <3>3, <3>4, <3>5 DEF WorkerOK
  <2>11. WorkersOK'
    <3>1. \A v \in Workers \ {w} : \A s \in Locals :
            s = wk[v] /\ s.pc \in Behind /\ s.undoOf # 0 =>
              lastWrite' = lastWrite \/ lastWrite' = Nil \/ lastWrite'.row # s.row
      <4>1. \A v \in Workers : Apart(wk[v], wk[w]) BY DEF IInv, AllApart
      <4>2. r.undoOf = 0 => InFlight(r) BY <1>2 DEF InFlight, Guarded, Watching
      <4> QED BY <1>1, <2>4, <4>1, <4>2 DEF Apart
    <3>2. \A v \in Workers \ {w} : \A s \in Locals : s = wk[v] => WorkerOK(v, s)'
      BY <2>8, <2>9, <3>1, OthersOutside
    <3> QED BY <2>6, <2>10, <3>2, Collect DEF IInv
  <2>12. AllApart'
    BY <1>1, <1>2, <2>6, <2>7, StaysApart DEF IInv, InFlight, Guarded, Watching
  <2>13. FramesOK' BY <1>2 DEF IInv, FramesOK, Undoes
  <2>14. HistoryOK'
    <3>1. TipRecoverable'
      <4>1. CASE r.undoOf # 0 BY <2>4, <4>1 DEF TipRecoverable
      <4>2. CASE r.undoOf = 0
        <5>1. OnTop(r) BY <1>2, <2>8, <4>2 DEF InFlight, Guarded, Watching
        <5>2. Len(undo) \in DOMAIN undo
          BY <5>1, FrameFacts, EmptySeq, LenProperties DEF OnTop, IInv, TypeOK
        <5>3. lastWrite' = [row |-> r.row, replaced |-> b] BY <2>4, <4>2
        <5> QED BY <1>2, <2>8, <5>1, <5>2, <5>3 DEF TipRecoverable, OnTop
      <4> QED BY <4>1, <4>2
    <3>2. OnlyLateBytesLost'
      BY <1>2, <2>1, <2>4, <2>8 DEF IInv, HistoryOK, OnlyLateBytesLost, BytesOf
    <3> QED BY <1>2, <3>1, <3>2 DEF IInv, HistoryOK, EventsOK, Undoes, VerdictBaseReplaced
  <2> QED BY <2>11, <2>12, <2>13, <2>14 DEF IInv
<1> QED BY <1>3, <1>4

LEMMA EventFacts ==
  ASSUME TypeOK
  PROVE  Len(events) \in Nat /\ DOMAIN events = 1 .. Len(events)
BY LenProperties DEF TypeOK

LEMMA AppendStep ==
  ASSUME IInv, TypeOK', NEW w \in Workers, append_file_written(w) PROVE IInv'
<1>1. PICK r \in Locals : r = wk[w] /\ WorkerOK(w, r) BY Mine
<1>2. UNCHANGED <<file, grant, proposals, undo, fresh, lastWrite, late, lost>> /\ r.pc = "posted"
  BY <1>1 DEF append_file_written
<1>3. PICK e : e = [resolves |-> r.pid, undo_of |-> r.undoOf, bytes |-> r.new,
                    base |-> r.base, replaced |-> r.replaced]
  OBVIOUS
<1>4. events' = Append(events, e) /\ e \in Events
  BY <1>1, <1>3 DEF append_file_written, Events, Locals
<1>5. PICK n \in Nat : n = Len(events) BY EventFacts DEF IInv
<1>6. /\ DOMAIN events' = 1 .. (n + 1) /\ Len(events') = n + 1
      /\ \A k \in 1 .. n : events'[k] = events[k]
      /\ events'[n + 1] = e
      /\ DOMAIN events = 1 .. n
  <2>1. events \in Seq(Events) BY DEF IInv, TypeOK
  <2> QED BY <1>4, <1>5, <2>1, AppendProperties, LenProperties
<1>7. Grown
  <2>1. \A k \in DOMAIN events : k \in DOMAIN events' /\ events'[k] = events[k] BY <1>6
  <2> QED BY <1>2, <2>1, RowsAreNumbers DEF IInv, Grown
<1>8. PICK q : q = IF r.undoOf = 0 THEN [r EXCEPT !.pc = "appended", !.fw = n + 1]
                   ELSE [r EXCEPT !.pc = "undone"]
  OBVIOUS
<1>9. /\ wk' = [wk EXCEPT ![w] = q]
      /\ rename_lock' = IF r.undoOf = 0 THEN rename_lock ELSE Nil
  <2>1. CASE r.undoOf = 0 BY <1>1, <1>6, <1>8, <2>1 DEF append_file_written
  <2>2. CASE r.undoOf # 0
    <3>1. wk' = [wk EXCEPT ![w].pc = "undone"] /\ rename_lock' = Nil
      BY <1>1, <2>2 DEF append_file_written
    <3> QED BY <1>1, <1>8, <2>2, <3>1
  <2> QED BY <2>1, <2>2
<1>10. wk \in [Workers -> Locals] BY DEF IInv, TypeOK
<1>11. wk'[w] = q /\ \A v \in Workers \ {w} : wk'[v] = wk[v] BY <1>9, <1>10
<1>12. /\ q.pc = (IF r.undoOf = 0 THEN "appended" ELSE "undone")
       /\ q.pre = r.pre /\ q.undoOf = r.undoOf /\ q.row = r.row
       /\ q.new = r.new /\ q.op = r.op /\ q.base = r.base /\ q.granted = r.granted
       /\ q.replaced = r.replaced
       /\ r.undoOf = 0 => q.fw = n + 1
  BY <1>8 DEF Locals
<1>13. /\ rename_lock = w /\ r.granted /\ r.pre = r.base
       /\ r.replaced = r.base \/ r.replaced \in late
       /\ r.undoOf = 0 => OnTop(r) /\ OnDisk(r)
  BY <1>1, <1>2 DEF WorkerOK, InSection, InFlight, Section, Guarded, Done
<1>14. Undoing(r)'
  <2>1. Undoing(r) BY <1>1 DEF WorkerOK
  <2> QED BY <1>2, <1>7, <2>1, UndoingStays DEF IInv
<1>15. WorkerOK(w, q)'
  <2>1. Undoing(q)' BY <1>2, <1>12, <1>14 DEF Undoing, Undoes, Behind
  <2>2. Always(q)' BY <1>1, <1>12 DEF Always, WorkerOK, Forward, Behind
  <2>3. CASE r.undoOf = 0
    <3>1. OnTop(q)' /\ OnDisk(q)' BY <1>2, <1>12, <1>13, <2>3 DEF OnTop, OnDisk
    <3>2. q.fw \in DOMAIN events' /\ events'[q.fw].replaced = q.replaced
      BY <1>3, <1>6, <1>12, <2>3
    <3>3. InSection(w, q)'
      BY <1>2, <1>9, <1>12, <1>13, <2>3, <3>1, <3>2 DEF InSection, Guarded, Watching, Done
    <3> QED BY <2>1, <2>2, <3>3 DEF WorkerOK
  <2>4. CASE r.undoOf # 0
    <3>1. q.pc \notin Section /\ q.pc # "appended" BY <1>12, <2>4, NotBusy
    <3>2. InSection(w, q)' BY <3>1 DEF InSection, InFlight, Section, Guarded, Watching, Done
    <3> QED BY <2>1, <2>2, <3>2 DEF WorkerOK
  <2> QED BY <2>3, <2>4
<1>16. WorkersOK'
  <2>1. \A v \in Workers \ {w} : \A s \in Locals : s = wk[v] => WorkerOK(v, s)'
    BY <1>2, <1>7, <1>13, OthersOutside
  <2> QED BY <1>11, <1>15, <2>1, Collect DEF IInv
<1>17. AllApart'
  BY <1>1, <1>2, <1>11, <1>12, StaysApart DEF IInv, InFlight, Guarded, Done, Watching
<1>18. FramesOK'
  <2>1. ASSUME NEW k \in DOMAIN undo, undo[k].fw # 0 PROVE Undoes(undo[k].fw, undo[k].pre)'
    <3>1. PICK f, b : f = undo[k].fw /\ b = undo[k].pre OBVIOUS
    <3>2. Undoes(f, b)' BY <1>7, <2>1, <3>1, UndoesStays DEF IInv, FramesOK
    <3> QED BY <1>2, <3>1, <3>2 DEF Undoes
  <2> QED BY <1>2, <2>1 DEF IInv, FramesOK
<1>19. HistoryOK'
  <2>1. ASSUME NEW k \in 1 .. (n + 1), events'[k].undo_of # 0
        PROVE  Undoes(events[k].undo_of, events[k].bytes)'
    <3>1. CASE k \in 1 .. n
      <4>1. PICK f, b : f = events[k].undo_of /\ b = events[k].bytes OBVIOUS
      <4>2. Undoes(f, b)'
        BY <1>6, <1>7, <2>1, <3>1, <4>1, UndoesStays DEF IInv, HistoryOK, EventsOK
      <4> QED BY <1>6, <3>1, <4>1, <4>2 DEF Undoes
    <3>2. CASE k = n + 1
      <4>1. r.undoOf # 0 BY <1>3, <1>6, <2>1, <3>2
      <4>2. Undoes(r.undoOf, r.new)' BY <1>14, <4>1 DEF Undoing
      <4> QED BY <1>3, <1>6, <3>2, <4>2 DEF Undoes
    <3> QED BY <3>1, <3>2
  <2>2. EventsOK' BY <1>6, <2>1 DEF EventsOK
  <2>3. VerdictBaseReplaced'
    <3>1. \A k \in 1 .. (n + 1) : k \in 1 .. n \/ k = n + 1 OBVIOUS
    <3> QED BY <1>2, <1>3, <1>6, <1>13, <3>1 DEF IInv, HistoryOK, VerdictBaseReplaced
  <2> QED BY <1>2, <2>2, <2>3 DEF IInv, HistoryOK, TipRecoverable, OnlyLateBytesLost
<1> QED BY <1>16, <1>17, <1>18, <1>19 DEF IInv

\* The frame in flight is the newest: it is bound, and the others may go.
LEMMA BindStep ==
  ASSUME IInv, TypeOK', NEW w \in Workers, bind_and_gc_undo(w) PROVE IInv'
<1>1. PICK r \in Locals : r = wk[w] /\ WorkerOK(w, r) BY Mine
<1>2. /\ UNCHANGED <<file, grant, proposals, events, fresh, lastWrite, late, lost>>
      /\ r.pc = "appended" /\ Return(w) /\ rename_lock' = Nil
  BY <1>1 DEF bind_and_gc_undo, Refuse
<1>3. r.undoOf = 0 BY <1>1, <1>2 DEF WorkerOK, Always, Forward
<1>4. /\ rename_lock = w /\ r.pre = r.base
      /\ r.replaced = r.base \/ r.replaced \in late
      /\ OnTop(r) /\ OnDisk(r)
      /\ r.fw \in DOMAIN events /\ events[r.fw].replaced = r.replaced
  BY <1>1, <1>2, <1>3 DEF WorkerOK, InSection, InFlight, Section, Guarded, Done
<1>5. Undoes(r.fw, r.pre) BY <1>4 DEF Undoes
<1>6. PICK n \in Nat : n = Len(undo) /\ DOMAIN undo = 1 .. n /\ n \in 1 .. n
  BY <1>4, FrameFacts, EmptySeq, LenProperties DEF OnTop, IInv, TypeOK
<1>7. PICK B \in Seq(Frames) : B = Bound(w) /\ Len(B) = n /\ DOMAIN B = 1 .. n
  BY <1>6, BoundIsSeq, LenProperties DEF IInv
<1>8. \A k \in 1 .. n :
        /\ B[k] \in Frames /\ B[k].id = undo[k].id /\ B[k].pre = undo[k].pre
        /\ B[k].fw = IF undo[k].id = r.row THEN r.fw ELSE undo[k].fw
  <2>1. \A k \in 1 .. n : undo[k] \in Frames BY <1>6, FrameFacts DEF IInv
  <2>2. \A k \in 1 .. n : B[k] \in Frames BY <1>7, ElementOfSeq
  <2>3. \A k \in 1 .. n : B[k] = IF undo[k].id = r.row
                                THEN [undo[k] EXCEPT !.fw = r.fw, !.post = r.post] ELSE undo[k]
    BY <1>1, <1>6, <1>7 DEF Bound
  <2> SUFFICES ASSUME NEW k \in 1 .. n
               PROVE  /\ B[k].id = undo[k].id /\ B[k].pre = undo[k].pre
                      /\ B[k].fw = IF undo[k].id = r.row THEN r.fw ELSE undo[k].fw
    BY <2>2
  <2>4. PICK f \in Frames : f = undo[k] BY <2>1
  <2>5. B[k] = IF f.id = r.row THEN [f EXCEPT !.fw = r.fw, !.post = r.post] ELSE f BY <2>3, <2>4
  <2>6. r.fw \in Nat /\ r.post \in Idents BY DEF Locals
  <2>7. CASE f.id = r.row
    <3>1. B[k] = [f EXCEPT !.fw = r.fw, !.post = r.post] BY <2>5, <2>7
    <3>2. B[k].id = f.id /\ B[k].pre = f.pre /\ B[k].fw = r.fw BY <3>1 DEF Frames
    <3> QED BY <2>4, <2>7, <3>2
  <2>8. CASE f.id # r.row BY <2>4, <2>5, <2>8
  <2> QED BY <2>7, <2>8
<1>9. \A k \in 1 .. n :
        /\ B[k].id < fresh.row
        /\ B[k].fw # 0 => Undoes(B[k].fw, B[k].pre)
  <2> SUFFICES ASSUME NEW k \in 1 .. n
               PROVE  /\ B[k].id < fresh.row
                      /\ B[k].fw # 0 => Undoes(B[k].fw, B[k].pre)
    OBVIOUS
  <2>1. B[k].id < fresh.row BY <1>6, <1>8 DEF IInv, FramesOK
  <2>2. CASE undo[k].id # r.row BY <1>6, <1>8, <2>1, <2>2 DEF IInv, FramesOK
  <2>3. CASE undo[k].id = r.row
    <3>1. ~(k < n)
      <4>1. undo[k].id \in Nat /\ undo[n].id = undo[k].id
        BY <1>4, <1>6, <2>3, FrameFacts DEF OnTop, IInv
      <4>2. k < n => undo[k].id < undo[n].id BY <1>6 DEF IInv, FramesOK
      <4> QED BY <4>1, <4>2
    <3>2. k = n BY <3>1
    <3>3. B[k].pre = r.pre /\ B[k].fw = r.fw BY <1>4, <1>6, <1>8, <2>3, <3>2 DEF OnTop
    <3> QED BY <1>5, <2>1, <3>3
  <2> QED BY <2>2, <2>3
<1>10. PICK d \in Nat :
         /\ d < n /\ Len(undo') = n - d /\ DOMAIN undo' = 1 .. (n - d)
         /\ \A k \in 1 .. (n - d) : undo'[k] = B[k + d]
  <2>1. CASE n <= UNDO_DEPTH
    <3>1. undo' = B BY <1>6, <1>7, <2>1 DEF bind_and_gc_undo
    <3>2. 0 \in Nat /\ 0 < n /\ n - 0 = n /\ \A k \in 1 .. n : k + 0 = k BY <1>6
    <3>3. Len(undo') = n /\ DOMAIN undo' = 1 .. n /\ \A k \in 1 .. n : undo'[k] = B[k]
      BY <1>7, <3>1
    <3>4. /\ Len(undo') = n - 0 /\ DOMAIN undo' = 1 .. (n - 0)
          /\ \A k \in 1 .. (n - 0) : undo'[k] = B[k + 0]
      BY <3>2, <3>3
    <3> QED BY <3>2, <3>4
  <2>2. CASE ~(n <= UNDO_DEPTH)
    <3>1. UNDO_DEPTH \in Nat /\ UNDO_DEPTH # 0 BY DepthAssumption
    <3>2. PICK d \in Nat : d = n - UNDO_DEPTH /\ d < n BY <2>2, <3>1
    <3>3. undo' = SubSeq(B, d + 1, n)
      BY <1>6, <1>7, <2>2, <3>2 DEF bind_and_gc_undo
    <3>4. \A k \in (d + 1) .. n : B[k] \in Frames BY <1>8, <3>2
    <3>5. /\ SubSeq(B, d + 1, n) \in Seq(Frames)
          /\ Len(SubSeq(B, d + 1, n)) = n - d
          /\ \A k \in 1 .. (n - d) : SubSeq(B, d + 1, n)[k] = B[k + d]
      <4>1. d + 1 \in Int /\ n \in Int /\ d + 1 <= n /\ n - (d + 1) + 1 = n - d BY <3>2
      <4>2. /\ SubSeq(B, d + 1, n) \in Seq(Frames)
            /\ Len(SubSeq(B, d + 1, n)) = n - (d + 1) + 1
            /\ \A k \in 1 .. (n - (d + 1) + 1) : SubSeq(B, d + 1, n)[k] = B[(d + 1) + k - 1]
        BY <3>4, <4>1, SubSeqProperties
      <4>3. \A k \in 1 .. (n - d) : (d + 1) + k - 1 = k + d BY <3>2
      <4> QED BY <4>1, <4>2, <4>3
    <3> QED BY <3>2, <3>3, <3>5, LenProperties
  <2> QED BY <2>1, <2>2
<1>11. \A k \in 1 .. (n - d) : k + d \in 1 .. n BY <1>10
<1>12. FramesOK'
  <2>1. ASSUME NEW k \in 1 .. (n - d)
        PROVE  /\ undo'[k].id < fresh'.row
               /\ undo'[k].fw # 0 => Undoes(undo[k].fw, undo[k].pre)'
    <3>1. PICK m \in 1 .. n : m = k + d BY <1>11
    <3>2. undo'[k] = B[m] BY <1>10, <3>1
    <3> QED BY <1>2, <1>9, <3>2 DEF Undoes
  <2>2. ASSUME NEW j \in 1 .. (n - d), NEW k \in 1 .. (n - d), j < k
        PROVE  undo'[j].id < undo'[k].id
    <3>1. j + d \in 1 .. n /\ k + d \in 1 .. n /\ j + d < k + d BY <1>11, <2>2, <1>10
    <3>2. undo[j + d].id < undo[k + d].id BY <1>6, <3>1 DEF IInv, FramesOK
    <3> QED BY <1>8, <1>10, <3>1, <3>2
  <2> QED BY <1>10, <2>1, <2>2 DEF FramesOK
<1>13. HistoryOK'
  <2>1. TipRecoverable'
    <3>1. n - d \in 1 .. (n - d) /\ (n - d) + d = n BY <1>10
    <3>2. undo'[n - d].id = r.row /\ undo'[n - d].pre = r.pre
      BY <1>4, <1>6, <1>8, <1>10, <3>1 DEF OnTop
    <3> QED BY <1>2, <1>4, <1>10, <3>1, <3>2 DEF TipRecoverable, OnDisk
  <2> QED BY <1>2, <2>1 DEF IInv, HistoryOK, EventsOK, Undoes, VerdictBaseReplaced,
                            OnlyLateBytesLost
<1>14. wk \in [Workers -> Locals] BY DEF IInv, TypeOK
<1>15. wk'[w] = IdleWorker /\ \A v \in Workers \ {w} : wk'[v] = wk[v]
  BY <1>2, <1>14 DEF Return
<1>16. Grown BY <1>2, SameGrown DEF IInv
<1>17. WorkersOK'
  <2>1. \A v \in Workers \ {w} : \A s \in Locals : s = wk[v] => WorkerOK(v, s)'
    BY <1>2, <1>4, <1>16, OthersOutside
  <2> QED BY <1>15, <2>1, IdleOK, Collect DEF IInv
<1>18. AllApart'
  BY <1>15, StaysApart DEF IInv, IdleWorker, Guarded, Watching, Done
<1> QED BY <1>12, <1>13, <1>17, <1>18 DEF IInv

-----------------------------------------------------------------------------
(* The pop, outside the lock *)

\* One row goes; the others keep their order.
LEMMA WithoutFacts ==
  ASSUME IInv, NEW id, NEW rest, rest = Without(id)
  PROVE  /\ rest \in Seq(Frames)
         /\ \A j \in DOMAIN rest : \E k \in DOMAIN undo : rest[j] = undo[k]
         /\ \A k \in DOMAIN undo : undo[k].id # id => \E j \in DOMAIN rest : rest[j] = undo[k]
         /\ \A i, j \in DOMAIN rest : i < j => rest[i].id < rest[j].id
         /\ undo # << >> /\ undo[Len(undo)].id # id =>
              rest # << >> /\ rest[Len(rest)] = undo[Len(undo)]
<1> DEFINE rows == {k \in DOMAIN undo : undo[k].id = id}
<1>1. rest \in Seq(Frames) BY WithoutIsSeq DEF IInv
<1>2. PICK n \in Nat : n = Len(undo) /\ DOMAIN undo = 1 .. n BY FrameFacts DEF IInv
<1>3. CASE rows = {} BY <1>1, <1>2, <1>3, EmptySeq, LenProperties DEF Without, IInv, FramesOK, TypeOK
<1>4. CASE rows # {}
  <2>1. PICK k \in 1 .. n : k \in rows /\ rest = SubSeq(undo, 1, k - 1) \o SubSeq(undo, k + 1, n)
    BY <1>2, <1>4 DEF Without
  <2>2. \A i \in 1 .. n : undo[i] \in Frames BY <1>2, FrameFacts DEF IInv
  <2>3. PICK A : A = SubSeq(undo, 1, k - 1) OBVIOUS
  <2>4. PICK C : C = SubSeq(undo, k + 1, n) OBVIOUS
  <2>5. A \in Seq(Frames) /\ Len(A) = k - 1 /\ \A i \in 1 .. (k - 1) : A[i] = undo[i]
    <3>1. 1 \in Int /\ k - 1 \in Int /\ \A i \in 1 .. (k - 1) : undo[i] \in Frames BY <2>2
    <3>2. /\ SubSeq(undo, 1, k - 1) \in Seq(Frames)
          /\ Len(SubSeq(undo, 1, k - 1)) = IF 1 <= k - 1 THEN k - 1 - 1 + 1 ELSE 0
          /\ \A i \in 1 .. (k - 1 - 1 + 1) : SubSeq(undo, 1, k - 1)[i] = undo[1 + i - 1]
      BY <3>1, SubSeqProperties
    <3>3. \A i \in 1 .. (k - 1) : 1 + i - 1 = i OBVIOUS
    <3> QED BY <2>3, <3>2, <3>3
  <2>6. C \in Seq(Frames) /\ Len(C) = n - k /\ \A i \in 1 .. (n - k) : C[i] = undo[k + i]
    <3>1. k + 1 \in Int /\ n \in Int /\ \A i \in (k + 1) .. n : undo[i] \in Frames BY <2>2
    <3>2. /\ SubSeq(undo, k + 1, n) \in Seq(Frames)
          /\ Len(SubSeq(undo, k + 1, n)) = IF k + 1 <= n THEN n - (k + 1) + 1 ELSE 0
          /\ \A i \in 1 .. (n - (k + 1) + 1) : SubSeq(undo, k + 1, n)[i] = undo[(k + 1) + i - 1]
      BY <3>1, SubSeqProperties
    <3>3. \A i \in 1 .. (n - k) : (k + 1) + i - 1 = k + i OBVIOUS
    <3> QED BY <2>4, <3>2, <3>3
  <2>7. Len(rest) = n - 1 /\ DOMAIN rest = 1 .. (n - 1)
    BY <1>1, <2>1, <2>3, <2>4, <2>5, <2>6, ConcatProperties, LenProperties
  <2>8. \A j \in 1 .. (n - 1) : rest[j] = IF j < k THEN undo[j] ELSE undo[j + 1]
    <3> SUFFICES ASSUME NEW j \in 1 .. (n - 1)
                 PROVE rest[j] = IF j < k THEN undo[j] ELSE undo[j + 1]
      OBVIOUS
    <3>1. rest[j] = IF j <= k - 1 THEN A[j] ELSE C[j - (k - 1)]
      <4>1. rest = A \o C BY <2>1, <2>3, <2>4
      <4>2. Len(A) = k - 1 /\ Len(C) = n - k /\ j \in 1 .. (Len(A) + Len(C)) BY <2>5, <2>6
      <4>3. (A \o C)[j] = IF j <= Len(A) THEN A[j] ELSE C[j - Len(A)]
        BY <2>5, <2>6, <4>2, ConcatProperties
      <4> QED BY <4>1, <4>2, <4>3
    <3>2. CASE j < k BY <2>5, <3>1, <3>2
    <3>3. CASE ~(j < k)
      <4>1. j - (k - 1) \in 1 .. (n - k) /\ k + (j - (k - 1)) = j + 1 BY <3>3
      <4> QED BY <2>6, <3>1, <3>3, <4>1
    <3> QED BY <3>2, <3>3
  <2>9. \A i, j \in 1 .. n : i < j => undo[i].id < undo[j].id BY <1>2 DEF IInv, FramesOK
  <2>10. \A j \in DOMAIN rest : \E m \in DOMAIN undo : rest[j] = undo[m]
    <3> SUFFICES ASSUME NEW j \in 1 .. (n - 1) PROVE \E m \in 1 .. n : rest[j] = undo[m]
      BY <1>2, <2>7
    <3>1. j \in 1 .. n /\ j + 1 \in 1 .. n OBVIOUS
    <3> QED BY <2>8, <3>1
  <2>11. ASSUME NEW m \in 1 .. n, undo[m].id # id PROVE \E j \in DOMAIN rest : rest[j] = undo[m]
    <3>1. m # k BY <2>1, <2>11
    <3>2. CASE m < k
      <4>1. m \in 1 .. (n - 1) BY <3>2
      <4> QED BY <2>7, <2>8, <3>2, <4>1
    <3>3. CASE k < m
      <4>1. m - 1 \in 1 .. (n - 1) /\ ~(m - 1 < k) /\ (m - 1) + 1 = m BY <3>3
      <4> QED BY <2>7, <2>8, <4>1
    <3> QED BY <3>1, <3>2, <3>3
  <2>12. ASSUME NEW i \in 1 .. (n - 1), NEW j \in 1 .. (n - 1), i < j
         PROVE  rest[i].id < rest[j].id
    <3>1. PICK a \in 1 .. n : a = (IF i < k THEN i ELSE i + 1) OBVIOUS
    <3>2. PICK b \in 1 .. n : b = (IF j < k THEN j ELSE j + 1) OBVIOUS
    <3>3. a < b BY <2>12, <3>1, <3>2
    <3>4. rest[i] = undo[a] /\ rest[j] = undo[b] BY <2>8, <3>1, <3>2
    <3> QED BY <2>9, <3>3, <3>4
  <2>13. undo[n].id # id => rest # << >> /\ rest[Len(rest)] = undo[n]
    <3> SUFFICES ASSUME undo[n].id # id PROVE rest # << >> /\ rest[Len(rest)] = undo[n] OBVIOUS
    <3>1. k # n BY <2>1
    <3>2. n - 1 \in 1 .. (n - 1) /\ ~(n - 1 < k) /\ (n - 1) + 1 = n BY <3>1
    <3> QED BY <2>7, <2>8, <3>2, EmptySeq, LenProperties
  <2> QED BY <1>1, <1>2, <2>7, <2>10, <2>11, <2>12, <2>13
<1> QED BY <1>3, <1>4

LEMMA PopStep ==
  ASSUME IInv, TypeOK', NEW w \in Workers, pop_and_handoff_undo(w) PROVE IInv'
<1>1. PICK r \in Locals : r = wk[w] /\ WorkerOK(w, r) BY Mine
<1>2. /\ UNCHANGED <<file, grant, proposals, events, rename_lock, fresh, lastWrite, late, lost>>
      /\ r.pc = "popping" /\ Return(w)
  BY <1>1 DEF pop_and_handoff_undo
<1>3. r.undoOf # 0 /\ (lastWrite = Nil \/ lastWrite.row # r.row)
  BY <1>1, <1>2 DEF WorkerOK, Always, Undoing, Behind
<1>4. PICK rest : rest = Without(r.row) OBVIOUS
<1>5. undo' = IF rest = << >> THEN rest ELSE [rest EXCEPT ![Len(rest)].post = r.post]
  BY <1>1, <1>4 DEF pop_and_handoff_undo
<1>6. rest \in Seq(Frames) BY <1>4, WithoutFacts
<1>7. /\ DOMAIN undo' = DOMAIN rest /\ Len(undo') = Len(rest)
      /\ rest # << >> => undo' # << >>
      /\ \A j \in DOMAIN rest : undo'[j].id = rest[j].id /\ undo'[j].fw = rest[j].fw
                                /\ undo'[j].pre = rest[j].pre
  <2>1. CASE rest = << >> BY <1>5, <2>1
  <2>2. CASE rest # << >>
    <3>1. Len(rest) \in 1 .. Len(rest) /\ DOMAIN rest = 1 .. Len(rest)
      BY <1>6, <2>2, EmptySeq, LenProperties
    <3>2. PICK f \in Frames : f = rest[Len(rest)] BY <1>6, <3>1, ElementOfSeq
    <3>3. PICK g : g = [f EXCEPT !.post = r.post] OBVIOUS
    <3>4. g \in Frames /\ g.id = f.id /\ g.fw = f.fw /\ g.pre = f.pre
      BY <3>3 DEF Frames, Locals
    <3>5. undo' = [rest EXCEPT ![Len(rest)] = g] BY <1>5, <2>2, <3>2, <3>3
    <3>6. /\ undo' \in Seq(Frames) /\ Len(undo') = Len(rest)
          /\ \A j \in 1 .. Len(rest) : undo'[j] = IF j = Len(rest) THEN g ELSE rest[j]
      BY <1>6, <3>1, <3>4, <3>5, ExceptSeq
    <3>7. undo' # << >> /\ DOMAIN undo' = 1 .. Len(rest)
      <4>1. PICK u \in Seq(Frames) : u = undo' /\ Len(u) = Len(rest) BY <3>6
      <4>2. PICK n \in Nat : n = Len(rest) /\ n \in 1 .. n BY <1>6, <3>1, LenProperties
      <4>3. DOMAIN u = 1 .. Len(u) BY LenProperties
      <4>4. u # << >> BY <4>1, <4>2, EmptySeq
      <4> QED BY <4>1, <4>3, <4>4
    <3>8. \A j \in DOMAIN rest : undo'[j].id = rest[j].id /\ undo'[j].fw = rest[j].fw
                               /\ undo'[j].pre = rest[j].pre
      BY <3>1, <3>2, <3>4, <3>6
    <3> QED BY <3>1, <3>6, <3>7, <3>8
  <2> QED BY <2>1, <2>2
<1>8. Grown BY <1>2, SameGrown DEF IInv
<1>9. \A v \in Workers \ {w} : \A s \in Locals :
        s = wk[v] /\ InFlight(s) /\ OnTop(s) => OnTop(s)'
  <2> SUFFICES ASSUME NEW v \in Workers \ {w}, NEW s \in Locals, s = wk[v], InFlight(s), OnTop(s)
               PROVE OnTop(s)'
    OBVIOUS
  <2>1. s.row # r.row
    <3>1. Apart(wk[w], wk[v]) BY DEF IInv, AllApart
    <3> QED BY <1>1, <1>3, <3>1 DEF Apart, InFlight
  <2>2. undo # << >> /\ undo[Len(undo)].id # r.row BY <2>1 DEF OnTop
  <2>3. rest # << >> /\ rest[Len(rest)] = undo[Len(undo)] BY <1>4, <2>2, WithoutFacts
  <2>4. Len(rest) \in DOMAIN rest BY <1>6, <2>3, EmptySeq, LenProperties
  <2> QED BY <1>7, <2>3, <2>4 DEF OnTop
<1>10. wk \in [Workers -> Locals] BY DEF IInv, TypeOK
<1>11. wk'[w] = IdleWorker /\ \A v \in Workers \ {w} : wk'[v] = wk[v] BY <1>2, <1>10 DEF Return
<1>12. WorkersOK'
  <2>1. \A v \in Workers \ {w} : \A s \in Locals : s = wk[v] => WorkerOK(v, s)'
    BY <1>2, <1>8, <1>9, OthersKeep
  <2> QED BY <1>11, <2>1, IdleOK, Collect DEF IInv
<1>13. AllApart'
  BY <1>11, StaysApart DEF IInv, IdleWorker, Guarded, Watching, Done
<1>14. FramesOK'
  <2>1. ASSUME NEW j \in DOMAIN rest
        PROVE  /\ undo'[j].id < fresh'.row
               /\ undo'[j].fw # 0 => Undoes(undo[j].fw, undo[j].pre)'
    <3>1. PICK k \in DOMAIN undo : rest[j] = undo[k] BY <1>4, WithoutFacts
    <3>2. undo[k].id < fresh.row /\ (undo[k].fw # 0 => Undoes(undo[k].fw, undo[k].pre))
      BY DEF IInv, FramesOK
    <3> QED BY <1>2, <1>7, <3>1, <3>2 DEF Undoes
  <2>2. \A i, j \in DOMAIN rest : i < j => undo'[i].id < undo'[j].id
    BY <1>4, <1>7, WithoutFacts
  <2> QED BY <1>7, <2>1, <2>2 DEF FramesOK
<1>15. HistoryOK'
  <2>1. TipRecoverable'
    <3> SUFFICES ASSUME lastWrite # Nil
                 PROVE \E j \in DOMAIN undo' :
                         /\ undo'[j].id = lastWrite.row
                         /\ undo'[j].pre = lastWrite.replaced \/ lastWrite.replaced \in late
      BY <1>2 DEF TipRecoverable
    <3>1. PICK k \in DOMAIN undo :
            /\ undo[k].id = lastWrite.row
            /\ undo[k].pre = lastWrite.replaced \/ lastWrite.replaced \in late
      BY DEF IInv, HistoryOK, TipRecoverable
    <3>2. undo[k].id # r.row BY <1>3, <3>1
    <3>3. PICK j \in DOMAIN rest : rest[j] = undo[k] BY <1>4, <3>2, WithoutFacts
    <3> QED BY <1>7, <3>1, <3>3
  <2> QED BY <1>2, <2>1 DEF IInv, HistoryOK, EventsOK, Undoes, VerdictBaseReplaced,
                            OnlyLateBytesLost
<1> QED BY <1>12, <1>13, <1>14, <1>15 DEF IInv

-----------------------------------------------------------------------------
(* The other programs, and the invariant *)

LEMMA AllKeep ==
  ASSUME IInv, TypeOK', wk' = wk, Grown, UNCHANGED <<grant, undo, events, rename_lock, lost>>,
         \A v \in Workers : wk[v].pc \in Watching => file' = file \/ BytesOf(file)' \in late',
         lastWrite' = lastWrite \/ lastWrite' = Nil
  PROVE  IInv'
<1>1. WorkersOK'
  <2> SUFFICES ASSUME NEW v \in Workers PROVE WorkerOK(v, wk[v])' BY DEF WorkersOK
  <2>1. PICK s \in Locals : s = wk[v] /\ WorkerOK(v, s) BY Mine
  <2>2. InFlight(s) /\ OnTop(s) => OnTop(s)' BY DEF OnTop
  <2>3. WorkerOK(v, s)' BY <2>1, <2>2, InsideKeeps DEF IInv
  <2> QED BY <2>1, <2>3 DEF WorkerOK, InSection, Undoing, Always, Tracks, InFlight, OnTop,
                            OnDisk, Undoes
<1>2. AllApart' BY DEF IInv, AllApart, Apart, InFlight
<1>3. FramesOK' /\ HistoryOK' BY Quiet
<1> QED BY <1>1, <1>2, <1>3 DEF IInv

LEMMA ForeignStep ==
  ASSUME IInv, TypeOK', foreign_write \/ foreign_delete PROVE IInv'
<1>1. PICK f : Foreign(f) BY DEF foreign_write, foreign_delete
<1>2. /\ file' = f /\ lastWrite' = Nil
      /\ late' = IF \E w \in Workers : wk[w].pc \in Watching THEN late \cup {BytesOf(f)} ELSE late
      /\ UNCHANGED <<grant, proposals, events, undo, rename_lock, wk, lost>>
  BY <1>1 DEF Foreign, Watching
<1>3. BytesOf(file)' = BytesOf(f) BY <1>2 DEF BytesOf
<1>4. fresh'.row = fresh.row /\ fresh.row \in Nat
  <2>1. fresh \in [bytes : Nat, row : Nat \ {0}, env : Nat] BY DEF IInv, TypeOK
  <2>2. CASE foreign_delete
    <3>1. fresh' = [fresh EXCEPT !.env = fresh.env + 1] BY <2>2 DEF foreign_delete
    <3> QED BY <2>1, <3>1
  <2>3. CASE foreign_write
    <3>1. PICK a, b : fresh' = [fresh EXCEPT !.bytes = a, !.env = b]
      BY <2>3 DEF foreign_write
    <3> QED BY <2>1, <3>1
  <2> QED BY <2>2, <2>3
<1>5. Grown BY <1>2, <1>4 DEF Grown
<1> QED BY <1>2, <1>3, <1>5, AllKeep

\* A worker that has seen the grant keeps that; one in the section sees a new one.
LEMMA SetGrantStep ==
  ASSUME IInv, TypeOK', SetGrant PROVE IInv'
<1>1. /\ grant' = ~grant
      /\ wk' = [w \in Workers |-> [wk[w] EXCEPT !.granted =
                    wk[w].granted \/ (rename_lock = w /\ ~grant)]]
      /\ UNCHANGED <<file, proposals, events, undo, rename_lock, lastWrite, late, lost>>
  BY DEF SetGrant
<1>2. fresh'.row = fresh.row
  <2>1. fresh' = [fresh EXCEPT !.env = fresh.env + 1] BY DEF SetGrant
  <2> QED BY <2>1 DEF IInv, TypeOK
<1>3. Grown BY <1>1, <1>2, RowsAreNumbers DEF Grown, IInv
<1>4. \A v \in Workers : \E s, q \in Locals :
        /\ s = wk[v] /\ q = wk'[v] /\ WorkerOK(v, s)
        /\ q = [s EXCEPT !.granted = q.granted]
        /\ s.granted => q.granted
        /\ grant' /\ rename_lock = v => q.granted
  <2> SUFFICES ASSUME NEW v \in Workers
               PROVE  \E s, q \in Locals :
                        /\ s = wk[v] /\ q = wk'[v] /\ WorkerOK(v, s)
                        /\ q = [s EXCEPT !.granted = q.granted]
                        /\ s.granted => q.granted
                        /\ grant' /\ rename_lock = v => q.granted
    OBVIOUS
  <2>1. PICK s \in Locals : s = wk[v] /\ WorkerOK(v, s) BY Mine
  <2>2. PICK g : g = (s.granted \/ (rename_lock = v /\ ~grant)) OBVIOUS
  <2>3. g \in BOOLEAN BY <2>2
  <2>4. PICK q : q = [s EXCEPT !.granted = g] OBVIOUS
  <2>5. q \in Locals /\ q.granted = g BY <2>3, <2>4 DEF Locals
  <2>6. wk'[v] = q BY <1>1, <2>1, <2>2, <2>4
  <2>7. s.granted => g BY <2>2
  <2>8. grant' /\ rename_lock = v => g BY <1>1, <2>2
  <2> QED BY <2>1, <2>4, <2>5, <2>6, <2>7, <2>8
<1>5. WorkersOK'
  <2> SUFFICES ASSUME NEW v \in Workers PROVE WorkerOK(v, wk[v])' BY DEF WorkersOK
  <2>1. PICK s \in Locals, q \in Locals :
          /\ s = wk[v] /\ q = wk'[v] /\ WorkerOK(v, s)
          /\ q = [s EXCEPT !.granted = q.granted]
          /\ s.granted => q.granted
          /\ grant' /\ rename_lock = v => q.granted
    BY <1>4
  <2>2. /\ q.pc = s.pc /\ q.undoOf = s.undoOf /\ q.row = s.row /\ q.new = s.new
        /\ q.op = s.op /\ q.base = s.base /\ q.pre = s.pre /\ q.fw = s.fw
        /\ q.replaced = s.replaced
    BY <2>1 DEF Locals
  <2>3. Undoing(q)'
    BY <1>1, <1>2, <2>1, <2>2 DEF WorkerOK, Undoing, Undoes
  <2>4. Always(q)' BY <2>1, <2>2 DEF WorkerOK, Always
  <2>5. InSection(v, s) BY <2>1 DEF WorkerOK
  <2>6. q.pc \in Section => rename_lock' = v BY <1>1, <2>2, <2>5 DEF InSection
  <2>7. q.pc = "locked" => (grant' => q.granted)
    BY <2>1, <2>2, <2>5 DEF InSection, Section
  <2>8. q.pc \in Guarded => q.granted /\ q.pre = q.base BY <2>1, <2>2, <2>5 DEF InSection
  <2>9. q.pc \in Watching => Tracks(q)'
    BY <1>1, <2>2, <2>5 DEF InSection, Tracks, BytesOf
  <2>10. /\ q.pc \in Done => q.replaced = q.base \/ q.replaced \in late'
         /\ InFlight(q) => OnTop(q)'
         /\ InFlight(q) /\ q.pc \in Done => OnDisk(q)'
         /\ q.pc = "appended" => q.fw \in DOMAIN events' /\ events'[q.fw].replaced = q.replaced
    BY <1>1, <2>2, <2>5 DEF InSection, InFlight, OnTop, OnDisk
  <2>11. InSection(v, q)'
    BY <2>6, <2>7, <2>8, <2>9, <2>10 DEF InSection, InFlight
  <2>12. WorkerOK(v, q)' BY <2>3, <2>4, <2>11 DEF WorkerOK
  <2> QED BY <2>1, <2>12 DEF WorkerOK, InSection, Undoing, Always, Tracks, InFlight, OnTop,
                             OnDisk, Undoes
<1>6. AllApart'
  <2>1. \A v \in Workers : wk'[v].undoOf = wk[v].undoOf /\ wk'[v].row = wk[v].row
                           /\ wk'[v].pc = wk[v].pc
    BY <1>4 DEF Locals
  <2> QED BY <2>1 DEF IInv, AllApart, Apart, InFlight
<1>7. FramesOK' /\ HistoryOK' BY <1>1, <1>3, Quiet
<1> QED BY <1>5, <1>6, <1>7 DEF IInv

LEMMA CrashStep ==
  ASSUME IInv, TypeOK', Crash PROVE IInv'
<1>1. /\ wk' = [w \in Workers |-> IdleWorker]
      /\ UNCHANGED <<file, grant, proposals, events, undo, lastWrite, late, lost>>
  BY DEF Crash
<1>2. fresh'.row = fresh.row
  <2>1. fresh' = [fresh EXCEPT !.env = fresh.env + 1] BY DEF Crash
  <2> QED BY <2>1 DEF IInv, TypeOK
<1>3. Grown BY <1>1, <1>2, RowsAreNumbers DEF Grown, IInv
<1>4. WorkersOK'
  <2> SUFFICES ASSUME NEW v \in Workers PROVE WorkerOK(v, wk[v])' BY DEF WorkersOK
  <2>1. PICK q : q = IdleWorker OBVIOUS
  <2>2. wk'[v] = q BY <1>1, <2>1
  <2>3. WorkerOK(v, q)' BY <2>1, IdleOK
  <2> QED BY <2>2, <2>3 DEF WorkerOK, InSection, Undoing, Always, Tracks, InFlight, OnTop,
                            OnDisk, Undoes
<1>5. AllApart' BY <1>1 DEF AllApart, Apart, IdleWorker
<1>6. FramesOK' /\ HistoryOK' BY <1>1, <1>3, Quiet
<1> QED BY <1>4, <1>5, <1>6 DEF IInv

LEMMA AbortStep ==
  ASSUME IInv, TypeOK', NEW w \in Workers, Abort(w) PROVE IInv'
<1>1. fresh'.row = fresh.row
  <2>1. fresh' = [fresh EXCEPT !.env = fresh.env + 1] BY DEF Abort
  <2> QED BY <2>1 DEF IInv, TypeOK
<1>2. Grown BY <1>1, RowsAreNumbers DEF Grown, IInv, Abort
<1> QED BY <1>2, LeaveStep DEF Abort

LEMMA Initially == Init => IInv
<1> SUFFICES ASSUME Init PROVE IInv OBVIOUS
<1>1. TypeOK
  <2>1. (CHOOSE i \in Inodes : TRUE) \in Inodes BY InodesAssumption
  <2>2. << >> \in Seq(Proposals) /\ << >> \in Seq(Events) /\ << >> \in Seq(Frames)
    BY EmptySeq
  <2> QED BY <2>1, <2>2, IdleIsLocals DEF Init, TypeOK, Bytes
<1>2. \A w \in Workers : wk[w] = IdleWorker BY DEF Init
<1>3. WorkersOK
  BY <1>2 DEF WorkersOK, IdleWorker, WorkerOK, InSection, Undoing, Always, InFlight, Section,
              Guarded, Watching, Done, Forward, Behind
<1>4. AllApart BY <1>2 DEF AllApart, Apart, IdleWorker
<1>5. FramesOK /\ HistoryOK
  BY DEF Init, FramesOK, HistoryOK, TipRecoverable, EventsOK, VerdictBaseReplaced,
         OnlyLateBytesLost
<1> QED BY <1>1, <1>3, <1>4, <1>5 DEF IInv

LEMMA Inductive == IInv /\ [Next]_vars => IInv'
<1> SUFFICES ASSUME IInv, [Next]_vars PROVE IInv' OBVIOUS
<1>0. TypeOK' BY TypesInductive DEF IInv
<1>1. CASE Suggest \/ decline_write_proposal \/ UNCHANGED vars
  <2>1. /\ UNCHANGED <<file, grant, events, undo, rename_lock, wk, lastWrite, late, lost>>
        /\ fresh'.row = fresh.row
    <3>1. CASE Suggest
      <4>1. fresh' = [fresh EXCEPT !.bytes = fresh.bytes + 1] BY <3>1 DEF Suggest
      <4>2. fresh'.row = fresh.row BY <4>1 DEF IInv, TypeOK
      <4> QED BY <3>1, <4>2 DEF Suggest
    <3>2. CASE decline_write_proposal BY <3>2 DEF decline_write_proposal
    <3>3. CASE UNCHANGED vars BY <3>3 DEF vars
    <3> QED BY <1>1, <3>1, <3>2, <3>3
  <2>2. Grown BY <2>1, RowsAreNumbers DEF Grown, IInv
  <2> QED BY <1>0, <2>1, <2>2, AllKeep
<1>2. CASE \E w \in Workers : Step(w)
  <2>1. PICK w \in Workers : Step(w) BY <1>2
  <2>2. CASE apply_proposal(w) BY <1>0, <2>2, ApplyStep
  <2>3. CASE anti_clobber(w) \/ undo_identity(w) BY <1>0, <2>3, ClobberStep
  <2>4. CASE propose_write(w) BY <1>0, <2>4, ProposeStep
  <2>5. CASE read_base(w) BY <1>0, <2>5, ReadBaseStep
  <2>6. CASE lock_rename(w) BY <1>0, <2>6, LockStep
  <2>7. CASE base_guard(w) BY <1>0, <2>7, GuardStep
  <2>8. CASE capture_undo(w) BY <1>0, <2>8, CaptureStep
  <2>9. CASE restat_identity_matches(w) BY <1>0, <2>9, RestatStep
  <2>10. CASE mutate(w) BY <1>0, <2>10, MutateStep
  <2>11. CASE post_identity(w) BY <1>0, <2>11, PostIdentityStep
  <2>12. CASE append_file_written(w) BY <1>0, <2>12, AppendStep
  <2>13. CASE bind_and_gc_undo(w) BY <1>0, <2>13, BindStep
  <2>14. CASE undo_write(w) BY <1>0, <2>14, UndoStep
  <2>15. CASE stat_after_undo(w) BY <1>0, <2>15, StatAfterStep
  <2>16. CASE pop_and_handoff_undo(w) BY <1>0, <2>16, PopStep
  <2> QED
    BY <2>1, <2>2, <2>3, <2>4, <2>5, <2>6, <2>7, <2>8, <2>9, <2>10, <2>11, <2>12, <2>13, <2>14,
       <2>15, <2>16 DEF Step
<1>3. CASE \E w \in Workers : Abort(w) BY <1>0, <1>3, AbortStep
<1>4. CASE foreign_write \/ foreign_delete BY <1>0, <1>4, ForeignStep
<1>5. CASE SetGrant BY <1>0, <1>5, SetGrantStep
<1>6. CASE Crash BY <1>0, <1>6, CrashStep
<1> QED BY <1>1, <1>2, <1>3, <1>4, <1>5, <1>6 DEF Next

LEMMA Invariance == Spec => []IInv
BY Initially, Inductive, PTL DEF Spec

\* A forward write (mutate) destroys only bytes its undo frame holds, or late ones.
THEOREM NothingElseLost == Spec => []OnlyLateBytesLost
BY Invariance, PTL DEF IInv, HistoryOK

\* The bytes the write on disk replaced stay in a frame: capture_undo comes before the
\* rename, and bind_and_gc_undo and pop_and_handoff_undo never take that frame.
THEOREM LastWriteRecoverable == Spec => []TipRecoverable
BY Invariance, PTL DEF IInv, HistoryOK

\* What undo_write puts back is what the write it names replaced.
THEOREM UndoIsInverse == Spec => []UndoRestores
<1>1. EventsOK => UndoRestores BY DEF EventsOK, Undoes, UndoRestores
<1> QED BY <1>1, Invariance, PTL DEF IInv, HistoryOK

\* No rename without a grant that was active while rename_lock was held.
THEOREM NoWriteUngranted == Spec => []GrantHeldInSection
<1>1. WorkersOK => GrantHeldInSection
  BY DEF WorkersOK, WorkerOK, InSection, GrantHeldInSection, Guarded, Done
<1> QED BY <1>1, Invariance, PTL DEF IInv

\* A recorded write replaced the bytes its verdict (propose_write) was computed on.
THEOREM VerdictsAreFresh == Spec => []VerdictBaseReplaced
BY Invariance, PTL DEF IInv, HistoryOK
=============================================================================
