------------------------- MODULE RecallIndexProofs -------------------------
(***************************************************************************)
(* Memories survive the migration and recalls find what was remembered,    *)
(* for any number of callers, notes, ingests, migrations and faults.       *)
(*                                                                         *)
(* Durable follows the vectors through the commit point of a migration:    *)
(* before it every acknowledged item has an old vector and what a          *)
(* migration has yet to embed is in its list, or late; after it every item *)
(* that is not late has a new one.  Fresh follows the index through a      *)
(* process that has not switched models: whoever is about to install an    *)
(* index has read rows that miss nothing but excused notes.                *)
(***************************************************************************)
EXTENDS RecallIndex, TLAPS

Ends == {"idle", "returned", "failed"}
Switching == {"publish", "invalidate", "gc", "rows", "install"}
Derived == {"derived", "rows", "install", "mark", "returned"}
Places == Ends \cup Switching \cup Derived \cup
          {"loaded", "ready", "search", "appended", "write", "candidate", "embed", "flip"}

Locals == [pc : Places, emb : Models \cup {Nil}, rows : SUBSET Items, want : SUBSET Notes]
Indexes == [model : Models \cup {Nil}, items : SUBSET Items]

TypeOK ==
    /\ events \subseteq Items
    /\ vectors \subseteq Items \X (Models \cup {Nil})
    /\ record \in Records
    /\ cell \in Models \cup {Nil}
    /\ index \in Indexes \cup {Nil}
    /\ task \in [Tasks -> Locals]

\* A call has the new model only behind the commit point.
CallKnows(q) ==
    /\ q.pc \notin Ends => q.emb \in Models
    /\ record # "complete" => q.emb # "new"

\* What is appended a migration has seen, or it is late.
MigrationKnows(q) ==
    /\ q.pc \in Switching => record = "complete"
    /\ record # "complete" /\ q.pc = "embed" => events \subseteq q.rows \cup late
    /\ record # "complete" /\ q.pc = "flip" => events \subseteq Rows("new") \cup late

\* The vector that belongs to an item's place, before and after the commit point.
ItemKnows(n, q) ==
    /\ q.pc \in Derived \cup {"appended"} => n \in events
    /\ q.pc \in Derived /\ record # "complete" => <<n, "old">> \in vectors
    /\ n \in events \ late /\ record = "complete" =>
         <<n, "new">> \in vectors \/ q.pc = "failed" \/ (q.pc = "appended" /\ q.emb = "new")

DurableParts ==
    /\ record # "complete" => cell # "new"
    /\ \A t \in Calls : CallKnows(task[t])
    /\ \A m \in Migrations : MigrationKnows(task[m])
    /\ \A n \in Items : ItemKnows(n, task[n])
Durable == ~demoted => DurableParts

\* What a recall must find, and an index that has it.
Excused == late \cup overlapped
Promised == {n \in Notes : At(n, "returned")} \ Excused
Good(S) == index # Nil /\ index.model = resolve(record) /\ S \subseteq index.items \cup Excused

RecallKnows(r, q) ==
    /\ q.pc \in {"rows", "install"} => holder = r
    /\ q.pc = "install" => Promised \subseteq q.rows
    /\ q.pc = "search" => Good(q.want)
    /\ q.pc \notin Ends => q.want \subseteq Promised \cup Excused
    /\ q.pc = "idle" => q.rows \subseteq Excused

IngestKnows(q) ==
    /\ q.pc = "install" => Promised \subseteq q.rows
    /\ q.pc = "mark" => Good(Promised)

OverlapKnown ==
    \A g \in Ingests, n \in Notes : InFlight(g) /\ InFlight(n) => n \in overlapped

FreshParts ==
    /\ cell \in {Nil, resolve(record)}
    /\ \A t \in Calls : task[t].pc \notin Ends => task[t].emb = resolve(record)
    /\ \A m \in Migrations : task[m].pc \notin Switching
    /\ indexed => Good(Promised)
    /\ \A r \in Recalls : RecallKnows(r, task[r])
    /\ \A g \in Ingests : IngestKnows(task[g])
    /\ OverlapKnown
Fresh == ~demoted /\ ~switched => FreshParts

IInv == TypeOK /\ Durable /\ Fresh

-----------------------------------------------------------------------------
LEMMA TaskKinds ==
  /\ Calls \subseteq Tasks /\ Items \subseteq Calls /\ Recalls \subseteq Calls
  /\ Notes \subseteq Items /\ Ingests \subseteq Items /\ Migrations \subseteq Tasks
  /\ \A m \in Migrations : m \notin Calls
  /\ \A r \in Recalls : r \notin Items
  /\ \A g \in Ingests : g \notin Notes
  /\ \A t \in Tasks : t \in Recalls \/ t \in Notes \/ t \in Ingests \/ t \in Migrations
BY TasksAssumption DEF Tasks, Calls, Items

\* A step of one task.
Moves(t, q) == task' = [task EXCEPT ![t] = q]

LEMMA MoveFacts ==
  ASSUME TypeOK, NEW t \in Tasks, NEW q \in Locals, Moves(t, q)
  PROVE  /\ task' \in [Tasks -> Locals] /\ task'[t] = q
         /\ \A u \in Tasks : u # t => task'[u] = task[u]
BY DEF Moves, TypeOK

LEMMA IdleFacts ==
  /\ Idle \in Locals /\ Idle.pc = "idle" /\ Idle.emb = Nil /\ Idle.rows = {} /\ Idle.want = {}
BY DEF Idle, Locals, Places, Ends

LEMMA MyLocals == ASSUME TypeOK, NEW t \in Tasks PROVE task[t] \in Locals
BY DEF TypeOK

\* Where a call goes, everything else in its locals stays.
LEMMA GotoMoves ==
  ASSUME TypeOK, NEW t \in Tasks, NEW l \in Places, Goto(t, l)
  PROVE  \E q \in Locals : /\ Moves(t, q) /\ q.pc = l
                           /\ q.emb = task[t].emb /\ q.rows = task[t].rows /\ q.want = task[t].want
<1>1. PICK p \in Locals : p = task[t] BY MyLocals
<1>2. PICK q : q = [p EXCEPT !.pc = l] OBVIOUS
<1>3. q \in Locals /\ q.pc = l /\ q.emb = p.emb /\ q.rows = p.rows /\ q.want = p.want
  BY <1>2 DEF Locals
<1>4. Moves(t, q) BY <1>1, <1>2 DEF Goto, Moves
<1> QED BY <1>1, <1>3, <1>4

LEMMA EndedMoves ==
  ASSUME TypeOK, NEW t \in Tasks, NEW l \in Places, Ended(t, l)
  PROVE  \E q \in Locals : Moves(t, q) /\ q.pc = l /\ q.emb = Nil /\ q.rows = {} /\ q.want = {}
<1>1. PICK q : q = [Idle EXCEPT !.pc = l] OBVIOUS
<1>2. q \in Locals /\ q.pc = l /\ q.emb = Nil /\ q.rows = {} /\ q.want = {}
  BY <1>1 DEF Locals, Idle, Places
<1>3. Moves(t, q) BY <1>1 DEF Ended, Moves
<1> QED BY <1>2, <1>3

LEMMA RowsFacts == ASSUME NEW e PROVE \A n \in Items : n \in Rows(e) <=> <<n, e>> \in vectors
BY DEF Rows

LEMMA ModelsApart == Models = {"old", "new"} /\ Nil # "old" /\ Nil # "new"
BY NilAssumption DEF Models

-----------------------------------------------------------------------------
(* One task moves *)

LEMMA DurableStep ==
  ASSUME TypeOK, Durable, UNCHANGED <<events, vectors, record, late, demoted>>,
         NEW t \in Tasks, NEW q \in Locals, Moves(t, q),
         ~demoted /\ DurableParts =>
           /\ record # "complete" => cell' # "new"
           /\ t \in Calls => CallKnows(q)
           /\ t \in Migrations => MigrationKnows(q)
           /\ t \in Items => ItemKnows(t, q)
  PROVE  Durable'
<1> SUFFICES ASSUME ~demoted PROVE DurableParts' BY DEF Durable
<1>1. DurableParts BY DEF Durable
<1>2. task'[t] = q /\ \A u \in Tasks : u # t => task'[u] = task[u] BY MoveFacts
<1>3. \A u \in Calls : CallKnows(task[u])' BY <1>1, <1>2, TaskKinds DEF DurableParts, CallKnows
<1>4. \A m \in Migrations : MigrationKnows(task[m])'
  BY <1>1, <1>2, TaskKinds DEF DurableParts, MigrationKnows, Rows
<1>5. \A n \in Items : ItemKnows(n, task[n])' BY <1>1, <1>2, TaskKinds DEF DurableParts, ItemKnows
<1> QED BY <1>1, <1>3, <1>4, <1>5 DEF DurableParts

\* ... and the index stays what it is.
LEMMA FreshStep ==
  ASSUME TypeOK, Fresh, UNCHANGED <<record, demoted, switched, index>>,
         late \subseteq late', overlapped \subseteq overlapped',
         NEW t \in Tasks, NEW q \in Locals, Moves(t, q),
         t \in Notes => (q.pc = "returned" <=> task[t].pc = "returned"),
         ~demoted /\ ~switched /\ FreshParts =>
           /\ cell' \in {Nil, resolve(record)}
           /\ t \in Calls /\ q.pc \notin Ends => q.emb = resolve(record)
           /\ t \in Migrations => q.pc \notin Switching
           /\ indexed' => indexed \/ Good(Promised)
           /\ \A r \in Recalls \ {t} : task[r].pc \in {"rows", "install"} => holder' = r
           /\ t \in Recalls =>
                /\ q.pc \in {"rows", "install"} => holder' = t
                /\ q.pc = "install" => Promised \subseteq q.rows
                /\ q.pc = "search" => Good(q.want)
                /\ q.pc \notin Ends => q.want \subseteq Promised \cup Excused
                /\ q.pc = "idle" => q.rows \subseteq Excused
           /\ t \in Ingests => IngestKnows(q)
           /\ t \in Ingests /\ q.pc \notin Ends => \A n \in Notes : InFlight(n) => n \in overlapped'
           /\ t \in Notes /\ q.pc \notin Ends /\ (\E g \in Ingests : InFlight(g)) => t \in overlapped'
  PROVE  Fresh'
<1> SUFFICES ASSUME ~demoted, ~switched PROVE FreshParts' BY DEF Fresh
<1>1. FreshParts BY DEF Fresh
<1>2. task'[t] = q /\ \A u \in Tasks : u # t => task'[u] = task[u] BY MoveFacts
<1>3. Excused \subseteq Excused' BY DEF Excused
<1>4. {n \in Notes : At(n, "returned")}' = {n \in Notes : At(n, "returned")}
  BY <1>2, TaskKinds DEF At
<1>5. Promised' = Promised \ Excused' BY <1>3, <1>4 DEF Promised
<1>6. resolve(record)' = resolve(record) BY DEF resolve
<1>7. ASSUME NEW S, Good(S) PROVE Good(S)' BY <1>3, <1>6, <1>7 DEF Good
<1>8. Good(Promised) => Good(Promised)' BY <1>3, <1>5, <1>6 DEF Good
<1>9. \A r \in Recalls : RecallKnows(r, task[r])'
  <2> SUFFICES ASSUME NEW r \in Recalls PROVE RecallKnows(r, task[r])' OBVIOUS
  <2>1. CASE r = t
    <3>1. task'[r] = q BY <1>2, <2>1
    <3>2. q.pc = "search" => Good(q.want)' BY <1>1, <1>7, <2>1
    <3>3. q.pc \notin Ends => q.want \subseteq Promised' \cup Excused'
      BY <1>1, <1>3, <1>5, <2>1
    <3>4. /\ q.pc \in {"rows", "install"} => holder' = r
          /\ q.pc = "install" => Promised' \subseteq q.rows
          /\ q.pc = "idle" => q.rows \subseteq Excused'
      BY <1>1, <1>3, <1>5, <2>1
    <3> QED BY <3>1, <3>2, <3>3, <3>4 DEF RecallKnows, Good
  <2>2. CASE r # t
    <3>1. RecallKnows(r, task[r]) BY <1>1 DEF FreshParts
    <3>2. task'[r] = task[r] BY <1>2, <2>2, TaskKinds
    <3>3. PICK p : p = task[r] /\ p = task'[r] BY <3>2
    <3>4. p.pc = "search" => Good(p.want)' BY <1>7, <3>1, <3>3 DEF RecallKnows
    <3>5. /\ p.pc \in {"rows", "install"} => holder' = r
          /\ p.pc = "install" => Promised' \subseteq p.rows
          /\ p.pc \notin Ends => p.want \subseteq Promised' \cup Excused'
          /\ p.pc = "idle" => p.rows \subseteq Excused'
      BY <1>1, <1>3, <1>5, <2>2, <3>1, <3>3 DEF RecallKnows
    <3> QED BY <3>3, <3>4, <3>5 DEF RecallKnows, Good
  <2> QED BY <2>1, <2>2
<1>10. \A g \in Ingests : IngestKnows(task[g])'
  <2> SUFFICES ASSUME NEW g \in Ingests PROVE IngestKnows(task[g])' OBVIOUS
  <2>1. IngestKnows(task'[g]) BY <1>1, <1>2, TaskKinds DEF FreshParts
  <2> QED BY <1>5, <1>8, <2>1 DEF IngestKnows
<1>11. OverlapKnown'
  <2> SUFFICES ASSUME NEW g \in Ingests, NEW n \in Notes,
                      task'[g].pc \notin Ends, task'[n].pc \notin Ends
               PROVE  n \in overlapped'
    BY DEF OverlapKnown, InFlight, Ends
  <2>1. CASE g = t BY <1>1, <1>2, <2>1, TaskKinds DEF InFlight, Ends
  <2>2. CASE n = t BY <1>1, <1>2, <2>2, TaskKinds DEF InFlight, Ends
  <2>3. CASE g # t /\ n # t
    BY <1>1, <1>2, <2>3, TaskKinds DEF FreshParts, OverlapKnown, InFlight, Ends
  <2> QED BY <2>1, <2>2, <2>3
<1>12. \A u \in Calls : task'[u].pc \notin Ends => task'[u].emb = resolve(record)
  BY <1>1, <1>2, TaskKinds DEF FreshParts
<1>13. \A m \in Migrations : task'[m].pc \notin Switching
  BY <1>1, <1>2, TaskKinds DEF FreshParts
<1>14. (indexed => Good(Promised))' BY <1>1, <1>8 DEF FreshParts
<1> QED BY <1>1, <1>6, <1>9, <1>10, <1>11, <1>12, <1>13, <1>14 DEF FreshParts

-----------------------------------------------------------------------------
(* EmbedderProvider *)

LEMMA MissingFacts ==
  ASSUME IInv, NEW t \in Calls, embedder_for(t), UNCHANGED task PROVE IInv'
<1>1. t \in Tasks BY TaskKinds
<1>2. PICK q \in Locals : q = task[t] BY <1>1, MyLocals DEF IInv
<1>3. Moves(t, q) BY <1>1, <1>2 DEF Moves, IInv, TypeOK
<1>4. /\ UNCHANGED <<events, vectors, record, cell, indexed, holder, index, late, switched, demoted>>
      /\ q.pc = "idle" /\ overlapped \subseteq overlapped'
  BY <1>2 DEF embedder_for, At, durable, idx, Overlap
<1>5. TypeOK' BY <1>4 DEF IInv, TypeOK
<1>6. Durable'
  BY <1>1, <1>2, <1>3, <1>4, DurableStep DEF IInv, DurableParts
<1>7. Fresh'
  BY <1>1, <1>2, <1>3, <1>4, FreshStep DEF IInv, FreshParts, Ends, RecallKnows, IngestKnows
<1> QED BY <1>5, <1>6, <1>7 DEF IInv

LEMMA EmbedderStep ==
  ASSUME IInv, NEW t \in Calls, embedder_for(t) PROVE IInv'
<1>1. t \in Tasks BY TaskKinds
<1>2. CASE UNCHANGED task BY <1>2, MissingFacts
<1>3. CASE ~UNCHANGED task
  <2>1. PICK want \in SUBSET Notes :
          want = IF t \in Recalls THEN {n \in Notes : At(n, "returned")} ELSE {}
    OBVIOUS
  <2>2. want = IF t \in Recalls THEN Returned \cap Notes ELSE {}
    BY <2>1, TaskKinds DEF Returned
  <2>3. \E l \in {"ready", "loaded"}, e \in Models :
          /\ task' = [task EXCEPT ![t] = [pc |-> l, emb |-> e, rows |-> {}, want |-> want]]
          /\ e = cell \/ e = resolve(record)
    BY <1>3, <2>2, NilAssumption DEF embedder_for, resolve, Models, IInv, TypeOK
  <2>4. PICK l \in {"ready", "loaded"}, e \in Models :
          /\ task' = [task EXCEPT ![t] = [pc |-> l, emb |-> e, rows |-> {}, want |-> want]]
          /\ e = cell \/ e = resolve(record)
    BY <2>3
  <2>5. PICK q : q = [pc |-> l, emb |-> e, rows |-> {}, want |-> want] OBVIOUS
  <2>6. q \in Locals /\ q.pc = l /\ q.emb = e /\ q.rows = {} /\ q.want = want
    BY <2>1, <2>5 DEF Locals, Places
  <2>7. Moves(t, q) BY <2>4, <2>5 DEF Moves
  <2>8. /\ UNCHANGED <<events, vectors, record, cell, indexed, holder, index, late, switched, demoted>>
        /\ task[t].pc = "idle" /\ overlapped \subseteq overlapped'
    BY DEF embedder_for, At, durable, idx, Overlap
  <2>9. TypeOK' BY <1>1, <2>6, <2>7, <2>8, MoveFacts DEF IInv, TypeOK
  <2>10. Durable'
    <3>1. DurableParts => (record # "complete" => e # "new")
      BY <2>4 DEF DurableParts, resolve
    <3>2. t \in Items /\ DurableParts => ItemKnows(t, task[t]) BY DEF DurableParts
    <3>3. t \in Items /\ DurableParts => ItemKnows(t, q)
      BY <2>6, <2>8, <3>2 DEF ItemKnows, Derived
    <3> QED BY <1>1, <2>6, <2>7, <2>8, <3>1, <3>3, DurableStep, TaskKinds
            DEF IInv, CallKnows, DurableParts
  <2>11. Fresh'
    <3>1. FreshParts => e = resolve(record) BY <2>4, NilAssumption DEF FreshParts
    <3>2. t \in Recalls => want \subseteq Promised \cup Excused BY <2>1 DEF Promised
    <3>3. t \in Ingests => \A n \in Notes : InFlight(n) => n \in overlapped'
      BY TaskKinds DEF embedder_for, Overlap
    <3>4. t \in Notes /\ (\E g \in Ingests : InFlight(g)) => t \in overlapped'
      BY TaskKinds DEF embedder_for, Overlap
    <3> QED BY <1>1, <2>6, <2>7, <2>8, <3>1, <3>2, <3>3, <3>4, FreshStep, TaskKinds
            DEF IInv, FreshParts, RecallKnows, IngestKnows, Ends
  <2> QED BY <2>9, <2>10, <2>11 DEF IInv
<1> QED BY <1>2, <1>3

LEMMA CacheStep ==
  ASSUME IInv, NEW t \in Calls, cache_embedder(t) PROVE IInv'
<1>1. t \in Tasks BY TaskKinds
<1>2. PICK q \in Locals : /\ Moves(t, q) /\ q.pc = "ready"
                          /\ q.emb = task[t].emb /\ q.rows = task[t].rows /\ q.want = task[t].want
  BY <1>1, GotoMoves DEF cache_embedder, IInv, Places
<1>3. /\ UNCHANGED <<events, vectors, record, indexed, holder, index, late, overlapped, switched, demoted>>
      /\ task[t].pc = "loaded" /\ cell' = task[t].emb
  BY DEF cache_embedder, At, durable, idx, hist
<1>4. TypeOK' BY <1>1, <1>2, <1>3, MoveFacts, MyLocals DEF IInv, TypeOK, Locals
<1>5. Durable'
  <2>1. DurableParts => CallKnows(task[t]) /\ (t \in Items => ItemKnows(t, task[t])) BY DEF DurableParts
  <2>2. DurableParts => CallKnows(q) /\ (t \in Items => ItemKnows(t, q))
    BY <1>2, <1>3, <2>1 DEF CallKnows, ItemKnows, Ends, Derived
  <2> QED BY <1>1, <1>2, <1>3, <2>1, <2>2, DurableStep, TaskKinds DEF IInv, DurableParts, CallKnows
<1>6. Fresh'
  <2>1. FreshParts => /\ task[t].emb = resolve(record)
                      /\ t \in Recalls => RecallKnows(t, task[t])
    BY <1>3 DEF FreshParts, Ends
  <2>2. FreshParts /\ t \in Recalls => q.want \subseteq Promised \cup Excused
    BY <1>2, <1>3, <2>1 DEF RecallKnows, Ends
  <2> QED BY <1>1, <1>2, <1>3, <2>1, <2>2, FreshStep, TaskKinds
          DEF IInv, FreshParts, RecallKnows, IngestKnows, Ends, OverlapKnown, InFlight
<1> QED BY <1>4, <1>5, <1>6 DEF IInv

-----------------------------------------------------------------------------
(* recall *)

\* A recall touches nothing durable.
LEMMA RecallDurable ==
  ASSUME IInv, NEW r \in Recalls, NEW q \in Locals, Moves(r, q),
         UNCHANGED <<events, vectors, record, cell, late, demoted>>,
         DurableParts => CallKnows(q)
  PROVE  Durable'
BY DurableStep, TaskKinds DEF IInv, DurableParts

LEMMA EnsureStep ==
  ASSUME IInv, NEW r \in Recalls, ensure_indexed(r) PROVE IInv'
<1>1. r \in Tasks /\ r \in Calls BY TaskKinds
<1>2. PICK l \in {"search", "rows"} : Goto(r, l) /\ l = (IF indexed THEN "search" ELSE "rows")
  BY DEF ensure_indexed
<1>3. PICK q \in Locals : /\ Moves(r, q) /\ q.pc = l
                          /\ q.emb = task[r].emb /\ q.rows = task[r].rows /\ q.want = task[r].want
  BY <1>1, <1>2, GotoMoves DEF IInv, Places, Switching
<1>4. /\ UNCHANGED <<events, vectors, record, cell, indexed, index, late, overlapped, switched, demoted>>
      /\ task[r].pc = "ready" /\ holder = Nil /\ (l = "rows" => holder' = r)
      /\ (l = "search" => indexed /\ holder' = holder)
  BY <1>2 DEF ensure_indexed, At, durable, cache, hist
<1>5. TypeOK' BY <1>1, <1>3, <1>4, MoveFacts DEF IInv, TypeOK
<1>6. Durable' BY <1>1, <1>3, <1>4, RecallDurable DEF DurableParts, CallKnows, Ends
<1>7. Fresh'
  <2>1. FreshParts => RecallKnows(r, task[r]) /\ task[r].emb = resolve(record)
    BY <1>1, <1>4 DEF FreshParts, Ends
  <2>2. FreshParts => q.want \subseteq Promised \cup Excused
    BY <1>3, <1>4, <2>1 DEF RecallKnows, Ends
  <2>3. FreshParts /\ l = "search" => Good(q.want)
    BY <1>4, <2>2 DEF FreshParts, Good, Excused
  <2>4. FreshParts => \A s \in Recalls : task[s].pc \notin {"rows", "install"}
    BY <1>4, NilAssumption DEF FreshParts, RecallKnows
  <2> QED BY <1>1, <1>3, <1>4, <2>1, <2>2, <2>3, <2>4, FreshStep, TaskKinds DEF IInv, FreshParts, Ends
<1> QED BY <1>5, <1>6, <1>7 DEF IInv

LEMMA RowsMoves ==
  ASSUME TypeOK, NEW t \in Tasks, read_rows(t)
  PROVE  \E q \in Locals : /\ Moves(t, q) /\ q.pc = "install"
                           /\ q.emb = task[t].emb /\ q.rows = Rows(task[t].emb) /\ q.want = task[t].want
<1>1. PICK p \in Locals : p = task[t] BY MyLocals
<1>2. PICK rows \in SUBSET Items : rows = Rows(p.emb) BY DEF Rows
<1>3. PICK q : q = [p EXCEPT !.pc = "install", !.rows = rows] OBVIOUS
<1>4. q \in Locals /\ q.pc = "install" /\ q.emb = p.emb /\ q.rows = rows /\ q.want = p.want
  BY <1>3 DEF Locals, Places, Switching
<1>5. Moves(t, q) BY <1>1, <1>2, <1>3 DEF read_rows, Moves
<1> QED BY <1>1, <1>2, <1>4, <1>5

\* The rows of the resolved model miss no returned item that is not late.
LEMMA RowsComplete ==
  ASSUME IInv, ~demoted PROVE Promised \subseteq Rows(resolve(record))
<1>1. DurableParts BY DEF IInv, Durable
<1> SUFFICES ASSUME NEW n \in Promised PROVE n \in Rows(resolve(record)) OBVIOUS
<1>2. n \in Items /\ task[n].pc = "returned" /\ n \notin late
  BY TaskKinds DEF Promised, Excused, At
<1>3. ItemKnows(n, task[n]) BY <1>1, <1>2 DEF DurableParts
<1>4. n \in events BY <1>2, <1>3 DEF ItemKnows, Derived
<1> QED BY <1>2, <1>3, <1>4 DEF ItemKnows, Derived, resolve, Rows

LEMMA ReadRowsStep ==
  ASSUME IInv, NEW t \in Recalls \cup Ingests \cup Migrations, read_rows(t) PROVE IInv'
<1>1. t \in Tasks /\ t \notin Notes BY TaskKinds, TasksAssumption DEF Calls, Items
<1>2. PICK q \in Locals : /\ Moves(t, q) /\ q.pc = "install"
                          /\ q.emb = task[t].emb /\ q.rows = Rows(task[t].emb) /\ q.want = task[t].want
  BY <1>1, RowsMoves DEF IInv
<1>3. /\ UNCHANGED <<events, vectors, record, cell, indexed, holder, index, late, overlapped, switched, demoted>>
      /\ task[t].pc = "rows"
  BY DEF read_rows, At, durable, idx, cache, hist
<1>4. TypeOK' BY <1>1, <1>2, <1>3, MoveFacts DEF IInv, TypeOK
<1>5. Durable'
  <2>1. DurableParts => /\ t \in Calls => CallKnows(task[t])
                        /\ t \in Migrations => MigrationKnows(task[t])
                        /\ t \in Items => ItemKnows(t, task[t])
    BY DEF DurableParts
  <2>2. DurableParts => /\ t \in Calls => CallKnows(q)
                        /\ t \in Migrations => MigrationKnows(q)
                        /\ t \in Items => ItemKnows(t, q)
    BY <1>2, <1>3, <2>1 DEF CallKnows, MigrationKnows, ItemKnows, Ends, Derived, Switching
  <2> QED BY <1>1, <1>2, <1>3, <2>2, DurableStep DEF IInv, DurableParts
<1>6. Fresh'
  <2>1. FreshParts => t \notin Migrations BY <1>3 DEF FreshParts, Switching
  <2>2. FreshParts /\ t \in Calls => task[t].emb = resolve(record) BY <1>3 DEF FreshParts, Ends
  <2>3. FreshParts /\ ~demoted => Promised \subseteq q.rows
    BY <1>2, <2>1, <2>2, RowsComplete, TaskKinds
  <2>4. FreshParts /\ t \in Recalls => RecallKnows(t, task[t]) BY DEF FreshParts
  <2>5. FreshParts /\ t \in Recalls => q.want \subseteq Promised \cup Excused /\ holder = t
    BY <1>2, <1>3, <2>4 DEF RecallKnows, Ends
  <2>6. FreshParts /\ t \in Ingests => \A n \in Notes : InFlight(n) => n \in overlapped
    BY <1>3 DEF FreshParts, OverlapKnown, InFlight
  <2>7. \A r \in Recalls \ {t} : FreshParts /\ task[r].pc \in {"rows", "install"} => holder = r
    BY DEF FreshParts, RecallKnows
  <2> QED BY <1>1, <1>2, <1>3, <2>1, <2>2, <2>3, <2>5, <2>6, <2>7, FreshStep, TaskKinds
          DEF IInv, FreshParts, Ends, IngestKnows
<1> QED BY <1>4, <1>5, <1>6 DEF IInv

LEMMA RebuildFailsStep ==
  ASSUME IInv, NEW r \in Recalls, rebuild_fails(r) PROVE IInv'
<1>1. r \in Tasks /\ r \in Calls BY TaskKinds
<1>2. Moves(r, Idle) /\ task[r].pc = "install" BY DEF rebuild_fails, Moves, At
<1>3. UNCHANGED <<events, vectors, record, cell, indexed, index, late, overlapped, switched, demoted>>
  BY DEF rebuild_fails, durable, cache, hist
<1>4. TypeOK' BY <1>1, <1>2, <1>3, MoveFacts, IdleFacts DEF IInv, TypeOK
<1>5. Durable'
  BY <1>1, <1>2, <1>3, RecallDurable, IdleFacts, ModelsApart DEF CallKnows, Ends
<1>6. Fresh'
  <2>1. FreshParts => holder = r BY <1>2 DEF FreshParts, RecallKnows
  <2>2. \A s \in Recalls \ {r} : FreshParts => task[s].pc \notin {"rows", "install"}
    BY <2>1 DEF FreshParts, RecallKnows
  <2> QED BY <1>1, <1>2, <1>3, <2>2, FreshStep, TaskKinds, IdleFacts DEF IInv, FreshParts, Ends
<1> QED BY <1>4, <1>5, <1>6 DEF IInv

LEMMA SearchStep ==
  ASSUME IInv, NEW r \in Recalls, search(r) PROVE IInv'
<1>1. r \in Tasks /\ r \in Calls BY TaskKinds
<1>2. PICK missed : missed = task[r].want \ Hits(task[r].emb) OBVIOUS
<1>3. PICK p \in Locals : p = task[r] BY <1>1, MyLocals DEF IInv
<1>4. missed \in SUBSET Items BY <1>2, <1>3, TaskKinds DEF Locals
<1>5. PICK q : q = [Idle EXCEPT !.rows = missed] OBVIOUS
<1>6. q \in Locals /\ q.pc = "idle" /\ q.emb = Nil /\ q.rows = missed
  BY <1>4, <1>5 DEF Locals, Idle, Places, Ends
<1>7. Moves(r, q) /\ task[r].pc = "search" BY <1>2, <1>5 DEF search, Moves, At
<1>8. UNCHANGED <<events, vectors, record, cell, indexed, holder, index, late, overlapped, switched, demoted>>
  BY DEF search, durable, idx, cache, hist
<1>9. TypeOK' BY <1>1, <1>6, <1>7, <1>8, MoveFacts DEF IInv, TypeOK
<1>10. Durable' BY <1>1, <1>6, <1>7, <1>8, RecallDurable, ModelsApart DEF CallKnows, Ends
<1>11. Fresh'
  <2>1. FreshParts => Good(task[r].want) /\ task[r].emb = resolve(record)
    BY <1>1, <1>7 DEF FreshParts, RecallKnows, Ends
  <2>2. FreshParts => missed \subseteq Excused BY <1>2, <2>1 DEF Good, Hits
  <2>3. \A s \in Recalls \ {r} : FreshParts /\ task[s].pc \in {"rows", "install"} => holder = s
    BY DEF FreshParts, RecallKnows
  <2> QED BY <1>1, <1>6, <1>7, <1>8, <2>2, <2>3, FreshStep, TaskKinds DEF IInv, FreshParts, Ends
<1> QED BY <1>9, <1>10, <1>11 DEF IInv

\* An index that misses nothing promised is installed; the calls go on.
LEMMA InstallFresh ==
  ASSUME TypeOK, FreshParts, UNCHANGED <<cell, record, late, overlapped>>,
         NEW t \in Recalls \cup Ingests, NEW q \in Locals, Moves(t, q),
         NEW new \in Indexes, index' = new, new.model = resolve(record), Promised \subseteq new.items,
         t \in Recalls => q.pc = "search" /\ q.want \subseteq Promised \cup Excused,
         t \in Ingests => q.pc = "mark" /\ InFlight(t),
         q.emb = resolve(record),
         \A r \in Recalls \ {t} : task[r].pc \in {"rows", "install"} => holder' = r
  PROVE  FreshParts'
<1>1. t \in Tasks /\ t \in Calls /\ t \notin Notes
  BY TaskKinds, TasksAssumption DEF Calls, Items
<1>2. task'[t] = q /\ \A u \in Tasks : u # t => task'[u] = task[u] BY <1>1, MoveFacts
<1>3. Excused' = Excused BY DEF Excused
<1>4. {n \in Notes : At(n, "returned")}' = {n \in Notes : At(n, "returned")}
  BY <1>1, <1>2, TaskKinds DEF At
<1>5. Promised' = Promised BY <1>3, <1>4 DEF Promised
<1>6. index' # Nil BY NilAssumption DEF Indexes
<1>7. ASSUME NEW S, S \subseteq Promised \cup Excused PROVE Good(S)'
  BY <1>3, <1>6, <1>7 DEF Good, resolve
<1>8. Good(Promised)' BY <1>3, <1>5, <1>6 DEF Good, resolve
<1>9. \A r \in Recalls : RecallKnows(r, task[r])'
  <2> SUFFICES ASSUME NEW r \in Recalls PROVE RecallKnows(r, task[r])' OBVIOUS
  <2>1. CASE r = t
    <3>1. Good(q.want)' BY <1>7, <2>1
    <3> QED BY <1>2, <1>3, <1>5, <2>1, <3>1 DEF RecallKnows, Ends, Good
  <2>2. CASE r # t
    <3>1. PICK p : p = task[r] /\ p = task'[r] BY <1>2, <2>2, TaskKinds
    <3>2. RecallKnows(r, p) BY <3>1 DEF FreshParts
    <3>3. p.pc = "search" => Good(p.want)'
      BY <1>7, <3>2 DEF RecallKnows, Ends
    <3>4. /\ p.pc \in {"rows", "install"} => holder' = r
          /\ p.pc = "install" => Promised' \subseteq p.rows
          /\ p.pc \notin Ends => p.want \subseteq Promised' \cup Excused'
          /\ p.pc = "idle" => p.rows \subseteq Excused'
      BY <1>3, <1>5, <2>2, <3>1, <3>2 DEF RecallKnows
    <3> QED BY <3>1, <3>3, <3>4 DEF RecallKnows, Good
  <2> QED BY <2>1, <2>2
<1>10. \A g \in Ingests : IngestKnows(task[g])'
  <2> SUFFICES ASSUME NEW g \in Ingests PROVE IngestKnows(task[g])' OBVIOUS
  <2>1. CASE g = t BY <1>2, <1>8, <2>1 DEF IngestKnows
  <2>2. CASE g # t
    <3>1. task'[g] = task[g] /\ IngestKnows(task[g]) BY <1>2, <2>2, TaskKinds DEF FreshParts
    <3> QED BY <1>5, <1>8, <3>1 DEF IngestKnows
  <2> QED BY <2>1, <2>2
<1>11. OverlapKnown'
  BY <1>1, <1>2, TaskKinds DEF FreshParts, OverlapKnown, InFlight
<1>12. \A u \in Calls : task'[u].pc \notin Ends => task'[u].emb = resolve(record)
  BY <1>2, TaskKinds DEF FreshParts
<1>13. \A m \in Migrations : task'[m].pc \notin Switching
  BY <1>1, <1>2, TaskKinds DEF FreshParts
<1>14. (indexed => Good(Promised))' BY <1>8
<1>15. resolve(record)' = resolve(record) BY DEF resolve
<1> QED BY <1>9, <1>10, <1>11, <1>12, <1>13, <1>14, <1>15 DEF FreshParts

LEMMA RebuiltStep ==
  ASSUME IInv, NEW r \in Recalls, recall_rebuilt(r) PROVE IInv'
<1>1. r \in Tasks /\ r \in Calls BY TaskKinds
<1>2. PICK q \in Locals : /\ Moves(r, q) /\ q.pc = "search"
                          /\ q.emb = task[r].emb /\ q.rows = task[r].rows /\ q.want = task[r].want
  BY <1>1, GotoMoves DEF recall_rebuilt, IInv, Places
<1>3. /\ UNCHANGED <<events, vectors, record, cell, late, overlapped, switched, demoted>>
      /\ task[r].pc = "install"
  BY DEF recall_rebuilt, At, durable, cache, hist
<1>4. PICK new : new = [model |-> q.emb, items |-> q.rows] OBVIOUS
<1>5. index' = new BY <1>2, <1>4 DEF recall_rebuilt, Installed
<1>6. new \in Indexes /\ new.model = q.emb /\ new.items = q.rows BY <1>4 DEF Indexes, Locals
<1>7. TypeOK' BY <1>1, <1>2, <1>3, <1>5, <1>6, MoveFacts DEF IInv, TypeOK
<1>8. Durable' BY <1>1, <1>2, <1>3, RecallDurable DEF DurableParts, CallKnows, Ends
<1>9. Fresh'
  <2> SUFFICES ASSUME ~demoted, ~switched PROVE FreshParts' BY <1>3 DEF Fresh
  <2>1. FreshParts BY DEF IInv, Fresh
  <2>2. RecallKnows(r, task[r]) /\ task[r].emb = resolve(record)
    BY <1>1, <1>3, <2>1 DEF FreshParts, Ends
  <2>3. holder = r /\ Promised \subseteq q.rows /\ q.want \subseteq Promised \cup Excused
    BY <1>2, <1>3, <2>2 DEF RecallKnows, Ends
  <2>4. \A s \in Recalls \ {r} : task[s].pc \notin {"rows", "install"}
    BY <2>1, <2>3 DEF FreshParts, RecallKnows
  <2> QED BY <1>1, <1>2, <1>3, <1>5, <1>6, <2>1, <2>2, <2>3, <2>4, InstallFresh, TasksAssumption
          DEF IInv, Items
<1> QED BY <1>7, <1>8, <1>9 DEF IInv

-----------------------------------------------------------------------------
(* remember *)

LEMMA AppendStep ==
  ASSUME IInv, NEW n \in Notes, append(n) PROVE IInv'
<1>1. n \in Tasks /\ n \in Items /\ n \in Calls BY TaskKinds
<1>2. PICK q \in Locals : /\ Moves(n, q) /\ q.pc = "appended"
                          /\ q.emb = task[n].emb /\ q.rows = task[n].rows /\ q.want = task[n].want
  BY <1>1, GotoMoves DEF append, IInv, Places
<1>3. /\ UNCHANGED <<vectors, record, cell, indexed, holder, index, overlapped, switched, demoted>>
      /\ events' = events \cup {n} /\ late \subseteq late' /\ late' \subseteq late \cup {n}
      /\ BehindSnapshot(n) => n \in late'
      /\ task[n].pc = "ready"
  BY DEF append, At, idx, cache
<1>4. TypeOK' BY <1>1, <1>2, <1>3, MoveFacts DEF IInv, TypeOK
<1>5. Durable'
  <2> SUFFICES ASSUME ~demoted PROVE DurableParts' BY <1>3 DEF Durable
  <2>1. DurableParts BY DEF IInv, Durable
  <2>2. task'[n] = q /\ \A u \in Tasks : u # n => task'[u] = task[u] BY <1>1, <1>2, MoveFacts DEF IInv
  <2>3. CallKnows(q) BY <1>1, <1>2, <1>3, <2>1 DEF DurableParts, CallKnows, Ends
  <2>4. \A u \in Calls : CallKnows(task[u])'
    BY <1>3, <2>1, <2>2, <2>3, TaskKinds DEF DurableParts, CallKnows
  <2>5. record # "complete" => task[n].emb = "old"
    BY <1>1, <1>3, <2>1 DEF DurableParts, CallKnows, Ends, Models
  <2>6. \A m \in Migrations : MigrationKnows(task[m])'
    <3> SUFFICES ASSUME NEW m \in Migrations PROVE MigrationKnows(task[m])' OBVIOUS
    <3>1. task'[m] = task[m] /\ MigrationKnows(task[m]) BY <2>1, <2>2, <1>1, TaskKinds DEF DurableParts
    <3>2. record # "complete" /\ task[m].pc \in {"embed", "flip"} => n \in late'
      BY <1>3, <2>5 DEF BehindSnapshot, Snapshotted
    <3> QED BY <1>3, <3>1, <3>2 DEF MigrationKnows, Rows
  <2>7. \A i \in Items : ItemKnows(i, task[i])'
    <3> SUFFICES ASSUME NEW i \in Items PROVE ItemKnows(i, task[i])' OBVIOUS
    <3>1. CASE i # n
      <4>1. task'[i] = task[i] /\ ItemKnows(i, task[i]) BY <2>1, <2>2, <3>1, TaskKinds DEF DurableParts
      <4> QED BY <1>3, <3>1, <4>1 DEF ItemKnows
    <3>2. CASE i = n
      <4>1. record = "complete" => q.emb = "new" \/ n \in late'
        BY <1>2, <1>3, <1>1, <2>1 DEF BehindSnapshot, DurableParts, CallKnows, Ends, Models
      <4> QED BY <1>2, <1>3, <2>2, <3>2, <4>1 DEF ItemKnows, Derived
    <3> QED BY <3>1, <3>2
  <2> QED BY <1>3, <2>1, <2>4, <2>6, <2>7 DEF DurableParts
<1>6. Fresh'
  <2>1. FreshParts => /\ task[n].emb = resolve(record)
                      /\ \A r \in Recalls : task[r].pc \in {"rows", "install"} => holder = r
                      /\ \A g \in Ingests : InFlight(g) => n \in overlapped
    BY <1>1, <1>3 DEF FreshParts, Ends, RecallKnows, OverlapKnown, InFlight
  <2> QED BY <1>1, <1>2, <1>3, <2>1, FreshStep, TaskKinds DEF IInv, FreshParts
<1> QED BY <1>4, <1>5, <1>6 DEF IInv

LEMMA DeriveStep ==
  ASSUME IInv, NEW n \in Notes, derive_vector(n) PROVE IInv'
<1>1. n \in Tasks /\ n \in Items /\ n \in Calls BY TaskKinds
<1>2. PICK q \in Locals : /\ Moves(n, q) /\ q.pc = "derived"
                          /\ q.emb = task[n].emb /\ q.rows = task[n].rows /\ q.want = task[n].want
  BY <1>1, GotoMoves DEF derive_vector, IInv, Places, Derived
<1>3. /\ UNCHANGED <<events, record, cell, indexed, holder, index, late, overlapped, switched, demoted>>
      /\ vectors' = vectors \cup {<<n, task[n].emb>>} /\ task[n].pc = "appended"
  BY DEF derive_vector, At, idx, cache, hist
<1>4. task[n].emb \in Models \cup {Nil} BY <1>1, MyLocals DEF IInv, Locals
<1>5. TypeOK' BY <1>1, <1>2, <1>3, <1>4, MoveFacts DEF IInv, TypeOK
<1>6. Durable'
  <2> SUFFICES ASSUME ~demoted PROVE DurableParts' BY <1>3 DEF Durable
  <2>1. DurableParts BY DEF IInv, Durable
  <2>2. task'[n] = q /\ \A u \in Tasks : u # n => task'[u] = task[u] BY <1>1, <1>2, MoveFacts DEF IInv
  <2>3. CallKnows(task[n]) /\ ItemKnows(n, task[n]) BY <1>1, <2>1 DEF DurableParts
  <2>4. \A u \in Calls : CallKnows(task[u])'
    BY <1>2, <1>3, <2>1, <2>2, <2>3, TaskKinds DEF DurableParts, CallKnows, Ends
  <2>5. \A m \in Migrations : MigrationKnows(task[m])'
    BY <1>1, <1>3, <2>1, <2>2, TaskKinds DEF DurableParts, MigrationKnows, Rows
  <2>6. \A i \in Items : ItemKnows(i, task[i])'
    <3> SUFFICES ASSUME NEW i \in Items PROVE ItemKnows(i, task[i])' OBVIOUS
    <3>1. CASE i # n
      <4>1. task'[i] = task[i] /\ ItemKnows(i, task[i]) BY <2>1, <2>2, <3>1, TaskKinds DEF DurableParts
      <4> QED BY <1>3, <4>1 DEF ItemKnows
    <3>2. CASE i = n
      <4>1. record # "complete" => task[n].emb = "old"
        BY <1>3, <2>3 DEF CallKnows, Ends, Models
      <4> QED BY <1>2, <1>3, <2>2, <2>3, <3>2, <4>1 DEF ItemKnows, Derived
    <3> QED BY <3>1, <3>2
  <2> QED BY <1>3, <2>1, <2>4, <2>5, <2>6 DEF DurableParts
<1>7. Fresh'
  <2>1. FreshParts => /\ task[n].emb = resolve(record)
                      /\ \A r \in Recalls : task[r].pc \in {"rows", "install"} => holder = r
                      /\ \A g \in Ingests : InFlight(g) => n \in overlapped
    BY <1>1, <1>3 DEF FreshParts, Ends, RecallKnows, OverlapKnown, InFlight
  <2> QED BY <1>1, <1>2, <1>3, <2>1, FreshStep, TaskKinds DEF IInv, FreshParts
<1> QED BY <1>5, <1>6, <1>7 DEF IInv

LEMMA DeriveFailsStep ==
  ASSUME IInv, NEW n \in Notes, derive_fails(n) PROVE IInv'
<1>1. n \in Tasks /\ n \in Items /\ n \in Calls BY TaskKinds
<1>2. PICK q \in Locals : Moves(n, q) /\ q.pc = "failed" /\ q.emb = Nil /\ q.rows = {} /\ q.want = {}
  BY <1>1, EndedMoves DEF derive_fails, IInv, Places, Ends
<1>3. /\ UNCHANGED <<events, vectors, record, cell, indexed, holder, index, late, overlapped, switched, demoted>>
      /\ task[n].pc = "appended"
  BY DEF derive_fails, At, durable, idx, cache, hist
<1>4. TypeOK' BY <1>1, <1>2, <1>3, MoveFacts DEF IInv, TypeOK
<1>5. Durable'
  <2>1. CallKnows(q) BY <1>2, ModelsApart DEF CallKnows, Ends
  <2>2. ItemKnows(n, q) BY <1>2 DEF ItemKnows, Derived
  <2> QED BY <1>1, <1>2, <1>3, <2>1, <2>2, DurableStep, TaskKinds DEF IInv, DurableParts
<1>6. Fresh'
  <2>1. FreshParts => \A r \in Recalls : task[r].pc \in {"rows", "install"} => holder = r
    BY DEF FreshParts, RecallKnows
  <2> QED BY <1>1, <1>2, <1>3, <2>1, FreshStep, TaskKinds DEF IInv, FreshParts, Ends
<1> QED BY <1>4, <1>5, <1>6 DEF IInv

LEMMA RememberReturnsStep ==
  ASSUME IInv, NEW n \in Notes, remember_returns(n) PROVE IInv'
<1>1. n \in Tasks /\ n \in Items /\ n \in Calls BY TaskKinds
<1>2. PICK q \in Locals : Moves(n, q) /\ q.pc = "returned" /\ q.emb = Nil /\ q.rows = {} /\ q.want = {}
  BY <1>1, EndedMoves DEF remember_returns, IInv, Places, Ends
<1>3. /\ UNCHANGED <<events, vectors, record, cell, holder, index, late, overlapped, switched, demoted>>
      /\ task[n].pc = "derived" /\ holder = Nil /\ indexed' = FALSE
  BY DEF remember_returns, At, durable, cache, hist
<1>4. TypeOK' BY <1>1, <1>2, <1>3, MoveFacts DEF IInv, TypeOK
<1>5. Durable'
  <2>1. DurableParts => CallKnows(task[n]) /\ ItemKnows(n, task[n]) BY <1>1 DEF DurableParts
  <2>2. DurableParts => CallKnows(q) /\ ItemKnows(n, q)
    BY <1>2, <1>3, <2>1, ModelsApart DEF CallKnows, ItemKnows, Ends, Derived
  <2> QED BY <1>1, <1>2, <1>3, <2>2, DurableStep, TaskKinds DEF IInv, DurableParts
<1>6. Fresh'
  <2> SUFFICES ASSUME ~demoted, ~switched PROVE FreshParts' BY <1>3 DEF Fresh
  <2>1. FreshParts BY DEF IInv, Fresh
  <2>2. task'[n] = q /\ \A u \in Tasks : u # n => task'[u] = task[u] BY <1>1, <1>2, MoveFacts DEF IInv
  <2>3. Excused' = Excused /\ resolve(record)' = resolve(record) BY <1>3 DEF Excused, resolve
  <2>4. {i \in Notes : At(i, "returned")}' = {i \in Notes : At(i, "returned")} \cup {n}
    BY <1>2, <2>2, TaskKinds DEF At
  <2>5. Promised \subseteq Promised' BY <2>3, <2>4 DEF Promised
  <2>6. (\E g \in Ingests : InFlight(g)) => Promised' = Promised
    <3>1. (\E g \in Ingests : InFlight(g)) => n \in Excused
      BY <1>3, <2>1 DEF FreshParts, OverlapKnown, InFlight, Excused
    <3> QED BY <2>3, <2>4, <3>1 DEF Promised
  <2>7. \A r \in Recalls : RecallKnows(r, task[r])'
    <3> SUFFICES ASSUME NEW r \in Recalls PROVE RecallKnows(r, task[r])' OBVIOUS
    <3>1. PICK p : p = task[r] /\ p = task'[r] BY <1>1, <2>2, TaskKinds
    <3>2. RecallKnows(r, p) BY <2>1, <3>1 DEF FreshParts
    <3>3. p.pc \notin {"rows", "install"} BY <1>3, <3>2, NilAssumption DEF RecallKnows
    <3>4. Good(p.want) => Good(p.want)' BY <1>3, <2>3 DEF Good
    <3>5. /\ p.pc = "search" => Good(p.want)'
          /\ p.pc \notin Ends => p.want \subseteq Promised' \cup Excused'
          /\ p.pc = "idle" => p.rows \subseteq Excused'
      BY <2>3, <2>5, <3>2, <3>4 DEF RecallKnows
    <3> QED BY <3>1, <3>3, <3>5 DEF RecallKnows, Good
  <2>8. \A g \in Ingests : IngestKnows(task[g])'
    <3> SUFFICES ASSUME NEW g \in Ingests PROVE IngestKnows(task[g])' OBVIOUS
    <3>1. task'[g] = task[g] /\ IngestKnows(task[g]) BY <1>1, <2>1, <2>2, TaskKinds DEF FreshParts
    <3>2. task[g].pc \in {"install", "mark"} => Promised' = Promised BY <2>6 DEF InFlight
    <3>3. Good(Promised) /\ Promised' = Promised => Good(Promised)' BY <1>3, <2>3 DEF Good
    <3> QED BY <3>1, <3>2, <3>3 DEF IngestKnows
  <2>9. OverlapKnown'
    BY <1>1, <1>2, <1>3, <2>1, <2>2, TaskKinds DEF FreshParts, OverlapKnown, InFlight
  <2>10. \A u \in Calls : task'[u].pc \notin Ends => task'[u].emb = resolve(record)
    BY <1>2, <2>1, <2>2, TaskKinds DEF FreshParts, Ends
  <2>11. \A m \in Migrations : task'[m].pc \notin Switching
    BY <1>1, <2>1, <2>2, TaskKinds DEF FreshParts
  <2> QED BY <1>3, <2>1, <2>3, <2>7, <2>8, <2>9, <2>10, <2>11 DEF FreshParts
<1> QED BY <1>4, <1>5, <1>6 DEF IInv

-----------------------------------------------------------------------------
(* run_ingest *)

LEMMA IngestGrantStep ==
  ASSUME IInv, NEW g \in Ingests, ingest_grant(g) PROVE IInv'
<1>1. g \in Tasks /\ g \in Items /\ g \in Calls /\ g \notin Recalls /\ g \notin Notes BY TaskKinds
<1>2. PICK q \in Locals : /\ Moves(g, q) /\ q.pc = "rows"
                          /\ q.emb = task[g].emb /\ q.rows = task[g].rows /\ q.want = task[g].want
  BY <1>1, GotoMoves DEF ingest_grant, IInv, Places, Derived
<1>3. /\ UNCHANGED <<record, cell, indexed, holder, index, overlapped, switched, demoted>>
      /\ events' = events \cup {g} /\ late \subseteq late' /\ late' \subseteq late \cup {g}
      /\ BehindSnapshot(g) => g \in late'
      /\ vectors' = vectors \cup {<<g, task[g].emb>>} /\ task[g].pc = "ready"
  BY DEF ingest_grant, At, idx, cache
<1>4. task[g].emb \in Models \cup {Nil} BY <1>1, MyLocals DEF IInv, Locals
<1>5. TypeOK' BY <1>1, <1>2, <1>3, <1>4, MoveFacts DEF IInv, TypeOK
<1>6. Durable'
  <2> SUFFICES ASSUME ~demoted PROVE DurableParts' BY <1>3 DEF Durable
  <2>1. DurableParts BY DEF IInv, Durable
  <2>2. task'[g] = q /\ \A u \in Tasks : u # g => task'[u] = task[u] BY <1>1, <1>2, MoveFacts DEF IInv
  <2>3. CallKnows(q) /\ task[g].emb \in Models
    BY <1>1, <1>2, <1>3, <2>1 DEF DurableParts, CallKnows, Ends
  <2>4. \A u \in Calls : CallKnows(task[u])'
    BY <1>3, <2>1, <2>2, <2>3, TaskKinds DEF DurableParts, CallKnows
  <2>5. record # "complete" => task[g].emb = "old" BY <1>2, <2>3 DEF CallKnows, Models
  <2>6. \A m \in Migrations : MigrationKnows(task[m])'
    <3> SUFFICES ASSUME NEW m \in Migrations PROVE MigrationKnows(task[m])' OBVIOUS
    <3>1. task'[m] = task[m] /\ MigrationKnows(task[m]) BY <2>1, <2>2, <1>1, TaskKinds DEF DurableParts
    <3>2. record # "complete" /\ task[m].pc \in {"embed", "flip"} => g \in late'
      BY <1>3, <2>5 DEF BehindSnapshot, Snapshotted
    <3> QED BY <1>3, <3>1, <3>2 DEF MigrationKnows, Rows
  <2>7. \A i \in Items : ItemKnows(i, task[i])'
    <3> SUFFICES ASSUME NEW i \in Items PROVE ItemKnows(i, task[i])' OBVIOUS
    <3>1. CASE i # g
      <4>1. task'[i] = task[i] /\ ItemKnows(i, task[i]) BY <2>1, <2>2, <3>1, TaskKinds DEF DurableParts
      <4> QED BY <1>3, <3>1, <4>1 DEF ItemKnows
    <3>2. CASE i = g
      <4>1. record = "complete" => task[g].emb = "new" \/ g \in late'
        BY <1>3, <2>3 DEF BehindSnapshot, Models
      <4> QED BY <1>2, <1>3, <2>2, <2>5, <3>2, <4>1 DEF ItemKnows, Derived
    <3> QED BY <3>1, <3>2
  <2> QED BY <1>3, <2>1, <2>4, <2>6, <2>7 DEF DurableParts
<1>7. Fresh'
  <2>1. FreshParts => /\ task[g].emb = resolve(record)
                      /\ \A r \in Recalls : task[r].pc \in {"rows", "install"} => holder = r
                      /\ \A n \in Notes : InFlight(n) => n \in overlapped
    BY <1>1, <1>3 DEF FreshParts, Ends, RecallKnows, OverlapKnown, InFlight
  <2> QED BY <1>1, <1>2, <1>3, <2>1, FreshStep, TaskKinds DEF IInv, FreshParts, IngestKnows
<1> QED BY <1>5, <1>6, <1>7 DEF IInv

\* The later steps of an ingest leave its item where it is derived.
LEMMA IngestDurable ==
  ASSUME IInv, NEW g \in Ingests, NEW q \in Locals, Moves(g, q),
         UNCHANGED <<events, vectors, record, cell, late, demoted>>,
         (q.emb = task[g].emb /\ task[g].pc \notin Ends) \/ (q.emb = Nil /\ q.pc \in Ends),
         q.pc = "failed" \/ {q.pc, task[g].pc} \subseteq Derived
  PROVE  Durable'
<1>1. g \in Tasks /\ g \in Items /\ g \in Calls /\ g \notin Migrations BY TaskKinds
<1>2. DurableParts => CallKnows(task[g]) /\ ItemKnows(g, task[g]) BY <1>1 DEF DurableParts
<1>3. DurableParts => CallKnows(q) BY <1>2, ModelsApart DEF CallKnows
<1>4. DurableParts => ItemKnows(g, q) BY <1>2 DEF ItemKnows, Derived
<1> QED BY <1>1, <1>3, <1>4, DurableStep DEF IInv, DurableParts

LEMMA IngestInstallsStep ==
  ASSUME IInv, NEW g \in Ingests, ingest_installs(g) PROVE IInv'
<1>1. g \in Tasks /\ g \in Items /\ g \in Calls /\ g \notin Recalls BY TaskKinds
<1>2. PICK q \in Locals : /\ Moves(g, q) /\ q.pc = "mark"
                          /\ q.emb = task[g].emb /\ q.rows = task[g].rows /\ q.want = task[g].want
  BY <1>1, GotoMoves DEF ingest_installs, IInv, Places, Derived
<1>3. /\ UNCHANGED <<events, vectors, record, cell, indexed, holder, late, overlapped, switched, demoted>>
      /\ task[g].pc = "install"
  BY DEF ingest_installs, At, durable, cache, hist
<1>4. PICK new : new = [model |-> q.emb, items |-> q.rows] OBVIOUS
<1>5. index' = new BY <1>2, <1>4 DEF ingest_installs, Installed
<1>6. new \in Indexes /\ new.model = q.emb /\ new.items = q.rows BY <1>4 DEF Indexes, Locals
<1>7. TypeOK' BY <1>1, <1>2, <1>3, <1>5, <1>6, MoveFacts DEF IInv, TypeOK
<1>8. Durable' BY <1>2, <1>3, IngestDurable DEF Ends, Derived
<1>9. Fresh'
  <2> SUFFICES ASSUME ~demoted, ~switched PROVE FreshParts' BY <1>3 DEF Fresh
  <2>1. FreshParts BY DEF IInv, Fresh
  <2>2. IngestKnows(task[g]) /\ task[g].emb = resolve(record) BY <1>1, <1>3, <2>1 DEF FreshParts, Ends
  <2>3. Promised \subseteq q.rows BY <1>2, <1>3, <2>2 DEF IngestKnows
  <2>4. \A s \in Recalls : task[s].pc \in {"rows", "install"} => holder' = s
    BY <1>3, <2>1 DEF FreshParts, RecallKnows
  <2>5. InFlight(g) BY <1>3 DEF InFlight
  <2> QED BY <1>1, <1>2, <1>3, <1>5, <1>6, <2>1, <2>2, <2>3, <2>4, <2>5, InstallFresh DEF IInv
<1> QED BY <1>7, <1>8, <1>9 DEF IInv

LEMMA IngestReturnsStep ==
  ASSUME IInv, NEW g \in Ingests, ingest_returns(g) PROVE IInv'
<1>1. g \in Tasks /\ g \in Items /\ g \in Calls /\ g \notin Recalls /\ g \notin Notes BY TaskKinds
<1>2. PICK q \in Locals : Moves(g, q) /\ q.pc = "returned" /\ q.emb = Nil /\ q.rows = {} /\ q.want = {}
  BY <1>1, EndedMoves DEF ingest_returns, IInv, Places, Ends
<1>3. /\ UNCHANGED <<events, vectors, record, cell, holder, index, late, overlapped, switched, demoted>>
      /\ task[g].pc = "mark" /\ indexed' = TRUE
  BY DEF ingest_returns, At, durable, cache, hist
<1>4. TypeOK' BY <1>1, <1>2, <1>3, MoveFacts DEF IInv, TypeOK
<1>5. Durable' BY <1>2, <1>3, IngestDurable DEF Ends, Derived
<1>6. Fresh'
  <2>1. FreshParts => /\ Good(Promised)
                      /\ \A r \in Recalls : task[r].pc \in {"rows", "install"} => holder = r
    BY <1>3 DEF FreshParts, RecallKnows, IngestKnows
  <2> QED BY <1>1, <1>2, <1>3, <2>1, FreshStep, TaskKinds DEF IInv, FreshParts, Ends, IngestKnows
<1> QED BY <1>4, <1>5, <1>6 DEF IInv

LEMMA IngestFailsStep ==
  ASSUME IInv, NEW g \in Ingests, ingest_fails(g) PROVE IInv'
<1>1. g \in Tasks /\ g \in Items /\ g \in Calls /\ g \notin Recalls /\ g \notin Notes BY TaskKinds
<1>2. PICK q \in Locals : Moves(g, q) /\ q.pc = "failed" /\ q.emb = Nil /\ q.rows = {} /\ q.want = {}
  BY <1>1, EndedMoves DEF ingest_fails, IInv, Places, Ends
<1>3. UNCHANGED <<events, vectors, record, cell, indexed, holder, index, late, overlapped, switched, demoted>>
  BY DEF ingest_fails, durable, idx, cache, hist
<1>4. TypeOK' BY <1>1, <1>2, <1>3, MoveFacts DEF IInv, TypeOK
<1>5. Durable' BY <1>2, <1>3, IngestDurable DEF Ends
<1>6. Fresh'
  <2>1. FreshParts => \A r \in Recalls : task[r].pc \in {"rows", "install"} => holder = r
    BY DEF FreshParts, RecallKnows
  <2> QED BY <1>1, <1>2, <1>3, <2>1, FreshStep, TaskKinds DEF IInv, FreshParts, Ends, IngestKnows
<1> QED BY <1>4, <1>5, <1>6 DEF IInv

-----------------------------------------------------------------------------
(* set_active_model and run_language_migration *)

LEMMA SetModelStep ==
  ASSUME IInv, NEW m \in Migrations, set_active_model(m) PROVE IInv'
<1>1. m \in Tasks /\ m \notin Calls /\ m \notin Items /\ m \notin Recalls /\ m \notin Notes /\ m \notin Ingests
  BY TaskKinds
<1>2. PICK q \in Locals : /\ Moves(m, q) /\ q.pc = "write"
                          /\ q.emb = task[m].emb /\ q.rows = task[m].rows /\ q.want = task[m].want
  BY <1>1, GotoMoves DEF set_active_model, IInv, Places
<1>3. UNCHANGED <<events, vectors, record, cell, indexed, holder, index, late, overlapped, switched, demoted>>
  BY DEF set_active_model, durable, idx, cache, hist
<1>4. TypeOK' BY <1>1, <1>2, <1>3, MoveFacts DEF IInv, TypeOK
<1>5. Durable'
  BY <1>1, <1>2, <1>3, DurableStep DEF IInv, DurableParts, MigrationKnows, Switching
<1>6. Fresh'
  <2>1. FreshParts => \A r \in Recalls : task[r].pc \in {"rows", "install"} => holder = r
    BY DEF FreshParts, RecallKnows
  <2> QED BY <1>1, <1>2, <1>3, <2>1, FreshStep DEF IInv, FreshParts, Switching
<1> QED BY <1>4, <1>5, <1>6 DEF IInv

\* A record that was complete is counted as demoted; any other resolves as before.
LEMMA WriteInProgressStep ==
  ASSUME IInv, NEW m \in Migrations, write_in_progress(m) PROVE IInv'
<1>1. m \in Tasks /\ m \notin Calls /\ m \notin Items /\ m \notin Recalls /\ m \notin Notes /\ m \notin Ingests
  BY TaskKinds
<1>2. PICK q \in Locals : /\ Moves(m, q) /\ q.pc = "candidate"
                          /\ q.emb = task[m].emb /\ q.rows = task[m].rows /\ q.want = task[m].want
  BY <1>1, GotoMoves DEF write_in_progress, IInv, Places
<1>3. /\ UNCHANGED <<events, vectors, cell, indexed, holder, index, late, overlapped, switched>>
      /\ record' = "in_progress" /\ demoted' = (demoted \/ record = "complete")
  BY DEF write_in_progress, idx, cache
<1>4. TypeOK' BY <1>1, <1>2, <1>3, MoveFacts DEF IInv, TypeOK, Records
<1>5. task'[m] = q /\ \A u \in Tasks : u # m => task'[u] = task[u] BY <1>1, <1>2, MoveFacts DEF IInv
<1>6. Durable'
  <2> SUFFICES ASSUME ~demoted, record # "complete" PROVE DurableParts' BY <1>3 DEF Durable
  <2>1. DurableParts BY DEF IInv, Durable
  <2>2. \A u \in Calls : CallKnows(task[u])'
    BY <1>1, <1>3, <1>5, <2>1, TaskKinds DEF DurableParts, CallKnows
  <2>3. \A k \in Migrations : MigrationKnows(task[k])'
    BY <1>2, <1>3, <1>5, <2>1, TaskKinds DEF DurableParts, MigrationKnows, Rows, Switching
  <2>4. \A i \in Items : ItemKnows(i, task[i])'
    BY <1>1, <1>3, <1>5, <2>1, TaskKinds DEF DurableParts, ItemKnows
  <2> QED BY <1>3, <2>1, <2>2, <2>3, <2>4 DEF DurableParts
<1>7. Fresh'
  <2> SUFFICES ASSUME ~demoted, ~switched, record # "complete" PROVE FreshParts' BY <1>3 DEF Fresh
  <2>1. FreshParts BY DEF IInv, Fresh
  <2>2. resolve(record)' = resolve(record) /\ Excused' = Excused BY <1>3 DEF resolve, Excused
  <2>3. Promised' = Promised BY <1>1, <1>5, <2>2, TaskKinds DEF Promised, At
  <2>4. \A S : Good(S) => Good(S)' BY <1>3, <2>2 DEF Good
  <2>5. \A r \in Recalls : RecallKnows(r, task[r])'
    <3> SUFFICES ASSUME NEW r \in Recalls PROVE RecallKnows(r, task[r])' OBVIOUS
    <3>1. PICK p : p = task[r] /\ p = task'[r] BY <1>1, <1>5, TaskKinds
    <3>2. RecallKnows(r, p) BY <2>1, <3>1 DEF FreshParts
    <3>3. Good(p.want) => Good(p.want)' BY <2>4
    <3> QED BY <1>3, <2>2, <2>3, <3>1, <3>2, <3>3 DEF RecallKnows, Good
  <2>6. \A g \in Ingests : IngestKnows(task[g])'
    <3> SUFFICES ASSUME NEW g \in Ingests PROVE IngestKnows(task[g])' OBVIOUS
    <3>1. task'[g] = task[g] /\ IngestKnows(task[g]) BY <1>1, <1>5, <2>1, TaskKinds DEF FreshParts
    <3>2. Good(Promised) => Good(Promised)' BY <1>3, <2>2, <2>3 DEF Good
    <3> QED BY <2>3, <3>1, <3>2 DEF IngestKnows
  <2>7. OverlapKnown'
    BY <1>1, <1>3, <1>5, <2>1, TaskKinds DEF FreshParts, OverlapKnown, InFlight
  <2>8. \A u \in Calls : task'[u].pc \notin Ends => task'[u].emb = resolve(record)
    BY <1>1, <1>5, <2>1, TaskKinds DEF FreshParts
  <2>9. \A k \in Migrations : task'[k].pc \notin Switching
    BY <1>2, <1>5, <2>1, TaskKinds DEF FreshParts, Switching
  <2>10. (indexed => Good(Promised))' BY <1>3, <2>1, <2>2, <2>3 DEF FreshParts, Good
  <2> QED BY <1>3, <2>1, <2>2, <2>5, <2>6, <2>7, <2>8, <2>9, <2>10 DEF FreshParts
<1> QED BY <1>4, <1>6, <1>7 DEF IInv

LEMMA CandidateStep ==
  ASSUME IInv, NEW m \in Migrations, build_candidate(m) PROVE IInv'
<1>1. m \in Tasks /\ m \notin Calls /\ m \notin Items /\ m \notin Recalls /\ m \notin Notes /\ m \notin Ingests
  BY TaskKinds
<1>2. PICK all \in SUBSET Items : all = events BY DEF IInv, TypeOK
<1>3. PICK q : q = [Idle EXCEPT !.pc = "embed", !.emb = "new", !.rows = all] OBVIOUS
<1>4. q \in Locals /\ q.pc = "embed" /\ q.rows = events
  BY <1>2, <1>3 DEF Locals, Idle, Places, Models
<1>5. Moves(m, q) BY <1>2, <1>3 DEF build_candidate, Moves
<1>6. UNCHANGED <<events, vectors, record, cell, indexed, holder, index, late, overlapped, switched, demoted>>
  BY DEF build_candidate, durable, idx, cache, hist
<1>7. TypeOK' BY <1>1, <1>4, <1>5, <1>6, MoveFacts DEF IInv, TypeOK
<1>8. Durable'
  BY <1>1, <1>4, <1>5, <1>6, DurableStep DEF IInv, DurableParts, MigrationKnows, Switching
<1>9. Fresh'
  <2>1. FreshParts => \A r \in Recalls : task[r].pc \in {"rows", "install"} => holder = r
    BY DEF FreshParts, RecallKnows
  <2> QED BY <1>1, <1>4, <1>5, <1>6, <2>1, FreshStep DEF IInv, FreshParts, Switching
<1> QED BY <1>7, <1>8, <1>9 DEF IInv

LEMMA CountStep ==
  ASSUME IInv, NEW m \in Migrations, count_missing_vectors(m) PROVE IInv'
<1>1. m \in Tasks /\ m \notin Calls /\ m \notin Items /\ m \notin Recalls /\ m \notin Notes /\ m \notin Ingests
  BY TaskKinds
<1>2. PICK p \in Locals : p = task[m] BY <1>1, MyLocals DEF IInv
<1>3. PICK q : q = [p EXCEPT !.pc = "flip", !.rows = {}] OBVIOUS
<1>4. q \in Locals /\ q.pc = "flip" BY <1>3 DEF Locals, Places
<1>5. Moves(m, q) BY <1>2, <1>3 DEF count_missing_vectors, Moves
<1>6. /\ UNCHANGED <<events, vectors, record, cell, indexed, holder, index, late, overlapped, switched, demoted>>
      /\ p.pc = "embed" /\ p.rows \subseteq Rows("new")
  BY <1>2 DEF count_missing_vectors, At, durable, idx, cache, hist
<1>7. TypeOK' BY <1>1, <1>4, <1>5, <1>6, MoveFacts DEF IInv, TypeOK
<1>8. Durable'
  <2>1. DurableParts => MigrationKnows(p) BY <1>2 DEF DurableParts
  <2>2. DurableParts => MigrationKnows(q) BY <1>4, <1>6, <2>1 DEF MigrationKnows, Switching
  <2> QED BY <1>1, <1>4, <1>5, <1>6, <2>2, DurableStep DEF IInv, DurableParts
<1>9. Fresh'
  <2>1. FreshParts => \A r \in Recalls : task[r].pc \in {"rows", "install"} => holder = r
    BY DEF FreshParts, RecallKnows
  <2> QED BY <1>1, <1>4, <1>5, <1>6, <2>1, FreshStep DEF IInv, FreshParts, Switching
<1> QED BY <1>7, <1>8, <1>9 DEF IInv

LEMMA EmbedStep ==
  ASSUME IInv, NEW m \in Migrations, embed_and_upsert(m) PROVE IInv'
<1>1. PICK n \in Items : vectors' = vectors \cup {<<n, "new">>}
  BY DEF embed_and_upsert, At, IInv, TypeOK, Locals, Tasks
<1>2. UNCHANGED <<events, record, cell, indexed, holder, index, late, overlapped, switched, demoted, task>>
  BY DEF embed_and_upsert, idx, cache, hist
<1>3. TypeOK' BY <1>1, <1>2 DEF IInv, TypeOK, Models
<1>4. Durable'
  <2> SUFFICES ASSUME ~demoted PROVE DurableParts' BY <1>2 DEF Durable
  <2>1. DurableParts BY DEF IInv, Durable
  <2>2. \A k \in Migrations : MigrationKnows(task[k])'
    BY <1>1, <1>2, <2>1 DEF DurableParts, MigrationKnows, Rows
  <2>3. \A i \in Items : ItemKnows(i, task[i])' BY <1>1, <1>2, <2>1 DEF DurableParts, ItemKnows
  <2> QED BY <1>2, <2>1, <2>2, <2>3 DEF DurableParts, CallKnows
<1>5. Fresh'
  BY <1>2 DEF IInv, Fresh, FreshParts, RecallKnows, IngestKnows, OverlapKnown, InFlight, Good,
              Promised, Excused, At, resolve
<1> QED BY <1>3, <1>4, <1>5 DEF IInv

\* The commit point: what is appended and not late has its new vector.
LEMMA CompleteStep ==
  ASSUME IInv, NEW m \in Migrations, write_complete(m) PROVE IInv'
<1>1. m \in Tasks /\ m \notin Calls /\ m \notin Items BY TaskKinds
<1>2. PICK q \in Locals : /\ Moves(m, q) /\ q.pc = "publish"
                          /\ q.emb = task[m].emb /\ q.rows = task[m].rows /\ q.want = task[m].want
  BY <1>1, GotoMoves DEF write_complete, IInv, Places, Switching
<1>3. /\ UNCHANGED <<events, vectors, cell, indexed, holder, index, late, overlapped, demoted>>
      /\ task[m].pc = "flip" /\ record' = "complete" /\ switched'
  BY DEF write_complete, At, idx, cache
<1>4. TypeOK' BY <1>1, <1>2, <1>3, MoveFacts DEF IInv, TypeOK, Records
<1>5. task'[m] = q /\ \A u \in Tasks : u # m => task'[u] = task[u] BY <1>1, <1>2, MoveFacts DEF IInv
<1>6. Durable'
  <2> SUFFICES ASSUME ~demoted PROVE DurableParts' BY <1>3 DEF Durable
  <2>1. DurableParts BY DEF IInv, Durable
  <2>2. \A u \in Calls : CallKnows(task[u])'
    BY <1>1, <1>3, <1>5, <2>1, TaskKinds DEF DurableParts, CallKnows
  <2>3. \A k \in Migrations : MigrationKnows(task[k])' BY <1>3 DEF MigrationKnows
  <2>4. \A i \in Items : ItemKnows(i, task[i])'
    <3> SUFFICES ASSUME NEW i \in Items PROVE ItemKnows(i, task[i])' OBVIOUS
    <3>1. task'[i] = task[i] /\ ItemKnows(i, task[i]) BY <1>1, <1>5, <2>1, TaskKinds DEF DurableParts
    <3>2. MigrationKnows(task[m]) BY <2>1 DEF DurableParts
    <3>3. i \in events \ late /\ record # "complete" => <<i, "new">> \in vectors
      BY <1>3, <3>2 DEF MigrationKnows, Rows
    <3> QED BY <1>3, <3>1, <3>3 DEF ItemKnows
  <2> QED BY <1>3, <2>2, <2>3, <2>4 DEF DurableParts
<1>7. Fresh' BY <1>3 DEF Fresh
<1> QED BY <1>4, <1>6, <1>7 DEF IInv

\* Past the commit point the process has switched, and Fresh says nothing of it.
LEMMA AfterSwitch ==
  ASSUME IInv, NEW m \in Migrations, task[m].pc \in Switching, UNCHANGED <<demoted, switched>>
  PROVE  Fresh'
BY DEF IInv, Fresh, FreshParts

LEMMA PublishStep ==
  ASSUME IInv, NEW m \in Migrations, publish(m) PROVE IInv'
<1>1. m \in Tasks /\ m \notin Calls /\ m \notin Items BY TaskKinds
<1>2. PICK q \in Locals : /\ Moves(m, q) /\ q.pc = "invalidate"
                          /\ q.emb = task[m].emb /\ q.rows = task[m].rows /\ q.want = task[m].want
  BY <1>1, GotoMoves DEF publish, IInv, Places, Switching
<1>3. /\ UNCHANGED <<events, vectors, record, indexed, holder, index, late, overlapped, switched, demoted>>
      /\ task[m].pc = "publish" /\ cell' = "new"
  BY DEF publish, At, durable, idx, hist
<1>4. TypeOK' BY <1>1, <1>2, <1>3, MoveFacts DEF IInv, TypeOK, Models
<1>5. Durable'
  <2>1. DurableParts => record = "complete" BY <1>3 DEF DurableParts, MigrationKnows, Switching
  <2> QED BY <1>1, <1>2, <1>3, <2>1, DurableStep DEF IInv, MigrationKnows
<1>6. Fresh' BY <1>3, AfterSwitch DEF Switching
<1> QED BY <1>4, <1>5, <1>6 DEF IInv

LEMMA InvalidateStep ==
  ASSUME IInv, NEW m \in Migrations, invalidate(m) PROVE IInv'
<1>1. m \in Tasks /\ m \notin Calls /\ m \notin Items BY TaskKinds
<1>2. PICK q \in Locals : /\ Moves(m, q) /\ q.pc = "gc"
                          /\ q.emb = task[m].emb /\ q.rows = task[m].rows /\ q.want = task[m].want
  BY <1>1, GotoMoves DEF invalidate, IInv, Places, Switching
<1>3. /\ UNCHANGED <<events, vectors, record, cell, holder, index, late, overlapped, switched, demoted>>
      /\ task[m].pc = "invalidate"
  BY DEF invalidate, At, durable, cache, hist
<1>4. TypeOK' BY <1>1, <1>2, <1>3, MoveFacts DEF IInv, TypeOK
<1>5. Durable'
  <2>1. DurableParts => record = "complete" BY <1>3 DEF DurableParts, MigrationKnows, Switching
  <2> QED BY <1>1, <1>2, <1>3, <2>1, DurableStep DEF IInv, MigrationKnows
<1>6. Fresh' BY <1>3, AfterSwitch DEF Switching
<1> QED BY <1>4, <1>5, <1>6 DEF IInv

\* The old vectors go behind the commit point only.
LEMMA GcStep ==
  ASSUME IInv, NEW m \in Migrations, gc_stale_vectors(m) PROVE IInv'
<1>1. m \in Tasks /\ m \notin Calls /\ m \notin Items BY TaskKinds
<1>2. PICK q \in Locals : /\ Moves(m, q) /\ q.pc = "rows"
                          /\ q.emb = task[m].emb /\ q.rows = task[m].rows /\ q.want = task[m].want
  BY <1>1, GotoMoves DEF gc_stale_vectors, IInv, Places, Switching
<1>3. /\ UNCHANGED <<events, record, cell, indexed, holder, index, late, overlapped, switched, demoted>>
      /\ task[m].pc = "gc" /\ vectors' = Kept
  BY DEF gc_stale_vectors, At, idx, cache, hist
<1>4. TypeOK' BY <1>1, <1>2, <1>3, MoveFacts DEF IInv, TypeOK, Kept
<1>5. task'[m] = q /\ \A u \in Tasks : u # m => task'[u] = task[u] BY <1>1, <1>2, MoveFacts DEF IInv
<1>6. Durable'
  <2> SUFFICES ASSUME ~demoted PROVE DurableParts' BY <1>3 DEF Durable
  <2>1. DurableParts BY DEF IInv, Durable
  <2>2. record = "complete" BY <1>3, <2>1 DEF DurableParts, MigrationKnows, Switching
  <2>3. \A u \in Calls : CallKnows(task[u])'
    BY <1>1, <1>3, <1>5, <2>1, TaskKinds DEF DurableParts, CallKnows
  <2>4. \A i \in Items : ItemKnows(i, task[i])'
    <3> SUFFICES ASSUME NEW i \in Items PROVE ItemKnows(i, task[i])' OBVIOUS
    <3>1. task'[i] = task[i] /\ ItemKnows(i, task[i]) BY <1>1, <1>5, <2>1, TaskKinds DEF DurableParts
    <3>2. <<i, "new">> \in vectors => <<i, "new">> \in vectors' BY <1>3 DEF Kept
    <3> QED BY <1>3, <2>2, <3>1, <3>2 DEF ItemKnows
  <2>5. \A k \in Migrations : MigrationKnows(task[k])' BY <1>3, <2>2 DEF MigrationKnows
  <2> QED BY <1>3, <2>2, <2>3, <2>4, <2>5 DEF DurableParts
<1>7. Fresh' BY <1>3, AfterSwitch DEF Switching
<1> QED BY <1>4, <1>6, <1>7 DEF IInv

LEMMA FinalizeStep ==
  ASSUME IInv, NEW m \in Migrations, finalize_installs(m) PROVE IInv'
<1>1. m \in Tasks /\ m \notin Calls /\ m \notin Items BY TaskKinds
<1>2. Moves(m, Idle) /\ task[m].pc = "install" BY DEF finalize_installs, Moves, At
<1>3. UNCHANGED <<events, vectors, record, cell, indexed, holder, late, overlapped, switched, demoted>>
  BY DEF finalize_installs, durable, cache, hist
<1>4. PICK p \in Locals : p = task[m] BY <1>1, MyLocals DEF IInv
<1>5. [model |-> p.emb, items |-> p.rows] \in Indexes BY DEF Locals, Indexes
<1>6. index' \in Indexes BY <1>4, <1>5 DEF finalize_installs, Installed
<1>7. TypeOK' BY <1>1, <1>2, <1>3, <1>6, MoveFacts, IdleFacts DEF IInv, TypeOK
<1>8. Durable'
  BY <1>1, <1>2, <1>3, IdleFacts, DurableStep DEF IInv, DurableParts, MigrationKnows, Switching
<1>9. Fresh' BY <1>2, <1>3, AfterSwitch DEF Switching
<1> QED BY <1>7, <1>8, <1>9 DEF IInv

LEMMA MigrationFailsStep ==
  ASSUME IInv, NEW m \in Migrations, migration_fails(m) PROVE IInv'
<1>1. m \in Tasks /\ m \notin Calls /\ m \notin Items /\ m \notin Recalls /\ m \notin Notes /\ m \notin Ingests
  BY TaskKinds
<1>2. Moves(m, Idle) BY DEF migration_fails, Moves
<1>3. UNCHANGED <<events, vectors, record, cell, indexed, holder, index, late, overlapped, switched, demoted>>
  BY DEF migration_fails, durable, idx, hist
<1>4. TypeOK' BY <1>1, <1>2, <1>3, MoveFacts, IdleFacts DEF IInv, TypeOK
<1>5. Durable'
  BY <1>1, <1>2, <1>3, IdleFacts, DurableStep DEF IInv, DurableParts, MigrationKnows, Switching
<1>6. Fresh'
  <2>1. FreshParts => \A r \in Recalls : task[r].pc \in {"rows", "install"} => holder = r
    BY DEF FreshParts, RecallKnows
  <2> QED BY <1>1, <1>2, <1>3, <2>1, IdleFacts, FreshStep DEF IInv, FreshParts, Switching
<1> QED BY <1>4, <1>5, <1>6 DEF IInv

-----------------------------------------------------------------------------
(* The process and its environment *)

LEMMA KilledFacts ==
  ASSUME NEW t \in Tasks, NEW q, q = Killed(t)
  PROVE  /\ q \in Locals /\ q.pc \in Ends /\ q.emb = Nil /\ q.rows = {} /\ q.want = {}
         /\ t \notin Items => q.pc = "idle"
         /\ q.pc = "returned" <=> (t \in Items /\ task[t].pc = "returned")
         /\ t \in Items /\ q.pc = "idle" => task[t].pc = "idle"
<1>1. CASE t \in Items /\ task[t].pc # "idle"
  <2>1. PICK l \in {"returned", "failed"} : l = IF At(t, "returned") THEN "returned" ELSE "failed"
    OBVIOUS
  <2>2. q = [Idle EXCEPT !.pc = l] BY <1>1, <2>1 DEF Killed
  <2> QED BY <1>1, <2>1, <2>2 DEF Idle, Locals, Places, Ends, At
<1>2. CASE ~(t \in Items /\ task[t].pc # "idle")
  <2>1. q = Idle BY <1>2 DEF Killed
  <2> QED BY <1>2, <2>1, IdleFacts DEF Ends
<1> QED BY <1>1, <1>2

LEMMA CrashStep ==
  ASSUME IInv, Crash PROVE IInv'
<1>1. /\ UNCHANGED <<events, vectors, record, demoted>>
      /\ cell' = Nil /\ indexed' = FALSE /\ index' = Nil
      /\ late' = (IF record = "complete" THEN late ELSE {})
  BY DEF Crash, durable
<1>2. task' = [t \in Tasks |-> Killed(t)] BY DEF Crash
<1>3. \A t \in Tasks :
        /\ task'[t] \in Locals /\ task'[t].pc \in Ends
        /\ task'[t].emb = Nil /\ task'[t].rows = {} /\ task'[t].want = {}
        /\ t \notin Items => task'[t].pc = "idle"
        /\ task'[t].pc = "returned" <=> (t \in Items /\ task[t].pc = "returned")
        /\ t \in Items /\ task'[t].pc = "idle" => task[t].pc = "idle"
  <2> SUFFICES ASSUME NEW t \in Tasks
               PROVE /\ task'[t] \in Locals /\ task'[t].pc \in Ends
                     /\ task'[t].emb = Nil /\ task'[t].rows = {} /\ task'[t].want = {}
                     /\ t \notin Items => task'[t].pc = "idle"
                     /\ task'[t].pc = "returned" <=> (t \in Items /\ task[t].pc = "returned")
                     /\ t \in Items /\ task'[t].pc = "idle" => task[t].pc = "idle"
    OBVIOUS
  <2>1. PICK q : q = Killed(t) OBVIOUS
  <2>2. task'[t] = q BY <1>2, <2>1
  <2> QED BY <2>1, <2>2, KilledFacts
<1>4. TypeOK' BY <1>1, <1>2, <1>3 DEF IInv, TypeOK
<1>5. Durable'
  <2> SUFFICES ASSUME ~demoted PROVE DurableParts' BY <1>1 DEF Durable
  <2>1. DurableParts BY DEF IInv, Durable
  <2>2. \A u \in Calls : CallKnows(task[u])'
    BY <1>1, <1>3, TaskKinds, ModelsApart DEF CallKnows
  <2>3. \A k \in Migrations : MigrationKnows(task[k])'
    BY <1>1, <1>3, TaskKinds DEF MigrationKnows, Ends, Switching
  <2>4. \A i \in Items : ItemKnows(i, task[i])'
    <3> SUFFICES ASSUME NEW i \in Items PROVE ItemKnows(i, task[i])' OBVIOUS
    <3>1. ItemKnows(i, task[i]) /\ i \in Tasks BY <2>1, TaskKinds DEF DurableParts
    <3>2. task'[i].pc \in Derived => task[i].pc = "returned" BY <1>3, <3>1 DEF Derived, Ends
    <3>3. task'[i].pc # "appended" /\ (task[i].pc = "failed" => task'[i].pc = "failed")
      BY <1>3, <3>1 DEF Ends
    <3>4. task[i].pc = "appended" => task'[i].pc = "failed" BY <1>3, <3>1 DEF Ends
    <3> QED BY <1>1, <3>1, <3>2, <3>3, <3>4 DEF ItemKnows, Derived
  <2> QED BY <1>1, <2>2, <2>3, <2>4, ModelsApart DEF DurableParts
<1>6. Fresh'
  <2>1. \A r \in Recalls : RecallKnows(r, task[r])' BY <1>3, TaskKinds DEF RecallKnows, Ends
  <2>2. \A g \in Ingests : IngestKnows(task[g])' BY <1>3, TaskKinds DEF IngestKnows, Ends
  <2>3. OverlapKnown' BY <1>3, TaskKinds DEF OverlapKnown, InFlight, Ends
  <2>4. \A m \in Migrations : task'[m].pc \notin Switching BY <1>3, TaskKinds DEF Switching
  <2> QED BY <1>1, <1>3, <2>1, <2>2, <2>3, <2>4, TaskKinds DEF Fresh, FreshParts
<1> QED BY <1>4, <1>5, <1>6 DEF IInv

\* A migration taken up again starts from its candidate; a sweep keeps the new vectors.
LEMMA ResumeStep ==
  ASSUME IInv, resume_migration_if_pending PROVE IInv'
<1>1. /\ UNCHANGED <<events, record, cell, indexed, holder, index, late, overlapped, switched, demoted>>
      /\ vectors' \subseteq vectors
      /\ record # "complete" => vectors' = vectors
      /\ \A i : <<i, "new">> \in vectors => <<i, "new">> \in vectors'
  BY DEF resume_migration_if_pending, Kept, idx, cache, hist
<1>2. CASE UNCHANGED task
  <2>1. TypeOK' BY <1>1, <1>2 DEF IInv, TypeOK
  <2>2. Durable'
    BY <1>1, <1>2 DEF IInv, Durable, DurableParts, CallKnows, MigrationKnows, ItemKnows, Rows
  <2>3. Fresh'
    BY <1>1, <1>2 DEF IInv, Fresh, FreshParts, RecallKnows, IngestKnows, OverlapKnown, InFlight,
                      Good, Promised, Excused, At, resolve
  <2> QED BY <2>1, <2>2, <2>3 DEF IInv
<1>3. CASE ~UNCHANGED task
  <2>1. PICK m \in Migrations : Goto(m, "candidate") /\ record = "in_progress" /\ vectors' = vectors
    BY <1>3 DEF resume_migration_if_pending
  <2>2. m \in Tasks /\ m \notin Calls /\ m \notin Items /\ m \notin Recalls /\ m \notin Notes
        /\ m \notin Ingests
    BY TaskKinds
  <2>3. PICK q \in Locals : Moves(m, q) /\ q.pc = "candidate" BY <2>1, <2>2, GotoMoves DEF IInv, Places
  <2>4. TypeOK' BY <1>1, <2>1, <2>2, <2>3, MoveFacts DEF IInv, TypeOK
  <2>5. Durable'
    BY <1>1, <2>1, <2>2, <2>3, DurableStep DEF IInv, DurableParts, MigrationKnows, Switching
  <2>6. Fresh'
    <3>1. FreshParts => \A r \in Recalls : task[r].pc \in {"rows", "install"} => holder = r
      BY DEF FreshParts, RecallKnows
    <3> QED BY <1>1, <2>1, <2>2, <2>3, <3>1, FreshStep DEF IInv, FreshParts, Switching
  <2> QED BY <2>4, <2>5, <2>6 DEF IInv
<1> QED BY <1>2, <1>3

\* What concerns neither tasks nor vectors nor the index
LEMMA SameStep ==
  ASSUME IInv, UNCHANGED <<events, vectors, record, cell, indexed, holder, index, task, late,
                           overlapped, switched, demoted>>
  PROVE  IInv'
<1>1. TypeOK' BY DEF IInv, TypeOK
<1>2. Durable'
  BY DEF IInv, Durable, DurableParts, CallKnows, MigrationKnows, ItemKnows, Rows, At
<1>3. Fresh'
  BY DEF IInv, Fresh, FreshParts, RecallKnows, IngestKnows, OverlapKnown, InFlight,
         Good, Promised, Excused, At, resolve
<1> QED BY <1>1, <1>2, <1>3 DEF IInv

-----------------------------------------------------------------------------
LEMMA Initially == Init => IInv
<1> SUFFICES ASSUME Init PROVE IInv OBVIOUS
<1>1. \A t \in Tasks : task[t] = Idle BY DEF Init
<1>2. \A t \in Tasks : task[t].pc = "idle" /\ task[t].emb = Nil /\ task[t].rows = {}
  BY <1>1, IdleFacts
<1>3. TypeOK BY IdleFacts DEF Init, TypeOK, Records
<1>4. DurableParts
  <2>1. \A u \in Calls : CallKnows(task[u]) BY <1>2, TaskKinds, ModelsApart DEF CallKnows, Ends
  <2>2. \A m \in Migrations : MigrationKnows(task[m])
    BY <1>2, TaskKinds DEF MigrationKnows, Switching
  <2>3. \A n \in Items : ItemKnows(n, task[n]) BY <1>2, TaskKinds DEF ItemKnows, Derived, Init
  <2> QED BY <2>1, <2>2, <2>3, ModelsApart DEF DurableParts, Init
<1>5. FreshParts
  <2>1. \A r \in Recalls : RecallKnows(r, task[r]) BY <1>2, TaskKinds DEF RecallKnows, Ends
  <2>2. \A g \in Ingests : IngestKnows(task[g]) BY <1>2, TaskKinds DEF IngestKnows
  <2>3. OverlapKnown BY <1>2, TaskKinds DEF OverlapKnown, InFlight
  <2> QED BY <1>2, <2>1, <2>2, <2>3, TaskKinds DEF FreshParts, Init, Ends, Switching
<1> QED BY <1>3, <1>4, <1>5 DEF IInv, Durable, Fresh

LEMMA Inductive == IInv /\ [Next]_vars => IInv'
<1> SUFFICES ASSUME IInv, [Next]_vars PROVE IInv' OBVIOUS
<1>1. ASSUME NEW r \in Recalls, recall(r) PROVE IInv'
  BY <1>1, EmbedderStep, CacheStep, EnsureStep, ReadRowsStep, RebuiltStep, RebuildFailsStep,
     SearchStep, TaskKinds DEF recall
<1>2. ASSUME NEW n \in Notes, remember(n) PROVE IInv'
  BY <1>2, EmbedderStep, CacheStep, AppendStep, DeriveStep, DeriveFailsStep, RememberReturnsStep,
     TaskKinds DEF remember
<1>3. ASSUME NEW g \in Ingests, run_ingest(g) PROVE IInv'
  BY <1>3, EmbedderStep, CacheStep, IngestGrantStep, ReadRowsStep, IngestInstallsStep,
     IngestReturnsStep, IngestFailsStep, TaskKinds DEF run_ingest
<1>4. ASSUME NEW m \in Migrations, run_language_migration(m) PROVE IInv'
  BY <1>4, SetModelStep, WriteInProgressStep, CandidateStep, EmbedStep, CountStep, CompleteStep,
     PublishStep, InvalidateStep, GcStep, ReadRowsStep, FinalizeStep, MigrationFailsStep
  DEF run_language_migration
<1>5. CASE PackVanishes \/ PackDownloaded
  BY <1>5, SameStep DEF PackVanishes, PackDownloaded, durable, cache, idx, hist
<1>6. CASE UNCHANGED vars BY <1>6, SameStep DEF vars, durable, cache, idx, hist
<1> QED BY <1>1, <1>2, <1>3, <1>4, <1>5, <1>6, CrashStep, ResumeStep DEF Next

LEMMA Invariance == Spec => []IInv
BY Initially, Inductive, PTL DEF Spec

\* I5 (the crash safety of run_language_migration): an acknowledged memory has a vector
\* under the model that embedder_for would resolve after a restart, wherever a
\* migration, its repetition or its boot sweep was cut off.
THEOREM MemoriesSurvive == Spec => []VectorsSurvive
<1>1. IInv => VectorsSurvive
  <2> SUFFICES ASSUME IInv, ~demoted, NEW n \in Returned \ late
               PROVE  <<n, resolve(record)>> \in vectors
    BY DEF VectorsSurvive
  <2>1. n \in Items /\ task[n].pc = "returned" BY DEF Returned, At
  <2>2. ItemKnows(n, task[n]) BY <2>1 DEF IInv, Durable, DurableParts
  <2>3. n \in events BY <2>1, <2>2 DEF ItemKnows, Derived
  <2> QED BY <2>1, <2>2, <2>3 DEF ItemKnows, Derived, resolve
<1> QED BY <1>1, Invariance, PTL

\* A recall that starts after remember has returned finds the note: ensure_indexed and
\* run_ingest only mark an index that misses nothing but excused notes.
THEOREM RememberedIsFound == Spec => []RecallSeesRemembered
<1>1. IInv => RecallSeesRemembered
  BY DEF IInv, Fresh, FreshParts, RecallSeesRemembered, RecallKnows, Missed, Excused, At
<1> QED BY <1>1, Invariance, PTL

=============================================================================
