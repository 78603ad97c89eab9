---------------------------- MODULE RecallIndex ----------------------------
(***************************************************************************)
(* Which memories a recall can find: the embedder cache, the persisted     *)
(* vectors and the in-memory vector index of bossclawd, while the language *)
(* pack migration swaps the embedding model (engine/mod.rs, engine/embed.rs*)
(* and the vector part of log.rs).                                         *)
(*                                                                         *)
(* Every call and every migration is a task on its own thread.  A vector   *)
(* is a pair <<item, model>>; searching an index of one model with a query *)
(* embedded by another finds nothing of use.  Events, vectors and the      *)
(* signed record are durable; the embedder cell, the index and the indexed *)
(* flag die with the process.  The keyword index, the graph and the entity *)
(* vectors, which go through the same steps, are left out.                 *)
(***************************************************************************)
EXTENDS Naturals, FiniteSets

CONSTANTS
    Recalls,      \* callers of recall, one call after another each
    Notes,        \* remember calls, each named after the note it appends
    Ingests,      \* run_ingest calls, each named after the file it finds
    Migrations,   \* migration tasks
    MaxFaults,    \* bound: crashes, failed steps and losses of the pack's files
    Nil

ASSUME MaxFaultsAssumption == MaxFaults \in Nat

VARIABLES
    events,       \* items appended to the event log
    vectors,      \* rows of the vectors table: <<item, model>>
    record,       \* migration state of the signed language_pack record
    pack,         \* the pack's files are on disk and match their sha
    up,           \* boot is over: calls are accepted
    cell,         \* the provider's embedder cache
    state,        \* the provider's ModelState
    indexed,      \* EngineHandle.indexed: the index is current
    holder,       \* the task holding the indexed mutex across an await
    index,        \* the in-memory vector index
    task,         \* where each task is
    faults,       \* how many faults there were
    late,         \* history: appended for the old model behind a migration's snapshot
    overlapped,   \* history: items whose call overlapped an ingest
    switched,     \* history: this process has flipped the record to complete
    demoted       \* history: a complete record was set back to in_progress

durable == <<events, vectors, record>>
cache == <<cell, state>>
idx == <<indexed, holder, index>>
env == <<pack, up, faults>>
hist == <<late, overlapped, switched, demoted>>
vars == <<durable, cache, idx, env, hist, task>>

Models == {"old", "new"}
Items == Notes \cup Ingests
Calls == Recalls \cup Items
Tasks == Calls \cup Migrations
Records == {"absent", "in_progress", "complete"}

ASSUME TasksAssumption ==
    /\ Recalls \cap Items = {} /\ Notes \cap Ingests = {}
    /\ Migrations \cap Calls = {}

ASSUME NilAssumption ==
    /\ Nil \notin Recalls \cup Models
    /\ Nil \notin [model : Models \cup {Nil}, items : SUBSET Items]

Idle == [pc |-> "idle", emb |-> Nil, rows |-> {}, want |-> {}]

Fault == faults < MaxFaults /\ faults' = faults + 1

Goto(t, l) == task' = [task EXCEPT ![t].pc = l]
Ended(t, l) == task' = [task EXCEPT ![t] = [Idle EXCEPT !.pc = l]]
At(t, l) == task[t].pc = l

\* vectors_for_model
Rows(m) == {n \in Items : <<n, m>> \in vectors}

Returned == {n \in Items : At(n, "returned")}
InFlight(n) == task[n].pc \notin {"idle", "returned", "failed"}

\* A migration past its reembed_prepare snapshot
Snapshotted(m) == task[m].pc \notin {"idle", "write", "candidate"}

BehindSnapshot(n) ==
    task[n].emb = "old" /\ (record = "complete" \/ \E m \in Migrations : Snapshotted(m))

-----------------------------------------------------------------------------
(* EmbedderProvider *)

resolve(r) == IF r = "complete" THEN "new" ELSE "old"

Overlap(t) ==
    overlapped' = overlapped \cup
        (IF t \in Ingests THEN {n \in Items : InFlight(n)}
         ELSE IF t \in Notes /\ \E g \in Ingests : InFlight(g) THEN {t} ELSE {})

\* The first thing recall, remember and run_ingest do.  A cached embedder is
\* taken; otherwise the model is resolved from the record and loaded, off the
\* cell's lock, and a pack that is enabled but unusable refuses the call.  An
\* ingest during another one is Busy (ingest_lock).
embedder_for(t) ==
    /\ up
    /\ At(t, "idle")
    /\ t \in Ingests => \A g \in Ingests : ~InFlight(g)
    /\ LET want == IF t \in Recalls THEN Returned \cap Notes ELSE {}
           with(l, e) == task' = [task EXCEPT ![t] = [pc |-> l, emb |-> e, rows |-> {}, want |-> want]]
       IN \/ /\ cell # Nil
             /\ with("ready", cell)
             /\ UNCHANGED state
          \/ /\ cell = Nil
             /\ IF resolve(record) = "new" /\ ~pack
                THEN state' = "missing" /\ UNCHANGED task
                ELSE state' = "ok" /\ with("loaded", resolve(record))
    /\ Overlap(t)
    /\ UNCHANGED <<durable, cell, idx, env, late, switched, demoted>>

\* The loaded embedder is stored over whatever the cell holds by now.
cache_embedder(t) ==
    /\ At(t, "loaded")
    /\ cell' = task[t].emb
    /\ Goto(t, "ready")
    /\ UNCHANGED <<durable, state, idx, env, hist>>

-----------------------------------------------------------------------------
(* recall: ensure_indexed, then the search *)

\* Seeded fault: the index is marked current before it is rebuilt.
MarkBeforeRebuild(r) ==
    /\ At(r, "ready")
    /\ holder = Nil
    /\ indexed' = TRUE
    /\ IF indexed
       THEN Goto(r, "search") /\ UNCHANGED holder
       ELSE Goto(r, "rows") /\ UNCHANGED holder
    /\ UNCHANGED <<durable, cache, index, env, hist>>

ensure_indexed(r) ==
    /\ At(r, "ready")
    /\ holder = Nil
    /\ IF indexed
       THEN Goto(r, "search") /\ UNCHANGED holder
       ELSE Goto(r, "rows") /\ holder' = r
    /\ UNCHANGED <<durable, cache, indexed, index, env, hist>>

\* rebuild_indexes, in two steps: the rows are read, the index is installed.
read_rows(t) ==
    /\ At(t, "rows")
    /\ task' = [task EXCEPT ![t] = [@ EXCEPT !.pc = "install", !.rows = Rows(task[t].emb)]]
    /\ UNCHANGED <<durable, cache, idx, env, hist>>

Installed(t) == [model |-> task[t].emb, items |-> task[t].rows]

\* The rebuild of ensure_indexed ends with the flag set and the mutex released.
recall_rebuilt(r) ==
    /\ At(r, "install")
    /\ index' = Installed(r)
    /\ indexed' = TRUE
    /\ holder' = Nil
    /\ Goto(r, "search")
    /\ UNCHANGED <<durable, cache, env, hist>>

rebuild_fails(r) ==
    /\ At(r, "install")
    /\ Fault
    /\ holder' = Nil
    /\ task' = [task EXCEPT ![r] = Idle]
    /\ UNCHANGED <<durable, cache, indexed, index, pack, up, hist>>

Hits(e) == IF index # Nil /\ index.model = e THEN index.items ELSE {}

\* The call returns; what it should have found and did not is kept in rows.
search(r) ==
    /\ At(r, "search")
    /\ task' = [task EXCEPT ![r] = [Idle EXCEPT !.rows = task[r].want \ Hits(task[r].emb)]]
    /\ UNCHANGED <<durable, cache, idx, env, hist>>

-----------------------------------------------------------------------------
(* remember *)

append(n) ==
    /\ At(n, "ready")
    /\ events' = events \cup {n}
    /\ late' = IF BehindSnapshot(n) THEN late \cup {n} ELSE late
    /\ Goto(n, "appended")
    /\ UNCHANGED <<vectors, record, cache, idx, env, overlapped, switched, demoted>>

derive_vector(n) ==
    /\ At(n, "appended")
    /\ vectors' = vectors \cup {<<n, task[n].emb>>}
    /\ Goto(n, "derived")
    /\ UNCHANGED <<events, record, cache, idx, env, hist>>

\* The event is durable although the call returns an error.
derive_fails(n) ==
    /\ At(n, "appended")
    /\ Fault
    /\ Ended(n, "failed")
    /\ UNCHANGED <<durable, cache, idx, pack, up, hist>>

\* Seeded fault: the note is returned with the index still marked current.
ReturnWithoutInvalidating(n) ==
    /\ At(n, "derived")
    /\ Ended(n, "returned")
    /\ UNCHANGED <<durable, cache, idx, env, hist>>

remember_returns(n) ==
    /\ At(n, "derived")
    /\ holder = Nil
    /\ indexed' = FALSE
    /\ Ended(n, "returned")
    /\ UNCHANGED <<durable, cache, holder, index, env, hist>>

-----------------------------------------------------------------------------
(* run_ingest: append and embed what the walk found, rebuild, mark current *)

ingest_grant(g) ==
    /\ At(g, "ready")
    /\ events' = events \cup {g}
    /\ late' = IF BehindSnapshot(g) THEN late \cup {g} ELSE late
    /\ vectors' = vectors \cup {<<g, task[g].emb>>}
    /\ Goto(g, "rows")
    /\ UNCHANGED <<record, cache, idx, env, overlapped, switched, demoted>>

\* ingest_all installs its index without the indexed mutex.
ingest_installs(g) ==
    /\ At(g, "install")
    /\ index' = Installed(g)
    /\ Goto(g, "mark")
    /\ UNCHANGED <<durable, cache, indexed, holder, env, hist>>

ingest_returns(g) ==
    /\ At(g, "mark")
    /\ holder = Nil
    /\ indexed' = TRUE
    /\ Ended(g, "returned")
    /\ UNCHANGED <<durable, cache, holder, index, env, hist>>

\* The walk, the rebuild or the active-model event after it fails.
ingest_fails(g) ==
    /\ task[g].pc \in {"ready", "rows", "install", "mark"}
    /\ Fault
    /\ Ended(g, "failed")
    /\ UNCHANGED <<durable, cache, idx, pack, up, hist>>

-----------------------------------------------------------------------------
(* set_active_model and run_language_migration *)

\* The enable is a no-op for a healthy complete record, and an error when
\* build_candidate cannot verify the pack.
set_active_model(m) ==
    /\ up
    /\ At(m, "idle")
    /\ ~(state = "ok" /\ record = "complete")
    /\ pack
    /\ Goto(m, "write")
    /\ UNCHANGED <<durable, cache, idx, env, hist>>

write_in_progress(m) ==
    /\ At(m, "write")
    /\ record' = "in_progress"
    /\ demoted' = (demoted \/ record = "complete")
    /\ Goto(m, "candidate")
    /\ UNCHANGED <<events, vectors, cache, idx, env, late, overlapped, switched>>

\* The candidate is built, and reembed_prepare lists the embeddable events,
\* once: each that lacks a new-model vector is embedded, and the list is
\* checked for completeness.
build_candidate(m) ==
    /\ At(m, "candidate")
    /\ pack
    /\ task' = [task EXCEPT ![m] = [Idle EXCEPT !.pc = "embed", !.emb = "new", !.rows = events]]
    /\ UNCHANGED <<durable, cache, idx, env, hist>>

embed_and_upsert(m) ==
    /\ At(m, "embed")
    /\ \E n \in task[m].rows \ Rows("new") : vectors' = vectors \cup {<<n, "new">>}
    /\ UNCHANGED <<events, record, cache, idx, env, hist, task>>

count_missing_vectors(m) ==
    /\ At(m, "embed")
    /\ task[m].rows \subseteq Rows("new")
    /\ task' = [task EXCEPT ![m] = [@ EXCEPT !.pc = "flip", !.rows = {}]]
    /\ UNCHANGED <<durable, cache, idx, env, hist>>

\* The commit point.
write_complete(m) ==
    /\ At(m, "flip")
    /\ record' = "complete"
    /\ switched' = TRUE
    /\ Goto(m, "publish")
    /\ UNCHANGED <<events, vectors, cache, idx, env, late, overlapped, demoted>>

publish(m) ==
    /\ At(m, "publish")
    /\ cell' = "new"
    /\ state' = "ok"
    /\ Goto(m, "invalidate")
    /\ UNCHANGED <<durable, idx, env, hist>>

invalidate(m) ==
    /\ At(m, "invalidate")
    /\ holder = Nil
    /\ indexed' = FALSE
    /\ Goto(m, "gc")
    /\ UNCHANGED <<durable, cache, holder, index, env, hist>>

Kept == {v \in vectors : v[2] = "new"}

gc_stale_vectors(m) ==
    /\ At(m, "gc")
    /\ vectors' = Kept
    /\ Goto(m, "rows")
    /\ UNCHANGED <<events, record, cache, idx, env, hist>>

\* reembed_finalize_gc installs its index without the indexed mutex too.
finalize_installs(m) ==
    /\ At(m, "install")
    /\ index' = Installed(m)
    /\ task' = [task EXCEPT ![m] = Idle]
    /\ UNCHANGED <<durable, cache, indexed, holder, env, hist>>

\* Any step but the publish can return an error; what it did stays done.
migration_fails(m) ==
    /\ task[m].pc \in {"candidate", "embed", "flip", "gc", "rows", "install"}
    /\ IF At(m, "candidate") /\ ~pack THEN UNCHANGED faults ELSE Fault
    /\ state' = "failed"
    /\ task' = [task EXCEPT ![m] = Idle]
    /\ UNCHANGED <<durable, cell, idx, pack, up, hist>>

-----------------------------------------------------------------------------
(* The process and its environment *)

Killed(t) ==
    IF t \in Items /\ task[t].pc # "idle"
    THEN [Idle EXCEPT !.pc = IF At(t, "returned") THEN "returned" ELSE "failed"]
    ELSE Idle

Crash ==
    /\ up
    /\ Fault
    /\ up' = FALSE
    /\ cell' = Nil
    /\ state' = "ok"
    /\ indexed' = FALSE
    /\ holder' = Nil
    /\ index' = Nil
    /\ task' = [t \in Tasks |-> Killed(t)]
    /\ late' = IF record = "complete" THEN late ELSE {}
    /\ overlapped' = {}
    /\ switched' = FALSE
    /\ UNCHANGED <<durable, pack, demoted>>

\* Seeded fault: the boot sweep runs for a record in progress as well.
ResumeSweepsAlways ==
    /\ ~up
    /\ up' = TRUE
    /\ vectors' = IF record = "absent" THEN vectors ELSE Kept
    /\ UNCHANGED <<events, record, cache, idx, pack, faults, hist, task>>

\* Awaited before the first connection is accepted: a migration in progress
\* is spawned again, the leftovers of a complete one are swept; a sweep that
\* fails is logged and no more.
resume_migration_if_pending ==
    /\ ~up
    /\ up' = TRUE
    /\ IF record = "in_progress"
       THEN \E m \in Migrations : Goto(m, "candidate")
       ELSE UNCHANGED task
    /\ vectors' \in IF record = "complete" THEN {Kept, vectors} ELSE {vectors}
    /\ UNCHANGED <<events, record, cache, idx, pack, faults, hist>>

PackVanishes ==
    /\ pack
    /\ Fault
    /\ pack' = FALSE
    /\ UNCHANGED <<durable, cache, idx, up, hist, task>>

PackDownloaded ==
    /\ ~pack
    /\ pack' = TRUE
    /\ UNCHANGED <<durable, cache, idx, up, faults, hist, task>>

-----------------------------------------------------------------------------
Init ==
    /\ events = {}
    /\ vectors = {}
    /\ record = "absent"
    /\ pack = TRUE
    /\ up = TRUE
    /\ cell = Nil
    /\ state = "ok"
    /\ indexed = FALSE
    /\ holder = Nil
    /\ index = Nil
    /\ task = [t \in Tasks |-> Idle]
    /\ faults = 0
    /\ late = {}
    /\ overlapped = {}
    /\ switched = FALSE
    /\ demoted = FALSE

recall(r) ==
    \/ embedder_for(r) \/ cache_embedder(r) \/ ensure_indexed(r)
    \/ read_rows(r) \/ recall_rebuilt(r) \/ rebuild_fails(r) \/ search(r)

remember(n) ==
    \/ embedder_for(n) \/ cache_embedder(n)
    \/ append(n) \/ derive_vector(n) \/ derive_fails(n) \/ remember_returns(n)

run_ingest(g) ==
    \/ embedder_for(g) \/ cache_embedder(g) \/ ingest_grant(g)
    \/ read_rows(g) \/ ingest_installs(g) \/ ingest_returns(g) \/ ingest_fails(g)

run_language_migration(m) ==
    \/ set_active_model(m) \/ write_in_progress(m) \/ build_candidate(m)
    \/ embed_and_upsert(m) \/ count_missing_vectors(m)
    \/ write_complete(m) \/ publish(m) \/ invalidate(m) \/ gc_stale_vectors(m)
    \/ read_rows(m) \/ finalize_installs(m) \/ migration_fails(m)

Next ==
    \/ \E r \in Recalls : recall(r)
    \/ \E n \in Notes : remember(n)
    \/ \E g \in Ingests : run_ingest(g)
    \/ \E m \in Migrations : run_language_migration(m)
    \/ Crash
    \/ resume_migration_if_pending
    \/ PackVanishes
    \/ PackDownloaded

Spec == Init /\ [][Next]_vars

-----------------------------------------------------------------------------
(* Properties *)

\* I5, crash safety: a returned item keeps a vector under the model that a
\* daemon restarted now would resolve, through crashes, failed and repeated
\* migrations at every step.  The two ways out are an item appended for the
\* old model behind the migration's snapshot and a demoted record.
VectorsSurvive ==
    ~demoted => \A n \in Returned \ late : <<n, resolve(record)>> \in vectors

Missed(r) == IF At(r, "idle") THEN task[r].rows ELSE {}

\* The index contract of remember: a recall that starts after a remember has
\* returned finds the note, however many recalls rebuild meanwhile, before and
\* after restarts and behind a migration of an earlier process.  Out of it are
\* notes whose call overlapped an ingest, and the rest of
\* the life of a process that has flipped the record.
RecallSeesRemembered ==
    ~demoted /\ ~switched =>
        \A r \in Recalls : Missed(r) \subseteq late \cup overlapped
=============================================================================
