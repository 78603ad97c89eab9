----------------------------- MODULE CaptureStore -----------------------------
(***************************************************************************)
(* The daemon's capture store: the sweeper (capture/sweeper.rs) and the    *)
(* CaptureNotify poke (server.rs) render an agent's transcript, write      *)
(* sessions/<id>.md and then append the signed event; DeleteSession        *)
(* appends a tombstone and then removes the file; heal_orphans             *)
(* (capture/store.rs) repairs what a crash left between the two.           *)
(*                                                                         *)
(* Files and log are shared by all of them and every await is a step       *)
(* boundary.  The agent writes its transcripts meanwhile, the user removes *)
(* files by hand or turns capturing off, and the daemon dies anywhere.     *)
(* The check and the append of one log call are one step here: Memories    *)
(* has them apart, and a capture that lands behind its tombstone stays     *)
(* deleted.                                                                *)
(***************************************************************************)
EXTENDS Integers, FiniteSets

CONSTANTS
  Sessions,     \* session ids, numbered in their order
  Long,         \* sessions whose transcript may outgrow the renderer (TooLarge)
  Clients,      \* connections that poke or delete
  Sweeper,
  Cap,          \* CAPTURE_PER_SWEEP
  Quiet,        \* QUIET_SECS
  Starts,       \* which transcripts there are at first, in each instance looked at
  Versions,     \* bound: Versions[s], the last content the agent writes for s; 0 when it
                \* only ever was written before
  MaxTime,      \* bound: the clock, in whole seconds
  MaxMishaps    \* bound: failures, crashes, files removed by hand, switches to off

ASSUME CaptureStoreAssumption ==
  /\ Sessions \subseteq Nat /\ Long \subseteq Sessions /\ Starts \subseteq SUBSET Sessions
  /\ Versions \in [Sessions -> Nat]
  /\ {Quiet, MaxTime, MaxMishaps} \subseteq Nat /\ Cap \in Nat \ {0}
  /\ Sweeper \notin Clients

VARIABLES
  now,
  transcript,   \* transcript[s]: its content, 0 when there is none, its mtime, and whether
                \* it is too large to be rendered
  md,           \* md[s]: sessions/<s>.md, or NoFile
  head,         \* head[s]: sha256 of the session's latest capture event, 0 for none
  deleted,      \* sessions with a tombstone
  capture,      \* the config flags
  sweep,        \* where run_sweep_once and heal_orphans are
  job,          \* job[w]: the store_capture or delete_capture that w is in
  removed,      \* history: files removed by hand, or for a session that was not listed yet
  mishaps

vars == <<now, transcript, md, head, deleted, capture, sweep, job, removed, mishaps>>
log == <<head, deleted, capture>>
outside == <<now, transcript, capture>>

NoFile == [sha |-> 0]
\* A real render, or the stub heal_orphans makes of an event.
File(sha, stub) == [sha |-> sha, stub |-> stub, mtime |-> now]

Idle == [step |-> "idle"]
Workers == Clients \cup {Sweeper}
Job(w, next) == job' = [job EXCEPT ![w] = next]
Mishap == mishaps < MaxMishaps /\ mishaps' = mishaps + 1

\* current_sessions
Current == {s \in Sessions : head[s] # 0 /\ s \notin deleted}

\* A file is written whole, by a rename.
WriteFile(s, sha, stub) ==
  /\ md' = [md EXCEPT ![s] = File(sha, stub)]
  /\ removed' = removed \ {s}

RemoveFile(s) == md' = [md EXCEPT ![s] = NoFile] /\ UNCHANGED removed

-----------------------------------------------------------------------------
(* Agents, users, the clock *)

Tick ==
  /\ now < MaxTime /\ now' = now + 1
  /\ UNCHANGED <<transcript, md, log, sweep, job, removed, mishaps>>

\* The agent writes on; the last write leaves time to become quiet.
Edit(s) ==
  /\ transcript[s].content < Versions[s] /\ now + Quiet <= MaxTime
  /\ \E large \in {transcript[s].large, s \in Long} :
       transcript' = [transcript EXCEPT ![s] = [content |-> @.content + 1, mtime |-> now,
                                                large |-> @.large \/ large]]
  /\ UNCHANGED <<now, md, log, sweep, job, removed, mishaps>>

NoTranscript == [content |-> 0, mtime |-> 0, large |-> FALSE]

\* The agent throws an old transcript away.
Expire(s) ==
  /\ transcript[s].content # 0 /\ Mishap
  /\ transcript' = [transcript EXCEPT ![s] = NoTranscript]
  /\ UNCHANGED <<now, md, log, sweep, job, removed>>

RemoveByHand(s) ==
  /\ md[s] # NoFile /\ Mishap
  /\ md' = [md EXCEPT ![s] = NoFile] /\ removed' = removed \cup {s}
  /\ UNCHANGED <<outside, head, deleted, sweep, job>>

\* set_capture_enabled: switching on dates the forward window, switching off spends
\* the consent to import history
SetCaptureEnabled(backfill) ==
  /\ ~capture.enabled
  /\ capture' = [enabled |-> TRUE, since |-> now, backfill |-> backfill \/ capture.backfill]
  /\ UNCHANGED <<now, transcript, md, head, deleted, sweep, job, removed, mishaps>>

SetCaptureDisabled ==
  /\ capture.enabled /\ Mishap
  /\ capture' = [capture EXCEPT !.enabled = FALSE, !.backfill = FALSE]
  /\ UNCHANGED <<now, transcript, md, head, deleted, sweep, job, removed>>

-----------------------------------------------------------------------------
(* store_capture and delete_capture *)

Rendered(s) == [step |-> "write", session |-> s, sha |-> transcript[s].content]
Readable(s) == transcript[s].content # 0 /\ ~transcript[s].large

\* capture_notify: the gate, the confined open and the render; no quiet floor here
Poke(c, s) ==
  /\ job[c] = Idle /\ capture.enabled /\ Readable(s)
  /\ Job(c, Rendered(s))
  /\ UNCHANGED <<outside, md, head, deleted, sweep, removed, mishaps>>

StoreFile(w) ==
  /\ job[w].step = "write"
  /\ WriteFile(job[w].session, job[w].sha, FALSE)
  /\ Job(w, [step |-> "append", session |-> job[w].session, sha |-> job[w].sha])
  /\ UNCHANGED <<outside, head, deleted, sweep, mishaps>>

\* The engine's capture_session: a deleted session is rejected, the same sha256 is a
\* no-op, another one supersedes
CaptureSession(s, sha) ==
  head' = IF s \in deleted THEN head ELSE [head EXCEPT ![s] = sha]

\* The passages that follow are best effort and in Memories.
StoreEvent(w) ==
  /\ job[w].step = "append"
  /\ CaptureSession(job[w].session, job[w].sha)
  /\ Job(w, Idle)
  /\ UNCHANGED <<outside, md, deleted, sweep, removed, mishaps>>

\* The write, the append or the removal fails: what was done before it is left.
JobFails(w) ==
  /\ job[w] # Idle /\ Mishap
  /\ Job(w, Idle)
  /\ UNCHANGED <<outside, md, head, deleted, sweep, removed>>

\* What is left to do of a deletion; missed: the session was not listed.
Deletion(s) == [step |-> "unlink", session |-> s, missed |-> head[s] = 0]

\* Mutant: the file first
UnlinkFirst(c, s) ==
  /\ job[c] = Idle
  /\ RemoveFile(s)
  /\ Job(c, Deletion(s))
  /\ UNCHANGED <<outside, head, deleted, sweep, mishaps>>

\* DeleteSession: the tombstone, which is Rejected for a session that is not listed (the
\* App shows the listed ones; others count as mishaps) ...
Tombstone(c, s) ==
  /\ job[c] = Idle
  /\ IF head[s] # 0 THEN deleted' = deleted \cup {s} /\ UNCHANGED mishaps
                    ELSE UNCHANGED deleted /\ Mishap
  /\ Job(c, Deletion(s))
  /\ UNCHANGED <<outside, md, head, sweep, removed>>

\* ... and then the file, also without a tombstone
Unlink(c) ==
  /\ job[c].step = "unlink"
  /\ md' = [md EXCEPT ![job[c].session] = NoFile]
  /\ removed' = IF job[c].missed THEN removed \cup {job[c].session} ELSE removed
  /\ Job(c, Idle)
  /\ UNCHANGED <<outside, head, deleted, sweep, mishaps>>

-----------------------------------------------------------------------------
(* run_sweep_once *)

\* The gate, the flags, the clock and the scan of the projects directory.  The quiet
\* floor and the window depend on nothing that is read later.
Scan ==
  /\ sweep = Idle /\ capture.enabled
  /\ LET quiet == {s \in Sessions : /\ transcript[s].content # 0
                                    /\ now - transcript[s].mtime >= Quiet}
     IN sweep' = [step |-> "scanned",
                  found |-> {[session |-> s, mtime |-> transcript[s].mtime,
                              wanted |-> \/ transcript[s].mtime >= capture.since
                                         \/ capture.backfill] : s \in quiet}]
  /\ UNCHANGED <<outside, md, head, deleted, job, removed, mishaps>>

Older(a, b) == a.mtime < b.mtime \/ (a.mtime = b.mtime /\ a.session < b.session)

\* Nothing was written to the transcript since we wrote its file.
Adopted(c) == md[c.session] # NoFile /\ c.mtime <= md[c.session].mtime

\* Mutant: a stub passes for a render
IncludeNotStubs(c) ==
  /\ c.session \notin deleted
  /\ IF c.session \in Current THEN ~Adopted(c) ELSE c.wanted

\* Mutant: the forward window needs consent too
IncludeConsented(c) ==
  /\ c.session \notin deleted
  /\ IF c.session \in Current THEN ~(Adopted(c) /\ ~md[c.session].stub)
     ELSE c.wanted /\ capture.backfill

\* include_candidate, with build_current_map
Include(c) ==
  /\ c.session \notin deleted
  /\ IF c.session \in Current THEN ~(Adopted(c) /\ ~md[c.session].stub) ELSE c.wanted

\* decide_sweep: the oldest Cap of the included
Decide ==
  /\ sweep.step = "scanned"
  /\ LET included == {c \in sweep.found : Include(c)}
     IN sweep' = [step |-> "capturing",
                  queue |-> {c \in included : Cardinality({d \in included : Older(d, c)}) < Cap}]
  /\ UNCHANGED <<outside, md, head, deleted, job, removed, mishaps>>

\* The next one, oldest first, is opened and rendered, or counted as a failure.
Render ==
  /\ sweep.step = "capturing" /\ job[Sweeper] = Idle
  /\ \E c \in sweep.queue :
       /\ \A d \in sweep.queue \ {c} : Older(c, d)
       /\ sweep' = [step |-> "capturing", queue |-> sweep.queue \ {c}]
       /\ Job(Sweeper, IF Readable(c.session) THEN Rendered(c.session) ELSE Idle)
  /\ UNCHANGED <<outside, md, head, deleted, removed, mishaps>>

-----------------------------------------------------------------------------
(* heal_orphans, after the captures of a sweep *)

Orphans == {s \in Sessions : md[s] # NoFile /\ s \notin Current}

\* Files, and then events, still to be visited.
Visit(files) == [step |-> "orphans", files |-> files]
Check(fold) == IF fold = {} THEN Idle ELSE [step |-> "stubs", fold |-> fold]

\* The fold is read and the directory listed.
HealFold ==
  /\ sweep.step = "capturing" /\ sweep.queue = {} /\ job[Sweeper] = Idle
  /\ sweep' = Visit(Orphans)
  /\ UNCHANGED <<outside, md, head, deleted, job, removed, mishaps>>

\* The front matter of the next file that still exists
HealRead(s) ==
  /\ sweep.step = "orphans" /\ s \in sweep.files
  /\ LET rest == sweep.files \ {s}
     IN sweep' = IF md[s] = NoFile THEN Visit(rest)
                 ELSE [step |-> "adopt", files |-> rest, session |-> s, sha |-> md[s].sha]
  /\ UNCHANGED <<outside, md, head, deleted, job, removed, mishaps>>

\* Mutant: a rejected orphan is left lying
HealAdoptOnly ==
  /\ sweep.step = "adopt"
  /\ CaptureSession(sweep.session, sweep.sha)
  /\ sweep' = Visit(sweep.files)
  /\ UNCHANGED <<outside, md, deleted, job, removed, mishaps>>

\* An orphan gets its event, or goes when its session was deleted.
HealAdopt ==
  /\ sweep.step = "adopt"
  /\ CaptureSession(sweep.session, sweep.sha)
  /\ IF sweep.session \in deleted THEN RemoveFile(sweep.session) ELSE UNCHANGED <<md, removed>>
  /\ sweep' = Visit(sweep.files)
  /\ UNCHANGED <<outside, deleted, job, mishaps>>

\* The fold is read again.
HealRefold ==
  /\ sweep.step = "orphans" /\ sweep.files = {}
  /\ sweep' = Check({[session |-> s, sha |-> head[s]] : s \in Current})
  /\ UNCHANGED <<outside, md, head, deleted, job, removed, mishaps>>

\* Does the file of the next event exist?
HealCheck(e) ==
  /\ sweep.step = "stubs" /\ e \in sweep.fold
  /\ LET rest == sweep.fold \ {e}
     IN sweep' = IF md[e.session] # NoFile THEN Check(rest)
                 ELSE [step |-> "stub", fold |-> rest, session |-> e.session, sha |-> e.sha]
  /\ UNCHANGED <<outside, md, head, deleted, job, removed, mishaps>>

HealStub ==
  /\ sweep.step = "stub"
  /\ WriteFile(sweep.session, sweep.sha, TRUE)
  /\ sweep' = Check(sweep.fold)
  /\ UNCHANGED <<outside, head, deleted, job, mishaps>>

\* An engine error or a failed write ends the pass.
HealFails ==
  /\ sweep.step \in {"adopt", "stub"} /\ Mishap
  /\ sweep' = Idle
  /\ UNCHANGED <<outside, md, head, deleted, job, removed>>

\* The daemon dies and is started again.
Crash ==
  /\ \/ sweep # Idle
     \/ \E w \in Workers : job[w] # Idle
  /\ Mishap
  /\ sweep' = Idle /\ job' = [w \in Workers |-> Idle]
  /\ UNCHANGED <<outside, md, head, deleted, removed>>

-----------------------------------------------------------------------------
\* Transcripts may be older than the connection; capturing is off.
Init ==
  /\ now = 0
  /\ \E there \in Starts : \E large \in SUBSET (there \cap Long) :
       transcript = [s \in Sessions |-> IF s \notin there THEN NoTranscript
                                        ELSE [content |-> 1, mtime |-> 0, large |-> s \in large]]
  /\ md = [s \in Sessions |-> NoFile]
  /\ head = [s \in Sessions |-> 0] /\ deleted = {}
  /\ capture = [enabled |-> FALSE, since |-> 0, backfill |-> FALSE]
  /\ sweep = Idle /\ job = [w \in Workers |-> Idle]
  /\ removed = {} /\ mishaps = 0

SweepStep ==
  \/ Scan \/ Decide \/ Render \/ StoreFile(Sweeper) \/ StoreEvent(Sweeper)
  \/ HealFold \/ HealAdopt \/ HealRefold \/ HealStub
  \/ \E s \in Sessions : HealRead(s)
  \/ sweep.step = "stubs" /\ \E e \in sweep.fold : HealCheck(e)

Next ==
  \/ SweepStep \/ Tick \/ Crash \/ HealFails \/ SetCaptureDisabled
  \/ \E b \in BOOLEAN : SetCaptureEnabled(b)
  \/ \E s \in Sessions : Edit(s) \/ Expire(s) \/ RemoveByHand(s)
  \/ \E c \in Clients, s \in Sessions : Poke(c, s) \/ Tombstone(c, s)
  \/ \E c \in Clients : StoreFile(c) \/ StoreEvent(c) \/ Unlink(c)
  \/ \E w \in Workers : JobFails(w)

\* The ticker of capture/sweeper.rs comes round every SWEEP_INTERVAL and a sweep that
\* runs goes on; the clock goes on.  Nothing is assumed of clients, agents and users.
Spec == Init /\ [][Next]_vars /\ WF_vars(SweepStep) /\ WF_vars(Tick)

-----------------------------------------------------------------------------
\* No step of ours leaves a listed session without its body: the file is there before
\* the event (store_capture) and until the tombstone (delete_capture), with two stores, a
\* deletion and a heal at once and a crash anywhere.  Only someone else's rm takes it, or
\* the deletion of a session that was being stored for the first time.
BodyBehindEvent == \A s \in Current : md[s] = NoFile => s \in removed

\* A deleted session's body leaves the disk, also when a crash, a failed removal, a store
\* in flight or a heal that had read the old fold put it back (heal_orphans, window (a)):
\* as long as capturing stays on.
Forgotten ==
  \A s \in Sessions : []<>(s \in deleted => md[s] = NoFile \/ ~capture.enabled)

InWindow(s) == transcript[s].mtime >= capture.since \/ capture.backfill

Candidate(s) == [session |-> s, mtime |-> transcript[s].mtime]

\* As many older transcripts as a sweep takes are candidates for good and never rendered.
Crowded(s) ==
  Cap <= Cardinality({d \in Sessions \ deleted :
                        /\ transcript[d].large /\ (d \in Current \/ InWindow(d))
                        /\ Older(Candidate(d), Candidate(s))})

\* The body and its event are there, and the transcript has not changed since, as far as
\* two mtimes in whole seconds can tell.
Captured(s) ==
  /\ head[s] # 0 /\ md[s] # NoFile
  /\ ~md[s].stub /\ transcript[s].mtime <= md[s].mtime

\* Every transcript in the window is captured in the end, and captured again when it has
\* changed, whatever is captured first (sweeper.rs, "durability" and "backfill"), unless
\* transcripts that are too large crowd it out.
EventuallyCaptured ==
  []<>(capture.enabled => \A s \in Sessions \ deleted :
         Readable(s) /\ InWindow(s) => Captured(s) \/ Crowded(s))

\* A stub is replaced by the body when the transcript is still there (Contract 1), with the
\* same exception.
StubReplaced ==
  []<>(capture.enabled => \A s \in Sessions \ deleted :
         Readable(s) /\ md[s] # NoFile => ~md[s].stub \/ Crowded(s))

=============================================================================
