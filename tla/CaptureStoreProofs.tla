-------------------------- MODULE CaptureStoreProofs --------------------------
(***************************************************************************)
(* BodyBehindEvent for any sessions, clients and bounds.                   *)
(*                                                                         *)
(* The property is not inductive: an append or an adoption under way will  *)
(* list a session, and a removal under way will take a body.  The          *)
(* strengthening says what each of them knows: the first two have seen the *)
(* body, and since then it can only have gone behind a tombstone, by       *)
(* someone else's hand or with a deletion that found no session listed;    *)
(* any other removal comes behind its tombstone.                           *)
(***************************************************************************)
EXTENDS CaptureStore, TLAPS

\* A session keeps its body unless it was deleted, or the file removed without that.
HasBody(s) == md[s] # NoFile \/ s \in deleted \/ s \in removed

FoldsAreTotal == DOMAIN md = Sessions /\ DOMAIN head = Sessions /\ DOMAIN job = Workers

\* A store that is about to append has written its body, and a removal is under way only
\* for a deleted session, or one that was not listed.
JobKnows(j) ==
  /\ j.step # "idle" => j.session \in Sessions
  /\ j.step = "append" => HasBody(j.session)
  /\ j.step = "unlink" => j.missed \in BOOLEAN /\ (j.missed \/ j.session \in deleted)

\* A heal that gives an orphan its event has seen the file.
SweepKnows(z) ==
  /\ z.step = "scanned" => \A c \in z.found : c.session \in Sessions
  /\ z.step = "capturing" => \A c \in z.queue : c.session \in Sessions
  /\ z.step = "adopt" => z.session \in Sessions /\ HasBody(z.session)

ListedHasBody == \A s \in Sessions : head[s] # 0 => HasBody(s)

IInv ==
  /\ FoldsAreTotal /\ ListedHasBody
  /\ \A w \in Workers : JobKnows(job[w])
  /\ SweepKnows(sweep)

-----------------------------------------------------------------------------
\* A body is never lost again: the fact all steps have in common.
Kept ==
  /\ DOMAIN md' = Sessions /\ deleted \subseteq deleted'
  /\ \A s \in Sessions : HasBody(s) => HasBody(s)'

\* No file of ours looks like a missing one.
LEMMA FileIsThere == \A sha, stub : File(sha, stub) # NoFile
<1>1. TAKE sha, stub
<1>2. "stub" \in DOMAIN File(sha, stub) BY DEF File
<1>3. "stub" \notin DOMAIN NoFile BY DEF NoFile
<1> QED BY <1>2, <1>3

\* A file is written whole: no other one changes.
LEMMA WriteKeeps ==
  ASSUME FoldsAreTotal, NEW x, NEW sha, NEW stub, WriteFile(x, sha, stub), UNCHANGED deleted
  PROVE  Kept /\ (x \in Sessions => HasBody(x)')
<1>1. File(sha, stub) # NoFile /\ NoFile' = NoFile BY FileIsThere DEF NoFile
<1>2. DOMAIN md' = Sessions BY DEF WriteFile, FoldsAreTotal
<1>3. \A s \in Sessions : md'[s] = IF s = x THEN File(sha, stub) ELSE md[s]
  BY DEF WriteFile, FoldsAreTotal
<1>4. \A s : s \in removed /\ s # x => s \in removed' BY DEF WriteFile
<1> HIDE DEF File, NoFile
<1>5. x \in Sessions => HasBody(x)' BY <1>1, <1>3 DEF HasBody
<1>6. ASSUME NEW s \in Sessions, HasBody(s) PROVE HasBody(s)'
  BY <1>1, <1>3, <1>4, <1>5, <1>6 DEF HasBody
<1> QED BY <1>2, <1>5, <1>6 DEF Kept

\* A removal takes the body of a deleted session only.
LEMMA RemoveKeeps ==
  ASSUME FoldsAreTotal, NEW x \in deleted, RemoveFile(x), UNCHANGED deleted
  PROVE  Kept
BY DEF RemoveFile, FoldsAreTotal, Kept, HasBody, NoFile

\* Most steps touch no file.
LEMMA NothingKeeps ==
  ASSUME FoldsAreTotal, UNCHANGED <<md, removed>>, deleted \subseteq deleted'
  PROVE  Kept
BY DEF FoldsAreTotal, Kept, HasBody, NoFile

\* What was known stays known.
LEMMA StillKnown ==
  ASSUME Kept
  PROVE  /\ \A j : JobKnows(j) => JobKnows(j)'
         /\ \A z : SweepKnows(z) => SweepKnows(z)'
BY DEF Kept, JobKnows, SweepKnows

\* A step that keeps the bodies keeps the invariant when what it turns to is known.
LEMMA Advance ==
  ASSUME IInv, Kept, DOMAIN head' = Sessions, DOMAIN job' = Workers,
         \A s \in Sessions : head'[s] = head[s] \/ HasBody(s),
         \A w \in Workers : job'[w] = job[w] \/ JobKnows(job[w])',
         sweep' = sweep \/ SweepKnows(sweep)'
  PROVE  IInv'
<1>1. FoldsAreTotal' BY DEF Kept, FoldsAreTotal
<1>2. ListedHasBody' BY DEF IInv, Kept, ListedHasBody
<1>3. (\A w \in Workers : JobKnows(job[w]))' BY StillKnown DEF IInv
<1>4. SweepKnows(sweep)' BY StillKnown DEF IInv
<1> QED BY <1>1, <1>2, <1>3, <1>4 DEF IInv

-----------------------------------------------------------------------------
\* The steps of a job: one worker's record, and what it knows.
LEMMA JobStep ==
  ASSUME FoldsAreTotal, NEW w, NEW j, Job(w, j), JobKnows(j)'
  PROVE  /\ DOMAIN job' = Workers
         /\ \A v \in Workers : job'[v] = job[v] \/ JobKnows(job[v])'
<1>1. \A v \in Workers : job'[v] = IF v = w THEN j ELSE job[v] BY DEF Job, FoldsAreTotal
<1>2. ASSUME NEW v \in Workers, v = w PROVE JobKnows(job[v])'
  <2>1. job'[v] = j BY <1>1, <1>2
  <2> QED BY <2>1 DEF JobKnows
<1> QED BY <1>1, <1>2 DEF Job, FoldsAreTotal

\* A worker without a job knows nothing.
LEMMA IdleKnows == JobKnows(Idle)' /\ SweepKnows(Idle)'
BY DEF JobKnows, SweepKnows, Idle

LEMMA RenderedKnows ==
  ASSUME NEW s \in Sessions, NEW j, j = Rendered(s)
  PROVE  JobKnows(j)'
BY DEF JobKnows, Rendered

\* Agents, users and the clock
LEMMA OutsideStep ==
  ASSUME IInv, UNCHANGED <<md, log, sweep, job, removed>> \/ UNCHANGED <<md, head, deleted, sweep, job, removed>>
  PROVE  IInv'
<1>1. UNCHANGED <<md, head, deleted, sweep, job, removed>> BY DEF log
<1>2. Kept BY <1>1, NothingKeeps DEF IInv
<1> QED BY <1>1, <1>2, Advance DEF IInv, FoldsAreTotal

LEMMA RemoveByHandStep ==
  ASSUME IInv, NEW s \in Sessions, RemoveByHand(s)
  PROVE  IInv'
<1>1. Kept BY DEF RemoveByHand, IInv, FoldsAreTotal, Kept, HasBody, NoFile
<1> QED BY <1>1, Advance DEF RemoveByHand, IInv, FoldsAreTotal

\* What a job may do to the event fold
LEMMA CaptureSessionHeads ==
  ASSUME FoldsAreTotal, NEW x, NEW sha, HasBody(x), CaptureSession(x, sha)
  PROVE  DOMAIN head' = Sessions /\ \A s \in Sessions : head'[s] = head[s] \/ HasBody(s)
BY DEF CaptureSession, FoldsAreTotal

LEMMA PokeStep ==
  ASSUME IInv, NEW c, NEW s \in Sessions, Poke(c, s)
  PROVE  IInv'
<1>1. Kept BY NothingKeeps DEF Poke, IInv
<1>2. PICK j : j = Rendered(s) OBVIOUS
<1>3. JobKnows(j)' BY <1>2, RenderedKnows
<1>4. Job(c, j) /\ UNCHANGED <<head, sweep>> BY <1>2 DEF Poke
<1> QED BY <1>1, <1>3, <1>4, JobStep, Advance DEF IInv, FoldsAreTotal

LEMMA StoreFileStep ==
  ASSUME IInv, NEW w \in Workers, StoreFile(w)
  PROVE  IInv'
<1>1. PICK x, sha : x = job[w].session /\ sha = job[w].sha OBVIOUS
<1>2. x \in Sessions BY <1>1 DEF IInv, JobKnows, StoreFile
<1>3. WriteFile(x, sha, FALSE) /\ UNCHANGED deleted BY <1>1 DEF StoreFile
<1>4. Kept /\ HasBody(x)' BY <1>2, <1>3, WriteKeeps DEF IInv
<1>5. PICK j : j = [step |-> "append", session |-> x, sha |-> sha] OBVIOUS
<1>6. Job(w, j) /\ UNCHANGED <<head, sweep>> BY <1>1, <1>5 DEF StoreFile
<1>7. JobKnows(j)' BY <1>2, <1>4, <1>5 DEF JobKnows
<1> QED BY <1>4, <1>6, <1>7, JobStep, Advance DEF IInv, FoldsAreTotal

LEMMA StoreEventStep ==
  ASSUME IInv, NEW w \in Workers, StoreEvent(w)
  PROVE  IInv'
<1>1. Kept BY NothingKeeps DEF StoreEvent, IInv
<1>2. HasBody(job[w].session) BY DEF IInv, JobKnows, StoreEvent
<1>3. /\ DOMAIN head' = Sessions
      /\ \A s \in Sessions : head'[s] = head[s] \/ HasBody(s)
  BY <1>2, CaptureSessionHeads DEF StoreEvent, IInv
<1>4. Job(w, Idle) /\ UNCHANGED sweep BY DEF StoreEvent
<1> QED BY <1>1, <1>3, <1>4, IdleKnows, JobStep, Advance DEF IInv

LEMMA JobFailsStep ==
  ASSUME IInv, NEW w, JobFails(w)
  PROVE  IInv'
<1>1. Kept BY NothingKeeps DEF JobFails, IInv
<1>2. Job(w, Idle) /\ UNCHANGED <<head, sweep>> BY DEF JobFails
<1> QED BY <1>1, <1>2, IdleKnows, JobStep, Advance DEF IInv, FoldsAreTotal

LEMMA TombstoneStep ==
  ASSUME IInv, NEW c, NEW s \in Sessions, Tombstone(c, s)
  PROVE  IInv'
<1>1. Kept BY NothingKeeps DEF Tombstone, IInv
<1>2. PICK j : j = Deletion(s) OBVIOUS
<1>3. Job(c, j) /\ UNCHANGED <<head, sweep>> BY <1>2 DEF Tombstone
<1>4. /\ j.step = "unlink" /\ j.session = s /\ j.missed = (head[s] = 0)
      /\ head[s] # 0 => s \in deleted'
  BY <1>2 DEF Deletion, Tombstone
<1>5. JobKnows(j)' BY <1>4 DEF JobKnows
<1> QED BY <1>1, <1>3, <1>5, JobStep, Advance DEF IInv, FoldsAreTotal

LEMMA UnlinkStep ==
  ASSUME IInv, NEW c \in Workers, Unlink(c)
  PROVE  IInv'
<1>1. PICK x : x = job[c].session OBVIOUS
<1>2. Kept
  <2>1. /\ md' = [md EXCEPT ![x] = NoFile] /\ UNCHANGED deleted
        /\ removed \subseteq removed'
        /\ x \in deleted \/ x \in removed'
    BY <1>1 DEF Unlink, IInv, JobKnows
  <2>2. /\ DOMAIN md' = Sessions /\ \A s \in Sessions : s # x => md'[s] = md[s]
    BY <2>1 DEF IInv, FoldsAreTotal
  <2>3. ASSUME NEW s \in Sessions, HasBody(s) PROVE HasBody(s)'
    BY <2>1, <2>2, <2>3 DEF HasBody, NoFile
  <2> QED BY <2>1, <2>2, <2>3 DEF Kept
<1>3. Job(c, Idle) /\ UNCHANGED <<head, sweep>> BY DEF Unlink
<1> QED BY <1>2, <1>3, IdleKnows, JobStep, Advance DEF IInv, FoldsAreTotal

-----------------------------------------------------------------------------
\* The steps of a sweep that touch neither a file nor the log
LEMMA SweepStepsOn ==
  ASSUME IInv, UNCHANGED <<md, head, deleted, job, removed>>,
         SweepKnows(sweep) => SweepKnows(sweep)'
  PROVE  IInv'
<1>1. Kept BY NothingKeeps DEF IInv
<1> QED BY <1>1, Advance DEF IInv, FoldsAreTotal

LEMMA ScanStep == ASSUME IInv, Scan PROVE IInv'
<1>1. SweepKnows(sweep)'
  <2>1. sweep'.step = "scanned" /\ \A c \in sweep'.found : c.session \in Sessions BY DEF Scan
  <2> QED BY <2>1 DEF SweepKnows
<1> QED BY <1>1, SweepStepsOn DEF Scan

LEMMA DecideStep == ASSUME IInv, Decide PROVE IInv'
<1>1. sweep'.step = "capturing" /\ sweep'.queue \subseteq sweep.found BY DEF Decide
<1>2. \A c \in sweep.found : c.session \in Sessions BY DEF Decide, IInv, SweepKnows
<1>3. SweepKnows(sweep)' BY <1>1, <1>2 DEF SweepKnows
<1> QED BY <1>3, SweepStepsOn DEF Decide

LEMMA RenderStep == ASSUME IInv, Render PROVE IInv'
<1>1. PICK c \in sweep.queue :
        /\ sweep' = [step |-> "capturing", queue |-> sweep.queue \ {c}]
        /\ Job(Sweeper, IF Readable(c.session) THEN Rendered(c.session) ELSE Idle)
  BY DEF Render
<1>2. \A d \in sweep.queue : d.session \in Sessions BY DEF Render, IInv, SweepKnows
<1>3. PICK j : j = IF Readable(c.session) THEN Rendered(c.session) ELSE Idle OBVIOUS
<1>4. JobKnows(j)'
  <2>1. CASE j = Rendered(c.session) BY <1>2, <2>1, RenderedKnows
  <2>2. CASE j = Idle BY <2>2 DEF JobKnows, Idle
  <2> QED BY <1>3, <2>1, <2>2
<1>5. SweepKnows(sweep)'
  <2>1. sweep'.step = "capturing" /\ \A d \in sweep'.queue : d.session \in Sessions BY <1>1, <1>2
  <2> QED BY <2>1 DEF SweepKnows
<1>6. Kept /\ UNCHANGED head BY NothingKeeps DEF Render, IInv
<1>7. Job(Sweeper, j) BY <1>1, <1>3
<1> QED BY <1>4, <1>5, <1>6, <1>7, JobStep, Advance DEF IInv, FoldsAreTotal

\* A visit of files or events knows nothing of them.
LEMMA VisitKnows ==
  \A set : sweep' \in {Idle, Visit(set), Check(set)} => SweepKnows(sweep)'
BY DEF SweepKnows, Visit, Check, Idle

LEMMA HealFoldStep == ASSUME IInv, HealFold PROVE IInv'
BY VisitKnows, SweepStepsOn DEF HealFold

LEMMA HealRefoldStep == ASSUME IInv, HealRefold PROVE IInv'
BY VisitKnows, SweepStepsOn DEF HealRefold

LEMMA HealReadStep == ASSUME IInv, NEW s \in Sessions, HealRead(s) PROVE IInv'
<1>1. UNCHANGED <<md, head, deleted, job, removed>> BY DEF HealRead
<1>2. CASE md[s] = NoFile BY <1>1, <1>2, VisitKnows, SweepStepsOn DEF HealRead
<1>3. CASE md[s] # NoFile
  <2>1. sweep'.step = "adopt" /\ sweep'.session = s BY <1>3 DEF HealRead
  <2>2. HasBody(s)' BY <1>1, <1>3 DEF HasBody, NoFile
  <2>3. SweepKnows(sweep)' BY <2>1, <2>2 DEF SweepKnows, HasBody
  <2> QED BY <1>1, <2>3, SweepStepsOn
<1> QED BY <1>2, <1>3

LEMMA HealCheckStep == ASSUME IInv, NEW e, HealCheck(e) PROVE IInv'
<1>1. UNCHANGED <<md, head, deleted, job, removed>> BY DEF HealCheck
<1>2. CASE md[e.session] # NoFile BY <1>1, <1>2, VisitKnows, SweepStepsOn DEF HealCheck
<1>3. CASE md[e.session] = NoFile
  <2>1. sweep'.step = "stub" BY <1>3 DEF HealCheck
  <2>2. SweepKnows(sweep)' BY <2>1 DEF SweepKnows
  <2> QED BY <1>1, <2>2, SweepStepsOn
<1> QED BY <1>2, <1>3

\* The orphan gets its event, or goes with its tombstone.
LEMMA HealAdoptStep == ASSUME IInv, HealAdopt PROVE IInv'
<1>1. Kept
  <2>1. CASE sweep.session \in deleted BY <2>1, RemoveKeeps DEF HealAdopt, IInv
  <2>2. CASE sweep.session \notin deleted BY <2>2, NothingKeeps DEF HealAdopt, IInv
  <2> QED BY <2>1, <2>2
<1>2. HasBody(sweep.session) BY DEF HealAdopt, IInv, SweepKnows
<1>3. /\ DOMAIN head' = Sessions
      /\ \A s \in Sessions : head'[s] = head[s] \/ HasBody(s)
  BY <1>2, CaptureSessionHeads DEF HealAdopt, IInv
<1>4. SweepKnows(sweep)' BY VisitKnows DEF HealAdopt
<1> QED BY <1>1, <1>3, <1>4, Advance DEF HealAdopt, IInv, FoldsAreTotal

LEMMA HealStubStep == ASSUME IInv, HealStub PROVE IInv'
<1>1. PICK x, sha : x = sweep.session /\ sha = sweep.sha OBVIOUS
<1>2. WriteFile(x, sha, TRUE) /\ UNCHANGED deleted BY <1>1 DEF HealStub
<1>3. Kept BY <1>2, WriteKeeps DEF IInv
<1>4. SweepKnows(sweep)' BY VisitKnows DEF HealStub
<1> QED BY <1>3, <1>4, Advance DEF HealStub, IInv, FoldsAreTotal

LEMMA HealFailsStep == ASSUME IInv, HealFails PROVE IInv'
BY VisitKnows, SweepStepsOn DEF HealFails

\* A crash forgets what was under way, and leaves files and events.
LEMMA CrashStep == ASSUME IInv, Crash PROVE IInv'
<1>1. Kept BY NothingKeeps DEF Crash, IInv
<1>2. SweepKnows(sweep)' BY VisitKnows DEF Crash
<1>3. DOMAIN job' = Workers BY DEF Crash
<1>4. \A w \in Workers : JobKnows(job[w])' BY DEF Crash, JobKnows, Idle
<1> QED BY <1>1, <1>2, <1>3, <1>4, Advance DEF Crash, IInv, FoldsAreTotal

-----------------------------------------------------------------------------
LEMMA Initially == Init => IInv
<1> SUFFICES ASSUME Init PROVE IInv OBVIOUS
<1>1. FoldsAreTotal /\ ListedHasBody BY DEF Init, FoldsAreTotal, ListedHasBody
<1>2. \A w \in Workers : JobKnows(job[w]) BY DEF Init, JobKnows, Idle
<1>3. SweepKnows(sweep) BY DEF Init, SweepKnows, Idle
<1> QED BY <1>1, <1>2, <1>3 DEF IInv

LEMMA Inductive == IInv /\ [Next]_vars => IInv'
<1> SUFFICES ASSUME IInv, [Next]_vars PROVE IInv' OBVIOUS
<1>1. ASSUME SweepStep PROVE IInv'
  <2>1. Sweeper \in Workers BY DEF Workers
  <2> QED BY <1>1, <2>1, ScanStep, DecideStep, RenderStep, StoreFileStep, StoreEventStep,
             HealFoldStep, HealAdoptStep, HealRefoldStep, HealStubStep, HealReadStep,
             HealCheckStep DEF SweepStep
<1>2. ASSUME Tick PROVE IInv' BY <1>2, OutsideStep DEF Tick
<1>3. ASSUME Crash \/ HealFails PROVE IInv' BY <1>3, CrashStep, HealFailsStep
<1>4. ASSUME SetCaptureDisabled \/ \E b \in BOOLEAN : SetCaptureEnabled(b) PROVE IInv'
  BY <1>4, OutsideStep DEF SetCaptureDisabled, SetCaptureEnabled
<1>5. ASSUME NEW s \in Sessions, Edit(s) \/ Expire(s) PROVE IInv'
  BY <1>5, OutsideStep DEF Edit, Expire
<1>6. ASSUME NEW s \in Sessions, RemoveByHand(s) PROVE IInv' BY <1>6, RemoveByHandStep
<1>7. ASSUME NEW c \in Clients, NEW s \in Sessions, Poke(c, s) \/ Tombstone(c, s) PROVE IInv'
  BY <1>7, PokeStep, TombstoneStep
<1>8. ASSUME NEW c \in Clients, StoreFile(c) \/ StoreEvent(c) \/ Unlink(c) PROVE IInv'
  <2>1. c \in Workers BY DEF Workers
  <2> QED BY <1>8, <2>1, StoreFileStep, StoreEventStep, UnlinkStep
<1>9. ASSUME NEW w \in Workers, JobFails(w) PROVE IInv' BY <1>9, JobFailsStep
<1>10. ASSUME UNCHANGED vars PROVE IInv' BY <1>10, OutsideStep DEF vars, log
<1> QED BY <1>1, <1>2, <1>3, <1>4, <1>5, <1>6, <1>7, <1>8, <1>9, <1>10 DEF Next

\* No step of the daemon leaves a listed session without its body: whatever stores,
\* deletions and heals of however many clients meet, and wherever a crash falls; but for
\* the deletion of a session whose first store is under way, which takes the body without
\* a tombstone (store.rs, delete_capture).
THEOREM BodiesBehindEvents == Spec => []BodyBehindEvent
<1>1. IInv => BodyBehindEvent
  BY DEF IInv, ListedHasBody, HasBody, BodyBehindEvent, Current
<1> QED BY <1>1, Initially, Inductive, PTL DEF Spec
=============================================================================
