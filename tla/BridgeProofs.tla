----------------------------- MODULE BridgeProofs ----------------------------
(* The agent bridge.  Its receiver, for every page size, mailbox, high-water   *)
(* mark and bound: the pull cursor never passes unarchived mail, and what is  *)
(* pulled while a client is attached reaches it, but for the windows the      *)
(* model counts.  Its rooms, for any agents, ops and failures: the same ops   *)
(* give the same roster, a kick holds, and members hear of everything.        *)
EXTENDS Receiver, Rooms, SequenceTheorems, TLAPS, WellFoundedInduction

Pullers == {"daemon", "tool"}
Kinds == {"plain", "room", "control", "blocked"}

\* A mail the cursor may pass, and a prefix of such mails.
Covered(s) == kind[s] = "blocked" \/ s \in archive \/ s \in forfeited
Cover(n) == \A s \in 1 .. n : Covered(s)

PullRecords ==
  [phase : {"idle", "page", "write", "again", "done"}, from : Nat, next : Nat, upto : Nat,
   more : BOOLEAN, failed : SUBSET Nat, some : BOOLEAN, batch : Seq(Nat), target : Nat]

\* The types the cursor depends on.
CursorTypes ==
  /\ kind \in Seq(Kinds) /\ top \in Nat /\ top <= Len(kind)
  /\ cursor \in Nat /\ cursor <= top
  /\ pull \in [Pullers -> PullRecords]

\* A pull inside its page: what lies before the page and what it has handled is
\* covered, but for the failed writes of the strict pull, the first of which is known.
InPage(p) ==
  pull[p].phase = "page" =>
    /\ pull[p].from < pull[p].next /\ pull[p].next <= pull[p].upto + 1 /\ pull[p].upto <= top
    /\ \A s \in 1 .. pull[p].next - 1 : Covered(s) \/ (p = "daemon" /\ s \in pull[p].failed)
    /\ \A s \in pull[p].failed : 0 < s /\ s < pull[p].next
    /\ pull[p].failed # {} => \E x \in pull[p].failed : \A y \in pull[p].failed : x <= y

\* A cursor value about to be written.
InWrite(p) == pull[p].phase = "write" => pull[p].target <= top /\ Cover(pull[p].target)

IInv == CursorTypes /\ Cover(cursor) /\ \A p \in Pullers : InPage(p) /\ InWrite(p)

\* The smaller and the larger of two numbers.
LEMMA TwoNumbers ==
  ASSUME NEW m \in Nat, NEW n \in Nat
  PROVE  /\ Lowest({m, n}) \in {m, n} /\ Lowest({m, n}) <= m /\ Lowest({m, n}) <= n
         /\ Highest({m, n}) \in {m, n}
<1>1. \E x \in {m, n} : \A y \in {m, n} : x <= y
    OBVIOUS
<1>2. \E x \in {m, n} : \A y \in {m, n} : x >= y
    OBVIOUS
<1> QED
    BY <1>1, <1>2 DEF Lowest, Highest

\* A strict pull stops before a covered prefix ends, and so does the tool's.
LEMMA TargetCovered ==
  ASSUME IInv, NEW p \in Pullers, pull[p].phase = "page", pull[p].next > pull[p].upto
  PROVE  AdvanceTarget(p) \in Nat /\ AdvanceTarget(p) <= top /\ Cover(AdvanceTarget(p))
<1> DEFINE failed == pull[p].failed
<1>0. pull[p] \in PullRecords /\ top \in Nat
    BY DEF IInv, CursorTypes
<1>1. InPage(p)
    BY DEF IInv
<1>2. CASE p = "tool" \/ failed = {}
    <2>1. AdvanceTarget(p) = pull[p].upto
        BY <1>2 DEF AdvanceTarget
    <2>2. pull[p].next - 1 = pull[p].upto
        BY <1>0, <1>1 DEF InPage, PullRecords
    <2> QED
        BY <2>1, <2>2, <1>0, <1>1, <1>2 DEF InPage, PullRecords, Cover
<1>3. CASE p # "tool" /\ failed # {}
    <2>1. AdvanceTarget(p) = Lowest(failed) - 1
        BY <1>3 DEF AdvanceTarget
    <2>2. Lowest(failed) \in failed /\ \A y \in failed : Lowest(failed) <= y
        BY <1>1, <1>3 DEF InPage, Lowest
    <2>3. \A s \in 1 .. Lowest(failed) - 1 : Covered(s)
        BY <2>2, <1>0, <1>1, <1>3 DEF InPage, PullRecords
    <2>4. Lowest(failed) \in Nat /\ 0 < Lowest(failed) /\ Lowest(failed) < pull[p].next
        BY <2>2, <1>0, <1>1, <1>3 DEF InPage, PullRecords
    <2> QED
        BY <2>1, <2>3, <2>4, <1>0, <1>1 DEF InPage, PullRecords, Cover
<1> QED
    BY <1>2, <1>3

\* What was covered stays covered: the archive and the forfeited mails only grow.
LEMMA CoverGrows ==
  ASSUME kind' = kind, archive \subseteq archive', forfeited \subseteq forfeited'
  PROVE  /\ \A s : Covered(s) => Covered(s)'
         /\ \A n : Cover(n) => Cover(n)'
BY DEF Covered, Cover

\* The steps of the socket and the client leave the pulls alone, or end the daemon's.
LEMMA LinkStep ==
  ASSUME IInv, UNCHANGED <<kind, top, cursor, archive, forfeited>>,
         pull' = pull \/ \E p \in Pullers : Set(p, Idle)
  PROVE  IInv'
<1>1. Idle \in PullRecords
    BY DEF Idle, PullRecords
<1>2. CursorTypes'
    BY <1>1 DEF IInv, CursorTypes, Set
<1>3. Cover(cursor)'
    BY DEF IInv, Cover, Covered
<1>4. ASSUME NEW p \in Pullers PROVE (InPage(p) /\ InWrite(p))'
    <2>1. pull'[p] = pull[p] \/ pull'[p] = Idle
        BY DEF Set, IInv, CursorTypes
    <2>2. CASE pull'[p] = Idle
        BY <2>2 DEF InPage, InWrite, Idle
    <2>3. CASE pull'[p] = pull[p]
        BY <2>3 DEF IInv, InPage, InWrite, Cover, Covered
    <2> QED
        BY <2>1, <2>2, <2>3
<1> QED
    BY <1>2, <1>3, <1>4 DEF IInv

\* A page is asked for: the mails a `since` jumps over are forfeited.
LEMMA FetchStep ==
  ASSUME IInv, NEW p \in Pullers, Fetch(p)
  PROVE  IInv'
<1>0. PageSize \in Nat /\ PageSize > 0
    BY Bounds
<1>1. PICK t \in top .. Len(kind), ok \in BOOLEAN : \E f \in From(p, ok) :
        /\ top' = t
        /\ Set(p, Page(f, Lowest({f + PageSize, t}), t, pull[p].batch))
        /\ LET over == {s \in Mails : cursor < s /\ s <= f} \ archive
           IN forfeited' = forfeited \cup over
    BY DEF Fetch
<1>2. PICK f \in From(p, ok) :
        /\ top' = t
        /\ Set(p, Page(f, Lowest({f + PageSize, t}), t, pull[p].batch))
        /\ LET over == {s \in Mails : cursor < s /\ s <= f} \ archive
           IN forfeited' = forfeited \cup over
    BY <1>1
<1>3. UNCHANGED <<kind, cursor, archive>>
    BY DEF Fetch
<1>4. /\ kind \in Seq(Kinds) /\ Len(kind) \in Nat /\ top \in Nat /\ top <= Len(kind)
      /\ cursor \in Nat /\ cursor <= top /\ pull \in [Pullers -> PullRecords]
    BY DEF IInv, CursorTypes
<1>5. f \in Nat /\ f <= top /\ t \in Nat /\ top <= t /\ t <= Len(kind)
    BY <1>4 DEF From
<1> DEFINE upto == Lowest({f + PageSize, t})
           more == upto < t
           page == [phase |-> "page", from |-> f, next |-> f + 1, upto |-> upto, more |-> more,
                    failed |-> {}, some |-> FALSE, batch |-> pull[p].batch, target |-> 0]
<1>6. upto \in Nat /\ upto <= t /\ f <= upto
    <2>1. f + PageSize \in Nat /\ f <= f + PageSize
        BY <1>0, <1>5
    <2>2. upto \in {f + PageSize, t} /\ upto <= t
        BY <2>1, <1>5, TwoNumbers
    <2> HIDE DEF upto
    <2>3. f <= t
        BY <1>4, <1>5
    <2> QED
        BY <2>1, <2>2, <2>3, <1>5
<1>7. more \in BOOLEAN
    OBVIOUS
<1>8. pull' = [pull EXCEPT ![p] = page]
    BY <1>2 DEF Set, Page
<1> HIDE DEF upto, more
<1>9. page \in PullRecords
    <2>1. pull[p].batch \in Seq(Nat)
        BY <1>4 DEF PullRecords
    <2> QED
        BY <2>1, <1>5, <1>6, <1>7 DEF PullRecords
<1>10. CursorTypes'
    BY <1>2, <1>3, <1>4, <1>5, <1>8, <1>9 DEF CursorTypes
<1>11. \A s : Covered(s) => Covered(s)'
    BY <1>2, <1>3, CoverGrows
<1>12. Cover(cursor)'
    BY <1>3, <1>11 DEF IInv, Cover
<1>13. \A s \in 1 .. f : Covered(s)'
    <2> SUFFICES ASSUME NEW s \in 1 .. f PROVE Covered(s)'
        OBVIOUS
    <2>1. CASE s <= cursor
        BY <2>1, <1>4, <1>5, <1>11 DEF IInv, Cover
    <2>2. CASE cursor < s
        <3>1. s \in Mails
            BY <1>4, <1>5 DEF Mails
        <3> QED
            BY <2>2, <3>1, <1>2, <1>3, <1>5 DEF Covered
    <2> QED
        BY <2>1, <2>2, <1>4, <1>5
<1>14. ASSUME NEW q \in Pullers PROVE (InPage(q) /\ InWrite(q))'
    <2>1. CASE q = p
        <3>1. pull'[q] = page
            BY <2>1, <1>4, <1>8
        <3> QED
            BY <3>1, <1>2, <1>5, <1>6, <1>13 DEF InPage, InWrite
    <2>2. CASE q # p
        <3>1. pull'[q] = pull[q] /\ pull[q] \in PullRecords
            BY <2>2, <1>4, <1>8
        <3>2. InPage(q) /\ InWrite(q)
            BY DEF IInv
        <3>3. top' = t /\ pull[q].upto \in Nat /\ pull[q].target \in Nat
            BY <3>1, <1>2 DEF PullRecords
        <3>4. InPage(q)'
            BY <3>1, <3>2, <3>3, <1>4, <1>5, <1>11 DEF InPage
        <3>5. InWrite(q)'
            BY <3>1, <3>2, <3>3, <1>4, <1>5, <1>11 DEF InWrite, Cover
        <3> QED
            BY <3>4, <3>5
    <2> QED
        BY <2>1, <2>2
<1> QED
    BY <1>10, <1>12, <1>14 DEF IInv

\* One mail is handled: archived, forfeited, passed over, or a failed write of the strict pull.
LEMMA ProcessStep ==
  ASSUME IInv, NEW p \in Pullers, Process(p), NEW s, s = pull[p].next
  PROVE  IInv'
<1> DEFINE shown == Surfaced(s)
           writes == shown \/ kind[s] = "control"
<1>0. PICK ok \in BOOLEAN :
        /\ ok \/ (writes /\ s \notin archive)
        /\ archive' = IF writes /\ ok THEN archive \cup {s} ELSE archive
        /\ Set(p, [pull[p] EXCEPT !.next = s + 1, !.some = @ \/ shown,
                                  !.batch = IF shown THEN Append(@, s) ELSE @,
                                  !.failed = IF shown /\ ~ok THEN @ \cup {s} ELSE @])
        /\ forfeited' = IF ~ok /\ (p = "tool" \/ kind[s] = "control")
                          THEN forfeited \cup {s} ELSE forfeited
    BY DEF Process
<1>1. UNCHANGED <<kind, top, cursor>> /\ pull[p].phase = "page" /\ s <= pull[p].upto
    BY DEF Process
<1>2. /\ kind \in Seq(Kinds) /\ Len(kind) \in Nat /\ top \in Nat /\ top <= Len(kind)
      /\ cursor \in Nat /\ cursor <= top /\ pull \in [Pullers -> PullRecords]
    BY DEF IInv, CursorTypes
<1>3. pull[p] \in PullRecords /\ s \in Nat /\ s > 0 /\ s <= top
    BY <1>1, <1>2 DEF IInv, InPage, PullRecords
<1> DEFINE some == pull[p].some \/ shown
           batch == IF shown THEN Append(pull[p].batch, s) ELSE pull[p].batch
           failed == IF shown /\ ~ok THEN pull[p].failed \cup {s} ELSE pull[p].failed
           next == [pull[p] EXCEPT !.next = s + 1, !.some = some, !.batch = batch,
                                   !.failed = failed]
<1>4. some \in BOOLEAN /\ batch \in Seq(Nat) /\ failed \in SUBSET Nat
    BY <1>3 DEF PullRecords
<1>5. pull' = [pull EXCEPT ![p] = next]
    BY <1>0 DEF Set
<1>6. kind[s] \in Kinds
    BY <1>2, <1>3
<1>7. \A x : Covered(x) => Covered(x)'
    BY <1>0, <1>1, CoverGrows
<1>8. Covered(s)' \/ (p = "daemon" /\ s \in failed)
    <2>1. CASE ok
        BY <2>1, <1>0, <1>1, <1>6 DEF Covered, Surfaced, Kinds
    <2>2. CASE ~ok /\ (p = "tool" \/ kind[s] = "control")
        BY <2>2, <1>0 DEF Covered
    <2>3. CASE ~ok /\ p = "daemon" /\ kind[s] # "control"
        BY <2>3, <1>0
    <2> QED
        BY <2>1, <2>2, <2>3 DEF Pullers
<1>9. /\ pull[p].failed \subseteq failed /\ failed \subseteq pull[p].failed \cup {s}
    OBVIOUS
<1> HIDE DEF some, batch, failed
<1>10. /\ next \in PullRecords /\ next.phase = "page" /\ next.from = pull[p].from
       /\ next.next = s + 1 /\ next.upto = pull[p].upto /\ next.failed = failed
    <2>1. next \in PullRecords
        <3> DEFINE n == s + 1
                   r1 == [pull[p] EXCEPT !.next = n]
                   r2 == [r1 EXCEPT !.some = some]
                   r3 == [r2 EXCEPT !.batch = batch]
                   r4 == [r3 EXCEPT !.failed = failed]
        <3>0. n \in Nat
            BY <1>3
        <3> HIDE DEF n
        <3>1. r1 \in PullRecords
            BY <1>3, <3>0 DEF PullRecords
        <3> HIDE DEF r1
        <3>2. r2 \in PullRecords
            BY <3>1, <1>4 DEF PullRecords
        <3> HIDE DEF r2
        <3>3. r3 \in PullRecords
            BY <3>2, <1>4 DEF PullRecords
        <3> HIDE DEF r3
        <3>4. r4 \in PullRecords
            BY <3>3, <1>4 DEF PullRecords
        <3> QED
            BY <3>4 DEF n, r1, r2, r3, r4
    <2>2. next.phase = "page"
        BY <1>1, <1>3 DEF PullRecords
    <2> QED
        BY <2>1, <2>2, <1>3 DEF PullRecords
<1>11. CursorTypes' /\ Cover(cursor)'
    BY <1>1, <1>2, <1>5, <1>7, <1>10 DEF CursorTypes, IInv, Cover
<1>12. ASSUME NEW q \in Pullers PROVE (InPage(q) /\ InWrite(q))'
    <2>1. CASE q = p
        <3>1. pull'[q] = next
            BY <2>1, <1>2, <1>5
        <3>2. InPage(p)
            BY DEF IInv
        <3>3. \A x \in 1 .. s : Covered(x)' \/ (p = "daemon" /\ x \in failed)
            BY <3>2, <1>1, <1>3, <1>7, <1>8, <1>9 DEF InPage
        <3>4. \A x \in failed : 0 < x /\ x < s + 1
            BY <3>2, <1>1, <1>3, <1>9 DEF InPage, PullRecords
        <3>5. failed # {} => \E x \in failed : \A y \in failed : x <= y
            <4>1. CASE pull[p].failed = {}
                BY <4>1, <1>3, <1>9
            <4>2. CASE pull[p].failed # {}
                <5>1. PICK x \in pull[p].failed : \A y \in pull[p].failed : x <= y
                    BY <4>2, <3>2, <1>1 DEF InPage
                <5>2. x <= s
                    BY <3>2, <1>1, <1>3 DEF InPage, PullRecords
                <5> QED
                    BY <5>1, <5>2, <1>9
            <4> QED
                BY <4>1, <4>2
        <3>6. pull[p].from < s + 1 /\ s + 1 <= pull[p].upto + 1 /\ pull[p].upto <= top
            BY <3>2, <1>1, <1>3 DEF InPage, PullRecords
        <3> HIDE DEF next
        <3> QED
            BY <2>1, <3>1, <3>3, <3>4, <3>5, <3>6, <1>1, <1>3, <1>10 DEF InPage, InWrite
    <2>2. CASE q # p
        <3>1. pull'[q] = pull[q]
            BY <2>2, <1>2, <1>5
        <3> QED
            BY <3>1, <1>1, <1>7 DEF IInv, InPage, InWrite, Cover
    <2> QED
        BY <2>1, <2>2
<1> QED
    BY <1>11, <1>12 DEF IInv

\* After a page a pull goes on, hands its batch over, or is done with it.
LEMMA AfterPage ==
  ASSUME NEW p \in Pullers, pull[p] \in PullRecords
  PROVE  After(p) \in PullRecords /\ After(p).phase \notin {"page", "write"}
<1> DEFINE batch == pull[p].batch
           of(phase) == [Idle EXCEPT !.phase = phase, !.batch = batch]
<1>1. batch \in Seq(Nat)
    BY DEF PullRecords
<1>2. After(p) \in {of("again"), of("done"), Idle}
    BY DEF After
<1> HIDE DEF batch
<1>3. of("again") \in PullRecords /\ of("done") \in PullRecords /\ Idle \in PullRecords
    <2>1. Idle \in PullRecords
        BY DEF Idle, PullRecords
    <2>2. [Idle EXCEPT !.phase = "again", !.batch = batch] \in PullRecords
        BY <2>1, <1>1 DEF PullRecords
    <2>3. [Idle EXCEPT !.phase = "done", !.batch = batch] \in PullRecords
        BY <2>1, <1>1 DEF PullRecords
    <2> QED
        BY <2>1, <2>2, <2>3
<1>4. of("again").phase = "again" /\ of("done").phase = "done" /\ Idle.phase = "idle"
    BY DEF Idle
<1> HIDE DEF of
<1> QED
    BY <1>2, <1>3, <1>4

\* A pull that leaves its page, the rest unchanged.
LEMMA LeavesPage ==
  ASSUME IInv, NEW p \in Pullers, NEW r \in PullRecords, r.phase # "page",
         r.phase = "write" => r.target <= top /\ Cover(r.target),
         pull' = [pull EXCEPT ![p] = r], UNCHANGED <<kind, top, archive, forfeited>>,
         cursor' \in Nat, cursor' <= top, Cover(cursor')
  PROVE  IInv'
<1>1. pull \in [Pullers -> PullRecords]
    BY DEF IInv, CursorTypes
<1>2. CursorTypes' /\ Cover(cursor)'
    BY <1>1 DEF IInv, CursorTypes, Cover, Covered
<1>3. ASSUME NEW q \in Pullers PROVE (InPage(q) /\ InWrite(q))'
    <2>1. CASE q = p
        <3>1. pull'[q] = r
            BY <2>1, <1>1
        <3> QED
            BY <3>1 DEF InPage, InWrite, Cover, Covered
    <2>2. CASE q # p
        <3>1. pull'[q] = pull[q]
            BY <2>2, <1>1
        <3> QED
            BY <3>1 DEF IInv, InPage, InWrite, Cover, Covered
    <2> QED
        BY <2>1, <2>2
<1> QED
    BY <1>2, <1>3 DEF IInv

LEMMA EndPageStep ==
  ASSUME IInv, NEW p \in Pullers, EndPage(p)
  PROVE  IInv'
<1>1. /\ UNCHANGED <<kind, top, cursor, archive, forfeited>>
      /\ pull[p].phase = "page" /\ pull[p].next > pull[p].upto
    BY DEF EndPage, mail, debts
<1>2. pull[p] \in PullRecords /\ cursor \in Nat /\ cursor <= top /\ Cover(cursor) /\ top \in Nat
    BY DEF IInv, CursorTypes
<1>3. AdvanceTarget(p) \in Nat /\ AdvanceTarget(p) <= top /\ Cover(AdvanceTarget(p))
    BY <1>1, TargetCovered
<1>4. CASE AdvanceTarget(p) <= pull[p].from
    <2>1. pull' = [pull EXCEPT ![p] = After(p)]
        BY <1>4 DEF EndPage, Set
    <2> QED
        BY <2>1, <1>1, <1>2, AfterPage, LeavesPage
<1>5. CASE ~(AdvanceTarget(p) <= pull[p].from)
    <2> DEFINE target == Highest({cursor, AdvanceTarget(p)})
               r == [pull[p] EXCEPT !.phase = "write", !.target = target]
    <2>1. pull' = [pull EXCEPT ![p] = r]
        BY <1>5 DEF EndPage, Set
    <2>2. target \in {cursor, AdvanceTarget(p)}
        BY <1>2, <1>3, TwoNumbers
    <2>3. target \in Nat /\ target <= top /\ Cover(target)
        BY <2>2, <1>2, <1>3
    <2> HIDE DEF target
    <2>4. r \in PullRecords /\ r.phase = "write" /\ r.target = target
        BY <2>3, <1>2 DEF PullRecords
    <2> HIDE DEF r
    <2> QED
        BY <2>1, <2>3, <2>4, <1>1, <1>2, LeavesPage
<1> QED
    BY <1>4, <1>5

LEMMA WriteCursorStep ==
  ASSUME IInv, NEW p \in Pullers, WriteCursor(p)
  PROVE  IInv'
<1>1. /\ UNCHANGED <<kind, top, archive, forfeited>> /\ pull[p].phase = "write"
      /\ cursor' \in {cursor, pull[p].target} /\ pull' = [pull EXCEPT ![p] = After(p)]
    BY DEF WriteCursor, debts, Set
<1>2. pull[p] \in PullRecords /\ cursor \in Nat /\ cursor <= top /\ Cover(cursor)
    BY DEF IInv, CursorTypes
<1>3. pull[p].target \in Nat /\ pull[p].target <= top /\ Cover(pull[p].target)
    BY <1>1, <1>2 DEF IInv, InWrite, PullRecords
<1>4. cursor' \in Nat /\ cursor' <= top /\ Cover(cursor')
    BY <1>1, <1>2, <1>3
<1> QED
    BY <1>1, <1>2, <1>4, AfterPage, LeavesPage

-----------------------------------------------------------------------------
LEMMA Initially == Init => IInv
<1> SUFFICES ASSUME Init PROVE IInv
    OBVIOUS
<1>1. kind \in Seq(Kinds) /\ Idle \in PullRecords
    BY Bounds DEF Init, Idle, Kinds, PullRecords
<1> QED
    BY <1>1 DEF Init, IInv, CursorTypes, Cover, InPage, InWrite, Idle, Pullers

LEMMA Inductive == IInv /\ [Next]_vars => IInv'
<1> SUFFICES ASSUME IInv, [Next]_vars PROVE IInv'
    OBVIOUS
<1>1. ASSUME NEW p \in Pullers, Receive(p) PROVE IInv'
    <2>1. CASE FetchFails(p)
        BY <2>1, LinkStep DEF FetchFails, mail
    <2> QED
        BY <1>1, <2>1, FetchStep, ProcessStep, EndPageStep, WriteCursorStep DEF Receive
<1>2. CASE Deliver
    BY <1>2, LinkStep DEF Deliver, mail, Pullers
<1>3. CASE Transmit
    BY <1>3, LinkStep DEF Transmit, mail
<1>4. CASE DaemonStart
    BY <1>4, LinkStep DEF DaemonStart, mail, debts
<1>5. CASE DaemonCrash
    BY <1>5, LinkStep DEF DaemonCrash, mail, debts, Pullers
<1>6. CASE Disconnect
    BY <1>6, LinkStep DEF Disconnect, mail, debts
<1>7. CASE ClientStart
    BY <1>7, LinkStep DEF ClientStart, mail, debts
<1>8. CASE Attach
    BY <1>8, LinkStep DEF Attach, mail, debts
<1>9. CASE Reattach
    BY <1>9, LinkStep DEF Reattach, mail
<1>10. CASE UNCHANGED vars
    BY <1>10, LinkStep DEF vars, mail, debts
<1> QED
    BY <1>1, <1>2, <1>3, <1>4, <1>5, <1>6, <1>7, <1>8, <1>9, <1>10 DEF Next, Pullers

\* The cursor never passes a mail that is missing from the archive, whatever fails and however
\* the two pulls and their two-step cursor writes interleave (core.mjs, cursorAdvanceTarget).
THEOREM CursorIsStrict == Spec => []StrictCursor
<1>1. IInv => StrictCursor
    BY DEF IInv, StrictCursor, Cover, Covered
<1> QED
    BY <1>1, Initially, Inductive, PTL DEF Spec

-----------------------------------------------------------------------------
(* The loop of processNewMessages() over a batch: what holds of every pass.  *)

Frames == [type : {"message", "gap"}, seq : Nat]
Conns == [open : BOOLEAN, queue : Seq(Frames), last : Nat, dropped : SUBSET Nat,
          drain : BOOLEAN]

\* Some frame of a queue carries s or names it in its gap, and every message before
\* that frame is older than s.
Named(s, queue) ==
  \E k \in 1 .. Len(queue) :
    /\ queue[k] = Message(s) \/ (queue[k].type = "gap" /\ queue[k].seq < s)
    /\ \A j \in 1 .. k - 1 : queue[j].type = "message" => queue[j].seq < s

\* Every message of a queue is older than s.
Older(s, queue) == \A j \in 1 .. Len(queue) : queue[j].type = "message" => queue[j].seq < s

\* The numbers that satisfy a condition have a least one.
LEMMA LeastNumber ==
  ASSUME NEW T \in SUBSET Nat, T # {}
  PROVE  \E x \in T : \A y \in T : x <= y
<1>1. IsWellFoundedOn(OpToRel(<, Nat), Nat)
    BY NatLessThanWellFounded
<1>2. \E x \in T : \A y \in T : ~ (<<y, x>> \in OpToRel(<, Nat))
    BY <1>1, WFMin
<1>3. PICK x \in T : \A y \in T : ~ (<<y, x>> \in OpToRel(<, Nat))
    BY <1>2
<1>4. ASSUME NEW y \in T PROVE x <= y
    <2>1. y < x => <<y, x>> \in OpToRel(<, Nat)
        BY DEF OpToRel
    <2>2. ~(y < x)
        BY <2>1, <1>3
    <2> QED
        BY <2>2
<1> QED
    BY <1>4

\* Induction over the passes of a loop, for a set of numbers instead of a predicate.
LEMMA UpTo ==
  ASSUME NEW n \in Nat, NEW good, 0 \in good, \A i \in 1 .. n : i - 1 \in good => i \in good
  PROVE  \A i \in 0 .. n : i \in good
<1> DEFINE bad == {i \in 0 .. n : i \notin good}
<1> SUFFICES ASSUME bad # {} PROVE FALSE
    OBVIOUS
<1>1. bad \in SUBSET Nat
    OBVIOUS
<1>2. PICK m \in bad : \A k \in bad : m <= k
    BY <1>1, LeastNumber
<1>3. m \in 1 .. n /\ m - 1 \in 0 .. n /\ ~(m <= m - 1)
    BY <1>2
<1>4. m - 1 \in good
    BY <1>2, <1>3
<1> QED
    BY <1>2, <1>3, <1>4

LEMMA Frame ==
  ASSUME NEW n \in Nat
  PROVE  Message(n) \in Frames /\ Gap(n) \in Frames
BY DEF Message, Gap, Frames

\* A frame more at the end of a queue.
LEMMA Appended ==
  ASSUME NEW queue \in Seq(Frames), NEW f \in Frames, NEW s
  PROVE  LET longer == Append(queue, f)
         IN /\ longer \in Seq(Frames)
            /\ Named(s, queue) => Named(s, longer)
            /\ Older(s, queue) /\ (f.type = "message" => f.seq < s) => Older(s, longer)
            /\ Older(s, queue) /\ (f = Message(s) \/ (f.type = "gap" /\ f.seq < s))
                 => Named(s, longer)
<1> DEFINE longer == Append(queue, f)
<1>1. /\ longer \in Seq(Frames) /\ Len(queue) \in Nat /\ Len(longer) = Len(queue) + 1
      /\ \A k \in 1 .. Len(queue) : longer[k] = queue[k]
      /\ longer[Len(queue) + 1] = f
    OBVIOUS
<1> HIDE DEF longer
<1>2. Named(s, queue) => Named(s, longer)
    <2> SUFFICES ASSUME Named(s, queue) PROVE Named(s, longer)
        OBVIOUS
    <2>1. PICK k \in 1 .. Len(queue) :
            /\ queue[k] = Message(s) \/ (queue[k].type = "gap" /\ queue[k].seq < s)
            /\ \A j \in 1 .. k - 1 : queue[j].type = "message" => queue[j].seq < s
        BY DEF Named
    <2>2. k \in 1 .. Len(longer) /\ longer[k] = queue[k]
        BY <1>1
    <2>3. \A j \in 1 .. k - 1 : longer[j] = queue[j]
        BY <1>1
    <2> QED
        BY <2>1, <2>2, <2>3 DEF Named
<1>3. Older(s, queue) /\ (f.type = "message" => f.seq < s) => Older(s, longer)
    BY <1>1 DEF Older
<1>4. Older(s, queue) /\ (f = Message(s) \/ (f.type = "gap" /\ f.seq < s)) => Named(s, longer)
    <2> SUFFICES ASSUME Older(s, queue), f = Message(s) \/ (f.type = "gap" /\ f.seq < s)
                 PROVE  Named(s, longer)
        OBVIOUS
    <2>1. \A j \in 1 .. (Len(queue) + 1) - 1 : longer[j].type = "message" => longer[j].seq < s
        BY <1>1 DEF Older
    <2> QED
        BY <1>1, <2>1 DEF Named
<1> QED
    BY <1>1, <1>2, <1>3, <1>4 DEF longer

\* write() appends one frame.
LEMMA Writes ==
  ASSUME NEW c \in Conns, NEW f \in Frames
  PROVE  /\ Put(c, f) \in Conns
         /\ Put(c, f).queue = Append(c.queue, f)
         /\ Put(c, f).open = c.open /\ Put(c, f).last = c.last
         /\ Put(c, f).dropped = c.dropped
<1> DEFINE queue == Append(c.queue, f)
           drain == c.drain \/ Len(c.queue) + 1 >= Hwm
           r1 == [c EXCEPT !.queue = queue]
           r2 == [r1 EXCEPT !.drain = drain]
<1>1. queue \in Seq(Frames) /\ drain \in BOOLEAN
    BY DEF Conns
<1>2. Put(c, f) = r2
    BY DEF Put, Conns
<1> HIDE DEF queue, drain
<1>3. r1 \in Conns /\ r1.queue = queue /\ r1.open = c.open /\ r1.last = c.last
      /\ r1.dropped = c.dropped
    BY <1>1 DEF Conns
<1> HIDE DEF r1
<1>4. r2 \in Conns /\ r2.queue = r1.queue /\ r2.open = r1.open /\ r2.last = r1.last
      /\ r2.dropped = r1.dropped
    BY <1>1, <1>3 DEF Conns
<1> QED
    BY <1>2, <1>3, <1>4 DEF queue

\* flushPending() does nothing, or turns what was skipped into a gap.
LEMMA Flushes ==
  ASSUME NEW c \in Conns
  PROVE  \/ Flush(c) = c
         \/ /\ Flush(c) \in Conns
            /\ Flush(c).queue = Append(c.queue, Gap(c.last))
            /\ Flush(c).open = c.open /\ Flush(c).last = c.last
            /\ Flush(c).dropped = {}
<1>1. CASE c.dropped = {} \/ Len(c.queue) > Hwm
    BY <1>1 DEF Flush
<1>2. CASE ~(c.dropped = {} \/ Len(c.queue) > Hwm)
    <2>1. PICK p : p = Put(c, Gap(c.last))
        OBVIOUS
    <2>2. Gap(c.last) \in Frames
        BY Frame DEF Conns
    <2>3. p \in Conns /\ p.queue = Append(c.queue, Gap(c.last)) /\ p.open = c.open
          /\ p.last = c.last
        BY <2>1, <2>2, Writes
    <2>4. Flush(c) = [p EXCEPT !.dropped = {}]
        BY <1>2, <2>1 DEF Flush
    <2> QED
        BY <2>3, <2>4 DEF Conns
<1> QED
    BY <1>1, <1>2

\* What deliver() makes of the socket c: it skips the mail x, writes it, or writes it and
\* then the gap that was pending.
Offered(c, x, o) ==
  /\ o \in Conns /\ o.open = c.open
  /\ \/ o.last = c.last /\ o.queue = c.queue /\ o.dropped = c.dropped \cup {x}
     \/ o.last = x /\ o.queue = Append(c.queue, Message(x)) /\ o.dropped = c.dropped
     \/ /\ o.last = x /\ o.queue = Append(Append(c.queue, Message(x)), Gap(x))
        /\ o.dropped = {}

LEMMA Offers ==
  ASSUME NEW c \in Conns, NEW x \in Nat
  PROVE  Offered(c, x, Offer(c, x))
<1> SUFFICES ASSUME NEW o, o = Offer(c, x) PROVE Offered(c, x, o)
    OBVIOUS
<1> USE DEF Offered
<1>1. CASE Len(c.queue) > Hwm
    <2>1. PICK dropped : dropped = c.dropped \cup {x}
        OBVIOUS
    <2>2. o = [c EXCEPT !.dropped = dropped]
        BY <1>1, <2>1 DEF Offer
    <2>3. dropped \in SUBSET Nat
        BY <2>1 DEF Conns
    <2> QED
        BY <2>1, <2>2, <2>3 DEF Conns
<1>2. CASE ~(Len(c.queue) > Hwm)
    <2>1. PICK p : p = Put(c, Message(x))
        OBVIOUS
    <2>2. p \in Conns /\ p.queue = Append(c.queue, Message(x)) /\ p.open = c.open
          /\ p.dropped = c.dropped
        BY <2>1, Frame, Writes
    <2>3. PICK q : q = [p EXCEPT !.last = x]
        OBVIOUS
    <2>4. q \in Conns /\ q.queue = p.queue /\ q.open = p.open /\ q.last = x
          /\ q.dropped = p.dropped
        BY <2>2, <2>3 DEF Conns
    <2>5. o = Flush(q)
        BY <1>2, <2>1, <2>3 DEF Offer
    <2>6. CASE o = q
        BY <2>2, <2>4, <2>6
    <2>7. CASE /\ o \in Conns /\ o.queue = Append(q.queue, Gap(q.last))
               /\ o.open = q.open /\ o.last = q.last /\ o.dropped = {}
        BY <2>2, <2>4, <2>7
    <2> QED
        BY <2>4, <2>5, <2>6, <2>7, Flushes
<1> QED
    BY <1>1, <1>2

\* Where processNewMessages() stands in its loop.
Rounds == [seen : SUBSET Nat, to : Conns, passed : SUBSET Nat]
Start == [seen |-> daemon.seen, to |-> conn, passed |-> {}]

\* f is the loop over the first n mails of a batch.
IsLoop(f, n, batch) ==
  /\ f[0] = Start
  /\ \A i \in 1 .. n : f[i] = FanOut(f[i - 1], batch[i])

\* The recursion of FanOutAll() has a solution, which is what it returns.
LEMMA LoopRuns ==
  ASSUME NEW batch \in Seq(Nat)
  PROVE  \E f : IsLoop(f, Len(batch), batch) /\ FanOutAll(batch) = f[Len(batch)]
<1> DEFINE n == Len(batch)
           Runs(m) == \E f : f = [i \in 0 .. m |-> f[i]] /\ IsLoop(f, m, batch)
           step(f, i) == IF i = 0 THEN Start ELSE FanOut(f[i - 1], batch[i])
<1>0. n \in Nat
    OBVIOUS
<1>1. Runs(0)
    <2> DEFINE f == [i \in 0 .. 0 |-> Start]
    <2>1. f[0] = Start /\ f = [i \in 0 .. 0 |-> f[i]]
        OBVIOUS
    <2> HIDE DEF f
    <2> QED
        BY <2>1 DEF IsLoop
<1>2. ASSUME NEW m \in Nat, Runs(m) PROVE Runs(m + 1)
    <2>1. PICK f : f = [i \in 0 .. m |-> f[i]] /\ IsLoop(f, m, batch)
        BY <1>2
    <2> DEFINE g == [i \in 0 .. m + 1 |-> IF i = m + 1 THEN FanOut(f[m], batch[m + 1]) ELSE f[i]]
    <2>2. \A i \in 0 .. m : g[i] = f[i]
        BY SMT
    <2>3. g[m + 1] = FanOut(f[m], batch[m + 1]) /\ g = [i \in 0 .. m + 1 |-> g[i]]
        BY SMT
    <2> HIDE DEF g
    <2>4. g[0] = Start
        BY <2>1, <2>2 DEF IsLoop
    <2>5. ASSUME NEW i \in 1 .. m + 1 PROVE g[i] = FanOut(g[i - 1], batch[i])
        <3>1. CASE i = m + 1
            <4>1. i - 1 = m /\ m \in 0 .. m
                BY <3>1
            <4> QED
                BY <3>1, <4>1, <2>2, <2>3
        <3>2. CASE i \in 1 .. m
            <4>1. i \in 0 .. m /\ i - 1 \in 0 .. m
                BY <3>2
            <4> QED
                BY <3>2, <4>1, <2>1, <2>2 DEF IsLoop
        <3> QED
            BY <3>1, <3>2
    <2> QED
        BY <2>3, <2>4, <2>5 DEF IsLoop
<1> HIDE DEF Runs
<1>3. Runs(n)
    <2> DEFINE good == {m \in Nat : Runs(m)}
    <2>1. 0 \in good
        BY <1>1
    <2>2. \A m \in 1 .. n : m - 1 \in good => m \in good
        <3> SUFFICES ASSUME NEW m \in 1 .. n, Runs(m - 1) PROVE Runs(m)
            OBVIOUS
        <3>1. m - 1 \in Nat /\ (m - 1) + 1 = m
            OBVIOUS
        <3> QED
            BY <3>1, <1>2
    <2> HIDE DEF good
    <2> HIDE DEF n
    <2>3. \A m \in 0 .. n : m \in good
        BY <2>1, <2>2, <1>0, UpTo
    <2> QED
        BY <2>3, <1>0 DEF good
<1>4. PICK f : f = [i \in 0 .. n |-> f[i]] /\ IsLoop(f, n, batch)
    BY <1>3 DEF Runs
<1>5. \A i \in 0 .. n : f[i] = step(f, i)
    BY <1>0, <1>4 DEF IsLoop
<1>6. f = [i \in 0 .. n |-> step(f, i)]
    BY <1>4, <1>5
<1> DEFINE loop == CHOOSE h : h = [i \in 0 .. n |-> step(h, i)]
<1>7. loop = [i \in 0 .. n |-> step(loop, i)]
    BY <1>6
<1>8. FanOutAll(batch) = loop[n]
    BY DEF FanOutAll, Start
<1> HIDE DEF loop
<1>9. \A i \in 0 .. n : loop[i] = step(loop, i)
    BY <1>7
<1>10. IsLoop(loop, n, batch)
    BY <1>0, <1>9 DEF IsLoop
<1> QED
    BY <1>8, <1>10

\* What is queued and what was skipped is among the mails of S.
Within(queue, S) == \A j \in 1 .. Len(queue) : queue[j].type = "message" => queue[j].seq \in S
Known(c, S) == Within(c.queue, S) /\ c.dropped \subseteq S

\* The first i mails of a batch.
Earlier(batch, i) == {batch[j] : j \in 1 .. i}

\* Everything that sorts before a mail of the batch has come earlier in it: s is not overtaken.
InTurn(s, batch) == \A j \in 1 .. Len(batch) : s < batch[j] => \E k \in 1 .. j - 1 : batch[k] = s

\* What one pass of the loop, over the mail x, makes of r.
OnePass(r, x, q) ==
  /\ q \in Rounds /\ q.seen = r.seen \cup {x}
  /\ q.to.open = r.to.open /\ q.to.last \in {r.to.last, x}
  /\ ~r.to.open => q.to = r.to
  /\ Known(q.to, q.seen) /\ r.passed \subseteq q.passed
  /\ \A s : Named(s, r.to.queue) => Named(s, q.to.queue)

LEMMA Pass ==
  ASSUME NEW r \in Rounds, NEW x \in Nat, Known(r.to, r.seen)
  PROVE  OnePass(r, x, FanOut(r, x))
<1> SUFFICES ASSUME NEW q, q = FanOut(r, x) PROVE OnePass(r, x, q)
    OBVIOUS
<1> USE DEF OnePass
<1>0. r.seen \in SUBSET Nat /\ r.to \in Conns /\ r.passed \in SUBSET Nat
    BY DEF Rounds
<1>1. CASE x \in r.seen
    <2>1. q = r
        BY <1>1 DEF FanOut
    <2> QED
        BY <2>1, <1>1
<1>2. CASE x \notin r.seen
    <2>1. PICK to : to = IF r.to.open THEN Offer(r.to, x) ELSE r.to
        OBVIOUS
    <2>2. PICK passed : passed = r.passed \cup {d \in r.to.dropped : d < to.last}
        OBVIOUS
    <2>3. q = [seen |-> r.seen \cup {x}, to |-> to, passed |-> passed]
        BY <1>2, <2>1, <2>2 DEF FanOut
    <2>4. /\ r.seen \cup {x} \in SUBSET Nat /\ passed \in SUBSET Nat
          /\ q.passed = passed /\ r.passed \subseteq passed
        BY <1>0, <2>2, <2>3 DEF Conns
    <2>5. CASE ~r.to.open
        <3>1. to = r.to
            BY <2>1, <2>5
        <3> QED
            BY <3>1, <2>3, <2>4, <1>0 DEF Rounds, Known, Within
    <2>6. CASE r.to.open
        <3>1. to = Offer(r.to, x)
            BY <2>1, <2>6
        <3>2. /\ to \in Conns /\ to.open = r.to.open
              /\ \/ to.last = r.to.last /\ to.queue = r.to.queue
                 \/ to.last = x /\ to.queue = Append(r.to.queue, Message(x))
                 \/ to.last = x /\ to.queue = Append(Append(r.to.queue, Message(x)), Gap(x))
              /\ to.dropped \subseteq r.to.dropped \cup {x}
            BY <3>1, <1>0, Offers DEF Offered
        <3>3. q \in Rounds /\ q.seen = r.seen \cup {x} /\ q.to = to
            BY <2>3, <2>4, <3>2 DEF Rounds
        <3> DEFINE one == Append(r.to.queue, Message(x))
                   two == Append(one, Gap(x))
        <3>4. /\ r.to.queue \in Seq(Frames) /\ Message(x) \in Frames /\ Gap(x) \in Frames
            BY <1>0, Frame DEF Conns
        <3>5. one \in Seq(Frames) /\ \A s : Named(s, r.to.queue) => Named(s, one)
            BY <3>4, Appended
        <3>6. \A s : Named(s, one) => Named(s, two)
            BY <3>4, <3>5, Appended
        <3>7. Within(one, q.seen)
            BY <3>3, <3>4 DEF Within, Known, Message
        <3>8. Within(two, q.seen)
            <4> HIDE DEF one
            <4> QED
                BY <3>4, <3>5, <3>7 DEF Within, Gap
        <3>9. Within(r.to.queue, q.seen)
            BY <3>3 DEF Within, Known
        <3> HIDE DEF one, two
        <3>10. to.queue \in {r.to.queue, one, two} /\ to.last \in {r.to.last, x}
            BY <3>2 DEF one, two
        <3>11. Known(q.to, q.seen)
            BY <3>2, <3>3, <3>7, <3>8, <3>9, <3>10 DEF Known
        <3> QED
            BY <2>4, <2>6, <3>2, <3>3, <3>5, <3>6, <3>10, <3>11
    <2> QED
        BY <2>5, <2>6
<1> QED
    BY <1>1, <1>2

\* A mail that was skipped, or whose turn is still to come.
Behind(s, r) == r.to.last < s /\ Older(s, r.to.queue) /\ (s \in r.to.dropped \/ s \notin r.seen)

\* One pass of the loop, for a mail that is behind: it is behind still, it is written or
\* named by the gap that follows, or the pass has moved lastSeq past it.
LEMMA PassBehind ==
  ASSUME NEW r \in Rounds, NEW x \in Nat, NEW q, q = FanOut(r, x), NEW s \in Nat,
         r.to.open, Behind(s, r), s < x => s \in r.to.dropped \/ s \in r.seen
  PROVE  s \in q.passed \/ Named(s, q.to.queue) \/ Behind(s, q)
<1>0. r.seen \in SUBSET Nat /\ r.to \in Conns /\ r.passed \in SUBSET Nat /\ r.to.last \in Nat
    BY DEF Rounds, Conns
<1>1. CASE x \in r.seen
    BY <1>1 DEF FanOut
<1>2. CASE x \notin r.seen
    <2>1. PICK to : to = Offer(r.to, x)
        OBVIOUS
    <2>2. PICK passed : passed = r.passed \cup {d \in r.to.dropped : d < to.last}
        OBVIOUS
    <2>3. q = [seen |-> r.seen \cup {x}, to |-> to, passed |-> passed]
        BY <1>2, <2>1, <2>2 DEF FanOut
    <2>4. q.seen = r.seen \cup {x} /\ q.to = to /\ q.passed = passed
        BY <2>3
    <2> DEFINE one == Append(r.to.queue, Message(x))
               two == Append(one, Gap(x))
    <2>5. /\ to \in Conns
          /\ \/ to.last = r.to.last /\ to.queue = r.to.queue /\ to.dropped = r.to.dropped \cup {x}
             \/ to.last = x /\ to.queue = one /\ to.dropped = r.to.dropped
             \/ to.last = x /\ to.queue = two
        BY <2>1, <1>0, Offers DEF Offered, one, two
    <2>6. /\ r.to.queue \in Seq(Frames) /\ Message(x) \in Frames /\ Gap(x) \in Frames
          /\ Message(x).type = "message" /\ Message(x).seq = x
          /\ Gap(x).type = "gap" /\ Gap(x).seq = x
        BY <1>0, Frame DEF Conns, Message, Gap
    <2>7. one \in Seq(Frames) /\ (x < s => Older(s, one)) /\ (x = s => Named(s, one))
        BY <2>6, Appended DEF Behind
    <2>8. /\ Named(s, one) => Named(s, two)
          /\ Older(s, one) /\ x < s => Named(s, two)
        <3> HIDE DEF one
        <3> QED
            BY <2>6, <2>7, Appended
    <2> HIDE DEF one, two
    <2>9. CASE to.last = r.to.last /\ to.queue = r.to.queue /\ to.dropped = r.to.dropped \cup {x}
        BY <2>4, <2>9 DEF Behind
    <2>10. CASE to.last = x /\ to.queue = one /\ to.dropped = r.to.dropped
        <3>1. CASE x = s
            BY <3>1, <2>4, <2>7, <2>10
        <3>2. CASE x < s
            BY <3>2, <2>4, <2>7, <2>10 DEF Behind
        <3>3. CASE s < x
            <4>1. s \in r.to.dropped
                BY <3>3 DEF Behind
            <4> QED
                BY <3>3, <4>1, <2>2, <2>4, <2>10
        <3> QED
            BY <3>1, <3>2, <3>3
    <2>11. CASE to.last = x /\ to.queue = two
        <3>1. CASE x = s
            BY <3>1, <2>4, <2>7, <2>8, <2>11
        <3>2. CASE x < s
            BY <3>2, <2>4, <2>7, <2>8, <2>11
        <3>3. CASE s < x
            <4>1. s \in r.to.dropped
                BY <3>3 DEF Behind
            <4> QED
                BY <3>3, <4>1, <2>2, <2>4, <2>11
        <3> QED
            BY <3>1, <3>2, <3>3
    <2> QED
        BY <2>5, <2>9, <2>10, <2>11
<1> QED
    BY <1>1, <1>2

\* Where the loop stands after i mails of the batch.
Handled(r, i, batch) ==
  /\ r \in Rounds /\ r.seen = daemon.seen \cup Earlier(batch, i)
  /\ r.to.open = conn.open /\ r.to.last \in {conn.last} \cup Earlier(batch, i)
  /\ ~conn.open => r.to = conn
  /\ Known(r.to, r.seen)
  /\ \A s : Named(s, conn.queue) => Named(s, r.to.queue)

\* A mail that the socket knows of, or that the batch does not overtake.
Pending(s, batch) ==
  /\ conn.last < s /\ Older(s, conn.queue)
  /\ s \in conn.dropped \/ (s \notin daemon.seen /\ InTurn(s, batch))

\* What has become of such a mail.
Settled(s, r) == s \in r.passed \/ Named(s, r.to.queue) \/ Behind(s, r)

\* One mail of a batch more.
LEMMA OneMore ==
  ASSUME NEW batch \in Seq(Nat), NEW i \in 1 .. Len(batch)
  PROVE  /\ i - 1 \in Nat /\ batch[i] \in Nat
         /\ Earlier(batch, i) = Earlier(batch, i - 1) \cup {batch[i]}
         /\ \A s : InTurn(s, batch) /\ s < batch[i] => s \in Earlier(batch, i - 1)
<1>1. i - 1 \in Nat /\ batch[i] \in Nat
    OBVIOUS
<1>2. 1 .. i = (1 .. i - 1) \cup {i}
    OBVIOUS
<1>3. Earlier(batch, i) = Earlier(batch, i - 1) \cup {batch[i]}
    BY <1>2 DEF Earlier
<1>4. \A s : InTurn(s, batch) /\ s < batch[i] => s \in Earlier(batch, i - 1)
    BY DEF InTurn, Earlier
<1> QED
    BY <1>1, <1>3, <1>4

\* The whole loop.
LEMMA Fanned ==
  ASSUME conn \in Conns, daemon.seen \in SUBSET Nat, Known(conn, daemon.seen),
         NEW batch \in Seq(Nat), NEW r, r = FanOutAll(batch)
  PROVE  /\ Handled(r, Len(batch), batch)
         /\ conn.open => \A s \in Nat : Pending(s, batch) => Settled(s, r)
<1>1. PICK f : IsLoop(f, Len(batch), batch) /\ r = f[Len(batch)]
    BY LoopRuns
<1> DEFINE n == Len(batch)
           fine == {i \in 0 .. n : Handled(f[i], i, batch)}
<1>2. n \in Nat /\ n \in 0 .. n /\ 0 \in 0 .. n
    OBVIOUS
<1>3. f[0] = Start /\ \A i \in 1 .. n : f[i] = FanOut(f[i - 1], batch[i])
    BY <1>1 DEF IsLoop
<1>4. /\ Start \in Rounds /\ Start.seen = daemon.seen /\ Start.to = conn /\ Start.passed = {}
    BY DEF Start, Rounds
<1>5. Handled(f[0], 0, batch)
    <2>1. Earlier(batch, 0) = {}
        BY DEF Earlier
    <2> QED
        BY <2>1, <1>3, <1>4 DEF Handled
<1>6. ASSUME NEW i \in 1 .. n, Handled(f[i - 1], i - 1, batch) PROVE Handled(f[i], i, batch)
    <2>1. /\ f[i - 1] \in Rounds /\ Known(f[i - 1].to, f[i - 1].seen)
          /\ batch[i] \in Nat /\ f[i] = FanOut(f[i - 1], batch[i])
        BY <1>3, <1>6, OneMore DEF Handled
    <2>2. PICK p \in Rounds : p = f[i - 1]
        BY <2>1
    <2>3. PICK q : q = f[i]
        OBVIOUS
    <2>4. /\ q \in Rounds /\ q.seen = p.seen \cup {batch[i]}
          /\ q.to.open = p.to.open /\ q.to.last \in {p.to.last, batch[i]}
          /\ ~p.to.open => q.to = p.to
          /\ Known(q.to, q.seen)
          /\ \A s : Named(s, p.to.queue) => Named(s, q.to.queue)
        <3>1. OnePass(p, batch[i], q)
            BY <2>1, <2>2, <2>3, Pass
        <3> QED
            BY <3>1 DEF OnePass
    <2>5. Earlier(batch, i) = Earlier(batch, i - 1) \cup {batch[i]}
        BY OneMore
    <2>6. Handled(p, i - 1, batch)
        BY <1>6, <2>2
    <2>7. q.seen = daemon.seen \cup Earlier(batch, i)
        BY <2>4, <2>5, <2>6 DEF Handled
    <2>8. q.to.open = conn.open /\ q.to.last \in {conn.last} \cup Earlier(batch, i)
        BY <2>4, <2>5, <2>6 DEF Handled
    <2>9. ~conn.open => q.to = conn
        BY <2>4, <2>6 DEF Handled
    <2>10. \A s : Named(s, conn.queue) => Named(s, q.to.queue)
        BY <2>4, <2>6 DEF Handled
    <2> QED
        BY <2>3, <2>4, <2>7, <2>8, <2>9, <2>10 DEF Handled
<1>7. \A i \in 0 .. n : Handled(f[i], i, batch)
    <2>1. 0 \in fine /\ \A i \in 1 .. n : i - 1 \in fine => i \in fine
        BY <1>2, <1>5, <1>6
    <2> HIDE DEF fine, n
    <2>2. \A i \in 0 .. n : i \in fine
        BY <2>1, <1>2, UpTo
    <2> QED
        BY <2>2 DEF fine
<1>8. ASSUME conn.open, NEW s \in Nat, Pending(s, batch) PROVE Settled(s, r)
    <2> DEFINE settled == {i \in 0 .. n : Settled(s, f[i])}
    <2>1. Settled(s, f[0])
        BY <1>3, <1>4, <1>8 DEF Pending, Settled, Behind
    <2>2. ASSUME NEW i \in 1 .. n, Settled(s, f[i - 1]) PROVE Settled(s, f[i])
        <3>1. PICK p : p = f[i - 1]
            OBVIOUS
        <3>2. PICK q : q = f[i]
            OBVIOUS
        <3>3. Handled(p, i - 1, batch)
            BY <3>1, <1>7
        <3>4. /\ p \in Rounds /\ Known(p.to, p.seen) /\ p.to.open /\ batch[i] \in Nat
              /\ q = FanOut(p, batch[i])
            BY <3>1, <3>2, <3>3, <1>3, <1>8, OneMore DEF Handled
        <3>5. p.passed \subseteq q.passed /\ \A x : Named(x, p.to.queue) => Named(x, q.to.queue)
            BY <3>4, Pass DEF OnePass
        <3>6. s < batch[i] => s \in p.to.dropped \/ s \in p.seen
            <4>1. CASE s \in conn.dropped
                BY <4>1, <3>3 DEF Handled, Known
            <4>2. CASE InTurn(s, batch)
                BY <4>2, <3>3, OneMore DEF Handled
            <4> QED
                BY <4>1, <4>2, <1>8 DEF Pending
        <3>7. CASE Behind(s, p)
            BY <3>2, <3>4, <3>6, <3>7, PassBehind DEF Settled
        <3> QED
            BY <3>1, <3>2, <3>5, <3>7, <2>2 DEF Settled
    <2>3. 0 \in settled /\ \A i \in 1 .. n : i - 1 \in settled => i \in settled
        BY <1>2, <2>1, <2>2
    <2> HIDE DEF settled, n
    <2>4. \A i \in 0 .. n : i \in settled
        BY <2>3, <1>2, UpTo
    <2> QED
        BY <2>4, <1>1, <1>2 DEF settled, n
<1> QED
    BY <1>1, <1>2, <1>7, <1>8

-----------------------------------------------------------------------------
(* Why owed mail is on its way.  A mail is owed from the step that pulls it   *)
(* first, and then it is newer than everything heard: pages are read in       *)
(* order, and every earlier mail has been pulled, forfeited or passed over.   *)
(* So it follows what it must not be overtaken by (the marks of the client    *)
(* and the socket, and the messages in the queue), and from then on it comes  *)
(* before anything that could move those marks past it.                       *)

Clients == [phase : {"off", "started", "on", "down"}, baseline : Nat \cup {Null}, maxSeen : Nat]
Daemons == [up : BOOLEAN, seen : SUBSET Nat]

LinkTypes == conn \in Conns /\ client \in Clients /\ daemon \in Daemons

\* The two ends of the socket, and what a daemon that is down has forgotten.
Attached ==
  /\ conn.open <=> client.phase = "on"
  /\ conn.open \/ conn = Closed
  /\ daemon.up \/ (daemon.seen = {} /\ pull["daemon"].phase = "idle")

\* A mail that will not be first pulled any more, and a prefix of such mails.
Passed(s) == s \in pulled \/ s \in forfeited \/ kind[s] \in {"control", "blocked"}
PassedTo(n) == \A s \in 1 .. n : Passed(s)

\* What has been heard was pulled, and everything before it had passed.
Heard ==
  /\ \A x \in pulled : x \in Mails /\ PassedTo(x)
  /\ PassedTo(conn.last) /\ PassedTo(client.maxSeen) /\ PassedTo(client.baseline)
  /\ \A s \in archive : s \in pulled \/ kind[s] = "control"
  /\ ToSet(pull["daemon"].batch) \subseteq pulled /\ daemon.seen \subseteq pulled
  /\ Known(conn, daemon.seen)
  /\ pull["daemon"].phase = "page" => pull["daemon"].failed \subseteq ToSet(pull["daemon"].batch)

Owing ==
  /\ \A s \in owed : s \in Mails /\ kind[s] \in {"plain", "room"}
  /\ \A s \in owed : s \in forfeited => s \in excused

\* A mail that is new to the daemon and that nothing newer has overtaken.
Unheard(s) == (\A t \in daemon.seen : t < s) /\ InTurn(s, pull["daemon"].batch) /\ conn.last < s

\* A mail the socket was too congested for, or that is about to come.
Ahead(s) ==
  /\ conn.last < s /\ Older(s, conn.queue)
  /\ \/ s \in conn.dropped
     \/ /\ s \notin daemon.seen /\ InTurn(s, pull["daemon"].batch)
        /\ s \in ToSet(pull["daemon"].batch) \/ s \notin archive

\* Mail that the client will hear of, whatever breaks in between.
Waiting(s) ==
  /\ client.maxSeen < s /\ client.baseline < s
  /\ s \notin daemon.seen /\ s \notin archive => Unheard(s)
  /\ client.phase = "down" \/ (client.phase = "on" /\ (Named(s, conn.queue) \/ Ahead(s)))

Recovered == \A s \in owed : s \in pushed \/ s \in excused \/ Waiting(s)

LinkInv == LinkTypes /\ Attached /\ Heard /\ Owing /\ Recovered

LEMMA Elements ==
  ASSUME NEW S, NEW batch \in Seq(S)
  PROVE  ToSet(batch) = Earlier(batch, Len(batch))
BY DEF ToSet, Earlier

\* It implies the property.
LEMMA WaitingIsOnItsWay == CursorTypes /\ LinkInv => NoOtherLoss
<1> SUFFICES ASSUME CursorTypes, LinkInv, NEW s \in owed, s \notin pushed, s \notin excused
             PROVE  OnItsWay(s)
    BY DEF NoOtherLoss
<1>1. Waiting(s) /\ client \in Clients /\ conn \in Conns
    BY DEF LinkInv, Recovered, LinkTypes
<1>2. CASE client.phase = "down"
    BY <1>1, <1>2 DEF Waiting, OnItsWay, Since
<1>3. CASE Named(s, conn.queue)
    <2>1. PICK k \in 1 .. Len(conn.queue) :
            conn.queue[k] = Message(s) \/ (conn.queue[k].type = "gap" /\ conn.queue[k].seq < s)
        BY <1>3 DEF Named
    <2>2. conn.queue[k] \in ToSet(conn.queue)
        BY <1>1 DEF ToSet, Conns
    <2> QED
        BY <2>1, <2>2 DEF OnItsWay
<1>4. CASE Ahead(s)
    BY <1>4, <1>1 DEF Ahead, OnItsWay, Conns
<1> QED
    BY <1>1, <1>2, <1>3, <1>4 DEF Waiting

\* A mail whose archive row, batch and socket a step leaves alone goes on waiting.
LEMMA StillWaiting ==
  ASSUME NEW s, Waiting(s), UNCHANGED <<daemon, conn, client>>,
         pull'["daemon"].batch = pull["daemon"].batch, s \in archive' <=> s \in archive
  PROVE  Waiting(s)'
BY DEF Waiting, Unheard, Ahead

\* Steps that read and write nothing of the link.
LEMMA QuietStep ==
  ASSUME LinkInv, UNCHANGED <<kind, archive, daemon, conn, client, pushed, pulled, owed>>,
         pull'["daemon"].batch = pull["daemon"].batch,
         forfeited \subseteq forfeited', excused \subseteq excused',
         \A s \in owed : s \in forfeited' => s \in forfeited \/ s \in excused',
         pull'["daemon"].phase = "page"
           => pull'["daemon"].failed \subseteq ToSet(pull["daemon"].batch),
         daemon.up \/ pull'["daemon"].phase = "idle"
  PROVE  LinkInv'
<1>1. LinkTypes'
    BY DEF LinkInv, LinkTypes
<1>2. Attached'
    BY DEF LinkInv, Attached
<1>3. \A s : Passed(s) => Passed(s)'
    BY DEF Passed
<1>4. Heard'
    BY <1>3 DEF LinkInv, Heard, PassedTo, Mails
<1>5. Owing'
    BY DEF LinkInv, Owing, Mails
<1>6. Recovered'
    BY StillWaiting DEF LinkInv, Recovered
<1> QED
    BY <1>1, <1>2, <1>4, <1>5, <1>6 DEF LinkInv

LEMMA FetchLink ==
  ASSUME CursorTypes, LinkInv, NEW p \in Pullers, Fetch(p)
  PROVE  LinkInv'
<1>1. PICK t \in top .. Len(kind), ok \in BOOLEAN : \E f \in From(p, ok) :
        /\ Set(p, Page(f, Lowest({f + PageSize, t}), t, pull[p].batch))
        /\ LET over == {s \in Mails : cursor < s /\ s <= f} \ archive
           IN forfeited' = forfeited \cup over /\ Excuse(over)
    BY DEF Fetch
<1>2. PICK f \in From(p, ok) :
        /\ Set(p, Page(f, Lowest({f + PageSize, t}), t, pull[p].batch))
        /\ LET over == {s \in Mails : cursor < s /\ s <= f} \ archive
           IN forfeited' = forfeited \cup over /\ Excuse(over)
    BY <1>1
<1>3. PICK over : forfeited' = forfeited \cup over /\ excused' = excused \cup (over \cap owed)
    BY <1>2 DEF Excuse
<1>4. PICK upto : upto = Lowest({f + PageSize, t})
    OBVIOUS
<1>5. PICK page : page = Page(f, upto, t, pull[p].batch)
    OBVIOUS
<1>6. page.phase = "page" /\ page.failed = {} /\ page.batch = pull[p].batch
    BY <1>5 DEF Page
<1>7. pull' = [pull EXCEPT ![p] = page] /\ pull \in [Pullers -> PullRecords]
    BY <1>2, <1>4, <1>5 DEF Set, CursorTypes
<1>8. UNCHANGED <<kind, archive, daemon, conn, client, pushed, pulled, owed>>
    BY DEF Fetch, link
<1>9. CASE p = "daemon"
    <2>1. pull'["daemon"] = page
        BY <1>7, <1>9 DEF Pullers
    <2>2. daemon.up
        BY <1>9 DEF Fetch, Ready, LinkInv, Attached
    <2> QED
        BY <2>1, <2>2, <1>3, <1>6, <1>8, <1>9, QuietStep
<1>10. CASE p = "tool"
    <2>1. pull'["daemon"] = pull["daemon"]
        BY <1>7, <1>10 DEF Pullers
    <2> QED
        BY <2>1, <1>3, <1>8, QuietStep DEF LinkInv, Attached, Heard
<1> QED
    BY <1>9, <1>10 DEF Pullers

\* The daemon's pull is over, and what it had gathered is excused.
LEMMA BatchDropped ==
  ASSUME CursorTypes, LinkInv, pull'["daemon"] = Idle,
         excused' = excused \cup (ToSet(pull["daemon"].batch) \cap owed),
         UNCHANGED <<kind, archive, daemon, conn, client, pushed, pulled, owed, forfeited>>
  PROVE  LinkInv'
<1>1. /\ pull'["daemon"].batch = <<>> /\ pull'["daemon"].phase = "idle"
      /\ ToSet(pull'["daemon"].batch) = {} /\ \A s : InTurn(s, pull'["daemon"].batch)
    BY DEF Idle, ToSet, InTurn
<1>2. LinkTypes'
    BY DEF LinkInv, LinkTypes
<1>3. Attached'
    BY <1>1 DEF LinkInv, Attached
<1>4. Heard'
    BY <1>1 DEF LinkInv, Heard, PassedTo, Passed, Mails
<1>5. Owing'
    BY DEF LinkInv, Owing, Mails
<1>6. ASSUME NEW s \in owed, s \notin pushed, s \notin excused' PROVE Waiting(s)'
    <2>1. Waiting(s) /\ s \notin ToSet(pull["daemon"].batch)
        BY <1>6 DEF LinkInv, Recovered
    <2>2. Ahead(s) => Ahead(s)'
        BY <1>1, <2>1 DEF Ahead
    <2>3. Unheard(s) => Unheard(s)'
        BY <1>1 DEF Unheard
    <2> QED
        BY <2>1, <2>2, <2>3 DEF Waiting
<1>7. Recovered'
    BY <1>6 DEF Recovered
<1> QED
    BY <1>2, <1>3, <1>4, <1>5, <1>7 DEF LinkInv

LEMMA FetchFailsLink ==
  ASSUME CursorTypes, LinkInv, NEW p \in Pullers, FetchFails(p)
  PROVE  LinkInv'
<1>1. /\ pull' = [pull EXCEPT ![p] = Idle] /\ pull \in [Pullers -> PullRecords]
      /\ excused' = excused \cup (ToSet(pull[p].batch) \cap owed)
      /\ UNCHANGED <<kind, archive, daemon, conn, client, pushed, pulled, owed, forfeited>>
    BY DEF FetchFails, Set, Excuse, mail, link, CursorTypes
<1>2. CASE p = "daemon"
    BY <1>1, <1>2, BatchDropped
<1>3. CASE p = "tool"
    <2>1. pull'["daemon"] = pull["daemon"]
        BY <1>1, <1>3 DEF Pullers
    <2> QED
        BY <2>1, <1>1, QuietStep DEF LinkInv, Attached, Heard
<1> QED
    BY <1>2, <1>3 DEF Pullers

\* A page is done with: the batch stays as it is until the pull is over.
LEMMA PageLeft ==
  ASSUME CursorTypes, LinkInv, NEW p \in Pullers, NEW r \in PullRecords,
         pull[p].phase \in {"page", "write"}, pull' = [pull EXCEPT ![p] = r],
         r.phase # "page", p = "daemon" => r.batch = pull[p].batch,
         UNCHANGED <<kind, archive, daemon, conn, client, pushed, pulled, owed, excused, forfeited>>
  PROVE  LinkInv'
<1>2. pull \in [Pullers -> PullRecords]
    BY DEF CursorTypes
<1>3. CASE p = "daemon"
    <2>1. pull'["daemon"] = r
        BY <1>2, <1>3 DEF Pullers
    <2>2. daemon.up
        BY <1>3 DEF LinkInv, Attached
    <2> QED
        BY <2>1, <2>2, <1>3, QuietStep
<1>4. CASE p = "tool"
    <2>1. pull'["daemon"] = pull["daemon"]
        BY <1>2, <1>4 DEF Pullers
    <2> QED
        BY <2>1, QuietStep DEF LinkInv, Attached, Heard
<1> QED
    BY <1>3, <1>4 DEF Pullers

LEMMA AfterBatch ==
  ASSUME NEW p \in Pullers
  PROVE  After(p).phase # "page" /\ (p = "daemon" => After(p).batch = pull[p].batch)
<1> DEFINE of(phase) == [Idle EXCEPT !.phase = phase, !.batch = pull[p].batch]
<1>1. /\ of("again").phase = "again" /\ of("done").phase = "done" /\ Idle.phase = "idle"
      /\ of("again").batch = pull[p].batch /\ of("done").batch = pull[p].batch
    BY DEF Idle
<1>2. After(p) \in {of("again"), of("done"), Idle} /\ (p = "daemon" => After(p) \in {of("again"), of("done")})
    BY DEF After
<1> HIDE DEF of
<1> QED
    BY <1>1, <1>2

LEMMA EndPageLink ==
  ASSUME IInv, LinkInv, NEW p \in Pullers, EndPage(p)
  PROVE  LinkInv'
<1>1. /\ UNCHANGED <<kind, archive, daemon, conn, client, pushed, pulled, owed, excused, forfeited>>
      /\ pull[p].phase = "page" /\ pull[p].next > pull[p].upto
    BY DEF EndPage, mail, link, debts
<1>2. pull[p] \in PullRecords
    BY DEF IInv, CursorTypes
<1>3. CASE AdvanceTarget(p) <= pull[p].from
    <2>1. PICK r : r = After(p)
        OBVIOUS
    <2>2. pull' = [pull EXCEPT ![p] = r]
        BY <1>3, <2>1 DEF EndPage, Set
    <2>3. r \in PullRecords /\ r.phase # "page" /\ (p = "daemon" => r.batch = pull[p].batch)
        BY <2>1, <1>2, AfterPage, AfterBatch
    <2> QED
        BY <2>2, <2>3, <1>1, PageLeft DEF IInv
<1>4. CASE ~(AdvanceTarget(p) <= pull[p].from)
    <2>1. PICK target : target = Highest({cursor, AdvanceTarget(p)})
        OBVIOUS
    <2>2. PICK r : r = [pull[p] EXCEPT !.phase = "write", !.target = target]
        OBVIOUS
    <2>3. pull' = [pull EXCEPT ![p] = r]
        BY <1>4, <2>1, <2>2 DEF EndPage, Set
    <2>4. r.phase = "write" /\ r.batch = pull[p].batch /\ r \in PullRecords
        <3>1. cursor \in Nat /\ AdvanceTarget(p) \in Nat
            BY <1>1, TargetCovered DEF IInv, CursorTypes
        <3>2. target \in Nat
            BY <2>1, <3>1, TwoNumbers
        <3> QED
            BY <1>2, <2>2, <3>2 DEF PullRecords
    <2>5. r.phase # "page"
        BY <2>4
    <2> QED
        BY <2>3, <2>4, <2>5, <1>1, PageLeft DEF IInv
<1> QED
    BY <1>3, <1>4

LEMMA WriteCursorLink ==
  ASSUME CursorTypes, LinkInv, NEW p \in Pullers, WriteCursor(p)
  PROVE  LinkInv'
<1>1. PICK r : r = After(p)
    OBVIOUS
<1>2. /\ UNCHANGED <<kind, archive, daemon, conn, client, pushed, pulled, owed, excused, forfeited>>
      /\ pull[p].phase \in {"page", "write"}
      /\ pull' = [pull EXCEPT ![p] = r]
    BY <1>1 DEF WriteCursor, Set, link, debts
<1>3. r \in PullRecords /\ r.phase # "page" /\ (p = "daemon" => r.batch = pull[p].batch)
    BY <1>1, AfterPage, AfterBatch DEF CursorTypes
<1> QED
    BY <1>2, <1>3, PageLeft

\* One mail more at the end of a batch.
LEMMA BatchGrows ==
  ASSUME NEW batch \in Seq(Nat), NEW x \in Nat, NEW longer, longer = Append(batch, x)
  PROVE  /\ longer \in Seq(Nat) /\ ToSet(longer) = ToSet(batch) \cup {x}
         /\ \A s : InTurn(s, batch) /\ (s < x => s \in ToSet(batch)) => InTurn(s, longer)
<1>1. /\ longer \in Seq(Nat) /\ Len(batch) \in Nat /\ Len(longer) = Len(batch) + 1
      /\ \A k \in 1 .. Len(batch) : longer[k] = batch[k]
      /\ longer[Len(batch) + 1] = x
    OBVIOUS
<1>2. /\ ToSet(batch) = {batch[k] : k \in 1 .. Len(batch)}
      /\ ToSet(longer) = {longer[k] : k \in 1 .. Len(batch) + 1}
    BY <1>1 DEF ToSet
<1>3. ToSet(longer) = ToSet(batch) \cup {x}
    BY <1>1, <1>2
<1>4. ASSUME NEW s, InTurn(s, batch), s < x => s \in ToSet(batch) PROVE InTurn(s, longer)
    <2> SUFFICES ASSUME NEW j \in 1 .. Len(longer), s < longer[j]
                 PROVE  \E k \in 1 .. j - 1 : longer[k] = s
        BY DEF InTurn
    <2>1. CASE j \in 1 .. Len(batch)
        <3>1. PICK k \in 1 .. j - 1 : batch[k] = s
            BY <2>1, <1>1, <1>4 DEF InTurn
        <3> QED
            BY <3>1, <2>1, <1>1
    <2>2. CASE j = Len(batch) + 1
        <3>1. PICK k \in 1 .. Len(batch) : batch[k] = s
            BY <2>2, <1>1, <1>2, <1>4
        <3> QED
            BY <3>1, <2>2, <1>1
    <2> QED
        BY <2>1, <2>2, <1>1
<1> QED
    BY <1>1, <1>3, <1>4

\* What one mail of a page changes.
Handles(p, s, ok) ==
  /\ archive' = IF (Surfaced(s) \/ kind[s] = "control") /\ ok THEN archive \cup {s} ELSE archive
  /\ forfeited' = IF ~ok /\ (p = "tool" \/ kind[s] = "control")
                    THEN forfeited \cup {s} ELSE forfeited
  /\ pulled' = IF Surfaced(s) THEN pulled \cup {s} ELSE pulled
  /\ owed' = IF Surfaced(s) /\ s \notin pulled \cup forfeited /\ client.phase \in {"on", "down"}
               THEN owed \cup {s} ELSE owed
  /\ excused' = IF p = "tool" THEN excused \cup ({s} \cap owed') ELSE excused

\* The mail at hand is the next one of the mailbox, and every mail before it has passed.
LEMMA AtHand ==
  ASSUME IInv, LinkInv, NEW p \in Pullers, pull[p].phase = "page", pull[p].next <= pull[p].upto,
         NEW s, s = pull[p].next
  PROVE  /\ s \in Nat /\ s \in Mails /\ kind[s] \in Kinds
         /\ \A x \in 1 .. s - 1 : Passed(x)
         /\ \A x \in 1 .. s - 1 : Covered(x) \/ (p = "daemon" /\ x \in ToSet(pull[p].batch))
<1>1. /\ kind \in Seq(Kinds) /\ Len(kind) \in Nat /\ top \in Nat /\ top <= Len(kind)
      /\ pull \in [Pullers -> PullRecords]
    BY DEF IInv, CursorTypes
<1>2. pull[p] \in PullRecords /\ s \in Nat /\ s > 0 /\ s <= top
    BY <1>1 DEF IInv, InPage, PullRecords
<1>3. s \in Mails /\ kind[s] \in Kinds
    BY <1>1, <1>2 DEF Mails
<1>4. \A x \in 1 .. s - 1 : Covered(x) \/ (p = "daemon" /\ x \in ToSet(pull[p].batch))
    BY DEF IInv, InPage, LinkInv, Heard
<1>5. \A x \in 1 .. s - 1 : Passed(x)
    BY <1>4 DEF Covered, Passed, LinkInv, Heard
<1> QED
    BY <1>2, <1>3, <1>4, <1>5

\* A mail that has not passed is newer than all that was heard.
LEMMA NewerThanHeard ==
  ASSUME LinkInv, NEW s \in Nat, s > 0, ~Passed(s)
  PROVE  /\ client.maxSeen < s /\ client.baseline < s /\ conn.last < s
         /\ \A x \in pulled : x < s
<1>1. \A n \in Int : PassedTo(n) => n < s
    BY DEF PassedTo
<1>2. client.maxSeen \in Int /\ client.baseline \in Int /\ conn.last \in Int
    BY DEF LinkInv, LinkTypes, Clients, Conns, Null
<1>3. \A x \in pulled : x \in Int
    BY DEF LinkInv, Heard, Mails
<1> QED
    BY <1>1, <1>2, <1>3 DEF LinkInv, Heard

\* What has been heard was pulled, after one more mail.
LEMMA ProcessHeard ==
  ASSUME IInv, LinkInv, NEW p \in Pullers, pull[p].phase = "page", pull[p].next <= pull[p].upto,
         NEW s, s = pull[p].next, NEW ok \in BOOLEAN, Handles(p, s, ok),
         UNCHANGED <<kind, daemon, conn, client>>,
         ToSet(pull'["daemon"].batch) \subseteq ToSet(pull["daemon"].batch) \cup (pulled' \cap {s}),
         pull'["daemon"].phase = "page"
           => pull'["daemon"].failed \subseteq ToSet(pull'["daemon"].batch)
  PROVE  Heard' /\ Owing'
<1>0. /\ s \in Nat /\ s \in Mails /\ kind[s] \in Kinds
      /\ \A x \in 1 .. s - 1 : Passed(x)
    BY AtHand
<1>1. Mails' = Mails /\ \A x : Passed(x) => Passed(x)'
    BY DEF Handles, Passed, Mails
<1>2. \A n : PassedTo(n) => PassedTo(n)'
    BY <1>1 DEF PassedTo
<1>3. \A x \in pulled' : x \in Mails /\ PassedTo(x)'
    <2>1. s \in pulled' => PassedTo(s)'
        <3> SUFFICES ASSUME s \in pulled', NEW x \in 1 .. s PROVE Passed(x)'
            BY DEF PassedTo
        <3>1. CASE x = s
            BY <3>1 DEF Passed
        <3>2. CASE x \in 1 .. s - 1
            BY <3>2, <1>0, <1>1
        <3> QED
            BY <3>1, <3>2, <1>0
    <2>2. \A x \in pulled' : x \in pulled \/ x = s
        BY DEF Handles
    <2> QED
        BY <2>1, <2>2, <1>0, <1>2 DEF LinkInv, Heard
<1>4. \A x \in archive' : x \in pulled' \/ kind[x] = "control"
    BY DEF Handles, LinkInv, Heard
<1>5. pulled \subseteq pulled'
    BY DEF Handles
<1>6. Heard'
    BY <1>1, <1>2, <1>3, <1>4, <1>5 DEF LinkInv, Heard
<1>7. Owing'
    <2>1. ASSUME NEW x \in owed' PROVE x \in Mails /\ kind[x] \in {"plain", "room"}
        BY <1>0, <2>1 DEF Handles, LinkInv, Owing, Surfaced
    <2>2. ASSUME NEW x \in owed', x \in forfeited' PROVE x \in excused'
        <3>1. CASE p = "tool" /\ x = s
            BY <3>1, <2>2 DEF Handles
        <3>2. CASE x # s
            BY <3>2, <2>2 DEF Handles, LinkInv, Owing
        <3>3. CASE p # "tool" /\ x = s
            <4>1. kind[s] # "control"
                BY <2>1, <3>3
            <4>2. s \in forfeited
                BY <2>2, <3>3, <4>1 DEF Handles
            <4>3. s \in owed
                BY <3>3, <4>2 DEF Handles
            <4> QED
                BY <3>3, <4>2, <4>3 DEF Handles, LinkInv, Owing
        <3> QED
            BY <3>1, <3>2, <3>3
    <2> QED
        BY <2>1, <2>2, <1>1 DEF Owing
<1> QED
    BY <1>6, <1>7

\* Owed mail goes on waiting when the daemon handles one mail more.
LEMMA ProcessRecovered ==
  ASSUME IInv, LinkInv, pull["daemon"].phase = "page", pull["daemon"].next <= pull["daemon"].upto,
         NEW s, s = pull["daemon"].next, NEW ok \in BOOLEAN, Handles("daemon", s, ok),
         UNCHANGED <<kind, daemon, conn, client, pushed>>,
         pull'["daemon"].batch = IF Surfaced(s) THEN Append(pull["daemon"].batch, s)
                                 ELSE pull["daemon"].batch
  PROVE  Recovered'
<1> DEFINE batch == pull["daemon"].batch
<1>0. /\ s \in Nat /\ s \in Mails /\ kind[s] \in Kinds /\ s > 0
      /\ \A x \in 1 .. s - 1 : Covered(x) \/ x \in ToSet(batch)
    BY AtHand DEF Pullers, Mails
<1>1. batch \in Seq(Nat)
    BY DEF IInv, CursorTypes, Pullers, PullRecords
<1>2. PICK longer : longer = pull'["daemon"].batch
    OBVIOUS
<1>3. /\ ToSet(batch) \subseteq ToSet(longer) /\ (Surfaced(s) => s \in ToSet(longer))
      /\ \A x : InTurn(x, batch) /\ (x < s => x \in ToSet(batch)) => InTurn(x, longer)
    <2>1. CASE Surfaced(s)
        <3>1. longer = Append(batch, s)
            BY <2>1, <1>2
        <3>2. PICK b \in Seq(Nat) : b = batch
            BY <1>1
        <3>3. longer = Append(b, s)
            BY <3>1, <3>2
        <3> HIDE DEF batch
        <3>4. /\ longer \in Seq(Nat) /\ ToSet(longer) = ToSet(b) \cup {s}
              /\ \A x : InTurn(x, b) /\ (x < s => x \in ToSet(b)) => InTurn(x, longer)
            BY <3>3, <1>0, BatchGrows
        <3> QED
            BY <3>2, <3>4
    <2>2. CASE ~Surfaced(s)
        BY <2>2, <1>2
    <2> QED
        BY <2>1, <2>2
<1>4. daemon.seen \subseteq pulled /\ ToSet(batch) \subseteq pulled /\ Known(conn, daemon.seen)
    BY DEF LinkInv, Heard
<1>5. ASSUME NEW x \in owed, x \notin pushed, x \notin excused PROVE Waiting(x)'
    <2>1. Waiting(x) /\ x \in Mails /\ kind[x] \in {"plain", "room"} /\ x \notin forfeited
        BY <1>5 DEF LinkInv, Recovered, Owing
    <2>2. x < s /\ x \notin archive => x \in ToSet(batch)
        <3> SUFFICES ASSUME x < s, x \notin archive PROVE x \in ToSet(batch)
            OBVIOUS
        <3>1. x \in 1 .. s - 1
            BY <2>1, <1>0 DEF Mails
        <3> QED
            BY <3>1, <2>1, <1>0 DEF Covered
    <2>3. x \in archive' => x \in archive \/ (x = s /\ Surfaced(s))
        BY <2>1 DEF Handles
    <2>4. archive \subseteq archive'
        BY DEF Handles
    <2>5. x \notin daemon.seen /\ x \notin archive' => Unheard(x)'
        <3> SUFFICES ASSUME x \notin daemon.seen, x \notin archive' PROVE Unheard(x)'
            OBVIOUS
        <3>1. Unheard(x) /\ x \notin archive
            BY <2>1, <2>4 DEF Waiting
        <3>2. InTurn(x, longer)
            BY <3>1, <2>2, <1>3 DEF Unheard
        <3> QED
            BY <3>1, <3>2, <1>2 DEF Unheard
    <2>6. Ahead(x) => Ahead(x)'
        <3> SUFFICES ASSUME Ahead(x), x \notin conn.dropped PROVE Ahead(x)'
            BY DEF Ahead
        <3>1. x \notin daemon.seen /\ InTurn(x, batch) /\ (x \in ToSet(batch) \/ x \notin archive)
            BY DEF Ahead
        <3>2. InTurn(x, longer)
            BY <3>1, <2>2, <1>3
        <3>3. x \in ToSet(longer) \/ x \notin archive'
            BY <3>1, <2>3, <1>3
        <3> QED
            BY <3>1, <3>2, <3>3, <1>2 DEF Ahead
    <2> QED
        BY <2>1, <2>5, <2>6 DEF Waiting
<1>6. ASSUME s \in owed', s \notin owed PROVE Waiting(s)'
    <2>1. /\ Surfaced(s) /\ s \notin pulled /\ s \notin forfeited
          /\ client.phase \in {"on", "down"}
        BY <1>6 DEF Handles
    <2>2. ~Passed(s)
        BY <2>1 DEF Surfaced, Passed
    <2>3. /\ client.maxSeen < s /\ client.baseline < s /\ conn.last < s
          /\ \A x \in pulled : x < s
        BY <2>2, <1>0, NewerThanHeard
    <2>4. /\ \A x \in daemon.seen : x < s
          /\ \A x \in ToSet(batch) : x < s
          /\ s \notin daemon.seen
        BY <2>1, <2>3, <1>4
    <2>5. InTurn(s, longer)
        <3>1. \A j \in 1 .. Len(batch) : batch[j] \in ToSet(batch) /\ batch[j] \in Nat
            BY <1>1 DEF ToSet
        <3>2. InTurn(s, batch)
            BY <3>1, <2>4, <1>0 DEF InTurn
        <3> QED
            BY <3>2, <1>0, <1>3
    <2>6. Older(s, conn.queue)
        BY <1>4, <2>4 DEF Known, Within, Older
    <2>7. Ahead(s)'
        BY <2>1, <2>3, <2>4, <2>5, <2>6, <1>2, <1>3 DEF Ahead
    <2>8. Unheard(s)'
        BY <2>3, <2>4, <2>5, <1>2 DEF Unheard
    <2> QED
        BY <2>1, <2>3, <2>7, <2>8 DEF Waiting
<1>7. \A x \in owed' : x \in owed \/ (x = s /\ s \notin owed)
    BY DEF Handles
<1>8. excused' = excused
    BY DEF Handles
<1> QED
    BY <1>5, <1>6, <1>7, <1>8 DEF Recovered

LEMMA ProcessLink ==
  ASSUME IInv, LinkInv, NEW p \in Pullers, Process(p), NEW s, s = pull[p].next
  PROVE  LinkInv'
<1>0. PICK ok \in BOOLEAN :
        /\ Handles(p, s, ok)
        /\ Set(p, [pull[p] EXCEPT !.next = s + 1, !.some = @ \/ Surfaced(s),
                                  !.batch = IF Surfaced(s) THEN Append(@, s) ELSE @,
                                  !.failed = IF Surfaced(s) /\ ~ok THEN @ \cup {s} ELSE @])
    BY DEF Process, Handles
<1>1. /\ pull[p].phase = "page" /\ pull[p].next <= pull[p].upto
      /\ UNCHANGED <<kind, daemon, conn, client, pushed>>
    BY DEF Process, link
<1>2. pull \in [Pullers -> PullRecords] /\ pull[p] \in PullRecords
    BY DEF IInv, CursorTypes
<1>3. PICK batch : batch = IF Surfaced(s) THEN Append(pull[p].batch, s) ELSE pull[p].batch
    OBVIOUS
<1>4. PICK failed : failed = IF Surfaced(s) /\ ~ok THEN pull[p].failed \cup {s} ELSE pull[p].failed
    OBVIOUS
<1>5. PICK some : some = (pull[p].some \/ Surfaced(s))
    OBVIOUS
<1>6. PICK r : r = [pull[p] EXCEPT !.next = s + 1, !.some = some, !.batch = batch,
                                   !.failed = failed]
    OBVIOUS
<1>7. r.phase = "page" /\ r.batch = batch /\ r.failed = failed
    BY <1>1, <1>2, <1>6 DEF PullRecords
<1>8. pull' = [pull EXCEPT ![p] = r]
    BY <1>0, <1>3, <1>4, <1>5, <1>6 DEF Set
<1>9. s \in Nat
    BY <1>1, AtHand
<1>10. LinkTypes'
    BY <1>1 DEF LinkInv, LinkTypes
<1>11. CASE p = "daemon"
    <2>1. pull'["daemon"] = r
        BY <1>2, <1>8, <1>11
    <2>2. Attached'
        BY <2>1, <1>1, <1>7, <1>11 DEF LinkInv, Attached
    <2>3. ToSet(batch) = IF Surfaced(s) THEN ToSet(pull["daemon"].batch) \cup {s}
                         ELSE ToSet(pull["daemon"].batch)
        <3>1. pull["daemon"].batch \in Seq(Nat)
            BY <1>2, <1>11 DEF PullRecords
        <3>2. CASE Surfaced(s)
            <4>1. PICK b \in Seq(Nat) : b = pull["daemon"].batch
                BY <3>1
            <4>2. batch = Append(b, s)
                BY <3>2, <4>1, <1>3, <1>11
            <4>3. ToSet(batch) = ToSet(b) \cup {s}
                BY <4>2, <1>9, BatchGrows
            <4> QED
                BY <3>2, <4>1, <4>3
        <3>3. CASE ~Surfaced(s)
            BY <3>3, <1>3, <1>11
        <3> QED
            BY <3>2, <3>3
    <2>4. ToSet(batch) \subseteq ToSet(pull["daemon"].batch) \cup (pulled' \cap {s})
        BY <2>3, <1>0 DEF Handles
    <2>5. failed \subseteq ToSet(batch)
        BY <2>3, <1>1, <1>4, <1>11 DEF LinkInv, Heard
    <2>6. Heard' /\ Owing'
        BY <2>1, <2>4, <2>5, <1>0, <1>1, <1>7, ProcessHeard
    <2>7. Recovered'
        <3>1. pull["daemon"].phase = "page" /\ pull["daemon"].next <= pull["daemon"].upto
              /\ s = pull["daemon"].next /\ Handles("daemon", s, ok)
            BY <1>0, <1>1, <1>11
        <3>2. pull'["daemon"].batch = IF Surfaced(s) THEN Append(pull["daemon"].batch, s)
                                      ELSE pull["daemon"].batch
            BY <2>1, <1>3, <1>7, <1>11
        <3> QED
            BY <3>1, <3>2, <1>1, ProcessRecovered
    <2> QED
        BY <2>2, <2>6, <2>7, <1>10 DEF LinkInv
<1>12. CASE p = "tool"
    <2>1. pull'["daemon"] = pull["daemon"]
        BY <1>2, <1>8, <1>12 DEF Pullers
    <2>2. Attached'
        BY <2>1, <1>1 DEF LinkInv, Attached
    <2>3. pull["daemon"].phase = "page" => pull["daemon"].failed \subseteq ToSet(pull["daemon"].batch)
        BY DEF LinkInv, Heard
    <2>4. Heard' /\ Owing'
        BY <2>1, <2>3, <1>0, <1>1, ProcessHeard
    <2>5. ASSUME NEW x \in owed', x \notin pushed, x \notin excused' PROVE Waiting(x)'
        <3>1. x # s /\ x \in owed /\ x \notin excused
            BY <2>5, <1>0, <1>12 DEF Handles
        <3>2. x \in archive' <=> x \in archive
            BY <3>1, <1>0 DEF Handles
        <3> QED
            BY <3>1, <3>2, <2>1, <2>5, <1>1, StillWaiting DEF LinkInv, Recovered
    <2>6. Recovered'
        BY <2>5, <1>1 DEF Recovered
    <2> QED
        BY <2>2, <2>4, <2>6, <1>10 DEF LinkInv
<1> QED
    BY <1>11, <1>12 DEF Pullers

\* The loop over a batch keeps owed mail on its way.
LEMMA DeliverLink ==
  ASSUME CursorTypes, LinkInv, Deliver
  PROVE  LinkInv'
<1> DEFINE batch == pull["daemon"].batch
           n == Len(batch)
<1>1. PICK r : r = FanOutAll(batch)
    OBVIOUS
<1>2. /\ pull["daemon"].phase = "done" /\ conn' = r.to
      /\ daemon' = [daemon EXCEPT !.seen = r.seen]
      /\ excused' = excused \cup (r.passed \cap owed)
      /\ pull' = [pull EXCEPT !["daemon"] = Idle]
      /\ UNCHANGED <<kind, archive, client, pushed, owed, forfeited, pulled>>
    BY <1>1 DEF Deliver, Excuse, Set, mail
<1>3. /\ pull \in [Pullers -> PullRecords] /\ pull["daemon"] \in PullRecords
      /\ conn \in Conns /\ client \in Clients /\ daemon \in Daemons /\ daemon.seen \in SUBSET Nat
    BY DEF CursorTypes, LinkInv, LinkTypes, Daemons, Pullers
<1>4. batch \in Seq(Nat) /\ Known(conn, daemon.seen)
    BY <1>3 DEF PullRecords, LinkInv, Heard
<1>5. ToSet(batch) = Earlier(batch, n) /\ ToSet(batch) \subseteq pulled
    BY <1>4, Elements DEF LinkInv, Heard
<1>6. /\ Handled(r, n, batch)
      /\ conn.open => \A s \in Nat : Pending(s, batch) => Settled(s, r)
    <2> HIDE DEF batch
    <2> QED
        BY <1>1, <1>3, <1>4, Fanned
<1>7. /\ pull'["daemon"] = Idle /\ pull'["daemon"].batch = <<>> /\ pull'["daemon"].phase = "idle"
      /\ ToSet(pull'["daemon"].batch) = {} /\ \A s : InTurn(s, pull'["daemon"].batch)
    BY <1>2, <1>3 DEF Idle, ToSet, InTurn, Pullers
<1>8. daemon' \in Daemons /\ daemon'.seen = r.seen /\ daemon'.up = daemon.up
    BY <1>2, <1>3, <1>6 DEF Daemons, Handled, Rounds
<1>9. r.seen = daemon.seen \cup ToSet(batch) /\ r.to.last \in {conn.last} \cup ToSet(batch)
    BY <1>5, <1>6 DEF Handled
<1>10. /\ r.to \in Conns /\ r.to.open = conn.open /\ (~conn.open => r.to = conn)
       /\ Known(r.to, r.seen) /\ \A s : Named(s, conn.queue) => Named(s, r.to.queue)
    BY <1>6 DEF Handled, Rounds
<1> HIDE DEF batch, n
<1>11. LinkTypes'
    BY <1>2, <1>3, <1>8, <1>10 DEF LinkTypes
<1>12. daemon.up
    BY <1>2 DEF LinkInv, Attached
<1>13. Attached'
    BY <1>2, <1>8, <1>10, <1>12 DEF LinkInv, Attached
<1>14. Heard'
    <2>1. PassedTo(r.to.last)
        BY <1>5, <1>9 DEF LinkInv, Heard
    <2>2. r.seen \subseteq pulled
        BY <1>5, <1>9 DEF LinkInv, Heard
    <2>3. \A m : PassedTo(m)' <=> PassedTo(m)
        BY <1>2 DEF PassedTo, Passed
    <2> QED
        BY <2>1, <2>2, <2>3, <1>2, <1>7, <1>8, <1>10 DEF LinkInv, Heard, Mails
<1>15. Owing'
    BY <1>2 DEF LinkInv, Owing, Mails
<1>16. ASSUME NEW s \in owed, s \notin pushed, s \notin excused' PROVE Waiting(s)'
    <2>1. Waiting(s) /\ s \notin r.passed /\ s \in Nat
        BY <1>2, <1>16 DEF LinkInv, Recovered, Owing, Mails
    <2>2. s \notin r.seen /\ s \notin archive => Unheard(s)'
        <3> SUFFICES ASSUME s \notin r.seen, s \notin archive PROVE Unheard(s)'
            OBVIOUS
        <3>1. Unheard(s) /\ s \notin ToSet(batch)
            BY <2>1, <1>9 DEF Waiting
        <3>2. \A t \in ToSet(batch) : t < s
            <4> SUFFICES ASSUME NEW t \in ToSet(batch), ~(t < s) PROVE FALSE
                OBVIOUS
            <4>1. PICK j \in 1 .. Len(batch) : batch[j] = t
                BY <1>4 DEF ToSet
            <4>2. s < batch[j] /\ batch[j] \in Nat
                BY <4>1, <3>1, <2>1, <1>4
            <4>3. PICK k \in 1 .. j - 1 : batch[k] = s
                BY <4>2, <3>1 DEF Unheard, InTurn, batch
            <4>4. batch[k] \in ToSet(batch)
                BY <1>4 DEF ToSet
            <4> QED
                BY <4>3, <4>4, <3>1
        <3>3. \A t \in r.seen : t < s
            BY <3>1, <3>2, <1>9 DEF Unheard
        <3>4. r.to.last < s
            BY <3>1, <3>2, <1>9 DEF Unheard
        <3> QED
            BY <3>3, <3>4, <1>2, <1>7, <1>8 DEF Unheard
    <2>3. CASE client.phase = "down"
        BY <2>1, <2>2, <2>3, <1>2, <1>8 DEF Waiting
    <2>4. CASE client.phase = "on" /\ Named(s, conn.queue)
        BY <2>1, <2>2, <2>4, <1>2, <1>8, <1>10 DEF Waiting
    <2>5. CASE client.phase = "on" /\ Ahead(s)
        <3>1. conn.open
            BY <2>5 DEF LinkInv, Attached
        <3>2. Pending(s, batch)
            BY <2>5 DEF Ahead, Pending, batch
        <3>3. Named(s, r.to.queue) \/ Behind(s, r)
            BY <3>1, <3>2, <2>1, <1>6 DEF Settled
        <3>4. Behind(s, r) => Ahead(s)'
            <4> SUFFICES ASSUME Behind(s, r), s \notin r.to.dropped PROVE Ahead(s)'
                BY <1>2 DEF Behind, Ahead
            <4>1. s \notin r.seen /\ s \notin conn.dropped
                BY <1>4, <1>9 DEF Behind, Known
            <4>2. s \notin archive
                BY <4>1, <2>5, <1>9 DEF Ahead, batch
            <4> QED
                BY <4>1, <4>2, <1>2, <1>7, <1>8 DEF Behind, Ahead
        <3> QED
            BY <3>3, <3>4, <2>1, <2>2, <2>5, <1>2, <1>8 DEF Waiting
    <2> QED
        BY <2>1, <2>3, <2>4, <2>5 DEF Waiting
<1>17. Recovered'
    BY <1>2, <1>16 DEF Recovered
<1> QED
    BY <1>11, <1>13, <1>14, <1>15, <1>17 DEF LinkInv

\* What the client makes of a frame leaves the mails themselves as they are.
LEMMA LinkOnly ==
  ASSUME LinkInv, UNCHANGED <<kind, archive, pull, pulled, owed, forfeited>>,
         excused \subseteq excused', daemon'.seen \subseteq daemon.seen,
         PassedTo(conn'.last), PassedTo(client'.maxSeen), PassedTo(client'.baseline),
         Known(conn', daemon'.seen)
  PROVE  Heard' /\ Owing'
<1>1. \A m : PassedTo(m)' <=> PassedTo(m)
    BY DEF PassedTo, Passed
<1>2. Heard'
    BY <1>1 DEF LinkInv, Heard, Mails
<1>3. Owing'
    BY DEF LinkInv, Owing, Mails
<1> QED
    BY <1>2, <1>3

\* The queue without its first frame.
LEMMA Dequeued ==
  ASSUME NEW queue \in Seq(Frames), queue # <<>>, NEW shorter, shorter = Tail(queue)
  PROVE  /\ shorter \in Seq(Frames) /\ Head(queue) \in Frames
         /\ \A S : Within(queue, S) => Within(shorter, S)
         /\ \A S : Within(queue, S) /\ Head(queue).type = "message" => Head(queue).seq \in S
         /\ \A s : Older(s, queue) => Older(s, shorter)
         /\ \A s : Named(s, queue)
              => \/ Head(queue) = Message(s)
                 \/ Head(queue).type = "gap" /\ Head(queue).seq < s
                 \/ Named(s, shorter) /\ (Head(queue).type = "message" => Head(queue).seq < s)
<1>1. /\ Len(queue) \in Nat /\ Len(queue) > 0 /\ Len(shorter) = Len(queue) - 1
      /\ shorter \in Seq(Frames) /\ Head(queue) = queue[1] /\ queue[1] \in Frames
      /\ \A k \in 1 .. Len(queue) - 1 : shorter[k] = queue[k + 1]
    OBVIOUS
<1>2. \A S : Within(queue, S) => Within(shorter, S)
    BY <1>1 DEF Within
<1>3. \A S : Within(queue, S) /\ Head(queue).type = "message" => Head(queue).seq \in S
    BY <1>1 DEF Within
<1>4. \A s : Older(s, queue) => Older(s, shorter)
    BY <1>1 DEF Older
<1>5. ASSUME NEW s, Named(s, queue)
      PROVE  \/ Head(queue) = Message(s)
             \/ Head(queue).type = "gap" /\ Head(queue).seq < s
             \/ Named(s, shorter) /\ (Head(queue).type = "message" => Head(queue).seq < s)
    <2>1. PICK k \in 1 .. Len(queue) :
            /\ queue[k] = Message(s) \/ (queue[k].type = "gap" /\ queue[k].seq < s)
            /\ \A j \in 1 .. k - 1 : queue[j].type = "message" => queue[j].seq < s
        BY <1>5 DEF Named
    <2>2. CASE k = 1
        BY <2>1, <2>2, <1>1
    <2>3. CASE k # 1
        <3>1. k - 1 \in 1 .. Len(shorter) /\ shorter[k - 1] = queue[k]
            BY <2>3, <1>1
        <3>2. \A j \in 1 .. (k - 1) - 1 : shorter[j] = queue[j + 1] /\ j + 1 \in 1 .. k - 1
            BY <2>3, <1>1
        <3>3. Named(s, shorter)
            BY <3>1, <3>2, <2>1 DEF Named
        <3>4. Head(queue).type = "message" => Head(queue).seq < s
            BY <2>1, <2>3, <1>1
        <3> QED
            BY <3>3, <3>4
    <2> QED
        BY <2>2, <2>3
<1> QED
    BY <1>1, <1>2, <1>3, <1>4, <1>5

\* The socket after a frame has left it, and after the flush that this may set off.
LEMMA Drained ==
  ASSUME NEW c \in Conns, NEW o, o = Flush(c) \/ o = c
  PROVE  /\ o \in Conns /\ o.open = c.open /\ o.last = c.last
         /\ \A S : Known(c, S) => Known(o, S)
         /\ \A s : Named(s, c.queue) => Named(s, o.queue)
         /\ \A s : c.last < s /\ Older(s, c.queue)
              => Older(s, o.queue) /\ (s \in c.dropped => s \in o.dropped \/ Named(s, o.queue))
<1>1. CASE o = c
    BY <1>1
<1>2. CASE /\ o \in Conns /\ o.queue = Append(c.queue, Gap(c.last))
           /\ o.open = c.open /\ o.last = c.last /\ o.dropped = {}
    <2>1. PICK queue \in Seq(Frames) : queue = c.queue
        BY DEF Conns
    <2>2. PICK f \in Frames : f = Gap(c.last)
        BY Frame DEF Conns
    <2>3. f.type = "gap" /\ f.seq = c.last
        BY <2>2 DEF Gap
    <2>4. o.queue = Append(queue, f)
        BY <1>2, <2>1, <2>2
    <2>5. \A s : Named(s, queue) => Named(s, o.queue)
        BY <2>4, Appended
    <2>6. \A s : Older(s, queue) => Older(s, o.queue)
        BY <2>3, <2>4, Appended
    <2>7. \A s : Older(s, queue) /\ c.last < s => Named(s, o.queue)
        BY <2>3, <2>4, Appended
    <2>8. \A S : Within(queue, S) => Within(o.queue, S)
        BY <2>3, <2>4 DEF Within
    <2> QED
        BY <1>2, <2>1, <2>5, <2>6, <2>7, <2>8 DEF Known
<1> QED
    BY <1>1, <1>2, Flushes

\* The client handles a frame.
LEMMA TransmitLink ==
  ASSUME CursorTypes, LinkInv, Transmit
  PROVE  LinkInv'
<1> DEFINE frame == Head(conn.queue)
           hole == {s \in archive : s > frame.seq /\ kind[s] \in {"plain", "room"}}
           late == {s \in daemon.seen : s > frame.seq /\ s \notin archive}
<1>1. PICK rest : rest = [conn EXCEPT !.queue = Tail(@)]
    OBVIOUS
<1>2. PICK ready : ready = IF rest.queue = <<>> /\ rest.drain
                             THEN [rest EXCEPT !.drain = FALSE] ELSE rest
    OBVIOUS
<1>3. /\ conn.queue # <<>> /\ (conn' = Flush(ready) \/ conn' = ready)
      /\ UNCHANGED <<kind, archive, pull, daemon, owed, forfeited, pulled>>
      /\ IF frame.type = "message"
           THEN /\ pushed' = pushed \cup {frame.seq}
                /\ client' = [client EXCEPT !.maxSeen = Highest({@, frame.seq})]
                /\ UNCHANGED excused
           ELSE /\ UNCHANGED client
                /\ \E n \in Mails \cup {Len(kind) + 1} :
                     /\ pushed' = pushed \cup {s \in hole : s < n}
                     /\ excused' = excused \cup (({s \in hole : n <= s} \cup late) \cap owed)
    BY <1>1, <1>2 DEF Transmit, Excuse, mail
<1>4. /\ conn \in Conns /\ client \in Clients /\ daemon \in Daemons /\ Known(conn, daemon.seen)
      /\ daemon.seen \subseteq pulled /\ conn.queue \in Seq(Frames)
    BY DEF LinkInv, LinkTypes, Heard, Conns
<1>5. /\ rest.queue \in Seq(Frames) /\ frame \in Frames
      /\ Within(rest.queue, daemon.seen)
      /\ frame.type = "message" => frame.seq \in daemon.seen
      /\ \A s : Older(s, conn.queue) => Older(s, rest.queue)
      /\ \A s : Named(s, conn.queue)
           => \/ frame = Message(s)
              \/ frame.type = "gap" /\ frame.seq < s
              \/ Named(s, rest.queue) /\ (frame.type = "message" => frame.seq < s)
    <2>1. PICK queue \in Seq(Frames) : queue = conn.queue
        BY <1>4
    <2>2. rest.queue = Tail(queue) /\ queue # <<>>
        BY <2>1, <1>1, <1>3, <1>4 DEF Conns
    <2>3. Within(queue, daemon.seen)
        BY <2>1, <1>4 DEF Known
    <2> QED
        BY <2>1, <2>2, <2>3, Dequeued
<1>6. /\ rest \in Conns /\ rest.open = conn.open /\ rest.last = conn.last
      /\ rest.dropped = conn.dropped
    <2>1. PICK queue \in Seq(Frames) : queue = Tail(conn.queue)
        BY <1>1, <1>4, <1>5 DEF Conns
    <2>2. rest = [conn EXCEPT !.queue = queue]
        BY <2>1, <1>1
    <2> QED
        BY <2>2, <1>4 DEF Conns
<1>7. /\ ready \in Conns /\ ready.open = conn.open /\ ready.last = conn.last
      /\ ready.dropped = conn.dropped /\ ready.queue = rest.queue
    BY <1>2, <1>6 DEF Conns
<1>8. /\ conn' \in Conns /\ conn'.open = ready.open /\ conn'.last = ready.last
      /\ \A S : Known(ready, S) => Known(conn', S)
      /\ \A s : Named(s, ready.queue) => Named(s, conn'.queue)
      /\ \A s : ready.last < s /\ Older(s, ready.queue)
           => /\ Older(s, conn'.queue)
              /\ s \in ready.dropped => s \in conn'.dropped \/ Named(s, conn'.queue)
    <2>1. PICK o : o = conn'
        OBVIOUS
    <2>2. o = Flush(ready) \/ o = ready
        BY <2>1, <1>3
    <2>3. /\ o \in Conns /\ o.open = ready.open /\ o.last = ready.last
          /\ \A S : Known(ready, S) => Known(o, S)
          /\ \A s : Named(s, ready.queue) => Named(s, o.queue)
          /\ \A s : ready.last < s /\ Older(s, ready.queue)
               => /\ Older(s, o.queue)
                  /\ s \in ready.dropped => s \in o.dropped \/ Named(s, o.queue)
        BY <2>2, <1>7, Drained
    <2> QED
        BY <2>1, <2>3
<1>9. Known(ready, daemon.seen)
    BY <1>4, <1>5, <1>7 DEF Known
<1>10. /\ client' \in Clients /\ client'.phase = client.phase
       /\ client'.baseline = client.baseline
       /\ \/ client'.maxSeen = client.maxSeen
          \/ frame.type = "message" /\ client'.maxSeen = frame.seq
    <2>1. CASE frame.type = "message"
        <3>1. PICK m : m = Highest({client.maxSeen, frame.seq})
            OBVIOUS
        <3>2. client' = [client EXCEPT !.maxSeen = m]
            BY <2>1, <3>1, <1>3
        <3>3. client.maxSeen \in Nat /\ frame.seq \in Nat
            BY <1>4, <1>5 DEF Clients, Frames
        <3>4. m \in Nat /\ m \in {client.maxSeen, frame.seq}
            BY <3>1, <3>3, TwoNumbers
        <3> QED
            BY <2>1, <3>2, <3>4, <1>4 DEF Clients
    <2>2. CASE frame.type # "message"
        BY <2>2, <1>3, <1>4
    <2> QED
        BY <2>1, <2>2
<1>11. conn.open
    <2>1. Closed.queue = <<>>
        BY DEF Closed
    <2> QED
        BY <2>1, <1>3 DEF LinkInv, Attached
<1>12. client.phase = "on"
    BY <1>11 DEF LinkInv, Attached
<1> HIDE DEF frame, hole, late
<1>13. LinkTypes'
    BY <1>3, <1>4, <1>8, <1>10 DEF LinkTypes
<1>14. Attached'
    BY <1>3, <1>7, <1>8, <1>10, <1>11, <1>12 DEF LinkInv, Attached
<1>15. Heard' /\ Owing'
    <2>1. PassedTo(conn'.last)
        BY <1>7, <1>8 DEF LinkInv, Heard
    <2>2. PassedTo(client'.maxSeen) /\ PassedTo(client'.baseline)
        BY <1>4, <1>5, <1>10 DEF LinkInv, Heard
    <2>3. Known(conn', daemon'.seen) /\ daemon'.seen \subseteq daemon.seen
        BY <1>3, <1>8, <1>9
    <2>4. excused \subseteq excused'
        BY <1>3
    <2> QED
        BY <2>1, <2>2, <2>3, <2>4, <1>3, LinkOnly
<1>16. ASSUME NEW s \in owed, s \notin pushed', s \notin excused' PROVE Waiting(s)'
    <2>1. /\ Waiting(s) /\ s \in Nat /\ kind[s] \in {"plain", "room"}
          /\ s \notin pushed /\ s \notin excused
        BY <1>3, <1>16 DEF LinkInv, Recovered, Owing, Mails
    <2>2. frame.type = "message" => frame.seq # s
        BY <1>3, <1>16
    <2>3. Unheard(s) => Unheard(s)'
        BY <1>3, <1>7, <1>8 DEF Unheard
    <2>4. Ahead(s) => /\ frame.type = "message" => frame.seq < s
                      /\ Ahead(s)' \/ Named(s, conn'.queue)
        <3> SUFFICES ASSUME Ahead(s)
                     PROVE  /\ frame.type = "message" => frame.seq < s
                            /\ Ahead(s)' \/ Named(s, conn'.queue)
            OBVIOUS
        <3>1. frame.type = "message" => frame.seq < s
            BY <1>3, <1>4 DEF Ahead, Older, frame
        <3>2. Older(s, ready.queue) /\ ready.last < s
            BY <1>5, <1>7 DEF Ahead
        <3>3. CASE s \in conn.dropped
            BY <3>1, <3>2, <3>3, <1>7, <1>8 DEF Ahead
        <3>4. CASE s \notin conn.dropped
            BY <3>1, <3>2, <3>4, <1>3, <1>7, <1>8 DEF Ahead
        <3> QED
            BY <3>3, <3>4
    <2>5. CASE Named(s, conn.queue)
        <3>1. frame # Message(s)
            BY <2>2 DEF Message
        <3>2. CASE frame.type = "gap" /\ frame.seq < s
            <4>0. PICK n \in Mails \cup {Len(kind) + 1} :
                    /\ pushed' = pushed \cup {x \in hole : x < n}
                    /\ excused' = excused \cup (({x \in hole : n <= x} \cup late) \cap owed)
                BY <3>2, <1>3
            <4>1. s \notin archive
                <5>1. n \in Nat
                    BY DEF Mails, CursorTypes
                <5>2. s < n \/ n <= s
                    BY <5>1, <2>1
                <5> QED
                    BY <3>2, <4>0, <5>2, <2>1, <1>16 DEF hole
            <4>2. s \notin daemon.seen
                BY <3>2, <4>0, <4>1, <1>16 DEF late
            <4>3. Unheard(s)
                BY <4>1, <4>2, <2>1 DEF Waiting
            <4>4. Older(s, conn.queue)
                BY <4>3, <1>4 DEF Unheard, Known, Within, Older
            <4>5. Ahead(s)
                BY <4>1, <4>2, <4>3, <4>4 DEF Unheard, Ahead
            <4> QED
                BY <3>2, <4>5, <2>1, <2>3, <2>4, <1>3, <1>10, <1>12 DEF Waiting
        <3>3. CASE Named(s, rest.queue) /\ (frame.type = "message" => frame.seq < s)
            BY <3>3, <2>1, <2>3, <1>3, <1>7, <1>8, <1>10, <1>12 DEF Waiting
        <3> QED
            BY <3>1, <3>2, <3>3, <2>5, <1>5
    <2>6. CASE Ahead(s)
        BY <2>1, <2>3, <2>4, <2>6, <1>3, <1>10, <1>12 DEF Waiting
    <2> QED
        BY <2>1, <2>5, <2>6, <1>12 DEF Waiting
<1>17. Recovered'
    BY <1>3, <1>16 DEF Recovered
<1> QED
    BY <1>13, <1>14, <1>15, <1>17 DEF LinkInv

\* A socket that is closed: its client is down, and the daemon may have forgotten everything.
LEMMA LinkLost ==
  ASSUME LinkInv, conn' = Closed, client' = Detached,
         UNCHANGED <<kind, archive, pushed, pulled, owed, excused, forfeited>>,
         daemon' \in Daemons,
         \/ UNCHANGED <<daemon, pull>> /\ conn.open
         \/ ~daemon'.up /\ daemon'.seen = {} /\ pull'["daemon"] = Idle
  PROVE  LinkInv'
<1>1. /\ client \in Clients /\ conn \in Conns /\ Closed \in Conns
      /\ ~Closed.open /\ Closed.queue = <<>> /\ Closed.last = 0 /\ Closed.dropped = {}
    BY DEF LinkInv, LinkTypes, Closed, Conns
<1>2. /\ client' \in Clients /\ client'.maxSeen = client.maxSeen
      /\ client'.baseline = client.baseline /\ client'.phase # "on"
      /\ client.phase \in {"on", "down"} => client'.phase = "down"
    BY <1>1 DEF Detached, Clients
<1>3. LinkTypes'
    BY <1>1, <1>2 DEF LinkTypes
<1>4. /\ Idle.phase = "idle" /\ Idle.batch = <<>> /\ ToSet(Idle.batch) = {}
      /\ \A s : InTurn(s, Idle.batch)
    BY DEF Idle, ToSet, InTurn
<1>5. Attached'
    BY <1>1, <1>2, <1>4 DEF LinkInv, Attached
<1>6. Heard'
    <2>1. \A m : PassedTo(m)' <=> PassedTo(m)
        BY DEF PassedTo, Passed
    <2>2. PassedTo(0)
        BY DEF PassedTo
    <2>3. Known(conn', daemon'.seen)
        BY <1>1 DEF Known, Within
    <2>4. \/ UNCHANGED <<daemon, pull>>
          \/ daemon'.seen = {} /\ ToSet(pull'["daemon"].batch) = {} /\ pull'["daemon"].phase = "idle"
        BY <1>4
    <2> QED
        BY <2>1, <2>2, <2>3, <2>4, <1>1, <1>2 DEF LinkInv, Heard, Mails
<1>7. Owing'
    BY DEF LinkInv, Owing, Mails
<1>8. ASSUME NEW s \in owed, s \notin pushed, s \notin excused PROVE Waiting(s)'
    <2>1. Waiting(s) /\ s \in Nat /\ s > 0
        BY <1>8 DEF LinkInv, Recovered, Owing, Mails
    <2>2. client'.phase = "down"
        BY <2>1, <1>2 DEF Waiting
    <2>3. s \notin daemon'.seen /\ s \notin archive => Unheard(s)'
        <3>1. CASE UNCHANGED <<daemon, pull>>
            BY <3>1, <2>1, <1>1 DEF Waiting, Unheard
        <3>2. CASE daemon'.seen = {} /\ pull'["daemon"] = Idle
            BY <3>2, <2>1, <1>1, <1>4 DEF Unheard
        <3> QED
            BY <3>1, <3>2
    <2> QED
        BY <2>1, <2>2, <2>3, <1>2 DEF Waiting
<1>9. Recovered'
    BY <1>8 DEF Recovered
<1> QED
    BY <1>3, <1>5, <1>6, <1>7, <1>9 DEF LinkInv

LEMMA DaemonStartLink ==
  ASSUME LinkInv, DaemonStart
  PROVE  LinkInv'
<1>1. /\ ~daemon.up /\ daemon' = [up |-> TRUE, seen |-> {}]
      /\ UNCHANGED <<kind, archive, pull, conn, client, pushed, pulled, owed, excused, forfeited>>
    BY DEF DaemonStart, mail, debts
<1>2. daemon.seen = {} /\ daemon'.seen = {} /\ daemon'.up /\ daemon' \in Daemons
    BY <1>1 DEF LinkInv, Attached, Daemons
<1>3. LinkTypes' /\ Attached'
    BY <1>1, <1>2 DEF LinkInv, LinkTypes, Attached
<1>4. Heard' /\ Owing'
    BY <1>1, <1>2, LinkOnly DEF LinkInv, Heard
<1>5. \A s : Waiting(s) => Waiting(s)'
    BY <1>1, <1>2 DEF Waiting, Unheard, Ahead
<1>6. Recovered'
    BY <1>1, <1>5 DEF LinkInv, Recovered
<1> QED
    BY <1>3, <1>4, <1>6 DEF LinkInv

\* Earlier the first attach no mail is waited for.
LEMMA NothingYet ==
  ASSUME LinkInv, client.phase \in {"off", "started"}
  PROVE  \A s \in owed : s \in pushed \/ s \in excused
BY DEF LinkInv, Recovered, Waiting

LEMMA ClientStartLink ==
  ASSUME CursorTypes, Cover(cursor), LinkInv, ClientStart
  PROVE  LinkInv'
<1>1. PICK baseline : baseline = IF diary THEN cursor ELSE Null
    OBVIOUS
<1>2. PICK c : c = [client EXCEPT !.phase = "started", !.baseline = baseline]
    OBVIOUS
<1>3. /\ client.phase = "off" /\ client' = c
      /\ UNCHANGED <<kind, archive, pull, daemon, conn, pushed, pulled, owed, excused, forfeited>>
    BY <1>1, <1>2 DEF ClientStart, mail, debts
<1>4. baseline \in Nat \cup {Null} /\ PassedTo(baseline)
    <2>1. PassedTo(cursor)
        BY DEF Cover, Covered, PassedTo, Passed, LinkInv, Heard
    <2>2. PassedTo(Null)
        BY DEF PassedTo, Null
    <2> QED
        BY <2>1, <2>2, <1>1 DEF CursorTypes
<1>5. c \in Clients /\ c.phase = "started" /\ c.baseline = baseline /\ c.maxSeen = client.maxSeen
    BY <1>2, <1>4 DEF LinkInv, LinkTypes, Clients
<1>6. LinkTypes' /\ Attached'
    BY <1>3, <1>5 DEF LinkInv, LinkTypes, Attached
<1>7. Heard' /\ Owing'
    BY <1>3, <1>4, <1>5, LinkOnly DEF LinkInv, Heard
<1>8. Recovered'
    BY <1>3, NothingYet DEF Recovered
<1> QED
    BY <1>6, <1>7, <1>8 DEF LinkInv

\* A fresh socket.
LEMMA Opened ==
  ASSUME NEW last \in Nat, NEW c,
         \/ c = [Closed EXCEPT !.open = TRUE, !.last = last]
         \/ c = [Closed EXCEPT !.open = TRUE] /\ last = 0
  PROVE  c \in Conns /\ c.open /\ c.queue = <<>> /\ c.last = last /\ c.dropped = {}
<1>1. PICK o : o = [Closed EXCEPT !.open = TRUE]
    OBVIOUS
<1>2. /\ Closed \in Conns /\ Closed.queue = <<>> /\ Closed.last = 0 /\ Closed.dropped = {}
    BY DEF Closed, Conns
<1>3. o \in Conns /\ o.open /\ o.queue = <<>> /\ o.last = 0 /\ o.dropped = {}
    BY <1>1, <1>2 DEF Conns
<1>4. CASE c = [Closed EXCEPT !.open = TRUE, !.last = last]
    <2>1. c = [o EXCEPT !.last = last]
        BY <1>1, <1>4 DEF Closed
    <2> QED
        BY <2>1, <1>3 DEF Conns
<1> QED
    BY <1>1, <1>3, <1>4

\* The first attach, and a later one.
LEMMA OnAgain ==
  ASSUME LinkInv, NEW c \in Conns, c.open, PassedTo(c.last), Known(c, daemon.seen),
         conn' = c, client' = [client EXCEPT !.phase = "on"], excused \subseteq excused',
         UNCHANGED <<kind, archive, pull, daemon, pushed, pulled, owed, forfeited>>,
         \A s \in owed : s \in pushed \/ s \in excused' \/ (Waiting(s) /\ c.last < s /\ Named(s, c.queue))
  PROVE  LinkInv'
<1>1. /\ client' \in Clients /\ client'.phase = "on" /\ client'.maxSeen = client.maxSeen
      /\ client'.baseline = client.baseline
    BY DEF LinkInv, LinkTypes, Clients
<1>2. LinkTypes' /\ Attached'
    BY <1>1 DEF LinkInv, LinkTypes, Attached
<1>3. Heard' /\ Owing'
    BY <1>1, LinkOnly DEF LinkInv, Heard
<1>4. Recovered'
    BY <1>1 DEF Recovered, Waiting, Unheard
<1> QED
    BY <1>2, <1>3, <1>4 DEF LinkInv

LEMMA AttachLink ==
  ASSUME LinkInv, Attach
  PROVE  LinkInv'
<1>1. PICK c : c = [Closed EXCEPT !.open = TRUE]
    OBVIOUS
<1>2. c \in Conns /\ c.open /\ c.queue = <<>> /\ c.last = 0 /\ c.dropped = {}
    BY <1>1, Opened
<1>3. PassedTo(c.last) /\ Known(c, daemon.seen)
    BY <1>2 DEF PassedTo, Known, Within
<1>4. /\ client.phase = "started" /\ conn' = c /\ client' = [client EXCEPT !.phase = "on"]
      /\ UNCHANGED <<kind, archive, pull, daemon, pushed, pulled, owed, excused, forfeited>>
    BY <1>1 DEF Attach, mail, debts
<1> QED
    BY <1>2, <1>3, <1>4, NothingYet, OnAgain

LEMMA ReattachLink ==
  ASSUME LinkInv, Reattach
  PROVE  LinkInv'
<1>1. PICK last : last = IF Since = Null THEN 0 ELSE Since
    OBVIOUS
<1>2. PICK fresh : fresh = [Closed EXCEPT !.open = TRUE, !.last = last]
    OBVIOUS
<1>3. /\ client.phase = "down" /\ client' = [client EXCEPT !.phase = "on"]
      /\ UNCHANGED <<kind, archive, pull, daemon, pushed, pulled, owed, forfeited>>
      /\ IF Since = Null
           THEN conn' = fresh /\ excused' = excused \cup ((owed \ pushed) \cap owed)
           ELSE conn' = Put(fresh, Gap(Since)) /\ UNCHANGED excused
    BY <1>1, <1>2 DEF Reattach, Excuse, mail
<1>4. client.maxSeen \in Nat /\ client.baseline \in Nat \cup {Null} /\ client \in Clients
    BY DEF LinkInv, LinkTypes, Clients
<1>5. Since \in {client.maxSeen, client.baseline} /\ PassedTo(Since)
    BY DEF Since, LinkInv, Heard
<1>6. CASE Since = Null
    <2>1. fresh \in Conns /\ fresh.open /\ fresh.queue = <<>> /\ fresh.last = 0 /\ fresh.dropped = {}
        BY <1>1, <1>2, <1>6, Opened
    <2>2. PassedTo(fresh.last) /\ Known(fresh, daemon.seen)
        BY <2>1 DEF PassedTo, Known, Within
    <2> QED
        BY <2>1, <2>2, <1>3, <1>6, OnAgain
<1>7. CASE Since # Null
    <2>1. last = Since /\ Since \in Nat
        BY <1>1, <1>4, <1>5, <1>7
    <2>2. fresh \in Conns /\ fresh.open /\ fresh.queue = <<>> /\ fresh.last = Since /\ fresh.dropped = {}
        BY <2>1, <1>2, Opened
    <2>3. PICK f \in Frames : f = Gap(Since)
        BY <2>1, Frame
    <2>4. PICK c : c = Put(fresh, f)
        OBVIOUS
    <2>5. /\ c \in Conns /\ c.open /\ c.last = Since /\ c.dropped = {}
          /\ c.queue = Append(fresh.queue, f)
        BY <2>2, <2>4, Writes
    <2>6. f.type = "gap" /\ f.seq = Since
        BY <2>3 DEF Gap
    <2>7. Known(c, daemon.seen)
        BY <2>2, <2>5, <2>6 DEF Known, Within
    <2>8. ASSUME NEW s \in owed, s \notin pushed, s \notin excused
          PROVE  Waiting(s) /\ c.last < s /\ Named(s, c.queue)
        <3>1. Waiting(s)
            BY <2>8 DEF LinkInv, Recovered
        <3>2. Since < s
            BY <3>1, <1>5 DEF Waiting
        <3>3. PICK queue \in Seq(Frames) : queue = fresh.queue
            BY <2>2 DEF Conns
        <3>4. Older(s, queue)
            BY <2>2, <3>3 DEF Older
        <3>5. Named(s, Append(queue, f))
            <4>1. f.type = "gap" /\ f.seq < s
                BY <3>2, <2>6
            <4> QED
                BY <3>4, <4>1, Appended
        <3> QED
            BY <3>1, <3>2, <3>3, <3>5, <2>5
    <2>9. conn' = c /\ excused' = excused
        BY <2>3, <2>4, <1>3, <1>7
    <2>10. PassedTo(c.last)
        BY <2>5, <1>5
    <2> QED
        BY <2>5, <2>7, <2>8, <2>9, <2>10, <1>3, OnAgain
<1> QED
    BY <1>6, <1>7

LEMMA LinkInitially == Init => LinkInv
<1> SUFFICES ASSUME Init PROVE LinkInv
    OBVIOUS
<1>1. /\ conn = Closed /\ Closed \in Conns /\ ~Closed.open /\ Closed.queue = <<>>
      /\ Closed.last = 0 /\ Closed.dropped = {}
    BY DEF Init, Closed, Conns
<1>2. pull["daemon"] = Idle /\ Idle.phase = "idle" /\ Idle.batch = <<>> /\ ToSet(Idle.batch) = {}
    BY DEF Init, Idle, ToSet
<1>3. client \in Clients /\ client.phase = "off" /\ client.baseline = Null /\ client.maxSeen = 0
    BY DEF Init, Clients, Null
<1>4. daemon \in Daemons /\ ~daemon.up /\ daemon.seen = {}
    BY DEF Init, Daemons
<1>5. LinkTypes /\ Attached
    BY <1>1, <1>2, <1>3, <1>4 DEF LinkTypes, Attached
<1>6. PassedTo(0) /\ PassedTo(Null) /\ Known(conn, {})
    BY <1>1 DEF PassedTo, Null, Known, Within
<1>7. archive = {} /\ pulled = {} /\ owed = {}
    BY DEF Init
<1> QED
    BY <1>1, <1>2, <1>3, <1>4, <1>5, <1>6, <1>7 DEF LinkInv, Heard, Owing, Recovered

LEMMA LinkInductive == IInv /\ LinkInv /\ [Next]_vars => LinkInv'
<1> SUFFICES ASSUME IInv, LinkInv, [Next]_vars PROVE LinkInv'
    OBVIOUS
<1> USE DEF IInv
<1>1. ASSUME NEW p \in Pullers, Receive(p) PROVE LinkInv'
    BY <1>1, FetchLink, FetchFailsLink, ProcessLink, EndPageLink, WriteCursorLink DEF Receive
<1>2. CASE Deliver
    BY <1>2, DeliverLink
<1>3. CASE Transmit
    BY <1>3, TransmitLink
<1>4. CASE DaemonStart
    BY <1>4, DaemonStartLink
<1>5. CASE DaemonCrash
    <2>1. daemon' \in Daemons /\ ~daemon'.up /\ daemon'.seen = {}
        BY <1>5 DEF DaemonCrash, Daemons
    <2>2. pull'["daemon"] = Idle
        BY <1>5 DEF DaemonCrash, Set, CursorTypes, Pullers
    <2> QED
        BY <1>5, <2>1, <2>2, LinkLost DEF DaemonCrash, mail, debts
<1>6. CASE Disconnect
    BY <1>6, LinkLost DEF Disconnect, mail, debts, LinkInv, LinkTypes
<1>7. CASE ClientStart
    BY <1>7, ClientStartLink
<1>8. CASE Attach
    BY <1>8, AttachLink
<1>9. CASE Reattach
    BY <1>9, ReattachLink
<1>10. CASE UNCHANGED vars
    <2>1. UNCHANGED <<kind, archive, pull, daemon, conn, client, pushed, pulled, owed, excused,
                      forfeited>>
        BY <1>10 DEF vars, mail, link, debts
    <2> QED
        BY <2>1, QuietStep DEF LinkInv, Attached, Heard
<1> QED
    BY <1>1, <1>2, <1>3, <1>4, <1>5, <1>6, <1>7, <1>8, <1>9, <1>10 DEF Next, Pullers

\* Nothing pulled while a client was attached is lost between archive, socket and replay, over
\* crashes, reconnects and congestion, but for the windows `excused` counts (channel-replay.mjs).
THEOREM NothingElseIsLost == Spec => []NoOtherLoss
<1>1. Init => IInv /\ LinkInv
    BY Initially, LinkInitially
<1>2. IInv /\ LinkInv /\ [Next]_vars => (IInv /\ LinkInv)'
    BY Inductive, LinkInductive
<1>3. IInv /\ LinkInv => NoOtherLoss
    BY WaitingIsOnItsWay DEF IInv
<1> QED
    BY <1>1, <1>2, <1>3, PTL DEF Spec

-----------------------------------------------------------------------------
(***************************************************************************)
(* The rooms of the same bridge.  Two ops of the founder with one number    *)
(* and one signature are one op, wherever they are: so the last of some     *)
(* ops is decided by the ops alone, and agents with the same ops have the   *)
(* same roster.  Mail, stale stores and reused numbers do not disturb it.   *)
(***************************************************************************)
Ops == [type : {"create", "add", "remove", "grant", "revoke"}, by : Agents, about : Agents,
        mandate : Int, seq : Int, sig : Int]

\* One op for every number and signature of the founder
Unique(S) ==
  \A o, p \in S : o.by = founder /\ p.by = founder /\ o.seq = p.seq /\ o.sig = p.sig => o = p

\* i is what Latest may choose of the ops of s at some places
LatestAt(s, at, i) ==
  \A j \in at \ {i} : \/ Before(s[j], s[i])
                      \/ j < i /\ ~Before(s[i], s[j])

\* The ops at some places
OpsAt(s, at) == {s[i] : i \in at}

LEMMA BeforeOrders ==
  ASSUME NEW x \in Ops, NEW y \in Ops, NEW z \in Ops
  PROVE  /\ Before(x, y) => ~Before(y, x)
         /\ Before(x, y) /\ Before(y, z) => Before(x, z)
         /\ ~Before(x, y) /\ ~Before(y, x) => x.seq = y.seq /\ x.sig = y.sig
         /\ ~Before(x, y) /\ ~Before(y, z) => ~Before(x, z)
<1>1. {x.seq, y.seq, z.seq, x.sig, y.sig, z.sig} \subseteq Int
    BY DEF Ops
<1> QED
    BY <1>1 DEF Before

LEMMA LastExists ==
  ASSUME NEW s \in Seq(Ops), NEW at, at \subseteq DOMAIN s, at # {}
  PROVE  \E i \in at : LatestAt(s, at, i)
<1> DEFINE upto(n) == {i \in at : i <= n}
           good == {n \in Nat : upto(n) = {} \/ \E i \in upto(n) : LatestAt(s, upto(n), i)}
<1>0. at \subseteq 1 .. Len(s) /\ Len(s) \in Nat /\ \A i \in at : s[i] \in Ops
    OBVIOUS
<1>1. 0 \in good
    <2>1. upto(0) = {}
        BY <1>0
    <2> QED
        BY <2>1
<1>2. ASSUME NEW n \in 1 .. Len(s), n - 1 \in good PROVE n \in good
    <2>1. CASE n \notin at
        <3>1. upto(n) = upto(n - 1)
            BY <1>0, <2>1
        <3> QED
            BY <1>2, <3>1
    <2>2. CASE n \in at /\ upto(n - 1) = {}
        <3>1. upto(n) = {n}
            BY <1>0, <2>2
        <3> QED
            BY <3>1 DEF LatestAt
    <2>3. CASE n \in at /\ upto(n - 1) # {}
        <3>0. n \in Nat
            BY <1>0
        <3>1. PICK i \in upto(n - 1) : LatestAt(s, upto(n - 1), i)
            BY <1>2, <2>3
        <3>2. upto(n) = upto(n - 1) \cup {n} /\ i < n /\ i \in at /\ n \notin upto(n - 1)
            BY <1>0, <2>3
        <3>3. \A j \in upto(n - 1) : s[j] \in Ops /\ j < n
            BY <1>0
        <3>4. s[i] \in Ops /\ s[n] \in Ops
            BY <1>0, <2>3, <3>2
        <3> HIDE DEF upto
        <3>5. CASE Before(s[n], s[i])
            <4>1. LatestAt(s, upto(n), i)
                BY <3>1, <3>2, <3>5 DEF LatestAt
            <4>2. i \in upto(n)
                BY <3>1, <3>2
            <4> QED
                BY <4>1, <4>2, <3>0
        <3>6. CASE ~Before(s[n], s[i])
            <4>1. ASSUME NEW j \in upto(n - 1)
                  PROVE  Before(s[j], s[n]) \/ (j < n /\ ~Before(s[n], s[j]))
                <5>1. j = i \/ Before(s[j], s[i]) \/ ~Before(s[i], s[j])
                    BY <3>1 DEF LatestAt
                <5>2. CASE j = i
                    BY <5>2, <3>3, <3>6
                <5>3. CASE j # i
                    <6>1. ~Before(s[n], s[j])
                        BY <5>1, <5>3, <3>3, <3>4, <3>6, BeforeOrders
                    <6> QED
                        BY <6>1, <3>3
                <5> QED
                    BY <5>2, <5>3
            <4>2. LatestAt(s, upto(n), n)
                BY <4>1, <3>2 DEF LatestAt
            <4>3. n \in upto(n)
                BY <3>2
            <4> QED
                BY <4>2, <4>3, <3>0
        <3> QED
            BY <3>5, <3>6
    <2> QED
        BY <2>1, <2>2, <2>3
<1> HIDE DEF good
<1>3. \A n \in 1 .. Len(s) : n - 1 \in good => n \in good
    BY <1>2
<1>5. \A n \in 0 .. Len(s) : n \in good
    BY <1>0, <1>1, <1>3, UpTo
<1>4. upto(Len(s)) = at
    BY <1>0, SMTT(60)
<1> QED
    BY <1>0, <1>5, <1>4 DEF good

\* The last founder op of some is one of them, and all others come before it.
LEMMA LatestIsLast ==
  ASSUME NEW s \in Seq(Ops), NEW at, at \subseteq DOMAIN s, at # {},
         \A i \in at : s[i].by = founder, Unique(Range(s))
  PROVE  /\ Latest(s, at) \in OpsAt(s, at)
         /\ \A j \in at : s[j] = Latest(s, at) \/ Before(s[j], Latest(s, at))
<1>1. \E i \in at : LatestAt(s, at, i)
    BY LastExists
<1> DEFINE top0 == CHOOSE i \in at : LatestAt(s, at, i)
<1>2. top0 \in at /\ LatestAt(s, at, top0)
    BY <1>1
<1>3. Latest(s, at) = s[top0]
    BY DEF Latest, LatestAt
<1> HIDE DEF top0
<1>4. \A j \in at : s[j] \in Ops /\ s[j] \in Range(s)
    <2> SUFFICES ASSUME NEW j \in at PROVE s[j] \in Ops /\ s[j] \in Range(s)
        OBVIOUS
    <2>1. j \in DOMAIN s
        OBVIOUS
    <2> QED
        BY <2>1 DEF Range
<1>5. ASSUME NEW j \in at PROVE s[j] = s[top0] \/ Before(s[j], s[top0])
    <2>1. j = top0 \/ Before(s[j], s[top0]) \/ ~Before(s[top0], s[j])
        BY <1>2 DEF LatestAt
    <2>2. CASE j # top0 /\ ~Before(s[j], s[top0])
        <3>1. s[j].seq = s[top0].seq /\ s[j].sig = s[top0].sig
            BY <2>1, <2>2, <1>2, <1>4 DEF Before, Ops
        <3> QED
            BY <3>1, <1>2, <1>4 DEF Unique
    <2> QED
        BY <2>1, <2>2
<1> QED
    BY <1>2, <1>3, <1>5 DEF OpsAt

\* Which op is the last depends on the ops, not on the places they have.
LEMMA LatestOfOps ==
  ASSUME NEW s \in Seq(Ops), NEW t \in Seq(Ops), NEW at, NEW bt,
         at \subseteq DOMAIN s, bt \subseteq DOMAIN t,
         OpsAt(s, at) = OpsAt(t, bt),
         \A i \in at : s[i].by = founder, \A i \in bt : t[i].by = founder,
         Unique(Range(s)), Unique(Range(t))
  PROVE  Latest(s, at) = Latest(t, bt)
<1>1. CASE at = {}
    <2>1. bt = {}
        BY <1>1 DEF OpsAt
    <2> QED
        BY <1>1, <2>1 DEF Latest
<1>2. CASE at # {}
    <2>1. bt # {}
        BY <1>2 DEF OpsAt
    <2> DEFINE x == Latest(s, at)
               y == Latest(t, bt)
    <2>2. x \in OpsAt(s, at) /\ \A j \in at : s[j] = x \/ Before(s[j], x)
        BY <1>2, LatestIsLast
    <2>3. y \in OpsAt(t, bt) /\ \A j \in bt : t[j] = y \/ Before(t[j], y)
        BY <2>1, LatestIsLast
    <2> HIDE DEF x, y
    <2>4. (x = y \/ Before(x, y)) /\ (y = x \/ Before(y, x))
        BY <2>2, <2>3 DEF OpsAt
    <2>5. x \in Ops /\ y \in Ops
        BY <2>2, <2>3 DEF OpsAt
    <2>6. x = y
        BY <2>4, <2>5, BeforeOrders
    <2> QED
        BY <2>6 DEF x, y
<1> QED
    BY <1>1, <1>2

\* The same ops give the same roster.
LEMMA RosterOfOps ==
  ASSUME NEW s \in Seq(Ops), NEW t \in Seq(Ops), Range(s) = Range(t),
         Unique(Range(s))
  PROVE  deriveState(s) = deriveState(t)
<1>1. ASSUME NEW m PROVE LatestAbout(s, m) = LatestAbout(t, m)
    <2> DEFINE fits(o) == o.by = founder /\ o.type \in {"add", "remove"} /\ o.about = m
               at == {i \in DOMAIN s : fits(s[i])}
               bt == {i \in DOMAIN t : fits(t[i])}
    <2>1. OpsAt(s, at) = {o \in Range(s) : fits(o)}
        BY DEF Range, OpsAt
    <2>2. OpsAt(t, bt) = {o \in Range(t) : fits(o)}
        BY DEF Range, OpsAt
    <2>3. LatestAbout(s, m) = Latest(s, at) /\ LatestAbout(t, m) = Latest(t, bt)
        BY DEF LatestAbout
    <2>4. /\ at \subseteq DOMAIN s /\ \A i \in at : s[i].by = founder
          /\ bt \subseteq DOMAIN t /\ \A i \in bt : t[i].by = founder
        OBVIOUS
    <2> HIDE DEF at, bt
    <2>5. OpsAt(s, at) = OpsAt(t, bt)
        BY <2>1, <2>2
    <2>6. Unique(Range(t))
        OBVIOUS
    <2>7. Latest(s, at) = Latest(t, bt)
        BY <2>4, <2>5, <2>6, LatestOfOps
    <2> QED
        BY <2>3, <2>7
<1>2. ASSUME NEW id PROVE LatestMandate(s, id) = LatestMandate(t, id)
    <2> DEFINE fits(o) == o.by = founder /\ o.type \in {"grant", "revoke"} /\ o.mandate = id
               at == {i \in DOMAIN s : fits(s[i])}
               bt == {i \in DOMAIN t : fits(t[i])}
    <2>1. OpsAt(s, at) = {o \in Range(s) : fits(o)}
        BY DEF Range, OpsAt
    <2>2. OpsAt(t, bt) = {o \in Range(t) : fits(o)}
        BY DEF Range, OpsAt
    <2>3. /\ LatestMandate(s, id) = Latest(s, at)
          /\ LatestMandate(t, id) = Latest(t, bt)
        BY DEF LatestMandate
    <2>4. /\ at \subseteq DOMAIN s /\ \A i \in at : s[i].by = founder
          /\ bt \subseteq DOMAIN t /\ \A i \in bt : t[i].by = founder
        OBVIOUS
    <2> HIDE DEF at, bt
    <2>5. OpsAt(s, at) = OpsAt(t, bt)
        BY <2>1, <2>2
    <2>6. Unique(Range(t))
        OBVIOUS
    <2>7. Latest(s, at) = Latest(t, bt)
        BY <2>4, <2>5, <2>6, LatestOfOps
    <2> QED
        BY <2>3, <2>7
<1>3. \A a, id : Holds(s, a, id) <=> Holds(t, a, id)
    BY <1>2, Zenon DEF Holds
<1>4. \A m : AdminAdded(s, m) <=> AdminAdded(t, m)
    BY <1>1, <1>3, Zenon DEF AdminAdded
<1>5. Members(s) = Members(t)
    BY <1>1, <1>4 DEF Members
<1>6. Admins(s) = Admins(t)
    BY <1>3, Zenon DEF Admins
<1>7. s = <<>> <=> t = <<>>
    <2>1. s = <<>> <=> Range(s) = {}
        BY DEF Range
    <2>2. t = <<>> <=> Range(t) = {}
        BY DEF Range
    <2> QED
        BY <2>1, <2>2
<1> QED
    BY <1>5, <1>6, <1>7, Zenon DEF deriveState

-----------------------------------------------------------------------------
(* What the agents, the relay and the posts hold *)

RoomTypes ==
  /\ ops \in [Agents -> Seq(Ops)] /\ inbox \in [Agents -> Seq(Ops)]
  /\ held \in [Agents -> [on : BOOLEAN, ops : Seq(Ops), seqNext : Int]]
  /\ outbox \in [Agents -> SUBSET [to : Agents, ops : Seq(Ops)]]
  /\ seqNext \in Int /\ issued \in Nat

\* The room of those who have made or hold it is not empty.
RoomMade == ops[founder] # <<>> /\ \A a \in Agents : held[a].on => held[a].ops # <<>>

\* A command leaves one post of many ops at most, and one of a single op to a member.
Size(p) == Len(p.ops)
Sorted(posts) ==
  \A p, q \in posts :
    /\ 1 <= Size(p)
    /\ p # q => \/ Size(p) = 1 /\ Size(q) = 1 /\ p.to # q.to
                \/ Size(p) = 1 /\ Size(q) > 1
                \/ Size(p) > 1 /\ Size(q) = 1

SortedPosts == \A a \in Agents : Sorted(outbox[a])

\* Every op there is
Stock(a) == Range(ops[a]) \cup Range(held[a].ops) \cup Range(inbox[a])
            \cup UNION {Range(p.ops) : p \in outbox[a]}
Everything == UNION {Stock(a) : a \in Agents}

\* The founder's ops, but for the first four, are signed, each with a signature of its own.
Signed(S, n) ==
  \A o \in S : o.by = founder =>
    /\ o \in Ops
    /\ o.sig = 0 => o \in Range(Founding)
    /\ -n <= o.sig /\ o.sig <= n
    /\ \A p \in S : p.by = founder /\ p.sig = o.sig /\ o.sig # 0 => p = o

RoomInv == RoomTypes /\ RoomMade /\ SortedPosts /\ Signed(Everything, issued)

LEMMA FourOps ==
  ASSUME NEW o \in Ops, NEW p \in Ops, NEW q \in Ops, NEW r \in Ops
  PROVE  <<o, p, q, r>> \in Seq(Ops) /\ <<o, p, q, r>> # <<>>
OBVIOUS

LEMMA FoundingOps ==
  /\ Founding \in Seq(Ops) /\ Founding # <<>> /\ Create \in Ops
  /\ \A o \in Range(Founding) : o.sig = 0
  /\ Unique(Range(Founding))
<1>1. founder \in Agents /\ admin \in Agents
    BY RoomsAssumption
<1>2. Range(Founding) = {Founding[1], Founding[2], Founding[3], Founding[4]}
    <2>1. DOMAIN Founding = {1, 2, 3, 4}
        BY DEF Founding
    <2> QED
        BY <2>1 DEF Range
<1>3. /\ Founding[1] = Create /\ Founding[1].seq = 0 /\ Founding[2].seq = 1
      /\ Founding[3].seq = 2 /\ Founding[4].seq = 3
      /\ \A i \in {1, 2, 3, 4} : Founding[i].sig = 0 /\ Founding[i] \in Ops
    BY <1>1 DEF Founding, Create, Op, Ops
<1>4. Founding = <<Founding[1], Founding[2], Founding[3], Founding[4]>>
    BY DEF Founding
<1>5. Founding \in Seq(Ops) /\ Founding # <<>>
    <2>1. /\ Founding[1] \in Ops /\ Founding[2] \in Ops
          /\ Founding[3] \in Ops /\ Founding[4] \in Ops
        BY <1>3
    <2> HIDE DEF Founding
    <2> QED
        BY <1>4, <2>1, FourOps
<1>6. Create \in Ops
    BY <1>3
<1> HIDE DEF Founding
<1> QED
    BY <1>2, <1>3, <1>5, <1>6 DEF Unique

LEMMA SignedAreUnique ==
  ASSUME NEW S, NEW n \in Nat, Signed(S, n)
  PROVE  Unique(S)
<1> SUFFICES ASSUME NEW o \in S, NEW p \in S, o.by = founder, p.by = founder,
                    o.seq = p.seq, o.sig = p.sig
             PROVE  o = p
    BY DEF Unique
<1>1. CASE o.sig = 0
    <2>1. o \in Range(Founding) /\ p \in Range(Founding)
        BY <1>1 DEF Signed
    <2> QED
        BY <2>1, FoundingOps DEF Unique
<1>2. CASE o.sig # 0
    BY <1>2 DEF Signed
<1> QED
    BY <1>1, <1>2

\* No step but a command brings an op nobody had.
LEMMA SignedKept ==
  ASSUME NEW S, NEW n, Signed(S, n), NEW T, T \subseteq S
  PROVE  Signed(T, n)
BY DEF Signed

LEMMA SignedGrows ==
  ASSUME NEW S, NEW n \in Nat, Signed(S, n), NEW o \in Ops, NEW T, T \subseteq S \cup {o},
         o.by = founder => o.sig \in {n + 1, -1 - n}
  PROVE  Signed(T, n + 1)
<1> SUFFICES ASSUME NEW p \in T, p.by = founder
             PROVE  /\ p \in Ops
                    /\ p.sig = 0 => p \in Range(Founding)
                    /\ -(n + 1) <= p.sig /\ p.sig <= n + 1
                    /\ \A q \in T : q.by = founder /\ q.sig = p.sig /\ p.sig # 0 => q = p
    BY DEF Signed
<1>1. \A q \in S : q.by = founder => q.sig \in Int /\ -n <= q.sig /\ q.sig <= n
    BY DEF Signed, Ops
<1>2. CASE p = o
    <2>1. \A q \in T : q.by = founder /\ q.sig = p.sig => q = p
        BY <1>1, <1>2
    <2> QED
        BY <1>2, <2>1
<1>3. CASE p # o
    <2>1. p \in S
        BY <1>3
    <2>2. p.sig \in Int /\ -n <= p.sig /\ p.sig <= n
        BY <1>1, <2>1
    <2>3. \A q \in T : q.by = founder /\ q.sig = p.sig => q \in S
        BY <2>2
    <2> QED
        BY <2>1, <2>2, <2>3 DEF Signed
<1> QED
    BY <1>2, <1>3

\* An op more at the end of a room's
LEMMA OpAppended ==
  ASSUME NEW s \in Seq(Ops), NEW o \in Ops
  PROVE  /\ appendOp(s, o) \in Seq(Ops) /\ appendOp(s, o) # <<>>
         /\ Range(appendOp(s, o)) = Range(s) \cup {o}
         /\ s # <<>> /\ (o \in Range(s) => \E p \in Range(s) : p # o)
              => Len(appendOp(s, o)) > 1
<1>1. CASE o \in Range(s)
    <2>1. s # <<>>
        BY <1>1 DEF Range
    <2>2. ASSUME NEW p \in Range(s), p # o PROVE Len(s) > 1
        <3>1. PICK i \in 1 .. Len(s), j \in 1 .. Len(s) : s[i] = o /\ s[j] = p
            BY <1>1 DEF Range
        <3>2. i # j
            BY <2>2, <3>1
        <3> QED
            BY <3>2
    <2>3. Range(s) = Range(s) \cup {o}
        BY <1>1
    <2> QED
        BY <1>1, <2>1, <2>2, <2>3 DEF appendOp
<1>2. CASE o \notin Range(s)
    <2> DEFINE t == Append(s, o)
    <2>0. t \in Seq(Ops) /\ Len(t) = Len(s) + 1
        OBVIOUS
    <2>2. t[Len(s) + 1] = o /\ \A i \in 1 .. Len(s) : t[i] = s[i]
        OBVIOUS
    <2> HIDE DEF t
    <2>1. t \in Seq(Ops) /\ Len(t) = Len(s) + 1 /\ t # <<>>
        BY <2>0
    <2>3. DOMAIN t = 1 .. Len(s) + 1 /\ DOMAIN s = 1 .. Len(s) /\ Len(s) \in Nat
        BY <2>1
    <2>4. DOMAIN t = DOMAIN s \cup {Len(s) + 1} /\ t[Len(s) + 1] = o /\ \A i \in DOMAIN s : t[i] = s[i]
        BY <2>2, <2>3
    <2>5. Range(t) = Range(s) \cup {o}
        BY <2>4 DEF Range
    <2>6. s # <<>> => Len(t) > 1
        BY <2>1
    <2>7. appendOp(s, o) = t
        BY <1>2 DEF appendOp, t
    <2> QED
        BY <2>1, <2>5, <2>6, <2>7
<1> QED
    BY <1>1, <1>2

LEMMA RangesOfMail ==
  ASSUME NEW s \in Seq(Ops), NEW t \in Seq(Ops)
  PROVE  /\ s \o t \in Seq(Ops) /\ Range(s \o t) \subseteq Range(s) \cup Range(t)
         /\ \A k \in 0 .. Len(t) : /\ SubSeq(t, 1, k) \in Seq(Ops)
                                   /\ Range(SubSeq(t, 1, k)) \subseteq Range(t)
<1>1. s \o t \in Seq(Ops) /\ Range(s \o t) \subseteq Range(s) \cup Range(t)
    <2> DEFINE u == s \o t
    <2>1. u \in Seq(Ops) /\ Len(u) = Len(s) + Len(t)
        OBVIOUS
    <2>2. \A i \in 1 .. Len(u) : u[i] = IF i <= Len(s) THEN s[i] ELSE t[i - Len(s)]
        OBVIOUS
    <2> HIDE DEF u
    <2>3. \A i \in DOMAIN u : (i \in DOMAIN s /\ u[i] = s[i]) \/ (i - Len(s) \in DOMAIN t /\ u[i] = t[i - Len(s)])
        BY <2>1, <2>2
    <2>4. Range(u) \subseteq Range(s) \cup Range(t)
        BY <2>3 DEF Range
    <2> QED
        BY <2>1, <2>4 DEF u
<1>2. ASSUME NEW k \in 0 .. Len(t)
      PROVE  SubSeq(t, 1, k) \in Seq(Ops) /\ Range(SubSeq(t, 1, k)) \subseteq Range(t)
    <2> DEFINE u == SubSeq(t, 1, k)
    <2>1. k \in Int /\ 1 \in Int /\ \A i \in 1 .. k : t[i] \in Ops
        BY <1>2
    <2>2. /\ u \in Seq(Ops) /\ Len(u) = IF 1 <= k THEN k - 1 + 1 ELSE 0
          /\ \A i \in 1 .. k - 1 + 1 : u[i] = t[1 + i - 1]
        BY <2>1, SubSeqProperties
    <2> HIDE DEF u
    <2>5. DOMAIN u = 1 .. Len(u) /\ Len(u) = k /\ DOMAIN t = 1 .. Len(t)
        BY <1>2, <2>2
    <2>3. DOMAIN u \subseteq DOMAIN t /\ \A i \in DOMAIN u : u[i] = t[i]
        BY <1>2, <2>2, <2>5
    <2>4. Range(u) \subseteq Range(t)
        BY <2>3 DEF Range
    <2> QED
        BY <2>2, <2>4 DEF u
<1> QED
    BY <1>1, <1>2

-----------------------------------------------------------------------------
\* A page taken in by ingestPage(), mail by mail
Taken(t, o, i, unsound) == IF i \in unsound THEN t ELSE ingestControlOp(t, o)
IsIngestion(f, s, page, unsound) ==
  /\ f[0] = s
  /\ \A i \in 1 .. Len(page) : f[i] = Taken(f[i - 1], page[i], i, unsound)

\* The recursion of ingestPage() has a solution, which is what it returns.
LEMMA IngestionRuns ==
  ASSUME NEW s, NEW page \in Seq(Ops), NEW unsound
  PROVE  \E f : IsIngestion(f, s, page, unsound) /\ ingestPage(s, page, unsound) = f[Len(page)]
<1> DEFINE n == Len(page)
           Runs(m, f) == /\ f = [i \in 0 .. m |-> f[i]] /\ f[0] = s
                         /\ \A i \in 1 .. m : f[i] = Taken(f[i - 1], page[i], i, unsound)
           step(f, i) == IF i = 0 THEN s
                         ELSE IF i \in unsound THEN f[i - 1] ELSE ingestControlOp(f[i - 1], page[i])
           good == {m \in Nat : \E f : Runs(m, f)}
<1>0. n \in Nat
    OBVIOUS
<1>1. 0 \in good
    <2> DEFINE f == [i \in 0 .. 0 |-> s]
    <2>1. f[0] = s /\ f = [i \in 0 .. 0 |-> f[i]]
        OBVIOUS
    <2> HIDE DEF f
    <2> QED
        BY <2>1
<1>2. ASSUME NEW k \in 1 .. n, k - 1 \in good PROVE k \in good
    <2>0. PICK m : m = k - 1
        OBVIOUS
    <2>1. PICK f : Runs(m, f)
        BY <1>2, <2>0
    <2>2. m \in Nat /\ k = m + 1 /\ k \in Nat
        BY <1>0, <2>0
    <2> DEFINE new == Taken(f[m], page[m + 1], m + 1, unsound)
    <2> HIDE DEF new
    <2> DEFINE g == [i \in 0 .. m + 1 |-> IF i = m + 1 THEN new ELSE f[i]]
    <2>3. \A i \in 0 .. m : g[i] = f[i]
        BY <2>2, SMT
    <2>4. g[m + 1] = new /\ g = [i \in 0 .. m + 1 |-> g[i]]
        BY <2>2, SMT
    <2> HIDE DEF g
    <2>5. g[0] = s
        BY <2>1, <2>2, <2>3
    <2>6. ASSUME NEW i \in 1 .. m + 1 PROVE g[i] = Taken(g[i - 1], page[i], i, unsound)
        <3>1. CASE i = m + 1
            <4>1. i - 1 = m /\ m \in 0 .. m
                BY <2>2, <3>1
            <4> QED
                BY <3>1, <4>1, <2>3, <2>4 DEF new
        <3>2. CASE i \in 1 .. m
            <4>1. i \in 0 .. m /\ i - 1 \in 0 .. m
                BY <2>2, <3>2
            <4> QED
                BY <3>2, <4>1, <2>1, <2>3
        <3> QED
            BY <2>2, <3>1, <3>2
    <2> QED
        BY <2>2, <2>4, <2>5, <2>6
<1> HIDE DEF Runs
<1>3. \E f : Runs(n, f)
    <2>1. \A k \in 1 .. n : k - 1 \in good => k \in good
        BY <1>2
    <2> HIDE DEF good, n
    <2>2. \A k \in 0 .. n : k \in good
        BY <2>1, <1>0, <1>1, UpTo
    <2> QED
        BY <2>2, <1>0 DEF good
<1>4. PICK f : f = [i \in 0 .. n |-> f[i]] /\ IsIngestion(f, s, page, unsound)
    BY <1>3 DEF Runs, IsIngestion
<1>5. ASSUME NEW i \in 0 .. n PROVE f[i] = step(f, i)
    <2>1. CASE i = 0
        BY <2>1, <1>4 DEF IsIngestion
    <2>2. CASE i # 0
        <3>1. i \in 1 .. Len(page)
            BY <1>0, <2>2
        <3>2. f[i] = Taken(f[i - 1], page[i], i, unsound)
            BY <1>4, <3>1 DEF IsIngestion
        <3> QED
            BY <2>2, <3>2 DEF Taken
    <2> QED
        BY <2>1, <2>2
<1>6. f = [i \in 0 .. n |-> step(f, i)]
    BY <1>4, <1>5
<1> DEFINE loop == CHOOSE h : h = [i \in 0 .. n |-> step(h, i)]
<1>7. loop = [i \in 0 .. n |-> step(loop, i)]
    BY <1>6
<1>8. ingestPage(s, page, unsound) = loop[n]
    BY DEF ingestPage
<1> HIDE DEF loop
<1>9. \A i \in 0 .. n : loop[i] = step(loop, i)
    BY <1>7
<1>10. IsIngestion(loop, s, page, unsound)
    BY <1>0, <1>9 DEF IsIngestion, Taken
<1> QED
    BY <1>8, <1>10

\* A room grows by what was taken in, and only by that.
LEMMA PageTaken ==
  ASSUME NEW s \in Seq(Ops), NEW page \in Seq(Ops), NEW unsound
  PROVE  LET t == ingestPage(s, page, unsound)
         IN t \in Seq(Ops) /\ Range(s) \subseteq Range(t) /\ Range(t) \subseteq Range(s) \cup Range(page)
<1>1. PICK f : IsIngestion(f, s, page, unsound) /\ ingestPage(s, page, unsound) = f[Len(page)]
    BY IngestionRuns
<1> DEFINE Fits(t) == /\ t \in Seq(Ops) /\ Range(s) \subseteq Range(t)
                      /\ Range(t) \subseteq Range(s) \cup Range(page)
           good == {i \in Nat : Fits(f[i])}
<1>2. ASSUME NEW i \in 1 .. Len(page), i - 1 \in good PROVE i \in good
    <2>1. PICK t, o : t = f[i - 1] /\ o = page[i]
        OBVIOUS
    <2>2. f[i] = Taken(t, o, i, unsound) /\ Fits(t)
        BY <1>1, <1>2, <2>1 DEF IsIngestion
    <2>3. o \in Ops /\ o \in Range(page) /\ i \in Nat
        BY <2>1 DEF Range
    <2>4. Range(<<o>>) = {o} /\ <<o>> \in Seq(Ops)
        BY <2>3 DEF Range
    <2>5. Range(<<>>) = {}
        BY DEF Range
    <2>6. Fits(appendOp(t, o))
        <3>1. t \in Seq(Ops) /\ Range(s) \subseteq Range(t) /\ Range(t) \subseteq Range(s) \cup Range(page)
            BY <2>2
        <3>2. appendOp(t, o) \in Seq(Ops) /\ Range(appendOp(t, o)) = Range(t) \cup {o}
            BY <2>3, <3>1, OpAppended
        <3> QED
            BY <2>3, <3>1, <3>2
    <2>7. f[i] \in {t, appendOp(t, o)} \/ (t = <<>> /\ f[i] = <<o>>)
        BY <2>2 DEF Taken, ingestControlOp
    <2>8. t = <<>> => Fits(<<o>>)
        BY <2>2, <2>3, <2>4, <2>5
    <2> HIDE DEF Fits
    <2>9. Fits(f[i])
        BY <2>2, <2>6, <2>7, <2>8
    <2> QED
        BY <2>3, <2>9
<1>3. 0 \in good
    BY <1>1 DEF IsIngestion
<1>4. \A i \in 1 .. Len(page) : i - 1 \in good => i \in good
    BY <1>2
<1>5. Len(page) \in Nat
    OBVIOUS
<1> HIDE DEF good
<1>6. \A i \in 0 .. Len(page) : i \in good
    BY <1>3, <1>4, <1>5, UpTo
<1> QED
    BY <1>1, <1>5, <1>6 DEF good

\* The next post of a command is one of its posts.
LEMMA NextPostExists ==
  ASSUME RoomTypes, SortedPosts, NEW a \in Agents, outbox[a] # {}
  PROVE  NextPost(a) \in outbox[a]
<1> DEFINE first(p) == \A q \in outbox[a] \ {p} :
                         Size(q) < Size(p) \/ (Size(q) = Size(p) /\ p.to < q.to)
<1>0. /\ \A p \in outbox[a] : 1 <= Size(p)
      /\ \A p, q \in outbox[a] :
           p # q => \/ Size(p) = 1 /\ Size(q) = 1 /\ p.to # q.to
                    \/ Size(p) = 1 /\ Size(q) > 1
                    \/ Size(p) > 1 /\ Size(q) = 1
    BY DEF SortedPosts, Sorted
<1>1. \A p \in outbox[a] : p.to \in Nat /\ Size(p) \in Nat /\ 1 <= Size(p)
    <2> SUFFICES ASSUME NEW p \in outbox[a] PROVE p.to \in Nat /\ Size(p) \in Nat
        BY <1>0
    <2>1. p \in [to : Agents, ops : Seq(Ops)]
        BY DEF RoomTypes
    <2>2. p.to \in Agents /\ p.ops \in Seq(Ops)
        BY <2>1
    <2>3. p.to \in Nat
        BY <2>2, RoomsAssumption
    <2>4. Size(p) \in Nat
        BY <2>2 DEF Size
    <2> QED
        BY <2>3, <2>4
<1>2. \E p \in outbox[a] : first(p)
    <2>1. CASE \E p \in outbox[a] : Size(p) > 1
        <3>1. PICK p \in outbox[a] : Size(p) > 1
            BY <2>1
        <3>2. ASSUME NEW q \in outbox[a] \ {p} PROVE Size(q) < Size(p)
            <4>1. Size(q) = 1
                BY <3>1, <1>0, <1>1
            <4> QED
                BY <3>1, <4>1, <1>1
        <3> QED
            BY <3>2
    <2>2. CASE \A p \in outbox[a] : Size(p) = 1
        <3> DEFINE T == {p.to : p \in outbox[a]}
        <3>1. T \in SUBSET Nat /\ T # {}
            BY <1>1
        <3>2. PICK t \in T : \A u \in T : t <= u
            BY <3>1, LeastNumber
        <3>3. PICK p \in outbox[a] : p.to = t
            BY <3>2
        <3>4. ASSUME NEW q \in outbox[a] \ {p} PROVE Size(q) = Size(p) /\ p.to < q.to
            <4>1. p.to <= q.to
                BY <3>2, <3>3
            <4>2. p.to # q.to
                BY <2>2, <1>0
            <4> QED
                BY <4>1, <4>2, <2>2, <1>1
        <3> QED
            BY <3>4
    <2>3. \A p \in outbox[a] : Size(p) > 1 \/ Size(p) = 1
        BY <1>1
    <2> QED
        BY <2>1, <2>2, <2>3
<1>3. NextPost(a) = CHOOSE p \in outbox[a] : first(p)
    BY DEF NextPost, Size
<1> HIDE DEF first
<1> QED
    BY <1>2, <1>3

-----------------------------------------------------------------------------
LEMMA RosterIsOfAgents ==
  ASSUME NEW s PROVE deriveState(s).members \subseteq Agents
BY DEF deriveState, Members

LEMMA RoomStarts == RoomInit => RoomInv
<1> SUFFICES ASSUME RoomInit PROVE RoomInv
    OBVIOUS
<1>1. PICK f : f = Founding
    OBVIOUS
<1>2. f \in Seq(Ops) /\ f # <<>>
    BY <1>1, FoundingOps
<1>3. /\ ops = [a \in Agents |-> IF a \in {founder, admin} THEN f ELSE <<>>]
      /\ inbox = [a \in Agents |-> <<>>] /\ outbox = [a \in Agents |-> {}]
      /\ held = [a \in Agents |-> [on |-> FALSE, ops |-> <<>>, seqNext |-> 0]]
      /\ seqNext = 4 /\ issued = 0
    BY <1>1 DEF RoomInit, NotHeld
<1>4. RoomTypes
    BY <1>2, <1>3 DEF RoomTypes
<1>5. RoomMade
    BY <1>2, <1>3, RoomsAssumption DEF RoomMade
<1>6. SortedPosts
    BY <1>3 DEF SortedPosts, Sorted
<1>7. Range(<<>>) = {}
    BY DEF Range
<1>8. \A a \in Agents : Stock(a) \subseteq Range(f)
    BY <1>3, <1>7 DEF Stock
<1>9. Everything \subseteq Range(f)
    BY <1>8 DEF Everything
<1>10. Signed(Range(f), 0)
    <2>1. \A o \in Range(f) : o \in Ops /\ o.sig = 0 /\ o \in Range(Founding)
        BY <1>1, <1>2, FoundingOps DEF Range
    <2> QED
        BY <2>1 DEF Signed
<1> QED
    BY <1>3, <1>4, <1>5, <1>6, <1>9, <1>10, SignedKept DEF RoomInv

\* A step that brings no new op
LEMMA NoNewOp ==
  ASSUME RoomInv, RoomTypes', RoomMade', SortedPosts', issued' = issued,
         \A a \in Agents : Stock(a)' \subseteq Everything
  PROVE  RoomInv' /\ Everything' \subseteq Everything
<1>1. Everything' \subseteq Everything
    BY DEF Everything
<1>2. Signed(Everything', issued)
    BY <1>1, SignedKept DEF RoomInv
<1> QED
    BY <1>1, <1>2 DEF RoomInv

LEMMA StockOfAll ==
  ASSUME NEW a \in Agents
  PROVE  /\ Range(ops[a]) \subseteq Everything /\ Range(held[a].ops) \subseteq Everything
         /\ Range(inbox[a]) \subseteq Everything
         /\ \A p \in outbox[a] : Range(p.ops) \subseteq Everything
BY DEF Everything, Stock

\* A command that appends o and posts ops the agent has
LEMMA IssueStep ==
  ASSUME RoomInv, NEW a \in Agents, NEW o \in Ops, NEW posts, Issue(a, o, posts),
         seqNext' \in Int, o.by = founder => o.sig \in {issued + 1, -1 - issued},
         posts \subseteq [to : Agents, ops : Seq(Ops)], Sorted(posts),
         \A p \in posts : Range(p.ops) \subseteq Range(ops[a]) \cup {o}
  PROVE  RoomInv' /\ Everything' \subseteq Everything \cup {o}
<1> DEFINE s == appendOp(ops[a], o)
<1>1. /\ issued' = issued + 1 /\ ops' = [ops EXCEPT ![a] = s]
      /\ outbox' = [outbox EXCEPT ![a] = posts] /\ UNCHANGED <<held, inbox>>
    BY DEF Issue
<1>2. ops[a] \in Seq(Ops)
    BY DEF RoomInv, RoomTypes
<1>3. s \in Seq(Ops) /\ s # <<>> /\ Range(s) = Range(ops[a]) \cup {o}
    BY <1>2, OpAppended
<1> HIDE DEF s
<1>4. RoomTypes'
    BY <1>1, <1>3 DEF RoomInv, RoomTypes
<1>5. RoomMade'
    BY <1>1, <1>3, RoomsAssumption DEF RoomInv, RoomTypes, RoomMade
<1>6. SortedPosts'
    BY <1>1 DEF RoomInv, RoomTypes, SortedPosts
<1>7. ASSUME NEW b \in Agents PROVE Stock(b)' \subseteq Everything \cup {o}
    <2>1. /\ Range(ops[b]) \subseteq Everything /\ Range(held[b].ops) \subseteq Everything
          /\ Range(inbox[b]) \subseteq Everything
          /\ \A p \in outbox[b] : Range(p.ops) \subseteq Everything
        BY StockOfAll
    <2>2. Range(ops'[b]) \subseteq Everything \cup {o}
        BY <1>1, <1>3, <2>1 DEF RoomInv, RoomTypes
    <2>3. ASSUME NEW p \in outbox'[b] PROVE Range(p.ops) \subseteq Everything \cup {o}
        BY <1>1, <2>1, <2>3 DEF RoomInv, RoomTypes
    <2>4. Range(held'[b].ops) \subseteq Everything /\ Range(inbox'[b]) \subseteq Everything
        BY <1>1, <2>1
    <2> QED
        BY <2>2, <2>3, <2>4 DEF Stock
<1>8. Everything' \subseteq Everything \cup {o}
    BY <1>7 DEF Everything
<1>9. Signed(Everything', issued + 1)
    BY <1>8, SignedGrows DEF RoomInv, RoomTypes
<1> QED
    BY <1>1, <1>4, <1>5, <1>6, <1>8, <1>9 DEF RoomInv

\* What is posted: the op to the roster, and the agent's ops to a new member.
FitPosts(s, o, a, m, posts, more) ==
  /\ posts \subseteq [to : Agents, ops : Seq(Ops)] /\ Sorted(posts)
  /\ \A p \in posts : Range(p.ops) \subseteq Range(s)
  /\ Len(s) > 1 => Sorted(more)
  /\ more \subseteq [to : Agents, ops : Seq(Ops)]
  /\ \A p \in more : Range(p.ops) \subseteq Range(s)
  /\ \A n \in deriveState(s).members \ {a} : \E p \in posts : p.to = n /\ o \in Range(p.ops)
  /\ \A p \in posts : p.to # a
  /\ Bootstrap(s, m) = {[to |-> m, ops |-> s]}

LEMMA PostsFit ==
  ASSUME NEW s \in Seq(Ops), NEW o \in Range(s), NEW a, NEW m \in Agents
  PROVE  FitPosts(s, o, a, m, Posts(a, s, o), Bootstrap(s, m) \cup Posts(a, s, o))
<1> DEFINE posts == Posts(a, s, o)
           more == Bootstrap(s, m) \cup posts
<1>1. o \in Ops /\ <<o>> \in Seq(Ops) /\ Len(<<o>>) = 1 /\ Range(<<o>>) = {o}
    BY DEF Range
<1>2. PICK one : one = <<o>>
    OBVIOUS
<1>3. \A p \in posts : p.ops = one /\ p.to \in Agents /\ p = [to |-> p.to, ops |-> one]
    BY <1>2, RosterIsOfAgents DEF Posts
<1>4. Bootstrap(s, m) = {[to |-> m, ops |-> s]}
    BY DEF Bootstrap
<1>11. /\ \A n \in deriveState(s).members \ {a} : [to |-> n, ops |-> one] \in posts
       /\ \A p \in posts : p.to # a
    BY <1>2 DEF Posts
<1> HIDE DEF posts
<1>12. \A n \in deriveState(s).members \ {a} : \E p \in posts : p.to = n /\ o \in Range(p.ops)
    <2> SUFFICES ASSUME NEW n \in deriveState(s).members \ {a}
                 PROVE  \E p \in posts : p.to = n /\ o \in Range(p.ops)
        OBVIOUS
    <2>1. PICK p : p = [to |-> n, ops |-> one]
        OBVIOUS
    <2>2. p \in posts /\ p.to = n /\ p.ops = one
        BY <1>11, <2>1
    <2> QED
        BY <1>1, <1>2, <2>2
<1>5. one \in Seq(Ops) /\ Len(one) = 1 /\ Range(one) \subseteq Range(s)
    BY <1>1, <1>2
<1>6. posts \subseteq [to : Agents, ops : Seq(Ops)] /\ \A p \in posts : Range(p.ops) \subseteq Range(s)
    BY <1>3, <1>5
<1>7. Sorted(posts)
    <2>1. \A p, q \in posts : p # q => p.to # q.to
        BY <1>3
    <2>2. \A p \in posts : Size(p) = 1
        BY <1>3, <1>5 DEF Size
    <2> QED
        BY <2>1, <2>2 DEF Sorted
<1>8. \A p \in more : p \in posts \/ (p = [to |-> m, ops |-> s] /\ p.to = m /\ p.ops = s)
    BY <1>4
<1>9. more \subseteq [to : Agents, ops : Seq(Ops)] /\ \A p \in more : Range(p.ops) \subseteq Range(s)
    BY <1>6, <1>8
<1>10. ASSUME Len(s) > 1 PROVE Sorted(more)
    <2>1. \A p \in more : p \in posts \/ Size(p) > 1
        BY <1>8, <1>10 DEF Size
    <2>2. \A p, q \in more : p \notin posts /\ q \notin posts => p = q
        BY <1>8
    <2>3. \A p \in posts : Size(p) = 1
        BY <1>3, <1>5 DEF Size
    <2>4. \A p \in more : 1 <= Size(p)
        <3>1. \A p \in more : Size(p) = 1 \/ Size(p) > 1
            BY <2>1, <2>3
        <3>2. \A p \in more : Size(p) \in Int
            BY <1>5, <1>3, <1>8 DEF Size
        <3> QED
            BY <3>1, <3>2
    <2> QED
        BY <2>1, <2>2, <2>3, <2>4, <1>7 DEF Sorted
<1> QED
    BY <1>4, <1>6, <1>7, <1>9, <1>10, <1>11, <1>12 DEF posts, FitPosts

LEMMA PostOnlyStep ==
  ASSUME RoomInv, NEW a \in Agents, outbox[a] # {}, NEW sent \in Seq(Ops),
         NEW p, p = NextPost(a), Range(sent) \subseteq Range(p.ops),
         inbox' = [inbox EXCEPT ![p.to] = @ \o sent], outbox' = [outbox EXCEPT ![a] = @ \ {p}],
         UNCHANGED <<ops, seqNext, held, issued>>
  PROVE  RoomInv' /\ Everything' \subseteq Everything
<1>1. p \in outbox[a]
    BY NextPostExists DEF RoomInv
<1>2. p.to \in Agents /\ p.ops \in Seq(Ops) /\ inbox[p.to] \in Seq(Ops)
    BY <1>1 DEF RoomInv, RoomTypes
<1>3. PICK next : next = inbox[p.to] \o sent
    OBVIOUS
<1>4. next \in Seq(Ops) /\ Range(next) \subseteq Range(inbox[p.to]) \cup Range(sent)
    BY <1>2, <1>3, RangesOfMail
<1>5. inbox' = [inbox EXCEPT ![p.to] = next]
    BY <1>3
<1>6. RoomTypes'
    <2>1. inbox' \in [Agents -> Seq(Ops)]
        BY <1>2, <1>4, <1>5 DEF RoomInv, RoomTypes
    <2>2. outbox' \in [Agents -> SUBSET [to : Agents, ops : Seq(Ops)]]
        BY DEF RoomInv, RoomTypes
    <2> QED
        BY <2>1, <2>2 DEF RoomInv, RoomTypes
<1>7. RoomMade' /\ SortedPosts'
    <2>1. RoomMade'
        BY DEF RoomInv, RoomMade
    <2>2. \A b \in Agents : outbox'[b] \subseteq outbox[b]
        BY DEF RoomInv, RoomTypes
    <2>3. SortedPosts'
        BY <2>2 DEF RoomInv, SortedPosts, Sorted
    <2> QED
        BY <2>1, <2>3
<1>8. ASSUME NEW b \in Agents PROVE Stock(b)' \subseteq Everything
    <2>1. /\ Range(ops[b]) \subseteq Everything /\ Range(held[b].ops) \subseteq Everything
          /\ Range(inbox[b]) \subseteq Everything
          /\ \A q \in outbox[b] : Range(q.ops) \subseteq Everything
        BY StockOfAll
    <2>2. Range(p.ops) \subseteq Everything /\ Range(inbox[p.to]) \subseteq Everything
        BY <1>1, <1>2, StockOfAll
    <2>3. Range(inbox'[b]) \subseteq Everything
        BY <1>4, <1>5, <2>1, <2>2 DEF RoomInv, RoomTypes
    <2>4. outbox'[b] \subseteq outbox[b]
        BY DEF RoomInv, RoomTypes
    <2> QED
        BY <2>1, <2>3, <2>4 DEF Stock
<1> QED
    BY <1>6, <1>7, <1>8, NoNewOp

\* What a command of the founder does: o is new, and posted to the roster it makes; who is
\* invited is sent everything.
Commanded(o, s, posts, type, m) ==
  /\ o.by = founder /\ o.type = type /\ o.about = m /\ o \notin Everything
  /\ o.sig \in {issued + 1, -1 - issued}
  /\ s = appendOp(ops[founder], o) /\ Range(s) = Range(ops[founder]) \cup {o}
  /\ Issue(founder, o, posts) /\ seqNext' = seqNext + 1
  /\ posts \subseteq [to : Agents, ops : Seq(Ops)] /\ Sorted(posts)
  /\ \A p \in posts : Range(p.ops) \subseteq Range(s)
  /\ \A n \in deriveState(s).members \ {founder} :
       \E p \in posts : p.to = n /\ o \in Range(p.ops)
  /\ type = "add" => \E p \in posts : p.to = m /\ p.ops = s
  /\ \A p \in posts : p.to = founder => type = "add" /\ m = founder

LEMMA CommandDoes ==
  ASSUME RoomInv, NEW type \in {"add", "remove", "grant", "revoke"}, NEW m \in Agents,
         NEW mandate \in Int, Command(type, m, mandate)
  PROVE  \E o \in Ops, s \in Seq(Ops) : \E posts : Commanded(o, s, posts, type, m)
<1>1. PICK sig \in Sig :
        LET o == Op(type, founder, m, mandate, seqNext, sig)
            s == appendOp(ops[founder], o)
        IN /\ seqNext' = seqNext + 1
           /\ Issue(founder, o, IF type = "add" THEN Bootstrap(s, m) \cup Posts(founder, s, o)
                                ELSE Posts(founder, s, o))
    BY DEF Command
<1>2. PICK o, s : o = Op(type, founder, m, mandate, seqNext, sig) /\ s = appendOp(ops[founder], o)
    OBVIOUS
<1> DEFINE posts == IF type = "add" THEN Bootstrap(s, m) \cup Posts(founder, s, o)
                    ELSE Posts(founder, s, o)
<1>3. seqNext' = seqNext + 1 /\ Issue(founder, o, posts)
    BY <1>1, <1>2
<1>4. founder \in Agents /\ m \in Agents
    BY RoomsAssumption
<1>5. issued \in Nat /\ seqNext \in Int /\ ops[founder] \in Seq(Ops) /\ ops[founder] # <<>>
    BY <1>4 DEF RoomInv, RoomTypes, RoomMade
<1>6. sig \in {issued + 1, -1 - issued}
    BY DEF Sig
<1>7. o \in Ops /\ o.by = founder /\ o.sig = sig
    BY <1>2, <1>4, <1>5, <1>6 DEF Op, Ops
<1>8. o \notin Everything /\ o \notin Range(ops[founder])
    <2>1. Range(ops[founder]) \subseteq Everything
        BY <1>4, StockOfAll
    <2>2. o \in Everything => -issued <= o.sig /\ o.sig <= issued
        BY <1>7 DEF RoomInv, Signed
    <2>3. ~(-issued <= o.sig /\ o.sig <= issued)
        BY <1>5, <1>6, <1>7
    <2> QED
        BY <2>1, <2>2, <2>3
<1>9. s \in Seq(Ops) /\ Len(s) > 1 /\ Range(s) = Range(ops[founder]) \cup {o}
    BY <1>2, <1>5, <1>7, <1>8, OpAppended
<1>10. o \in Range(s)
    BY <1>9
<1> DEFINE some == Posts(founder, s, o)
           more == Bootstrap(s, m) \cup some
<1>11. FitPosts(s, o, founder, m, some, more)
    BY <1>4, <1>9, <1>10, PostsFit
<1>12. (posts = IF type = "add" THEN more ELSE some) /\ more = Bootstrap(s, m) \cup some
    OBVIOUS
<1> HIDE DEF posts, some, more
<1>13. /\ posts \subseteq [to : Agents, ops : Seq(Ops)] /\ Sorted(posts)
       /\ \A p \in posts : Range(p.ops) \subseteq Range(s)
    BY <1>9, <1>11, <1>12 DEF FitPosts
<1>14. some \subseteq posts
    BY <1>12
<1>15. \A n \in deriveState(s).members \ {founder} : \E p \in posts : p.to = n /\ o \in Range(p.ops)
    BY <1>11, <1>14 DEF FitPosts
<1>16. type = "add" => \E p \in posts : p.to = m /\ p.ops = s
    <2> SUFFICES ASSUME type = "add" PROVE \E p \in posts : p.to = m /\ p.ops = s
        OBVIOUS
    <2>1. PICK p : p = [to |-> m, ops |-> s]
        OBVIOUS
    <2>2. p \in posts /\ p.to = m /\ p.ops = s
        BY <1>11, <1>12, <2>1 DEF FitPosts
    <2> QED
        BY <2>2
<1>17. \A p \in posts : p.to = founder => type = "add" /\ m = founder
    <2>1. \A p \in posts \ some : type = "add" /\ p.to = m
        BY <1>9, <1>11, <1>12 DEF FitPosts
    <2> QED
        BY <1>11, <2>1 DEF FitPosts
<1>18. o.type = type /\ o.about = m
    BY <1>2 DEF Op
<1>19. Commanded(o, s, posts, type, m)
    BY <1>2, <1>3, <1>6, <1>7, <1>8, <1>9, <1>13, <1>15, <1>16, <1>17, <1>18 DEF Commanded
<1> QED
    BY <1>7, <1>9, <1>19

LEMMA CommandStep ==
  ASSUME RoomInv, NEW type, NEW m, NEW o \in Ops, NEW s \in Seq(Ops), NEW posts,
         Commanded(o, s, posts, type, m)
  PROVE  RoomInv' /\ Everything' \subseteq Everything \cup {o}
<1>1. founder \in Agents /\ seqNext \in Int
    BY RoomsAssumption DEF RoomInv, RoomTypes
<1>2. /\ Issue(founder, o, posts) /\ seqNext' \in Int /\ o.sig \in {issued + 1, -1 - issued}
      /\ posts \subseteq [to : Agents, ops : Seq(Ops)] /\ Sorted(posts)
      /\ \A p \in posts : Range(p.ops) \subseteq Range(ops[founder]) \cup {o}
    BY <1>1 DEF Commanded
<1> QED
    BY <1>1, <1>2, IssueStep

\* Every command of the founder is one.
LEMMA FounderCommands ==
  ASSUME RoomInv,
         \/ \E m \in Others : Invite(m) \/ roomKickOp(m) \/ roomGrantAdminOp(m)
         \/ \E id \in 0 .. MaxOps : roomRevokeAdminOp(id)
  PROVE  \E type \in {"add", "remove", "grant", "revoke"}, m \in Agents, mandate \in Int :
           /\ Command(type, m, mandate)
           /\ type = "add" => m # founder /\ partial' = partial \ {m}
           /\ type # "add" => partial' = partial
<1>1. issued + 1 \in Int /\ -1 \in Int /\ founder \in Agents
    BY RoomsAssumption DEF RoomInv, RoomTypes
<1>2. ASSUME NEW m \in Others, Invite(m) \/ roomKickOp(m) \/ roomGrantAdminOp(m)
      PROVE  \E type \in {"add", "remove", "grant", "revoke"}, n \in Agents, mandate \in Int :
               /\ Command(type, n, mandate)
               /\ type = "add" => n # founder /\ partial' = partial \ {n}
               /\ type # "add" => partial' = partial
    <2>1. m \in Agents /\ m # founder
        BY RoomsAssumption
    <2>2. CASE Invite(m)
        BY <1>1, <2>1, <2>2 DEF Invite
    <2>3. CASE roomKickOp(m)
        BY <1>1, <2>1, <2>3 DEF roomKickOp
    <2>4. CASE roomGrantAdminOp(m)
        BY <1>1, <2>1, <2>4 DEF roomGrantAdminOp
    <2> QED
        BY <1>2, <2>2, <2>3, <2>4
<1>3. ASSUME NEW id \in 0 .. MaxOps, roomRevokeAdminOp(id)
      PROVE  Command("revoke", founder, id) /\ id \in Int /\ partial' = partial
    BY <1>3, RoomsAssumption DEF roomRevokeAdminOp
<1> QED
    BY <1>1, <1>2, <1>3

\* Who holds a mandate has its grant.
LEMMA GrantAtHand ==
  ASSUME NEW s \in Seq(Ops), Unique(Range(s)), NEW a, NEW id, Holds(s, a, id)
  PROVE  \E g \in Range(s) : g.type = "grant"
<1> DEFINE at == {i \in DOMAIN s : s[i].by = founder /\ s[i].type \in {"grant", "revoke"}
                                   /\ s[i].mandate = id}
<1>1. LatestMandate(s, id) = Latest(s, at) /\ LatestMandate(s, id).type = "grant"
    BY DEF LatestMandate, Holds
<1>2. CASE at = {}
    BY <1>1, <1>2 DEF Latest, NoOp, Op
<1>3. CASE at # {}
    <2>1. at \subseteq DOMAIN s /\ \A i \in at : s[i].by = founder
        OBVIOUS
    <2> HIDE DEF at
    <2>2. Latest(s, at) \in OpsAt(s, at)
        BY <1>3, <2>1, LatestIsLast
    <2>3. OpsAt(s, at) \subseteq Range(s)
        BY <2>1 DEF OpsAt, Range
    <2> QED
        BY <1>1, <2>2, <2>3
<1> QED
    BY <1>2, <1>3

LEMMA AdminInviteStep ==
  ASSUME RoomInv, NEW a \in Agents, NEW m \in Others, NEW id \in Int, AdminInvite(a, m, id)
  PROVE  RoomInv' /\ Everything' \subseteq Everything \cup {Op("add", a, m, id, -1, 0)}
<1>1. PICK o, s : o = Op("add", a, m, id, -1, 0) /\ s = appendOp(ops[a], o)
    OBVIOUS
<1> DEFINE posts == Bootstrap(s, m) \cup Posts(a, s, o)
<1>2. /\ a # founder /\ Holds(ops[a], a, id) /\ Issue(a, o, posts) /\ seqNext' = seqNext
    BY <1>1 DEF AdminInvite
<1>3. m \in Agents
    BY RoomsAssumption
<1>4. o \in Ops /\ o.by = a /\ o.type = "add"
    BY <1>1, <1>3 DEF Op, Ops
<1>5. ops[a] \in Seq(Ops) /\ seqNext \in Int /\ issued \in Nat
    BY DEF RoomInv, RoomTypes
<1>6. Unique(Range(ops[a]))
    <2>1. Signed(Range(ops[a]), issued)
        BY StockOfAll, SignedKept DEF RoomInv
    <2> QED
        BY <1>5, <2>1, SignedAreUnique
<1>7. PICK g \in Range(ops[a]) : g.type = "grant"
    BY <1>2, <1>5, <1>6, GrantAtHand
<1>8. g # o /\ ops[a] # <<>>
    <2>1. DOMAIN ops[a] # {}
        BY <1>7 DEF Range
    <2> QED
        BY <1>4, <1>7, <2>1
<1>9. s \in Seq(Ops) /\ Len(s) > 1 /\ Range(s) = Range(ops[a]) \cup {o}
    BY <1>1, <1>4, <1>5, <1>7, <1>8, OpAppended
<1>10. o \in Range(s)
    BY <1>9
<1>11. FitPosts(s, o, a, m, Posts(a, s, o), posts)
    BY <1>3, <1>9, <1>10, PostsFit
<1> HIDE DEF posts
<1>12. /\ posts \subseteq [to : Agents, ops : Seq(Ops)] /\ Sorted(posts)
       /\ \A p \in posts : Range(p.ops) \subseteq Range(ops[a]) \cup {o}
    BY <1>9, <1>11 DEF FitPosts
<1>13. o.by # founder /\ seqNext' \in Int
    BY <1>2, <1>4, <1>5
<1> QED
    BY <1>1, <1>2, <1>4, <1>12, <1>13, IssueStep

LEMMA PostStep ==
  ASSUME RoomInv, NEW a \in Agents, Post(a) \/ PostFails(a)
  PROVE  RoomInv' /\ Everything' \subseteq Everything
<1>1. PICK p : p = NextPost(a)
    OBVIOUS
<1>2. outbox[a] # {}
    BY DEF Post, PostFails
<1>3. p \in outbox[a]
    BY <1>1, <1>2, NextPostExists DEF RoomInv
<1>4. p.ops \in Seq(Ops)
    BY <1>3 DEF RoomInv, RoomTypes
<1>5. /\ outbox' = [outbox EXCEPT ![a] = @ \ {p}] /\ UNCHANGED <<ops, seqNext, held, issued>>
      /\ \E sent \in Seq(Ops) : /\ Range(sent) \subseteq Range(p.ops)
                                /\ inbox' = [inbox EXCEPT ![p.to] = @ \o sent]
    <2>1. CASE Post(a)
        BY <1>1, <1>4, <2>1 DEF Post
    <2>2. CASE PostFails(a)
        <3>1. PICK k \in 0..Len(p.ops) - 1 : inbox' = [inbox EXCEPT ![p.to] = @ \o SubSeq(p.ops, 1, k)]
            BY <1>1, <2>2 DEF PostFails
        <3>2. k \in 0 .. Len(p.ops)
            BY <1>4
        <3>3. SubSeq(p.ops, 1, k) \in Seq(Ops) /\ Range(SubSeq(p.ops, 1, k)) \subseteq Range(p.ops)
            BY <1>4, <3>2, RangesOfMail
        <3> QED
            BY <1>1, <2>2, <3>1, <3>3 DEF PostFails
    <2> QED
        BY <2>1, <2>2
<1>6. PICK sent \in Seq(Ops) : /\ Range(sent) \subseteq Range(p.ops)
                               /\ inbox' = [inbox EXCEPT ![p.to] = @ \o sent]
    BY <1>5
<1> QED
    BY <1>1, <1>2, <1>5, <1>6, PostOnlyStep

LEMMA TakeInStep ==
  ASSUME RoomInv, NEW a \in Agents, NEW unsound, TakeIn(a, unsound)
  PROVE  RoomInv' /\ Everything' \subseteq Everything
<1>1. PICK s : s = ingestPage(ops[a], inbox[a], unsound)
    OBVIOUS
<1>2. /\ ops' = [ops EXCEPT ![a] = s] /\ inbox' = [inbox EXCEPT ![a] = <<>>]
      /\ UNCHANGED <<seqNext, held, outbox, issued>>
    BY <1>1 DEF TakeIn
<1>3. /\ s \in Seq(Ops) /\ Range(ops[a]) \subseteq Range(s)
      /\ Range(s) \subseteq Range(ops[a]) \cup Range(inbox[a])
    BY <1>1, PageTaken DEF RoomInv, RoomTypes
<1>4. ops[a] # <<>> => s # <<>>
    <2>1. \A t \in Seq(Ops) : t # <<>> => Range(t) # {}
        <3> SUFFICES ASSUME NEW t \in Seq(Ops), t # <<>> PROVE t[1] \in Range(t)
            OBVIOUS
        <3>1. 1 \in DOMAIN t
            OBVIOUS
        <3> QED
            BY <3>1 DEF Range
    <2>2. ops[a] # <<>> => Range(ops[a]) # {}
        BY <2>1 DEF RoomInv, RoomTypes
    <2>3. Range(<<>>) = {}
        BY DEF Range
    <2> QED
        BY <1>3, <2>2, <2>3
<1>5. RoomTypes'
    BY <1>2, <1>3 DEF RoomInv, RoomTypes
<1>6. RoomMade'
    BY <1>2, <1>4, RoomsAssumption DEF RoomInv, RoomTypes, RoomMade
<1>7. SortedPosts'
    BY <1>2 DEF RoomInv, SortedPosts
<1>8. ASSUME NEW b \in Agents PROVE Stock(b)' \subseteq Everything
    <2>1. /\ Range(ops[b]) \subseteq Everything /\ Range(held[b].ops) \subseteq Everything
          /\ Range(inbox[b]) \subseteq Everything
          /\ \A q \in outbox[b] : Range(q.ops) \subseteq Everything
        BY StockOfAll
    <2>2. Range(ops[a]) \subseteq Everything /\ Range(inbox[a]) \subseteq Everything
        BY StockOfAll
    <2>3. Range(<<>>) = {}
        BY DEF Range
    <2>4. Range(ops'[b]) \subseteq Everything
        BY <1>2, <1>3, <2>1, <2>2 DEF RoomInv, RoomTypes
    <2>5. Range(inbox'[b]) \subseteq Everything
        BY <1>2, <2>1, <2>3 DEF RoomInv, RoomTypes
    <2> QED
        BY <1>2, <2>1, <2>4, <2>5 DEF Stock
<1> QED
    BY <1>2, <1>5, <1>6, <1>7, <1>8, NoNewOp

LEMMA HoldStep ==
  ASSUME RoomInv, NEW a \in Agents, HoldStore(a) \/ SaveHeld(a)
  PROVE  RoomInv' /\ Everything' \subseteq Everything
<1>1. CASE HoldStore(a)
    <2>1. /\ ops[a] # <<>>
          /\ held' = [held EXCEPT ![a] = [on |-> TRUE, ops |-> ops[a], seqNext |-> seqNext]]
          /\ UNCHANGED <<ops, seqNext, outbox, inbox, issued>>
        BY <1>1 DEF HoldStore
    <2>2. RoomTypes' /\ RoomMade' /\ SortedPosts'
        BY <2>1 DEF RoomInv, RoomTypes, RoomMade, SortedPosts
    <2>3. ASSUME NEW b \in Agents PROVE Stock(b)' \subseteq Everything
        <3>1. /\ Range(ops[b]) \subseteq Everything /\ Range(held[b].ops) \subseteq Everything
              /\ Range(inbox[b]) \subseteq Everything
              /\ \A q \in outbox[b] : Range(q.ops) \subseteq Everything
            BY StockOfAll
        <3>2. held'[b].ops \in {held[b].ops, ops[b]}
            BY <2>1 DEF RoomInv, RoomTypes
        <3> QED
            BY <2>1, <3>1, <3>2 DEF Stock
    <2> QED
        BY <2>1, <2>2, <2>3, NoNewOp
<1>2. CASE SaveHeld(a)
    <2>1. /\ held[a].on /\ ops' = [ops EXCEPT ![a] = held[a].ops]
          /\ seqNext' = IF a = founder THEN held[a].seqNext ELSE seqNext
          /\ held' = [held EXCEPT ![a] = [on |-> FALSE, ops |-> <<>>, seqNext |-> 0]]
          /\ UNCHANGED <<outbox, inbox, issued>>
        BY <1>2 DEF SaveHeld, NotHeld
    <2>2. held[a] \in [on : BOOLEAN, ops : Seq(Ops), seqNext : Int]
        BY DEF RoomInv, RoomTypes
    <2>3. RoomTypes' /\ SortedPosts'
        BY <2>1, <2>2 DEF RoomInv, RoomTypes, SortedPosts
    <2>4. RoomMade'
        BY <2>1, RoomsAssumption DEF RoomInv, RoomTypes, RoomMade
    <2>5. ASSUME NEW b \in Agents PROVE Stock(b)' \subseteq Everything
        <3>1. /\ Range(ops[b]) \subseteq Everything /\ Range(held[b].ops) \subseteq Everything
              /\ Range(inbox[b]) \subseteq Everything
              /\ \A q \in outbox[b] : Range(q.ops) \subseteq Everything
            BY StockOfAll
        <3>2. ops'[b] \in {ops[b], held[b].ops}
            BY <2>1 DEF RoomInv, RoomTypes
        <3>3. held'[b].ops \in {held[b].ops, <<>>}
            BY <2>1 DEF RoomInv, RoomTypes
        <3>4. Range(<<>>) = {}
            BY DEF Range
        <3> QED
            BY <2>1, <3>1, <3>2, <3>3, <3>4 DEF Stock
    <2> QED
        BY <2>1, <2>3, <2>4, <2>5, NoNewOp
<1> QED
    BY <1>1, <1>2

LEMMA RoomInductive == RoomInv /\ [RoomNext]_roomVars => RoomInv'
<1> SUFFICES ASSUME RoomInv, [RoomNext]_roomVars PROVE RoomInv'
    OBVIOUS
<1>1. ASSUME \/ \E m \in Others : Invite(m) \/ roomKickOp(m) \/ roomGrantAdminOp(m)
             \/ \E id \in 0 .. MaxOps : roomRevokeAdminOp(id)
      PROVE  RoomInv'
    BY <1>1, FounderCommands, CommandDoes, CommandStep
<1>3. ASSUME NEW a \in Agents, NEW m \in Others, NEW id \in 0 .. MaxOps, AdminInvite(a, m, id)
      PROVE  RoomInv'
    BY <1>3, AdminInviteStep
<1>4. ASSUME NEW a \in Agents, PostFails(a) \/ receiveUnsound(a) \/ HoldStore(a) PROVE RoomInv'
    BY <1>4, PostStep, TakeInStep, HoldStep DEF receiveUnsound
<1>5. ASSUME NEW a \in Agents, Advance(a) PROVE RoomInv'
    BY <1>5, PostStep, TakeInStep, HoldStep DEF Advance, receive
<1>6. CASE UNCHANGED roomVars
    <2>1. RoomTypes' /\ RoomMade' /\ SortedPosts' /\ issued' = issued
        BY <1>6 DEF roomVars, RoomInv, RoomTypes, RoomMade, SortedPosts
    <2>2. \A a \in Agents : Stock(a)' = Stock(a)
        BY <1>6 DEF roomVars, Stock
    <2> QED
        BY <2>1, <2>2, NoNewOp DEF Everything
<1> QED
    BY <1>1, <1>3, <1>4, <1>5, <1>6 DEF RoomNext

\* The same ops give the same roster, in whatever order they came and whoever holds them,
\* also when a stale store made the founder use a number twice (rooms.mjs deriveState).
THEOREM RostersConverge == RoomSpec => []Convergence
<1>1. RoomInv => Convergence
    <2> SUFFICES ASSUME RoomInv, NEW a \in Agents, NEW b \in Agents, Range(ops[a]) = Range(ops[b])
                 PROVE  deriveState(ops[a]) = deriveState(ops[b])
        BY DEF Convergence
    <2>1. ops[a] \in Seq(Ops) /\ ops[b] \in Seq(Ops) /\ issued \in Nat
        BY DEF RoomInv, RoomTypes
    <2>2. Signed(Range(ops[a]), issued)
        BY StockOfAll, SignedKept DEF RoomInv
    <2>3. Unique(Range(ops[a]))
        BY <2>1, <2>2, SignedAreUnique
    <2> QED
        BY <2>1, <2>3, RosterOfOps
<1> QED
    BY <1>1, RoomStarts, RoomInductive, PTL DEF RoomSpec

\* Only a stale store makes a room shrink.
LEMMA RoomGrows ==
  ASSUME RoomInv, [RoomNext]_roomVars, NEW a \in Agents, ~held[a].on
  PROVE  Range(ops[a]) \subseteq Range(ops'[a])
<1> SUFFICES ASSUME ops'[a] # ops[a] PROVE Range(ops[a]) \subseteq Range(ops'[a])
    OBVIOUS
<1>1. ASSUME NEW b, NEW o \in Ops, NEW posts, Issue(b, o, posts)
      PROVE  Range(ops[a]) \subseteq Range(ops'[a])
    <2>1. ops' = [ops EXCEPT ![b] = appendOp(ops[b], o)]
        BY <1>1 DEF Issue
    <2>2. a = b /\ ops'[a] = appendOp(ops[a], o)
        BY <2>1 DEF RoomInv, RoomTypes
    <2> QED
        BY <2>2, OpAppended DEF RoomInv, RoomTypes
<1>2. ASSUME NEW type \in {"add", "remove", "grant", "revoke"}, NEW m \in Agents,
             NEW mandate \in Int, Command(type, m, mandate)
      PROVE  Range(ops[a]) \subseteq Range(ops'[a])
    <2>1. PICK sig \in Sig : \E posts : Issue(founder, Op(type, founder, m, mandate, seqNext, sig), posts)
        BY <1>2 DEF Command
    <2>2. sig \in Int /\ seqNext \in Int /\ founder \in Agents
        BY RoomsAssumption DEF Sig, RoomInv, RoomTypes
    <2>3. Op(type, founder, m, mandate, seqNext, sig) \in Ops
        BY <2>2 DEF Op, Ops
    <2> QED
        BY <2>1, <2>3, <1>1
<1>3. ASSUME NEW m \in Others, Invite(m) \/ roomKickOp(m) \/ roomGrantAdminOp(m)
      PROVE  Range(ops[a]) \subseteq Range(ops'[a])
    <2>1. issued + 1 \in Int /\ -1 \in Int /\ m \in Agents
        BY RoomsAssumption DEF RoomInv, RoomTypes
    <2> QED
        BY <1>3, <2>1, <1>2 DEF Invite, roomKickOp, roomGrantAdminOp
<1>4. ASSUME NEW id \in 0 .. MaxOps, roomRevokeAdminOp(id)
      PROVE  Range(ops[a]) \subseteq Range(ops'[a])
    <2>1. id \in Int /\ founder \in Agents
        BY RoomsAssumption
    <2> QED
        BY <1>4, <2>1, <1>2 DEF roomRevokeAdminOp
<1>5. ASSUME NEW b \in Agents, NEW m \in Others, NEW id \in 0 .. MaxOps, AdminInvite(b, m, id)
      PROVE  Range(ops[a]) \subseteq Range(ops'[a])
    <2>1. m \in Agents /\ id \in Int
        BY RoomsAssumption
    <2>2. Op("add", b, m, id, -1, 0) \in Ops
        BY <2>1 DEF Op, Ops
    <2> QED
        BY <1>5, <2>2, <1>1 DEF AdminInvite
<1>6. ASSUME NEW b \in Agents, NEW unsound, TakeIn(b, unsound)
      PROVE  Range(ops[a]) \subseteq Range(ops'[a])
    <2>1. ops' = [ops EXCEPT ![b] = ingestPage(ops[b], inbox[b], unsound)]
        BY <1>6 DEF TakeIn
    <2>2. a = b /\ ops'[a] = ingestPage(ops[a], inbox[a], unsound)
        BY <2>1 DEF RoomInv, RoomTypes
    <2> QED
        BY <2>2, PageTaken DEF RoomInv, RoomTypes
<1>7. ASSUME NEW b \in Agents, PostFails(b) \/ HoldStore(b) \/ Post(b) PROVE FALSE
    BY <1>7 DEF PostFails, HoldStore, Post
<1>8. ASSUME NEW b \in Agents, SaveHeld(b) PROVE FALSE
    BY <1>8 DEF SaveHeld, RoomInv, RoomTypes
<1>9. ASSUME UNCHANGED roomVars PROVE FALSE
    BY <1>9 DEF roomVars
<1>10. ASSUME NEW b \in Agents, PostFails(b) \/ receiveUnsound(b) \/ HoldStore(b) \/ Advance(b)
       PROVE  Range(ops[a]) \subseteq Range(ops'[a])
    BY <1>10, <1>6, <1>7, <1>8 DEF receiveUnsound, receive, Advance
<1> QED
    BY <1>3, <1>4, <1>5, <1>9, <1>10 DEF RoomNext

\* The last word of the founder about a member
LEMMA LatestWord ==
  ASSUME NEW s \in Seq(Ops), Unique(Range(s)), NEW m
  PROVE  LET o == LatestAbout(s, m)
             said == {p \in Range(s) : p.by = founder /\ p.type \in {"add", "remove"} /\ p.about = m}
         IN /\ said = {} => o = NoOp
            /\ said # {} => o \in said /\ \A p \in said : p = o \/ Before(p, o)
<1> DEFINE said == {p \in Range(s) : p.by = founder /\ p.type \in {"add", "remove"} /\ p.about = m}
           at == {i \in DOMAIN s : s[i].by = founder /\ s[i].type \in {"add", "remove"} /\ s[i].about = m}
<1>1. LatestAbout(s, m) = Latest(s, at)
    BY DEF LatestAbout
<1>2. OpsAt(s, at) = said
    BY DEF OpsAt, Range
<1>3. at \subseteq DOMAIN s /\ \A i \in at : s[i].by = founder
    OBVIOUS
<1> HIDE DEF at, said
<1>4. CASE said = {}
    <2>1. at = {}
        BY <1>2, <1>4 DEF OpsAt
    <2> QED
        BY <1>1, <1>4, <2>1 DEF Latest, said
<1>5. CASE said # {}
    <2>1. at # {}
        BY <1>2, <1>5 DEF OpsAt
    <2>2. /\ Latest(s, at) \in OpsAt(s, at)
          /\ \A j \in at : s[j] = Latest(s, at) \/ Before(s[j], Latest(s, at))
        BY <1>3, <2>1, LatestIsLast
    <2>3. \A p \in OpsAt(s, at) : p = Latest(s, at) \/ Before(p, Latest(s, at))
        BY <2>2 DEF OpsAt
    <2> QED
        BY <1>1, <1>2, <1>5, <2>2, <2>3 DEF said
<1> QED
    BY <1>4, <1>5

\* A member an agent knows the founder has removed comes back only with a later word of the
\* founder: no add that was sent before and arrives late, and no admin, brings it back
\* (rooms.mjs deriveState).
THEOREM KicksHold == RoomSpec => KickHolds
<1> DEFINE KickStep ==
      \A a \in {b \in Agents : ops'[b] # ops[b]}, m \in Agents :
        LET kick == LatestAbout(ops[a], m)
        IN kick.type = "remove" /\ m \in deriveState(ops'[a]).members /\ ~held[a].on
             => \E o \in Range(ops'[a]) \ Range(ops[a]) :
                  o.type = "add" /\ o.about = m /\ o.by = founder /\ Before(kick, o)
<1>1. RoomInv /\ RoomInv' /\ [RoomNext]_roomVars => KickStep
    <2> SUFFICES ASSUME RoomInv, RoomInv', [RoomNext]_roomVars, NEW a \in Agents, NEW m \in Agents,
                        NEW kick, kick = LatestAbout(ops[a], m), kick.type = "remove",
                        m \in deriveState(ops'[a]).members, ~held[a].on
                 PROVE  \E o \in Range(ops'[a]) \ Range(ops[a]) :
                          o.type = "add" /\ o.about = m /\ o.by = founder /\ Before(kick, o)
        OBVIOUS
    <2>1. PICK s, t : s = ops[a] /\ t = ops'[a]
        OBVIOUS
    <2>2. s \in Seq(Ops) /\ t \in Seq(Ops) /\ Range(s) \subseteq Range(t)
        BY <2>1, RoomGrows DEF RoomInv, RoomTypes
    <2>3. Unique(Range(t)) /\ Unique(Range(s))
        <3>1. Range(t) \subseteq Everything'
            BY <2>1 DEF Everything, Stock
        <3>2. Signed(Range(t), issued') /\ issued' \in Nat
            BY <3>1, SignedKept DEF RoomInv, RoomTypes
        <3>3. Unique(Range(t))
            BY <3>2, SignedAreUnique
        <3> QED
            BY <2>2, <3>3 DEF Unique
    <2> DEFINE said(r) == {p \in Range(r) : p.by = founder /\ p.type \in {"add", "remove"} /\ p.about = m}
    <2>4. NoOp.type = "none"
        BY DEF NoOp, Op
    <2>5. kick \in said(s) /\ \A p \in said(s) : p = kick \/ Before(p, kick)
        BY <2>1, <2>2, <2>3, <2>4, LatestWord
    <2>6. said(s) \subseteq said(t) /\ said(t) # {}
        BY <2>2, <2>5
    <2>7. PICK o : o = LatestAbout(t, m)
        OBVIOUS
    <2>8. o \in said(t) /\ (kick = o \/ Before(kick, o))
        BY <2>2, <2>3, <2>5, <2>6, <2>7, LatestWord
    <2>9. o.type = "add"
        <3>1. o # NoOp
            BY <2>8, <2>4
        <3>2. m \in Members(t)
            BY <2>1 DEF deriveState
        <3> QED
            BY <2>7, <3>1, <3>2 DEF Members, AdminAdded
    <2>10. Before(kick, o)
        BY <2>8, <2>9
    <2>11. o \notin Range(s)
        <3>1. SUFFICES ASSUME o \in Range(s) PROVE FALSE
            OBVIOUS
        <3>2. o \in said(s) /\ kick \in Ops /\ o \in Ops
            BY <2>2, <2>5, <2>8, <3>1 DEF Range
        <3>3. o = kick \/ Before(o, kick)
            BY <2>5, <3>2
        <3> QED
            BY <2>9, <2>10, <3>2, <3>3, BeforeOrders
    <2> QED
        BY <2>1, <2>8, <2>9, <2>10, <2>11
<1> HIDE DEF KickStep
<1>2. RoomInv /\ RoomInv' /\ [RoomNext]_roomVars => [KickStep]_roomVars
    BY <1>1
<1>3. [][KickStep]_roomVars => KickHolds
    BY DEF KickHolds, KickStep
<1> QED
    BY <1>2, <1>3, RoomStarts, RoomInductive, PTL DEF RoomSpec

-----------------------------------------------------------------------------
(* Who knows what the founder knows.  The roster alone is no invariant: whom *)
(* an admin has added may enter it late, and a stale store brings members    *)
(* back.  So it is shown of everyone no window has left with a part of the   *)
(* ops, for the founder's room and for the copy of it that may come back.    *)

\* The ops an agent has or will be given
Coming(own, box, sent, m) ==
  Range(own) \cup Range(box)
  \cup UNION {Range(p.ops) : p \in {q \in UNION {sent[b] : b \in Agents} : q.to = m}}
Arriving(m) == Coming(ops[m], inbox[m], outbox, m)
FromFounder(S) == {o \in S : o.by = founder}

Said(s, m) == {o \in FromFounder(Range(s)) : o.type \in {"add", "remove"} /\ o.about = m}
AddedByAdmin(m) == \E o \in Everything : o.type = "add" /\ o.by # founder /\ o.about = m
Undone(m) == \E o \in Range(ops[founder]) \ Range(held[founder].ops) : o.type = "add" /\ o.about = m
Whole == Agents \ ({founder} \cup partial)

\* Of whom an admin has added the founder has heard, and whom it has added it has informed.
Told(s, m) ==
  LatestAbout(s, m).type = "add" => FromFounder(Range(s)) \subseteq Arriving(m)

RoomTold == \A m \in Whole :
  (AddedByAdmin(m) => Said(ops[founder], m) # {}) /\ Told(ops[founder], m)

CopyTold == held[founder].on =>
  /\ Range(held[founder].ops) \subseteq Range(ops[founder])
  /\ \A m \in Whole : /\ AddedByAdmin(m) => Said(held[founder].ops, m) # {} \/ Undone(m)
                      /\ Told(held[founder].ops, m)

\* A stale store of a member lacks none of the founder's ops.
CopiesKeep == \A m \in Agents \ {founder} :
  held[m].on => FromFounder(Range(ops[m])) \subseteq Range(held[m].ops)

\* The founder is sent nothing of its own.
NoEcho ==
  /\ FromFounder(Range(inbox[founder])) = {}
  /\ \A b \in Agents : \A p \in outbox[b] : p.to = founder => FromFounder(Range(p.ops)) = {}

ToldInv == RoomTold /\ CopyTold /\ CopiesKeep /\ NoEcho

\* What the founder said of a member, but not in which order or among what, decides its last word.
LEMMA SameWord ==
  ASSUME NEW s \in Seq(Ops), NEW t \in Seq(Ops), Unique(Range(s)), Unique(Range(t)), NEW m,
         Said(s, m) \subseteq Said(t, m), LatestAbout(t, m) = NoOp \/ LatestAbout(t, m) \in Range(s)
  PROVE  LatestAbout(s, m) = LatestAbout(t, m)
<1> DEFINE said(r) == {p \in Range(r) : p.by = founder /\ p.type \in {"add", "remove"} /\ p.about = m}
<1>1. \A r : Said(r, m) = said(r)
    BY DEF Said, FromFounder
<1>2. PICK x, y : x = LatestAbout(s, m) /\ y = LatestAbout(t, m)
    OBVIOUS
<1>3. /\ said(s) = {} => x = NoOp
      /\ said(s) # {} => x \in said(s) /\ \A p \in said(s) : p = x \/ Before(p, x)
    BY <1>2, LatestWord
<1>4. /\ said(t) = {} => y = NoOp
      /\ said(t) # {} => y \in said(t) /\ \A p \in said(t) : p = y \/ Before(p, y)
    BY <1>2, LatestWord
<1>5. NoOp.type = "none"
    BY DEF NoOp, Op
<1>6. \A p \in said(s) \cup said(t) : p \in Ops /\ p # NoOp
    BY <1>5 DEF Range
<1>7. said(s) \subseteq said(t)
    BY <1>1
<1>8. y \in said(t) /\ y # NoOp => y \in said(s)
    BY <1>2
<1> HIDE DEF said
<1>9. CASE said(t) = {}
    BY <1>2, <1>3, <1>4, <1>7, <1>9
<1>10. CASE said(t) # {}
    <2>1. y \in said(s) /\ y \in said(t)
        BY <1>4, <1>6, <1>8, <1>10
    <2>2. x \in said(s) /\ x \in said(t)
        BY <1>3, <1>7, <2>1
    <2>3. (y = x \/ Before(y, x)) /\ (x = y \/ Before(x, y))
        BY <1>3, <1>4, <2>1, <2>2
    <2> QED
        BY <1>2, <1>6, <2>1, <2>2, <2>3, BeforeOrders
<1> QED
    BY <1>9, <1>10

LEMMA RoomsAreUnique ==
  ASSUME RoomInv, NEW a \in Agents
  PROVE  /\ ops[a] \in Seq(Ops) /\ Unique(Range(ops[a]))
         /\ held[a].ops \in Seq(Ops) /\ Unique(Range(held[a].ops))
<1>1. ops[a] \in Seq(Ops) /\ held[a].ops \in Seq(Ops) /\ issued \in Nat
    BY DEF RoomInv, RoomTypes
<1>2. Signed(Range(ops[a]), issued) /\ Signed(Range(held[a].ops), issued)
    BY StockOfAll, SignedKept DEF RoomInv
<1> QED
    BY <1>1, <1>2, SignedAreUnique

\* The mail on its way to an agent
LEMMA ComingIs ==
  ASSUME NEW own, NEW box, NEW sent, NEW m, NEW x
  PROVE  x \in Coming(own, box, sent, m) <=>
           \/ x \in Range(own) \/ x \in Range(box)
           \/ \E b \in Agents : \E p \in sent[b] : p.to = m /\ x \in Range(p.ops)
<1> DEFINE posts == UNION {sent[b] : b \in Agents}
           mine == {q \in posts : q.to = m}
<1>1. Coming(own, box, sent, m) = Range(own) \cup Range(box) \cup UNION {Range(p.ops) : p \in mine}
    BY Zenon DEF Coming
<1>2. \A p : p \in mine <=> p.to = m /\ \E b \in Agents : p \in sent[b]
    OBVIOUS
<1> HIDE DEF mine
<1>3. x \in UNION {Range(p.ops) : p \in mine} <=> \E p \in mine : x \in Range(p.ops)
    OBVIOUS
<1> QED
    BY <1>1, <1>2, <1>3

\* What an agent was to get of the founder's ops it still is, when no mail to it is lost.
LEMMA NoMailLost ==
  ASSUME NEW own, NEW box, NEW sent, NEW own2, NEW box2, NEW sent2, NEW m,
         FromFounder(Range(own)) \subseteq Range(own2),
         Range(box) \subseteq Range(box2) \cup Range(own2),
         \A b \in Agents : \A p \in sent[b] :
           p.to = m => p \in sent2[b] \/ Range(p.ops) \subseteq Range(box2)
  PROVE  FromFounder(Coming(own, box, sent, m)) \subseteq Coming(own2, box2, sent2, m)
<1> SUFFICES ASSUME NEW x, x \in Coming(own, box, sent, m), x.by = founder
             PROVE  x \in Coming(own2, box2, sent2, m)
    BY DEF FromFounder
<1>1. CASE x \in Range(own) \cup Range(box)
    BY <1>1, ComingIs DEF FromFounder
<1>2. ASSUME NEW b \in Agents, NEW p \in sent[b], p.to = m, x \in Range(p.ops)
      PROVE  x \in Coming(own2, box2, sent2, m)
    BY <1>2, ComingIs
<1> QED
    BY <1>1, <1>2, ComingIs

\* A step that leaves the founder's room and its copy as they are, and loses nobody any mail
LEMMA FounderIdle ==
  ASSUME ToldInv, ops'[founder] = ops[founder], held'[founder] = held[founder],
         partial \subseteq partial', CopiesKeep', NoEcho',
         \A m \in Agents \ ({founder} \cup partial') :
           /\ FromFounder(Arriving(m)) \subseteq Arriving(m)'
           /\ AddedByAdmin(m)' => AddedByAdmin(m)
  PROVE  ToldInv'
<1>1. Whole' \subseteq Whole
    BY DEF Whole
<1>2. ASSUME NEW s, NEW m \in Whole', Told(s, m)
      PROVE  LatestAbout(s, m).type = "add" => FromFounder(Range(s)) \subseteq Arriving(m)'
    <2>1. FromFounder(Arriving(m)) \subseteq Arriving(m)'
        BY DEF Whole
    <2> QED
        BY <1>2, <2>1 DEF Told, FromFounder
<1>3. \A m \in Whole' : AddedByAdmin(m)' => AddedByAdmin(m)
    BY DEF Whole
<1>4. PICK s, h : s = ops[founder] /\ h = held[founder]
    OBVIOUS
<1>5. ASSUME NEW m \in Whole'
      PROVE  /\ AddedByAdmin(m)' => Said(s, m) # {}
             /\ LatestAbout(s, m).type = "add" => FromFounder(Range(s)) \subseteq Arriving(m)'
    BY <1>1, <1>2, <1>3, <1>4 DEF ToldInv, RoomTold
<1>6. RoomTold'
    BY <1>4, <1>5 DEF RoomTold, Told
<1>7. ASSUME h.on, NEW m \in Whole'
      PROVE  /\ AddedByAdmin(m)' => \/ Said(h.ops, m) # {}
                                    \/ \E o \in Range(s) \ Range(h.ops) : o.type = "add" /\ o.about = m
             /\ LatestAbout(h.ops, m).type = "add" => FromFounder(Range(h.ops)) \subseteq Arriving(m)'
    <2>1. /\ AddedByAdmin(m) => \/ Said(h.ops, m) # {}
                                \/ \E o \in Range(s) \ Range(h.ops) : o.type = "add" /\ o.about = m
          /\ Told(h.ops, m)
        BY <1>1, <1>4, <1>7 DEF ToldInv, CopyTold, Undone
    <2> QED
        BY <2>1, <1>2, <1>3
<1>8. h.on => Range(h.ops) \subseteq Range(s)
    BY <1>4 DEF ToldInv, CopyTold
<1>9. CopyTold'
    BY <1>4, <1>7, <1>8 DEF CopyTold, Told, Undone
<1> QED
    BY <1>6, <1>9 DEF ToldInv

LEMMA ToldFromTheStart == RoomInit => ToldInv
<1> SUFFICES ASSUME RoomInit PROVE ToldInv
    OBVIOUS
<1>0. founder \in Agents /\ admin \in Agents
    BY RoomsAssumption
<1>1. PICK f : f = Founding
    OBVIOUS
<1>2. /\ ops = [a \in Agents |-> IF a \in {founder, admin} THEN f ELSE <<>>]
      /\ inbox = [a \in Agents |-> <<>>] /\ outbox = [a \in Agents |-> {}]
      /\ \A a \in Agents : held[a].on = FALSE /\ held[a].ops = <<>>
    BY <1>1 DEF RoomInit, NotHeld
<1>3. Range(<<>>) = {}
    BY DEF Range
<1>4. Range(f) = {Founding[1], Founding[2], Founding[3], Founding[4]}
    <2>1. DOMAIN Founding = {1, 2, 3, 4}
        BY DEF Founding
    <2> QED
        BY <1>1, <2>1 DEF Range
<1>5. \A o \in Range(f) : o.by = founder /\ o.about \in {founder, admin}
    BY <1>4 DEF Founding, Create, Op
<1>6. \A a \in Agents : Stock(a) \subseteq Range(f)
    BY <1>2, <1>3 DEF Stock
<1>7. \A m : ~AddedByAdmin(m)
    BY <1>5, <1>6 DEF AddedByAdmin, Everything
<1>8. ASSUME NEW m \in Agents \ {founder} PROVE Told(f, m)
    <2>1. CASE m = admin
        BY <1>2, <2>1, ComingIs DEF Told, FromFounder, Arriving
    <2>2. CASE m # admin
        <3>1. f \in Seq(Ops) /\ Unique(Range(f))
            BY <1>1, FoundingOps
        <3>2. {p \in Range(f) : p.by = founder /\ p.type \in {"add", "remove"} /\ p.about = m} = {}
            BY <1>5, <1>8, <2>2
        <3>3. LatestAbout(f, m) = NoOp
            BY <3>1, <3>2, LatestWord
        <3> QED
            BY <3>3 DEF Told, NoOp, Op
    <2> QED
        BY <2>1, <2>2
<1>9. RoomTold
    BY <1>0, <1>2, <1>7, <1>8 DEF RoomTold, Whole
<1>10. CopyTold /\ CopiesKeep
    BY <1>0, <1>2 DEF CopyTold, CopiesKeep
<1>11. NoEcho
    BY <1>0, <1>2, <1>3 DEF NoEcho, FromFounder
<1> QED
    BY <1>9, <1>10, <1>11 DEF ToldInv


LEMMA RangeOfBoth ==
  ASSUME NEW s \in Seq(Ops), NEW t \in Seq(Ops)
  PROVE  Range(s \o t) = Range(s) \cup Range(t)
<1>1. PICK u : u = s \o t
    OBVIOUS
<1>2. u \in Seq(Ops) /\ Len(u) = Len(s) + Len(t) /\ Len(s) \in Nat /\ Len(t) \in Nat
    BY <1>1
<1>3. \A i \in 1 .. Len(u) : u[i] = IF i <= Len(s) THEN s[i] ELSE t[i - Len(s)]
    BY <1>1
<1>4. /\ \A i \in 1 .. Len(s) : i \in 1 .. Len(u) /\ u[i] = s[i]
      /\ \A i \in 1 .. Len(t) : i + Len(s) \in 1 .. Len(u) /\ u[i + Len(s)] = t[i]
    <2>1. \A i \in 1 .. Len(s) : i \in 1 .. Len(u) /\ u[i] = s[i]
        BY <1>2, <1>3
    <2>2. ASSUME NEW i \in 1 .. Len(t) PROVE i + Len(s) \in 1 .. Len(u) /\ u[i + Len(s)] = t[i]
        <3>1. PICK j : j = i + Len(s)
            OBVIOUS
        <3>2. j \in 1 .. Len(u) /\ ~(j <= Len(s)) /\ j - Len(s) = i
            BY <1>2, <3>1
        <3>3. u[j] = t[i]
            BY <1>3, <3>2
        <3> QED
            BY <3>1, <3>2, <3>3
    <2> QED
        BY <2>1, <2>2
<1>5. DOMAIN u = 1 .. Len(u) /\ DOMAIN s = 1 .. Len(s) /\ DOMAIN t = 1 .. Len(t)
    BY <1>2
<1>6. Range(s) \cup Range(t) \subseteq Range(u)
    BY <1>4, <1>5 DEF Range
<1> QED
    BY <1>1, <1>6, RangesOfMail

-----------------------------------------------------------------------------
(* The steps keep it. *)

LEMMA AdminInviteTold ==
  ASSUME RoomInv, ToldInv, NEW a \in Agents, NEW m \in Others, NEW id \in Int, AdminInvite(a, m, id)
  PROVE  ToldInv'
<1>1. PICK o, s : /\ o = Op("add", a, m, id, -1, 0)
                  /\ s = appendOp(ops[a], o)
                  /\ Issue(a, o, Bootstrap(s, m) \cup Posts(a, s, o))
    BY DEF AdminInvite
<1>2. /\ a # founder /\ m # founder /\ m \in Agents /\ founder \in Agents
      /\ o.by = a /\ o.about = m /\ o \in Ops /\ partial' = partial \cup {m}
    BY <1>1, RoomsAssumption DEF AdminInvite, Op, Ops
<1>3. /\ outbox[a] = {} /\ ops' = [ops EXCEPT ![a] = s]
      /\ outbox' = [outbox EXCEPT ![a] = Bootstrap(s, m) \cup Posts(a, s, o)]
      /\ UNCHANGED <<held, inbox>>
    BY <1>1 DEF Issue
<1>4. Range(s) = Range(ops[a]) \cup {o}
    BY <1>1, <1>2, OpAppended DEF RoomInv, RoomTypes
<1>5. /\ ops'[founder] = ops[founder] /\ held'[founder] = held[founder]
      /\ \A n \in Agents : FromFounder(Range(ops[n])) = FromFounder(Range(ops'[n]))
    BY <1>2, <1>3, <1>4 DEF RoomInv, RoomTypes, FromFounder
<1>6. CopiesKeep'
    BY <1>3, <1>5 DEF ToldInv, CopiesKeep
<1>7. NoEcho'
    <2>1. Range(<<o>>) = {o}
        BY DEF Range
    <2>2. \A p \in Bootstrap(s, m) \cup Posts(a, s, o) : p.to = founder => p.ops = <<o>>
        BY <1>2 DEF Bootstrap, Posts
    <2>3. \A p \in Bootstrap(s, m) \cup Posts(a, s, o) : p.to = founder => FromFounder(Range(p.ops)) = {}
        BY <1>2, <2>1, <2>2 DEF FromFounder
    <2> QED
        BY <1>3, <2>3 DEF ToldInv, NoEcho, RoomInv, RoomTypes
<1>8. ASSUME NEW n \in Agents \ ({founder} \cup partial')
      PROVE  /\ FromFounder(Arriving(n)) \subseteq Arriving(n)'
             /\ AddedByAdmin(n)' => AddedByAdmin(n)
    <2>1. FromFounder(Range(ops[n])) \subseteq Range(ops'[n])
        BY <1>5 DEF FromFounder
    <2>2. \A b \in Agents : \A p \in outbox[b] : p \in outbox'[b]
        BY <1>3 DEF RoomInv, RoomTypes
    <2>3. FromFounder(Arriving(n)) \subseteq Arriving(n)'
        BY <1>3, <2>1, <2>2, NoMailLost DEF Arriving
    <2>4. Everything' \subseteq Everything \cup {o}
        BY <1>1, AdminInviteStep
    <2> QED
        BY <1>2, <2>3, <2>4 DEF AddedByAdmin
<1> QED
    BY <1>2, <1>5, <1>6, <1>7, <1>8, FounderIdle

LEMMA PostTold ==
  ASSUME RoomInv, ToldInv, NEW a \in Agents, Post(a) \/ PostFails(a)
  PROVE  ToldInv'
<1>1. PICK p : p = NextPost(a)
    OBVIOUS
<1>2. p \in outbox[a]
    BY <1>1, NextPostExists DEF RoomInv, Post, PostFails
<1>3. p.to \in Agents /\ p.ops \in Seq(Ops) /\ inbox[p.to] \in Seq(Ops) /\ founder \in Agents
    <2>1. p.to \in Agents /\ p.ops \in Seq(Ops) /\ inbox[p.to] \in Seq(Ops)
        BY <1>2 DEF RoomInv, RoomTypes
    <2> QED
        BY <2>1, RoomsAssumption
<1>4. PICK sent \in Seq(Ops) :
        /\ Range(sent) \subseteq Range(p.ops)
        /\ inbox' = [inbox EXCEPT ![p.to] = @ \o sent]
        /\ outbox' = [outbox EXCEPT ![a] = @ \ {p}]
        /\ partial \subseteq partial'
        /\ p.to \notin partial' => sent = p.ops
        /\ UNCHANGED <<ops, held>>
    <2>1. CASE Post(a)
        BY <1>1, <1>3, <2>1 DEF Post
    <2>2. CASE PostFails(a)
        <3>1. PICK k \in 0..Len(p.ops) - 1 : inbox' = [inbox EXCEPT ![p.to] = @ \o SubSeq(p.ops, 1, k)]
            BY <1>1, <2>2 DEF PostFails
        <3>2. k \in 0 .. Len(p.ops)
            BY <1>3, <3>1
        <3>3. SubSeq(p.ops, 1, k) \in Seq(Ops) /\ Range(SubSeq(p.ops, 1, k)) \subseteq Range(p.ops)
            BY <1>3, <3>2, RangesOfMail
        <3> QED
            BY <1>1, <2>2, <3>1, <3>3 DEF PostFails
    <2> QED
        BY <2>1, <2>2
<1>5. PICK box : box = inbox[p.to] \o sent
    OBVIOUS
<1>6. Range(box) = Range(inbox[p.to]) \cup Range(sent)
    BY <1>3, <1>5, RangeOfBoth
<1>7. inbox' = [inbox EXCEPT ![p.to] = box]
    BY <1>4, <1>5
<1>8. CopiesKeep'
    BY <1>4 DEF ToldInv, CopiesKeep
<1>9. NoEcho'
    <2>1. p.to = founder => FromFounder(Range(box)) = {}
        BY <1>2, <1>4, <1>6 DEF ToldInv, NoEcho, FromFounder
    <2> QED
        BY <1>3, <1>4, <1>7, <2>1 DEF ToldInv, NoEcho, RoomInv, RoomTypes
<1>10. ASSUME NEW n \in Agents \ ({founder} \cup partial')
       PROVE  /\ FromFounder(Arriving(n)) \subseteq Arriving(n)'
              /\ AddedByAdmin(n)' => AddedByAdmin(n)
    <2>1. FromFounder(Range(ops[n])) \subseteq Range(ops'[n])
        BY <1>4 DEF FromFounder
    <2>2. Range(inbox[n]) \subseteq Range(inbox'[n])
        BY <1>6, <1>7 DEF RoomInv, RoomTypes
    <2>3. n = p.to => Range(p.ops) \subseteq Range(inbox'[n])
        BY <1>3, <1>4, <1>6, <1>7 DEF RoomInv, RoomTypes
    <2>4. \A b \in Agents : \A q \in outbox[b] :
            q.to = n => q \in outbox'[b] \/ Range(q.ops) \subseteq Range(inbox'[n])
        BY <1>4, <2>3 DEF RoomInv, RoomTypes
    <2>5. FromFounder(Arriving(n)) \subseteq Arriving(n)'
        BY <2>1, <2>2, <2>4, NoMailLost DEF Arriving
    <2>6. Everything' \subseteq Everything
        BY PostStep
    <2> QED
        BY <2>5, <2>6 DEF AddedByAdmin
<1> QED
    BY <1>4, <1>8, <1>9, <1>10, FounderIdle

\* Mail that an agent other than the founder takes in; what it drops leaves it with a part.
LEMMA TakeInTold ==
  ASSUME RoomInv, ToldInv, NEW a \in Agents, a # founder, NEW unsound, TakeIn(a, unsound)
  PROVE  ToldInv'
<1>1. PICK s : s = ingestPage(ops[a], inbox[a], unsound)
    OBVIOUS
<1>2. /\ ~held[a].on
      /\ ops' = [ops EXCEPT ![a] = s] /\ inbox' = [inbox EXCEPT ![a] = <<>>]
      /\ partial' = IF Range(inbox[a]) \subseteq Range(s) THEN partial ELSE partial \cup {a}
      /\ UNCHANGED <<held, outbox>>
    BY <1>1 DEF TakeIn
<1>3. Range(ops[a]) \subseteq Range(s)
    BY <1>1, PageTaken DEF RoomInv, RoomTypes
<1>4. founder \in Agents
    BY RoomsAssumption
<1>5. /\ ops'[founder] = ops[founder] /\ held'[founder] = held[founder]
      /\ inbox'[founder] = inbox[founder] /\ partial \subseteq partial'
    BY <1>2, <1>4 DEF RoomInv, RoomTypes
<1>6. CopiesKeep'
    BY <1>2 DEF ToldInv, CopiesKeep, RoomInv, RoomTypes
<1>7. NoEcho'
    BY <1>2, <1>5 DEF ToldInv, NoEcho
<1>8. ASSUME NEW n \in Agents \ ({founder} \cup partial')
      PROVE  /\ FromFounder(Arriving(n)) \subseteq Arriving(n)'
             /\ AddedByAdmin(n)' => AddedByAdmin(n)
    <2>1. FromFounder(Range(ops[n])) \subseteq Range(ops'[n])
        BY <1>2, <1>3 DEF RoomInv, RoomTypes, FromFounder
    <2>2. Range(inbox[n]) \subseteq Range(inbox'[n]) \cup Range(ops'[n])
        BY <1>2 DEF RoomInv, RoomTypes
    <2>3. FromFounder(Arriving(n)) \subseteq Arriving(n)'
        BY <1>2, <2>1, <2>2, NoMailLost DEF Arriving
    <2>4. Everything' \subseteq Everything
        BY TakeInStep
    <2> QED
        BY <2>3, <2>4 DEF AddedByAdmin
<1> QED
    BY <1>5, <1>6, <1>7, <1>8, FounderIdle

\* The store of an agent other than the founder is loaded, and saved.
LEMMA CopyOfMemberTold ==
  ASSUME RoomInv, ToldInv, NEW a \in Agents, a # founder, HoldStore(a) \/ SaveHeld(a)
  PROVE  ToldInv'
<1>1. founder \in Agents
    BY RoomsAssumption
<1>2. /\ ops'[founder] = ops[founder] /\ held'[founder] = held[founder]
      /\ partial \subseteq partial' /\ UNCHANGED <<inbox, outbox>>
    BY <1>1 DEF HoldStore, SaveHeld, RoomInv, RoomTypes
<1>3. ASSUME NEW n \in Agents, n # founder
      PROVE  /\ FromFounder(Range(ops[n])) \subseteq Range(ops'[n])
             /\ held'[n].on => FromFounder(Range(ops'[n])) \subseteq Range(held'[n].ops)
    <2>1. held[n].on => FromFounder(Range(ops[n])) \subseteq Range(held[n].ops)
        BY <1>3 DEF ToldInv, CopiesKeep
    <2>2. CASE HoldStore(a)
        <3>1. /\ held' = [held EXCEPT ![a] = [on |-> TRUE, ops |-> ops[a], seqNext |-> seqNext]]
              /\ ops' = ops
            BY <2>2 DEF HoldStore
        <3> QED
            BY <2>1, <3>1 DEF RoomInv, RoomTypes, FromFounder
    <2>3. CASE SaveHeld(a)
        <3>1. /\ held[a].on /\ ops' = [ops EXCEPT ![a] = held[a].ops]
              /\ held' = [held EXCEPT ![a] = [on |-> FALSE, ops |-> <<>>, seqNext |-> 0]]
            BY <2>3 DEF SaveHeld, NotHeld
        <3>2. CASE n = a
            <4>1. ops'[n] = held[n].ops /\ ~held'[n].on
                BY <3>1, <3>2 DEF RoomInv, RoomTypes
            <4> QED
                BY <2>1, <3>1, <3>2, <4>1
        <3>3. CASE n # a
            <4>1. ops'[n] = ops[n] /\ held'[n] = held[n]
                BY <1>3, <3>1, <3>3 DEF RoomInv, RoomTypes
            <4> QED
                BY <2>1, <4>1 DEF FromFounder
        <3> QED
            BY <3>2, <3>3
    <2> QED
        BY <2>2, <2>3
<1>4. CopiesKeep'
    BY <1>3 DEF CopiesKeep
<1>5. NoEcho'
    BY <1>2 DEF ToldInv, NoEcho
<1>6. ASSUME NEW n \in Agents \ ({founder} \cup partial')
      PROVE  /\ FromFounder(Arriving(n)) \subseteq Arriving(n)'
             /\ AddedByAdmin(n)' => AddedByAdmin(n)
    <2>1. FromFounder(Arriving(n)) \subseteq Arriving(n)'
        BY <1>2, <1>3, NoMailLost DEF Arriving
    <2>2. Everything' \subseteq Everything
        BY HoldStep
    <2> QED
        BY <2>1, <2>2 DEF AddedByAdmin
<1> QED
    BY <1>2, <1>4, <1>5, <1>6, FounderIdle

\* The founder takes in mail: no word of its own.
LEMMA FounderTakesIn ==
  ASSUME RoomInv, RoomInv', ToldInv, NEW unsound, TakeIn(founder, unsound)
  PROVE  ToldInv'
<1>1. PICK r, s : r = ops[founder] /\ s = ingestPage(r, inbox[founder], unsound)
    OBVIOUS
<1>2. /\ ~held[founder].on
      /\ ops' = [ops EXCEPT ![founder] = s] /\ inbox' = [inbox EXCEPT ![founder] = <<>>]
      /\ partial \subseteq partial'
      /\ UNCHANGED <<held, outbox>>
    BY <1>1 DEF TakeIn
<1>3. founder \in Agents
    BY RoomsAssumption
<1>4. /\ s \in Seq(Ops) /\ Range(r) \subseteq Range(s) /\ Range(s) \subseteq Range(r) \cup Range(inbox[founder])
    BY <1>1, <1>3, PageTaken DEF RoomInv, RoomTypes
<1>5. FromFounder(Range(s)) = FromFounder(Range(r))
    BY <1>4 DEF ToldInv, NoEcho, FromFounder
<1>6. ops'[founder] = s
    BY <1>2, <1>3 DEF RoomInv, RoomTypes
<1>7. /\ r \in Seq(Ops) /\ Unique(Range(r)) /\ Unique(Range(s))
    <2>1. r \in Seq(Ops) /\ issued \in Nat /\ issued' \in Nat
        BY <1>1, <1>3 DEF RoomInv, RoomTypes
    <2>2. Signed(Range(r), issued)
        BY <1>1, <1>3, StockOfAll, SignedKept DEF RoomInv
    <2>3. Range(s) \subseteq Everything'
        BY <1>3, <1>6 DEF Everything, Stock
    <2>4. Signed(Range(s), issued')
        BY <2>3, SignedKept DEF RoomInv
    <2> QED
        BY <2>1, <2>2, <2>4, SignedAreUnique
<1>8. ASSUME NEW m PROVE Said(s, m) = Said(r, m) /\ LatestAbout(s, m) = LatestAbout(r, m)
    <2>1. Said(s, m) = Said(r, m)
        BY <1>5 DEF Said
    <2>2. LatestAbout(s, m) = NoOp \/ LatestAbout(s, m) \in Range(r)
        <3>1. PICK x : x = LatestAbout(s, m)
            OBVIOUS
        <3>2. x = NoOp \/ x \in {p \in Range(s) : p.by = founder /\ p.type \in {"add", "remove"} /\ p.about = m}
            BY <1>4, <1>7, <3>1, LatestWord
        <3>3. x = NoOp \/ x \in Said(s, m)
            BY <3>2 DEF Said, FromFounder
        <3> QED
            BY <2>1, <3>1, <3>3 DEF Said, FromFounder
    <2>3. LatestAbout(r, m) = LatestAbout(s, m)
        BY <1>4, <1>7, <2>1, <2>2, SameWord
    <2> QED
        BY <2>1, <2>3
<1>9. ASSUME NEW n \in Whole'
      PROVE  /\ n \in Whole /\ ops'[n] = ops[n] /\ Arriving(n)' = Arriving(n)
             /\ AddedByAdmin(n)' => AddedByAdmin(n)
    <2>1. n \in Agents /\ n # founder /\ n \in Whole
        BY <1>2 DEF Whole
    <2>2. ops'[n] = ops[n] /\ inbox'[n] = inbox[n]
        BY <1>2, <2>1 DEF RoomInv, RoomTypes
    <2>3. Arriving(n)' = Arriving(n)
        BY <1>2, <2>2 DEF Arriving
    <2>4. Everything' \subseteq Everything
        BY <1>3, TakeInStep
    <2> QED
        BY <2>1, <2>2, <2>3, <2>4 DEF AddedByAdmin
<1>10. RoomTold'
    <2> SUFFICES ASSUME NEW n \in Whole'
                 PROVE  /\ AddedByAdmin(n)' => Said(s, n) # {}
                        /\ LatestAbout(s, n).type = "add" => FromFounder(Range(s)) \subseteq Arriving(n)'
        BY <1>6 DEF RoomTold, Told
    <2>1. (AddedByAdmin(n) => Said(r, n) # {}) /\ Told(r, n)
        BY <1>1, <1>9 DEF ToldInv, RoomTold
    <2> QED
        BY <1>5, <1>8, <1>9, <2>1 DEF Told
<1>11. CopyTold'
    BY <1>2 DEF CopyTold
<1>12. CopiesKeep'
    BY <1>2, <1>3 DEF ToldInv, CopiesKeep, RoomInv, RoomTypes
<1>13. NoEcho'
    <2>1. Range(inbox'[founder]) = {}
        BY <1>2, <1>3 DEF Range, RoomInv, RoomTypes
    <2> QED
        BY <1>2, <2>1 DEF ToldInv, NoEcho, FromFounder
<1> QED
    BY <1>10, <1>11, <1>12, <1>13 DEF ToldInv

\* The founder's store is loaded ...
LEMMA FounderHolds ==
  ASSUME RoomInv, ToldInv, HoldStore(founder)
  PROVE  ToldInv'
<1>1. founder \in Agents
    BY RoomsAssumption
<1>2. /\ held' = [held EXCEPT ![founder] = [on |-> TRUE, ops |-> ops[founder], seqNext |-> seqNext]]
      /\ UNCHANGED <<ops, outbox, inbox, partial>>
    BY DEF HoldStore
<1>3. held'[founder].ops = ops[founder] /\ \A n \in Agents \ {founder} : held'[n] = held[n]
    BY <1>1, <1>2 DEF RoomInv, RoomTypes
<1>4. Everything' \subseteq Everything
    BY <1>1, HoldStep
<1>5. \A n : AddedByAdmin(n)' => AddedByAdmin(n)
    BY <1>4 DEF AddedByAdmin
<1>6. \A n : Arriving(n)' = Arriving(n)
    BY <1>2 DEF Arriving
<1>7. Whole' = Whole
    BY <1>2 DEF Whole
<1>8. PICK r : r = ops[founder]
    OBVIOUS
<1>9. \A n \in Whole' : /\ AddedByAdmin(n)' => Said(r, n) # {}
                        /\ LatestAbout(r, n).type = "add" => FromFounder(Range(r)) \subseteq Arriving(n)'
    BY <1>5, <1>6, <1>7, <1>8 DEF ToldInv, RoomTold, Told
<1>10. RoomTold'
    BY <1>2, <1>8, <1>9 DEF RoomTold, Told
<1>11. CopyTold'
    BY <1>2, <1>3, <1>8, <1>9 DEF CopyTold, Told
<1>12. CopiesKeep'
    BY <1>2, <1>3 DEF ToldInv, CopiesKeep
<1>13. NoEcho'
    BY <1>2 DEF ToldInv, NoEcho
<1> QED
    BY <1>10, <1>11, <1>12, <1>13 DEF ToldInv

\* ... and saved: whose add it undoes is left with a part.
LEMMA FounderSaves ==
  ASSUME RoomInv, ToldInv, SaveHeld(founder)
  PROVE  ToldInv'
<1>1. founder \in Agents
    BY RoomsAssumption
<1>2. /\ held[founder].on /\ ops' = [ops EXCEPT ![founder] = held[founder].ops]
      /\ partial' = partial \cup
           {o.about : o \in {u \in Range(ops[founder]) \ Range(held[founder].ops) : u.type = "add"}}
      /\ held' = [held EXCEPT ![founder] = [on |-> FALSE, ops |-> <<>>, seqNext |-> 0]]
      /\ UNCHANGED <<outbox, inbox>>
    BY DEF SaveHeld, NotHeld
<1>3. PICK r : r = held[founder].ops
    OBVIOUS
<1>4. /\ ops'[founder] = r /\ ~held'[founder].on
      /\ \A n \in Agents \ {founder} : held'[n] = held[n] /\ ops'[n] = ops[n]
    BY <1>1, <1>2, <1>3 DEF RoomInv, RoomTypes
<1>5. Everything' \subseteq Everything
    BY <1>1, HoldStep
<1>6. ASSUME NEW n \in Whole'
      PROVE  /\ n \in Whole /\ ~Undone(n) /\ Arriving(n)' = Arriving(n)
             /\ AddedByAdmin(n)' => AddedByAdmin(n)
    <2>1. n \in Agents /\ n # founder /\ n \notin partial'
        BY DEF Whole
    <2>2. n \in Whole /\ ~Undone(n)
        BY <1>2, <2>1 DEF Whole, Undone
    <2>3. Arriving(n)' = Arriving(n)
        BY <1>2, <1>4, <2>1 DEF Arriving
    <2> QED
        BY <1>5, <2>2, <2>3 DEF AddedByAdmin
<1>7. RoomTold'
    <2> SUFFICES ASSUME NEW n \in Whole'
                 PROVE  /\ AddedByAdmin(n)' => Said(r, n) # {}
                        /\ LatestAbout(r, n).type = "add" => FromFounder(Range(r)) \subseteq Arriving(n)'
        BY <1>4 DEF RoomTold, Told
    <2>1. (AddedByAdmin(n) => Said(r, n) # {}) /\ Told(r, n)
        BY <1>2, <1>3, <1>6 DEF ToldInv, CopyTold
    <2> QED
        BY <1>6, <2>1 DEF Told
<1>8. CopyTold'
    BY <1>4 DEF CopyTold
<1>9. CopiesKeep'
    BY <1>4 DEF ToldInv, CopiesKeep
<1>10. NoEcho'
    BY <1>2 DEF ToldInv, NoEcho
<1> QED
    BY <1>7, <1>8, <1>9, <1>10 DEF ToldInv

\* A command of the founder: its op goes to the roster it makes, and all of them to whom it adds.
LEMMA CommandTold ==
  ASSUME RoomInv, RoomInv', ToldInv,
         NEW type, NEW m \in Agents, NEW o \in Ops, NEW s \in Seq(Ops), NEW posts,
         Commanded(o, s, posts, type, m),
         type = "add" => m # founder /\ partial' = partial \ {m},
         type # "add" => partial' = partial
  PROVE  ToldInv'
<1>1. founder \in Agents
    BY RoomsAssumption
<1>2. PICK r, h : r = ops[founder] /\ h = held[founder]
    OBVIOUS
<1>3. /\ o.by = founder /\ o.type = type /\ o.about = m /\ o \notin Everything
      /\ Range(s) = Range(r) \cup {o}
      /\ \A n \in deriveState(s).members \ {founder} : \E p \in posts : p.to = n /\ o \in Range(p.ops)
      /\ type = "add" => \E p \in posts : p.to = m /\ p.ops = s
      /\ \A p \in posts : p.to # founder
    BY <1>2 DEF Commanded
<1>4. /\ outbox[founder] = {} /\ ops' = [ops EXCEPT ![founder] = s]
      /\ outbox' = [outbox EXCEPT ![founder] = posts] /\ UNCHANGED <<held, inbox>>
    BY DEF Commanded, Issue
<1>5. /\ ops'[founder] = s /\ outbox'[founder] = posts
      /\ \A n \in Agents \ {founder} : ops'[n] = ops[n] /\ outbox'[n] = outbox[n]
    BY <1>1, <1>4 DEF RoomInv, RoomTypes
<1>6. r \in Seq(Ops) /\ Unique(Range(r)) /\ Unique(Range(s))
    <2>1. r \in Seq(Ops) /\ issued' \in Nat
        BY <1>1, <1>2 DEF RoomInv, RoomTypes
    <2>2. Range(s) \subseteq Everything'
        BY <1>1, <1>5 DEF Everything, Stock
    <2>3. Signed(Range(s), issued')
        BY <2>2, SignedKept DEF RoomInv
    <2>4. Unique(Range(s))
        BY <2>1, <2>3, SignedAreUnique
    <2>5. Unique(Range(r))
        BY <1>3, <2>4 DEF Unique
    <2> QED
        BY <2>1, <2>4, <2>5
<1>7. \A n : AddedByAdmin(n)' => AddedByAdmin(n)
    <2>1. Everything' \subseteq Everything \cup {o}
        BY CommandStep
    <2> QED
        BY <1>3, <2>1 DEF AddedByAdmin
<1>8. \A n : Said(r, n) \subseteq Said(s, n)
    BY <1>3 DEF Said, FromFounder
<1>9. ASSUME NEW n \in Agents \ {founder} PROVE FromFounder(Arriving(n)) \subseteq Arriving(n)'
    <2>1. FromFounder(Range(ops[n])) \subseteq Range(ops'[n])
        BY <1>5 DEF FromFounder
    <2>2. \A b \in Agents : \A p \in outbox[b] : p \in outbox'[b]
        BY <1>4, <1>5
    <2> QED
        BY <1>4, <2>1, <2>2, NoMailLost DEF Arriving
<1>10. ASSUME NEW p \in posts, NEW n, p.to = n PROVE Range(p.ops) \subseteq Arriving(n)'
    BY <1>1, <1>5, <1>10, ComingIs DEF Arriving
\* whom the command adds
<1>11. ASSUME type = "add"
       PROVE  /\ o \in Said(s, m) /\ Range(s) \subseteq Arriving(m)'
              /\ h.on => Undone(m)' /\ Range(h.ops) \subseteq Range(s)
    <2>1. Range(s) \subseteq Arriving(m)'
        BY <1>3, <1>10, <1>11
    <2>2. h.on => Range(h.ops) \subseteq Range(r)
        BY <1>2 DEF ToldInv, CopyTold
    <2>3. o \notin Range(h.ops)
        BY <1>1, <1>2, <1>3, StockOfAll
    <2>4. o \in Range(s) /\ Range(r) \subseteq Range(s) /\ o.type = "add"
        BY <1>3, <1>11
    <2>5. Undone(m)'
        BY <1>2, <1>3, <1>4, <1>5, <2>3, <2>4 DEF Undone
    <2> QED
        BY <1>3, <1>11, <2>1, <2>2, <2>4, <2>5 DEF Said, FromFounder
\* everyone else
<1>12. ASSUME NEW n \in Whole, type # "add" \/ n # m
       PROVE  LatestAbout(s, n).type = "add" => FromFounder(Range(s)) \subseteq Arriving(n)'
    <2> SUFFICES ASSUME LatestAbout(s, n).type = "add"
                 PROVE  FromFounder(Range(s)) \subseteq Arriving(n)'
        OBVIOUS
    <2>1. PICK x : x = LatestAbout(s, n)
        OBVIOUS
    <2>2. x = NoOp \/ x \in {p \in Range(s) : p.by = founder /\ p.type \in {"add", "remove"} /\ p.about = n}
        BY <1>6, <2>1, LatestWord
    <2>3. x # NoOp
        BY <2>1 DEF NoOp, Op
    <2>4. x \in Range(r)
        BY <1>3, <1>12, <2>1, <2>2, <2>3
    <2>5. LatestAbout(r, n) = LatestAbout(s, n)
        BY <1>6, <1>8, <2>1, <2>4, SameWord
    <2>6. FromFounder(Range(r)) \subseteq Arriving(n)
        BY <1>2, <1>12, <2>5 DEF ToldInv, RoomTold, Told
    <2>7. n \in Agents \ {founder}
        BY DEF Whole
    <2>8. s # <<>>
        BY <1>3 DEF Range
    <2>9. n \in deriveState(s).members
        BY <2>7, <2>8 DEF deriveState, Members
    <2>10. o \in Arriving(n)'
        BY <1>3, <1>10, <2>7, <2>9
    <2> QED
        BY <1>3, <1>9, <2>6, <2>7, <2>10 DEF FromFounder
<1>13. ASSUME NEW n \in Whole' PROVE (n \in Whole /\ (type # "add" \/ n # m)) \/ (type = "add" /\ n = m)
    BY DEF Whole
<1>14. RoomTold'
    <2> SUFFICES ASSUME NEW n \in Whole'
                 PROVE  /\ AddedByAdmin(n)' => Said(s, n) # {}
                        /\ LatestAbout(s, n).type = "add" => FromFounder(Range(s)) \subseteq Arriving(n)'
        BY <1>5 DEF RoomTold, Told
    <2>1. CASE type = "add" /\ n = m
        BY <1>11, <2>1 DEF FromFounder
    <2>2. CASE n \in Whole /\ (type # "add" \/ n # m)
        <3>1. AddedByAdmin(n) => Said(r, n) # {}
            BY <1>2, <2>2 DEF ToldInv, RoomTold
        <3>2. AddedByAdmin(n)' => Said(s, n) # {}
            BY <1>7, <1>8, <3>1
        <3> QED
            BY <1>12, <2>2, <3>2
    <2> QED
        BY <1>13, <2>1, <2>2
<1>15. CopyTold'
    <2> SUFFICES ASSUME h.on
                 PROVE  /\ Range(h.ops) \subseteq Range(s)
                        /\ \A n \in Whole' :
                             /\ AddedByAdmin(n)' => Said(h.ops, n) # {} \/ Undone(n)'
                             /\ LatestAbout(h.ops, n).type = "add"
                                  => FromFounder(Range(h.ops)) \subseteq Arriving(n)'
        BY <1>2, <1>4, <1>5 DEF CopyTold, Told
    <2>1. Range(h.ops) \subseteq Range(r)
        BY <1>2 DEF ToldInv, CopyTold
    <2>2. ASSUME NEW n \in Whole', type = "add" /\ n = m
          PROVE  Undone(n)' /\ FromFounder(Range(h.ops)) \subseteq Arriving(n)'
        BY <1>11, <2>2 DEF FromFounder
    <2>3. ASSUME NEW n \in Whole', n \in Whole
          PROVE  /\ AddedByAdmin(n)' => Said(h.ops, n) # {} \/ Undone(n)'
                 /\ LatestAbout(h.ops, n).type = "add"
                      => FromFounder(Range(h.ops)) \subseteq Arriving(n)'
        <3>1. (AddedByAdmin(n) => Said(h.ops, n) # {} \/ Undone(n)) /\ Told(h.ops, n)
            BY <1>2, <2>3 DEF ToldInv, CopyTold
        <3>2. Undone(n) => Undone(n)'
            BY <1>2, <1>3, <1>4, <1>5 DEF Undone
        <3>3. n \in Agents \ {founder}
            BY <2>3 DEF Whole
        <3>4. LatestAbout(h.ops, n).type = "add" => FromFounder(Range(h.ops)) \subseteq Arriving(n)
            BY <3>1 DEF Told
        <3>5. FromFounder(Arriving(n)) \subseteq Arriving(n)'
            BY <1>9, <3>3
        <3>6. FromFounder(Range(h.ops)) \subseteq Arriving(n) => FromFounder(Range(h.ops)) \subseteq Arriving(n)'
            BY <3>5 DEF FromFounder
        <3> QED
            BY <1>7, <3>1, <3>2, <3>4, <3>6
    <2> QED
        BY <1>3, <1>13, <2>1, <2>2, <2>3
<1>16. CopiesKeep'
    BY <1>4, <1>5 DEF ToldInv, CopiesKeep
<1>17. NoEcho'
    BY <1>3, <1>4, <1>5 DEF ToldInv, NoEcho
<1> QED
    BY <1>14, <1>15, <1>16, <1>17 DEF ToldInv

LEMMA ToldInductive == RoomInv /\ RoomInv' /\ ToldInv /\ [RoomNext]_roomVars => ToldInv'
<1> SUFFICES ASSUME RoomInv, RoomInv', ToldInv, [RoomNext]_roomVars PROVE ToldInv'
    OBVIOUS
<1>1. ASSUME \/ \E m \in Others : Invite(m) \/ roomKickOp(m) \/ roomGrantAdminOp(m)
             \/ \E id \in 0 .. MaxOps : roomRevokeAdminOp(id)
      PROVE  ToldInv'
    BY <1>1, FounderCommands, CommandDoes, CommandTold
<1>2. ASSUME NEW a \in Agents, NEW m \in Others, NEW id \in 0 .. MaxOps, AdminInvite(a, m, id)
      PROVE  ToldInv'
    BY <1>2, AdminInviteTold
<1>3. ASSUME NEW a \in Agents, PostFails(a) \/ Post(a) PROVE ToldInv'
    BY <1>3, PostTold
<1>4. ASSUME NEW a \in Agents, receive(a) \/ receiveUnsound(a) PROVE ToldInv'
    BY <1>4, TakeInTold, FounderTakesIn DEF receive, receiveUnsound
<1>5. ASSUME NEW a \in Agents, HoldStore(a) \/ SaveHeld(a) PROVE ToldInv'
    BY <1>5, CopyOfMemberTold, FounderHolds, FounderSaves
<1>6. CASE UNCHANGED roomVars
    <2>1. /\ Everything' = Everything /\ Whole' = Whole
          /\ \A n \in Agents : Arriving(n)' = Arriving(n)
        BY <1>6 DEF roomVars, Everything, Stock, Whole, Arriving
    <2>2. /\ ops'[founder] = ops[founder] /\ held'[founder] = held[founder]
          /\ partial \subseteq partial' /\ CopiesKeep' /\ NoEcho'
        BY <1>6 DEF roomVars, ToldInv, CopiesKeep, NoEcho
    <2>3. \A n \in Agents : AddedByAdmin(n)' => AddedByAdmin(n)
        BY <2>1 DEF AddedByAdmin
    <2> QED
        BY <2>1, <2>2, <2>3, FounderIdle DEF FromFounder
<1> QED
    BY <1>1, <1>2, <1>3, <1>4, <1>5, <1>6 DEF RoomNext, Advance

\* When all mail has come, everyone in the founder's roster has every op the founder has,
\* unless a window of the code left it with a part of them (core.mjs fanOutOp, bootstrapMember).
THEOREM MembersAreInformed == RoomSpec => []AllInformed
<1>1. RoomInv /\ ToldInv => AllInformed
    <2> SUFFICES ASSUME RoomInv, ToldInv, Quiet,
                        NEW a \in deriveState(ops[founder]).members, a \notin partial
                 PROVE  FounderOps(founder) \subseteq FounderOps(a)
        BY DEF AllInformed
    <2>1. PICK r : r = ops[founder]
        OBVIOUS
    <2>2. a \in Agents /\ founder \in Agents
        BY RosterIsOfAgents, RoomsAssumption
    <2>3. CASE a = founder
        BY <2>3
    <2>4. CASE a # founder
        <3>1. a \in Whole
            BY <2>2, <2>4 DEF Whole
        <3>2. r \in Seq(Ops) /\ Unique(Range(r))
            BY <2>1, <2>2, RoomsAreUnique
        <3>3. LatestAbout(r, a).type = "add"
            <4>1. LatestAbout(r, a).type = "add" \/ AdminAdded(r, a)
                BY <2>1 DEF deriveState, Members
            <4>2. ~AdminAdded(r, a)
                <5> SUFFICES ASSUME AdminAdded(r, a) PROVE FALSE
                    OBVIOUS
                <5>1. PICK o \in Range(r) : o.type = "add" /\ o.about = a /\ o.by # founder
                    BY DEF AdminAdded
                <5>2. o \in Everything
                    BY <2>1, <2>2, <5>1, StockOfAll
                <5>3. Said(r, a) # {}
                    BY <2>1, <3>1, <5>1, <5>2 DEF AddedByAdmin, ToldInv, RoomTold
                <5>4. PICK x : x = LatestAbout(r, a)
                    OBVIOUS
                <5>5. {p \in Range(r) : p.by = founder /\ p.type \in {"add", "remove"} /\ p.about = a} # {}
                    BY <5>3 DEF Said, FromFounder
                <5>6. x \in {p \in Range(r) : p.by = founder /\ p.type \in {"add", "remove"} /\ p.about = a}
                    BY <3>2, <5>4, <5>5, LatestWord
                <5>7. x.type # "none" /\ x = NoOp
                    BY <5>4, <5>6 DEF AdminAdded
                <5> QED
                    BY <5>7 DEF NoOp, Op
            <4> QED
                BY <4>1, <4>2
        <3>4. FromFounder(Range(r)) \subseteq Arriving(a)
            BY <2>1, <3>1, <3>3 DEF ToldInv, RoomTold, Told
        <3>5. inbox[a] = <<>> /\ \A b \in Agents : outbox[b] = {}
            BY <2>2 DEF Quiet
        <3>6. Range(<<>>) = {}
            BY DEF Range
        <3>7. Arriving(a) \subseteq Range(ops[a])
            BY <3>5, <3>6, ComingIs DEF Arriving
        <3> QED
            BY <2>1, <3>4, <3>7 DEF FromFounder, FounderOps
    <2> QED
        BY <2>3, <2>4
<1>2. RoomInit => RoomInv /\ ToldInv
    BY RoomStarts, ToldFromTheStart
<1>3. RoomInv /\ ToldInv /\ [RoomNext]_roomVars => (RoomInv /\ ToldInv)'
    BY RoomInductive, ToldInductive
<1> QED
    BY <1>1, <1>2, <1>3, PTL DEF RoomSpec

=============================================================================
