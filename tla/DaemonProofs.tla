---------------------------- MODULE DaemonProofs ----------------------------
(***************************************************************************)
(* The daemon: what the socket bind guarantees of racing start-ups, for    *)
(* any number of processes, and what the cursors of the background tick    *)
(* guarantee of the memories they have passed, for any batch sizes and     *)
(* any number of topics, memories, crashes and failures.                   *)
(***************************************************************************)
EXTENDS DaemonLock, Evolve, FiniteSetTheorems, WellFoundedInduction, TLAPS

-----------------------------------------------------------------------------
(* DaemonLock *)

\* A process that holds a bound socket is at the path, or was unlinked from it.
HeldOrStolen == \A p \in Procs : pc[p] \in Holding => sock = p \/ p \in stolen

\* Past its two checks and not yet bound: about to take the path.
Reclaiming == {"readpid", "rmsock", "rmlock", "create", "write", "bind"}

\* Without overlapping startups one process at most is starting, and none holds
\* a socket while a process that passed the connect check goes on.
Sequential ==
    ~overlap =>
        /\ stolen = {}
        /\ \A p, q \in Procs :
              Live(p) /\ ~answers(p) /\ Live(q) /\ ~answers(q) => p = q
        /\ \A p \in Procs : pc[p] \in Holding => sock = p
        /\ \A p, q \in Procs : pc[p] \in Reclaiming => pc[q] \notin Holding

\* Past its checks on the way to the bind: it binds, or finds a path that is bound.
Bidding == {"rmsock", "rmlock", "create", "write", "bind"}

NoDeath == recycled = {} /\ \A p \in Procs : pc[p] # "crashed"

\* While nobody dies, a bound path belongs to a holder; and when nothing is bound,
\* somebody is on the way to bind it or no startup got as far as a pid file.
PathOrBidder ==
    NoDeath =>
        /\ sock # Nil => pc[sock] \in Holding
        /\ sock = Nil =>
              \/ \E p \in Procs : pc[p] \in Bidding
              \/ lock = Nil /\ \A p \in Procs : pc[p] \in {"new", "connect", "readpid"}

IInv == TypeOK /\ HeldOrStolen /\ Sequential /\ PathOrBidder

\* The types hold and are preserved by every step.
LEMMA TypeStep == TypeOK /\ [Next]_vars => TypeOK'
<1> SUFFICES ASSUME TypeOK, [Next]_vars PROVE TypeOK'
    OBVIOUS
<1>1. CASE UNCHANGED vars
    BY <1>1 DEF TypeOK, vars
<1>2. ASSUME NEW p \in Procs, Startup(p) \/ crash(p) \/ release(p) \/ recycle_pid(p)
      PROVE  TypeOK'
    <2>1. overlap' \in BOOLEAN
        BY <1>2, Zenon DEF TypeOK, Startup, launch, connect, read_pid, remove_sock,
            remove_lock, create_lock_file, write_lock_file, bind, listen, set_permissions,
            crash, release, recycle_pid
    <2>2. pc' \in [Procs -> Before \cup Holding \cup Over]
        BY <1>2 DEF TypeOK, Startup, launch, connect, read_pid, remove_sock,
            remove_lock, create_lock_file, write_lock_file, bind, listen, set_permissions,
            crash, release, recycle_pid, Goto, Before, Holding, Over
    <2>3. sock' \in Procs \cup {Nil} /\ lock' \in Procs \cup {"empty", Nil}
        BY <1>2 DEF TypeOK, Startup, launch, connect, read_pid, remove_sock,
            remove_lock, create_lock_file, write_lock_file, bind, listen, set_permissions,
            crash, release, recycle_pid
    <2>4. recycled' \subseteq Procs /\ stolen' \subseteq Procs
        BY <1>2 DEF TypeOK, Startup, launch, connect, read_pid, remove_sock,
            remove_lock, create_lock_file, write_lock_file, bind, listen, set_permissions,
            crash, release, recycle_pid
    <2> QED
        BY <2>1, <2>2, <2>3, <2>4 DEF TypeOK
<1> QED
    BY <1>1, <1>2 DEF Next

\* A holder loses the path only to remove_sock, which records it.
LEMMA HeldStep == TypeOK /\ HeldOrStolen /\ [Next]_vars => HeldOrStolen'
<1> SUFFICES ASSUME TypeOK, HeldOrStolen, [Next]_vars, NEW q \in Procs, pc'[q] \in Holding
             PROVE  sock' = q \/ q \in stolen'
    BY DEF HeldOrStolen
<1>0. q # Nil
    BY NilAssumption
<1>1. CASE UNCHANGED vars
    BY <1>1 DEF HeldOrStolen, vars
<1>2. ASSUME NEW p \in Procs, remove_sock(p)
      PROVE  sock' = q \/ q \in stolen'
    BY <1>0, <1>2 DEF remove_sock, Goto, TypeOK, HeldOrStolen, Holding
<1>3. ASSUME NEW p \in Procs, bind(p)
      PROVE  sock' = q \/ q \in stolen'
    BY <1>0, <1>3 DEF bind, Goto, TypeOK, HeldOrStolen, Holding
<1>4. ASSUME NEW p \in Procs,
             \/ launch(p) \/ connect(p) \/ read_pid(p) \/ remove_lock(p) \/ create_lock_file(p)
             \/ write_lock_file(p) \/ listen(p) \/ set_permissions(p) \/ crash(p) \/ release(p)
             \/ recycle_pid(p)
      PROVE  sock' = q \/ q \in stolen'
    <2>1. sock' = sock /\ stolen' = stolen
        BY <1>4 DEF launch, connect, read_pid, remove_lock, create_lock_file, write_lock_file,
            listen, set_permissions, crash, release, recycle_pid
    <2>2. pc[q] \in Holding
        BY <1>4 DEF launch, connect, read_pid, remove_lock, create_lock_file, write_lock_file,
            listen, set_permissions, crash, release, recycle_pid, Goto, TypeOK, Holding
    <2> QED
        BY <2>1, <2>2 DEF HeldOrStolen
<1> QED
    BY <1>1, <1>2, <1>3, <1>4 DEF Next, Startup

\* One startup at a time: each action keeps the four parts of Sequential.
LEMMA SequentialStep == TypeOK /\ Sequential /\ [Next]_vars => Sequential'
<1> SUFFICES ASSUME TypeOK, Sequential, [Next]_vars, ~overlap' PROVE
        /\ stolen' = {}
        /\ \A p, q \in Procs :
              (Live(p) /\ ~answers(p) /\ Live(q) /\ ~answers(q))' => p = q
        /\ \A p \in Procs : pc'[p] \in Holding => sock' = p
        /\ \A p, q \in Procs : pc'[p] \in Reclaiming => pc'[q] \notin Holding
    BY DEF Sequential
<1> USE DEF Live, answers, Holding, Over, Reclaiming
<1>1. CASE UNCHANGED vars
    BY <1>1 DEF vars, Sequential
<1>2. ASSUME NEW p \in Procs, Startup(p) \/ crash(p) \/ release(p) \/ recycle_pid(p)
      PROVE  ~overlap
    BY <1>2, Zenon DEF Startup, launch, connect, read_pid, remove_sock,
            remove_lock, create_lock_file, write_lock_file, bind, listen, set_permissions,
            crash, release, recycle_pid
<1>3. ASSUME NEW p \in Procs, launch(p)
      PROVE  ~Overlapping
    BY <1>3, Zenon DEF launch
<1>4. ASSUME NEW p \in Procs, launch(p)
      PROVE  Sequential'
    BY <1>4, <1>2, <1>3 DEF launch, Startup, Overlapping, Sequential, Goto, TypeOK, Before
<1>5. ASSUME NEW p \in Procs, connect(p)
      PROVE  Sequential'
    BY <1>5, <1>2, NilAssumption DEF connect, Startup, Sequential, Goto, TypeOK, Before
<1>6. ASSUME NEW p \in Procs, remove_sock(p)
      PROVE  Sequential'
    BY <1>6, <1>2, NilAssumption DEF remove_sock, Startup, Sequential, Goto, TypeOK, Before
<1>7. ASSUME NEW p \in Procs, bind(p)
      PROVE  Sequential'
    BY <1>7, <1>2, NilAssumption DEF bind, Startup, Sequential, Goto, TypeOK, Before
<1>8. ASSUME NEW p \in Procs, listen(p) \/ set_permissions(p)
      PROVE  Sequential'
    BY <1>8, <1>2 DEF listen, set_permissions, Startup, Sequential, Goto, TypeOK, Before
<1>9. ASSUME NEW p \in Procs,
             read_pid(p) \/ remove_lock(p) \/ create_lock_file(p) \/ write_lock_file(p)
      PROVE  Sequential'
    BY <1>9, <1>2 DEF read_pid, remove_lock, create_lock_file, write_lock_file, Startup,
        Sequential, Goto, TypeOK, Before
<1>10. ASSUME NEW p \in Procs, crash(p) \/ release(p) \/ recycle_pid(p)
       PROVE  Sequential'
    BY <1>10, <1>2 DEF crash, release, recycle_pid, Sequential, Goto, TypeOK, Before
<1>11. Sequential' \/ UNCHANGED vars
    BY <1>4, <1>5, <1>6, <1>7, <1>8, <1>9, <1>10 DEF Next, Startup
<1> QED
    BY <1>1, <1>11 DEF Sequential

\* The path is taken away only by a process that goes on to bid for it, and a
\* process steps aside only for a bound path or a pid some bidder wrote.
LEMMA PathStep == TypeOK /\ PathOrBidder /\ [Next]_vars => PathOrBidder'
<1> SUFFICES ASSUME TypeOK, PathOrBidder, [Next]_vars, NoDeath' PROVE
        /\ sock' # Nil => (pc[sock] \in Holding)'
        /\ sock' = Nil =>
              \/ \E q \in Procs : pc'[q] \in Bidding
              \/ lock' = Nil /\ \A q \in Procs : pc'[q] \in {"new", "connect", "readpid"}
    BY DEF PathOrBidder
<1> USE DEF Holding, Bidding
<1>1. CASE UNCHANGED vars
    BY <1>1 DEF vars, PathOrBidder, NoDeath
<1>2. ASSUME NEW p \in Procs, Startup(p)
      PROVE  NoDeath
    <2>1. recycled' = recycled
        BY <1>2 DEF Startup, launch, connect, read_pid, remove_sock, remove_lock,
            create_lock_file, write_lock_file, bind, listen, set_permissions
    <2>2. pc[p] # "crashed" /\ \A q \in Procs \ {p} : pc'[q] = pc[q]
        BY <1>2 DEF Startup, launch, connect, read_pid, remove_sock, remove_lock,
            create_lock_file, write_lock_file, bind, listen, set_permissions, Goto, TypeOK
    <2> QED
        BY <2>1, <2>2 DEF NoDeath
<1>3. ASSUME NEW p \in Procs, crash(p) \/ release(p) \/ recycle_pid(p)
      PROVE  FALSE
    BY <1>3 DEF crash, release, recycle_pid, Goto, TypeOK, NoDeath
<1>4. ASSUME NEW p \in Procs, launch(p) \/ connect(p) \/ listen(p) \/ set_permissions(p)
      PROVE  PathOrBidder'
    BY <1>4, <1>2, NilAssumption
        DEF launch, connect, listen, set_permissions, Startup, PathOrBidder, Goto, TypeOK
<1>5. ASSUME NEW p \in Procs, read_pid(p)
      PROVE  PathOrBidder'
    BY <1>5, <1>2, NilAssumption DEF read_pid, Startup, PathOrBidder, Goto, TypeOK
<1>6. ASSUME NEW p \in Procs,
             remove_sock(p) \/ remove_lock(p) \/ create_lock_file(p) \/ write_lock_file(p)
      PROVE  PathOrBidder'
    BY <1>6, <1>2, NilAssumption DEF remove_sock, remove_lock, create_lock_file,
        write_lock_file, Startup, PathOrBidder, Goto, TypeOK
<1>7. ASSUME NEW p \in Procs, bind(p)
      PROVE  PathOrBidder'
    BY <1>7, <1>2, NilAssumption DEF bind, Startup, PathOrBidder, Goto, TypeOK
<1> QED
    BY <1>1, <1>3, <1>4, <1>5, <1>6, <1>7 DEF Next, Startup, PathOrBidder

\* The inductive invariant.
THEOREM Invariance == Spec => []IInv
<1>1. Init => IInv
    BY Zenon, NilAssumption DEF Init, IInv, TypeOK, HeldOrStolen, Sequential, Before, Holding, Over,
        Live, answers, Reclaiming, PathOrBidder
<1>2. IInv /\ [Next]_vars => IInv'
    BY TypeStep, HeldStep, SequentialStep, PathStep DEF IInv
<1> QED
    BY <1>1, <1>2, PTL DEF Spec

\* However many startups race, the bind of main.rs arbitrates between them unless
\* one of them unlinked a path bound after its checks.
THEOREM BindArbitrates == Spec => []BindIsMutex
<1>1. IInv => BindIsMutex
    BY DEF IInv, HeldOrStolen, BindIsMutex
<1> QED
    BY <1>1, Invariance, PTL

\* Startups that do not overlap never take the path from a live daemon, whatever
\* sockets and pid files the dead ones left.
THEOREM NonOverlappingStartsAreSafe == Spec => []SequentialSafe
<1>1. IInv => SequentialSafe
    BY DEF IInv, Sequential, SequentialSafe
<1> QED
    BY <1>1, Invariance, PTL

\* Racing startups never all step aside: once everybody launched has finished and
\* nobody died, one process serves at the path.
THEOREM StartupsElectAnOwner == Spec => []SomeoneServes
<1>1. IInv => SomeoneServes
    <2> SUFFICES ASSUME IInv, recycled = {},
                        \A p \in Procs : pc[p] \in {"new", "serving", "aside", "failed"},
                        NEW q \in Procs, pc[q] # "new"
                 PROVE  \E p \in Procs : pc[p] = "serving" /\ sock = p
        BY DEF SomeoneServes
    <2>1. NoDeath
        BY DEF NoDeath
    <2>2. sock # Nil
        BY <2>1 DEF IInv, PathOrBidder, Bidding
    <2>3. sock \in Procs /\ pc[sock] \in Holding
        BY <2>1, <2>2 DEF IInv, TypeOK, PathOrBidder
    <2> QED
        BY <2>3 DEF Holding
<1> QED
    BY <1>1, Invariance, PTL

-----------------------------------------------------------------------------
(* Evolve: what an event, a tick and the log are *)

\* What an event may be; memories, pages and so on are numbered by their place in the log.
Events == [kind : {"memory"}, topic : Topics] \cup [kind : {"link"}, topic : Topics, source : Nat]
          \cup [kind : {"page"}, topic : Topics, cites : SUBSET Nat, supersedes : Nat]
          \cup [kind : {"retire"}, source : Nat]

Places == {"idle", "extract", "cursor", "topic", "compare", "emit", "settle", "read", "write"}
TickRecords ==
  [at : Places, todo : SUBSET Nat, keys : SUBSET Nat, mark : Nat, drained : BOOLEAN,
   changed : BOOLEAN, facts : SUBSET Nat, prior : Nat, seen : Nat, next : {"idle", "cursor", "settle"},
   gone : SUBSET Nat, spent : Nat]

EvolveTypes ==
  /\ log \in Seq(Events)
  /\ graph \in Nat /\ evolveCursor \in 0 .. Len(log) /\ summarizeCursor \in 0 .. Len(log)
  /\ tick \in [Ticks -> TickRecords]

\* A link is of the memory's own topic, and a page replaces an earlier one of its topic.
LinksTrue ==
  \A k \in Of("link") : /\ log[k].source \in Of("memory")
                        /\ log[log[k].source].topic = log[k].topic
PageBefore(k, t) == k \in Of("page") /\ log[k].topic = t
PagesInOrder ==
  \A k \in Of("page") :
    log[k].supersedes # 0 => log[k].supersedes < k /\ PageBefore(log[k].supersedes, log[k].topic)
PriorKnown ==
  \A p \in Ticks : At(p, "emit") /\ tick[p].prior # 0 => PageBefore(tick[p].prior, Head1(p))

AtTopic(p) == tick[p].at \in {"topic", "compare", "emit"}
TopicsToDo == \A p \in Ticks : AtTopic(p) => tick[p].todo # {} /\ tick[p].todo \subseteq Topics

Written == EvolveTypes /\ LinksTrue /\ PagesInOrder /\ PriorKnown /\ TopicsToDo

-----------------------------------------------------------------------------
(* The evolve cursor *)

Read(m) == m \in Linked(log[m].topic, Len(log))

\* Up to the memory extracted last everything is read, and the batch goes on from there
\* without a gap.
Going(t, steps, next) == t.at \in steps \/ (t.at \in {"read", "write"} /\ t.next = next)
Extracting ==
  LET t == tick["evolve"]
  IN /\ Going(t, {"extract", "cursor"}, "cursor") =>
          /\ t.mark <= Len(log)
          /\ \A m \in Of("memory") : m <= t.mark => Read(m)
     /\ t.at = "extract" =>
          /\ t.todo # {} /\ t.todo \subseteq Of("memory")
          /\ \A x \in t.todo : t.mark < x /\ \A m \in Of("memory") : t.mark < m /\ m < x => m \in t.todo
          /\ \A m \in t.keys : Read(m)

ReadInv == NothingUnread /\ Extracting

-----------------------------------------------------------------------------
(* The summarize cursor *)

\* What is retired or excused, and with that what a topic's dossier shows
Accounted == Gone \cup excused
Covered == [t \in Topics |-> Accounted \cup Cites(CurrentPage(t, Len(log)))]
Shown(k) == log[k].source \in Covered[log[k].topic]

\* A page drops a citation only with an excuse.
PagesKeep ==
  \A k, l \in Of("page") :
    k < l /\ log[k].topic = log[l].topic => log[k].cites \subseteq log[l].cites \cup Accounted

\* What the cursor is about to pass is shown, or its topic is still to do; and the facts
\* gathered for the topic at hand are all there is of it.
Settling(t) == Going(t, {"topic", "compare", "emit", "settle"}, "settle")
ToShow(t) == t.drained => \A k \in Of("link") : k <= t.mark => log[k].topic \in t.todo \/ Shown(k)
Gathered(t) == \A k \in Of("link") : k <= t.mark /\ log[k].topic = Min(t.todo)
                                       => log[k].source \in t.facts \cup Accounted
Summarizing ==
  LET t == tick["evolve"]
  IN /\ Settling(t) => t.mark <= Len(log) /\ t.spent = 0 /\ ToShow(t)
     /\ Going(t, {"settle"}, "settle") => t.todo = {}
     /\ t.at \in {"compare", "emit"} => Gathered(t)

ShownTo(n) == \A k \in Of("link") : k <= n => Shown(k)
SummaryInv == PagesKeep /\ Summarizing /\ ShownTo(summarizeCursor)

LEMMA LeastNumber ==
  ASSUME NEW T \in SUBSET Nat, T # {}
  PROVE  \E x \in T : \A y \in T : x <= y
<1>1. IsWellFoundedOn(OpToRel(<, Nat), Nat)
    BY NatLessThanWellFounded
<1>2. \E x \in T : \A y \in T : ~ (<<y, x>> \in OpToRel(<, Nat))
    BY <1>1, WFMin
<1>3. PICK x \in T : \A y \in T : ~ (<<y, x>> \in OpToRel(<, Nat))
    BY <1>2
<1>4. ASSUME NEW y \in T PROVE x <= y
    <2>1. y < x => <<y, x>> \in OpToRel(<, Nat)
        BY DEF OpToRel
    <2>2. ~(y < x)
        BY <2>1, <1>3
    <2> QED
        BY <2>2
<1> QED
    BY <1>4

\* The least and the greatest of some numbers
LEMMA MinIs ==
  ASSUME NEW T \in SUBSET Nat, T # {}
  PROVE  Min(T) \in T /\ \A y \in T : Min(T) <= y
<1>1. \E x \in T : \A y \in T : x =< y
    BY LeastNumber
<1> QED
    BY <1>1 DEF Min

LEMMA MaxIs ==
  ASSUME NEW n \in Nat, NEW T \in SUBSET (0 .. n), T # {}
  PROVE  Max(T) \in T /\ \A y \in T : y <= Max(T)
<1> DEFINE below == {n - x : x \in T}
<1>1. below \in SUBSET Nat /\ below # {}
    OBVIOUS
<1> HIDE DEF below
<1>2. PICK b \in below : \A y \in below : b <= y
    BY <1>1, LeastNumber
<1>3. PICK x \in T : b = n - x
    BY DEF below
<1>4. ASSUME NEW y \in T PROVE x >= y
    <2>1. n - y \in below
        BY DEF below
    <2>2. n - x <= n - y
        BY <2>1, <1>2, <1>3
    <2> QED
        BY <2>2
<1>5. \E z \in T : \A y \in T : z >= y
    BY <1>4
<1>6. Max(T) \in T /\ \A y \in T : Max(T) >= y
    BY <1>5 DEF Max
<1> QED
    BY <1>6

-----------------------------------------------------------------------------
(* The log grows, and what a topic's page is *)

\* The pages of a topic among the first events, and the last of them
PagesOf(t, n) == {k \in Of("page") : k <= n /\ log[k].topic = t}
LastOf(c, t, n) == /\ c = 0 \/ c \in PagesOf(t, n)
                   /\ \A k \in PagesOf(t, n) : k <= c

LastPages == \A t, n : n \in Nat => LastOf(CurrentPage(t, n), t, n)

LEMMA LogIs ==
  ASSUME EvolveTypes
  PROVE  /\ log \in Seq(Events) /\ Len(log) \in Nat /\ DOMAIN log = 1 .. Len(log)
         /\ \A k \in DOMAIN log : log[k] \in Events
         /\ \A kind : Of(kind) \subseteq 1 .. Len(log)
BY DEF EvolveTypes, Of

\* A superseded page is followed by a page of its topic, so the last one is current.
LEMMA LastIsCurrent == Written => LastPages
<1> SUFFICES ASSUME Written, NEW t, NEW n \in Nat PROVE LastOf(CurrentPage(t, n), t, n)
    BY DEF LastPages
<1>1. Of("page") \subseteq 1 .. Len(log) /\ Len(log) \in Nat /\ n \in Nat
    BY LogIs DEF Written
<1> DEFINE mine == PagesOf(t, n)
           pages == {k \in Of("page") : k <= n}
           old == {log[k].supersedes : k \in pages}
           free == {k \in pages : log[k].topic = t /\ k \notin old}
<1>2. CurrentPage(t, n) = Max(free \cup {0})
    BY DEF CurrentPage
<1>3. free \subseteq mine /\ mine \subseteq 1 .. n /\ mine \subseteq pages
    BY <1>1 DEF PagesOf
<1>4. ASSUME NEW k \in mine, \A l \in mine : l <= k PROVE k \in free
    <2>1. k \in pages /\ log[k].topic = t /\ k # 0
        BY <1>3 DEF PagesOf
    <2>2. ASSUME NEW l \in pages, log[l].supersedes = k PROVE FALSE
        <3>1. k < l /\ log[l].topic = t
            BY <2>1, <2>2 DEF Written, PagesInOrder, PageBefore
        <3>2. l \in mine
            BY <3>1 DEF PagesOf
        <3>3. k \in Nat /\ l \in Nat
            BY <1>1, <1>3, <3>2
        <3> QED
            BY <1>4, <3>1, <3>2, <3>3
    <2> QED
        BY <2>1, <2>2
<1> HIDE DEF mine, free
<1>5. /\ free \cup {0} \in SUBSET (0 .. n)
      /\ \A y \in free \cup {0} : Max(free \cup {0}) >= y
      /\ Max(free \cup {0}) \in free \cup {0}
    <2>1. free \cup {0} \in SUBSET (0 .. n)
        BY <1>1, <1>3
    <2> QED
        BY <1>1, <2>1, MaxIs
<1>6. CASE mine = {}
    BY <1>2, <1>3, <1>5, <1>6 DEF LastOf, mine
<1>7. CASE mine # {}
    <2>1. PICK k \in mine : \A l \in mine : l <= k
        <3>1. mine \in SUBSET (0 .. n)
            BY <1>1, <1>3
        <3>2. Max(mine) \in mine /\ \A y \in mine : y <= Max(mine)
            BY <1>1, <1>7, <3>1, MaxIs
        <3> QED
            BY <3>2
    <2>2. k \in free
        BY <1>4, <2>1
    <2>3. PICK c : c = Max(free \cup {0})
        OBVIOUS
    <2>4. c \in free \cup {0} /\ c >= k
        BY <1>5, <2>2, <2>3
    <2>5. k >= 1 /\ k \in Nat
        BY <1>1, <1>3, <2>1
    <2>6. c \in mine
        BY <1>3, <2>4, <2>5
    <2>7. c = k
        BY <1>1, <1>3, <2>1, <2>4, <2>6
    <2> QED
        BY <1>2, <2>1, <2>3, <2>6, <2>7 DEF LastOf, mine
<1> QED
    BY <1>6, <1>7

\* An event more at the end of the log
Appended(e) == e \in Events /\ log' = Append(log, e)
GrownBy(e) ==
  /\ Len(log') = Len(log) + 1 /\ log' \in Seq(Events) /\ log'[Len(log) + 1] = e
  /\ \A k \in 1 .. Len(log) : log'[k] = log[k]
  /\ Of("memory")' = Of("memory") \cup (IF e.kind = "memory" THEN {Len(log) + 1} ELSE {})
  /\ Of("link")' = Of("link") \cup (IF e.kind = "link" THEN {Len(log) + 1} ELSE {})
  /\ Of("page")' = Of("page") \cup (IF e.kind = "page" THEN {Len(log) + 1} ELSE {})
  /\ Of("retire")' = Of("retire") \cup (IF e.kind = "retire" THEN {Len(log) + 1} ELSE {})

LEMMA LogGrows ==
  ASSUME EvolveTypes, NEW e, Appended(e)
  PROVE  GrownBy(e)
<1>1. log \in Seq(Events) /\ Len(log) \in Nat /\ DOMAIN log = 1 .. Len(log)
    BY LogIs
<1>2. PICK l, new, n : l = log /\ new = log' /\ n = Len(log)
    OBVIOUS
<1>3. new = Append(l, e) /\ e \in Events /\ l \in Seq(Events) /\ n \in Nat /\ Len(l) = n
    BY <1>1, <1>2 DEF Appended
<1>4. /\ new \in Seq(Events) /\ Len(new) = n + 1 /\ new[n + 1] = e
      /\ \A k \in 1 .. n : new[k] = l[k]
    BY <1>3
<1>5. DOMAIN new = 1 .. n + 1 /\ DOMAIN l = 1 .. n
    BY <1>3, <1>4
<1>6. ASSUME NEW kind
      PROVE  {k \in DOMAIN new : new[k].kind = kind}
               = {k \in DOMAIN l : l[k].kind = kind} \cup (IF e.kind = kind THEN {n + 1} ELSE {})
    <2>1. DOMAIN new = DOMAIN l \cup {n + 1} /\ \A k \in DOMAIN l : new[k] = l[k]
        BY <1>3, <1>4, <1>5
    <2>2. n + 1 \notin DOMAIN l
        BY <1>3, <1>5
    <2> QED
        BY <1>4, <2>1, <2>2
<1>7. Of("memory")' = Of("memory") \cup (IF e.kind = "memory" THEN {Len(log) + 1} ELSE {})
    <2>1. Of("memory")' = {k \in DOMAIN new : new[k].kind = "memory"}
        BY <1>2 DEF Of
    <2>2. Of("memory") = {k \in DOMAIN l : l[k].kind = "memory"}
        BY <1>2 DEF Of
    <2> QED
        BY <1>2, <1>6, <2>1, <2>2
<1>8. Of("link")' = Of("link") \cup (IF e.kind = "link" THEN {Len(log) + 1} ELSE {})
    <2>1. Of("link")' = {k \in DOMAIN new : new[k].kind = "link"}
        BY <1>2 DEF Of
    <2>2. Of("link") = {k \in DOMAIN l : l[k].kind = "link"}
        BY <1>2 DEF Of
    <2> QED
        BY <1>2, <1>6, <2>1, <2>2
<1>9. Of("page")' = Of("page") \cup (IF e.kind = "page" THEN {Len(log) + 1} ELSE {})
    <2>1. Of("page")' = {k \in DOMAIN new : new[k].kind = "page"}
        BY <1>2 DEF Of
    <2>2. Of("page") = {k \in DOMAIN l : l[k].kind = "page"}
        BY <1>2 DEF Of
    <2> QED
        BY <1>2, <1>6, <2>1, <2>2
<1>10. Of("retire")' = Of("retire") \cup (IF e.kind = "retire" THEN {Len(log) + 1} ELSE {})
    <2>1. Of("retire")' = {k \in DOMAIN new : new[k].kind = "retire"}
        BY <1>2 DEF Of
    <2>2. Of("retire") = {k \in DOMAIN l : l[k].kind = "retire"}
        BY <1>2 DEF Of
    <2> QED
        BY <1>2, <1>6, <2>1, <2>2
<1> QED
    BY <1>2, <1>4, <1>7, <1>8, <1>9, <1>10 DEF GrownBy

\* What every step does to the log: nothing, or one event more that fits what is there.
Fits(e) ==
  /\ e.kind = "link" => e.source \in Of("memory") /\ log[e.source].topic = e.topic
  /\ e.kind = "page" => (e.supersedes # 0 => PageBefore(e.supersedes, e.topic))
LogStep == log' = log \/ \E e : Appended(e) /\ Fits(e)

LogKept ==
  /\ log' \in Seq(Events) /\ Len(log') \in Nat /\ Len(log) <= Len(log')
  /\ \A k \in 1 .. Len(log) : log'[k] = log[k]
  /\ Of("memory") \subseteq Of("memory")' /\ \A k \in Of("memory")' \ Of("memory") : k > Len(log)
  /\ Of("link") \subseteq Of("link")' /\ \A k \in Of("link")' \ Of("link") : k > Len(log)
  /\ Of("page") \subseteq Of("page")' /\ \A k \in Of("page")' \ Of("page") : k > Len(log)
  /\ Of("retire") \subseteq Of("retire")'

LEMMA LogStepKeeps ==
  ASSUME Written, LogStep
  PROVE  LogKept /\ LinksTrue' /\ PagesInOrder'
<1>0. log \in Seq(Events) /\ Len(log) \in Nat /\ \A kind : Of(kind) \subseteq 1 .. Len(log)
    BY LogIs DEF Written
<1>1. CASE log' = log
    <2>1. /\ Of("memory")' = Of("memory") /\ Of("link")' = Of("link")
          /\ Of("page")' = Of("page") /\ Of("retire")' = Of("retire")
        BY <1>1 DEF Of
    <2>2. LogKept
        BY <1>0, <1>1, <2>1 DEF LogKept
    <2>3. LinksTrue'
        BY <1>1, <2>1 DEF Written, LinksTrue
    <2>4. PagesInOrder'
        BY <1>1, <2>1 DEF Written, PagesInOrder, PageBefore
    <2> QED
        BY <2>2, <2>3, <2>4
<1>2. ASSUME NEW e, Appended(e), Fits(e) PROVE LogKept /\ LinksTrue' /\ PagesInOrder'
    <2>1. GrownBy(e)
        BY <1>2, LogGrows DEF Written
    <2>2. PICK n : n = Len(log)
        OBVIOUS
    <2>3. LogKept
        BY <1>0, <2>1, <2>2 DEF GrownBy, LogKept
    <2>4. LinksTrue'
        <3> SUFFICES ASSUME NEW k \in Of("link")'
                     PROVE  log'[k].source \in Of("memory")' /\ log'[log'[k].source].topic = log'[k].topic
            BY DEF LinksTrue
        <3>1. CASE k \in Of("link")
            <4>1. k \in 1 .. Len(log) /\ log'[k] = log[k]
                BY <1>0, <3>1, <2>1 DEF GrownBy
            <4>2. log[k].source \in Of("memory") /\ log[log[k].source].topic = log[k].topic
                BY <3>1 DEF Written, LinksTrue
            <4>3. log[k].source \in 1 .. Len(log)
                BY <1>0, <4>2
            <4> QED
                BY <2>1, <4>1, <4>2, <4>3 DEF GrownBy
        <3>2. CASE k \notin Of("link")
            <4>1. k = Len(log) + 1 /\ e.kind = "link" /\ log'[k] = e
                BY <2>1, <3>2 DEF GrownBy
            <4>2. e.source \in Of("memory") /\ log[e.source].topic = e.topic
                BY <1>2, <4>1 DEF Fits
            <4>3. e.source \in 1 .. Len(log)
                BY <1>0, <4>2
            <4> QED
                BY <2>1, <4>1, <4>2, <4>3 DEF GrownBy
        <3> QED
            BY <3>1, <3>2
    <2>5. PagesInOrder'
        <3> SUFFICES ASSUME NEW k \in Of("page")', log'[k].supersedes # 0
                     PROVE  /\ log'[k].supersedes < k /\ log'[k].supersedes \in Of("page")'
                            /\ log'[log'[k].supersedes].topic = log'[k].topic
            BY DEF PagesInOrder, PageBefore
        <3>1. CASE k \in Of("page")
            <4>1. k \in 1 .. Len(log) /\ log'[k] = log[k]
                BY <1>0, <3>1, <2>1 DEF GrownBy
            <4>2. /\ log[k].supersedes < k /\ log[k].supersedes \in Of("page")
                  /\ log[log[k].supersedes].topic = log[k].topic
                BY <3>1, <4>1 DEF Written, PagesInOrder, PageBefore
            <4>3. log[k].supersedes \in 1 .. Len(log)
                BY <1>0, <4>2
            <4> QED
                BY <2>1, <4>1, <4>2, <4>3 DEF GrownBy
        <3>2. CASE k \notin Of("page")
            <4>1. k = Len(log) + 1 /\ e.kind = "page" /\ log'[k] = e
                BY <2>1, <3>2 DEF GrownBy
            <4>2. e.supersedes \in Of("page") /\ log[e.supersedes].topic = e.topic
                BY <1>2, <4>1 DEF Fits, PageBefore
            <4>3. e.supersedes \in 1 .. Len(log)
                BY <1>0, <4>2
            <4>4. e.supersedes < k
                BY <1>0, <4>1, <4>3
            <4> QED
                BY <2>1, <4>1, <4>2, <4>3, <4>4 DEF GrownBy
        <3> QED
            BY <3>1, <3>2
    <2> QED
        BY <2>3, <2>4, <2>5
<1> QED
    BY <1>1, <1>2 DEF LogStep

-----------------------------------------------------------------------------
(* What a tick goes on with *)

LEMMA TickShapes ==
  ASSUME NEW t \in TickRecords
  PROVE  /\ Idle \in TickRecords
         /\ \A next \in {"idle", "cursor", "settle"} : Rebuild(t, next) \in TickRecords
         /\ \A next \in {"cursor", "settle"} : RebuildIf(t, next) \in TickRecords
         /\ Extracted(t) \in TickRecords
         /\ \A p : Refreshed(p, t) \in TickRecords
<1>1. Idle \in TickRecords
    BY DEF Idle, TickRecords, Places
<1>2. ASSUME NEW s \in TickRecords, NEW next \in {"idle", "cursor", "settle"}
      PROVE  Rebuild(s, next) \in TickRecords
    BY <1>2 DEF Rebuild, TickRecords, Places
<1>3. ASSUME NEW s \in TickRecords, NEW next \in {"cursor", "settle"}
      PROVE  RebuildIf(s, next) \in TickRecords
    <2>1. [s EXCEPT !.changed = FALSE] \in TickRecords
        BY <1>3 DEF TickRecords
    <2>2. [s EXCEPT !.at = next] \in TickRecords
        BY <1>3 DEF TickRecords, Places
    <2> QED
        BY <1>2, <2>1, <2>2 DEF RebuildIf
<1>4. Extracted(t) \in TickRecords
    <2>1. [t EXCEPT !.keys = {}] \in TickRecords
        BY DEF TickRecords
    <2> QED
        BY <1>3, <2>1 DEF Extracted
<1>5. ASSUME NEW p PROVE Refreshed(p, t) \in TickRecords
    <2>1. [t EXCEPT !.at = "topic"] \in TickRecords
        BY DEF TickRecords, Places
    <2>2. Refreshed(p, t) \in {[t EXCEPT !.at = "topic"], RebuildIf(t, "settle"), Rebuild(Idle, "idle")}
        BY DEF Refreshed
    <2> QED
        BY <1>1, <1>2, <1>3, <2>1, <2>2
<1> QED
    BY <1>1, <1>2, <1>3, <1>4, <1>5

\* After a topic: the next one, or all that is left to do is to settle, or the tick ends.
LEMMA AfterTopic ==
  ASSUME NEW t \in TickRecords, NEW p \in Ticks
  PROVE  LET r == Refreshed(p, t)
         IN /\ r \in TickRecords /\ r.at \notin {"extract", "cursor", "compare", "emit"}
            /\ \/ r = [t EXCEPT !.at = "topic"] /\ t.todo # {}
               \/ /\ p = "evolve" /\ t.todo = {} /\ r.todo = {}
                  /\ r.mark = t.mark /\ r.drained = t.drained /\ r.spent = t.spent
                  /\ (r.at = "settle" \/ (r.at = "read" /\ r.next = "settle"))
               \/ /\ r.at = "read" /\ r.next = "idle"
                  /\ p = "evolve" => t.todo # {} /\ ~(t.spent < RefreshCap)
<1>1. PICK r : r = Refreshed(p, t)
    OBVIOUS
<1>2. r \in TickRecords
    BY <1>1, TickShapes
<1>3. CASE t.todo # {} /\ t.spent < RefreshCap
    <2>1. r = [t EXCEPT !.at = "topic"]
        BY <1>1, <1>3 DEF Refreshed
    <2>2. r.at = "topic"
        BY <2>1 DEF TickRecords
    <2> QED
        BY <1>1, <1>2, <1>3, <2>1, <2>2
<1>4. CASE ~(t.todo # {} /\ t.spent < RefreshCap) /\ p = "evolve" /\ t.todo = {}
    <2>1. r = RebuildIf(t, "settle")
        BY <1>1, <1>4 DEF Refreshed
    <2>2. /\ r.todo = {} /\ r.mark = t.mark /\ r.drained = t.drained /\ r.spent = t.spent
          /\ (r.at = "settle" \/ (r.at = "read" /\ r.next = "settle"))
        BY <2>1, <1>4 DEF RebuildIf, Rebuild, TickRecords
    <2> QED
        BY <1>1, <1>2, <1>4, <2>2
<1>5. CASE ~(t.todo # {} /\ t.spent < RefreshCap) /\ ~(p = "evolve" /\ t.todo = {})
    <2>1. r = Rebuild(Idle, "idle")
        BY <1>1, <1>5 DEF Refreshed
    <2>2. r.at = "read" /\ r.next = "idle"
        BY <2>1 DEF Rebuild, Idle
    <2> QED
        BY <1>1, <1>2, <1>5, <2>2
<1> QED
    BY <1>3, <1>4, <1>5

\* After a memory: the next one, or on to the cursor.
LEMMA AfterMemory ==
  ASSUME NEW t \in TickRecords
  PROVE  LET r == Extracted(t)
         IN /\ r \in TickRecords
            /\ t.todo # {} => r = t
            /\ t.todo = {} => /\ (r.at = "cursor" \/ (r.at = "read" /\ r.next = "cursor"))
                              /\ r.mark = t.mark
<1>1. PICK r : r = Extracted(t)
    OBVIOUS
<1>2. r \in TickRecords
    BY <1>1, TickShapes
<1>3. t.todo # {} => r = t
    BY <1>1 DEF Extracted
<1>4. t.todo = {} => r = RebuildIf([t EXCEPT !.keys = {}], "cursor")
    BY <1>1 DEF Extracted
<1>5. PICK s : s = [t EXCEPT !.keys = {}]
    OBVIOUS
<1>6. s \in TickRecords /\ s.mark = t.mark
    BY <1>5 DEF TickRecords
<1>7. t.todo = {} => /\ (r.at = "cursor" \/ (r.at = "read" /\ r.next = "cursor"))
                     /\ r.mark = s.mark
    BY <1>4, <1>5, <1>6 DEF RebuildIf, Rebuild, TickRecords
<1> QED
    BY <1>1, <1>2, <1>3, <1>6, <1>7

-----------------------------------------------------------------------------
(* Written is inductive.  Every step writes one event at most, and takes one tick on. *)

LEMMA PagesStay ==
  ASSUME Written, LogKept, NEW k, NEW t, PageBefore(k, t)
  PROVE  k \in Of("page")' /\ log'[k].topic = t
<1>1. k \in 1 .. Len(log)
    BY LogIs DEF Written, PageBefore
<1> QED
    BY <1>1 DEF PageBefore, LogKept

\* A step of one tick that leaves it well
TickFits(p, r) ==
  /\ r \in TickRecords
  /\ r.at \in {"topic", "compare", "emit"} => r.todo # {} /\ r.todo \subseteq Topics
  /\ r.at = "emit" => r.prior = 0 \/ (/\ tick[p].todo = r.todo
                                      /\ PageBefore(r.prior, Head1(p)))

LEMMA TickStep ==
  ASSUME Written, LogStep, NEW p \in Ticks, NEW r, TickFits(p, r), Go(p, r),
         graph' \in Nat, evolveCursor' \in 0 .. Len(log'), summarizeCursor' \in 0 .. Len(log')
  PROVE  Written'
<1>1. LogKept /\ LinksTrue' /\ PagesInOrder'
    BY LogStepKeeps
<1>2. /\ tick' = [tick EXCEPT ![p] = r] /\ tick \in [Ticks -> TickRecords]
      /\ tick'[p] = r /\ \A q \in Ticks \ {p} : tick'[q] = tick[q]
    BY DEF Go, Written, EvolveTypes
<1>3. EvolveTypes'
    BY <1>1, <1>2 DEF TickFits, EvolveTypes, LogKept
<1>4. TopicsToDo'
    <2> SUFFICES ASSUME NEW q \in Ticks, tick'[q].at \in {"topic", "compare", "emit"}
                 PROVE  tick'[q].todo # {} /\ tick'[q].todo \subseteq Topics
        BY DEF TopicsToDo, AtTopic
    <2>1. CASE q = p
        BY <1>2, <2>1 DEF TickFits
    <2>2. CASE q # p
        BY <1>2, <2>2 DEF Written, TopicsToDo, AtTopic
    <2> QED
        BY <2>1, <2>2
<1>5. PriorKnown'
    <2> SUFFICES ASSUME NEW q \in Ticks, tick'[q].at = "emit", tick'[q].prior # 0
                 PROVE  tick'[q].prior \in Of("page")' /\ log'[tick'[q].prior].topic = Min(tick'[q].todo)
        BY DEF PriorKnown, PageBefore, At, Head1
    <2>1. CASE q = p
        <3>1. PageBefore(r.prior, Head1(p)) /\ tick[p].todo = r.todo
            BY <1>2, <2>1 DEF TickFits
        <3>2. r.prior \in Of("page")' /\ log'[r.prior].topic = Head1(p)
            BY <1>1, <3>1, PagesStay
        <3> QED
            BY <1>2, <2>1, <3>1, <3>2 DEF Head1
    <2>2. CASE q # p
        <3>1. tick'[q] = tick[q]
            BY <1>2, <2>2
        <3>2. PageBefore(tick[q].prior, Head1(q))
            BY <3>1 DEF Written, PriorKnown, At
        <3>3. tick[q].prior \in Of("page")' /\ log'[tick[q].prior].topic = Head1(q)
            BY <1>1, <3>2, PagesStay
        <3> QED
            BY <3>1, <3>3 DEF Head1
    <2> QED
        BY <2>1, <2>2
<1> QED
    BY <1>1, <1>3, <1>4, <1>5 DEF Written

\* A step that neither tick takes
LEMMA OtherStep ==
  ASSUME Written, LogStep, tick' = tick \/ tick' = [p \in Ticks |-> Idle],
         UNCHANGED <<graph, evolveCursor, summarizeCursor>>
  PROVE  Written'
<1>1. LogKept /\ LinksTrue' /\ PagesInOrder'
    BY LogStepKeeps
<1>2. tick' \in [Ticks -> TickRecords]
    BY TickShapes DEF Written, EvolveTypes
<1>3. EvolveTypes'
    BY <1>1, <1>2 DEF Written, EvolveTypes, LogKept
<1>4. Idle.at = "idle"
    BY DEF Idle
<1>5. TopicsToDo'
    BY <1>4 DEF Written, TopicsToDo, AtTopic
<1>6. PriorKnown'
    <2> SUFFICES ASSUME NEW q \in Ticks, tick'[q].at = "emit", tick'[q].prior # 0
                 PROVE  tick'[q].prior \in Of("page")' /\ log'[tick'[q].prior].topic = Min(tick'[q].todo)
        BY DEF PriorKnown, PageBefore, At, Head1
    <2>1. tick'[q] = tick[q]
        BY <1>4
    <2>2. PageBefore(tick[q].prior, Head1(q))
        BY <2>1 DEF Written, PriorKnown, At
    <2>3. tick[q].prior \in Of("page")' /\ log'[tick[q].prior].topic = Head1(q)
        BY <1>1, <2>2, PagesStay
    <2> QED
        BY <2>1, <2>3 DEF Head1
<1> QED
    BY <1>1, <1>3, <1>5, <1>6 DEF Written

LEMMA TipIs == EvolveTypes => Tip \in 0 .. Len(log)
<1> SUFFICES ASSUME EvolveTypes PROVE Tip \in 0 .. Len(log)
    OBVIOUS
<1>1. Len(log) \in Nat /\ Of("link") \subseteq 1 .. Len(log) /\ Of("page") \subseteq 1 .. Len(log)
    BY LogIs
<1>2. PICK T : T = Of("link") \cup Of("page") \cup {0}
    OBVIOUS
<1>3. T \in SUBSET (0 .. Len(log)) /\ T # {}
    BY <1>1, <1>2
<1>4. Max(T) \in T
    BY <1>1, <1>3, MaxIs
<1> QED
    BY <1>2, <1>3, <1>4 DEF Tip

\* A topic is dropped from those that are left.
LEMMA DroppedIs ==
  ASSUME EvolveTypes, NEW p \in Ticks, NEW d, d = Dropped(p)
  PROVE  /\ tick[p] \in TickRecords /\ d \in TickRecords
         /\ d.todo = tick[p].todo \ {Head1(p)}
         /\ d.mark = tick[p].mark /\ d.drained = tick[p].drained /\ d.spent = tick[p].spent
         /\ d.keys = tick[p].keys /\ d.at = tick[p].at /\ d.changed = tick[p].changed
<1>1. tick[p] \in TickRecords
    BY DEF EvolveTypes
<1>2. PICK h : h = Head1(p)
    OBVIOUS
<1>3. d = [tick[p] EXCEPT !.todo = @ \ {h}]
    BY <1>2 DEF Dropped
<1> QED
    BY <1>1, <1>2, <1>3 DEF TickRecords

\* A tick that has finished a topic fits, whatever it has noted of it.
LEMMA RefreshedFits ==
  ASSUME Written, NEW p \in Ticks, NEW d \in TickRecords, d.todo \subseteq Topics
  PROVE  TickFits(p, Refreshed(p, d))
<1>1. PICK r : r = Refreshed(p, d)
    OBVIOUS
<1>2. /\ r \in TickRecords /\ r.at \notin {"compare", "emit"}
      /\ \/ r = [d EXCEPT !.at = "topic"] /\ d.todo # {}
         \/ r.at \in {"settle", "read"}
    BY <1>1, AfterTopic
<1>3. r = [d EXCEPT !.at = "topic"] => r.todo = d.todo
    BY DEF TickRecords
<1> QED
    BY <1>1, <1>2, <1>3 DEF TickFits

LEMMA EventShapes ==
  ASSUME EvolveTypes
  PROVE  /\ \A k \in Of("memory") : log[k].topic \in Topics
         /\ \A k \in Of("link") : log[k].topic \in Topics /\ log[k].source \in Nat
         /\ \A k \in Of("page") : log[k].topic \in Topics /\ log[k].cites \subseteq Nat
         /\ \A t, n : Linked(t, n) \subseteq Nat /\ Facts(t) \subseteq Nat
         /\ Dirty \subseteq Topics
<1>1. \A k \in DOMAIN log : log[k] \in Events
    BY LogIs
<1>2. \A k \in Of("memory") : log[k].topic \in Topics
    BY <1>1 DEF Of, Events
<1>3. \A k \in Of("link") : log[k].topic \in Topics /\ log[k].source \in Nat
    BY <1>1 DEF Of, Events
<1>4. \A k \in Of("page") : log[k].topic \in Topics /\ log[k].cites \subseteq Nat
    BY <1>1 DEF Of, Events
<1>5. \A t, n : Linked(t, n) \subseteq Nat /\ Facts(t) \subseteq Nat
    BY <1>3 DEF Linked, Facts
<1>6. Dirty \subseteq Topics
    BY <1>3 DEF Dirty, DirtyLinks
<1> QED
    BY <1>2, <1>3, <1>4, <1>5, <1>6

\* The memory extracted next, and the topic a tick is at
LEMMA HeadIs ==
  ASSUME EvolveTypes, NEW p \in Ticks, tick[p].todo # {}
  PROVE  Head1(p) \in tick[p].todo /\ \A y \in tick[p].todo : Head1(p) <= y
<1>1. tick[p].todo \in SUBSET Nat
    BY DEF EvolveTypes, TickRecords
<1> QED
    BY <1>1, MinIs DEF Head1

LEMMA TopicIs ==
  ASSUME Written, NEW p \in Ticks, AtTopic(p)
  PROVE  /\ tick[p].todo # {} /\ tick[p].todo \subseteq Topics
         /\ Head1(p) \in tick[p].todo /\ Head1(p) \in Topics
BY HeadIs DEF Written, TopicsToDo

\* What EvolveStart goes on with
Starting(now) ==
  [Idle EXCEPT !.at = "extract", !.mark = evolveCursor, !.todo = FirstOf(Unprocessed, EvolveBatch),
               !.keys = (UNION {Linked(t, now) : t \in Topics}) \cap Unprocessed]
LEMMA StartingIs ==
  ASSUME EvolveTypes, NEW now, NEW s, s = Starting(now)
  PROVE  /\ s \in TickRecords /\ s.at = "extract" /\ s.mark = evolveCursor
         /\ s.todo = FirstOf(Unprocessed, EvolveBatch)
         /\ s.keys = (UNION {Linked(t, now) : t \in Topics}) \cap Unprocessed
<1>1. Unprocessed \subseteq Nat /\ evolveCursor \in Nat
    BY LogIs DEF Unprocessed, EvolveTypes
<1>2. FirstOf(Unprocessed, EvolveBatch) \subseteq Nat
    BY <1>1 DEF FirstOf
<1>3. PICK k : k = (UNION {Linked(t, now) : t \in Topics}) \cap Unprocessed
    OBVIOUS
<1>4. PICK todo : todo = FirstOf(Unprocessed, EvolveBatch)
    OBVIOUS
<1>5. k \subseteq Nat /\ todo \subseteq Nat
    BY <1>1, <1>2, <1>3, <1>4
<1>6. s = [Idle EXCEPT !.at = "extract", !.mark = evolveCursor, !.todo = todo, !.keys = k]
    BY <1>3, <1>4 DEF Starting
<1>7. Idle \in TickRecords
    BY DEF Idle, TickRecords, Places
<1> QED
    BY <1>1, <1>3, <1>4, <1>5, <1>6, <1>7 DEF TickRecords, Places

LEMMA WrittenEvolveStart == Written /\ EvolveStart => Written'
<1> SUFFICES ASSUME Written, EvolveStart PROVE Written'
    OBVIOUS
<1>1. PICK s : s = Starting(graph')
    OBVIOUS
<1>2. Go("evolve", Extracted(s))
    BY <1>1 DEF EvolveStart, Starting
<1>3. s \in TickRecords /\ s.at = "extract"
    BY <1>1, StartingIs DEF Written
<1>4. PICK r : r = Extracted(s)
    OBVIOUS
<1>5. r \in TickRecords /\ r.at \notin {"topic", "compare", "emit"}
    BY <1>3, <1>4, AfterMemory
<1>6. TickFits("evolve", r)
    BY <1>5 DEF TickFits
<1>7. log' = log /\ graph' \in Nat
    BY TipIs, LogIs DEF EvolveStart, EnsureIndexed, Written, EvolveTypes
<1>8. /\ graph' \in Nat /\ evolveCursor' \in 0 .. Len(log') /\ summarizeCursor' \in 0 .. Len(log')
    BY <1>7 DEF EvolveStart, Written, EvolveTypes
<1> QED
    BY <1>2, <1>4, <1>6, <1>7, <1>8, TickStep DEF LogStep, Ticks

\* What ReflectStart goes on with
LEMMA WrittenReflectStart == Written /\ ReflectStart => Written'
<1> SUFFICES ASSUME Written, ReflectStart PROVE Written'
    OBVIOUS
<1>1. PICK pages : /\ pages \subseteq Topics
                   /\ Go("reflect", Refreshed("reflect", [Idle EXCEPT !.gone = Gone, !.todo = pages]))
    BY DEF ReflectStart
<1>2. Gone \subseteq Nat
    <2>1. \A k \in DOMAIN log : log[k] \in Events
        BY LogIs DEF Written
    <2> QED
        BY <2>1 DEF Gone, Of, Events
<1>3. PICK s : s = [Idle EXCEPT !.gone = Gone, !.todo = pages]
    OBVIOUS
<1>4. s \in TickRecords /\ s.todo = pages
    <2>1. pages \subseteq Nat
        BY <1>1, EvolveAssumption
    <2>2. Idle \in TickRecords
        BY DEF Idle, TickRecords, Places
    <2> QED
        BY <1>2, <1>3, <2>1, <2>2 DEF TickRecords
<1>5. TickFits("reflect", Refreshed("reflect", s))
    BY <1>1, <1>4, RefreshedFits DEF Ticks
<1>6. log' = log /\ graph' \in Nat
    BY TipIs, LogIs DEF ReflectStart, EnsureIndexed, Written, EvolveTypes
<1>7. /\ graph' \in Nat /\ evolveCursor' \in 0 .. Len(log') /\ summarizeCursor' \in 0 .. Len(log')
    BY <1>6 DEF ReflectStart, Written, EvolveTypes
<1> QED
    BY <1>1, <1>3, <1>5, <1>6, <1>7, TickStep DEF LogStep, Ticks

\* What AdvanceEvolveCursor goes on with
Listing == [Idle EXCEPT !.todo = FirstOf(Dirty, SummaryBatch),
                        !.mark = Max(DirtyLinks \cup {summarizeCursor}),
                        !.drained = Cardinality(Dirty) <= SummaryBatch]
LEMMA ListingIs ==
  ASSUME EvolveTypes, NEW s, s = Listing
  PROVE  /\ s \in TickRecords /\ s.todo = FirstOf(Dirty, SummaryBatch)
         /\ s.todo \subseteq Topics /\ s.spent = 0
         /\ s.mark \in 0 .. Len(log) /\ (s.drained <=> Cardinality(Dirty) <= SummaryBatch)
         /\ \A k \in Of("link") : k <= s.mark => k <= summarizeCursor \/ log[k].topic \in Dirty
<1>1. /\ Len(log) \in Nat /\ Of("link") \subseteq 1 .. Len(log)
      /\ summarizeCursor \in 0 .. Len(log)
    BY LogIs DEF EvolveTypes
<1>2. PICK T : T = DirtyLinks \cup {summarizeCursor}
    OBVIOUS
<1>3. T \in SUBSET (0 .. Len(log)) /\ T # {}
    BY <1>1, <1>2 DEF DirtyLinks
<1>4. Max(T) \in T
    BY <1>1, <1>3, MaxIs
<1>5. PICK mark : mark = Max(T)
    OBVIOUS
<1>6. mark \in 0 .. Len(log) /\ mark \in Nat
    <2>1. mark \in T
        BY <1>4, <1>5
    <2>2. mark \in 0 .. Len(log)
        BY <1>3, <2>1
    <2> QED
        BY <1>1, <2>2
<1>7. PICK todo : todo = FirstOf(Dirty, SummaryBatch)
    OBVIOUS
<1>8. todo \subseteq Topics /\ todo \subseteq Nat
    BY <1>7, EventShapes, EvolveAssumption DEF FirstOf
<1>9. PICK drained \in BOOLEAN : drained <=> Cardinality(Dirty) <= SummaryBatch
    OBVIOUS
<1>10. s = [Idle EXCEPT !.todo = todo, !.mark = mark, !.drained = (Cardinality(Dirty) <= SummaryBatch)]
    BY <1>2, <1>5, <1>7 DEF Listing
<1>11. Idle \in TickRecords /\ Idle.spent = 0
    BY DEF Idle, TickRecords, Places
<1>12. (Cardinality(Dirty) <= SummaryBatch) \in BOOLEAN
    OBVIOUS
<1>13. \A k \in Of("link") : k <= summarizeCursor \/ log[k].topic \in Dirty
    BY <1>1 DEF Dirty, DirtyLinks
<1>14. PICK small : small = (Cardinality(Dirty) <= SummaryBatch)
    OBVIOUS
<1>15. /\ s = [Idle EXCEPT !.todo = todo, !.mark = mark, !.drained = small]
       /\ small \in BOOLEAN
    BY <1>10, <1>12, <1>14
<1>16. /\ s \in TickRecords /\ s.todo = todo /\ s.mark = mark /\ s.drained = small /\ s.spent = 0
    BY <1>6, <1>8, <1>11, <1>15 DEF TickRecords
<1> QED
    BY <1>6, <1>7, <1>8, <1>13, <1>14, <1>16

LEMMA WrittenAdvanceEvolve ==
  ASSUME Written, AdvanceEvolveCursor, tick["evolve"].mark <= Len(log)
  PROVE  Written'
<1>1. PICK s : s = Listing
    OBVIOUS
<1>2. Go("evolve", Refreshed("evolve", s))
    BY <1>1 DEF AdvanceEvolveCursor, Listing
<1>3. s \in TickRecords /\ s.todo \subseteq Topics
    BY <1>1, ListingIs DEF Written
<1>4. TickFits("evolve", Refreshed("evolve", s))
    BY <1>3, RefreshedFits DEF Ticks
<1>5. tick["evolve"].mark \in 0 .. Len(log)
    <2>1. tick["evolve"].mark \in Nat
        BY DEF Written, EvolveTypes, TickRecords, Ticks
    <2> QED
        BY <2>1, LogIs DEF Written
<1>6. /\ log' = log /\ graph' \in Nat /\ evolveCursor' \in 0 .. Len(log')
      /\ summarizeCursor' \in 0 .. Len(log')
    BY <1>5 DEF AdvanceEvolveCursor, Written, EvolveTypes
<1> QED
    BY <1>2, <1>4, <1>6, TickStep DEF LogStep, Ticks

\* The other steps of a tick leave both cursors and the projection as they are.
Unmoved == UNCHANGED <<graph, evolveCursor, summarizeCursor>>

LEMMA UnmovedStep ==
  ASSUME Written, LogStep, NEW p \in Ticks, NEW r, TickFits(p, r), Go(p, r), Unmoved
  PROVE  Written'
<1>1. LogKept
    BY LogStepKeeps
<1>2. Len(log) \in Nat /\ Len(log') \in Nat /\ Len(log) <= Len(log')
    BY <1>1, LogIs DEF LogKept, Written
<1>3. \A x \in 0 .. Len(log) : x \in 0 .. Len(log')
    BY <1>2
<1>4. graph' \in Nat /\ evolveCursor' \in 0 .. Len(log') /\ summarizeCursor' \in 0 .. Len(log')
    BY <1>3 DEF Unmoved, Written, EvolveTypes
<1> QED
    BY <1>4, TickStep

LEMMA WrittenExtract ==
  ASSUME Written, Extracting, Extract \/ ExtractFails
  PROVE  Written' /\ LogStep
<1> DEFINE t == tick["evolve"]
<1>1. /\ t.at = "extract" /\ t.todo # {} /\ t.todo \subseteq Of("memory")
      /\ t \in TickRecords /\ "evolve" \in Ticks
    BY DEF Extract, ExtractFails, Extracting, At, Written, EvolveTypes, Ticks
<1>2. ASSUME NEW s \in TickRecords, s.at = "extract", Go("evolve", Extracted(s)), LogStep, Unmoved
      PROVE  Written'
    <2>1. PICK r : r = Extracted(s)
        OBVIOUS
    <2>2. r \in TickRecords /\ r.at \notin {"topic", "compare", "emit"}
        BY <1>2, <2>1, AfterMemory
    <2>3. TickFits("evolve", r)
        BY <2>2 DEF TickFits
    <2> QED
        BY <1>1, <1>2, <2>1, <2>3, UnmovedStep
<1>3. CASE Extract
    <2>1. PICK m : m = Head1("evolve")
        OBVIOUS
    <2>2. m \in Of("memory")
        BY <1>1, <2>1, HeadIs DEF Written
    <2>3. m \in Nat /\ log[m].topic \in Topics
        BY <2>2, LogIs, EventShapes DEF Written
    <2>4. LogStep
        <3>1. Link(log[m].topic, m) \in Events
            BY <2>3 DEF Link, Events
        <3>2. Fits(Link(log[m].topic, m))
            BY <2>2 DEF Fits, Link
        <3>3. log' = Append(log, Link(log[m].topic, m)) \/ log' = log
            BY <1>3, <2>1 DEF Extract
        <3> QED
            BY <3>1, <3>2, <3>3 DEF LogStep, Appended
    <2>5. PICK new \in BOOLEAN : Go("evolve", Extracted([Dropped("evolve") EXCEPT !.mark = m, !.changed = @ \/ new]))
        BY <1>3, <2>1 DEF Extract
    <2>6. PICK d : d = Dropped("evolve")
        OBVIOUS
    <2>7. d \in TickRecords /\ d.at = "extract"
        BY <1>1, <2>6, DroppedIs DEF Written
    <2>8. PICK s : s = [d EXCEPT !.mark = m, !.changed = @ \/ new]
        OBVIOUS
    <2>9. s \in TickRecords /\ s.at = "extract"
        BY <2>3, <2>7, <2>8 DEF TickRecords
    <2>10. Unmoved
        BY <1>3 DEF Extract, Unmoved
    <2> QED
        BY <1>2, <2>4, <2>5, <2>6, <2>8, <2>9, <2>10
<1>4. CASE ExtractFails
    <2>1. PICK s : s = [t EXCEPT !.todo = {}]
        OBVIOUS
    <2>2. s \in TickRecords /\ s.at = "extract"
        BY <1>1, <2>1 DEF TickRecords
    <2>3. Go("evolve", Extracted(s)) /\ LogStep /\ Unmoved
        BY <1>4, <2>1 DEF ExtractFails, LogStep, Unmoved
    <2> QED
        BY <1>2, <2>2, <2>3
<1> QED
    BY <1>3, <1>4

\* The ways a tick leaves a topic: to compare it, or to go on without a page.
Composed(p, f) == [tick[p] EXCEPT !.at = "compare", !.facts = f, !.spent = Spend(p)]
Passed(p) == [Dropped(p) EXCEPT !.spent = Spend(p)]

LEMMA PassedIs ==
  ASSUME EvolveTypes, NEW p \in Ticks, NEW s, s = Passed(p)
  PROVE  /\ s \in TickRecords /\ s.todo = tick[p].todo \ {Head1(p)}
         /\ s.mark = tick[p].mark /\ s.drained = tick[p].drained /\ (p = "evolve" => s.spent = 0)
<1>1. PICK d : d = Dropped(p)
    OBVIOUS
<1>2. /\ d \in TickRecords /\ d.todo = tick[p].todo \ {Head1(p)}
      /\ d.mark = tick[p].mark /\ d.drained = tick[p].drained
    BY <1>1, DroppedIs
<1>3. PICK n : n = Spend(p)
    OBVIOUS
<1>4. n \in Nat /\ (p = "evolve" => n = 0)
    BY <1>3 DEF Spend, EvolveTypes, TickRecords
<1>5. s = [d EXCEPT !.spent = n]
    BY <1>1, <1>3 DEF Passed
<1> QED
    BY <1>2, <1>4, <1>5 DEF TickRecords

LEMMA ComposedIs ==
  ASSUME EvolveTypes, NEW p \in Ticks, NEW f \in SUBSET Nat, NEW s, s = Composed(p, f)
  PROVE  /\ s \in TickRecords /\ s.at = "compare" /\ s.todo = tick[p].todo
         /\ s.mark = tick[p].mark /\ s.drained = tick[p].drained /\ s.facts = f
         /\ (p = "evolve" => s.spent = 0)
<1>1. PICK n : n = Spend(p)
    OBVIOUS
<1>2. n \in Nat /\ (p = "evolve" => n = 0)
    BY <1>1 DEF Spend, EvolveTypes, TickRecords
<1>3. s = [tick[p] EXCEPT !.at = "compare", !.facts = f, !.spent = n]
    BY <1>1 DEF Composed
<1>4. tick[p] \in TickRecords
    BY DEF EvolveTypes
<1> QED
    BY <1>2, <1>3, <1>4 DEF TickRecords, Places

\* What Refresh does: the tick goes to compare, or passes on
LEMMA RefreshIs ==
  ASSUME EvolveTypes, NEW p \in Ticks, Refresh(p)
  PROVE  /\ log' = log /\ Unmoved
         /\ \/ \E f \in SUBSET Nat : Go(p, Composed(p, f))
            \/ Go(p, Refreshed(p, Passed(p)))
<1>1. log' = log /\ Unmoved
    BY DEF Refresh, Unmoved
<1>2. Facts(Head1(p)) \in SUBSET Nat
    BY EventShapes
<1>3. CASE Compose(p, Head1(p))
    BY <1>1, <1>2, <1>3 DEF Compose, Composed
<1>4. CASE ComposeUnread(p, Head1(p))
    <2>1. PICK f \in SUBSET Facts(Head1(p)) :
            Go(p, [tick[p] EXCEPT !.at = "compare", !.facts = f, !.spent = Spend(p)])
        BY <1>4 DEF ComposeUnread
    <2> QED
        BY <1>1, <1>2, <2>1 DEF Composed
<1>5. CASE ComposeFails(p, Head1(p)) \/ SkipThin(p, Head1(p))
    BY <1>1, <1>5 DEF ComposeFails, SkipThin, Passed
<1> QED
    BY <1>3, <1>4, <1>5 DEF Refresh

LEMMA WrittenRefresh ==
  ASSUME Written, NEW p \in Ticks, At(p, "topic"), Refresh(p)
  PROVE  Written'
<1>1. log' = log /\ Unmoved
    BY RefreshIs DEF Written
<1>2. tick[p].todo # {} /\ tick[p].todo \subseteq Topics
    BY TopicIs DEF AtTopic, At
<1>3. ASSUME NEW f \in SUBSET Nat, Go(p, Composed(p, f)) PROVE Written'
    <2>1. PICK s : s = Composed(p, f)
        OBVIOUS
    <2>2. s \in TickRecords /\ s.at = "compare" /\ s.todo = tick[p].todo
        BY <2>1, ComposedIs DEF Written
    <2>3. TickFits(p, s)
        BY <1>2, <2>2 DEF TickFits
    <2> QED
        BY <1>1, <1>3, <2>1, <2>3, UnmovedStep DEF LogStep
<1>4. CASE Go(p, Refreshed(p, Passed(p)))
    <2>1. PICK s : s = Passed(p)
        OBVIOUS
    <2>2. s \in TickRecords /\ s.todo \subseteq Topics
        BY <1>2, <2>1, PassedIs DEF Written
    <2>3. TickFits(p, Refreshed(p, s))
        BY <2>2, RefreshedFits
    <2> QED
        BY <1>1, <1>4, <2>1, <2>3, UnmovedStep DEF LogStep
<1> QED
    BY <1>3, <1>4, RefreshIs DEF Written

\* What Compare does: a page with the same citations is not written again
Prior(p) == CurrentPage(Head1(p), graph)
Kept(p) == [Dropped(p) EXCEPT !.facts = {}]
Emitting(p) == [tick[p] EXCEPT !.at = "emit", !.prior = Prior(p)]

LEMMA KeptIs ==
  ASSUME EvolveTypes, NEW p \in Ticks, NEW s, s = Kept(p)
  PROVE  /\ s \in TickRecords /\ s.todo = tick[p].todo \ {Head1(p)} /\ s.mark = tick[p].mark
         /\ s.drained = tick[p].drained /\ s.spent = tick[p].spent
<1>1. PICK d : d = Dropped(p)
    OBVIOUS
<1>2. /\ d \in TickRecords /\ d.todo = tick[p].todo \ {Head1(p)}
      /\ d.mark = tick[p].mark /\ d.drained = tick[p].drained /\ d.spent = tick[p].spent
    BY <1>1, DroppedIs
<1>3. s = [d EXCEPT !.facts = {}]
    BY <1>1 DEF Kept
<1> QED
    BY <1>2, <1>3 DEF TickRecords

LEMMA EmittingIs ==
  ASSUME Written, LastPages, NEW p \in Ticks, NEW s, s = Emitting(p)
  PROVE  /\ s \in TickRecords /\ s.at = "emit" /\ s.todo = tick[p].todo /\ s.mark = tick[p].mark
         /\ s.drained = tick[p].drained /\ s.spent = tick[p].spent /\ s.facts = tick[p].facts
         /\ s.prior = Prior(p) /\ (Prior(p) = 0 \/ PageBefore(Prior(p), Head1(p)))
<1>1. PICK c : c = Prior(p)
    OBVIOUS
<1>2. graph \in Nat
    BY DEF Written, EvolveTypes
<1>3. LastOf(c, Head1(p), graph)
    BY <1>1, <1>2 DEF Prior, LastPages
<1>4. c = 0 \/ PageBefore(c, Head1(p))
    BY <1>3 DEF LastOf, PagesOf, PageBefore
<1>5. c \in Nat
    BY <1>4, LogIs DEF PageBefore, Written
<1>6. s = [tick[p] EXCEPT !.at = "emit", !.prior = c]
    BY <1>1 DEF Emitting
<1>7. tick[p] \in TickRecords
    BY DEF Written, EvolveTypes
<1> QED
    BY <1>1, <1>4, <1>5, <1>6, <1>7 DEF TickRecords, Places

LEMMA CompareIs ==
  ASSUME NEW p \in Ticks, Compare(p)
  PROVE  /\ log' = log /\ Unmoved /\ excused' = excused /\ At(p, "compare")
         /\ \/ /\ Prior(p) # 0 /\ Cites(Prior(p)) = tick[p].facts
               /\ Go(p, Refreshed(p, Kept(p)))
            \/ Go(p, Emitting(p))
BY DEF Compare, Unmoved, Prior, Kept, Emitting

LEMMA WrittenCompare ==
  ASSUME Written, LastPages, NEW p \in Ticks, Compare(p)
  PROVE  Written'
<1>1. log' = log /\ Unmoved /\ At(p, "compare")
    BY CompareIs
<1>2. tick[p].todo # {} /\ tick[p].todo \subseteq Topics
    BY <1>1, TopicIs DEF AtTopic, At
<1>3. CASE Go(p, Emitting(p))
    <2>1. PICK s : s = Emitting(p)
        OBVIOUS
    <2>2. /\ s \in TickRecords /\ s.at = "emit" /\ s.todo = tick[p].todo
          /\ s.prior = 0 \/ PageBefore(s.prior, Head1(p))
        BY <2>1, EmittingIs
    <2>3. TickFits(p, s)
        BY <1>2, <2>2 DEF TickFits
    <2> QED
        BY <1>1, <1>3, <2>1, <2>3, UnmovedStep DEF LogStep
<1>4. CASE Go(p, Refreshed(p, Kept(p)))
    <2>1. PICK s : s = Kept(p)
        OBVIOUS
    <2>2. s \in TickRecords /\ s.todo \subseteq Topics
        BY <1>2, <2>1, KeptIs DEF Written
    <2>3. TickFits(p, Refreshed(p, s))
        BY <2>2, RefreshedFits
    <2> QED
        BY <1>1, <1>4, <2>1, <2>3, UnmovedStep DEF LogStep
<1> QED
    BY <1>3, <1>4, CompareIs

\* What EmitPage does
Emitted(p) == [Dropped(p) EXCEPT !.changed = TRUE, !.facts = {}, !.prior = 0]

LEMMA EmittedIs ==
  ASSUME EvolveTypes, NEW p \in Ticks, NEW s, s = Emitted(p)
  PROVE  /\ s \in TickRecords /\ s.todo = tick[p].todo \ {Head1(p)} /\ s.mark = tick[p].mark
         /\ s.drained = tick[p].drained /\ s.spent = tick[p].spent
<1>1. PICK d : d = Dropped(p)
    OBVIOUS
<1>2. /\ d \in TickRecords /\ d.todo = tick[p].todo \ {Head1(p)}
      /\ d.mark = tick[p].mark /\ d.drained = tick[p].drained /\ d.spent = tick[p].spent
    BY <1>1, DroppedIs
<1>3. s = [d EXCEPT !.changed = TRUE, !.facts = {}, !.prior = 0]
    BY <1>1 DEF Emitted
<1>4. PICK c : c = [d EXCEPT !.changed = TRUE]
    OBVIOUS
<1>5. /\ c \in TickRecords /\ c.todo = d.todo /\ c.mark = d.mark
      /\ c.drained = d.drained /\ c.spent = d.spent
    BY <1>2, <1>4 DEF TickRecords
<1>6. PICK f : f = [c EXCEPT !.facts = {}]
    OBVIOUS
<1>7. /\ f \in TickRecords /\ f.todo = c.todo /\ f.mark = c.mark
      /\ f.drained = c.drained /\ f.spent = c.spent
    BY <1>5, <1>6 DEF TickRecords
<1>8. s = [f EXCEPT !.prior = 0]
    BY <1>3, <1>4, <1>6
<1>9. /\ s \in TickRecords /\ s.todo = f.todo /\ s.mark = f.mark
      /\ s.drained = f.drained /\ s.spent = f.spent
    BY <1>7, <1>8 DEF TickRecords
<1> QED
    BY <1>2, <1>5, <1>7, <1>9

Given(p) == Page(Head1(p), tick[p].facts, tick[p].prior)
LEMMA EmitPageIs ==
  ASSUME Written, NEW p \in Ticks, EmitPage(p)
  PROVE  /\ Appended(Given(p)) /\ Fits(Given(p)) /\ Unmoved
         /\ At(p, "emit") /\ Go(p, Refreshed(p, Emitted(p)))
         /\ Excuse(Cites(CurrentPage(Head1(p), Len(log))) \ tick[p].facts)
<1>1. Head1(p) \in Topics /\ tick[p] \in TickRecords
    BY TopicIs DEF AtTopic, At, EmitPage, Written, EvolveTypes
<1>2. Given(p) \in Events
    BY <1>1 DEF Given, Page, Events, TickRecords
<1>3. Fits(Given(p))
    BY DEF Given, Page, Fits, Written, PriorKnown, At, EmitPage
<1> QED
    BY <1>2, <1>3 DEF EmitPage, Appended, Given, Unmoved, Emitted

LEMMA WrittenEmit ==
  ASSUME Written, NEW p \in Ticks, EmitPage(p)
  PROVE  Written'
<1>1. LogStep /\ Unmoved /\ At(p, "emit") /\ Go(p, Refreshed(p, Emitted(p)))
    BY EmitPageIs DEF LogStep
<1>2. tick[p].todo \subseteq Topics
    BY <1>1, TopicIs DEF AtTopic, At
<1>3. PICK s : s = Emitted(p)
    OBVIOUS
<1>4. s \in TickRecords /\ s.todo \subseteq Topics
    BY <1>2, <1>3, EmittedIs DEF Written
<1>5. TickFits(p, Refreshed(p, s))
    BY <1>4, RefreshedFits
<1> QED
    BY <1>1, <1>3, <1>5, UnmovedStep

\* The rebuild of the graph projection
Reading(p) == [tick[p] EXCEPT !.at = "write", !.seen = Tip]
Folded(p) == IF tick[p].next = "idle" THEN Idle
             ELSE [tick[p] EXCEPT !.at = tick[p].next, !.seen = 0, !.next = "idle"]

LEMMA ReadingIs ==
  ASSUME EvolveTypes, NEW p \in Ticks, NEW s, s = Reading(p)
  PROVE  /\ s \in TickRecords /\ s.at = "write" /\ s.next = tick[p].next /\ s.todo = tick[p].todo
         /\ s.mark = tick[p].mark /\ s.drained = tick[p].drained /\ s.spent = tick[p].spent
<1>1. PICK n : n = Tip
    OBVIOUS
<1>2. n \in Nat
    BY <1>1, TipIs, LogIs
<1>3. s = [tick[p] EXCEPT !.at = "write", !.seen = n] /\ tick[p] \in TickRecords
    BY <1>1 DEF Reading, EvolveTypes
<1> QED
    BY <1>2, <1>3 DEF TickRecords, Places

LEMMA FoldedIs ==
  ASSUME EvolveTypes, NEW p \in Ticks, NEW s, s = Folded(p)
  PROVE  /\ s \in TickRecords
         /\ \/ s = Idle
            \/ /\ s.at = tick[p].next /\ s.at \in {"cursor", "settle"} /\ s.todo = tick[p].todo
               /\ s.mark = tick[p].mark /\ s.drained = tick[p].drained /\ s.spent = tick[p].spent
<1>1. tick[p] \in TickRecords /\ Idle \in TickRecords
    BY TickShapes DEF EvolveTypes
<1>2. CASE tick[p].next = "idle"
    BY <1>1, <1>2 DEF Folded
<1>3. CASE tick[p].next # "idle"
    <2>1. s = [tick[p] EXCEPT !.at = tick[p].next, !.seen = 0, !.next = "idle"]
        BY <1>3 DEF Folded
    <2>2. PICK next : next = tick[p].next
        OBVIOUS
    <2>3. next \in {"cursor", "settle"}
        BY <1>1, <1>3, <2>2 DEF TickRecords
    <2>4. PICK c : c = [tick[p] EXCEPT !.at = next, !.seen = 0]
        OBVIOUS
    <2>5. /\ c \in TickRecords /\ c.at = next /\ c.todo = tick[p].todo /\ c.mark = tick[p].mark
          /\ c.drained = tick[p].drained /\ c.spent = tick[p].spent
        BY <1>1, <2>3, <2>4 DEF TickRecords, Places
    <2>6. s = [c EXCEPT !.next = "idle"]
        BY <2>1, <2>2, <2>4
    <2>7. /\ s \in TickRecords /\ s.at = next /\ s.todo = c.todo /\ s.mark = c.mark
          /\ s.drained = c.drained /\ s.spent = c.spent
        BY <2>5, <2>6 DEF TickRecords
    <2> QED
        BY <2>2, <2>3, <2>5, <2>7
<1> QED
    BY <1>2, <1>3

LEMMA WrittenRebuild ==
  ASSUME Written, NEW p \in Ticks, RebuildRead(p) \/ RebuildWrite(p)
  PROVE  Written'
<1>1. CASE RebuildRead(p)
    <2>1. Go(p, Reading(p)) /\ log' = log /\ Unmoved
        BY <1>1 DEF RebuildRead, Reading, Unmoved
    <2>2. PICK s : s = Reading(p)
        OBVIOUS
    <2>3. TickFits(p, s)
        BY <2>2, ReadingIs DEF TickFits, Written
    <2> QED
        BY <2>1, <2>2, <2>3, UnmovedStep DEF LogStep
<1>2. CASE RebuildWrite(p)
    <2>1. /\ Go(p, Folded(p)) /\ log' = log /\ graph' = tick[p].seen
          /\ evolveCursor' = evolveCursor /\ summarizeCursor' = summarizeCursor
        BY <1>2 DEF RebuildWrite, Folded
    <2>2. PICK s : s = Folded(p)
        OBVIOUS
    <2>3. s \in TickRecords /\ s.at \in {"idle", "cursor", "settle"}
        BY <2>2, FoldedIs DEF Written, Idle
    <2>4. TickFits(p, s)
        BY <2>3 DEF TickFits
    <2>5. graph' \in Nat /\ evolveCursor' \in 0 .. Len(log') /\ summarizeCursor' \in 0 .. Len(log')
        BY <2>1 DEF Written, EvolveTypes, TickRecords
    <2> QED
        BY <2>1, <2>2, <2>4, <2>5, TickStep DEF LogStep
<1> QED
    BY <1>1, <1>2

LEMMA WrittenPassPage == Written /\ PassPage => Written'
<1> SUFFICES ASSUME Written, PassPage PROVE Written'
    OBVIOUS
<1>1. /\ "reflect" \in Ticks /\ log' = log /\ Unmoved /\ AtTopic("reflect")
      /\ Go("reflect", Refreshed("reflect", Dropped("reflect")))
    BY DEF PassPage, Ticks, Unmoved, AtTopic, At
<1>2. PICK s : s = Dropped("reflect")
    OBVIOUS
<1>3. s \in TickRecords /\ s.todo \subseteq Topics
    BY <1>1, <1>2, TopicIs, DroppedIs DEF Written
<1>4. TickFits("reflect", Refreshed("reflect", s))
    BY <1>1, <1>3, RefreshedFits
<1> QED
    BY <1>1, <1>2, <1>4, UnmovedStep DEF LogStep

LEMMA WrittenSettle ==
  ASSUME Written, AdvanceSummarizeCursor, tick["evolve"].mark <= Len(log)
  PROVE  Written'
<1>1. PICK s : s = Rebuild(Idle, "idle")
    OBVIOUS
<1>2. s \in TickRecords /\ s.at = "read"
    <2>1. Idle \in TickRecords
        BY DEF Idle, TickRecords, Places
    <2> QED
        BY <1>1, <2>1, TickShapes DEF Rebuild, TickRecords
<1>3. TickFits("evolve", s)
    BY <1>2 DEF TickFits
<1>4. tick["evolve"].mark \in 0 .. Len(log)
    <2>1. tick["evolve"].mark \in Nat
        BY DEF Written, EvolveTypes, TickRecords, Ticks
    <2> QED
        BY <2>1, LogIs DEF Written
<1>5. /\ log' = log /\ graph' \in Nat /\ evolveCursor' \in 0 .. Len(log')
      /\ summarizeCursor' \in 0 .. Len(log') /\ Go("evolve", s)
    BY <1>1, <1>4 DEF AdvanceSummarizeCursor, Written, EvolveTypes
<1> QED
    BY <1>3, <1>5, TickStep DEF LogStep, Ticks

\* A user's step, a crash, and no step at all
LEMMA WrittenOther ==
  ASSUME Written,
         \/ \E t \in Topics : Remember(t)
         \/ \E m \in DOMAIN log : RetireMemory(m)
         \/ Crash
         \/ UNCHANGED evolveVars
  PROVE  Written' /\ LogStep
<1>1. ASSUME NEW t \in Topics, Remember(t) PROVE LogStep
    <2>1. Memory(t) \in Events /\ Fits(Memory(t))
        BY DEF Memory, Events, Fits
    <2> QED
        BY <1>1, <2>1 DEF Remember, LogStep, Appended
<1>2. ASSUME NEW m \in DOMAIN log, RetireMemory(m) PROVE LogStep
    <2>1. m \in Nat
        BY <1>2, LogIs DEF Written
    <2>2. Retire(m) \in Events /\ Fits(Retire(m))
        BY <2>1 DEF Retire, Events, Fits
    <2> QED
        BY <1>2, <2>2 DEF RetireMemory, LogStep, Appended
<1>3. LogStep
    BY <1>1, <1>2 DEF Crash, evolveVars, LogStep
<1>4. tick' = tick \/ tick' = [p \in Ticks |-> Idle]
    BY DEF Remember, RetireMemory, Crash, evolveVars
<1>5. UNCHANGED <<graph, evolveCursor, summarizeCursor>>
    BY DEF Remember, RetireMemory, Crash, evolveVars
<1> QED
    BY <1>3, <1>4, <1>5, OtherStep

-----------------------------------------------------------------------------
(* What has been read stays read. *)

ReadTo(n) == \A m \in Of("memory") : m <= n => Read(m)

LEMMA ReadIs ==
  ASSUME EvolveTypes, NEW m
  PROVE  Read(m) <=> \E k \in Of("link") : log[k].source = m /\ log[k].topic = log[m].topic
<1>1. \A k \in Of("link") : k <= Len(log)
    BY LogIs
<1> QED
    BY <1>1 DEF Read, Linked

LEMMA ReadStays ==
  ASSUME Written, Written', LogKept, NEW m, Read(m)
  PROVE  Read(m)'
<1>1. PICK k \in Of("link") : log[k].source = m /\ log[k].topic = log[m].topic
    BY ReadIs DEF Written
<1>2. m \in Of("memory")
    BY <1>1 DEF Written, LinksTrue
<1>3. log'[k] = log[k] /\ log'[m] = log[m] /\ k \in Of("link")'
    BY <1>1, <1>2, LogIs DEF LogKept, Written
<1>4. k <= Len(log')
    <2>1. k \in 1 .. Len(log) /\ Len(log) \in Nat
        BY LogIs DEF Written
    <2> QED
        BY <2>1 DEF LogKept
<1> QED
    BY <1>1, <1>3, <1>4 DEF Read, Linked

LEMMA ReadToStays ==
  ASSUME Written, Written', LogKept, NEW n \in 0 .. Len(log), ReadTo(n)
  PROVE  ReadTo(n)'
<1> SUFFICES ASSUME NEW m \in Of("memory")', m <= n PROVE Read(m)'
    BY DEF ReadTo
<1>1. Len(log) \in Nat
    BY LogIs DEF Written
<1>2. Len(log') \in Nat /\ Of("memory")' \subseteq 1 .. Len(log')
    BY DEF LogKept, Of
<1>3. m \in Of("memory")
    BY <1>1, <1>2 DEF LogKept
<1>4. Read(m)
    BY <1>3 DEF ReadTo
<1> QED
    BY <1>4, ReadStays

\* A batch that goes on without a gap
Batch(t) ==
  /\ t.todo # {} /\ t.todo \subseteq Of("memory")
  /\ \A x \in t.todo : t.mark < x /\ \A m \in Of("memory") : t.mark < m /\ m < x => m \in t.todo
  /\ \A m \in t.keys : Read(m)

CursorBound(t) == Going(t, {"extract", "cursor"}, "cursor")

LEMMA ExtractingIs ==
  Extracting <=> LET t == tick["evolve"]
                 IN /\ CursorBound(t) => t.mark <= Len(log) /\ ReadTo(t.mark)
                    /\ t.at = "extract" => Batch(t)
BY DEF Extracting, CursorBound, ReadTo, Batch

LEMMA BatchStays ==
  ASSUME Written, Written', LogKept, NEW t \in TickRecords, Batch(t)
  PROVE  Batch(t)'
<1>1. Len(log) \in Nat /\ Of("memory") \subseteq 1 .. Len(log)
    BY LogIs DEF Written
<1>2. Len(log') \in Nat /\ Of("memory")' \subseteq 1 .. Len(log') /\ Of("memory") \subseteq Of("memory")'
    BY DEF LogKept, Of
<1>3. ASSUME NEW x \in t.todo, NEW m \in Of("memory")', t.mark < m, m < x PROVE m \in t.todo
    <2>1. x <= Len(log) /\ x \in Nat /\ m \in Nat
        BY <1>1, <1>2 DEF Batch
    <2>2. m \in Of("memory")
        BY <1>1, <1>3, <2>1 DEF LogKept
    <2> QED
        BY <1>3, <2>2 DEF Batch
<1>4. ASSUME NEW m \in t.keys PROVE Read(m)'
    BY ReadStays DEF Batch
<1> QED
    BY <1>2, <1>3, <1>4 DEF Batch

\* The evolve tick does nothing.
LEMMA ExtractingStays ==
  ASSUME Written, Written', LogKept, Extracting, tick'["evolve"] = tick["evolve"]
  PROVE  Extracting'
<1>1. PICK t : t = tick["evolve"]
    OBVIOUS
<1>2. t \in TickRecords
    BY <1>1 DEF Written, EvolveTypes, Ticks
<1>3. CursorBound(t) => t.mark <= Len(log) /\ ReadTo(t.mark)
    BY <1>1, ExtractingIs
<1>4. CursorBound(t) => t.mark <= Len(log') /\ ReadTo(t.mark)'
    <2> SUFFICES ASSUME CursorBound(t) PROVE t.mark <= Len(log') /\ ReadTo(t.mark)'
        OBVIOUS
    <2>1. PICK n : n = t.mark
        OBVIOUS
    <2>2. n \in 0 .. Len(log) /\ ReadTo(n) /\ Len(log) \in Nat
        BY <1>2, <1>3, <2>1, LogIs DEF TickRecords, Written
    <2>3. ReadTo(n)'
        BY <2>2, ReadToStays
    <2> QED
        BY <2>1, <2>2, <2>3 DEF LogKept
<1>5. t.at = "extract" => Batch(t)'
    BY <1>1, <1>2, ExtractingIs, BatchStays
<1>6. tick'["evolve"] = t
    BY <1>1
<1> QED
    BY <1>4, <1>5, <1>6 DEF Extracting, CursorBound, ReadTo, Batch

\* The evolve tick is at work on the topics, or ends.
LEMMA ExtractingOver ==
  ASSUME ~CursorBound(tick'["evolve"])
  PROVE  Extracting'
BY DEF Extracting, CursorBound, Going

\* The evolve tick goes on to the cursor.
LEMMA ExtractingEnds ==
  ASSUME NEW r, tick'["evolve"] = r, r.at # "extract", r.mark <= Len(log'), ReadTo(r.mark)'
  PROVE  Extracting'
BY DEF Extracting, ReadTo

LEMMA ExtractingGoesOn ==
  ASSUME NEW r, tick'["evolve"] = r, r.mark <= Len(log'), ReadTo(r.mark)', Batch(r)'
  PROVE  Extracting'
BY DEF Extracting, ReadTo, Batch

\* A tick takes the first ones, and all of them when there is room.
LEMMA FirstOfIs ==
  ASSUME NEW S \in SUBSET Nat, IsFiniteSet(S), NEW n \in Nat
  PROVE  /\ FirstOf(S, n) \subseteq S
         /\ \A x \in FirstOf(S, n), y \in S : y < x => y \in FirstOf(S, n)
         /\ Cardinality(S) <= n => FirstOf(S, n) = S
<1> DEFINE Below(x) == {y \in S : y < x}
<1>1. FirstOf(S, n) = {x \in S : Cardinality(Below(x)) < n}
    BY DEF FirstOf
<1>2. \A x \in S : Below(x) \in SUBSET S /\ x \notin Below(x)
    OBVIOUS
<1>3. ASSUME NEW x \in S, NEW y \in S, y < x PROVE Below(y) \in SUBSET Below(x)
    <2>1. ASSUME NEW z \in S, z < y PROVE z < x
        BY <1>3, <2>1
    <2> QED
        BY <2>1
<1> HIDE DEF Below
<1>4. \A x \in S : /\ IsFiniteSet(Below(x)) /\ Cardinality(Below(x)) \in Nat
                   /\ Cardinality(Below(x)) < Cardinality(S)
    BY <1>2, FS_Subset, FS_CardinalityType
<1>5. ASSUME NEW x \in FirstOf(S, n), NEW y \in S, y < x PROVE y \in FirstOf(S, n)
    <2>1. x \in S /\ Cardinality(Below(x)) < n
        BY <1>1
    <2>2. Cardinality(Below(y)) <= Cardinality(Below(x))
        BY <1>3, <1>4, <1>5, <2>1, FS_Subset
    <2>3. Cardinality(Below(y)) < n
        BY <1>4, <2>1, <2>2
    <2> QED
        BY <1>1, <2>3
<1>6. ASSUME Cardinality(S) <= n PROVE FirstOf(S, n) = S
    <2>1. Cardinality(S) \in Nat
        BY FS_CardinalityType
    <2>2. \A x \in S : Cardinality(Below(x)) < n
        BY <1>4, <1>6, <2>1
    <2> QED
        BY <1>1, <2>2
<1> QED
    BY <1>1, <1>5, <1>6

LEMMA LogFinite == EvolveTypes => \A kind : IsFiniteSet(Of(kind))
<1> SUFFICES ASSUME EvolveTypes, NEW kind PROVE IsFiniteSet(Of(kind))
    OBVIOUS
<1>1. Of(kind) \in SUBSET (1 .. Len(log)) /\ Len(log) \in Nat
    BY LogIs
<1>2. IsFiniteSet(1 .. Len(log))
    BY <1>1, FS_Interval
<1> QED
    BY <1>1, <1>2, FS_Subset

LEMMA ReadEvolveStart ==
  ASSUME Written, Written', ReadInv, EvolveStart
  PROVE  Extracting'
<1>1. PICK s, r : s = Starting(graph') /\ r = Extracted(s)
    OBVIOUS
<1>2. tick'["evolve"] = r
    BY <1>1 DEF EvolveStart, Starting, Go, Written, EvolveTypes, Ticks
<1>3. /\ s \in TickRecords /\ s.at = "extract" /\ s.mark = evolveCursor
      /\ s.todo = FirstOf(Unprocessed, EvolveBatch)
      /\ s.keys = (UNION {Linked(t, graph') : t \in Topics}) \cap Unprocessed
    BY <1>1, StartingIs DEF Written
<1>4. log' = log /\ LogKept
    BY LogStepKeeps DEF EvolveStart, LogStep
<1>5. evolveCursor \in 0 .. Len(log) /\ Len(log) \in Nat /\ ReadTo(evolveCursor)
    BY LogIs DEF ReadInv, NothingUnread, ReadTo, Read, Written, EvolveTypes
<1>6. s.mark <= Len(log') /\ ReadTo(s.mark)'
    BY <1>3, <1>4, <1>5, ReadToStays
<1>7. CASE s.todo # {}
    <2>1. r = s
        BY <1>1, <1>3, <1>7, AfterMemory
    <2>2. Unprocessed \in SUBSET Nat /\ IsFiniteSet(Unprocessed) /\ EvolveBatch \in Nat
        <3>1. Unprocessed \in SUBSET Of("memory") /\ Of("memory") \subseteq Nat
            BY LogIs DEF Unprocessed, Written
        <3> QED
            BY <3>1, LogFinite, FS_Subset, EvolveAssumption DEF Written
    <2>3. /\ s.todo \subseteq Unprocessed
          /\ \A x \in s.todo, y \in Unprocessed : y < x => y \in s.todo
        BY <1>3, <2>2, FirstOfIs
    <2>4. ASSUME NEW m \in s.keys PROVE Read(m)
        <3>1. PICK t \in Topics : m \in Linked(t, graph')
            BY <1>3
        <3>2. PICK k \in Of("link") : log[k].source = m /\ log[k].topic = t
            BY <1>4, <3>1 DEF Linked
        <3>3. log[m].topic = log[k].topic
            BY <3>2 DEF Written, LinksTrue
        <3> QED
            BY <3>2, <3>3, ReadIs DEF Written
    <2>5. \A x \in s.todo : s.mark < x /\ \A m \in Of("memory") : s.mark < m /\ m < x => m \in s.todo
        <3>1. \A x \in Unprocessed : evolveCursor < x
            BY <1>5, <2>2 DEF Unprocessed
        <3>2. \A m \in Of("memory") : evolveCursor < m => m \in Unprocessed
            BY <1>5, LogIs DEF Unprocessed, Written
        <3> QED
            BY <1>3, <2>3, <3>1, <3>2
    <2>6. Batch(s)
        BY <1>7, <2>3, <2>4, <2>5 DEF Batch, Unprocessed
    <2>7. Batch(s)'
        BY <1>3, <1>4, <2>6, BatchStays
    <2> QED
        BY <1>2, <1>6, <2>1, <2>7, ExtractingGoesOn
<1>8. CASE s.todo = {}
    <2>1. r.at # "extract" /\ r.mark = s.mark
        BY <1>1, <1>3, <1>8, AfterMemory
    <2> QED
        BY <1>2, <1>6, <2>1, ExtractingEnds
<1> QED
    BY <1>7, <1>8

LEMMA ReadExtract ==
  ASSUME Written, Written', ReadInv, Extract
  PROVE  Extracting'
<1>1. PICK t, m, d : t = tick["evolve"] /\ m = Head1("evolve") /\ d = Dropped("evolve")
    OBVIOUS
<1>2. t \in TickRecords /\ t.at = "extract" /\ "evolve" \in Ticks /\ CursorBound(t)
    BY <1>1 DEF Written, EvolveTypes, Ticks, Extract, At, CursorBound, Going
<1>3. Batch(t) /\ t.mark <= Len(log) /\ ReadTo(t.mark)
    BY <1>1, <1>2, ExtractingIs DEF ReadInv
<1>4. m \in t.todo /\ \A y \in t.todo : m <= y
    BY <1>1, <1>2, <1>3, HeadIs DEF Batch, Written
<1>5. /\ Len(log) \in Nat /\ Of("memory") \subseteq 1 .. Len(log) /\ t.todo \subseteq Of("memory")
      /\ t.mark \in Nat /\ m \in Of("memory") /\ m \in Nat /\ t.mark < m /\ log[m].topic \in Topics
    BY <1>2, <1>3, <1>4, LogIs, EventShapes DEF Batch, Written, TickRecords
<1>6. PICK new \in BOOLEAN : /\ new <=> m \notin t.keys
                             /\ log' = IF new THEN Append(log, Link(log[m].topic, m)) ELSE log
                             /\ Go("evolve", Extracted([Dropped("evolve") EXCEPT !.mark = m, !.changed = @ \/ new]))
    BY <1>1 DEF Extract
<1>7. Link(log[m].topic, m) \in Events /\ Fits(Link(log[m].topic, m))
    BY <1>5 DEF Link, Events, Fits
<1>8. LogKept
    BY <1>6, <1>7, LogStepKeeps DEF LogStep, Appended
<1>9. Read(m)'
    <2>1. CASE new
        <3>1. PICK e : e = Link(log[m].topic, m)
            OBVIOUS
        <3>2. Appended(e) /\ e.kind = "link" /\ e.source = m /\ e.topic = log[m].topic
            BY <1>6, <1>7, <2>1, <3>1 DEF Appended, Link
        <3>3. GrownBy(e)
            BY <3>2, LogGrows DEF Written
        <3>4. PICK k : k = Len(log) + 1
            OBVIOUS
        <3>5. k \in Of("link")' /\ log'[k] = e /\ log'[m] = log[m] /\ k <= Len(log')
            BY <1>5, <3>2, <3>3, <3>4 DEF GrownBy
        <3> QED
            BY <3>2, <3>5 DEF Read, Linked
    <2>2. CASE ~new
        BY <1>3, <1>6, <1>8, <2>2, ReadStays DEF Batch
    <2> QED
        BY <2>1, <2>2
<1>10. m <= Len(log') /\ ReadTo(m)'
    <2>1. m <= Len(log')
        BY <1>5, <1>8 DEF LogKept
    <2>2. ASSUME NEW x \in Of("memory")', x <= m PROVE Read(x)'
        <3>1. x \in Nat /\ x \in Of("memory")
            <4>1. Len(log') \in Nat /\ Of("memory")' \subseteq 1 .. Len(log')
                BY <1>8 DEF LogKept, Of
            <4> QED
                BY <1>5, <1>8, <2>2, <4>1 DEF LogKept
        <3>2. CASE x <= t.mark
            BY <1>3, <1>8, <3>1, <3>2, ReadStays DEF ReadTo
        <3>3. CASE t.mark < x /\ x < m
            <4>1. x \in t.todo
                BY <1>3, <1>4, <3>1, <3>3 DEF Batch
            <4> QED
                BY <1>4, <1>5, <3>1, <3>3, <4>1
        <3>4. CASE x = m
            BY <1>9, <3>4
        <3> QED
            BY <1>5, <2>2, <3>1, <3>2, <3>3, <3>4
    <2> QED
        BY <2>1, <2>2 DEF ReadTo
<1>11. d \in TickRecords /\ d.todo = t.todo \ {m} /\ d.keys = t.keys /\ d.at = "extract"
    BY <1>1, <1>2, DroppedIs DEF Written
<1>12. PICK s, r : s = [d EXCEPT !.mark = m, !.changed = @ \/ new] /\ r = Extracted(s)
    OBVIOUS
<1>13. s \in TickRecords /\ s.todo = t.todo \ {m} /\ s.keys = t.keys /\ s.mark = m /\ s.at = "extract"
    BY <1>5, <1>11, <1>12 DEF TickRecords
<1>14. tick'["evolve"] = r
    BY <1>1, <1>2, <1>6, <1>12 DEF Go, Written, EvolveTypes
<1>15. CASE s.todo # {}
    <2>1. r = s
        BY <1>12, <1>13, <1>15, AfterMemory
    <2>2. \A x \in s.todo : m < x /\ \A y \in Of("memory") : m < y /\ y < x => y \in s.todo
        <3> SUFFICES ASSUME NEW x \in s.todo
                     PROVE  m < x /\ \A y \in Of("memory") : m < y /\ y < x => y \in s.todo
            OBVIOUS
        <3>1. x \in t.todo /\ x # m /\ x \in Nat /\ m < x
            BY <1>4, <1>5, <1>13
        <3>2. ASSUME NEW y \in Of("memory"), m < y, y < x PROVE y \in s.todo
            <4>1. y \in Nat /\ t.mark < y /\ y # m
                BY <1>5, <3>2
            <4>2. y \in t.todo
                BY <1>3, <3>1, <3>2, <4>1 DEF Batch
            <4> QED
                BY <1>13, <4>1, <4>2
        <3> QED
            BY <3>1, <3>2
    <2>3. Batch(s)
        BY <1>3, <1>13, <1>15, <2>2 DEF Batch
    <2>4. Batch(s)'
        BY <1>8, <1>13, <2>3, BatchStays
    <2> QED
        BY <1>10, <1>13, <1>14, <2>1, <2>4, ExtractingGoesOn
<1>16. CASE s.todo = {}
    <2>1. r.at # "extract" /\ r.mark = m
        BY <1>12, <1>13, <1>16, AfterMemory
    <2> QED
        BY <1>10, <1>14, <2>1, ExtractingEnds
<1> QED
    BY <1>15, <1>16

-----------------------------------------------------------------------------
(* Every step *)

LEMMA WrittenStep ==
  ASSUME Written, Extracting, Summarizing, [EvolveNext]_evolveVars
  PROVE  Written' /\ LogStep
<1>0. "evolve" \in Ticks /\ "reflect" \in Ticks
    BY DEF Ticks
<1>1. CASE \/ \E t \in Topics : Remember(t)
           \/ \E m \in DOMAIN log : RetireMemory(m)
           \/ Crash
           \/ UNCHANGED evolveVars
    BY <1>1, WrittenOther
<1>2. CASE EvolveStart
    BY <1>2, WrittenEvolveStart DEF EvolveStart, LogStep
<1>3. CASE ReflectStart
    BY <1>3, WrittenReflectStart DEF ReflectStart, LogStep
<1>4. CASE Extract \/ ExtractFails
    BY <1>4, WrittenExtract
<1>5. CASE AdvanceEvolveCursor
    <2>1. tick["evolve"].mark <= Len(log)
        BY <1>5 DEF AdvanceEvolveCursor, At, Extracting, Going
    <2> QED
        BY <1>5, <2>1, WrittenAdvanceEvolve DEF AdvanceEvolveCursor, LogStep
<1>6. CASE AdvanceSummarizeCursor
    <2>1. tick["evolve"].mark <= Len(log)
        BY <1>6 DEF AdvanceSummarizeCursor, At, Summarizing, Settling, Going
    <2> QED
        BY <1>6, <2>1, WrittenSettle DEF AdvanceSummarizeCursor, LogStep
<1>7. CASE SummarizeTopic \/ RefreshPage
    <2>1. PICK p \in Ticks : At(p, "topic") /\ Refresh(p)
        BY <1>0, <1>7 DEF SummarizeTopic, RefreshPage
    <2> QED
        BY <2>1, WrittenRefresh, RefreshIs DEF LogStep, Written
<1>8. CASE Compare("evolve") \/ Compare("reflect")
    BY <1>0, <1>8, WrittenCompare, CompareIs, LastIsCurrent DEF LogStep
<1>9. CASE EmitPage("evolve") \/ EmitPage("reflect")
    BY <1>0, <1>9, WrittenEmit, EmitPageIs DEF LogStep
<1>10. CASE RebuildRead("evolve") \/ RebuildWrite("evolve") \/ RebuildRead("reflect") \/ RebuildWrite("reflect")
    <2>1. PICK p \in Ticks : RebuildRead(p) \/ RebuildWrite(p)
        BY <1>0, <1>10
    <2> QED
        BY <2>1, WrittenRebuild DEF RebuildRead, RebuildWrite, LogStep
<1>11. CASE PassPage
    BY <1>11, WrittenPassPage DEF PassPage, LogStep
<1> QED
    BY <1>1, <1>2, <1>3, <1>4, <1>5, <1>6, <1>7, <1>8, <1>9, <1>10, <1>11
    DEF EvolveNext, EvolveStep, ReflectOn

LEMMA AfterTopicOver ==
  ASSUME NEW d \in TickRecords, NEW p \in Ticks
  PROVE  ~CursorBound(Refreshed(p, d))
<1>1. PICK r : r = Refreshed(p, d)
    OBVIOUS
<1>2. /\ r.at \notin {"extract", "cursor"}
      /\ \/ r = [d EXCEPT !.at = "topic"]
         \/ r.at = "settle" \/ (r.at = "read" /\ r.next = "settle")
         \/ r.at = "read" /\ r.next = "idle"
    BY <1>1, AfterTopic
<1>3. r = [d EXCEPT !.at = "topic"] => r.at = "topic"
    BY DEF TickRecords
<1> QED
    BY <1>1, <1>2, <1>3 DEF CursorBound, Going

LEMMA WentTo ==
  ASSUME Written, NEW p \in Ticks, NEW r, Go(p, r)
  PROVE  tick'[p] = r /\ \A q \in Ticks \ {p} : tick'[q] = tick[q]
BY DEF Written, EvolveTypes, Go

LEMMA ExtractingStep ==
  ASSUME Written, Written', LogKept, ReadInv, [EvolveNext]_evolveVars
  PROVE  Extracting'
<1>0. "evolve" \in Ticks /\ "reflect" \in Ticks \ {"evolve"} /\ "evolve" \in Ticks \ {"reflect"} /\ Extracting
    BY DEF Ticks, ReadInv
<1>1. CASE tick'["evolve"] = tick["evolve"]
    BY <1>0, <1>1, ExtractingStays
<1>2. ASSUME NEW r, Go("reflect", r) PROVE Extracting'
    BY <1>0, <1>1, <1>2, WentTo
<1>3. CASE \/ \E t \in Topics : Remember(t)
           \/ \E m \in DOMAIN log : RetireMemory(m)
           \/ UNCHANGED evolveVars
    BY <1>1, <1>3 DEF Remember, RetireMemory, evolveVars
<1>4. CASE Crash
    <2>1. tick'["evolve"] = Idle
        BY <1>0, <1>4 DEF Crash
    <2> QED
        BY <2>1, ExtractingOver DEF CursorBound, Going, Idle
<1>5. CASE EvolveStart
    BY <1>5, ReadEvolveStart
<1>6. CASE Extract
    BY <1>6, ReadExtract
<1>7. CASE ExtractFails
    <2>1. PICK t, s, r : t = tick["evolve"] /\ s = [t EXCEPT !.todo = {}] /\ r = Extracted(s)
        OBVIOUS
    <2>2. t \in TickRecords /\ t.mark <= Len(log) /\ ReadTo(t.mark)
        BY <1>0, <1>7, <2>1, ExtractingIs DEF ExtractFails, At, CursorBound, Going, Written, EvolveTypes
    <2>3. s \in TickRecords /\ s.todo = {} /\ s.mark = t.mark
        BY <2>1, <2>2 DEF TickRecords
    <2>4. r.at # "extract" /\ r.mark = t.mark
        BY <2>1, <2>3, AfterMemory
    <2>5. tick'["evolve"] = r /\ log' = log
        BY <1>0, <1>7, <2>1, WentTo DEF ExtractFails
    <2>6. t.mark \in 0 .. Len(log)
        BY <2>2, LogIs DEF TickRecords, Written
    <2>7. ReadTo(t.mark)'
        BY <2>2, <2>6, ReadToStays
    <2> QED
        BY <2>2, <2>4, <2>5, <2>7, ExtractingEnds
<1>8. ASSUME NEW d \in TickRecords, Go("evolve", Refreshed("evolve", d)) PROVE Extracting'
    BY <1>0, <1>8, WentTo, AfterTopicOver, ExtractingOver
<1>9. CASE AdvanceEvolveCursor
    <2>1. PICK s : s = Listing
        OBVIOUS
    <2>2. s \in TickRecords
        BY <2>1, ListingIs DEF Written
    <2> QED
        BY <1>8, <1>9, <2>1, <2>2 DEF AdvanceEvolveCursor, Listing
<1>10. CASE SummarizeTopic
    <2>1. ASSUME NEW f \in SUBSET Nat, Go("evolve", Composed("evolve", f)) PROVE Extracting'
        <3>1. PICK s : s = Composed("evolve", f)
            OBVIOUS
        <3>2. s.at = "compare" /\ tick'["evolve"] = s
            BY <1>0, <2>1, <3>1, ComposedIs, WentTo DEF Written
        <3> QED
            BY <3>2, ExtractingOver DEF CursorBound, Going
    <2>2. CASE Go("evolve", Refreshed("evolve", Passed("evolve")))
        <3>1. PICK s : s = Passed("evolve")
            OBVIOUS
        <3>2. s \in TickRecords
            BY <1>0, <3>1, PassedIs DEF Written
        <3> QED
            BY <1>8, <2>2, <3>1, <3>2
    <2> QED
        BY <1>0, <1>10, <2>1, <2>2, RefreshIs DEF SummarizeTopic, Written
<1>11. CASE AdvanceSummarizeCursor
    <2>1. PICK r : r = Rebuild(Idle, "idle")
        OBVIOUS
    <2>2. r.at = "read" /\ r.next = "idle"
        BY <2>1 DEF Rebuild, Idle
    <2>3. tick'["evolve"] = r
        BY <1>0, <1>11, <2>1, WentTo DEF AdvanceSummarizeCursor
    <2> QED
        BY <2>2, <2>3, ExtractingOver DEF CursorBound, Going
<1>12. CASE Compare("evolve")
    <2>1. CASE Go("evolve", Emitting("evolve"))
        <3>1. PICK s : s = Emitting("evolve")
            OBVIOUS
        <3>2. s.at = "emit" /\ tick'["evolve"] = s
            BY <1>0, <2>1, <3>1, EmittingIs, LastIsCurrent, WentTo
        <3> QED
            BY <3>2, ExtractingOver DEF CursorBound, Going
    <2>2. CASE Go("evolve", Refreshed("evolve", Kept("evolve")))
        <3>1. PICK s : s = Kept("evolve")
            OBVIOUS
        <3>2. s \in TickRecords
            BY <1>0, <3>1, KeptIs DEF Written
        <3> QED
            BY <1>8, <2>2, <3>1, <3>2
    <2> QED
        BY <1>0, <1>12, <2>1, <2>2, CompareIs
<1>13. CASE EmitPage("evolve")
    <2>1. PICK s : s = Emitted("evolve")
        OBVIOUS
    <2>2. s \in TickRecords
        BY <1>0, <2>1, EmittedIs DEF Written
    <2> QED
        BY <1>0, <1>8, <1>13, <2>1, <2>2, EmitPageIs
<1>14. ASSUME NEW s, Go("evolve", s), log' = log, s.at # "extract",
              CursorBound(s) => CursorBound(tick["evolve"]) /\ s.mark = tick["evolve"].mark
       PROVE  Extracting'
    <2>1. tick'["evolve"] = s
        BY <1>0, <1>14, WentTo
    <2>2. CASE CursorBound(s)
        <3>1. PICK n : n = s.mark
            OBVIOUS
        <3>2. n \in Nat /\ n <= Len(log) /\ ReadTo(n)
            BY <1>0, <1>14, <2>2, <3>1, ExtractingIs DEF Written, EvolveTypes, TickRecords
        <3>3. n \in 0 .. Len(log)
            BY <3>2, LogIs DEF Written
        <3>4. ReadTo(n)'
            BY <3>2, <3>3, ReadToStays
        <3> QED
            BY <1>14, <2>1, <3>1, <3>2, <3>4, ExtractingEnds
    <2>3. CASE ~CursorBound(s)
        BY <2>1, <2>3, ExtractingOver
    <2> QED
        BY <2>2, <2>3
<1>15. CASE RebuildRead("evolve")
    <2>1. PICK s : s = Reading("evolve")
        OBVIOUS
    <2>2. s.at = "write" /\ s.next = tick["evolve"].next /\ s.mark = tick["evolve"].mark
        BY <1>0, <2>1, ReadingIs DEF Written
    <2>3. Go("evolve", s) /\ log' = log /\ tick["evolve"].at = "read"
        BY <1>15, <2>1 DEF RebuildRead, Reading, At
    <2> QED
        BY <1>14, <2>2, <2>3 DEF CursorBound, Going
<1>16. CASE RebuildWrite("evolve")
    <2>1. PICK s : s = Folded("evolve")
        OBVIOUS
    <2>2. \/ s.at = "idle"
          \/ /\ s.at = tick["evolve"].next /\ s.at \in {"cursor", "settle"}
             /\ s.mark = tick["evolve"].mark
        BY <1>0, <2>1, FoldedIs DEF Written, Idle
    <2>3. Go("evolve", s) /\ log' = log /\ tick["evolve"].at = "write"
        BY <1>16, <2>1 DEF RebuildWrite, Folded, At
    <2> QED
        BY <1>14, <2>2, <2>3 DEF CursorBound, Going
<1>17. CASE ReflectStart \/ ReflectOn
    <2>1. \E r : Go("reflect", r)
        BY <1>17 DEF ReflectStart, ReflectOn, PassPage, RefreshPage, Refresh, Compose, ComposeUnread, ComposeFails,
                     SkipThin, Compare, EmitPage, RebuildRead, RebuildWrite
    <2> QED
        BY <1>2, <2>1
<1> QED
    BY <1>3, <1>4, <1>5, <1>6, <1>7, <1>9, <1>10, <1>11, <1>12, <1>13, <1>15, <1>16, <1>17
    DEF EvolveNext, EvolveStep

LEMMA ReadStep ==
  ASSUME Written, Written', LogKept, ReadInv, [EvolveNext]_evolveVars
  PROVE  ReadInv'
<1>1. Extracting'
    BY ExtractingStep
<1>2. ASSUME NEW n, n \in 0 .. Len(log), ReadTo(n), evolveCursor' = n PROVE NothingUnread'
    <2>1. ReadTo(n)'
        BY <1>2, ReadToStays
    <2> QED
        BY <1>2, <2>1 DEF NothingUnread, ReadTo, Read
<1>3. CASE evolveCursor' = evolveCursor
    <2>1. ReadTo(evolveCursor) /\ evolveCursor \in 0 .. Len(log)
        BY DEF ReadInv, NothingUnread, ReadTo, Read, Written, EvolveTypes
    <2> QED
        BY <1>1, <1>2, <1>3, <2>1 DEF ReadInv
<1>4. CASE AdvanceEvolveCursor
    <2>1. PICK n : n = tick["evolve"].mark
        OBVIOUS
    <2>2. n \in Nat /\ n <= Len(log) /\ ReadTo(n) /\ evolveCursor' = n
        BY <1>4, <2>1, ExtractingIs
        DEF AdvanceEvolveCursor, At, ReadInv, CursorBound, Going, Written, EvolveTypes, TickRecords, Ticks
    <2>3. n \in 0 .. Len(log)
        BY <2>2, LogIs DEF Written
    <2> QED
        BY <1>1, <1>2, <2>2, <2>3 DEF ReadInv
<1>5. evolveCursor' = evolveCursor \/ AdvanceEvolveCursor
    BY DEF EvolveNext, EvolveStep, ReflectOn, Remember, RetireMemory, Crash, EvolveStart, Extract, ExtractFails,
           SummarizeTopic, RefreshPage, Refresh, AdvanceSummarizeCursor, Compare, EmitPage, RebuildRead,
           RebuildWrite, ReflectStart, PassPage, evolveVars
<1> QED
    BY <1>3, <1>4, <1>5

-----------------------------------------------------------------------------
(* What a dossier shows *)

OwnPages(t) == {k \in Of("page") : log[k].topic = t}
Currents == [t \in Topics |-> CurrentPage(t, Len(log))]
CurrentsAreLast ==
  \A t \in Topics : /\ Currents[t] = 0 \/ Currents[t] \in OwnPages(t)
                    /\ \A k \in OwnPages(t) : k <= Currents[t]
Shows(c) == IF c = 0 THEN {} ELSE log[c].cites
CoveredByCurrents == Covered = [t \in Topics |-> Accounted \cup Shows(Currents[t])]

LEMMA CurrentsIs == Written => CurrentsAreLast /\ CoveredByCurrents
<1> SUFFICES ASSUME Written PROVE CurrentsAreLast /\ CoveredByCurrents
    OBVIOUS
<1>1. CoveredByCurrents
    BY DEF CoveredByCurrents, Covered, Currents, Cites, Shows
<1>2. ASSUME NEW t \in Topics
      PROVE  /\ Currents[t] = 0 \/ Currents[t] \in OwnPages(t)
             /\ \A k \in OwnPages(t) : k <= Currents[t]
    <2>1. Len(log) \in Nat /\ \A k \in Of("page") : k <= Len(log)
        BY LogIs DEF Written
    <2>2. LastOf(CurrentPage(t, Len(log)), t, Len(log))
        BY <2>1, LastIsCurrent DEF LastPages
    <2>3. PagesOf(t, Len(log)) = OwnPages(t)
        BY <2>1 DEF PagesOf, OwnPages
    <2> QED
        BY <2>2, <2>3 DEF LastOf, Currents
<1> QED
    BY <1>1, <1>2 DEF CurrentsAreLast

LEMMA CurrentsNext == Written' => CurrentsAreLast' /\ CoveredByCurrents'
BY CurrentsIs, PTL

LEMMA LastIsOne ==
  ASSUME NEW own \in SUBSET (Nat \ {0}), NEW c, NEW d,
         c = 0 \/ c \in own, \A k \in own : k <= c,
         d = 0 \/ d \in own, \A k \in own : k <= d
  PROVE  c = d
<1>1. c \in Nat /\ d \in Nat
    <2>1. own \subseteq Nat
        OBVIOUS
    <2>2. 0 \in Nat
        OBVIOUS
    <2> QED
        BY ONLY <2>1, <2>2, c = 0 \/ c \in own, d = 0 \/ d \in own
<1>2. c \in own => c <= d
    OBVIOUS
<1>3. d \in own => d <= c
    OBVIOUS
<1>4. \A k \in Nat \ {0} : k > 0
    OBVIOUS
<1>5. (c \in own => c > 0) /\ (d \in own => d > 0)
    BY <1>4
<1> QED
    BY <1>1, <1>2, <1>3, <1>4, <1>5

\* No page is written: what is shown stays so.
LEMMA CoverageStays ==
  ASSUME Written, Written', LogKept, Accounted \subseteq Accounted', Of("page")' = Of("page")
  PROVE  \A t \in Topics : Covered[t] \subseteq Covered'[t]
<1> SUFFICES ASSUME NEW t \in Topics PROVE Covered[t] \subseteq Covered'[t]
    OBVIOUS
<1>1. CurrentsAreLast /\ CoveredByCurrents /\ CurrentsAreLast' /\ CoveredByCurrents'
    BY CurrentsIs, CurrentsNext
<1>2. Of("page") \subseteq 1 .. Len(log) /\ Len(log) \in Nat
    BY LogIs DEF Written
<1>3. PICK own : own = OwnPages(t)
    OBVIOUS
<1>4. own \subseteq Nat \ {0} /\ own \subseteq 1 .. Len(log)
    BY <1>2, <1>3 DEF OwnPages
<1>5. own = OwnPages(t)'
    BY <1>2, <1>3 DEF OwnPages, LogKept
<1>6. PICK c, d : c = Currents[t] /\ d = Currents'[t]
    OBVIOUS
<1>7. (c = 0 \/ c \in own) /\ \A k \in own : k <= c
    BY <1>1, <1>3, <1>6 DEF CurrentsAreLast
<1>8. (d = 0 \/ d \in own) /\ \A k \in own : k <= d
    BY <1>1, <1>5, <1>6 DEF CurrentsAreLast, OwnPages
<1>9. c = d
    BY <1>4, <1>7, <1>8, LastIsOne
<1>10. Covered[t] = Accounted \cup (IF c = 0 THEN {} ELSE log[c].cites)
    BY <1>1, <1>6 DEF CoveredByCurrents, Shows
<1>11. Covered'[t] = Accounted' \cup (IF d = 0 THEN {} ELSE log'[d].cites)
    BY <1>1, <1>6 DEF CoveredByCurrents, Shows
<1>12. c # 0 => log'[c] = log[c]
    BY <1>4, <1>7 DEF LogKept
<1> QED
    BY <1>9, <1>10, <1>11, <1>12

\* A page is written: it is its topic's current one, and the excuse is for all it drops.
LEMMA EmitCovers ==
  ASSUME Written, Written', LogKept, Accounted \subseteq Accounted', NEW p \in Ticks, EmitPage(p)
  PROVE  /\ \A t \in Topics : Covered[t] \subseteq Covered'[t]
         /\ tick[p].facts \subseteq Covered'[Head1(p)]
         /\ Covered[Head1(p)] \subseteq tick[p].facts \cup Accounted'
<1>1. CurrentsAreLast /\ CoveredByCurrents /\ CurrentsAreLast' /\ CoveredByCurrents'
    BY CurrentsIs, CurrentsNext
<1>2. /\ Appended(Given(p)) /\ At(p, "emit")
      /\ Excuse(Cites(CurrentPage(Head1(p), Len(log))) \ tick[p].facts)
    BY EmitPageIs
<1>3. PICK e, h, facts, n : e = Given(p) /\ h = Head1(p) /\ facts = tick[p].facts /\ n = Len(log)
    OBVIOUS
<1>4. e.kind = "page" /\ e.topic = h /\ e.cites = facts /\ h \in Topics
    BY <1>2, <1>3, TopicIs DEF Given, Page, AtTopic, At
<1>5. GrownBy(e)
    BY <1>2, <1>3, LogGrows DEF Written
<1>6. Of("page") \subseteq 1 .. n /\ n \in Nat
    BY <1>3, LogIs DEF Written
<1>7. log'[n + 1] = e /\ Of("page")' = Of("page") \cup {n + 1} /\ \A k \in 1 .. n : log'[k] = log[k]
    BY <1>3, <1>4, <1>5 DEF GrownBy
<1>8. ASSUME NEW t \in Topics
      PROVE  /\ Covered[t] = Accounted \cup (IF Currents[t] = 0 THEN {} ELSE log[Currents[t]].cites)
             /\ Covered'[t] = Accounted' \cup (IF Currents'[t] = 0 THEN {} ELSE log'[Currents'[t]].cites)
    BY <1>1 DEF CoveredByCurrents, Shows
<1>9. Currents'[h] = n + 1
    <2>1. n + 1 \in OwnPages(h)' /\ \A k \in OwnPages(h)' : k <= n + 1
        BY <1>4, <1>6, <1>7 DEF OwnPages
    <2>2. /\ Currents'[h] = 0 \/ Currents'[h] \in OwnPages(h)'
          /\ \A k \in OwnPages(h)' : k <= Currents'[h]
        BY <1>1, <1>4 DEF CurrentsAreLast, OwnPages
    <2>3. OwnPages(h)' \subseteq Nat
        BY <1>6, <1>7 DEF OwnPages
    <2> QED
        BY <1>6, <2>1, <2>2, <2>3
<1>10. Covered'[h] = Accounted' \cup facts
    <2>1. n + 1 # 0
        BY <1>6
    <2> QED
        BY <1>4, <1>7, <1>8, <1>9, <2>1
<1>11. Covered[h] \subseteq facts \cup Accounted'
    <2>1. Covered[h] = Accounted \cup Cites(CurrentPage(h, Len(log)))
        BY <1>4 DEF Covered
    <2>2. Cites(CurrentPage(h, Len(log))) \subseteq facts \cup Gone \cup excused'
        BY <1>2, <1>3 DEF Excuse
    <2> QED
        BY <2>1, <2>2 DEF Accounted
<1>12. ASSUME NEW t \in Topics, t # h PROVE Covered[t] \subseteq Covered'[t]
    <2>1. PICK own : own = OwnPages(t)
        OBVIOUS
    <2>2. own \subseteq 1 .. n
        BY <1>6, <2>1 DEF OwnPages
    <2>3. own = OwnPages(t)'
        <3>1. \A k \in Of("page") : log'[k] = log[k]
            BY <1>6, <1>7
        <3> QED
            BY <1>4, <1>7, <1>12, <2>1, <3>1 DEF OwnPages
    <2>4. PICK c, d : c = Currents[t] /\ d = Currents'[t]
        OBVIOUS
    <2>5. (c = 0 \/ c \in own) /\ \A k \in own : k <= c
        BY <1>1, <2>1, <2>4 DEF CurrentsAreLast
    <2>6. (d = 0 \/ d \in own) /\ \A k \in own : k <= d
        BY <1>1, <2>3, <2>4 DEF CurrentsAreLast, OwnPages
    <2>7. c = d
        <3>1. own \in SUBSET (Nat \ {0})
            BY <1>6, <2>2
        <3> QED
            BY <2>5, <2>6, <3>1, LastIsOne
    <2>8. c # 0 => log'[c] = log[c]
        BY <1>7, <2>2, <2>5
    <2> QED
        BY <1>8, <2>4, <2>7, <2>8
<1> QED
    BY <1>3, <1>4, <1>10, <1>11, <1>12

LEMMA AccountedGrows ==
  ASSUME Written, LogKept, [EvolveNext]_evolveVars
  PROVE  Accounted \subseteq Accounted' /\ Gone \subseteq Gone'
<1>1. Gone \subseteq Gone'
    <2>1. Of("retire") \subseteq 1 .. Len(log)
        BY LogIs DEF Written
    <2>2. \A k \in Of("retire") : k \in Of("retire")' /\ log'[k] = log[k]
        BY <2>1 DEF LogKept
    <2> QED
        BY <2>2 DEF Gone
<1>2. ASSUME NEW m \in DOMAIN log, RetireMemory(m) PROVE Accounted \subseteq Accounted'
    <2>1. Retire(m) \in Events /\ log' = Append(log, Retire(m)) /\ excused' = excused \ {m}
        BY <1>2, LogIs DEF RetireMemory, Retire, Events, Written
    <2>2. PICK e : e = Retire(m)
        OBVIOUS
    <2>3. GrownBy(e) /\ e.kind = "retire" /\ e.source = m
        BY <2>1, <2>2, LogGrows DEF Appended, Retire, Written
    <2>4. m \in Gone'
        BY <2>3 DEF GrownBy, Gone
    <2> QED
        BY <1>1, <2>1, <2>4 DEF Accounted
<1>3. (\E m \in DOMAIN log : RetireMemory(m)) \/ excused \subseteq excused'
    BY DEF EvolveNext, EvolveStep, ReflectOn, Remember, Crash, EvolveStart, Extract, ExtractFails,
           AdvanceEvolveCursor, SummarizeTopic, RefreshPage, Refresh, Compose, ComposeUnread,
           ComposeFails, SkipThin, Excuse, AdvanceSummarizeCursor, Compare, EmitPage, RebuildRead, RebuildWrite, ReflectStart, PassPage, evolveVars
<1> QED
    BY <1>1, <1>2, <1>3 DEF Accounted

-----------------------------------------------------------------------------
(* The summarize cursor only passes what is shown. *)

CoverageKept == Accounted \subseteq Accounted' /\ \A t \in Topics : Covered[t] \subseteq Covered'[t]

LEMMA OldLink ==
  ASSUME Written, LogKept, NEW n \in 0 .. Len(log), NEW k \in Of("link")', k <= n
  PROVE  k \in Of("link") /\ log'[k] = log[k] /\ log[k].topic \in Topics
<1>1. Len(log) \in Nat /\ Of("link") \subseteq 1 .. Len(log)
    BY LogIs DEF Written
<1>2. k \in Nat
    BY DEF LogKept, Of
<1>3. k \in Of("link")
    BY <1>1, <1>2 DEF LogKept
<1> QED
    BY <1>1, <1>3, EventShapes DEF LogKept, Written

LEMMA ShownToStays ==
  ASSUME Written, LogKept, CoverageKept, NEW n \in 0 .. Len(log), ShownTo(n)
  PROVE  ShownTo(n)'
<1> SUFFICES ASSUME NEW k \in Of("link")', k <= n PROVE log'[k].source \in Covered'[log'[k].topic]
    BY DEF ShownTo, Shown
<1>1. k \in Of("link") /\ log'[k] = log[k] /\ log[k].topic \in Topics
    BY OldLink
<1>2. log[k].source \in Covered[log[k].topic]
    BY <1>1 DEF ShownTo, Shown
<1> QED
    BY <1>1, <1>2 DEF CoverageKept

LEMMA ToShowNext ==
  ASSUME Written, LogKept, CoverageKept, NEW t \in TickRecords, NEW s \in TickRecords,
         t.mark <= Len(log), ToShow(t), s.mark = t.mark, s.drained = t.drained,
         \A k \in Of("link") : k <= t.mark /\ log[k].topic \in t.todo
                               => log[k].topic \in s.todo \/ log[k].source \in Covered'[log[k].topic]
  PROVE  ToShow(s)'
<1> SUFFICES ASSUME s.drained, NEW k \in Of("link")', k <= s.mark
             PROVE  log'[k].topic \in s.todo \/ log'[k].source \in Covered'[log'[k].topic]
    BY DEF ToShow, Shown
<1>1. PICK n : n = t.mark
    OBVIOUS
<1>2. n \in 0 .. Len(log) /\ k <= n
    BY <1>1, LogIs DEF TickRecords, Written
<1>3. k \in Of("link") /\ log'[k] = log[k] /\ log[k].topic \in Topics
    BY <1>2, OldLink
<1>4. log[k].topic \in t.todo \/ log[k].source \in Covered[log[k].topic]
    BY <1>1, <1>2, <1>3 DEF ToShow, Shown
<1> QED
    BY <1>1, <1>2, <1>3, <1>4 DEF CoverageKept

LEMMA GatheredNext ==
  ASSUME Written, LogKept, CoverageKept, NEW t \in TickRecords, NEW s \in TickRecords,
         t.mark <= Len(log), Gathered(t), s.mark = t.mark, s.todo = t.todo, s.facts = t.facts
  PROVE  Gathered(s)'
<1> SUFFICES ASSUME NEW k \in Of("link")', k <= s.mark, log'[k].topic = Min(s.todo)
             PROVE  log'[k].source \in s.facts \cup Accounted'
    BY DEF Gathered
<1>1. PICK n : n = t.mark
    OBVIOUS
<1>2. n \in 0 .. Len(log) /\ k <= n
    BY <1>1, LogIs DEF TickRecords, Written
<1>3. k \in Of("link") /\ log'[k] = log[k]
    BY <1>2, OldLink
<1>4. log[k].source \in t.facts \cup Accounted
    BY <1>1, <1>2, <1>3 DEF Gathered
<1> QED
    BY <1>3, <1>4 DEF CoverageKept

LEMMA SummarizingOver ==
  ASSUME ~Settling(tick'["evolve"])
  PROVE  Summarizing'
BY DEF Summarizing, Settling, Going

LEMMA SummarizingOn ==
  ASSUME NEW r, tick'["evolve"] = r, r.mark <= Len(log'), r.spent = 0, ToShow(r)',
         Going(r, {"settle"}, "settle") => r.todo = {},
         r.at \in {"compare", "emit"} => Gathered(r)'
  PROVE  Summarizing'
<1>1. ToShow(tick["evolve"])'
    BY DEF ToShow
<1>2. r.at \in {"compare", "emit"} => Gathered(tick["evolve"])'
    BY DEF Gathered
<1> QED
    BY <1>1, <1>2 DEF Summarizing

LEMMA SummarizingAfterTopic ==
  ASSUME NEW d \in TickRecords, tick'["evolve"] = Refreshed("evolve", d),
         d.mark <= Len(log'), d.spent = 0, ToShow(d)'
  PROVE  Summarizing'
<1>1. PICK r : r = Refreshed("evolve", d)
    OBVIOUS
<1>2. "evolve" \in Ticks /\ 0 < RefreshCap
    BY EvolveAssumption DEF Ticks
<1>3. /\ r \in TickRecords
      /\ \/ r = [d EXCEPT !.at = "topic"]
         \/ /\ d.todo = {} /\ r.todo = {} /\ r.mark = d.mark /\ r.drained = d.drained /\ r.spent = d.spent
            /\ (r.at = "settle" \/ (r.at = "read" /\ r.next = "settle"))
    BY <1>1, <1>2, AfterTopic
<1>4. r = [d EXCEPT !.at = "topic"] =>
        r.at = "topic" /\ r.todo = d.todo /\ r.mark = d.mark /\ r.drained = d.drained /\ r.spent = d.spent
    BY DEF TickRecords
<1>5. r.todo = d.todo /\ r.mark = d.mark /\ r.drained = d.drained /\ r.spent = d.spent
    BY <1>3, <1>4
<1>6. ToShow(r)'
    BY <1>5 DEF ToShow
<1>7. Going(r, {"settle"}, "settle") => r.todo = {}
    BY <1>3, <1>4 DEF Going
<1>8. r.at \notin {"compare", "emit"}
    BY <1>3, <1>4
<1> QED
    BY <1>1, <1>5, <1>6, <1>7, <1>8, SummarizingOn

\* The evolve tick does nothing.
LEMMA SummarizingStays ==
  ASSUME Written, LogKept, CoverageKept, Summarizing, tick'["evolve"] = tick["evolve"]
  PROVE  Summarizing'
<1>1. PICK t : t = tick["evolve"]
    OBVIOUS
<1>2. t \in TickRecords /\ tick'["evolve"] = t
    BY <1>1 DEF Written, EvolveTypes, Ticks
<1>3. CASE ~Settling(t)
    BY <1>2, <1>3, SummarizingOver
<1>4. CASE Settling(t)
    <2>1. t.mark <= Len(log) /\ t.spent = 0 /\ ToShow(t)
        BY <1>1, <1>4 DEF Summarizing
    <2>2. t.mark <= Len(log')
        BY <1>2, <2>1, LogIs DEF TickRecords, LogKept, Written
    <2>3. ToShow(t)'
        BY <1>2, <2>1, ToShowNext
    <2>4. t.at \in {"compare", "emit"} => Gathered(t)'
        BY <1>1, <1>2, <2>1, GatheredNext DEF Summarizing
    <2>5. Going(t, {"settle"}, "settle") => t.todo = {}
        BY <1>1 DEF Summarizing
    <2> QED
        BY <1>2, <2>1, <2>2, <2>3, <2>4, <2>5, SummarizingOn
<1> QED
    BY <1>3, <1>4

LEMMA SummarizingListing ==
  ASSUME Written, LogKept, CoverageKept, SummaryInv, AdvanceEvolveCursor
  PROVE  Summarizing'
<1>1. PICK s : s = Listing
    OBVIOUS
<1>2. /\ s \in TickRecords /\ s.todo = FirstOf(Dirty, SummaryBatch) /\ s.spent = 0
      /\ s.mark \in 0 .. Len(log) /\ (s.drained <=> Cardinality(Dirty) <= SummaryBatch)
      /\ \A k \in Of("link") : k <= s.mark => k <= summarizeCursor \/ log[k].topic \in Dirty
    BY <1>1, ListingIs DEF Written
<1>3. tick'["evolve"] = Refreshed("evolve", s) /\ log' = log
    BY <1>1, WentTo DEF AdvanceEvolveCursor, Listing, Ticks
<1>4. s.drained => s.todo = Dirty
    <2>1. Dirty \in SUBSET Topics /\ Dirty \in SUBSET Nat /\ SummaryBatch \in Nat
        BY EventShapes, EvolveAssumption DEF Written
    <2>2. IsFiniteSet(Dirty)
        BY <2>1, EvolveAssumption, FS_Subset
    <2> QED
        BY <1>2, <2>1, <2>2, FirstOfIs
<1>5. ToShow(s)
    BY <1>2, <1>4 DEF ToShow, SummaryInv, ShownTo
<1>6. s.mark <= Len(log)
    BY <1>2, LogIs DEF Written
<1>7. ToShow(s)'
    BY <1>2, <1>5, <1>6, ToShowNext
<1> QED
    BY <1>2, <1>3, <1>6, <1>7, SummarizingAfterTopic

\* Whatever evolve does with a topic, it takes in or excuses all its links.
LEMMA RefreshTakesAll ==
  ASSUME EvolveTypes, Refresh("evolve")
  PROVE  \/ \E f \in SUBSET Nat :
              /\ Go("evolve", Composed("evolve", f))
              /\ Linked(Head1("evolve"), Len(log)) \subseteq f \cup Gone \cup excused'
         \/ /\ Go("evolve", Refreshed("evolve", Passed("evolve")))
            /\ Linked(Head1("evolve"), Len(log)) \subseteq Gone \cup excused'
<1>1. PICK h : h = Head1("evolve")
    OBVIOUS
<1>2. CASE Compose("evolve", h)
    <2>1. excused' = excused \cup ((Linked(h, Len(log)) \ Linked(h, graph)) \ Gone)
        BY <1>2 DEF Compose, Excuse
    <2>2. Linked(h, Len(log)) \subseteq Facts(h) \cup Gone \cup excused'
        BY <2>1 DEF Facts
    <2>3. Facts(h) \in SUBSET Nat
        BY EventShapes
    <2> QED
        BY <1>1, <1>2, <2>2, <2>3 DEF Compose, Composed
<1>3. CASE ComposeFails("evolve", h)
    <2>1. excused' = excused \cup (Linked(h, Len(log)) \ Gone)
        BY <1>3 DEF ComposeFails, Excuse
    <2>2. Linked(h, Len(log)) \subseteq Gone \cup excused'
        BY <2>1
    <2> QED
        BY <1>1, <1>3, <2>2 DEF ComposeFails, Passed
<1>5. CASE ComposeUnread("evolve", h)
    <2>1. PICK f \in SUBSET Facts(h) :
            /\ Go("evolve", [tick["evolve"] EXCEPT !.at = "compare", !.facts = f,
                                                  !.spent = Spend("evolve")])
            /\ excused' = excused \cup ((Linked(h, Len(log)) \ f) \ Gone)
        BY <1>5 DEF ComposeUnread, Excuse
    <2>2. Linked(h, Len(log)) \subseteq f \cup Gone \cup excused'
        BY <2>1
    <2>3. f \in SUBSET Nat
        BY <2>1, EventShapes
    <2> QED
        BY <1>1, <2>1, <2>2, <2>3 DEF Composed
<1>4. CASE SkipThin("evolve", h)
    <2>1. /\ excused' = excused \cup ((Linked(h, Len(log)) \ Linked(h, graph)) \ Gone)
          /\ Linked(h, graph) \ Gone = {}
        BY <1>4 DEF SkipThin, Thin, Facts, Excuse
    <2>2. Linked(h, Len(log)) \subseteq Gone \cup excused'
        BY <2>1
    <2> QED
        BY <1>1, <1>4, <2>2 DEF SkipThin, Passed
<1> QED
    BY <1>1, <1>2, <1>3, <1>4, <1>5 DEF Refresh

LEMMA LinkOf ==
  ASSUME Written, NEW k \in Of("link")
  PROVE  log[k].source \in Linked(log[k].topic, Len(log)) /\ log[k].topic \in Topics
<1>1. k <= Len(log)
    BY LogIs DEF Written
<1> QED
    BY <1>1, EventShapes DEF Linked, Written

\* The evolve tick is done with the topic at hand, and shows all of it.
LEMMA TopicDone ==
  ASSUME Written, LogKept, CoverageKept, Summarizing, AtTopic("evolve"), NEW s \in TickRecords,
         Go("evolve", Refreshed("evolve", s)), s.todo = tick["evolve"].todo \ {Head1("evolve")},
         s.mark = tick["evolve"].mark, s.drained = tick["evolve"].drained, s.spent = 0,
         \A k \in Of("link") : k <= tick["evolve"].mark /\ log[k].topic = Head1("evolve")
                                 => log[k].source \in Covered'[log[k].topic]
  PROVE  Summarizing'
<1>1. PICK t : t = tick["evolve"]
    OBVIOUS
<1>2. t \in TickRecords /\ "evolve" \in Ticks /\ Settling(t)
    BY <1>1 DEF Written, EvolveTypes, Ticks, Settling, Going, AtTopic
<1>3. t.mark <= Len(log) /\ ToShow(t)
    BY <1>1, <1>2 DEF Summarizing
<1>4. \A k \in Of("link") : k <= t.mark /\ log[k].topic \in t.todo
                            => log[k].topic \in s.todo \/ log[k].source \in Covered'[log[k].topic]
    BY <1>1
<1>5. ToShow(s)'
    BY <1>1, <1>2, <1>3, <1>4, ToShowNext
<1>6. s.mark <= Len(log')
    BY <1>1, <1>2, <1>3, LogIs DEF TickRecords, LogKept, Written
<1>7. tick'["evolve"] = Refreshed("evolve", s)
    BY <1>2, WentTo
<1> QED
    BY <1>5, <1>6, <1>7, SummarizingAfterTopic

\* The evolve tick goes on with the topic at hand.
LEMMA TopicGoesOn ==
  ASSUME Written, LogKept, CoverageKept, Summarizing, AtTopic("evolve"), NEW s \in TickRecords,
         Go("evolve", s), s.at \in {"compare", "emit"}, s.todo = tick["evolve"].todo,
         s.mark = tick["evolve"].mark, s.drained = tick["evolve"].drained, s.spent = 0, Gathered(s)'
  PROVE  Summarizing'
<1>1. PICK t : t = tick["evolve"]
    OBVIOUS
<1>2. t \in TickRecords /\ "evolve" \in Ticks /\ Settling(t)
    BY <1>1 DEF Written, EvolveTypes, Ticks, Settling, Going, AtTopic
<1>3. t.mark <= Len(log) /\ ToShow(t)
    BY <1>1, <1>2 DEF Summarizing
<1>4. ToShow(s)'
    BY <1>1, <1>2, <1>3, ToShowNext
<1>5. s.mark <= Len(log')
    BY <1>1, <1>2, <1>3, LogIs DEF TickRecords, LogKept, Written
<1>6. tick'["evolve"] = s
    BY <1>2, WentTo
<1>7. ~Going(s, {"settle"}, "settle")
    BY DEF Going
<1> QED
    BY <1>4, <1>5, <1>6, <1>7, SummarizingOn

LEMMA SummarizingRefresh ==
  ASSUME Written, LogKept, CoverageKept, Summarizing, Gone \subseteq Gone', SummarizeTopic
  PROVE  Summarizing'
<1>0. "evolve" \in Ticks /\ AtTopic("evolve") /\ Refresh("evolve") /\ log' = log
    BY DEF Ticks, AtTopic, SummarizeTopic, At, Refresh
<1>1. PICK h : h = Head1("evolve")
    OBVIOUS
<1>2. ASSUME NEW f \in SUBSET Nat, Go("evolve", Composed("evolve", f)),
             Linked(h, Len(log)) \subseteq f \cup Gone \cup excused'
      PROVE  Summarizing'
    <2>1. PICK s : s = Composed("evolve", f)
        OBVIOUS
    <2>2. /\ s \in TickRecords /\ s.at = "compare" /\ s.todo = tick["evolve"].todo
          /\ s.mark = tick["evolve"].mark /\ s.drained = tick["evolve"].drained /\ s.facts = f
          /\ s.spent = 0
        <3>1. EvolveTypes
            BY DEF Written
        <3>2. f \in SUBSET Nat
            BY <1>2
        <3>3. "evolve" \in Ticks
            BY <1>0
        <3> QED
            BY <2>1, <3>1, <3>2, <3>3, ComposedIs
    <2>3. Gathered(s)'
        <3> SUFFICES ASSUME NEW k \in Of("link")', log'[k].topic = Min(s.todo)
                     PROVE  log'[k].source \in s.facts \cup Accounted'
            BY DEF Gathered
        <3>1. k \in Of("link") /\ log'[k] = log[k] /\ log[k].topic = h
            BY <1>0, <1>1, <2>2 DEF Of, Head1
        <3>2. log[k].source \in Linked(h, Len(log))
            BY <3>1, LinkOf
        <3> QED
            BY <1>2, <2>2, <3>1, <3>2 DEF Accounted
    <2> QED
        BY <1>0, <1>2, <2>1, <2>2, <2>3, TopicGoesOn
<1>3. CASE /\ Go("evolve", Refreshed("evolve", Passed("evolve")))
           /\ Linked(h, Len(log)) \subseteq Gone \cup excused'
    <2>1. PICK s : s = Passed("evolve")
        OBVIOUS
    <2>2. /\ s \in TickRecords /\ s.todo = tick["evolve"].todo \ {h} /\ s.spent = 0
          /\ s.mark = tick["evolve"].mark /\ s.drained = tick["evolve"].drained
        BY <1>0, <1>1, <2>1, PassedIs DEF Written
    <2>3. ASSUME NEW k \in Of("link"), log[k].topic = h PROVE log[k].source \in Covered'[log[k].topic]
        <3>1. log[k].source \in Linked(h, Len(log)) /\ h \in Topics
            BY <2>3, LinkOf
        <3>2. log[k].source \in Accounted'
            BY <1>3, <3>1 DEF Accounted
        <3>3. Accounted' \subseteq Covered'[h]
            BY <3>1 DEF Covered
        <3> QED
            BY <2>3, <3>2, <3>3
    <2> QED
        BY <1>0, <1>1, <1>3, <2>1, <2>2, <2>3, TopicDone
<1> QED
    BY <1>0, <1>1, <1>2, <1>3, RefreshTakesAll DEF Written

\* What any earlier page of a topic cites is shown.
LEMMA EarlierShown ==
  ASSUME Written, PagesKeep, NEW t \in Topics, NEW k, PageBefore(k, t)
  PROVE  log[k].cites \subseteq Covered[t]
<1>1. CurrentsAreLast /\ CoveredByCurrents
    BY CurrentsIs
<1>2. PICK c : c = Currents[t]
    OBVIOUS
<1>3. k \in OwnPages(t) /\ k \in Nat /\ k > 0
    BY LogIs DEF PageBefore, OwnPages, Written
<1>4. k <= c /\ (c = 0 \/ c \in OwnPages(t))
    BY <1>1, <1>2, <1>3 DEF CurrentsAreLast
<1>5. c \in Of("page") /\ log[c].topic = t /\ c \in Nat /\ c # 0
    BY <1>3, <1>4, LogIs DEF OwnPages, Written
<1>6. Covered[t] = Accounted \cup log[c].cites
    BY <1>1, <1>2, <1>5 DEF CoveredByCurrents, Shows
<1>7. CASE k = c
    BY <1>6, <1>7
<1>8. CASE k < c
    BY <1>3, <1>5, <1>6, <1>8 DEF PagesKeep, PageBefore
<1> QED
    BY <1>3, <1>4, <1>5, <1>7, <1>8

LEMMA SummarizingCompare ==
  ASSUME Written, LogKept, CoverageKept, SummaryInv, Compare("evolve")
  PROVE  Summarizing'
<1>0. "evolve" \in Ticks /\ At("evolve", "compare") /\ AtTopic("evolve") /\ log' = log
    BY DEF Ticks, AtTopic, At, Compare
<1>1. PICK t, h : t = tick["evolve"] /\ h = Head1("evolve")
    OBVIOUS
<1>2. /\ t \in TickRecords /\ Gathered(t) /\ t.mark <= Len(log) /\ t.spent = 0 /\ Settling(t)
      /\ h \in Topics /\ Summarizing
    <2>1. t \in TickRecords /\ h \in Topics
        BY <1>0, <1>1, TopicIs DEF Written, EvolveTypes
    <2>2. Settling(t) /\ t.at = "compare"
        BY <1>0, <1>1 DEF Settling, Going, At
    <2> QED
        BY <1>1, <2>1, <2>2 DEF SummaryInv, Summarizing
<1>3. CASE Go("evolve", Emitting("evolve"))
    <2>1. PICK s : s = Emitting("evolve")
        OBVIOUS
    <2>2. /\ s \in TickRecords /\ s.at = "emit" /\ s.todo = t.todo /\ s.mark = t.mark
          /\ s.drained = t.drained /\ s.spent = 0 /\ s.facts = t.facts
        BY <1>0, <1>1, <1>2, <2>1, EmittingIs, LastIsCurrent
    <2>3. Gathered(s)'
        BY <1>2, <2>2, GatheredNext
    <2> QED
        BY <1>0, <1>1, <1>2, <1>3, <2>1, <2>2, <2>3, TopicGoesOn
<1>4. CASE /\ Prior("evolve") # 0 /\ Cites(Prior("evolve")) = t.facts
           /\ Go("evolve", Refreshed("evolve", Kept("evolve")))
    <2>1. PICK s : s = Kept("evolve")
        OBVIOUS
    <2>2. /\ s \in TickRecords /\ s.todo = t.todo \ {h} /\ s.mark = t.mark
          /\ s.drained = t.drained /\ s.spent = 0
        BY <1>0, <1>1, <1>2, <2>1, KeptIs DEF Written
    <2>3. PageBefore(Prior("evolve"), h)
        BY <1>0, <1>1, <1>4, EmittingIs, LastIsCurrent
    <2>4. t.facts \subseteq Covered[h]
        BY <1>2, <1>4, <2>3, EarlierShown DEF SummaryInv, Cites
    <2>5. Accounted \subseteq Covered[h]
        BY <1>2 DEF Covered
    <2>6. ASSUME NEW k \in Of("link"), k <= t.mark, log[k].topic = h
          PROVE  log[k].source \in Covered'[log[k].topic]
        <3>1. log[k].source \in t.facts \cup Accounted
            BY <1>1, <1>2, <2>6 DEF Gathered, Head1
        <3> QED
            BY <1>2, <2>4, <2>5, <2>6, <3>1 DEF CoverageKept
    <2> QED
        BY <1>0, <1>1, <1>2, <1>4, <2>1, <2>2, <2>6, TopicDone
<1> QED
    BY <1>0, <1>1, <1>3, <1>4, CompareIs

LEMMA SummarizingEmit ==
  ASSUME Written, Written', LogKept, CoverageKept, SummaryInv, EmitPage("evolve")
  PROVE  Summarizing'
<1>0. "evolve" \in Ticks /\ At("evolve", "emit") /\ AtTopic("evolve")
    BY DEF Ticks, AtTopic, At, EmitPage
<1>1. PICK t, h : t = tick["evolve"] /\ h = Head1("evolve")
    OBVIOUS
<1>2. /\ t \in TickRecords /\ Gathered(t) /\ t.mark <= Len(log) /\ t.spent = 0 /\ h \in Topics /\ Summarizing
    <2>1. t \in TickRecords /\ h \in Topics
        BY <1>0, <1>1, TopicIs DEF Written, EvolveTypes
    <2>2. Settling(t) /\ t.at = "emit"
        BY <1>0, <1>1 DEF Settling, Going, At
    <2> QED
        BY <1>1, <2>1, <2>2 DEF SummaryInv, Summarizing
<1>3. PICK s : s = Emitted("evolve")
    OBVIOUS
<1>4. /\ s \in TickRecords /\ s.todo = t.todo \ {h} /\ s.mark = t.mark
      /\ s.drained = t.drained /\ s.spent = 0
    BY <1>0, <1>1, <1>2, <1>3, EmittedIs DEF Written
<1>5. Go("evolve", Refreshed("evolve", s))
    BY <1>0, <1>3, EmitPageIs
<1>6. t.facts \subseteq Covered'[h]
    BY <1>0, <1>1, EmitCovers DEF CoverageKept
<1>7. Accounted' \subseteq Covered'[h]
    BY <1>2 DEF Covered
<1>8. ASSUME NEW k \in Of("link"), k <= t.mark, log[k].topic = h
      PROVE  log[k].source \in Covered'[log[k].topic]
    <2>1. log[k].source \in t.facts \cup Accounted
        BY <1>1, <1>2, <1>8 DEF Gathered, Head1
    <2> QED
        BY <1>6, <1>7, <1>8, <2>1 DEF CoverageKept
<1> QED
    BY <1>0, <1>1, <1>2, <1>4, <1>5, <1>8, TopicDone

\* A page is written, or none is.
LEMMA PagesKeepStep ==
  ASSUME Written, Written', LogKept, CoverageKept, PagesKeep,
         \/ Of("page")' = Of("page")
         \/ \E p \in Ticks : EmitPage(p)
  PROVE  PagesKeep'
<1>0. Len(log) \in Nat /\ Of("page") \subseteq 1 .. Len(log) /\ \A k \in Of("page") : log'[k] = log[k]
    <2>1. Len(log) \in Nat /\ Of("page") \subseteq 1 .. Len(log)
        BY LogIs DEF Written
    <2> QED
        BY <2>1 DEF LogKept
<1>1. CASE Of("page")' = Of("page")
    BY <1>0, <1>1 DEF PagesKeep, CoverageKept
<1>2. ASSUME NEW p \in Ticks, EmitPage(p) PROVE PagesKeep'
    <2>1. PICK e, h, n : e = Given(p) /\ h = Head1(p) /\ n = Len(log)
        OBVIOUS
    <2>2. Appended(e) /\ e.kind = "page" /\ e.topic = h /\ e.cites = tick[p].facts /\ h \in Topics
        <3>1. Appended(e) /\ AtTopic(p)
            BY <1>2, <2>1, EmitPageIs DEF AtTopic, At
        <3> QED
            BY <2>1, <3>1, TopicIs DEF Given, Page
    <2>3. log'[n + 1] = e /\ Of("page")' = Of("page") \cup {n + 1}
        BY <2>1, <2>2, LogGrows DEF GrownBy, Written
    <2>4. Covered[h] \subseteq e.cites \cup Accounted'
        BY <1>2, <2>1, <2>2, EmitCovers DEF CoverageKept
    <2> SUFFICES ASSUME NEW k \in Of("page")', NEW l \in Of("page")', k < l, log'[k].topic = log'[l].topic
                 PROVE  log'[k].cites \subseteq log'[l].cites \cup Accounted'
        BY DEF PagesKeep
    <2>5. k \in Nat /\ l \in Nat /\ k <= n + 1 /\ l <= n + 1 /\ n \in Nat
        BY <1>0, <2>1, <2>3
    <2>6. k \in Of("page")
        BY <2>3, <2>5
    <2>7. CASE l \in Of("page")
        BY <1>0, <2>6, <2>7 DEF PagesKeep, CoverageKept
    <2>8. CASE l = n + 1
        <3>1. PageBefore(k, h)
            BY <1>0, <2>2, <2>3, <2>6, <2>8 DEF PageBefore
        <3>2. log[k].cites \subseteq Covered[h]
            BY <2>2, <3>1, EarlierShown
        <3> QED
            BY <1>0, <2>3, <2>4, <2>6, <2>8, <3>2
    <2> QED
        BY <2>3, <2>7, <2>8
<1> QED
    BY <1>1, <1>2

LEMMA PagesWritten ==
  ASSUME Written, Extracting, [EvolveNext]_evolveVars
  PROVE  Of("page")' = Of("page") \/ \E p \in Ticks : EmitPage(p)
<1>1. CASE log' = log
    BY <1>1 DEF Of
<1>2. ASSUME NEW e, Appended(e), e.kind # "page" PROVE Of("page")' = Of("page")
    BY <1>2, LogGrows DEF GrownBy, Written
<1>3. ASSUME NEW t \in Topics, Remember(t) PROVE Of("page")' = Of("page")
    <2>1. PICK e : e = Memory(t)
        OBVIOUS
    <2>2. Appended(e) /\ e.kind = "memory"
        BY <1>3, <2>1 DEF Remember, Appended, Memory, Events
    <2> QED
        BY <1>2, <2>2
<1>4. ASSUME NEW m \in DOMAIN log, RetireMemory(m) PROVE Of("page")' = Of("page")
    <2>1. PICK e : e = Retire(m)
        OBVIOUS
    <2>2. m \in Nat
        BY LogIs DEF Written
    <2>3. Appended(e) /\ e.kind = "retire"
        BY <1>4, <2>1, <2>2 DEF RetireMemory, Appended, Retire, Events
    <2> QED
        BY <1>2, <2>3
<1>5. CASE Extract
    <2>1. PICK m : m = Head1("evolve")
        OBVIOUS
    <2>2. m \in Of("memory")
        BY <1>5, <2>1, HeadIs DEF Extract, At, Extracting, Written, Ticks
    <2>3. m \in Nat /\ log[m].topic \in Topics
        BY <2>2, LogIs, EventShapes DEF Written
    <2>4. PICK e : e = Link(log[m].topic, m)
        OBVIOUS
    <2>5. e \in Events /\ e.kind = "link"
        BY <2>3, <2>4 DEF Link, Events
    <2>6. log' = log \/ Appended(e)
        BY <1>5, <2>1, <2>4, <2>5 DEF Extract, Appended
    <2> QED
        BY <1>1, <1>2, <2>5, <2>6
<1>6. \/ log' = log \/ Extract
      \/ \E t \in Topics : Remember(t)
      \/ \E m \in DOMAIN log : RetireMemory(m)
      \/ \E p \in Ticks : EmitPage(p)
    BY DEF EvolveNext, EvolveStep, ReflectOn, Crash, EvolveStart, ExtractFails, AdvanceEvolveCursor,
           SummarizeTopic, RefreshPage, Refresh, AdvanceSummarizeCursor, Compare, RebuildRead,
           RebuildWrite, ReflectStart, PassPage, evolveVars, Ticks
<1> QED
    BY <1>1, <1>3, <1>4, <1>5, <1>6

LEMMA CoverageStep ==
  ASSUME Written, Written', LogKept, Extracting, [EvolveNext]_evolveVars
  PROVE  CoverageKept
<1>1. Accounted \subseteq Accounted'
    BY AccountedGrows
<1>2. Of("page")' = Of("page") \/ \E p \in Ticks : EmitPage(p)
    BY PagesWritten
<1> QED
    BY <1>1, <1>2, CoverageStays, EmitCovers DEF CoverageKept

\* From the first memory to the cursor, the evolve tick is not at the topics.
LEMMA SummarizingBefore ==
  ASSUME Written, NEW s \in TickRecords, s.at = "extract", Go("evolve", Extracted(s))
  PROVE  Summarizing'
<1>1. PICK r : r = Extracted(s)
    OBVIOUS
<1>2. r.at \in {"extract", "cursor"} \/ (r.at = "read" /\ r.next = "cursor")
    BY <1>1, AfterMemory
<1>3. tick'["evolve"] = r
    BY <1>1, WentTo DEF Ticks
<1> QED
    BY <1>2, <1>3, SummarizingOver DEF Settling, Going

LEMMA SummarizingRebuild ==
  ASSUME Written, LogKept, CoverageKept, Summarizing, RebuildRead("evolve") \/ RebuildWrite("evolve")
  PROVE  Summarizing'
<1>0. "evolve" \in Ticks
    BY DEF Ticks
<1>1. PICK t : t = tick["evolve"]
    OBVIOUS
<1>2. t \in TickRecords /\ log' = log /\ t.at \in {"read", "write"}
    BY <1>0, <1>1 DEF Written, EvolveTypes, RebuildRead, RebuildWrite, At
<1>3. PICK s \in TickRecords :
           /\ tick'["evolve"] = s
           /\ \/ s.at = "idle"
              \/ /\ (s.at = "write" /\ s.next = t.next) \/ (s.at \in {"cursor", "settle"} /\ s.at = t.next)
                 /\ s.todo = t.todo /\ s.mark = t.mark /\ s.drained = t.drained /\ s.spent = t.spent
    <2>1. CASE RebuildRead("evolve")
        <3>1. PICK s : s = Reading("evolve")
            OBVIOUS
        <3>2. tick'["evolve"] = s
            BY <1>0, <2>1, <3>1, WentTo DEF RebuildRead, Reading
        <3> QED
            BY <1>0, <1>1, <3>1, <3>2, ReadingIs DEF Written
    <2>2. CASE RebuildWrite("evolve")
        <3>1. PICK s : s = Folded("evolve")
            OBVIOUS
        <3>2. tick'["evolve"] = s
            BY <1>0, <2>2, <3>1, WentTo DEF RebuildWrite, Folded
        <3>3. s = Idle => s.at = "idle"
            BY DEF Idle
        <3> QED
            BY <1>0, <1>1, <3>1, <3>2, <3>3, FoldedIs DEF Written
    <2> QED
        BY <2>1, <2>2
<1>4. CASE ~Settling(s)
    BY <1>3, <1>4, SummarizingOver
<1>5. CASE Settling(s)
    <2>1. /\ Going(t, {"settle"}, "settle") /\ Settling(t)
          /\ s.todo = t.todo /\ s.mark = t.mark /\ s.drained = t.drained /\ s.spent = t.spent
          /\ s.at \notin {"compare", "emit"}
        BY <1>2, <1>3, <1>5 DEF Settling, Going
    <2>2. t.todo = {} /\ t.mark <= Len(log) /\ t.spent = 0 /\ ToShow(t)
        BY <1>1, <2>1 DEF Summarizing
    <2>3. ToShow(s)'
        BY <1>2, <2>1, <2>2, ToShowNext
    <2> QED
        BY <1>2, <1>3, <2>1, <2>2, <2>3, SummarizingOn
<1> QED
    BY <1>4, <1>5

LEMMA SummarizingStep ==
  ASSUME Written, Written', LogKept, CoverageKept, SummaryInv, [EvolveNext]_evolveVars
  PROVE  Summarizing'
<1>0. "evolve" \in Ticks /\ "reflect" \in Ticks /\ "evolve" \in Ticks \ {"reflect"} /\ Summarizing
    BY DEF Ticks, SummaryInv
<1>1. CASE tick'["evolve"] = tick["evolve"]
    BY <1>0, <1>1, SummarizingStays
<1>2. CASE \/ \E t \in Topics : Remember(t)
           \/ \E m \in DOMAIN log : RetireMemory(m)
           \/ UNCHANGED evolveVars
    BY <1>1, <1>2 DEF Remember, RetireMemory, evolveVars
<1>3. CASE ReflectStart \/ ReflectOn
    <2>1. PICK r : Go("reflect", r)
        BY <1>3 DEF ReflectStart, ReflectOn, PassPage, RefreshPage, Refresh, Compose, ComposeUnread, ComposeFails,
                    SkipThin, Compare, EmitPage, RebuildRead, RebuildWrite
    <2> QED
        BY <1>0, <1>1, <2>1, WentTo
<1>4. CASE Crash
    <2>1. tick'["evolve"] = Idle
        BY <1>0, <1>4 DEF Crash
    <2> QED
        BY <2>1, SummarizingOver DEF Settling, Going, Idle
<1>5. CASE EvolveStart
    <2>1. PICK s : s = Starting(graph')
        OBVIOUS
    <2>2. Go("evolve", Extracted(s)) /\ s \in TickRecords /\ s.at = "extract"
        BY <1>5, <2>1, StartingIs DEF EvolveStart, Starting, Written
    <2> QED
        BY <2>2, SummarizingBefore
<1>6. CASE Extract
    <2>1. PICK m, d : m = Head1("evolve") /\ d = Dropped("evolve")
        OBVIOUS
    <2>2. PICK new \in BOOLEAN : Go("evolve", Extracted([Dropped("evolve") EXCEPT !.mark = m, !.changed = @ \/ new]))
        BY <1>6, <2>1 DEF Extract
    <2>3. d \in TickRecords /\ d.at = "extract"
        BY <1>0, <1>6, <2>1, DroppedIs DEF Extract, At, Written
    <2>4. PICK s : s = [d EXCEPT !.mark = m, !.changed = @ \/ new]
        OBVIOUS
    <2>5. PICK r : r = Extracted(s)
        OBVIOUS
    <2>6. tick'["evolve"] = r /\ r \in TickRecords
        BY <1>0, <2>1, <2>2, <2>4, <2>5, WentTo DEF Written, EvolveTypes
    <2>7. r.at \in {"extract", "cursor"} \/ (r.at = "read" /\ r.next = "cursor")
        <3>1. s.at = "extract"
            BY <2>3, <2>4 DEF TickRecords
        <3> QED
            BY <2>3, <2>4, <2>5, <3>1 DEF Extracted, RebuildIf, Rebuild, TickRecords
    <2> QED
        BY <2>6, <2>7, SummarizingOver DEF Settling, Going
<1>7. CASE ExtractFails
    <2>1. PICK s : s = [tick["evolve"] EXCEPT !.todo = {}]
        OBVIOUS
    <2>2. s \in TickRecords /\ s.at = "extract"
        BY <1>0, <1>7, <2>1 DEF ExtractFails, At, Written, EvolveTypes, TickRecords
    <2> QED
        BY <1>7, <2>1, <2>2, SummarizingBefore DEF ExtractFails
<1>8. CASE AdvanceEvolveCursor
    BY <1>8, SummarizingListing
<1>9. CASE SummarizeTopic
    BY <1>0, <1>9, SummarizingRefresh, AccountedGrows
<1>10. CASE AdvanceSummarizeCursor
    <2>1. PICK r : r = Rebuild(Idle, "idle")
        OBVIOUS
    <2>2. r.at = "read" /\ r.next = "idle"
        BY <2>1 DEF Rebuild, Idle
    <2>3. tick'["evolve"] = r
        BY <1>0, <1>10, <2>1, WentTo DEF AdvanceSummarizeCursor
    <2> QED
        BY <2>2, <2>3, SummarizingOver DEF Settling, Going
<1>11. CASE Compare("evolve")
    BY <1>11, SummarizingCompare
<1>12. CASE EmitPage("evolve")
    BY <1>12, SummarizingEmit
<1>13. CASE RebuildRead("evolve") \/ RebuildWrite("evolve")
    BY <1>0, <1>13, SummarizingRebuild
<1> QED
    BY <1>2, <1>3, <1>4, <1>5, <1>6, <1>7, <1>8, <1>9, <1>10, <1>11, <1>12, <1>13 DEF EvolveNext, EvolveStep

LEMMA SummaryStep ==
  ASSUME Written, Written', LogKept, Extracting, SummaryInv, [EvolveNext]_evolveVars
  PROVE  SummaryInv'
<1>1. CoverageKept
    BY CoverageStep
<1>2. PagesKeep'
    BY <1>1, PagesKeepStep, PagesWritten DEF SummaryInv
<1>3. Summarizing'
    BY <1>1, SummarizingStep
<1>4. ASSUME NEW n \in 0 .. Len(log), ShownTo(n), summarizeCursor' = n PROVE ShownTo(summarizeCursor)'
    <2>1. ShownTo(n)'
        BY <1>1, <1>4, ShownToStays
    <2> QED
        BY <1>4, <2>1 DEF ShownTo
<1>5. CASE summarizeCursor' = summarizeCursor
    <2>1. summarizeCursor \in 0 .. Len(log) /\ ShownTo(summarizeCursor)
        BY DEF SummaryInv, Written, EvolveTypes
    <2> QED
        BY <1>2, <1>3, <1>4, <1>5, <2>1 DEF SummaryInv
<1>6. CASE AdvanceSummarizeCursor /\ summarizeCursor' # summarizeCursor
    <2>1. PICK t : t = tick["evolve"]
        OBVIOUS
    <2>2. t.drained /\ summarizeCursor' = t.mark /\ Settling(t) /\ Going(t, {"settle"}, "settle")
        BY <1>6, <2>1 DEF AdvanceSummarizeCursor, At, Settling, Going
    <2>3. t.mark <= Len(log) /\ ToShow(t) /\ t.todo = {}
        BY <2>1, <2>2 DEF SummaryInv, Summarizing
    <2>4. t.mark \in 0 .. Len(log)
        BY <2>1, <2>3, LogIs DEF Written, EvolveTypes, TickRecords, Ticks
    <2>5. ShownTo(t.mark)
        BY <2>2, <2>3 DEF ToShow, ShownTo
    <2> QED
        BY <1>2, <1>3, <1>4, <2>2, <2>4, <2>5 DEF SummaryInv
<1>7. summarizeCursor' = summarizeCursor \/ AdvanceSummarizeCursor
    BY DEF EvolveNext, EvolveStep, ReflectOn, Remember, RetireMemory, Crash, EvolveStart, Extract, ExtractFails,
           SummarizeTopic, RefreshPage, Refresh, AdvanceEvolveCursor, Compare, EmitPage, RebuildRead,
           RebuildWrite, ReflectStart, PassPage, evolveVars
<1> QED
    BY <1>5, <1>6, <1>7

-----------------------------------------------------------------------------
(* The theorems *)

EvolveInv == Written /\ ReadInv /\ SummaryInv

LEMMA EvolveInitInv == EvolveInit => EvolveInv
<1> SUFFICES ASSUME EvolveInit PROVE EvolveInv
    OBVIOUS
<1>1. log = <<>> /\ Len(log) = 0 /\ DOMAIN log = {}
    BY DEF EvolveInit
<1>2. \A kind : Of(kind) = {}
    BY <1>1 DEF Of
<1>3. Idle \in TickRecords
    BY DEF Idle, TickRecords, Places
<1>4. \A p \in Ticks : tick[p] = Idle
    BY DEF EvolveInit
<1>5. EvolveTypes
    BY <1>1, <1>3 DEF EvolveInit, EvolveTypes
<1>6. Idle.at = "idle"
    BY DEF Idle
<1>7. Written
    BY <1>2, <1>4, <1>5, <1>6 DEF Written, LinksTrue, PagesInOrder, PriorKnown, TopicsToDo, AtTopic, At
<1>8. tick["evolve"] = Idle
    BY <1>4 DEF Ticks
<1>9. ReadInv
    BY <1>2, <1>6, <1>8 DEF ReadInv, NothingUnread, Extracting, Going
<1>10. SummaryInv
    BY <1>2, <1>6, <1>8 DEF SummaryInv, PagesKeep, Summarizing, Settling, Going, ShownTo
<1> QED
    BY <1>7, <1>9, <1>10 DEF EvolveInv

LEMMA EvolveInvStep == EvolveInv /\ [EvolveNext]_evolveVars => EvolveInv'
<1> SUFFICES ASSUME EvolveInv, [EvolveNext]_evolveVars PROVE EvolveInv'
    OBVIOUS
<1>1. Written /\ ReadInv /\ SummaryInv /\ Extracting /\ Summarizing
    BY DEF EvolveInv, ReadInv, SummaryInv
<1>2. Written' /\ LogStep
    BY <1>1, WrittenStep
<1>3. LogKept
    BY <1>1, <1>2, LogStepKeeps
<1>4. ReadInv'
    BY <1>1, <1>2, <1>3, ReadStep
<1>5. SummaryInv'
    BY <1>1, <1>2, <1>3, SummaryStep
<1> QED
    BY <1>2, <1>4, <1>5 DEF EvolveInv

LEMMA EvolveInvHolds == EvolveSpec => []EvolveInv
BY EvolveInitInv, EvolveInvStep, PTL DEF EvolveSpec

\* A memory the evolve cursor has passed is in the graph's log, through crashes and failing
\* models, for any batch size and any number of topics (log.rs evolve_once).
THEOREM CursorLeavesNoneUnread == EvolveSpec => []NothingUnread
<1>1. EvolveInv => NothingUnread
    BY DEF EvolveInv, ReadInv
<1> QED
    BY <1>1, EvolveInvHolds, PTL

\* A fact the summarize cursor has passed is in its topic's dossier, but for retired memories
\* and the three windows of the code (log.rs summarize_cursor, emit_page).
THEOREM DossiersAreComplete == EvolveSpec => []NoFactLeftOut
<1>1. EvolveInv => NoFactLeftOut
    <2> SUFFICES ASSUME EvolveInv, NEW k \in Of("link"), k <= summarizeCursor,
                        log[k].source \notin Gone \cup excused
                 PROVE  log[k].source \in Cites(CurrentPage(log[k].topic, Len(log)))
        BY DEF NoFactLeftOut
    <2>1. log[k].topic \in Topics
        BY EventShapes DEF EvolveInv, Written
    <2>2. log[k].source \in Covered[log[k].topic]
        BY DEF EvolveInv, SummaryInv, ShownTo, Shown
    <2> QED
        BY <2>1, <2>2 DEF Covered, Accounted
<1> QED
    BY <1>1, EvolveInvHolds, PTL

=============================================================================
