--------------------------- MODULE MemoriesProofs ---------------------------
(***************************************************************************)
(* For any number of clients, sessions, bodies and events: a conflict is    *)
(* answered once, a marker never claims a retirement that was not made, a   *)
(* double submit is never refused, and the shared log implements the        *)
(* lifecycle a memory's owner is promised.                                  *)
(*                                                                          *)
(* Over the same folds, for any budgets and any number of cycles, crashes   *)
(* and judge failures: the conflict cycle passes over no pair of memories,  *)
(* and proposes no pair of notes twice.                                     *)
(***************************************************************************)
EXTENDS Memories, ConflictSweep, FiniteSetTheorems, WellFoundedInduction, TLAPS

ResolveOps == {"resolve_retire", "resolve_append", "resolve_mark"}
Resolving(c) == call[c].op \in ResolveOps

LogIsSeq == \E S : log \in Seq(S)
CallsOfClients == call = [c \in Clients |-> call[c]]

\* resolve_lock admits one client, and what it works on has no marker yet.
LockHeld == \A c \in Clients : Resolving(c) => resolver = c
Unanswered ==
    \A c \in Clients : Resolving(c) =>
        call[c].proposal \in DOMAIN log /\ Markers(log, call[c].proposal) = {}

\* Past the retirement, the loser's retirement is in the log.
LoserRetired(p, act) == \E j \in Of(log, "retired") : log[j].ref = Loser(p, act)
RetiredFirst ==
    \A c \in Clients : call[c].op = "resolve_mark" /\ call[c].action \in Retiring =>
        LoserRetired(call[c].proposal, call[c].action)

OneEach ==
    \A i, j \in Of(log, "terminal") : log[i].proposal = log[j].proposal => i = j
MarkersLate ==
    \A i \in Of(log, "terminal") :
        /\ log[i].proposal \in 1..(i - 1)
        /\ log[i].action \in Retiring =>
             \E j \in Of(log, "retired") :
                 j < i /\ log[j].ref = Loser(log[i].proposal, log[i].action)

IInv ==
    /\ LogIsSeq /\ CallsOfClients
    /\ LockHeld /\ Unanswered /\ RetiredFirst
    /\ OneEach /\ MarkersLate

-----------------------------------------------------------------------------
\* The log grows at its end.
Grown ==
    /\ Len(log) \in Nat /\ Len(log') \in Nat /\ Len(log) <= Len(log')
    /\ DOMAIN log = 1..Len(log) /\ DOMAIN log' = 1..Len(log')
    /\ \A i \in 1..Len(log) : log'[i] = log[i]

LEMMA AppendGrows ==
  ASSUME LogIsSeq, NEW e, log' = Append(log, e)
  PROVE  /\ Grown /\ LogIsSeq'
         /\ Len(log') = Len(log) + 1 /\ log'[Len(log) + 1] = e
<1>1. PICK S : log \in Seq(S)
    BY DEF LogIsSeq
<1>2. log \in Seq(S \cup {e}) /\ log' \in Seq(S \cup {e})
    BY <1>1
<1> QED
    BY <1>1, <1>2 DEF Grown, LogIsSeq

LEMMA PairGrows ==
  ASSUME LogIsSeq, NEW a, NEW b, log' = log \o <<a, b>>
  PROVE  /\ Grown /\ LogIsSeq'
         /\ Len(log') = Len(log) + 2 /\ log'[Len(log) + 1] = a /\ log'[Len(log) + 2] = b
<1>1. PICK S : log \in Seq(S)
    BY DEF LogIsSeq
<1> DEFINE T == S \cup {a, b}
<1>2. log \in Seq(T) /\ <<a, b>> \in Seq(T)
    BY <1>1
<1>3. log' \in Seq(T)
    BY <1>2
<1> QED
    BY <1>1, <1>2, <1>3 DEF Grown, LogIsSeq

LEMMA SameGrows ==
  ASSUME LogIsSeq, log' = log
  PROVE  Grown /\ LogIsSeq'
<1>1. PICK S : log \in Seq(S)
    BY DEF LogIsSeq
<1> QED
    BY <1>1 DEF Grown, LogIsSeq

\* What was in the log stays what it was.
LEMMA OldEvents ==
  ASSUME Grown
  PROVE  /\ \A i \in DOMAIN log : i \in DOMAIN log' /\ log'[i] = log[i] /\ i \in Nat
         /\ \A t : Of(log, t) = {i \in Of(log', t) : i <= Len(log)}
         /\ \A act : \A p \in DOMAIN log : Loser(p, act)' = Loser(p, act)
BY DEF Grown, Of, Loser

\* A marker that was late stays so.
LEMMA MarkersStayAt ==
  ASSUME Grown, MarkersLate, NEW i \in Of(log, "terminal"),
         NEW p, NEW act, p = log'[i].proposal, act = log'[i].action
  PROVE  /\ p \in 1..(i - 1)
         /\ act \in Retiring =>
              \E j \in Of(log', "retired") : j < i /\ log'[j].ref = Loser(p, act)'
<1>1. log'[i] = log[i] /\ i \in 1..Len(log)
    BY DEF Of, Grown
<1>2. p \in 1..(i - 1) /\ p \in DOMAIN log
    BY <1>1 DEF MarkersLate, Grown
<1>3. Loser(p, act)' = Loser(p, act)
    BY <1>2, OldEvents
<1>4. ASSUME act \in Retiring
      PROVE  \E j \in Of(log', "retired") : j < i /\ log'[j].ref = Loser(p, act)'
    <2>1. PICK j \in Of(log, "retired") : j < i /\ log[j].ref = Loser(p, act)
        BY <1>1, <1>4 DEF MarkersLate
    <2>2. j \in Of(log', "retired") /\ log'[j] = log[j]
        BY DEF Grown, Of
    <2> QED
        BY <2>1, <2>2, <1>3
<1> QED
    BY <1>2, <1>4

LEMMA MarkersStay ==
  ASSUME Grown, OneEach, MarkersLate, Of(log', "terminal") = Of(log, "terminal")
  PROVE  OneEach' /\ MarkersLate'
<1>1. OneEach'
    BY OldEvents DEF OneEach, Of
<1>2. MarkersLate'
    <2> SUFFICES ASSUME NEW i \in Of(log', "terminal"), NEW p, NEW act,
                        p = log'[i].proposal, act = log'[i].action
                 PROVE  /\ p \in 1..(i - 1)
                        /\ act \in Retiring =>
                             \E j \in Of(log', "retired") : j < i /\ log'[j].ref = Loser(p, act)'
        BY DEF MarkersLate, Loser
    <2> QED
        BY MarkersStayAt
<1> QED
    BY <1>1, <1>2

\* A step that adds no terminal marker and leaves the resolving calls as they were.
LEMMA NoMarker ==
  ASSUME IInv, Grown, LogIsSeq', CallsOfClients',
         \A i \in DOMAIN log' : i > Len(log) => log'[i].type # "terminal",
         \A c \in Clients : Resolving(c)' => call'[c] = call[c] /\ resolver' = resolver
  PROVE  IInv'
<1>1. Of(log', "terminal") = Of(log, "terminal")
    BY DEF Grown, Of
<1>2. \A p : Markers(log', p) = Markers(log, p)
    BY <1>1 DEF Markers, Of, Grown
<1>3. Of(log, "retired") \subseteq Of(log', "retired")
    BY DEF Grown, Of
<1>4. \A act : \A p \in DOMAIN log : Loser(p, act)' = Loser(p, act)
    BY OldEvents
<1>5. LockHeld' /\ Unanswered'
    <2> SUFFICES ASSUME NEW c \in Clients, Resolving(c)'
                 PROVE  /\ resolver' = c /\ call'[c].proposal \in DOMAIN log'
                        /\ Markers(log', call'[c].proposal) = {}
        BY DEF LockHeld, Unanswered
    <2>1. call'[c] = call[c] /\ resolver' = resolver /\ Resolving(c)
        BY DEF Resolving
    <2> QED
        BY <2>1, <1>2, OldEvents DEF IInv, LockHeld, Unanswered
<1>6. RetiredFirst'
    <2> SUFFICES ASSUME NEW c \in Clients, call'[c].op = "resolve_mark",
                        call'[c].action \in Retiring
                 PROVE  LoserRetired(call[c].proposal, call[c].action)' /\ call'[c] = call[c]
        BY DEF RetiredFirst
    <2>1. call'[c] = call[c] /\ Resolving(c)
        BY DEF Resolving, ResolveOps
    <2>2. call[c].proposal \in DOMAIN log
        BY <2>1 DEF IInv, Unanswered
    <2>3. PICK j \in Of(log, "retired") : log[j].ref = Loser(call[c].proposal, call[c].action)
        BY <2>1 DEF IInv, RetiredFirst, LoserRetired
    <2> QED
        BY <2>1, <2>2, <2>3, <1>3, <1>4, OldEvents DEF LoserRetired, Of
<1>7. OneEach' /\ MarkersLate'
    BY <1>1, MarkersStay DEF IInv
<1> QED
    BY <1>5, <1>6, <1>7 DEF IInv

-----------------------------------------------------------------------------
(* One lemma per kind of step *)

\* A call that is not a resolution comes or goes, and the log grows by other events.
LEMMA OtherCall ==
  ASSUME IInv, Grown, LogIsSeq',
         \A i \in DOMAIN log' : i > Len(log) => log'[i].type # "terminal",
         UNCHANGED resolver, NEW c \in Clients, NEW next, Goto(c, next), next.op \notin ResolveOps
  PROVE  IInv'
<1>1. \A d \in Clients : call'[d] = IF d = c THEN next ELSE call[d]
    BY DEF IInv, CallsOfClients, Goto
<1>2. CallsOfClients'
    BY DEF IInv, CallsOfClients, Goto
<1>3. \A d \in Clients : Resolving(d)' => call'[d] = call[d] /\ resolver' = resolver
    BY <1>1 DEF Resolving
<1> QED
    BY <1>2, <1>3, NoMarker

\* No call changes.
LEMMA NoCall ==
  ASSUME IInv, Grown, LogIsSeq',
         \A i \in DOMAIN log' : i > Len(log) => log'[i].type # "terminal",
         UNCHANGED <<resolver, call>>
  PROVE  IInv'
BY NoMarker DEF IInv, CallsOfClients

\* A resolution starts only on a proposal without a marker.
LEMMA UnresolvedIsUnmarked ==
  ASSUME IInv, NEW p, Resolution(log, p) = {}
  PROVE  Markers(log, p) = {}
<1> SUFFICES ASSUME NEW m \in Markers(log, p) PROVE FALSE
    OBVIOUS
<1>1. \A j \in Markers(log, p) : m <= j
    BY DEF IInv, OneEach, Markers, Of, LogIsSeq
<1>2. log[m].action \in Resolution(log, p)
    BY <1>1 DEF Resolution
<1> QED
    BY <1>2

LEMMA ResolveCheckStep ==
  ASSUME IInv, NEW c \in Clients, NEW p \in Of(log, "conflict_proposal"), NEW act \in Actions,
         ResolveCheck(c, p, act)
  PROVE  IInv'
<1>1. log' = log /\ Grown /\ LogIsSeq'
    BY SameGrows DEF ResolveCheck, IInv
<1>2. CASE Resolution(log, p) # {}
    <2>1. UNCHANGED <<resolver, call>>
        BY <1>2 DEF ResolveCheck
    <2> QED
        BY <1>1, <2>1, NoCall DEF Grown
<1>3. CASE Resolution(log, p) = {}
    <2> DEFINE op == IF act \in Retiring /\ Loser(p, act) \notin Retired(log)
                     THEN "resolve_retire" ELSE "resolve_mark"
               heads == IF act = "dismiss" THEN SessionHeads(log, p) ELSE {}
               next == [op |-> op, proposal |-> p, action |-> act, heads |-> heads]
    <2>1. resolver = Nil /\ resolver' = c /\ Goto(c, next)
        BY <1>3 DEF ResolveCheck
    <2>2. \A d \in Clients : ~Resolving(d)
        BY <2>1, MemoriesAssumption DEF IInv, LockHeld
    <2>3. CallsOfClients' /\ \A d \in Clients : call'[d] = IF d = c THEN next ELSE call[d]
        BY <2>1 DEF IInv, CallsOfClients, Goto
    <2>4. \A d \in Clients : Resolving(d)' => d = c
        BY <2>2, <2>3 DEF Resolving
    <2>5. LockHeld'
        BY <2>1, <2>4 DEF LockHeld
    <2>6. Markers(log, p) = {} /\ p \in DOMAIN log
        BY <1>3, UnresolvedIsUnmarked DEF Of
    <2>7. Unanswered'
        BY <1>1, <2>3, <2>4, <2>6 DEF Unanswered
    <2>8. RetiredFirst'
        <3> SUFFICES ASSUME op = "resolve_mark", act \in Retiring
                     PROVE  LoserRetired(p, act)
            BY <1>1, <2>3, <2>4 DEF RetiredFirst, Resolving, ResolveOps, LoserRetired, Loser
        <3>1. Loser(p, act) \in Retired(log)
            OBVIOUS
        <3> QED
            BY <3>1 DEF Retired, LoserRetired
    <2> QED
        BY <1>1, <2>3, <2>5, <2>7, <2>8 DEF IInv, OneEach, MarkersLate, Loser
<1> QED
    BY <1>2, <1>3

\* The retirement is allowed, or the resolution ends without a marker.
LEMMA ResolveRetireCheckStep ==
  ASSUME IInv, NEW c \in Clients, ResolveRetireCheck(c)
  PROVE  IInv'
<1> DEFINE append == Onward(c, "resolve_append")
<1>1. log' = log /\ Grown /\ LogIsSeq' /\ call[c].op = "resolve_retire" /\ Resolving(c)
    BY SameGrows DEF ResolveRetireCheck, IInv, Resolving, ResolveOps
<1>2. (Goto(c, append) /\ UNCHANGED resolver) \/ (Goto(c, Idle) /\ resolver' = Nil)
    <2>1. CASE Retirable(Loser(call[c].proposal, call[c].action))
        BY <2>1 DEF ResolveRetireCheck
    <2>2. CASE ~Retirable(Loser(call[c].proposal, call[c].action))
        BY <2>2 DEF ResolveRetireCheck
    <2> QED
        BY <2>1, <2>2
<1>3. \A d \in Clients : Resolving(d) => d = c
    BY <1>1 DEF IInv, LockHeld
<1>4. CASE Goto(c, Idle) /\ resolver' = Nil
    <2>1. CallsOfClients' /\ \A d \in Clients : ~Resolving(d)'
        BY <1>3, <1>4 DEF IInv, CallsOfClients, Goto, Idle, Resolving, ResolveOps
    <2> QED
        BY <1>1, <2>1, NoMarker DEF Grown
<1>5. CASE Goto(c, append) /\ resolver' = resolver
    <2>1. CallsOfClients' /\ \A d \in Clients : call'[d] = IF d = c THEN append ELSE call[d]
        BY <1>5 DEF IInv, CallsOfClients, Goto
    <2>2. \A d \in Clients : Resolving(d)' => d = c
        BY <1>3, <2>1 DEF Resolving
    <2>3. LockHeld'
        BY <1>1, <1>5, <2>2 DEF IInv, LockHeld
    <2>4. Unanswered'
        BY <1>1, <2>1, <2>2 DEF IInv, Unanswered, Onward
    <2>5. RetiredFirst'
        BY <1>1, <2>1, <2>2 DEF RetiredFirst, Resolving, ResolveOps, Onward
    <2> QED
        BY <1>1, <2>1, <2>3, <2>4, <2>5 DEF IInv, OneEach, MarkersLate, Loser
<1> QED
    BY <1>2, <1>4, <1>5

\* The loser is retired for the proposal.
LEMMA ResolveRetireAppendStep ==
  ASSUME IInv, NEW c \in Clients, ResolveRetireAppend(c),
         NEW p, NEW act, p = call[c].proposal, act = call[c].action
  PROVE  IInv'
<1> DEFINE mark == Onward(c, "resolve_mark")
           e == Retirement(Loser(p, act), p)
<1>1. /\ call[c].op = "resolve_append" /\ Resolving(c) /\ resolver' = resolver
      /\ log' = Append(log, e)
    BY DEF ResolveRetireAppend, Resolving, ResolveOps, Append1, Quiet
<1>2. Goto(c, mark)
    BY <1>1 DEF ResolveRetireAppend
<1>3. Grown /\ LogIsSeq' /\ Len(log') = Len(log) + 1 /\ log'[Len(log) + 1] = e
    BY <1>1, AppendGrows DEF IInv
<1>4. e.type = "retired" /\ e.ref = Loser(p, act)
    BY DEF Retirement
<1>5. \A d \in Clients : Resolving(d) => d = c
    BY <1>1 DEF IInv, LockHeld
<1>6. CallsOfClients' /\ \A d \in Clients : call'[d] = IF d = c THEN mark ELSE call[d]
    BY <1>2 DEF IInv, CallsOfClients, Goto
<1>7. \A d \in Clients : Resolving(d)' => d = c
    BY <1>5, <1>6 DEF Resolving
<1>8. p \in DOMAIN log /\ Markers(log, p) = {}
    BY <1>1 DEF IInv, Unanswered
<1>9. Of(log', "terminal") = Of(log, "terminal")
    BY <1>3, <1>4 DEF Grown, Of
<1>10. LockHeld'
    BY <1>1, <1>7 DEF IInv, LockHeld
<1>11. Unanswered'
    <2>1. Markers(log', p) = {}
        BY <1>3, <1>8, <1>9 DEF Markers, Of, Grown
    <2> QED
        BY <1>3, <1>6, <1>7, <1>8, <2>1, OldEvents DEF Unanswered, Onward
<1>12. Len(log) + 1 \in Of(log', "retired") /\ log'[Len(log) + 1].ref = Loser(p, act)'
    BY <1>3, <1>4, <1>8, OldEvents DEF Grown, Of
<1>13. RetiredFirst'
    BY <1>6, <1>7, <1>12 DEF RetiredFirst, Resolving, ResolveOps, LoserRetired, Onward
<1>14. OneEach' /\ MarkersLate'
    BY <1>3, <1>9, MarkersStay DEF IInv
<1> QED
    BY <1>3, <1>6, <1>10, <1>11, <1>13, <1>14 DEF IInv

\* The terminal marker is the proposal's first one, and the retirement is there.
LEMMA ResolveMarkStep ==
  ASSUME IInv, NEW c \in Clients, ResolveMark(c),
         NEW p, NEW act, p = call[c].proposal, act = call[c].action
  PROVE  IInv'
<1> DEFINE e == Terminal(p, act, call[c].heads)
           n == Len(log) + 1
<1>1. /\ call[c].op = "resolve_mark" /\ Resolving(c) /\ resolver' = Nil
      /\ log' = Append(log, e) /\ Goto(c, Idle)
    BY DEF ResolveMark, Resolving, ResolveOps, Append1
<1>2. Grown /\ LogIsSeq' /\ Len(log') = n /\ log'[n] = e
    BY <1>1, AppendGrows DEF IInv
<1>3. e.type = "terminal" /\ e.proposal = p /\ e.action = act
    BY DEF Terminal
<1>4. CallsOfClients' /\ \A d \in Clients : ~Resolving(d)'
    BY <1>1 DEF IInv, LockHeld, CallsOfClients, Goto, Idle, Resolving, ResolveOps
<1>5. LockHeld' /\ Unanswered' /\ RetiredFirst'
    BY <1>4 DEF LockHeld, Unanswered, RetiredFirst, Resolving, ResolveOps
<1>6. p \in DOMAIN log /\ Markers(log, p) = {}
    BY <1>1 DEF IInv, Unanswered
<1>7. Of(log', "terminal") = Of(log, "terminal") \cup {n}
    BY <1>2, <1>3 DEF Grown, Of
<1>8. \A i \in Of(log, "terminal") : log'[i] = log[i] /\ log[i].proposal # p /\ i # n
    BY <1>2, <1>6 DEF Grown, Of, Markers
<1>9. OneEach'
    BY <1>2, <1>3, <1>7, <1>8 DEF IInv, OneEach
<1>10. Of(log, "retired") \subseteq Of(log', "retired") /\ Of(log, "retired") \subseteq 1..Len(log)
    BY <1>2 DEF Grown, Of
<1>11. MarkersLate'
    <2> SUFFICES ASSUME NEW i \in Of(log', "terminal"), NEW q, NEW how,
                        q = log'[i].proposal, how = log'[i].action
                 PROVE  /\ q \in 1..(i - 1)
                        /\ how \in Retiring =>
                             \E j \in Of(log', "retired") : j < i /\ log'[j].ref = Loser(q, how)'
        BY DEF MarkersLate, Loser
    <2>1. CASE i \in Of(log, "terminal")
        BY <2>1, <1>2, MarkersStayAt DEF IInv
    <2>2. CASE i = n
        <3>1. q = p /\ how = act
            BY <2>2, <1>2, <1>3
        <3>2. p \in 1..(n - 1)
            BY <1>2, <1>6 DEF Grown
        <3>3. ASSUME act \in Retiring
              PROVE  \E j \in Of(log', "retired") : j < n /\ log'[j].ref = Loser(p, act)'
            <4>1. PICK j \in Of(log, "retired") : log[j].ref = Loser(p, act)
                BY <3>3, <1>1 DEF IInv, RetiredFirst, LoserRetired
            <4>2. Loser(p, act)' = Loser(p, act)
                BY <1>2, <1>6, OldEvents
            <4>3. j \in Of(log', "retired") /\ log'[j] = log[j] /\ j < n
                BY <1>2, <1>10, OldEvents DEF Of, Grown
            <4> QED
                BY <4>1, <4>2, <4>3
        <3> QED
            BY <2>2, <3>1, <3>2, <3>3
    <2> QED
        BY <2>1, <2>2, <1>7
<1> QED
    BY <1>2, <1>4, <1>5, <1>9, <1>11 DEF IInv

-----------------------------------------------------------------------------
LEMMA Initially == Init => IInv
<1> SUFFICES ASSUME Init PROVE IInv
    OBVIOUS
<1>1. LogIsSeq
    <2>1. log \in Seq({})
        BY DEF Init
    <2> QED
        BY <2>1 DEF LogIsSeq
<1>2. CallsOfClients /\ \A c \in Clients : ~Resolving(c)
    BY DEF Init, CallsOfClients, Resolving, ResolveOps, Idle
<1>3. \A t : Of(log, t) = {}
    BY DEF Init, Of
<1>4. RetiredFirst
    BY <1>2 DEF RetiredFirst, Resolving, ResolveOps
<1> QED
    BY <1>1, <1>2, <1>3, <1>4 DEF IInv, LockHeld, Unanswered, OneEach, MarkersLate

\* A check: the call goes on to one that is not a resolution.
LEMMA CheckStep ==
  ASSUME IInv, log' = log, UNCHANGED resolver,
         NEW c \in Clients, NEW next, Goto(c, next), next.op \notin ResolveOps
  PROVE  IInv'
<1>1. Grown /\ LogIsSeq'
    BY SameGrows DEF IInv
<1>2. \A i \in DOMAIN log' : i <= Len(log)
    BY <1>1 DEF Grown
<1> QED
    BY <1>1, <1>2, OtherCall DEF Grown

\* An append: one event that is not a terminal marker, and the call is over.
LEMMA OneEventStep ==
  ASSUME IInv, NEW e, log' = Append(log, e), e.type # "terminal", UNCHANGED resolver,
         NEW c \in Clients, NEW next, Goto(c, next), next.op \notin ResolveOps
  PROVE  IInv'
<1>1. Grown /\ LogIsSeq' /\ Len(log') = Len(log) + 1 /\ log'[Len(log) + 1] = e
    BY AppendGrows DEF IInv
<1>2. \A i \in DOMAIN log' : i > Len(log) => log'[i].type # "terminal"
    BY <1>1 DEF Grown
<1> QED
    BY <1>1, <1>2, OtherCall

LEMMA PairStep ==
  ASSUME IInv, NEW a, NEW b, log' = log \o <<a, b>>, a.type # "terminal", b.type # "terminal",
         UNCHANGED resolver,
         NEW c \in Clients, NEW next, Goto(c, next), next.op \notin ResolveOps
  PROVE  IInv'
<1>1. /\ Grown /\ LogIsSeq' /\ Len(log') = Len(log) + 2
      /\ log'[Len(log) + 1] = a /\ log'[Len(log) + 2] = b
    BY PairGrows DEF IInv
<1>2. \A i \in DOMAIN log' : i > Len(log) => i = Len(log) + 1 \/ i = Len(log) + 2
    BY <1>1 DEF Grown
<1>3. \A i \in DOMAIN log' : i > Len(log) => log'[i].type # "terminal"
    BY <1>1, <1>2
<1> QED
    BY <1>1, <1>3, OtherCall

\* An append that is no call's: a memory, or a proposal.
LEMMA LoneEventStep ==
  ASSUME IInv, NEW e, log' = Append(log, e), e.type # "terminal", UNCHANGED <<resolver, call>>
  PROVE  IInv'
<1>1. Grown /\ LogIsSeq' /\ Len(log') = Len(log) + 1 /\ log'[Len(log) + 1] = e
    BY AppendGrows DEF IInv
<1>2. \A i \in DOMAIN log' : i > Len(log) => log'[i].type # "terminal"
    BY <1>1 DEF Grown
<1> QED
    BY <1>1, <1>2, NoCall

LEMMA TwoSingles == ASSUME NEW a, NEW b PROVE <<a>> \o <<b>> = <<a, b>>
<1> DEFINE s == <<a>> \o <<b>>
           t == <<a, b>>
<1>1. <<a>> \in Seq({a, b}) /\ <<b>> \in Seq({a, b}) /\ Len(<<a>>) = 1 /\ Len(<<b>>) = 1
    OBVIOUS
<1>2. s \in Seq({a, b}) /\ Len(s) = 2 /\ s[1] = a /\ s[2] = b
    BY <1>1
<1>3. t \in Seq({a, b}) /\ Len(t) = 2 /\ t[1] = a /\ t[2] = b
    OBVIOUS
<1> HIDE DEF s, t
<1>4. \A i \in 1..2 : s[i] = t[i]
    BY <1>2, <1>3
<1>5. DOMAIN s = 1..2 /\ DOMAIN t = 1..2
    BY <1>2, <1>3
<1>6. s = [i \in 1..2 |-> s[i]] /\ t = [i \in 1..2 |-> t[i]]
    BY <1>2, <1>3, <1>5
<1>7. s = t
    BY <1>4, <1>6
<1> QED
    BY <1>7 DEF s, t

LEMMA CaptureAppendStep ==
  ASSUME IInv, NEW c \in Clients, CaptureAppend(c)
  PROVE  IInv'
<1> DEFINE new == Captured(call[c].session, call[c].body)
           prev == {<<Supersede(h)>> : h \in call[c].prev}
           first == CHOOSE e \in prev : TRUE
           next == [op |-> "passages", capture |-> Len(log')]
<1>1. Goto(c, next) /\ resolver' = resolver /\ next.op \notin ResolveOps
    BY DEF CaptureAppend, Quiet, ResolveOps
<1>2. new.type # "terminal"
    BY DEF Captured
<1>3. CASE prev = {}
    <2>1. log' = log \o <<new>>
        BY <1>3 DEF CaptureAppend
    <2>2. log' = Append(log, new)
        <3>1. PICK S : log \in Seq(S)
            BY DEF IInv, LogIsSeq
        <3>2. log \in Seq(S \cup {new}) /\ <<new>> \in Seq(S \cup {new})
            BY <3>1
        <3> QED
            BY <2>1, <3>2
    <2> QED
        BY <2>2, <1>1, <1>2, OneEventStep
<1>4. CASE prev # {}
    <2>1. first \in prev
        BY <1>4
    <2>2. PICK h : first = <<Supersede(h)>>
        BY <2>1
    <2>3. log' = log \o (first \o <<new>>)
        BY <1>4 DEF CaptureAppend
    <2>4. <<Supersede(h)>> \o <<new>> = <<Supersede(h), new>>
        BY TwoSingles
    <2>5. Supersede(h).type # "terminal"
        BY DEF Supersede
    <2> QED
        BY <2>2, <2>3, <2>4, <2>5, <1>1, <1>2, PairStep
<1> QED
    BY <1>3, <1>4

LEMMA CrashStep ==
  ASSUME IInv, Crash
  PROVE  IInv'
<1>1. Grown /\ LogIsSeq'
    BY SameGrows DEF IInv, Crash
<1>2. CallsOfClients' /\ \A c \in Clients : ~Resolving(c)'
    BY DEF Crash, CallsOfClients, Idle, Resolving, ResolveOps
<1>3. \A i \in DOMAIN log' : ~(i > Len(log))
    BY <1>1 DEF Grown, Crash
<1> QED
    BY <1>1, <1>2, <1>3, NoMarker

LEMMA Inductive == IInv /\ [Next]_vars => IInv'
<1> SUFFICES ASSUME IInv, [Next]_vars PROVE IInv'
    OBVIOUS
<1> USE DEF ResolveOps
<1>1. CASE Remember
    <2>1. Memory(0).type # "terminal"
        BY DEF Memory
    <2> QED
        BY <1>1, <2>1, LoneEventStep DEF Remember, Append1, Quiet
<1>2. CASE Crash
    BY <1>2, CrashStep
<1>3. ASSUME NEW a, NEW b, AppendConflictProposal(a, b) PROVE IInv'
    <2>1. Proposal(a, b).type # "terminal"
        BY DEF Proposal
    <2> QED
        BY <1>3, <2>1, LoneEventStep DEF AppendConflictProposal, Append1, Quiet
<1>4. ASSUME NEW c \in Clients, NEW n, SupersedeCheck(c, n) PROVE IInv'
    BY <1>4, CheckStep DEF SupersedeCheck, Quiet
<1>5. ASSUME NEW c \in Clients, NEW r, RetireCheck(c, r) PROVE IInv'
    BY <1>5, CheckStep DEF RetireCheck, Quiet
<1>6. ASSUME NEW c \in Clients, NEW r, UnretireCheck(c, r) PROVE IInv'
    BY <1>6, CheckStep DEF UnretireCheck, Quiet
<1>7. ASSUME NEW c \in Clients, NEW s, DeleteCheck(c, s) PROVE IInv'
    BY <1>7, CheckStep DEF DeleteCheck, Quiet
<1>8. ASSUME NEW c \in Clients, NEW s, RecaptureCheck(c, s) PROVE IInv'
    BY <1>8, CheckStep DEF RecaptureCheck, Quiet
<1>9. ASSUME NEW c \in Clients, NEW s, NEW b, CaptureCheck(c, s, b) PROVE IInv'
    BY <1>9, CheckStep DEF CaptureCheck, Quiet
<1>10. ASSUME NEW c \in Clients, NEW p \in Of(log, "conflict_proposal"), NEW act \in Actions,
              ResolveCheck(c, p, act)
       PROVE  IInv'
    BY <1>10, ResolveCheckStep
<1>11. ASSUME NEW c \in Clients, SupersedeAppend(c) PROVE IInv'
    <2>1. Supersede(call[c].target).type # "terminal" /\ Memory(call[c].target).type # "terminal"
        BY DEF Supersede, Memory
    <2>2. Idle.op \notin ResolveOps
        BY DEF Idle
    <2> QED
        BY <1>11, <2>1, <2>2, PairStep DEF SupersedeAppend, Quiet
<1>12. ASSUME NEW c \in Clients, RetireAppend(c) PROVE IInv'
    <2>1. Retirement(call[c].ref, 0).type # "terminal" /\ Idle.op \notin ResolveOps
        BY DEF Retirement, Idle
    <2> QED
        BY <1>12, <2>1, OneEventStep DEF RetireAppend, Append1, Quiet
<1>13. ASSUME NEW c \in Clients, UnretireAppend(c) PROVE IInv'
    <2>1. UnretireEvent(call[c].ref).type # "terminal" /\ Idle.op \notin ResolveOps
        BY DEF UnretireEvent, Idle
    <2> QED
        BY <1>13, <2>1, OneEventStep DEF UnretireAppend, Append1, Quiet
<1>14. ASSUME NEW c \in Clients, CaptureAppend(c) PROVE IInv'
    BY <1>14, CaptureAppendStep
<1>15. ASSUME NEW c \in Clients, StorePassages(c) PROVE IInv'
    <2>1. Idle.op \notin ResolveOps
        BY DEF Idle
    <2> QED
        BY <1>15, <2>1, CheckStep DEF StorePassages
<1>16. ASSUME NEW c \in Clients, DeleteAppend(c) PROVE IInv'
    <2>1. SessionDeleted(call[c].session).type # "terminal" /\ Idle.op \notin ResolveOps
        BY DEF SessionDeleted, Idle
    <2> QED
        BY <1>16, <2>1, OneEventStep DEF DeleteAppend, Append1, Quiet
<1>17. ASSUME NEW c \in Clients, ResolveRetireCheck(c) PROVE IInv'
    BY <1>17, ResolveRetireCheckStep
<1>18. ASSUME NEW c \in Clients, ResolveRetireAppend(c) PROVE IInv'
    BY <1>18, ResolveRetireAppendStep
<1>19. ASSUME NEW c \in Clients, ResolveMark(c) PROVE IInv'
    BY <1>19, ResolveMarkStep
<1>20. CASE UNCHANGED vars
    <2>1. Grown /\ LogIsSeq'
        BY <1>20, SameGrows DEF IInv, vars
    <2>2. \A i \in DOMAIN log' : ~(i > Len(log))
        BY <1>20, <2>1 DEF Grown, vars
    <2> QED
        BY <1>20, <2>1, <2>2, NoCall DEF vars
<1> QED
    BY <1>1, <1>2, <1>3, <1>4, <1>5, <1>6, <1>7, <1>8, <1>9, <1>10, <1>11, <1>12, <1>13,
       <1>14, <1>15, <1>16, <1>17, <1>18, <1>19, <1>20 DEF Next

-----------------------------------------------------------------------------
(* The theorems *)

LEMMA AtMostOne ==
  ASSUME NEW S, \A i, j \in S : i = j
  PROVE  Cardinality(S) <= 1
<1>1. CASE S = {}
    BY <1>1, FS_EmptySet
<1>2. ASSUME NEW i \in S PROVE Cardinality(S) <= 1
    <2>1. S = {i}
        OBVIOUS
    <2>2. Cardinality({i}) = 1
        BY FS_Singleton
    <2> QED
        BY <2>1, <2>2
<1> QED
    BY <1>1, <1>2

\* A proposal has at most one terminal marker, however many answers are submitted at once
\* (resolve_lock and the guard of resolve_conflict).
THEOREM ConflictAnsweredOnce == Spec => []OneTerminal
<1>1. IInv => OneTerminal
    <2> SUFFICES ASSUME IInv, NEW p PROVE Cardinality(Markers(log, p)) <= 1
        BY DEF OneTerminal
    <2>1. \A i, j \in Markers(log, p) : i = j
        BY DEF IInv, OneEach, Markers
    <2> QED
        BY <2>1, AtMostOne
<1> QED
    BY <1>1, Initially, Inductive, PTL DEF Spec

\* A retiring answer is recorded only after its loser was retired, with any crash between
\* the two appends of resolve_conflict.
THEOREM NoClaimWithoutRetirement == Spec => []MarkerAfterRetire
<1>1. IInv => MarkerAfterRetire
    BY DEF IInv, MarkersLate, MarkerAfterRetire
<1> QED
    BY <1>1, Initially, Inductive, PTL DEF Spec

-----------------------------------------------------------------------------
(* Double submits.  A resolution that is to retire its loser has no retirement *)
(* of its own in force, so when retire_memory refuses it somebody else was     *)
(* faster.                                                                     *)

\* Every retirement of r on behalf of p has been taken back.
TakenBack(l, r, p) ==
    \A i \in Of(l, "retired") : l[i].ref = r /\ l[i].via = p =>
        \E j \in Of(l, "unretire") : j > i /\ l[j].ref = r
LoserIn(l, p, act) == IF act = "retire_older" THEN l[p].a ELSE l[p].b
OwnTakenBack ==
    \A c \in Clients : call[c].op = "resolve_retire" =>
        TakenBack(log, LoserIn(log, call[c].proposal, call[c].action), call[c].proposal)
SubmitInv == IInv /\ OwnTakenBack /\ CleanDoubleSubmit

NoNew(t) == \A i \in DOMAIN log' : i > Len(log) => log'[i].type # t

LEMMA SameLog ==
  ASSUME LogIsSeq
  PROVE  Len(log) \in Nat /\ DOMAIN log = 1..Len(log)
BY DEF LogIsSeq

LEMMA SameNew ==
  ASSUME LogIsSeq, log' = log
  PROVE  \A t : NoNew(t)
BY SameLog DEF NoNew

LEMMA OneNew ==
  ASSUME LogIsSeq, NEW e, log' = Append(log, e)
  PROVE  Grown /\ \A t : e.type # t => NoNew(t)
<1>1. Grown /\ Len(log') = Len(log) + 1 /\ log'[Len(log) + 1] = e
    BY AppendGrows
<1> QED
    BY <1>1 DEF NoNew, Grown

LEMMA TwoNew ==
  ASSUME LogIsSeq, NEW a, NEW b, log' = log \o <<a, b>>
  PROVE  Grown /\ \A t : a.type # t /\ b.type # t => NoNew(t)
<1>1. Grown /\ Len(log') = Len(log) + 2 /\ log'[Len(log) + 1] = a /\ log'[Len(log) + 2] = b
    BY PairGrows
<1>2. \A i \in DOMAIN log' : i > Len(log) => i = Len(log) + 1 \/ i = Len(log) + 2
    BY <1>1 DEF Grown
<1> QED
    BY <1>1, <1>2 DEF NoNew

LEMMA NextCalls ==
  ASSUME IInv, NEW c \in Clients, NEW next, Goto(c, next)
  PROVE  \A d \in Clients : call'[d] = IF d = c THEN next ELSE call[d]
BY DEF IInv, CallsOfClients, Goto

LEMMA TakenBackStays ==
  ASSUME Grown, NEW r, NEW p, TakenBack(log, r, p),
         \A i \in DOMAIN log' : i > Len(log) /\ log'[i].type = "retired" => log'[i].via # p
  PROVE  TakenBack(log', r, p)
<1> SUFFICES ASSUME NEW i \in Of(log', "retired"), log'[i].ref = r, log'[i].via = p
             PROVE  \E j \in Of(log', "unretire") : j > i /\ log'[j].ref = r
    BY DEF TakenBack
<1>1. i \in Of(log, "retired") /\ log'[i] = log[i]
    BY DEF Of, Grown
<1>2. PICK j \in Of(log, "unretire") : j > i /\ log[j].ref = r
    BY <1>1 DEF TakenBack
<1>3. j \in Of(log', "unretire") /\ log'[j] = log[j]
    BY DEF Of, Grown
<1> QED
    BY <1>2, <1>3

\* No call begins to retire, and none that is about to is served by this step.
LEMMA SubmitStep ==
  ASSUME SubmitInv, IInv', Grown, refused' = refused,
         \A d \in Clients : call'[d].op = "resolve_retire" =>
            /\ call'[d] = call[d]
            /\ \A i \in DOMAIN log' : i > Len(log) /\ log'[i].type = "retired" =>
                  log'[i].via # call[d].proposal
  PROVE  SubmitInv'
<1>1. ASSUME NEW d \in Clients, call'[d].op = "resolve_retire"
      PROVE  TakenBack(log', LoserIn(log', call'[d].proposal, call'[d].action), call'[d].proposal)
    <2> DEFINE p == call[d].proposal
               act == call[d].action
    <2>1. call'[d] = call[d] /\ Resolving(d)
        BY <1>1 DEF Resolving, ResolveOps
    <2>2. p \in DOMAIN log
        BY <2>1 DEF SubmitInv, IInv, Unanswered
    <2>3. LoserIn(log', p, act) = LoserIn(log, p, act)
        BY <2>2 DEF LoserIn, Grown
    <2>4. TakenBack(log, LoserIn(log, p, act), p)
        BY <1>1, <2>1 DEF SubmitInv, OwnTakenBack
    <2>5. TakenBack(log', LoserIn(log, p, act), p)
        BY <1>1, <2>4, TakenBackStays
    <2> QED
        BY <2>1, <2>3, <2>5
<1>2. CleanDoubleSubmit'
    BY DEF SubmitInv, CleanDoubleSubmit
<1> QED
    BY <1>1, <1>2 DEF SubmitInv, OwnTakenBack

\* The proposal of a call that has yet to retire is an event, so it has a number above 0.
LEMMA ProposalNumber ==
  ASSUME IInv, NEW d \in Clients, Resolving(d)
  PROVE  call[d].proposal # 0
<1>1. call[d].proposal \in DOMAIN log /\ DOMAIN log = 1..Len(log) /\ Len(log) \in Nat
    BY SameLog DEF IInv, Unanswered
<1> QED
    BY <1>1

\* A call that is not going to retire comes or goes, and no retirement is added.
LEMMA SubmitOther ==
  ASSUME SubmitInv, IInv', Grown, NoNew("retired"), refused' = refused,
         NEW c \in Clients, NEW next, Goto(c, next), next.op # "resolve_retire"
  PROVE  SubmitInv'
<1>1. \A d \in Clients : call'[d] = IF d = c THEN next ELSE call[d]
    BY NextCalls DEF SubmitInv
<1> QED
    BY <1>1, SubmitStep DEF NoNew

LEMMA SubmitNoCall ==
  ASSUME SubmitInv, IInv', Grown, NoNew("retired"), UNCHANGED <<refused, call>>
  PROVE  SubmitInv'
BY SubmitStep DEF NoNew

\* The answer goes on to retire only if its loser is not retired.
LEMMA SubmitResolveCheck ==
  ASSUME SubmitInv, IInv', NEW c \in Clients, NEW p \in Of(log, "conflict_proposal"),
         NEW act \in Actions, ResolveCheck(c, p, act)
  PROVE  SubmitInv'
<1>1. log' = log /\ refused' = refused /\ Grown /\ NoNew("retired")
    BY SameGrows, SameNew DEF ResolveCheck, SubmitInv, IInv
<1>2. CASE Resolution(log, p) # {}
    <2>1. UNCHANGED call
        BY <1>2 DEF ResolveCheck
    <2> QED
        BY <1>1, <2>1, SubmitNoCall
<1>3. CASE Resolution(log, p) = {}
    <2> DEFINE op == IF act \in Retiring /\ Loser(p, act) \notin Retired(log)
                     THEN "resolve_retire" ELSE "resolve_mark"
               heads == IF act = "dismiss" THEN SessionHeads(log, p) ELSE {}
               next == [op |-> op, proposal |-> p, action |-> act, heads |-> heads]
    <2>1. Goto(c, next) /\ resolver = Nil
        BY <1>3 DEF ResolveCheck
    <2>2. \A d \in Clients : call'[d] = IF d = c THEN next ELSE call[d]
        BY <2>1, NextCalls DEF SubmitInv
    <2>3. \A d \in Clients : call[d].op # "resolve_retire"
        BY <2>1, MemoriesAssumption DEF SubmitInv, IInv, LockHeld, Resolving, ResolveOps
    <2>4. ASSUME NEW d \in Clients, call'[d].op = "resolve_retire"
          PROVE  TakenBack(log', LoserIn(log', call'[d].proposal, call'[d].action),
                           call'[d].proposal)
        <3>1. d = c /\ call'[d] = next
            BY <2>2, <2>3, <2>4
        <3> HIDE DEF op, heads
        <3>2. op = "resolve_retire"
            BY <3>1, <2>4
        <3> USE DEF op
        <3>3. LoserIn(log, p, act) \notin Retired(log)
            BY <3>2 DEF LoserIn, Loser
        <3>4. TakenBack(log, LoserIn(log, p, act), p)
            BY <3>3 DEF TakenBack, Retired
        <3> QED
            BY <3>1, <3>4, <1>1
    <2> QED
        BY <2>4, <1>1 DEF SubmitInv, OwnTakenBack, CleanDoubleSubmit
<1> QED
    BY <1>2, <1>3

\* The live retirement a refusal is based on is not the proposal's own.
LEMMA RefusalIsForeign ==
  ASSUME SubmitInv, NEW c \in Clients, call[c].op = "resolve_retire",
         NEW p, p = call[c].proposal, NEW r, r = Loser(p, call[c].action), r \in Retired(log),
         NEW m \in Of(log, "retired"), log[m].ref = r,
         \A j \in Of(log, "retired") : log[j].ref = r => j <= m
  PROVE  log[m].via # p
<1> SUFFICES ASSUME log[m].via = p PROVE FALSE
    OBVIOUS
<1>1. TakenBack(log, r, p)
    BY DEF SubmitInv, OwnTakenBack, Loser, LoserIn
<1>2. PICK j \in Of(log, "unretire") : j > m /\ log[j].ref = r
    BY <1>1 DEF TakenBack
<1>3. PICK i \in Of(log, "retired") :
          log[i].ref = r /\ \A k \in Of(log, "unretire") : k > i => log[k].ref # r
    BY DEF Retired
<1>4. i <= m /\ ~(j > i)
    BY <1>2, <1>3
<1>5. i \in Nat /\ m \in Nat /\ j \in Nat
    BY SameLog DEF Of, SubmitInv, IInv
<1> QED
    BY <1>2, <1>4, <1>5

LEMMA SubmitRetireCheck ==
  ASSUME SubmitInv, IInv', NEW c \in Clients, ResolveRetireCheck(c)
  PROVE  SubmitInv'
<1>1. log' = log /\ Grown /\ NoNew("retired") /\ call[c].op = "resolve_retire"
    BY SameGrows, SameNew DEF ResolveRetireCheck, SubmitInv, IInv
<1> DEFINE p == call[c].proposal
           r == Loser(p, call[c].action)
           marks == {i \in Of(log, "retired") : log[i].ref = r}
           live == {log[i].via : i \in {i \in marks : \A j \in marks : j <= i}}
           append == Onward(c, "resolve_append")
<1>2. CASE Retirable(r)
    <2>1. Goto(c, append) /\ refused' = refused
        BY <1>2 DEF ResolveRetireCheck
    <2>2. append.op # "resolve_retire"
        BY DEF Onward
    <2> QED
        BY <1>1, <2>1, <2>2, SubmitOther
<1>3. CASE ~Retirable(r)
    <2>1. Goto(c, Idle) /\ refused' = refused \cup {<<p, v>> : v \in IF r \in Retired(log) THEN live ELSE {}}
        BY <1>3 DEF ResolveRetireCheck
    <2>2. CleanDoubleSubmit'
        <3> SUFFICES ASSUME NEW v \in live, r \in Retired(log) PROVE p # v
            BY <2>1 DEF SubmitInv, CleanDoubleSubmit
        <3>1. PICK m \in marks : v = log[m].via /\ \A j \in marks : j <= m
            OBVIOUS
        <3> QED
            BY <1>1, <3>1, RefusalIsForeign
    <2>3. \A d \in Clients : call'[d] = IF d = c THEN Idle ELSE call[d]
        BY <2>1, NextCalls DEF SubmitInv
    <2>4. OwnTakenBack'
        BY <1>1, <2>3 DEF SubmitInv, OwnTakenBack, Idle
    <2> QED
        BY <2>2, <2>4 DEF SubmitInv
<1> QED
    BY <1>2, <1>3

LEMMA SubmitRetireAppend ==
  ASSUME SubmitInv, IInv', NEW c \in Clients, ResolveRetireAppend(c)
  PROVE  SubmitInv'
<1> DEFINE mark == Onward(c, "resolve_mark")
           e == Retirement(Loser(call[c].proposal, call[c].action), call[c].proposal)
<1>1. call[c].op = "resolve_append" /\ log' = Append(log, e) /\ refused' = refused
    BY DEF ResolveRetireAppend, Append1, Quiet
<1>2. Goto(c, mark)
    BY <1>1 DEF ResolveRetireAppend
<1>3. Grown
    BY <1>1, AppendGrows DEF SubmitInv, IInv
<1>4. \A d \in Clients : call'[d] = IF d = c THEN mark ELSE call[d]
    BY <1>2, NextCalls DEF SubmitInv
<1>5. \A d \in Clients : Resolving(d) => d = c
    BY <1>1 DEF SubmitInv, IInv, LockHeld, Resolving, ResolveOps
<1>6. \A d \in Clients : call'[d].op # "resolve_retire"
    BY <1>4, <1>5 DEF Onward, Resolving, ResolveOps
<1> QED
    BY <1>1, <1>3, <1>6, SubmitStep

\* A retirement of the user's is for no proposal.
LEMMA SubmitUserRetires ==
  ASSUME SubmitInv, IInv', NEW c \in Clients, RetireAppend(c)
  PROVE  SubmitInv'
<1> DEFINE e == Retirement(call[c].ref, 0)
<1>1. log' = Append(log, e) /\ refused' = refused /\ Goto(c, Idle) /\ e.via = 0
    BY DEF RetireAppend, Append1, Quiet, Retirement
<1>2. Grown /\ Len(log') = Len(log) + 1 /\ log'[Len(log) + 1] = e
    BY <1>1, AppendGrows DEF SubmitInv, IInv
<1>3. \A d \in Clients : call'[d] = IF d = c THEN Idle ELSE call[d]
    BY <1>1, NextCalls DEF SubmitInv
<1>4. \A i \in DOMAIN log' : i > Len(log) => log'[i] = e
    BY <1>2 DEF Grown
<1>5. \A d \in Clients : call'[d].op = "resolve_retire" => call'[d] = call[d] /\ call[d].proposal # 0
    BY <1>3, ProposalNumber DEF Idle, Resolving, ResolveOps, SubmitInv
<1> QED
    BY <1>1, <1>2, <1>4, <1>5, SubmitStep

\* The capture of a session adds its event, or the pair of the old one's end and the new one.
LEMMA CaptureAdds ==
  ASSUME NEW c \in Clients, CaptureAppend(c), IInv,
         NEW new, new = Captured(call[c].session, call[c].body)
  PROVE  \/ call[c].prev = {} /\ log' = Append(log, new)
         \/ \E h \in call[c].prev : log' = log \o <<Supersede(h), new>>
<1> DEFINE prev == {<<Supersede(h)>> : h \in call[c].prev}
           first == CHOOSE e \in prev : TRUE
<1>1. CASE prev = {}
    <2>1. log' = log \o <<new>>
        BY <1>1 DEF CaptureAppend
    <2>2. PICK S : log \in Seq(S)
        BY DEF IInv, LogIsSeq
    <2>3. log \in Seq(S \cup {new}) /\ <<new>> \in Seq(S \cup {new})
        BY <2>2
    <2>4. log' = Append(log, new)
        BY <2>1, <2>3
    <2>5. call[c].prev = {}
        BY <1>1
    <2> QED
        BY <2>4, <2>5
<1>2. CASE prev # {}
    <2>1. first \in prev
        BY <1>2
    <2>2. PICK h \in call[c].prev : first = <<Supersede(h)>>
        BY <2>1
    <2>3. log' = log \o (first \o <<new>>)
        BY <1>2 DEF CaptureAppend
    <2>4. <<Supersede(h)>> \o <<new>> = <<Supersede(h), new>>
        BY TwoSingles
    <2> QED
        BY <2>2, <2>3, <2>4
<1> QED
    BY <1>1, <1>2

\* A step that is no answer to a conflict: its call is not to retire one, and it retires nothing.
LEMMA SubmitCheck ==
  ASSUME SubmitInv, IInv', log' = log, refused' = refused,
         NEW c \in Clients, NEW next, Goto(c, next), next.op # "resolve_retire"
  PROVE  SubmitInv'
<1>1. Grown /\ NoNew("retired")
    BY SameGrows, SameNew DEF SubmitInv, IInv
<1> QED
    BY <1>1, SubmitOther

LEMMA SubmitAppend ==
  ASSUME SubmitInv, IInv', NEW e, log' = Append(log, e), e.type # "retired", refused' = refused,
         NEW c \in Clients, NEW next, Goto(c, next), next.op # "resolve_retire"
  PROVE  SubmitInv'
BY OneNew, SubmitOther DEF SubmitInv, IInv

LEMMA SubmitPair ==
  ASSUME SubmitInv, IInv', NEW a, NEW b, log' = log \o <<a, b>>,
         a.type # "retired", b.type # "retired", refused' = refused,
         NEW c \in Clients, NEW next, Goto(c, next), next.op # "resolve_retire"
  PROVE  SubmitInv'
BY TwoNew, SubmitOther DEF SubmitInv, IInv

LEMMA SubmitLone ==
  ASSUME SubmitInv, IInv', NEW e, log' = Append(log, e), e.type # "retired",
         UNCHANGED <<refused, call>>
  PROVE  SubmitInv'
BY OneNew, SubmitNoCall DEF SubmitInv, IInv

LEMMA SubmitInductive == SubmitInv /\ IInv' /\ [Next]_vars => SubmitInv'
<1> SUFFICES ASSUME SubmitInv, IInv', [Next]_vars PROVE SubmitInv'
    OBVIOUS
<1> USE DEF Quiet, Append1
<1>1. CASE Remember
    <2>1. Memory(0).type # "retired"
        BY DEF Memory
    <2> QED
        BY <1>1, <2>1, SubmitLone DEF Remember
<1>2. CASE Crash
    <2>1. \A d \in Clients : call'[d].op # "resolve_retire"
        BY <1>2 DEF Crash, Idle
    <2>2. Grown /\ refused' = refused
        BY <1>2, SameGrows DEF Crash, SubmitInv, IInv
    <2> QED
        BY <2>1, <2>2, SubmitStep
<1>3. ASSUME NEW a, NEW b, AppendConflictProposal(a, b) PROVE SubmitInv'
    <2>1. Proposal(a, b).type # "retired"
        BY DEF Proposal
    <2> QED
        BY <1>3, <2>1, SubmitLone DEF AppendConflictProposal
<1>4. ASSUME NEW c \in Clients, NEW n, SupersedeCheck(c, n) PROVE SubmitInv'
    BY <1>4, SubmitCheck DEF SupersedeCheck
<1>5. ASSUME NEW c \in Clients, NEW r, RetireCheck(c, r) PROVE SubmitInv'
    BY <1>5, SubmitCheck DEF RetireCheck
<1>6. ASSUME NEW c \in Clients, NEW r, UnretireCheck(c, r) PROVE SubmitInv'
    BY <1>6, SubmitCheck DEF UnretireCheck
<1>7. ASSUME NEW c \in Clients, NEW s, DeleteCheck(c, s) PROVE SubmitInv'
    BY <1>7, SubmitCheck DEF DeleteCheck
<1>8. ASSUME NEW c \in Clients, NEW s, RecaptureCheck(c, s) PROVE SubmitInv'
    BY <1>8, SubmitCheck DEF RecaptureCheck
<1>9. ASSUME NEW c \in Clients, NEW s, NEW b, CaptureCheck(c, s, b) PROVE SubmitInv'
    BY <1>9, SubmitCheck DEF CaptureCheck
<1>10. ASSUME NEW c \in Clients, NEW p \in Of(log, "conflict_proposal"), NEW act \in Actions,
              ResolveCheck(c, p, act)
       PROVE  SubmitInv'
    BY <1>10, SubmitResolveCheck
<1>11. ASSUME NEW c \in Clients, SupersedeAppend(c) PROVE SubmitInv'
    <2>1. Supersede(call[c].target).type # "retired" /\ Memory(call[c].target).type # "retired"
        BY DEF Supersede, Memory
    <2> QED
        BY <1>11, <2>1, SubmitPair DEF SupersedeAppend, Idle
<1>12. ASSUME NEW c \in Clients, RetireAppend(c) PROVE SubmitInv'
    BY <1>12, SubmitUserRetires
<1>13. ASSUME NEW c \in Clients, UnretireAppend(c) PROVE SubmitInv'
    <2>1. UnretireEvent(call[c].ref).type # "retired"
        BY DEF UnretireEvent
    <2> QED
        BY <1>13, <2>1, SubmitAppend DEF UnretireAppend, Idle
<1>14. ASSUME NEW c \in Clients, CaptureAppend(c) PROVE SubmitInv'
    <2> DEFINE new == Captured(call[c].session, call[c].body)
               next == [op |-> "passages", capture |-> Len(log')]
    <2>1. Goto(c, next) /\ refused' = refused /\ next.op # "resolve_retire"
        BY <1>14 DEF CaptureAppend
    <2>2. new.type # "retired" /\ \A h : Supersede(h).type # "retired"
        BY DEF Captured, Supersede
    <2>3. \/ log' = Append(log, new)
          \/ \E h : log' = log \o <<Supersede(h), new>>
        BY <1>14, CaptureAdds DEF SubmitInv
    <2> HIDE DEF new, next
    <2> QED
        BY <2>1, <2>2, <2>3, SubmitAppend, SubmitPair
<1>15. ASSUME NEW c \in Clients, StorePassages(c) PROVE SubmitInv'
    BY <1>15, SubmitCheck DEF StorePassages, Idle
<1>16. ASSUME NEW c \in Clients, DeleteAppend(c) PROVE SubmitInv'
    <2>1. SessionDeleted(call[c].session).type # "retired"
        BY DEF SessionDeleted
    <2> QED
        BY <1>16, <2>1, SubmitAppend DEF DeleteAppend, Idle
<1>17. ASSUME NEW c \in Clients, ResolveRetireCheck(c) PROVE SubmitInv'
    BY <1>17, SubmitRetireCheck
<1>18. ASSUME NEW c \in Clients, ResolveRetireAppend(c) PROVE SubmitInv'
    BY <1>18, SubmitRetireAppend
<1>19. ASSUME NEW c \in Clients, ResolveMark(c) PROVE SubmitInv'
    <2>1. Terminal(call[c].proposal, call[c].action, call[c].heads).type # "retired"
        BY DEF Terminal
    <2> QED
        BY <1>19, <2>1, SubmitAppend DEF ResolveMark, Idle
<1>20. CASE UNCHANGED vars
    BY <1>20, SameGrows, SameNew, SubmitNoCall DEF vars, SubmitInv, IInv
<1> QED
    BY <1>1, <1>2, <1>3, <1>4, <1>5, <1>6, <1>7, <1>8, <1>9, <1>10, <1>11, <1>12, <1>13, <1>14, <1>15, <1>16, <1>17, <1>18, <1>19, <1>20 DEF Next

\* A resolve_conflict is refused with "already retired" only when somebody else retired the
\* loser: a double submit of one proposal is Applied and NoOp, with any crash in between.
THEOREM DoubleSubmitIsClean == Spec => []CleanDoubleSubmit
<1>1. Init /\ IInv => SubmitInv
    <2> SUFFICES ASSUME Init, IInv PROVE SubmitInv
        OBVIOUS
    <2>1. OwnTakenBack
        BY DEF Init, OwnTakenBack, Idle
    <2>2. CleanDoubleSubmit
        BY DEF Init, CleanDoubleSubmit
    <2> QED
        BY <2>1, <2>2 DEF SubmitInv
<1>2. SubmitInv => IInv /\ CleanDoubleSubmit
    BY DEF SubmitInv
<1> QED
    BY <1>1, <1>2, Initially, Inductive, SubmitInductive, PTL DEF Spec

-----------------------------------------------------------------------------
(* The lifecycle.  What a fold shows after an append, for any log l and the log *)
(* m it has grown to.                                                           *)

IsLog(l) == Len(l) \in Nat /\ DOMAIN l = 1..Len(l)
Extends(m, l) ==
    /\ IsLog(l) /\ IsLog(m) /\ Len(l) <= Len(m)
    /\ \A i \in 1..Len(l) : m[i] = l[i]
Fresh(m, l) == {i \in DOMAIN m : i > Len(l)}

LEMMA FoldsGrow ==
  ASSUME NEW l, NEW m, Extends(m, l)
  PROVE  /\ \A t : Of(m, t) = Of(l, t) \cup {i \in Fresh(m, l) : m[i].type = t}
         /\ \A t : \A i \in Of(l, t) : m[i] = l[i] /\ i \in DOMAIN l /\ i \notin Fresh(m, l)
         /\ Superseded(m) = Superseded(l)
              \cup {m[i].supersedes : i \in {i \in Fresh(m, l) : m[i].type = "supersede"}}
         /\ Deleted(m) = Deleted(l)
              \cup {m[i].session : i \in {i \in Fresh(m, l) : m[i].type = "session_deleted"}}
<1>1. \A t : Of(m, t) = Of(l, t) \cup {i \in Fresh(m, l) : m[i].type = t}
    BY DEF Extends, IsLog, Of, Fresh
<1>2. \A t : \A i \in Of(l, t) : m[i] = l[i] /\ i \in DOMAIN l /\ i \notin Fresh(m, l)
    BY DEF Extends, IsLog, Of, Fresh
<1>3. Superseded(m) = Superseded(l)
        \cup {m[i].supersedes : i \in {i \in Fresh(m, l) : m[i].type = "supersede"}}
    BY <1>1, <1>2 DEF Superseded
<1>4. Deleted(m) = Deleted(l)
        \cup {m[i].session : i \in {i \in Fresh(m, l) : m[i].type = "session_deleted"}}
    BY <1>1, <1>2 DEF Deleted
<1> QED
    BY <1>1, <1>2, <1>3, <1>4

\* A fold none of whose events is new stays as it is.
LEMMA FoldsStay ==
  ASSUME NEW l, NEW m, Extends(m, l)
  PROVE  /\ \A t : (\A i \in Fresh(m, l) : m[i].type # t) => Of(m, t) = Of(l, t)
         /\ (\A i \in Fresh(m, l) : m[i].type # "supersede") => Superseded(m) = Superseded(l)
         /\ (\A i \in Fresh(m, l) : m[i].type # "session_deleted") => Deleted(m) = Deleted(l)
         /\ \A t : \A i : m[i].type = t /\ Fresh(m, l) = {i} => Of(m, t) = Of(l, t) \cup {i}
<1>1. \A t : Of(m, t) = Of(l, t) \cup {i \in Fresh(m, l) : m[i].type = t}
    BY FoldsGrow
<1>2. Superseded(m) = Superseded(l)
        \cup {m[i].supersedes : i \in {i \in Fresh(m, l) : m[i].type = "supersede"}}
    BY FoldsGrow
<1>3. Deleted(m) = Deleted(l)
        \cup {m[i].session : i \in {i \in Fresh(m, l) : m[i].type = "session_deleted"}}
    BY FoldsGrow
<1>4. \A t : (\A i \in Fresh(m, l) : m[i].type # t) => {i \in Fresh(m, l) : m[i].type = t} = {}
    OBVIOUS
<1>5. (\A i \in Fresh(m, l) : m[i].type # "supersede") => Superseded(m) = Superseded(l)
    BY <1>2, <1>4
<1>6. (\A i \in Fresh(m, l) : m[i].type # "session_deleted") => Deleted(m) = Deleted(l)
    BY <1>3, <1>4
<1>7. \A t : (\A i \in Fresh(m, l) : m[i].type # t) => Of(m, t) = Of(l, t)
    BY <1>1, <1>4
<1>8. \A t : \A i : m[i].type = t /\ Fresh(m, l) = {i} => Of(m, t) = Of(l, t) \cup {i}
    BY <1>1
<1> QED
    BY <1>5, <1>6, <1>7, <1>8

\* Retirements and unretirements are the only events that matter to Retired.
LEMMA RetiredStays ==
  ASSUME NEW l, NEW m, Extends(m, l),
         \A i \in Fresh(m, l) : m[i].type # "retired" /\ m[i].type # "unretire"
  PROVE  Retired(m) = Retired(l)
<1>1. Of(m, "retired") = Of(l, "retired") /\ Of(m, "unretire") = Of(l, "unretire")
    BY FoldsStay
<1>2. \A t : \A i \in Of(l, t) : m[i] = l[i]
    BY FoldsGrow
<1> QED
    BY <1>1, <1>2 DEF Retired

LEMMA RetiredGrows ==
  ASSUME NEW l, NEW m, Extends(m, l), NEW r, NEW n, Fresh(m, l) = {n},
         m[n].type = "retired", m[n].ref = r
  PROVE  Retired(m) = Retired(l) \cup {r}
<1>1. Of(m, "retired") = Of(l, "retired") \cup {n} /\ Of(m, "unretire") = Of(l, "unretire")
    BY FoldsGrow
<1>2. \A t : \A i \in Of(l, t) : m[i] = l[i]
    BY FoldsGrow
<1>3. \A j \in Of(l, "unretire") : ~(j > n)
    BY DEF Extends, IsLog, Of, Fresh
<1>4. ASSUME NEW x \in Retired(l) PROVE x \in Retired(m)
    <2>1. PICK i \in Of(l, "retired") :
              x = l[i].ref /\ \A j \in Of(l, "unretire") : j > i => l[j].ref # l[i].ref
        BY DEF Retired
    <2> QED
        BY <2>1, <1>1, <1>2 DEF Retired
<1>5. r \in Retired(m)
    BY <1>1, <1>3 DEF Retired
<1>6. ASSUME NEW x \in Retired(m), x # r PROVE x \in Retired(l)
    <2>1. PICK i \in Of(m, "retired") :
              x = m[i].ref /\ \A j \in Of(m, "unretire") : j > i => m[j].ref # m[i].ref
        BY DEF Retired
    <2>2. i \in Of(l, "retired")
        BY <2>1, <1>1, <1>6
    <2> QED
        BY <2>1, <2>2, <1>1, <1>2 DEF Retired
<1> QED
    BY <1>4, <1>5, <1>6

LEMMA RetiredShrinks ==
  ASSUME NEW l, NEW m, Extends(m, l), NEW r, NEW n, Fresh(m, l) = {n},
         m[n].type = "unretire", m[n].ref = r
  PROVE  Retired(m) = Retired(l) \ {r}
<1>1. Of(m, "retired") = Of(l, "retired") /\ Of(m, "unretire") = Of(l, "unretire") \cup {n}
    BY FoldsGrow
<1>2. \A t : \A i \in Of(l, t) : m[i] = l[i]
    BY FoldsGrow
<1>3. \A i \in Of(l, "retired") : n > i
    BY DEF Extends, IsLog, Of, Fresh
<1>4. ASSUME NEW x \in Retired(l), x # r PROVE x \in Retired(m)
    <2>1. PICK i \in Of(l, "retired") :
              x = l[i].ref /\ \A j \in Of(l, "unretire") : j > i => l[j].ref # l[i].ref
        BY DEF Retired
    <2>2. \A j \in Of(m, "unretire") : j > i => m[j].ref # m[i].ref
        BY <2>1, <1>1, <1>2, <1>4
    <2> QED
        BY <2>1, <2>2, <1>1, <1>2 DEF Retired
<1>5. ASSUME NEW x \in Retired(m) PROVE x \in Retired(l) /\ x # r
    <2>1. PICK i \in Of(m, "retired") :
              x = m[i].ref /\ \A j \in Of(m, "unretire") : j > i => m[j].ref # m[i].ref
        BY DEF Retired
    <2>2. i \in Of(l, "retired") /\ n > i /\ m[n].ref # m[i].ref
        BY <2>1, <1>1, <1>3
    <2>3. \A j \in Of(l, "unretire") : j > i => l[j].ref # l[i].ref
        BY <2>1, <2>2, <1>1, <1>2
    <2> QED
        BY <2>1, <2>2, <2>3, <1>2 DEF Retired
<1> QED
    BY <1>4, <1>5

-----------------------------------------------------------------------------
(* Every event, and every call, speaks of what is there. *)

\* A ref is a note that has been remembered, or a passage.
Known(l, r) == (\E n \in Of(l, "memory") : r = Note(n)) \/ r.kind = "passage"
CapturesOf(l, s) == {k \in Of(l, "session_captured") : l[k].session = s}

EventKnown(l, e) ==
    /\ e.type = "supersede" => e.supersedes \in Of(l, "memory") \cup Of(l, "session_captured")
    /\ e.type = "retired" => Known(l, e.ref)
    /\ e.type = "conflict_proposal" => Known(l, e.a) /\ Known(l, e.b)
EventsKnown(l) == \A i \in DOMAIN l : EventKnown(l, l[i])

CallKnown(l, o) ==
    /\ o.op = "supersede" => o.target \in Of(l, "memory")
    /\ o.op = "retire" => Known(l, o.ref)
    /\ o.op = "capture" => o.prev \subseteq CapturesOf(l, o.session)
    /\ o.op = "delete" => CapturesOf(l, o.session) # {}
    /\ o.op \in ResolveOps => o.proposal \in Of(l, "conflict_proposal") /\ o.action \in Actions
CallsKnown == \A c \in Clients : CallKnown(log, call[c])

\* A session that was captured keeps a capture: one that is replaced is replaced by another.
StillCaptured(l) ==
    \A k \in Of(l, "session_captured") : CapturesOf(l, l[k].session) \ Superseded(l) # {}

LifeInv == IInv /\ CallsKnown /\ EventsKnown(log) /\ StillCaptured(log)

LEMMA KnownStays ==
  ASSUME NEW l, NEW m, Extends(m, l)
  PROVE  /\ \A r : Known(l, r) => Known(m, r)
         /\ \A s : CapturesOf(l, s) \subseteq CapturesOf(m, s)
         /\ \A e : EventKnown(l, e) => EventKnown(m, e)
         /\ \A o : CallKnown(l, o) => CallKnown(m, o)
<1>1. \A t : Of(l, t) \subseteq Of(m, t)
    BY FoldsGrow
<1>2. \A t : \A i \in Of(l, t) : m[i] = l[i]
    BY FoldsGrow
<1>3. \A r : Known(l, r) => Known(m, r)
    BY <1>1 DEF Known
<1>4. \A s : CapturesOf(l, s) \subseteq CapturesOf(m, s)
    BY <1>1, <1>2 DEF CapturesOf
<1>5. \A e : EventKnown(l, e) => EventKnown(m, e)
    BY <1>1, <1>3 DEF EventKnown
<1>6. ASSUME NEW o, CallKnown(l, o) PROVE CallKnown(m, o)
    <2>1. o.op = "supersede" => o.target \in Of(m, "memory")
        BY <1>6, <1>1 DEF CallKnown
    <2>2. o.op = "retire" => Known(m, o.ref)
        BY <1>6, <1>3 DEF CallKnown
    <2>3. o.op = "capture" => o.prev \subseteq CapturesOf(m, o.session)
        BY <1>6, <1>4 DEF CallKnown
    <2>4. o.op = "delete" => CapturesOf(m, o.session) # {}
        BY <1>6, <1>4 DEF CallKnown
    <2>5. o.op \in ResolveOps => o.proposal \in Of(m, "conflict_proposal") /\ o.action \in Actions
        BY <1>6, <1>1 DEF CallKnown
    <2> QED
        BY <2>1, <2>2, <2>3, <2>4, <2>5 DEF CallKnown
<1> QED
    BY <1>3, <1>4, <1>5, <1>6

LEMMA EventsKnownStay ==
  ASSUME NEW l, NEW m, Extends(m, l), EventsKnown(l),
         \A i \in Fresh(m, l) : EventKnown(m, m[i])
  PROVE  EventsKnown(m)
<1> SUFFICES ASSUME NEW i \in DOMAIN m PROVE EventKnown(m, m[i])
    BY DEF EventsKnown
<1>1. CASE i \in Fresh(m, l)
    BY <1>1
<1>2. CASE i \notin Fresh(m, l)
    <2>1. i \in DOMAIN l /\ m[i] = l[i]
        BY <1>2 DEF Fresh, Extends, IsLog
    <2> QED
        BY <2>1, KnownStays DEF EventsKnown
<1> QED
    BY <1>1, <1>2

\* Only captures that come with a newer one are superseded.
LEMMA StillCapturedStays ==
  ASSUME NEW l, NEW m, Extends(m, l), StillCaptured(l),
         \A k \in Fresh(m, l) : m[k].type = "session_captured" => k \notin Superseded(m),
         \A k \in Of(l, "session_captured") : k \in Superseded(m) =>
            \/ k \in Superseded(l)
            \/ CapturesOf(m, l[k].session) \ Superseded(m) # {}
  PROVE  StillCaptured(m)
<1> SUFFICES ASSUME NEW k \in Of(m, "session_captured")
             PROVE  CapturesOf(m, m[k].session) \ Superseded(m) # {}
    BY DEF StillCaptured
<1>1. CASE k \in Fresh(m, l)
    <2>1. k \notin Superseded(m)
        BY <1>1 DEF Of
    <2>2. k \in CapturesOf(m, m[k].session)
        BY DEF CapturesOf
    <2> QED
        BY <2>1, <2>2
<1>2. CASE k \notin Fresh(m, l)
    <2>1. k \in Of(l, "session_captured") /\ m[k] = l[k]
        BY <1>2, FoldsGrow
    <2>2. PICK d \in CapturesOf(l, l[k].session) : d \notin Superseded(l)
        BY <2>1 DEF StillCaptured
    <2>3. d \in CapturesOf(m, m[k].session) /\ d \in Of(l, "session_captured")
        BY <2>1, <2>2, KnownStays DEF CapturesOf
    <2>4. l[d].session = m[k].session
        BY <2>1, <2>2 DEF CapturesOf
    <2> QED
        BY <2>2, <2>3, <2>4
<1> QED
    BY <1>1, <1>2

-----------------------------------------------------------------------------
(* What the lifecycle shows of a log *)

NoteIn(l, n) ==
    IF n \notin Of(l, "memory") THEN "absent"
    ELSE IF n \in CurrentNotes(l) THEN "current"
    ELSE IF n \in Superseded(l) THEN "replaced" ELSE "retired"
SessionIn(l, s) ==
    IF HeadOf(l, s) # {} THEN "captured"
    ELSE IF s \in Deleted(l) THEN "deleted" ELSE "absent"
NotesOf(l) == [n \in 1..MaxEvents |-> NoteIn(l, n)]
SessionsOf(l) == [s \in Sessions |-> SessionIn(l, s)]

\* A step of the lifecycle; no move at all is one of the steps of a note.
LifeStep(l, m) ==
    \/ Lifecycle!NoteStep(NotesOf(l), NotesOf(m)) /\ SessionsOf(m) = SessionsOf(l)
    \/ Lifecycle!SessionStep(SessionsOf(l), SessionsOf(m)) /\ NotesOf(m) = NotesOf(l)

LEMMA NoteFacts ==
  ASSUME NEW l, NEW n
  PROVE  /\ NoteIn(l, n) = "absent" <=> n \notin Of(l, "memory")
         /\ NoteIn(l, n) = "replaced" <=> n \in Of(l, "memory") /\ n \in Superseded(l)
         /\ NoteIn(l, n) = "retired" <=>
                n \in Of(l, "memory") /\ n \notin Superseded(l) /\ Note(n) \in Retired(l)
         /\ NoteIn(l, n) = "current" <=>
                n \in Of(l, "memory") /\ n \notin Superseded(l) /\ Note(n) \notin Retired(l)
BY DEF NoteIn, CurrentNotes

LEMMA NoteCases ==
  ASSUME NEW l, NEW n
  PROVE  NoteIn(l, n) \in {"absent", "current", "retired", "replaced"}
BY DEF NoteIn

\* A note's state depends on its event, on what is superseded and on what is retired.
LEMMA NoteSame ==
  ASSUME NEW l, NEW m, NEW n,
         n \in Of(m, "memory") <=> n \in Of(l, "memory"),
         n \in Of(l, "memory") => (n \in Superseded(m) <=> n \in Superseded(l)),
         n \in Of(l, "memory") => (Note(n) \in Retired(m) <=> Note(n) \in Retired(l))
  PROVE  NoteIn(m, n) = NoteIn(l, n)
BY DEF NoteIn, CurrentNotes

LEMMA NotesSame ==
  ASSUME NEW l, NEW m, \A n \in 1..MaxEvents : NoteIn(m, n) = NoteIn(l, n)
  PROVE  NotesOf(m) = NotesOf(l)
BY DEF NotesOf

LEMMA NothingMoves ==
  ASSUME NEW was, NEW is, is = was
  PROVE  Lifecycle!NoteStep(was, is)
BY DEF Lifecycle!NoteStep

LEMMA OneNoteMoves ==
  ASSUME NEW was, NEW is, NEW n \in 1..MaxEvents,
         \A k \in 1..MaxEvents : k # n => is[k] = was[k],
         is[n] = was[n] \/ (<<was[n], is[n]>> \in Lifecycle!NoteMoves /\ is[n] # "replaced")
  PROVE  Lifecycle!NoteStep(was, is)
BY DEF Lifecycle!NoteStep

LEMMA NoteIsEdited ==
  ASSUME NEW was, NEW is, NEW o \in 1..MaxEvents, NEW n \in 1..MaxEvents, o # n,
         \A k \in 1..MaxEvents : k # n /\ k # o => is[k] = was[k],
         was[n] = "absent", is[n] = "current",
         is[o] = was[o] \/ (<<was[o], is[o]>> \in Lifecycle!NoteMoves /\ is[o] = "replaced")
  PROVE  Lifecycle!NoteStep(was, is)
<1>1. <<"absent", "current">> \in Lifecycle!NoteMoves
    BY DEF Lifecycle!NoteMoves
<1> QED
    BY <1>1 DEF Lifecycle!NoteStep

LEMMA OneSessionMoves ==
  ASSUME NEW was, NEW is, NEW s,
         \A t \in Sessions : t # s => is[t] = was[t],
         is[s] = was[s] \/ <<was[s], is[s]>> \in Lifecycle!SessionMoves
  PROVE  Lifecycle!SessionStep(was, is)
BY DEF Lifecycle!SessionStep

-----------------------------------------------------------------------------
(* A session that has captures has a current one: the last. *)

LEMMA GreatestNumber ==
  ASSUME NEW N \in Nat, NEW T \in SUBSET (0..N), T # {}
  PROVE  \E x \in T : \A y \in T : y <= x
<1> DEFINE below == {N - x : x \in T}
<1>1. below \in SUBSET Nat /\ below # {}
    OBVIOUS
<1> HIDE DEF below
<1>2. IsWellFoundedOn(OpToRel(<, Nat), Nat)
    BY NatLessThanWellFounded
<1>3. \E b \in below : \A y \in below : ~ (<<y, b>> \in OpToRel(<, Nat))
    BY <1>1, <1>2, WFMin
<1>4. PICK b \in below : \A y \in below : ~ (<<y, b>> \in OpToRel(<, Nat))
    BY <1>3
<1>5. \A y \in below : b <= y
    <2> SUFFICES ASSUME NEW y \in below, y < b PROVE FALSE
        BY <1>1
    <2>1. <<y, b>> \in OpToRel(<, Nat)
        BY <1>1 DEF OpToRel
    <2> QED
        BY <2>1, <1>4
<1>6. PICK x \in T : b = N - x
    BY DEF below
<1>7. ASSUME NEW y \in T PROVE y <= x
    <2>1. N - y \in below
        BY DEF below
    <2>2. N - x <= N - y
        BY <2>1, <1>5, <1>6
    <2> QED
        BY <2>2
<1> QED
    BY <1>7

LEMMA SessionFacts ==
  ASSUME NEW l, IsLog(l), StillCaptured(l), NEW s
  PROVE  HeadOf(l, s) # {} <=> s \notin Deleted(l) /\ CapturesOf(l, s) # {}
<1>1. ASSUME NEW h \in HeadOf(l, s) PROVE s \notin Deleted(l) /\ h \in CapturesOf(l, s)
    BY DEF HeadOf, Heads, Captures, CapturesOf, Of
<1>2. ASSUME s \notin Deleted(l), NEW k \in CapturesOf(l, s) PROVE HeadOf(l, s) # {}
    <2> DEFINE T == CapturesOf(l, s) \ Superseded(l)
    <2>1. k \in Of(l, "session_captured") /\ l[k].session = s
        BY <1>2 DEF CapturesOf
    <2>2. T # {}
        BY <2>1 DEF StillCaptured
    <2>3. T \in SUBSET (0..Len(l))
        BY DEF CapturesOf, Of, IsLog
    <2>4. \A c : c \in T <=> c \in Captures(l) /\ l[c].session = s
        BY <1>2 DEF CapturesOf, Captures
    <2> HIDE DEF T
    <2>5. PICK h \in T : \A c \in T : c <= h
        BY <2>2, <2>3, GreatestNumber DEF IsLog
    <2>6. h \in HeadOf(l, s)
        BY <2>4, <2>5 DEF HeadOf, Heads
    <2> QED
        BY <2>6
<1> QED
    BY <1>1, <1>2

LEMMA SessionSame ==
  ASSUME NEW l, NEW m, IsLog(l), IsLog(m), StillCaptured(l), StillCaptured(m), NEW s,
         s \in Deleted(m) <=> s \in Deleted(l),
         CapturesOf(m, s) # {} <=> CapturesOf(l, s) # {}
  PROVE  SessionIn(m, s) = SessionIn(l, s)
<1>1. HeadOf(m, s) # {} <=> HeadOf(l, s) # {}
    BY SessionFacts
<1> QED
    BY <1>1 DEF SessionIn

LEMMA SessionsSame ==
  ASSUME NEW l, NEW m, \A s \in Sessions : SessionIn(m, s) = SessionIn(l, s)
  PROVE  SessionsOf(m) = SessionsOf(l)
BY DEF SessionsOf

-----------------------------------------------------------------------------
(* What each kind of event does to the lifecycle *)

\* An edit names a memory or a capture, a retirement a note that is there or a passage.
LEMMA KnownTargets ==
  ASSUME NEW l, EventsKnown(l)
  PROVE  /\ Superseded(l) \subseteq Of(l, "memory") \cup Of(l, "session_captured")
         /\ \A n : Note(n) \in Retired(l) => n \in Of(l, "memory")
<1>1. Superseded(l) \subseteq Of(l, "memory") \cup Of(l, "session_captured")
    BY DEF Superseded, EventsKnown, EventKnown, Of
<1>2. ASSUME NEW n, Note(n) \in Retired(l) PROVE n \in Of(l, "memory")
    <2>1. PICK i \in Of(l, "retired") : l[i].ref = Note(n)
        BY <1>2 DEF Retired
    <2>2. Known(l, Note(n))
        BY <2>1 DEF EventsKnown, EventKnown, Of
    <2>3. Note(n).kind # "passage" /\ \A k : Note(n) = Note(k) => n = k
        BY DEF Note
    <2> QED
        BY <2>2, <2>3 DEF Known
<1> QED
    BY <1>1, <1>2

\* Events the lifecycle does not show: proposals and answers.
LEMMA Unseen ==
  ASSUME NEW l, NEW m, Extends(m, l), EventsKnown(l), StillCaptured(l),
         \A i \in Fresh(m, l) :
            /\ m[i].type \in {"conflict_proposal", "terminal"}
            /\ EventKnown(m, m[i])
  PROVE  EventsKnown(m) /\ StillCaptured(m) /\ LifeStep(l, m)
<1>1. \A i \in Fresh(m, l) : /\ m[i].type # "memory" /\ m[i].type # "supersede"
                             /\ m[i].type # "retired" /\ m[i].type # "unretire"
                             /\ m[i].type # "session_captured" /\ m[i].type # "session_deleted"
    OBVIOUS
<1>2. /\ Of(m, "memory") = Of(l, "memory") /\ Of(m, "session_captured") = Of(l, "session_captured")
      /\ Superseded(m) = Superseded(l) /\ Deleted(m) = Deleted(l) /\ Retired(m) = Retired(l)
    BY <1>1, FoldsStay, RetiredStays
<1>3. EventsKnown(m)
    BY EventsKnownStay
<1>4. StillCaptured(m)
    BY <1>1, <1>2, StillCapturedStays
<1>5. NotesOf(m) = NotesOf(l)
    BY <1>2, NoteSame, NotesSame
<1>6. \A s : CapturesOf(m, s) = CapturesOf(l, s)
    BY <1>2, FoldsGrow DEF CapturesOf
<1>7. SessionsOf(m) = SessionsOf(l)
    BY <1>2, <1>4, <1>6, SessionSame, SessionsSame DEF Extends
<1> QED
    BY <1>3, <1>4, <1>5, <1>7, NothingMoves DEF LifeStep

\* Nothing happened.
LEMMA SameLife ==
  ASSUME NEW l
  PROVE  LifeStep(l, l)
BY NothingMoves DEF LifeStep

\* A note is remembered: absent, then current.
LEMMA Remembered ==
  ASSUME NEW l, NEW m, Extends(m, l), EventsKnown(l), StillCaptured(l),
         NEW n \in 1..MaxEvents, Fresh(m, l) = {n}, m[n].type = "memory"
  PROVE  EventsKnown(m) /\ StillCaptured(m) /\ LifeStep(l, m)
<1>1. /\ Of(m, "memory") = Of(l, "memory") \cup {n} /\ n \notin Of(l, "memory")
      /\ Of(m, "session_captured") = Of(l, "session_captured") /\ n \notin Of(l, "session_captured")
      /\ Superseded(m) = Superseded(l) /\ Deleted(m) = Deleted(l) /\ Retired(m) = Retired(l)
    <2>1. /\ Of(m, "memory") = Of(l, "memory") \cup {n}
          /\ Of(m, "session_captured") = Of(l, "session_captured")
        BY FoldsStay
    <2>2. Superseded(m) = Superseded(l) /\ Deleted(m) = Deleted(l)
        BY FoldsStay
    <2>3. Retired(m) = Retired(l)
        BY RetiredStays
    <2>4. n \notin Of(l, "memory") /\ n \notin Of(l, "session_captured")
        BY FoldsGrow
    <2> QED
        BY <2>1, <2>2, <2>3, <2>4
<1>2. EventsKnown(m)
    <2>1. EventKnown(m, m[n])
        BY DEF EventKnown
    <2> QED
        BY <2>1, EventsKnownStay
<1>3. StillCaptured(m)
    BY <1>1, StillCapturedStays
<1>4. n \notin Superseded(m) /\ Note(n) \notin Retired(m)
    BY <1>1, KnownTargets
<1>5. NoteIn(l, n) = "absent" /\ NoteIn(m, n) = "current"
    BY <1>1, <1>4, NoteFacts
<1>6. \A k : k # n => NoteIn(m, k) = NoteIn(l, k)
    BY <1>1, NoteSame
<1>7. Lifecycle!NoteStep(NotesOf(l), NotesOf(m))
    <2>1. <<"absent", "current">> \in Lifecycle!NoteMoves
        BY DEF Lifecycle!NoteMoves
    <2>2. NotesOf(l)[n] = "absent" /\ NotesOf(m)[n] = "current"
        BY <1>5 DEF NotesOf
    <2>3. \A k \in 1..MaxEvents : k # n => NotesOf(m)[k] = NotesOf(l)[k]
        BY <1>6 DEF NotesOf
    <2> QED
        BY <2>1, <2>2, <2>3, OneNoteMoves
<1>8. \A s : CapturesOf(m, s) = CapturesOf(l, s)
    BY <1>1, FoldsGrow DEF CapturesOf
<1>9. SessionsOf(m) = SessionsOf(l)
    BY <1>1, <1>3, <1>8, SessionSame, SessionsSame DEF Extends
<1> QED
    BY <1>2, <1>3, <1>7, <1>9 DEF LifeStep

\* A note is retired or taken back: only that note, unless it was edited away meanwhile.
LEMMA RetirementMoves ==
  ASSUME NEW l, NEW m, Extends(m, l), EventsKnown(l), StillCaptured(l),
         NEW i, Fresh(m, l) = {i}, NEW r, EventKnown(m, m[i]),
         \/ m[i].type = "retired" /\ Retired(m) = Retired(l) \cup {r}
         \/ m[i].type = "unretire" /\ Retired(m) = Retired(l) \ {r}
  PROVE  EventsKnown(m) /\ StillCaptured(m) /\ LifeStep(l, m)
<1>1. /\ Of(m, "memory") = Of(l, "memory")
      /\ Of(m, "session_captured") = Of(l, "session_captured")
      /\ Superseded(m) = Superseded(l) /\ Deleted(m) = Deleted(l)
    <2>1. \A t : t \notin {"retired", "unretire"} => Of(m, t) = Of(l, t)
        BY FoldsStay
    <2>2. Superseded(m) = Superseded(l) /\ Deleted(m) = Deleted(l)
        BY FoldsStay
    <2> QED
        BY <2>1, <2>2
<1>2. EventsKnown(m)
    BY EventsKnownStay
<1>3. StillCaptured(m)
    BY <1>1, StillCapturedStays
<1>4. \A k : Note(k) # r => NoteIn(m, k) = NoteIn(l, k)
    BY <1>1, NoteSame
<1>5. Lifecycle!NoteStep(NotesOf(l), NotesOf(m))
    <2>1. CASE \A k \in 1..MaxEvents : Note(k) # r
        BY <1>4, <2>1, NotesSame, NothingMoves
    <2>2. ASSUME NEW n \in 1..MaxEvents, Note(n) = r
          PROVE  Lifecycle!NoteStep(NotesOf(l), NotesOf(m))
        <3>1. \A k : k # n => Note(k) # r
            BY <2>2 DEF Note
        <3>2. \A k \in 1..MaxEvents : k # n => NotesOf(m)[k] = NotesOf(l)[k]
            BY <1>4, <3>1 DEF NotesOf
        <3>3. \/ NoteIn(m, n) = NoteIn(l, n)
              \/ NoteIn(l, n) = "current" /\ NoteIn(m, n) = "retired"
              \/ NoteIn(l, n) = "retired" /\ NoteIn(m, n) = "current"
            <4>1. CASE n \notin Of(l, "memory") \/ n \in Superseded(l)
                BY <4>1, <1>1 DEF NoteIn, CurrentNotes
            <4>2. CASE n \in Of(l, "memory") /\ n \notin Superseded(l)
                <5>1. \A k \in {l, m} : NoteIn(k, n) = IF Note(n) \in Retired(k) THEN "retired" ELSE "current"
                    BY <4>2, <1>1 DEF NoteIn, CurrentNotes
                <5> QED
                    BY <5>1
            <4> QED
                BY <4>1, <4>2
        <3>4. <<"current", "retired">> \in Lifecycle!NoteMoves
            BY DEF Lifecycle!NoteMoves
        <3>5. <<"retired", "current">> \in Lifecycle!NoteMoves
            BY DEF Lifecycle!NoteMoves
        <3>6. NotesOf(l)[n] = NoteIn(l, n) /\ NotesOf(m)[n] = NoteIn(m, n)
            BY DEF NotesOf
        <3>7. \/ NotesOf(m)[n] = NotesOf(l)[n]
              \/ /\ <<NotesOf(l)[n], NotesOf(m)[n]>> \in Lifecycle!NoteMoves
                 /\ NotesOf(m)[n] # "replaced"
            BY <3>3, <3>4, <3>5, <3>6
        <3> QED
            BY <3>2, <3>7, OneNoteMoves
    <2> QED
        BY <2>1, <2>2
<1>6. \A s : CapturesOf(m, s) = CapturesOf(l, s)
    BY <1>1, FoldsGrow DEF CapturesOf
<1>7. SessionsOf(m) = SessionsOf(l)
    BY <1>1, <1>3, <1>6, SessionSame, SessionsSame DEF Extends
<1> QED
    BY <1>2, <1>3, <1>5, <1>7 DEF LifeStep

\* An edit: a note that is there makes way for a new one, whether it is current, retired, or was
\* replaced already by an edit that passed its check at the same time.
LEMMA Edited ==
  ASSUME NEW l, NEW m, Extends(m, l), EventsKnown(l), StillCaptured(l),
         NEW o \in Of(l, "memory"), NEW i, NEW n \in 1..MaxEvents, Fresh(m, l) = {i, n}, i # n,
         m[i] = Supersede(o), m[n] = Memory(o)
  PROVE  EventsKnown(m) /\ StillCaptured(m) /\ LifeStep(l, m)
<1>1. /\ m[i].type = "supersede" /\ m[i].supersedes = o /\ m[n].type = "memory"
      /\ \A k \in Fresh(m, l) : m[k].type \in {"supersede", "memory"}
    BY DEF Supersede, Memory
<1>2. /\ Of(m, "memory") = Of(l, "memory") \cup {n} /\ n \notin Of(l, "memory")
      /\ Of(m, "session_captured") = Of(l, "session_captured") /\ n \notin Of(l, "session_captured")
      /\ Superseded(m) = Superseded(l) \cup {o}
      /\ Deleted(m) = Deleted(l) /\ Retired(m) = Retired(l)
    <2>1. {k \in Fresh(m, l) : m[k].type = "memory"} = {n}
        BY <1>1
    <2>2. {k \in Fresh(m, l) : m[k].type = "supersede"} = {i}
        BY <1>1
    <2>3. Of(m, "memory") = Of(l, "memory") \cup {n} /\ n \notin Of(l, "memory")
        BY <2>1, FoldsGrow
    <2>4. Superseded(m) = Superseded(l) \cup {o}
        BY <1>1, <2>2, FoldsGrow
    <2>5. Of(m, "session_captured") = Of(l, "session_captured") /\ n \notin Of(l, "session_captured")
        BY <1>1, FoldsGrow, FoldsStay
    <2>6. Deleted(m) = Deleted(l) /\ Retired(m) = Retired(l)
        BY <1>1, FoldsStay, RetiredStays
    <2> QED
        BY <2>3, <2>4, <2>5, <2>6
<1>3. EventsKnown(m)
    <2>1. EventKnown(m, m[i]) /\ EventKnown(m, m[n])
        BY <1>1, <1>2 DEF EventKnown
    <2> QED
        BY <2>1, EventsKnownStay
<1>4. StillCaptured(m)
    <2>1. o \notin Of(l, "session_captured")
        BY DEF Of
    <2> QED
        BY <1>1, <1>2, <2>1, StillCapturedStays
<1>5. n # o /\ n \notin Superseded(m) /\ Note(n) \notin Retired(m)
    BY <1>2, KnownTargets
<1>6. NoteIn(l, n) = "absent" /\ NoteIn(m, n) = "current" /\ NoteIn(m, o) = "replaced"
    BY <1>2, <1>5, NoteFacts
<1>7. NoteIn(l, o) \in {"current", "retired", "replaced"}
    BY NoteCases, NoteFacts
<1>8. \A k : k # n /\ k # o => NoteIn(m, k) = NoteIn(l, k)
    BY <1>2, NoteSame
<1>9. Lifecycle!NoteStep(NotesOf(l), NotesOf(m))
    <2>1. CASE o \in 1..MaxEvents
        <3>1. \A k \in 1..MaxEvents : NotesOf(l)[k] = NoteIn(l, k) /\ NotesOf(m)[k] = NoteIn(m, k)
            BY DEF NotesOf
        <3>2. \A s \in {"current", "retired"} : <<s, "replaced">> \in Lifecycle!NoteMoves
            BY DEF Lifecycle!NoteMoves
        <3>3. \/ NotesOf(m)[o] = NotesOf(l)[o]
              \/ /\ <<NotesOf(l)[o], NotesOf(m)[o]>> \in Lifecycle!NoteMoves
                 /\ NotesOf(m)[o] = "replaced"
            BY <2>1, <1>6, <1>7, <3>1, <3>2
        <3>4. NotesOf(l)[n] = "absent" /\ NotesOf(m)[n] = "current"
            BY <1>6, <3>1
        <3>5. \A k \in 1..MaxEvents : k # n /\ k # o => NotesOf(m)[k] = NotesOf(l)[k]
            BY <1>8, <3>1
        <3> QED
            BY <2>1, <1>5, <3>3, <3>4, <3>5, NoteIsEdited
    <2>2. CASE o \notin 1..MaxEvents
        <3>1. \A k \in 1..MaxEvents : k # n => NotesOf(m)[k] = NotesOf(l)[k]
            BY <2>2, <1>8 DEF NotesOf
        <3>2. NotesOf(l)[n] = "absent" /\ NotesOf(m)[n] = "current"
            BY <1>6 DEF NotesOf
        <3>3. <<"absent", "current">> \in Lifecycle!NoteMoves
            BY DEF Lifecycle!NoteMoves
        <3> QED
            BY <3>1, <3>2, <3>3, OneNoteMoves
    <2> QED
        BY <2>1, <2>2
<1>10. \A s : CapturesOf(m, s) = CapturesOf(l, s)
    BY <1>2, FoldsGrow DEF CapturesOf
<1>11. SessionsOf(m) = SessionsOf(l)
    BY <1>2, <1>4, <1>10, SessionSame, SessionsSame DEF Extends
<1> QED
    BY <1>3, <1>4, <1>9, <1>11 DEF LifeStep

\* No note moves when a session does.
LEMMA NotesUntouched ==
  ASSUME NEW l, NEW m, Extends(m, l),
         \A i \in Fresh(m, l) : m[i].type \in {"supersede", "session_captured", "session_deleted"},
         \A k \in Of(l, "memory") : k \in Superseded(m) => k \in Superseded(l)
  PROVE  NotesOf(m) = NotesOf(l)
<1>1. Of(m, "memory") = Of(l, "memory") /\ Retired(m) = Retired(l)
    BY FoldsStay, RetiredStays
<1>2. \A k : k \in Superseded(l) => k \in Superseded(m)
    BY FoldsGrow
<1> QED
    BY <1>1, <1>2, NoteSame, NotesSame

\* A session is captured: absent before, or captured, or deleted for good.
LEMMA SessionCaptured ==
  ASSUME NEW l, NEW m, Extends(m, l), EventsKnown(l), StillCaptured(l),
         EventsKnown(m), StillCaptured(m), NEW s,
         Deleted(m) = Deleted(l), CapturesOf(m, s) # {},
         \A t : t # s => CapturesOf(m, t) = CapturesOf(l, t),
         NotesOf(m) = NotesOf(l)
  PROVE  LifeStep(l, m)
<1>1. \A t : t # s => SessionIn(m, t) = SessionIn(l, t)
    BY SessionSame DEF Extends
<1>2. SessionIn(m, s) = SessionIn(l, s) \/ (SessionIn(l, s) = "absent" /\ SessionIn(m, s) = "captured")
    <2>1. IsLog(l) /\ IsLog(m)
        BY DEF Extends
    <2>2. HeadOf(m, s) # {} <=> s \notin Deleted(l)
        BY <2>1, SessionFacts
    <2>3. HeadOf(l, s) # {} => s \notin Deleted(l)
        BY <2>1, SessionFacts
    <2> QED
        BY <2>2, <2>3 DEF SessionIn
<1>3. <<"absent", "captured">> \in Lifecycle!SessionMoves
    BY DEF Lifecycle!SessionMoves
<1>4. CASE s \in Sessions
    <2>1. \A t \in Sessions : t # s => SessionsOf(m)[t] = SessionsOf(l)[t]
        BY <1>1 DEF SessionsOf
    <2>2. SessionsOf(m)[s] = SessionIn(m, s) /\ SessionsOf(l)[s] = SessionIn(l, s)
        BY <1>4 DEF SessionsOf
    <2>3. \/ SessionsOf(m)[s] = SessionsOf(l)[s]
          \/ <<SessionsOf(l)[s], SessionsOf(m)[s]>> \in Lifecycle!SessionMoves
        BY <2>2, <1>2, <1>3
    <2>4. Lifecycle!SessionStep(SessionsOf(l), SessionsOf(m))
        BY <2>1, <2>3, OneSessionMoves
    <2> QED
        BY <2>4 DEF LifeStep
<1>5. CASE s \notin Sessions
    BY <1>1, <1>5, SessionsSame, NothingMoves DEF LifeStep
<1> QED
    BY <1>4, <1>5

\* A session is deleted that has captures: captured before, or deleted already.
LEMMA SessionGone ==
  ASSUME NEW l, NEW m, Extends(m, l), EventsKnown(l), StillCaptured(l),
         NEW i, Fresh(m, l) = {i}, NEW s, m[i] = SessionDeleted(s), CapturesOf(l, s) # {}
  PROVE  EventsKnown(m) /\ StillCaptured(m) /\ LifeStep(l, m)
<1>1. m[i].type = "session_deleted" /\ m[i].session = s
    BY DEF SessionDeleted
<1>2. /\ Of(m, "memory") = Of(l, "memory")
      /\ Of(m, "session_captured") = Of(l, "session_captured")
      /\ Superseded(m) = Superseded(l) /\ Deleted(m) = Deleted(l) \cup {s}
    <2>1. \A t : t # "session_deleted" => Of(m, t) = Of(l, t)
        BY <1>1, FoldsStay
    <2>2. Superseded(m) = Superseded(l)
        BY <1>1, FoldsStay
    <2>3. {k \in Fresh(m, l) : m[k].type = "session_deleted"} = {i}
        BY <1>1
    <2>4. Deleted(m) = Deleted(l) \cup {s}
        BY <1>1, <2>3, FoldsGrow
    <2> QED
        BY <2>1, <2>2, <2>4
<1>3. EventsKnown(m)
    <2>1. EventKnown(m, m[i])
        BY <1>1 DEF EventKnown
    <2> QED
        BY <2>1, EventsKnownStay
<1>4. StillCaptured(m)
    BY <1>1, <1>2, StillCapturedStays
<1>5. NotesOf(m) = NotesOf(l)
    BY <1>1, <1>2, NotesUntouched
<1>6. \A t : CapturesOf(m, t) = CapturesOf(l, t)
    BY <1>2, FoldsGrow DEF CapturesOf
<1>7. \A t : t # s => SessionIn(m, t) = SessionIn(l, t)
    BY <1>2, <1>4, <1>6, SessionSame DEF Extends
<1>8. SessionIn(m, s) = "deleted" /\ SessionIn(l, s) \in {"captured", "deleted"}
    <2>1. HeadOf(m, s) = {}
        BY <1>2, <1>4, SessionFacts DEF Extends
    <2>2. HeadOf(l, s) # {} \/ s \in Deleted(l)
        BY SessionFacts DEF Extends
    <2> QED
        BY <1>2, <2>1, <2>2 DEF SessionIn
<1>9. <<"captured", "deleted">> \in Lifecycle!SessionMoves
    BY DEF Lifecycle!SessionMoves
<1>10. CASE s \in Sessions
    <2>1. \A t \in Sessions : t # s => SessionsOf(m)[t] = SessionsOf(l)[t]
        BY <1>7 DEF SessionsOf
    <2>2. SessionsOf(m)[s] = SessionIn(m, s) /\ SessionsOf(l)[s] = SessionIn(l, s)
        BY <1>10 DEF SessionsOf
    <2>3. \/ SessionsOf(m)[s] = SessionsOf(l)[s]
          \/ <<SessionsOf(l)[s], SessionsOf(m)[s]>> \in Lifecycle!SessionMoves
        BY <2>2, <1>8, <1>9
    <2>4. Lifecycle!SessionStep(SessionsOf(l), SessionsOf(m))
        BY <2>1, <2>3, OneSessionMoves
    <2> QED
        BY <2>4, <1>3, <1>4, <1>5 DEF LifeStep
<1>11. CASE s \notin Sessions
    BY <1>7, <1>11, <1>3, <1>4, <1>5, SessionsSame, NothingMoves DEF LifeStep
<1> QED
    BY <1>10, <1>11

\* A capture: the session has one now, and its previous one is superseded only together with it.
LEMMA CapturedAnew ==
  ASSUME NEW l, NEW m, Extends(m, l), EventsKnown(l), StillCaptured(l),
         NEW s, NEW n, n \in Fresh(m, l), m[n].type = "session_captured", m[n].session = s,
         \/ Fresh(m, l) = {n}
         \/ \E i : \E h \in CapturesOf(l, s) : Fresh(m, l) = {i, n} /\ i # n /\ m[i] = Supersede(h)
  PROVE  EventsKnown(m) /\ StillCaptured(m) /\ LifeStep(l, m)
<1>1. \A i \in Fresh(m, l) : i = n \/ m[i].type = "supersede"
    <2>1. \A h : Supersede(h).type = "supersede"
        BY DEF Supersede
    <2> QED
        BY <2>1
<1>2. {i \in Fresh(m, l) : m[i].type = "session_captured"} = {n}
    BY <1>1
<1>3. /\ Of(m, "memory") = Of(l, "memory") /\ Deleted(m) = Deleted(l)
      /\ Of(m, "session_captured") = Of(l, "session_captured") \cup {n}
    <2>1. Of(m, "memory") = Of(l, "memory") /\ Deleted(m) = Deleted(l)
        BY <1>1, FoldsStay
    <2>2. Of(m, "session_captured") = Of(l, "session_captured") \cup {n}
        BY <1>2, FoldsGrow
    <2> QED
        BY <2>1, <2>2
<1>4. \A k \in Superseded(m) : k \in Superseded(l) \/ k \in CapturesOf(l, s)
    <2> SUFFICES ASSUME NEW k \in Superseded(m), k \notin Superseded(l) PROVE k \in CapturesOf(l, s)
        OBVIOUS
    <2>1. PICK i \in Fresh(m, l) : m[i].type = "supersede" /\ m[i].supersedes = k
        BY FoldsGrow
    <2>2. i # n
        BY <2>1
    <2>3. PICK h \in CapturesOf(l, s) : m[i] = Supersede(h)
        BY <2>2
    <2> QED
        BY <2>1, <2>3 DEF Supersede
<1>5. n \notin Superseded(m)
    <2>1. n \notin Of(l, "memory") /\ n \notin Of(l, "session_captured")
        BY FoldsGrow
    <2> QED
        BY <2>1, <1>4, KnownTargets DEF CapturesOf
<1>6. n \in CapturesOf(m, s) \ Superseded(m)
    BY <1>3, <1>5 DEF CapturesOf
<1>7. EventsKnown(m)
    <2>1. ASSUME NEW i \in Fresh(m, l) PROVE EventKnown(m, m[i])
        <3>1. CASE i = n
            BY <3>1 DEF EventKnown
        <3>2. CASE i # n
            <4>1. PICK h \in CapturesOf(l, s) : m[i] = Supersede(h)
                BY <3>2
            <4>2. m[i].type = "supersede" /\ m[i].supersedes \in Of(m, "session_captured")
                BY <4>1, <1>3 DEF Supersede, CapturesOf
            <4> QED
                BY <4>2 DEF EventKnown
        <3> QED
            BY <3>1, <3>2
    <2> QED
        BY <2>1, EventsKnownStay
<1>8. StillCaptured(m)
    <2>1. \A k \in Of(l, "session_captured") : k \in Superseded(m) =>
              k \in Superseded(l) \/ CapturesOf(m, l[k].session) \ Superseded(m) # {}
        BY <1>4, <1>6 DEF CapturesOf
    <2>2. \A k \in Fresh(m, l) : m[k].type = "session_captured" => k \notin Superseded(m)
        BY <1>2, <1>5
    <2> QED
        BY <2>1, <2>2, StillCapturedStays
<1>9. NotesOf(m) = NotesOf(l)
    <2>1. \A k \in Of(l, "memory") : k \in Superseded(m) => k \in Superseded(l)
        BY <1>4 DEF CapturesOf, Of
    <2>2. \A i \in Fresh(m, l) : m[i].type \in {"supersede", "session_captured", "session_deleted"}
        BY <1>1
    <2> QED
        BY <2>1, <2>2, NotesUntouched
<1>10. \A t : t # s => CapturesOf(m, t) = CapturesOf(l, t)
    BY <1>3, FoldsGrow DEF CapturesOf
<1>11. LifeStep(l, m)
    BY <1>3, <1>6, <1>7, <1>8, <1>9, <1>10, SessionCaptured
<1> QED
    BY <1>7, <1>8, <1>11

-----------------------------------------------------------------------------
(* The steps of Memories *)

Advances == LifeInv' /\ LifeStep(log, log')

LEMMA LogExtends ==
  ASSUME Grown
  PROVE  Extends(log', log)
BY DEF Grown, Extends, IsLog

LEMMA OneFresh ==
  ASSUME IInv, NEW e, log' = Append(log, e)
  PROVE  \E n : /\ Fresh(log', log) = {n} /\ log'[n] = e /\ Extends(log', log)
                /\ Room(1) => n \in 1..MaxEvents
<1> DEFINE n == Len(log) + 1
<1>1. Grown /\ Len(log') = n /\ log'[n] = e
    BY AppendGrows DEF IInv
<1>2. Fresh(log', log) = {n}
    BY <1>1 DEF Fresh, Grown
<1>3. Room(1) => n \in 1..MaxEvents
    BY <1>1, MemoriesAssumption DEF Grown, Room
<1> QED
    BY <1>1, <1>2, <1>3, LogExtends

PairAdded(l, m, a, b) ==
    \E i, n : /\ Fresh(m, l) = {i, n} /\ i # n /\ m[i] = a /\ m[n] = b
              /\ Len(l) + 2 <= MaxEvents => n \in 1..MaxEvents

LEMMA TwoFresh ==
  ASSUME IInv, NEW a, NEW b, log' = log \o <<a, b>>
  PROVE  Extends(log', log) /\ PairAdded(log, log', a, b)
<1> DEFINE i == Len(log) + 1
           n == Len(log) + 2
<1>1. Grown /\ Len(log') = n /\ log'[i] = a /\ log'[n] = b
    BY PairGrows DEF IInv
<1>2. Fresh(log', log) = {i, n} /\ i # n
    BY <1>1 DEF Fresh, Grown
<1>3. Len(log) + 2 <= MaxEvents => n \in 1..MaxEvents
    BY <1>1, MemoriesAssumption DEF Grown
<1> QED
    BY <1>1, <1>2, <1>3, LogExtends DEF PairAdded

\* What a call has learnt it may still rely on when another one appends.
LEMMA CallsGrow ==
  ASSUME LifeInv, Extends(log', log), NEW c \in Clients, NEW next, Goto(c, next),
         CallKnown(log', next)
  PROVE  CallsKnown'
<1>1. \A d \in Clients : call'[d] = IF d = c THEN next ELSE call[d]
    BY NextCalls DEF LifeInv
<1>2. \A d \in Clients : CallKnown(log', call[d])
    BY KnownStays DEF LifeInv, CallsKnown
<1> QED
    BY <1>1, <1>2 DEF CallsKnown

LEMMA CallsStay ==
  ASSUME LifeInv, Extends(log', log), call' = call
  PROVE  CallsKnown'
<1>1. \A d \in Clients : CallKnown(log', call[d])
    BY KnownStays DEF LifeInv, CallsKnown
<1> QED
    BY <1>1 DEF CallsKnown

\* A check learns something and shows nothing.
LEMMA LifeCheck ==
  ASSUME LifeInv, IInv', log' = log, NEW c \in Clients, NEW next, Goto(c, next),
         CallKnown(log, next)
  PROVE  Advances
<1>1. Extends(log', log)
    BY SameGrows, LogExtends DEF LifeInv, IInv
<1>2. CallsKnown'
    BY <1>1, CallsGrow
<1> QED
    BY <1>2, SameLife DEF Advances, LifeInv

LEMMA LifeSame ==
  ASSUME LifeInv, IInv', log' = log, call' = call
  PROVE  Advances
<1>1. Extends(log', log)
    BY SameGrows, LogExtends DEF LifeInv, IInv
<1>2. CallsKnown'
    BY <1>1, CallsStay
<1> QED
    BY <1>2, SameLife DEF Advances, LifeInv

LEMMA IdleKnown == \A l : CallKnown(l, Idle)
BY DEF CallKnown, Idle, ResolveOps

\* An append that ends its call.
LEMMA LifeAppend ==
  ASSUME LifeInv, IInv', Extends(log', log), NEW c \in Clients, Goto(c, Idle),
         EventsKnown(log') /\ StillCaptured(log') /\ LifeStep(log, log')
  PROVE  Advances
<1>1. CallsKnown'
    BY CallsGrow, IdleKnown
<1> QED
    BY <1>1 DEF Advances, LifeInv

LEMMA LifeLone ==
  ASSUME LifeInv, IInv', Extends(log', log), call' = call,
         EventsKnown(log') /\ StillCaptured(log') /\ LifeStep(log, log')
  PROVE  Advances
<1>1. CallsKnown'
    BY CallsStay
<1> QED
    BY <1>1 DEF Advances, LifeInv

LEMMA LifeResolveCheck ==
  ASSUME LifeInv, IInv', NEW c \in Clients, NEW p \in Of(log, "conflict_proposal"),
         NEW act \in Actions, ResolveCheck(c, p, act)
  PROVE  Advances
<1>1. log' = log
    BY DEF ResolveCheck
<1>2. CASE Resolution(log, p) # {}
    BY <1>1, <1>2, LifeSame DEF ResolveCheck
<1>3. CASE Resolution(log, p) = {}
    <2> DEFINE op == IF act \in Retiring /\ Loser(p, act) \notin Retired(log)
                     THEN "resolve_retire" ELSE "resolve_mark"
               heads == IF act = "dismiss" THEN SessionHeads(log, p) ELSE {}
               next == [op |-> op, proposal |-> p, action |-> act, heads |-> heads]
    <2>1. Goto(c, next)
        BY <1>3 DEF ResolveCheck
    <2>2. op \in {"resolve_retire", "resolve_mark"}
        OBVIOUS
    <2> HIDE DEF op, heads
    <2>3. CallKnown(log, next)
        BY <2>2 DEF CallKnown
    <2> QED
        BY <1>1, <2>1, <2>3, LifeCheck
<1> QED
    BY <1>2, <1>3

\* A resolution that goes on knows its proposal, and with it what it may retire.
LEMMA OnwardKnown ==
  ASSUME LifeInv, NEW c \in Clients, Resolving(c), NEW op \in ResolveOps
  PROVE  CallKnown(log, Onward(c, op))
<1>1. call[c].proposal \in Of(log, "conflict_proposal") /\ call[c].action \in Actions
    BY DEF LifeInv, CallsKnown, CallKnown, Resolving
<1> QED
    BY <1>1 DEF CallKnown, Onward, ResolveOps

LEMMA LoserKnown ==
  ASSUME LifeInv, NEW c \in Clients, Resolving(c)
  PROVE  Known(log, Loser(call[c].proposal, call[c].action))
<1>1. call[c].proposal \in Of(log, "conflict_proposal")
    BY DEF LifeInv, CallsKnown, CallKnown, Resolving
<1>2. Known(log, log[call[c].proposal].a) /\ Known(log, log[call[c].proposal].b)
    BY <1>1 DEF LifeInv, EventsKnown, EventKnown, Of
<1> QED
    BY <1>2 DEF Loser

LEMMA LifeRetireCheck ==
  ASSUME LifeInv, IInv', NEW c \in Clients, ResolveRetireCheck(c)
  PROVE  Advances
<1>1. log' = log /\ Resolving(c)
    BY DEF ResolveRetireCheck, Resolving, ResolveOps
<1> DEFINE append == Onward(c, "resolve_append")
<1>2. Goto(c, append) \/ Goto(c, Idle)
    <2>1. CASE Retirable(Loser(call[c].proposal, call[c].action))
        BY <2>1 DEF ResolveRetireCheck
    <2>2. CASE ~Retirable(Loser(call[c].proposal, call[c].action))
        BY <2>2 DEF ResolveRetireCheck
    <2> QED
        BY <2>1, <2>2
<1>3. CallKnown(log, append)
    BY <1>1, OnwardKnown DEF ResolveOps
<1> HIDE DEF append
<1> QED
    BY <1>1, <1>2, <1>3, IdleKnown, LifeCheck

\* A retirement: of the user's, or for a proposal.
LEMMA Retires ==
  ASSUME LifeInv, NEW r, Known(log, r), NEW via, log' = Append(log, Retirement(r, via))
  PROVE  Extends(log', log) /\ EventsKnown(log') /\ StillCaptured(log') /\ LifeStep(log, log')
<1> DEFINE e == Retirement(r, via)
<1>1. PICK n : Fresh(log', log) = {n} /\ log'[n] = e /\ Extends(log', log)
    BY OneFresh DEF LifeInv
<1>2. e.type = "retired" /\ e.ref = r
    BY DEF Retirement
<1>3. EventKnown(log', log'[n])
    BY <1>1, <1>2, KnownStays DEF EventKnown
<1>4. log'[n].type = "retired" /\ log'[n].ref = r
    BY <1>1, <1>2
<1> HIDE DEF e
<1>5. Retired(log') = Retired(log) \cup {r}
    <2>1. PICK l, m : l = log /\ m = log'
        OBVIOUS
    <2>2. Extends(m, l) /\ Fresh(m, l) = {n} /\ m[n].type = "retired" /\ m[n].ref = r
        BY <1>1, <1>4, <2>1
    <2>3. Retired(m) = Retired(l) \cup {r}
        BY <2>2, RetiredGrows
    <2> QED
        BY <2>1, <2>3
<1> QED
    BY <1>1, <1>3, <1>4, <1>5, RetirementMoves DEF LifeInv

LEMMA LifeRetireAppend ==
  ASSUME LifeInv, IInv', NEW c \in Clients, RetireAppend(c)
  PROVE  Advances
<1>1. log' = Append(log, Retirement(call[c].ref, 0)) /\ Goto(c, Idle) /\ Known(log, call[c].ref)
    BY DEF RetireAppend, Append1, LifeInv, CallsKnown, CallKnown
<1> QED
    BY <1>1, Retires, LifeAppend

LEMMA LifeResolveRetire ==
  ASSUME LifeInv, IInv', NEW c \in Clients, ResolveRetireAppend(c)
  PROVE  Advances
<1> DEFINE r == Loser(call[c].proposal, call[c].action)
           mark == Onward(c, "resolve_mark")
<1>1. Resolving(c) /\ log' = Append(log, Retirement(r, call[c].proposal))
    BY DEF ResolveRetireAppend, Resolving, ResolveOps, Append1
<1>2. Goto(c, mark)
    BY <1>1 DEF ResolveRetireAppend
<1>3. Known(log, r) /\ CallKnown(log, mark)
    BY <1>1, LoserKnown, OnwardKnown DEF ResolveOps
<1>4. Extends(log', log) /\ EventsKnown(log') /\ StillCaptured(log') /\ LifeStep(log, log')
    BY <1>1, <1>3, Retires
<1>5. CallKnown(log', mark)
    BY <1>3, <1>4, KnownStays
<1> HIDE DEF mark
<1>6. CallsKnown'
    BY <1>2, <1>4, <1>5, CallsGrow
<1> QED
    BY <1>4, <1>6 DEF Advances, LifeInv

LEMMA LifeUnretire ==
  ASSUME LifeInv, IInv', NEW c \in Clients, UnretireAppend(c)
  PROVE  Advances
<1> DEFINE r == call[c].ref
           e == UnretireEvent(r)
<1>1. log' = Append(log, e) /\ Goto(c, Idle)
    BY DEF UnretireAppend, Append1
<1>2. PICK n : Fresh(log', log) = {n} /\ log'[n] = e /\ Extends(log', log)
    BY <1>1, OneFresh DEF LifeInv
<1>3. e.type = "unretire" /\ e.ref = r
    BY DEF UnretireEvent
<1>4. EventKnown(log', log'[n])
    BY <1>2, <1>3 DEF EventKnown
<1>5. Retired(log') = Retired(log) \ {r}
    BY <1>2, <1>3, RetiredShrinks
<1>6. EventsKnown(log') /\ StillCaptured(log') /\ LifeStep(log, log')
    BY <1>2, <1>3, <1>4, <1>5, RetirementMoves DEF LifeInv
<1> QED
    BY <1>1, <1>2, <1>6, LifeAppend

LEMMA LifeRemember ==
  ASSUME LifeInv, IInv', Remember
  PROVE  Advances
<1>1. log' = Append(log, Memory(0)) /\ Room(1) /\ call' = call
    BY DEF Remember, Append1
<1>2. PICK n : /\ Fresh(log', log) = {n} /\ log'[n] = Memory(0) /\ Extends(log', log)
               /\ n \in 1..MaxEvents
    BY <1>1, OneFresh DEF LifeInv
<1>3. log'[n].type = "memory"
    BY <1>2 DEF Memory
<1>4. EventsKnown(log') /\ StillCaptured(log') /\ LifeStep(log, log')
    BY <1>2, <1>3, Remembered DEF LifeInv
<1> QED
    BY <1>1, <1>2, <1>4, LifeLone

LEMMA LifeSupersede ==
  ASSUME LifeInv, IInv', NEW c \in Clients, SupersedeAppend(c)
  PROVE  Advances
<1> DEFINE o == call[c].target
<1>1. log' = log \o <<Supersede(o), Memory(o)>> /\ Room(2) /\ Goto(c, Idle)
    BY DEF SupersedeAppend
<1>2. o \in Of(log, "memory")
    BY DEF SupersedeAppend, LifeInv, CallsKnown, CallKnown
<1>3. PICK i, n : /\ Fresh(log', log) = {i, n} /\ i # n
                  /\ log'[i] = Supersede(o) /\ log'[n] = Memory(o)
                  /\ Extends(log', log) /\ n \in 1..MaxEvents
    <2>1. Extends(log', log) /\ PairAdded(log, log', Supersede(o), Memory(o))
        BY <1>1, TwoFresh DEF LifeInv
    <2> QED
        BY <1>1, <2>1 DEF PairAdded, Room
<1>4. EventsKnown(log') /\ StillCaptured(log') /\ LifeStep(log, log')
    BY <1>2, <1>3, Edited DEF LifeInv
<1> QED
    BY <1>1, <1>3, <1>4, LifeAppend

LEMMA LifeDelete ==
  ASSUME LifeInv, IInv', NEW c \in Clients, DeleteAppend(c)
  PROVE  Advances
<1> DEFINE s == call[c].session
<1>1. log' = Append(log, SessionDeleted(s)) /\ Goto(c, Idle) /\ CapturesOf(log, s) # {}
    BY DEF DeleteAppend, Append1, LifeInv, CallsKnown, CallKnown
<1>2. PICK n : Fresh(log', log) = {n} /\ log'[n] = SessionDeleted(s) /\ Extends(log', log)
    BY <1>1, OneFresh DEF LifeInv
<1>3. EventsKnown(log') /\ StillCaptured(log') /\ LifeStep(log, log')
    BY <1>1, <1>2, SessionGone DEF LifeInv
<1> QED
    BY <1>1, <1>2, <1>3, LifeAppend

LEMMA LifeCapture ==
  ASSUME LifeInv, IInv', NEW c \in Clients, CaptureAppend(c)
  PROVE  Advances
<1> DEFINE s == call[c].session
           new == Captured(s, call[c].body)
           next == [op |-> "passages", capture |-> Len(log')]
<1>1. Goto(c, next) /\ call[c].prev \subseteq CapturesOf(log, s)
    BY DEF CaptureAppend, LifeInv, CallsKnown, CallKnown
<1>2. new.type = "session_captured" /\ new.session = s
    BY DEF Captured
<1>3. \/ log' = Append(log, new)
      \/ \E h \in CapturesOf(log, s) : log' = log \o <<Supersede(h), new>>
    BY <1>1, CaptureAdds DEF LifeInv
<1> HIDE DEF new
<1>4. Extends(log', log) /\ EventsKnown(log') /\ StillCaptured(log') /\ LifeStep(log, log')
    <2>1. CASE log' = Append(log, new)
        <3>1. PICK n : Fresh(log', log) = {n} /\ log'[n] = new /\ Extends(log', log)
            BY <2>1, OneFresh DEF LifeInv
        <3> QED
            BY <3>1, <1>2, CapturedAnew DEF LifeInv
    <2>2. ASSUME NEW h \in CapturesOf(log, s), log' = log \o <<Supersede(h), new>>
          PROVE  Extends(log', log) /\ EventsKnown(log') /\ StillCaptured(log') /\ LifeStep(log, log')
        <3>1. PICK i, n : /\ Fresh(log', log) = {i, n} /\ i # n
                          /\ log'[i] = Supersede(h) /\ log'[n] = new /\ Extends(log', log)
            <4>1. Extends(log', log) /\ PairAdded(log, log', Supersede(h), new)
                BY <2>2, TwoFresh DEF LifeInv
            <4> QED
                BY <4>1 DEF PairAdded
        <3>2. PICK l, m : l = log /\ m = log'
            OBVIOUS
        <3>3. /\ Extends(m, l) /\ EventsKnown(l) /\ StillCaptured(l) /\ n \in Fresh(m, l)
              /\ m[n].type = "session_captured" /\ m[n].session = s
            BY <3>1, <3>2, <1>2 DEF LifeInv
        <3>4. \E j : \E g \in CapturesOf(l, s) :
                  Fresh(m, l) = {j, n} /\ j # n /\ m[j] = Supersede(g)
            BY <3>1, <3>2
        <3>5. EventsKnown(m) /\ StillCaptured(m) /\ LifeStep(l, m)
            BY <3>3, <3>4, CapturedAnew
        <3> QED
            BY <3>1, <3>2, <3>5
    <2> QED
        BY <1>3, <2>1, <2>2
<1>5. CallKnown(log', next)
    BY DEF CallKnown, ResolveOps
<1> HIDE DEF next
<1>6. CallsKnown'
    BY <1>1, <1>4, <1>5, CallsGrow
<1> QED
    BY <1>4, <1>6 DEF Advances, LifeInv

\* A proposal or an answer: the lifecycle does not show it.
LEMMA AddsUnseen ==
  ASSUME LifeInv, NEW e, log' = Append(log, e), e.type \in {"conflict_proposal", "terminal"},
         EventKnown(log, e)
  PROVE  Extends(log', log) /\ EventsKnown(log') /\ StillCaptured(log') /\ LifeStep(log, log')
<1>1. PICK n : Fresh(log', log) = {n} /\ log'[n] = e /\ Extends(log', log)
    BY OneFresh DEF LifeInv
<1>2. EventKnown(log', e)
    BY <1>1, KnownStays
<1> QED
    BY <1>1, <1>2, Unseen DEF LifeInv

LEMMA LifePropose ==
  ASSUME LifeInv, IInv', NEW a \in CurrentRefs(log, rows), NEW b \in CurrentRefs(log, rows),
         AppendConflictProposal(a, b)
  PROVE  Advances
<1> DEFINE e == Proposal(a, b)
<1>1. log' = Append(log, e) /\ call' = call
    BY DEF AppendConflictProposal, Append1
<1>2. \A r \in CurrentRefs(log, rows) : Known(log, r)
    BY DEF CurrentRefs, CurrentNotes, Known, Passage
<1>3. e.type = "conflict_proposal" /\ e.a = a /\ e.b = b
    BY DEF Proposal
<1>4. EventKnown(log, e)
    BY <1>2, <1>3 DEF EventKnown
<1> QED
    BY <1>1, <1>3, <1>4, AddsUnseen, LifeLone

LEMMA LifeMark ==
  ASSUME LifeInv, IInv', NEW c \in Clients, ResolveMark(c)
  PROVE  Advances
<1> DEFINE e == Terminal(call[c].proposal, call[c].action, call[c].heads)
<1>1. log' = Append(log, e) /\ Goto(c, Idle)
    BY DEF ResolveMark, Append1
<1>2. e.type = "terminal"
    BY DEF Terminal
<1>3. EventKnown(log, e)
    BY <1>2 DEF EventKnown
<1> QED
    BY <1>1, <1>2, <1>3, AddsUnseen, LifeAppend

LEMMA LifeCrash ==
  ASSUME LifeInv, IInv', Crash
  PROVE  Advances
<1>1. log' = log /\ CallsKnown'
    BY IdleKnown DEF Crash, CallsKnown
<1> QED
    BY <1>1, SameLife DEF Advances, LifeInv

LEMMA HeadsAreCaptures == \A l, s : HeadOf(l, s) \subseteq CapturesOf(l, s)
BY DEF HeadOf, Heads, Captures, CapturesOf

LEMMA LifeInductive == LifeInv /\ IInv' /\ [Next]_vars => Advances
<1> SUFFICES ASSUME LifeInv, IInv', [Next]_vars PROVE Advances
    OBVIOUS
<1>1. CASE Remember
    BY <1>1, LifeRemember
<1>2. CASE Crash
    BY <1>2, LifeCrash
<1>3. ASSUME NEW a \in CurrentRefs(log, rows), NEW b \in CurrentRefs(log, rows),
             AppendConflictProposal(a, b)
      PROVE  Advances
    BY <1>3, LifePropose
<1>4. ASSUME NEW c \in Clients, NEW n \in Of(log, "memory"), SupersedeCheck(c, n) PROVE Advances
    <2> DEFINE next == [op |-> "supersede", target |-> n]
    <2>1. CallKnown(log, next)
        BY DEF CallKnown, ResolveOps
    <2>2. log' = log /\ Goto(c, next)
        BY <1>4 DEF SupersedeCheck
    <2> QED
        BY <2>1, <2>2, LifeCheck
<1>5. ASSUME NEW c \in Clients, NEW r \in Refs, RetireCheck(c, r) PROVE Advances
    <2> DEFINE next == [op |-> "retire", ref |-> r]
    <2>1. Known(log, r)
        BY DEF Refs, Known, Passage
    <2>2. CallKnown(log, next)
        BY <2>1 DEF CallKnown, ResolveOps
    <2>3. log' = log /\ Goto(c, next)
        BY <1>5 DEF RetireCheck
    <2> QED
        BY <2>2, <2>3, LifeCheck
<1>6. ASSUME NEW c \in Clients, NEW r, UnretireCheck(c, r) PROVE Advances
    <2> DEFINE next == [op |-> "unretire", ref |-> r]
    <2>1. CallKnown(log, next)
        BY DEF CallKnown, ResolveOps
    <2>2. log' = log /\ Goto(c, next)
        BY <1>6 DEF UnretireCheck
    <2> QED
        BY <2>1, <2>2, LifeCheck
<1>7. ASSUME NEW c \in Clients, NEW s, DeleteCheck(c, s) PROVE Advances
    <2> DEFINE next == [op |-> "delete", session |-> s]
    <2>1. CapturesOf(log, s) # {}
        BY <1>7, HeadsAreCaptures DEF DeleteCheck
    <2>2. CallKnown(log, next)
        BY <2>1 DEF CallKnown, ResolveOps
    <2>3. log' = log /\ Goto(c, next)
        BY <1>7 DEF DeleteCheck
    <2> QED
        BY <2>2, <2>3, LifeCheck
<1>8. ASSUME NEW c \in Clients, NEW s, RecaptureCheck(c, s) PROVE Advances
    <2>1. PICK h : log' = log /\ Goto(c, [op |-> "passages", capture |-> h])
        BY <1>8 DEF RecaptureCheck
    <2>2. CallKnown(log, [op |-> "passages", capture |-> h])
        BY DEF CallKnown, ResolveOps
    <2> QED
        BY <2>1, <2>2, LifeCheck
<1>9. ASSUME NEW c \in Clients, NEW s, NEW b, CaptureCheck(c, s, b) PROVE Advances
    <2> DEFINE next == [op |-> "capture", session |-> s, body |-> b, prev |-> HeadOf(log, s)]
    <2>1. CallKnown(log, next)
        BY HeadsAreCaptures DEF CallKnown, ResolveOps
    <2>2. log' = log /\ Goto(c, next)
        BY <1>9 DEF CaptureCheck
    <2> QED
        BY <2>1, <2>2, LifeCheck
<1>10. ASSUME NEW c \in Clients, NEW p \in Of(log, "conflict_proposal"), NEW act \in Actions,
              ResolveCheck(c, p, act)
       PROVE  Advances
    BY <1>10, LifeResolveCheck
<1>11. ASSUME NEW c \in Clients, SupersedeAppend(c) PROVE Advances
    BY <1>11, LifeSupersede
<1>12. ASSUME NEW c \in Clients, RetireAppend(c) PROVE Advances
    BY <1>12, LifeRetireAppend
<1>13. ASSUME NEW c \in Clients, UnretireAppend(c) PROVE Advances
    BY <1>13, LifeUnretire
<1>14. ASSUME NEW c \in Clients, CaptureAppend(c) PROVE Advances
    BY <1>14, LifeCapture
<1>15. ASSUME NEW c \in Clients, StorePassages(c) PROVE Advances
    BY <1>15, IdleKnown, LifeCheck DEF StorePassages
<1>16. ASSUME NEW c \in Clients, DeleteAppend(c) PROVE Advances
    BY <1>16, LifeDelete
<1>17. ASSUME NEW c \in Clients, ResolveRetireCheck(c) PROVE Advances
    BY <1>17, LifeRetireCheck
<1>18. ASSUME NEW c \in Clients, ResolveRetireAppend(c) PROVE Advances
    BY <1>18, LifeResolveRetire
<1>19. ASSUME NEW c \in Clients, ResolveMark(c) PROVE Advances
    BY <1>19, LifeMark
<1>20. CASE UNCHANGED vars
    BY <1>20, LifeSame DEF vars
<1> QED
    BY <1>1, <1>2, <1>3, <1>4, <1>5, <1>6, <1>7, <1>8, <1>9, <1>10, <1>11, <1>12, <1>13,
       <1>14, <1>15, <1>16, <1>17, <1>18, <1>19, <1>20 DEF Next

\* A step of the lifecycle between two logs is one between what the projections show of them.
LEMMA Shown ==
  /\ LifeStep(log, log') => [Lifecycle!Next]_(Lifecycle!lvars)
  /\ Init => Lifecycle!Init
<1> DEFINE note == [n \in 1..MaxEvents |-> NoteState(n)]
           session == [s \in Sessions |-> SessionState(s)]
<1>1. note = NotesOf(log) /\ session = SessionsOf(log)
    BY DEF NotesOf, SessionsOf, NoteState, NoteIn, SessionState, SessionIn
<1>2. note' = NotesOf(log') /\ session' = SessionsOf(log')
    BY DEF NotesOf, SessionsOf, NoteState, NoteIn, SessionState, SessionIn
<1>3. ASSUME LifeStep(log, log') PROVE Lifecycle!Next
    <2>1. CASE Lifecycle!NoteStep(note, note') /\ session' = session
        BY <2>1 DEF Lifecycle!Next
    <2>2. CASE Lifecycle!SessionStep(session, session') /\ note' = note
        BY <2>2 DEF Lifecycle!Next
    <2> HIDE DEF note, session
    <2> QED
        BY <1>1, <1>2, <1>3, <2>1, <2>2 DEF LifeStep
<1>4. ASSUME Init PROVE Lifecycle!Init
    <2>1. \A n : NoteState(n) = "absent"
        BY <1>4 DEF Init, NoteState, Of
    <2>2. \A s : SessionState(s) = "absent"
        BY <1>4 DEF Init, SessionState, HeadOf, Heads, Captures, Deleted, Of
    <2>3. note = [n \in 1..MaxEvents |-> "absent"] /\ session = [s \in Sessions |-> "absent"]
        BY <2>1, <2>2
    <2> QED
        BY <2>3 DEF Lifecycle!Init
<1> QED
    BY <1>3, <1>4

\* An edited-away note and a deleted session never come back, a retirement can be taken back
\* and nothing else happens to a memory, whatever races: the operations of any number of
\* clients, based on checks that are out of date, implement the lifecycle.
THEOREM RefinesLifecycle == Spec => ImplementsLifecycle
<1>1. Init /\ IInv => LifeInv
    <2> SUFFICES ASSUME Init, IInv PROVE LifeInv
        OBVIOUS
    <2>1. CallsKnown
        BY IdleKnown DEF Init, CallsKnown
    <2>2. EventsKnown(log) /\ StillCaptured(log)
        BY DEF Init, EventsKnown, StillCaptured, Of
    <2> QED
        BY <2>1, <2>2 DEF LifeInv
<1>2. LifeInv /\ IInv' /\ [Next]_vars => LifeInv' /\ [Lifecycle!Next]_(Lifecycle!lvars)
    BY LifeInductive, Shown DEF Advances
<1>3. Init => Lifecycle!Init
    BY Shown
<1>4. LifeInv => IInv
    BY DEF LifeInv
<1> QED
    BY <1>1, <1>2, <1>3, <1>4, Initially, Inductive, PTL DEF Spec, ImplementsLifecycle, Lifecycle!Spec
-----------------------------------------------------------------------------
(* The conflict cycle *)

\* The folds of ConflictSweep with what they read as arguments.
RowsOf(l, st) == [c \in Of(l, "session_captured") |-> IF c \in st THEN Passages ELSE 0]
CurrentIn(l, st) == CurrentRefs(l, RowsOf(l, st))
SeatsIn(l, r) == {<<c, r.passage>> : c \in IF r.kind = "note" THEN {r.of} ELSE HeadOf(l, r.of)}
SeatIn(l, r) == CHOOSE seat \in SeatsIn(l, r) : TRUE
OpenPairs(l, st) == {Pair(l, p) : p \in OpenProposals(l, RowsOf(l, st))}
ErrorsIn(er, pair) == IF pair \in DOMAIN er THEN er[pair] ELSE 0
TwoOf(refs) == {{t[1], t[2]} : t \in {t \in refs \X refs : t[1] # t[2]}}
UnsettledIn(l, st, er, ex) ==
    {pair \in TwoOf(CurrentIn(l, st)) \ (ex \cup OpenPairs(l, st) \cup Excluded(l)) :
        ErrorsIn(er, pair) < ErrorBudget}

\* A session has one capture that is neither superseded nor deleted, its head, so a head
\* is only ever followed by a later one.
OneCapture(l) == \A c, d \in Captures(l) : l[c].session = l[d].session => c = d
\* A terminal names a proposal, and the heads it records are of that proposal's sessions.
TerminalsName(l) ==
    \A i \in Of(l, "terminal") :
        /\ l[i].proposal \in Of(l, "conflict_proposal")
        /\ \A h \in l[i].heads :
            \E r \in Pair(l, l[i].proposal) : r.kind = "passage" /\ r.of = h[1]
IsSequence(l) == \E S : l \in Seq(S)
SoundLog(l) ==
    /\ IsSequence(l)
    /\ \A c \in Of(l, "session_captured") : l[c].session \in SessionIds
    /\ OneCapture(l) /\ TerminalsName(l)

Slots == Nat \X Nat
SlotIn(l, x) == x \in Slots /\ x[1] <= Len(l)

SweepPlaces == {"rest", "rebuild", "opens", "subject", "pair", "append"}
Listing == SweepPlaces \ {"rest", "pair", "append"}
Judging == {"pair", "append"}
Reading == Judging \cup {"subject"}

CycleShape(sw) ==
    /\ sw = [pc |-> sw.pc, todo |-> sw.todo, index |-> sw.index, settled |-> sw.settled,
             open |-> sw.open, vectors |-> sw.vectors, budget |-> sw.budget, pairs |-> sw.pairs,
             blocked |-> sw.blocked, propose |-> sw.propose]
    /\ sw.pc \in SweepPlaces /\ (sw.pc = "rest" => sw = Rest)
    /\ sw.blocked \in BOOLEAN
    /\ \A t, u \in sw.todo : t = u \/ Before(t[1], u[1]) \/ Before(u[1], t[1])
    /\ \A pair \in sw.pairs : \E a, b : a # b /\ pair = {a, b}
    /\ sw.pc \in Judging => sw.todo # {}

\* The cursor and the error counts, as they are stored.
DurableOK(l, st, cu, er) ==
    /\ SlotIn(l, cu)
    /\ st \subseteq Of(l, "session_captured")
    /\ \A q \in DOMAIN er : er[q] \in Nat

\* An unretired memory waits with the place it had, which is no later than the one it has.
RewindOK(l, t) ==
    /\ SlotIn(l, t[1])
    /\ t[2].kind = "note" => t[1] = <<t[2].of, 0>>
    /\ t[2].kind # "note" =>
         t[1][2] = t[2].passage /\ \A c \in HeadOf(l, t[2].of) : t[1][1] <= c

\* A subject of this cycle: its passages were stored.
Listed(l, st, t) ==
    /\ SlotIn(l, t[1])
    /\ \/ \E n \in Of(l, "memory") : t[2] = Note(n)
       \/ \E s \in SessionIds, k \in 0..(Passages - 1) : t[2] = Passage(s, k) /\ t[1][1] \in st
\* One that has no vector lost its head since.
HasVector(l, sw, t) ==
    t[2] \in sw.vectors \/ (t[2].kind # "note" /\ HeadOf(l, t[2].of) # {t[1][1]})

Waiting(rw) == {t[2] : t \in rw}
LaterThan(todo, seat) == \A t \in todo : Before(t[1], seat)
\* A memory the cycle will not pass: it waits for its rewind, or sits behind every subject ...
Spared(l, rw, sw, r) == r \in Waiting(rw) \/ LaterThan(sw.todo, SeatIn(l, r))
\* ... or is still to be a subject, after those in done.
Coming(l, sw, done, r) == <<SeatIn(l, r), r>> \in sw.todo \ done
FirstOf(todo) == CHOOSE t \in todo : \A u \in todo : u = t \/ Before(t[1], u[1])

\* The cursor is not past both of a pair that nothing was decided about.
CursorKeeps(l, cu, rw, pair) == \E r \in pair : r \in Waiting(rw) \/ ~Before(SeatIn(l, r), cu)
\* The cycle will come to the pair, or stop, before the cursor is past both.
CycleKeeps(l, rw, sw, pair) ==
    /\ sw.pc \in Listing => \E r \in pair : Spared(l, rw, sw, r) \/ Coming(l, sw, {}, r)
    /\ sw.pc \in Judging =>
         \/ sw.blocked \/ pair \in sw.pairs
         \/ sw.pc = "append" /\ pair = {sw.propose[1], sw.propose[2]}
         \/ \E r \in pair : Spared(l, rw, sw, r) \/ Coming(l, sw, {FirstOf(sw.todo)}, r)
    /\ sw.pc \in Reading \cup {"opens"} /\ ~(pair \subseteq sw.index) =>
         \E r \in pair : Spared(l, rw, sw, r)
    /\ sw.pc \in Reading /\ pair \in sw.settled => \E r \in pair : Spared(l, rw, sw, r)

SkipInv ==
    /\ SoundLog(memlog) /\ CycleShape(sweep) /\ DurableOK(memlog, stored, cursor, errors)
    /\ \A t \in rewind : RewindOK(memlog, t)
    /\ \A t \in sweep.todo :
         Listed(memlog, stored, t) /\ (sweep.pc \in Reading => HasVector(memlog, sweep, t))
    /\ \A pair \in UnsettledIn(memlog, stored, errors, excused) :
         CursorKeeps(memlog, cursor, rewind, pair) /\ CycleKeeps(memlog, rewind, sweep, pair)


-----------------------------------------------------------------------------
(* What an event does to the folds the cycle reads *)

LEMMA SequenceIsLog ==
  ASSUME NEW l, IsSequence(l)
  PROVE  IsLog(l)
BY DEF IsSequence, IsLog

\* m is l with one more event, e.
OneMore(l, m, e) ==
    /\ IsSequence(m) /\ Extends(m, l) /\ Fresh(m, l) = {Len(l) + 1} /\ m[Len(l) + 1] = e
    /\ Len(m) = Len(l) + 1 /\ Len(l) \in Nat

LEMMA AppendIsOneMore ==
  ASSUME NEW l, IsSequence(l), NEW e
  PROVE  OneMore(l, Append(l, e), e)
<1> DEFINE m == Append(l, e)
<1>1. PICK S : l \in Seq(S)
    BY DEF IsSequence
<1>2. l \in Seq(S \cup {e}) /\ m \in Seq(S \cup {e})
    BY <1>1
<1>3. Len(m) = Len(l) + 1 /\ m[Len(l) + 1] = e /\ \A i \in 1..Len(l) : m[i] = l[i]
    BY <1>1, <1>2
<1>4. IsLog(l) /\ IsLog(m)
    BY <1>1, <1>2 DEF IsLog
<1>5. IsSequence(m)
    BY <1>2 DEF IsSequence
<1> QED
    BY <1>3, <1>4, <1>5 DEF Extends, Fresh, IsLog, OneMore

\* What one more event does to the folds.
LEMMA OneMoreEvent ==
  ASSUME NEW l, NEW e, NEW m, OneMore(l, m, e)
  PROVE  /\ \A t : t = e.type => Of(m, t) = Of(l, t) \cup {Len(l) + 1}
         /\ \A t : t # e.type => Of(m, t) = Of(l, t)
         /\ \A t : \A i \in Of(l, t) : m[i] = l[i]
         /\ e.type = "supersede" => Superseded(m) = Superseded(l) \cup {e.supersedes}
         /\ e.type # "supersede" => Superseded(m) = Superseded(l)
         /\ e.type = "session_deleted" => Deleted(m) = Deleted(l) \cup {e.session}
         /\ e.type # "session_deleted" => Deleted(m) = Deleted(l)
         /\ e.type = "retired" => Retired(m) = Retired(l) \cup {e.ref}
         /\ e.type = "unretire" => Retired(m) = Retired(l) \ {e.ref}
         /\ e.type \notin {"retired", "unretire"} => Retired(m) = Retired(l)
<1> DEFINE n == Len(l) + 1
<1>0. Extends(m, l)
    BY DEF OneMore
<1>1. Fresh(m, l) = {n} /\ m[n] = e
    BY DEF OneMore
<1> HIDE DEF n
<1>2. \A t : Of(m, t) = Of(l, t) \cup {i \in Fresh(m, l) : m[i].type = t}
    BY <1>0, FoldsGrow
<1>3. \A t : \A i \in Of(l, t) : m[i] = l[i]
    BY <1>0, FoldsGrow
<1>4. Superseded(m) = Superseded(l)
        \cup {m[i].supersedes : i \in {i \in Fresh(m, l) : m[i].type = "supersede"}}
    BY <1>0, FoldsGrow
<1>5. Deleted(m) = Deleted(l)
        \cup {m[i].session : i \in {i \in Fresh(m, l) : m[i].type = "session_deleted"}}
    BY <1>0, FoldsGrow
<1>6. \A t : t = e.type => {i \in Fresh(m, l) : m[i].type = t} = {n}
    BY <1>1
<1>7. \A t : t # e.type => {i \in Fresh(m, l) : m[i].type = t} = {}
    BY <1>1
<1>8. e.type = "retired" => Retired(m) = Retired(l) \cup {e.ref}
    BY <1>0, <1>1, RetiredGrows
<1>9. e.type = "unretire" => Retired(m) = Retired(l) \ {e.ref}
    BY <1>0, <1>1, RetiredShrinks
<1>10. e.type \notin {"retired", "unretire"} => Retired(m) = Retired(l)
    BY <1>0, <1>1, RetiredStays
<1>11. /\ \A t : t = e.type => Of(m, t) = Of(l, t) \cup {n}
       /\ \A t : t # e.type => Of(m, t) = Of(l, t)
    BY <1>2, <1>6, <1>7
<1>12. /\ e.type = "supersede" => Superseded(m) = Superseded(l) \cup {e.supersedes}
       /\ e.type # "supersede" => Superseded(m) = Superseded(l)
    BY <1>1, <1>4, <1>6, <1>7
<1>13. /\ e.type = "session_deleted" => Deleted(m) = Deleted(l) \cup {e.session}
       /\ e.type # "session_deleted" => Deleted(m) = Deleted(l)
    BY <1>1, <1>5, <1>6, <1>7
<1> QED
    BY <1>3, <1>8, <1>9, <1>10, <1>11, <1>12, <1>13 DEF n

\* The one capture that counts is the head.
LEMMA HeadIsCapture ==
  ASSUME NEW l, SoundLog(l)
  PROVE  /\ \A s : HeadOf(l, s) = {c \in Captures(l) : l[c].session = s}
         /\ \A s : \A c \in HeadOf(l, s) : HeadOf(l, s) = {c}
         /\ \A s : \A c \in HeadOf(l, s) :
                c \in Of(l, "session_captured") /\ c \in 1..Len(l) /\ l[c].session = s
<1>1. IsLog(l) /\ OneCapture(l)
    BY SequenceIsLog DEF SoundLog
<1>2. Captures(l) \subseteq 1..Len(l)
    BY <1>1 DEF Captures, Of, IsLog
<1>3. \A s : HeadOf(l, s) = {c \in Captures(l) : l[c].session = s}
    BY <1>1, <1>2 DEF HeadOf, Heads, OneCapture, IsLog
<1>4. \A s : \A c \in HeadOf(l, s) : HeadOf(l, s) = {c}
    BY <1>1, <1>3 DEF OneCapture
<1> QED
    BY <1>2, <1>3, <1>4 DEF Captures

\* A current memory is a note, or a stored passage of its session's head.
LEMMA CurrentIs ==
  ASSUME NEW l, SoundLog(l), NEW st, NEW r
  PROVE  r \in CurrentIn(l, st) <=>
           \/ \E n \in CurrentNotes(l) : r = Note(n)
           \/ \E s \in SessionIds, k \in 0..(Passages - 1), c \in st :
                r = Passage(s, k) /\ HeadOf(l, s) = {c} /\ r \notin Retired(l)
<1> DEFINE counts == RowsOf(l, st)
<1> DEFINE passages == UNION {{Passage(l[c].session, k) : k \in 0..(counts[c] - 1)} : c \in Heads(l)}
<1>1. ASSUME NEW c \in Heads(l)
      PROVE  /\ c \in Of(l, "session_captured") /\ l[c].session \in SessionIds
             /\ HeadOf(l, l[c].session) = {c}
             /\ counts[c] = IF c \in st THEN Passages ELSE 0
    <2>1. c \in HeadOf(l, l[c].session)
        BY DEF HeadOf
    <2>2. c \in Of(l, "session_captured") /\ HeadOf(l, l[c].session) = {c}
        BY <2>1, HeadIsCapture
    <2> QED
        BY <2>2 DEF SoundLog, RowsOf
<1>2. ASSUME NEW s, NEW c, HeadOf(l, s) = {c} PROVE c \in Heads(l) /\ l[c].session = s
    BY <1>2 DEF HeadOf
<1>3. r \in passages <=>
        \E s \in SessionIds, k \in 0..(Passages - 1), c \in st :
            r = Passage(s, k) /\ HeadOf(l, s) = {c}
    <2>1. ASSUME r \in passages
          PROVE  \E s \in SessionIds, k \in 0..(Passages - 1), c \in st :
                     r = Passage(s, k) /\ HeadOf(l, s) = {c}
        <3>1. PICK c \in Heads(l) : \E k \in 0..(counts[c] - 1) : r = Passage(l[c].session, k)
            BY <2>1
        <3>2. PICK k \in 0..(counts[c] - 1) : r = Passage(l[c].session, k)
            BY <3>1
        <3>3. c \in st /\ counts[c] = Passages
            BY <1>1, <3>2
        <3> QED
            BY <1>1, <3>2, <3>3
    <2>2. ASSUME NEW s \in SessionIds, NEW k \in 0..(Passages - 1), NEW c \in st,
                 r = Passage(s, k), HeadOf(l, s) = {c}
          PROVE  r \in passages
        <3>1. c \in Heads(l) /\ l[c].session = s
            BY <1>2, <2>2
        <3>2. counts[c] = Passages
            BY <1>1, <3>1
        <3> QED
            BY <2>2, <3>1, <3>2
    <2> QED
        BY <2>1, <2>2
<1>4. CurrentIn(l, st) = {Note(n) : n \in CurrentNotes(l)} \cup (passages \ Retired(l))
    BY DEF CurrentIn, CurrentRefs
<1> HIDE DEF passages
<1> QED
    BY <1>3, <1>4

\* What a step of a user may do to the folds: what is current anew was taken back or is a new
\* note, and a session's head changes to a later capture or to none.
Moves(l, m, st, back) ==
    /\ SoundLog(m) /\ Extends(m, l)
    /\ \A r \in CurrentIn(m, st) \ CurrentIn(l, st) : r \in back \/ (r.kind = "note" /\ r.of > Len(l))
    /\ \A s : HeadOf(m, s) = HeadOf(l, s) \/ \A c \in HeadOf(m, s) : c > Len(l)

\* The members of a log, when it is the other one's continuation.
LEMMA CurrentGrows ==
  ASSUME NEW l, NEW m, SoundLog(l), SoundLog(m), Extends(m, l),
         NEW st, st \subseteq Of(l, "session_captured"), NEW back,
         \A n \in CurrentNotes(m) : n \in CurrentNotes(l) \/ n > Len(l) \/ Note(n) \in back,
         \A r \in Retired(l) \ Retired(m) : r \in back,
         \A s : HeadOf(m, s) = HeadOf(l, s) \/ \A c \in HeadOf(m, s) : c > Len(l)
  PROVE  Moves(l, m, st, back)
<1> SUFFICES ASSUME NEW r \in CurrentIn(m, st), r \notin CurrentIn(l, st)
             PROVE  r \in back \/ (r.kind = "note" /\ r.of > Len(l))
    BY DEF Moves
<1>1. CASE \E n \in CurrentNotes(m) : r = Note(n)
    <2>1. PICK n \in CurrentNotes(m) : r = Note(n)
        BY <1>1
    <2>2. n \notin CurrentNotes(l)
        BY <2>1, CurrentIs
    <2>3. r.kind = "note" /\ r.of = n
        BY <2>1 DEF Note
    <2> QED
        BY <2>1, <2>2, <2>3
<1>2. CASE \E s \in SessionIds, k \in 0..(Passages - 1), c \in st :
                r = Passage(s, k) /\ HeadOf(m, s) = {c} /\ r \notin Retired(m)
    <2>1. PICK s \in SessionIds, k \in 0..(Passages - 1), c \in st :
                r = Passage(s, k) /\ HeadOf(m, s) = {c} /\ r \notin Retired(m)
        BY <1>2
    <2>2. ~(c > Len(l))
        BY SequenceIsLog DEF SoundLog, Of, IsLog
    <2>3. HeadOf(l, s) = {c}
        BY <2>1, <2>2
    <2>4. r \in Retired(l)
        BY <2>1, <2>3, CurrentIs
    <2> QED
        BY <2>1, <2>4
<1> QED
    BY <1>1, <1>2, CurrentIs

\* Where no capture is added, a session keeps its head or loses it.
LEMMA HeadsStay ==
  ASSUME NEW l, NEW m, SoundLog(l), NEW e, OneMore(l, m, e), TerminalsName(m),
         e.type # "session_captured"
  PROVE  /\ SoundLog(m)
         /\ \A s : HeadOf(m, s) = HeadOf(l, s) \/ HeadOf(m, s) = {}
         /\ Captures(m) \subseteq Captures(l) /\ \A c \in Captures(l) : m[c] = l[c]
         /\ e.type \notin {"supersede", "session_deleted"} => \A s : HeadOf(m, s) = HeadOf(l, s)
<1>1. /\ Of(m, "session_captured") = Of(l, "session_captured")
      /\ \A c \in Of(l, "session_captured") : m[c] = l[c]
    BY OneMoreEvent
<1>2. Superseded(l) \subseteq Superseded(m) /\ Deleted(l) \subseteq Deleted(m)
    BY OneMoreEvent
<1>3. e.type \notin {"supersede", "session_deleted"} =>
          Superseded(m) = Superseded(l) /\ Deleted(m) = Deleted(l)
    BY OneMoreEvent
<1>4. Captures(m) \subseteq Captures(l) /\ Captures(l) \subseteq Of(l, "session_captured")
    BY <1>1, <1>2 DEF Captures
<1>5. e.type \notin {"supersede", "session_deleted"} => Captures(m) = Captures(l)
    BY <1>1, <1>3 DEF Captures
<1>6. SoundLog(m)
    BY <1>1, <1>4 DEF SoundLog, OneCapture, OneMore
<1>7. /\ \A s : HeadOf(l, s) = {c \in Captures(l) : l[c].session = s}
      /\ \A s : \A c \in HeadOf(l, s) : HeadOf(l, s) = {c}
    BY HeadIsCapture
<1>8. \A s : HeadOf(m, s) = {c \in Captures(m) : m[c].session = s}
    BY <1>6, HeadIsCapture
<1>9. \A s : HeadOf(m, s) = HeadOf(l, s) \cap Captures(m)
    BY <1>1, <1>4, <1>7, <1>8
<1>10. \A s : HeadOf(m, s) = HeadOf(l, s) \/ HeadOf(m, s) = {}
    BY <1>7, <1>9
<1>11. e.type \notin {"supersede", "session_deleted"} => \A s : HeadOf(m, s) = HeadOf(l, s)
    <2>1. \A s : HeadOf(l, s) \subseteq Captures(l)
        BY <1>7
    <2> QED
        BY <1>5, <1>9, <2>1
<1> QED
    BY <1>1, <1>4, <1>6, <1>10, <1>11

LEMMA TerminalsStay ==
  ASSUME NEW l, NEW m, TerminalsName(l), NEW e, OneMore(l, m, e), e.type # "terminal"
  PROVE  TerminalsName(m)
<1>1. Of(m, "terminal") = Of(l, "terminal")
    BY OneMoreEvent
<1>2. \A t : Of(l, t) \subseteq Of(m, t)
    BY OneMoreEvent
<1>3. \A t : \A i \in Of(l, t) : m[i] = l[i]
    BY OneMoreEvent
<1>4. \A p \in Of(l, "conflict_proposal") : Pair(m, p) = Pair(l, p)
    BY <1>3 DEF Pair
<1> QED
    BY <1>1, <1>2, <1>3, <1>4 DEF TerminalsName

\* Events other than a capture and a terminal: what is current anew is a new note, or is back.
LEMMA EventMoves ==
  ASSUME NEW l, SoundLog(l), NEW st, st \subseteq Of(l, "session_captured"),
         NEW e, NEW m, OneMore(l, m, e), e.type # "session_captured", TerminalsName(m)
  PROVE  Moves(l, m, st, IF e.type = "unretire" THEN {e.ref} ELSE {})
<1> DEFINE back == IF e.type = "unretire" THEN {e.ref} ELSE {}
<1>1. SoundLog(m) /\ \A s : HeadOf(m, s) = HeadOf(l, s) \/ HeadOf(m, s) = {}
    BY HeadsStay
<1>2. Retired(l) \ Retired(m) \subseteq back
    <2>1. CASE e.type = "retired"
        BY <2>1, OneMoreEvent
    <2>2. CASE e.type = "unretire"
        BY <2>2, OneMoreEvent
    <2>3. CASE e.type \notin {"retired", "unretire"}
        BY <2>3, OneMoreEvent
    <2> QED
        BY <2>1, <2>2, <2>3
<1>3. Of(m, "memory") \subseteq Of(l, "memory") \cup {Len(l) + 1}
    <2>1. CASE e.type = "memory"
        BY <2>1, OneMoreEvent
    <2>2. CASE e.type # "memory"
        BY <2>2, OneMoreEvent
    <2> QED
        BY <2>1, <2>2
<1>4. Superseded(l) \subseteq Superseded(m)
    BY OneMoreEvent
<1>5. Len(l) + 1 > Len(l) /\ Extends(m, l)
    BY DEF OneMore
<1>6. \A n \in CurrentNotes(m) : n \in CurrentNotes(l) \/ n > Len(l) \/ Note(n) \in back
    BY <1>2, <1>3, <1>4, <1>5 DEF CurrentNotes
<1> HIDE DEF back
<1>7. Moves(l, m, st, back)
    BY <1>1, <1>2, <1>5, <1>6, CurrentGrows
<1> QED
    BY <1>7 DEF back

\* A session without a capture gets one.
LEMMA CapturedMoves ==
  ASSUME NEW l, SoundLog(l), NEW st, st \subseteq Of(l, "session_captured"),
         NEW s \in SessionIds, HeadOf(l, s) = {},
         NEW b, NEW m, OneMore(l, m, Captured(s, b))
  PROVE  Moves(l, m, st, {})
<1> DEFINE n == Len(l) + 1
<1>1. Captured(s, b).type = "session_captured" /\ Captured(s, b).session = s
    BY DEF Captured
<1>2. m[n] = Captured(s, b) /\ Extends(m, l) /\ n > Len(l) /\ IsSequence(m)
    BY DEF OneMore
<1>3. /\ Of(m, "session_captured") = Of(l, "session_captured") \cup {n}
      /\ Of(m, "memory") = Of(l, "memory")
    BY <1>1, OneMoreEvent
<1>4. Superseded(m) = Superseded(l) /\ Deleted(m) = Deleted(l) /\ Retired(m) = Retired(l)
    BY <1>1, OneMoreEvent
<1>5. \A i \in Of(l, "session_captured") : m[i] = l[i]
    BY OneMoreEvent
<1> HIDE DEF n
<1>6. /\ Captures(m) \subseteq Captures(l) \cup {n} /\ Captures(l) \subseteq Captures(m)
      /\ Captures(l) \subseteq Of(l, "session_captured")
    BY <1>3, <1>4, <1>5 DEF Captures
<1>7. \A x : HeadOf(l, x) = {c \in Captures(l) : l[c].session = x}
    BY HeadIsCapture
<1>8. \A c \in Captures(l) : l[c].session # s /\ m[c] = l[c]
    BY <1>5, <1>6, <1>7
<1>9. OneCapture(m)
    BY <1>1, <1>2, <1>6, <1>8 DEF OneCapture, SoundLog
<1>10. SoundLog(m)
    BY <1>1, <1>2, <1>3, <1>5, <1>9, TerminalsStay DEF SoundLog
<1>11. \A x : HeadOf(m, x) = {c \in Captures(m) : m[c].session = x}
    BY <1>10, HeadIsCapture
<1>12. ASSUME NEW x PROVE HeadOf(m, x) = HeadOf(l, x) \/ \A c \in HeadOf(m, x) : c > Len(l)
    <2>1. CASE x = s
        BY <1>2, <1>6, <1>8, <1>11, <2>1
    <2>2. CASE x # s
        <3>1. m[n].session # x
            BY <1>1, <1>2, <2>2
        <3>2. {c \in Captures(m) : m[c].session = x} = {c \in Captures(l) : m[c].session = x}
            BY <1>6, <3>1
        <3>3. {c \in Captures(l) : m[c].session = x} = {c \in Captures(l) : l[c].session = x}
            BY <1>8
        <3> QED
            BY <1>7, <1>11, <3>2, <3>3
    <2> QED
        BY <2>1, <2>2
<1>13. CurrentNotes(m) = CurrentNotes(l)
    BY <1>3, <1>4 DEF CurrentNotes
<1> QED
    BY <1>2, <1>4, <1>10, <1>12, <1>13, CurrentGrows

\* Answering a proposal records heads of its own sessions.
LEMMA TerminalNames ==
  ASSUME NEW l, SoundLog(l), NEW p \in Of(l, "conflict_proposal"), NEW act, NEW heads,
         heads \subseteq SessionHeads(l, p),
         NEW m, OneMore(l, m, Terminal(p, act, heads))
  PROVE  TerminalsName(m)
<1> DEFINE e == Terminal(p, act, heads)
<1> DEFINE n == Len(l) + 1
<1>1. e.type = "terminal" /\ e.proposal = p /\ e.heads = heads
    BY DEF Terminal
<1>2. m[n] = e
    BY DEF OneMore
<1> HIDE DEF e, n
<1>3. Of(m, "terminal") = Of(l, "terminal") \cup {n}
    BY <1>1, OneMoreEvent DEF e, n
<1>4. Of(m, "conflict_proposal") = Of(l, "conflict_proposal")
    BY <1>1, OneMoreEvent DEF e
<1>5. \A t : \A i \in Of(l, t) : m[i] = l[i]
    BY OneMoreEvent
<1>6. \A q \in Of(l, "conflict_proposal") : Pair(m, q) = Pair(l, q)
    BY <1>5 DEF Pair
<1>7. \A h \in heads : \E r \in Pair(l, p) : r.kind = "passage" /\ r.of = h[1]
    BY DEF SessionHeads
<1>8. /\ m[n].proposal \in Of(m, "conflict_proposal")
      /\ \A h \in m[n].heads : \E r \in Pair(m, m[n].proposal) : r.kind = "passage" /\ r.of = h[1]
    BY <1>1, <1>2, <1>4, <1>6, <1>7
<1>9. ASSUME NEW i \in Of(l, "terminal")
      PROVE  /\ m[i].proposal \in Of(m, "conflict_proposal")
             /\ \A h \in m[i].heads :
                    \E r \in Pair(m, m[i].proposal) : r.kind = "passage" /\ r.of = h[1]
    <2>1. m[i] = l[i]
        BY <1>5
    <2>2. /\ l[i].proposal \in Of(l, "conflict_proposal")
          /\ \A h \in l[i].heads :
                 \E r \in Pair(l, l[i].proposal) : r.kind = "passage" /\ r.of = h[1]
        BY DEF SoundLog, TerminalsName
    <2> QED
        BY <1>4, <1>6, <2>1, <2>2
<1> QED
    BY <1>3, <1>8, <1>9 DEF TerminalsName

LEMMA MovesTwice ==
  ASSUME NEW l, NEW k, NEW m, NEW st, Moves(l, k, st, {}), Moves(k, m, st, {})
  PROVE  Moves(l, m, st, {})
<1>1. Len(l) \in Nat /\ Len(k) \in Nat /\ Len(l) <= Len(k)
    BY DEF Moves, Extends, IsLog
<1>2. \A s : \A c \in HeadOf(m, s) : c \in Nat
    <2>1. SoundLog(m)
        BY DEF Moves
    <2>2. IsLog(m)
        BY <2>1, SequenceIsLog DEF SoundLog
    <2>3. \A s : \A c \in HeadOf(m, s) : c \in 1..Len(m)
        BY <2>1, HeadIsCapture
    <2> QED
        BY <2>2, <2>3 DEF IsLog
<1>3. Extends(m, l)
    BY DEF Moves, Extends, IsLog
<1>4. ASSUME NEW s PROVE HeadOf(m, s) = HeadOf(l, s) \/ \A c \in HeadOf(m, s) : c > Len(l)
    <2>1. HeadOf(m, s) = HeadOf(k, s) \/ \A c \in HeadOf(m, s) : c > Len(k)
        BY DEF Moves
    <2>2. HeadOf(k, s) = HeadOf(l, s) \/ \A c \in HeadOf(k, s) : c > Len(l)
        BY DEF Moves
    <2> QED
        BY <1>1, <1>2, <2>1, <2>2
<1>5. ASSUME NEW r \in CurrentIn(m, st), r \notin CurrentIn(l, st)
      PROVE  r.kind = "note" /\ r.of > Len(l)
    <2>1. CASE r \in CurrentIn(k, st)
        BY <1>5, <2>1 DEF Moves
    <2>2. CASE r \notin CurrentIn(k, st)
        <3>1. r.kind = "note" /\ r.of > Len(k)
            BY <2>2 DEF Moves
        <3>2. \E n \in CurrentNotes(m) : r = Note(n)
            <4>1. SoundLog(m)
                BY DEF Moves
            <4>2. \A s, j : r # Passage(s, j)
                BY <3>1 DEF Passage
            <4> QED
                BY <4>1, <4>2, CurrentIs
        <3>3. r.of \in Nat
            <4>1. IsLog(m)
                BY SequenceIsLog DEF Moves, SoundLog
            <4> QED
                BY <3>2, <4>1 DEF Note, CurrentNotes, Of, IsLog
        <3> QED
            BY <1>1, <3>1, <3>3
    <2> QED
        BY <2>1, <2>2
<1> QED
    BY <1>3, <1>4, <1>5 DEF Moves

-----------------------------------------------------------------------------
(* Seats, and the pairs a step unsettles *)

LEMMA SeatFacts ==
  ASSUME NEW l, SoundLog(l), NEW st, NEW r \in CurrentIn(l, st)
  PROVE  \/ /\ r.kind = "note" /\ r.passage = 0 /\ r = Note(r.of)
            /\ r.of \in Of(l, "memory") /\ r.of \in 1..Len(l)
            /\ SeatIn(l, r) = <<r.of, 0>>
         \/ /\ r.kind = "passage" /\ r.of \in SessionIds /\ r.passage \in 0..(Passages - 1)
            /\ r = Passage(r.of, r.passage)
            /\ \E c \in st : /\ HeadOf(l, r.of) = {c} /\ c \in Of(l, "session_captured")
                             /\ l[c].session = r.of /\ c \in 1..Len(l)
                             /\ SeatIn(l, r) = <<c, r.passage>>
<1>1. CASE \E n \in CurrentNotes(l) : r = Note(n)
    <2>1. PICK n \in CurrentNotes(l) : r = Note(n)
        BY <1>1
    <2>2. r.kind = "note" /\ r.of = n /\ r.passage = 0
        BY <2>1 DEF Note
    <2>3. n \in Of(l, "memory") /\ n \in 1..Len(l)
        BY SequenceIsLog DEF CurrentNotes, SoundLog, Of, IsLog
    <2>4. SeatsIn(l, r) = {<<n, 0>>}
        BY <2>2 DEF SeatsIn
    <2> QED
        BY <2>1, <2>2, <2>3, <2>4 DEF SeatIn
<1>2. CASE \E s \in SessionIds, k \in 0..(Passages - 1), c \in st :
                r = Passage(s, k) /\ HeadOf(l, s) = {c} /\ r \notin Retired(l)
    <2>1. PICK s \in SessionIds, k \in 0..(Passages - 1), c \in st :
                r = Passage(s, k) /\ HeadOf(l, s) = {c}
        BY <1>2
    <2>2. r.kind = "passage" /\ r.of = s /\ r.passage = k
        BY <2>1 DEF Passage
    <2>3. c \in Of(l, "session_captured") /\ l[c].session = s /\ c \in 1..Len(l)
        BY <2>1, HeadIsCapture
    <2>4. SeatsIn(l, r) = {<<c, k>>}
        BY <2>1, <2>2 DEF SeatsIn
    <2> QED
        BY <2>1, <2>2, <2>3, <2>4 DEF SeatIn
<1> QED
    BY <1>1, <1>2, CurrentIs

LEMMA PassageSeat ==
  ASSUME NEW l, SoundLog(l), NEW st, NEW r \in CurrentIn(l, st), r.kind # "note"
  PROVE  \E c \in st : HeadOf(l, r.of) = {c} /\ SeatIn(l, r) = <<c, r.passage>>
BY SeatFacts

LEMMA SeatsAreSlots ==
  ASSUME NEW l, SoundLog(l), NEW st, NEW r \in CurrentIn(l, st)
  PROVE  SeatIn(l, r) \in Slots /\ SeatIn(l, r)[1] \in 1..Len(l) /\ Len(l) \in Nat
<1>1. Len(l) \in Nat
    BY SequenceIsLog DEF SoundLog, IsLog
<1>2. Passages \in Nat
    BY ConflictSweepAssumption
<1> QED
    BY <1>1, <1>2, SeatFacts DEF Slots

\* What is current after a step sits where it sat before.
LEMMA SeatsStay ==
  ASSUME NEW l, NEW m, SoundLog(l), NEW st, st \subseteq Of(l, "session_captured"), NEW back,
         Moves(l, m, st, back), NEW r \in CurrentIn(m, st)
  PROVE  SeatIn(m, r) = SeatIn(l, r)
<1>1. SoundLog(m)
    BY DEF Moves
<1>2. CASE r.kind = "note"
    BY <1>2 DEF SeatIn, SeatsIn
<1>3. CASE r.kind # "note"
    <2>1. PICK c \in st : HeadOf(m, r.of) = {c}
        BY <1>1, <1>3, SeatFacts
    <2>2. ~(c > Len(l))
        BY SequenceIsLog DEF SoundLog, Of, IsLog
    <2>3. HeadOf(m, r.of) = HeadOf(l, r.of)
        BY <2>1, <2>2 DEF Moves
    <2> QED
        BY <2>3 DEF SeatIn, SeatsIn
<1> QED
    BY <1>2, <1>3

LEMMA SeatsDiffer ==
  ASSUME NEW l, SoundLog(l), NEW st, NEW r \in CurrentIn(l, st), NEW q \in CurrentIn(l, st), r # q
  PROVE  Before(SeatIn(l, r), SeatIn(l, q)) \/ Before(SeatIn(l, q), SeatIn(l, r))
<1>1. /\ SeatIn(l, r) \in Slots /\ SeatIn(l, q) \in Slots
    BY SeatsAreSlots
<1> SUFFICES SeatIn(l, r) # SeatIn(l, q)
    BY <1>1 DEF Before, Slots
<1>2. CASE r.kind = "note" /\ q.kind = "note"
    BY <1>2, SeatFacts
<1>3. CASE r.kind = "passage" /\ q.kind = "passage"
    <2>1. PICK c \in st : SeatIn(l, r) = <<c, r.passage>> /\ l[c].session = r.of
        BY <1>3, SeatFacts
    <2>2. PICK d \in st : SeatIn(l, q) = <<d, q.passage>> /\ l[d].session = q.of
        BY <1>3, SeatFacts
    <2>3. r = Passage(r.of, r.passage) /\ q = Passage(q.of, q.passage)
        BY <1>3, SeatFacts
    <2> QED
        BY <2>1, <2>2, <2>3
<1>4. ASSUME NEW x \in {r, q}, NEW y \in {r, q}, x.kind = "note", y.kind = "passage"
      PROVE  SeatIn(l, x) # SeatIn(l, y)
    <2>1. x.of \in Of(l, "memory") /\ SeatIn(l, x) = <<x.of, 0>>
        BY <1>4, SeatFacts
    <2>2. PICK c \in st : SeatIn(l, y) = <<c, y.passage>> /\ c \in Of(l, "session_captured")
        BY <1>4, SeatFacts
    <2>3. x.of # c
        BY <2>1, <2>2 DEF Of
    <2> QED
        BY <2>1, <2>2, <2>3
<1>5. r.kind \in {"note", "passage"} /\ q.kind \in {"note", "passage"}
    BY SeatFacts
<1> QED
    BY <1>2, <1>3, <1>4, <1>5

\* What was answered stays answered while both memories stay what they are.
LEMMA ExcludedStays ==
  ASSUME NEW l, NEW m, SoundLog(l), NEW st, st \subseteq Of(l, "session_captured"), NEW back,
         Moves(l, m, st, back), NEW pair \in Excluded(l), pair \subseteq CurrentIn(m, st)
  PROVE  pair \in Excluded(m)
<1>1. PICK i \in Of(l, "terminal") :
          /\ pair = Pair(l, l[i].proposal)
          /\ \/ l[i].action = "keep_both"
             \/ l[i].action = "dismiss" /\ \A h \in l[i].heads : HeadOf(l, h[1]) = {h[2]}
    BY DEF Excluded
<1>2. Extends(m, l) /\ SoundLog(m)
    BY DEF Moves
<1>3. \A t : Of(l, t) \subseteq Of(m, t) /\ \A j \in Of(l, t) : m[j] = l[j]
    BY <1>2, FoldsGrow
<1>4. m[i] = l[i] /\ i \in Of(m, "terminal")
    BY <1>3
<1>5. l[i].proposal \in Of(l, "conflict_proposal")
    BY DEF SoundLog, TerminalsName
<1>6. Pair(m, l[i].proposal) = pair
    BY <1>1, <1>3, <1>5 DEF Pair
<1>7. ASSUME NEW h \in l[i].heads, HeadOf(l, h[1]) = {h[2]} PROVE HeadOf(m, h[1]) = {h[2]}
    <2>1. PICK r \in pair : r.kind = "passage" /\ r.of = h[1]
        BY <1>1 DEF SoundLog, TerminalsName
    <2>2. PICK c \in st : HeadOf(m, r.of) = {c}
        <3>1. r \in CurrentIn(m, st) /\ r.kind # "note"
            BY <2>1
        <3> QED
            BY <1>2, <3>1, PassageSeat
    <2>3. ~(c > Len(l))
        BY SequenceIsLog DEF SoundLog, Of, IsLog
    <2> QED
        BY <1>7, <2>1, <2>2, <2>3 DEF Moves
<1> QED
    BY <1>1, <1>4, <1>6, <1>7 DEF Excluded

LEMMA OpenStays ==
  ASSUME NEW l, NEW m, Extends(m, l), NEW st, NEW pair \in OpenPairs(l, st),
         pair \subseteq CurrentIn(m, st)
  PROVE  pair \in OpenPairs(m, st)
<1>1. PICK p \in OpenProposals(l, RowsOf(l, st)) : pair = Pair(l, p)
    BY DEF OpenPairs
<1>2. p \in Of(l, "conflict_proposal")
    BY <1>1 DEF OpenProposals
<1>3. p \in Of(m, "conflict_proposal") /\ m[p] = l[p]
    BY <1>2, FoldsGrow
<1>4. pair = {m[p].a, m[p].b} /\ pair = Pair(m, p)
    BY <1>1, <1>3 DEF Pair
<1>5. p \in OpenProposals(m, RowsOf(m, st))
    BY <1>3, <1>4 DEF OpenProposals, CurrentIn
<1> QED
    BY <1>4, <1>5 DEF OpenPairs

LEMMA UnsettledFacts ==
  ASSUME NEW l, NEW st, NEW er, NEW ex, NEW pair
  PROVE  pair \in UnsettledIn(l, st, er, ex) <=>
           /\ \E a, b \in CurrentIn(l, st) : a # b /\ pair = {a, b}
           /\ pair \notin ex /\ pair \notin OpenPairs(l, st) /\ pair \notin Excluded(l)
           /\ ErrorsIn(er, pair) < ErrorBudget
<1>1. pair \in TwoOf(CurrentIn(l, st)) <=> \E a, b \in CurrentIn(l, st) : a # b /\ pair = {a, b}
    <2>1. ASSUME NEW a \in CurrentIn(l, st), NEW b \in CurrentIn(l, st), a # b, pair = {a, b}
          PROVE  pair \in TwoOf(CurrentIn(l, st))
        <3>1. <<a, b>> \in CurrentIn(l, st) \X CurrentIn(l, st) /\ <<a, b>>[1] = a /\ <<a, b>>[2] = b
            OBVIOUS
        <3> QED
            BY <2>1, <3>1 DEF TwoOf
    <2>2. ASSUME pair \in TwoOf(CurrentIn(l, st))
          PROVE  \E a, b \in CurrentIn(l, st) : a # b /\ pair = {a, b}
        BY <2>2 DEF TwoOf
    <2> QED
        BY <2>1, <2>2
<1> QED
    BY <1>1 DEF UnsettledIn

\* A pair is unsettled anew only with a memory that is current anew.
LEMMA NewlyUnsettled ==
  ASSUME NEW l, NEW m, SoundLog(l), NEW st, st \subseteq Of(l, "session_captured"), NEW back,
         Moves(l, m, st, back), NEW er, NEW ex, NEW pair \in UnsettledIn(m, st, er, ex)
  PROVE  \/ pair \in UnsettledIn(l, st, er, ex)
         \/ \E r \in pair : r \in back \/ (r.kind = "note" /\ r.of > Len(l))
<1>1. PICK a, b \in CurrentIn(m, st) : a # b /\ pair = {a, b}
    BY UnsettledFacts
<1>2. CASE a \in CurrentIn(l, st) /\ b \in CurrentIn(l, st)
    <2>1. pair \notin OpenPairs(l, st)
        <3>1. Extends(m, l)
            BY DEF Moves
        <3> QED
            BY <1>1, <3>1, OpenStays, UnsettledFacts
    <2>2. pair \notin Excluded(l)
        BY <1>1, ExcludedStays, UnsettledFacts
    <2> QED
        BY <1>1, <1>2, <2>1, <2>2, UnsettledFacts
<1>3. CASE a \notin CurrentIn(l, st)
    BY <1>1, <1>3 DEF Moves
<1>4. CASE b \notin CurrentIn(l, st)
    BY <1>1, <1>4 DEF Moves
<1> QED
    BY <1>2, <1>3, <1>4

-----------------------------------------------------------------------------
(* What keeps a pair in sight *)

LEMMA SparedKeeps ==
  ASSUME NEW l, NEW rw, NEW sw, NEW pair, NEW r \in pair, Spared(l, rw, sw, r)
  PROVE  CycleKeeps(l, rw, sw, pair)
BY DEF CycleKeeps

\* The folds of the module are those that take the log as an argument.
LEMMA FoldsOfState ==
  /\ Rows = RowsOf(memlog, stored) /\ Current = CurrentIn(memlog, stored)
  /\ Unsettled = UnsettledIn(memlog, stored, errors, excused)
  /\ \A r : Seat(r) = SeatIn(memlog, r)
  /\ \A r : Seats(r) = SeatsIn(memlog, r)
  /\ \A pair : Errors(pair) = ErrorsIn(errors, pair)
<1>1. Rows = RowsOf(memlog, stored)
    BY DEF Rows, RowsOf
<1>2. Current = CurrentIn(memlog, stored)
    BY <1>1 DEF Current, CurrentIn
<1>3. \A pair : Errors(pair) = ErrorsIn(errors, pair)
    BY DEF Errors, ErrorsIn
<1>4. \A r : Seats(r) = SeatsIn(memlog, r)
    BY DEF Seats, SeatsIn
<1>5. \A r : Seat(r) = SeatIn(memlog, r)
    BY DEF Seat, SeatIn, Seats, SeatsIn
<1>6. Unsettled = UnsettledIn(memlog, stored, errors, excused)
    BY <1>1, <1>2, <1>3 DEF Unsettled, UnsettledIn, TwoOf, OpenPairs
<1> QED
    BY <1>1, <1>2, <1>3, <1>4, <1>5, <1>6

\* A pair that stays current keeps what it relied on, and a new one brings its own.
LEMMA PairsKept ==
  ASSUME NEW l, NEW m, SoundLog(l), NEW st, st \subseteq Of(l, "session_captured"), NEW back,
         Moves(l, m, st, back), NEW er, NEW ex, NEW cu, NEW rw, NEW rv, NEW sw,
         rw \subseteq rv, back \cap CurrentIn(m, st) \subseteq Waiting(rv),
         SlotIn(l, cu), \A t \in sw.todo : SlotIn(l, t[1]),
         \A pair \in UnsettledIn(l, st, er, ex) :
             CursorKeeps(l, cu, rw, pair) /\ CycleKeeps(l, rw, sw, pair),
         NEW pair \in UnsettledIn(m, st, er, ex)
  PROVE  CursorKeeps(m, cu, rv, pair) /\ CycleKeeps(m, rv, sw, pair)
<1>1. pair \subseteq CurrentIn(m, st) /\ SoundLog(m)
    BY UnsettledFacts DEF Moves
<1>2. Waiting(rw) \subseteq Waiting(rv)
    BY DEF Waiting
<1>3. CASE pair \in UnsettledIn(l, st, er, ex)
    <2>1. CursorKeeps(l, cu, rw, pair) /\ CycleKeeps(l, rw, sw, pair)
        BY <1>3
    <2>2. \A r \in pair : SeatIn(m, r) = SeatIn(l, r)
        BY <1>1, SeatsStay
    <2>3. \A r \in pair : Spared(l, rw, sw, r) => Spared(m, rv, sw, r)
        BY <1>2, <2>2 DEF Spared
    <2>4. \A r \in pair : \A done : Coming(l, sw, done, r) => Coming(m, sw, done, r)
        BY <2>2 DEF Coming
    <2>5. CursorKeeps(m, cu, rv, pair)
        BY <1>2, <2>1, <2>2 DEF CursorKeeps
    <2>6. CycleKeeps(m, rv, sw, pair)
        BY <2>1, <2>3, <2>4 DEF CycleKeeps
    <2> QED
        BY <2>5, <2>6
<1>4. CASE \E r \in pair : r \in back \/ (r.kind = "note" /\ r.of > Len(l))
    <2>1. PICK r \in pair : r \in back \/ (r.kind = "note" /\ r.of > Len(l))
        BY <1>4
    <2>2. CASE r \in back
        <3>1. r \in Waiting(rv)
            BY <1>1, <2>2
        <3>2. Spared(m, rv, sw, r) /\ CursorKeeps(m, cu, rv, pair)
            BY <3>1 DEF Spared, CursorKeeps
        <3> QED
            BY <3>2, SparedKeeps
    <2>3. CASE r.kind = "note" /\ r.of > Len(l)
        <3>1. SeatIn(m, r) = <<r.of, 0>> /\ r.of \in Nat
            <4>1. r \in CurrentIn(m, st)
                BY <1>1
            <4>2. SeatIn(m, r) = <<r.of, 0>> /\ r.of \in 1..Len(m)
                BY <1>1, <2>3, <4>1, SeatFacts
            <4> QED
                BY <4>2
        <3>2. Len(l) \in Nat
            BY SequenceIsLog DEF SoundLog, IsLog
        <3>3. \A x : SlotIn(l, x) => Before(x, SeatIn(m, r)) /\ ~Before(SeatIn(m, r), x)
            BY <2>3, <3>1, <3>2 DEF SlotIn, Slots, Before
        <3>4. Spared(m, rv, sw, r) /\ CursorKeeps(m, cu, rv, pair)
            BY <3>3 DEF Spared, CursorKeeps, LaterThan
        <3> QED
            BY <3>4, SparedKeeps
    <2> QED
        BY <2>1, <2>2, <2>3
<1> QED
    BY <1>3, <1>4, NewlyUnsettled

\* The subjects and the rewinds stay what they are.
LEMMA ListsKept ==
  ASSUME NEW l, NEW m, SoundLog(l), NEW st, NEW back, Moves(l, m, st, back), NEW sw
  PROVE  /\ \A x : SlotIn(l, x) => SlotIn(m, x)
         /\ \A t : RewindOK(l, t) => RewindOK(m, t)
         /\ \A t : Listed(l, st, t) => Listed(m, st, t)
         /\ \A t : Listed(l, st, t) /\ HasVector(l, sw, t) => HasVector(m, sw, t)
<1>1. /\ Len(l) \in Nat /\ Len(m) \in Nat /\ Len(l) <= Len(m)
      /\ Of(l, "memory") \subseteq Of(m, "memory")
    BY FoldsGrow DEF Moves, Extends, IsLog
<1>2. ASSUME NEW x, SlotIn(l, x) PROVE SlotIn(m, x)
    BY <1>1, <1>2 DEF SlotIn, Slots
<1>3. \A s : \A c \in HeadOf(m, s) : c \in Nat
    <2>1. \A s : \A c \in HeadOf(m, s) : c \in 1..Len(m)
        BY HeadIsCapture DEF Moves
    <2> QED
        BY <2>1
<1>4. ASSUME NEW t, RewindOK(l, t) PROVE RewindOK(m, t)
    <2>1. ASSUME NEW c \in HeadOf(m, t[2].of), \A d \in HeadOf(l, t[2].of) : t[1][1] <= d
          PROVE  t[1][1] <= c
        <3>1. c \in HeadOf(l, t[2].of) \/ c > Len(l)
            BY DEF Moves
        <3>2. t[1] \in Slots /\ t[1][1] <= Len(l)
            BY <1>4 DEF RewindOK, SlotIn
        <3> QED
            BY <1>1, <1>3, <2>1, <3>1, <3>2 DEF Slots
    <2> QED
        BY <1>2, <1>4, <2>1 DEF RewindOK
<1>5. ASSUME NEW t, Listed(l, st, t) PROVE Listed(m, st, t)
    BY <1>1, <1>2, <1>5 DEF Listed
<1>6. ASSUME NEW t, Listed(l, st, t), HasVector(l, sw, t) PROVE HasVector(m, sw, t)
    <2>1. t[1] \in Slots /\ t[1][1] <= Len(l)
        BY <1>6 DEF Listed, SlotIn
    <2>2. HeadOf(m, t[2].of) = {t[1][1]} => HeadOf(l, t[2].of) = {t[1][1]}
        <3>1. HeadOf(m, t[2].of) = HeadOf(l, t[2].of) \/ \A c \in HeadOf(m, t[2].of) : c > Len(l)
            BY DEF Moves
        <3>2. ~(t[1][1] > Len(l))
            BY <1>1, <2>1 DEF Slots
        <3> QED
            BY <3>1, <3>2
    <2> QED
        BY <1>6, <2>2 DEF HasVector
<1> QED
    BY <1>2, <1>4, <1>5, <1>6

-----------------------------------------------------------------------------
(* The steps of users *)

LEMMA OneEventAdded ==
  ASSUME NEW l, IsSequence(l), NEW e, NEW m, m = l \o <<e>>
  PROVE  OneMore(l, m, e)
<1>1. PICK S : l \in Seq(S)
    BY DEF IsSequence
<1>2. l \in Seq(S \cup {e}) /\ <<e>> \in Seq(S \cup {e})
    BY <1>1
<1>3. m = Append(l, e)
    BY <1>2
<1> QED
    BY <1>3, AppendIsOneMore

LEMMA TwoEventsAdded ==
  ASSUME NEW l, IsSequence(l), NEW a, NEW b, NEW m, m = l \o <<a, b>>
  PROVE  \E k : OneMore(l, k, a) /\ OneMore(k, m, b)
<1>1. PICK S : l \in Seq(S)
    BY DEF IsSequence
<1> DEFINE T == S \cup {a, b}
<1>2. l \in Seq(T) /\ <<a, b>> \in Seq(T) /\ Append(l, a) \in Seq(T)
    BY <1>1
<1>3. m = Append(Append(l, a), b)
    BY <1>2
<1>4. OneMore(l, Append(l, a), a)
    BY AppendIsOneMore
<1>5. OneMore(Append(l, a), m, b)
    BY <1>3, <1>4, AppendIsOneMore DEF OneMore
<1> QED
    BY <1>4, <1>5

\* A step that leaves the cycle alone.
LEMMA GrowStep ==
  ASSUME SkipInv, NEW back, Moves(memlog, memlog', stored, back),
         UNCHANGED <<stored, cursor, errors, sweep, excused>>,
         rewind \subseteq rewind',
         back \cap CurrentIn(memlog', stored) \subseteq Waiting(rewind'),
         \A t \in rewind' \ rewind : RewindOK(memlog, t)
  PROVE  SkipInv'
<1>1. /\ SoundLog(memlog) /\ stored \subseteq Of(memlog, "session_captured")
      /\ SlotIn(memlog, cursor) /\ \A t \in sweep.todo : SlotIn(memlog, t[1])
    BY DEF SkipInv, DurableOK, Listed
<1>2. SoundLog(memlog') /\ Extends(memlog', memlog)
    BY DEF Moves
<1>3. CycleShape(sweep')
    BY DEF SkipInv
<1>4. DurableOK(memlog', stored', cursor', errors')
    <2>1. SlotIn(memlog', cursor)
        BY <1>1, ListsKept
    <2>2. Of(memlog, "session_captured") \subseteq Of(memlog', "session_captured")
        BY <1>2, FoldsGrow
    <2> QED
        BY <2>1, <2>2 DEF DurableOK, SkipInv
<1>5. \A t \in rewind' : RewindOK(memlog', t)
    <2>1. \A t \in rewind' : RewindOK(memlog, t)
        BY DEF SkipInv
    <2> QED
        BY <1>1, <2>1, ListsKept
<1>6. ASSUME NEW t \in sweep'.todo
      PROVE  /\ Listed(memlog', stored', t)
             /\ sweep'.pc \in Reading => HasVector(memlog', sweep', t)
    <2>1. Listed(memlog, stored, t) /\ (sweep.pc \in Reading => HasVector(memlog, sweep, t))
        BY DEF SkipInv
    <2> QED
        BY <1>1, <2>1, ListsKept
<1>7. ASSUME NEW pair \in UnsettledIn(memlog', stored', errors', excused')
      PROVE  /\ CursorKeeps(memlog', cursor', rewind', pair)
             /\ CycleKeeps(memlog', rewind', sweep', pair)
    <2>1. \A q \in UnsettledIn(memlog, stored, errors, excused) :
              CursorKeeps(memlog, cursor, rewind, q) /\ CycleKeeps(memlog, rewind, sweep, q)
        BY DEF SkipInv
    <2>2. pair \in UnsettledIn(memlog', stored, errors, excused)
        OBVIOUS
    <2>3. CursorKeeps(memlog', cursor, rewind', pair) /\ CycleKeeps(memlog', rewind', sweep, pair)
        BY <1>1, <2>1, <2>2, PairsKept
    <2> QED
        BY <2>3
<1> QED
    BY <1>2, <1>3, <1>4, <1>5, <1>6, <1>7 DEF SkipInv

\* An event that takes nothing back.
LEMMA PlainEventStep ==
  ASSUME SkipInv, NEW e, memlog' = memlog \o <<e>>,
         UNCHANGED <<stored, cursor, errors, sweep, excused, rewind>>,
         e.type \notin {"session_captured", "unretire", "terminal"}
  PROVE  SkipInv'
<1>1. SoundLog(memlog) /\ stored \subseteq Of(memlog, "session_captured")
    BY DEF SkipInv, DurableOK
<1>2. OneMore(memlog, memlog', e)
    BY <1>1, OneEventAdded DEF SoundLog
<1>3. TerminalsName(memlog')
    BY <1>1, <1>2, TerminalsStay DEF SoundLog
<1>4. Moves(memlog, memlog', stored, {})
    BY <1>1, <1>2, <1>3, EventMoves
<1> QED
    BY <1>4, GrowStep

LEMMA RememberStep ==
  ASSUME SkipInv, RememberNote
  PROVE  SkipInv'
BY PlainEventStep DEF RememberNote, User, Memory

LEMMA EditStep ==
  ASSUME SkipInv, NEW n, Edit(n)
  PROVE  SkipInv'
<1>1. SoundLog(memlog) /\ stored \subseteq Of(memlog, "session_captured")
    BY DEF SkipInv, DurableOK
<1>2. PICK k : OneMore(memlog, k, Supersede(n)) /\ OneMore(k, memlog', Memory(n))
    BY <1>1, TwoEventsAdded DEF SoundLog, Edit, User
<1>3. Supersede(n).type = "supersede" /\ Memory(n).type = "memory"
    BY DEF Supersede, Memory
<1>4. TerminalsName(k)
    BY <1>1, <1>2, <1>3, TerminalsStay DEF SoundLog
<1>5. Moves(memlog, k, stored, {})
    BY <1>1, <1>2, <1>3, <1>4, EventMoves
<1>6. SoundLog(k) /\ stored \subseteq Of(k, "session_captured")
    BY <1>1, <1>2, <1>3, <1>5, OneMoreEvent DEF Moves
<1>7. TerminalsName(memlog')
    BY <1>2, <1>3, <1>6, TerminalsStay DEF SoundLog
<1>8. Moves(k, memlog', stored, {})
    BY <1>2, <1>3, <1>6, <1>7, EventMoves
<1>9. Moves(memlog, memlog', stored, {})
    BY <1>5, <1>8, MovesTwice
<1> QED
    BY <1>9, GrowStep DEF Edit, User

LEMMA CaptureStep ==
  ASSUME SkipInv, NEW s \in SessionIds, Capture(s)
  PROVE  SkipInv'
<1> DEFINE new == Captured(s, Len(memlog) + 1)
<1>1. SoundLog(memlog) /\ stored \subseteq Of(memlog, "session_captured")
    BY DEF SkipInv, DurableOK
<1>2. CASE HeadOf(memlog, s) = {} /\ User(<<new>>)
    <2>1. OneMore(memlog, memlog', new)
        BY <1>1, <1>2, OneEventAdded DEF SoundLog, User
    <2>2. Moves(memlog, memlog', stored, {})
        BY <1>1, <1>2, <2>1, CapturedMoves
    <2> QED
        BY <1>2, <2>2, GrowStep DEF Capture, User
<1>3. ASSUME NEW h \in HeadOf(memlog, s), User(<<Supersede(h), new>>) PROVE SkipInv'
    <2>1. PICK k : OneMore(memlog, k, Supersede(h)) /\ OneMore(k, memlog', new)
        BY <1>1, <1>3, TwoEventsAdded DEF SoundLog, User
    <2>2. Supersede(h).type = "supersede" /\ Supersede(h).supersedes = h
        BY DEF Supersede
    <2>3. TerminalsName(k)
        BY <1>1, <2>1, <2>2, TerminalsStay DEF SoundLog
    <2>4. Moves(memlog, k, stored, {})
        BY <1>1, <2>1, <2>2, <2>3, EventMoves
    <2>5. SoundLog(k) /\ stored \subseteq Of(k, "session_captured")
        BY <1>1, <2>1, <2>2, <2>4, OneMoreEvent DEF Moves
    <2>6. HeadOf(k, s) = {}
        <3>1. HeadOf(memlog, s) = {h}
            BY <1>1, <1>3, HeadIsCapture
        <3>2. HeadOf(k, s) = HeadOf(memlog, s) \/ HeadOf(k, s) = {}
            BY <1>1, <2>1, <2>2, <2>3, HeadsStay
        <3>3. h \in Superseded(k)
            BY <2>1, <2>2, OneMoreEvent
        <3>4. h \notin HeadOf(k, s)
            BY <3>3 DEF HeadOf, Heads, Captures
        <3> QED
            BY <3>1, <3>2, <3>4
    <2>7. Moves(k, memlog', stored, {})
        BY <2>1, <2>5, <2>6, CapturedMoves
    <2>8. Moves(memlog, memlog', stored, {})
        BY <2>4, <2>7, MovesTwice
    <2> QED
        BY <1>3, <2>8, GrowStep DEF Capture, User
<1> QED
    BY <1>2, <1>3 DEF Capture

LEMMA DeleteStep ==
  ASSUME SkipInv, NEW s, DeleteSession(s)
  PROVE  SkipInv'
BY PlainEventStep DEF DeleteSession, User, SessionDeleted

LEMMA RetireStep ==
  ASSUME SkipInv, NEW r, Retire(r)
  PROVE  SkipInv'
BY PlainEventStep DEF Retire, User, Retirement

LEMMA ResolveStep ==
  ASSUME SkipInv, NEW p \in Of(memlog, "conflict_proposal"), NEW act, Resolve(p, act)
  PROVE  SkipInv'
<1>1. SoundLog(memlog) /\ stored \subseteq Of(memlog, "session_captured")
    BY DEF SkipInv, DurableOK
<1> DEFINE heads == IF act = "dismiss" THEN SessionHeads(memlog, p) ELSE {}
<1>2. OneMore(memlog, memlog', Terminal(p, act, heads))
    BY <1>1, OneEventAdded DEF SoundLog, Resolve, User
<1>3. heads \subseteq SessionHeads(memlog, p)
    OBVIOUS
<1> HIDE DEF heads
<1>4. TerminalsName(memlog')
    BY <1>1, <1>2, <1>3, TerminalNames
<1>5. Terminal(p, act, heads).type = "terminal"
    BY DEF Terminal
<1>6. Moves(memlog, memlog', stored, {})
    BY <1>1, <1>2, <1>4, <1>5, EventMoves
<1> QED
    BY <1>6, GrowStep DEF Resolve, User

\* What is taken back waits for its rewind.
LEMMA UnretireStep ==
  ASSUME SkipInv, NEW r \in MemoryRefs, Unretire(r)
  PROVE  SkipInv'
<1>1. SoundLog(memlog) /\ stored \subseteq Of(memlog, "session_captured")
    BY DEF SkipInv, DurableOK
<1>2. OneMore(memlog, memlog', UnretireEvent(r))
    BY <1>1, OneEventAdded DEF SoundLog, Unretire, User
<1>3. UnretireEvent(r).type = "unretire" /\ UnretireEvent(r).ref = r
    BY DEF UnretireEvent
<1>4. TerminalsName(memlog')
    BY <1>1, <1>2, <1>3, TerminalsStay DEF SoundLog
<1>5. Moves(memlog, memlog', stored, {r})
    BY <1>1, <1>2, <1>3, <1>4, EventMoves
<1>6. rewind' = rewind \cup (SeatsIn(memlog, r) \X {r})
    BY FoldsOfState DEF Unretire
<1>7. Len(memlog) \in Nat /\ IsLog(memlog)
    BY <1>1, SequenceIsLog DEF SoundLog, IsLog
<1>8. ASSUME NEW t \in SeatsIn(memlog, r) \X {r} PROVE RewindOK(memlog, t)
    <2>1. PICK c : t[1] = <<c, r.passage>> /\ c \in (IF r.kind = "note" THEN {r.of} ELSE HeadOf(memlog, r.of))
        BY DEF SeatsIn
    <2>2. t[2] = r
        OBVIOUS
    <2>3. CASE r.kind = "note"
        <3>1. PICK n \in Of(memlog, "memory") : r = Note(n)
            BY <2>3 DEF MemoryRefs, Passage
        <3>2. c = n /\ r.of = n /\ r.passage = 0
            BY <2>1, <2>3, <3>1 DEF Note
        <3>3. c \in 1..Len(memlog)
            BY <1>7, <3>1, <3>2 DEF Of, IsLog
        <3> QED
            BY <1>7, <2>1, <2>2, <2>3, <3>2, <3>3 DEF RewindOK, SlotIn, Slots
    <2>4. CASE r.kind # "note"
        <3>1. r.passage \in Nat
            BY <2>4, ConflictSweepAssumption DEF MemoryRefs, Note, Passage
        <3>2. HeadOf(memlog, r.of) = {c} /\ c \in 1..Len(memlog)
            BY <1>1, <2>1, <2>4, HeadIsCapture
        <3> QED
            BY <1>7, <2>1, <2>2, <2>4, <3>1, <3>2 DEF RewindOK, SlotIn, Slots
    <2> QED
        BY <2>3, <2>4
<1>9. ASSUME r \in CurrentIn(memlog', stored) PROVE r \in Waiting(rewind')
    <2>1. SeatsIn(memlog, r) # {}
        <3>1. CASE r.kind = "note"
            BY <3>1 DEF SeatsIn
        <3>2. CASE r.kind # "note"
            <4>1. PICK c \in stored : HeadOf(memlog', r.of) = {c}
                BY <1>5, <1>9, <3>2, PassageSeat DEF Moves
            <4>2. ~(c > Len(memlog))
                BY <1>1, <1>7 DEF Of, IsLog
            <4>3. HeadOf(memlog, r.of) = {c}
                BY <1>5, <4>1, <4>2 DEF Moves
            <4> QED
                BY <3>2, <4>3 DEF SeatsIn
        <3> QED
            BY <3>1, <3>2
    <2>2. PICK x \in SeatsIn(memlog, r) : TRUE
        BY <2>1
    <2>3. <<x, r>> \in rewind' /\ <<x, r>>[2] = r
        BY <1>6, <2>2
    <2> QED
        BY <2>3 DEF Waiting
<1>10. UNCHANGED <<stored, cursor, errors, sweep, excused>>
    BY DEF Unretire, User
<1>11. \A t \in rewind' \ rewind : RewindOK(memlog, t)
    BY <1>6, <1>8
<1>12. rewind \subseteq rewind' /\ {r} \cap CurrentIn(memlog', stored) \subseteq Waiting(rewind')
    BY <1>6, <1>9
<1> QED
    BY <1>5, <1>10, <1>11, <1>12, GrowStep

\* Before is an order.
LEMMA SlotOrder ==
  ASSUME NEW x \in Slots, NEW y \in Slots, NEW z \in Slots
  PROVE  /\ ~Before(x, x)
         /\ Before(x, y) => ~Before(y, x)
         /\ ~Before(x, y) /\ Before(z, y) => ~Before(x, z)
         /\ ~Before(x, y) /\ ~Before(y, z) => ~Before(x, z)
         /\ Before(x, y) => ~Before(y, <<x[1], x[2] + 1>>)
BY DEF Before, Slots

\* More excuses leave fewer pairs.
LEMMA FewerUnsettled ==
  ASSUME NEW l, NEW st, NEW er, NEW ex, NEW ey, ex \subseteq ey,
         NEW pair \in UnsettledIn(l, st, er, ey)
  PROVE  pair \in UnsettledIn(l, st, er, ex) /\ pair \notin ey
BY UnsettledFacts

\* A pair with a given current memory is among those that With excuses.
LEMMA CurrentAreRefs ==
  ASSUME SoundLog(memlog), NEW st
  PROVE  CurrentIn(memlog, st) \subseteq MemoryRefs
<1> SUFFICES ASSUME NEW r \in CurrentIn(memlog, st) PROVE r \in MemoryRefs
    OBVIOUS
<1>1. CASE \E n \in CurrentNotes(memlog) : r = Note(n)
    BY <1>1 DEF MemoryRefs, CurrentNotes
<1>2. CASE \E s \in SessionIds, k \in 0..(Passages - 1), c \in st :
                r = Passage(s, k) /\ HeadOf(memlog, s) = {c} /\ r \notin Retired(memlog)
    BY <1>2 DEF MemoryRefs
<1> QED
    BY <1>1, <1>2, CurrentIs

LEMMA WithExcuses ==
  ASSUME SoundLog(memlog), NEW st, NEW er, NEW ex,
         NEW pair \in UnsettledIn(memlog, st, er, ex), NEW r \in pair
  PROVE  pair \in With(r)
<1>1. PICK a, b \in CurrentIn(memlog, st) : a # b /\ pair = {a, b}
    BY UnsettledFacts
<1>2. a \in MemoryRefs /\ b \in MemoryRefs
    BY CurrentAreRefs
<1>3. CASE r = a
    BY <1>1, <1>2, <1>3 DEF With
<1>4. CASE r = b
    BY <1>1, <1>2, <1>4 DEF With
<1> QED
    BY <1>1, <1>3, <1>4

\* A current memory that waits sits no earlier than where its rewind goes to.
LEMMA RewindReaches ==
  ASSUME NEW l, SoundLog(l), NEW st, NEW t, RewindOK(l, t), t[2] \in CurrentIn(l, st)
  PROVE  ~Before(SeatIn(l, t[2]), t[1])
<1> DEFINE r == t[2]
<1>1. SeatIn(l, r) \in Slots /\ t[1] \in Slots
    BY SeatsAreSlots DEF RewindOK, SlotIn
<1>2. CASE r.kind = "note"
    <2>1. SeatIn(l, r) = <<r.of, 0>>
        BY <1>2, SeatFacts
    <2> QED
        BY <1>1, <1>2, <2>1, SlotOrder DEF RewindOK
<1>3. CASE r.kind # "note"
    <2>1. PICK c \in st : HeadOf(l, r.of) = {c} /\ SeatIn(l, r) = <<c, r.passage>>
        BY <1>3, PassageSeat
    <2>2. t[1][2] = r.passage /\ t[1][1] <= c
        BY <1>3, <2>1 DEF RewindOK
    <2> QED
        BY <1>1, <2>1, <2>2 DEF Before, Slots
<1> QED
    BY <1>2, <1>3

LEMMA RewindStep ==
  ASSUME SkipInv, NEW t, Rewind(t)
  PROVE  SkipInv'
<1>1. /\ SoundLog(memlog) /\ SlotIn(memlog, cursor) /\ RewindOK(memlog, t)
      /\ DurableOK(memlog, stored, cursor, errors)
    BY DEF SkipInv, DurableOK, Rewind
<1>2. /\ UNCHANGED <<memlog, stored, errors, sweep>> /\ excused \subseteq excused'
      /\ rewind' = rewind \ {t}
    BY DEF Rewind
<1>3. SlotIn(memlog, cursor') /\ ~Before(t[1], cursor') /\ ~Before(cursor, cursor')
    <2>1. cursor \in Slots /\ t[1] \in Slots
        BY <1>1 DEF RewindOK, SlotIn
    <2>2. CASE Before(t[1], cursor)
        BY <1>1, <2>1, <2>2, SlotOrder DEF Rewind, RewindOK
    <2>3. CASE ~Before(t[1], cursor)
        BY <1>1, <2>1, <2>3, SlotOrder DEF Rewind
    <2> QED
        BY <2>2, <2>3
<1>4. ASSUME NEW pair \in UnsettledIn(memlog, stored, errors, excused')
      PROVE  /\ CursorKeeps(memlog, cursor', rewind', pair)
             /\ CycleKeeps(memlog, rewind', sweep, pair)
    <2>1. pair \in UnsettledIn(memlog, stored, errors, excused) /\ pair \notin excused'
        BY <1>2, <1>4, FewerUnsettled
    <2>2. CursorKeeps(memlog, cursor, rewind, pair) /\ CycleKeeps(memlog, rewind, sweep, pair)
        BY <2>1 DEF SkipInv
    <2>3. \A r \in pair : r \in CurrentIn(memlog, stored) /\ SeatIn(memlog, r) \in Slots
        BY <1>1, <2>1, UnsettledFacts, SeatsAreSlots
    <2>4. cursor \in Slots /\ cursor' \in Slots /\ t[1] \in Slots
        BY <1>1, <1>3 DEF SlotIn, RewindOK
    <2>5. \A r \in pair : ~Before(SeatIn(memlog, r), cursor) => ~Before(SeatIn(memlog, r), cursor')
        BY <1>3, <2>3, <2>4, SlotOrder
    <2>6. \A r \in Waiting(rewind) : r \in Waiting(rewind') \/ r = t[2]
        BY <1>2 DEF Waiting
    <2>7. CASE sweep = Rest
        <3>1. ASSUME t[2] \in pair PROVE ~Before(SeatIn(memlog, t[2]), cursor')
            <4>1. t[2] \in CurrentIn(memlog, stored)
                BY <2>3, <3>1
            <4>2. ~Before(SeatIn(memlog, t[2]), t[1])
                BY <1>1, <4>1, RewindReaches
            <4> QED
                BY <1>3, <2>3, <2>4, <3>1, <4>2, SlotOrder
        <3>2. CursorKeeps(memlog, cursor', rewind', pair)
            BY <2>2, <2>5, <2>6, <3>1 DEF CursorKeeps
        <3>3. CycleKeeps(memlog, rewind', sweep, pair)
            BY <2>7 DEF CycleKeeps, Rest, Listing, Judging, Reading
        <3> QED
            BY <3>2, <3>3
    <2>8. CASE sweep # Rest
        <3>1. t[2] \notin pair
            <4>1. With(t[2]) \subseteq excused'
                BY <2>8 DEF Rewind
            <4> QED
                BY <1>1, <2>1, <4>1, WithExcuses
        <3>2. \A r \in pair : r \in Waiting(rewind) => r \in Waiting(rewind')
            BY <2>6, <3>1
        <3>3. CursorKeeps(memlog, cursor', rewind', pair)
            BY <2>2, <2>5, <3>2 DEF CursorKeeps
        <3>4. \A r \in pair : Spared(memlog, rewind, sweep, r) => Spared(memlog, rewind', sweep, r)
            BY <3>2 DEF Spared
        <3>5. CycleKeeps(memlog, rewind', sweep, pair)
            BY <2>2, <3>4 DEF CycleKeeps
        <3> QED
            BY <3>3, <3>5
    <2> QED
        BY <2>7, <2>8
<1>5. DurableOK(memlog, stored, cursor', errors)
    BY <1>1, <1>3 DEF DurableOK
<1> QED
    BY <1>2, <1>4, <1>5 DEF SkipInv

LEMMA RestIsShaped == CycleShape(Rest) /\ Rest.todo = {} /\ Rest.pc = "rest"
BY DEF CycleShape, Rest, SweepPlaces, Judging

\* Ending the cycle, wherever it was.
LEMMA RestStep ==
  ASSUME SkipInv, sweep' = Rest, UNCHANGED <<memlog, stored, cursor, errors>>,
         rewind' \subseteq rewind, excused \subseteq excused',
         \A t \in rewind \ rewind' : With(t[2]) \subseteq excused'
  PROVE  SkipInv'
<1>1. SoundLog(memlog) /\ \A t \in rewind' : RewindOK(memlog, t)
    BY DEF SkipInv
<1>2. ASSUME NEW pair \in UnsettledIn(memlog, stored, errors, excused')
      PROVE  /\ CursorKeeps(memlog, cursor, rewind', pair)
             /\ CycleKeeps(memlog, rewind', sweep', pair)
    <2>1. pair \in UnsettledIn(memlog, stored, errors, excused) /\ pair \notin excused'
        BY <1>2, FewerUnsettled
    <2>2. CursorKeeps(memlog, cursor, rewind, pair)
        BY <2>1 DEF SkipInv
    <2>3. \A r \in pair : r \in Waiting(rewind) => r \in Waiting(rewind')
        BY <1>1, <2>1, WithExcuses DEF Waiting
    <2>4. CursorKeeps(memlog, cursor, rewind', pair)
        BY <2>2, <2>3 DEF CursorKeeps
    <2>5. CycleKeeps(memlog, rewind', sweep', pair)
        BY RestIsShaped DEF CycleKeeps, Listing, Judging, Reading
    <2> QED
        BY <2>4, <2>5
<1> QED
    BY <1>1, <1>2, RestIsShaped DEF SkipInv

LEMMA DieStep ==
  ASSUME SkipInv, Die
  PROVE  SkipInv'
<1>1. \A t \in rewind \ rewind' : With(t[2]) \subseteq excused'
    BY DEF Die
<1> QED
    BY <1>1, RestStep DEF Die, durable

\* A statement that fails ends the cycle and loses nothing.
LEMMA CycleFailsStep ==
  ASSUME SkipInv, CycleFails
  PROVE  SkipInv'
BY RestStep DEF CycleFails, durable

LEMMA RewindFailsStep ==
  ASSUME SkipInv, NEW t, RewindFails(t)
  PROVE  SkipInv'
<1>1. /\ SoundLog(memlog) /\ excused \subseteq excused' /\ With(t[2]) \subseteq excused'
      /\ UNCHANGED <<memlog, stored, cursor, errors, sweep>> /\ rewind' = rewind \ {t}
    BY DEF SkipInv, RewindFails, durable
<1>2. ASSUME NEW pair \in UnsettledIn(memlog, stored, errors, excused')
      PROVE  /\ CursorKeeps(memlog, cursor, rewind', pair)
             /\ CycleKeeps(memlog, rewind', sweep, pair)
    <2>1. pair \in UnsettledIn(memlog, stored, errors, excused) /\ pair \notin excused'
        BY <1>1, <1>2, FewerUnsettled
    <2>2. CursorKeeps(memlog, cursor, rewind, pair) /\ CycleKeeps(memlog, rewind, sweep, pair)
        BY <2>1 DEF SkipInv
    <2>3. t[2] \notin pair
        BY <1>1, <2>1, WithExcuses
    <2>4. \A r \in pair : r \in Waiting(rewind) => r \in Waiting(rewind')
        BY <1>1, <2>3 DEF Waiting
    <2>5. \A r \in pair : Spared(memlog, rewind, sweep, r) => Spared(memlog, rewind', sweep, r)
        BY <2>4 DEF Spared
    <2> QED
        BY <2>2, <2>4, <2>5 DEF CursorKeeps, CycleKeeps
<1> QED
    BY <1>1, <1>2 DEF SkipInv

LEMMA StoreStep ==
  ASSUME SkipInv, NEW c, StoreSessionPassages(c)
  PROVE  SkipInv'
<1>1. /\ SoundLog(memlog) /\ DurableOK(memlog, stored, cursor, errors)
    BY DEF SkipInv
<1>2. /\ UNCHANGED <<memlog, cursor, errors, sweep, rewind>> /\ excused \subseteq excused'
      /\ stored' = stored \cup {c} /\ c \in Of(memlog, "session_captured")
    BY DEF StoreSessionPassages
<1>3. ASSUME NEW pair \in UnsettledIn(memlog, stored', errors, excused')
      PROVE  /\ CursorKeeps(memlog, cursor, rewind, pair)
             /\ CycleKeeps(memlog, rewind, sweep, pair)
    <2>1. PICK a, b \in CurrentIn(memlog, stored') : a # b /\ pair = {a, b}
        BY <1>3, UnsettledFacts
    <2>2. pair \notin excused' /\ pair \notin Excluded(memlog) /\ ErrorsIn(errors, pair) < ErrorBudget
          /\ pair \notin OpenPairs(memlog, stored')
        BY <1>3, UnsettledFacts
    <2>3. CASE a \in CurrentIn(memlog, stored) /\ b \in CurrentIn(memlog, stored)
        <3>1. pair \notin OpenPairs(memlog, stored)
            <4>1. CurrentIn(memlog, stored) \subseteq CurrentIn(memlog, stored')
                BY <1>1, <1>2, CurrentIs
            <4> QED
                BY <2>2, <4>1 DEF OpenPairs, OpenProposals, CurrentIn
        <3>2. pair \in UnsettledIn(memlog, stored, errors, excused)
            BY <1>2, <2>1, <2>2, <2>3, <3>1, UnsettledFacts
        <3> QED
            BY <3>2 DEF SkipInv
    <2>4. ASSUME NEW r \in pair, r \notin CurrentIn(memlog, stored)
          PROVE  /\ CursorKeeps(memlog, cursor, rewind, pair)
                 /\ CycleKeeps(memlog, rewind, sweep, pair)
        <3>1. r \in CurrentIn(memlog, stored')
            BY <2>1, <2>4
        <3>2. PICK s \in SessionIds, k \in 0..(Passages - 1) : r = Passage(s, k) /\ HeadOf(memlog, s) = {c}
            <4>1. ~ \E n \in CurrentNotes(memlog) : r = Note(n)
                BY <1>1, <2>4, CurrentIs
            <4>2. PICK s \in SessionIds, k \in 0..(Passages - 1), d \in stored' :
                      r = Passage(s, k) /\ HeadOf(memlog, s) = {d} /\ r \notin Retired(memlog)
                BY <1>1, <3>1, <4>1, CurrentIs
            <4>3. d \notin stored
                BY <1>1, <2>4, <4>2, CurrentIs
            <4> QED
                BY <1>2, <4>2, <4>3
        <3>3. memlog[c].session = s
            BY <1>1, <3>2, HeadIsCapture
        <3>4. With(r) \subseteq UNION {With(Passage(memlog[c].session, j)) : j \in 0..(Passages - 1)}
            BY <3>2, <3>3
        <3>5. sweep = Rest /\ ~Before(<<c, 0>>, cursor)
            <4>1. pair \in With(r)
                BY <1>1, <1>3, WithExcuses
            <4> QED
                BY <2>2, <3>4, <4>1 DEF StoreSessionPassages
        <3>6. CycleKeeps(memlog, rewind, sweep, pair)
            BY <3>5, RestIsShaped DEF CycleKeeps, Listing, Judging, Reading
        <3>7. SeatIn(memlog, r) = <<c, k>>
            <4>1. r.kind = "passage" /\ r.of = s /\ r.passage = k
                BY <3>2 DEF Passage
            <4>2. SeatsIn(memlog, r) = {<<c, k>>}
                BY <3>2, <4>1 DEF SeatsIn
            <4> QED
                BY <4>2 DEF SeatIn
        <3>8. ~Before(SeatIn(memlog, r), cursor)
            <4>1. c \in Nat /\ k \in Nat /\ 0 <= k
                BY <1>1, <1>2, SequenceIsLog, ConflictSweepAssumption DEF SoundLog, IsLog, Of
            <4>2. cursor \in Slots
                BY <1>1 DEF DurableOK, SlotIn
            <4> QED
                BY <3>5, <3>7, <4>1, <4>2 DEF Before, Slots
        <3> QED
            BY <3>6, <3>8 DEF CursorKeeps
    <2> QED
        BY <2>1, <2>3, <2>4
<1>4. DurableOK(memlog, stored', cursor, errors)
    BY <1>1, <1>2 DEF DurableOK
<1>5. \A t : Listed(memlog, stored, t) => Listed(memlog, stored', t)
    BY <1>2 DEF Listed
<1> QED
    BY <1>2, <1>3, <1>4, <1>5 DEF SkipInv

-----------------------------------------------------------------------------
(* The steps of the cycle *)

LEMMA FirstSlot ==
  ASSUME NEW T \in SUBSET Slots, T # {}
  PROVE  \E x \in T : \A y \in T : ~Before(y, x)
<1> DEFINE Less == OpToRel(<, Nat)
<1> DEFINE R == LexPairOrdering(Less, Less, Nat, Nat)
<1>1. IsWellFoundedOn(Less, Nat)
    BY NatLessThanWellFounded
<1> HIDE DEF Less
<1>2. IsWellFoundedOn(R, Nat \X Nat)
    BY <1>1, WFLexPairOrdering
<1> HIDE DEF R
<1>3. T \subseteq Nat \X Nat
    BY DEF Slots
<1>4. PICK x \in T : \A y \in T : ~(<<y, x>> \in R)
    BY <1>2, <1>3, WFMin
<1>5. ASSUME NEW y \in T, Before(y, x) PROVE <<y, x>> \in R
    <2>1. PICK y1 \in Nat, y2 \in Nat : y = <<y1, y2>>
        BY <1>3
    <2>2. PICK x1 \in Nat, x2 \in Nat : x = <<x1, x2>>
        BY <1>3
    <2>3. y1 < x1 \/ (y1 = x1 /\ y2 < x2)
        BY <1>5, <2>1, <2>2 DEF Before
    <2>4. <<y1, x1>> \in Less \/ (y1 = x1 /\ <<y2, x2>> \in Less)
        BY <2>3 DEF Less, OpToRel
    <2> QED
        BY <2>1, <2>2, <2>4 DEF R, LexPairOrdering
<1> QED
    BY <1>4, <1>5

\* The first subject is before every other.
LEMMA FirstIs ==
  ASSUME NEW sw, CycleShape(sw), sw.todo # {}, \A t \in sw.todo : t[1] \in Slots
  PROVE  /\ FirstOf(sw.todo) \in sw.todo
         /\ \A u \in sw.todo : u = FirstOf(sw.todo) \/ Before(FirstOf(sw.todo)[1], u[1])
<1> DEFINE T == {t[1] : t \in sw.todo}
<1>1. T \in SUBSET Slots /\ T # {}
    OBVIOUS
<1>2. PICK x \in T : \A y \in T : ~Before(y, x)
    BY <1>1, FirstSlot
<1>3. PICK t \in sw.todo : x = t[1]
    OBVIOUS
<1>4. \A u \in sw.todo : u = t \/ Before(t[1], u[1])
    BY <1>2, <1>3 DEF CycleShape
<1>5. \E f \in sw.todo : \A u \in sw.todo : u = f \/ Before(f[1], u[1])
    BY <1>4
<1> QED
    BY <1>5 DEF FirstOf

\* The window is the front of what is behind the cursor.
LEMMA WindowIsFront ==
  ASSUME SoundLog(memlog), NEW i \in Window,
         NEW j \in Seqs, memlog[j].type \in {"memory", "session_captured"}, j >= cursor[1],
         j \notin Window
  PROVE  i < j
<1> DEFINE source == {k \in Seqs : memlog[k].type \in {"memory", "session_captured"} /\ k >= cursor[1]}
<1> DEFINE front(n) == {k \in source : k < n}
<1>1. Len(memlog) \in Nat
    BY SequenceIsLog DEF SoundLog, IsLog
<1>2. source \subseteq 1..Len(memlog) /\ IsFiniteSet(1..Len(memlog))
    BY <1>1, FS_Interval DEF Seqs
<1>3. i \in source /\ j \in source /\ i \in Nat /\ j \in Nat
    BY <1>1 DEF Window, Seqs
<1>4. Cardinality(front(i)) < ScanBound /\ ~(Cardinality(front(j)) < ScanBound)
    BY <1>3 DEF Window
<1> SUFFICES ASSUME j < i PROVE FALSE
    BY <1>3
<1>5. front(j) \subseteq front(i)
    BY <1>2, <1>3
<1>6. front(i) \subseteq 1..Len(memlog)
    BY <1>2
<1>7. IsFiniteSet(front(i))
    BY <1>2, <1>6, FS_Subset
<1> HIDE DEF front
<1>8. Cardinality(front(j)) <= Cardinality(front(i))
    BY <1>5, <1>7, FS_Subset
<1>9. Cardinality(front(j)) \in Nat /\ Cardinality(front(i)) \in Nat
    BY <1>5, <1>7, FS_Subset, FS_CardinalityType
<1>10. ScanBound \in Nat
    BY ConflictSweepAssumption
<1> QED
    BY <1>4, <1>8, <1>9, <1>10

LEMMA BeginStep ==
  ASSUME SkipInv, Begin
  PROVE  SkipInv'
<1> DEFINE todo == {<<SeatIn(memlog, r), r>> : r \in Subjects}
<1>1. /\ SoundLog(memlog) /\ DurableOK(memlog, stored, cursor, errors)
      /\ \A t \in rewind : RewindOK(memlog, t)
    BY DEF SkipInv
<1>2. UNCHANGED <<memlog, stored, cursor, errors, rewind, excused>>
    BY DEF Begin, durable
<1>3. sweep' = [Rest EXCEPT !.pc = "rebuild", !.todo = todo]
    BY FoldsOfState DEF Begin
<1>4. \A r \in Subjects : r \in CurrentIn(memlog, stored) /\ SeatIn(memlog, r)[1] \in Window
    BY FoldsOfState DEF Subjects
<1>5. ASSUME NEW t \in todo
      PROVE  t[2] \in Subjects /\ t[2] \in CurrentIn(memlog, stored) /\ t[1] = SeatIn(memlog, t[2])
             /\ t = <<SeatIn(memlog, t[2]), t[2]>>
    BY <1>4
<1>6. \A r \in Subjects : <<SeatIn(memlog, r), r>> \in todo
    OBVIOUS
<1> HIDE DEF todo
<1>7. sweep'.todo = todo /\ sweep'.pc = "rebuild" /\ sweep'.pairs = {}
    BY <1>3 DEF Rest
<1>8. CycleShape(sweep')
    <2>1. \A t, u \in todo : t = u \/ Before(t[1], u[1]) \/ Before(u[1], t[1])
        BY <1>1, <1>5, SeatsDiffer
    <2>2. sweep' = [pc |-> "rebuild", todo |-> todo, index |-> {}, settled |-> {}, open |-> 0,
                    vectors |-> {}, budget |-> 0, pairs |-> {}, blocked |-> FALSE, propose |-> <<>>]
        BY <1>3 DEF Rest
    <2> QED
        BY <2>1, <2>2 DEF CycleShape, SweepPlaces, Judging
<1>9. ASSUME NEW t \in todo PROVE Listed(memlog, stored, t)
    <2>1. SlotIn(memlog, t[1])
        BY <1>1, <1>5, SeatsAreSlots DEF SlotIn
    <2>2. CASE t[2].kind = "note"
        BY <1>1, <1>5, <2>1, <2>2, SeatFacts DEF Listed
    <2>3. CASE t[2].kind # "note"
        <3>1. PICK c \in stored : SeatIn(memlog, t[2]) = <<c, t[2].passage>>
            BY <1>1, <1>5, <2>3, PassageSeat
        <3>2. t[2].of \in SessionIds /\ t[2].passage \in 0..(Passages - 1)
              /\ t[2] = Passage(t[2].of, t[2].passage)
            BY <1>1, <1>5, <2>3, SeatFacts
        <3> QED
            BY <1>5, <2>1, <3>1, <3>2 DEF Listed
    <2> QED
        BY <2>2, <2>3
<1>10. ASSUME NEW pair \in UnsettledIn(memlog, stored, errors, excused)
       PROVE  /\ CursorKeeps(memlog, cursor, rewind, pair)
              /\ CycleKeeps(memlog, rewind, sweep', pair)
    <2>1. CursorKeeps(memlog, cursor, rewind, pair) /\ pair \subseteq CurrentIn(memlog, stored)
        BY <1>10, UnsettledFacts DEF SkipInv
    <2>2. PICK r \in pair : r \in Waiting(rewind) \/ ~Before(SeatIn(memlog, r), cursor)
        BY <2>1 DEF CursorKeeps
    <2>3. r \in CurrentIn(memlog, stored)
        BY <2>1
    <2>4. Spared(memlog, rewind, sweep', r) \/ Coming(memlog, sweep', {}, r)
        <3>1. CASE r \in Waiting(rewind)
            BY <3>1 DEF Spared
        <3>2. CASE ~Before(SeatIn(memlog, r), cursor) /\ SeatIn(memlog, r)[1] \in Window
            <4>1. r \in Subjects
                BY <2>3, <3>2, FoldsOfState DEF Subjects
            <4> QED
                BY <1>6, <1>7, <4>1 DEF Coming
        <3>3. CASE ~Before(SeatIn(memlog, r), cursor) /\ SeatIn(memlog, r)[1] \notin Window
            <4> DEFINE j == SeatIn(memlog, r)[1]
            <4>1. SeatIn(memlog, r) \in Slots /\ j \in Seqs
                BY <1>1, <2>3, SeatsAreSlots DEF Seqs
            <4>2. memlog[j].type \in {"memory", "session_captured"}
                BY <1>1, <2>3, SeatFacts DEF Of
            <4>3. j >= cursor[1]
                BY <1>1, <3>3, <4>1 DEF Before, Slots, DurableOK, SlotIn
            <4>4. ASSUME NEW t \in todo PROVE Before(t[1], SeatIn(memlog, r))
                <5>1. t[1][1] \in Window
                    BY <1>4, <1>5
                <5>2. t[1][1] < j
                    BY <1>1, <3>3, <4>1, <4>2, <4>3, <5>1, WindowIsFront
                <5> QED
                    BY <5>2 DEF Before
            <4> QED
                BY <1>7, <4>4 DEF Spared, LaterThan
        <3> QED
            BY <2>2, <3>1, <3>2, <3>3
    <2> QED
        BY <1>7, <2>1, <2>4 DEF CycleKeeps, Listing, Judging, Reading
<1> QED
    BY <1>1, <1>2, <1>7, <1>8, <1>9, <1>10 DEF SkipInv, Reading, Judging

LEMMA RebuildStep ==
  ASSUME SkipInv, Rebuild
  PROVE  SkipInv'
<1>1. /\ SoundLog(memlog) /\ CycleShape(sweep) /\ sweep.pc = "rebuild"
      /\ UNCHANGED <<memlog, stored, cursor, errors, rewind, excused>>
    BY DEF SkipInv, Rebuild, durable
<1>2. /\ sweep'.pc = "opens" /\ sweep'.index = CurrentIn(memlog, stored)
      /\ sweep'.todo = sweep.todo /\ sweep'.settled = sweep.settled /\ sweep'.pairs = sweep.pairs
      /\ sweep'.blocked = sweep.blocked
    BY <1>1, FoldsOfState DEF Rebuild, CycleShape
<1>3. CycleShape(sweep')
    <2>1. sweep' = [pc |-> "opens", todo |-> sweep.todo, index |-> Current, settled |-> sweep.settled,
                    open |-> sweep.open, vectors |-> sweep.vectors, budget |-> sweep.budget,
                    pairs |-> sweep.pairs, blocked |-> sweep.blocked, propose |-> sweep.propose]
        BY <1>1 DEF Rebuild, CycleShape
    <2> QED
        BY <1>1, <1>2, <2>1 DEF CycleShape, SweepPlaces, Judging
<1>4. ASSUME NEW pair \in UnsettledIn(memlog, stored, errors, excused)
      PROVE  CycleKeeps(memlog, rewind, sweep', pair)
    <2>1. pair \subseteq CurrentIn(memlog, stored) /\ CycleKeeps(memlog, rewind, sweep, pair)
        BY <1>4, UnsettledFacts DEF SkipInv
    <2>2. PICK r \in pair : Spared(memlog, rewind, sweep, r) \/ Coming(memlog, sweep, {}, r)
        BY <1>1, <2>1 DEF CycleKeeps, Listing, SweepPlaces
    <2>3. Spared(memlog, rewind, sweep', r) \/ Coming(memlog, sweep', {}, r)
        BY <1>2, <2>2 DEF Spared, Coming
    <2> QED
        BY <1>2, <2>1, <2>3 DEF CycleKeeps, Listing, Judging, Reading
<1> QED
    BY <1>1, <1>2, <1>3, <1>4 DEF SkipInv, Reading, Judging

LEMMA EndCycleStep ==
  ASSUME SkipInv, EndCycle
  PROVE  SkipInv'
BY RestStep DEF EndCycle, durable

LEMMA ReadOpensStep ==
  ASSUME SkipInv, ReadOpens
  PROVE  SkipInv'
<1>1. /\ SoundLog(memlog) /\ CycleShape(sweep) /\ sweep.pc = "opens"
      /\ UNCHANGED <<memlog, stored, cursor, errors, rewind, excused>>
    BY DEF SkipInv, ReadOpens, durable
<1> DEFINE settled == OpenPairs(memlog, stored) \cup Excluded(memlog)
<1> DEFINE vectors == {r \in MemoryRefs : r.kind = "note" \/
                          \E c \in HeadOf(memlog, r.of) : r.passage < RowsOf(memlog, stored)[c]}
<1>2. sweep' = [pc |-> "subject", todo |-> sweep.todo, index |-> sweep.index, settled |-> settled,
                open |-> Cardinality(OpenProposals(memlog, Rows)), vectors |-> vectors,
                budget |-> JudgeBudget, pairs |-> sweep.pairs, blocked |-> sweep.blocked,
                propose |-> sweep.propose]
    BY <1>1, FoldsOfState DEF ReadOpens, CycleShape, OpenPairs
<1> HIDE DEF settled, vectors
<1>3. /\ sweep'.pc = "subject" /\ sweep'.index = sweep.index /\ sweep'.todo = sweep.todo
      /\ sweep'.settled = settled /\ sweep'.pairs = sweep.pairs /\ sweep'.vectors = vectors
      /\ sweep'.blocked = sweep.blocked
    BY <1>2
<1>4. CycleShape(sweep')
    BY <1>1, <1>2, <1>3 DEF CycleShape, SweepPlaces, Judging
<1>5. ASSUME NEW t \in sweep.todo PROVE HasVector(memlog, sweep', t)
    <2>1. Listed(memlog, stored, t)
        BY DEF SkipInv
    <2>2. ASSUME NEW n \in Of(memlog, "memory"), t[2] = Note(n) PROVE t[2] \in vectors
        BY <2>2 DEF vectors, MemoryRefs, Note
    <2>3. ASSUME NEW s \in SessionIds, NEW k \in 0..(Passages - 1), t[2] = Passage(s, k),
                 t[1][1] \in stored, HeadOf(memlog, t[2].of) = {t[1][1]}
          PROVE  t[2] \in vectors
        <3>1. t[1][1] \in Of(memlog, "session_captured")
            <4>1. t[1][1] \in HeadOf(memlog, t[2].of)
                BY <2>3
            <4> QED
                BY <1>1, <4>1, HeadIsCapture
        <3>2. RowsOf(memlog, stored)[t[1][1]] = Passages
            BY <2>3, <3>1 DEF RowsOf
        <3>3. t[2].passage = k /\ k < Passages
            BY <2>3, ConflictSweepAssumption DEF Passage
        <3>4. t[2] \in MemoryRefs
            BY <2>3 DEF MemoryRefs
        <3> QED
            BY <2>3, <3>2, <3>3, <3>4 DEF vectors
    <2>4. t[2] \in vectors \/ (t[2].kind # "note" /\ HeadOf(memlog, t[2].of) # {t[1][1]})
        <3>1. CASE \E n \in Of(memlog, "memory") : t[2] = Note(n)
            BY <2>2, <3>1
        <3>2. ASSUME NEW s \in SessionIds, NEW k \in 0..(Passages - 1),
                     t[2] = Passage(s, k), t[1][1] \in stored
              PROVE  t[2] \in vectors \/ (t[2].kind # "note" /\ HeadOf(memlog, t[2].of) # {t[1][1]})
            <4>1. t[2].kind # "note"
                BY <3>2 DEF Passage
            <4> QED
                BY <2>3, <3>2, <4>1
        <3> QED
            BY <2>1, <3>1, <3>2 DEF Listed
    <2> QED
        BY <1>3, <2>4 DEF HasVector
<1>6. ASSUME NEW pair \in UnsettledIn(memlog, stored, errors, excused)
      PROVE  CycleKeeps(memlog, rewind, sweep', pair)
    <2>1. pair \notin settled /\ CycleKeeps(memlog, rewind, sweep, pair)
        BY <1>6, UnsettledFacts DEF SkipInv, settled
    <2>2. PICK r \in pair : Spared(memlog, rewind, sweep, r) \/ Coming(memlog, sweep, {}, r)
        BY <1>1, <2>1 DEF CycleKeeps, Listing, SweepPlaces
    <2>3. Spared(memlog, rewind, sweep', r) \/ Coming(memlog, sweep', {}, r)
        BY <1>3, <2>2 DEF Spared, Coming
    <2>4. ~(pair \subseteq sweep.index) => \E q \in pair : Spared(memlog, rewind, sweep', q)
        BY <1>1, <1>3, <2>1 DEF CycleKeeps, Spared
    <2> QED
        BY <1>3, <2>1, <2>3, <2>4 DEF CycleKeeps, Listing, Judging, Reading
<1> QED
    BY <1>1, <1>3, <1>4, <1>5, <1>6 DEF SkipInv

\* The cursor passes the first subject, whose pairs are decided.
LEMMA AdvanceStep ==
  ASSUME SkipInv, sweep.pc \in Reading, sweep.todo # {},
         sweep' = Skip(First), cursor' = Past(First),
         UNCHANGED <<memlog, stored, errors, rewind, excused>>,
         \A pair \in UnsettledIn(memlog, stored, errors, excused) :
             \E r \in pair : Spared(memlog, rewind, sweep, r) \/ Coming(memlog, sweep, {First}, r)
  PROVE  SkipInv'
<1>1. /\ SoundLog(memlog) /\ CycleShape(sweep) /\ DurableOK(memlog, stored, cursor, errors)
      /\ \A t \in sweep.todo : SlotIn(memlog, t[1]) /\ t[1] \in Slots
    BY DEF SkipInv, Listed, SlotIn
<1>2. First = FirstOf(sweep.todo)
    BY DEF First, FirstOf
<1>3. First \in sweep.todo /\ \A u \in sweep.todo : u = First \/ Before(First[1], u[1])
    BY <1>1, <1>2, FirstIs
<1>4. sweep' = [pc |-> "subject", todo |-> sweep.todo \ {First}, index |-> sweep.index,
                settled |-> sweep.settled, open |-> sweep.open, vectors |-> sweep.vectors,
                budget |-> sweep.budget, pairs |-> sweep.pairs, blocked |-> sweep.blocked,
                propose |-> sweep.propose]
    BY <1>1 DEF Skip, CycleShape
<1>5. /\ sweep'.pc = "subject" /\ sweep'.todo = sweep.todo \ {First} /\ sweep'.index = sweep.index
      /\ sweep'.settled = sweep.settled /\ sweep'.pairs = sweep.pairs
      /\ sweep'.vectors = sweep.vectors /\ sweep'.blocked = sweep.blocked
    BY <1>4
<1>6. CycleShape(sweep')
    <2>1. \A t, u \in sweep'.todo : t = u \/ Before(t[1], u[1]) \/ Before(u[1], t[1])
        BY <1>1, <1>5 DEF CycleShape
    <2>2. /\ \A pair \in sweep'.pairs : \E a, b : a # b /\ pair = {a, b}
          /\ sweep'.blocked \in BOOLEAN
        BY <1>1, <1>5 DEF CycleShape
    <2>3. sweep' = [pc |-> sweep'.pc, todo |-> sweep'.todo, index |-> sweep'.index,
                    settled |-> sweep'.settled, open |-> sweep'.open, vectors |-> sweep'.vectors,
                    budget |-> sweep'.budget, pairs |-> sweep'.pairs, blocked |-> sweep'.blocked,
                    propose |-> sweep'.propose]
        BY <1>4
    <2> QED
        BY <1>5, <2>1, <2>2, <2>3 DEF CycleShape, SweepPlaces, Judging
<1>7. SlotIn(memlog, cursor')
    BY <1>1, <1>3 DEF Past, SlotIn, Slots
<1>8. ASSUME NEW pair \in UnsettledIn(memlog, stored, errors, excused)
      PROVE  /\ CursorKeeps(memlog, cursor', rewind, pair)
             /\ CycleKeeps(memlog, rewind, sweep', pair)
    <2>1. CycleKeeps(memlog, rewind, sweep, pair) /\ pair \subseteq CurrentIn(memlog, stored)
        BY <1>8, UnsettledFacts DEF SkipInv
    <2>2. PICK r \in pair : Spared(memlog, rewind, sweep, r) \/ Coming(memlog, sweep, {First}, r)
        BY <1>8
    <2>3. \A q \in pair : Spared(memlog, rewind, sweep, q) => Spared(memlog, rewind, sweep', q)
        BY <1>5 DEF Spared, LaterThan
    <2>4. Spared(memlog, rewind, sweep', r) \/ Coming(memlog, sweep', {}, r)
        BY <1>5, <2>2, <2>3 DEF Coming
    <2>5. CycleKeeps(memlog, rewind, sweep', pair)
        <3>1. ~(pair \subseteq sweep.index) => \E q \in pair : Spared(memlog, rewind, sweep', q)
            BY <2>1, <2>3 DEF CycleKeeps
        <3>2. pair \in sweep.settled => \E q \in pair : Spared(memlog, rewind, sweep', q)
            BY <2>1, <2>3 DEF CycleKeeps
        <3> QED
            BY <1>5, <2>4, <3>1, <3>2 DEF CycleKeeps, Judging
    <2>6. r \in Waiting(rewind) \/ Before(First[1], SeatIn(memlog, r))
        <3>1. CASE Coming(memlog, sweep, {First}, r)
            <4>1. <<SeatIn(memlog, r), r>> \in sweep.todo /\ <<SeatIn(memlog, r), r>> # First
                BY <3>1 DEF Coming
            <4>2. Before(First[1], <<SeatIn(memlog, r), r>>[1])
                BY <1>3, <4>1
            <4> QED
                BY <4>2
        <3>2. CASE Spared(memlog, rewind, sweep, r)
            BY <1>3, <3>2 DEF Spared, LaterThan
        <3> QED
            BY <2>2, <3>1, <3>2
    <2>7. CursorKeeps(memlog, cursor', rewind, pair)
        <3>1. SeatIn(memlog, r) \in Slots /\ First[1] \in Slots
            BY <1>1, <1>3, <2>1, SeatsAreSlots
        <3>2. Before(First[1], SeatIn(memlog, r)) => ~Before(SeatIn(memlog, r), cursor')
            BY <3>1, SlotOrder DEF Past
        <3> QED
            BY <2>6, <3>2 DEF CursorKeeps
    <2> QED
        BY <2>5, <2>7
<1>9. ASSUME NEW t \in sweep'.todo
      PROVE  Listed(memlog, stored, t) /\ HasVector(memlog, sweep', t)
    <2>1. t \in sweep.todo
        BY <1>5
    <2> QED
        BY <1>5, <2>1 DEF SkipInv, HasVector
<1>10. DurableOK(memlog, stored, cursor', errors)
    BY <1>1, <1>7 DEF DurableOK
<1> QED
    BY <1>1, <1>6, <1>8, <1>9, <1>10 DEF SkipInv

LEMMA NextSubjectStep ==
  ASSUME SkipInv, NextSubject
  PROVE  SkipInv'
<1> DEFINE subject == First[2]
<1>1. /\ SoundLog(memlog) /\ CycleShape(sweep) /\ DurableOK(memlog, stored, cursor, errors)
      /\ \A t \in sweep.todo : t[1] \in Slots
      /\ sweep.pc = "subject" /\ sweep.todo # {}
      /\ UNCHANGED <<memlog, stored, errors, rewind>>
    BY DEF SkipInv, Listed, SlotIn, NextSubject
<1>2. First \in sweep.todo /\ First = FirstOf(sweep.todo)
    BY <1>1, FirstIs DEF First, FirstOf
<1>3. sweep.pc \in Reading /\ sweep.pc \in Listing
    BY <1>1 DEF Reading, Listing, Judging, SweepPlaces
<1>4. ASSUME NEW pair \in UnsettledIn(memlog, stored, errors, excused)
      PROVE  /\ CursorKeeps(memlog, cursor, rewind, pair)
             /\ \E r \in pair : Spared(memlog, rewind, sweep, r) \/ Coming(memlog, sweep, {}, r)
             /\ ~(pair \subseteq sweep.index) => \E r \in pair : Spared(memlog, rewind, sweep, r)
             /\ pair \in sweep.settled => \E r \in pair : Spared(memlog, rewind, sweep, r)
    BY <1>3, <1>4 DEF SkipInv, CycleKeeps
<1>5. CASE subject \notin sweep.vectors
    <2>1. ASSUME NEW pair \in UnsettledIn(memlog, stored, errors, excused)
          PROVE  \E r \in pair : Spared(memlog, rewind, sweep, r) \/ Coming(memlog, sweep, {First}, r)
        <3>1. PICK r \in pair : Spared(memlog, rewind, sweep, r) \/ Coming(memlog, sweep, {}, r)
            BY <1>4, <2>1
        <3>2. r \in CurrentIn(memlog, stored)
            BY <2>1, UnsettledFacts
        <3>3. ASSUME <<SeatIn(memlog, r), r>> = First PROVE FALSE
            <4>1. HasVector(memlog, sweep, First) /\ First[1] = SeatIn(memlog, r) /\ First[2] = r
                BY <1>2, <1>3, <3>3 DEF SkipInv
            <4>2. r.kind # "note" /\ HeadOf(memlog, r.of) # {SeatIn(memlog, r)[1]}
                BY <1>5, <4>1 DEF HasVector
            <4>3. PICK c \in stored : HeadOf(memlog, r.of) = {c} /\ SeatIn(memlog, r) = <<c, r.passage>>
                BY <1>1, <3>2, <4>2, PassageSeat
            <4> QED
                BY <4>2, <4>3
        <3> QED
            BY <3>1, <3>3 DEF Coming
    <2> QED
        BY <1>1, <1>3, <1>5, <2>1, AdvanceStep DEF NextSubject
<1>6. ASSUME NEW near \in Neighbours(subject),
             sweep' = IF Cardinality(Candidates(subject, near)) > sweep.budget THEN Rest
                      ELSE [sweep EXCEPT !.pc = "pair", !.pairs = Candidates(subject, near),
                                         !.blocked = FALSE],
             excused' = excused \cup {{subject, r} : r \in sweep.index \ (near \cup {subject})},
             UNCHANGED cursor
      PROVE  SkipInv'
    <2>1. CASE sweep' = Rest
        BY <1>1, <1>6, <2>1, RestStep
    <2>2. CASE sweep' = [sweep EXCEPT !.pc = "pair", !.pairs = Candidates(subject, near),
                                      !.blocked = FALSE]
        <3>1. sweep' = [pc |-> "pair", todo |-> sweep.todo, index |-> sweep.index,
                        settled |-> sweep.settled, open |-> sweep.open, vectors |-> sweep.vectors,
                        budget |-> sweep.budget, pairs |-> Candidates(subject, near),
                        blocked |-> FALSE, propose |-> sweep.propose]
            BY <1>1, <2>2 DEF CycleShape
        <3>2. /\ sweep'.pc = "pair" /\ sweep'.todo = sweep.todo /\ sweep'.index = sweep.index
              /\ sweep'.settled = sweep.settled /\ sweep'.pairs = Candidates(subject, near)
              /\ sweep'.vectors = sweep.vectors /\ sweep'.blocked = FALSE
            BY <3>1
        <3>3. near \subseteq sweep.index \ {subject}
            BY <1>6 DEF Neighbours
        <3>4. \A pair \in Candidates(subject, near) : \E a, b : a # b /\ pair = {a, b}
            BY <3>3 DEF Candidates
        <3>5. CycleShape(sweep')
            BY <1>1, <3>1, <3>2, <3>4 DEF CycleShape, SweepPlaces, Judging
        <3>6. \A r : /\ Spared(memlog, rewind, sweep, r) => Spared(memlog, rewind, sweep', r)
                     /\ \A done : Coming(memlog, sweep, done, r) => Coming(memlog, sweep', done, r)
            BY <3>2 DEF Spared, Coming
        <3>7. ASSUME NEW pair \in UnsettledIn(memlog, stored, errors, excused')
              PROVE  /\ CursorKeeps(memlog, cursor, rewind, pair)
                     /\ CycleKeeps(memlog, rewind, sweep', pair)
            <4>1. pair \in UnsettledIn(memlog, stored, errors, excused) /\ pair \notin excused'
                BY <1>6, <3>7, FewerUnsettled
            <4>2. CASE \E r \in pair : Spared(memlog, rewind, sweep, r)
                BY <1>4, <3>6, <4>1, <4>2, SparedKeeps
            <4>3. CASE ~ \E r \in pair : Spared(memlog, rewind, sweep, r)
                <5>1. PICK r \in pair : Coming(memlog, sweep, {}, r)
                    BY <1>4, <4>1, <4>3
                <5>2. pair \subseteq sweep.index /\ pair \notin sweep.settled
                    BY <1>4, <4>1, <4>3
                <5>3. \/ pair \in Candidates(subject, near)
                      \/ Coming(memlog, sweep, {First}, r)
                    <6>1. CASE <<SeatIn(memlog, r), r>> = First
                        <7>1. r = subject
                            BY <6>1
                        <7>2. PICK a, b \in CurrentIn(memlog, stored) : a # b /\ pair = {a, b}
                            BY <4>1, UnsettledFacts
                        <7>3. PICK x \in pair : x # r /\ pair = {r, x}
                            BY <7>2
                        <7>4. x \in near
                            BY <1>6, <4>1, <5>2, <7>1, <7>3
                        <7> QED
                            BY <5>2, <7>1, <7>3, <7>4 DEF Candidates
                    <6>2. CASE <<SeatIn(memlog, r), r>> # First
                        BY <5>1, <6>2 DEF Coming
                    <6> QED
                        BY <6>1, <6>2
                <5>4. \/ pair \in sweep'.pairs
                      \/ \E q \in pair : Coming(memlog, sweep', {FirstOf(sweep'.todo)}, q)
                    BY <1>2, <3>2, <3>6, <5>3
                <5> QED
                    BY <1>4, <3>2, <4>1, <5>2, <5>4 DEF CycleKeeps, Listing, Judging, Reading
            <4> QED
                BY <4>2, <4>3
        <3>8. ASSUME NEW t \in sweep'.todo
              PROVE  Listed(memlog, stored, t) /\ HasVector(memlog, sweep', t)
            BY <1>3, <3>2 DEF SkipInv, HasVector
        <3> QED
            BY <1>1, <1>6, <3>5, <3>7, <3>8 DEF SkipInv
    <2> QED
        BY <1>6, <2>1, <2>2
<1> QED
    BY <1>5, <1>6 DEF NextSubject

\* The cycle's record, field by field
Cycle(pc, todo, index, settled, open, vectors, budget, pairs, blocked, propose) ==
    [pc |-> pc, todo |-> todo, index |-> index, settled |-> settled, open |-> open,
     vectors |-> vectors, budget |-> budget, pairs |-> pairs, blocked |-> blocked,
     propose |-> propose]

\* What the cycle does with a pair: it is off the list, and settled unless it holds the cycle up.
LEMMA JudgeStep ==
  ASSUME SkipInv, NEW pair \in NextPair,
         NEW pc \in Judging, NEW budget, NEW blocked \in BOOLEAN, NEW propose,
         sweep' = Cycle(pc, sweep.todo, sweep.index, sweep.settled, sweep.open,
                        sweep.vectors, budget, sweep.pairs \ {pair}, blocked, propose),
         sweep.blocked => blocked,
         UNCHANGED <<memlog, stored, cursor, rewind>>, excused \subseteq excused',
         \/ UNCHANGED errors
         \/ \E n \in Nat : SetErrors(pair, n) /\ Errors(pair) < ErrorBudget,
         \/ pair \notin UnsettledIn(memlog, stored, errors', excused')
         \/ blocked
         \/ pc = "append" /\ pair = {propose[1], propose[2]}
  PROVE  SkipInv'
<1>1. /\ SoundLog(memlog) /\ CycleShape(sweep) /\ DurableOK(memlog, stored, cursor, errors)
      /\ sweep.pc = "pair" /\ pair \in sweep.pairs
    BY DEF SkipInv, NextPair
<1>2. /\ sweep'.pc = pc /\ sweep'.todo = sweep.todo /\ sweep'.index = sweep.index
      /\ sweep'.settled = sweep.settled /\ sweep'.pairs = sweep.pairs \ {pair}
      /\ sweep'.vectors = sweep.vectors /\ sweep'.blocked = blocked /\ sweep'.propose = propose
    BY DEF Cycle
<1>3. sweep.pc \in Judging /\ sweep.pc \in Reading
    BY <1>1 DEF Judging, Reading
<1>4. CycleShape(sweep')
    <2>1. \A t, u \in sweep'.todo : t = u \/ Before(t[1], u[1]) \/ Before(u[1], t[1])
        BY <1>1, <1>2 DEF CycleShape
    <2>2. \A q \in sweep'.pairs : \E a, b : a # b /\ q = {a, b}
        BY <1>1, <1>2 DEF CycleShape
    <2>3. sweep'.todo # {}
        BY <1>1, <1>2, <1>3 DEF CycleShape
    <2>4. sweep' = [pc |-> sweep'.pc, todo |-> sweep'.todo, index |-> sweep'.index,
                    settled |-> sweep'.settled, open |-> sweep'.open, vectors |-> sweep'.vectors,
                    budget |-> sweep'.budget, pairs |-> sweep'.pairs, blocked |-> sweep'.blocked,
                    propose |-> sweep'.propose]
        BY DEF Cycle
    <2>5. pc # "rest" /\ pc \in SweepPlaces
        BY DEF Judging, SweepPlaces
    <2> QED
        BY <1>2, <2>1, <2>2, <2>3, <2>4, <2>5 DEF CycleShape
<1>5. /\ \A q \in DOMAIN errors' : errors'[q] \in Nat
      /\ \A q : q # pair => ErrorsIn(errors', q) = ErrorsIn(errors, q)
      /\ ErrorsIn(errors', pair) < ErrorBudget => ErrorsIn(errors, pair) < ErrorBudget
    <2>1. CASE UNCHANGED errors
        BY <1>1, <2>1 DEF DurableOK
    <2>2. ASSUME NEW n \in Nat, SetErrors(pair, n), Errors(pair) < ErrorBudget
          PROVE  /\ \A q \in DOMAIN errors' : errors'[q] \in Nat
                 /\ \A q : q # pair => ErrorsIn(errors', q) = ErrorsIn(errors, q)
                 /\ ErrorsIn(errors', pair) < ErrorBudget => ErrorsIn(errors, pair) < ErrorBudget
        BY <1>1, <2>2, FoldsOfState DEF SetErrors, DurableOK, ErrorsIn
    <2> QED
        BY <2>1, <2>2
<1>6. DurableOK(memlog, stored, cursor, errors')
    BY <1>1, <1>5 DEF DurableOK
<1>7. ASSUME NEW q \in UnsettledIn(memlog, stored, errors', excused')
      PROVE  CursorKeeps(memlog, cursor, rewind, q) /\ CycleKeeps(memlog, rewind, sweep', q)
    <2>1. ErrorsIn(errors, q) < ErrorBudget
        BY <1>5, <1>7, UnsettledFacts
    <2>2. q \in UnsettledIn(memlog, stored, errors, excused)
        BY <1>7, <2>1, UnsettledFacts
    <2>3. CursorKeeps(memlog, cursor, rewind, q) /\ CycleKeeps(memlog, rewind, sweep, q)
        BY <2>2 DEF SkipInv
    <2>4. \A r : /\ Spared(memlog, rewind, sweep, r) => Spared(memlog, rewind, sweep', r)
                 /\ \A done : Coming(memlog, sweep, done, r) => Coming(memlog, sweep', done, r)
        BY <1>2 DEF Spared, Coming
    <2>5. \/ sweep.blocked \/ q \in sweep.pairs
          \/ \E r \in q : Spared(memlog, rewind, sweep, r)
                          \/ Coming(memlog, sweep, {FirstOf(sweep.todo)}, r)
        BY <1>1, <1>3, <2>3 DEF CycleKeeps
    <2>6. \/ sweep'.blocked \/ q \in sweep'.pairs
          \/ sweep'.pc = "append" /\ q = {sweep'.propose[1], sweep'.propose[2]}
          \/ \E r \in q : Spared(memlog, rewind, sweep', r)
                          \/ Coming(memlog, sweep', {FirstOf(sweep'.todo)}, r)
        <3>1. CASE q = pair
            BY <1>2, <1>7, <3>1
        <3>2. CASE q # pair
            BY <1>2, <2>4, <2>5, <3>2
        <3> QED
            BY <3>1, <3>2
    <2>7. ~(q \subseteq sweep'.index) => \E r \in q : Spared(memlog, rewind, sweep', r)
        BY <1>2, <1>3, <2>3, <2>4 DEF CycleKeeps
    <2>8. q \in sweep'.settled => \E r \in q : Spared(memlog, rewind, sweep', r)
        BY <1>2, <1>3, <2>3, <2>4 DEF CycleKeeps
    <2>9. sweep'.pc \notin Listing
        BY <1>2 DEF Listing, Judging
    <2> QED
        BY <2>3, <2>6, <2>7, <2>8, <2>9 DEF CycleKeeps
<1>8. ASSUME NEW t \in sweep'.todo
      PROVE  Listed(memlog, stored, t) /\ HasVector(memlog, sweep', t)
    BY <1>2, <1>3 DEF SkipInv, HasVector
<1> QED
    BY <1>4, <1>6, <1>7, <1>8 DEF SkipInv

LEMMA JudgedShape ==
  ASSUME CycleShape(sweep), NEW pair
  PROVE  /\ [sweep EXCEPT !.pairs = @ \ {pair}] =
              Cycle(sweep.pc, sweep.todo, sweep.index, sweep.settled, sweep.open, sweep.vectors,
                    sweep.budget, sweep.pairs \ {pair}, sweep.blocked, sweep.propose)
         /\ Judged(pair) =
              Cycle(sweep.pc, sweep.todo, sweep.index, sweep.settled, sweep.open, sweep.vectors,
                    sweep.budget - 1, sweep.pairs \ {pair}, sweep.blocked, sweep.propose)
<1>1. sweep = Cycle(sweep.pc, sweep.todo, sweep.index, sweep.settled, sweep.open, sweep.vectors,
                    sweep.budget, sweep.pairs, sweep.blocked, sweep.propose)
    BY DEF CycleShape, Cycle
<1> DEFINE rest == sweep.pairs \ {pair}
<1> DEFINE less == sweep.budget - 1
<1> DEFINE passed == [sweep EXCEPT !.pairs = rest]
<1>2. passed = [sweep EXCEPT !.pairs = @ \ {pair}]
    OBVIOUS
<1>3. Judged(pair) = [passed EXCEPT !.budget = less]
    BY DEF Judged
<1> HIDE DEF rest, less
<1>4. passed = Cycle(sweep.pc, sweep.todo, sweep.index, sweep.settled, sweep.open, sweep.vectors,
                     sweep.budget, rest, sweep.blocked, sweep.propose)
    BY <1>1 DEF Cycle
<1> HIDE DEF passed
<1>5. [passed EXCEPT !.budget = less] =
          Cycle(sweep.pc, sweep.todo, sweep.index, sweep.settled, sweep.open, sweep.vectors,
                less, rest, sweep.blocked, sweep.propose)
    BY <1>4 DEF Cycle
<1> QED
    BY <1>2, <1>3, <1>4, <1>5 DEF rest, less

LEMMA InPair ==
  ASSUME SkipInv, NEW pair \in NextPair
  PROVE  /\ CycleShape(sweep) /\ SoundLog(memlog) /\ sweep.pc = "pair" /\ sweep.pc \in Judging
         /\ sweep.blocked \in BOOLEAN /\ \E a, b : a # b /\ pair = {a, b}
         /\ \A q \in DOMAIN errors : errors[q] \in Nat
         /\ Errors(pair) \in Nat
<1>1. CycleShape(sweep) /\ SoundLog(memlog) /\ sweep.pc = "pair" /\ pair \in sweep.pairs
      /\ \A q \in DOMAIN errors : errors[q] \in Nat
    BY DEF SkipInv, NextPair, DurableOK
<1> QED
    BY <1>1 DEF CycleShape, Judging, Errors

LEMMA PassOverStep ==
  ASSUME SkipInv, NEW pair \in NextPair, PassOver(pair)
  PROVE  SkipInv'
<1>1. CycleShape(sweep) /\ SoundLog(memlog) /\ sweep.pc \in Judging /\ sweep.blocked \in BOOLEAN
    BY InPair
<1>2. UNCHANGED <<memlog, stored, cursor, rewind, errors, excused>>
    BY DEF PassOver, durable
<1>3. pair \notin UnsettledIn(memlog, stored, errors', excused')
    <2> SUFFICES ASSUME pair \in UnsettledIn(memlog, stored, errors, excused) PROVE FALSE
        BY <1>2
    <2>1. Errors(pair) < ErrorBudget /\ pair \subseteq CurrentIn(memlog, stored)
        BY FoldsOfState, UnsettledFacts
    <2>2. Errors(pair) \in Nat /\ ErrorBudget \in Nat
        BY InPair, ConflictSweepAssumption
    <2>3. PICK r \in pair : ~HasText(r)
        BY <2>1, <2>2 DEF PassOver
    <2>4. r \in CurrentIn(memlog, stored) /\ r.kind # "note"
        BY <2>1, <2>3 DEF HasText
    <2>5. PICK c \in stored : HeadOf(memlog, r.of) = {c}
        BY <1>1, <2>4, PassageSeat
    <2>6. r.passage \in 0..(Passages - 1) /\ Passages \in Nat
        BY <1>1, <2>4, SeatFacts, ConflictSweepAssumption
    <2> QED
        BY <2>3, <2>5, <2>6 DEF HasText
<1>4. sweep' = Cycle(sweep.pc, sweep.todo, sweep.index, sweep.settled, sweep.open,
                     sweep.vectors, sweep.budget, sweep.pairs \ {pair}, sweep.blocked, sweep.propose)
    BY <1>1, JudgedShape DEF PassOver
<1> QED
    BY <1>1, <1>2, <1>3, <1>4, JudgeStep

\* A pair whose text could not be read is excused.
LEMMA TextUnreadStep ==
  ASSUME SkipInv, NEW pair \in NextPair, TextUnread(pair)
  PROVE  SkipInv'
<1>1. CycleShape(sweep) /\ sweep.pc \in Judging /\ sweep.blocked \in BOOLEAN
    BY InPair
<1>2. UNCHANGED <<memlog, stored, cursor, rewind, errors>> /\ excused \subseteq excused'
    BY DEF TextUnread, durable
<1>3. pair \notin UnsettledIn(memlog, stored, errors', excused')
    BY UnsettledFacts DEF TextUnread
<1>4. sweep' = Cycle(sweep.pc, sweep.todo, sweep.index, sweep.settled, sweep.open,
                     sweep.vectors, sweep.budget, sweep.pairs \ {pair}, sweep.blocked, sweep.propose)
    BY <1>1, JudgedShape DEF TextUnread
<1> QED
    BY <1>1, <1>2, <1>3, <1>4, JudgeStep

LEMMA DeclineStep ==
  ASSUME SkipInv, NEW pair \in NextPair, Decline(pair)
  PROVE  SkipInv'
<1>1. CycleShape(sweep) /\ sweep.pc \in Judging /\ sweep.blocked \in BOOLEAN
    BY InPair
<1>2. pair \notin UnsettledIn(memlog, stored, errors', excused')
    BY UnsettledFacts DEF Decline
<1>3. sweep' = Cycle(sweep.pc, sweep.todo, sweep.index, sweep.settled, sweep.open,
                     sweep.vectors, sweep.budget - 1, sweep.pairs \ {pair}, sweep.blocked, sweep.propose)
    BY <1>1, JudgedShape DEF Decline
<1>4. \E n \in Nat : SetErrors(pair, n) /\ Errors(pair) < ErrorBudget
    BY DEF Decline, Judgeable
<1>5. UNCHANGED <<memlog, stored, cursor, rewind>> /\ excused \subseteq excused'
    BY DEF Decline
<1> QED
    BY <1>1, <1>2, <1>3, <1>4, <1>5, JudgeStep

\* A failure short of the budget holds the subject back; one that uses it up settles the pair.
LEMMA JudgeFailsStep ==
  ASSUME SkipInv, NEW pair \in NextPair, JudgeFails(pair)
  PROVE  SkipInv'
<1> DEFINE blocked == sweep.blocked \/ Errors(pair) + 1 < ErrorBudget
<1>1. CycleShape(sweep) /\ sweep.pc \in Judging /\ sweep.blocked \in BOOLEAN /\ Errors(pair) \in Nat
    BY InPair
<1>2. blocked \in BOOLEAN
    OBVIOUS
<1>3. Errors(pair) + 1 \in Nat /\ SetErrors(pair, Errors(pair) + 1) /\ Errors(pair) < ErrorBudget
    BY <1>1 DEF JudgeFails, Judgeable
<1>4. ErrorsIn(errors', pair) = Errors(pair) + 1
    BY <1>3 DEF SetErrors, ErrorsIn
<1>5. pair \notin UnsettledIn(memlog, stored, errors', excused') \/ blocked
    BY <1>4, UnsettledFacts
<1>6. sweep' = Cycle(sweep.pc, sweep.todo, sweep.index, sweep.settled, sweep.open, sweep.vectors,
                     sweep.budget - 1, sweep.pairs \ {pair}, blocked, sweep.propose)
    <2> DEFINE judged == Judged(pair)
    <2>1. judged = Cycle(sweep.pc, sweep.todo, sweep.index, sweep.settled, sweep.open,
                         sweep.vectors, sweep.budget - 1, sweep.pairs \ {pair}, sweep.blocked,
                         sweep.propose)
        BY <1>1, JudgedShape
    <2>2. sweep' = [judged EXCEPT !.blocked = judged.blocked \/ Errors(pair) + 1 < ErrorBudget]
        BY DEF JudgeFails
    <2> HIDE DEF judged
    <2>3. judged.blocked = sweep.blocked
        BY <2>1 DEF Cycle
    <2>4. sweep' = [judged EXCEPT !.blocked = blocked]
        BY <2>2, <2>3
    <2> HIDE DEF blocked
    <2>5. [judged EXCEPT !.blocked = blocked] =
              Cycle(sweep.pc, sweep.todo, sweep.index, sweep.settled, sweep.open, sweep.vectors,
                    sweep.budget - 1, sweep.pairs \ {pair}, blocked, sweep.propose)
        BY <2>1 DEF Cycle
    <2> QED
        BY <2>4, <2>5
<1> HIDE DEF blocked
<1>8. UNCHANGED <<memlog, stored, cursor, rewind>> /\ excused \subseteq excused'
    BY DEF JudgeFails
<1>9. sweep.blocked => blocked
    BY DEF blocked
<1> QED
    BY <1>1, <1>2, <1>3, <1>5, <1>6, <1>8, <1>9, JudgeStep

LEMMA ContradictsStep ==
  ASSUME SkipInv, NEW pair \in NextPair, Contradicts(pair)
  PROVE  SkipInv'
<1>1. CycleShape(sweep) /\ SoundLog(memlog) /\ sweep.pc \in Judging /\ sweep.blocked \in BOOLEAN
    BY InPair
<1>2. \E n \in Nat : SetErrors(pair, n) /\ Errors(pair) < ErrorBudget
    BY DEF Contradicts, Judgeable
<1>3. UNCHANGED <<memlog, stored, cursor, rewind>> /\ excused \subseteq excused'
    BY DEF Contradicts
<1>4. ASSUME sweep' = Judged(pair), pair \notin UnsettledIn(memlog, stored, errors', excused')
      PROVE  SkipInv'
    <2>1. sweep' = Cycle(sweep.pc, sweep.todo, sweep.index, sweep.settled, sweep.open,
                         sweep.vectors, sweep.budget - 1, sweep.pairs \ {pair}, sweep.blocked, sweep.propose)
        BY <1>1, <1>4, JudgedShape
    <2> QED
        BY <1>1, <1>2, <1>3, <1>4, <2>1, JudgeStep
<1>5. CASE sweep.open >= OpenCeiling
    BY <1>4, <1>5, UnsettledFacts DEF Contradicts
<1>6. CASE ~(sweep.open >= OpenCeiling)
    <2>1. PICK a \in pair, b \in pair :
              /\ Before(Seat(a), Seat(b))
              /\ sweep' = IF Suppressed(memlog, Rows, a, b) THEN Judged(pair)
                          ELSE [Judged(pair) EXCEPT !.pc = "append", !.propose = <<a, b>>]
        BY <1>6 DEF Contradicts
    <2>2. ASSUME pair \in UnsettledIn(memlog, stored, errors', excused') PROVE pair = {a, b}
        <3>1. pair \subseteq CurrentIn(memlog, stored)
            BY <2>2, UnsettledFacts
        <3>2. SeatIn(memlog, a) \in Slots /\ Before(SeatIn(memlog, a), SeatIn(memlog, b))
            BY <1>1, <2>1, <3>1, SeatsAreSlots, FoldsOfState
        <3>3. a # b
            BY <3>2 DEF Before, Slots
        <3> QED
            BY <3>3, InPair
    <2>3. CASE Suppressed(memlog, Rows, a, b)
        <3>1. {a, b} \in OpenPairs(memlog, stored)
            BY <2>3, FoldsOfState DEF Suppressed, OpenPairs
        <3>2. pair \notin UnsettledIn(memlog, stored, errors', excused')
            <4> SUFFICES ASSUME pair \in UnsettledIn(memlog, stored, errors', excused') PROVE FALSE
                OBVIOUS
            <4>1. pair \notin OpenPairs(memlog, stored)
                BY UnsettledFacts
            <4> QED
                BY <2>2, <3>1, <4>1
        <3> QED
            BY <1>4, <2>1, <2>3, <3>2
    <2>4. CASE ~Suppressed(memlog, Rows, a, b)
        <3>1. sweep' = Cycle("append", sweep.todo, sweep.index, sweep.settled, sweep.open,
                             sweep.vectors, sweep.budget - 1, sweep.pairs \ {pair}, sweep.blocked, <<a, b>>)
            <4>1. sweep' = [Judged(pair) EXCEPT !.pc = "append", !.propose = <<a, b>>]
                BY <2>1, <2>4
            <4> DEFINE judged == Judged(pair)
            <4>2. judged = Cycle(sweep.pc, sweep.todo, sweep.index, sweep.settled, sweep.open,
                                 sweep.vectors, sweep.budget - 1, sweep.pairs \ {pair},
                                 sweep.blocked, sweep.propose)
                BY <1>1, JudgedShape
            <4>3. sweep' = [judged EXCEPT !.pc = "append", !.propose = <<a, b>>]
                BY <4>1
            <4> DEFINE moved == [judged EXCEPT !.pc = "append"]
            <4>4. sweep' = [moved EXCEPT !.propose = <<a, b>>]
                BY <4>3
            <4> HIDE DEF judged
            <4>5. moved = Cycle("append", sweep.todo, sweep.index, sweep.settled, sweep.open,
                                sweep.vectors, sweep.budget - 1, sweep.pairs \ {pair},
                                sweep.blocked, sweep.propose)
                BY <4>2 DEF Cycle
            <4> HIDE DEF moved
            <4>6. [moved EXCEPT !.propose = <<a, b>>] =
                      Cycle("append", sweep.todo, sweep.index, sweep.settled, sweep.open,
                            sweep.vectors, sweep.budget - 1, sweep.pairs \ {pair},
                            sweep.blocked, <<a, b>>)
                BY <4>5 DEF Cycle
            <4> QED
                BY <4>4, <4>6
        <3>2. \/ pair \notin UnsettledIn(memlog, stored, errors', excused')
              \/ "append" = "append" /\ pair = {<<a, b>>[1], <<a, b>>[2]}
            BY <2>2
        <3>3. "append" \in Judging
            BY DEF Judging
        <3> QED
            BY <1>1, <1>2, <1>3, <3>1, <3>2, <3>3, JudgeStep
    <2> QED
        BY <2>3, <2>4
<1> QED
    BY <1>5, <1>6

\* A proposal that is in the log is open, or one of its memories is current no more.
LEMMA ProposeStep ==
  ASSUME SkipInv, ProposeConflict
  PROVE  SkipInv'
<1> DEFINE a == sweep.propose[1]
<1> DEFINE b == sweep.propose[2]
<1>1. /\ SoundLog(memlog) /\ CycleShape(sweep) /\ DurableOK(memlog, stored, cursor, errors)
      /\ sweep.pc = "append" /\ UNCHANGED <<stored, cursor, errors, rewind, excused>>
      /\ memlog' = Append(memlog, Proposal(a, b))
    BY DEF SkipInv, ProposeConflict
<1> DEFINE settled == sweep.settled \cup {{a, b}}
<1>2. sweep' = Cycle("pair", sweep.todo, sweep.index, settled, sweep.open + 1,
                     sweep.vectors, sweep.budget, sweep.pairs, sweep.blocked, <<>>)
    BY <1>1 DEF ProposeConflict, CycleShape, Cycle
<1> HIDE DEF a, b
<1>3. /\ sweep'.pc = "pair" /\ sweep'.todo = sweep.todo /\ sweep'.index = sweep.index
      /\ sweep'.settled = settled /\ sweep'.pairs = sweep.pairs
      /\ sweep'.vectors = sweep.vectors /\ sweep'.blocked = sweep.blocked
    BY <1>2 DEF Cycle
<1>4. sweep.pc \in Judging /\ sweep.pc \in Reading
    BY <1>1 DEF Judging, Reading
<1>5. CycleShape(sweep')
    <2>1. \A t, u \in sweep'.todo : t = u \/ Before(t[1], u[1]) \/ Before(u[1], t[1])
        BY <1>1, <1>3 DEF CycleShape
    <2>2. \A q \in sweep'.pairs : \E x, y : x # y /\ q = {x, y}
        BY <1>1, <1>3 DEF CycleShape
    <2>3. sweep'.todo # {} /\ sweep'.blocked \in BOOLEAN
        BY <1>1, <1>3, <1>4 DEF CycleShape
    <2>4. sweep' = [pc |-> sweep'.pc, todo |-> sweep'.todo, index |-> sweep'.index,
                    settled |-> sweep'.settled, open |-> sweep'.open, vectors |-> sweep'.vectors,
                    budget |-> sweep'.budget, pairs |-> sweep'.pairs, blocked |-> sweep'.blocked,
                    propose |-> sweep'.propose]
        BY <1>2 DEF Cycle
    <2>5. sweep'.pc # "rest" /\ sweep'.pc \in SweepPlaces
        BY <1>3 DEF SweepPlaces
    <2> QED
        BY <2>1, <2>2, <2>3, <2>4, <2>5 DEF CycleShape
<1>6. OneMore(memlog, memlog', Proposal(a, b))
    BY <1>1, AppendIsOneMore DEF SoundLog
<1>7. /\ Proposal(a, b).type = "conflict_proposal"
      /\ Proposal(a, b).a = a /\ Proposal(a, b).b = b
    BY DEF Proposal
<1>8. TerminalsName(memlog')
    BY <1>1, <1>6, <1>7, TerminalsStay DEF SoundLog
<1>9. Moves(memlog, memlog', stored, {})
    BY <1>1, <1>6, <1>7, <1>8, EventMoves DEF DurableOK
<1>10. DurableOK(memlog', stored', cursor', errors')
    <2>1. SlotIn(memlog', cursor) /\ Extends(memlog', memlog)
        BY <1>1, <1>9, ListsKept DEF DurableOK, Moves
    <2>2. Of(memlog, "session_captured") \subseteq Of(memlog', "session_captured")
        BY <2>1, FoldsGrow
    <2> QED
        BY <1>1, <2>1, <2>2 DEF DurableOK
<1>11. \A t \in rewind' : RewindOK(memlog', t)
    <2>1. \A t \in rewind : RewindOK(memlog, t)
        BY DEF SkipInv
    <2> QED
        BY <1>1, <1>9, <2>1, ListsKept
<1>12. ASSUME NEW t \in sweep'.todo
       PROVE  Listed(memlog', stored', t) /\ HasVector(memlog', sweep', t)
    <2>1. Listed(memlog, stored, t) /\ HasVector(memlog, sweep, t)
        BY <1>3, <1>4 DEF SkipInv
    <2>2. Listed(memlog', stored, t) /\ HasVector(memlog', sweep, t)
        BY <1>1, <1>9, <2>1, ListsKept
    <2> QED
        BY <1>1, <1>3, <2>2 DEF HasVector
<1>13. ASSUME NEW pair \in UnsettledIn(memlog', stored, errors, excused)
       PROVE  CursorKeeps(memlog', cursor, rewind, pair) /\ CycleKeeps(memlog', rewind, sweep', pair)
    <2>1. CursorKeeps(memlog', cursor, rewind, pair) /\ CycleKeeps(memlog', rewind, sweep, pair)
        <3>1. \A q \in UnsettledIn(memlog, stored, errors, excused) :
                  CursorKeeps(memlog, cursor, rewind, q) /\ CycleKeeps(memlog, rewind, sweep, q)
            BY DEF SkipInv
        <3>2. \A t \in sweep.todo : SlotIn(memlog, t[1])
            BY DEF SkipInv, Listed
        <3>3. SlotIn(memlog, cursor) /\ stored \subseteq Of(memlog, "session_captured")
            BY <1>1 DEF DurableOK
        <3> QED
            <4>1. rewind \subseteq rewind /\ {} \cap CurrentIn(memlog', stored) \subseteq Waiting(rewind)
                BY Zenon
            <4>2. SoundLog(memlog) /\ Moves(memlog, memlog', stored, {})
                BY <1>1, <1>9
            <4> QED
                BY <1>13, <3>1, <3>2, <3>3, <4>1, <4>2, PairsKept
    <2>2. pair # {a, b}
        <3> SUFFICES ASSUME pair = {a, b} PROVE FALSE
            OBVIOUS
        <3> DEFINE p == Len(memlog) + 1
        <3>1. memlog'[p] = Proposal(a, b)
            BY <1>6 DEF OneMore
        <3>2. Of(memlog', "conflict_proposal") = Of(memlog, "conflict_proposal") \cup {p}
            BY <1>6, <1>7, OneMoreEvent
        <3> HIDE DEF p
        <3>3. pair = Pair(memlog', p) /\ {memlog'[p].a, memlog'[p].b} = pair
            BY <1>7, <3>1 DEF Pair
        <3>4. pair \subseteq CurrentIn(memlog', stored)
            BY UnsettledFacts
        <3>5. p \in OpenProposals(memlog', RowsOf(memlog', stored))
            BY <3>2, <3>3, <3>4 DEF OpenProposals, CurrentIn
        <3>6. pair \in OpenPairs(memlog', stored)
            BY <3>3, <3>5 DEF OpenPairs
        <3> QED
            BY <3>6, UnsettledFacts
    <2>3. \A r : /\ Spared(memlog', rewind, sweep, r) => Spared(memlog', rewind, sweep', r)
                 /\ \A done : Coming(memlog', sweep, done, r) => Coming(memlog', sweep', done, r)
        BY <1>3 DEF Spared, Coming
    <2>4. \/ sweep'.blocked \/ pair \in sweep'.pairs
          \/ \E r \in pair : Spared(memlog', rewind, sweep', r)
                             \/ Coming(memlog', sweep', {FirstOf(sweep'.todo)}, r)
        <3>1. \/ sweep.blocked \/ pair \in sweep.pairs
              \/ \E r \in pair : Spared(memlog', rewind, sweep, r)
                                 \/ Coming(memlog', sweep, {FirstOf(sweep.todo)}, r)
            BY <1>4, <2>1, <2>2 DEF CycleKeeps, a, b
        <3> QED
            BY <1>3, <2>3, <3>1
    <2>5. ~(pair \subseteq sweep'.index) => \E r \in pair : Spared(memlog', rewind, sweep', r)
        BY <1>3, <1>4, <2>1, <2>3 DEF CycleKeeps
    <2>6. pair \in sweep'.settled => \E r \in pair : Spared(memlog', rewind, sweep', r)
        BY <1>3, <1>4, <2>1, <2>2, <2>3 DEF CycleKeeps
    <2>7. sweep'.pc \notin Listing
        BY <1>3 DEF Listing
    <2> QED
        BY <2>1, <2>4, <2>5, <2>6, <2>7 DEF CycleKeeps
<1>14. SoundLog(memlog')
    BY <1>9 DEF Moves
<1> QED
    BY <1>1, <1>5, <1>10, <1>11, <1>12, <1>13, <1>14 DEF SkipInv

LEMMA EndSubjectStep ==
  ASSUME SkipInv, EndSubject
  PROVE  SkipInv'
<1>1. /\ CycleShape(sweep) /\ sweep.pc = "pair" /\ sweep.pairs = {}
      /\ UNCHANGED <<memlog, stored, errors, rewind, excused>>
    BY DEF SkipInv, EndSubject
<1>2. sweep.pc \in Judging /\ sweep.pc \in Reading
    BY <1>1 DEF Judging, Reading
<1>3. CASE sweep.blocked
    BY <1>1, <1>3, RestStep DEF EndSubject
<1>4. CASE ~sweep.blocked
    <2>1. sweep.todo # {} /\ First = FirstOf(sweep.todo)
        BY <1>1, <1>2 DEF CycleShape, First, FirstOf
    <2>2. ASSUME NEW pair \in UnsettledIn(memlog, stored, errors, excused)
          PROVE  \E r \in pair : Spared(memlog, rewind, sweep, r) \/ Coming(memlog, sweep, {First}, r)
        <3>1. CycleKeeps(memlog, rewind, sweep, pair)
            BY <2>2 DEF SkipInv
        <3> QED
            BY <1>1, <1>2, <1>4, <2>1, <3>1 DEF CycleKeeps
    <2> QED
        BY <1>1, <1>2, <1>4, <2>1, <2>2, AdvanceStep DEF EndSubject
<1> QED
    BY <1>3, <1>4

\* The backlog is a log of notes and their retirements.
LEMMA BacklogIs ==
  ASSUME NEW n \in Nat
  PROVE  /\ IsSequence(PutAway(n)) /\ Len(PutAway(n)) \in Nat
         /\ \A t : t \notin {"memory", "retired"} => Of(PutAway(n), t) = {}
<1> DEFINE l == PutAway(n)
<1> DEFINE S == {l[i] : i \in 1..(2 * n)}
<1>1. l \in [1..(2 * n) -> S] /\ 2 * n \in Nat
    BY DEF PutAway
<1>2. l \in Seq(S) /\ Len(l) = 2 * n
    BY <1>1
<1>3. \A i \in 1..Len(l) : l[i].type \in {"memory", "retired"}
    BY <1>2 DEF PutAway, Memory, Retirement
<1>4. \A t : t \notin {"memory", "retired"} => Of(l, t) = {}
    BY <1>3 DEF Of
<1> QED
    BY <1>1, <1>2, <1>4 DEF IsSequence

LEMMA SweepStarts ==
  ASSUME SweepInit
  PROVE  SkipInv
<1>1. /\ stored = {} /\ cursor = <<0, 0>> /\ errors = <<>>
      /\ sweep = Rest /\ rewind = {} /\ excused = {}
    BY DEF SweepInit
<1>2. PICK n \in Nat : memlog = PutAway(n)
    BY ConflictSweepAssumption DEF SweepInit
<1>3. /\ IsSequence(memlog) /\ Len(memlog) \in Nat /\ Of(memlog, "session_captured") = {}
      /\ Of(memlog, "terminal") = {}
    BY <1>2, BacklogIs
<1>4. Captures(memlog) = {}
    BY <1>3 DEF Captures
<1>5. SoundLog(memlog)
    BY <1>3, <1>4 DEF SoundLog, OneCapture, TerminalsName
<1>6. DurableOK(memlog, stored, cursor, errors)
    BY <1>1, <1>3 DEF DurableOK, SlotIn, Slots
<1>7. ASSUME NEW pair \in UnsettledIn(memlog, stored, errors, excused)
      PROVE  CursorKeeps(memlog, cursor, rewind, pair) /\ CycleKeeps(memlog, rewind, sweep, pair)
    <2>1. PICK r \in pair : r \in CurrentIn(memlog, stored)
        BY <1>7, UnsettledFacts
    <2>2. SeatIn(memlog, r) \in Slots
        BY <1>5, <2>1, SeatsAreSlots
    <2>3. ~Before(SeatIn(memlog, r), cursor)
        BY <1>1, <2>2 DEF Before, Slots
    <2> QED
        BY <1>1, <2>3, RestIsShaped DEF CursorKeeps, CycleKeeps, Listing, Judging, Reading
<1> QED
    BY <1>1, <1>5, <1>6, <1>7, RestIsShaped DEF SkipInv

LEMMA SweepStutters ==
  ASSUME SkipInv, UNCHANGED sweepVars
  PROVE  SkipInv'
BY DEF SkipInv, sweepVars

LEMMA CycleSteps == SkipInv /\ Sweep => SkipInv'
BY BeginStep, RebuildStep, ReadOpensStep, NextSubjectStep, EndCycleStep, PassOverStep, TextUnreadStep, DeclineStep,
   JudgeFailsStep, ContradictsStep, ProposeStep, EndSubjectStep DEF Sweep

LEMMA UserSteps == SkipInv /\ Users => SkipInv'
BY RememberStep, EditStep, CaptureStep, DeleteStep, RetireStep, UnretireStep, ResolveStep DEF Users

LEMMA SweepInductive == SkipInv /\ [SweepNext]_sweepVars => SkipInv'
<1>1. SkipInv /\ Settle => SkipInv'
    BY RewindStep DEF Settle
<1>2. SkipInv /\ Store => SkipInv'
    BY StoreStep DEF Store
<1> QED
    BY <1>1, <1>2, CycleSteps, CycleFailsStep, RewindFailsStep, UserSteps, DieStep, SweepStutters DEF SweepNext

\* detect_conflicts_once and its cursor, for any sessions, passages, budgets and bounds: between
\* two cycles the cursor is not past both memories of a pair nothing was decided about, whatever
\* was cut off, failed, died or was written meanwhile, but for the losses the code accepts.
THEOREM NoPairIsSkipped == SweepSpec => []NothingSkipped
<1>1. SkipInv => NothingSkipped
    <2> SUFFICES ASSUME SkipInv, rewind = {}, NEW pair \in Unsettled
                 PROVE  \E r \in pair : ~Before(Seat(r), cursor)
        BY DEF NothingSkipped
    <2>1. CursorKeeps(memlog, cursor, rewind, pair)
        BY FoldsOfState DEF SkipInv
    <2> QED
        BY <2>1, FoldsOfState DEF CursorKeeps, Waiting
<1> QED
    BY <1>1, SweepStarts, SweepInductive, PTL DEF SweepSpec

-----------------------------------------------------------------------------
(* A pair of notes is open once. *)

\* The notes a pair speaks of stay notes, and with nothing taken back they are put away for good.
RefsKnown(l, refs) == \A r \in refs : Known(l, r)
ProposalsKnown(l) == \A p \in Of(l, "conflict_proposal") : RefsKnown(l, Pair(l, p))
NotesNow(l) == {Note(n) : n \in CurrentNotes(l)}
OpenNotes(l) == {p \in Of(l, "conflict_proposal") : Pair(l, p) \subseteq NotesNow(l)}
EachOnce(l) == \A p, q \in OpenNotes(l) : Pair(l, p) = Pair(l, q) => p = q
\* The pair about to be proposed is still not open.
StillAbsent(l, sw) ==
    sw.pc = "append" => \A p \in OpenNotes(l) : Pair(l, p) # {sw.propose[1], sw.propose[2]}

OnceIn(l, sw) ==
    /\ ProposalsKnown(l)
    /\ RefsKnown(l, sw.index) /\ \A pair \in sw.pairs : RefsKnown(l, pair)
    /\ sw.pc = "append" => RefsKnown(l, {sw.propose[1], sw.propose[2]})
    /\ Of(l, "unretire") = {} => EachOnce(l) /\ StillAbsent(l, sw)

OnceInv == SkipInv /\ OnceIn(memlog, sweep)

LEMMA NotesOpen ==
  ASSUME NEW l, NEW counts, NEW p, \A r \in Pair(l, p) : r.kind = "note"
  PROVE  p \in OpenProposals(l, counts) => p \in OpenNotes(l)
<1> SUFFICES ASSUME p \in OpenProposals(l, counts), NEW r \in Pair(l, p)
             PROVE  r \in NotesNow(l)
    BY DEF OpenProposals, OpenNotes
<1>1. r \in CurrentRefs(l, counts)
    BY DEF OpenProposals, Pair
<1>2. \A s, k : Passage(s, k).kind # "note"
    BY DEF Passage
<1> QED
    BY <1>1, <1>2 DEF CurrentRefs, NotesNow

LEMMA OpenNotesAreOpen ==
  ASSUME NEW l, NEW counts
  PROVE  OpenNotes(l) \subseteq OpenProposals(l, counts)
BY DEF OpenNotes, OpenProposals, CurrentRefs, NotesNow, Pair

\* What was not current is not current later, while nothing is taken back.
LEMMA NotesShrink ==
  ASSUME NEW l, NEW m, Extends(m, l), ProposalsKnown(l), Of(m, "unretire") = {}
  PROVE  /\ Of(l, "unretire") = {}
         /\ \A p \in Of(l, "conflict_proposal") : Pair(m, p) = Pair(l, p)
         /\ \A p \in OpenNotes(m) \cap Of(l, "conflict_proposal") : p \in OpenNotes(l)
<1>1. /\ \A t : Of(l, t) \subseteq Of(m, t)
      /\ \A t : \A i \in Of(l, t) : m[i] = l[i]
      /\ Superseded(l) \subseteq Superseded(m)
    BY FoldsGrow
<1>2. Of(l, "unretire") = {}
    BY <1>1
<1>3. Retired(l) \subseteq Retired(m)
    BY <1>1, <1>2 DEF Retired
<1>4. CurrentNotes(m) \cap Of(l, "memory") \subseteq CurrentNotes(l)
    BY <1>1, <1>3 DEF CurrentNotes
<1>5. \A p \in Of(l, "conflict_proposal") : Pair(m, p) = Pair(l, p)
    BY <1>1 DEF Pair
<1>6. ASSUME NEW p \in OpenNotes(m) \cap Of(l, "conflict_proposal"), NEW r \in Pair(l, p)
      PROVE  r \in NotesNow(l)
    <2>1. PICK n \in CurrentNotes(m) : r = Note(n)
        BY <1>5, <1>6 DEF OpenNotes, NotesNow
    <2>2. Known(l, r)
        BY <1>6 DEF ProposalsKnown, RefsKnown
    <2>3. n \in Of(l, "memory")
        BY <2>1, <2>2 DEF Known, Note
    <2> QED
        BY <1>4, <2>1, <2>3 DEF NotesNow
<1> QED
    BY <1>2, <1>5, <1>6 DEF OpenNotes

AddsNoProposal(l, m) ==
    Extends(m, l) /\ Of(m, "conflict_proposal") = Of(l, "conflict_proposal")

LEMMA OnceGrows ==
  ASSUME NEW l, NEW m, NEW sw, OnceIn(l, sw), AddsNoProposal(l, m)
  PROVE  OnceIn(m, sw)
<1>1. \A r : Known(l, r) => Known(m, r)
    BY KnownStays DEF AddsNoProposal
<1>2. \A refs : RefsKnown(l, refs) => RefsKnown(m, refs)
    BY <1>1 DEF RefsKnown
<1>3. \A p \in Of(l, "conflict_proposal") : Pair(m, p) = Pair(l, p)
    BY FoldsGrow DEF AddsNoProposal, Pair
<1>4. ProposalsKnown(m)
    BY <1>2, <1>3 DEF AddsNoProposal, OnceIn, ProposalsKnown
<1>5. ASSUME Of(m, "unretire") = {}
      PROVE  EachOnce(m) /\ StillAbsent(m, sw)
    <2>1. Of(l, "unretire") = {} /\ OpenNotes(m) \subseteq OpenNotes(l)
        BY <1>5, NotesShrink DEF AddsNoProposal, OnceIn, OpenNotes
    <2>2. EachOnce(l) /\ StillAbsent(l, sw)
        BY <2>1 DEF OnceIn
    <2>3. \A p \in OpenNotes(m) : Pair(m, p) = Pair(l, p)
        BY <1>3, <2>1 DEF OpenNotes
    <2> QED
        BY <2>1, <2>2, <2>3 DEF EachOnce, StillAbsent
<1> QED
    BY <1>2, <1>4, <1>5 DEF OnceIn

\* A step of the cycle that proposes nothing.
LEMMA OnceQuiet ==
  ASSUME NEW l, NEW sw, OnceIn(l, sw), NEW ts, RefsKnown(l, ts.index),
         \A pair \in ts.pairs : RefsKnown(l, pair), ts.pc # "append"
  PROVE  OnceIn(l, ts)
BY DEF OnceIn, StillAbsent

LEMMA OnceProposes ==
  ASSUME NEW l, NEW m, NEW sw, NEW ts, OnceIn(l, sw), NEW a, NEW b,
         OneMore(l, m, Proposal(a, b)), sw.pc = "append", a = sw.propose[1], b = sw.propose[2],
         ts.index = sw.index, ts.pairs = sw.pairs, ts.pc # "append"
  PROVE  OnceIn(m, ts)
<1> DEFINE new == Len(l) + 1
<1>1. /\ Proposal(a, b).type = "conflict_proposal"
      /\ Proposal(a, b).a = a /\ Proposal(a, b).b = b
    BY DEF Proposal
<1>2. Extends(m, l) /\ m[new] = Proposal(a, b)
    BY DEF OneMore
<1>3. Of(m, "conflict_proposal") = Of(l, "conflict_proposal") \cup {new}
    BY <1>1, OneMoreEvent
<1> HIDE DEF new
<1>4. \A refs : RefsKnown(l, refs) => RefsKnown(m, refs)
    BY <1>2, KnownStays DEF RefsKnown
<1>5. Pair(m, new) = {a, b} /\ RefsKnown(m, {a, b})
    BY <1>1, <1>2, <1>4 DEF Pair, OnceIn
<1>6. \A p \in Of(l, "conflict_proposal") : Pair(m, p) = Pair(l, p)
    BY <1>2, FoldsGrow DEF Pair
<1>7. ProposalsKnown(m)
    BY <1>3, <1>4, <1>5, <1>6 DEF OnceIn, ProposalsKnown
<1>8. ASSUME Of(m, "unretire") = {}
      PROVE  EachOnce(m)
    <2>1. /\ Of(l, "unretire") = {}
          /\ \A p \in OpenNotes(m) \cap Of(l, "conflict_proposal") : p \in OpenNotes(l)
        BY <1>2, <1>8, NotesShrink DEF OnceIn
    <2>2. EachOnce(l) /\ \A p \in OpenNotes(l) : Pair(l, p) # {a, b}
        BY <2>1 DEF OnceIn, StillAbsent
    <2>3. \A p \in OpenNotes(m) : p = new \/ (p \in OpenNotes(l) /\ Pair(m, p) = Pair(l, p))
        BY <1>3, <1>6, <2>1 DEF OpenNotes
    <2> QED
        BY <1>5, <2>2, <2>3 DEF EachOnce
<1>9. RefsKnown(m, ts.index) /\ \A pair \in ts.pairs : RefsKnown(m, pair)
    BY <1>4 DEF OnceIn
<1> QED
    BY <1>7, <1>8, <1>9 DEF OnceIn, StillAbsent

LEMMA UserAddsNoProposal ==
  ASSUME IsSequence(memlog), NEW events, User(events),
         \/ \E a : events = <<a>> /\ a.type # "conflict_proposal"
         \/ \E a, b : /\ events = <<a, b>>
                      /\ a.type # "conflict_proposal" /\ b.type # "conflict_proposal"
  PROVE  AddsNoProposal(memlog, memlog') /\ UNCHANGED sweep
<1>1. memlog' = memlog \o events /\ UNCHANGED sweep
    BY DEF User
<1>2. ASSUME NEW l, NEW m, NEW e, OneMore(l, m, e), e.type # "conflict_proposal"
      PROVE  AddsNoProposal(l, m)
    BY <1>2, OneMoreEvent DEF OneMore, AddsNoProposal
<1>3. ASSUME NEW a, events = <<a>>, a.type # "conflict_proposal"
      PROVE  AddsNoProposal(memlog, memlog')
    <2>1. memlog' = memlog \o <<a>>
        BY <1>1, <1>3
    <2>2. OneMore(memlog, memlog', a)
        BY <2>1, OneEventAdded
    <2> QED
        BY <1>2, <1>3, <2>2
<1>4. ASSUME NEW a, NEW b, events = <<a, b>>,
             a.type # "conflict_proposal", b.type # "conflict_proposal"
      PROVE  AddsNoProposal(memlog, memlog')
    <2>1. memlog' = memlog \o <<a, b>>
        BY <1>1, <1>4
    <2>2. PICK k : OneMore(memlog, k, a) /\ OneMore(k, memlog', b)
        BY <2>1, TwoEventsAdded
    <2>3. AddsNoProposal(memlog, k) /\ AddsNoProposal(k, memlog')
        BY <1>2, <1>4, <2>2
    <2> QED
        BY <2>3 DEF AddsNoProposal, Extends, IsLog
<1> QED
    BY <1>1, <1>3, <1>4

LEMMA OnceUsers ==
  ASSUME OnceInv, Users
  PROVE  OnceIn(memlog', sweep')
<1>1. IsSequence(memlog) /\ OnceIn(memlog, sweep)
    BY DEF OnceInv, SkipInv, SoundLog
<1>2. /\ \A x : Memory(x).type # "conflict_proposal" /\ Supersede(x).type # "conflict_proposal"
      /\ \A s, b : Captured(s, b).type # "conflict_proposal"
      /\ \A s : SessionDeleted(s).type # "conflict_proposal"
      /\ \A r : UnretireEvent(r).type # "conflict_proposal"
      /\ \A r : Retirement(r, 0).type # "conflict_proposal"
      /\ \A p, act, heads : Terminal(p, act, heads).type # "conflict_proposal"
    BY DEF Memory, Supersede, Captured, SessionDeleted, UnretireEvent, Retirement, Terminal
<1> DEFINE lone(events) == \E a : events = <<a>> /\ a.type # "conflict_proposal"
<1> DEFINE two(events) ==
        \E a, b : /\ events = <<a, b>>
                  /\ a.type # "conflict_proposal" /\ b.type # "conflict_proposal"
<1>3. \E events : User(events) /\ (lone(events) \/ two(events))
    <2>1. CASE RememberNote
        BY <1>2, <2>1 DEF RememberNote
    <2>2. CASE \E n \in CurrentNotes(memlog) : Edit(n)
        BY <1>2, <2>2 DEF Edit
    <2>3. ASSUME NEW s \in SessionIds, Capture(s)
          PROVE  \E events : User(events) /\ (lone(events) \/ two(events))
        <3> DEFINE new == Captured(s, Len(memlog) + 1)
        <3>1. new.type # "conflict_proposal"
            BY <1>2
        <3>2. User(<<new>>) \/ \E h : User(<<Supersede(h), new>>)
            BY <2>3 DEF Capture
        <3> HIDE DEF new
        <3>3. CASE User(<<new>>)
            BY <3>1, <3>3
        <3>4. ASSUME NEW h, User(<<Supersede(h), new>>)
              PROVE  \E events : User(events) /\ two(events)
            <4>1. Supersede(h).type # "conflict_proposal"
                BY <1>2
            <4>2. two(<<Supersede(h), new>>)
                BY <3>1, <4>1
            <4> QED
                BY <3>4, <4>2
        <3> QED
            BY <3>2, <3>3, <3>4
    <2>4. CASE \E s \in SessionIds : DeleteSession(s)
        BY <1>2, <2>4 DEF DeleteSession
    <2>5. CASE \E r \in MemoryRefs : Retire(r)
        BY <1>2, <2>5 DEF Retire
    <2>6. CASE \E r \in MemoryRefs : Unretire(r)
        BY <1>2, <2>6 DEF Unretire
    <2>7. CASE \E p \in Of(memlog, "conflict_proposal"), act \in {"keep_both", "dismiss"} :
                  Resolve(p, act)
        <3>1. \E t : t.type # "conflict_proposal" /\ User(<<t>>)
            BY <1>2, <2>7 DEF Resolve
        <3> QED
            BY <3>1
    <2> QED
        BY <2>1, <2>2, <2>3, <2>4, <2>5, <2>6, <2>7 DEF Users
<1>4. AddsNoProposal(memlog, memlog') /\ UNCHANGED sweep
    BY <1>1, <1>3, UserAddsNoProposal
<1> QED
    BY <1>1, <1>4, OnceGrows

\* The steps of a cycle before a proposal, and those that touch neither the cycle nor the log.
LEMMA OnceUnmoved ==
  ASSUME OnceInv, UNCHANGED <<memlog, sweep>>
  PROVE  OnceIn(memlog', sweep')
BY DEF OnceInv

LEMMA OnceRests ==
  ASSUME OnceInv, UNCHANGED memlog, sweep'.pc # "append",
         sweep'.index \in {{}, sweep.index}, sweep'.pairs \subseteq sweep.pairs
  PROVE  OnceIn(memlog', sweep')
<1>1. OnceIn(memlog, sweep) /\ memlog' = memlog
    BY DEF OnceInv
<1>2. RefsKnown(memlog, sweep'.index) /\ \A pair \in sweep'.pairs : RefsKnown(memlog, pair)
    BY <1>1 DEF OnceIn, RefsKnown
<1>3. OnceIn(memlog, sweep')
    BY <1>1, <1>2, OnceQuiet
<1> QED
    BY <1>1, <1>3

LEMMA ListedKnown ==
  ASSUME NEW l, NEW st, NEW t, Listed(l, st, t)
  PROVE  Known(l, t[2])
<1>1. \A s, k : Passage(s, k).kind = "passage"
    BY DEF Passage
<1> QED
    BY <1>1 DEF Listed, Known

LEMMA CurrentKnown ==
  ASSUME NEW l, NEW counts
  PROVE  RefsKnown(l, CurrentRefs(l, counts))
<1>1. \A s, k : Passage(s, k).kind = "passage"
    BY DEF Passage
<1>2. CurrentNotes(l) \subseteq Of(l, "memory")
    BY DEF CurrentNotes
<1> QED
    BY <1>1, <1>2 DEF RefsKnown, CurrentRefs, Known

LEMMA OnceListing ==
  ASSUME OnceInv, Begin \/ Rebuild \/ ReadOpens \/ EndCycle
  PROVE  OnceIn(memlog', sweep')
<1>1. CycleShape(sweep) /\ memlog' = memlog /\ OnceIn(memlog, sweep)
    BY DEF OnceInv, SkipInv, Begin, Rebuild, ReadOpens, EndCycle, durable
<1>2. CASE Begin
    <2>1. sweep'.pc = "rebuild" /\ sweep'.index = {} /\ sweep'.pairs = {}
        BY <1>2 DEF Begin, Rest
    <2> QED
        BY <1>1, <2>1, OnceRests
<1>3. CASE Rebuild
    <2>1. sweep'.pc = "opens" /\ sweep'.index = Current /\ sweep'.pairs = sweep.pairs
        BY <1>1, <1>3 DEF Rebuild, CycleShape
    <2>2. RefsKnown(memlog, sweep'.index)
        BY <2>1, CurrentKnown DEF Current
    <2>3. \A pair \in sweep'.pairs : RefsKnown(memlog, pair)
        BY <1>1, <2>1 DEF OnceIn
    <2>4. OnceIn(memlog, sweep')
        BY <1>1, <2>1, <2>2, <2>3, OnceQuiet
    <2> QED
        BY <1>1, <2>4
<1>4. CASE ReadOpens
    <2>1. sweep'.pc = "subject" /\ sweep'.index = sweep.index /\ sweep'.pairs = sweep.pairs
        BY <1>1, <1>4 DEF ReadOpens, CycleShape
    <2> QED
        BY <1>1, <2>1, OnceRests
<1>5. CASE EndCycle
    <2>1. sweep'.pc = "rest" /\ sweep'.index = {} /\ sweep'.pairs = {}
        BY <1>5 DEF EndCycle, Rest
    <2> QED
        BY <1>1, <2>1, OnceRests
<1> QED
    BY <1>2, <1>3, <1>4, <1>5

LEMMA SkippedShape ==
  ASSUME CycleShape(sweep), NEW t
  PROVE  Skip(t).pc = "subject" /\ Skip(t).index = sweep.index /\ Skip(t).pairs = sweep.pairs
BY DEF CycleShape, Skip

LEMMA OnceSubject ==
  ASSUME OnceInv, NextSubject
  PROVE  OnceIn(memlog', sweep')
<1>0. UNCHANGED <<memlog, stored, errors, rewind>> /\ sweep.todo # {}
    BY DEF NextSubject
<1>1. CycleShape(sweep) /\ memlog' = memlog /\ OnceIn(memlog, sweep) /\ sweep.todo # {}
    BY <1>0 DEF OnceInv, SkipInv
<1>2. CASE sweep' = Skip(First)
    BY <1>1, <1>2, SkippedShape, OnceRests
<1>3. CASE sweep' = Rest
    BY <1>1, <1>3, RestIsShaped, OnceRests DEF Rest
<1>4. ASSUME NEW near \in Neighbours(First[2]),
             sweep' = [sweep EXCEPT !.pc = "pair", !.pairs = Candidates(First[2], near),
                                    !.blocked = FALSE]
      PROVE  OnceIn(memlog', sweep')
    <2>1. /\ sweep'.pc = "pair" /\ sweep'.index = sweep.index
          /\ sweep'.pairs = Candidates(First[2], near)
        BY <1>1, <1>4 DEF CycleShape
    <2>2. First = FirstOf(sweep.todo)
        BY DEF First, FirstOf
    <2>3. \A t \in sweep.todo : t[1] \in Slots
        BY DEF OnceInv, SkipInv, Listed, SlotIn
    <2>4. First \in sweep.todo
        BY <1>1, <2>2, <2>3, FirstIs
    <2>5. Known(memlog, First[2])
        BY <2>4, ListedKnown DEF OnceInv, SkipInv
    <2>6. RefsKnown(memlog, sweep.index) /\ near \subseteq sweep.index
        BY <1>1, <1>4 DEF OnceIn, Neighbours
    <2>7. \A pair \in sweep'.pairs : RefsKnown(memlog, pair)
        BY <2>1, <2>5, <2>6 DEF Candidates, RefsKnown
    <2>8. RefsKnown(memlog, sweep'.index)
        BY <2>1, <2>6
    <2>9. OnceIn(memlog, sweep')
        BY <1>1, <2>1, <2>7, <2>8, OnceQuiet
    <2> QED
        BY <1>1, <2>9
<1>5. ASSUME First[2] \in sweep.vectors
      PROVE  \E near \in Neighbours(First[2]) :
                 \/ sweep' = Rest
                 \/ sweep' = [sweep EXCEPT !.pc = "pair", !.pairs = Candidates(First[2], near),
                                           !.blocked = FALSE]
    BY <1>5 DEF NextSubject
<1>6. First[2] \notin sweep.vectors => sweep' = Skip(First)
    BY DEF NextSubject
<1> QED
    BY <1>2, <1>3, <1>4, <1>5, <1>6

LEMMA OncePassed ==
  ASSUME OnceInv, NEW pair \in NextPair, memlog' = memlog,
         NEW budget, NEW blocked,
         sweep' = Cycle(sweep.pc, sweep.todo, sweep.index, sweep.settled, sweep.open,
                        sweep.vectors, budget, sweep.pairs \ {pair}, blocked, sweep.propose)
  PROVE  OnceIn(memlog', sweep')
<1>1. sweep.pc = "pair"
    BY InPair DEF OnceInv
<1>2. /\ sweep'.pc = sweep.pc /\ sweep'.index = sweep.index
      /\ sweep'.pairs = sweep.pairs \ {pair}
    BY DEF Cycle
<1> QED
    BY <1>1, <1>2, OnceRests

\* is_conflict_proposal_suppressed is asked of the log the proposal is appended to, so a pair of
\* notes that is about to be proposed is not open; users cannot open it meanwhile.
LEMMA OnceContradicts ==
  ASSUME OnceInv, NEW pair \in NextPair, Contradicts(pair)
  PROVE  OnceIn(memlog', sweep')
<1>0. UNCHANGED <<memlog, stored, cursor, rewind>>
    BY DEF Contradicts
<1>1. CycleShape(sweep) /\ memlog' = memlog /\ OnceIn(memlog, sweep) /\ pair \in sweep.pairs
    BY <1>0 DEF OnceInv, SkipInv, NextPair
<1> DEFINE budget == sweep.budget - 1
<1>2. Judged(pair) =
          Cycle(sweep.pc, sweep.todo, sweep.index, sweep.settled, sweep.open, sweep.vectors,
                budget, sweep.pairs \ {pair}, sweep.blocked, sweep.propose)
    BY <1>1, JudgedShape
<1> HIDE DEF budget
<1>3. CASE sweep' = Judged(pair)
    BY <1>1, <1>2, <1>3, OncePassed
<1>4. ASSUME NEW a \in pair, NEW b \in pair, ~Suppressed(memlog, Rows, a, b),
             Before(Seat(a), Seat(b)),
             sweep' = [Judged(pair) EXCEPT !.pc = "append", !.propose = <<a, b>>]
      PROVE  OnceIn(memlog', sweep')
    <2>1. /\ sweep'.pc = "append" /\ sweep'.index = sweep.index
          /\ sweep'.pairs = sweep.pairs \ {pair}
          /\ sweep'.propose = <<a, b>>
        BY <1>2, <1>4 DEF Cycle
    <2>2. sweep'.propose[1] = a /\ sweep'.propose[2] = b
        BY <2>1
    <2>3. RefsKnown(memlog, {a, b})
        BY <1>1, <1>4 DEF OnceIn, RefsKnown
    <2>4. \A p \in OpenNotes(memlog) : Pair(memlog, p) # {a, b}
        BY <1>4, OpenNotesAreOpen DEF Suppressed
    <2>5. StillAbsent(memlog, sweep')
        BY <2>2, <2>4 DEF StillAbsent
    <2>6. OnceIn(memlog, sweep')
        BY <1>1, <2>1, <2>2, <2>3, <2>5 DEF OnceIn
    <2> QED
        BY <1>1, <2>6
<1>5. CASE sweep.open >= OpenCeiling
    BY <1>3, <1>5 DEF Contradicts
<1>6. CASE ~(sweep.open >= OpenCeiling)
    <2>1. PICK a \in pair, b \in pair :
              /\ Before(Seat(a), Seat(b))
              /\ sweep' = IF Suppressed(memlog, Rows, a, b) THEN Judged(pair)
                          ELSE [Judged(pair) EXCEPT !.pc = "append", !.propose = <<a, b>>]
        BY <1>6 DEF Contradicts
    <2> QED
        BY <1>3, <1>4, <2>1
<1> QED
    BY <1>5, <1>6

LEMMA OncePropose ==
  ASSUME OnceInv, ProposeConflict
  PROVE  OnceIn(memlog', sweep')
<1> DEFINE a == sweep.propose[1]
<1> DEFINE b == sweep.propose[2]
<1>1. /\ IsSequence(memlog) /\ CycleShape(sweep) /\ OnceIn(memlog, sweep)
      /\ sweep.pc = "append" /\ memlog' = Append(memlog, Proposal(a, b))
    BY DEF OnceInv, SkipInv, SoundLog, ProposeConflict
<1>2. sweep'.pc = "pair" /\ sweep'.index = sweep.index /\ sweep'.pairs = sweep.pairs
    BY <1>1 DEF ProposeConflict, CycleShape
<1> HIDE DEF a, b
<1>3. OneMore(memlog, memlog', Proposal(a, b))
    BY <1>1, AppendIsOneMore
<1> QED
    BY <1>1, <1>2, <1>3, OnceProposes DEF a, b

LEMMA OnceCycle ==
  ASSUME OnceInv, Sweep
  PROVE  OnceIn(memlog', sweep')
<1>1. ASSUME NEW pair \in NextPair, PassOver(pair)
      PROVE  OnceIn(memlog', sweep')
    <2>1. memlog' = memlog /\ sweep' = [sweep EXCEPT !.pairs = @ \ {pair}]
        BY <1>1 DEF PassOver, durable
    <2>2. sweep' = Cycle(sweep.pc, sweep.todo, sweep.index, sweep.settled, sweep.open,
                         sweep.vectors, sweep.budget, sweep.pairs \ {pair}, sweep.blocked,
                         sweep.propose)
        BY <2>1, InPair, JudgedShape DEF OnceInv
    <2> QED
        BY <2>1, <2>2, OncePassed
<1>2. ASSUME NEW pair \in NextPair, Decline(pair)
      PROVE  OnceIn(memlog', sweep')
    <2> DEFINE budget == sweep.budget - 1
    <2>1. sweep' = Cycle(sweep.pc, sweep.todo, sweep.index, sweep.settled, sweep.open,
                         sweep.vectors, budget, sweep.pairs \ {pair}, sweep.blocked,
                         sweep.propose)
        BY <1>2, InPair, JudgedShape DEF Decline, OnceInv
    <2> HIDE DEF budget
    <2> QED
        BY <1>2, <2>1, OncePassed DEF Decline
<1>3. ASSUME NEW pair \in NextPair, JudgeFails(pair)
      PROVE  OnceIn(memlog', sweep')
    <2> DEFINE budget == sweep.budget - 1
    <2> DEFINE blocked == sweep.blocked \/ Errors(pair) + 1 < ErrorBudget
    <2>1. Judged(pair) =
              Cycle(sweep.pc, sweep.todo, sweep.index, sweep.settled, sweep.open, sweep.vectors,
                    budget, sweep.pairs \ {pair}, sweep.blocked, sweep.propose)
        BY <1>3, InPair, JudgedShape DEF OnceInv
    <2> HIDE DEF budget
    <2>2. sweep'.pc = sweep.pc /\ sweep'.index = sweep.index /\ sweep'.pairs = sweep.pairs \ {pair}
        BY <1>3, <2>1 DEF JudgeFails, Cycle
    <2>3. sweep.pc = "pair" /\ memlog' = memlog
        BY <1>3, InPair DEF JudgeFails, OnceInv
    <2> QED
        BY <2>2, <2>3, OnceRests
<1>4. CASE EndSubject
    <2>1. CycleShape(sweep) /\ memlog' = memlog
        BY <1>4 DEF OnceInv, SkipInv, EndSubject
    <2>2. sweep'.pc # "append" /\ sweep'.index \in {{}, sweep.index} /\ sweep'.pairs \subseteq sweep.pairs
        <3>1. sweep' = Rest \/ sweep' = Skip(First)
            BY <1>4 DEF EndSubject
        <3>2. Rest.pc = "rest" /\ Rest.index = {} /\ Rest.pairs = {}
            BY DEF Rest
        <3> QED
            BY <2>1, <3>1, <3>2, SkippedShape
    <2> QED
        BY <2>1, <2>2, OnceRests
<1>5. ASSUME NEW pair \in NextPair, TextUnread(pair)
      PROVE  OnceIn(memlog', sweep')
    <2>1. memlog' = memlog /\ sweep' = [sweep EXCEPT !.pairs = @ \ {pair}]
        BY <1>5 DEF TextUnread, durable
    <2>2. sweep' = Cycle(sweep.pc, sweep.todo, sweep.index, sweep.settled, sweep.open,
                         sweep.vectors, sweep.budget, sweep.pairs \ {pair}, sweep.blocked,
                         sweep.propose)
        BY <2>1, InPair, JudgedShape DEF OnceInv
    <2> QED
        BY <2>1, <2>2, OncePassed
<1> QED
    BY <1>1, <1>2, <1>3, <1>4, <1>5, OnceListing, OnceSubject, OnceContradicts, OncePropose DEF Sweep

LEMMA OnceInductive == OnceInv /\ [SweepNext]_sweepVars => OnceInv'
<1> SUFFICES ASSUME OnceInv, [SweepNext]_sweepVars PROVE OnceIn(memlog', sweep')
    BY SweepInductive DEF OnceInv
<1>1. CASE Settle
    BY <1>1, OnceUnmoved DEF Settle, Rewind
<1>2. CASE Store
    BY <1>2, OnceUnmoved DEF Store, StoreSessionPassages
<1>3. CASE Die
    <2>1. memlog' = memlog /\ sweep' = Rest
        BY <1>3 DEF Die, durable
    <2> QED
        BY <2>1, OnceRests DEF Rest
<1>4. CASE UNCHANGED sweepVars
    BY <1>4, OnceUnmoved DEF sweepVars
<1>5. CASE CycleFails
    <2>1. memlog' = memlog /\ sweep' = Rest
        BY <1>5 DEF CycleFails, durable
    <2> QED
        BY <2>1, OnceRests DEF Rest
<1>6. CASE \E t \in rewind : RewindFails(t)
    BY <1>6, OnceUnmoved DEF RewindFails, durable
<1> QED
    BY <1>1, <1>2, <1>3, <1>4, <1>5, <1>6, OnceCycle, OnceUsers DEF SweepNext

LEMMA OnceStarts ==
  ASSUME SweepInit
  PROVE  OnceInv
<1>1. Of(memlog, "conflict_proposal") = {} /\ Of(memlog, "unretire") = {}
    BY BacklogIs, ConflictSweepAssumption DEF SweepInit
<1>2. sweep.index = {} /\ sweep.pairs = {} /\ sweep.pc = "rest"
    BY DEF SweepInit, Rest
<1>3. OpenNotes(memlog) = {}
    BY <1>1 DEF OpenNotes
<1>4. OnceIn(memlog, sweep)
    BY <1>1, <1>2, <1>3 DEF OnceIn, ProposalsKnown, RefsKnown, EachOnce, StillAbsent
<1> QED
    BY <1>4, SweepStarts DEF OnceInv

\* propose_conflict behind is_conflict_proposal_suppressed, for any sessions and bounds: however
\* often cycles restart and users edit, retire and resolve between the check and the append, one
\* pair of notes has one open proposal, as long as nothing was taken back.
THEOREM NoPairIsOpenTwice == SweepSpec => []OpenOnce
<1>1. OnceInv => OpenOnce
    <2> SUFFICES ASSUME OnceInv, Of(memlog, "unretire") = {},
                        NEW p \in OpenProposals(memlog, Rows),
                        NEW q \in OpenProposals(memlog, Rows),
                        Pair(memlog, p) = Pair(memlog, q),
                        \A r \in Pair(memlog, p) : r.kind = "note"
                 PROVE  p = q
        BY DEF OpenOnce
    <2>1. p \in OpenNotes(memlog) /\ q \in OpenNotes(memlog)
        BY NotesOpen
    <2> QED
        BY <2>1 DEF OnceInv, OnceIn, EachOnce
<1> QED
    BY <1>1, OnceStarts, OnceInductive, PTL DEF SweepSpec
=============================================================================
