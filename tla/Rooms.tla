-------------------------------- MODULE Rooms --------------------------------
(***************************************************************************)
(* A chat room as each agent sees it: the set of signed control ops it has *)
(* taken in, from which deriveState computes the roster.  Ops travel as    *)
(* ordinary mail, posted one by one while the sender goes on receiving; a  *)
(* post may fail, and a new member is sent the inviter's ops.              *)
(*                                                                         *)
(* One room, created and with its founder in it.  Signatures hold, nobody  *)
(* is blocked, no grant expires, and a member has one key; messages,       *)
(* muting and halting are left out.  An agent runs one command at a time.  *)
(***************************************************************************)
EXTENDS Integers, Sequences, FiniteSets, Functions

CONSTANTS
  Agents,        \* DIDs, as numbers
  founder,       \* founder_did
  admin,         \* a member with a mandate when the model begins
  Others,        \* those who are invited, kicked and granted mandates
  MaxOps,        \* control ops from there on
  MaxFailures    \* posts that fail, pages with unsound ops, invitations to other rooms

ASSUME RoomsAssumption ==
  /\ Agents \subseteq Nat /\ IsFiniteSet(Agents) /\ {founder, admin} \subseteq Agents /\ founder # admin
  /\ Others \subseteq Agents \ {founder}
  /\ {MaxOps, MaxFailures} \subseteq Nat

VARIABLES
  ops,      \* rooms.json: room.ops in order of arrival; empty while there is no room
  seqNext,  \* the founder's founder_seq_next
  held,     \* the store an ingestion of another room's create has loaded, if any
  outbox,   \* posts a command has still to make
  inbox,    \* what the relay holds for the agent, in order
  issued,   \* ops of the model so far
  failures,  \* and failures
  partial   \* agents a window of the code leaves with a part of the ops

roomVars == <<ops, seqNext, held, outbox, inbox, issued, failures, partial>>

-----------------------------------------------------------------------------
(* Ops, and deriveState over them.  sig stands for op_sig in the order of strings. *)

Op(type, by, about, mandate, seq, sig) ==
  [type |-> type, by |-> by, about |-> about, mandate |-> mandate, seq |-> seq, sig |-> sig]

Create == Op("create", founder, founder, -1, 0, 0)

\* roomCreateLocal, and an admin invited and granted mandate 0
Founding == <<Create, Op("add", founder, founder, -1, 1, 0),
              Op("add", founder, admin, -1, 2, 0), Op("grant", founder, admin, 0, 3, 0)>>

\* Mutant: the number alone, so that arrival decides between equals
BeforeBySeq(o, p) == o.seq < p.seq

\* founderSeqCmp
Before(o, p) == o.seq < p.seq \/ (o.seq = p.seq /\ o.sig < p.sig)

\* The last founder op of some that a room has, by founder_seq; equals stay in the order of
\* arrival, as in a stable sort.  NoOp when there is none.
NoOp == Op("none", founder, founder, -1, -1, 0)
Latest(s, at) ==
  IF at = {} THEN NoOp
  ELSE s[CHOOSE i \in at : \A j \in at \ {i} : Before(s[j], s[i]) \/ (j < i /\ ~Before(s[i], s[j]))]

LatestAbout(s, m) ==
  Latest(s, {i \in DOMAIN s : s[i].by = founder /\ s[i].type \in {"add", "remove"} /\ s[i].about = m})

LatestMandate(s, id) ==
  Latest(s, {i \in DOMAIN s : s[i].by = founder /\ s[i].type \in {"grant", "revoke"} /\ s[i].mandate = id})

Holds(s, a, id) == LET o == LatestMandate(s, id) IN o.type = "grant" /\ o.about = a

\* Mutant: an admin's add counts whatever the founder said of the member
AdminAddWins(s, m) ==
  \E o \in Range(s) : o.type = "add" /\ o.about = m /\ o.by # founder /\ Holds(s, o.by, o.mandate)

\* a valid admin add, for a member the founder has said nothing of
AdminAdded(s, m) ==
  /\ LatestAbout(s, m) = NoOp
  /\ \E o \in Range(s) : o.type = "add" /\ o.about = m /\ o.by # founder /\ Holds(s, o.by, o.mandate)

Members(s) == {m \in Agents : LatestAbout(s, m).type = "add" \/ AdminAdded(s, m)}
Admins(s) == {a \in Agents : \E o \in Range(s) : o.type = "grant" /\ Holds(s, a, o.mandate)}
deriveState(s) == IF s = <<>> THEN [members |-> {}, admins |-> {}]
                  ELSE [members |-> Members(s), admins |-> Admins(s)]

Failure == failures < MaxFailures /\ failures' = failures + 1

-----------------------------------------------------------------------------
NotHeld == [on |-> FALSE, ops |-> <<>>, seqNext |-> 0]

RoomInit ==
  /\ ops = [a \in Agents |-> IF a \in {founder, admin} THEN Founding ELSE <<>>]
  /\ seqNext = 4
  /\ held = [a \in Agents |-> NotHeld]
  /\ outbox = [a \in Agents |-> {}] /\ inbox = [a \in Agents |-> <<>>]
  /\ issued = 0 /\ failures = 0 /\ partial = {}

\* appendOp, deduplicated by opId
appendOp(s, o) == IF o \in Range(s) THEN s ELSE Append(s, o)

\* fanOutOp: to the members of the state that has the op already
Posts(a, s, o) == {[to |-> m, ops |-> <<o>>] : m \in deriveState(s).members \ {a}}
\* Mutant: the new member is sent its add only
BootstrapOwn(s, m) == {[to |-> m, ops |-> <<s[1], s[Len(s)]>>]}

\* bootstrapMember: posts to one member, taken as one step
Bootstrap(s, m) == {[to |-> m, ops |-> s]}

\* What a command appends locally and posts.  The order of two signatures counts only
\* between ops of one number.
Issue(a, o, posts) ==
  /\ issued < MaxOps /\ issued' = issued + 1
  /\ outbox[a] = {}
  /\ ops' = [ops EXCEPT ![a] = appendOp(@, o)]
  /\ outbox' = [outbox EXCEPT ![a] = posts]
  /\ UNCHANGED <<held, inbox, failures>>

Sig == IF \E a \in Agents : \E o \in Range(ops[a]) : o.by = founder /\ o.seq = seqNext
       THEN {issued + 1, -1 - issued} ELSE {issued + 1}

-----------------------------------------------------------------------------
(* Commands *)

\* a founder's command of a type: nextFounderSeq, appendOp, fanOutOp
Command(type, m, mandate) ==
  \E sig \in Sig :
    LET o == Op(type, founder, m, mandate, seqNext, sig)
        s == appendOp(ops[founder], o)
    IN /\ seqNext' = seqNext + 1
       /\ Issue(founder, o, IF type = "add" THEN Bootstrap(s, m) \cup Posts(founder, s, o)
                            ELSE Posts(founder, s, o))

\* roomInviteOp by the founder: whoever was short of ops is sent them all
Invite(m) ==
  /\ Command("add", m, -1) /\ partial' = partial \ {m}

roomKickOp(m) == Command("remove", m, -1) /\ UNCHANGED partial
roomGrantAdminOp(m) == Command("grant", m, issued + 1) /\ UNCHANGED partial

roomRevokeAdminOp(id) ==
  /\ LatestMandate(ops[founder], id).type = "grant"
  /\ Command("revoke", founder, id) /\ UNCHANGED partial

\* roomInviteOp by an admin, under a mandate it believes it holds.  Those who are not in
\* its roster do not hear of it, and the new member has what the admin has.
AdminInvite(a, m, id) ==
  /\ a # founder /\ Holds(ops[a], a, id)
  /\ LET o == Op("add", a, m, id, -1, 0)
         s == appendOp(ops[a], o)
     IN Issue(a, o, Bootstrap(s, m) \cup Posts(a, s, o))
  /\ partial' = partial \cup {m}
  /\ UNCHANGED seqNext

-----------------------------------------------------------------------------
(* The network, and the receiver *)

\* the bootstrap comes first, then the members in the order of their DIDs
NextPost(a) ==
  CHOOSE p \in outbox[a] :
    \A q \in outbox[a] \ {p} : Len(q.ops) < Len(p.ops) \/ (Len(q.ops) = Len(p.ops) /\ p.to < q.to)

Post(a) ==
  /\ outbox[a] # {}
  /\ LET p == NextPost(a)
     IN /\ inbox' = [inbox EXCEPT ![p.to] = @ \o p.ops]
        /\ outbox' = [outbox EXCEPT ![a] = @ \ {p}]
  /\ UNCHANGED <<ops, seqNext, held, issued, failures, partial>>

\* A post fails: the fan-out goes on to the next, a bootstrap is given up.
PostFails(a) ==
  /\ outbox[a] # {} /\ Failure
  /\ LET p == NextPost(a)
     IN /\ \E k \in 0..Len(p.ops) - 1 : inbox' = [inbox EXCEPT ![p.to] = @ \o SubSeq(p.ops, 1, k)]
        /\ outbox' = [outbox EXCEPT ![a] = @ \ {p}]
        /\ partial' = partial \cup {p.to}
  /\ UNCHANGED <<ops, seqNext, held, issued>>

\* a founder op verifies against the create, an admin's add against its grant
Authorised(s, o) ==
  /\ s # <<>>
  /\ o.by = founder \/ \E g \in Range(s) : g.type = "grant" /\ g.mandate = o.mandate

\* ingestControlOp: the op is appended, or dropped for good; of a create for a room that is
\* there nothing is kept.
ingestControlOp(s, o) ==
  IF o = Create THEN IF s = <<>> THEN <<o>> ELSE s
                ELSE IF Authorised(s, o) THEN appendOp(s, o) ELSE s

\* a page of mail, in the order of the relay.  An op is unsound, and dropped before or during
\* its ingestion, if the key of its sender, or of a create's founder, does not resolve, if it
\* is older than two days, or if loading or saving rooms.json fails.
ingestPage(s, page, unsound) ==
  LET taken[i \in 0..Len(page)] ==
        IF i = 0 THEN s
        ELSE IF i \in unsound THEN taken[i - 1] ELSE ingestControlOp(taken[i - 1], page[i])
  IN taken[Len(page)]

\* receive: the cursor passes every op, also what was dropped
TakeIn(a, unsound) ==
  /\ inbox[a] # <<>> /\ ~held[a].on
  /\ LET s == ingestPage(ops[a], inbox[a], unsound)
     IN /\ ops' = [ops EXCEPT ![a] = s]
        /\ partial' = IF Range(inbox[a]) \subseteq Range(s) THEN partial ELSE partial \cup {a}
  /\ inbox' = [inbox EXCEPT ![a] = <<>>]
  /\ UNCHANGED <<seqNext, held, outbox, issued>>

receive(a) == TakeIn(a, {}) /\ UNCHANGED failures

\* ... of a page with one unsound op, or whose first ops have all waited too long
receiveUnsound(a) ==
  /\ Failure
  /\ \E i \in DOMAIN inbox[a] : TakeIn(a, {i}) \/ TakeIn(a, 1..i)

\* ingestControlOp of another room's create: rooms.json is loaded before the founder's key
\* is awaited ...
HoldStore(a) ==
  /\ ops[a] # <<>> /\ ~held[a].on
  /\ Failure
  /\ held' = [held EXCEPT ![a] = [on |-> TRUE, ops |-> ops[a], seqNext |-> seqNext]]
  /\ UNCHANGED <<ops, seqNext, outbox, inbox, issued, partial>>

\* ... and saved whole after it, with what a command has changed meanwhile undone: who was
\* invited by it may be in the roster again without the founder posting it anything
SaveHeld(a) ==
  /\ held[a].on
  /\ ops' = [ops EXCEPT ![a] = held[a].ops]
  /\ partial' = partial \cup
       {o.about : o \in {u \in Range(ops[a]) \ Range(held[a].ops) : u.type = "add"}}
  /\ seqNext' = IF a = founder THEN held[a].seqNext ELSE seqNext
  /\ held' = [held EXCEPT ![a] = NotHeld]
  /\ UNCHANGED <<outbox, inbox, issued, failures>>

-----------------------------------------------------------------------------
Advance(a) == Post(a) \/ receive(a) \/ SaveHeld(a)

RoomNext ==
  \/ \E m \in Others : Invite(m) \/ roomKickOp(m) \/ roomGrantAdminOp(m)
  \/ \E id \in 0..MaxOps : roomRevokeAdminOp(id)
  \/ \E a \in Agents, m \in Others, id \in 0..MaxOps : AdminInvite(a, m, id)
  \/ \E a \in Agents : PostFails(a) \/ receiveUnsound(a) \/ HoldStore(a)
  \/ \E a \in Agents : Advance(a)

RoomSpec == RoomInit /\ [][RoomNext]_roomVars

-----------------------------------------------------------------------------
(* Properties *)

\* The same ops give the same roster, in whatever order they came (rooms.mjs deriveState),
\* also when the founder has used a number twice.
Convergence ==
  \A a, b \in Agents :
    a < b /\ Range(ops[a]) = Range(ops[b]) => deriveState(ops[a]) = deriveState(ops[b])

\* A member an agent knows the founder has removed comes back only with a later word of the
\* founder: no add that was sent before and arrives late, and no admin, brings it back
\* (rooms.mjs deriveState).  Only the stale store of HoldStore can.
KickHolds ==
  [][\A a \in {b \in Agents : ops'[b] # ops[b]}, m \in Agents :
       LET kick == LatestAbout(ops[a], m)
       IN kick.type = "remove" /\ m \in deriveState(ops'[a]).members /\ ~held[a].on
            => \E o \in Range(ops'[a]) \ Range(ops[a]) :
                 o.type = "add" /\ o.about = m /\ o.by = founder /\ Before(kick, o)]_roomVars

FounderOps(a) == {o \in Range(ops[a]) : o.by = founder}

\* Once the mail has come, everyone in the founder's roster has every op the founder has,
\* unless a post to it failed, it dropped an op (unsound, or for want of its grant or its
\* room), the stale store hid one, or it came in by an admin (core.mjs fanOutOp,
\* bootstrapMember).
Quiet == \A a \in Agents : outbox[a] = {} /\ inbox[a] = <<>> /\ ~held[a].on

AllInformed ==
  Quiet => \A a \in deriveState(ops[founder]).members \ partial : FounderOps(founder) \subseteq FounderOps(a)

=============================================================================
