----------------------------- MODULE AiLoopProofs -----------------------------
(***************************************************************************)
(* AnsweredOnce for any contacts, messages, budgets, windows in the order   *)
(* of the source, and any number of restarts and failures.                 *)
(*                                                                         *)
(* What is sent is no help for an induction: two reservations of one       *)
(* message would both be sent later.  The invariant is about live tokens,  *)
(* those that have been sent or still may be: each of them has its slot in *)
(* the file for as long as its message is young enough to be answered, so  *)
(* that a second reservation finds it; and a slot is cancelled only when   *)
(* its token is dead.  BudgetHeld counts the same live tokens per window.   *)
(***************************************************************************)
EXTENDS AiLoop, SequenceTheorems, FiniteSetTheorems, TLAPS

Toks == [msg : Messages, boot : Nat, at : Nat]
Slots == [token : Toks, did : Contacts, thread : {ThreadOf[m] : m \in Messages}, at : Nat,
          pending : BOOLEAN]

\* Where a message is before its answer is queued, and after
Before == {"reserved", "starting", "streaming"}
Behind == {"sending", "stashed", "over"}
Beyond == Behind \cup {"orphaned"}

\* A token handle() still holds and has not queued.
Held(t) == \E m \in Messages : pc[m] \in Before /\ token[m] = t

\* A token whose answer was sent, or may yet be, and whose slot was not lost.
Live(t) ==
  /\ t \notin wiped
  /\ t \in outbox \/ (t \in sent /\ t \notin misreported) \/ Held(t)

\* Its message is too old to be answered again, or its slot is there.
Slot(t) == \E a \in policy.sends :
  /\ a.token = t /\ a.did = ContactOf[t.msg] /\ a.thread = ThreadOf[t.msg]
  /\ arrived[t.msg] <= a.at /\ a.at <= now
InFile(t) == arrived[t.msg] # NotYet /\ (Recency < now - arrived[t.msg] \/ Slot(t))

Types ==
  /\ now \in Nat /\ boot \in Nat
  /\ arrived \in [Messages -> Int] /\ \A m \in Messages : arrived[m] <= now
  /\ pc \in [Messages -> States]
  /\ token \in [Messages -> Toks \cup {NoToken}]
  /\ DOMAIN policy = {"dial", "sends", "ledger"} /\ policy.sends \subseteq Slots
  /\ outbox \subseteq Toks /\ sent \subseteq Toks
  /\ acks \subseteq [token : Toks, ok : BOOLEAN]
  /\ \A o \in ops : o.op = "draft" \/ (o.op \in {"cancel", "confirm"} /\ o.token \in Toks)

\* Where the message of a token of this life is, once the token has left handle().
Gone(t, states) == t.boot <= boot /\ (t.boot = boot => pc[t.msg] \in states)

Placed ==
  /\ \A m \in Messages : token[m] # NoToken => token[m].msg = m /\ token[m].boot = boot
  /\ \A t \in outbox \cup sent : Gone(t, Behind)
  /\ \A a \in acks : Gone(a.token, Behind)
  /\ \A o \in ops : o.op # "draft" => Gone(o.token, Beyond)
  /\ outbox \cap sent = {}

Filed == \A t \in Toks : Live(t) => InFile(t)

Unique ==
  \A s, t \in Toks : Live(s) /\ Live(t) /\ s.msg = t.msg /\ ThreadOf[s.msg] # NoThread => s = t

\* Nobody gives a slot back whose answer may arrive.
FailedAreDead ==
  /\ \A o \in ops : o.op = "cancel" => ~Live(o.token)
  /\ \A a \in acks : ~a.ok => ~Live(a.token)

IInv == Types /\ Placed /\ Filed /\ Unique /\ FailedAreDead

-----------------------------------------------------------------------------
(* The file *)

LEMMA NoTokenIsNone == NoToken \notin Toks
<1>1. "boot" \notin DOMAIN NoToken BY DEF NoToken
<1>2. \A t \in Toks : "boot" \in DOMAIN t BY DEF Toks
<1> QED BY <1>1, <1>2

\* What each operation makes of the slots
LEMMA PruneSends ==
  ASSUME NEW p, DOMAIN p = {"dial", "sends", "ledger"}, NEW n
  PROVE  /\ DOMAIN prune(p, n) = DOMAIN p
         /\ prune(p, n).sends = {a \in p.sends : /\ within(a.at, n, Retention)
                                                 /\ a.pending => within(a.at, n, Stale)}
         /\ prune(p, n).dial = p.dial /\ prune(p, n).ledger = p.ledger
BY DEF prune

LEMMA CancelSends ==
  ASSUME NEW p, DOMAIN p = {"dial", "sends", "ledger"}, NEW did, NEW t
  PROVE  /\ DOMAIN cancel(p, did, t) = DOMAIN p
         /\ cancel(p, did, t).sends = {a \in p.sends : a.did # did \/ a.token # t \/ ~a.pending}
         /\ cancel(p, did, t).ledger = p.ledger
BY DEF cancel

LEMMA DialSends ==
  ASSUME NEW p, DOMAIN p = {"dial", "sends", "ledger"}, NEW did, NEW v
  PROVE  /\ DOMAIN set_autonomy(p, did, v) = DOMAIN p
         /\ set_autonomy(p, did, v).sends = p.sends
         /\ set_autonomy(p, did, v).ledger = p.ledger
BY DEF set_autonomy

\* A confirmed slot keeps everything but its flag.
LEMMA ConfirmSends ==
  ASSUME NEW p, DOMAIN p = {"dial", "sends", "ledger"}, p.sends \subseteq Slots,
         NEW t \in Toks, NEW did \in Contacts, NEW thread \in {ThreadOf[m] : m \in Messages},
         NEW n \in Nat
  PROVE  LET q == confirm(p, did, t, thread, n)
         IN /\ DOMAIN q = DOMAIN p /\ q.sends \subseteq Slots
            /\ \A a \in p.sends : \E b \in q.sends :
                 b.token = a.token /\ b.did = a.did /\ b.thread = a.thread /\ b.at = a.at
<1> DEFINE mine == {a \in SendsOf(p, did) : a.token = t}
           done(a) == [a EXCEPT !.pending = FALSE]
           new == [token |-> t, did |-> did, thread |-> thread, at |-> n, pending |-> FALSE]
           kept == IF mine # {} THEN {done(a) : a \in mine} ELSE {new}
           q == confirm(p, did, t, thread, n)
<1>1. q.sends = (p.sends \ mine) \cup kept /\ DOMAIN q = DOMAIN p BY DEF confirm
<1>2. mine \subseteq p.sends BY DEF SendsOf
<1>3. \A a \in Slots : /\ done(a) \in Slots
                       /\ done(a).token = a.token /\ done(a).did = a.did
                       /\ done(a).thread = a.thread /\ done(a).at = a.at
  BY DEF Slots
<1>4. new \in Slots BY DEF Slots
<1> HIDE DEF mine, done, new
<1>5. kept \subseteq Slots BY <1>2, <1>3, <1>4
<1>6. ASSUME NEW a \in p.sends
      PROVE  \E b \in q.sends :
               b.token = a.token /\ b.did = a.did /\ b.thread = a.thread /\ b.at = a.at
  <2>1. CASE a \in mine BY <1>1, <1>3, <2>1
  <2>2. CASE a \notin mine BY <1>1, <2>2
  <2> QED BY <2>1, <2>2
<1> QED BY <1>1, <1>5, <1>6


-----------------------------------------------------------------------------
(* What steps have in common *)

\* The file keeps what live tokens rely on.
FileSound ==
  /\ DOMAIN policy' = {"dial", "sends", "ledger"} /\ policy'.sends \subseteq Slots
  /\ \A t \in Toks : Live(t) /\ InFile(t) => InFile(t)'

LEMMA FileUnchanged ==
  ASSUME Types, UNCHANGED <<now, arrived, policy>>
  PROVE  FileSound
BY DEF Types, FileSound, InFile, Slot

\* A step that brings no token to life
LEMMA NoNewLife ==
  ASSUME Filed, Unique, FileSound, \A t \in Toks : Live(t)' => Live(t)
  PROVE  Filed' /\ Unique'
BY DEF Filed, Unique, FileSound

\* A token that has left handle() stays where it is.
LEMMA StaysGone ==
  ASSUME Types, boot' = boot, NEW set,
         \A m \in Messages : pc[m] \in set => pc'[m] \in set
  PROVE  \A t \in Toks : Gone(t, set) => Gone(t, set)'
BY DEF Types, Gone, Toks

\* One message's own step, which queues nothing
LEMMA Moves ==
  ASSUME IInv, NEW m \in Messages, NEW s \in States, Goto(m, s), FileSound,
         UNCHANGED <<now, boot, arrived, ops, outbox, acks, sent, misreported, wiped>>,
         token' = token \/ token' = [token EXCEPT ![m] = NoToken],
         s \in Before => pc[m] \in Before \/ token'[m] = NoToken,
         pc[m] \in Beyond => s \in Behind
  PROVE  IInv'
<1>1. pc' = [pc EXCEPT ![m] = s] BY DEF Goto
<1>2. Types' BY <1>1 DEF IInv, Types, FileSound
<1>3. \A n \in Messages : token'[n] # NoToken => token'[n] = token[n] BY DEF IInv, Types
<1>4. Placed'
  <2>1. \A t \in Toks : /\ Gone(t, Behind) => Gone(t, Behind)'
                        /\ Gone(t, Beyond) => Gone(t, Beyond)'
    BY <1>1, StaysGone DEF IInv, Types, Behind, Beyond
  <2> QED BY <1>3, <2>1 DEF IInv, Types, Placed, Behind, Beyond
<1>5. \A t \in Toks : Live(t)' => Live(t)
  <2>1. \A n \in Messages : pc'[n] \in Before => pc[n] \in Before \/ token'[n] = NoToken
    BY <1>1 DEF IInv, Types
  <2> QED BY <1>3, <2>1, NoTokenIsNone DEF Live, Held, Before
<1>6. Filed' /\ Unique' BY <1>5, NoNewLife DEF IInv
<1>7. FailedAreDead' BY <1>5 DEF IInv, FailedAreDead, Types
<1> QED BY <1>2, <1>4, <1>6, <1>7 DEF IInv

-----------------------------------------------------------------------------
(* Reserving *)

\* Pruning drops no slot that an answerable message could need.
LEMMA PruneKeeps ==
  ASSUME Types, NEW t \in Toks, arrived[t.msg] # NotYet, InFile(t)
  PROVE  \/ Recency < now - arrived[t.msg]
         \/ \E a \in prune(policy, now).sends :
              /\ a.token = t /\ a.did = ContactOf[t.msg] /\ a.thread = ThreadOf[t.msg]
              /\ arrived[t.msg] <= a.at /\ a.at <= now
<1> SUFFICES ASSUME ~(Recency < now - arrived[t.msg]), Slot(t)
             PROVE  \E a \in prune(policy, now).sends :
                      /\ a.token = t /\ a.did = ContactOf[t.msg] /\ a.thread = ThreadOf[t.msg]
                      /\ arrived[t.msg] <= a.at /\ a.at <= now
  BY DEF InFile
<1>1. PICK a \in policy.sends :
        /\ a.token = t /\ a.did = ContactOf[t.msg] /\ a.thread = ThreadOf[t.msg]
        /\ arrived[t.msg] <= a.at /\ a.at <= now
  BY DEF Slot
<1>2. arrived[t.msg] \in Int /\ now \in Nat BY DEF Types, Toks
<1>3. a.at \in Nat BY DEF Types, Slots
<1>4. /\ Recency \in Nat /\ Stale \in Nat /\ Retention \in Nat
      /\ Recency <= Stale /\ Recency <= Retention
  BY WindowOrder
<1>5. now - a.at \in 0 .. Stale /\ now - a.at \in 0 .. Retention BY <1>1, <1>2, <1>3, <1>4
<1>6. a \in prune(policy, now).sends BY <1>5, PruneSends DEF Types, within
<1> QED BY <1>1, <1>6

\* What reserve returns
LEMMA ReserveResult ==
  ASSUME Types, NEW m \in Messages, arrived[m] # NotYet
  PROVE  LET r == reserve(policy, ContactOf[m], ThreadOf[m], arrived[m], now, Token(m))
             q == prune(policy, now)
             slot == [token |-> Token(m), did |-> ContactOf[m], thread |-> ThreadOf[m],
                      at |-> now, pending |-> TRUE]
         IN /\ DOMAIN r.policy = {"dial", "sends", "ledger"}
            /\ r.decision = decide(q, ContactOf[m], ThreadOf[m], arrived[m], now)
            /\ r.policy.sends = q.sends \cup (IF r.decision = "auto" THEN {slot} ELSE {})
            /\ r.policy.ledger = policy.ledger
<1> DEFINE q == prune(policy, now)
           slot == [token |-> Token(m), did |-> ContactOf[m], thread |-> ThreadOf[m],
                    at |-> now, pending |-> TRUE]
           d == decide(q, ContactOf[m], ThreadOf[m], arrived[m], now)
<1>1. DOMAIN q = {"dial", "sends", "ledger"} BY PruneSends DEF Types
<1>2. /\ DOMAIN [q EXCEPT !.sends = @ \cup {slot}] = DOMAIN q
      /\ [q EXCEPT !.sends = @ \cup {slot}].sends = q.sends \cup {slot}
      /\ [q EXCEPT !.sends = @ \cup {slot}].ledger = q.ledger
  <2> HIDE DEF q, slot
  <2> QED BY <1>1
<1> HIDE DEF slot, q
<1>3. LET r == [decision |-> d, policy |-> IF d = "auto" THEN [q EXCEPT !.sends = @ \cup {slot}] ELSE q]
      IN /\ DOMAIN r.policy = {"dial", "sends", "ledger"}
         /\ r.decision = d
         /\ r.policy.sends = q.sends \cup (IF r.decision = "auto" THEN {slot} ELSE {})
         /\ r.policy.ledger = q.ledger
  <2> HIDE DEF d
  <2>1. CASE d = "auto" BY <1>1, <1>2, <2>1
  <2>2. CASE d # "auto" BY <1>1, <2>2
  <2> QED BY <2>1, <2>2
<1>4. q.ledger = policy.ledger BY PruneSends DEF Types, q
<1> QED BY <1>3, <1>4 DEF reserve, q, slot, d

\* A live token of the thread keeps decide from answering again.
LEMMA NotTwice ==
  ASSUME Types, Filed, NEW m \in Messages, ThreadOf[m] # NoThread,
         NEW t \in Toks, Live(t), t.msg = m,
         decide(prune(policy, now), ContactOf[m], ThreadOf[m], arrived[m], now) = "auto"
  PROVE  FALSE
<1> DEFINE q == prune(policy, now)
<1>1. /\ arrived[m] # NotYet /\ arrived[m] \in Int /\ now \in Nat /\ InFile(t)
  BY DEF Filed, InFile, Types
<1>2. ~JustAnswered(q, ContactOf[m], ThreadOf[m], now) /\ within(arrived[m], now, Recency)
  BY DEF decide
<1>3. Recency \in Nat /\ Structural \in Nat /\ Recency <= Structural BY WindowOrder
<1>4. ~(Recency < now - arrived[m]) BY <1>1, <1>2, <1>3 DEF within
<1>5. PICK a \in q.sends :
        /\ a.token = t /\ a.did = ContactOf[t.msg] /\ a.thread = ThreadOf[t.msg]
        /\ arrived[t.msg] <= a.at /\ a.at <= now
  BY <1>1, <1>4, PruneKeeps
<1>6. a.at \in Nat BY PruneSends DEF Types, Slots
<1>7. within(a.at, now, Structural) BY <1>1, <1>3, <1>4, <1>5, <1>6 DEF within
<1>8. a \in SendsOf(q, ContactOf[m]) BY <1>5 DEF SendsOf
<1> QED BY <1>2, <1>5, <1>7, <1>8 DEF JustAnswered

LEMMA ReserveStep ==
  ASSUME IInv, NEW m \in Messages, Reserve(m)
  PROVE  IInv'
<1> DEFINE q == prune(policy, now)
           d == decide(q, ContactOf[m], ThreadOf[m], arrived[m], now)
<1>1. PICK slot : slot = [token |-> Token(m), did |-> ContactOf[m], thread |-> ThreadOf[m],
                          at |-> now, pending |-> TRUE]
  OBVIOUS
<1>2. PICK new : new = Token(m) OBVIOUS
<1>3. new \in Toks /\ new.msg = m /\ new.boot = boot BY <1>2 DEF Token, Toks, IInv, Types
<1>4. slot \in Slots /\ slot.token = new /\ slot.did = ContactOf[m] /\ slot.thread = ThreadOf[m]
      /\ slot.at = now
  BY <1>1, <1>2, <1>3, Mailbox DEF Slots, IInv, Types
<1>5. /\ arrived[m] # NotYet /\ pc[m] = "new"
      /\ UNCHANGED <<now, boot, arrived, ops, outbox, acks, sent, misreported, wiped>>
  BY DEF Reserve
<1>6. /\ DOMAIN policy' = {"dial", "sends", "ledger"}
      /\ policy'.sends = q.sends \cup (IF d = "auto" THEN {slot} ELSE {})
  BY <1>1, <1>5, ReserveResult DEF Reserve, Write, IInv
<1>7. /\ token' = [token EXCEPT ![m] = IF d = "auto" THEN new ELSE NoToken]
      /\ pc' = [pc EXCEPT ![m] = IF d = "off" THEN "over" ELSE "reserved"]
  BY <1>2, <1>5, ReserveResult DEF Reserve, Goto, IInv
<1>8. FileSound
  <2>1. policy'.sends \subseteq Slots BY <1>4, <1>6, PruneSends DEF IInv, Types
  <2>2. ASSUME NEW t \in Toks, InFile(t) PROVE InFile(t)'
    <3>1. \/ Recency < now - arrived[t.msg]
          \/ \E a \in q.sends :
               /\ a.token = t /\ a.did = ContactOf[t.msg] /\ a.thread = ThreadOf[t.msg]
               /\ arrived[t.msg] <= a.at /\ a.at <= now
      BY <2>2, PruneKeeps DEF IInv, InFile
    <3> QED BY <1>5, <1>6, <2>2, <3>1 DEF InFile, Slot
  <2> QED BY <1>6, <2>1, <2>2 DEF FileSound
<1> HIDE DEF d
<1>9. CASE d # "auto"
  <2>1. PICK s \in States : s = IF d = "off" THEN "over" ELSE "reserved" BY DEF States, Working
  <2>2. Goto(m, s) BY <1>7, <2>1 DEF Goto
  <2>3. token' = [token EXCEPT ![m] = NoToken] BY <1>7, <1>9
  <2>4. token'[m] = NoToken BY <2>3 DEF IInv, Types
  <2> QED BY <1>5, <1>8, <2>1, <2>2, <2>3, <2>4, Moves DEF Beyond, Behind
<1>10. CASE d = "auto"
  <2>1. /\ token' = [token EXCEPT ![m] = new]
        /\ pc' = [pc EXCEPT ![m] = "reserved"]
    BY <1>7, <1>10
  <2>2. Types' BY <1>3, <1>5, <1>8, <2>1 DEF IInv, Types, FileSound, States, Working
  <2>3. Placed'
    <3>1. \A t \in Toks : /\ Gone(t, Behind) => Gone(t, Behind)'
                          /\ Gone(t, Beyond) => Gone(t, Beyond)'
      BY <1>5, <2>1, StaysGone DEF IInv, Types, Behind, Beyond
    <3>2. \A n \in Messages : token'[n] # NoToken => token'[n].msg = n /\ token'[n].boot = boot
      BY <1>3, <2>1 DEF IInv, Types, Placed
    <3> QED BY <1>5, <3>1, <3>2 DEF IInv, Types, Placed
  <2>4. \A t \in Toks : Live(t)' => Live(t) \/ t = new
    BY <1>5, <2>1 DEF IInv, Types, Live, Held, Before
  <2>5. InFile(new)'
    <3>1. slot \in policy'.sends BY <1>6, <1>10
    <3>2. arrived[m] <= now BY DEF IInv, Types
    <3> QED BY <1>3, <1>4, <1>5, <3>1, <3>2 DEF InFile, Slot, IInv, Types
  <2>6. Filed' BY <1>8, <2>4, <2>5 DEF IInv, Filed, FileSound
  <2>7. Unique'
    <3>1. \A t \in Toks : Live(t) /\ t.msg = m => ThreadOf[m] = NoThread
      BY <1>10, NotTwice DEF IInv, d
    <3> QED BY <1>3, <2>4, <3>1 DEF IInv, Unique
  <2>8. FailedAreDead'
    <3>1. \A o \in ops : o.op = "cancel" => o.token # new
      BY <1>3, <1>5 DEF IInv, Types, Placed, Gone, Beyond, Behind
    <3>2. \A a \in acks : a.token # new
      BY <1>3, <1>5 DEF IInv, Types, Placed, Gone, Behind
    <3> QED BY <1>5, <2>4, <3>1, <3>2 DEF IInv, Types, FailedAreDead
  <2> QED BY <2>2, <2>3, <2>6, <2>7, <2>8 DEF IInv
<1> QED BY <1>9, <1>10

-----------------------------------------------------------------------------
(* The other steps of the loop *)

LEMMA SkipStep == ASSUME IInv, NEW m \in Messages, Skip(m) PROVE IInv'
BY FileUnchanged, Moves DEF Skip, IInv, history, replies, States, Working, Before, Beyond, Behind

LEMMA ReserveFailsStep == ASSUME IInv, NEW m \in Messages, ReserveFails(m) PROVE IInv'
BY FileUnchanged, Moves DEF ReserveFails, IInv, replies, States, Working, Before, Beyond, Behind

\* A draft, whatever token the message had
LEMMA ReserveUnreadStep == ASSUME IInv, NEW m \in Messages, ReserveUnread(m) PROVE IInv'
<1>1. token' = [token EXCEPT ![m] = NoToken] BY DEF ReserveUnread
<1>2. token'[m] = NoToken BY <1>1 DEF IInv, Types
<1> QED BY <1>1, <1>2, FileUnchanged, Moves
        DEF ReserveUnread, IInv, replies, States, Working, Before, Beyond, Behind

LEMMA RecordStep == ASSUME IInv, NEW m \in Messages, Record(m) PROVE IInv'
BY FileUnchanged, Moves DEF Record, IInv, history, replies, States, Working, Before, Beyond, Behind

LEMMA StashStep == ASSUME IInv, NEW m \in Messages, Stash(m) PROVE IInv'
BY FileUnchanged, Moves DEF Stash, IInv, history, replies, States, Working, Before, Beyond, Behind

LEMMA StreamStartsStep == ASSUME IInv, NEW m \in Messages, StreamStarts(m) PROVE IInv'
<1>1. FileSound BY FileUnchanged DEF StreamStarts, IInv
<1>2. UNCHANGED <<now, boot, arrived, ops, outbox, acks, sent, misreported, wiped>>
  BY DEF StreamStarts, history, replies
<1>3. CASE pc[m] = "starting"
  BY <1>1, <1>2, <1>3, Moves DEF StreamStarts, States, Working, Before, Beyond, Behind
<1>4. CASE pc[m] = "orphaned"
  BY <1>1, <1>2, <1>4, Moves DEF StreamStarts, Leave, States, Working, Before, Beyond, Behind
<1> QED BY <1>3, <1>4 DEF StreamStarts

\* A token of a message that is not behind handle() is not queued.
LEMMA NotQueued ==
  ASSUME Types, Placed, NEW m \in Messages, pc[m] \notin Behind, token[m] # NoToken
  PROVE  token[m] \in Toks /\ token[m] \notin outbox /\ token[m] \notin sent
BY DEF Types, Placed, Gone

\* The message is given up and its slot given back.
LEMMA Release ==
  ASSUME IInv, NEW m \in Messages, pc[m] \in {"starting", "orphaned", "streaming"},
         Leave(m), ops' = ops \cup Cancelled(m),
         UNCHANGED <<now, boot, arrived, policy, outbox, acks, sent, misreported, wiped>>
  PROVE  IInv'
<1>1. pc' = [pc EXCEPT ![m] = "over"] /\ token' = [token EXCEPT ![m] = NoToken]
  BY DEF Leave, Goto
<1>2. \A o \in Cancelled(m) :
        /\ token[m] # NoToken /\ o.token = token[m] /\ o.token \in Toks /\ o.op = "cancel"
        /\ o.token \notin outbox /\ o.token \notin sent
  BY NotQueued DEF Cancelled, IInv, Behind
<1>3. Types' BY <1>1, <1>2 DEF IInv, Types, States
<1>4. Placed'
  <2>1. \A t \in Toks : /\ Gone(t, Behind) => Gone(t, Behind)'
                        /\ Gone(t, Beyond) => Gone(t, Beyond)'
    BY <1>1, StaysGone DEF IInv, Types, Behind, Beyond
  <2>2. \A o \in Cancelled(m) : Gone(o.token, Beyond)'
    BY <1>1, <1>2 DEF IInv, Types, Placed, Gone, Beyond, Behind
  <2> QED BY <1>1, <2>1, <2>2 DEF IInv, Types, Placed
<1>5. \A t \in Toks : Live(t)' => Live(t)
  BY <1>1, NoTokenIsNone DEF IInv, Types, Live, Held, Before
<1>6. Filed' /\ Unique' BY <1>5, NoNewLife, FileUnchanged DEF IInv
<1>7. FailedAreDead'
  <2>1. \A o \in Cancelled(m) : ~Held(o.token)'
    BY <1>1, <1>2 DEF IInv, Types, Placed, Held, Before
  <2>2. \A o \in Cancelled(m) : ~Live(o.token)' BY <1>2, <2>1 DEF Live
  <2> QED BY <1>5, <2>2 DEF IInv, Types, FailedAreDead
<1> QED BY <1>3, <1>4, <1>6, <1>7 DEF IInv

LEMMA FailStep == ASSUME IInv, NEW m \in Messages, Fail(m) PROVE IInv'
BY Release DEF Fail, replies

LEMMA DispatchFailsStep == ASSUME IInv, NEW m \in Messages, DispatchFails(m) PROVE IInv'
BY Release DEF DispatchFails, replies

\* A draft moves on as the others; an answer's token goes from the loop to the queue.
LEMMA FinishStep == ASSUME IInv, NEW m \in Messages, Finish(m) PROVE IInv'
<1>1. /\ pc[m] = "streaming"
      /\ UNCHANGED <<now, boot, arrived, policy, token, ops, acks, sent, misreported, wiped>>
  BY DEF Finish, history, replies
<1>2. CASE token[m] = NoToken
  BY <1>1, <1>2, FileUnchanged, Moves DEF Finish, IInv, States, Working, Before, Beyond, Behind
<1>3. CASE token[m] # NoToken
  <2>1. pc' = [pc EXCEPT ![m] = "sending"] /\ outbox' = outbox \cup {token[m]}
    BY <1>3 DEF Finish, Goto
  <2>2. token[m] \in Toks /\ token[m] \notin sent BY <1>1, <1>3, NotQueued DEF IInv, Behind
  <2>3. Types' BY <1>1, <2>1, <2>2 DEF IInv, Types, States, Working
  <2>4. Placed'
    <3>1. \A t \in Toks : /\ Gone(t, Behind) => Gone(t, Behind)'
                          /\ Gone(t, Beyond) => Gone(t, Beyond)'
      BY <1>1, <2>1, StaysGone DEF IInv, Types, Behind, Beyond
    <3>2. Gone(token[m], Behind)'
      BY <1>1, <1>3, <2>1, <2>2 DEF IInv, Types, Placed, Gone, Behind, Toks
    <3> QED BY <1>1, <2>1, <2>2, <3>1, <3>2 DEF IInv, Types, Placed
  <2>5. \A t \in Toks : Live(t)' => Live(t)
    BY <1>1, <2>1 DEF IInv, Types, Live, Held, Before
  <2>6. Filed' /\ Unique' BY <1>1, <2>5, NoNewLife, FileUnchanged DEF IInv
  <2>7. FailedAreDead' BY <1>1, <2>5 DEF IInv, Types, FailedAreDead
  <2> QED BY <2>3, <2>4, <2>6, <2>7 DEF IInv
<1> QED BY <1>2, <1>3

-----------------------------------------------------------------------------
(* Answers, and the relay *)

LEMMA AcknowledgeStep == ASSUME IInv, NEW a \in acks, Acknowledge(a) PROVE IInv'
<1>1. /\ acks' \subseteq acks /\ a.token \in Toks /\ a.ok \in BOOLEAN
      /\ UNCHANGED <<now, boot, arrived, policy, outbox, sent, misreported, wiped>>
  BY DEF Acknowledge, replies, IInv, Types
<1>2. PICK m : m = a.token.msg OBVIOUS
<1>3. m \in Messages BY <1>1, <1>2 DEF Toks
<1>4. PICK o : o = [op |-> IF a.ok THEN "confirm" ELSE "cancel", token |-> a.token] OBVIOUS
<1>5. \/ UNCHANGED <<pc, token, ops>>
      \/ /\ pc[m] = "stashed" /\ ops' = ops \cup {o}
         /\ pc' = [pc EXCEPT ![m] = "over"] /\ token' = [token EXCEPT ![m] = NoToken]
  BY <1>2, <1>4 DEF Acknowledge, Leave, Goto
<1>6. /\ o.token = a.token /\ o.op \in {"confirm", "cancel"} /\ (o.op = "cancel" => ~a.ok)
  BY <1>4
<1>7. Types' BY <1>1, <1>3, <1>5, <1>6 DEF IInv, Types, States
<1>8. \A t \in Toks : /\ Gone(t, Behind) => Gone(t, Behind)'
                      /\ Gone(t, Beyond) => Gone(t, Beyond)'
  BY <1>1, <1>3, <1>5, StaysGone DEF IInv, Types, Behind, Beyond
<1>9. Gone(a.token, Beyond)'
  <2>1. Gone(a.token, Behind)' BY <1>1, <1>8 DEF IInv, Placed
  <2> QED BY <2>1 DEF Gone, Beyond
<1>10. \A n \in Messages : token'[n] # NoToken => token'[n] = token[n]
  BY <1>3, <1>5 DEF IInv, Types
<1>11. Placed' BY <1>1, <1>5, <1>6, <1>8, <1>9, <1>10 DEF IInv, Types, Placed
<1>12. \A t \in Toks : Live(t)' => Live(t)
  BY <1>1, <1>3, <1>5, <1>10, NoTokenIsNone DEF IInv, Types, Live, Held, Before
<1>13. Filed' /\ Unique' BY <1>1, <1>12, NoNewLife, FileUnchanged DEF IInv
<1>14. FailedAreDead' BY <1>1, <1>5, <1>6, <1>12 DEF IInv, Types, FailedAreDead
<1> QED BY <1>7, <1>11, <1>13, <1>14 DEF IInv

\* Only the token's own place changes: from the queue to the relay, or to nowhere.
LEMMA RelayStep == ASSUME IInv, NEW t \in outbox, Relay(t) PROVE IInv'
<1>1. /\ outbox' = outbox \ {t} /\ t \in Toks /\ t \notin sent
      /\ UNCHANGED <<now, boot, arrived, policy, pc, token, ops, wiped>>
  BY DEF Relay, IInv, Types, Placed
<1>2. PICK accepted \in BOOLEAN, answer \in {"ok", "err", "none"} :
        /\ answer = "ok" => accepted
        /\ t.boot # boot => answer = "none"
        /\ sent' = IF accepted THEN sent \cup {t} ELSE sent
        /\ misreported' = IF accepted /\ answer = "err" THEN misreported \cup {t} ELSE misreported
        /\ acks' = IF answer = "none" THEN acks
                   ELSE acks \cup {[token |-> t, ok |-> answer = "ok"]}
  BY DEF Relay
<1>3. PICK b : b = [token |-> t, ok |-> answer = "ok"] OBVIOUS
<1>4. /\ b.token = t /\ b \in [token : Toks, ok : BOOLEAN] /\ (~b.ok <=> answer # "ok")
      /\ acks' \subseteq acks \cup {b} /\ (answer = "none" => acks' = acks)
  BY <1>1, <1>2, <1>3
<1>5. sent' \subseteq sent \cup {t} /\ (sent' # sent => accepted) BY <1>2
<1>6. Types' BY <1>1, <1>4, <1>5 DEF IInv, Types
<1>7. \A u, set : Gone(u, set)' <=> Gone(u, set) BY <1>1 DEF Gone
<1>8. Placed' BY <1>1, <1>4, <1>5, <1>7 DEF IInv, Types, Placed
<1>9. \A u \in Toks : Live(u)' => Live(u)
  <2>1. \A u : Held(u)' <=> Held(u) BY <1>1 DEF Held
  <2> QED BY <1>1, <1>2, <1>5, <2>1 DEF Live
<1>10. Filed' /\ Unique' BY <1>1, <1>9, NoNewLife, FileUnchanged DEF IInv
<1>11. answer = "err" => ~Live(t)'
  <2>1. ~Held(t) BY <1>1, NoTokenIsNone DEF IInv, Types, Placed, Gone, Held, Before, Behind
  <2>2. ~Held(t)' BY <1>1, <2>1 DEF Held
  <2>3. answer = "err" => t \notin sent' \/ t \in misreported' BY <1>1, <1>2
  <2> QED BY <1>1, <2>2, <2>3 DEF Live
<1>12. FailedAreDead'
  <2>1. \A o \in ops : o.op = "cancel" => ~Live(o.token)'
    BY <1>9 DEF IInv, Types, FailedAreDead
  <2>2. \A a \in acks' : ~a.ok => ~Live(a.token)'
    BY <1>2, <1>4, <1>9, <1>11 DEF IInv, Types, FailedAreDead
  <2> QED BY <1>1, <2>1, <2>2 DEF FailedAreDead
<1> QED BY <1>6, <1>8, <1>10, <1>12 DEF IInv

-----------------------------------------------------------------------------
(* Mail, users, the clock, the file *)

LEMMA ArriveStep == ASSUME IInv, NEW m \in Messages, Arrive(m) PROVE IInv'
<1>1. /\ arrived[m] = NotYet /\ arrived' = [arrived EXCEPT ![m] = now]
      /\ UNCHANGED <<now, boot, policy, pc, token, ops, outbox, acks, sent, misreported, wiped>>
  BY DEF Arrive, history, replies
<1>2. Types' BY <1>1 DEF IInv, Types
<1>3. \A t, set : Gone(t, set)' <=> Gone(t, set) BY <1>1 DEF Gone
<1>4. Placed' BY <1>1, <1>3 DEF IInv, Placed
<1>5. \A t : Live(t)' <=> Live(t) BY <1>1 DEF Live, Held
<1>6. \A t \in Toks : InFile(t) => InFile(t)'
  BY <1>1 DEF IInv, Types, InFile, Slot, Toks
<1>7. Filed' /\ Unique' /\ FailedAreDead'
  BY <1>1, <1>5, <1>6 DEF IInv, Filed, Unique, FailedAreDead
<1> QED BY <1>2, <1>4, <1>7 DEF IInv

\* Time only takes slots out of reach of mail that is too old as well.
LEMMA TickStep == ASSUME IInv, Tick PROVE IInv'
<1>1. /\ now' = now + 1
      /\ UNCHANGED <<boot, arrived, policy, pc, token, ops, outbox, acks, sent, misreported, wiped>>
  BY DEF Tick, history, replies
<1>2. Types' BY <1>1 DEF IInv, Types
<1>3. \A t, set : Gone(t, set)' <=> Gone(t, set) BY <1>1 DEF Gone
<1>4. Placed' BY <1>1, <1>3 DEF IInv, Placed
<1>5. \A t : Live(t)' <=> Live(t) BY <1>1 DEF Live, Held
<1>6. ASSUME NEW t \in Toks, InFile(t) PROVE InFile(t)'
  <2>1. arrived[t.msg] \in Int /\ now \in Nat /\ Recency \in Nat
    BY WindowOrder DEF IInv, Types, Toks
  <2>2. policy.sends \subseteq Slots /\ \A a \in Slots : a.at \in Nat BY DEF IInv, Types, Slots
  <2>3. Slot(t) => Slot(t)' BY <1>1, <2>1, <2>2 DEF Slot
  <2> QED BY <1>1, <1>6, <2>1, <2>3 DEF InFile
<1>7. Filed' /\ Unique' /\ FailedAreDead'
  BY <1>1, <1>5, <1>6 DEF IInv, Filed, Unique, FailedAreDead
<1> QED BY <1>2, <1>4, <1>7 DEF IInv

\* Whatever else is written to the file, when no live slot is taken
LEMMA OnlyTheFile ==
  ASSUME IInv, FileSound, ops' \subseteq ops,
         UNCHANGED <<now, boot, arrived, pc, token, outbox, acks, sent, misreported, wiped>>
  PROVE  IInv'
<1>1. Types' BY DEF IInv, Types, FileSound
<1>2. \A t, set : Gone(t, set)' <=> Gone(t, set) BY DEF Gone
<1>3. Placed' BY <1>2 DEF IInv, Placed
<1>4. \A t : Live(t)' <=> Live(t) BY DEF Live, Held
<1>5. Filed' /\ Unique' BY <1>4, NoNewLife DEF IInv
<1>6. FailedAreDead' BY <1>4 DEF IInv, FailedAreDead
<1> QED BY <1>1, <1>3, <1>5, <1>6 DEF IInv

LEMMA DialKeeps ==
  ASSUME Types, NEW c, NEW v, policy' = set_autonomy(policy, c, v), UNCHANGED <<now, arrived>>
  PROVE  FileSound
<1>1. DOMAIN policy' = DOMAIN policy /\ policy'.sends = policy.sends BY DialSends DEF Types
<1>2. \A t \in Toks : InFile(t) => InFile(t)' BY <1>1 DEF InFile, Slot
<1> QED BY <1>1, <1>2 DEF FileSound, Types

LEMMA SetDialStep == ASSUME IInv, NEW c, SetDial(c) PROVE IInv'
<1>1. FileSound BY DialKeeps DEF SetDial, Write, IInv
<1> QED BY <1>1, OnlyTheFile DEF SetDial

\* What was in the file is live no more.
LEMMA LoseFileStep == ASSUME IInv, LoseFile PROVE IInv'
<1>1. /\ UNCHANGED <<now, boot, arrived, pc, token, ops, outbox, acks, sent, misreported>>
      /\ DOMAIN policy' = {"dial", "sends", "ledger"} /\ policy'.sends = {}
      /\ wiped' = wiped \cup {a.token : a \in policy.sends}
  BY DEF LoseFile, default
<1>2. Types' BY <1>1 DEF IInv, Types
<1>3. \A t, set : Gone(t, set)' <=> Gone(t, set) BY <1>1 DEF Gone
<1>4. Placed' BY <1>1, <1>3 DEF IInv, Placed
<1>5. \A t : Live(t)' => Live(t) /\ t \notin wiped' BY <1>1 DEF Live, Held
<1>6. \A t \in Toks : InFile(t) /\ t \notin wiped' => InFile(t)' BY <1>1 DEF InFile, Slot
<1>7. Filed' BY <1>5, <1>6 DEF IInv, Filed
<1>8. Unique' /\ FailedAreDead' BY <1>1, <1>5 DEF IInv, Unique, FailedAreDead
<1> QED BY <1>2, <1>4, <1>7, <1>8 DEF IInv

LEMMA ExecuteStep == ASSUME IInv, NEW o \in ops, Execute(o) PROVE IInv'
<1>1. /\ ops' \subseteq ops
      /\ UNCHANGED <<now, boot, arrived, pc, token, outbox, acks, sent, misreported, wiped>>
  BY DEF Execute
<1>2. FileSound
  <2>1. CASE UNCHANGED policy BY <1>1, <2>1, FileUnchanged DEF IInv
  <2>2. CASE o.op = "draft" /\ policy' = set_autonomy(policy, o.did, "draft")
    BY <1>1, <2>2, DialKeeps DEF IInv
  <2>3. CASE o.op = "cancel" /\ policy' = cancel(policy, ContactOf[o.token.msg], o.token)
    <3>1. PICK c, t : c = ContactOf[o.token.msg] /\ t = o.token OBVIOUS
    <3>2. /\ DOMAIN policy' = DOMAIN policy
          /\ policy'.sends = {a \in policy.sends : a.did # c \/ a.token # t \/ ~a.pending}
      BY <2>3, <3>1, CancelSends DEF IInv, Types
    <3>3. ~Live(t) BY <2>3, <3>1 DEF IInv, FailedAreDead
    <3>4. ASSUME NEW u \in Toks, Live(u), InFile(u) PROVE InFile(u)'
      <4>1. u # t BY <3>3, <3>4
      <4>2. Slot(u) => Slot(u)' BY <1>1, <3>2, <4>1 DEF Slot
      <4> QED BY <1>1, <3>4, <4>2 DEF InFile
    <3> QED BY <3>2, <3>4 DEF FileSound, IInv, Types
  <2>4. CASE /\ o.op = "confirm"
             /\ policy' = confirm(policy, ContactOf[o.token.msg], o.token, ThreadOf[o.token.msg], now)
    <3>1. o.token \in Toks /\ now \in Nat BY <2>4 DEF IInv, Types
    <3>2. PICK m \in Messages : m = o.token.msg BY <3>1 DEF Toks
    <3>3. ContactOf[m] \in Contacts /\ ThreadOf[m] \in {ThreadOf[n] : n \in Messages} BY Mailbox
    <3>4. /\ DOMAIN policy' = DOMAIN policy /\ policy'.sends \subseteq Slots
          /\ \A a \in policy.sends : \E b \in policy'.sends :
               b.token = a.token /\ b.did = a.did /\ b.thread = a.thread /\ b.at = a.at
      BY <2>4, <3>1, <3>2, <3>3, ConfirmSends DEF IInv, Types
    <3>5. ASSUME NEW u \in Toks, InFile(u) PROVE InFile(u)'
      <4>1. Slot(u) => Slot(u)' BY <1>1, <3>4 DEF Slot
      <4> QED BY <1>1, <3>5, <4>1 DEF InFile
    <3> QED BY <3>4, <3>5 DEF FileSound, IInv, Types
  <2> QED BY <2>1, <2>2, <2>3, <2>4 DEF Execute, Change, Write, IInv, Types
<1> QED BY <1>1, <1>2, OnlyTheFile

\* Runs on record lose their contact; of the others nothing is known here.
LEMMA KeyChangeStep == ASSUME IInv, NEW c \in Contacts, KeyChange(c) PROVE IInv'
<1> DEFINE runs == {m \in Messages : ContactOf[m] = c /\ pc[m] \in {"starting", "streaming"}}
<1>1. UNCHANGED <<now, boot, arrived, policy, outbox, acks, sent, misreported, wiped>>
  BY DEF KeyChange, replies
<1>2. \A m \in Messages :
        /\ pc'[m] = IF m \notin runs THEN pc[m] ELSE IF pc[m] = "starting" THEN "orphaned" ELSE "over"
        /\ token'[m] = IF m \in runs /\ pc[m] = "streaming" THEN NoToken ELSE token[m]
  BY DEF KeyChange
<1>3. DOMAIN pc' = Messages /\ DOMAIN token' = Messages BY DEF KeyChange
<1>4. PICK d : d = [op |-> "draft", did |-> c] OBVIOUS
<1>5. \A o \in ops' : o \in ops \/ o.op = "draft" \/ \E m \in runs : o \in Cancelled(m)
  <2> DEFINE given == UNION {Cancelled(m) : m \in runs}
  <2>1. ops' = ops \cup given \cup {d} BY <1>4 DEF KeyChange
  <2>2. d.op = "draft" BY <1>4
  <2>3. \A o \in given : \E m \in runs : o \in Cancelled(m)
    <3> HIDE DEF runs
    <3> QED OBVIOUS
  <2> HIDE DEF given, runs
  <2> QED BY <2>1, <2>2, <2>3
<1>6. \A m \in runs : \A o \in Cancelled(m) :
        /\ token[m] # NoToken /\ o.token = token[m] /\ o.token \in Toks /\ o.op = "cancel"
        /\ o.token \notin outbox /\ o.token \notin sent
  BY NotQueued DEF Cancelled, IInv, Behind
<1>7. Types'
  <2>1. pc' \in [Messages -> States]
    <3>1. \A m \in Messages : pc'[m] \in States BY <1>2 DEF IInv, Types, States
    <3>2. pc' = [m \in Messages |-> pc'[m]] BY DEF KeyChange
    <3> HIDE DEF runs
    <3> QED BY <3>1, <3>2
  <2>2. token' \in [Messages -> Toks \cup {NoToken}]
    <3>1. \A m \in Messages : token'[m] \in Toks \cup {NoToken} BY <1>2 DEF IInv, Types
    <3>2. token' = [m \in Messages |-> token'[m]] BY DEF KeyChange
    <3> HIDE DEF runs
    <3> QED BY <3>1, <3>2
  <2>3. \A o \in ops' : o.op = "draft" \/ (o.op \in {"cancel", "confirm"} /\ o.token \in Toks)
    <3> HIDE DEF runs
    <3> QED BY <1>5, <1>6 DEF IInv, Types
  <2> QED BY <1>1, <2>1, <2>2, <2>3 DEF IInv, Types
<1>8. Placed'
  <2>1. \A t \in Toks : /\ Gone(t, Behind) => Gone(t, Behind)'
                        /\ Gone(t, Beyond) => Gone(t, Beyond)'
    BY <1>1, <1>2, StaysGone DEF IInv, Types, Behind, Beyond
  <2>2. \A m \in runs : \A o \in Cancelled(m) : Gone(o.token, Beyond)'
    BY <1>1, <1>2, <1>6 DEF IInv, Types, Placed, Gone, Beyond, Behind
  <2>3. \A m \in Messages : token'[m] # NoToken => token'[m] = token[m] BY <1>2
  <2> HIDE DEF runs
  <2>4. \A o \in ops' : o.op # "draft" => Gone(o.token, Beyond)'
    BY <1>5, <2>1, <2>2 DEF IInv, Types, Placed
  <2> QED BY <1>1, <2>1, <2>3, <2>4 DEF IInv, Types, Placed
<1>9. \A t \in Toks : Live(t)' => Live(t)
  <2>1. \A m \in Messages : pc'[m] \in Before => pc'[m] = pc[m] /\ token'[m] = token[m]
    BY <1>2 DEF Before
  <2> QED BY <1>1, <2>1 DEF Live, Held
<1>10. Filed' /\ Unique' BY <1>1, <1>9, NoNewLife, FileUnchanged DEF IInv
<1>11. FailedAreDead'
  <2>1. ASSUME NEW m \in runs, NEW o \in Cancelled(m) PROVE ~Live(o.token)'
    <3>1. \A n \in Messages : pc'[n] \in Before /\ token'[n] = token[m] => n = m
      BY <1>2, <1>6, <2>1 DEF IInv, Types, Placed
    <3>2. pc'[m] \notin Before BY <1>2 DEF Before
    <3> QED BY <1>1, <1>6, <2>1, <3>1, <3>2 DEF Live, Held
  <2> HIDE DEF runs
  <2>2. \A o \in ops' : o.op = "cancel" => ~Live(o.token)'
    BY <1>5, <1>9, <2>1 DEF IInv, Types, FailedAreDead
  <2> QED BY <1>1, <1>9, <2>2 DEF IInv, Types, FailedAreDead
<1> QED BY <1>7, <1>8, <1>10, <1>11 DEF IInv

\* The next life knows no token of its own.
LEMMA RestartStep == ASSUME IInv, Restart PROVE IInv'
<1>1. /\ boot' = boot + 1 /\ ops' = {} /\ acks' = {} /\ outbox' \subseteq outbox
      /\ pc' = [m \in Messages |-> "new"] /\ token' = [m \in Messages |-> NoToken]
      /\ UNCHANGED <<now, arrived, policy, sent, misreported, wiped>>
  BY DEF Restart, replies
<1>2. Types' BY <1>1 DEF IInv, Types, States
<1>3. Placed'
  <2>1. \A t \in Toks : Gone(t, Behind) => Gone(t, Behind)'
    BY <1>1 DEF IInv, Types, Gone, Toks
  <2> QED BY <1>1, <2>1 DEF IInv, Types, Placed
<1>4. \A t \in Toks : Live(t)' => Live(t) BY <1>1 DEF Live, Held, Before
<1>5. Filed' /\ Unique' BY <1>1, <1>4, NoNewLife, FileUnchanged DEF IInv
<1>6. FailedAreDead' BY <1>1 DEF FailedAreDead
<1> QED BY <1>2, <1>3, <1>5, <1>6 DEF IInv

-----------------------------------------------------------------------------
LEMMA Initially == Init => IInv
<1> SUFFICES ASSUME Init PROVE IInv OBVIOUS
<1>1. Types BY DEF Init, default, Types, States, NotYet
<1>2. Placed BY DEF Init, Placed
<1>3. \A t \in Toks : ~Live(t) BY DEF Init, Live, Held, Before
<1>4. Filed /\ Unique /\ FailedAreDead BY <1>3 DEF Init, Filed, Unique, FailedAreDead
<1> QED BY <1>1, <1>2, <1>4 DEF IInv

LEMMA Inductive == IInv /\ [Next]_vars => IInv'
<1> SUFFICES ASSUME IInv, [Next]_vars PROVE IInv' OBVIOUS
<1>1. ASSUME NEW m \in Messages,
             Arrive(m) \/ Skip(m) \/ Reserve(m) \/ ReserveFails(m) \/ ReserveUnread(m)
      PROVE  IInv'
  BY <1>1, ArriveStep, SkipStep, ReserveStep, ReserveFailsStep, ReserveUnreadStep
<1>2. ASSUME NEW m \in Messages, Loop(m) PROVE IInv'
  BY <1>2, RecordStep, StreamStartsStep, FailStep, FinishStep, DispatchFailsStep, StashStep
     DEF Loop
<1>3. ASSUME NEW a \in acks, Acknowledge(a) PROVE IInv' BY <1>3, AcknowledgeStep
<1>4. ASSUME NEW o \in ops, Execute(o) PROVE IInv' BY <1>4, ExecuteStep
<1>5. ASSUME NEW t \in outbox, Relay(t) PROVE IInv' BY <1>5, RelayStep
<1>6. ASSUME NEW c \in Contacts, KeyChange(c) \/ SetDial(c) PROVE IInv'
  BY <1>6, KeyChangeStep, SetDialStep
<1>7. ASSUME LoseFile \/ Tick \/ Restart PROVE IInv'
  BY <1>7, LoseFileStep, TickStep, RestartStep
<1>8. ASSUME UNCHANGED vars PROVE IInv'
  BY <1>8, FileUnchanged, OnlyTheFile DEF vars, IInv
<1> QED BY <1>1, <1>2, <1>3, <1>4, <1>5, <1>6, <1>7, <1>8 DEF Next

\* A message of a thread is answered automatically at most once, however often the
\* application dies and meets it again, as long as the windows keep the order of the source
\* and its slot is not lost with the whole file (policy_store.rs, decide, prune and load).
THEOREM ThreadAnsweredOnce == Spec => []AnsweredOnce
<1>1. IInv => AnsweredOnce
  <2> SUFFICES ASSUME IInv, NEW s \in sent, NEW t \in sent, s.msg = t.msg,
                      ThreadOf[s.msg] # NoThread,
                      s \notin misreported \cup wiped, t \notin misreported \cup wiped
               PROVE  s = t
    BY DEF AnsweredOnce
  <2>1. Live(s) /\ Live(t) /\ s \in Toks /\ t \in Toks BY DEF Live, IInv, Types
  <2> QED BY <2>1 DEF IInv, Unique
<1> QED BY <1>1, Initially, Inductive, PTL DEF Spec

-----------------------------------------------------------------------------
(* What is confirmed was sent, and once *)

InLedger(t) == \E c \in Contacts : \E i \in DOMAIN policy.ledger[c] : policy.ledger[c][i] = t

\* A ledger is a list of different sends.
Honest(l) ==
  l \in Seq(Toks) /\ \A i, j \in 1 .. Len(l) : l[i] \in sent /\ (l[i] = l[j] => i = j)

\* A token some run still waits for
Awaiting(t) == \E m \in Messages : token[m] = t

\* An answer is one of a kind until it is in the ledger, and says what the relay said:
\* one that comes again finds nobody waiting for it.
AnswersOnce ==
  /\ \A a \in acks : /\ (a.ok => a.token \in sent) /\ a.token \notin outbox
                     /\ Awaiting(a.token) => ~InLedger(a.token)
  /\ \A a, b \in acks : a.token = b.token => a = b
  /\ \A o \in ops : o.op = "confirm" =>
       /\ o.token \in sent /\ ~InLedger(o.token) /\ ~Awaiting(o.token)
       /\ \A p \in ops : p.op = "confirm" /\ p.token = o.token => p = o

LedgerInv ==
  /\ DOMAIN policy.ledger = Contacts /\ \A c \in Contacts : Honest(policy.ledger[c])
  /\ \A a \in policy.sends : ~a.pending => a.token \in sent
  /\ AnswersOnce

\* The capped list is the end of the list.
LEMMA CappedHonest ==
  ASSUME NEW l, Honest(l)
  PROVE  /\ Honest(Capped(l))
         /\ \A i \in DOMAIN Capped(l) : \E j \in 1 .. Len(l) : Capped(l)[i] = l[j]
<1>1. LedgerCap \in Nat \ {0} BY WindowOrder
<1>2. PICK n \in Nat : n = Len(l) BY DEF Honest
<1>3. PICK k \in Nat : k = IF n > LedgerCap THEN n - LedgerCap ELSE 0
  <2>1. (IF n > LedgerCap THEN n - LedgerCap ELSE 0) \in Nat BY <1>1
  <2> QED BY <2>1
<1>4. l \in Seq(Toks) /\ \A i \in 1 .. n : l[i] \in Toks BY <1>2 DEF Honest
<1>5. PICK d : d = Capped(l) OBVIOUS
<1>6. d = SubSeq(l, k + 1, n) /\ k <= n BY <1>1, <1>2, <1>3, <1>5 DEF Capped
<1>7. /\ d \in Seq(Toks) /\ Len(d) = n - k
      /\ \A i \in 1 .. n - k : d[i] = l[k + 1 + i - 1]
  <2>1. \A i \in k + 1 .. n : l[i] \in Toks BY <1>2, <1>3, <1>4
  <2>2. k + 1 \in Int /\ n \in Int BY <1>2, <1>3
  <2>3. /\ d \in Seq(Toks)
        /\ Len(d) = IF k + 1 <= n THEN n - (k + 1) + 1 ELSE 0
        /\ \A i \in 1 .. n - (k + 1) + 1 : d[i] = l[k + 1 + i - 1]
    BY <1>6, <2>1, <2>2, SubSeqProperties
  <2> QED BY <1>2, <1>3, <1>6, <2>3
<1>8. ASSUME NEW i \in 1 .. Len(d) PROVE i + k \in 1 .. n /\ d[i] = l[i + k]
  <2>1. i \in 1 .. n - k BY <1>7
  <2>2. k + 1 + i - 1 = i + k /\ i + k \in 1 .. n BY <1>6, <2>1
  <2> QED BY <1>7, <2>1, <2>2
<1>9. ASSUME NEW i \in 1 .. Len(d), NEW j \in 1 .. Len(d), d[i] = d[j]
      PROVE  i = j
  <2>1. i + k \in 1 .. n /\ j + k \in 1 .. n /\ l[i + k] = l[j + k] BY <1>8, <1>9
  <2>2. i + k = j + k BY <1>2, <2>1 DEF Honest
  <2>3. i \in Int /\ j \in Int BY <1>7
  <2> QED BY <1>3, <2>2, <2>3
<1>10. \A i \in 1 .. Len(d) : d[i] \in sent BY <1>2, <1>8 DEF Honest
<1>11. Honest(d) BY <1>7, <1>9, <1>10 DEF Honest
<1>12. \A i \in DOMAIN d : \E j \in 1 .. Len(l) : d[i] = l[j] BY <1>2, <1>7, <1>8
<1> QED BY <1>5, <1>11, <1>12

\* A step that confirms nothing, and relays and acknowledges nothing
LEMMA LedgerKept ==
  ASSUME IInv, LedgerInv, DOMAIN policy' = {"dial", "sends", "ledger"},
         policy'.ledger = policy.ledger, sent' = sent,
         \A a \in policy'.sends : a \in policy.sends \/ a.pending,
         acks' \subseteq acks, \A t \in outbox' : t \in outbox \/ \A a \in acks : a.token # t,
         \A t \in sent : Awaiting(t)' => Awaiting(t),
         \A o \in ops' : o \in ops \/ o.op # "confirm"
  PROVE  LedgerInv'
<1>1. \A t : InLedger(t)' <=> InLedger(t) BY DEF InLedger
<1>2. \A l : Honest(l)' <=> Honest(l) BY DEF Honest
<1>3. \A t : InLedger(t) => t \in sent BY DEF InLedger, LedgerInv, Honest
<1>4. AnswersOnce'
  <2>1. \A a \in acks' : /\ (a.ok => a.token \in sent') /\ a.token \notin outbox'
                         /\ Awaiting(a.token)' => ~InLedger(a.token)'
    BY <1>1, <1>3 DEF LedgerInv, AnswersOnce
  <2>2. \A a, b \in acks' : a.token = b.token => a = b BY DEF LedgerInv, AnswersOnce
  <2>3. \A o \in ops' : o.op = "confirm" =>
          /\ o.token \in sent' /\ ~InLedger(o.token)' /\ ~Awaiting(o.token)'
          /\ \A p \in ops' : p.op = "confirm" /\ p.token = o.token => p = o
    BY <1>1 DEF LedgerInv, AnswersOnce
  <2> QED BY <2>1, <2>2, <2>3 DEF AnswersOnce
<1> QED BY <1>2, <1>4 DEF LedgerInv

\* Nobody starts to wait for an answer that was already sent.
LEMMA NobodyWaits ==
  ASSUME Types, \A m \in Messages : token'[m] = token[m] \/ token'[m] = NoToken
  PROVE  \A t \in sent : Awaiting(t)' => Awaiting(t)
BY NoTokenIsNone DEF Awaiting, Types

\* The steps that do not touch the file
LEMMA FileIdle ==
  ASSUME IInv, LedgerInv, UNCHANGED <<policy, sent>>,
         acks' \subseteq acks, \A t \in outbox' : t \in outbox \/ \A a \in acks : a.token # t,
         \A m \in Messages : token'[m] = token[m] \/ token'[m] = NoToken,
         \A o \in ops' : o \in ops \/ o.op # "confirm"
  PROVE  LedgerInv'
BY LedgerKept, NobodyWaits DEF IInv, Types

LEMMA ReserveLedger ==
  ASSUME IInv, LedgerInv, NEW m \in Messages, Reserve(m)
  PROVE  LedgerInv'
<1>1. PICK slot : slot = [token |-> Token(m), did |-> ContactOf[m], thread |-> ThreadOf[m],
                          at |-> now, pending |-> TRUE]
  OBVIOUS
<1>2. UNCHANGED <<ops, outbox, acks, sent>> /\ arrived[m] # NotYet BY DEF Reserve
<1>3. /\ DOMAIN policy' = {"dial", "sends", "ledger"} /\ policy'.ledger = policy.ledger
      /\ policy'.sends \subseteq prune(policy, now).sends \cup {slot}
  BY <1>1, <1>2, ReserveResult DEF Reserve, Write, IInv
<1>4. prune(policy, now).sends \subseteq policy.sends /\ slot.pending
  BY <1>1, PruneSends DEF IInv, Types
<1>5. \A t \in sent : Awaiting(t)' => Awaiting(t)
  <2>1. PICK new : new = Token(m) OBVIOUS
  <2>2. new.msg = m /\ new.boot = boot /\ pc[m] = "new" BY <2>1 DEF Token, Reserve
  <2>3. new \notin sent BY <2>2 DEF IInv, Placed, Gone, Behind
  <2>4. \A n \in Messages : token'[n] = token[n] \/ token'[n] = NoToken \/ token'[n] = new
    BY <2>1 DEF Reserve, IInv, Types
  <2> QED BY <2>3, <2>4, NoTokenIsNone DEF Awaiting, IInv, Types
<1> QED BY <1>2, <1>3, <1>4, <1>5, LedgerKept

LEMMA FinishLedger ==
  ASSUME IInv, LedgerInv, NEW m \in Messages, Finish(m)
  PROVE  LedgerInv'
<1>1. /\ pc[m] = "streaming" /\ outbox' \subseteq outbox \cup ({token[m]} \ {NoToken})
      /\ UNCHANGED <<policy, sent, acks, ops, token>>
  BY DEF Finish, history, replies
<1>2. ASSUME token[m] # NoToken PROVE \A a \in acks : a.token # token[m]
  BY <1>1, <1>2 DEF IInv, Types, Placed, Gone, Behind
<1> QED BY <1>1, <1>2, FileIdle

LEMMA AcknowledgeLedger ==
  ASSUME IInv, LedgerInv, NEW a \in acks, Acknowledge(a)
  PROVE  LedgerInv'
<1>1. PICK o : o = [op |-> IF a.ok THEN "confirm" ELSE "cancel", token |-> a.token] OBVIOUS
<1>2. PICK m : m = a.token.msg OBVIOUS
<1>3. acks' \subseteq acks /\ UNCHANGED <<policy, outbox, sent>>
  BY DEF Acknowledge, replies
<1>4. \/ UNCHANGED <<token, ops>>
      \/ /\ token[m] = a.token /\ ops' = ops \cup {o}
         /\ token' = [token EXCEPT ![m] = NoToken]
  BY <1>1, <1>2 DEF Acknowledge, Leave
<1>5. CASE UNCHANGED <<token, ops>> BY <1>3, <1>5, FileIdle
<1>6. CASE /\ token[m] = a.token /\ ops' = ops \cup {o}
           /\ token' = [token EXCEPT ![m] = NoToken]
  <2>1. /\ o.token = a.token /\ (o.op = "confirm" => a.ok) /\ a.ok \in BOOLEAN
        /\ a.token \in Toks /\ m \in Messages
    BY <1>1, <1>2 DEF IInv, Types, Toks
  <2>2. \A n \in Messages : token'[n] = IF n = m THEN NoToken ELSE token[n]
    BY <1>6, <2>1 DEF IInv, Types
  <2>3. \A t : InLedger(t)' <=> InLedger(t) BY <1>3 DEF InLedger
  <2>4. \A l : Honest(l)' <=> Honest(l) BY <1>3 DEF Honest
  <2>5. \A t \in Toks : Awaiting(t)' => Awaiting(t)
    BY <2>2, NoTokenIsNone DEF Awaiting
  <2>6. Awaiting(a.token) BY <1>6, <2>1 DEF Awaiting
  <2>7. ~Awaiting(a.token)'
    BY <1>2, <2>1, <2>2, NoTokenIsNone DEF Awaiting, IInv, Placed
  <2>8. ~InLedger(a.token) /\ \A p \in ops : p.op = "confirm" => p.token # a.token
    BY <2>6 DEF LedgerInv, AnswersOnce
  <2>9. \A b \in acks' : /\ (b.ok => b.token \in sent') /\ b.token \notin outbox'
                         /\ Awaiting(b.token)' => ~InLedger(b.token)'
    BY <1>3, <2>3, <2>5 DEF LedgerInv, AnswersOnce, IInv, Types
  <2>10. \A p \in ops' : p.op = "confirm" =>
           /\ p.token \in sent' /\ ~InLedger(p.token)' /\ ~Awaiting(p.token)'
           /\ \A q \in ops' : q.op = "confirm" /\ q.token = p.token => q = p
    <3>1. o.op = "confirm" => o.token \in sent BY <2>1 DEF LedgerInv, AnswersOnce
    <3>2. \A p \in ops : p.op = "confirm" =>
            p.token \in Toks /\ p.token \in sent /\ ~InLedger(p.token) /\ ~Awaiting(p.token)
      BY DEF LedgerInv, AnswersOnce, IInv, Types
    <3>3. \A p, q \in ops : p.op = "confirm" /\ q.op = "confirm" /\ q.token = p.token => q = p
      BY DEF LedgerInv, AnswersOnce
    <3> QED BY <1>3, <1>6, <2>1, <2>3, <2>5, <2>7, <2>8, <3>1, <3>2, <3>3
  <2>11. \A b, c \in acks' : b.token = c.token => b = c BY <1>3 DEF LedgerInv, AnswersOnce
  <2>12. AnswersOnce' BY <2>9, <2>10, <2>11 DEF AnswersOnce
  <2> QED BY <1>3, <2>4, <2>12 DEF LedgerInv
<1> QED BY <1>4, <1>5, <1>6

LEMMA RelayLedger ==
  ASSUME IInv, LedgerInv, NEW t \in outbox, Relay(t)
  PROVE  LedgerInv'
<1>1. PICK accepted \in BOOLEAN, answer \in {"ok", "err", "none"} :
        /\ answer = "ok" => accepted
        /\ sent' = IF accepted THEN sent \cup {t} ELSE sent
        /\ acks' = IF answer = "none" THEN acks
                   ELSE acks \cup {[token |-> t, ok |-> answer = "ok"]}
  BY DEF Relay
<1>2. PICK b : b = [token |-> t, ok |-> answer = "ok"] OBVIOUS
<1>3. b.token = t /\ (b.ok => t \in sent') BY <1>1, <1>2
<1>4. acks' \subseteq acks \cup {b} /\ sent \subseteq sent' BY <1>1, <1>2
<1>5. outbox' = outbox \ {t} /\ t \notin sent /\ UNCHANGED <<policy, ops, token>>
  BY DEF Relay, IInv, Placed
<1>6. \A u : InLedger(u)' <=> InLedger(u) BY <1>5 DEF InLedger
<1>7. ~InLedger(t) BY <1>5 DEF InLedger, LedgerInv, Honest
<1>8. \A l : Honest(l) => Honest(l)' BY <1>4 DEF Honest
<1>9. \A u : Awaiting(u)' <=> Awaiting(u) BY <1>5 DEF Awaiting
<1>10. AnswersOnce'
  <2>1. \A a \in acks : a.token # t BY DEF LedgerInv, AnswersOnce
  <2>2. \A a \in acks' : /\ (a.ok => a.token \in sent') /\ a.token \notin outbox'
                         /\ Awaiting(a.token)' => ~InLedger(a.token)'
    BY <1>3, <1>4, <1>5, <1>6, <1>7, <1>9 DEF LedgerInv, AnswersOnce
  <2>3. \A a, c \in acks' : a.token = c.token => a = c
    BY <1>3, <1>4, <2>1 DEF LedgerInv, AnswersOnce
  <2>4. \A o \in ops' : o.op = "confirm" =>
          /\ o.token \in sent' /\ ~InLedger(o.token)' /\ ~Awaiting(o.token)'
          /\ \A p \in ops' : p.op = "confirm" /\ p.token = o.token => p = o
    BY <1>4, <1>5, <1>6, <1>9 DEF LedgerInv, AnswersOnce
  <2> QED BY <2>2, <2>3, <2>4 DEF AnswersOnce
<1> QED BY <1>4, <1>5, <1>8, <1>10 DEF LedgerInv

\* What a confirmation makes of the ledger and of the flags
LEMMA ConfirmLedger ==
  ASSUME NEW p, DOMAIN p = {"dial", "sends", "ledger"}, p.sends \subseteq Slots,
         DOMAIN p.ledger = Contacts, NEW t \in Toks, NEW did \in Contacts, NEW thread, NEW n
  PROVE  LET q == confirm(p, did, t, thread, n)
         IN /\ DOMAIN q = {"dial", "sends", "ledger"} /\ DOMAIN q.ledger = Contacts
            /\ \A c \in Contacts \ {did} : q.ledger[c] = p.ledger[c]
            /\ q.ledger[did] \in {p.ledger[did], Capped(Append(p.ledger[did], t))}
            /\ \A a \in q.sends : a \in p.sends \/ a.token = t
<1> DEFINE mine == {a \in SendsOf(p, did) : a.token = t}
           new == [token |-> t, did |-> did, thread |-> thread, at |-> n, pending |-> FALSE]
           kept == IF mine # {} THEN {[a EXCEPT !.pending = FALSE] : a \in mine} ELSE {new}
           next == IF mine = {} \/ \E a \in mine : a.pending
                   THEN Capped(Append(p.ledger[did], t)) ELSE p.ledger[did]
           q == confirm(p, did, t, thread, n)
<1>1. /\ DOMAIN q = DOMAIN p /\ q.sends = (p.sends \ mine) \cup kept
      /\ q.ledger = [p.ledger EXCEPT ![did] = next]
  BY DEF confirm
<1>2. \A a \in Slots : [a EXCEPT !.pending = FALSE].token = a.token BY DEF Slots
<1>3. mine \subseteq Slots /\ \A a \in mine : a.token = t BY DEF SendsOf
<1>4. \A a \in kept : a.token = t
  <2>1. new.token = t OBVIOUS
  <2> HIDE DEF mine, new
  <2> QED BY <1>2, <1>3, <2>1
<1> HIDE DEF mine, kept
<1>5. next \in {p.ledger[did], Capped(Append(p.ledger[did], t))} OBVIOUS
<1> HIDE DEF next
<1>6. /\ DOMAIN q.ledger = Contacts /\ q.ledger[did] = next
      /\ \A c \in Contacts \ {did} : q.ledger[c] = p.ledger[c]
  BY <1>1
<1>7. \A a \in q.sends : a \in p.sends \/ a.token = t BY <1>1, <1>4
<1> QED BY <1>1, <1>5, <1>6, <1>7

LEMMA ExecuteLedger ==
  ASSUME IInv, LedgerInv, NEW o \in ops, Execute(o)
  PROVE  LedgerInv'
<1>1. ops' = ops \ {o} /\ UNCHANGED <<now, outbox, acks, sent, token>> BY DEF Execute
<1>2. CASE UNCHANGED policy BY <1>1, <1>2, FileIdle
<1>3. CASE policy' = set_autonomy(policy, o.did, "draft")
  BY <1>1, <1>3, DialSends, LedgerKept, NobodyWaits DEF IInv, Types
<1>4. CASE policy' = cancel(policy, ContactOf[o.token.msg], o.token)
  <2>1. PICK c, t : c = ContactOf[o.token.msg] /\ t = o.token OBVIOUS
  <2> QED BY <1>1, <1>4, <2>1, CancelSends, LedgerKept, NobodyWaits DEF IInv, Types
<1>5. CASE /\ o.op = "confirm"
           /\ policy' = confirm(policy, ContactOf[o.token.msg], o.token, ThreadOf[o.token.msg], now)
  <2>1. PICK t \in Toks : t = o.token BY <1>5 DEF IInv, Types
  <2>2. PICK did \in Contacts : did = ContactOf[t.msg] BY Mailbox DEF Toks
  <2>3. PICK thread : thread = ThreadOf[t.msg] OBVIOUS
  <2>4. t \in sent /\ ~InLedger(t) /\ ~Awaiting(t)
    BY <1>5, <2>1 DEF LedgerInv, AnswersOnce
  <2>5. /\ DOMAIN policy'.ledger = Contacts
        /\ \A c \in Contacts \ {did} : policy'.ledger[c] = policy.ledger[c]
        /\ policy'.ledger[did] \in {policy.ledger[did], Capped(Append(policy.ledger[did], t))}
        /\ \A a \in policy'.sends : a \in policy.sends \/ a.token = t
    BY <1>5, <2>1, <2>2, <2>3, ConfirmLedger DEF IInv, Types, LedgerInv
  <2>6. PICK l : l = policy.ledger[did] OBVIOUS
  <2>7. Honest(l) /\ \A i \in 1 .. Len(l) : l[i] # t
    BY <2>4, <2>6 DEF LedgerInv, Honest, InLedger
  <2>8. PICK m : m = Append(l, t) OBVIOUS
  <2>9. /\ m \in Seq(Toks) /\ Len(l) \in Nat /\ Len(m) = Len(l) + 1
        /\ \A i \in 1 .. Len(l) : m[i] = l[i]
        /\ m[Len(l) + 1] = t
    BY <2>7, <2>8 DEF Honest
  <2>10. Honest(m)
    <3>1. \A i \in 1 .. Len(m) : i = Len(l) + 1 \/ i \in 1 .. Len(l) BY <2>9
    <3> QED BY <2>4, <2>7, <2>9, <3>1 DEF Honest
  <2>11. Honest(Capped(m)) /\ \A i \in DOMAIN Capped(m) : \E j \in 1 .. Len(m) : Capped(m)[i] = m[j]
    BY <2>10, CappedHonest
  <2>12. \A c \in Contacts : Honest(policy'.ledger[c])
    BY <2>5, <2>6, <2>7, <2>8, <2>11 DEF LedgerInv
  <2>13. ASSUME NEW u, InLedger(u)', u # t PROVE InLedger(u)
    <3>1. PICK c \in Contacts : \E i \in DOMAIN policy'.ledger[c] : policy'.ledger[c][i] = u
      BY <2>13 DEF InLedger
    <3>2. CASE policy'.ledger[c] = policy.ledger[c] BY <3>1, <3>2 DEF InLedger
    <3>3. CASE c = did /\ policy'.ledger[did] = Capped(m)
      <4>1. PICK j \in 1 .. Len(m) : m[j] = u BY <2>11, <3>1, <3>3
      <4>2. j \in DOMAIN l /\ l[j] = u BY <2>7, <2>9, <2>13, <4>1 DEF Honest
      <4> QED BY <2>6, <4>2 DEF InLedger
    <3> QED BY <2>5, <2>6, <2>8, <3>1, <3>2, <3>3
  <2>14. AnswersOnce'
    <3>1. \A p \in ops' : p.op = "confirm" => p \in ops /\ p.token # t
      BY <1>1, <1>5, <2>1 DEF LedgerInv, AnswersOnce
    <3>2. \A u : Awaiting(u)' <=> Awaiting(u) BY <1>1 DEF Awaiting
    <3>3. \A a \in acks' : /\ (a.ok => a.token \in sent') /\ a.token \notin outbox'
                           /\ Awaiting(a.token)' => ~InLedger(a.token)'
      BY <1>1, <2>4, <2>13, <3>2 DEF LedgerInv, AnswersOnce
    <3>4. \A p \in ops' : p.op = "confirm" =>
            /\ p.token \in sent' /\ ~InLedger(p.token)' /\ ~Awaiting(p.token)'
            /\ \A q \in ops' : q.op = "confirm" /\ q.token = p.token => q = p
      BY <1>1, <2>13, <3>1, <3>2 DEF LedgerInv, AnswersOnce
    <3> QED BY <1>1, <3>3, <3>4 DEF LedgerInv, AnswersOnce
  <2>15. \A c \in Contacts : Honest(policy.ledger[c])' BY <1>1, <2>12 DEF Honest
  <2> QED BY <1>1, <2>4, <2>5, <2>14, <2>15 DEF LedgerInv
<1> QED BY <1>2, <1>3, <1>4, <1>5 DEF Execute, Change, Write, IInv, Types

\* An empty ledger
LEMMA NothingHonest == Honest(<<>>)
<1>1. <<>> \in Seq(Toks) /\ Len(<<>>) = 0 OBVIOUS
<1> QED BY <1>1 DEF Honest

LEMMA LoseFileLedger == ASSUME IInv, LedgerInv, LoseFile PROVE LedgerInv'
<1>1. /\ UNCHANGED <<ops, outbox, acks, sent, token>> /\ policy'.sends = {}
      /\ DOMAIN policy'.ledger = Contacts /\ \A c \in Contacts : policy'.ledger[c] = <<>>
  BY DEF LoseFile, default
<1>2. \A c \in Contacts : Honest(policy'.ledger[c]) BY <1>1, NothingHonest
<1>3. \A l : Honest(l) => Honest(l)' BY <1>1 DEF Honest
<1>4. \A t : ~InLedger(t)' BY <1>1 DEF InLedger
<1>5. \A t : Awaiting(t)' <=> Awaiting(t) BY <1>1 DEF Awaiting
<1>6. AnswersOnce' BY <1>1, <1>4, <1>5 DEF LedgerInv, AnswersOnce
<1>7. \A c \in Contacts : Honest(policy.ledger[c])' BY <1>2, <1>3
<1> QED BY <1>1, <1>6, <1>7 DEF LedgerInv

LEMMA LedgerInitially == Init => LedgerInv
<1> SUFFICES ASSUME Init PROVE LedgerInv OBVIOUS
<1>1. /\ policy.sends = {} /\ DOMAIN policy.ledger = Contacts
      /\ \A c \in Contacts : policy.ledger[c] = <<>>
  BY DEF Init, default
<1>2. Honest(<<>>) BY NothingHonest
<1>3. AnswersOnce BY DEF Init, AnswersOnce
<1>4. \A c \in Contacts : Honest(policy.ledger[c]) BY <1>1, <1>2
<1> QED BY <1>1, <1>3, <1>4 DEF LedgerInv

LEMMA LedgerInductive == IInv /\ LedgerInv /\ [Next]_vars => LedgerInv'
<1> SUFFICES ASSUME IInv, LedgerInv, [Next]_vars PROVE LedgerInv' OBVIOUS
<1>1. ASSUME NEW m \in Messages,
             \/ Arrive(m) \/ Skip(m) \/ ReserveFails(m) \/ ReserveUnread(m) \/ Record(m)
             \/ StreamStarts(m) \/ Stash(m)
      PROVE  LedgerInv'
  <2>1. /\ UNCHANGED <<policy, sent, acks, outbox, ops>>
        /\ UNCHANGED token \/ token' = [token EXCEPT ![m] = NoToken]
    BY <1>1 DEF Arrive, Skip, ReserveFails, ReserveUnread, Record, StreamStarts, Stash, Leave,
                history, replies
  <2>2. \A n \in Messages : token'[n] = token[n] \/ token'[n] = NoToken
    BY <2>1 DEF IInv, Types
  <2> QED BY <2>1, <2>2, FileIdle
<1>2. ASSUME NEW m \in Messages, Fail(m) \/ DispatchFails(m) PROVE LedgerInv'
  <2>1. \A o \in Cancelled(m) : o.op # "confirm" BY DEF Cancelled
  <2>2. \A n \in Messages : token'[n] = token[n] \/ token'[n] = NoToken
    BY <1>2 DEF Fail, DispatchFails, Leave, IInv, Types
  <2> QED BY <1>2, <2>1, <2>2, FileIdle DEF Fail, DispatchFails, replies
<1>3. ASSUME NEW m \in Messages, Reserve(m) \/ Finish(m) PROVE LedgerInv'
  BY <1>3, ReserveLedger, FinishLedger
<1>4. ASSUME NEW a \in acks, Acknowledge(a) PROVE LedgerInv' BY <1>4, AcknowledgeLedger
<1>5. ASSUME NEW o \in ops, Execute(o) PROVE LedgerInv' BY <1>5, ExecuteLedger
<1>6. ASSUME NEW t \in outbox, Relay(t) PROVE LedgerInv' BY <1>6, RelayLedger
<1>7. ASSUME NEW c \in Contacts, KeyChange(c) PROVE LedgerInv'
  <2> DEFINE runs == {m \in Messages : ContactOf[m] = c /\ pc[m] \in {"starting", "streaming"}}
             given == UNION {Cancelled(m) : m \in runs}
  <2>1. PICK d : d = [op |-> "draft", did |-> c] OBVIOUS
  <2>2. ops' = ops \cup given \cup {d} /\ UNCHANGED <<policy, sent, acks, outbox>>
    BY <1>7, <2>1 DEF KeyChange, replies
  <2>3. \A o \in given : o.op # "confirm" BY DEF Cancelled
  <2>4. d.op # "confirm" BY <2>1
  <2>5. \A n \in Messages : token'[n] = token[n] \/ token'[n] = NoToken BY <1>7 DEF KeyChange
  <2> HIDE DEF given
  <2> QED BY <2>2, <2>3, <2>4, <2>5, FileIdle
<1>8. ASSUME NEW c \in Contacts, SetDial(c) PROVE LedgerInv'
  BY <1>8, DialSends, LedgerKept, NobodyWaits DEF SetDial, Write, IInv, Types
<1>9. ASSUME LoseFile PROVE LedgerInv' BY <1>9, LoseFileLedger
<1>10. ASSUME Tick PROVE LedgerInv' BY <1>10, FileIdle DEF Tick, history, replies
<1>11. ASSUME Restart PROVE LedgerInv' BY <1>11, FileIdle DEF Restart, replies
<1>12. ASSUME UNCHANGED vars PROVE LedgerInv' BY <1>12, FileIdle DEF vars
<1> QED BY <1>1, <1>2, <1>3, <1>4, <1>5, <1>6, <1>7, <1>8, <1>9, <1>10, <1>11, <1>12
        DEF Next, Loop

\* Nothing is confirmed that was not sent, and nothing twice, whatever is lost, comes early
\* or is retried (aiLoop.tsx, security invariant 2; policy_store.rs, confirm).
THEOREM OnlySendsConfirmed == Spec => []ConfirmedWasSent
<1>1. LedgerInv => ConfirmedWasSent
  <2> SUFFICES ASSUME LedgerInv, NEW c \in Contacts
               PROVE  LET l == policy.ledger[c]
                      IN \A i, j \in 1 .. Len(l) : l[i] \in sent /\ (l[i] = l[j] => i = j)
    BY DEF ConfirmedWasSent, LedgerInv
  <2> QED BY DEF LedgerInv, Honest
<1> QED BY <1>1, Initially, Inductive, LedgerInitially, LedgerInductive, PTL DEF Spec

-----------------------------------------------------------------------------
(* The budgets.  What was sent is counted through the slots of the file: every send *)
(* that the file has not forgotten, and every answer still on its way, has the slot *)
(* it was reserved with, so that reserve has counted it.                            *)

\* A token that was sent, or may be
Known(t) == t \in sent \/ t \in outbox \/ \E m \in Messages : token[m] = t

InBook(t) == \E a \in policy.sends : a.token = t

\* A token the budgets speak of
Counts(t, w) == t \notin forgotten /\ within(t.at, now, w)

Charged(D, w) == {t \in Toks : Counts(t, w) /\ InBook(t) /\ ContactOf[t.msg] \in D}

Tracked == \A t \in Toks : Known(t) => t.at <= now /\ (Counts(t, Retention) => InBook(t))

\* A slot is of the time of its token, but for one that was put back.
Original == \A a \in policy.sends :
  /\ a.did = ContactOf[a.token.msg] /\ a.token.at <= now /\ a.at <= now
  /\ Counts(a.token, Retention) => a.at = a.token.at

WithinCaps ==
  /\ \A c \in Contacts : /\ Cardinality(Charged({c}, Hourly)) <= HourlyCap
                         /\ Cardinality(Charged({c}, Retention)) <= DailyCap
  /\ Cardinality(Charged(Contacts, Retention)) <= GlobalCap

BudgetInv == Tracked /\ Original /\ IsFiniteSet(policy.sends) /\ WithinCaps

\* As many tokens as slots at most
LEMMA TokensOfSlots ==
  ASSUME NEW S, IsFiniteSet(S), NEW X, \A t \in X : \E a \in S : a.token = t
  PROVE  IsFiniteSet(X) /\ Cardinality(X) <= Cardinality(S) /\ Cardinality(X) \in Nat
         /\ Cardinality(S) \in Nat
<1> DEFINE f == [a \in S |-> a.token]
           Y == {f[a] : a \in S}
<1>1. f \in Surjection(S, Y) BY DEF Surjection
<1>2. IsFiniteSet(Y) /\ Cardinality(Y) <= Cardinality(S) BY <1>1, FS_Surjection
<1>3. X \in SUBSET Y OBVIOUS
<1> HIDE DEF Y
<1>4. IsFiniteSet(X) /\ Cardinality(X) <= Cardinality(Y) BY <1>2, <1>3, FS_Subset
<1>5. Cardinality(X) \in Nat /\ Cardinality(Y) \in Nat /\ Cardinality(S) \in Nat
  BY <1>2, <1>4, FS_CardinalityType
<1> QED BY <1>2, <1>4, <1>5

LEMMA FewerSlots ==
  ASSUME IsFiniteSet(policy.sends), NEW D, NEW w, NEW X, X \subseteq Charged(D, w)
  PROVE  IsFiniteSet(X) /\ Cardinality(X) <= Cardinality(Charged(D, w))
         /\ Cardinality(X) \in Nat /\ Cardinality(Charged(D, w)) \in Nat
<1>1. \A t \in Charged(D, w) : \E a \in policy.sends : a.token = t BY DEF Charged, InBook
<1>2. IsFiniteSet(Charged(D, w)) /\ Cardinality(Charged(D, w)) \in Nat BY <1>1, TokensOfSlots
<1>3. IsFiniteSet(X) /\ Cardinality(X) <= Cardinality(Charged(D, w)) BY <1>2, FS_Subset
<1>4. Cardinality(X) \in Nat BY <1>3, FS_CardinalityType
<1> QED BY <1>2, <1>3, <1>4

\* A step that charges nothing
LEMMA NoNewCharge ==
  ASSUME BudgetInv, Tracked', Original', IsFiniteSet(policy'.sends),
         \A t \in Toks : \A w \in {Hourly, Retention} :
           Counts(t, w)' /\ InBook(t)' => Counts(t, w) /\ InBook(t)
  PROVE  BudgetInv'
<1>1. \A D : \A w \in {Hourly, Retention} : Charged(D, w)' \subseteq Charged(D, w)
  BY DEF Charged
<1>2. /\ HourlyCap \in Nat /\ DailyCap \in Nat /\ GlobalCap \in Nat BY WindowOrder
<1>3. \A D : \A w \in {Hourly, Retention} :
        /\ Cardinality(Charged(D, w)') <= Cardinality(Charged(D, w))
        /\ Cardinality(Charged(D, w)') \in Nat /\ Cardinality(Charged(D, w)) \in Nat
  BY <1>1, FewerSlots DEF BudgetInv
<1>4. WithinCaps'
  <2>1. ASSUME NEW c \in Contacts
        PROVE  Cardinality(Charged({c}, Hourly)') <= HourlyCap
               /\ Cardinality(Charged({c}, Retention)') <= DailyCap
    <3>1. Cardinality(Charged({c}, Hourly)) <= HourlyCap
          /\ Cardinality(Charged({c}, Retention)) <= DailyCap
      BY DEF BudgetInv, WithinCaps
    <3>2. PICK h, k, i, j : /\ h = Cardinality(Charged({c}, Hourly)')
                            /\ k = Cardinality(Charged({c}, Hourly))
                            /\ i = Cardinality(Charged({c}, Retention)')
                            /\ j = Cardinality(Charged({c}, Retention))
      OBVIOUS
    <3>3. h <= k /\ i <= j /\ h \in Nat /\ k \in Nat /\ i \in Nat /\ j \in Nat BY <1>3, <3>2
    <3> QED BY <1>2, <3>1, <3>2, <3>3
  <2>2. Cardinality(Charged(Contacts, Retention)') <= GlobalCap
    <3>1. Cardinality(Charged(Contacts, Retention)) <= GlobalCap BY DEF BudgetInv, WithinCaps
    <3>2. PICK i, j : /\ i = Cardinality(Charged(Contacts, Retention)')
                      /\ j = Cardinality(Charged(Contacts, Retention))
      OBVIOUS
    <3>3. i <= j /\ i \in Nat /\ j \in Nat BY <1>3, <3>2
    <3> QED BY <1>2, <3>1, <3>2, <3>3
  <2> QED BY <2>1, <2>2 DEF WithinCaps
<1> QED BY <1>4 DEF BudgetInv

\* A step that touches neither the file nor the clock, and brings up no token
LEMMA BudgetIdle ==
  ASSUME BudgetInv, UNCHANGED <<policy, forgotten, now>>, \A t \in Toks : Known(t)' => Known(t)
  PROVE  BudgetInv'
<1>1. \A t, w : (Counts(t, w)' <=> Counts(t, w)) /\ (InBook(t)' <=> InBook(t))
  BY DEF Counts, InBook
<1>2. Tracked' BY <1>1 DEF BudgetInv, Tracked
<1>3. Original' BY <1>1 DEF BudgetInv, Original
<1> QED BY <1>1, <1>2, <1>3, NoNewCharge DEF BudgetInv

\* What a rewrite of the file drops while pending it has forgotten.
LEMMA NotDropped ==
  ASSUME forgotten' = forgotten \cup Dropped(policy, policy'), NEW a \in policy.sends, a.pending,
         a.token \notin forgotten'
  PROVE  InBook(a.token)'
BY DEF Dropped, InBook

\* The window of an hour lies in the window of retention.
LEMMA Windows ==
  ASSUME NEW at \in Nat, NEW n \in Nat, within(at, n, Hourly)
  PROVE  within(at, n, Retention)
<1>1. Hourly \in Nat /\ Retention \in Nat /\ Hourly <= Retention BY WindowOrder
<1> QED BY <1>1 DEF within

\* A rewrite of the file that adds no slot but copies of the old ones, and whose other
\* losses are out of every window
LEMMA FileShrinks ==
  ASSUME Types, BudgetInv, policy'.sends \subseteq policy.sends,
         forgotten' = forgotten \cup Dropped(policy, policy'), UNCHANGED <<now, sent, outbox>>,
         \A a \in policy.sends : ~a.pending /\ within(a.at, now, Retention) => a \in policy'.sends,
         \A t \in Toks : Known(t)' => Known(t)
  PROVE  BudgetInv'
<1>1. \A t, w : Counts(t, w)' => Counts(t, w) BY DEF Counts
<1>2. \A t : InBook(t)' => InBook(t) BY DEF InBook
<1>3. Tracked'
  <2> SUFFICES ASSUME NEW t \in Toks, Known(t), Counts(t, Retention)' PROVE InBook(t)'
    BY DEF BudgetInv, Tracked
  <2>1. PICK a \in policy.sends : a.token = t BY <1>1 DEF BudgetInv, Tracked, InBook
  <2>2. CASE a.pending BY <2>1, <2>2, NotDropped DEF Counts
  <2>3. CASE ~a.pending
    <3>1. a.at = t.at BY <1>1, <2>1 DEF BudgetInv, Original
    <3>2. within(a.at, now, Retention) BY <1>1, <3>1 DEF Counts
    <3> QED BY <2>1, <2>3, <3>2 DEF InBook
  <2> QED BY <2>2, <2>3
<1>4. Original' BY <1>1 DEF BudgetInv, Original
<1>5. IsFiniteSet(policy'.sends) BY FS_Subset DEF BudgetInv
<1> QED BY <1>1, <1>2, <1>3, <1>4, <1>5, NoNewCharge

LEMMA BudgetTick == ASSUME Types, BudgetInv, Tick PROVE BudgetInv'
<1>1. now' = now + 1 /\ now \in Nat
      /\ UNCHANGED <<policy, forgotten, sent, outbox, token>>
  BY DEF Tick, history, replies, Types
<1>2. ASSUME NEW t \in Toks, NEW w \in {Hourly, Retention}, t.at <= now, Counts(t, w)'
      PROVE  Counts(t, w)
  <2>1. t.at \in Nat /\ w \in Nat BY WindowOrder DEF Toks
  <2> QED BY <1>1, <1>2, <2>1 DEF Counts, within
<1>3. \A t : (Known(t)' <=> Known(t)) /\ (InBook(t)' <=> InBook(t)) BY <1>1 DEF Known, InBook
<1>4. \A t \in Toks : t.at \in Nat /\ (t.at <= now => t.at <= now') BY <1>1 DEF Toks
<1>5. Tracked' BY <1>2, <1>3, <1>4 DEF BudgetInv, Tracked
<1>6. \A a \in policy.sends : a.token \in Toks /\ a.at \in Nat BY DEF Types, Slots
<1>7. Original'
  <2> SUFFICES ASSUME NEW a \in policy.sends
               PROVE  /\ a.did = ContactOf[a.token.msg] /\ a.token.at <= now' /\ a.at <= now'
                      /\ Counts(a.token, Retention)' => a.at = a.token.at
    BY <1>1 DEF Original
  <2>1. /\ a.did = ContactOf[a.token.msg] /\ a.token.at <= now /\ a.at <= now
        /\ Counts(a.token, Retention) => a.at = a.token.at
    BY DEF BudgetInv, Original
  <2>2. a.at <= now' /\ a.token.at <= now' BY <1>1, <1>4, <1>6, <2>1
  <2> QED BY <1>2, <1>6, <2>1, <2>2
<1>8. ASSUME NEW t \in Toks, NEW w \in {Hourly, Retention}, Counts(t, w)', InBook(t)'
      PROVE  Counts(t, w) /\ InBook(t)
  <2>1. PICK a \in policy.sends : a.token = t BY <1>1, <1>8 DEF InBook
  <2>2. t.at <= now BY <2>1 DEF BudgetInv, Original
  <2> QED BY <1>2, <1>3, <1>8, <2>2
<1> QED BY <1>1, <1>5, <1>7, <1>8, NoNewCharge DEF BudgetInv

\* What was lost with the file is forgotten.
LEMMA BudgetLost == ASSUME BudgetInv, LoseFile PROVE BudgetInv'
<1>1. /\ UNCHANGED <<now, sent, outbox, token>> /\ policy'.sends = {}
      /\ forgotten' = forgotten \cup {a.token : a \in policy.sends}
  BY DEF LoseFile, default
<1>2. \A t : (Known(t)' <=> Known(t)) /\ ~InBook(t)' BY <1>1 DEF Known, InBook
<1>3. \A t, w : Counts(t, w)' => Counts(t, w) /\ ~InBook(t) BY <1>1 DEF Counts, InBook
<1>4. Tracked' BY <1>1, <1>2, <1>3 DEF BudgetInv, Tracked
<1>5. Original' BY <1>1 DEF Original
<1>6. IsFiniteSet(policy'.sends) BY <1>1, FS_EmptySet
<1> QED BY <1>2, <1>4, <1>5, <1>6, NoNewCharge

LEMMA BudgetDial ==
  ASSUME IInv, BudgetInv, NEW c, NEW v, Write(set_autonomy(policy, c, v)),
         UNCHANGED <<now, sent, outbox, token>>
  PROVE  BudgetInv'
<1>1. policy'.sends = policy.sends BY DialSends DEF Write, IInv, Types
<1>2. \A t : Known(t)' <=> Known(t) BY DEF Known
<1> QED BY <1>1, <1>2, FileShrinks DEF Write, IInv

LEMMA BudgetCancel ==
  ASSUME IInv, BudgetInv, NEW c, NEW t, Write(cancel(policy, c, t)),
         UNCHANGED <<now, sent, outbox, token>>
  PROVE  BudgetInv'
<1>1. policy'.sends = {a \in policy.sends : a.did # c \/ a.token # t \/ ~a.pending}
  BY CancelSends DEF Write, IInv, Types
<1>2. \A u : Known(u)' <=> Known(u) BY DEF Known
<1> QED BY <1>1, <1>2, FileShrinks DEF Write, IInv

\* Where the slots of a confirmed file come from
LEMMA ConfirmOrigin ==
  ASSUME NEW p, DOMAIN p = {"dial", "sends", "ledger"}, p.sends \subseteq Slots,
         IsFiniteSet(p.sends), NEW t, NEW did, NEW thread, NEW n
  PROVE  LET q == confirm(p, did, t, thread, n)
         IN /\ IsFiniteSet(q.sends)
            /\ \A a \in p.sends : \E b \in q.sends : b.token = a.token
            /\ \A b \in q.sends :
                 \/ \E a \in p.sends : b.token = a.token /\ b.did = a.did /\ b.at = a.at
                 \/ /\ b.token = t /\ b.did = did /\ b.at = n
                    /\ \A a \in p.sends : a.did # did \/ a.token # t
<1> DEFINE mine == {a \in SendsOf(p, did) : a.token = t}
           done == [a \in mine |-> [a EXCEPT !.pending = FALSE]]
           new == [token |-> t, did |-> did, thread |-> thread, at |-> n, pending |-> FALSE]
           copies == {done[a] : a \in mine}
           kept == IF mine # {} THEN {[a EXCEPT !.pending = FALSE] : a \in mine} ELSE {new}
           q == confirm(p, did, t, thread, n)
<1>1. q.sends = (p.sends \ mine) \cup kept BY DEF confirm
<1>2. mine \subseteq p.sends /\ \A a \in p.sends : a.did = did /\ a.token = t => a \in mine
  BY DEF SendsOf
<1>3. \A a \in Slots : /\ [a EXCEPT !.pending = FALSE].token = a.token
                       /\ [a EXCEPT !.pending = FALSE].did = a.did
                       /\ [a EXCEPT !.pending = FALSE].at = a.at
  BY DEF Slots
<1>4. new.token = t /\ new.did = did /\ new.at = n OBVIOUS
<1>5. copies = {[a EXCEPT !.pending = FALSE] : a \in mine}
  <2> HIDE DEF mine
  <2> QED OBVIOUS
<1>6. done \in Surjection(mine, copies)
  <2> HIDE DEF mine
  <2> QED BY DEF Surjection
<1> HIDE DEF mine, new
<1>7. IsFiniteSet(mine) BY <1>2, FS_Subset
<1> HIDE DEF done, copies
<1>8. IsFiniteSet(copies) BY <1>6, <1>7, FS_Surjection
<1>9. IsFiniteSet(kept)
  <2>1. IsFiniteSet({new}) BY FS_Singleton
  <2> QED BY <1>5, <1>8, <2>1
<1>10. IsFiniteSet(p.sends \ mine)
  <2>1. p.sends \ mine \in SUBSET p.sends OBVIOUS
  <2> QED BY <2>1, FS_Subset
<1>11. IsFiniteSet(q.sends)
  <2>1. IsFiniteSet((p.sends \ mine) \cup kept)
    <3> HIDE DEF kept
    <3> QED BY <1>9, <1>10, FS_Union
  <2> QED BY <1>1, <2>1
<1>12. ASSUME NEW b \in q.sends
       PROVE  \/ \E a \in p.sends : b.token = a.token /\ b.did = a.did /\ b.at = a.at
              \/ /\ b.token = t /\ b.did = did /\ b.at = n
                 /\ \A a \in p.sends : a.did # did \/ a.token # t
  <2>1. CASE b \in p.sends BY <2>1
  <2>2. CASE b \in kept /\ mine # {}
    <3>1. PICK a \in mine : b = [a EXCEPT !.pending = FALSE] BY <2>2
    <3> QED BY <1>2, <1>3, <3>1
  <2>3. CASE b \in kept /\ mine = {} BY <1>2, <1>4, <2>3
  <2> QED BY <1>1, <2>1, <2>2, <2>3
<1>13. ASSUME NEW a \in p.sends PROVE \E b \in q.sends : b.token = a.token
  <2>1. CASE a \in mine BY <1>1, <1>3, <2>1
  <2>2. CASE a \notin mine BY <1>1, <2>2
  <2> QED BY <2>1, <2>2
<1> QED BY <1>11, <1>12, <1>13

\* A slot is put back only for a token that the budgets have lost already.
LEMMA BudgetConfirm ==
  ASSUME IInv, BudgetInv, NEW t \in Toks, t \in sent,
         Write(confirm(policy, ContactOf[t.msg], t, ThreadOf[t.msg], now)),
         UNCHANGED <<now, sent, outbox, token>>
  PROVE  BudgetInv'
<1>1. now \in Nat /\ t.msg \in Messages /\ ContactOf[t.msg] \in Contacts
      /\ ThreadOf[t.msg] \in {ThreadOf[m] : m \in Messages}
  BY Mailbox DEF IInv, Types, Toks
<1>3. /\ IsFiniteSet(policy'.sends)
      /\ \A a \in policy.sends : \E b \in policy'.sends : b.token = a.token
      /\ \A b \in policy'.sends :
           \/ \E a \in policy.sends : b.token = a.token /\ b.did = a.did /\ b.at = a.at
           \/ /\ b.token = t /\ b.did = ContactOf[t.msg] /\ b.at = now
              /\ \A a \in policy.sends : a.did # ContactOf[t.msg] \/ a.token # t
  BY ConfirmOrigin DEF IInv, Types, Write, BudgetInv
<1>4. forgotten \subseteq forgotten' BY DEF Write
<1>5. \A u, w : Counts(u, w)' => Counts(u, w) BY <1>4 DEF Counts
<1>6. (\A a \in policy.sends : a.did # ContactOf[t.msg] \/ a.token # t) => ~Counts(t, Retention)
  BY DEF BudgetInv, Tracked, Known, InBook, Original
<1>7. t.at <= now BY DEF BudgetInv, Tracked, Known
<1>8. Tracked' BY <1>3, <1>5 DEF BudgetInv, Tracked, Known, InBook
<1>9. Original'
  <2> SUFFICES ASSUME NEW b \in policy'.sends
               PROVE  /\ b.did = ContactOf[b.token.msg] /\ b.token.at <= now /\ b.at <= now
                      /\ Counts(b.token, Retention)' => b.at = b.token.at
    BY DEF Original
  <2>1. CASE \E a \in policy.sends : b.token = a.token /\ b.did = a.did /\ b.at = a.at
    BY <1>5, <2>1 DEF BudgetInv, Original
  <2>2. CASE /\ b.token = t /\ b.did = ContactOf[t.msg] /\ b.at = now
             /\ \A a \in policy.sends : a.did # ContactOf[t.msg] \/ a.token # t
    BY <1>1, <1>5, <1>6, <1>7, <2>2
  <2> QED BY <1>3, <2>1, <2>2
<1>10. ASSUME NEW u \in Toks, NEW w \in {Hourly, Retention}, Counts(u, w)', InBook(u)'
       PROVE  Counts(u, w) /\ InBook(u)
  <2>1. Counts(u, w) BY <1>5, <1>10
  <2>2. Counts(u, Retention)
    <3>1. u.at \in Nat BY DEF Toks
    <3> QED BY <1>1, <2>1, <3>1, Windows DEF Counts
  <2>3. PICK b \in policy'.sends : b.token = u BY <1>10 DEF InBook
  <2>4. \E a \in policy.sends : b.token = a.token BY <1>3, <1>6, <2>2, <2>3
  <2> QED BY <2>1, <2>3, <2>4 DEF InBook
<1> QED BY <1>3, <1>8, <1>9, <1>10, NoNewCharge

\* The slots reserve counts are no fewer than the tokens the budgets speak of.
LEMMA UnderCount ==
  ASSUME Types, BudgetInv, NEW w \in {Hourly, Retention}, NEW S, S \subseteq policy.sends,
         NEW X, X \subseteq Toks,
         \A t \in X : Counts(t, w) /\ \E a \in S : a.token = t
  PROVE  /\ IsFiniteSet(X) /\ Cardinality(X) <= Recent(S, now, w)
         /\ Cardinality(X) \in Nat /\ Recent(S, now, w) \in Nat
<1> DEFINE R == {a \in S : within(a.at, now, w)}
<1>1. IsFiniteSet(R) BY FS_Subset DEF BudgetInv
<1>2. ASSUME NEW t \in X PROVE \E a \in R : a.token = t
  <2>1. PICK a \in S : a.token = t OBVIOUS
  <2>2. t.at \in Nat /\ now \in Nat BY DEF Toks, Types
  <2>3. Counts(t, Retention) BY <2>2, Windows DEF Counts
  <2>4. a.at = t.at BY <2>1, <2>3 DEF BudgetInv, Original
  <2> QED BY <2>1, <2>4 DEF Counts
<1> QED BY <1>1, <1>2, TokensOfSlots DEF Recent

\* One more than what is under the cap
LEMMA OneMore ==
  ASSUME NEW X, IsFiniteSet(X), NEW n \in Nat, NEW cap \in Nat, Cardinality(X) <= n, ~(n >= cap),
         NEW t, NEW Y, Y \subseteq X \cup {t}
  PROVE  Cardinality(Y) <= cap
<1>1. Cardinality(X) \in Nat BY FS_CardinalityType
<1>2. /\ IsFiniteSet(X \cup {t})
      /\ Cardinality(X \cup {t}) = IF t \in X THEN Cardinality(X) ELSE Cardinality(X) + 1
  BY FS_AddElement
<1>3. PICK Z : Z = X \cup {t} OBVIOUS
<1>4. IsFiniteSet(Z) /\ Cardinality(Z) <= Cardinality(X) + 1 /\ Cardinality(Z) \in Nat
  BY <1>1, <1>2, <1>3
<1>5. IsFiniteSet(Y) /\ Cardinality(Y) <= Cardinality(Z) BY <1>3, <1>4, FS_Subset
<1>6. Cardinality(Y) \in Nat BY <1>5, FS_CardinalityType
<1> QED BY <1>1, <1>4, <1>5, <1>6

LEMMA BudgetReserve ==
  ASSUME IInv, BudgetInv, NEW m \in Messages, Reserve(m)
  PROVE  BudgetInv'
<1> DEFINE q == prune(policy, now)
           c == ContactOf[m]
           d == decide(q, c, ThreadOf[m], arrived[m], now)
<1>1. PICK slot : slot = [token |-> Token(m), did |-> c, thread |-> ThreadOf[m],
                          at |-> now, pending |-> TRUE]
  OBVIOUS
<1>2. PICK new : new = Token(m) OBVIOUS
<1>3. /\ new \in Toks /\ new.msg = m /\ new.at = now /\ c \in Contacts /\ now \in Nat
  BY <1>2, Mailbox DEF Token, Toks, IInv, Types
<1>4. slot.token = new /\ slot.did = c /\ slot.at = now BY <1>1, <1>2
<1>5. /\ arrived[m] # NotYet /\ UNCHANGED <<now, sent, outbox>>
      /\ forgotten' = forgotten \cup Dropped(policy, policy')
  BY DEF Reserve, Write
<1>6. /\ policy'.sends = q.sends \cup (IF d = "auto" THEN {slot} ELSE {})
      /\ token' = [token EXCEPT ![m] = IF d = "auto" THEN new ELSE NoToken]
  BY <1>1, <1>2, <1>5, ReserveResult DEF Reserve, Write, IInv
<1>7. /\ q.sends \subseteq policy.sends
      /\ \A a \in policy.sends : ~a.pending /\ within(a.at, now, Retention) => a \in q.sends
  BY PruneSends DEF IInv, Types
<1>8. d = "auto" => ~Exhausted(q, c, now) BY DEF decide
<1> HIDE DEF q, d
<1>9. CASE d # "auto"
  <2>1. \A t \in Toks : Known(t)' => Known(t)
    BY <1>5, <1>6, <1>9, NoTokenIsNone DEF IInv, Types, Known
  <2> QED BY <1>5, <1>6, <1>7, <1>9, <2>1, FileShrinks DEF IInv
<1>10. CASE d = "auto"
  <2>1. policy'.sends = q.sends \cup {slot} /\ token' = [token EXCEPT ![m] = new]
    BY <1>6, <1>10
  <2>2. \A t \in Toks : Known(t)' => Known(t) \/ t = new
    BY <1>5, <2>1 DEF IInv, Types, Known
  <2>3. \A t, w : Counts(t, w)' => Counts(t, w) BY <1>5 DEF Counts
  <2>4. Tracked'
    <3> SUFFICES ASSUME NEW t \in Toks, Known(t)'
                 PROVE  t.at <= now /\ (Counts(t, Retention)' => InBook(t)')
      BY <1>5 DEF Tracked
    <3>1. CASE t = new BY <1>3, <1>4, <2>1, <3>1 DEF InBook
    <3>2. CASE Known(t)
      <4>1. t.at <= now BY <3>2 DEF BudgetInv, Tracked
      <4> SUFFICES ASSUME Counts(t, Retention)' PROVE InBook(t)' BY <4>1
      <4>2. PICK a \in policy.sends : a.token = t BY <2>3, <3>2 DEF BudgetInv, Tracked, InBook
      <4>3. CASE a.pending BY <1>5, <4>2, <4>3, NotDropped DEF Counts
      <4>4. CASE ~a.pending
        <5>1. a.at = t.at BY <2>3, <4>2 DEF BudgetInv, Original
        <5>2. within(a.at, now, Retention) BY <1>5, <5>1 DEF Counts
        <5> QED BY <1>7, <2>1, <4>2, <4>4, <5>2 DEF InBook
      <4> QED BY <4>3, <4>4
    <3> QED BY <2>2, <3>1, <3>2
  <2>5. Original'
    <3>1. \A a \in policy'.sends : a \in policy.sends \/ a = slot BY <1>7, <2>1
    <3>2. now <= now BY <1>3
    <3> QED BY <1>3, <1>4, <1>5, <2>3, <3>1, <3>2 DEF BudgetInv, Original
  <2>6. IsFiniteSet(q.sends) /\ IsFiniteSet(policy'.sends)
    BY <1>7, <2>1, FS_Subset, FS_AddElement DEF BudgetInv
  <2> DEFINE Rest(D, w) == {t \in Toks : /\ Counts(t, w) /\ ContactOf[t.msg] \in D
                                         /\ \E a \in q.sends : a.token = t}
  <2>7. ASSUME NEW D, NEW w
        PROVE  /\ Charged(D, w)' \subseteq Rest(D, w) \cup {new}
               /\ c \notin D => Charged(D, w)' \subseteq Charged(D, w)
    BY <1>3, <1>4, <1>7, <2>1, <2>3 DEF Charged, InBook
  <2>8. ASSUME NEW D, NEW w \in {Hourly, Retention}, NEW S, S \subseteq q.sends,
               \A a \in q.sends : a.did \in D => a \in S
        PROVE  /\ IsFiniteSet(Rest(D, w)) /\ Cardinality(Rest(D, w)) <= Recent(S, now, w)
               /\ Cardinality(Rest(D, w)) \in Nat /\ Recent(S, now, w) \in Nat
    <3>1. \A t \in Rest(D, w) : Counts(t, w) /\ \E a \in S : a.token = t
      BY <1>7, <2>8 DEF BudgetInv, Original
    <3>2. Rest(D, w) \subseteq Toks /\ S \subseteq policy.sends BY <1>7, <2>8
    <3> HIDE DEF Rest
    <3> QED BY <3>1, <3>2, UnderCount DEF IInv
  <2>9. ASSUME NEW D, NEW w \in {Hourly, Retention}, NEW S, S \subseteq q.sends,
               \A a \in q.sends : a.did \in D => a \in S,
               NEW cap \in Nat, ~(Recent(S, now, w) >= cap)
        PROVE  Cardinality(Charged(D, w)') <= cap
    <3>1. PICK n \in Nat : n = Recent(S, now, w) BY <2>8, <2>9
    <3>2. PICK X : X = Rest(D, w) OBVIOUS
    <3>3. PICK Y : Y = Charged(D, w)' OBVIOUS
    <3>4. IsFiniteSet(X) /\ Cardinality(X) <= n BY <2>8, <2>9, <3>1, <3>2
    <3>5. Y \subseteq X \cup {new} BY <2>7, <3>2, <3>3
    <3> HIDE DEF Rest
    <3>6. Cardinality(Y) <= cap BY <2>9, <3>1, <3>4, <3>5, OneMore
    <3> QED BY <3>3, <3>6
  <2>10. HourlyCap \in Nat /\ DailyCap \in Nat /\ GlobalCap \in Nat BY WindowOrder
  <2>11. WithinCaps'
    <3>1. ASSUME NEW e \in Contacts
          PROVE  Cardinality(Charged({e}, Hourly)') <= HourlyCap
                 /\ Cardinality(Charged({e}, Retention)') <= DailyCap
      <4>1. CASE e = c
        <5>1. PICK S : S = SendsOf(q, c) OBVIOUS
        <5>2. S \subseteq q.sends /\ \A a \in q.sends : a.did \in {e} => a \in S
          BY <4>1, <5>1 DEF SendsOf
        <5>3. ~(Recent(S, now, Hourly) >= HourlyCap) /\ ~(Recent(S, now, Retention) >= DailyCap)
          BY <1>8, <1>10, <5>1 DEF Exhausted
        <5> QED BY <2>9, <2>10, <5>2, <5>3
      <4>2. CASE e # c
        <5>1. /\ Cardinality(Charged({e}, Hourly)) <= HourlyCap
              /\ Cardinality(Charged({e}, Retention)) <= DailyCap
          BY DEF BudgetInv, WithinCaps
        <5>2. \A w : /\ Cardinality(Charged({e}, w)') <= Cardinality(Charged({e}, w))
                     /\ Cardinality(Charged({e}, w)') \in Nat
                     /\ Cardinality(Charged({e}, w)) \in Nat
          BY <2>7, <4>2, FewerSlots DEF BudgetInv
        <5>3. PICK h, k, i, j : /\ h = Cardinality(Charged({e}, Hourly)')
                                /\ k = Cardinality(Charged({e}, Hourly))
                                /\ i = Cardinality(Charged({e}, Retention)')
                                /\ j = Cardinality(Charged({e}, Retention))
          OBVIOUS
        <5>4. h <= k /\ i <= j /\ h \in Nat /\ k \in Nat /\ i \in Nat /\ j \in Nat
          BY <5>2, <5>3
        <5> QED BY <2>10, <5>1, <5>3, <5>4
      <4> QED BY <4>1, <4>2
    <3>2. Cardinality(Charged(Contacts, Retention)') <= GlobalCap
      <4>1. ~(Recent(q.sends, now, Retention) >= GlobalCap) BY <1>8, <1>10 DEF Exhausted
      <4> QED BY <2>9, <2>10, <4>1
    <3> QED BY <3>1, <3>2 DEF WithinCaps
  <2> QED BY <2>4, <2>5, <2>6, <2>11 DEF BudgetInv
<1> QED BY <1>9, <1>10

LEMMA BudgetInitially == Init => BudgetInv
<1> SUFFICES ASSUME Init PROVE BudgetInv OBVIOUS
<1>1. /\ policy.sends = {} /\ sent = {} /\ outbox = {} /\ now = 0
      /\ \A m \in Messages : token[m] \notin Toks
  BY NoTokenIsNone DEF Init, default
<1>2. \A t \in Toks : ~Known(t) /\ ~InBook(t) BY <1>1 DEF Known, InBook
<1>3. Tracked /\ Original BY <1>1, <1>2 DEF Tracked, Original
<1>4. IsFiniteSet(policy.sends) BY <1>1, FS_EmptySet
<1>5. \A D, w : Charged(D, w) = {} BY <1>2 DEF Charged
<1>6. \A D, w : Cardinality(Charged(D, w)) = 0 BY <1>5, FS_EmptySet
<1>7. /\ 0 <= HourlyCap /\ 0 <= DailyCap /\ 0 <= GlobalCap BY WindowOrder
<1>8. WithinCaps BY <1>6, <1>7 DEF WithinCaps
<1> QED BY <1>3, <1>4, <1>8 DEF BudgetInv

LEMMA BudgetInductive == IInv /\ LedgerInv /\ BudgetInv /\ [Next]_vars => BudgetInv'
<1> SUFFICES ASSUME IInv, LedgerInv, BudgetInv, [Next]_vars PROVE BudgetInv' OBVIOUS
<1>1. ASSUME NEW m \in Messages, Arrive(m) \/ Skip(m) \/ ReserveFails(m) \/ Record(m) \/ Stash(m)
      PROVE  BudgetInv'
  <2>1. UNCHANGED <<policy, forgotten, now, sent, outbox, token>>
    BY <1>1 DEF Arrive, Skip, ReserveFails, Record, Stash, history, replies
  <2> QED BY <2>1, BudgetIdle DEF Known
<1>2. ASSUME NEW m \in Messages,
             ReserveUnread(m) \/ StreamStarts(m) \/ Fail(m) \/ DispatchFails(m)
      PROVE  BudgetInv'
  <2>1. /\ UNCHANGED <<policy, forgotten, now, sent, outbox>>
        /\ UNCHANGED token \/ token' = [token EXCEPT ![m] = NoToken]
    BY <1>2 DEF ReserveUnread, StreamStarts, Fail, DispatchFails, Leave, history, replies
  <2>2. \A n \in Messages : token'[n] = token[n] \/ token'[n] \notin Toks
    BY <2>1, NoTokenIsNone DEF IInv, Types
  <2> QED BY <2>1, <2>2, BudgetIdle DEF Known
<1>3. ASSUME NEW m \in Messages, Reserve(m) PROVE BudgetInv' BY <1>3, BudgetReserve
<1>4. ASSUME NEW m \in Messages, Finish(m) PROVE BudgetInv'
  <2>1. /\ UNCHANGED <<policy, forgotten, now, sent, token>>
        /\ outbox' \subseteq outbox \cup {token[m]}
    BY <1>4 DEF Finish, history, replies
  <2> QED BY <2>1, BudgetIdle DEF Known
<1>5. ASSUME NEW a \in acks, Acknowledge(a) PROVE BudgetInv'
  <2>1. PICK m : m = a.token.msg OBVIOUS
  <2>2. /\ UNCHANGED <<policy, forgotten, now, sent, outbox>>
        /\ UNCHANGED token \/ token' = [token EXCEPT ![m] = NoToken]
    BY <1>5, <2>1 DEF Acknowledge, Leave, replies
  <2>3. \A n \in Messages : token'[n] = token[n] \/ token'[n] \notin Toks
    BY <2>2, NoTokenIsNone DEF IInv, Types
  <2> QED BY <2>2, <2>3, BudgetIdle DEF Known
<1>6. ASSUME NEW o \in ops, Execute(o) PROVE BudgetInv'
  <2>1. UNCHANGED <<now, sent, outbox, token>> BY <1>6 DEF Execute
  <2>2. CASE UNCHANGED <<policy, forgotten>> BY <2>1, <2>2, BudgetIdle DEF Known
  <2>3. CASE Write(set_autonomy(policy, o.did, "draft")) BY <2>1, <2>3, BudgetDial
  <2>4. CASE Write(cancel(policy, ContactOf[o.token.msg], o.token)) BY <2>1, <2>4, BudgetCancel
  <2>5. CASE /\ o.op = "confirm"
             /\ Write(confirm(policy, ContactOf[o.token.msg], o.token, ThreadOf[o.token.msg], now))
    <3>1. PICK t \in Toks : t = o.token BY <2>5 DEF IInv, Types
    <3>2. t \in sent BY <2>5, <3>1 DEF LedgerInv, AnswersOnce
    <3> QED BY <2>1, <2>5, <3>1, <3>2, BudgetConfirm
  <2> QED BY <1>6, <2>2, <2>3, <2>4, <2>5 DEF Execute, Change, IInv, Types
<1>7. ASSUME NEW t \in outbox, Relay(t) PROVE BudgetInv'
  <2>1. /\ UNCHANGED <<policy, forgotten, now, token>>
        /\ outbox' \subseteq outbox /\ sent' \subseteq sent \cup {t}
    BY <1>7 DEF Relay
  <2> QED BY <2>1, BudgetIdle DEF Known
<1>8. ASSUME NEW c \in Contacts, KeyChange(c) PROVE BudgetInv'
  <2>1. /\ UNCHANGED <<policy, forgotten, now, sent, outbox>>
        /\ \A n \in Messages : token'[n] = token[n] \/ token'[n] = NoToken
    BY <1>8 DEF KeyChange, replies
  <2> QED BY <2>1, NoTokenIsNone, BudgetIdle DEF Known
<1>9. ASSUME NEW c \in Contacts, SetDial(c) PROVE BudgetInv'
  BY <1>9, BudgetDial DEF SetDial
<1>10. ASSUME Tick PROVE BudgetInv' BY <1>10, BudgetTick DEF IInv
<1>11. ASSUME Restart PROVE BudgetInv'
  <2>1. /\ UNCHANGED <<policy, forgotten, now, sent>> /\ outbox' \subseteq outbox
        /\ \A n \in Messages : token'[n] = NoToken
    BY <1>11 DEF Restart, replies
  <2> QED BY <2>1, NoTokenIsNone, BudgetIdle DEF Known
<1>12. ASSUME LoseFile PROVE BudgetInv' BY <1>12, BudgetLost
<1>13. ASSUME UNCHANGED vars PROVE BudgetInv' BY <1>13, BudgetIdle DEF vars, Known
<1> QED BY <1>1, <1>2, <1>3, <1>4, <1>5, <1>6, <1>7, <1>8, <1>9, <1>10, <1>11, <1>12, <1>13
        DEF Next, Loop

\* The hourly, daily and global budgets bound what was really sent, over every message, life
\* and lost acknowledgement, except for reservations the file had to forget (policy_store.rs,
\* reserve and prune).
THEOREM BudgetsHold == Spec => []BudgetHeld
<1>1. ASSUME IInv, BudgetInv PROVE BudgetHeld
  <2> DEFINE counted == {t \in sent : t \notin forgotten}
             of(c) == {t \in counted : ContactOf[t.msg] = c}
             Seen(S, w) == {t \in S : within(t.at, now, w)}
  <2>1. ASSUME NEW w \in {Hourly, Retention}, NEW t \in sent, t \notin forgotten,
               within(t.at, now, w)
        PROVE  t \in Charged(Contacts, w) /\ t \in Charged({ContactOf[t.msg]}, w)
    <3>1. t \in Toks /\ t.at \in Nat /\ now \in Nat /\ ContactOf[t.msg] \in Contacts
      BY <1>1, Mailbox DEF IInv, Types, Toks
    <3>2. Counts(t, w) /\ Counts(t, Retention) BY <2>1, <3>1, Windows DEF Counts
    <3>3. InBook(t) BY <1>1, <3>1, <3>2 DEF BudgetInv, Tracked, Known
    <3> QED BY <3>1, <3>2, <3>3 DEF Charged
  <2>2. ASSUME NEW w \in {Hourly, Retention}, NEW S, NEW D, Seen(S, w) \subseteq Charged(D, w),
               NEW cap \in Nat, Cardinality(Charged(D, w)) <= cap
        PROVE  Recent(S, now, w) <= cap
    <3>1. /\ Cardinality(Seen(S, w)) <= Cardinality(Charged(D, w))
          /\ Cardinality(Seen(S, w)) \in Nat /\ Cardinality(Charged(D, w)) \in Nat
      BY <1>1, <2>2, FewerSlots DEF BudgetInv
    <3>2. Recent(S, now, w) = Cardinality(Seen(S, w)) BY DEF Recent
    <3> HIDE DEF Seen
    <3> QED BY <2>2, <3>1, <3>2
  <2>3. HourlyCap \in Nat /\ DailyCap \in Nat /\ GlobalCap \in Nat BY WindowOrder
  <2>4. ASSUME NEW c \in Contacts
        PROVE  Recent(of(c), now, Hourly) <= HourlyCap /\ Recent(of(c), now, Retention) <= DailyCap
    <3>1. /\ Cardinality(Charged({c}, Hourly)) <= HourlyCap
          /\ Cardinality(Charged({c}, Retention)) <= DailyCap
      BY <1>1 DEF BudgetInv, WithinCaps
    <3>2. \A w \in {Hourly, Retention} : Seen(of(c), w) \subseteq Charged({c}, w) BY <2>1
    <3> HIDE DEF of, Seen
    <3> QED BY <2>2, <2>3, <3>1, <3>2
  <2>5. Recent(counted, now, Retention) <= GlobalCap
    <3>1. Cardinality(Charged(Contacts, Retention)) <= GlobalCap
      BY <1>1 DEF BudgetInv, WithinCaps
    <3>2. Seen(counted, Retention) \subseteq Charged(Contacts, Retention) BY <2>1
    <3> HIDE DEF counted, Seen
    <3> QED BY <2>2, <2>3, <3>1, <3>2
  <2> QED BY <2>4, <2>5 DEF BudgetHeld
<1> QED BY <1>1, Initially, Inductive, LedgerInitially, LedgerInductive, BudgetInitially,
           BudgetInductive, PTL DEF Spec
=============================================================================
