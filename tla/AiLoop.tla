------------------------------- MODULE AiLoop --------------------------------
(***************************************************************************)
(* The desktop's reply loop (aiLoop.tsx) over the policy file: a message    *)
(* from the channel takes its contact's lock, reserves a slot, streams a    *)
(* draft and, when the policy said auto, sends it; the daemon's answer      *)
(* confirms or cancels the slot.  Every await is a step boundary: between   *)
(* two steps the contact's key may change, the clock moves, the             *)
(* acknowledgement may overtake the promise that announced the send, the    *)
(* provider fails, or the application dies and finds the same mail again.   *)
(*                                                                          *)
(* Policy commands that nobody awaits (cancel, confirm, the dial reset)     *)
(* are outstanding operations executed later in any order.                  *)
(***************************************************************************)
EXTENDS InboxPolicy

CONSTANTS
  Contacts, Messages,
  ContactOf,      \* who sent each message
  ThreadOf,       \* its thread, or NoThread
  MaxTime,        \* bound on the clock
  MaxMishaps      \* bound on failed calls, failed sends, lost answers, key
                  \* changes, dial changes, lost files and deaths of the
                  \* application

ASSUME Mailbox ==
  /\ ContactOf \in [Messages -> Contacts]
  /\ MaxTime \in Nat /\ MaxMishaps \in Nat

VARIABLES
  now,        \* the wall clock
  boot,       \* how often the application has died
  arrived,    \* when the relay got each message, or NotYet
  policy,     \* agent-policy.json
  pc,         \* where handle() and its callbacks are, per message
  token,      \* the reservation of each message, or NoToken
  inFlight,   \* contacts locked by the loop
  ops,        \* policy commands issued and not yet executed
  outbox,     \* sends queued for the daemon
  acks,       \* answers of the daemon not yet delivered
  sent,       \* history: replies the relay accepted
  forgotten,  \* history: reservations dropped from the file while pending
  misreported,\* history: accepted sends that were reported as failed
  wiped,      \* history: reservations and sends lost with the whole file
  mishaps     \* the count MaxMishaps bounds

vars == <<now, boot, arrived, policy, pc, token, inFlight, ops, outbox, acks,
          sent, forgotten, misreported, wiped, mishaps>>

replies == <<sent, forgotten, misreported, wiped>>
history == <<replies, mishaps>>

NotYet == -1
NoToken == [msg |-> "none"]

\* A reservation is named by its message, the life it was made in and its time.
Token(m) == [msg |-> m, boot |-> boot, at |-> now]
Tokens == [msg : Messages, boot : 0 .. MaxMishaps, at : 0 .. MaxTime]

\* The states in which handle() or one of its callbacks owns the contact's lock.
Working == {"reserved", "starting", "streaming", "sending"}

States == Working \cup {"new", "orphaned", "stashed", "drafted", "over"}

\* What load makes of a file that is missing, corrupt or cannot be read.
default == [dial |-> [c \in Contacts |-> "draft"], sends |-> {},
            ledger |-> [c \in Contacts |-> <<>>]]

Init ==
  /\ now = 0 /\ boot = 0
  /\ arrived = [m \in Messages |-> NotYet]
  /\ policy = [default EXCEPT !.dial = [c \in Contacts |-> "auto"]]
  /\ pc = [m \in Messages |-> "new"]
  /\ token = [m \in Messages |-> NoToken]
  /\ inFlight = {} /\ ops = {} /\ outbox = {} /\ acks = {}
  /\ sent = {} /\ forgotten = {} /\ misreported = {} /\ wiped = {}
  /\ mishaps = 0

-----------------------------------------------------------------------------
Mishap == mishaps < MaxMishaps /\ mishaps' = mishaps + 1

Goto(m, state) == pc' = [pc EXCEPT ![m] = state]

Unlock(m) == inFlight' = inFlight \ {ContactOf[m]}

\* The message is finished with, and its reservation no longer referred to.
Leave(m) == Goto(m, "over") /\ token' = [token EXCEPT ![m] = NoToken]

\* A fire-and-forget inboxAiCancel of the message's reservation, if it has one.
Cancelled(m) ==
  IF token[m] = NoToken THEN {} ELSE {[op |-> "cancel", token |-> token[m]]}

\* Reservations that a rewrite of the file drops before anyone settled them.
Dropped(old, new) ==
  {a.token : a \in {b \in old.sends : b.pending}} \ {a.token : a \in new.sends}

Write(p) == policy' = p /\ forgotten' = forgotten \cup Dropped(policy, p)

\* The relay queues a message for us.
Arrive(m) ==
  /\ arrived[m] = NotYet
  /\ arrived' = [arrived EXCEPT ![m] = now]
  /\ UNCHANGED <<now, boot, policy, pc, token, inFlight, ops, outbox, acks, history>>

\* handle() on a message it has not met in this life: skipped for good while its
\* contact is locked.
Skip(m) ==
  /\ arrived[m] # NotYet /\ pc[m] = "new"
  /\ ContactOf[m] \in inFlight
  /\ Goto(m, "over")
  /\ UNCHANGED <<now, boot, arrived, policy, token, inFlight, ops, outbox, acks, history>>

\* Otherwise the contact is locked and inbox_ai_reserve decides on the file as it
\* is.  (Waiting for its worker changes nothing that others can see but the lock.)
Reserve(m) ==
  /\ arrived[m] # NotYet /\ pc[m] = "new"
  /\ ContactOf[m] \notin inFlight
  /\ LET r == reserve(policy, ContactOf[m], ThreadOf[m], arrived[m], now, Token(m))
     IN /\ Write(r.policy)
        /\ token' = [token EXCEPT ![m] = IF r.decision = "auto" THEN Token(m) ELSE NoToken]
        /\ IF r.decision = "off"
             THEN Goto(m, "over") /\ UNCHANGED inFlight
             ELSE Goto(m, "reserved") /\ inFlight' = inFlight \cup {ContactOf[m]}
  /\ UNCHANGED <<now, boot, arrived, ops, outbox, acks, sent, misreported, wiped, mishaps>>

\* The reservation could not be written: nothing is sent.
ReserveFails(m) ==
  /\ arrived[m] # NotYet /\ pc[m] = "new" /\ ContactOf[m] \notin inFlight
  /\ Mishap
  /\ Goto(m, "over")
  /\ UNCHANGED <<now, boot, arrived, policy, token, inFlight, ops, outbox, acks, replies>>

\* The file could not be read this once: the default says draft, and as it holds
\* nothing to prune nothing is written back.
ReserveUnread(m) ==
  /\ arrived[m] # NotYet /\ pc[m] = "new" /\ ContactOf[m] \notin inFlight
  /\ Mishap
  /\ token' = [token EXCEPT ![m] = NoToken]
  /\ Goto(m, "reserved") /\ inFlight' = inFlight \cup {ContactOf[m]}
  /\ UNCHANGED <<now, boot, arrived, policy, ops, outbox, acks, replies>>

\* The history has been read: the run is recorded and the stream is asked for.
Record(m) ==
  /\ pc[m] = "reserved"
  /\ Goto(m, "starting")
  /\ UNCHANGED <<now, boot, arrived, policy, token, inFlight, ops, outbox, acks, history>>

StreamStarts(m) ==
  /\ pc[m] \in {"starting", "orphaned"}
  /\ IF pc[m] = "starting" THEN Goto(m, "streaming") /\ UNCHANGED token ELSE Leave(m)
  /\ UNCHANGED <<now, boot, arrived, policy, inFlight, ops, outbox, acks, history>>

\* llmStreamStart rejected, or llm_stream_error: the reservation is released and
\* the contact unlocked, by a run that a key change has removed as well.
Fail(m) ==
  /\ pc[m] \in {"starting", "orphaned", "streaming"} /\ Mishap
  /\ Leave(m) /\ Unlock(m)
  /\ ops' = ops \cup Cancelled(m)
  /\ UNCHANGED <<now, boot, arrived, policy, outbox, acks, replies>>

\* A draft path that returns before the unlock.
FinishKeepsDraftLocked(m) ==
  /\ pc[m] = "streaming"
  /\ Goto(m, IF token[m] # NoToken THEN "sending" ELSE "drafted")
  /\ outbox' = outbox \cup ({token[m]} \ {NoToken})
  /\ UNCHANGED <<now, boot, arrived, policy, token, inFlight, ops, acks, history>>

\* llm_stream_done: a draft waits for the user; an automatic answer is queued for
\* the daemon by inbox_send, whose promise is still to resolve.
Finish(m) ==
  /\ pc[m] = "streaming"
  /\ IF token[m] # NoToken
       THEN Goto(m, "sending") /\ outbox' = outbox \cup {token[m]} /\ UNCHANGED inFlight
       ELSE Goto(m, "drafted") /\ Unlock(m) /\ UNCHANGED outbox
  /\ UNCHANGED <<now, boot, arrived, policy, token, ops, acks, history>>

\* The viewer is not connected: no acknowledgement will come.
DispatchFails(m) ==
  /\ pc[m] = "streaming" /\ token[m] # NoToken /\ Mishap
  /\ Leave(m) /\ Unlock(m)
  /\ ops' = ops \cup Cancelled(m)
  /\ UNCHANGED <<now, boot, arrived, policy, outbox, acks, replies>>

\* The promise of inbox_send has resolved: from here on the answer is matched.
Stash(m) ==
  /\ pc[m] = "sending"
  /\ Goto(m, "stashed") /\ Unlock(m)
  /\ UNCHANGED <<now, boot, arrived, policy, token, ops, outbox, acks, history>>

\* An answer that is taken for a success whatever it says.
AcknowledgeAnything(a) ==
  /\ a \in acks
  /\ acks' = acks \ {a}
  /\ LET m == a.token.msg
     IN IF pc[m] = "stashed" /\ token[m] = a.token
          THEN Leave(m) /\ ops' = ops \cup {[op |-> "confirm", token |-> a.token]}
          ELSE UNCHANGED <<pc, token, ops>>
  /\ UNCHANGED <<now, boot, arrived, policy, inFlight, outbox, history>>

\* The loop handles an answer: one it cannot match is ignored.  Delivery is at least
\* once, so the same answer may come again.
Acknowledge(a) ==
  /\ a \in acks
  /\ \/ acks' = acks \ {a} /\ UNCHANGED mishaps
     \/ Mishap /\ UNCHANGED acks
  /\ LET m == a.token.msg
     IN IF pc[m] = "stashed" /\ token[m] = a.token
          THEN /\ Leave(m)
               /\ ops' = ops \cup {[op |-> IF a.ok THEN "confirm" ELSE "cancel", token |-> a.token]}
          ELSE UNCHANGED <<pc, token, ops>>
  /\ UNCHANGED <<now, boot, arrived, policy, inFlight, outbox, replies>>

\* A viewer frame says that the contact's key has changed: its dial goes back to
\* draft and the runs on record are cancelled.
KeyChange(c) ==
  /\ Mishap
  /\ LET runs == {m \in Messages : ContactOf[m] = c /\ pc[m] \in {"starting", "streaming"}}
     IN /\ pc' = [m \in Messages |-> IF m \notin runs THEN pc[m]
                                     ELSE IF pc[m] = "starting" THEN "orphaned" ELSE "over"]
        /\ token' = [m \in Messages |-> IF m \in runs /\ pc[m] = "streaming" THEN NoToken
                                        ELSE token[m]]
        /\ ops' = ops \cup (UNION {Cancelled(m) : m \in runs})
                      \cup {[op |-> "draft", did |-> c]}
        /\ inFlight' = IF runs = {} THEN inFlight ELSE inFlight \ {c}
  /\ UNCHANGED <<now, boot, arrived, policy, outbox, acks, replies>>

\* The user turns a contact's dial.
SetDial(c) ==
  /\ Mishap
  /\ \E v \in Autonomy \ {policy.dial[c]} : Write(set_autonomy(policy, c, v))
  /\ UNCHANGED <<now, boot, arrived, pc, token, inFlight, ops, outbox, acks, sent,
                 misreported, wiped>>

Change(o) ==
  CASE o.op = "draft"   -> Write(set_autonomy(policy, o.did, "draft"))
    [] o.op = "cancel"  -> Write(cancel(policy, ContactOf[o.token.msg], o.token))
    [] o.op = "confirm" -> Write(confirm(policy, ContactOf[o.token.msg], o.token,
                                         ThreadOf[o.token.msg], now))

\* An outstanding policy command runs, or its file write fails (a confirmation
\* is retried once, which is one more chance and no certainty).
Execute(o) ==
  /\ o \in ops
  /\ ops' = ops \ {o}
  /\ \/ Mishap /\ UNCHANGED <<policy, forgotten>>
     \/ UNCHANGED mishaps /\ Change(o)
  /\ UNCHANGED <<now, boot, arrived, pc, token, inFlight, outbox, acks, sent,
                 misreported, wiped>>

\* The file is gone or corrupt, or a command that could not read it has written the
\* default back: dials, reservations and sends are lost together.
LoseFile ==
  /\ Mishap
  /\ policy' = default
  /\ LET lost == {a.token : a \in policy.sends}
     IN forgotten' = forgotten \cup lost /\ wiped' = wiped \cup lost
  /\ UNCHANGED <<now, boot, arrived, pc, token, inFlight, ops, outbox, acks, sent, misreported>>

-----------------------------------------------------------------------------
\* The daemon sends a queued frame.  The relay accepts it or not, and the answer
\* may report an accepted send as failed, or be lost with the daemon or with the
\* connection of a life that has ended.
Relay(t) ==
  /\ t \in outbox
  /\ outbox' = outbox \ {t}
  /\ \E accepted \in BOOLEAN, answer \in {"ok", "err", "none"} :
       /\ answer = "ok" => accepted
       /\ t.boot # boot => answer = "none"
       /\ IF answer = "ok" \/ (accepted /\ t.boot # boot) THEN UNCHANGED mishaps ELSE Mishap
       /\ sent' = IF accepted THEN sent \cup {t} ELSE sent
       /\ misreported' = IF accepted /\ answer = "err" THEN misreported \cup {t} ELSE misreported
       /\ acks' = IF answer = "none" THEN acks
                  ELSE acks \cup {[token |-> t, ok |-> answer = "ok"]}
  /\ UNCHANGED <<now, boot, arrived, policy, pc, token, inFlight, ops, forgotten, wiped>>

Tick ==
  /\ now < MaxTime
  /\ now' = now + 1
  /\ UNCHANGED <<boot, arrived, policy, pc, token, inFlight, ops, outbox, acks, history>>

\* The application dies and starts again: the channel replays the mail, the
\* memory of it is gone, frames already at the daemon are still sent.
Restart ==
  /\ Mishap
  /\ boot' = boot + 1
  /\ pc' = [m \in Messages |-> "new"]
  /\ token' = [m \in Messages |-> NoToken]
  /\ inFlight' = {} /\ ops' = {} /\ acks' = {}
  /\ \E kept \in SUBSET outbox : outbox' = kept
  /\ UNCHANGED <<now, arrived, policy, replies>>

Loop(m) ==
  Record(m) \/ StreamStarts(m) \/ Fail(m) \/ Finish(m) \/ DispatchFails(m) \/ Stash(m)

Next ==
  \/ \E m \in Messages : Arrive(m) \/ Skip(m) \/ Loop(m)
                         \/ Reserve(m) \/ ReserveFails(m) \/ ReserveUnread(m)
  \/ \E a \in acks : Acknowledge(a)
  \/ \E o \in ops : Execute(o)
  \/ \E t \in outbox : Relay(t)
  \/ \E c \in Contacts : KeyChange(c) \/ SetDial(c)
  \/ LoseFile \/ Tick \/ Restart

\* Every call the loop awaits settles: the commands of the application return.  The
\* provider's stream need not end, the request has no timeout (llm_stream.rs,
\* stream_chat_completion); nothing is assumed of mail, users, the clock, the daemon.
Awaited(m) == Record(m) \/ StreamStarts(m) \/ Stash(m)

Spec == Init /\ [][Next]_vars /\ \A m \in Messages : WF_vars(Awaited(m))

-----------------------------------------------------------------------------
\* A message of a thread is answered automatically at most once, although a
\* restart forgets it and the channel delivers it again: the recency window ends
\* before the thread's window does (policy_store.rs, decide).  The exceptions are a
\* send that was accepted and reported as failed, and one whose slot was lost with
\* the whole file (policy_store.rs, load).
AnsweredOnce ==
  \A s, t \in sent :
    s.msg = t.msg /\ ThreadOf[s.msg] # NoThread =>
      s = t \/ {s, t} \cap (misreported \cup wiped) # {}

\* The budgets hold for what was really sent, over every message, life and
\* acknowledgement, except for reservations the file had to forget and for what was
\* lost with it (policy_store.rs, reserve: two callers cannot both pass the same cap).
BudgetHeld ==
  LET counted == {t \in sent : t \notin forgotten}
      of(c) == {t \in counted : ContactOf[t.msg] = c}
  IN /\ \A c \in Contacts : /\ Recent(of(c), now, Hourly) <= HourlyCap
                            /\ Recent(of(c), now, Retention) <= DailyCap
     /\ Recent(counted, now, Retention) <= GlobalCap

\* Nothing is confirmed that was not sent, and nothing is confirmed twice
\* (aiLoop.tsx, security invariant 2).
ConfirmedWasSent ==
  /\ \A a \in policy.sends : ~a.pending => a.token \in sent
  /\ \A c \in Contacts : LET l == policy.ledger[c]
                         IN \A i, j \in 1 .. Len(l) : l[i] \in sent /\ (l[i] = l[j] => i = j)

\* No contact stays locked, except by a stream the provider keeps open in silence.
\* aiLoop.tsx, security invariant 4, says that a contact can never be permanently
\* stranded; what holds is that every other way through the loop gives the lock up:
\* a contact locked for good has a message that is streaming.
NeverStranded ==
  \A c \in Contacts :
    c \in inFlight ~> \/ c \notin inFlight
                       \/ \E m \in Messages : ContactOf[m] = c /\ pc[m] = "streaming"

=============================================================================
