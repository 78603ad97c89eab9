------------------------------ MODULE Receiver ------------------------------
(***************************************************************************)
(* The receiver of the agent bridge: the daemon pulls mail page by page     *)
(* into the archive and fans every batch out to its socket (core.mjs,       *)
(* watch.mjs, daemon.mjs, daemon-ipc.mjs); a channel client attached to the *)
(* socket pushes what it hears and replays the holes from the archive       *)
(* (channel-replay.mjs).  A tool (agent_receive, air-msg inbox) pulls the   *)
(* same mail with the same cursor and without the consumer lock.            *)
(*                                                                          *)
(* A mail is its relay sequence number; the queue of the socket is counted  *)
(* in frames, and Hwm is its high-water mark.                               *)
(***************************************************************************)
EXTENDS Integers, Sequences, SequencesExt, FiniteSets

CONSTANTS
  Mailboxes,   \* what each mail is, by sequence number, in each instance looked at
  PageSize,    \* mails in a page of the relay
  Hwm,         \* highWaterMark of the socket, in frames
  MaxPulls,    \* bound on the pulls of the tool
  MaxMishaps   \* bound on failures, crashes and broken connections

ASSUME Bounds ==
  /\ Mailboxes \subseteq Seq({"plain", "room", "control", "blocked"})
  /\ PageSize \in Nat \ {0} /\ Hwm \in Nat \ {0}
  /\ MaxPulls \in Nat /\ MaxMishaps \in Nat

VARIABLES
  kind,       \* the mail of this behaviour, one of Mailboxes
  top,        \* mails the relay is known to hold
  cursor,     \* meta.pull_cursor
  archive,    \* rows of the archive (for a control mail: of rooms.json)
  diary,      \* whether the archive file exists
  pull,       \* receiveAll() of the daemon and of the tool
  daemon,     \* whether the daemon runs, and the ids its watch() has seen
  conn,       \* the daemon's side of the client's socket
  client,     \* the channel client
  pushed,     \* mails pushed into the session; the replayer's seen-set
  pulled,     \* history: mails some pull has surfaced
  owed,       \* history: mails first pulled while a client had attached,
              \* unless a tool's `since` had jumped over them
  excused,    \* history: owed mails that a known window may have cost
  forfeited,  \* history: mails the cursor may pass unarchived
  pulls,      \* the count MaxPulls bounds
  mishaps     \* the count MaxMishaps bounds

mail == <<kind, top, cursor, archive, diary>>
link == <<daemon, conn, client, pushed>>
debts == <<pulled, owed, excused, forfeited>>
counts == <<pulls, mishaps>>
vars == <<mail, pull, link, debts, counts>>

Mails == 1 .. Len(kind)
Lowest(S) == CHOOSE x \in S : \A y \in S : x <= y
Highest(S) == CHOOSE x \in S : \A y \in S : x >= y

Idle == [phase |-> "idle", from |-> 0, next |-> 1, upto |-> 0, more |-> FALSE,
         failed |-> {}, some |-> FALSE, batch |-> <<>>, target |-> 0]
\* A page of the mails after `from`, of the t mails the relay holds.
Page(from, upto, t, batch) ==
  [phase |-> "page", from |-> from, next |-> from + 1, upto |-> upto, more |-> upto < t,
   failed |-> {}, some |-> FALSE, batch |-> batch, target |-> 0]

Closed == [open |-> FALSE, queue |-> <<>>, last |-> 0, dropped |-> {}, drain |-> FALSE]

Null == -1      \* no baseline: there was no archive to read a cursor from

Init ==
  /\ kind \in Mailboxes
  /\ top = 0 /\ cursor = 0 /\ archive = {} /\ diary = FALSE
  /\ pull = [p \in {"daemon", "tool"} |-> Idle]
  /\ daemon = [up |-> FALSE, seen |-> {}]
  /\ conn = Closed
  /\ client = [phase |-> "off", baseline |-> Null, maxSeen |-> 0]
  /\ pushed = {} /\ pulled = {} /\ owed = {} /\ excused = {} /\ forfeited = {}
  /\ pulls = 0 /\ mishaps = 0

Mishap == mishaps < MaxMishaps /\ mishaps' = mishaps + 1
May(ok) == IF ok THEN UNCHANGED mishaps ELSE Mishap

-----------------------------------------------------------------------------
(* Pulling: receive(), receiveAll(), cursorAdvanceTarget().                  *)

Set(p, r) == pull' = [pull EXCEPT ![p] = r]

\* A receive() starts from the persisted cursor, or from 0 if it cannot be read.
\* The first page of the tool may be given an explicit `since`, here the newest
\* mail known.
From(p, ok) ==
  IF ~ok THEN {0}
  ELSE {cursor} \cup IF p = "tool" /\ pull[p].phase = "idle" THEN {top} ELSE {}

Excuse(S) == excused' = excused \cup (S \cap owed)

Ready(p) ==
  \/ pull[p].phase = "again" /\ UNCHANGED pulls
  \/ /\ pull[p].phase = "idle"
     /\ IF p = "daemon" THEN daemon.up /\ UNCHANGED pulls
                        ELSE pulls < MaxPulls /\ pulls' = pulls + 1

\* receive() asks the relay for one page after `from`; only here does it show which
\* mail has reached it meanwhile.  Mail the caller's `since` jumps over may never
\* be archived.  (A first page with nothing in it changes nothing, and is left out.)
Fetch(p) ==
  /\ Ready(p)
  /\ \E t \in top .. Len(kind), ok \in BOOLEAN : \E f \in From(p, ok) :
       /\ top' = t /\ May(ok)
       /\ pull[p].phase = "idle" => f < t
       /\ Set(p, Page(f, Lowest({f + PageSize, t}), t, pull[p].batch))
       /\ LET over == {s \in Mails : cursor < s /\ s <= f} \ archive
          IN forfeited' = forfeited \cup over /\ Excuse(over)
  /\ diary' = TRUE
  /\ UNCHANGED <<kind, cursor, archive, link, pulled, owed>>

\* Handling a room mail asks the archive and rooms.json outside of every try: before
\* anything is written for it, and for a control operation after its ingestion too.
MidPage(r) ==
  /\ r.phase = "page"
  /\ \/ r.next <= r.upto /\ kind[r.next] \in {"room", "control"}
     \/ r.next > r.from + 1 /\ kind[r.next - 1] = "control"

\* The relay errs on a further page, or a room mail cannot be looked up: receiveAll()
\* throws with the cursor where it was, and the batch gathered so far is never handed
\* to anyone.  What it archived stays archived, so its room mails are not surfaced again.
FetchFails(p) ==
  /\ pull[p].phase = "again" \/ MidPage(pull[p])
  /\ Mishap
  /\ Set(p, Idle)
  /\ Excuse(ToSet(pull[p].batch))
  /\ UNCHANGED <<mail, link, pulled, owed, forfeited, pulls>>

\* A mail that is surfaced: not a blocked sender's, not room state, and not a room
\* message the archive has already (the persistent replay guard).
Surfaced(s) == kind[s] = "plain" \/ (kind[s] = "room" /\ s \notin archive)

\* One mail of the page; its write may fail.  A failed write holds the cursor of a
\* strict pull back, except for a control operation.
Process(p) ==
  /\ pull[p].phase = "page" /\ pull[p].next <= pull[p].upto
  /\ LET s == pull[p].next
         shown == Surfaced(s)
         writes == shown \/ kind[s] = "control"
     IN \E ok \in BOOLEAN :
          /\ ok \/ (writes /\ s \notin archive)
          /\ May(ok)
          /\ archive' = IF writes /\ ok THEN archive \cup {s} ELSE archive
          /\ Set(p, [pull[p] EXCEPT !.next = s + 1, !.some = @ \/ shown,
                                    !.batch = IF shown THEN Append(@, s) ELSE @,
                                    !.failed = IF shown /\ ~ok THEN @ \cup {s} ELSE @])
          /\ forfeited' = IF ~ok /\ (p = "tool" \/ kind[s] = "control")
                            THEN forfeited \cup {s} ELSE forfeited
          /\ pulled' = IF shown THEN pulled \cup {s} ELSE pulled
          /\ owed' = IF shown /\ s \notin pulled \cup forfeited /\ client.phase \in {"on", "down"}
                       THEN owed \cup {s} ELSE owed
          /\ excused' = IF p = "tool" THEN excused \cup ({s} \cap owed') ELSE excused
  /\ UNCHANGED <<kind, top, cursor, diary, link, pulls>>

\* A target that ignores the failed writes.
AdvanceTargetAnyway(p) == pull[p].upto

\* cursorAdvanceTarget(): the end of the page, but a strict pull stops before its
\* first failed write; the page's start stands for "leave the cursor alone".
AdvanceTarget(p) ==
  LET failed == pull[p].failed
  IN IF p = "tool" \/ failed = {} THEN pull[p].upto ELSE Lowest(failed) - 1

\* receiveAll() goes on while the relay has more and the page surfaced something.
\* The tool's batch goes back to its caller, the daemon's to its watch loop.
After(p) ==
  IF pull[p].more /\ pull[p].some
    THEN [Idle EXCEPT !.phase = "again", !.batch = pull[p].batch]
  ELSE IF p = "tool" THEN Idle
  ELSE [Idle EXCEPT !.phase = "done", !.batch = pull[p].batch]

\* setCursor() reads the cursor and writes the larger of the two, in two
\* statements and no transaction.
EndPage(p) ==
  /\ pull[p].phase = "page" /\ pull[p].next > pull[p].upto
  /\ Set(p, IF AdvanceTarget(p) <= pull[p].from THEN After(p)
            ELSE [pull[p] EXCEPT !.phase = "write",
                                 !.target = Highest({cursor, AdvanceTarget(p)})])
  /\ UNCHANGED <<mail, link, debts, counts>>

WriteCursor(p) ==
  /\ pull[p].phase = "write"
  /\ \E ok \in BOOLEAN : May(ok) /\ cursor' = IF ok THEN pull[p].target ELSE cursor
  /\ Set(p, After(p))
  /\ UNCHANGED <<kind, top, archive, diary, link, debts, pulls>>

-----------------------------------------------------------------------------
(* The socket: deliver(), flushPending(), drain; connectDaemonPersistent().  *)

Message(s) == [type |-> "message", seq |-> s]
Gap(s) == [type |-> "gap", seq |-> s]

\* A stream whose own mark is above the policy's: the crossing write arms nothing.
PutUnarmed(c, frame) ==
  [c EXCEPT !.queue = Append(@, frame), !.drain = @ \/ Len(c.queue) + 1 > 4 * Hwm]

\* write(): the stream arms 'drain' when the queue reaches its high-water mark.
Put(c, frame) ==
  [c EXCEPT !.queue = Append(@, frame), !.drain = @ \/ Len(c.queue) + 1 >= Hwm]

\* flushPending(): one gap for everything skipped, once the queue has room again.
Flush(c) ==
  IF c.dropped = {} \/ Len(c.queue) > Hwm THEN c
  ELSE [Put(c, Gap(c.last)) EXCEPT !.dropped = {}]

\* deliver() for the one subscriber: above the mark the write is skipped.
Offer(c, s) ==
  IF Len(c.queue) > Hwm THEN [c EXCEPT !.dropped = @ \cup {s}]
  ELSE Flush([Put(c, Message(s)) EXCEPT !.last = s])

\* processNewMessages() and fanOut(): a mail that watch() has not seen goes to the
\* socket.  A write that moves lastSeq past mail skipped earlier costs that mail:
\* the gap will not name it.
FanOut(r, s) ==
  IF s \in r.seen THEN r
  ELSE LET to == IF r.to.open THEN Offer(r.to, s) ELSE r.to
       IN [seen |-> r.seen \cup {s}, to |-> to,
           passed |-> r.passed \cup {d \in r.to.dropped : d < to.last}]

\* The loop over a batch
FanOutAll(batch) ==
  LET fan[i \in 0 .. Len(batch)] ==
        IF i = 0 THEN [seen |-> daemon.seen, to |-> conn, passed |-> {}]
                 ELSE FanOut(fan[i - 1], batch[i])
  IN fan[Len(batch)]

Deliver ==
  /\ pull["daemon"].phase = "done"
  /\ LET r == FanOutAll(pull["daemon"].batch)
     IN /\ conn' = r.to
        /\ daemon' = [daemon EXCEPT !.seen = r.seen]
        /\ Excuse(r.passed)
  /\ Set("daemon", Idle)
  /\ UNCHANGED <<mail, client, pushed, owed, forfeited, pulled, counts>>

\* makeReplayer().live and .gap: the client handles the next frame.  A gap pushes
\* every archived row after it that was not pushed before; a replay that fails at one of
\* them is logged, and nobody asks for the rest (channel-server.mjs, onGap).
Transmit ==
  /\ conn.queue # <<>>
  /\ LET frame == Head(conn.queue)
         rest == [conn EXCEPT !.queue = Tail(@)]
         hole == {s \in archive : s > frame.seq /\ kind[s] \in {"plain", "room"}}
     IN /\ conn' = IF rest.queue = <<>> /\ rest.drain
                     THEN Flush([rest EXCEPT !.drain = FALSE]) ELSE rest
        /\ IF frame.type = "message"
             THEN /\ pushed' = pushed \cup {frame.seq}
                  /\ client' = [client EXCEPT !.maxSeen = Highest({@, frame.seq})]
                  /\ UNCHANGED <<excused, mishaps>>
             ELSE /\ UNCHANGED client
                  /\ \E n \in Mails \cup {Len(kind) + 1} :
                       /\ May(n \notin Mails)
                       /\ pushed' = pushed \cup {s \in hole : s < n}
                       \* not replayed, or replayed before a failed write was made good
                       /\ Excuse({s \in hole : n <= s}
                                   \cup {s \in daemon.seen : s > frame.seq /\ s \notin archive})
  /\ UNCHANGED <<mail, pull, daemon, owed, forfeited, pulled, pulls>>

DaemonStart ==
  /\ ~daemon.up
  /\ daemon' = [up |-> TRUE, seen |-> {}]
  /\ UNCHANGED <<mail, pull, conn, client, pushed, debts, counts>>

Detached == IF client.phase = "on" THEN [client EXCEPT !.phase = "down"] ELSE client

DaemonCrash ==
  /\ daemon.up /\ Mishap
  /\ daemon' = [up |-> FALSE, seen |-> {}]
  /\ Set("daemon", Idle)
  /\ conn' = Closed /\ client' = Detached
  /\ UNCHANGED <<mail, pushed, debts, pulls>>

Disconnect ==
  /\ conn.open /\ Mishap
  /\ conn' = Closed /\ client' = Detached
  /\ UNCHANGED <<mail, pull, daemon, pushed, debts, pulls>>

\* The client reads its baseline before its first connect.
ClientStart ==
  /\ client.phase = "off"
  /\ client' = [client EXCEPT !.phase = "started", !.baseline = IF diary THEN cursor ELSE Null]
  /\ UNCHANGED <<mail, pull, daemon, conn, pushed, debts, counts>>

\* The first attach is live from here on.
Attach ==
  /\ client.phase = "started" /\ daemon.up
  /\ client' = [client EXCEPT !.phase = "on"]
  /\ conn' = [Closed EXCEPT !.open = TRUE]
  /\ UNCHANGED <<mail, pull, daemon, pushed, debts, counts>>

\* A since_seq taken from the archive when the connection is back.
SinceLate == cursor

\* sinceSeq: the highest mail seen live, else the baseline.
Since == IF client.maxSeen > 0 THEN client.maxSeen ELSE client.baseline

\* A reattach that names a since_seq is answered with a gap at once.
Reattach ==
  /\ client.phase = "down" /\ daemon.up
  /\ client' = [client EXCEPT !.phase = "on"]
  /\ LET fresh == [Closed EXCEPT !.open = TRUE, !.last = IF Since = Null THEN 0 ELSE Since]
     IN IF Since = Null
          THEN conn' = fresh /\ Excuse(owed \ pushed)
          ELSE conn' = Put(fresh, Gap(Since)) /\ UNCHANGED excused
  /\ UNCHANGED <<mail, pull, daemon, pushed, owed, forfeited, pulled, counts>>

-----------------------------------------------------------------------------
Receive(p) ==
  Fetch(p) \/ FetchFails(p) \/ Process(p) \/ EndPage(p) \/ WriteCursor(p)

Next ==
  \/ Receive("daemon") \/ Receive("tool")
  \/ Deliver \/ Transmit
  \/ DaemonStart \/ DaemonCrash \/ Disconnect
  \/ ClientStart \/ Attach \/ Reattach

\* launchd and systemd restart the daemon (service.mjs); a pull that can go on
\* does, its awaits settle, and the relay's envelope events and the poll after
\* each stream wake it again; the client reads its socket and reconnects for ever.
Fairness ==
  /\ WF_vars(Receive("daemon")) /\ WF_vars(Deliver) /\ WF_vars(DaemonStart)
  /\ WF_vars(Transmit) /\ WF_vars(Reattach)

Spec == Init /\ [][Next]_vars /\ Fairness

-----------------------------------------------------------------------------
\* The cursor never passes a mail that is not in the archive, whatever fails and
\* however the daemon's and the tool's pulls and two-step cursor writes interleave;
\* only a pull outside the strict rule, or a control operation, may leave one
\* behind (core.mjs, cursorAdvanceTarget).
StrictCursor ==
  \A s \in 1 .. cursor : kind[s] = "blocked" \/ s \in archive \/ s \in forfeited

\* Mail a client has yet to hear of: it is about to be fanned out or read again,
\* sits in the queue, or a gap that is pending, queued or due on reattach names it.
OnItsWay(s) ==
  \/ s \in ToSet(pull["daemon"].batch) /\ s \notin daemon.seen
  \/ s \notin daemon.seen /\ s \notin archive
  \/ Message(s) \in ToSet(conn.queue)
  \/ s \in conn.dropped /\ s > conn.last
  \/ \E g \in ToSet(conn.queue) : g.type = "gap" /\ g.seq < s
  \/ client.phase = "down" /\ Since < s

\* Nothing pulled while a client was attached is lost between archive, socket and
\* replay, over crashes, reconnects and congestion, but for the windows `excused`
\* counts: mail a tool pulled or jumped over, a batch dropped by a throw, a replay that
\* failed or came before a failed write was made good, mail skipped while older than the
\* last sent, a first attach without an archive (channel-replay.mjs: at-least-once
\* recovery).
NoOtherLoss == \A s \in owed : s \in pushed \/ s \in excused \/ OnItsWay(s)

\* And owed mail that is not excused reaches the session: a congested client always gets
\* the gap it is waiting for (daemon-ipc.mjs, flushPending and the stream's mark).
EventuallyPushed == <>[](owed \subseteq pushed \cup excused)

=============================================================================
