----------------------------- MODULE InboxPolicy -----------------------------
(***************************************************************************)
(* The autonomy policy file of the inbox: what one call of reserve,        *)
(* confirm, cancel or set_autonomy makes of agent-policy.json.  Each call   *)
(* holds POLICY_LOCK from its load to its rename, so each is one operator   *)
(* from the file's content to its next content (policy_store.rs).           *)
(*                                                                          *)
(* A policy is [dial, sends, ledger]: the dial of every contact, the        *)
(* reservations and confirmed sends of all of them, and per contact the     *)
(* capped list of confirmed sends.  Times are natural numbers; an           *)
(* unparseable time counts nowhere and is left out.                         *)
(***************************************************************************)
EXTENDS Integers, Sequences, FiniteSets

CONSTANTS
  Recency,      \* AUTO_RECENCY_SECS: older mail is never answered by itself
  Stale,        \* STALE_PENDING_SECS: an older reservation is crash debris
  Structural,   \* STRUCTURAL_WINDOW_SECS: one answer per thread
  Hourly,       \* HOURLY_WINDOW_SECS
  Retention,    \* RETENTION_SECS, the daily window too
  HourlyCap,    \* PER_CONTACT_HOURLY
  DailyCap,     \* PER_CONTACT_DAILY
  GlobalCap,    \* GLOBAL_DAILY
  LedgerCap     \* LEDGER_CAP

\* The order of the windows in the source, which the guards rely on.
ASSUME WindowOrder ==
  /\ {Recency, Stale, Structural, Hourly, Retention, LedgerCap} \subseteq Nat \ {0}
  /\ {HourlyCap, DailyCap, GlobalCap} \subseteq Nat
  /\ Recency <= Stale /\ Stale <= Structural
  /\ Structural <= Hourly /\ Hourly <= Retention

Autonomy == {"off", "draft", "auto"}

NoThread == "none"

\* Inclusive, and a time in the future is outside every window.
within(at, now, window) == now - at \in 0 .. window

SendsOf(p, did) == {a \in p.sends : a.did = did}

Recent(sends, now, window) == Cardinality({a \in sends : within(a.at, now, window)})

-----------------------------------------------------------------------------
\* Expired records, and reservations whose owner must have died.
prune(p, now) ==
  [p EXCEPT !.sends = {a \in @ : /\ within(a.at, now, Retention)
                                 /\ a.pending => within(a.at, now, Stale)}]

\* A guard that looks at finished sends only.
JustConfirmed(p, did, thread, now) ==
  /\ thread # NoThread
  /\ \E a \in SendsOf(p, did) :
       ~a.pending /\ a.thread = thread /\ within(a.at, now, Structural)

\* The structural guard: this thread has just been answered.
JustAnswered(p, did, thread, now) ==
  /\ thread # NoThread
  /\ \E a \in SendsOf(p, did) : a.thread = thread /\ within(a.at, now, Structural)

\* A budget that counts finished sends only.
ExhaustedByConfirmed(p, did, now) ==
  LET done == {a \in p.sends : ~a.pending}
  IN \/ Recent({a \in done : a.did = did}, now, Hourly) >= HourlyCap
     \/ Recent({a \in done : a.did = did}, now, Retention) >= DailyCap
     \/ Recent(done, now, Retention) >= GlobalCap

\* Pending reservations count, whoever holds them.
Exhausted(p, did, now) ==
  \/ Recent(SendsOf(p, did), now, Hourly) >= HourlyCap
  \/ Recent(SendsOf(p, did), now, Retention) >= DailyCap
  \/ Recent(p.sends, now, Retention) >= GlobalCap

decide(p, did, thread, received, now) ==
  CASE p.dial[did] # "auto"               -> p.dial[did]
    [] ~within(received, now, Recency)    -> "draft"
    [] JustAnswered(p, did, thread, now)  -> "draft"
    [] Exhausted(p, did, now)             -> "draft"
    [] OTHER                              -> "auto"

\* Prune, decide on what is left, and record the answer's slot before it is sent.
reserve(p, did, thread, received, now, token) ==
  LET q == prune(p, now)
      d == decide(q, did, thread, received, now)
      slot == [token |-> token, did |-> did, thread |-> thread, at |-> now, pending |-> TRUE]
  IN [decision |-> d,
      policy |-> IF d = "auto" THEN [q EXCEPT !.sends = @ \cup {slot}] ELSE q]

Capped(l) == SubSeq(l, IF Len(l) > LedgerCap THEN Len(l) - LedgerCap + 1 ELSE 1, Len(l))

\* The slot becomes a send; one that was pruned meanwhile is put back as a send
\* of this moment; a second acknowledgement leaves the ledger alone.
confirm(p, did, token, thread, now) ==
  LET mine == {a \in SendsOf(p, did) : a.token = token}
      kept == IF mine # {} THEN {[a EXCEPT !.pending = FALSE] : a \in mine}
              ELSE {[token |-> token, did |-> did, thread |-> thread, at |-> now,
                     pending |-> FALSE]}
  IN [p EXCEPT !.sends = (@ \ mine) \cup kept,
               !.ledger[did] = IF mine = {} \/ \E a \in mine : a.pending
                               THEN Capped(Append(@, token)) ELSE @]

\* Only a reservation that is still pending is dropped.
cancel(p, did, token) ==
  [p EXCEPT !.sends = {a \in @ : a.did # did \/ a.token # token \/ ~a.pending}]

\* The dial of a contact (reset_to_draft is set_autonomy with "draft").
set_autonomy(p, did, value) == [p EXCEPT !.dial[did] = value]
=============================================================================
