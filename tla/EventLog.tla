------------------------------ MODULE EventLog ------------------------------
(***************************************************************************)
(* The signed, hash-chained event log of bossclaw-core (log.rs, event.rs,  *)
(* highwater.rs, store.rs).                                                *)
(*                                                                         *)
(* One process holds the log.  EventLog.inner is a mutex that every        *)
(* operation takes, so at most one SQLite transaction is open: tx.  The    *)
(* rows of tx are not durable; a commit moves them to log, a failed        *)
(* statement or a crash drops them.  The high-water mark lives in a file   *)
(* of its own and is saved after the events it counts.  While the process  *)
(* is down the database file can be replaced by an older copy of itself.   *)
(*                                                                         *)
(* A row's hash is modelled as the sequence of the bodies it covers: equal *)
(* hashes mean equal histories, which is what SHA-256 over                 *)
(* prev_hash || canonical bytes gives the code.                            *)
(***************************************************************************)
EXTENDS Naturals, Sequences, FiniteSets

CONSTANTS
    MaxId,        \* bound: how many ids are ever minted
    MaxForks,     \* bound: how many appends fail to read the tip and go on
    Lineages,     \* the source_event_ids sets callers cite
    Nil           \* "no transaction" / "no mark yet"

ASSUME MaxIdAssumption == MaxId \in Nat
ASSUME MaxForksAssumption == MaxForks \in Nat
ASSUME LineagesAssumption == Lineages \subseteq SUBSET Nat

VARIABLES
    log,          \* committed rows of the events table, in seq order
    tx,           \* Nil, or the open transaction: inserted rows and what is still to insert
    handle,       \* "closed", "bare" (EventLog::open) or "hw" (open_with_highwater)
    mark,         \* Nil, or the saved Mark {count, tip_hash}
    nextId,       \* ids 1 .. nextId - 1 have been minted (ULIDs are never minted twice)
    rolledBack,   \* history: the file was once replaced by an older copy
    bareSince,    \* history: a bare handle was opened since the mark was saved
    forks,        \* history: ids of the rows whose append could not read the tip
    markUnread    \* history: the tip could not be read when the mark was saved

vars == <<log, tx, handle, mark, nextId, rolledBack, bareSince, forks, markUnread>>

GENESIS == << >>

Legs == {"single", "first", "second"}

\* What a caller hands to append: Tier-B events (model_meta: Some) carry a
\* lineage, and any event may come with origin = "external" in its content.
Request == [tierB : BOOLEAN, src : SUBSET Nat, ext : BOOLEAN, leg : Legs]

Body == [id : Nat, tierB : BOOLEAN, src : SUBSET Nat, ext : BOOLEAN, leg : Legs]

Hash == Seq(Body)

Row == [body : Body, prev : Hash, hash : Hash]

Mark == [count : Nat, tip : Hash]

Tx == [rows : Seq(Row), todo : Seq(Request)]

ASSUME NilAssumption == Nil \notin Mark /\ Nil \notin Tx

-----------------------------------------------------------------------------
(* Reading the table *)

compute_hash(prev, body) == Append(prev, body)

\* The hash of the n-th row, GENESIS before the first.
HashAt(rows, n) == IF n = 0 THEN GENESIS ELSE rows[n].hash

\* Seeded fault: the tip is read outside the transaction.
CommittedTip(rows, fails) == IF fails THEN GENESIS ELSE HashAt(log, Len(log))

\* SELECT hash FROM events ORDER BY seq DESC LIMIT 1.  unwrap_or_else maps
\* every error to GENESIS: the missing row of an empty table, and also a read
\* that fails on a table with rows.
TipHash(rows, fails) == IF fails THEN GENESIS ELSE HashAt(rows, Len(rows))

\* Seeded fault: a source that cannot be read counts as internal.
FailOpenSource(rows, id) ==
    \E i \in DOMAIN rows : rows[i].body.id = id /\ rows[i].body.ext

\* An id that is absent counts as external: the taint check fails closed.
source_is_external_in_tx(rows, id) ==
    \A i \in DOMAIN rows : rows[i].body.id = id => rows[i].body.ext

LinksAt(rows, i, expected_prev) ==
    rows[i].prev = IF i = 1 THEN expected_prev ELSE rows[i - 1].hash

Recomputes(row) == row.hash = compute_hash(row.prev, row.body)

\* Every row links to the one before it and its hash recomputes.
verify_rows(rows, expected_prev) ==
    \A i \in DOMAIN rows : LinksAt(rows, i, expected_prev) /\ Recomputes(rows[i])

verify_chain == verify_rows(log, GENESIS)

\* Verify only the rows after the trusted cursor row k.
verify_chain_since(k) == verify_rows(SubSeq(log, k + 1, Len(log)), log[k].hash)

-----------------------------------------------------------------------------
(* Appending *)

reject_empty_tier_b(req) == req.tierB /\ req.src = {}

\* The row append_event_in_tx builds for req on top of rows: taint is stamped
\* into the content, a JSON object in every event the engine builds, before
\* hashing, and the tip is read inside the transaction.
AppendedRow(rows, req, id, fails) ==
    LET tainted == req.tierB /\ \E s \in req.src : source_is_external_in_tx(rows, s)
        body == [id |-> id, tierB |-> req.tierB, src |-> req.src,
                 ext |-> req.ext \/ tainted, leg |-> req.leg]
        prev == TipHash(rows, fails)
    IN  [body |-> body, prev |-> prev, hash |-> compute_hash(prev, body)]

\* The rows the open transaction sees: the committed ones, then its own.
Visible == log \o tx.rows

Requests(leg) ==
    {r \in [tierB : BOOLEAN, src : Lineages \cup {{}}, ext : BOOLEAN, leg : {leg}] :
        r.tierB \/ r.src = {}}

Begin(reqs) ==
    /\ handle # "closed"
    /\ tx = Nil
    /\ nextId + Len(reqs) <= MaxId + 1
    /\ \A i \in DOMAIN reqs : ~reject_empty_tier_b(reqs[i])
    /\ tx' = [rows |-> << >>, todo |-> reqs]
    /\ UNCHANGED <<log, handle, mark, nextId, rolledBack, bareSince, forks, markUnread>>

\* EventLog::append opens the transaction for one event
append == \E r \in Requests("single") : Begin(<<r>>)

\* EventLog::append_pair opens it for two
append_pair == \E r \in Requests("first"), s \in Requests("second") : Begin(<<r, s>>)

\* fails: the table has rows and the SELECT of the tip cannot read the last
\* one; the row then starts a chain of its own.
append_event_in_tx ==
    /\ tx # Nil
    /\ tx.todo # << >>
    /\ \E fails \in BOOLEAN :
        /\ fails => Visible # << >> /\ Cardinality(forks) < MaxForks
        /\ tx' = [rows |-> Append(tx.rows, AppendedRow(Visible, Head(tx.todo), nextId, fails)),
                  todo |-> Tail(tx.todo)]
        /\ forks' = IF fails THEN forks \cup {nextId} ELSE forks
    /\ nextId' = nextId + 1
    /\ UNCHANGED <<log, handle, mark, rolledBack, bareSince, markUnread>>

\* Seeded fault: each row is committed on its own.
CommitEarly ==
    /\ tx # Nil
    /\ log' = Visible
    /\ tx' = [tx EXCEPT !.rows = << >>]
    /\ UNCHANGED <<handle, mark, nextId, rolledBack, bareSince, forks, markUnread>>

\* Seeded fault: the insert replaces the row at the tip.
CommitReplacesTip ==
    /\ tx # Nil
    /\ tx.todo = << >>
    /\ log' = IF log = << >> THEN tx.rows ELSE SubSeq(log, 1, Len(log) - 1) \o tx.rows
    /\ tx' = Nil
    /\ UNCHANGED <<handle, mark, nextId, rolledBack, bareSince, forks, markUnread>>

commit ==
    /\ tx # Nil
    /\ tx.todo = << >>
    /\ log' = Visible
    /\ tx' = Nil
    /\ UNCHANGED <<handle, mark, nextId, rolledBack, bareSince, forks, markUnread>>

\* A statement of the transaction fails: ? drops it, SQLite rolls it back.
rollback ==
    /\ tx # Nil
    /\ tx' = Nil
    /\ UNCHANGED <<log, handle, mark, nextId, rolledBack, bareSince, forks, markUnread>>

-----------------------------------------------------------------------------
(* The high-water mark *)

\* Seeded fault: the mark counts the rows of the open transaction.
CheckpointCountsTx ==
    /\ handle = "hw"
    /\ mark' = LET rows == IF tx = Nil THEN log ELSE Visible
               IN  [count |-> Len(rows), tip |-> TipHash(rows, FALSE)]
    /\ bareSince' = FALSE
    /\ markUnread' = FALSE
    /\ UNCHANGED <<log, tx, handle, nextId, rolledBack, forks>>

\* count and tip are read and saved under the same mutex guard; a count that
\* cannot be read ends the call, a tip that cannot be read is saved as GENESIS.
checkpoint_highwater ==
    /\ handle = "hw"
    /\ tx = Nil
    /\ \E fails \in BOOLEAN :
        /\ fails => log # << >>
        /\ mark' = [count |-> Len(log), tip |-> TipHash(log, fails)]
        /\ markUnread' = fails
    /\ bareSince' = FALSE
    /\ UNCHANGED <<log, tx, handle, nextId, rolledBack, forks>>

open ==
    /\ handle = "closed"
    /\ handle' = "bare"
    /\ bareSince' = TRUE
    /\ UNCHANGED <<log, tx, mark, nextId, rolledBack, forks, markUnread>>

\* Seeded fault: the live count is not compared with the mark.
OpenUnchecked ==
    /\ handle = "closed"
    /\ handle' = "hw"
    /\ UNCHANGED <<log, tx, mark, nextId, rolledBack, bareSince, forks, markUnread>>

\* Refuses (stays closed) when the live count is below the mark.
open_with_highwater ==
    /\ handle = "closed"
    /\ mark # Nil => Len(log) >= mark.count
    /\ handle' = "hw"
    /\ UNCHANGED <<log, tx, mark, nextId, rolledBack, bareSince, forks, markUnread>>

-----------------------------------------------------------------------------
(* The environment *)

\* Seeded fault: the transaction outlives the process.
CrashKeepsTx ==
    /\ handle # "closed"
    /\ handle' = "closed"
    /\ UNCHANGED <<log, tx, mark, nextId, rolledBack, bareSince, forks, markUnread>>

\* The process ends, cleanly or not, at any point of a transaction.
Crash ==
    /\ handle # "closed"
    /\ handle' = "closed"
    /\ tx' = Nil
    /\ UNCHANGED <<log, mark, nextId, rolledBack, bareSince, forks, markUnread>>

\* The closed database file is replaced by an older copy, taken between two
\* transactions; the mark's file is not.
RestoreOlderCopy ==
    /\ handle = "closed"
    /\ \E n \in 0 .. Len(log) - 1 :
        /\ n > 0 => log[n].body.leg # "first"
        /\ log' = SubSeq(log, 1, n)
    /\ rolledBack' = TRUE
    /\ UNCHANGED <<tx, handle, mark, nextId, bareSince, forks, markUnread>>

-----------------------------------------------------------------------------
Init ==
    /\ log = << >>
    /\ tx = Nil
    /\ handle = "closed"
    /\ mark = Nil
    /\ nextId = 1
    /\ rolledBack = FALSE
    /\ bareSince = FALSE
    /\ forks = {}
    /\ markUnread = FALSE

Next ==
    \/ append \/ append_pair \/ append_event_in_tx \/ commit \/ rollback
    \/ checkpoint_highwater \/ open \/ open_with_highwater
    \/ Crash \/ RestoreOlderCopy

Spec == Init /\ [][Next]_vars

-----------------------------------------------------------------------------
(* Properties *)

\* Types of the variables; an open transaction needs an open handle (the
\* mutex guard lives inside the process).
TypeOK ==
    /\ log \in Seq(Row)
    /\ tx \in Tx \cup {Nil}
    /\ handle \in {"closed", "bare", "hw"}
    /\ mark \in Mark \cup {Nil}
    /\ nextId \in Nat
    /\ rolledBack \in BOOLEAN
    /\ bareSince \in BOOLEAN
    /\ forks \subseteq Nat
    /\ markUnread \in BOOLEAN
    /\ tx # Nil => handle # "closed"

\* Rows that verify but for the links of those with an id in unread.
LinkedRows(rows, unread) ==
    \A i \in DOMAIN rows :
        /\ Recomputes(rows[i])
        /\ rows[i].body.id \notin unread => LinksAt(rows, i, GENESIS)

\* No interleaving of transactions, failed statements, crashes and restored
\* copies forks the durable chain or leaves a gap in it: every hash recomputes
\* and the only rows that fail the link check of verify_chain are those whose
\* own append could not read the tip and took GENESIS for it; the row after
\* such a row links to it.  Without one, verify_chain accepts the log.
ChainVerifies ==
    /\ LinkedRows(log, forks)
    /\ (\A i \in DOMAIN log : log[i].body.id \notin forks) => verify_chain

CleanRows(rows) ==
    \A i \in DOMAIN rows :
        rows[i].body.tierB /\ ~rows[i].body.ext =>
            \A s \in rows[i].body.src :
                \E j \in 1 .. i - 1 : rows[j].body.id = s /\ ~rows[j].body.ext

\* No clean Tier-B event has an external or missing source: lineage of an
\* untainted conclusion is entirely in the log, earlier, and untainted, so by
\* induction its whole ancestry is (append_event_in_tx, the sole INSERT path).
CleanLineage == CleanRows(log)

\* append_pair is all or nothing: a first leg (a supersede) is never durable
\* without the second (the page or note that replaces it), and conversely.
PairsAreWhole ==
    \A i \in DOMAIN log :
        /\ log[i].body.leg = "first"
              => i < Len(log) /\ log[i + 1].body.leg = "second"
        /\ log[i].body.leg = "second"
              => i > 1 /\ log[i - 1].body.leg = "first"

\* Events first, watermark second: without a restored copy the mark never
\* counts more rows than are durable, so open_with_highwater never refuses a
\* log that only suffered crashes.
NoSpuriousTruncation ==
    ~rolledBack /\ mark # Nil => mark.count <= Len(log)

\* What open_with_highwater is for: if every handle since the mark was saved
\* was opened through it, a handle is only ever served on a log that is at
\* least as long as the marked one and, if the mark's tip was read when it was
\* saved, holds the marked row at the marked place, whichever older copies
\* were restored in between.
MarkedHistoryServed ==
    handle = "hw" /\ ~bareSince /\ mark # Nil =>
        /\ mark.count <= Len(log)
        /\ ~markUnread => HashAt(log, mark.count) = mark.tip

\* While a handle is open the log only grows, and only by a commit.
AppendOnly ==
    [][handle # "closed" =>
        /\ Len(log') >= Len(log)
        /\ \A i \in DOMAIN log : log'[i] = log[i]
        /\ log' # log => tx # Nil]_vars
=============================================================================
