--------------------------- MODULE EventLogProofs ---------------------------
(***************************************************************************)
(* Proofs about EventLog for every id bound and every set of lineages.     *)
(*                                                                         *)
(* Seen is what a reader inside the process sees: the committed rows and   *)
(* those of the open transaction.  Every step leaves a prefix of Seen or   *)
(* extends Seen by one row that append_event_in_tx built on top of it, so  *)
(* the facts about rows are proved about Seen and hold of log, its prefix. *)
(***************************************************************************)
EXTENDS EventLog, TLAPS

Seen == IF tx = Nil THEN log ELSE Visible

\* rows is a prefix of more
IsPrefixOf(rows, more) ==
    /\ Len(rows) <= Len(more)
    /\ \A i \in 1 .. Len(rows) : rows[i] = more[i]

\* A transaction is for one single event or for the two legs of a pair.
ShapeOf(rows, todo) ==
    \/ /\ Len(rows) + Len(todo) = 1
       /\ \A i \in 1 .. Len(rows) : rows[i].body.leg = "single"
       /\ \A j \in 1 .. Len(todo) : todo[j].leg = "single"
    \/ /\ Len(rows) + Len(todo) = 2
       /\ \A i \in 1 .. Len(rows) :
             rows[i].body.leg = IF i = 1 THEN "first" ELSE "second"
       /\ \A j \in 1 .. Len(todo) :
             todo[j].leg = IF Len(rows) + j = 1 THEN "first" ELSE "second"

TxShape == tx # Nil => ShapeOf(tx.rows, tx.todo)

\* What the mark, the ghosts and the handle say of each other.
MarkInv ==
    /\ ~rolledBack /\ mark # Nil => mark.count <= Len(log)
    /\ handle = "bare" => bareSince
    /\ handle = "hw" /\ ~bareSince /\ mark # Nil => mark.count <= Len(log)
    /\ ~bareSince /\ mark # Nil /\ mark.count <= Len(log)
          => (~markUnread => HashAt(log, mark.count) = mark.tip)

IInv ==
    /\ TypeOK
    /\ LinkedRows(Seen, forks)
    /\ CleanRows(Seen)
    /\ TxShape
    /\ PairsAreWhole
    /\ MarkInv

-----------------------------------------------------------------------------
(* Rows *)

\* The row built for a well-typed request is well typed.
LEMMA AppendedRowType ==
    ASSUME NEW rows \in Seq(Row), NEW req \in Request, NEW id \in Nat,
           NEW fails \in BOOLEAN, fails => rows # << >>
    PROVE  AppendedRow(rows, req, id, fails) \in Row
<1> DEFINE body == AppendedRow(rows, req, id, fails).body
           prev == AppendedRow(rows, req, id, fails).prev
<1>1. body \in Body
  BY DEF AppendedRow, Body, Request, Legs
<1>2. prev \in Hash
  <2>1. CASE Len(rows) = 0 \/ fails
    BY <2>1 DEF AppendedRow, TipHash, HashAt, GENESIS, Hash
  <2>2. CASE Len(rows) # 0 /\ ~fails
    <3>1. rows[Len(rows)] \in Row
      BY <2>2
    <3> QED
      BY <2>2, <3>1 DEF AppendedRow, TipHash, HashAt, Row
  <2> QED
    BY <2>1, <2>2
<1>3. Append(prev, body) \in Hash
  BY <1>1, <1>2 DEF Hash
<1> QED
  BY <1>1, <1>2, <1>3 DEF AppendedRow, Row, compute_hash

\* A prefix of rows that link and have clean lineages has both.
LEMMA PrefixKeeps ==
    ASSUME NEW rows \in Seq(Row), NEW more \in Seq(Row), IsPrefixOf(rows, more),
           NEW unread, LinkedRows(more, unread), CleanRows(more)
    PROVE  LinkedRows(rows, unread) /\ CleanRows(rows)
<1>0. DOMAIN rows = 1 .. Len(rows) /\ DOMAIN more = 1 .. Len(more)
      /\ Len(rows) \in Nat /\ Len(more) \in Nat
  OBVIOUS
<1>1. LinkedRows(rows, unread)
  <2> SUFFICES ASSUME NEW i \in 1 .. Len(rows)
               PROVE  /\ Recomputes(rows[i])
                      /\ rows[i].body.id \notin unread => LinksAt(rows, i, GENESIS)
    BY <1>0 DEF LinkedRows
  <2>1. i \in DOMAIN more /\ rows[i] = more[i] /\ (i # 1 => rows[i - 1] = more[i - 1])
    BY <1>0 DEF IsPrefixOf
  <2> QED
    BY <2>1 DEF LinkedRows, LinksAt
<1>2. CleanRows(rows)
  <2> SUFFICES ASSUME NEW i \in DOMAIN rows, rows[i].body.tierB, ~rows[i].body.ext,
                      NEW s \in rows[i].body.src
               PROVE  \E j \in 1 .. i - 1 : rows[j].body.id = s /\ ~rows[j].body.ext
    BY DEF CleanRows
  <2>1. i \in DOMAIN more /\ rows[i] = more[i]
    BY <1>0 DEF IsPrefixOf
  <2>2. PICK j \in 1 .. i - 1 : more[j].body.id = s /\ ~more[j].body.ext
    BY <2>1 DEF CleanRows
  <2>3. rows[j] = more[j]
    BY <1>0, <2>2 DEF IsPrefixOf
  <2> QED
    BY <2>2, <2>3
<1> QED
  BY <1>1, <1>2

\* Extending such rows by what append_event_in_tx builds keeps both.
LEMMA ExtendKeeps ==
    ASSUME NEW rows \in Seq(Row), NEW req \in Request, NEW id \in Nat,
           NEW fails \in BOOLEAN, fails => rows # << >>,
           NEW unread, LinkedRows(rows, unread), CleanRows(rows)
    PROVE  LET new == Append(rows, AppendedRow(rows, req, id, fails))
               more == IF fails THEN unread \cup {id} ELSE unread
           IN  LinkedRows(new, more) /\ CleanRows(new)
<1> DEFINE row == AppendedRow(rows, req, id, fails)
           more == IF fails THEN unread \cup {id} ELSE unread
           new == Append(rows, row)
           n == Len(rows)
<1>1. row \in Row
  BY AppendedRowType
<1>2. n \in Nat /\ Len(new) = n + 1 /\ new[n + 1] = row
      /\ DOMAIN new = 1 .. n + 1 /\ DOMAIN rows = 1 .. n
      /\ \A i \in 1 .. n : new[i] = rows[i]
  BY <1>1
<1> HIDE DEF new
<1>3. LinkedRows(new, more)
  <2> SUFFICES ASSUME NEW i \in 1 .. n + 1
               PROVE  /\ Recomputes(new[i])
                      /\ new[i].body.id \notin more => LinksAt(new, i, GENESIS)
    BY <1>2 DEF LinkedRows
  <2>1. CASE i = n + 1
    <3>1. row.body.id = id
      BY DEF AppendedRow
    <3>2. row.hash = compute_hash(row.prev, row.body)
      BY DEF AppendedRow
    <3>3. ~fails => row.prev = IF n = 0 THEN GENESIS ELSE rows[n].hash
      BY DEF AppendedRow, TipHash, HashAt
    <3>4. n # 0 => new[i - 1] = rows[n]
      BY <1>2, <2>1
    <3>5. fails => new[i].body.id \in more
      BY <1>2, <2>1, <3>1
    <3> QED
      BY <1>2, <2>1, <3>2, <3>3, <3>4, <3>5 DEF Recomputes, LinksAt
  <2>2. CASE i \in 1 .. n
    <3>1. new[i] = rows[i] /\ (i # 1 => new[i - 1] = rows[i - 1])
      BY <1>2, <2>2
    <3>2. /\ Recomputes(rows[i])
          /\ rows[i].body.id \notin unread => LinksAt(rows, i, GENESIS)
      BY <1>2, <2>2 DEF LinkedRows
    <3>3. unread \subseteq more
      OBVIOUS
    <3> QED
      BY <2>2, <3>1, <3>2, <3>3 DEF LinksAt
  <2> QED
    BY <1>2, <2>1, <2>2
<1>4. CleanRows(new)
  <2> SUFFICES ASSUME NEW i \in 1 .. n + 1, new[i].body.tierB, ~new[i].body.ext,
                      NEW s \in new[i].body.src
               PROVE  \E j \in 1 .. i - 1 : new[j].body.id = s /\ ~new[j].body.ext
    BY <1>2 DEF CleanRows
  <2>1. CASE i = n + 1
    <3>1. row.body.tierB = req.tierB /\ row.body.src = req.src
          /\ (row.body.ext <=> (req.ext \/ (req.tierB
                 /\ \E t \in req.src : source_is_external_in_tx(rows, t))))
      BY DEF AppendedRow, Request
    <3>2. ~source_is_external_in_tx(rows, s)
      BY <1>2, <2>1, <3>1
    <3>3. PICK j \in 1 .. n : rows[j].body.id = s /\ ~rows[j].body.ext
      BY <1>2, <3>2 DEF source_is_external_in_tx
    <3> QED
      BY <1>2, <2>1, <3>3
  <2>2. CASE i \in 1 .. n
    <3>1. new[i] = rows[i]
      BY <1>2, <2>2
    <3>2. PICK j \in 1 .. i - 1 : rows[j].body.id = s /\ ~rows[j].body.ext
      BY <1>2, <2>2, <3>1 DEF CleanRows
    <3>3. new[j] = rows[j]
      BY <1>2, <2>2, <3>2
    <3> QED
      BY <3>2, <3>3
  <2> QED
    BY <1>2, <2>1, <2>2
<1> QED
  BY <1>3, <1>4 DEF new

-----------------------------------------------------------------------------
(* The inductive invariant *)

\* Seen is a sequence of rows, and log is a prefix of it.
LEMMA SeenType ==
    ASSUME TypeOK
    PROVE  Seen \in Seq(Row) /\ IsPrefixOf(log, Seen)
<1>1. CASE tx = Nil
  BY <1>1 DEF TypeOK, Seen, IsPrefixOf
<1>2. CASE tx # Nil
  <2>1. tx.rows \in Seq(Row) /\ log \in Seq(Row)
    BY <1>2 DEF TypeOK, Tx
  <2>2. log \o tx.rows \in Seq(Row) /\ Len(log \o tx.rows) = Len(log) + Len(tx.rows)
        /\ \A i \in 1 .. Len(log) : (log \o tx.rows)[i] = log[i]
    BY <2>1
  <2> QED
    BY <1>2, <2>1, <2>2 DEF Seen, Visible, IsPrefixOf
<1> QED
  BY <1>1, <1>2

\* A step that leaves a prefix of log and no transaction keeps the row facts.
LEMMA DropKeeps ==
    ASSUME TypeOK, LinkedRows(Seen, forks), CleanRows(Seen),
           log' \in Seq(Row), IsPrefixOf(log', log), tx' = Nil
    PROVE  LinkedRows(Seen', forks) /\ CleanRows(Seen')
<1>1. Seen \in Seq(Row) /\ IsPrefixOf(log, Seen)
  BY SeenType
<1>2. IsPrefixOf(log', Seen)
  BY <1>1 DEF TypeOK, IsPrefixOf
<1>3. Seen' = log'
  BY DEF Seen
<1> QED
  BY <1>1, <1>2, <1>3, PrefixKeeps

\* The initial state satisfies the invariant.
LEMMA InitIInv == Init => IInv
<1> SUFFICES ASSUME Init PROVE IInv
  OBVIOUS
<1>1. TypeOK
  <2>1. log \in Seq(Row) /\ nextId \in Nat
    BY DEF Init
  <2>2. rolledBack \in BOOLEAN /\ bareSince \in BOOLEAN /\ markUnread \in BOOLEAN
        /\ forks \subseteq Nat
    BY Zenon DEF Init
  <2> QED
    BY <2>1, <2>2 DEF Init, TypeOK
<1>2. Seen = << >>
  BY DEF Init, Seen
<1>3. LinkedRows(Seen, forks) /\ CleanRows(Seen)
  BY <1>2 DEF LinkedRows, CleanRows
<1>4. TxShape /\ PairsAreWhole /\ MarkInv
  BY DEF Init, TxShape, PairsAreWhole, MarkInv
<1> QED
  BY <1>1, <1>3, <1>4 DEF IInv

\* Opening a transaction.
LEMMA BeginStep ==
    ASSUME IInv, NEW reqs \in Seq(Request), Begin(reqs),
           \/ Len(reqs) = 1 /\ reqs[1].leg = "single"
           \/ Len(reqs) = 2 /\ reqs[1].leg = "first" /\ reqs[2].leg = "second"
    PROVE  IInv'
<1>0. tx' = [rows |-> << >>, todo |-> reqs] /\ log' = log /\ tx = Nil /\ tx' \in Tx
      /\ UNCHANGED <<handle, mark, nextId, rolledBack, bareSince, forks, markUnread>> /\ handle # "closed"
  BY DEF Begin, Tx
<1>1. TypeOK'
  BY <1>0 DEF IInv, TypeOK
<1>2. Seen' = Seen /\ forks' = forks
  <2>1. tx' # Nil
    BY <1>0, NilAssumption
  <2>2. log \o << >> = log
    BY DEF IInv, TypeOK
  <2> QED
    BY <1>0, <2>1, <2>2 DEF Seen, Visible
<1>3. TxShape'
  BY <1>0 DEF TxShape, ShapeOf
<1>4. PairsAreWhole' /\ MarkInv'
  BY <1>0 DEF IInv, PairsAreWhole, MarkInv, HashAt
<1> QED
  BY <1>1, <1>2, <1>3, <1>4 DEF IInv

\* The requests of append and append_pair are well typed.
LEMMA RequestsType == \A leg \in Legs : Requests(leg) \subseteq {r \in Request : r.leg = leg}
  BY LineagesAssumption DEF Requests, Request

\* Moving the first request to the rows keeps the shape.
LEMMA ShapeStep ==
    ASSUME NEW rows \in Seq(Row), NEW todo \in Seq(Request), NEW row \in Row,
           ShapeOf(rows, todo), todo # << >>, row.body.leg = todo[1].leg
    PROVE  ShapeOf(Append(rows, row), Tail(todo))
<1> DEFINE new == Append(rows, row)
           rest == Tail(todo)
           n == Len(rows)
           k == Len(todo)
<1>1. n \in Nat /\ k \in Nat /\ k # 0 /\ Len(new) = n + 1 /\ new[n + 1] = row
      /\ (\A i \in 1 .. n : new[i] = rows[i]) /\ Len(rest) = k - 1
      /\ (\A j \in 1 .. k - 1 : rest[j] = todo[j + 1])
  OBVIOUS
<1> HIDE DEF new, rest
<1>2. CASE n + k = 1
  BY <1>1, <1>2 DEF ShapeOf
<1>3. CASE n + k = 2
  <2>1. \A i \in 1 .. n + 1 : new[i].body.leg = IF i = 1 THEN "first" ELSE "second"
    <3>1. todo[1].leg = IF n + 1 = 1 THEN "first" ELSE "second"
      BY <1>1, <1>3 DEF ShapeOf
    <3>2. \A i \in 1 .. n : rows[i].body.leg = IF i = 1 THEN "first" ELSE "second"
      BY <1>1, <1>3 DEF ShapeOf
    <3> QED
      BY <1>1, <3>1, <3>2
  <2>2. \A j \in 1 .. k - 1 : rest[j].leg = IF n + 1 + j = 1 THEN "first" ELSE "second"
    BY <1>1, <1>3 DEF ShapeOf
  <2> QED
    BY <1>1, <1>3, <2>1, <2>2 DEF ShapeOf
<1>4. n + k = 1 \/ n + k = 2
  BY DEF ShapeOf
<1> QED
  BY <1>2, <1>3, <1>4 DEF new, rest

\* Inserting one row.
LEMMA InsertStep == IInv /\ append_event_in_tx => IInv'
<1> SUFFICES ASSUME IInv, append_event_in_tx PROVE IInv'
  OBVIOUS
<1>p. PICK fails \in BOOLEAN :
          /\ fails => Visible # << >> /\ Cardinality(forks) < MaxForks
          /\ tx' = [rows |-> Append(tx.rows, AppendedRow(Visible, Head(tx.todo), nextId, fails)),
                    todo |-> Tail(tx.todo)]
          /\ forks' = IF fails THEN forks \cup {nextId} ELSE forks
  BY DEF append_event_in_tx
<1> DEFINE row == AppendedRow(Visible, Head(tx.todo), nextId, fails)
<1>0. tx # Nil /\ tx \in Tx /\ tx.rows \in Seq(Row) /\ tx.todo \in Seq(Request)
      /\ tx.todo # << >> /\ log \in Seq(Row) /\ nextId \in Nat
  BY DEF IInv, TypeOK, Tx, append_event_in_tx
<1>1. Visible \in Seq(Row) /\ Seen = Visible /\ (fails => Visible # << >>)
  BY <1>0, <1>p DEF Seen, Visible
<1>2. Head(tx.todo) \in Request /\ Head(tx.todo) = tx.todo[1]
      /\ Tail(tx.todo) \in Seq(Request) /\ Len(Tail(tx.todo)) = Len(tx.todo) - 1
      /\ \A j \in 1 .. Len(Tail(tx.todo)) : Tail(tx.todo)[j] = tx.todo[j + 1]
  BY <1>0
<1>3. row \in Row /\ row.body.leg = tx.todo[1].leg
  <2>1. row \in Row
    BY <1>0, <1>1, <1>2, AppendedRowType
  <2>2. row.body.leg = Head(tx.todo).leg
    BY DEF AppendedRow
  <2> QED
    BY <1>2, <2>1, <2>2
<1> HIDE DEF row
<1>4. tx' = [rows |-> Append(tx.rows, row), todo |-> Tail(tx.todo)] /\ tx' \in Tx /\ tx' # Nil
      /\ log' = log /\ nextId' = nextId + 1
      /\ UNCHANGED <<handle, mark, rolledBack, bareSince, markUnread>>
  <2>1. tx' = [rows |-> Append(tx.rows, row), todo |-> Tail(tx.todo)]
        /\ UNCHANGED <<log, handle, mark, rolledBack, bareSince, markUnread>> /\ nextId' = nextId + 1
    BY <1>p DEF append_event_in_tx, row
  <2>2. Append(tx.rows, row) \in Seq(Row)
    BY <1>0, <1>3
  <2>3. tx' \in Tx
    BY <1>2, <2>1, <2>2 DEF Tx
  <2> QED
    BY <2>1, <2>3, NilAssumption
<1>5. TypeOK'
  <2>1. forks' \subseteq Nat
    BY <1>0, <1>p DEF IInv, TypeOK
  <2> QED
    BY <1>0, <1>4, <2>1 DEF IInv, TypeOK
<1>6. LinkedRows(Seen', forks') /\ CleanRows(Seen')
  <2>1. Seen' = log \o Append(tx.rows, row)
    BY <1>4 DEF Seen, Visible
  <2>2. log \o Append(tx.rows, row) = Append(log \o tx.rows, row)
    BY <1>0, <1>3
  <2>3. Seen' = Append(Seen, row)
    BY <1>1, <2>1, <2>2 DEF Visible
  <2> QED
    BY <1>0, <1>1, <1>2, <1>p, <2>3, ExtendKeeps DEF IInv, row
<1>7. TxShape'
  <2>1. ShapeOf(tx.rows, tx.todo)
    BY <1>0 DEF IInv, TxShape
  <2>2. ShapeOf(Append(tx.rows, row), Tail(tx.todo))
    BY <1>0, <1>3, <2>1, ShapeStep
  <2>3. tx'.rows = Append(tx.rows, row) /\ tx'.todo = Tail(tx.todo)
    BY <1>4
  <2> QED
    BY <2>2, <2>3 DEF TxShape
<1>8. PairsAreWhole' /\ MarkInv'
  BY <1>4 DEF IInv, PairsAreWhole, MarkInv, HashAt
<1> QED
  BY <1>5, <1>6, <1>7, <1>8 DEF IInv

\* Committing.
LEMMA CommitStep == IInv /\ commit => IInv'
<1> SUFFICES ASSUME IInv, commit PROVE IInv'
  OBVIOUS
<1>0. tx # Nil /\ tx.rows \in Seq(Row) /\ tx.todo = << >> /\ log \in Seq(Row)
      /\ log' = log \o tx.rows /\ tx' = Nil
      /\ UNCHANGED <<handle, mark, nextId, rolledBack, bareSince, forks, markUnread>> /\ handle # "closed"
  BY DEF IInv, TypeOK, Tx, commit, Visible
<1> DEFINE n == Len(log)
           k == Len(tx.rows)
<1>1. log' \in Seq(Row) /\ Len(log') = n + k /\ n \in Nat /\ k \in Nat
      /\ (\A i \in 1 .. n : log'[i] = log[i])
      /\ (\A i \in n + 1 .. n + k : log'[i] = tx.rows[i - n])
      /\ DOMAIN log' = 1 .. n + k /\ DOMAIN log = 1 .. n
  BY <1>0
<1>2. TypeOK'
  BY <1>0, <1>1 DEF IInv, TypeOK
<1>3. Seen' = Seen /\ forks' = forks
  BY <1>0 DEF Seen, Visible
<1>4. TxShape'
  BY <1>0 DEF TxShape
<1>5. PairsAreWhole'
  <2>1. \/ k = 1 /\ tx.rows[1].body.leg = "single"
        \/ k = 2 /\ tx.rows[1].body.leg = "first" /\ tx.rows[2].body.leg = "second"
    <3>1. Len(tx.todo) = 0
      BY <1>0
    <3> QED
      BY <1>0, <1>1, <3>1 DEF IInv, TxShape, ShapeOf
  <2> SUFFICES ASSUME NEW i \in 1 .. n + k
               PROVE  /\ log'[i].body.leg = "first"
                            => i < n + k /\ log'[i + 1].body.leg = "second"
                      /\ log'[i].body.leg = "second"
                            => i > 1 /\ log'[i - 1].body.leg = "first"
    BY <1>1 DEF PairsAreWhole
  <2>2. CASE i \in 1 .. n
    <3>1. /\ log[i].body.leg = "first" => i < n /\ log[i + 1].body.leg = "second"
          /\ log[i].body.leg = "second" => i > 1 /\ log[i - 1].body.leg = "first"
      BY <1>1, <2>2 DEF IInv, PairsAreWhole
    <3>2. log'[i] = log[i] /\ (i < n => log'[i + 1] = log[i + 1])
          /\ (i > 1 => log'[i - 1] = log[i - 1])
      BY <1>1, <2>2
    <3> QED
      BY <1>1, <2>2, <3>1, <3>2
  <2>3. CASE i = n + 1
    <3>1. log'[i] = tx.rows[1] /\ (k = 2 => log'[i + 1] = tx.rows[2])
      BY <1>1, <2>1, <2>3
    <3> QED
      BY <1>1, <2>1, <2>3, <3>1
  <2>4. CASE i = n + 2
    <3>1. k = 2 /\ log'[i] = tx.rows[2] /\ log'[i - 1] = tx.rows[1]
      BY <1>1, <2>1, <2>4
    <3> QED
      BY <1>1, <2>1, <2>4, <3>1
  <2>5. i \in 1 .. n \/ i = n + 1 \/ i = n + 2
    <3>1. n \in Nat /\ (k = 1 \/ k = 2)
      BY <1>1, <2>1
    <3> HIDE DEF n, k
    <3> QED
      BY <3>1
  <2> QED
    BY <2>2, <2>3, <2>4, <2>5
<1>6. MarkInv'
  <2>1. mark # Nil /\ mark.count <= n => HashAt(log', mark.count) = HashAt(log, mark.count)
    BY <1>1 DEF IInv, TypeOK, Mark, HashAt
  <2>2. mark # Nil => mark.count \in Nat
    BY DEF IInv, TypeOK, Mark
  <2> QED
    BY <1>0, <1>1, <2>1, <2>2 DEF IInv, TypeOK, MarkInv
<1> QED
  BY <1>2, <1>3, <1>4, <1>5, <1>6 DEF IInv

\* Dropping the transaction: a failed statement, a crash, a clean end.
LEMMA DropStep == IInv /\ (rollback \/ Crash) => IInv'
<1> SUFFICES ASSUME IInv, rollback \/ Crash PROVE IInv'
  OBVIOUS
<1>0. tx' = Nil /\ log' = log /\ handle' \in {handle, "closed"}
      /\ UNCHANGED <<mark, nextId, rolledBack, bareSince, forks, markUnread>>
  BY DEF rollback, Crash
<1>1. TypeOK'
  BY <1>0 DEF IInv, TypeOK
<1>2. LinkedRows(Seen', forks') /\ CleanRows(Seen')
  BY <1>0, DropKeeps DEF IInv, TypeOK, IsPrefixOf
<1>3. TxShape'
  BY <1>0 DEF TxShape
<1>4. PairsAreWhole' /\ MarkInv'
  BY <1>0 DEF IInv, PairsAreWhole, MarkInv, HashAt
<1> QED
  BY <1>1, <1>2, <1>3, <1>4 DEF IInv

\* Saving the mark and opening a handle leave the rows alone.
LEMMA HandleStep ==
    IInv /\ (checkpoint_highwater \/ open \/ open_with_highwater) => IInv'
<1> SUFFICES ASSUME IInv, checkpoint_highwater \/ open \/ open_with_highwater PROVE IInv'
  OBVIOUS
<1>0. tx' = tx /\ log' = log /\ nextId' = nextId /\ rolledBack' = rolledBack /\ tx = Nil
      /\ forks' = forks
  BY DEF checkpoint_highwater, open, open_with_highwater, IInv, TypeOK
<1>1. TypeOK'
  <2>1. (\A fails \in BOOLEAN : TipHash(log, fails) \in Hash) /\ Len(log) \in Nat
    <3>1. GENESIS \in Hash
      BY DEF GENESIS, Hash
    <3>2. Len(log) # 0 => log[Len(log)].hash \in Hash
      <4>1. Len(log) # 0 => log \in Seq(Row) /\ log[Len(log)] \in Row
        BY DEF IInv, TypeOK
      <4> QED
        BY <4>1 DEF Row
    <3> QED
      BY <3>1, <3>2 DEF IInv, TypeOK, TipHash, HashAt
  <2>2. mark' \in Mark \cup {Nil}
    BY <2>1 DEF checkpoint_highwater, open, open_with_highwater, IInv, TypeOK, Mark
  <2>3. handle' \in {"closed", "bare", "hw"}
    BY DEF checkpoint_highwater, open, open_with_highwater
  <2>4. bareSince' \in BOOLEAN /\ markUnread' \in BOOLEAN
    BY Zenon DEF checkpoint_highwater, open, open_with_highwater, IInv, TypeOK
  <2> QED
    BY <1>0, <2>2, <2>3, <2>4 DEF IInv, TypeOK
<1>2. Seen' = Seen /\ forks' = forks
  BY <1>0 DEF Seen, Visible
<1>3. TxShape' /\ PairsAreWhole'
  BY <1>0 DEF IInv, TxShape, PairsAreWhole
<1>4. MarkInv'
  <2>1. CASE checkpoint_highwater
    <3>0. PICK fails \in BOOLEAN :
              mark' = [count |-> Len(log), tip |-> TipHash(log, fails)] /\ markUnread' = fails
      BY <2>1 DEF checkpoint_highwater
    <3>1. handle' = "hw"
      BY <2>1 DEF checkpoint_highwater
    <3>2. mark'.count = Len(log) /\ (~markUnread' => mark'.tip = HashAt(log, Len(log)))
          /\ Len(log) \in Nat
      BY <3>0 DEF TipHash, IInv, TypeOK
    <3> QED
      BY <1>0, <3>1, <3>2 DEF MarkInv, HashAt
  <2>2. CASE open
    BY <1>0, <2>2 DEF open, IInv, MarkInv
  <2>3. CASE open_with_highwater
    <3>1. mark # Nil => mark.count \in Nat /\ mark.count <= Len(log)
      BY <2>3 DEF open_with_highwater, IInv, TypeOK, Mark
    <3> QED
      BY <1>0, <2>3, <3>1 DEF open_with_highwater, IInv, MarkInv, HashAt
  <2> QED
    BY <2>1, <2>2, <2>3
<1> QED
  BY <1>1, <1>2, <1>3, <1>4 DEF IInv

\* Replacing the closed file by an older copy of itself.
LEMMA RestoreStep == IInv /\ RestoreOlderCopy => IInv'
<1> SUFFICES ASSUME IInv, RestoreOlderCopy PROVE IInv'
  OBVIOUS
<1>1. PICK n \in 0 .. Len(log) - 1 :
        /\ n > 0 => log[n].body.leg # "first"
        /\ log' = SubSeq(log, 1, n)
  BY DEF RestoreOlderCopy
<1>2. handle = "closed" /\ tx = Nil /\ tx' = Nil /\ rolledBack' = TRUE
      /\ UNCHANGED <<handle, mark, nextId, bareSince, forks, markUnread>>
  BY DEF RestoreOlderCopy, IInv, TypeOK
<1>3. log \in Seq(Row) /\ Len(log) \in Nat
  BY DEF IInv, TypeOK
<1>4. log' \in Seq(Row) /\ Len(log') = n /\ n \in Nat /\ n < Len(log)
      /\ \A i \in 1 .. n : log'[i] = log[i]
  BY <1>1, <1>3
<1>5. TypeOK'
  <2>1. rolledBack' \in BOOLEAN
    BY <1>2, Zenon
  <2> QED
    BY <1>2, <1>4, <2>1 DEF IInv, TypeOK
<1>6. LinkedRows(Seen', forks') /\ CleanRows(Seen')
  <2>1. IsPrefixOf(log', log)
    BY <1>3, <1>4 DEF IsPrefixOf
  <2> QED
    BY <1>2, <1>4, <2>1, DropKeeps DEF IInv
<1>7. TxShape'
  BY <1>2 DEF TxShape
<1>8. PairsAreWhole'
  <2>1. DOMAIN log' = 1 .. n /\ DOMAIN log = 1 .. Len(log)
    BY <1>3, <1>4
  <2> SUFFICES ASSUME NEW i \in 1 .. n
               PROVE  /\ log'[i].body.leg = "first"
                            => i < n /\ log'[i + 1].body.leg = "second"
                      /\ log'[i].body.leg = "second"
                            => i > 1 /\ log'[i - 1].body.leg = "first"
    BY <1>4, <2>1 DEF PairsAreWhole
  <2>2. /\ log[i].body.leg = "first" => log[i + 1].body.leg = "second"
        /\ log[i].body.leg = "second" => i > 1 /\ log[i - 1].body.leg = "first"
    BY <1>4, <2>1 DEF IInv, PairsAreWhole
  <2>3. log'[i] = log[i] /\ (i < n => log'[i + 1] = log[i + 1])
        /\ (i > 1 => log'[i - 1] = log[i - 1])
    BY <1>4
  <2>4. i = n => log[i].body.leg # "first"
    BY <1>1, <1>4
  <2> QED
    BY <1>4, <2>2, <2>3, <2>4
<1>9. MarkInv'
  <2>1. mark # Nil => mark.count \in Nat
    BY DEF IInv, TypeOK, Mark
  <2> QED
    BY <1>2, <1>3, <1>4, <2>1 DEF IInv, MarkInv, HashAt
<1> QED
  BY <1>5, <1>6, <1>7, <1>8, <1>9 DEF IInv

\* Every step preserves the invariant.
LEMMA StepIInv == IInv /\ [Next]_vars => IInv'
<1> SUFFICES ASSUME IInv, [Next]_vars PROVE IInv'
  OBVIOUS
<1>1. CASE append
  <2>1. PICK r \in Requests("single") : Begin(<<r>>)
    BY <1>1 DEF append
  <2>2. r \in Request /\ r.leg = "single"
    BY RequestsType DEF Legs
  <2>3. <<r>> \in Seq(Request) /\ Len(<<r>>) = 1 /\ <<r>>[1].leg = "single"
    BY <2>2
  <2> QED
    BY <2>1, <2>3, BeginStep
<1>2. CASE append_pair
  <2>1. PICK r \in Requests("first"), s \in Requests("second") : Begin(<<r, s>>)
    BY <1>2 DEF append_pair
  <2>2. r \in Request /\ r.leg = "first" /\ s \in Request /\ s.leg = "second"
    BY RequestsType DEF Legs
  <2>3. <<r, s>> \in Seq(Request) /\ Len(<<r, s>>) = 2
        /\ <<r, s>>[1].leg = "first" /\ <<r, s>>[2].leg = "second"
    BY <2>2
  <2> QED
    BY <2>1, <2>3, BeginStep
<1>3. CASE append_event_in_tx
  BY <1>3, InsertStep
<1>4. CASE commit
  BY <1>4, CommitStep
<1>5. CASE rollback \/ Crash
  BY <1>5, DropStep
<1>6. CASE checkpoint_highwater \/ open \/ open_with_highwater
  BY <1>6, HandleStep
<1>7. CASE RestoreOlderCopy
  BY <1>7, RestoreStep
<1>8. CASE UNCHANGED vars
  BY <1>8 DEF vars, IInv, TypeOK, Seen, Visible, TxShape, PairsAreWhole, MarkInv, HashAt
<1> QED
  BY <1>1, <1>2, <1>3, <1>4, <1>5, <1>6, <1>7, <1>8 DEF Next

\* The log is a prefix of Seen, so the invariant gives the row properties of log.
LEMMA IInvImplies ==
    IInv => ChainVerifies /\ CleanLineage /\ PairsAreWhole
            /\ NoSpuriousTruncation /\ MarkedHistoryServed
<1> SUFFICES ASSUME IInv PROVE ChainVerifies /\ CleanLineage /\ PairsAreWhole
                               /\ NoSpuriousTruncation /\ MarkedHistoryServed
  OBVIOUS
<1>1. LinkedRows(log, forks) /\ CleanRows(log)
  <2>1. log \in Seq(Row) /\ Seen \in Seq(Row) /\ IsPrefixOf(log, Seen)
    BY SeenType DEF IInv, TypeOK
  <2> QED
    BY <2>1, PrefixKeeps DEF IInv
<1>2. NoSpuriousTruncation /\ MarkedHistoryServed
  BY DEF IInv, MarkInv, NoSpuriousTruncation, MarkedHistoryServed
<1>3. (\A i \in DOMAIN log : log[i].body.id \notin forks) => verify_chain
  BY <1>1, Zenon DEF LinkedRows, verify_chain, verify_rows
<1> QED
  BY <1>1, <1>2, <1>3 DEF IInv, ChainVerifies, CleanLineage

-----------------------------------------------------------------------------
(* Theorems *)

\* The inductive invariant holds in every reachable state.
THEOREM Invariance == Spec => []IInv
  BY InitIInv, StepIInv, PTL DEF Spec

\* Every variable keeps its type.
THEOREM TypeCorrect == Spec => []TypeOK
<1>1. IInv => TypeOK
  BY DEF IInv
<1> QED
  BY <1>1, Invariance, PTL

\* Whatever transactions, failed statements, crashes and restored copies came
\* before, every row of the log links to its predecessor unless its own append
\* could not read the tip; verify_chain accepts a log without such a row.
THEOREM ChainAlwaysVerifies == Spec => []ChainVerifies
  BY Invariance, IInvImplies, PTL

\* An untainted Tier-B event never rests on an external or missing source.
THEOREM TaintPropagates == Spec => []CleanLineage
  BY Invariance, IInvImplies, PTL

\* append_pair is atomic across crashes and failed statements.
THEOREM PairAtomicity == Spec => []PairsAreWhole
  BY Invariance, IInvImplies, PTL

\* Crashes alone, at whichever side of the mark's own file, never make
\* open_with_highwater refuse the log.
THEOREM CrashIsNoTruncation == Spec => []NoSpuriousTruncation
  BY Invariance, IInvImplies, PTL

\* With no bare handle opened since the mark was saved, a handle that
\* open_with_highwater grants is on a log at least as long as the marked one,
\* with the marked row in its place when the mark's tip was read; the file may
\* only have been replaced by older copies of itself in between.
THEOREM HighWater == Spec => []MarkedHistoryServed
  BY Invariance, IInvImplies, PTL

\* While a handle is open the committed rows never change and only a commit adds any.
THEOREM LogIsAppendOnly == Spec => AppendOnly
<1>1. IInv /\ [Next]_vars =>
        [handle # "closed" =>
            /\ Len(log') >= Len(log)
            /\ \A i \in DOMAIN log : log'[i] = log[i]
            /\ log' # log => tx # Nil]_vars
  <2> SUFFICES ASSUME IInv, Next, handle # "closed"
               PROVE  /\ Len(log') >= Len(log)
                      /\ \A i \in DOMAIN log : log'[i] = log[i]
                      /\ log' # log => tx # Nil
    OBVIOUS
  <2>1. CASE commit
    <3>1. tx # Nil /\ tx.rows \in Seq(Row) /\ log \in Seq(Row) /\ log' = log \o tx.rows
      BY <2>1 DEF commit, Visible, IInv, TypeOK, Tx
    <3> QED
      BY <3>1
  <2>2. CASE log' = log
    BY <2>2 DEF IInv, TypeOK
  <2>3. commit \/ log' = log
    BY DEF Next, append, append_pair, Begin, append_event_in_tx, rollback,
           checkpoint_highwater, open, open_with_highwater, Crash, RestoreOlderCopy
  <2> QED
    BY <2>1, <2>2, <2>3
<1> QED
  BY <1>1, Invariance, PTL DEF Spec, AppendOnly

\* verify_chain_since misses nothing: when the rows up to the trusted cursor row
\* verify, checking only the tail decides exactly what verify_chain decides.
THEOREM IncrementalVerification ==
    ASSUME log \in Seq(Row), NEW k \in DOMAIN log, verify_rows(SubSeq(log, 1, k), GENESIS)
    PROVE  verify_chain_since(k) <=> verify_chain
<1> DEFINE head == SubSeq(log, 1, k)
<1> DEFINE tail == SubSeq(log, k + 1, Len(log))
<1>1. k \in 1 .. Len(log) /\ Len(log) \in Nat /\ DOMAIN log = 1 .. Len(log)
  OBVIOUS
<1>2. DOMAIN head = 1 .. k /\ \A i \in 1 .. k : head[i] = log[i]
  BY <1>1
<1>3. DOMAIN tail = 1 .. Len(log) - k /\ \A i \in 1 .. Len(log) - k : tail[i] = log[k + i]
  BY <1>1
<1>4. ASSUME verify_chain_since(k)
      PROVE  verify_chain
  <2> SUFFICES ASSUME NEW i \in 1 .. Len(log)
               PROVE  /\ log[i].prev = IF i = 1 THEN GENESIS ELSE log[i - 1].hash
                      /\ log[i].hash = compute_hash(log[i].prev, log[i].body)
    BY <1>1 DEF verify_chain, verify_rows, LinksAt, Recomputes
  <2>1. CASE i <= k
    <3>1. i \in 1 .. k /\ (i # 1 => i - 1 \in 1 .. k)
      BY <2>1, <1>1
    <3> QED
      BY <3>1, <1>2 DEF verify_rows, LinksAt, Recomputes
  <2>2. CASE i > k
    <3> DEFINE j == i - k
    <3>1. j \in 1 .. Len(log) - k /\ k + j = i /\ (j = 1 => i - 1 = k) /\ i # 1
          /\ (j # 1 => j - 1 \in 1 .. Len(log) - k /\ k + (j - 1) = i - 1)
      BY <2>2, <1>1
    <3>2. /\ tail[j].prev = IF j = 1 THEN log[k].hash ELSE tail[j - 1].hash
          /\ tail[j].hash = compute_hash(tail[j].prev, tail[j].body)
      BY <3>1, <1>3, <1>4 DEF verify_chain_since, verify_rows, LinksAt, Recomputes
    <3> HIDE DEF j, tail
    <3> QED
      BY <3>1, <3>2, <1>3
  <2> QED
    BY <2>1, <2>2, <1>1
<1>5. ASSUME verify_chain
      PROVE  verify_chain_since(k)
  <2> SUFFICES ASSUME NEW j \in 1 .. Len(log) - k
               PROVE  /\ tail[j].prev = IF j = 1 THEN log[k].hash ELSE tail[j - 1].hash
                      /\ tail[j].hash = compute_hash(tail[j].prev, tail[j].body)
    BY <1>3 DEF verify_chain_since, verify_rows, LinksAt, Recomputes
  <2>1. k + j \in 1 .. Len(log) /\ k + j # 1 /\ (j = 1 => (k + j) - 1 = k)
        /\ (j # 1 => j - 1 \in 1 .. Len(log) - k /\ k + (j - 1) = (k + j) - 1)
    BY <1>1
  <2>2. /\ log[k + j].prev = log[(k + j) - 1].hash
        /\ log[k + j].hash = compute_hash(log[k + j].prev, log[k + j].body)
    BY <2>1, <1>1, <1>5 DEF verify_chain, verify_rows, LinksAt, Recomputes
  <2> HIDE DEF tail
  <2> QED
    BY <2>1, <2>2, <1>3
<1> QED
  BY <1>4, <1>5
=============================================================================
