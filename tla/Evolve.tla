-------------------------------- MODULE Evolve --------------------------------
(***************************************************************************)
(* The background curation of the brain: evolve_once extracts facts from   *)
(* new memories and summarises the topics they touch into dossier pages,   *)
(* and the tidy of reflect_once composes again the pages that cite retired *)
(* memories.  The two ticks hold different locks (evolve_lock,             *)
(* reflect_lock), so both write pages and both rebuild the graph           *)
(* projection, in steps that other steps come between.                     *)
(*                                                                         *)
(* A memory asserts one fact about one topic; a dossier cites every source *)
(* it was given.  Left out: entity resolution and minting, contradictions  *)
(* and retractions, mandates, un-retirement, and the misses of reflection. *)
(* Topics are numbers, in the order of their ids.                          *)
(***************************************************************************)
EXTENDS Integers, Sequences, FiniteSetsExt

CONSTANTS
  Topics,        \* entity ids, numbers
  EvolveBatch,   \* EVOLVE_BATCH: memories per tick
  SummaryBatch,  \* SUMMARY_BATCH: topics per tick
  RefreshCap,    \* REFLECT_REFRESH_PER_TICK: stale pages per tick
  MaxMemories, MaxRetires, MaxMishaps   \* bounds of the model

ASSUME EvolveAssumption ==
  /\ Topics \subseteq Nat /\ IsFiniteSet(Topics)
  /\ {EvolveBatch, SummaryBatch, RefreshCap} \subseteq Nat \ {0}
  /\ {MaxMemories, MaxRetires, MaxMishaps} \subseteq Nat

VARIABLES
  log,              \* the events: memories, links, pages and retirements
  graph,            \* the last event the graph projection has folded
  indexed,          \* EngineHandle.indexed
  evolveCursor,     \* evolve_cursor: last memory extracted
  summarizeCursor,  \* summarize_cursor: last link whose topic was summarised
  tick,             \* the two ticks, by name
  excused,          \* memories a known window has left out of their dossier
  mishaps           \* crashes and failures of the model so far

evolveVars == <<log, graph, indexed, evolveCursor, summarizeCursor, tick, excused, mishaps>>

-----------------------------------------------------------------------------
(* The log and its folds *)

Memory(t) == [kind |-> "memory", topic |-> t]
Link(t, m) == [kind |-> "link", topic |-> t, source |-> m]
Page(t, cites, prior) == [kind |-> "page", topic |-> t, cites |-> cites, supersedes |-> prior]
Retire(m) == [kind |-> "retire", source |-> m]

Of(kind) == {k \in DOMAIN log : log[k].kind = kind}
Gone == {log[k].source : k \in Of("retire")}

\* the last event a rebuild of the graph would fold
Tip == Max(Of("link") \cup Of("page") \cup {0})

\* fold_edges over the first n events: the sources of a topic's active edges
Linked(t, n) == {log[k].source : k \in {l \in Of("link") : l <= n /\ log[l].topic = t}}

\* fold_pages over the first n events: the last page of a topic that nothing supersedes
CurrentPage(t, n) ==
  LET pages == {k \in Of("page") : k <= n}
      superseded == {log[k].supersedes : k \in pages}
  IN Max({k \in pages : log[k].topic = t /\ k \notin superseded} \cup {0})

Cites(page) == IF page = 0 THEN {} ELSE log[page].cites

\* Mutant: retired sources are gathered too
FactsOfAll(t) == Linked(t, graph)

\* gather_fact_set: edges from the projection, less what is retired by now
Facts(t) == Linked(t, graph) \ Gone

\* unprocessed_extractable_since and dirty_entities_since
Unprocessed == {m \in Of("memory") : m > evolveCursor}
DirtyLinks == {k \in Of("link") : k > summarizeCursor}
Dirty == {log[k].topic : k \in DirtyLinks}

\* the n smallest: a tick takes its memories and topics in ascending order
FirstOf(S, n) == {x \in S : Cardinality({y \in S : y < x}) < n}

-----------------------------------------------------------------------------
(* The state of a tick *)

Ticks == {"evolve", "reflect"}

Idle == [at |-> "idle", todo |-> {}, keys |-> {}, mark |-> 0, drained |-> FALSE,
         changed |-> FALSE, facts |-> {}, prior |-> 0, seen |-> 0, next |-> "idle",
         gone |-> {}, spent |-> 0]

At(p, step) == tick[p].at = step
Go(p, t) == tick' = [tick EXCEPT ![p] = t]
Head1(p) == Min(tick[p].todo)
Dropped(p) == [tick[p] EXCEPT !.todo = @ \ {Head1(p)}]
Spend(p) == IF p = "reflect" THEN tick[p].spent + 1 ELSE 0

\* rebuild_graph: the events are read, then the tables written, in two lock sections
Rebuild(t, next) == [t EXCEPT !.at = "read", !.next = next]
RebuildIf(t, next) == IF t.changed THEN Rebuild([t EXCEPT !.changed = FALSE], next)
                      ELSE [t EXCEPT !.at = next]

\* what follows the last memory of the batch, and the last topic
Extracted(t) == IF t.todo = {} THEN RebuildIf([t EXCEPT !.keys = {}], "cursor") ELSE t
Refreshed(p, t) ==
  CASE t.todo # {} /\ t.spent < RefreshCap -> [t EXCEPT !.at = "topic"]
    [] p = "evolve" /\ t.todo = {} -> RebuildIf(t, "settle")
    [] OTHER -> Rebuild(Idle, "idle")

EvolveInit ==
  /\ log = <<>> /\ graph = 0 /\ indexed = FALSE
  /\ evolveCursor = 0 /\ summarizeCursor = 0
  /\ tick = [p \in Ticks |-> Idle]
  /\ excused = {} /\ mishaps = 0

\* what a window of the code leaves out of a dossier
Excuse(memories) == excused' = excused \cup (memories \ Gone)

Mishap == mishaps < MaxMishaps /\ mishaps' = mishaps + 1

-----------------------------------------------------------------------------
(* Users *)

Remember(t) ==
  /\ Cardinality(Of("memory")) < MaxMemories
  /\ log' = Append(log, Memory(t)) /\ indexed' = FALSE
  /\ UNCHANGED <<graph, evolveCursor, summarizeCursor, tick, excused, mishaps>>

RetireMemory(m) ==
  /\ m \in Of("memory") \ Gone /\ Cardinality(Gone) < MaxRetires
  /\ log' = Append(log, Retire(m)) /\ excused' = excused \ {m}
  /\ UNCHANGED <<graph, indexed, evolveCursor, summarizeCursor, tick, mishaps>>

\* The process dies with both ticks; the index flag is memory, the rest is on disk.
Crash ==
  /\ \E p \in Ticks : tick[p] # Idle
  /\ Mishap
  /\ tick' = [p \in Ticks |-> Idle] /\ indexed' = FALSE
  /\ UNCHANGED <<log, graph, evolveCursor, summarizeCursor, excused>>

-----------------------------------------------------------------------------
(* What both ticks do *)

\* ensure_indexed, first thing in a tick
EnsureIndexed ==
  /\ indexed' = TRUE
  /\ graph' = IF indexed THEN graph ELSE Tip

RebuildRead(p) ==
  /\ At(p, "read")
  /\ Go(p, [tick[p] EXCEPT !.at = "write", !.seen = Tip])
  /\ UNCHANGED <<log, graph, indexed, evolveCursor, summarizeCursor, excused, mishaps>>

RebuildWrite(p) ==
  /\ At(p, "write")
  /\ graph' = tick[p].seen
  /\ Go(p, IF tick[p].next = "idle" THEN Idle
           ELSE [tick[p] EXCEPT !.at = tick[p].next, !.seen = 0, !.next = "idle"])
  /\ UNCHANGED <<log, indexed, evolveCursor, summarizeCursor, excused, mishaps>>

\* refresh_topic_page, up to the compose: nothing to cite is thin, and a failure of
\* the model is one topic's failure
Thin(p, t) == Facts(t) = {}

Compose(p, t) ==
  /\ ~Thin(p, t)
  /\ Go(p, [tick[p] EXCEPT !.at = "compare", !.facts = Facts(t), !.spent = Spend(p)])
  /\ Excuse(IF p = "evolve" THEN Linked(t, Len(log)) \ Linked(t, graph) ELSE {})
  /\ UNCHANGED mishaps

\* Edges that cannot be read this once pass for none (neighbors(..).unwrap_or_default()): what
\* is gathered are the sources of the entity's own event.
ComposeUnread(p, t) ==
  /\ Mishap
  /\ \E facts \in SUBSET Facts(t) \ {{}} :
       /\ Go(p, [tick[p] EXCEPT !.at = "compare", !.facts = facts, !.spent = Spend(p)])
       /\ Excuse(IF p = "evolve" THEN Linked(t, Len(log)) \ facts ELSE {})

\* ... a topic with too few of them is thin, which looks like a failure of the model
ComposeFails(p, t) ==
  /\ ~Thin(p, t) /\ Mishap
  /\ Go(p, Refreshed(p, [Dropped(p) EXCEPT !.spent = Spend(p)]))
  /\ Excuse(IF p = "evolve" THEN Linked(t, Len(log)) ELSE {})

SkipThin(p, t) ==
  /\ Thin(p, t)
  /\ Go(p, Refreshed(p, [Dropped(p) EXCEPT !.spent = Spend(p)]))
  /\ Excuse(IF p = "evolve" THEN Linked(t, Len(log)) \ Linked(t, graph) ELSE {})
  /\ UNCHANGED mishaps

Refresh(p) ==
  /\ \/ Compose(p, Head1(p)) \/ ComposeUnread(p, Head1(p))
     \/ ComposeFails(p, Head1(p)) \/ SkipThin(p, Head1(p))
  /\ UNCHANGED <<log, graph, indexed, evolveCursor, summarizeCursor>>

\* the same set of citations emits nothing
Compare(p) ==
  /\ At(p, "compare")
  /\ LET prior == CurrentPage(Head1(p), graph)
     IN Go(p, IF prior # 0 /\ Cites(prior) = tick[p].facts
              THEN Refreshed(p, [Dropped(p) EXCEPT !.facts = {}])
              ELSE [tick[p] EXCEPT !.at = "emit", !.prior = prior])
  /\ UNCHANGED <<log, graph, indexed, evolveCursor, summarizeCursor, excused, mishaps>>

\* emit_page: the page and the supersede of its predecessor are one append_pair
EmitPage(p) ==
  /\ At(p, "emit")
  /\ LET t == Head1(p)
     IN /\ log' = Append(log, Page(t, tick[p].facts, tick[p].prior))
        /\ Excuse(Cites(CurrentPage(t, Len(log))) \ tick[p].facts)
  /\ Go(p, Refreshed(p, [Dropped(p) EXCEPT !.changed = TRUE, !.facts = {}, !.prior = 0]))
  /\ UNCHANGED <<graph, indexed, evolveCursor, summarizeCursor, mishaps>>

-----------------------------------------------------------------------------
(* evolve_once *)

EvolveStart ==
  /\ At("evolve", "idle")
  /\ EnsureIndexed
  /\ Go("evolve", Extracted([Idle EXCEPT !.at = "extract", !.mark = evolveCursor,
                                         !.todo = FirstOf(Unprocessed, EvolveBatch),
                                         !.keys = (UNION {Linked(t, graph') : t \in Topics}) \cap Unprocessed]))
  /\ UNCHANGED <<log, evolveCursor, summarizeCursor, excused, mishaps>>

\* an edge that is already active is not asserted again
Extract ==
  /\ At("evolve", "extract")
  /\ LET m == Head1("evolve")
         new == m \notin tick["evolve"].keys
     IN /\ log' = IF new THEN Append(log, Link(log[m].topic, m)) ELSE log
        /\ Go("evolve", Extracted([Dropped("evolve") EXCEPT !.mark = m, !.changed = @ \/ new]))
  /\ UNCHANGED <<graph, indexed, evolveCursor, summarizeCursor, excused, mishaps>>

\* Mutant: the batch goes on past the memory that failed
ExtractFailsOn ==
  /\ At("evolve", "extract") /\ Mishap
  /\ Go("evolve", Extracted([Dropped("evolve") EXCEPT !.mark = Head1("evolve")]))
  /\ UNCHANGED <<log, graph, indexed, evolveCursor, summarizeCursor, excused>>

\* a failure of the model ends the batch before this memory
ExtractFails ==
  /\ At("evolve", "extract") /\ Mishap
  /\ Go("evolve", Extracted([tick["evolve"] EXCEPT !.todo = {}]))
  /\ UNCHANGED <<log, graph, indexed, evolveCursor, summarizeCursor, excused>>

\* the cursor is saved, and the topics past the other cursor are read
AdvanceEvolveCursor ==
  /\ At("evolve", "cursor")
  /\ evolveCursor' = tick["evolve"].mark
  /\ Go("evolve", Refreshed("evolve", [Idle EXCEPT !.todo = FirstOf(Dirty, SummaryBatch),
                                                   !.mark = Max(DirtyLinks \cup {summarizeCursor}),
                                                   !.drained = Cardinality(Dirty) <= SummaryBatch]))
  /\ UNCHANGED <<log, graph, indexed, summarizeCursor, excused, mishaps>>

SummarizeTopic ==
  /\ At("evolve", "topic") /\ Refresh("evolve")

\* Mutant: the cursor moves with topics left over
AdvanceUndrained ==
  /\ At("evolve", "settle")
  /\ summarizeCursor' = tick["evolve"].mark
  /\ Go("evolve", Rebuild(Idle, "idle"))
  /\ UNCHANGED <<log, graph, indexed, evolveCursor, excused, mishaps>>

\* only a drained set of topics moves the cursor; then the engine's own rebuild
AdvanceSummarizeCursor ==
  /\ At("evolve", "settle")
  /\ summarizeCursor' = IF tick["evolve"].drained THEN tick["evolve"].mark ELSE summarizeCursor
  /\ Go("evolve", Rebuild(Idle, "idle"))
  /\ UNCHANGED <<log, graph, indexed, evolveCursor, excused, mishaps>>

-----------------------------------------------------------------------------
(* refresh_stale_pages, within reflect_once *)

ReflectStart ==
  /\ At("reflect", "idle")
  /\ EnsureIndexed
  /\ LET pages == IF Gone = {} THEN {} ELSE {t \in Topics : CurrentPage(t, graph') # 0}
     IN Go("reflect", Refreshed("reflect", [Idle EXCEPT !.gone = Gone, !.todo = pages]))
  /\ UNCHANGED <<log, evolveCursor, summarizeCursor, excused, mishaps>>

StalePage(t) == Cites(CurrentPage(t, graph)) \cap tick["reflect"].gone # {}

PassPage ==
  /\ At("reflect", "topic") /\ ~StalePage(Head1("reflect"))
  /\ Go("reflect", Refreshed("reflect", Dropped("reflect")))
  /\ UNCHANGED <<log, graph, indexed, evolveCursor, summarizeCursor, excused, mishaps>>

RefreshPage ==
  /\ At("reflect", "topic") /\ StalePage(Head1("reflect"))
  /\ Refresh("reflect")

-----------------------------------------------------------------------------
EvolveStep ==
  \/ Extract \/ ExtractFails \/ AdvanceEvolveCursor
  \/ SummarizeTopic \/ AdvanceSummarizeCursor
  \/ Compare("evolve") \/ EmitPage("evolve") \/ RebuildRead("evolve") \/ RebuildWrite("evolve")

ReflectOn ==
  \/ PassPage \/ RefreshPage
  \/ Compare("reflect") \/ EmitPage("reflect") \/ RebuildRead("reflect") \/ RebuildWrite("reflect")

EvolveNext ==
  \/ \E t \in Topics : Remember(t)
  \/ \E m \in DOMAIN log : RetireMemory(m)
  \/ Crash
  \/ EvolveStart \/ EvolveStep \/ ReflectStart \/ ReflectOn

\* Both tickers come round every 300 s, and the calls a tick awaits return or fail: the
\* scheduler ticks while memories wait (decide_tick), the sweeper once none does
\* (decide_reflect).  Both are taken to be switched on, with a model that answers.  The
\* user's own evolve_now, and the floor on staleness, may start a tick at any time.
EvolveSpec ==
  /\ EvolveInit /\ [][EvolveNext]_evolveVars
  /\ WF_evolveVars((Unprocessed # {} /\ EvolveStart) \/ EvolveStep)
  /\ WF_evolveVars((Unprocessed = {} /\ ReflectStart) \/ ReflectOn)

\* More than the code gives: evolve ticks for ever, whether memories wait or not, as under
\* a user who never stops asking
TickingSpec == EvolveSpec /\ WF_evolveVars(EvolveStart \/ EvolveStep)

-----------------------------------------------------------------------------
(* Properties *)

\* A memory the evolve cursor has passed is in the graph's log (log.rs evolve_once):
\* a crash or a failing model between two memories makes the tick take it again.
NothingUnread ==
  \A m \in Of("memory") : m <= evolveCursor => m \in Linked(log[m].topic, Len(log))

\* A fact the summarize cursor has passed is in its topic's dossier, unless its memory is
\* retired or one of the windows of the code took it out: the model failed for the topic, the
\* topic's edges could not be read, the projection was behind the log when the facts were
\* gathered, or a page of the other tick, gathered before or from unread edges, was appended
\* after (log.rs emit_page's note on concurrency).
NoFactLeftOut ==
  \A k \in Of("link") :
    k <= summarizeCursor /\ log[k].source \notin Gone \cup excused
      => log[k].source \in Cites(CurrentPage(log[k].topic, Len(log)))

\* The topics a tick has no room for are summarised by a later one (extract.rs on
\* SUMMARY_BATCH), even if ticks never stop coming.
EventuallySummarized ==
  \A t \in Topics :
    []<>(Linked(t, Len(log)) \subseteq Cites(CurrentPage(t, Len(log))) \cup Gone \cup excused)

\* A page that cites a retired memory is composed again or has nothing left to cite,
\* whatever the races; only RefreshCap such pages of earlier topics keep it out of every
\* pass, since they are tried first and never heal (log.rs refresh_stale_pages).
Stale(t) == Cites(CurrentPage(t, Len(log))) \cap Gone # {}
Unhealable(t) == Stale(t) /\ Linked(t, Len(log)) \subseteq Gone
Crowded(t) == Cardinality({u \in Topics : u < t /\ Unhealable(u)}) >= RefreshCap

EventuallyHealed == \A t \in Topics : []<>(~Stale(t) \/ Unhealable(t) \/ Crowded(t))

=============================================================================
