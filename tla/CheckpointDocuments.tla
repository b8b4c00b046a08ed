------------------------- MODULE CheckpointDocuments -------------------------
(***************************************************************************)
(* The documents the API computes from stored checkpoints, and the two     *)
(* readers that must accept every one of them: the response schema of the  *)
(* server, whose refusal is an HTTP 500, and the decoder of the browser,   *)
(* which repeats the schema's checks and adds its own.                     *)
(*                                                                         *)
(*   services/wallet_cases.py, services/wallet_case_stream_checkpoints.py  *)
(*                                              the builders               *)
(*   wallet_case_schemas.py                     the schemas (Schema...)    *)
(*   frontend walletCaseStreamCheckpoint.ts     the decoders (Decodes...)  *)
(*                                                                         *)
(* A document keeps the fields its readers compare.  A content address is  *)
(* the value it addresses, so a schema's recomputed hash is equality of    *)
(* values; shapes, lengths and formats of texts are left out, and so are   *)
(* the bounds on streams (32) and revisions (3200), which MaxDepth implies. *)
(***************************************************************************)
EXTENDS CheckpointBackfill

ResumeStates == {"ready", "complete", "blocked"}

(* The account names of one walk: account_events sorts before transactions. *)
InOrder(S) == SetToSortSeq(S, LAMBDA s, t : s = "account_events" /\ t = "transactions")

SumOf(docs, Field(_)) == FoldSeq(LAMBDA d, sum : sum + Field(d), 0, docs)
HowMany(docs, Holds(_)) == Cardinality({i \in 1..Len(docs) : Holds(docs[i])})

-----------------------------------------------------------------------------
(* Checkpoints.                                                             *)

(* Rows of a successful page: the prefix of the rows below its cursor.      *)
PageRows(s, p) ==
  {lt \in Selected(s, p.request) : p.response # NULL /\ lt >= p.response}

Oldest(rows) == IF rows = {} THEN NULL ELSE At[Min(rows)]

(* Mutant: the last page, whether it succeeded or not.                      *)
LastPageOfAnyKind(n, s) ==
  LET e == Checkpoint(n, s)
      p == e.pages[Len(e.pages)]
  IN  [index |-> p.index, cursor |-> p.response, fetched |-> n, oldest |-> Oldest(PageRows(s, p))]

(* _last_page_record: number, cursor, time bounds, and who fetched it when. *)
LastPage(n, s) ==
  LET e == Checkpoint(n, s)
  IN  IF GoodAt(e) = {} THEN NULL
      ELSE [index |-> LastGood(e).index, cursor |-> LastGood(e).response, fetched |-> n,
            oldest |-> Oldest(PageRows(s, LastGood(e)))]

Blocker(e) ==
  CASE e.termination = "provider_event_in_progress" -> "provider_event_in_progress"
    [] e.termination = "protocol_error" -> "provider_protocol_error"
    [] GoodAt(e) = {} -> "no_successful_page"
    [] e.cursor = NULL -> "continuation_cursor_unavailable"
    [] LastGood(e).response # e.cursor -> "continuation_cursor_unverified"
    [] OTHER -> "termination_not_resumable"

Mode(n) == IF syncs[n].kind = "full" THEN "bounded" ELSE "resume"

CheckpointDocument(n, s) ==
  LET document(e, state) ==
      [id |-> <<n, s>>, sync |-> n, stream |-> s, mode |-> Mode(n),
       termination |-> e.termination, pages |-> PageCount(e), good |-> GoodCount(e),
       state |-> state, blocker |-> IF state = "blocked" THEN Blocker(e) ELSE NULL,
       cursor |-> IF state = "ready" THEN e.cursor ELSE NULL,
       next |-> IF state = "ready" THEN ContinuationIndex(e) ELSE NULL,
       last |-> LastPage(n, s)]
  IN  document(Checkpoint(n, s), StateOf(n, s))

SchemaCheckpoint(d) ==
  /\ d.state = "ready" <=> d.cursor # NULL
  /\ d.state = "ready" <=> d.next # NULL
  /\ d.next # NULL => d.next >= 1
  /\ d.state = "blocked" <=> d.blocker # NULL
  /\ d.good <= d.pages

DecodesCheckpoint(d) ==
  /\ SchemaCheckpoint(d)
  /\ d.good = 0 <=> d.last = NULL
  /\ d.state = "ready" => d.last.cursor = d.cursor /\ d.next = d.last.index + 1

(* list_stream_checkpoints: the tips, with a count of every state.          *)
Catalog(tips) ==
  LET rows == [i \in 1..Cardinality(Present(tips)) |->
                 CheckpointDocument(tips[InOrder(Present(tips))[i]], InOrder(Present(tips))[i])]
  IN  [count |-> Cardinality(Present(tips)),
       states |-> [state \in ResumeStates |-> Cardinality(InState(tips, state))],
       rows |-> rows]

SchemaCatalog(d) ==
  /\ d.count = Len(d.rows)
  /\ d.count = d.states["ready"] + d.states["complete"] + d.states["blocked"]

DecodesCatalog(d) ==
  /\ SchemaCatalog(d)
  /\ \A state \in ResumeStates :
       d.states[state] = HowMany(d.rows, LAMBDA row : row.state = state)
  /\ \A i \in 1..Len(d.rows) : DecodesCheckpoint(d.rows[i])
  /\ [i \in 1..Len(d.rows) |-> d.rows[i].stream] = InOrder({d.rows[i].stream : i \in 1..Len(d.rows)})

(* _stream_checkpoint_lineage of a checkpoint's detail.                     *)
Lineage(n, s) ==
  [mode |-> Mode(n), base |-> IF syncs[n].source = 0 THEN NULL ELSE syncs[n].source,
   parent |-> IF syncs[n].source = 0 THEN NULL ELSE <<syncs[n].source, s>>,
   depth |-> Len(Chain(n)) - 1]

SchemaLineage(d) ==
  IF d.mode = "bounded" THEN d.base = NULL /\ d.parent = NULL /\ d.depth = 0
  ELSE d.base # NULL /\ d.parent # NULL /\ d.depth >= 1

DecodesDetail(checkpoint, lineage) ==
  DecodesCheckpoint(checkpoint) /\ SchemaLineage(lineage) /\ lineage.mode = checkpoint.mode

-----------------------------------------------------------------------------
(* Chains.                                                                  *)

(* _stream_checkpoint_chain_response: the revisions, root first.            *)
ChainDocument(n, s) ==
  LET chain == Chain(n)
      tip == CheckpointDocument(n, s)
  IN  [tip |-> <<n, s>>, stream |-> s, rootMode |-> Mode(chain[1]), rootBase |-> NULL,
       state |-> tip.state, next |-> tip.next,
       pages |-> SumOver(chain, s, PageCount), good |-> SumOver(chain, s, GoodCount),
       revisions |-> [i \in 1..Len(chain) |->
                        [checkpoint |-> CheckpointDocument(chain[i], s),
                         lineage |-> Lineage(chain[i], s)]]]

SchemaChain(d) ==
  LET root == d.revisions[1]
      tip == d.revisions[Len(d.revisions)]
  IN  /\ Len(d.revisions) \in 1..MaxDepth
      /\ d.pages = SumOf(d.revisions, LAMBDA r : r.checkpoint.pages)
      /\ d.good = SumOf(d.revisions, LAMBDA r : r.checkpoint.good)
      /\ d.good <= d.pages
      /\ root.lineage.mode = d.rootMode /\ root.lineage.base = d.rootBase
      /\ root.lineage.parent = NULL /\ (d.rootMode = "bounded" <=> d.rootBase = NULL)
      /\ tip.checkpoint.id = d.tip /\ tip.checkpoint.state = d.state
      /\ tip.checkpoint.next = d.next
      /\ \A i \in 1..Len(d.revisions) :
           LET r == d.revisions[i]
           IN  /\ r.checkpoint.good <= r.checkpoint.pages
               /\ r.checkpoint.state = "ready" <=> r.checkpoint.next # NULL
               /\ r.checkpoint.stream = d.stream
               /\ i > 1 => /\ r.lineage.mode = "resume"
                           /\ r.lineage.parent = d.revisions[i - 1].checkpoint.id
                           /\ r.lineage.base = d.revisions[i - 1].checkpoint.sync

DecodesChain(d) == SchemaChain(d) /\ (d.state = "ready" <=> d.next # NULL)

-----------------------------------------------------------------------------
(* Progress and plans: one entry per stream, and their sums.                *)

Frontier(n, s) ==
  IF LastPage(n, s) = NULL THEN NULL ELSE [checkpoint |-> <<n, s>>, page |-> LastPage(n, s)]

(* _backfill_progress_response of one stream.                               *)
ProgressStream(tips, s) ==
  LET document(chain, p, root, tip, rootFrontier, current) ==
      [stream |-> s, tip |-> tip.id, chain |-> chain, root |-> root.id, revisions |-> p.revisions,
       initialPages |-> root.pages, initialGood |-> root.good,
       continuations |-> p.continuations, continuationPages |-> p.continuationPages,
       continuationGood |-> p.continuationGood, pages |-> p.pages, good |-> p.good,
       state |-> tip.state, next |-> tip.next, termination |-> tip.termination,
       blocker |-> tip.blocker, intervalComplete |-> tip.state = "complete",
       rootFrontier |-> rootFrontier, frontier |-> current,
       advanced |-> /\ rootFrontier # NULL /\ current # NULL
                    /\ rootFrontier.page # current.page]
      from(chain, p) ==
        document(chain, p, CheckpointDocument(chain[1], s), CheckpointDocument(tips[s], s),
                 Frontier(chain[1], s),
                 IF p.frontier = NULL THEN NULL ELSE Frontier(p.frontier[1], s))
  IN  from(Chain(tips[s]), Progress(tips, s))

SchemaProgressStream(d) ==
  /\ d.revisions \in 1..MaxDepth /\ d.revisions = d.continuations + 1
  /\ d.initialGood <= d.initialPages /\ d.continuationGood <= d.continuationPages
  /\ d.pages = d.initialPages + d.continuationPages
  /\ d.good = d.initialGood + d.continuationGood /\ d.good <= d.pages
  /\ d.intervalComplete <=> d.state = "complete"
  /\ d.state = "ready" <=> d.next # NULL
  /\ d.state = "blocked" <=> d.blocker # NULL
  /\ d.rootFrontier = NULL <=> d.initialGood = 0
  /\ d.frontier = NULL <=> d.good = 0
  /\ d.rootFrontier # NULL => d.rootFrontier.checkpoint = d.root
  /\ d.advanced <=> /\ d.rootFrontier # NULL /\ d.frontier # NULL
                    /\ d.rootFrontier.page # d.frontier.page

Aggregate(streams) ==
  [streams |-> Len(streams),
   states |-> [state \in ResumeStates |-> HowMany(streams, LAMBDA d : d.state = state)],
   revisions |-> SumOf(streams, LAMBDA d : d.revisions),
   continuations |-> SumOf(streams, LAMBDA d : d.continuations),
   pages |-> SumOf(streams, LAMBDA d : d.pages), good |-> SumOf(streams, LAMBDA d : d.good),
   continuationPages |-> SumOf(streams, LAMBDA d : d.continuationPages),
   continuationGood |-> SumOf(streams, LAMBDA d : d.continuationGood),
   observed |-> HowMany(streams, LAMBDA d : d.frontier # NULL),
   advanced |-> HowMany(streams, LAMBDA d : d.advanced)]

CutoffId(tips) ==
  IF Present(tips) = {} THEN NULL
  ELSE <<Cutoff(tips), CHOOSE s \in Present(tips) : tips[s] = Cutoff(tips)>>

ProgressDocument(tips) ==
  LET document(streams) ==
        [cutoff |-> CutoffId(tips), aggregate |-> Aggregate(streams), streams |-> streams]
  IN  document([i \in 1..Cardinality(Present(tips)) |->
                  ProgressStream(tips, InOrder(Present(tips))[i])])

(* The schema of the document and of the descriptor that repeats its sums.  *)
SchemaProgress(d) ==
  LET names == [i \in 1..Len(d.streams) |-> d.streams[i].stream]
  IN  /\ \A i \in 1..Len(d.streams) : SchemaProgressStream(d.streams[i])
      /\ d.aggregate = Aggregate(d.streams)
      /\ names = InOrder({names[i] : i \in 1..Len(names)})
      /\ d.cutoff = NULL <=> d.streams = <<>>
      /\ d.cutoff # NULL => \E i \in 1..Len(d.streams) : d.streams[i].tip = d.cutoff

DecodesProgressAggregate(a) ==
  /\ a.advanced <= a.observed /\ a.good <= a.pages
  /\ a.continuationGood <= a.continuationPages
  /\ a.streams = a.states["ready"] + a.states["complete"] + a.states["blocked"]

DecodesProgress(d) ==
  /\ DecodesProgressAggregate(d.aggregate)
  /\ \A i \in 1..Len(d.streams) : d.streams[i].next # NULL => d.streams[i].next >= 1
  /\ SchemaProgress(d)

(* _checkpoint_continuation_plan_response: the same tips without frontiers. *)
PlanStream(tips, s) ==
  LET document(d) ==
        [stream |-> s, tip |-> d.tip, chain |-> d.chain, revisions |-> d.revisions,
         pages |-> d.pages, good |-> d.good, state |-> d.state, next |-> d.next,
         blocker |-> d.blocker]
  IN  document(ProgressStream(tips, s))

PlanAggregate(streams) ==
  [streams |-> Len(streams),
   states |-> [state \in ResumeStates |-> HowMany(streams, LAMBDA d : d.state = state)],
   revisions |-> SumOf(streams, LAMBDA d : d.revisions),
   pages |-> SumOf(streams, LAMBDA d : d.pages), good |-> SumOf(streams, LAMBDA d : d.good)]

PlanDocument(tips) ==
  LET document(streams) ==
        [cutoff |-> CutoffId(tips), aggregate |-> PlanAggregate(streams), streams |-> streams]
  IN  document([i \in 1..Cardinality(Present(tips)) |->
                  PlanStream(tips, InOrder(Present(tips))[i])])

SchemaPlanStream(d) ==
  /\ d.revisions \in 1..MaxDepth /\ d.good <= d.pages
  /\ d.state = "ready" <=> d.next # NULL
  /\ d.state = "blocked" <=> d.blocker # NULL

SchemaPlan(d) ==
  LET names == [i \in 1..Len(d.streams) |-> d.streams[i].stream]
  IN  /\ \A i \in 1..Len(d.streams) : SchemaPlanStream(d.streams[i])
      /\ d.aggregate = PlanAggregate(d.streams)
      /\ d.aggregate.streams = d.aggregate.states["ready"] + d.aggregate.states["complete"]
                               + d.aggregate.states["blocked"]
      /\ d.aggregate.good <= d.aggregate.pages
      /\ names = InOrder({names[i] : i \in 1..Len(names)})
      /\ d.cutoff = NULL <=> d.streams = <<>>
      /\ d.cutoff # NULL => \E i \in 1..Len(d.streams) : d.streams[i].tip = d.cutoff

DecodesPlan(d) ==
  /\ SchemaPlan(d)
  /\ \A i \in 1..Len(d.streams) : d.streams[i].next # NULL => d.streams[i].next >= 1

-----------------------------------------------------------------------------
(* Schedules.                                                               *)

ScheduleDocument(doc) ==
  LET selection(d) ==
        [stream |-> d.stream, checkpoint |-> d.tip, revisions |-> d.continuations,
         pages |-> d.continuationPages, next |-> d.next]
      document(state, chosen) ==
      [progress |-> ProgressDocument(doc.tips), plan |-> PlanDocument(doc.tips),
       cutoff |-> CutoffId(doc.tips), budget |-> doc.budget, state |-> state,
       streams |-> Cardinality(Present(doc.tips)),
       states |-> [r \in ResumeStates |-> Cardinality(InState(doc.tips, r))],
       active |-> IF doc.active = 0 THEN NULL ELSE doc.active,
       selection |-> IF state # "ready" THEN NULL
                     ELSE selection(ProgressStream(doc.tips, chosen))]
  IN  document(ScheduleState(doc), Selection(doc.tips))

SchemaSchedule(d) ==
  /\ d.budget \in 1..10
  /\ d.streams = d.states["ready"] + d.states["complete"] + d.states["blocked"]
  /\ d.state = "backpressured" <=> d.active # NULL
  /\ d.state = "ready" <=> d.selection # NULL
  /\ CASE d.state = "ready" -> d.states["ready"] > 0
       [] d.state = "empty" -> d.streams = 0
       [] d.state = "complete" -> d.streams > 0 /\ d.states["ready"] = 0 /\ d.states["blocked"] = 0
       [] d.state = "blocked" -> d.states["ready"] = 0 /\ d.states["blocked"] > 0
       [] OTHER -> TRUE
  /\ d.selection # NULL => d.selection.revisions \in 0..MaxDepth - 1 /\ d.selection.next >= 1

(* The decoder also compares the selection with the descriptor and with the *)
(* progress and plan ids, whose values the document carries here.           *)
DecodesSchedule(d) ==
  /\ SchemaSchedule(d) /\ d.progress.cutoff = d.cutoff /\ d.plan.cutoff = d.cutoff
  /\ d.selection # NULL => d.selection.next # NULL

-----------------------------------------------------------------------------
(* The Observed History Floor, the anchor and the gate.                     *)

(* _observed_history_floor_response: the frontier page of every stream.     *)
FloorDocument(tips) ==
  LET stream(d) ==
        [stream |-> d.stream, intervalComplete |-> d.intervalComplete,
         terminal |-> d.termination = "provider_terminal",
         page |-> IF d.frontier = NULL THEN NULL ELSE d.frontier.page]
      times(streams) == {streams[i].page.oldest : i \in {j \in 1..Len(streams) :
                           streams[j].page # NULL /\ streams[j].page.oldest # NULL}}
      document(progress, streams, observed, terminal, oldest) ==
      [progress |-> progress, streams |-> streams, observed |-> observed, terminal |-> terminal,
       timestamped |-> HowMany(streams, LAMBDA d : d.page # NULL /\ d.page.oldest # NULL),
       earliest |-> IF oldest = {} THEN NULL ELSE Min(oldest),
       state |-> IF streams = <<>> THEN "empty"
                 ELSE IF observed < Len(streams) THEN "partially_observed"
                 ELSE IF terminal = Len(streams) THEN "provider_terminal_observed"
                 ELSE "observed"]
      counted(progress, streams) ==
        document(progress, streams, HowMany(streams, LAMBDA d : d.page # NULL),
                 HowMany(streams, LAMBDA d : d.terminal), times(streams))
      from(progress) ==
        counted(progress, [i \in 1..Len(progress.streams) |-> stream(progress.streams[i])])
  IN  from(ProgressDocument(tips))

SchemaFloor(d) ==
  /\ Len(d.streams) = Len(d.progress.streams)
  /\ \A i \in 1..Len(d.streams) :
       LET p == d.progress.streams[i]
       IN  /\ d.streams[i].stream = p.stream
           /\ d.streams[i].intervalComplete = p.intervalComplete
           /\ d.streams[i].terminal <=> p.termination = "provider_terminal"
           /\ d.streams[i].page = IF p.frontier = NULL THEN NULL ELSE p.frontier.page
  /\ d.state = "empty" <=> d.streams = <<>>
  /\ d.state = "partially_observed" <=> d.observed < Len(d.streams)
  /\ d.state = "provider_terminal_observed" =>
       d.terminal = Len(d.streams) /\ d.observed = Len(d.streams)

DecodesFloor(d) ==
  /\ DecodesProgress(d.progress) /\ SchemaFloor(d)
  /\ d.observed <= Len(d.streams) /\ d.timestamped <= d.observed /\ d.terminal <= Len(d.streams)

(* get_earliest_activity_anchor.  Which candidate the Activity snapshot and *)
(* which proof the evidence jobs provide is chosen by the caller here.      *)
AnchorDocument(floor, environment, candidate, proof) ==
  LET used == IF environment = "live" /\ candidate # NULL THEN proof ELSE NULL
      state == IF environment # "live" THEN "ineligible"
               ELSE IF candidate = NULL THEN "empty"
               ELSE IF used = NULL THEN "verification_required"
               ELSE IF used.predecessor = 0 THEN "verified" ELSE "predecessor_present"
  IN  [floor |-> floor, environment |-> environment, candidate |-> candidate,
       proof |-> used, state |-> state, established |-> state = "verified"]

SchemaAnchor(d) ==
  /\ d.proof # NULL => /\ d.candidate # NULL /\ d.environment = "live"
                       /\ d.proof.lt = d.candidate /\ d.proof.predecessor < d.proof.lt
  /\ d.established <=> d.proof # NULL /\ d.proof.predecessor = 0
  /\ d.state = "ineligible" <=> d.environment # "live"

DecodesAnchor(d) == DecodesFloor(d.floor) /\ SchemaAnchor(d)

(* get_complete_history_gate: six checks, the last of them always unmet.    *)
GateChecks(d) ==
  LET streams == d.floor.progress.streams
      all(Holds(_)) == streams # <<>> /\ HowMany(streams, Holds) = Len(streams)
  IN  <<d.environment = "live", streams # <<>>,
        all(LAMBDA s : s.intervalComplete), all(LAMBDA s : s.termination = "provider_terminal"),
        d.established, FALSE>>

GateDocument(anchor) ==
  [anchor |-> anchor, checks |-> GateChecks(anchor),
   satisfied |-> HowMany(GateChecks(anchor), LAMBDA c : c), complete |-> FALSE]

SchemaGate(d) ==
  /\ Len(d.checks) = 6 /\ d.checks = GateChecks(d.anchor)
  /\ d.satisfied = HowMany(d.checks, LAMBDA c : c) /\ d.satisfied < 6 /\ ~ d.complete

DecodesGate(d) == DecodesAnchor(d.anchor) /\ SchemaGate(d)

-----------------------------------------------------------------------------
(* Receipts and outcomes.                                                   *)

Entry(d, s) == d.streams[CHOOSE i \in 1..Len(d.streams) : d.streams[i].stream = s]

(* The plan as it was right after sync n published.                         *)
PlanAfter(n) == PlanDocument(TipsAt(n))

(* get_checkpoint_continuation_receipt: version 2 has a budget, version 3   *)
(* the schedule; a plan-bound request of this model always has a budget.    *)
ReceiptDocument(n) ==
  LET job == syncs[n]
      s == job.stream
      document(before, after) ==
      [version |-> IF job.kind = "schedule" THEN 3 ELSE 2, sync |-> n, stream |-> s,
       plan |-> job.doc.tips, schedule |-> IF job.kind = "schedule" THEN job.doc ELSE NULL,
       input |-> [checkpoint |-> before.tip, state |-> before.state, next |-> before.next,
                  revisions |-> Len(before.revisions), pages |-> before.pages, good |-> before.good],
       output |-> [checkpoint |-> after.tip, state |-> after.state, next |-> after.next,
                   revisions |-> Len(after.revisions), pages |-> after.pages, good |-> after.good],
       afterTips |-> TipsAt(n), afterPlan |-> PlanAfter(n), budget |-> job.doc.budget,
       revisionDelta |-> Len(after.revisions) - Len(before.revisions),
       pageDelta |-> after.pages - before.pages, goodDelta |-> after.good - before.good]
  IN  document(ChainDocument(job.source, s), ChainDocument(n, s))

SchemaReceiptInput(d) ==
  /\ d.input.state = "ready" /\ d.input.next # NULL /\ d.input.next >= 1
  /\ d.input.revisions \in 1..MaxDepth - 1 /\ d.input.good <= d.input.pages

SchemaReceiptOutput(d) ==
  /\ d.output.revisions \in 2..MaxDepth /\ d.output.good <= d.output.pages
  /\ d.output.state = "ready" <=> d.output.next # NULL

SchemaReceipt(d) ==
  LET s == Entry(d.afterPlan, d.stream)
  IN  /\ d.output.checkpoint[1] = d.sync /\ d.input.checkpoint # d.output.checkpoint
      /\ d.plan # d.afterTips
      /\ d.output.revisions = d.input.revisions + 1 /\ d.revisionDelta = 1
      /\ d.pageDelta = d.output.pages - d.input.pages /\ d.pageDelta >= 0
      /\ d.goodDelta = d.output.good - d.input.good /\ d.goodDelta >= 0
      /\ s.tip = d.output.checkpoint /\ s.revisions = d.output.revisions
      /\ s.pages = d.output.pages /\ s.good = d.output.good
      /\ s.state = d.output.state /\ s.next = d.output.next

(* Versions 2 and 3: pages consumed and remaining add up to the budget.     *)
SchemaReceiptBudget(d) ==
  /\ d.budget \in 1..10 /\ d.pageDelta \in 0..d.budget /\ d.goodDelta <= d.pageDelta
  /\ d.version = 3 <=> d.schedule # NULL

DecodesReceipt(d) ==
  /\ SchemaReceiptInput(d) /\ SchemaReceiptOutput(d) /\ DecodesPlan(d.afterPlan)
  /\ SchemaReceipt(d) /\ SchemaReceiptBudget(d)

(* get_backfill_outcome: the progress before, the receipt, the progress     *)
(* after, and what changed.                                                 *)
OutcomeDocument(n) ==
  LET job == syncs[n]
      schedule == [tips |-> TipsAt(Cutoff(job.doc.tips)), active |-> 0, budget |-> job.doc.budget]
      document(before, after, state, good) ==
      LET delta(Field(_)) == Field(after.aggregate) - Field(before.aggregate)
      IN
      [sync |-> n, schedule |-> ScheduleDocument(schedule), accepted |-> schedule,
       before |-> before, receipt |-> ReceiptDocument(n), after |-> after,
       beforeState |-> Entry(before, job.stream).state, afterState |-> state,
       revisions |-> delta(LAMBDA a : a.revisions), pages |-> delta(LAMBDA a : a.pages),
       good |-> good, continuations |-> delta(LAMBDA a : a.continuations),
       continuationPages |-> delta(LAMBDA a : a.continuationPages),
       continuationGood |-> delta(LAMBDA a : a.continuationGood),
       changed |-> Entry(before, job.stream).frontier # Entry(after, job.stream).frontier,
       outcome |-> CASE state = "complete" -> "completed" [] state = "blocked" -> "blocked"
                     [] good > 0 -> "advanced" [] OTHER -> "no_progress"]
      between(before, after) ==
        document(before, after, Entry(after, job.stream).state,
                 after.aggregate.good - before.aggregate.good)
  IN  between(ProgressDocument(schedule.tips), ProgressDocument(TipsAt(n)))

SchemaOutcome(d) ==
  LET chosen == d.schedule.selection
  IN  /\ d.schedule.state = "ready" /\ d.beforeState = "ready"
      /\ d.revisions = 1 /\ d.continuations = 1
      /\ d.pages \in 0..10 /\ d.good \in 0..10
      /\ d.continuationPages \in 0..10 /\ d.continuationGood \in 0..10
      /\ chosen.stream = d.receipt.stream /\ chosen.checkpoint = d.receipt.input.checkpoint
      /\ d.schedule.progress = d.before /\ d.schedule.cutoff = d.before.cutoff
      /\ d.receipt.schedule = d.accepted /\ d.receipt.output.checkpoint = d.after.cutoff
      /\ d.receipt.pageDelta = d.pages /\ d.receipt.goodDelta = d.good

DecodesOutcome(d) ==
  /\ DecodesSchedule(d.schedule) /\ DecodesProgress(d.before) /\ DecodesProgress(d.after)
  /\ DecodesReceipt(d.receipt) /\ d.receipt.version = 3
  /\ SchemaOutcome(d)
  /\ d.good <= d.pages /\ d.continuationPages = d.pages /\ d.continuationGood = d.good
  /\ d.before # d.after

-----------------------------------------------------------------------------
(* Properties.                                                              *)

(* The documents are functions of what syncs have published, and of the     *)
(* active job in the schedule, so they are examined where no request or     *)
(* acquisition is under way, and all but the schedule where the last job    *)
(* has published: every published history is seen in such a state.          *)
AtRest == acq.at = "idle" /\ \A h \in Handlers : handler[h].at = "idle"
Settled == AtRest /\ \A n \in Ids : n = Len(syncs) => syncs[n].out # NoOutput

(* Every stored checkpoint of a case is served: its record, its lineage and *)
(* the chain behind it pass the schema and the browser's decoder, whatever  *)
(* failed, was retried or was resumed on the way to it.                     *)
StoredCheckpointsAreServed ==
  Settled => \A s \in Streams : \A n \in Published(s) :
    Len(Chain(n)) <= MaxDepth =>
      /\ DecodesDetail(CheckpointDocument(n, s), Lineage(n, s))
      /\ DecodesChain(ChainDocument(n, s))

(* The anchors the evidence can support: none outside the live environment; *)
(* else for the earliest accepted row no proof, a proof without predecessor *)
(* or one that names a predecessor.                                         *)
Anchors(floor) ==
  LET rows == IF "transactions" \in Streams
                THEN UNION {Checkpoint(n, "transactions").accepted : n \in Published("transactions")}
                ELSE {}
      candidate == IF rows = {} THEN NULL ELSE Min(rows)
      proofs == IF rows = {} THEN {NULL}
                ELSE {NULL} \cup {[lt |-> candidate, predecessor |-> p] : p \in 0..candidate - 1}
  IN  {AnchorDocument(floor, "demo", candidate, NULL)}
      \cup {AnchorDocument(floor, "live", candidate, proof) : proof \in proofs}

(* The case's current documents are served too: the catalog, the progress,  *)
(* the plan, the schedule of every budget, the floor, and for every anchor  *)
(* the stored evidence can support the gate, which never unlocks.           *)
CurrentDocumentsAreServed ==
  LET tips == CurrentTips
  IN  /\ Settled /\ ~ TooDeep(tips) =>
           /\ DecodesCatalog(Catalog(tips)) /\ DecodesProgress(ProgressDocument(tips))
           /\ DecodesPlan(PlanDocument(tips))
           /\ \A anchor \in Anchors(FloorDocument(tips)) : DecodesGate(GateDocument(anchor))
      /\ AtRest /\ ~ TooDeep(tips) => \A b \in Budgets :
           DecodesSchedule(ScheduleDocument([tips |-> tips, active |-> ActiveSync, budget |-> b]))

(* What the server still reproduces of a published continuation, its        *)
(* receipt and its outcome, the browser accepts; and an outcome is never    *)
(* empty-handed: one page at least was read, so "no_progress" is not seen.  *)
ReproducedDocumentsAreServed ==
  Settled => \A n \in Ids :
    /\ HasReceipt(n) /\ ReceiptHolds(n) => DecodesReceipt(ReceiptDocument(n))
    /\ HasOutcome(n) /\ OutcomeHolds(n) =>
         \A d \in {OutcomeDocument(n)} : DecodesOutcome(d) /\ d.outcome # "no_progress"

(* The three together: no stored history makes the server build a document  *)
(* that its own schema or the browser refuses.                              *)
DocumentsAreServed ==
  StoredCheckpointsAreServed /\ CurrentDocumentsAreServed /\ ReproducedDocumentsAreServed
=============================================================================
