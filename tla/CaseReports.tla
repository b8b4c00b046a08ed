---------------------------- MODULE CaseReports ----------------------------
(* The report of one Wallet Case and its stored revisions.  A report joins  *)
(* the Activity of a pinned snapshot (CaseActivity) with the newest         *)
(* attempts to verify its transactions, in three reads that share no        *)
(* transaction; it is named by its content and stored on demand.            *)
(* An attempt moves as CaseEvidenceJobs describes; here only what a reader  *)
(* sees of it is kept.  A digest is the value it was computed from.         *)
EXTENDS CaseActivity

CONSTANTS Readers,           (* HTTP requests in flight                     *)
          AttemptLimit,      (* CATALOG_LIMIT                               *)
          RevisionLimit,     (* the limit a reader of the catalog asks for  *)
          EarlierAttempts,   (* bound: attempts made before                 *)
          Glimpses,          (* bound: the states a reader may see          *)
          MaxAttempts, MaxVersion, MaxRevisions   (* bounds                 *)

Stages == 4
NoProgress == 0
States == {"queued", "running", "partial", "succeeded", "failed", "cancelled"}

AttemptRow ==
  [snapshot : Nat, activity : Nat, row : Nat \X Nat,
   semantic : [kind : Kinds, time : Nat \cup {NoTime}, value : STRING],
   state : States, progress : 0..Stages, version : Nat, cancel : BOOLEAN]

(* The CHECK constraints on a stored attempt.                               *)
Consistent(a) ==
  /\ a.state = "failed" => a.progress = NoProgress
  /\ a.state = "partial" => a.progress > NoProgress
  /\ a.state = "succeeded" => a.progress = Stages
  /\ a.state = "running" \/ (a.cancel <=> a.state = "cancelled")

ASSUME ReportAssumption ==
  /\ RevisionLimit \in Nat \ {0} /\ AttemptLimit \in Nat
  /\ \A g \in Glimpses : g \in [state : States, progress : 0..Stages, cancel : BOOLEAN]
  /\ \A earlier \in EarlierAttempts :
       earlier \in Seq(AttemptRow) /\ \A n \in 1..Len(earlier) : Consistent(earlier[n])

VARIABLES attempts,          (* wallet_case_evidence_verifications, by id   *)
          revisions,         (* wallet_case_report_revisions, by id         *)
          building,          (* per request: what it has read so far        *)
          history,           (* one traversal of the stored revisions       *)
          deleted            (* the case and all its rows are gone          *)

reportVars == <<attempts, revisions, building, history, deleted>>

CaseIsLive == ~ archived /\ ~ deleted

-----------------------------------------------------------------------------
(* Attempts to verify a transaction of a snapshot.                          *)

Pending(a) == a.state \in {"queued", "running"}

Attempt(s, v) == [snapshot |-> s, activity |-> v.id, row |-> v.row, semantic |-> v.semantic,
                  state |-> "queued", progress |-> NoProgress, version |-> 1, cancel |-> FALSE]

(* What a reader may see of an attempt next, any number of steps of the     *)
(* worker later.  Proofs are kept by a retry, a cancellation and a partial  *)
(* end, and a stage may still be bound after an accepted cancellation; a    *)
(* failure has none, even then.                                             *)
Follows(a, g) ==
  \/ g.state = "failed" /\ g.progress = NoProgress /\ ~ g.cancel
  \/ /\ g.progress >= a.progress /\ (a.cancel => g.cancel)
     /\ \/ g.state \in {"cancelled", "running"} /\ g.cancel
        \/ g.state \in {"queued", "running"} /\ ~ g.cancel
        \/ g.state = "partial" /\ g.progress > NoProgress /\ ~ g.cancel
        \/ g.state = "succeeded" /\ g.progress = Stages /\ ~ g.cancel

Successors(a) ==
  {[a EXCEPT !.state = g.state, !.progress = g.progress, !.cancel = g.cancel, !.version = @ + 1] :
     g \in {g \in Glimpses : Follows(a, g)}}

RequestVerificationAt(s) ==
  /\ CaseIsLive /\ Len(attempts) < MaxAttempts
  /\ \E v \in IF Answerable(s, NoFilter) THEN Verifiable(s) ELSE {} :
       /\ \A n \in 1..Len(attempts) :
            attempts[n].snapshot = s /\ attempts[n].activity = v.id => ~ Pending(attempts[n])
       /\ attempts' = Append(attempts, Attempt(s, v))
  /\ UNCHANGED <<activityVars, revisions, building, history, deleted>>
RequestVerification == \E s \in Usable : RequestVerificationAt(s)

AdvanceAttempt ==
  /\ \E n \in 1..Len(attempts) : \E a \in Successors(attempts[n]) :
       /\ Pending(attempts[n]) /\ attempts[n].version < MaxVersion
       /\ attempts' = [attempts EXCEPT ![n] = a]
  /\ UNCHANGED <<activityVars, revisions, building, history, deleted>>

-----------------------------------------------------------------------------
(* The attempts a report lists.                                             *)

AttemptsOf(s) == {n \in 1..Len(attempts) : attempts[n].snapshot = s}

Listed(n, a) ==
  [id |-> n, activity |-> a.activity, row |-> a.row, semantic |-> a.semantic, state |-> a.state,
   progress |-> a.progress, version |-> a.version, cancel |-> a.cancel]

(* The newest attempts of a snapshot, each with its id.                     *)
NewestAttempts(s) ==
  {Listed(n, attempts[n]) : n \in {n \in AttemptsOf(s) : Cardinality({m \in AttemptsOf(s) : m > n}) < AttemptLimit}}

Binding(a) == [id |-> a.activity, row |-> a.row, semantic |-> a.semantic]

(* Every attempt must still be bound to the transaction that the snapshot   *)
(* publishes under its id, and its state must fit its proofs.               *)
StoredConflict(s, rows) ==
  rows # {} /\ ~ {Binding(row) : row \in rows} \subseteq Verifiable(s)

Level(row) ==
  IF row.progress >= 3 THEN "chain_inclusion_proven"
  ELSE IF row.progress = 2 THEN "locally_verified" ELSE "normalized"

Stronger(a, b) ==
  \/ a.progress > b.progress
  \/ a.progress = b.progress /\ (a.version > b.version \/ (a.version = b.version /\ a.id > b.id))

(* Mutant: every attempt counts, not one for each activity.                 *)
AllAttempts(rows) == rows

StrongestAttempts(rows) ==
  {a \in rows : \A b \in rows \ {a} : b.activity = a.activity => Stronger(a, b)}

Proven(rows, progress) == Cardinality({a \in StrongestAttempts(rows) : a.progress >= progress})

EvidenceRevision(rows, total) ==
  [attempts |-> {[id |-> a.id, activity |-> a.activity, version |-> a.version, state |-> a.state,
                  progress |-> a.progress] : a \in rows},
   total |-> total, returned |-> Cardinality(rows), truncated |-> total > Cardinality(rows),
   selected |-> Cardinality(StrongestAttempts(rows)),
   local |-> Proven(rows, 2), chain |-> Proven(rows, 3), ledger |-> Proven(rows, Stages)]

-----------------------------------------------------------------------------
(* The Evidence catalog of a snapshot, an answer of its own: its counts are *)
(* of the attempts it lists, its total of all.                              *)

Levels == {"normalized", "locally_verified", "chain_inclusion_proven"}

(* Why no proof can run now; demo fixtures never prove anything.            *)
RuntimeLimitation(runner, runtime) ==
  IF ~ runner THEN {"evidence_runner_unavailable"}
  ELSE IF environment = "demo" THEN {"demo_evidence_not_verifiable"}
  ELSE IF ~ runtime THEN {"evidence_runtime_unavailable"} ELSE {}

Catalog(rows, total, runner, runtime) ==
  LET count(P(_)) == Cardinality({row \in rows : P(row)})
      limitation == RuntimeLimitation(runner, runtime)
  IN  [returned |-> Cardinality(rows), total |-> total, truncated |-> total > Cardinality(rows),
       states |-> [s \in States |-> count(LAMBDA row : row.state = s)],
       levels |-> [l \in Levels |-> count(LAMBDA row : Level(row) = l)],
       available |-> environment = "live" /\ limitation = {},
       limitations |-> limitation
         \cup {IF environment = "demo" THEN "demo_evidence_not_verifiable" ELSE "selective_transaction_evidence"}
         \cup {c \in {"catalog_history_not_revalidated"} : total > Cardinality(rows)}]

SchemaCatalog(catalog) ==
  LET unavailable == {"demo_evidence_not_verifiable", "evidence_runner_unavailable", "evidence_runtime_unavailable"}
      of == catalog.states
  IN  /\ catalog.returned <= catalog.total
      /\ catalog.returned =
           of["queued"] + of["running"] + of["partial"] + of["succeeded"] + of["failed"] + of["cancelled"]
      /\ catalog.returned =
           catalog.levels["normalized"] + catalog.levels["locally_verified"] + catalog.levels["chain_inclusion_proven"]
      /\ catalog.truncated <=> catalog.total > catalog.returned
      /\ catalog.truncated => "catalog_history_not_revalidated" \in catalog.limitations
      /\ environment = "demo" => ~ catalog.available /\ "demo_evidence_not_verifiable" \in catalog.limitations
      /\ catalog.available <=> catalog.limitations \cap unavailable = {}

-----------------------------------------------------------------------------
(* The report.                                                              *)

(* What the Activity read leaves to the report.                             *)
ActivityPart(view) ==
  [aggregate |-> view.aggregate, observed |-> view.observed, gaps |-> view.gaps,
   limitations |-> view.limitations]

(* No sync ever proves full history, so this gate cannot open.              *)
FullHistoryProven == FALSE

Unmet(s, activity, evidence) ==
  LET transactions == activity.aggregate.perKind["transaction"]
      gate(code, open) == {c \in {code} : ~ open}
  IN  gate("live_data_required", environment = "live")
      \cup gate("succeeded_snapshot_required", syncs[s].state = "succeeded")
      \cup gate("activity_required", activity.aggregate.total > 0)
      \cup gate("complete_coverage_required", syncs[s].state = "succeeded")
      \cup gate("full_history_proof_required", FullHistoryProven)
      \cup gate("activity_gaps_must_be_closed", activity.gaps = {})
      \cup gate("identity_conflicts_must_be_resolved", activity.aggregate.conflicts = 0)
      \cup gate("evidence_history_must_be_fully_revalidated", ~ evidence.truncated)
      \cup gate("every_transaction_must_be_chain_proven", evidence.chain = transactions)
      \cup gate("every_transaction_needs_native_ledger", evidence.ledger = transactions)

AssuranceLevel(evidence, eligible) ==
  IF eligible THEN "canonical" ELSE IF environment = "demo" THEN "observed"
  ELSE IF evidence.local > 0 THEN "partially_verified" ELSE "normalized"

ReportLimitations(activity, evidence, assurance) ==
  activity.limitations \cup {"selective_evidence_report"}
  \cup {c \in {"observed_demo_report"} : assurance = "observed"}
  \cup {c \in {"evidence_history_truncated"} : evidence.truncated}
  \cup {c \in {"canonical_gate_locked"} : assurance # "canonical"}

NotCounted == -1
AffectedCount(code, activity, evidence) ==
  LET transactions == activity.aggregate.perKind["transaction"]
  IN  CASE code = "activity_required" -> activity.aggregate.total
        [] code = "identity_conflicts_must_be_resolved" -> activity.aggregate.conflicts
        [] code = "evidence_history_must_be_fully_revalidated" -> evidence.total - evidence.returned
        [] code = "every_transaction_must_be_chain_proven" -> Max({0, transactions - evidence.chain})
        [] code = "every_transaction_needs_native_ledger" -> Max({0, transactions - evidence.ledger})
        [] OTHER -> NotCounted

(* Its content is its name: equal reports have one public id.               *)
ReportOn(s, activity, evidence, unmet) ==
  LET assurance == AssuranceLevel(evidence, unmet = {})
  IN  [snapshot |-> s, environment |-> environment, assurance |-> assurance,
       activity |-> activity, evidence |-> evidence, unmet |-> unmet, eligible |-> unmet = {},
       limitations |-> ReportLimitations(activity, evidence, assurance),
       claims |-> {[code |-> c, affected |-> AffectedCount(c, activity, evidence)] : c \in unmet}]

Report(s, activity, rows, total) ==
  LET with(evidence) == The({ReportOn(s, activity, evidence, unmet) :
                               unmet \in {Unmet(s, activity, evidence)}})
  IN  The({with(evidence) : evidence \in {EvidenceRevision(rows, total)}})

SchemaAttempt(row) ==
  /\ row.cancel => row.state \in {"running", "cancelled"}
  /\ row.state = "cancelled" => row.cancel
  /\ row.state = "failed" => row.progress = NoProgress
  /\ row.state = "partial" => row.progress > NoProgress
  /\ row.state = "succeeded" => row.progress = Stages /\ Level(row) = "chain_inclusion_proven"

SchemaReport(report) ==
  LET evidence == report.evidence
  IN  /\ evidence.returned <= evidence.total
      /\ evidence.truncated <=> evidence.total > evidence.returned
      /\ evidence.ledger <= evidence.chain /\ evidence.chain <= evidence.local
      /\ evidence.local <= evidence.selected /\ evidence.selected <= evidence.returned
      /\ report.eligible <=> report.assurance = "canonical"
      /\ report.environment = "demo" => report.assurance = "observed"
      /\ \A claim \in report.claims : claim.affected >= NotCounted

-----------------------------------------------------------------------------
(* A request reads Activity, then attempts, then counts them; to store the  *)
(* report it goes on to look for one of the same content and to insert it.  *)

Unread == [at |-> "idle", store |-> FALSE, snapshot |-> NoSync, activity |-> ActivityPart(NoActivity),
           items |-> {}, rows |-> {}, total |-> 0]
Outcome(p, step) == building' = [building EXCEPT ![p] = step]
Abandon(p) == Outcome(p, Unread)

(* A capture names its snapshot, a read may take the newest.  A read is     *)
(* answered with the report or, from the items, with findings.              *)
ReadActivityAt(p, pinned, store) ==
  /\ building[p].at = "idle" /\ CaseIsLive
  /\ store => pinned # NoSync
  /\ Refusal(pinned, NoFilter) = "none" /\ Snapshot(pinned) # NoSync
  /\ \E view \in {Dataset(pinned)} :
       Outcome(p, [Unread EXCEPT !.at = "attempts", !.store = store, !.snapshot = view.snapshot,
                                 !.activity = ActivityPart(view), !.items = IF store THEN {} ELSE ToSet(view.ordered)])
  /\ UNCHANGED <<activityVars, attempts, revisions, history, deleted>>
ReadActivity(p) == \E pinned \in {NoSync} \cup SyncIds, store \in BOOLEAN : ReadActivityAt(p, pinned, store)

ReadAttempts(p) ==
  /\ building[p].at = "attempts"
  /\ IF ~ CaseIsLive \/ building[p].snapshot \notin Usable THEN Abandon(p)
     ELSE Outcome(p, [building[p] EXCEPT !.at = "count", !.rows = NewestAttempts(building[p].snapshot)])
  /\ UNCHANGED <<activityVars, attempts, revisions, history, deleted>>

(* Rows of a deleted case may fail their revalidation or not.               *)
CountAttempts(p) ==
  /\ building[p].at = "count"
  /\ \/ /\ deleted \/ StoredConflict(building[p].snapshot, building[p].rows)
        /\ Abandon(p)
     \/ /\ deleted \/ ~ StoredConflict(building[p].snapshot, building[p].rows)
        /\ Outcome(p, [building[p] EXCEPT !.at = "built", !.total = Cardinality(AttemptsOf(building[p].snapshot))])
  /\ UNCHANGED <<activityVars, attempts, revisions, history, deleted>>

Document(b) == Report(b.snapshot, b.activity, b.rows, b.total)
StoredAs(report) == {n \in 1..Len(revisions) : revisions[n] = report}

ReturnReport(p) ==
  /\ building[p].at = "built" /\ ~ building[p].store
  /\ Abandon(p)
  /\ UNCHANGED <<activityVars, attempts, revisions, history, deleted>>

LookForRevision(p) ==
  /\ building[p].at = "built" /\ building[p].store
  /\ \E report \in {Document(building[p])} :
       IF ~ CaseIsLive \/ ~ SchemaReport(report) \/ StoredAs(report) # {}
       THEN Abandon(p) ELSE Outcome(p, [building[p] EXCEPT !.at = "insert"])
  /\ UNCHANGED <<activityVars, attempts, revisions, history, deleted>>

(* The unique index on the content refuses a second one, the foreign key    *)
(* one of a deleted case; the request then answers with the stored one, or  *)
(* that the storage is unavailable.                                         *)
InsertRevision(p) ==
  /\ building[p].at = "insert" /\ Len(revisions) < MaxRevisions
  /\ \E report \in {Document(building[p])} :
       revisions' = IF deleted \/ StoredAs(report) # {} THEN revisions ELSE Append(revisions, report)
  /\ Abandon(p)
  /\ UNCHANGED <<activityVars, attempts, history, deleted>>

-----------------------------------------------------------------------------
(* The catalog of stored revisions, newest first up to a cutoff.            *)

Unopened == [at |-> "idle", cutoff |-> 0, after |-> 0, shown |-> <<>>, total |-> 0, signed |-> TRUE]

RevisionPage(cutoff, after) ==
  LET ids == {n \in 1..Len(revisions) : n <= cutoff /\ (after = 0 \/ n < after)}
      ordered == Sorted(ids, LAMBDA a, b : a > b)
  IN  [items |-> SubSeq(ordered, 1, Min({RevisionLimit, Len(ordered)})), more |-> Len(ordered) > RevisionLimit,
       total |-> Cardinality({n \in 1..Len(revisions) : n <= cutoff})]

Turned(cutoff, after) ==
  \E page \in {RevisionPage(cutoff, after)} :
      history' = [history EXCEPT !.at = IF page.more THEN "reading" ELSE "done", !.cutoff = cutoff,
                    !.after = IF page.more THEN page.items[Len(page.items)] ELSE 0,
                    !.shown = @ \o page.items, !.total = page.total]

OpenHistory ==
  /\ history.at = "idle" /\ CaseIsLive /\ revisions # <<>>
  /\ Turned(Len(revisions), 0)
  /\ UNCHANGED <<activityVars, attempts, revisions, building, deleted>>

TurnPage ==
  /\ history.at = "reading"
  /\ IF CaseIsLive /\ history.signed /\ history.cutoff <= Len(revisions) /\ history.after <= history.cutoff
     THEN Turned(history.cutoff, history.after)
     ELSE history' = [history EXCEPT !.at = IF CaseIsLive THEN "invalid_cursor" ELSE "case_not_found"]
  /\ UNCHANGED <<activityVars, attempts, revisions, building, deleted>>

CloseHistory ==
  /\ history.at \notin {"idle", "reading"} /\ history' = Unopened
  /\ UNCHANGED <<activityVars, attempts, revisions, building, deleted>>

(* Requests in flight end with the process.                                 *)
RestartProcess ==
  /\ \E p \in Readers : building[p].at # "idle" \/ history.at = "reading"
  /\ building' = [p \in Readers |-> Unread]
  /\ history' = IF history.at = "reading" THEN [history EXCEPT !.signed = FALSE] ELSE history
  /\ UNCHANGED <<activityVars, attempts, revisions, deleted>>

SchemaHistory(page, cutoff) ==
  /\ Len(page.items) <= page.total /\ Len(page.items) <= RevisionLimit
  /\ cutoff = 0 <=> page.total = 0
  /\ IsInjective(page.items)

-----------------------------------------------------------------------------
(* Two stored revisions compared.                                           *)

CodeChanges(baseline, target) ==
  [added |-> target \ baseline, removed |-> baseline \ target, unchanged |-> Cardinality(baseline \cap target)]

ClaimChanges(baseline, target) ==
  LET codes(claims) == {c.code : c \in claims}
      shared == codes(baseline) \cap codes(target)
      same == {c.code : c \in baseline \cap target}
  IN  [added |-> codes(target) \ codes(baseline), removed |-> codes(baseline) \ codes(target),
       modified |-> shared \ same, unchanged |-> Cardinality(shared \cap same)]

Compared(m, n) ==
  LET baseline == revisions[m]
      target == revisions[n]
  IN  [sameSnapshot |-> baseline.snapshot = target.snapshot, contentChanged |-> baseline # target,
       activityChanged |-> baseline.activity.aggregate # target.activity.aggregate
                           \/ baseline.activity.observed # target.activity.observed,
       evidenceChanged |-> baseline.evidence.attempts # target.evidence.attempts
                           \/ baseline.evidence.total # target.evidence.total,
       attempts |-> target.evidence.total - baseline.evidence.total,
       gate |-> CodeChanges(baseline.unmet, target.unmet),
       gaps |-> CodeChanges(baseline.activity.gaps, target.activity.gaps),
       limitations |-> CodeChanges(baseline.limitations, target.limitations),
       claims |-> ClaimChanges(baseline.claims, target.claims)]

SchemaComparison(c) ==
  /\ \A changes \in {c.gate, c.gaps, c.limitations, c.claims} : changes.added \cap changes.removed = {}
  /\ c.claims.modified \cap (c.claims.added \cup c.claims.removed) = {}

-----------------------------------------------------------------------------
(* The case: a pending attempt keeps it from being archived or deleted.     *)

AllSettled ==
  /\ \A n \in SyncIds : syncs[n].state # "active"
  /\ \A n \in 1..Len(attempts) : ~ Pending(attempts[n])

CaseMoves ==
  /\ ~ deleted
  /\ SyncSteps \/ (AllSettled /\ ArchiveCase) \/ RestoreCase
  /\ UNCHANGED reportVars

(* Everything the case owns goes in one transaction; nothing reads its      *)
(* syncs any more.                                                          *)
DeleteCase ==
  /\ CaseIsLive /\ AllSettled
  /\ deleted' = TRUE /\ attempts' = <<>> /\ revisions' = <<>>
  /\ UNCHANGED <<activityVars, building, history>>

(* Reports stored before and after the first attempt was requested.         *)
EarlierReports ==
  LET s == attempts[1].snapshot
      first == [Listed(1, attempts[1]) EXCEPT !.state = "queued", !.progress = NoProgress, !.version = 1, !.cancel = FALSE]
  IN  The({<<Report(s, activity, {}, 0), Report(s, activity, {first}, 1)>> :
             activity \in {ActivityPart(View(s, NoFilter))}})

(* Attempts made before were accepted for transactions of usable snapshots; *)
(* demo fixtures have none.                                                 *)
ReportInit ==
  /\ attempts \in {a \in EarlierAttempts : environment = "demo" => a = <<>>}
  /\ \A n \in 1..Len(attempts) :
       attempts[n].snapshot \in Usable /\ Binding(attempts[n]) \in Verifiable(attempts[n].snapshot)
  /\ revisions = IF attempts = <<>> THEN <<>> ELSE EarlierReports
  /\ deleted = FALSE /\ building = [p \in Readers |-> Unread] /\ history = Unopened

ReportSteps(p) ==
  \/ ReadAttempts(p) \/ CountAttempts(p) \/ ReturnReport(p) \/ LookForRevision(p) \/ InsertRevision(p)
CatalogSteps == OpenHistory \/ TurnPage \/ CloseHistory \/ RestartProcess

ReportNext ==
  \/ RequestVerification \/ AdvanceAttempt
  \/ \E p \in Readers : ReadActivity(p) \/ ReportSteps(p)
  \/ CatalogSteps \/ CaseMoves \/ DeleteCase

-----------------------------------------------------------------------------
(* Properties.  What does not depend on requests in flight is evaluated     *)
(* while none is: RestartProcess leads there from everywhere.               *)

AtRest == history.at = "idle" /\ \A p \in Readers : building[p].at = "idle"

(* What a snapshot pins stays pinned: an attempt keeps the transaction it   *)
(* was accepted for, two reports of one snapshot differ in their Evidence   *)
(* only, and a traversal of the stored revisions shows all of its cutoff.   *)
ReportsArePinned ==
  /\ AtRest /\ ~ deleted => \A s \in {attempts[n].snapshot : n \in 1..Len(attempts)} :
                    ~ StoredConflict(s, NewestAttempts(s))
  /\ AtRest => \A m, n \in 1..Len(revisions) :
       LET c == Compared(m, n)
       IN  c.sameSnapshot => ~ c.activityChanged /\ (c.contentChanged => c.evidenceChanged)
  /\ history.at = "done" /\ ~ deleted =>
       history.shown = [i \in 1..history.total |-> history.cutoff + 1 - i] /\ history.total = history.cutoff
  /\ history.at = "invalid_cursor" => ~ history.signed

(* Whatever the worker binds between the three reads, the report passes the *)
(* schema, one content is stored once, and pages and comparisons pass       *)
(* theirs; only the deletion of the case in between may break an answer.    *)
ReportsAreServed ==
  /\ \A p \in Readers :
       /\ \A row \in building[p].rows : SchemaAttempt(row)
       /\ building[p].at \in {"built", "insert"} => deleted \/ SchemaReport(Document(building[p]))
       /\ building[p].at = "built" => deleted \/ \A runner, runtime \in BOOLEAN :
            SchemaCatalog(Catalog(building[p].rows, building[p].total, runner, runtime))
  /\ AtRest => /\ IsInjective(revisions)
                /\ SchemaHistory(RevisionPage(Len(revisions), 0), Len(revisions))
                /\ \A m, n \in 1..Len(revisions) : SchemaComparison(Compared(m, n))

(* A gate of a stored report that is met for "every transaction" is met by  *)
(* every one of them: as many different transactions have the proof as the  *)
(* snapshot has, however many attempts each of them took.                   *)
ReportsClaimWhatIsProven ==
  AtRest => \A n \in 1..Len(revisions) :
    LET report == revisions[n]
        transactions == report.activity.aggregate.perKind["transaction"]
        proven(progress) == {a.activity : a \in {a \in report.evidence.attempts : a.progress >= progress}}
    IN  /\ "every_transaction_must_be_chain_proven" \notin report.unmet => Cardinality(proven(3)) = transactions
        /\ "every_transaction_needs_native_ledger" \notin report.unmet => Cardinality(proven(Stages)) = transactions
        /\ report.evidence.local <= transactions
        /\ report.assurance = "partially_verified" => proven(2) # {}
=============================================================================
