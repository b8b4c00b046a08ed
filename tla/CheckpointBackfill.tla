-------------------------- MODULE CheckpointBackfill --------------------------
(***************************************************************************)
(* Stream checkpoints of one Wallet Case: the syncs that publish them, the *)
(* requests that resume a stream from its latest checkpoint, directly,     *)
(* from a Continuation Plan or from a Backfill Schedule, the worker that   *)
(* revalidates and executes the continuation, and the documents the        *)
(* program recomputes later: chains, plans, schedules, receipts, outcomes. *)
(*                                                                         *)
(*   services/wallet_cases.py     requests and documents                   *)
(*   services/case_sync_jobs.py   resume validation and publication        *)
(*   repositories/wallet_cases.py tips and cutoffs                         *)
(*                                                                         *)
(* A handler reads the tables in several SQLite reads, each of which sees  *)
(* the newest commit, so every read is a step.  A content-addressed public *)
(* id is modelled by what it addresses: the checkpoint of stream s that    *)
(* sync n published is the pair (n, s), a plan or a progress document is   *)
(* its vector of tips, a schedule is [tips, active, budget].  The queue    *)
(* (lease, heartbeat, fence, idempotency replay) is CaseSyncJobs; here a   *)
(* job is claimed, runs, crashes, is cancelled or publishes, one at a time.*)
(***************************************************************************)
EXTENDS ProviderAcquisition

CONSTANTS Handlers,    (* requests the API works on at the same time         *)
          Unsettled,   (* account events that start out in progress          *)
          Budgets,     (* page budgets an operator asks for, within 1..10    *)
          MaxAttempts, (* CaseSync.max_attempts                              *)
          MaxDepth,    (* _MAX_CHECKPOINT_CHAIN_REVISIONS                    *)
          MaxSyncs     (* bound of the model: rows of wallet_case_syncs      *)

ASSUME BackfillAssumption ==
  /\ Budgets \subseteq 1..10
  /\ MaxAttempts \in Nat \ {0} /\ MaxDepth \in Nat \ {0} /\ MaxSyncs \in Nat

VARIABLES syncs,       (* wallet_case_syncs with manifests and checkpoints   *)
          attempts,    (* attempt_count of the active job                    *)
          handler,     (* the local state of every request                   *)
          screen       (* the schedule an operator looks at, tips and all    *)

vars == <<ledger, pending, acq, syncs, attempts, handler, screen>>

Tips == [Streams -> 0..MaxSyncs]
Schedules == [tips : Tips, active : 0..MaxSyncs, budget : Budgets]

(* A plan-bound job stores the plan id and the budget, a scheduled one the  *)
(* schedule, progress and cutoff ids as well: all are functions of doc.     *)
SyncRow ==
  [kind : {"full", "resume", "plan", "schedule"}, stream : Streams \cup {NULL},
   source : 0..MaxSyncs, cursor : Lts \cup {NULL}, index : Nat, doc : Schedules \cup {NULL},
   state : {"queued", "running", "partial", "succeeded", "failed", "cancelled"},
   out : [Streams -> Evidence \cup {NULL}]]

Usable == {"partial", "succeeded"}

HandlerState ==
  [at : {"idle", "plan", "active", "recheck", "tip", "insert"},
   does : {"none", "show", "full", "resume", "plan", "schedule"},
   doc : Schedules \cup {NULL}, tips : Tips \cup {NULL}, budget : Budgets \cup {NULL},
   stream : Streams \cup {NULL}, source : 0..MaxSyncs]

NoHandler == [at |-> "idle", does |-> "none", doc |-> NULL, tips |-> NULL, budget |-> NULL,
              stream |-> NULL, source |-> 0]

TypeOK ==
  /\ AcquisitionTypeOK
  /\ syncs \in Seq(SyncRow) /\ Len(syncs) <= MaxSyncs
  /\ attempts \in 0..MaxAttempts
  /\ handler \in [Handlers -> HandlerState]
  /\ screen \in Schedules \cup {NULL}

Ids == 1..Len(syncs)
NoOutput == [s \in Streams |-> NULL]
Active == {n \in Ids : syncs[n].state \in {"queued", "running"}}
ActiveSync == IF Active = {} THEN 0 ELSE Max(Active)

-----------------------------------------------------------------------------
(* Tips, chains and the documents built from them.                          *)

(* Mutant: the cutoff is not applied.                                       *)
TipsOfToday(cutoff) ==
  [s \in Streams |-> Max({n \in Ids : syncs[n].out[s] # NULL} \cup {0})]

(* latest_stream_checkpoints_at_cutoff: the newest checkpoint per stream.   *)
TipsAt(cutoff) ==
  [s \in Streams |-> Max({n \in 1..cutoff : syncs[n].out[s] # NULL} \cup {0})]
CurrentTips == TipsAt(Len(syncs))
Present(tips) == {s \in Streams : tips[s] # 0}
Cutoff(tips) == Max({tips[s] : s \in Streams})

(* _verified_stream_checkpoint_chain: the revisions from the root to (n, s). *)
Chain(n) ==
  LET c[m \in 0..n] == IF m = 0 THEN <<>>
                       ELSE IF syncs[m].kind = "full" THEN <<m>>
                       ELSE Append(c[syncs[m].source], m)
  IN  c[n]

Checkpoint(n, s) == syncs[n].out[s]
StateOf(n, s) == ResumeState(Checkpoint(n, s))
TooDeep(tips) == \E s \in Present(tips) : Len(Chain(tips[s])) > MaxDepth

SumOver(chain, s, Count(_)) ==
  FoldSeq(LAMBDA n, sum : sum + Count(Checkpoint(n, s)), 0, chain)
PageCount(evidence) == Len(evidence.pages)
GoodCount(evidence) == Cardinality(GoodAt(evidence))

(* _backfill_progress_response of one stream.                               *)
Progress(tips, s) ==
  LET chain == Chain(tips[s])
  IN  [revisions |-> Len(chain), continuations |-> Len(chain) - 1,
       pages |-> SumOver(chain, s, PageCount), good |-> SumOver(chain, s, GoodCount),
       continuationPages |-> SumOver(Tail(chain), s, PageCount),
       continuationGood |-> SumOver(Tail(chain), s, GoodCount),
       state |-> StateOf(tips[s], s),
       frontier |-> LET observed == {i \in 1..Len(chain) : GoodAt(Checkpoint(chain[i], s)) # {}}
                    IN  IF observed = {} THEN NULL
                        ELSE <<chain[Max(observed)], LastGood(Checkpoint(chain[Max(observed)], s))>>]

InState(tips, state) == {s \in Present(tips) : StateOf(tips[s], s) = state}

(* _backfill_schedule_response: least continuation pages, then revisions,   *)
(* then the stream's name.                                                  *)
Selection(tips) ==
  LET rank(s) == IF s = "account_events" THEN 0 ELSE 1
      before(s, t) == LET p == Progress(tips, s) q == Progress(tips, t)
                      IN  \/ p.continuationPages < q.continuationPages
                          \/ /\ p.continuationPages = q.continuationPages
                             /\ \/ p.continuations < q.continuations
                                \/ p.continuations = q.continuations /\ rank(s) <= rank(t)
  IN  CHOOSE s \in InState(tips, "ready") : \A t \in InState(tips, "ready") : before(s, t)

ScheduleState(doc) ==
  IF doc.active # 0 THEN "backpressured"
  ELSE IF InState(doc.tips, "ready") # {} THEN "ready"
  ELSE IF Present(doc.tips) = {} THEN "empty"
  ELSE IF InState(doc.tips, "blocked") # {} THEN "blocked"
  ELSE "complete"

(* get_checkpoint_continuation_receipt: every check that can refuse it.     *)
HasReceipt(n) == syncs[n].kind \in {"plan", "schedule"} /\ syncs[n].state \in Usable
PageDelta(n) == PageCount(Checkpoint(n, syncs[n].stream))
ReceiptHolds(n) ==
  LET s == syncs[n].stream
      source == syncs[n].source
      after == TipsAt(n)
  IN  /\ {t \in Streams : syncs[n].out[t] # NULL} = {s}
      /\ Checkpoint(source, s) # NULL
      /\ Chain(n) = Append(Chain(source), n)
      /\ Len(Chain(n)) <= MaxDepth
      /\ Cutoff(after) = n
      /\ after # syncs[n].doc.tips
      /\ PageDelta(n) <= syncs[n].doc.budget
      /\ ~ TooDeep(after)

(* get_backfill_outcome: both boundaries are recomputed, and the difference *)
(* between them must be the one receipt.                                    *)
HasOutcome(n) == syncs[n].kind = "schedule" /\ syncs[n].state \in Usable
OutcomeHolds(n) ==
  LET s == syncs[n].stream
      before == TipsAt(Cutoff(syncs[n].doc.tips))
      after == TipsAt(n)
      total(tips, count) ==
        SumFunction([t \in Streams |-> IF tips[t] = 0 THEN 0 ELSE Progress(tips, t)[count]])
      delta(count) == total(after, count) - total(before, count)
      here == [tips |-> before, active |-> 0, budget |-> syncs[n].doc.budget]
  IN  /\ ReceiptHolds(n)
      /\ ~ TooDeep(before)
      /\ here = syncs[n].doc
      /\ ScheduleState(here) = "ready" /\ Selection(before) = s
      /\ before[s] = syncs[n].source
      /\ Cutoff(after) = n
      /\ delta("revisions") = 1 /\ delta("continuations") = 1
      /\ delta("pages") = PageDelta(n) /\ delta("continuationPages") = PageDelta(n)
      /\ delta("good") = GoodCount(Checkpoint(n, s))
      /\ delta("continuationGood") = GoodCount(Checkpoint(n, s))

-----------------------------------------------------------------------------
(* Requests.  A step is one read, or the transaction that inserts.          *)

Init ==
  /\ ledger = [s \in Streams |-> Lts]
  /\ pending = Unsettled
  /\ acq = Idle
  /\ syncs = <<>>
  /\ attempts = 0
  /\ handler = [h \in Handlers |-> NoHandler]
  /\ screen = NULL

Goes(h, state) == handler' = [handler EXCEPT ![h] = state]
Answered(h) == Goes(h, NoHandler)
OnlyReads == UNCHANGED <<acquisitionVars, syncs, attempts, screen>>

(* enqueue_sync: one bounded sync of every surface.                         *)
BeginSync(h) ==
  /\ handler[h].at = "idle"
  /\ Goes(h, [NoHandler EXCEPT !.at = "insert", !.does = "full"])
  /\ OnlyReads

(* POST resume and POST plan resume name a checkpoint the operator sees.    *)
BeginResume(h, s) ==
  /\ handler[h].at = "idle" /\ screen # NULL /\ screen.tips[s] # 0
  /\ Goes(h, [NoHandler EXCEPT !.at = "tip", !.does = "resume", !.stream = s,
                               !.source = screen.tips[s]])
  /\ OnlyReads

BeginPlanResume(h, s) ==
  /\ handler[h].at = "idle" /\ screen # NULL /\ screen.tips[s] # 0
  /\ Goes(h, [NoHandler EXCEPT !.at = "recheck", !.does = "plan", !.stream = s,
                               !.doc = [screen EXCEPT !.active = 0], !.source = screen.tips[s]])
  /\ OnlyReads

(* get_backfill_schedule reads the progress, then the plan, then the active *)
(* job; a POST of the schedule on the screen runs it again.                 *)
BeginShow(h, b) ==
  /\ handler[h].at = "idle" /\ ~ TooDeep(CurrentTips)
  /\ Goes(h, [NoHandler EXCEPT !.at = "plan", !.does = "show", !.budget = b, !.tips = CurrentTips])
  /\ OnlyReads

BeginSchedule(h) ==
  /\ handler[h].at = "idle" /\ screen # NULL /\ ~ TooDeep(CurrentTips)
  /\ Goes(h, [NoHandler EXCEPT !.at = "plan", !.does = "schedule", !.doc = screen,
                               !.budget = screen.budget, !.tips = CurrentTips])
  /\ OnlyReads

(* The plan half: another cutoff than the progress half is called corrupt.  *)
ReadPlan(h) ==
  /\ handler[h].at = "plan"
  /\ IF Cutoff(CurrentTips) # Cutoff(handler[h].tips) \/ TooDeep(CurrentTips)
       THEN Answered(h) ELSE Goes(h, [handler[h] EXCEPT !.at = "active"])
  /\ OnlyReads

(* The active job completes the schedule.  A POST compares it with the id   *)
(* of its body and turns the selection into a plan-bound resume.            *)
ReadActive(h) ==
  LET here == [tips |-> handler[h].tips, active |-> ActiveSync, budget |-> handler[h].budget]
  IN  /\ handler[h].at = "active"
      /\ IF handler[h].does = "show"
           THEN screen' = here /\ Answered(h)
         ELSE IF here = handler[h].doc /\ ScheduleState(here) = "ready"
           THEN /\ Goes(h, [handler[h] EXCEPT !.at = "recheck", !.tips = NULL,
                                             !.stream = Selection(here.tips),
                                             !.source = here.tips[Selection(here.tips)]])
                /\ UNCHANGED screen
         ELSE Answered(h) /\ UNCHANGED screen
      /\ UNCHANGED <<acquisitionVars, syncs, attempts>>

(* enqueue_checkpoint_plan_resume: the plan must still be the current one   *)
(* and the checkpoint one of its ready tips.                                *)
RecheckPlan(h) ==
  /\ handler[h].at = "recheck"
  /\ IF /\ ~ TooDeep(CurrentTips)
        /\ CurrentTips = handler[h].doc.tips
        /\ handler[h].stream \in InState(CurrentTips, "ready")
        /\ CurrentTips[handler[h].stream] = handler[h].source
       THEN Goes(h, [handler[h] EXCEPT !.at = "tip"])
       ELSE Answered(h)
  /\ OnlyReads

(* enqueue_checkpoint_resume: the checkpoint must be its stream's tip, ready, *)
(* and published by a usable sync.                                          *)
CheckTip(h) ==
  LET n == handler[h].source
      s == handler[h].stream
  IN  /\ handler[h].at = "tip"
      /\ IF CurrentTips[s] = n /\ StateOf(n, s) = "ready" /\ syncs[n].state \in Usable
           THEN Goes(h, [handler[h] EXCEPT !.at = "insert"])
           ELSE Answered(h)
      /\ OnlyReads

NewSync(r) ==
  [kind |-> r.does, stream |-> r.stream, source |-> r.source,
   cursor |-> IF r.source = 0 THEN NULL ELSE Checkpoint(r.source, r.stream).cursor,
   index |-> IF r.source = 0 THEN 1 ELSE ContinuationIndex(Checkpoint(r.source, r.stream)),
   doc |-> r.doc, state |-> "queued", out |-> NoOutput]

(* The active lookup and the INSERT, under the unique index of active jobs. *)
Insert(h) ==
  /\ handler[h].at = "insert"
  /\ IF Active = {} /\ Len(syncs) < MaxSyncs
       THEN syncs' = Append(syncs, NewSync(handler[h])) /\ attempts' = 0
       ELSE UNCHANGED <<syncs, attempts>>
  /\ Answered(h)
  /\ UNCHANGED <<acquisitionVars, screen>>

Becomes(n, state) == syncs' = [syncs EXCEPT ![n].state = state]

Cancel(n) ==
  /\ n \in Active
  /\ Becomes(n, "cancelled")
  /\ acq' = Idle /\ attempts' = 0
  /\ UNCHANGED <<ledger, pending, handler, screen>>

-----------------------------------------------------------------------------
(* The worker.                                                              *)

(* Mutant: the worker trusts the check made before the insert.              *)
ResumeWithoutTip(n) ==
  LET job == syncs[n]
  IN  /\ StateOf(job.source, job.stream) = "ready"
      /\ Checkpoint(job.source, job.stream).cursor = job.cursor
      /\ ContinuationIndex(Checkpoint(job.source, job.stream)) = job.index

(* _validate_resume_checkpoint: the stored position against the newest      *)
(* checkpoint of the stream; for a schedule also the document recomputed at *)
(* the stored cutoff, not at the present one.                               *)
ResumeHolds(n) ==
  LET job == syncs[n]
      before == TipsAt(Cutoff(job.doc.tips))
      again == [tips |-> before, active |-> 0, budget |-> job.doc.budget]
  IN  /\ CurrentTips[job.stream] = job.source
      /\ StateOf(job.source, job.stream) = "ready"
      /\ Checkpoint(job.source, job.stream).cursor = job.cursor
      /\ ContinuationIndex(Checkpoint(job.source, job.stream)) = job.index
      /\ syncs[job.source].state \in Usable
      /\ job.kind = "schedule" => /\ ~ TooDeep(before)
                                  /\ again = job.doc
                                  /\ ScheduleState(again) = "ready"
                                  /\ before[Selection(before)] = job.source

Cap(job) == IF job.doc = NULL THEN PageCap ELSE Min({PageCap, job.doc.budget})
FullSync == IF "account_events" \notin Streams THEN <<"transactions">>
            ELSE IF "transactions" \notin Streams THEN <<"account_events">>
            ELSE <<"transactions", "account_events">>

(* Claim, validate, and start the acquisition; a job that no longer holds   *)
(* fails without a run.                                                     *)
Claim(n) ==
  /\ syncs[n].state = "queued" /\ acq.at = "idle" /\ attempts < MaxAttempts
  /\ \/ /\ syncs[n].kind = "full"
        /\ \E snapshot \in {"ok", "failed"} : acq' = Requested(FullSync, NULL, 1, PageCap, snapshot)
        /\ Becomes(n, "running") /\ attempts' = attempts + 1
     \/ /\ syncs[n].kind # "full" /\ ResumeHolds(n)
        /\ acq' = Requested(<<syncs[n].stream>>, syncs[n].cursor, syncs[n].index, Cap(syncs[n]), "none")
        /\ Becomes(n, "running") /\ attempts' = attempts + 1
     \/ /\ syncs[n].kind # "full" /\ ~ ResumeHolds(n)
        /\ Becomes(n, "failed") /\ attempts' = 0
        /\ UNCHANGED acq
  /\ UNCHANGED <<ledger, pending, handler, screen>>

(* _retry_signal: a protocol error is permanent.                            *)
Retryable == \A s \in Acquired : acq.got[s].termination # "protocol_error"

(* A run that fetched nothing is retried while attempts are left; any other *)
(* run is published with its manifest and one checkpoint per stream, even   *)
(* when it failed.                                                          *)
Publish(n) ==
  /\ syncs[n].state = "running" /\ acq.at = "done"
  /\ acq' = Idle
  /\ IF RunStatus = "error" /\ Retryable /\ attempts < MaxAttempts
       THEN Becomes(n, "queued") /\ UNCHANGED attempts
       ELSE /\ syncs' = [syncs EXCEPT ![n].out = acq.got,
                                      ![n].state = CASE RunStatus = "error" -> "failed"
                                                     [] RunStatus = "partial" -> "partial"
                                                     [] RunStatus = "success" -> "succeeded"]
            /\ attempts' = 0
  /\ UNCHANGED <<ledger, pending, handler, screen>>

(* The process dies: the acquisition is lost, and recovery queues the job   *)
(* again or, when its attempts are used up, fails it without a run.         *)
Crash(n) ==
  /\ syncs[n].state = "running"
  /\ acq' = Idle
  /\ IF attempts < MaxAttempts THEN Becomes(n, "queued") /\ UNCHANGED attempts
     ELSE Becomes(n, "failed") /\ attempts' = 0
  /\ UNCHANGED <<ledger, pending, handler, screen>>

-----------------------------------------------------------------------------
RequestStep(h) ==
  \/ ReadPlan(h) \/ ReadActive(h) \/ RecheckPlan(h) \/ CheckTip(h) \/ Insert(h)

(* Once the bound is reached no further request is posted.                  *)
Post(h) ==
  /\ Len(syncs) < MaxSyncs
  /\ \/ BeginSync(h) \/ BeginSchedule(h)
     \/ \E s \in Streams : BeginResume(h, s) \/ BeginPlanResume(h, s)
     \/ \E b \in Budgets : BeginShow(h, b)

Acquires == (FetchPage \/ EventSettles) /\ UNCHANGED <<syncs, attempts, handler, screen>>

Next ==
  \/ \E h \in Handlers : Post(h) \/ RequestStep(h)
  \/ \E n \in Ids : Cancel(n) \/ Claim(n) \/ Publish(n) \/ Crash(n)
  \/ Acquires

Spec == Init /\ [][Next]_vars

-----------------------------------------------------------------------------
(* Properties.                                                              *)

Published(s) == {n \in Ids : syncs[n].out[s] # NULL}
GoodPagesOf(chain, s) == FlattenSeq([i \in 1..Len(chain) |-> GoodPages(Checkpoint(chain[i], s))])
AcceptedBy(chain, s) == UNION {Checkpoint(chain[i], s).accepted : i \in 1..Len(chain)}

(* No checkpoint is continued twice, although the tip is read before the    *)
(* insert and the job waits in the queue in between; and along a chain the  *)
(* successful pages are one walk: the page numbers count                    *)
(* 1, 2, 3, ... and every page starts at the cursor the page before it      *)
(* returned, whatever was retried, resumed, cancelled or crashed between    *)
(* the revisions (_resume_position, _build_checkpoint, resume validation).  *)
ChainIsOneWalk ==
  /\ \A s \in Streams : \A n \in Published(s) :
       LET walk == GoodPagesOf(Chain(n), s)
       IN  \A i \in 1..Len(walk) :
            /\ walk[i].index = i
            /\ walk[i].request = IF i = 1 THEN NULL ELSE walk[i - 1].response
  /\ \A s \in Streams : \A m, n \in Published(s) :
       m # n /\ syncs[m].kind # "full" /\ syncs[n].kind # "full" => syncs[m].source # syncs[n].source

(* A chain whose tip says complete has accepted every settled row of the    *)
(* interval, and no row in two revisions: for the transaction stream this   *)
(* is what "terminated within the resolved interval contract" promises.     *)
CompleteChainHasEveryRow ==
  "transactions" \in Streams => \A n \in Published("transactions") :
    StateOf(n, "transactions") = "complete" =>
      /\ AcceptedBy(Chain(n), "transactions") = {lt \in ledger["transactions"] : InInterval(lt)}
      /\ \A i, j \in 1..Len(Chain(n)) :
           i # j => Checkpoint(Chain(n)[i], "transactions").accepted
                      \cap Checkpoint(Chain(n)[j], "transactions").accepted = {}

(* Every published plan-bound continuation has a receipt for ever, and a    *)
(* scheduled one whose plan was still current when it published an outcome, *)
(* whatever is published after it.                                          *)
AnswersReproduce ==
  LET current(n) == \A s \in Streams : syncs[n].doc.tips[s] = Max((Published(s) \cap 1..n - 1) \cup {0})
  IN  \A n \in Ids : /\ HasReceipt(n) => ReceiptHolds(n)
                     /\ HasOutcome(n) => (current(n) => OutcomeHolds(n))

(* REAL_WALLET_INGESTION_PLAN.md: in-progress events are excluded and keep  *)
(* the provider stream incomplete.                                          *)
UnsettledEventKeepsStreamIncomplete ==
  "account_events" \in Streams => \A n \in Published("account_events") :
    StateOf(n, "account_events") = "complete" =>
      AcceptedBy(Chain(n), "account_events") = {lt \in ledger["account_events"] : InInterval(lt)}
=============================================================================
