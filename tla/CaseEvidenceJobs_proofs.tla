---------------------- MODULE CaseEvidenceJobs_proofs ----------------------
(***************************************************************************)
(* Proofs about CaseEvidenceJobs, for every number of jobs, selections,    *)
(* workers, requests and tokens and every value of the numeric constants.  *)
(*                                                                         *)
(* As in CaseSyncJobs_proofs, the actions are opened once: RequestMoves    *)
(* and WorkerMoves say what a step does to the memory of a request or a    *)
(* worker, RowStep what it does to one row of the table.                   *)
(***************************************************************************)
EXTENDS CaseEvidenceJobs, TLAPS

-----------------------------------------------------------------------------
(* Types, and what workers and requests remember: they write rows from it.  *)

RestingPoints == {"down", "idle", "recovering"}
AskingPoints == {"observe", "swap", "answer", "accepted"}

(* What an executing worker remembers; it retries only below the budget.    *)
Remembers(state) ==
  /\ state.at \in ExecutingPoints => state.job \in Jobs /\ state.token \in Tokens
  /\ state.at = "retrying" => state.attempt < MaxAttempts

Asks(state) ==
  /\ state.does = "enqueue" => state.selection \in Selections /\ state.key \in Keys
  /\ state.does \in AskingPoints => state.job \in Jobs
  /\ state.does = "swap" => state.state \in ActiveStates

TypeInv ==
  /\ TypeOK
  /\ \A w \in Workers : Remembers(worker[w])
  /\ \A r \in Requests : Asks(request[r])

(* The rows that the statements of the queue write.                         *)
LEMMA NoJobRow == NoJob \in JobRow
<1>1. 0 \in 0..MaxAttempts /\ 0 \in 0..Stages /\ 0 \in Nat
  BY EvidenceAssumption
<1>2. QED
  BY <1>1 DEF NoJob, JobRow

LEMMA LagsAreInts ==
  ASSUME NEW lag \in Lags
  PROVE  lag \in Nat /\ -lag \in Int /\ LeaseTicks - lag \in Int
BY EvidenceAssumption DEF Lags

LEMMA ClosedRow ==
  ASSUME NEW row \in JobRow, NEW state \in {"queued"} \cup TerminalStates
  PROVE  LET closed == Closed(row, state) IN
         /\ closed \in JobRow
         /\ closed.state = state /\ closed.version = row.version + 1
         /\ closed.nextAttempt = NULL /\ closed.token = NULL /\ closed.lease = NULL
         /\ closed.selection = row.selection /\ closed.key = row.key
         /\ closed.attempts = row.attempts /\ closed.cancel = row.cancel
         /\ closed.progress = row.progress
<1> DEFINE version == row.version + 1
           closed == [row EXCEPT !.state = state, !.nextAttempt = NULL, !.token = NULL,
                                 !.lease = NULL, !.version = version]
<1>1. version \in Nat /\ state \in {"absent"} \cup ActiveStates \cup TerminalStates
  BY DEF JobRow, ActiveStates
<1>2. Closed(row, state) = closed
  BY DEF Closed
<1> HIDE DEF version
<1>3. closed \in JobRow
  BY <1>1 DEF JobRow
<1>4. /\ closed.state = state /\ closed.version = version
      /\ closed.nextAttempt = NULL /\ closed.token = NULL /\ closed.lease = NULL
      /\ closed.selection = row.selection /\ closed.key = row.key
      /\ closed.attempts = row.attempts /\ closed.cancel = row.cancel
      /\ closed.progress = row.progress
  BY DEF JobRow
<1> HIDE DEF closed
<1>5. QED
  BY <1>2, <1>3, <1>4 DEF version

LEMMA RequeuedRow ==
  ASSUME NEW row \in JobRow, NEW ticks \in Int
  PROVE  LET requeued == Requeued(row, ticks) IN
         /\ requeued \in JobRow
         /\ requeued.state = "queued" /\ requeued.nextAttempt = ticks
         /\ requeued.selection = row.selection /\ requeued.key = row.key
         /\ requeued.attempts = row.attempts /\ requeued.cancel = row.cancel
         /\ requeued.progress = row.progress
<1> DEFINE closed == Closed(row, "queued")
<1>1. /\ closed \in JobRow /\ closed.state = "queued"
      /\ closed.selection = row.selection /\ closed.key = row.key
      /\ closed.attempts = row.attempts /\ closed.cancel = row.cancel
      /\ closed.progress = row.progress
  BY ClosedRow
<1>2. Requeued(row, ticks) = [closed EXCEPT !.nextAttempt = ticks]
  BY DEF Requeued
<1> HIDE DEF closed
<1>3. QED
  BY <1>1, <1>2 DEF JobRow

LEMMA UnboundRow ==
  ASSUME NEW row \in JobRow
  PROVE  LET unbound == Unbound(row) IN
         /\ unbound \in JobRow
         /\ unbound.state = "failed"
         /\ unbound.selection = row.selection /\ unbound.key = row.key
         /\ unbound.attempts = row.attempts
<1> DEFINE closed == Closed(row, "failed")
<1>1. /\ closed \in JobRow /\ closed.state = "failed"
      /\ closed.selection = row.selection /\ closed.key = row.key
      /\ closed.attempts = row.attempts
  BY ClosedRow DEF TerminalStates
<1>2. Unbound(row) = [closed EXCEPT !.progress = 0, !.cancel = FALSE] /\ 0 \in 0..Stages
  BY EvidenceAssumption DEF Unbound
<1> HIDE DEF closed
<1>3. QED
  BY <1>1, <1>2 DEF JobRow

LEMMA WithdrawnRow ==
  ASSUME NEW row \in JobRow
  PROVE  LET withdrawn == Withdrawn(row) IN
         /\ withdrawn \in JobRow
         /\ withdrawn.state = "cancelled" /\ withdrawn.progress = row.progress
         /\ withdrawn.selection = row.selection /\ withdrawn.key = row.key
         /\ withdrawn.attempts = row.attempts
<1> DEFINE closed == Closed(row, "cancelled")
<1>1. /\ closed \in JobRow /\ closed.state = "cancelled" /\ closed.progress = row.progress
      /\ closed.selection = row.selection /\ closed.key = row.key
      /\ closed.attempts = row.attempts
  BY ClosedRow DEF TerminalStates
<1>2. Withdrawn(row) = [closed EXCEPT !.cancel = TRUE]
  BY DEF Withdrawn
<1> HIDE DEF closed
<1>3. QED
  BY <1>1, <1>2 DEF JobRow

LEMMA MarkedRow ==
  ASSUME NEW row \in JobRow
  PROVE  LET marked == Marked(row) IN
         /\ marked \in JobRow
         /\ marked.cancel /\ marked.state = row.state
         /\ marked.selection = row.selection /\ marked.key = row.key
         /\ marked.attempts = row.attempts /\ marked.progress = row.progress
         /\ marked.token = row.token /\ marked.lease = row.lease
<1> DEFINE version == row.version + 1
           marked == [row EXCEPT !.cancel = TRUE, !.version = version]
<1>1. version \in Nat /\ Marked(row) = marked
  BY DEF JobRow, Marked
<1> HIDE DEF version
<1>2. marked \in JobRow
  BY <1>1 DEF JobRow
<1>3. /\ marked.cancel /\ marked.state = row.state
      /\ marked.selection = row.selection /\ marked.key = row.key
      /\ marked.attempts = row.attempts /\ marked.progress = row.progress
      /\ marked.token = row.token /\ marked.lease = row.lease
  BY DEF JobRow
<1> HIDE DEF marked
<1>4. QED
  BY <1>1, <1>2, <1>3

(* A heartbeat, the advance to a stage and a binding: all write the lease.  *)
Leased(row, lag, progress, version) ==
  [Extended(row, lag) EXCEPT !.progress = progress, !.version = version]

LEMMA LeasedRow ==
  ASSUME NEW row \in JobRow, NEW lag \in Lags, NEW version \in Nat, NEW progress \in 0..Stages
  PROVE  LET leased == Leased(row, lag, progress, version) IN
         /\ leased \in JobRow
         /\ leased.lease \in Int /\ leased.nextAttempt = row.nextAttempt
         /\ leased.state = row.state /\ leased.progress = progress
         /\ leased.selection = row.selection /\ leased.key = row.key
         /\ leased.attempts = row.attempts /\ leased.token = row.token
         /\ leased.cancel = row.cancel
<1> DEFINE lease == LeaseTicks - lag
           leased == [row EXCEPT !.lease = lease, !.progress = progress, !.version = version]
<1>1. lease \in Int
  BY LagsAreInts
<1>2. Leased(row, lag, progress, version) = leased
  BY DEF Leased, Extended, JobRow
<1> HIDE DEF lease
<1>3. leased \in JobRow
  BY <1>1 DEF JobRow
<1>4. /\ leased.lease = lease /\ leased.nextAttempt = row.nextAttempt
      /\ leased.state = row.state /\ leased.progress = progress
      /\ leased.selection = row.selection /\ leased.key = row.key
      /\ leased.attempts = row.attempts /\ leased.token = row.token
      /\ leased.cancel = row.cancel
  BY DEF JobRow
<1> HIDE DEF leased
<1>5. QED
  BY <1>1, <1>2, <1>3, <1>4

LEMMA ExtendedRow ==
  ASSUME NEW row \in JobRow, NEW lag \in Lags
  PROVE  /\ Extended(row, lag) = Leased(row, lag, row.progress, row.version)
         /\ Advanced(row, lag) = Leased(row, lag, row.progress, row.version + 1)
         /\ row.version + 1 \in Nat /\ row.version \in Nat /\ row.progress \in 0..Stages
<1> DEFINE extended == Extended(row, lag)
<1>1. /\ extended \in JobRow
      /\ extended.progress = row.progress /\ extended.version = row.version
  BY LagsAreInts DEF Extended, JobRow
<1>2. row.version + 1 \in Nat /\ row.version \in Nat /\ row.progress \in 0..Stages
  BY DEF JobRow
<1> HIDE DEF extended
<1>3. [extended EXCEPT !.progress = row.progress, !.version = row.version] = extended
  BY <1>1 DEF JobRow
<1> DEFINE version == row.version + 1
<1>4. [extended EXCEPT !.version = @ + 1] = [extended EXCEPT !.version = version]
  BY <1>1
<1> HIDE DEF version
<1>5. [extended EXCEPT !.progress = row.progress, !.version = version] =
        [extended EXCEPT !.version = version]
  BY <1>1 DEF JobRow
<1>6. QED
  BY <1>2, <1>3, <1>4, <1>5 DEF Leased, Advanced, extended, version

LEMMA ClaimedRow ==
  ASSUME NEW row \in JobRow, NEW t \in Tokens, NEW lag \in Lags, row.attempts < MaxAttempts
  PROVE  LET claimed == Claimed(row, t, lag) IN
         /\ claimed \in JobRow
         /\ claimed.state = "running" /\ claimed.attempts = row.attempts + 1
         /\ claimed.token = t /\ claimed.lease \in Int
         /\ claimed.selection = row.selection /\ claimed.key = row.key
         /\ claimed.cancel = row.cancel /\ claimed.progress = row.progress
<1> DEFINE version == row.version + 1
           attempts == row.attempts + 1
           lease == LeaseTicks - lag
           claimed == [row EXCEPT !.state = "running", !.attempts = attempts,
                                  !.nextAttempt = NULL, !.token = t, !.lease = lease,
                                  !.version = version]
<1>1. /\ version \in Nat /\ attempts \in 0..MaxAttempts /\ lease \in Int
      /\ "running" \in {"absent"} \cup ActiveStates \cup TerminalStates
  BY EvidenceAssumption, LagsAreInts DEF JobRow, ActiveStates
<1>2. Claimed(row, t, lag) = claimed
  BY DEF Claimed
<1> HIDE DEF version, attempts, lease
<1>3. claimed \in JobRow
  BY <1>1 DEF JobRow
<1>4. /\ claimed.state = "running" /\ claimed.attempts = attempts
      /\ claimed.token = t /\ claimed.lease = lease
      /\ claimed.selection = row.selection /\ claimed.key = row.key
      /\ claimed.cancel = row.cancel /\ claimed.progress = row.progress
  BY DEF JobRow
<1> HIDE DEF claimed
<1>5. QED
  BY <1>1, <1>2, <1>3, <1>4 DEF attempts

LEMMA EnqueuedRow ==
  ASSUME NEW x \in Selections, NEW k \in Keys, NEW lag \in Lags
  PROVE  LET queued == Enqueued(x, k, lag) IN
         /\ queued \in JobRow
         /\ queued.state = "queued" /\ queued.selection = x /\ queued.key = k
         /\ queued.nextAttempt \in Int /\ queued.attempts = 0 /\ ~queued.cancel
<1>1. /\ "queued" \in {"absent"} \cup ActiveStates \cup TerminalStates
      /\ 0 \in 0..MaxAttempts /\ 0 \in 0..Stages /\ -lag \in Int
  BY EvidenceAssumption, LagsAreInts DEF ActiveStates
<1>2. QED
  BY <1>1 DEF Enqueued, NoJob, JobRow

LEMMA AgedTicks ==
  ASSUME NEW ticks \in Int \cup {NULL}
  PROVE  /\ Aged(ticks) \in Int \cup {NULL}
         /\ Aged(ticks) = NULL <=> ticks = NULL
BY EvidenceAssumption DEF Aged

LEMMA OlderJob ==
  ASSUME NEW row \in JobRow
  PROVE  LET older == OlderRow(row) IN
         /\ older \in JobRow
         /\ older.nextAttempt = NULL <=> row.nextAttempt = NULL
         /\ older.lease = NULL <=> row.lease = NULL
         /\ older.state = row.state /\ older.progress = row.progress
         /\ older.selection = row.selection /\ older.key = row.key
         /\ older.attempts = row.attempts /\ older.token = row.token
         /\ older.cancel = row.cancel
<1>1. /\ Aged(row.nextAttempt) \in Int \cup {NULL} /\ Aged(row.lease) \in Int \cup {NULL}
      /\ Aged(row.nextAttempt) = NULL <=> row.nextAttempt = NULL
      /\ Aged(row.lease) = NULL <=> row.lease = NULL
  BY AgedTicks DEF JobRow
<1>2. QED
  BY <1>1 DEF OlderRow, JobRow

(* Time also passes for what a recovery has found.                          *)
LEMMA OlderFound ==
  ASSUME NEW todo \in SUBSET Expired
  PROVE  OlderFinds(todo) \in SUBSET Expired
<1>1. ASSUME NEW e \in Expired PROVE [e EXCEPT !.lease = Aged(@)] \in Expired
  <2>1. Aged(e.lease) \in Int \cup {NULL}
    BY AgedTicks DEF Expired
  <2>2. QED
    BY <2>1 DEF Expired
<1>2. QED
  BY <1>1 DEF OlderFinds

-----------------------------------------------------------------------------
(* What a worker remembers while it moves from point to point: it rests, or *)
(* goes on with the job it holds.                                           *)

GoesOn(p, q) ==
  /\ p.at \in ExecutingPoints /\ q.at \in ExecutingPoints
  /\ q.job = p.job /\ q.token = p.token /\ q.attempt = p.attempt
  /\ q.at = "retrying" => p.at = "retrying" \/ p.attempt < MaxAttempts

Continues(w) ==
  /\ worker' \in [Workers -> WorkerState]
  /\ \A u \in Workers \ {w} : worker'[u] = worker[u]
  /\ worker'[w].at \in RestingPoints \/ GoesOn(worker[w], worker'[w])

LEMMA PointsDiffer == RestingPoints \cap ExecutingPoints = {}
BY DEF RestingPoints, ExecutingPoints, ClosingPoints

LEMMA NextContinues ==
  ASSUME TypeInv, NEW w \in Workers, NEW next \in WorkerState,
         next.at \in RestingPoints \/ GoesOn(worker[w], next),
         worker' = [worker EXCEPT ![w] = next]
  PROVE  Continues(w)
BY DEF TypeInv, TypeOK, Continues

LEMMA AtPoint ==
  ASSUME TypeInv, NEW w \in Workers, NEW point \in RestingPoints \cup ExecutingPoints
  PROVE  LET at == At(w, point) IN
         /\ at \in WorkerState /\ at.at = point
         /\ at.job = worker[w].job /\ at.token = worker[w].token
         /\ at.attempt = worker[w].attempt
<1>1. worker[w] \in WorkerState
  BY DEF TypeInv, TypeOK
<1>2. point \in {"down", "idle", "recovering"} \cup ExecutingPoints
  BY DEF RestingPoints
<1> HIDE DEF RestingPoints
<1>3. QED
  BY <1>1, <1>2 DEF At, WorkerState

LEMMA GotoContinues ==
  ASSUME TypeInv, NEW w \in Workers, NEW point \in ExecutingPoints,
         worker[w].at \in ExecutingPoints,
         point = "retrying" => worker[w].attempt < MaxAttempts,
         Goto(w, point)
  PROVE  Continues(w)
<1> DEFINE next == At(w, point)
<1>1. /\ next \in WorkerState /\ next.at = point
      /\ next.job = worker[w].job /\ next.token = worker[w].token
      /\ next.attempt = worker[w].attempt
  BY AtPoint
<1>2. worker' = [worker EXCEPT ![w] = next]
  BY DEF Goto
<1> HIDE DEF next
<1>3. GoesOn(worker[w], next)
  BY <1>1 DEF GoesOn
<1>4. QED
  BY <1>1, <1>2, <1>3, NextContinues

LEMMA GotoStageContinues ==
  ASSUME TypeInv, NEW w \in Workers, NEW stage \in 1..Stages,
         worker[w].at \in ExecutingPoints, GotoStage(w, stage)
  PROVE  Continues(w)
<1> DEFINE at == At(w, "stage")
           next == [at EXCEPT !.stage = stage]
<1>0. "stage" \in ExecutingPoints
  BY DEF ExecutingPoints
<1>1. /\ at \in WorkerState /\ at.at = "stage"
      /\ at.job = worker[w].job /\ at.token = worker[w].token
      /\ at.attempt = worker[w].attempt
  BY <1>0, AtPoint
<1>2. worker' = [worker EXCEPT ![w] = next]
  BY DEF GotoStage
<1> HIDE DEF at
<1>3. /\ next \in WorkerState /\ next.at = "stage"
      /\ next.job = worker[w].job /\ next.token = worker[w].token
      /\ next.attempt = worker[w].attempt
  BY <1>1 DEF WorkerState
<1> HIDE DEF next
<1>4. GoesOn(worker[w], next)
  BY <1>0, <1>3 DEF GoesOn
<1>5. QED
  BY <1>2, <1>3, <1>4, NextContinues

LEMMA GotoLastTryContinues ==
  ASSUME TypeInv, NEW w \in Workers, NEW point \in ExecutingPoints,
         worker[w].at \in ExecutingPoints,
         point = "retrying" => worker[w].attempt < MaxAttempts,
         GotoLastTry(w, point)
  PROVE  Continues(w)
<1> DEFINE at == At(w, point)
           next == [at EXCEPT !.lastTry = TRUE]
<1>1. /\ at \in WorkerState /\ at.at = point
      /\ at.job = worker[w].job /\ at.token = worker[w].token
      /\ at.attempt = worker[w].attempt
  BY AtPoint
<1>2. worker' = [worker EXCEPT ![w] = next]
  BY DEF GotoLastTry
<1> HIDE DEF at
<1>3. /\ next \in WorkerState /\ next.at = point
      /\ next.job = worker[w].job /\ next.token = worker[w].token
      /\ next.attempt = worker[w].attempt
  BY <1>1 DEF WorkerState
<1> HIDE DEF next
<1>4. GoesOn(worker[w], next)
  BY <1>3 DEF GoesOn
<1>5. QED
  BY <1>2, <1>3, <1>4, NextContinues

LEMMA DownState == Down \in WorkerState /\ Down.at = "down"
<1>1. 0 \in 0..MaxAttempts /\ 1 \in 1..Stages /\ 0 \in Nat /\ {} \in SUBSET Expired
  BY EvidenceAssumption
<1>2. QED
  BY <1>1 DEF Down, WorkerState

LEMMA LoopContinues ==
  ASSUME TypeInv, NEW w \in Workers, ReturnToLoop(w)
  PROVE  Continues(w)
<1> DEFINE stop == worker[w].stop
           next == [Down EXCEPT !.at = "idle", !.stop = stop]
<1>1. stop \in BOOLEAN
  BY DEF TypeInv, TypeOK, WorkerState
<1>2. worker' = [worker EXCEPT ![w] = next]
  BY DEF ReturnToLoop
<1> HIDE DEF stop
<1>3. next \in WorkerState /\ next.at = "idle"
  BY <1>1, DownState DEF WorkerState
<1> HIDE DEF next
<1>4. next.at \in RestingPoints
  BY <1>3 DEF RestingPoints
<1>5. QED
  BY <1>2, <1>3, <1>4, NextContinues

LEMMA RetryPoint ==
  ASSUME TypeInv, NEW w \in Workers
  PROVE  /\ Retry(w) \in ExecutingPoints
         /\ Retry(w) = "retrying" => worker[w].attempt < MaxAttempts
BY DEF Retry, ExecutingPoints, ClosingPoints

(* Heartbeats, binding reads and stops write one local and go on.           *)
LEMMA SameJobContinues ==
  ASSUME TypeInv, NEW w \in Workers, NEW next \in WorkerState,
         worker[w].at \in ExecutingPoints,
         next.at = worker[w].at \/ next.at \in ExecutingPoints \ {"retrying"},
         next.job = worker[w].job, next.token = worker[w].token,
         next.attempt = worker[w].attempt,
         worker' = [worker EXCEPT ![w] = next]
  PROVE  Continues(w)
<1>1. GoesOn(worker[w], next)
  BY DEF GoesOn
<1>2. QED
  BY <1>1, NextContinues

LEMMA NextStageContinues ==
  ASSUME TypeInv, NEW w \in Workers, worker[w].at \in ExecutingPoints, NextStage(w)
  PROVE  Continues(w)
<1>1. CASE worker[w].stage < Stages
  <2>1. worker[w].stage + 1 \in 1..Stages
    BY <1>1, EvidenceAssumption DEF TypeInv, TypeOK, WorkerState
  <2>2. QED
    BY <1>1, <2>1, GotoStageContinues DEF NextStage
<1>2. CASE ~(worker[w].stage < Stages)
  BY <1>2, GotoContinues DEF NextStage, ExecutingPoints
<1>3. QED
  BY <1>1, <1>2

LEMMA StageFailsContinues ==
  ASSUME TypeInv, NEW w \in Workers, worker[w].at \in ExecutingPoints, StageFails(w)
  PROVE  Continues(w)
<1>1. \/ Goto(w, "cancelling") \/ Goto(w, "failing") \/ Goto(w, Retry(w))
  BY DEF StageFails
<1>2. {"cancelling", "failing"} \subseteq ExecutingPoints
  BY DEF ExecutingPoints, ClosingPoints
<1>3. QED
  BY <1>1, <1>2, RetryPoint, GotoContinues

(* Everything a worker does after its claim.                                *)
LEMMA ExecuteContinues ==
  ASSUME TypeInv, NEW w \in Workers, ExecuteStep(w)
  PROVE  Continues(w)
<1>0. {"stage", "invalid", "cancelling", "failing", "advancing", "starting", "operating",
       "binding", "bound", "succeeding", "validating"} \subseteq ExecutingPoints \ {"retrying"}
  BY DEF ExecutingPoints, ClosingPoints
<1>1. CASE RevalidateSelection(w)
  <2>1. worker[w].at \in ExecutingPoints
    BY <1>0, <1>1 DEF RevalidateSelection
  <2>2. QED
    BY <1>0, <1>1, <2>1, RetryPoint, GotoContinues DEF RevalidateSelection
<1>2. CASE BeginStage(w)
  <2>1. worker[w].at \in ExecutingPoints
    BY <1>0, <1>2 DEF BeginStage
  <2>2. \/ ReturnToLoop(w) \/ Goto(w, "cancelling") \/ NextStage(w)
        \/ GotoLastTry(w, "failing") \/ Goto(w, "advancing")
    BY <1>2 DEF BeginStage
  <2>3. QED
    BY <1>0, <2>1, <2>2, LoopContinues, GotoContinues, GotoLastTryContinues,
       NextStageContinues
<1>3. CASE Advance(w)
  <2>1. worker[w].at \in ExecutingPoints /\ (Goto(w, "starting") \/ Goto(w, "cancelling"))
    BY <1>0, <1>3 DEF Advance
  <2>2. QED
    BY <1>0, <2>1, GotoContinues
<1>4. CASE StartOperation(w)
  <2>1. worker[w].at \in ExecutingPoints /\ (ReturnToLoop(w) \/ Goto(w, "operating"))
    BY <1>0, <1>4 DEF StartOperation
  <2>2. QED
    BY <1>0, <2>1, LoopContinues, GotoContinues
<1>5. CASE OperationEnds(w)
  <2>1. worker[w].at \in ExecutingPoints
    BY <1>0, <1>5 DEF OperationEnds
  <2>2. \/ Goto(w, "cancelling") \/ ReturnToLoop(w) \/ Goto(w, "binding") \/ StageFails(w)
    BY <1>5 DEF OperationEnds
  <2>3. QED
    BY <1>0, <2>1, <2>2, LoopContinues, GotoContinues, StageFailsContinues
<1>6. CASE ReadForBinding(w)
  <2>1. worker[w].at \in ExecutingPoints
    BY <1>0, <1>6 DEF ReadForBinding
  <2>2. CASE ReturnToLoop(w)
    BY <2>2, LoopContinues
  <2>3. CASE /\ \E lag \in Lags : Owned(w, lag)
             /\ worker' = [worker EXCEPT ![w].at = "bound", ![w].seen = Row(w).version]
    <3> DEFINE version == Row(w).version
               next == [worker[w] EXCEPT !.at = "bound", !.seen = version]
    <3>1. worker[w] \in WorkerState /\ worker[w].job \in Jobs
      BY <2>1 DEF TypeInv, TypeOK, Remembers
    <3>2. version \in Nat
      BY <3>1 DEF Row, TypeInv, TypeOK, JobRow
    <3>3. worker' = [worker EXCEPT ![w] = next]
      BY <2>3 DEF TypeInv, TypeOK
    <3> HIDE DEF version
    <3>4. /\ next \in WorkerState /\ next.at = "bound"
          /\ next.job = worker[w].job /\ next.token = worker[w].token
          /\ next.attempt = worker[w].attempt
      BY <1>0, <3>1, <3>2 DEF WorkerState
    <3> HIDE DEF next
    <3>5. QED
      BY <1>0, <2>1, <3>3, <3>4, SameJobContinues
  <2>4. QED
    BY <1>6, <2>2, <2>3 DEF ReadForBinding
<1>7. CASE WriteBinding(w)
  <2>1. worker[w].at \in ExecutingPoints /\ (NextStage(w) \/ StageFails(w))
    BY <1>0, <1>7 DEF WriteBinding
  <2>2. QED
    BY <2>1, NextStageContinues, StageFailsContinues
<1>8. CASE FinishSuccess(w) \/ FinishFailure(w)
  <2>1. worker[w].at \in ExecutingPoints
    BY <1>0, <1>8 DEF FinishSuccess, FinishFailure
  <2>2. ReturnToLoop(w) \/ Goto(w, "failing") \/ Goto(w, "cancelling")
    BY <1>8 DEF FinishSuccess, FinishFailure
  <2>3. QED
    BY <1>0, <2>1, <2>2, LoopContinues, GotoContinues
<1>9. CASE FinishInvalidSelection(w) \/ FinishCancelled(w)
  BY <1>9, LoopContinues DEF FinishInvalidSelection, FinishCancelled
<1>10. CASE ScheduleRetry(w)
  <2>1. worker[w].at \in ExecutingPoints
    BY <1>10 DEF ScheduleRetry, ExecutingPoints, ClosingPoints
  <2>2. ReturnToLoop(w) \/ Goto(w, "cancelling")
    BY <1>10 DEF ScheduleRetry
  <2>3. QED
    BY <1>0, <2>1, <2>2, LoopContinues, GotoContinues
<1>11. QED
  BY <1>1, <1>2, <1>3, <1>4, <1>5, <1>6, <1>7, <1>8, <1>9, <1>10 DEF ExecuteStep

(* And what it does around it; only a claim gives it another job.           *)
LEMMA OtherContinues ==
  ASSUME TypeInv, NEW w \in Workers,
         \/ RecoverExpired(w) \/ FinishRecovered(w) \/ ClaimNothing(w) \/ Heartbeat(w)
         \/ StorageError(w) \/ StartWorker(w) \/ RequestStop(w) \/ ExitLoop(w) \/ Crash(w)
  PROVE  Continues(w)
<1>1. worker[w] \in WorkerState
  BY DEF TypeInv, TypeOK
<1>2. CASE RecoverExpired(w)
  <2>1. PICK lag \in Lags : worker' = [worker EXCEPT ![w].at = "recovering",
            ![w].todo = {[job |-> j, cancel |-> jobs[j].cancel, token |-> jobs[j].token,
                          lease |-> jobs[j].lease] : j \in ToClose(lag)}]
    BY <1>2 DEF RecoverExpired
  <2> DEFINE todo == {[job |-> j, cancel |-> jobs[j].cancel, token |-> jobs[j].token,
                       lease |-> jobs[j].lease] : j \in ToClose(lag)}
             next == [worker[w] EXCEPT !.at = "recovering", !.todo = todo]
  <2>2. todo \in SUBSET Expired
    BY DEF ToClose, Expired, TypeInv, TypeOK, JobRow
  <2>3. worker' = [worker EXCEPT ![w] = next]
    BY <2>1 DEF TypeInv, TypeOK
  <2> HIDE DEF todo
  <2>4. next \in WorkerState /\ next.at = "recovering"
    BY <1>1, <2>2 DEF WorkerState
  <2> HIDE DEF next
  <2>5. next.at \in RestingPoints
    BY <2>4 DEF RestingPoints
  <2>6. QED
    BY <2>3, <2>4, <2>5, NextContinues
<1>3. CASE FinishRecovered(w)
  <2>1. PICK e \in worker[w].todo : worker' = [worker EXCEPT ![w].todo = @ \ {e}]
    BY <1>3 DEF FinishRecovered
  <2> DEFINE todo == worker[w].todo \ {e}
             next == [worker[w] EXCEPT !.todo = todo]
  <2>2. todo \in SUBSET Expired /\ worker[w].at = "recovering"
    BY <1>1, <1>3 DEF FinishRecovered, WorkerState
  <2>3. worker' = [worker EXCEPT ![w] = next]
    BY <2>1 DEF TypeInv, TypeOK
  <2> HIDE DEF todo
  <2>4. next \in WorkerState /\ next.at = "recovering"
    BY <1>1, <2>2 DEF WorkerState
  <2> HIDE DEF next
  <2>5. next.at \in RestingPoints
    BY <2>4 DEF RestingPoints
  <2>6. QED
    BY <2>3, <2>4, <2>5, NextContinues
<1>4. CASE ClaimNothing(w)
  BY <1>4, LoopContinues DEF ClaimNothing
<1>5. CASE Heartbeat(w)
  <2>1. worker[w].at \in ExecutingPoints
    BY <1>5 DEF Heartbeat, ExecutingPoints
  <2>2. \/ worker' = [worker EXCEPT ![w].cancelSeen = @ \/ Row(w).cancel]
        \/ worker' = [worker EXCEPT ![w].lost = TRUE]
    BY <1>5 DEF Heartbeat
  <2> DEFINE seen == worker[w].cancelSeen \/ Row(w).cancel
  <2>3. seen \in BOOLEAN
    OBVIOUS
  <2>4. PICK next \in {[worker[w] EXCEPT !.cancelSeen = seen], [worker[w] EXCEPT !.lost = TRUE]} :
          worker' = [worker EXCEPT ![w] = next]
    BY <2>2 DEF TypeInv, TypeOK
  <2> HIDE DEF seen
  <2>5. /\ next \in WorkerState /\ next.at = worker[w].at
        /\ next.job = worker[w].job /\ next.token = worker[w].token
        /\ next.attempt = worker[w].attempt
    BY <1>1, <2>3 DEF WorkerState
  <2>6. QED
    BY <2>1, <2>4, <2>5, SameJobContinues
<1>6. CASE StorageError(w)
  <2>1. CASE ReturnToLoop(w)
    BY <2>1, LoopContinues
  <2>2. CASE worker[w].at \in ExecutingPoints /\ GotoLastTry(w, Retry(w))
    BY <2>2, RetryPoint, GotoLastTryContinues
  <2>3. QED
    BY <1>6, <2>1, <2>2 DEF StorageError
<1>7. CASE StartWorker(w)
  <2> DEFINE next == [worker[w] EXCEPT !.at = "idle"]
  <2>1. worker' = [worker EXCEPT ![w] = next]
    BY <1>7 DEF StartWorker, TypeInv, TypeOK
  <2>2. next \in WorkerState /\ next.at \in RestingPoints
    BY <1>1 DEF WorkerState, RestingPoints
  <2>3. QED
    BY <2>1, <2>2, NextContinues
<1>8. CASE RequestStop(w)
  <2> DEFINE next == [worker[w] EXCEPT !.stop = TRUE]
  <2>1. worker' = [worker EXCEPT ![w] = next]
    BY <1>8 DEF RequestStop, TypeInv, TypeOK
  <2>2. /\ next \in WorkerState /\ next.at = worker[w].at
        /\ next.job = worker[w].job /\ next.token = worker[w].token
        /\ next.attempt = worker[w].attempt
    BY <1>1 DEF WorkerState
  <2> HIDE DEF next
  <2>3. next.at \in RestingPoints \/ worker[w].at \in ExecutingPoints
    BY <1>1, <2>2 DEF WorkerState, RestingPoints
  <2>4. QED
    BY <2>1, <2>2, <2>3, NextContinues, SameJobContinues
<1>9. CASE ExitLoop(w) \/ Crash(w)
  <2>1. Down.at \in RestingPoints
    BY DownState DEF RestingPoints
  <2>2. QED
    BY <1>9, <2>1, DownState, NextContinues DEF ExitLoop, Crash
<1>10. QED
  BY <1>2, <1>3, <1>4, <1>5, <1>6, <1>7, <1>8, <1>9

-----------------------------------------------------------------------------
(* What one step can do to one row.  The table is written by requests, by   *)
(* the holder of a lease, by recoveries and by holders that lost theirs;    *)
(* every property of the rows is a fact about these moves.                  *)

Kept(p, q) ==
  /\ q.state = p.state /\ q.attempts = p.attempts /\ q.cancel = p.cancel
  /\ q.token = p.token /\ q.progress >= p.progress
  /\ q.lease = NULL => p.lease = NULL
  /\ q.nextAttempt = NULL => p.nextAttempt = NULL
  /\ p.state = "absent" => q = p

Inserted(p, q) ==
  /\ p.state = "absent" /\ q.state = "queued"
  /\ q.attempts = 0 /\ q.nextAttempt # NULL /\ ~q.cancel

TakenUp(p, q) ==
  /\ p.state = "queued" /\ p.attempts < MaxAttempts
  /\ q.state = "running" /\ q.attempts = p.attempts + 1 /\ ~q.cancel
  /\ q.token \in Tokens /\ q.lease # NULL /\ q.progress = p.progress

CancelNoted(p, q) ==
  /\ p.state = "running" /\ ~p.cancel /\ q.state = "running" /\ q.cancel
  /\ q.token = p.token /\ q.lease = p.lease
  /\ q.attempts = p.attempts /\ q.progress = p.progress

PutBack(p, q) ==
  /\ p.state = "running" /\ ~p.cancel /\ p.attempts < MaxAttempts
  /\ q.state = "queued" /\ q.nextAttempt # NULL /\ ~q.cancel
  /\ q.attempts = p.attempts /\ q.progress = p.progress

Ended(p, q) ==
  /\ p.state \in ActiveStates /\ q.attempts = p.attempts
  /\ p.state = "queued" => q.state = "cancelled"
  /\ p.state = "running" /\ ~p.cancel => q.state \in {"succeeded", "partial", "failed"}
  /\ p.state = "running" /\ p.cancel => q.state \in {"cancelled", "failed"}
  /\ q.progress < p.progress => q.state = "failed"

Erased(p, q) == p.state \in TerminalStates /\ q = NoJob

Moved(p, q) == Kept(p, q) \/ CancelNoted(p, q) \/ PutBack(p, q) \/ Ended(p, q)

RowStep(j) ==
  \/ Moved(jobs[j], jobs'[j])
  \/ Inserted(jobs[j], jobs'[j])
  \/ TakenUp(jobs[j], jobs'[j]) /\ Fresh(jobs'[j].token)
  \/ Erased(jobs[j], jobs'[j]) /\ request' = [r \in Requests |-> NoRequest]

TableMoves == jobs' \in [Jobs -> JobRow] /\ \A j \in Jobs : RowStep(j)

(* The inductive invariant.  ScheduleRetry compares the attempt that the    *)
(* worker remembers with the budget, not the one in the row it puts back,   *)
(* so whoever still holds the token must remember the attempt of the row.   *)
GoodRow(row) ==
  /\ row.state = "absent" => row = NoJob
  /\ row.state = "queued" =>
       row.nextAttempt # NULL /\ row.attempts < MaxAttempts /\ ~row.cancel
  /\ row.state = "running" => row.token # NULL /\ row.lease # NULL

HoldersKnowTheirAttempt ==
  \A w \in Workers :
    /\ worker[w].at \in ExecutingPoints
    /\ Row(w).state = "running"
    /\ Row(w).token = worker[w].token
    => Row(w).attempts = worker[w].attempt

Inv ==
  /\ TypeInv
  /\ \A j \in Jobs : GoodRow(jobs[j])
  /\ HoldersKnowTheirAttempt

LEMMA NumbersAreNotNull ==
  /\ \A n \in Int : n # NULL
  /\ \A t \in Tokens : t # NULL
BY EvidenceAssumption

LEMMA StillKept ==
  ASSUME TypeInv, NEW j \in Jobs, jobs'[j] = jobs[j]
  PROVE  RowStep(j)
BY DEF TypeInv, TypeOK, JobRow, RowStep, Moved, Kept

LEMMA TableRests ==
  ASSUME TypeInv, jobs' = jobs
  PROVE  TableMoves
BY StillKept DEF TableMoves, TypeInv, TypeOK

(* Statements that write one row.                                           *)
LEMMA OneRowMoves ==
  ASSUME TypeInv, NEW i \in Jobs, NEW row \in JobRow,
         jobs' = [jobs EXCEPT ![i] = row],
         Moved(jobs[i], row) \/ Inserted(jobs[i], row) \/ (TakenUp(jobs[i], row) /\ Fresh(row.token))
  PROVE  TableMoves
<1>1. jobs' \in [Jobs -> JobRow] /\ jobs'[i] = row
  BY DEF TypeInv, TypeOK
<1>2. RowStep(i)
  BY <1>1 DEF RowStep
<1>3. ASSUME NEW j \in Jobs, j # i PROVE RowStep(j)
  <2>1. jobs'[j] = jobs[j]
    BY <1>3 DEF TypeInv, TypeOK
  <2>2. QED
    BY <2>1, StillKept
<1>4. QED
  BY <1>1, <1>2, <1>3 DEF TableMoves

LEMMA HolderMoves ==
  ASSUME TypeInv, NEW w \in Workers, worker[w].at \in ExecutingPoints,
         NEW row \in JobRow, Moved(Row(w), row), SetRow(w, row)
  PROVE  TableMoves
<1>1. worker[w].job \in Jobs
  BY DEF TypeInv, Remembers
<1>2. QED
  BY <1>1, OneRowMoves DEF Row, SetRow

LEMMA HoldersRow ==
  ASSUME TypeInv, NEW w \in Workers, worker[w].at \in ExecutingPoints
  PROVE  Row(w) \in JobRow
BY DEF TypeInv, TypeOK, Remembers, Row

(* How running rows end.                                                    *)
LEMMA CancellationsEnd ==
  ASSUME NEW p \in JobRow, p.state = "running", p.cancel, NEW q \in Cancellations(p)
  PROVE  q \in JobRow /\ Moved(p, q)
<1>1. q \in JobRow /\ q.attempts = p.attempts
  BY ClosedRow, UnboundRow DEF Cancellations, TerminalStates
<1>2. \/ q.state = "cancelled" /\ q.progress = p.progress
      \/ q.state = "failed"
  BY ClosedRow, UnboundRow DEF Cancellations, TerminalStates
<1>3. Ended(p, q)
  BY <1>1, <1>2 DEF Ended, JobRow, ActiveStates
<1>4. QED
  BY <1>1, <1>3 DEF Moved

LEMMA FailuresEnd ==
  ASSUME NEW p \in JobRow, p.state = "running", ~p.cancel, NEW q \in Failures(p)
  PROVE  q \in JobRow /\ Moved(p, q)
<1> DEFINE state == IF p.progress > 0 THEN "partial" ELSE "failed"
<1>1. state \in {"partial", "failed"} /\ state \in TerminalStates
  BY DEF TerminalStates
<1>2. q = Closed(p, state) \/ q = Unbound(p)
  BY DEF Failures
<1> HIDE DEF state
<1>3. q \in JobRow /\ q.attempts = p.attempts
  BY <1>1, <1>2, ClosedRow, UnboundRow
<1>4. \/ q.state = state /\ q.progress = p.progress
      \/ q.state = "failed"
  BY <1>1, <1>2, ClosedRow, UnboundRow
<1>5. Ended(p, q)
  BY <1>1, <1>3, <1>4 DEF Ended, JobRow, ActiveStates
<1>6. QED
  BY <1>3, <1>5 DEF Moved

-----------------------------------------------------------------------------
(* Every action moves every row.                                            *)

LEMMA EnqueuedInserted ==
  ASSUME NEW x \in Selections, NEW k \in Keys, NEW lag \in Lags, NEW p, p.state = "absent"
  PROVE  Enqueued(x, k, lag) \in JobRow /\ Inserted(p, Enqueued(x, k, lag))
<1> DEFINE row == Enqueued(x, k, lag)
<1>1. /\ row \in JobRow /\ row.state = "queued"
      /\ row.nextAttempt \in Int /\ row.attempts = 0 /\ ~row.cancel
  BY EnqueuedRow
<1> HIDE DEF row
<1>2. QED
  BY <1>1, NumbersAreNotNull DEF row, Inserted

LEMMA RowsRequest ==
  ASSUME Inv, NEW r \in Requests, RequestStep(r)
  PROVE  TableMoves
<1> USE DEF Inv
<1>1. CASE CommitEnqueue(r)
  <2> DEFINE x == request[r].selection
             k == request[r].key
  <2>1. x \in Selections /\ k \in Keys
    BY <1>1 DEF CommitEnqueue, TypeInv, Asks
  <2>2. CASE UNCHANGED jobs
    BY <2>2, TableRests
  <2>3. CASE ~UNCHANGED jobs
    <3>1. PICK j \in Jobs, lag \in Lags :
            /\ jobs[j].state = "absent"
            /\ jobs' = [jobs EXCEPT ![j] = Enqueued(x, k, lag)]
      BY <1>1, <2>3 DEF CommitEnqueue
    <3> HIDE DEF x, k
    <3>2. Enqueued(x, k, lag) \in JobRow /\ Inserted(jobs[j], Enqueued(x, k, lag))
      BY <2>1, <3>1, EnqueuedInserted
    <3>3. QED
      BY <3>1, <3>2, OneRowMoves
  <2>4. QED
    BY <2>2, <2>3
<1>2. CASE SwapCancel(r)
  <2> DEFINE i == request[r].job
  <2>1. i \in Jobs /\ jobs[i] \in JobRow /\ request[r].state \in ActiveStates
    BY <1>2 DEF SwapCancel, TypeInv, TypeOK, Asks, AskingPoints
  <2>2. CASE UNCHANGED jobs
    BY <2>2, TableRests
  <2>3. CASE /\ jobs[i].state = "queued"
             /\ jobs' = [jobs EXCEPT ![i] = Withdrawn(jobs[i])]
    <3>1. Withdrawn(jobs[i]) \in JobRow /\ Ended(jobs[i], Withdrawn(jobs[i]))
      BY <2>1, <2>3, WithdrawnRow DEF Ended, JobRow, ActiveStates
    <3>2. QED
      BY <2>1, <2>3, <3>1, OneRowMoves DEF Moved
  <2>4. CASE /\ jobs[i].state = "running" /\ ~jobs[i].cancel
             /\ jobs' = [jobs EXCEPT ![i] = Marked(jobs[i])]
    <3>1. Marked(jobs[i]) \in JobRow /\ CancelNoted(jobs[i], Marked(jobs[i]))
      BY <2>1, <2>4, MarkedRow DEF CancelNoted
    <3>2. QED
      BY <2>1, <2>4, <3>1, OneRowMoves DEF Moved
  <2>5. QED
    BY <1>2, <2>1, <2>2, <2>3, <2>4 DEF SwapCancel, ActiveStates
<1>3. QED
  BY <1>1, <1>2, TableRests
     DEF RequestStep, BeginEnqueue, BeginCancel, ObserveForCancel, AnswerCancel, CloseResponse

LEMMA RowsErase ==
  ASSUME Inv, EraseCase
  PROVE  TableMoves
<1>1. jobs' \in [Jobs -> JobRow]
  BY NoJobRow DEF EraseCase
<1>2. ASSUME NEW j \in Jobs PROVE RowStep(j)
  <2>1. jobs[j] \in JobRow /\ jobs[j].state \notin ActiveStates /\ jobs'[j] = NoJob
    BY DEF EraseCase, Inv, TypeInv, TypeOK
  <2>2. CASE jobs[j].state = "absent"
    BY <2>1, <2>2, StillKept DEF Inv, GoodRow
  <2>3. CASE jobs[j].state \in TerminalStates
    BY <2>1, <2>3 DEF RowStep, Erased, EraseCase
  <2>4. QED
    BY <2>1, <2>2, <2>3 DEF JobRow
<1>3. QED
  BY <1>1, <1>2 DEF TableMoves

LEMMA OlderNothing == OlderRow(NoJob) = NoJob
<1>1. Aged(NULL) = NULL
  BY DEF Aged
<1>2. ASSUME NEW row \in JobRow, row.nextAttempt = NULL, row.lease = NULL
      PROVE  OlderRow(row) = row
  BY <1>1, <1>2 DEF OlderRow, JobRow
<1>3. NoJob.nextAttempt = NULL /\ NoJob.lease = NULL
  BY DEF NoJob
<1>4. QED
  BY <1>2, <1>3, NoJobRow

LEMMA RowsTick ==
  ASSUME Inv, Tick
  PROVE  TableMoves
<1>1. ASSUME NEW j \in Jobs PROVE jobs'[j] \in JobRow /\ RowStep(j)
  <2>1. jobs[j] \in JobRow /\ jobs'[j] = OlderRow(jobs[j]) /\ GoodRow(jobs[j])
    BY <1>1 DEF Tick, Inv, TypeInv, TypeOK
  <2>2. Kept(jobs[j], OlderRow(jobs[j]))
    BY <2>1, OlderJob, OlderNothing DEF Kept, GoodRow, JobRow
  <2>3. QED
    BY <2>1, <2>2, OlderJob DEF RowStep, Moved
<1>2. jobs' \in [Jobs -> JobRow]
  BY <1>1 DEF Tick
<1>3. QED
  BY <1>1, <1>2 DEF TableMoves

LEMMA RowsRecover ==
  ASSUME Inv, NEW w \in Workers, RecoverExpired(w)
  PROVE  TableMoves
<1>1. PICK lag \in Lags :
        jobs' = [j \in Jobs |-> IF Retriable(jobs[j], lag) THEN Requeued(jobs[j], -lag)
                                                           ELSE jobs[j]]
  BY DEF RecoverExpired
<1>2. ASSUME NEW j \in Jobs PROVE jobs'[j] \in JobRow /\ RowStep(j)
  <2>1. jobs[j] \in JobRow /\ -lag \in Int
    BY LagsAreInts DEF Inv, TypeInv, TypeOK
  <2>2. CASE Retriable(jobs[j], lag)
    <3> DEFINE row == Requeued(jobs[j], -lag)
    <3>1. /\ row \in JobRow /\ row.state = "queued" /\ row.nextAttempt = -lag
          /\ row.attempts = jobs[j].attempts /\ row.cancel = jobs[j].cancel
          /\ row.progress = jobs[j].progress
      BY <2>1, RequeuedRow
    <3>2. jobs'[j] = row
      BY <1>1, <2>2
    <3> HIDE DEF row
    <3>3. PutBack(jobs[j], row)
      BY <2>1, <2>2, <3>1, NumbersAreNotNull DEF PutBack, Retriable, RunningExpired
    <3>4. QED
      BY <3>1, <3>2, <3>3 DEF RowStep, Moved
  <2>3. CASE ~Retriable(jobs[j], lag)
    BY <1>1, <2>1, <2>3, StillKept DEF Inv
  <2>4. QED
    BY <2>2, <2>3
<1>3. jobs' \in [Jobs -> JobRow]
  BY <1>1, <1>2
<1>4. QED
  BY <1>2, <1>3 DEF TableMoves

LEMMA RowsFinishRecovered ==
  ASSUME Inv, NEW w \in Workers, FinishRecovered(w)
  PROVE  TableMoves
<1>1. CASE UNCHANGED jobs
  BY <1>1, TableRests DEF Inv
<1>2. CASE ~UNCHANGED jobs
  <2>1. PICK e \in worker[w].todo :
          /\ StillExpired(jobs[e.job], e)
          /\ \E row \in IF jobs[e.job].cancel THEN Cancellations(jobs[e.job])
                                              ELSE Failures(jobs[e.job]) :
               jobs' = [jobs EXCEPT ![e.job] = row]
    BY <1>2 DEF FinishRecovered
  <2>2. e.job \in Jobs
    BY DEF Inv, TypeInv, TypeOK, WorkerState, Expired
  <2>3. jobs[e.job] \in JobRow /\ jobs[e.job].state = "running"
    BY <2>1, <2>2 DEF Inv, TypeInv, TypeOK, StillExpired
  <2>4. PICK row \in IF jobs[e.job].cancel THEN Cancellations(jobs[e.job])
                                            ELSE Failures(jobs[e.job]) :
          jobs' = [jobs EXCEPT ![e.job] = row]
    BY <2>1
  <2>5. row \in JobRow /\ Moved(jobs[e.job], row)
    BY <2>3, CancellationsEnd, FailuresEnd
  <2>6. QED
    BY <2>2, <2>4, <2>5, OneRowMoves DEF Inv
<1>3. QED
  BY <1>1, <1>2

(* A claim needs a due job below the budget that nobody withdrew.           *)
LEMMA ClaimTakesUp ==
  ASSUME Inv, NEW w \in Workers, ClaimNext(w)
  PROVE  \E j \in Jobs, t \in Tokens, row \in JobRow :
           /\ jobs' = [jobs EXCEPT ![j] = row]
           /\ TakenUp(jobs[j], row) /\ row.token = t /\ Fresh(t)
           /\ worker' = [worker EXCEPT ![w].at = "validating", ![w].job = j, ![w].token = t,
                                       ![w].attempt = row.attempts]
<1>1. PICK lag \in Lags, t \in Tokens : \E j \in Candidates(lag) :
       /\ Fresh(t)
       /\ jobs' = [jobs EXCEPT ![j] = Claimed(@, t, lag)]
       /\ worker' = [worker EXCEPT ![w].at = "validating", ![w].job = j, ![w].token = t,
                                   ![w].attempt = jobs[j].attempts + 1]
  BY DEF ClaimNext
<1>2. PICK j \in Candidates(lag) :
       /\ Fresh(t)
       /\ jobs' = [jobs EXCEPT ![j] = Claimed(jobs[j], t, lag)]
       /\ worker' = [worker EXCEPT ![w].at = "validating", ![w].job = j, ![w].token = t,
                                   ![w].attempt = jobs[j].attempts + 1]
  BY <1>1 DEF Candidates, Inv, TypeInv, TypeOK
<1>3. /\ j \in Jobs /\ jobs[j] \in JobRow /\ jobs[j].state = "queued"
      /\ ~jobs[j].cancel /\ jobs[j].attempts < MaxAttempts
  BY DEF Candidates, Claimable, Inv, TypeInv, TypeOK
<1> DEFINE row == Claimed(jobs[j], t, lag)
<1>4. /\ row \in JobRow /\ row.state = "running" /\ row.attempts = jobs[j].attempts + 1
      /\ row.token = t /\ row.lease \in Int
      /\ row.cancel = jobs[j].cancel /\ row.progress = jobs[j].progress
  BY <1>3, ClaimedRow
<1> HIDE DEF row
<1>5. TakenUp(jobs[j], row)
  BY <1>3, <1>4, NumbersAreNotNull DEF TakenUp
<1>6. QED
  BY <1>2, <1>3, <1>4, <1>5 DEF row

LEMMA LeaseExtended ==
  ASSUME NEW p \in JobRow, p.state = "running", NEW lag \in Lags, NEW version \in Nat,
         NEW progress \in 0..Stages, progress >= p.progress
  PROVE  LET q == Leased(p, lag, progress, version) IN
         q \in JobRow /\ Moved(p, q)
<1> DEFINE q == Leased(p, lag, progress, version)
<1>1. /\ q \in JobRow
      /\ q.lease \in Int /\ q.nextAttempt = p.nextAttempt
      /\ q.state = p.state /\ q.progress = progress
      /\ q.attempts = p.attempts /\ q.token = p.token /\ q.cancel = p.cancel
  BY LeasedRow
<1> HIDE DEF q
<1>2. Kept(p, q)
  BY <1>1, NumbersAreNotNull DEF Kept
<1>3. QED
  BY <1>1, <1>2 DEF Moved, q

LEMMA RowsExecute ==
  ASSUME Inv, NEW w \in Workers, ExecuteStep(w) \/ Heartbeat(w)
  PROVE  TableMoves
<1>0. TypeInv
  BY DEF Inv
<1>1. CASE UNCHANGED jobs
  BY <1>0, <1>1, TableRests
<1>2. CASE worker[w].at \in ExecutingPoints /\ ~UNCHANGED jobs
  <2> DEFINE p == Row(w)
  <2>1. p \in JobRow
    BY <1>0, <1>2, HoldersRow
  <2>2. ASSUME NEW q \in JobRow, Moved(p, q), SetRow(w, q)
        PROVE  TableMoves
    BY <1>0, <1>2, <2>2, HolderMoves
  <2>3. CASE Heartbeat(w)
    <3>1. PICK lag \in Lags : Owned(w, lag) /\ SetRow(w, Extended(p, lag))
      BY <1>2, <2>3 DEF Heartbeat
    <3>2. /\ Extended(p, lag) = Leased(p, lag, p.progress, p.version)
          /\ p.version \in Nat /\ p.progress \in 0..Stages /\ p.progress >= p.progress
      BY <2>1, ExtendedRow
    <3> HIDE DEF p
    <3>3. Extended(p, lag) \in JobRow /\ Moved(p, Extended(p, lag))
      <4>1. p.state = "running"
        BY <3>1 DEF Owned, p
      <4>2. QED
        BY <2>1, <3>2, <4>1, LeaseExtended
    <3>4. QED
      BY <2>2, <3>1, <3>3 DEF p
  <2>4. CASE Advance(w)
    <3>1. PICK lag \in Lags : OwnedUncancelled(w, lag) /\ SetRow(w, Advanced(p, lag))
      BY <1>2, <2>4 DEF Advance
    <3> DEFINE version == p.version + 1
    <3>2. /\ Advanced(p, lag) = Leased(p, lag, p.progress, version)
          /\ version \in Nat /\ p.progress \in 0..Stages /\ p.progress >= p.progress
      BY <2>1, ExtendedRow
    <3>3. p.state = "running"
      BY <3>1 DEF OwnedUncancelled, Owned
    <3> HIDE DEF p, version
    <3>4. Advanced(p, lag) \in JobRow /\ Moved(p, Advanced(p, lag))
      BY <2>1, <3>2, <3>3, LeaseExtended
    <3>5. QED
      BY <2>2, <3>1, <3>4 DEF p
  <2>5. CASE WriteBinding(w)
    <3>1. PICK lag \in Lags : BindingAllowed(w) /\ SetRow(w, BoundRow(w, lag))
      BY <1>2, <2>5 DEF WriteBinding
    <3> DEFINE version == worker[w].seen + 1
               stage == worker[w].stage
    <3>2. version \in Nat /\ stage \in 0..Stages /\ stage >= p.progress /\ p.state = "running"
      BY <1>0, <2>1, <3>1, EvidenceAssumption
         DEF BindingAllowed, TypeInv, TypeOK, WorkerState, JobRow
    <3>3. BoundRow(w, lag) = Leased(p, lag, stage, version)
      BY DEF BoundRow, Leased
    <3> HIDE DEF version, stage, p
    <3>4. BoundRow(w, lag) \in JobRow /\ Moved(p, BoundRow(w, lag))
      BY <2>1, <3>2, <3>3, LeaseExtended
    <3>5. QED
      BY <2>2, <3>1, <3>4 DEF p
  <2>6. CASE FinishSuccess(w)
    <3>1. PICK lag \in Lags : OwnedUncancelled(w, lag) /\ SetRow(w, Closed(p, "succeeded"))
      BY <1>2, <2>6 DEF FinishSuccess
    <3> DEFINE q == Closed(p, "succeeded")
    <3>2. /\ q \in JobRow /\ q.state = "succeeded"
          /\ q.attempts = p.attempts /\ q.progress = p.progress
      BY <2>1, ClosedRow DEF TerminalStates
    <3> HIDE DEF q
    <3>3. Ended(p, q)
      BY <2>1, <3>1, <3>2 DEF Ended, OwnedUncancelled, Owned, ActiveStates, JobRow
    <3>4. QED
      BY <2>2, <3>1, <3>2, <3>3 DEF Moved, q
  <2>7. CASE FinishFailure(w)
    <3>1. PICK lag \in Lags : OwnedUncancelled(w, lag) /\ \E q \in Failures(p) : SetRow(w, q)
      BY <1>2, <2>7 DEF FinishFailure
    <3>2. QED
      BY <2>1, <2>2, <3>1, FailuresEnd DEF OwnedUncancelled, Owned
  <2>8. CASE FinishCancelled(w)
    <3>1. PICK lag \in Lags : OwnedCancelled(w, lag) /\ \E q \in Cancellations(p) : SetRow(w, q)
      BY <1>2, <2>8 DEF FinishCancelled
    <3>2. QED
      BY <2>1, <2>2, <3>1, CancellationsEnd DEF OwnedCancelled, Owned
  <2>9. CASE FinishInvalidSelection(w)
    <3>1. PICK lag \in Lags :
            \/ OwnedCancelled(w, lag) /\ \E q \in Cancellations(p) : SetRow(w, q)
            \/ OwnedUncancelled(w, lag) /\ SetRow(w, Unbound(p))
      BY <1>2, <2>9 DEF FinishInvalidSelection
    <3>2. Unbound(p) \in Failures(p)
      BY DEF Failures
    <3>3. QED
      BY <2>1, <2>2, <3>1, <3>2, CancellationsEnd, FailuresEnd
         DEF OwnedCancelled, OwnedUncancelled, Owned
  <2>10. CASE ScheduleRetry(w)
    <3>1. PICK lag \in Lags, delay \in 1..RetryTicks :
            RetryAllowed(w, lag) /\ SetRow(w, Requeued(p, delay - lag))
      BY <1>2, <2>10 DEF ScheduleRetry
    <3> DEFINE ticks == delay - lag
               q == Requeued(p, ticks)
    <3>2. ticks \in Int
      BY LagsAreInts, EvidenceAssumption
    <3>3. p.attempts < MaxAttempts
      BY <1>0, <1>2, <2>10, <3>1
         DEF Inv, HoldersKnowTheirAttempt, RetryAllowed, OwnedUncancelled, Owned, ScheduleRetry,
             TypeInv, Remembers
    <3> HIDE DEF ticks
    <3>4. /\ q \in JobRow /\ q.state = "queued" /\ q.nextAttempt = ticks
          /\ q.attempts = p.attempts /\ q.cancel = p.cancel /\ q.progress = p.progress
      BY <2>1, <3>2, RequeuedRow
    <3>5. SetRow(w, q)
      BY <3>1 DEF ticks
    <3> HIDE DEF q
    <3>6. PutBack(p, q)
      BY <3>1, <3>2, <3>3, <3>4, NumbersAreNotNull
         DEF PutBack, RetryAllowed, OwnedUncancelled, Owned
    <3>7. QED
      BY <2>2, <3>4, <3>5, <3>6 DEF Moved
  <2>11. QED
    BY <1>2, <2>3, <2>4, <2>5, <2>6, <2>7, <2>8, <2>9, <2>10
       DEF ExecuteStep, RevalidateSelection, BeginStage, StartOperation, OperationEnds,
           ReadForBinding
<1>3. worker[w].at \in ExecutingPoints
  BY DEF ExecuteStep, RevalidateSelection, BeginStage, Advance, StartOperation, OperationEnds,
         ReadForBinding, WriteBinding, FinishSuccess, FinishFailure, FinishInvalidSelection,
         ScheduleRetry, FinishCancelled, Heartbeat, ExecutingPoints, ClosingPoints
<1>4. QED
  BY <1>1, <1>2, <1>3

LEMMA EveryRowMoves ==
  ASSUME Inv, [Next]_vars
  PROVE  TableMoves
<1>1. CASE UNCHANGED vars
  BY <1>1, TableRests DEF vars, Inv
<1>2. ASSUME NEW w \in Workers, WorkerStep(w) PROVE TableMoves
  <2>1. CASE ClaimNext(w)
    <3>1. PICK j \in Jobs, t \in Tokens, row \in JobRow :
            /\ jobs' = [jobs EXCEPT ![j] = row]
            /\ TakenUp(jobs[j], row) /\ row.token = t /\ Fresh(t)
      BY <2>1, ClaimTakesUp
    <3>2. QED
      BY <3>1, OneRowMoves DEF Inv
  <2>2. CASE ExecuteStep(w) \/ Heartbeat(w) \/ RecoverExpired(w) \/ FinishRecovered(w)
    BY <2>2, RowsExecute, RowsRecover, RowsFinishRecovered
  <2>3. CASE ClaimNothing(w) \/ StorageError(w) \/ StartWorker(w) \/ RequestStop(w)
             \/ ExitLoop(w) \/ Crash(w)
    BY <2>3, TableRests DEF Inv, ClaimNothing, StorageError, StartWorker, RequestStop,
                            ExitLoop, Crash
  <2>4. QED
    BY <1>2, <2>1, <2>2, <2>3 DEF WorkerStep
<1>3. QED
  BY <1>1, <1>2, RowsRequest, RowsErase, RowsTick DEF Next

-----------------------------------------------------------------------------
(* Every worker rests, goes on, or has just claimed a row.                  *)

HasClaimed(w) ==
  LET q == worker'[w] IN
  /\ q.at = "validating" /\ q.job \in Jobs /\ q.token \in Tokens
  /\ q.attempt = jobs'[q.job].attempts

MemoryStep(w) ==
  \/ worker'[w].at \in RestingPoints
  \/ GoesOn(worker[w], worker'[w])
  \/ HasClaimed(w)

MemoriesMove == worker' \in [Workers -> WorkerState] /\ \A w \in Workers : MemoryStep(w)

LEMMA MemoryRests ==
  ASSUME TypeInv, NEW w \in Workers,
         /\ worker'[w].at = worker[w].at /\ worker'[w].job = worker[w].job
         /\ worker'[w].token = worker[w].token /\ worker'[w].attempt = worker[w].attempt
  PROVE  MemoryStep(w)
<1>1. worker[w].at \in RestingPoints \cup ExecutingPoints
  BY DEF TypeInv, TypeOK, WorkerState, RestingPoints
<1>2. QED
  BY <1>1 DEF MemoryStep, GoesOn

LEMMA MemoriesContinue ==
  ASSUME TypeInv, NEW w \in Workers, Continues(w)
  PROVE  MemoriesMove
BY MemoryRests DEF Continues, MemoriesMove, MemoryStep

LEMMA EveryMemoryMoves ==
  ASSUME Inv, [Next]_vars
  PROVE  MemoriesMove
<1>0. TypeInv /\ worker \in [Workers -> WorkerState]
  BY DEF Inv, TypeInv, TypeOK
<1>1. CASE worker' = worker
  BY <1>0, <1>1, MemoryRests DEF MemoriesMove
<1>2. CASE Tick
  <2>1. ASSUME NEW w \in Workers
        PROVE  worker'[w] \in WorkerState /\ MemoryStep(w)
    <3> DEFINE todo == OlderFinds(worker[w].todo)
               next == [worker[w] EXCEPT !.todo = todo]
    <3>1. worker[w] \in WorkerState /\ worker'[w] = next
      BY <1>0, <1>2 DEF Tick
    <3>2. todo \in SUBSET Expired
      BY <3>1, OlderFound DEF WorkerState
    <3> HIDE DEF todo
    <3>3. /\ next \in WorkerState /\ next.at = worker[w].at /\ next.job = worker[w].job
          /\ next.token = worker[w].token /\ next.attempt = worker[w].attempt
      BY <3>1, <3>2 DEF WorkerState
    <3> HIDE DEF next
    <3>4. QED
      BY <1>0, <3>1, <3>3, MemoryRests
  <2>2. worker' \in [Workers -> WorkerState]
    BY <1>2, <2>1 DEF Tick
  <2>3. QED
    BY <2>1, <2>2 DEF MemoriesMove
<1>3. ASSUME NEW w \in Workers, ClaimNext(w) PROVE MemoriesMove
  <2>1. PICK j \in Jobs, t \in Tokens, row \in JobRow :
          /\ jobs' = [jobs EXCEPT ![j] = row]
          /\ TakenUp(jobs[j], row) /\ row.token = t /\ Fresh(t)
          /\ worker' = [worker EXCEPT ![w].at = "validating", ![w].job = j, ![w].token = t,
                                      ![w].attempt = row.attempts]
    BY <1>3, ClaimTakesUp
  <2> DEFINE attempts == row.attempts
             next == [worker[w] EXCEPT !.at = "validating", !.job = j, !.token = t,
                                       !.attempt = attempts]
  <2>2. /\ "validating" \in {"down", "idle", "recovering"} \cup ExecutingPoints
        /\ worker[w] \in WorkerState /\ attempts \in 0..MaxAttempts
    BY <1>0 DEF ExecutingPoints, JobRow
  <2>3. worker' = [worker EXCEPT ![w] = next]
    BY <1>0, <2>1
  <2>4. jobs'[j].attempts = attempts
    BY <1>0, <2>1 DEF TypeInv, TypeOK
  <2> HIDE DEF attempts
  <2>5. /\ next \in WorkerState /\ next.at = "validating" /\ next.job = j
        /\ next.token = t /\ next.attempt = attempts
    BY <2>2 DEF WorkerState
  <2> HIDE DEF next
  <2>6. worker' \in [Workers -> WorkerState] /\ worker'[w] = next
    BY <1>0, <2>3, <2>5
  <2>7. HasClaimed(w)
    BY <2>4, <2>5, <2>6 DEF HasClaimed
  <2>8. ASSUME NEW u \in Workers, u # w PROVE MemoryStep(u)
    <3>1. worker'[u] = worker[u]
      BY <1>0, <2>3, <2>8
    <3>2. QED
      BY <1>0, <3>1, MemoryRests
  <2>9. QED
    BY <2>6, <2>7, <2>8 DEF MemoriesMove, MemoryStep
<1>4. ASSUME NEW w \in Workers, WorkerStep(w), ~ClaimNext(w) PROVE MemoriesMove
  BY <1>0, <1>4, ExecuteContinues, OtherContinues, MemoriesContinue DEF WorkerStep
<1>5. CASE \/ UNCHANGED vars \/ EraseCase \/ \E r \in Requests : RequestStep(r)
  BY <1>1, <1>5 DEF vars, EraseCase, RequestStep, BeginEnqueue, CommitEnqueue, BeginCancel,
                    ObserveForCancel, SwapCancel, AnswerCancel, CloseResponse
<1>6. QED
  BY <1>2, <1>3, <1>4, <1>5 DEF Next

LEMMA MemoriesRemember ==
  ASSUME TypeInv, MemoriesMove, NEW w \in Workers
  PROVE  Remembers(worker'[w])
<1>1. CASE worker'[w].at \in RestingPoints
  BY <1>1 DEF Remembers, RestingPoints, ExecutingPoints, ClosingPoints
<1>2. CASE GoesOn(worker[w], worker'[w])
  BY <1>2 DEF TypeInv, Remembers, GoesOn
<1>3. CASE HasClaimed(w)
  BY <1>3 DEF HasClaimed, Remembers
<1>4. QED
  BY <1>1, <1>2, <1>3 DEF MemoriesMove, MemoryStep

(* A row that is still running under a worker's token is the row it took.   *)
LEMMA HoldersStillKnow ==
  ASSUME Inv, MemoriesMove, TableMoves
  PROVE  HoldersKnowTheirAttempt'
<1> SUFFICES ASSUME NEW w \in Workers,
                    worker'[w].at \in ExecutingPoints,
                    jobs'[worker'[w].job].state = "running",
                    jobs'[worker'[w].job].token = worker'[w].token
             PROVE  jobs'[worker'[w].job].attempts = worker'[w].attempt
  BY DEF HoldersKnowTheirAttempt, Row
<1> DEFINE j == worker[w].job
<1>1. CASE HasClaimed(w)
  BY <1>1 DEF HasClaimed
<1>2. CASE GoesOn(worker[w], worker'[w])
  <2>1. /\ worker'[w].job = j /\ worker'[w].token = worker[w].token
        /\ worker'[w].attempt = worker[w].attempt /\ worker[w].at \in ExecutingPoints
    BY <1>2 DEF GoesOn
  <2>2. j \in Jobs /\ RowStep(j)
    BY <2>1 DEF Inv, TypeInv, Remembers, TableMoves
  <2>3. jobs'[j].state = "running" /\ jobs'[j].token = worker[w].token
    BY <2>1
  <2>4. jobs[j].state = "running" /\ jobs[j].token = worker[w].token
          => jobs[j].attempts = worker[w].attempt
    BY <2>1 DEF Inv, HoldersKnowTheirAttempt, Row
  <2> HIDE DEF j
  <2>5. CASE Kept(jobs[j], jobs'[j]) \/ CancelNoted(jobs[j], jobs'[j])
    BY <2>1, <2>3, <2>4, <2>5 DEF Kept, CancelNoted
  <2>6. CASE TakenUp(jobs[j], jobs'[j]) /\ Fresh(jobs'[j].token)
    BY <2>3, <2>6 DEF Fresh
  <2>7. CASE \/ PutBack(jobs[j], jobs'[j]) \/ Ended(jobs[j], jobs'[j])
             \/ Inserted(jobs[j], jobs'[j]) \/ Erased(jobs[j], jobs'[j])
    <3>1. jobs'[j].state \in {"queued", "succeeded", "partial", "failed", "cancelled", "absent"}
      BY <2>7 DEF PutBack, Ended, Inserted, Erased, NoJob, ActiveStates
    <3>2. QED
      BY <2>3, <3>1
  <2>8. QED
    BY <2>2, <2>5, <2>6, <2>7 DEF RowStep, Moved
<1>3. QED
  BY <1>1, <1>2, PointsDiffer DEF MemoriesMove, MemoryStep

LEMMA RowsStayGood ==
  ASSUME Inv, TableMoves, NEW j \in Jobs
  PROVE  GoodRow(jobs'[j])
<1> DEFINE p == jobs[j]
           q == jobs'[j]
<1>1. RowStep(j) /\ GoodRow(p) /\ p \in JobRow /\ q \in JobRow
  BY DEF Inv, TypeInv, TypeOK, TableMoves
<1>2. CASE Kept(p, q) \/ CancelNoted(p, q)
  BY <1>1, <1>2 DEF GoodRow, Kept, CancelNoted
<1>3. CASE PutBack(p, q) \/ Inserted(p, q)
  BY <1>1, <1>3, EvidenceAssumption DEF GoodRow, PutBack, Inserted
<1>4. CASE Ended(p, q)
  BY <1>1, <1>4 DEF GoodRow, Ended, ActiveStates
<1>5. CASE TakenUp(p, q)
  BY <1>1, <1>5, NumbersAreNotNull DEF GoodRow, TakenUp
<1>6. CASE Erased(p, q)
  BY <1>6 DEF Erased, GoodRow, NoJob
<1>7. QED
  BY <1>1, <1>2, <1>3, <1>4, <1>5, <1>6 DEF RowStep, Moved

-----------------------------------------------------------------------------
(* What requests remember, and what a cancellation has been told.           *)

(* An accepted cancellation, or one about to be answered.                   *)
Answered(r) == request[r].does \in {"answer", "accepted"}
CancelHolds(row) ==
  \/ row.state = "running" /\ row.cancel
  \/ row.state \in {"cancelled", "failed"}

CancelInv == \A r \in Requests : Answered(r) => CancelHolds(jobs[request[r].job])

LEMMA NoRequestState ==
  /\ NoRequest \in RequestState /\ Asks(NoRequest)
  /\ NoRequest.does = "none"
<1>1. 0 \in Nat /\ 0 \in 0..CancelTries
  BY EvidenceAssumption
<1>2. QED
  BY <1>1 DEF NoRequest, RequestState, Asks, AskingPoints

(* A request moves to an answer that it may give, or nothing moves.         *)
RequestMoves(r) ==
  /\ request' \in [Requests -> RequestState]
  /\ Asks(request'[r])
  /\ \A q \in Requests \ {r} : request'[q] = request[q]
  /\ Answered(r)' => CancelHolds(jobs'[request'[r].job])

LEMMA ReplyMoves ==
  ASSUME TypeInv, NEW r \in Requests, NEW answer \in RequestState, Asks(answer),
         Reply(r, answer),
         answer.does \in {"answer", "accepted"} => CancelHolds(jobs'[answer.job])
  PROVE  RequestMoves(r)
BY DEF TypeInv, TypeOK, Reply, RequestMoves, Answered

LEMMA AnswerMoves ==
  ASSUME TypeInv, NEW r \in Requests, request[r].job \in Jobs, NEW accepted \in BOOLEAN,
         Answer(r, accepted), accepted => CancelHolds(jobs'[request[r].job])
  PROVE  RequestMoves(r)
<1>1. CASE ~accepted
  BY <1>1, NoRequestState, ReplyMoves DEF Answer
<1>2. CASE accepted
  <2> DEFINE job == request[r].job
             answer == [NoRequest EXCEPT !.does = "accepted", !.job = job]
  <2>1. Reply(r, answer)
    BY <1>2 DEF Answer
  <2> HIDE DEF job
  <2>2. answer \in RequestState /\ answer.does = "accepted" /\ answer.job = job
    BY NoRequestState DEF RequestState, job
  <2> HIDE DEF answer
  <2>3. Asks(answer)
    BY <2>2 DEF Asks, job
  <2>4. QED
    BY <1>2, <2>1, <2>2, <2>3, ReplyMoves DEF job
<1>3. QED
  BY <1>1, <1>2

LEMMA EveryRequestMoves ==
  ASSUME Inv, CancelInv, NEW r \in Requests, RequestStep(r)
  PROVE  RequestMoves(r)
<1>0. /\ TypeInv /\ request \in [Requests -> RequestState] /\ request[r] \in RequestState
      /\ Asks(request[r])
  BY DEF Inv, TypeInv, TypeOK
<1>1. ASSUME NEW x \in Selections, NEW k \in Keys, BeginEnqueue(r, x, k)
      PROVE  RequestMoves(r)
  <2> DEFINE answer == [NoRequest EXCEPT !.does = "enqueue", !.selection = x, !.key = k]
  <2>1. /\ answer \in RequestState /\ answer.does = "enqueue"
        /\ answer.selection = x /\ answer.key = k
    BY NoRequestState DEF RequestState
  <2> HIDE DEF answer
  <2>2. Asks(answer)
    BY <2>1 DEF Asks, AskingPoints
  <2>3. QED
    BY <1>0, <1>1, <2>1, <2>2, ReplyMoves DEF BeginEnqueue, answer
<1>2. ASSUME NEW j \in Jobs, BeginCancel(r, j) PROVE RequestMoves(r)
  <2> DEFINE answer == [NoRequest EXCEPT !.does = "observe", !.job = j]
  <2>1. answer \in RequestState /\ answer.does = "observe" /\ answer.job = j
    BY NoRequestState DEF RequestState
  <2> HIDE DEF answer
  <2>2. Asks(answer)
    BY <2>1 DEF Asks, AskingPoints
  <2>3. QED
    BY <1>0, <1>2, <2>1, <2>2, ReplyMoves DEF BeginCancel, answer
<1>3. CASE CommitEnqueue(r) \/ CloseResponse(r)
  BY <1>0, <1>3, NoRequestState, ReplyMoves DEF CommitEnqueue, CloseResponse
<1>4. CASE ObserveForCancel(r)
  <2>1. request[r].job \in Jobs
    BY <1>0, <1>4 DEF ObserveForCancel, Asks, AskingPoints
  <2> DEFINE row == jobs[request[r].job]
             state == row.state
             version == row.version
             tries == request[r].tries + 1
             next == [request[r] EXCEPT !.does = "swap", !.state = state, !.version = version,
                                        !.tries = tries]
  <2>2. CASE /\ state \in ActiveStates /\ request[r].tries < CancelTries
             /\ request' = [request EXCEPT ![r].does = "swap", ![r].state = state,
                                           ![r].version = version, ![r].tries = @ + 1]
    <3>1. version \in Nat /\ tries \in 0..CancelTries
      BY <1>0, <2>1, <2>2, EvidenceAssumption DEF TypeInv, TypeOK, JobRow, RequestState
    <3>2. request' = [request EXCEPT ![r] = next]
      BY <1>0, <2>2
    <3>3. state \in ActiveStates
      BY <2>2
    <3> HIDE DEF state, version, tries
    <3>4. /\ next \in RequestState /\ next.does = "swap" /\ next.job = request[r].job
          /\ next.state = state
      BY <1>0, <3>1, <3>3 DEF RequestState
    <3> HIDE DEF next
    <3>5. Asks(next)
      BY <2>1, <3>3, <3>4 DEF Asks
    <3>6. QED
      BY <1>0, <3>2, <3>4, <3>5, ReplyMoves DEF Reply
  <2>3. CASE Answer(r, CancelIsRecorded(row))
    <3>1. CancelIsRecorded(row) \in BOOLEAN /\ jobs' = jobs
      BY <1>4 DEF ObserveForCancel, CancelIsRecorded
    <3>2. CancelIsRecorded(row) => CancelHolds(jobs'[request[r].job])
      BY <3>1 DEF CancelIsRecorded, CancelHolds
    <3>3. QED
      BY <1>0, <2>1, <2>3, <3>1, <3>2, AnswerMoves
  <2>4. QED
    BY <1>4, <2>2, <2>3 DEF ObserveForCancel
<1>5. CASE SwapCancel(r)
  <2> DEFINE i == request[r].job
             again == [request[r] EXCEPT !.does = "observe"]
             done == [request[r] EXCEPT !.does = "answer"]
  <2>1. i \in Jobs /\ jobs[i] \in JobRow /\ request[r].state \in ActiveStates
    BY <1>0, <1>5 DEF SwapCancel, TypeInv, TypeOK, Asks, AskingPoints
  <2>2. /\ again \in RequestState /\ again.does = "observe" /\ again.job = i
        /\ done \in RequestState /\ done.does = "answer" /\ done.job = i
    BY <1>0 DEF RequestState
  <2>3. Asks(again) /\ Asks(done)
    <3> HIDE DEF again, done
    <3>1. QED
      BY <2>1, <2>2 DEF Asks, AskingPoints
  <2>4. CASE request' = [request EXCEPT ![r].does = "observe"]
    <3>1. Reply(r, again)
      BY <1>0, <2>4 DEF Reply
    <3> HIDE DEF again
    <3>2. QED
      BY <1>0, <2>2, <2>3, <3>1, ReplyMoves
  <2>5. CASE /\ request' = [request EXCEPT ![r].does = "answer"]
             /\ jobs[i].state = request[r].state
             /\ jobs' = [jobs EXCEPT ![i] = IF jobs[i].state = "queued" THEN Withdrawn(jobs[i])
                                                                       ELSE Marked(jobs[i])]
    <3>1. Reply(r, done)
      BY <1>0, <2>5 DEF Reply
    <3>2. jobs'[i] = IF jobs[i].state = "queued" THEN Withdrawn(jobs[i]) ELSE Marked(jobs[i])
      BY <1>0, <2>1, <2>5 DEF TypeInv, TypeOK
    <3> HIDE DEF done, i
    <3>3. CancelHolds(jobs'[i])
      BY <2>1, <2>5, <3>2, WithdrawnRow, MarkedRow DEF CancelHolds, ActiveStates
    <3>4. QED
      BY <1>0, <2>2, <2>3, <3>1, <3>3, ReplyMoves
  <2>6. QED
    BY <1>5, <2>4, <2>5 DEF SwapCancel
<1>6. CASE AnswerCancel(r)
  <2> DEFINE running == jobs[request[r].job].state = "running"
  <2>1. request[r].job \in Jobs
    BY <1>0, <1>6 DEF AnswerCancel, Asks, AskingPoints
  <2>2. jobs' = jobs /\ Answer(r, running) /\ CancelHolds(jobs[request[r].job])
    BY <1>6 DEF AnswerCancel, CancelInv, Answered
  <2>3. QED
    BY <1>0, <2>1, <2>2, AnswerMoves
<1>7. QED
  BY <1>1, <1>2, <1>3, <1>4, <1>5, <1>6 DEF RequestStep

(* Answers stay true: only the deletion of the case takes the row away, and *)
(* with it the requests that refer to it.                                   *)
LEMMA CancelStillHolds ==
  ASSUME NEW j \in Jobs, RowStep(j), CancelHolds(jobs[j])
  PROVE  CancelHolds(jobs'[j]) \/ request' = [r \in Requests |-> NoRequest]
<1> DEFINE p == jobs[j]
           q == jobs'[j]
<1> HIDE DEF p, q
<1>1. CASE Kept(p, q) \/ Ended(p, q)
  BY <1>1 DEF Kept, Ended, CancelHolds, ActiveStates, p, q
<1>2. CASE CancelNoted(p, q) \/ PutBack(p, q) \/ Inserted(p, q) \/ TakenUp(p, q)
  BY <1>2 DEF CancelNoted, PutBack, Inserted, TakenUp, CancelHolds, p, q
<1>3. QED
  BY <1>1, <1>2 DEF RowStep, Moved, p, q

LEMMA RequestsMove ==
  ASSUME Inv, CancelInv, TableMoves, [Next]_vars
  PROVE  /\ request' \in [Requests -> RequestState]
         /\ \A r \in Requests : Asks(request'[r])
         /\ CancelInv'
<1>0. /\ TypeInv /\ request \in [Requests -> RequestState]
      /\ \A r \in Requests : Asks(request[r])
  BY DEF Inv, TypeInv, TypeOK
<1>1. CASE request' = [r \in Requests |-> NoRequest]
  <2>1. \A r \in Requests : request'[r] = NoRequest
    BY <1>1
  <2>2. CancelInv'
    BY <2>1, NoRequestState DEF CancelInv, Answered
  <2>3. QED
    BY <1>1, <2>1, <2>2, NoRequestState
<1>2. ASSUME ~(request' = [r \in Requests |-> NoRequest]), NEW r \in Requests,
             request'[r] = request[r], Answered(r)
      PROVE  CancelHolds(jobs'[request'[r].job])
  <2>1. request[r].job \in Jobs /\ CancelHolds(jobs[request[r].job])
    BY <1>0, <1>2 DEF Asks, AskingPoints, Answered, CancelInv
  <2>2. QED
    BY <1>2, <2>1, CancelStillHolds DEF TableMoves
<1>3. CASE request' = request /\ ~(request' = [r \in Requests |-> NoRequest])
  <2>1. CancelInv'
    BY <1>2, <1>3 DEF CancelInv, Answered
  <2>2. QED
    BY <1>0, <1>3, <2>1
<1>4. ASSUME NEW r \in Requests, RequestStep(r), ~(request' = [q \in Requests |-> NoRequest])
      PROVE  /\ request' \in [Requests -> RequestState]
             /\ \A q \in Requests : Asks(request'[q])
             /\ CancelInv'
  <2>1. RequestMoves(r)
    BY <1>4, EveryRequestMoves
  <2>2. \A q \in Requests : Asks(request'[q])
    BY <1>0, <2>1 DEF RequestMoves
  <2>3. ASSUME NEW q \in Requests, Answered(q)' PROVE CancelHolds(jobs'[request'[q].job])
    BY <1>2, <1>4, <2>1, <2>3 DEF RequestMoves, Answered
  <2>4. QED
    BY <2>1, <2>2, <2>3 DEF RequestMoves, CancelInv
<1>5. CASE EraseCase
  BY <1>1, <1>5 DEF EraseCase
<1>6. ASSUME NEW w \in Workers, WorkerStep(w) PROVE request' = request
  BY <1>6 DEF WorkerStep, ExecuteStep, RecoverExpired, FinishRecovered, ClaimNext, ClaimNothing,
              Heartbeat, StorageError, StartWorker, RequestStop, ExitLoop, Crash,
              RevalidateSelection, BeginStage, Advance, StartOperation, OperationEnds,
              ReadForBinding, WriteBinding, FinishSuccess, FinishFailure,
              FinishInvalidSelection, ScheduleRetry, FinishCancelled
<1>7. QED
  BY <1>1, <1>3, <1>4, <1>5, <1>6 DEF Next, vars, Tick

-----------------------------------------------------------------------------
(* The invariant, and what it says of every reachable state.                *)

LEMMA InvInit == Init => Inv /\ CancelInv
<1> SUFFICES ASSUME Init PROVE Inv /\ CancelInv
  OBVIOUS
<1>1. /\ jobs \in [Jobs -> JobRow] /\ worker \in [Workers -> WorkerState]
      /\ request \in [Requests -> RequestState]
  BY NoJobRow, DownState, NoRequestState DEF Init
<1>2. \A w \in Workers : worker[w].at = "down" /\ Remembers(worker[w])
  BY DownState DEF Init, Remembers, ExecutingPoints, ClosingPoints
<1>3. \A r \in Requests : request[r].does = "none" /\ Asks(request[r])
  BY NoRequestState DEF Init
<1>4. \A j \in Jobs : GoodRow(jobs[j])
  BY DEF Init, GoodRow, NoJob
<1>5. HoldersKnowTheirAttempt
  BY <1>2 DEF HoldersKnowTheirAttempt, ExecutingPoints, ClosingPoints
<1>6. CancelInv
  BY <1>3 DEF CancelInv, Answered
<1>7. QED
  BY <1>1, <1>2, <1>3, <1>4, <1>5, <1>6 DEF Inv, TypeInv, TypeOK

LEMMA InvNext == Inv /\ CancelInv /\ [Next]_vars => Inv' /\ CancelInv'
<1> SUFFICES ASSUME Inv, CancelInv, [Next]_vars PROVE Inv' /\ CancelInv'
  OBVIOUS
<1>1. TableMoves /\ MemoriesMove
  BY EveryRowMoves, EveryMemoryMoves
<1>2. /\ request' \in [Requests -> RequestState]
      /\ \A r \in Requests : Asks(request'[r])
      /\ CancelInv'
  BY <1>1, RequestsMove
<1>3. TypeInv /\ \A w \in Workers : Remembers(worker'[w])
  BY <1>1, MemoriesRemember DEF Inv
<1>4. TypeInv'
  BY <1>1, <1>2, <1>3 DEF TypeInv, TypeOK, TableMoves, MemoriesMove
<1>5. HoldersKnowTheirAttempt' /\ \A j \in Jobs : GoodRow(jobs'[j])
  BY <1>1, HoldersStillKnow, RowsStayGood
<1>6. QED
  BY <1>2, <1>4, <1>5 DEF Inv

(* No handler writes a row, and no worker or request reaches a point, that  *)
(* the schema and the code exclude: with it the CHECK constraints on        *)
(* attempts, stages and states hold for every interleaving.                 *)
THEOREM TypeCorrect == Spec => []TypeOK
<1>1. Inv => TypeOK
  BY DEF Inv, TypeInv
<1>2. QED
  BY <1>1, InvInit, InvNext, PTL DEF Spec

(* No verification is lost: a queued one has a due time, attempts left and  *)
(* no cancellation, so a claim finds it, and a running one has a token and  *)
(* a lease, so a recovery finds it.                                         *)
THEOREM VerificationsAreRecoverable == Spec => []ActiveVerificationsAreRecoverable
<1>1. Inv => ActiveVerificationsAreRecoverable
  BY DEF Inv, GoodRow, ActiveVerificationsAreRecoverable
<1>2. QED
  BY <1>1, InvInit, InvNext, PTL DEF Spec

(* A retry is decided from what the worker remembers of its claim; as long  *)
(* as its token is in the row, the row has that very number of attempts.    *)
THEOREM AttemptsAreRemembered == Spec => []HoldersKnowTheirAttempt
<1>1. Inv => HoldersKnowTheirAttempt
  BY DEF Inv
<1>2. QED
  BY <1>1, InvInit, InvNext, PTL DEF Spec

(* cancel answers "accepted" only for rows that stay cancelled: running with *)
(* the mark, cancelled, or failed when a binding did not revalidate.        *)
THEOREM CancellationHolds == Spec => []AcceptedCancellationHolds
<1>1. CancelInv => AcceptedCancellationHolds
  BY DEF CancelInv, Answered, CancelHolds, AcceptedCancellationHolds
<1>2. QED
  BY <1>1, InvInit, InvNext, PTL DEF Spec

(* Bound artifacts are taken back only by the failure of the whole job or   *)
(* its erasure, although a holder that lost its lease may still bind.       *)
THEOREM BoundProofsAreKept == Spec => ProofsAreKept
<1>1. ASSUME Inv, [Next]_vars, NEW j \in Jobs, jobs'[j].progress < jobs[j].progress
      PROVE  jobs'[j].state \in {"failed", "absent"}
  <2> DEFINE p == jobs[j]
             q == jobs'[j]
  <2>1. RowStep(j) /\ p \in JobRow /\ q \in JobRow /\ GoodRow(p)
    BY <1>1, EveryRowMoves DEF TableMoves, Inv, TypeInv, TypeOK
  <2>2. CASE Kept(p, q) \/ CancelNoted(p, q) \/ PutBack(p, q) \/ TakenUp(p, q)
    <3>1. q.progress >= p.progress /\ p.progress \in Int /\ q.progress \in Int
      BY <2>1, <2>2 DEF Kept, CancelNoted, PutBack, TakenUp, JobRow
    <3>2. QED
      BY <1>1, <3>1
  <2>3. CASE Inserted(p, q)
    <3>1. p.progress = 0 /\ q.progress \in Nat
      BY <2>1, <2>3 DEF Inserted, GoodRow, NoJob, JobRow
    <3>2. QED
      BY <1>1, <3>1
  <2>4. CASE Ended(p, q)
    BY <1>1, <2>4 DEF Ended
  <2>5. CASE Erased(p, q)
    BY <2>5 DEF Erased, NoJob
  <2>6. QED
    BY <2>1, <2>2, <2>3, <2>4, <2>5 DEF RowStep, Moved
<1>2. Inv /\ [Next]_vars =>
        [\A j \in Jobs : jobs'[j].progress < jobs[j].progress =>
                          jobs'[j].state \in {"failed", "absent"}]_vars
  BY <1>1
<1>3. QED
  BY <1>2, InvInit, InvNext, PTL DEF Spec, ProofsAreKept

-----------------------------------------------------------------------------
(* The queue implements the job contract, as the queue of syncs does: every *)
(* move of a row is a step of its job, or leaves it at rest.                *)

PhaseOf(row) == IF row.state = "running" /\ row.cancel THEN "cancelling" ELSE row.state

LEMMA ContractInitially == Init => Contract!ContractInit
BY DEF Init, NoJob, Contract!ContractInit

LEMMA ContractRest ==
  ASSUME NEW j \in Jobs, Kept(jobs[j], jobs'[j])
  PROVE  Contract!Rests(j)
<1>1. jobs'[j].attempts = jobs[j].attempts /\ PhaseOf(jobs'[j]) = PhaseOf(jobs[j])
  BY DEF Kept, PhaseOf
<1>2. QED
  BY <1>1 DEF Contract!Rests, PhaseOf

LEMMA ContractExecute ==
  ASSUME NEW j \in Jobs, TakenUp(jobs[j], jobs'[j])
  PROVE  Contract!JobStep(j)
<1>1. Contract!Execute(j)
  BY DEF TakenUp, Contract!Execute, Contract!Moves
<1>2. QED
  BY <1>1, Zenon DEF Contract!JobStep

LEMMA ContractSubmit ==
  ASSUME NEW j \in Jobs, Inserted(jobs[j], jobs'[j])
  PROVE  Contract!JobStep(j)
<1>1. Contract!Submit(j)
  BY DEF Inserted, Contract!Submit, Contract!Moves
<1>2. QED
  BY <1>1, Zenon DEF Contract!JobStep

LEMMA ContractPutBack ==
  ASSUME NEW j \in Jobs, PutBack(jobs[j], jobs'[j])
  PROVE  Contract!JobStep(j)
<1>1. Contract!Requeue(j)
  BY DEF PutBack, Contract!Requeue, Contract!Moves
<1>2. QED
  BY <1>1, Zenon DEF Contract!JobStep

LEMMA ContractCancelNoted ==
  ASSUME NEW j \in Jobs, CancelNoted(jobs[j], jobs'[j])
  PROVE  Contract!JobStep(j)
<1>1. Contract!AskCancel(j)
  BY DEF CancelNoted, Contract!AskCancel, Contract!Moves
<1>2. QED
  BY <1>1, Zenon DEF Contract!JobStep

(* A row ends withdrawn from the queue, with what its holder made of it, or *)
(* without a result after its cancellation.                                 *)
LEMMA ContractEnded ==
  ASSUME NEW j \in Jobs, Ended(jobs[j], jobs'[j])
  PROVE  Contract!JobStep(j)
<1>1. CASE jobs[j].state = "queued"
  <2>1. Contract!CancelQueued(j)
    BY <1>1 DEF Ended, Contract!CancelQueued, Contract!Moves
  <2>2. QED
    BY <2>1, Zenon DEF Contract!JobStep
<1>2. CASE jobs[j].state = "running" /\ ~jobs[j].cancel
  <2>1. Contract!Finish(j)
    BY <1>2 DEF Ended, Contract!Finish, Contract!Moves
  <2>2. QED
    BY <2>1, Zenon DEF Contract!JobStep
<1>3. CASE jobs[j].state = "running" /\ jobs[j].cancel
  <2>1. Contract!Abandon(j)
    BY <1>3 DEF Ended, Contract!Abandon, Contract!Moves
  <2>2. QED
    BY <2>1, Zenon DEF Contract!JobStep
<1>4. QED
  BY <1>1, <1>2, <1>3 DEF Ended, ActiveStates

LEMMA ContractErased ==
  ASSUME NEW j \in Jobs, Erased(jobs[j], jobs'[j])
  PROVE  Contract!JobStep(j)
<1>1. Contract!Erase(j)
  BY DEF Erased, NoJob, TerminalStates, Contract!Erase, Contract!Moves, Contract!FinalPhases
<1>2. QED
  BY <1>1, Zenon DEF Contract!JobStep

LEMMA ContractStep ==
  ASSUME Inv, [Next]_vars, NEW j \in Jobs
  PROVE  Contract!JobStep(j) \/ Contract!Rests(j)
<1>1. RowStep(j)
  BY EveryRowMoves DEF TableMoves
<1>2. QED
  BY <1>1, ContractRest, ContractExecute, ContractSubmit, ContractPutBack,
     ContractCancelNoted, ContractEnded, ContractErased
     DEF RowStep, Moved

(* What callers of both queues rely on: at most MaxAttempts executions, one *)
(* final phase, no result after an accepted cancellation; neither the       *)
(* unfenced write of a binding nor the recoveries break it.                 *)
THEOREM EvidenceImplementsContract == Spec => ImplementsJobContract
<1>1. Inv /\ [Next]_vars => Contract!ContractNext
  BY ContractStep DEF Contract!ContractNext
<1>2. QED
  BY <1>1, ContractInitially, InvInit, InvNext, PTL
     DEF Spec, ImplementsJobContract, Contract!ContractSpec
=============================================================================
