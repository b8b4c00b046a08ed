------------------------ MODULE CaseSyncJobs_proofs ------------------------
(***************************************************************************)
(* Proofs about CaseSyncJobs, for every number of cases, syncs, workers,   *)
(* requests and tokens and every value of the numeric constants.           *)
(***************************************************************************)
EXTENDS CaseSyncJobs, TLAPS

-----------------------------------------------------------------------------
(* Type correctness.  The types alone are not inductive: a row is written   *)
(* from what a worker remembers, so a worker with a claim must remember the *)
(* rowid and the token of it, and one that publishes a result.              *)

PublishingPoints == {"finalizing", "publishing", "committing"}
BusyPoints == {"claimed", "unavailable"} \cup ExecutingPoints \cup ClosingPoints

WorkersRememberClaims ==
  \A w \in Workers :
    /\ worker[w].at \in BusyPoints => worker[w].sync \in Syncs /\ worker[w].token \in Tokens
    /\ worker[w].at \in PublishingPoints => worker[w].result \in Results

TypeInv == TypeOK /\ WorkersRememberClaims

(* The rows that the statements of the queue write.                         *)
LEMMA ClosedRow ==
  ASSUME NEW row \in SyncRow,
         NEW state \in {"queued"} \cup TerminalStates, NEW stage \in Stages
  PROVE  LET closed == Closed(row, state, stage) IN
         /\ closed \in SyncRow
         /\ closed.state = state /\ closed.stage = stage
         /\ closed.nextAttempt = NULL /\ closed.token = NULL /\ closed.lease = NULL
         /\ closed.version = row.version + 1
         /\ closed.case = row.case /\ closed.key = row.key /\ closed.attempts = row.attempts
         /\ closed.cancel = row.cancel /\ closed.run = row.run
<1>1. row.version + 1 \in Nat
  BY DEF SyncRow
<1>2. state \in {"absent"} \cup ActiveStates \cup TerminalStates
  BY DEF ActiveStates
<1>3. Closed(row, state, stage) \in SyncRow
  BY <1>1, <1>2 DEF Closed, SyncRow
<1>4. QED
  BY <1>3 DEF Closed, SyncRow

LEMMA RequeuedRow ==
  ASSUME NEW row \in SyncRow, NEW ticks \in Int
  PROVE  LET requeued == Requeued(row, ticks) IN
         /\ requeued \in SyncRow
         /\ requeued.state = "queued" /\ requeued.nextAttempt = ticks
         /\ requeued.version = row.version + 1
         /\ requeued.case = row.case /\ requeued.attempts = row.attempts
         /\ requeued.cancel = row.cancel /\ requeued.run = row.run
<1>1. "retry_wait" \in Stages
  BY DEF Stages
<1>2. Requeued(row, ticks) \in SyncRow
  BY <1>1, ClosedRow DEF Requeued, SyncRow
<1>3. QED
  BY <1>1, <1>2, ClosedRow DEF Requeued, SyncRow

LEMMA PublishedRow ==
  ASSUME NEW row \in SyncRow, NEW result \in Results, NEW run \in Tokens \cup {NULL}
  PROVE  LET published == Published(row, result, run) IN
         /\ published \in SyncRow
         /\ published.state \in {"succeeded", "partial", "failed"} /\ published.run = run
         /\ published.version = row.version + 1
         /\ published.case = row.case /\ published.attempts = row.attempts
         /\ published.cancel = row.cancel
<1>1. /\ FinalState(result) \in {"succeeded", "partial", "failed"}
      /\ FinalState(result) \in {"queued"} \cup TerminalStates
      /\ FinalStage(result) \in Stages
  BY DEF Results, FinalState, FinalStage, TerminalStates, Stages
<1>2. Published(row, result, run) \in SyncRow
  BY <1>1, ClosedRow DEF Published, SyncRow
<1>3. QED
  BY <1>1, <1>2, ClosedRow DEF Published, SyncRow

LEMMA WithdrawnRow ==
  ASSUME NEW row \in SyncRow
  PROVE  LET withdrawn == Withdrawn(row) IN
         /\ withdrawn \in SyncRow
         /\ withdrawn.state = "cancelled" /\ withdrawn.cancel = TRUE
         /\ withdrawn.version = row.version + 1
         /\ withdrawn.case = row.case /\ withdrawn.attempts = row.attempts
         /\ withdrawn.run = row.run
<1> DEFINE closed == Closed(row, "cancelled", "cancelled")
<1>1. "cancelled" \in {"queued"} \cup TerminalStates /\ "cancelled" \in Stages
  BY DEF TerminalStates, Stages
<1>2. /\ closed \in SyncRow /\ closed.state = "cancelled"
      /\ closed.version = row.version + 1
      /\ closed.case = row.case /\ closed.attempts = row.attempts /\ closed.run = row.run
  BY <1>1, ClosedRow
<1>3. Withdrawn(row) = [closed EXCEPT !.cancel = TRUE]
  BY DEF Withdrawn
<1> HIDE DEF closed
<1>4. QED
  BY <1>2, <1>3 DEF SyncRow

LEMMA MarkedRow ==
  ASSUME NEW row \in SyncRow
  PROVE  LET marked == Marked(row) IN
         /\ marked \in SyncRow
         /\ marked.cancel = TRUE /\ marked.version = row.version + 1
         /\ marked.state = row.state /\ marked.case = row.case
         /\ marked.attempts = row.attempts /\ marked.nextAttempt = row.nextAttempt
         /\ marked.token = row.token /\ marked.lease = row.lease /\ marked.run = row.run
<1> DEFINE version == row.version + 1
           marked == [row EXCEPT !.stage = "cancelling", !.cancel = TRUE, !.version = version]
<1>1. version \in Nat /\ "cancelling" \in Stages
  BY DEF SyncRow, Stages
<1>2. Marked(row) = marked
  BY DEF Marked
<1> HIDE DEF version
<1>3. marked \in SyncRow
  BY <1>1 DEF SyncRow
<1>4. /\ marked.cancel = TRUE /\ marked.version = version
      /\ marked.state = row.state /\ marked.case = row.case
      /\ marked.attempts = row.attempts /\ marked.nextAttempt = row.nextAttempt
      /\ marked.token = row.token /\ marked.lease = row.lease /\ marked.run = row.run
  BY DEF SyncRow
<1> HIDE DEF marked
<1>5. QED
  BY <1>2, <1>3, <1>4 DEF version

LEMMA AdvancedRow ==
  ASSUME NEW row \in SyncRow, NEW stage \in Stages, NEW lag \in Lags
  PROVE  LET advanced == Advanced(row, stage, lag) IN
         /\ advanced \in SyncRow
         /\ advanced.lease \in Int /\ advanced.version = row.version + 1
         /\ advanced.state = row.state /\ advanced.case = row.case
         /\ advanced.attempts = row.attempts /\ advanced.nextAttempt = row.nextAttempt
         /\ advanced.token = row.token /\ advanced.cancel = row.cancel
         /\ advanced.run = row.run
<1> DEFINE version == row.version + 1
           lease == LeaseTicks - lag
           advanced == [row EXCEPT !.stage = stage, !.lease = lease, !.version = version]
<1>1. version \in Nat /\ lease \in Int
  BY ConstantsAssumption DEF SyncRow, Lags
<1>2. Advanced(row, stage, lag) = advanced
  BY DEF Advanced
<1> HIDE DEF version, lease
<1>3. advanced \in SyncRow
  BY <1>1 DEF SyncRow
<1>4. /\ advanced.lease = lease /\ advanced.version = version
      /\ advanced.state = row.state /\ advanced.case = row.case
      /\ advanced.attempts = row.attempts /\ advanced.nextAttempt = row.nextAttempt
      /\ advanced.token = row.token /\ advanced.cancel = row.cancel
      /\ advanced.run = row.run
  BY DEF SyncRow
<1> HIDE DEF advanced
<1>5. QED
  BY <1>1, <1>2, <1>3, <1>4 DEF version

LEMMA ClaimedRow ==
  ASSUME NEW row \in SyncRow, NEW token \in Tokens, NEW lag \in Lags,
         row.attempts < MaxAttempts
  PROVE  LET claimed == Claimed(row, token, lag) IN
         /\ claimed \in SyncRow
         /\ claimed.state = "running" /\ claimed.attempts = row.attempts + 1
         /\ claimed.token = token /\ claimed.lease \in Int
         /\ claimed.version = row.version + 1
         /\ claimed.case = row.case /\ claimed.cancel = row.cancel /\ claimed.run = row.run
<1>1. "running" \in {"absent"} \cup ActiveStates \cup TerminalStates /\ "validating" \in Stages
  BY DEF ActiveStates, Stages
<1>2. /\ row.attempts + 1 \in 0..MaxAttempts /\ row.version + 1 \in Nat
      /\ LeaseTicks - lag \in Int
  BY ConstantsAssumption DEF SyncRow, Lags
<1>3. Claimed(row, token, lag) \in SyncRow
  BY <1>1, <1>2 DEF SyncRow, Claimed
<1>4. QED
  BY <1>2, <1>3 DEF SyncRow, Claimed

LEMMA ExtendedRow ==
  ASSUME NEW row \in SyncRow, NEW lag \in Lags
  PROVE  LET extended == Extended(row, lag) IN
         /\ extended \in SyncRow
         /\ extended.lease \in Int /\ extended.nextAttempt = row.nextAttempt
         /\ extended.state = row.state /\ extended.stage = row.stage
         /\ extended.case = row.case /\ extended.attempts = row.attempts
         /\ extended.token = row.token /\ extended.cancel = row.cancel
         /\ extended.run = row.run /\ extended.version = row.version
<1>1. LeaseTicks - lag \in Int
  BY ConstantsAssumption DEF Lags
<1>2. QED
  BY <1>1 DEF Extended, SyncRow

LEMMA NoSyncRow == NoSync \in SyncRow
<1>1. "absent" \in {"absent"} \cup ActiveStates \cup TerminalStates /\ "queued" \in Stages
  BY DEF Stages
<1>2. 0 \in 0..MaxAttempts /\ 0 \in Nat
  BY ConstantsAssumption
<1>3. QED
  BY <1>1, <1>2 DEF NoSync, SyncRow

LEMMA EnqueuedRow ==
  ASSUME NEW case \in Cases \cup {NULL}, NEW key \in Keys \cup {NULL}, NEW lag \in Lags
  PROVE  LET enqueued == Enqueued(case, key, lag) IN
         /\ enqueued \in SyncRow
         /\ enqueued.state = "queued" /\ enqueued.case = case
         /\ enqueued.nextAttempt \in Int /\ enqueued.attempts = 0
         /\ enqueued.cancel = FALSE /\ enqueued.run = NULL
<1>1. "queued" \in {"absent"} \cup ActiveStates \cup TerminalStates /\ 1 \in Nat
  BY DEF ActiveStates
<1>2. -lag \in Int
  BY ConstantsAssumption DEF Lags
<1>3. Enqueued(case, key, lag) \in SyncRow
  BY <1>1, <1>2, NoSyncRow DEF SyncRow, Enqueued
<1>4. QED
  BY <1>2, <1>3, NoSyncRow DEF SyncRow, NoSync, Enqueued

LEMMA AgedTicks ==
  ASSUME NEW ticks \in Int \cup {NULL}
  PROVE  /\ Aged(ticks) \in Int \cup {NULL}
         /\ Aged(ticks) = NULL <=> ticks = NULL
BY ConstantsAssumption DEF Aged

LEMMA OlderRow ==
  ASSUME NEW row \in SyncRow
  PROVE  LET older == Older(row) IN
         /\ older \in SyncRow
         /\ older.nextAttempt = NULL <=> row.nextAttempt = NULL
         /\ older.lease = NULL <=> row.lease = NULL
         /\ older.state = row.state /\ older.stage = row.stage /\ older.case = row.case
         /\ older.attempts = row.attempts /\ older.token = row.token
         /\ older.cancel = row.cancel /\ older.run = row.run /\ older.version = row.version
<1>1. /\ Aged(row.nextAttempt) \in Int \cup {NULL} /\ Aged(row.lease) \in Int \cup {NULL}
      /\ Aged(row.nextAttempt) = NULL <=> row.nextAttempt = NULL
      /\ Aged(row.lease) = NULL <=> row.lease = NULL
  BY AgedTicks DEF SyncRow
<1>2. QED
  BY <1>1 DEF Older, SyncRow

LEMMA RecoveredRow ==
  ASSUME NEW row \in SyncRow, NEW lag \in Lags
  PROVE  Recovered(row, lag) \in SyncRow
<1>1. Closed(row, "cancelled", "cancelled") \in SyncRow
  BY ClosedRow DEF TerminalStates, Stages
<1>2. Closed(row, "failed", "failed") \in SyncRow
  BY ClosedRow DEF TerminalStates, Stages
<1>3. Requeued(row, -lag) \in SyncRow
  BY RequeuedRow, ConstantsAssumption DEF Lags
<1>4. QED
  BY <1>1, <1>2, <1>3 DEF Recovered

LEMMA CancelRequestedRow ==
  ASSUME NEW row \in SyncRow
  PROVE  CancelRequested(row) \in SyncRow
BY WithdrawnRow, MarkedRow DEF CancelRequested

-----------------------------------------------------------------------------
(* What a worker remembers while it moves from point to point.              *)

LEMMA GotoRemembers ==
  ASSUME TypeInv, NEW w \in Workers, NEW point \in WorkerPoints,
         point \in BusyPoints => worker[w].at \in BusyPoints,
         point \in PublishingPoints => worker[w].at \in PublishingPoints,
         Goto(w, point)
  PROVE  worker' \in [Workers -> WorkerState] /\ WorkersRememberClaims'
<1>1. worker' \in [Workers -> WorkerState]
  BY DEF TypeInv, TypeOK, WorkerState, Goto
<1>2. WorkersRememberClaims'
  BY DEF TypeInv, TypeOK, WorkerState, Goto, WorkersRememberClaims
<1>3. QED
  BY <1>1, <1>2

LEMMA WorkerRemembers ==
  ASSUME TypeInv, NEW w \in Workers, NEW next \in WorkerState,
         next.at \in BusyPoints => next.sync \in Syncs /\ next.token \in Tokens,
         next.at \in PublishingPoints => next.result \in Results,
         worker' = [worker EXCEPT ![w] = next]
  PROVE  worker' \in [Workers -> WorkerState] /\ WorkersRememberClaims'
BY DEF TypeInv, TypeOK, WorkersRememberClaims

LEMMA RestRemembers ==
  ASSUME TypeInv, NEW w \in Workers, NEW rest \in WorkerState,
         rest.at \in {"down", "idle"},
         worker' = [worker EXCEPT ![w] = rest]
  PROVE  worker' \in [Workers -> WorkerState] /\ WorkersRememberClaims'
BY WorkerRemembers DEF BusyPoints, PublishingPoints, ExecutingPoints, ClosingPoints

LEMMA DownAndRest ==
  ASSUME TypeInv, NEW w \in Workers
  PROVE  /\ Down \in WorkerState /\ Down.at = "down"
         /\ Rest(w) \in WorkerState /\ Rest(w).at = "idle"
         /\ [Down EXCEPT !.at = "idle"] \in WorkerState
         /\ [Down EXCEPT !.at = "idle"].at = "idle"
<1>1. Down \in WorkerState
  BY ConstantsAssumption DEF Down, WorkerState, WorkerPoints
<1>2. worker[w].stop \in BOOLEAN /\ "idle" \in WorkerPoints
  BY DEF TypeInv, TypeOK, WorkerState, WorkerPoints
<1>3. Rest(w) \in WorkerState /\ [Down EXCEPT !.at = "idle"] \in WorkerState
  BY <1>1, <1>2 DEF WorkerState, Rest
<1>4. QED
  BY <1>1, <1>3 DEF WorkerState, Rest, Down

LEMMA LoopRemembers ==
  ASSUME TypeInv, NEW w \in Workers, ReturnToLoop(w)
  PROVE  worker' \in [Workers -> WorkerState] /\ WorkersRememberClaims'
BY DownAndRest, RestRemembers DEF ReturnToLoop

-----------------------------------------------------------------------------
(* Every transaction and every step of a worker preserves the types.        *)

LEMMA TypeInvInit == Init => TypeInv
<1> SUFFICES ASSUME Init PROVE TypeInv
  OBVIOUS
<1>1. Down \in WorkerState
  BY ConstantsAssumption DEF Down, WorkerState, WorkerPoints
<1>2. syncs \in [Syncs -> SyncRow]
  BY NoSyncRow DEF Init
<1>3. worker \in [Workers -> WorkerState]
  BY <1>1 DEF Init
<1>4. request \in [Requests -> RequestState]
  BY DEF Init, NoRequest, RequestState
<1>5. TypeOK
  BY <1>2, <1>3, <1>4 DEF Init, TypeOK
<1>6. WorkersRememberClaims
  BY DEF Init, Down, WorkersRememberClaims, BusyPoints, PublishingPoints, ExecutingPoints,
         ClosingPoints
<1>7. QED
  BY <1>5, <1>6 DEF TypeInv

LEMMA TypeInvCaseStep ==
  ASSUME TypeInv, NEW c \in Cases, CaseStep(c)
  PROVE  TypeInv'
BY DEF TypeInv, TypeOK, WorkersRememberClaims, CaseStep, CreateOrOpenCase, RestoreCase,
       ArchiveCase

LEMMA TypeInvRequestStep ==
  ASSUME TypeInv, NEW r \in Requests, RequestStep(r)
  PROVE  TypeInv'
<1>1. TypeOK /\ WorkersRememberClaims /\ NoRequest \in RequestState
  BY DEF TypeInv, NoRequest, RequestState
<1>2. ASSUME worker' = worker, TypeOK' PROVE TypeInv'
  BY <1>1, <1>2 DEF TypeInv, WorkersRememberClaims
<1>3. ASSUME NEW c \in Cases, BeginDelete(r, c) PROVE TypeInv'
  BY <1>1, <1>2, <1>3 DEF BeginDelete, TypeOK, NoRequest, RequestState
<1>4. CASE CommitDelete(r)
  <2>1. syncs' \in [Syncs -> SyncRow]
    BY <1>1, <1>4, NoSyncRow DEF CommitDelete, TypeOK
  <2>2. cases' \in [Cases -> {"absent", "live", "archived"}]
    BY <1>1, <1>4 DEF CommitDelete, TypeOK
  <2>3. lastClaim' \in [Syncs -> Tokens \cup {NULL}]
    BY <1>1, <1>4 DEF CommitDelete, TypeOK
  <2>4. QED
    BY <1>1, <1>2, <1>4, <2>1, <2>2, <2>3 DEF CommitDelete, TypeOK
<1>5. ASSUME NEW c \in Cases, NEW k \in Keys, BeginEnqueue(r, c, k) PROVE TypeInv'
  BY <1>1, <1>2, <1>5 DEF BeginEnqueue, TypeOK, NoRequest, RequestState
<1>6. CASE CommitEnqueue(r)
  <2>1. request[r].case \in Cases \cup {NULL} /\ request[r].key \in Keys \cup {NULL}
    BY <1>1 DEF TypeOK, RequestState
  <2>3. CASE UNCHANGED syncs
    BY <1>1, <1>2, <1>6, <2>3 DEF CommitEnqueue, TypeOK
  <2>4. CASE ~UNCHANGED syncs
    <3>1. PICK s \in Syncs, lag \in Lags :
            syncs' = [syncs EXCEPT ![s] = Enqueued(request[r].case, request[r].key, lag)]
      BY <1>6, <2>4 DEF CommitEnqueue
    <3>2. syncs' \in [Syncs -> SyncRow]
      BY <1>1, <2>1, <3>1, EnqueuedRow DEF TypeOK
    <3>3. QED
      BY <1>1, <1>2, <1>6, <3>2 DEF CommitEnqueue, TypeOK
  <2>5. QED
    BY <2>3, <2>4
<1>7. ASSUME NEW s \in Syncs, BeginCancel(r, s) PROVE TypeInv'
  BY <1>1, <1>2, <1>7 DEF BeginCancel, TypeOK, NoRequest, RequestState
<1>8. CASE CommitCancel(r)
  <2>1. syncs' \in [Syncs -> SyncRow]
    BY <1>1, <1>8, CancelRequestedRow DEF CommitCancel, TypeOK
  <2>2. QED
    BY <1>1, <1>2, <1>8, <2>1 DEF CommitCancel, TypeOK
<1>9. QED
  BY <1>3, <1>4, <1>5, <1>6, <1>7, <1>8 DEF RequestStep

LEMMA TypeInvTick ==
  ASSUME TypeInv, Tick
  PROVE  TypeInv'
<1>1. syncs' \in [Syncs -> SyncRow]
  BY OlderRow DEF Tick, TypeInv, TypeOK
<1>2. QED
  BY <1>1 DEF Tick, TypeInv, TypeOK, WorkersRememberClaims

(* The row a worker writes is a row, so the table stays a table.            *)
LEMMA SetRowType ==
  ASSUME TypeInv, NEW w \in Workers, NEW row \in SyncRow, SetRow(w, row)
  PROVE  syncs' \in [Syncs -> SyncRow]
BY DEF SetRow, TypeInv, TypeOK

LEMMA TypeInvFromParts ==
  ASSUME TypeInv,
         syncs' \in [Syncs -> SyncRow],
         worker' \in [Workers -> WorkerState] /\ WorkersRememberClaims',
         UNCHANGED <<cases, request>>,
         lastClaim' \in [Syncs -> Tokens \cup {NULL}]
  PROVE  TypeInv'
BY DEF TypeInv, TypeOK

(* The row of a worker with a job, and what is computed from it.            *)
LEMMA RowOfBusyWorker ==
  ASSUME TypeInv, NEW w \in Workers, worker[w].at \in BusyPoints
  PROVE  /\ worker[w].sync \in Syncs /\ worker[w].token \in Tokens
         /\ Row(w) \in SyncRow
         /\ Row(w).version + 1 \in Nat
         /\ \A lag \in Lags : LeaseTicks - lag \in Int
<1>1. worker[w].sync \in Syncs /\ worker[w].token \in Tokens
  BY DEF TypeInv, WorkersRememberClaims
<1>2. Row(w) \in SyncRow
  BY <1>1 DEF Row, TypeInv, TypeOK
<1>3. Row(w).version + 1 \in Nat
  BY <1>2 DEF SyncRow
<1>4. QED
  BY <1>1, <1>2, <1>3, ConstantsAssumption DEF Lags

(* Steps that only move a worker.                                           *)
LEMMA TypeInvQuietStep ==
  ASSUME TypeInv, NEW w \in Workers,
         \/ ClaimNothing(w) \/ LoadClaim(w) \/ ValidateSettings(w) \/ StartBuilder(w)
         \/ BuilderReturns(w) \/ BuilderRaises(w) \/ CheckPublication(w)
         \/ InternalError(w) \/ IterationError(w) \/ StartWorker(w) \/ RequestStop(w)
         \/ ExitLoop(w) \/ Crash(w)
  PROVE  TypeInv'
<1> USE DEF WorkerPoints, BusyPoints, PublishingPoints, ExecutingPoints, ClosingPoints
<1>1. ASSUME worker' \in [Workers -> WorkerState] /\ WorkersRememberClaims',
             UNCHANGED <<cases, syncs, request, lastClaim>>
      PROVE  TypeInv'
  BY <1>1 DEF TypeInv, TypeOK
<1>2. CASE ClaimNothing(w)
  BY <1>1, <1>2, LoopRemembers DEF ClaimNothing
<1>3. CASE LoadClaim(w)
  <2>1. CASE Goto(w, "unavailable")
    BY <1>1, <1>3, <2>1, GotoRemembers DEF LoadClaim
  <2>2. CASE ReturnToLoop(w)
    BY <1>1, <1>3, <2>2, LoopRemembers DEF LoadClaim
  <2>3. CASE worker' = [worker EXCEPT ![w].at = "validating", ![w].case = Row(w).case]
    <3> DEFINE next == [worker[w] EXCEPT !.at = "validating", !.case = Row(w).case]
    <3>1. worker[w] \in WorkerState /\ "validating" \in WorkerPoints
      BY DEF TypeInv, TypeOK
    <3>2. Row(w).case \in Cases \cup {NULL}
      BY <1>3, RowOfBusyWorker DEF LoadClaim, SyncRow
    <3>3. worker[w].sync \in Syncs /\ worker[w].token \in Tokens
      BY <1>3, RowOfBusyWorker DEF LoadClaim
    <3> HIDE DEF WorkerPoints, BusyPoints
    <3>4. /\ next \in WorkerState /\ next.at = "validating"
          /\ next.sync = worker[w].sync /\ next.token = worker[w].token
      BY <3>1, <3>2 DEF WorkerState
    <3>5. worker' = [worker EXCEPT ![w] = next]
      BY <2>3 DEF TypeInv, TypeOK, WorkerState
    <3>6. QED
      BY <1>1, <1>3, <3>3, <3>4, <3>5, WorkerRemembers DEF LoadClaim
  <2>4. QED
    BY <1>3, <2>1, <2>2, <2>3 DEF LoadClaim
<1>4. CASE ValidateSettings(w)
  BY <1>1, <1>4, GotoRemembers, LoopRemembers DEF ValidateSettings
<1>5. CASE StartBuilder(w)
  BY <1>1, <1>5, GotoRemembers, LoopRemembers DEF StartBuilder
<1>6. CASE BuilderReturns(w)
  <2>1. CASE ReturnToLoop(w)
    BY <1>1, <1>6, <2>1, LoopRemembers DEF BuilderReturns
  <2>2. CASE Goto(w, "cancelling") \/ Goto(w, "retrying")
    BY <1>1, <1>6, <2>2, GotoRemembers DEF BuilderReturns
  <2>3. ASSUME NEW result \in Results,
               worker' = [worker EXCEPT ![w].at = "finalizing", ![w].result = result]
        PROVE  TypeInv'
    <3> DEFINE next == [worker[w] EXCEPT !.at = "finalizing", !.result = result]
    <3>1. worker[w] \in WorkerState /\ "finalizing" \in WorkerPoints
      BY DEF TypeInv, TypeOK
    <3>2. worker[w].sync \in Syncs /\ worker[w].token \in Tokens
      BY <1>6, RowOfBusyWorker DEF BuilderReturns
    <3> HIDE DEF WorkerPoints, BusyPoints, PublishingPoints
    <3>3. /\ next \in WorkerState /\ next.result = result
          /\ next.sync = worker[w].sync /\ next.token = worker[w].token
      BY <3>1 DEF WorkerState
    <3>4. worker' = [worker EXCEPT ![w] = next]
      BY <2>3 DEF TypeInv, TypeOK, WorkerState
    <3>5. QED
      BY <1>1, <1>6, <3>2, <3>3, <3>4, WorkerRemembers DEF BuilderReturns
  <2>4. QED
    BY <1>6, <2>1, <2>2, <2>3 DEF BuilderReturns
<1>7. CASE BuilderRaises(w)
  <2> DEFINE next == [worker[w] EXCEPT !.at = "failing", !.owned = @ /\ ~worker[w].stop]
  <2>1. worker[w] \in WorkerState /\ "failing" \in WorkerPoints
    BY DEF TypeInv, TypeOK
  <2>2. worker[w].sync \in Syncs /\ worker[w].token \in Tokens
    BY <1>7, RowOfBusyWorker DEF BuilderRaises
  <2>3. (worker[w].owned /\ ~worker[w].stop) \in BOOLEAN
    OBVIOUS
  <2>4. "failing" \notin PublishingPoints
    OBVIOUS
  <2> HIDE DEF WorkerPoints, BusyPoints, PublishingPoints
  <2>5. /\ next \in WorkerState /\ next.at = "failing"
        /\ next.sync = worker[w].sync /\ next.token = worker[w].token
    BY <2>1, <2>3 DEF WorkerState
  <2>6. worker' = [worker EXCEPT ![w] = next]
    BY <1>7 DEF BuilderRaises, TypeInv, TypeOK, WorkerState
  <2> HIDE DEF next
  <2>7. QED
    BY <1>1, <1>7, <2>2, <2>4, <2>5, <2>6, WorkerRemembers DEF BuilderRaises
<1>8. CASE CheckPublication(w)
  BY <1>1, <1>8, GotoRemembers DEF CheckPublication
<1>9. CASE InternalError(w)
  BY <1>1, <1>9, GotoRemembers DEF InternalError
<1>10. CASE IterationError(w)
  BY <1>1, <1>10, LoopRemembers DEF IterationError
<1>11. CASE StartWorker(w)
  BY <1>1, <1>11, DownAndRest, RestRemembers DEF StartWorker
<1>12. CASE RequestStop(w)
  <2> HIDE DEF WorkerPoints, BusyPoints, PublishingPoints
  <2> DEFINE next == [worker[w] EXCEPT !.stop = TRUE]
  <2>1. worker[w] \in WorkerState
    BY DEF TypeInv, TypeOK
  <2>2. /\ next \in WorkerState /\ next.at = worker[w].at
        /\ next.sync = worker[w].sync /\ next.token = worker[w].token
        /\ next.result = worker[w].result
    BY <2>1 DEF WorkerState
  <2>3. worker' = [worker EXCEPT ![w] = next]
    BY <1>12 DEF RequestStop, TypeInv, TypeOK, WorkerState
  <2>4. QED
    BY <1>1, <1>12, <2>2, <2>3, WorkerRemembers
       DEF RequestStop, TypeInv, WorkersRememberClaims
<1>13. CASE ExitLoop(w) \/ Crash(w)
  BY <1>1, <1>13, DownAndRest, RestRemembers DEF ExitLoop, Crash
<1>14. QED
  BY <1>2, <1>3, <1>4, <1>5, <1>6, <1>7, <1>8, <1>9, <1>10, <1>11, <1>12, <1>13

LEMMA TypeInvRecover ==
  ASSUME TypeInv, NEW w \in Workers, RecoverExpired(w)
  PROVE  TypeInv'
<1>1. PICK lag \in Lags : syncs' = [s \in Syncs |-> Recovered(syncs[s], lag)]
  BY DEF RecoverExpired
<1>2. syncs' \in [Syncs -> SyncRow]
  BY <1>1, RecoveredRow DEF TypeInv, TypeOK
<1>3. worker' \in [Workers -> WorkerState] /\ WorkersRememberClaims'
  BY GotoRemembers
     DEF RecoverExpired, WorkerPoints, BusyPoints, PublishingPoints, ExecutingPoints,
         ClosingPoints
<1>4. QED
  BY <1>2, <1>3 DEF RecoverExpired, TypeInv, TypeOK

LEMMA TypeInvClaim ==
  ASSUME TypeInv, NEW w \in Workers, ClaimNext(w)
  PROVE  TypeInv'
<1> DEFINE Claim(s, lag, t) ==
             /\ Fresh(t)
             /\ syncs' = [syncs EXCEPT ![s] = Claimed(@, t, lag)]
             /\ lastClaim' = [lastClaim EXCEPT ![s] = t]
             /\ worker' = [worker EXCEPT ![w].at = "claimed", ![w].sync = s, ![w].token = t,
                                         ![w].attempt = syncs[s].attempts + 1]
<1>0. PICK lag \in Lags, t \in Tokens : \E s \in Candidates(lag) : Claim(s, lag, t)
  BY DEF ClaimNext
<1>1. PICK s \in Candidates(lag) : Claim(s, lag, t)
  BY <1>0
<1>2. s \in Syncs /\ syncs[s] \in SyncRow /\ syncs[s].attempts < MaxAttempts
  BY <1>1 DEF Candidates, Claimable, TypeInv, TypeOK
<1>3. syncs[s].attempts + 1 \in 0..MaxAttempts
  BY <1>2, ConstantsAssumption DEF SyncRow
<1>4. syncs' \in [Syncs -> SyncRow]
  BY <1>1, <1>2, ClaimedRow DEF TypeInv, TypeOK
<1> DEFINE next == [worker[w] EXCEPT !.at = "claimed", !.sync = s, !.token = t,
                                     !.attempt = syncs[s].attempts + 1]
<1>5. worker[w] \in WorkerState /\ "claimed" \in WorkerPoints
  BY DEF TypeInv, TypeOK, WorkerPoints
<1>6. next \in WorkerState /\ next.at = "claimed" /\ next.sync = s /\ next.token = t
  BY <1>2, <1>3, <1>5 DEF WorkerState
<1>7. worker' = [worker EXCEPT ![w] = next]
  BY <1>1 DEF TypeInv, TypeOK, WorkerState
<1>8. "claimed" \notin PublishingPoints
  BY DEF PublishingPoints
<1> HIDE DEF next
<1>9. worker' \in [Workers -> WorkerState] /\ WorkersRememberClaims'
  BY <1>2, <1>6, <1>7, <1>8, WorkerRemembers
<1>10. lastClaim' \in [Syncs -> Tokens \cup {NULL}]
  BY <1>1 DEF TypeInv, TypeOK
<1>11. QED
  BY <1>4, <1>9, <1>10, TypeInvFromParts DEF ClaimNext

(* Steps in which a worker changes, or fails to change, the row of its job. *)
LEMMA TypeInvRowStep ==
  ASSUME TypeInv, NEW w \in Workers,
         \/ CloseUnavailableClaim(w) \/ AdvanceToIngestion(w) \/ AdvanceToFinalizing(w)
         \/ Heartbeat(w) \/ ScheduleRetry(w) \/ CommitRun(w) \/ FailWithoutRun(w)
         \/ FinishCancelled(w)
  PROVE  TypeInv'
<1> DEFINE Steady == UNCHANGED <<cases, request, lastClaim>>
<1>1. ASSUME Steady, syncs' \in [Syncs -> SyncRow],
             worker' \in [Workers -> WorkerState] /\ WorkersRememberClaims'
      PROVE  TypeInv'
  BY <1>1 DEF TypeInv, TypeOK
<1>2. worker[w].at \in BusyPoints
  BY DEF CloseUnavailableClaim, AdvanceToIngestion, AdvanceToFinalizing, Heartbeat,
         ScheduleRetry, CommitRun, FailWithoutRun, FinishCancelled,
         BusyPoints, ExecutingPoints, ClosingPoints
<1>3. ASSUME UNCHANGED syncs PROVE syncs' \in [Syncs -> SyncRow]
  BY <1>3 DEF TypeInv, TypeOK
<1>4. ASSUME NEW row \in SyncRow, SetRow(w, row) PROVE syncs' \in [Syncs -> SyncRow]
  BY <1>4, SetRowType
<1>5. ASSUME ReturnToLoop(w)
      PROVE  worker' \in [Workers -> WorkerState] /\ WorkersRememberClaims'
  BY <1>5, LoopRemembers
<1>6. ASSUME Goto(w, "cancelling")
      PROVE  worker' \in [Workers -> WorkerState] /\ WorkersRememberClaims'
  BY <1>2, <1>6, GotoRemembers DEF WorkerPoints, PublishingPoints, ClosingPoints
<1>7. Row(w) \in SyncRow
  BY <1>2, RowOfBusyWorker
<1>8. /\ Closed(Row(w), "failed", "failed") \in SyncRow
      /\ Closed(Row(w), "cancelled", "cancelled") \in SyncRow
  BY <1>7, ClosedRow DEF TerminalStates, Stages
<1>9. CASE CloseUnavailableClaim(w)
  BY <1>1, <1>3, <1>4, <1>5, <1>8, <1>9 DEF CloseUnavailableClaim
<1>10. CASE FailWithoutRun(w)
  BY <1>1, <1>3, <1>4, <1>5, <1>6, <1>8, <1>10 DEF FailWithoutRun
<1>11. CASE FinishCancelled(w)
  BY <1>1, <1>3, <1>4, <1>5, <1>8, <1>11 DEF FinishCancelled
<1>12. CASE ScheduleRetry(w)
  <2>1. ASSUME NEW lag \in Lags, NEW delay \in 1..RetryTicks
        PROVE  Requeued(Row(w), delay - lag) \in SyncRow
    BY <1>7, RequeuedRow, ConstantsAssumption DEF Lags
  <2>2. QED
    BY <1>1, <1>3, <1>4, <1>5, <1>6, <1>12, <2>1 DEF ScheduleRetry
<1>13. CASE CommitRun(w)
  <2>1. worker[w].result \in Results /\ worker[w].token \in Tokens \cup {NULL}
    BY <1>2, <1>13, RowOfBusyWorker
       DEF CommitRun, TypeInv, WorkersRememberClaims, PublishingPoints
  <2>2. Published(Row(w), worker[w].result, worker[w].token) \in SyncRow
    BY <1>7, <2>1, PublishedRow
  <2>3. QED
    BY <1>1, <1>3, <1>4, <1>5, <1>6, <1>13, <2>2 DEF CommitRun
<1>14. CASE AdvanceToIngestion(w) \/ AdvanceToFinalizing(w)
  <2>1. PICK stage \in {"ingesting", "finalizing"}, lag \in Lags :
          /\ stage = "finalizing" => worker[w].at = "finalizing"
          /\ \/ /\ SetRow(w, Advanced(Row(w), stage, lag))
                /\ Goto(w, IF stage = "ingesting" THEN "starting" ELSE "publishing")
             \/ UNCHANGED syncs /\ Goto(w, "cancelling")
    BY <1>14 DEF AdvanceToIngestion, AdvanceToFinalizing, Advance
  <2>2. Advanced(Row(w), stage, lag) \in SyncRow
    BY <1>7, AdvancedRow DEF Stages
  <2>3. ASSUME Goto(w, IF stage = "ingesting" THEN "starting" ELSE "publishing")
        PROVE  worker' \in [Workers -> WorkerState] /\ WorkersRememberClaims'
    BY <1>2, <2>1, <2>3, GotoRemembers DEF WorkerPoints, PublishingPoints, ExecutingPoints
  <2>4. QED
    BY <1>1, <1>3, <1>4, <1>6, <1>14, <2>1, <2>2, <2>3
       DEF AdvanceToIngestion, AdvanceToFinalizing
<1>15. CASE Heartbeat(w)
  <2>1. PICK lag \in Lags :
          \/ /\ SetRow(w, Extended(Row(w), lag))
             /\ worker' = [worker EXCEPT ![w].cancelSeen = @ \/ Row(w).cancel]
          \/ /\ UNCHANGED syncs
             /\ worker' = [worker EXCEPT ![w].owned = FALSE]
    BY <1>15 DEF Heartbeat
  <2>2. Extended(Row(w), lag) \in SyncRow
    BY <1>7, ExtendedRow
  <2>3. worker[w] \in WorkerState
    BY DEF TypeInv, TypeOK
  <2>4. ASSUME NEW next \in WorkerState, next.at = worker[w].at,
               next.sync = worker[w].sync, next.token = worker[w].token,
               next.result = worker[w].result, worker' = [worker EXCEPT ![w] = next]
        PROVE  worker' \in [Workers -> WorkerState] /\ WorkersRememberClaims'
    BY <2>4, WorkerRemembers DEF TypeInv, WorkersRememberClaims
  <2>5. ASSUME worker' = [worker EXCEPT ![w].cancelSeen = @ \/ Row(w).cancel]
        PROVE  worker' \in [Workers -> WorkerState] /\ WorkersRememberClaims'
    <3> DEFINE next == [worker[w] EXCEPT !.cancelSeen = @ \/ Row(w).cancel]
    <3>1. (worker[w].cancelSeen \/ Row(w).cancel) \in BOOLEAN
      OBVIOUS
    <3>2. /\ next \in WorkerState /\ next.at = worker[w].at
          /\ next.sync = worker[w].sync /\ next.token = worker[w].token
          /\ next.result = worker[w].result
      BY <2>3, <3>1 DEF WorkerState
    <3>3. worker' = [worker EXCEPT ![w] = next]
      BY <2>5 DEF TypeInv, TypeOK, WorkerState
    <3> HIDE DEF next
    <3>4. QED
      BY <2>4, <3>2, <3>3
  <2>6. ASSUME worker' = [worker EXCEPT ![w].owned = FALSE]
        PROVE  worker' \in [Workers -> WorkerState] /\ WorkersRememberClaims'
    <3> DEFINE next == [worker[w] EXCEPT !.owned = FALSE]
    <3>1. /\ next \in WorkerState /\ next.at = worker[w].at
          /\ next.sync = worker[w].sync /\ next.token = worker[w].token
          /\ next.result = worker[w].result
      BY <2>3 DEF WorkerState
    <3>2. worker' = [worker EXCEPT ![w] = next]
      BY <2>6 DEF TypeInv, TypeOK, WorkerState
    <3> HIDE DEF next
    <3>3. QED
      BY <2>4, <3>1, <3>2
  <2>7. worker' \in [Workers -> WorkerState] /\ WorkersRememberClaims'
    BY <2>1, <2>5, <2>6
  <2>8. QED
    BY <1>1, <1>3, <1>4, <1>15, <2>1, <2>2, <2>7 DEF Heartbeat
<1>16. QED
  BY <1>9, <1>10, <1>11, <1>12, <1>13, <1>14, <1>15

LEMMA TypeInvNext == TypeInv /\ [Next]_vars => TypeInv'
<1> SUFFICES ASSUME TypeInv, [Next]_vars PROVE TypeInv'
  OBVIOUS
<1>1. CASE UNCHANGED vars
  BY <1>1 DEF vars, TypeInv, TypeOK, WorkersRememberClaims
<1>2. ASSUME NEW c \in Cases, CaseStep(c) PROVE TypeInv'
  BY <1>2, TypeInvCaseStep
<1>3. ASSUME NEW r \in Requests, RequestStep(r) PROVE TypeInv'
  BY <1>3, TypeInvRequestStep
<1>4. ASSUME NEW w \in Workers, WorkerStep(w) PROVE TypeInv'
  BY <1>4, TypeInvRecover, TypeInvClaim, TypeInvQuietStep, TypeInvRowStep
     DEF WorkerStep, ExecuteStep
<1>5. QED
  BY <1>1, <1>2, <1>3, <1>4, TypeInvTick DEF Next

(* TypeOK holds in every reachable state: no handler writes a row, and no   *)
(* worker or request reaches a point, that the schema and the code exclude. *)
THEOREM TypeCorrect == Spec => []TypeOK
<1>1. TypeInv => TypeOK
  BY DEF TypeInv
<1>2. QED
  BY <1>1, TypeInvInit, TypeInvNext, PTL DEF Spec

-----------------------------------------------------------------------------
(* What one step can do to one row.  Every action of the queue is one of    *)
(* these moves on each row of the table, and the row invariants, the rise   *)
(* of status_version and the job contract are facts about the moves alone.  *)

Unmoved(p, q) ==
  /\ q.state = p.state /\ q.stage = p.stage /\ q.case = p.case
  /\ q.attempts = p.attempts /\ q.token = p.token /\ q.cancel = p.cancel
  /\ q.run = p.run /\ q.version = p.version
  /\ q.lease = NULL <=> p.lease = NULL
  /\ q.nextAttempt = NULL <=> p.nextAttempt = NULL

Inserted(p, q) ==
  /\ p.state = "absent" /\ q.state = "queued"
  /\ q.attempts = 0 /\ q.nextAttempt # NULL /\ ~q.cancel /\ q.run = NULL

(* Committed by the holder of the row, or by whoever may end its lease.     *)
Rewritten(p, q) ==
  /\ q.version = p.version + 1
  /\ q.case = p.case
  /\ q.attempts = p.attempts

Progressed(p, q) ==
  /\ Rewritten(p, q)
  /\ p.state = "running" /\ ~p.cancel /\ q.state = "running" /\ ~q.cancel
  /\ q.token = p.token /\ q.lease # NULL /\ q.run = p.run

CancelNoted(p, q) ==
  /\ Rewritten(p, q)
  /\ p.state = "running" /\ ~p.cancel /\ q.state = "running" /\ q.cancel
  /\ q.token = p.token /\ q.lease = p.lease /\ q.run = p.run

PutBack(p, q) ==
  /\ Rewritten(p, q)
  /\ p.state = "running" /\ ~p.cancel /\ p.attempts < MaxAttempts
  /\ q.state = "queued" /\ q.nextAttempt # NULL /\ ~q.cancel /\ q.run = p.run

ClosedWithoutRun(p, q) ==
  /\ Rewritten(p, q)
  /\ p.state \in ActiveStates /\ q.state \in {"failed", "cancelled"}
  /\ p.state = "queued" /\ q.state = "failed" => p.attempts >= MaxAttempts
  /\ p.state = "running" /\ ~p.cancel => q.state = "failed"
  /\ q.run = p.run

ClosedWithRun(p, q) ==
  /\ Rewritten(p, q)
  /\ p.state = "running" /\ ~p.cancel /\ p.run = NULL /\ p.token # NULL
  /\ q.state \in {"succeeded", "partial", "failed"} /\ ~q.cancel /\ q.run = p.token

Moved(p, q) ==
  \/ Unmoved(p, q) \/ Progressed(p, q) \/ CancelNoted(p, q)
  \/ PutBack(p, q) \/ ClosedWithoutRun(p, q) \/ ClosedWithRun(p, q)

TakenUp(p, q) ==
  /\ q.version = p.version + 1 /\ q.case = p.case
  /\ p.state = "queued" /\ ~p.cancel /\ p.attempts < MaxAttempts
  /\ q.state = "running" /\ ~q.cancel /\ q.attempts = p.attempts + 1
  /\ q.token \in Tokens /\ q.lease \in Int /\ q.run = p.run

Erased(p, q) == p.state \in TerminalStates /\ q = NoSync

RowStep(s) ==
  \/ Moved(syncs[s], syncs'[s]) /\ lastClaim'[s] = lastClaim[s]
  \/ /\ Inserted(syncs[s], syncs'[s])
     /\ lastClaim'[s] = lastClaim[s]
     /\ ActiveSyncs(syncs'[s].case) = {}
     /\ \E r \in Requests : request[r].does = "enqueue" /\ request[r].case = syncs'[s].case
     /\ \A u \in Syncs \ {s} : syncs'[u] = syncs[u]
  \/ /\ TakenUp(syncs[s], syncs'[s])
     /\ lastClaim'[s] = syncs'[s].token
     /\ Fresh(lastClaim'[s])
  \/ Erased(syncs[s], syncs'[s]) /\ lastClaim'[s] = NULL

LEMMA KeptRowMoves ==
  ASSUME NEW s \in Syncs, syncs'[s] = syncs[s], lastClaim'[s] = lastClaim[s]
  PROVE  RowStep(s)
BY DEF RowStep, Moved, Unmoved

(* A worker changes no row but the one of its job.                          *)
LEMMA WorkersRowMoves ==
  ASSUME TypeInv, NEW w \in Workers, NEW s \in Syncs, NEW row,
         SetRow(w, row), Moved(Row(w), row), UNCHANGED lastClaim
  PROVE  RowStep(s)
<1>1. CASE s = worker[w].sync
  BY <1>1 DEF SetRow, Row, RowStep, TypeInv, TypeOK
<1>2. CASE s # worker[w].sync
  BY <1>2, KeptRowMoves DEF SetRow, TypeInv, TypeOK
<1>3. QED
  BY <1>1, <1>2

LEMMA ClosingMoves ==
  ASSUME NEW row \in SyncRow, row.state = "running"
  PROVE  /\ Moved(row, Closed(row, "failed", "failed"))
         /\ row.cancel => Moved(row, Closed(row, "cancelled", "cancelled"))
<1>1. "failed" \in TerminalStates \cap Stages /\ "cancelled" \in TerminalStates \cap Stages
  BY DEF TerminalStates, Stages
<1>2. ClosedWithoutRun(row, Closed(row, "failed", "failed"))
  BY <1>1, ClosedRow DEF ClosedWithoutRun, Rewritten, ActiveStates
<1>3. ASSUME row.cancel PROVE ClosedWithoutRun(row, Closed(row, "cancelled", "cancelled"))
  BY <1>1, <1>3, ClosedRow DEF ClosedWithoutRun, Rewritten, ActiveStates
<1>4. QED
  BY <1>2, <1>3 DEF Moved

LEMMA RequeueMoves ==
  ASSUME NEW row \in SyncRow, NEW ticks \in Int,
         row.state = "running", ~row.cancel, row.attempts < MaxAttempts
  PROVE  Moved(row, Requeued(row, ticks))
<1>1. PutBack(row, Requeued(row, ticks))
  BY RequeuedRow, ConstantsAssumption DEF PutBack, Rewritten
<1>2. QED
  BY <1>1 DEF Moved

LEMMA RecoveryMoves ==
  ASSUME NEW row \in SyncRow, NEW lag \in Lags
  PROVE  Moved(row, Recovered(row, lag))
<1>1. -lag \in Int
  BY ConstantsAssumption DEF Lags
<1>2. CASE Recovered(row, lag) = row
  BY <1>2 DEF Moved, Unmoved
<1>3. CASE row.state = "running"
  BY <1>1, <1>2, <1>3, ClosingMoves, RequeueMoves DEF Recovered
<1>4. CASE /\ row.state = "queued" /\ row.attempts >= MaxAttempts
           /\ Recovered(row, lag) = Closed(row, "failed", "failed")
  <2>1. "failed" \in TerminalStates \cap Stages
    BY DEF TerminalStates, Stages
  <2>2. ClosedWithoutRun(row, Closed(row, "failed", "failed"))
    BY <1>4, <2>1, ClosedRow DEF ClosedWithoutRun, Rewritten, ActiveStates
  <2>3. QED
    BY <1>4, <2>2 DEF Moved
<1>5. QED
  BY <1>2, <1>3, <1>4 DEF Recovered

LEMMA CancellationMoves ==
  ASSUME NEW row \in SyncRow
  PROVE  Moved(row, CancelRequested(row))
<1>1. CASE CancelRequested(row) = row
  BY <1>1 DEF Moved, Unmoved
<1>2. CASE row.state = "queued"
  <2>1. ClosedWithoutRun(row, Withdrawn(row))
    BY <1>2, WithdrawnRow DEF ClosedWithoutRun, Rewritten, ActiveStates
  <2>2. QED
    BY <1>2, <2>1 DEF Moved, CancelRequested
<1>3. CASE row.state = "running" /\ ~row.cancel
  <2>1. CancelNoted(row, Marked(row))
    BY <1>3, MarkedRow DEF CancelNoted, Rewritten
  <2>2. QED
    BY <1>3, <2>1 DEF Moved, CancelRequested
<1>4. QED
  BY <1>1, <1>2, <1>3 DEF CancelRequested

LEMMA RequestRowMoves ==
  ASSUME TypeInv, NEW r \in Requests, RequestStep(r), NEW s \in Syncs
  PROVE  RowStep(s)
<1>1. syncs[s] \in SyncRow
  BY DEF TypeInv, TypeOK
<1>2. CASE UNCHANGED <<syncs, lastClaim>>
  BY <1>2, KeptRowMoves
<1>3. CASE CommitDelete(r)
  <2>1. CASE s \in SyncsOf(request[r].case) /\ ~UNCHANGED <<syncs, lastClaim>>
    <3>1. ActiveSyncs(request[r].case) = {} /\ syncs'[s] = NoSync /\ lastClaim'[s] = NULL
      BY <1>3, <2>1 DEF CommitDelete
    <3>2. syncs[s].state \in TerminalStates
      BY <1>1, <2>1, <3>1 DEF SyncsOf, ActiveSyncs, SyncRow
    <3>3. QED
      BY <3>1, <3>2 DEF RowStep, Erased
  <2>2. CASE s \notin SyncsOf(request[r].case)
    BY <1>2, <1>3, <2>2, KeptRowMoves DEF CommitDelete
  <2>3. QED
    BY <1>2, <2>1, <2>2
<1>4. CASE CommitEnqueue(r) /\ ~UNCHANGED syncs
  <2>1. PICK u \in Syncs, lag \in Lags :
          /\ syncs[u].state = "absent"
          /\ ActiveSyncs(request[r].case) = {}
          /\ syncs' = [syncs EXCEPT ![u] = Enqueued(request[r].case, request[r].key, lag)]
    BY <1>4 DEF CommitEnqueue, InsertAllowed
  <2>2. request[r].case \in Cases \cup {NULL} /\ request[r].key \in Keys \cup {NULL}
    BY DEF TypeInv, TypeOK, RequestState
  <2>3. CASE s = u
    <3>1. syncs'[s] = Enqueued(request[r].case, request[r].key, lag)
      BY <2>1, <2>3 DEF TypeInv, TypeOK
    <3>2. /\ syncs'[s].case = request[r].case
          /\ syncs'[s].state = "queued" /\ syncs'[s].attempts = 0
          /\ syncs'[s].nextAttempt \in Int
          /\ syncs'[s].cancel = FALSE /\ syncs'[s].run = NULL
      <4> DEFINE row == Enqueued(request[r].case, request[r].key, lag)
      <4>1. /\ row.case = request[r].case
            /\ row.state = "queued" /\ row.attempts = 0 /\ row.nextAttempt \in Int
            /\ row.cancel = FALSE /\ row.run = NULL
        BY <2>2, EnqueuedRow, Zenon
      <4> HIDE DEF row
      <4>2. QED
        BY <3>1, <4>1 DEF row
    <3>3. Inserted(syncs[s], syncs'[s])
      BY <2>1, <2>3, <3>2, ConstantsAssumption DEF Inserted
    <3>4. lastClaim' = lastClaim /\ \A v \in Syncs \ {s} : syncs'[v] = syncs[v]
      BY <1>4, <2>1, <2>3 DEF CommitEnqueue, TypeInv, TypeOK
    <3>5. /\ ActiveSyncs(syncs'[s].case) = {}
          /\ request[r].does = "enqueue" /\ request[r].case = syncs'[s].case
      BY <1>4, <2>1, <3>2 DEF CommitEnqueue
    <3>6. QED
      BY <3>3, <3>4, <3>5 DEF RowStep
  <2>4. CASE s # u
    BY <1>4, <2>1, <2>4, KeptRowMoves DEF CommitEnqueue, TypeInv, TypeOK
  <2>5. QED
    BY <2>3, <2>4
<1>5. CASE CommitCancel(r)
  <2>1. CASE s = request[r].sync
    <3>1. syncs'[s] = CancelRequested(syncs[s]) /\ lastClaim' = lastClaim
      BY <1>5, <2>1 DEF CommitCancel, TypeInv, TypeOK
    <3>2. QED
      BY <1>1, <3>1, CancellationMoves DEF RowStep
  <2>2. CASE s # request[r].sync
    BY <1>5, <2>2, KeptRowMoves DEF CommitCancel, TypeInv, TypeOK
  <2>3. QED
    BY <2>1, <2>2
<1>6. QED
  BY <1>2, <1>3, <1>4, <1>5
     DEF RequestStep, BeginDelete, BeginEnqueue, BeginCancel, CommitEnqueue

LEMMA TickRowMoves ==
  ASSUME TypeInv, Tick, NEW s \in Syncs
  PROVE  RowStep(s)
<1>1. syncs[s] \in SyncRow
  BY DEF TypeInv, TypeOK
<1>2. syncs'[s] = Older(syncs[s]) /\ lastClaim'[s] = lastClaim[s]
  BY DEF Tick
<1>3. Unmoved(syncs[s], Older(syncs[s]))
  BY <1>1, OlderRow DEF Unmoved
<1>4. QED
  BY <1>2, <1>3 DEF RowStep, Moved

LEMMA ClaimRowMoves ==
  ASSUME TypeInv, NEW w \in Workers, ClaimNext(w), NEW s \in Syncs
  PROVE  RowStep(s)
<1>1. PICK lag \in Lags, t \in Tokens :
        \E u \in Candidates(lag) :
          /\ Fresh(t)
          /\ syncs' = [syncs EXCEPT ![u] = Claimed(@, t, lag)]
          /\ lastClaim' = [lastClaim EXCEPT ![u] = t]
  BY DEF ClaimNext
<1>2. PICK u \in Candidates(lag) :
        /\ Fresh(t)
        /\ syncs' = [syncs EXCEPT ![u] = Claimed(@, t, lag)]
        /\ lastClaim' = [lastClaim EXCEPT ![u] = t]
  BY <1>1
<1>3. CASE s = u
  <2>1. /\ syncs[s] \in SyncRow /\ syncs[s].state = "queued" /\ ~syncs[s].cancel
        /\ syncs[s].attempts < MaxAttempts
    BY <1>2, <1>3 DEF Candidates, Claimable, TypeInv, TypeOK
  <2>2. syncs'[s] = Claimed(syncs[s], t, lag) /\ lastClaim'[s] = t
    BY <1>2, <1>3 DEF TypeInv, TypeOK
  <2>3. TakenUp(syncs[s], syncs'[s]) /\ syncs'[s].token = t
    BY <2>1, <2>2, ClaimedRow DEF TakenUp
  <2>4. QED
    BY <1>2, <2>2, <2>3 DEF RowStep
<1>4. CASE s # u
  BY <1>2, <1>4, KeptRowMoves DEF TypeInv, TypeOK
<1>5. QED
  BY <1>3, <1>4

LEMMA JobRowMoves ==
  ASSUME TypeInv, NEW w \in Workers, NEW s \in Syncs,
         \/ CloseUnavailableClaim(w) \/ AdvanceToIngestion(w) \/ AdvanceToFinalizing(w)
         \/ Heartbeat(w) \/ ScheduleRetry(w) \/ CommitRun(w) \/ FailWithoutRun(w)
         \/ FinishCancelled(w)
  PROVE  RowStep(s)
<1>1. worker[w].at \in BusyPoints
  BY DEF CloseUnavailableClaim, AdvanceToIngestion, AdvanceToFinalizing, Heartbeat,
         ScheduleRetry, CommitRun, FailWithoutRun, FinishCancelled,
         BusyPoints, ExecutingPoints, ClosingPoints
<1>2. /\ Row(w) \in SyncRow /\ worker[w].token \in Tokens
      /\ Row(w).version + 1 \in Nat /\ \A lag \in Lags : LeaseTicks - lag \in Int
  BY <1>1, RowOfBusyWorker
<1>3. UNCHANGED lastClaim
  BY DEF CloseUnavailableClaim, AdvanceToIngestion, AdvanceToFinalizing, Heartbeat,
         ScheduleRetry, CommitRun, FailWithoutRun, FinishCancelled
<1>4. CASE UNCHANGED syncs
  BY <1>3, <1>4, KeptRowMoves
<1>5. ASSUME NEW row, SetRow(w, row), Moved(Row(w), row)
      PROVE  RowStep(s)
  BY <1>3, <1>5, WorkersRowMoves
<1>6. ASSUME NEW lag, Held(w, lag)
      PROVE  /\ Row(w).state = "running" /\ Row(w).token = worker[w].token
             /\ Row(w).lease # NULL
  BY <1>6 DEF Held, Row, LeaseValid
<1>7. CASE CloseUnavailableClaim(w) /\ ~UNCHANGED syncs
  BY <1>2, <1>5, <1>6, <1>7, ClosingMoves DEF CloseUnavailableClaim
<1>8. CASE FailWithoutRun(w) /\ ~UNCHANGED syncs
  BY <1>2, <1>5, <1>6, <1>8, ClosingMoves DEF FailWithoutRun, HeldUncancelled
<1>9. CASE FinishCancelled(w) /\ ~UNCHANGED syncs
  BY <1>2, <1>5, <1>6, <1>9, ClosingMoves DEF FinishCancelled, HeldCancelled, Row
<1>10. CASE ScheduleRetry(w) /\ ~UNCHANGED syncs
  <2>1. PICK lag \in Lags, delay \in 1..RetryTicks :
          /\ HeldUncancelled(w, lag) /\ Row(w).attempts < MaxAttempts
          /\ SetRow(w, Requeued(Row(w), delay - lag))
    BY <1>10 DEF ScheduleRetry
  <2>2. delay - lag \in Int /\ ~Row(w).cancel /\ Held(w, lag)
    BY <2>1, ConstantsAssumption DEF Lags, HeldUncancelled, Row
  <2>3. QED
    BY <1>2, <1>5, <1>6, <2>1, <2>2, RequeueMoves
<1>11. CASE CommitRun(w) /\ ~UNCHANGED syncs
  <2> DEFINE row == Published(Row(w), worker[w].result, worker[w].token)
  <2>1. PICK lag \in Lags : PublicationAllowed(w, lag) /\ SetRow(w, row)
    BY <1>11 DEF CommitRun
  <2>2. /\ Row(w).state = "running" /\ Row(w).token = worker[w].token
        /\ ~Row(w).cancel /\ Row(w).run = NULL
    BY <1>6, <2>1 DEF PublicationAllowed, HeldUncancelled, Row
  <2>3. worker[w].result \in Results
    BY <1>11 DEF CommitRun, TypeInv, WorkersRememberClaims, PublishingPoints
  <2>4. ClosedWithRun(Row(w), row)
    BY <1>2, <2>2, <2>3, PublishedRow, ConstantsAssumption DEF ClosedWithRun, Rewritten
  <2>5. QED
    BY <1>5, <2>1, <2>4 DEF Moved
<1>12. CASE (AdvanceToIngestion(w) \/ AdvanceToFinalizing(w)) /\ ~UNCHANGED syncs
  <2>1. PICK stage \in {"ingesting", "finalizing"}, lag \in Lags :
          HeldUncancelled(w, lag) /\ SetRow(w, Advanced(Row(w), stage, lag))
    BY <1>12 DEF AdvanceToIngestion, AdvanceToFinalizing, Advance
  <2>2. Row(w).state = "running" /\ ~Row(w).cancel
    BY <1>6, <2>1 DEF HeldUncancelled, Row
  <2> DEFINE row == Advanced(Row(w), stage, lag)
  <2>3. /\ row.lease \in Int /\ row.version = Row(w).version + 1
        /\ row.state = Row(w).state /\ row.case = Row(w).case
        /\ row.attempts = Row(w).attempts /\ row.token = Row(w).token
        /\ row.cancel = Row(w).cancel /\ row.run = Row(w).run
    <3>1. stage \in Stages
      BY DEF Stages
    <3>2. QED
      BY <1>2, <3>1, AdvancedRow, Zenon
  <2>4. SetRow(w, row)
    BY <2>1
  <2> HIDE DEF row
  <2>5. Progressed(Row(w), row)
    BY <2>2, <2>3, ConstantsAssumption DEF Progressed, Rewritten
  <2>6. QED
    BY <1>5, <2>4, <2>5 DEF Moved
<1>13. CASE Heartbeat(w) /\ ~UNCHANGED syncs
  <2>1. PICK lag \in Lags : Held(w, lag) /\ SetRow(w, Extended(Row(w), lag))
    BY <1>13 DEF Heartbeat
  <2>2. Unmoved(Row(w), Extended(Row(w), lag))
    BY <1>2, <1>6, <2>1, ExtendedRow, ConstantsAssumption DEF Unmoved
  <2>3. QED
    BY <1>5, <2>1, <2>2 DEF Moved
<1>14. QED
  BY <1>4, <1>7, <1>8, <1>9, <1>10, <1>11, <1>12, <1>13

LEMMA EveryRowMoves ==
  ASSUME TypeInv, [Next]_vars, NEW s \in Syncs
  PROVE  RowStep(s)
<1>1. CASE UNCHANGED <<syncs, lastClaim>>
  BY <1>1, KeptRowMoves
<1>2. ASSUME NEW w \in Workers, RecoverExpired(w) PROVE RowStep(s)
  <2>1. PICK lag \in Lags : syncs'[s] = Recovered(syncs[s], lag)
    BY <1>2 DEF RecoverExpired
  <2>2. syncs[s] \in SyncRow /\ lastClaim' = lastClaim
    BY <1>2 DEF RecoverExpired, TypeInv, TypeOK
  <2>3. QED
    BY <2>1, <2>2, RecoveryMoves DEF RowStep
<1>3. ASSUME NEW c \in Cases, CaseStep(c) PROVE RowStep(s)
  BY <1>1, <1>3 DEF CaseStep, CreateOrOpenCase, RestoreCase, ArchiveCase
<1>4. ASSUME NEW w \in Workers, WorkerStep(w) PROVE RowStep(s)
  BY <1>1, <1>2, <1>4, ClaimRowMoves, JobRowMoves
     DEF WorkerStep, ExecuteStep, ClaimNothing, LoadClaim, ValidateSettings, StartBuilder,
         BuilderReturns, BuilderRaises, CheckPublication, InternalError, IterationError,
         StartWorker, RequestStop, ExitLoop, Crash
<1>5. QED
  BY <1>1, <1>3, <1>4, RequestRowMoves, TickRowMoves DEF Next, vars

-----------------------------------------------------------------------------
(* The inductive invariant of the rows.  Besides the three safety           *)
(* properties it says that a row in the queue or in execution has no run    *)
(* yet, and that the token of a running row is the one of its last claim:   *)
(* without the first a late cancellation would meet a published run,        *)
(* without the second a publication could carry the token of another claim. *)

ActiveRowsHaveNoRun == \A s \in Syncs : syncs[s].state \in ActiveStates => syncs[s].run = NULL

RunningRowsBelongToLastClaim ==
  \A s \in Syncs : syncs[s].state = "running" => syncs[s].token = lastClaim[s]

RowInv ==
  /\ ActiveJobsAreRecoverable
  /\ ActiveRowsHaveNoRun
  /\ RunningRowsBelongToLastClaim
  /\ RunBelongsToLastClaim
  /\ CancelBeatsPublication

(* RowInv of one row.                                                       *)
GoodRow(row, claim) ==
  /\ row.state = "queued" =>
       row.nextAttempt # NULL /\ row.attempts < MaxAttempts /\ ~row.cancel
  /\ row.state = "running" => row.token # NULL /\ row.lease # NULL
  /\ row.state \in ActiveStates => row.run = NULL
  /\ row.state = "running" => row.token = claim
  /\ row.run # NULL => row.run = claim
  /\ row.state \in {"succeeded", "partial"} => row.run # NULL
  /\ row.cancel => row.run = NULL

LEMMA RowInvByRow == RowInv <=> \A s \in Syncs : GoodRow(syncs[s], lastClaim[s])
BY DEF RowInv, GoodRow, ActiveJobsAreRecoverable, ActiveRowsHaveNoRun,
       RunningRowsBelongToLastClaim, RunBelongsToLastClaim, CancelBeatsPublication

LEMMA RowInvByRowPrimed == RowInv' <=> \A s \in Syncs : GoodRow(syncs'[s], lastClaim'[s])
BY DEF RowInv, GoodRow, ActiveJobsAreRecoverable, ActiveRowsHaveNoRun,
       RunningRowsBelongToLastClaim, RunBelongsToLastClaim, CancelBeatsPublication

LEMMA RowInvInit == Init => RowInv
BY DEF Init, NoSync, RowInv, ActiveJobsAreRecoverable, ActiveRowsHaveNoRun,
       RunningRowsBelongToLastClaim, RunBelongsToLastClaim, CancelBeatsPublication,
       ActiveStates

LEMMA GoodRowStays ==
  ASSUME TypeInv, TypeInv', NEW s \in Syncs, GoodRow(syncs[s], lastClaim[s]), RowStep(s)
  PROVE  GoodRow(syncs'[s], lastClaim'[s])
<1> DEFINE p == syncs[s]
           q == syncs'[s]
<1>1. p \in SyncRow /\ q \in SyncRow
  BY DEF TypeInv, TypeOK
<1>2. /\ p.cancel \in BOOLEAN /\ q.cancel \in BOOLEAN
      /\ p.attempts \in Int /\ q.attempts \in Int
  BY <1>1, ConstantsAssumption DEF SyncRow
<1>3. GoodRow(p, lastClaim[s])
  OBVIOUS
<1>4. CASE Moved(p, q) /\ lastClaim'[s] = lastClaim[s]
  <2> SUFFICES ASSUME NEW claim, claim = lastClaim[s], claim = lastClaim'[s]
               PROVE  GoodRow(q, claim)
    BY <1>4
  <2>0. GoodRow(p, claim) /\ Moved(p, q)
    BY <1>3, <1>4
  <2> HIDE DEF p, q
  <2>1. CASE Unmoved(p, q)
    BY <2>0, <2>1 DEF GoodRow, Unmoved
  <2>2. CASE Progressed(p, q)
    BY <2>0, <2>2 DEF GoodRow, Progressed, ActiveStates
  <2>3. CASE CancelNoted(p, q)
    BY <2>0, <2>3 DEF GoodRow, CancelNoted, ActiveStates
  <2>4. CASE PutBack(p, q)
    BY <2>0, <2>4 DEF GoodRow, PutBack, Rewritten, ActiveStates
  <2>5. CASE ClosedWithoutRun(p, q)
    BY <2>0, <2>5 DEF GoodRow, ClosedWithoutRun, ActiveStates
  <2>6. CASE ClosedWithRun(p, q)
    BY <2>0, <2>6 DEF GoodRow, ClosedWithRun, ActiveStates
  <2>7. QED
    BY <2>0, <2>1, <2>2, <2>3, <2>4, <2>5, <2>6 DEF Moved
<1>5. CASE TakenUp(p, q) /\ lastClaim'[s] = q.token
  <2> HIDE DEF p, q
  <2>1. QED
    BY <1>3, <1>5, ConstantsAssumption DEF GoodRow, TakenUp, ActiveStates, p, q
<1>6. CASE Erased(p, q) /\ lastClaim'[s] = NULL
  BY <1>6 DEF Erased, GoodRow, NoSync, ActiveStates
<1>7. CASE Inserted(p, q) /\ lastClaim'[s] = lastClaim[s]
  <2> HIDE DEF p, q
  <2>1. QED
    BY <1>7, ConstantsAssumption DEF GoodRow, Inserted, ActiveStates, p, q
<1>8. QED
  BY <1>4, <1>5, <1>6, <1>7 DEF RowStep

LEMMA RowInvNext == TypeInv /\ TypeInv' /\ RowInv /\ [Next]_vars => RowInv'
BY EveryRowMoves, GoodRowStays, RowInvByRow, RowInvByRowPrimed

LEMMA Inductive == Spec => [](TypeInv /\ RowInv)
<1>1. TypeInv /\ RowInv /\ [Next]_vars => (TypeInv /\ RowInv)'
  BY TypeInvNext, RowInvNext
<1>2. QED
  BY <1>1, TypeInvInit, RowInvInit, PTL DEF Spec

(* A queued job can be claimed and a running job can be recovered, so no    *)
(* handler strands a job and the fourth UPDATE of recover_expired is dead.  *)
THEOREM JobsStayRecoverable == Spec => []ActiveJobsAreRecoverable
<1>1. RowInv => ActiveJobsAreRecoverable
  BY DEF RowInv
<1>2. QED
  BY <1>1, Inductive, PTL

(* Only the latest claimant of a job publishes, whatever leases expire.     *)
THEOREM LeaseFenceHolds == Spec => []RunBelongsToLastClaim
<1>1. RowInv => RunBelongsToLastClaim
  BY DEF RowInv
<1>2. QED
  BY <1>1, Inductive, PTL

(* A recorded cancellation and a published run exclude each other.          *)
THEOREM CancellationHolds == Spec => []CancelBeatsPublication
<1>1. RowInv => CancelBeatsPublication
  BY DEF RowInv
<1>2. QED
  BY <1>1, Inductive, PTL

-----------------------------------------------------------------------------
(* One active sync per case.                                                *)

(* A row is active only because it was active before, or because it was     *)
(* inserted while its case had no active row.                               *)
LEMMA ActiveRowsAreOldOrAlone ==
  ASSUME NEW s \in Syncs, RowStep(s), syncs'[s].state \in ActiveStates
  PROVE  \/ syncs[s].state \in ActiveStates /\ syncs[s].case = syncs'[s].case
         \/ /\ ActiveSyncs(syncs'[s].case) = {}
            /\ \A u \in Syncs \ {s} : syncs'[u] = syncs[u]
<1>1. CASE Erased(syncs[s], syncs'[s])
  BY <1>1 DEF Erased, NoSync, ActiveStates
<1>2. CASE Moved(syncs[s], syncs'[s])
  BY <1>2 DEF Moved, Unmoved, Progressed, CancelNoted, PutBack, ClosedWithoutRun,
              ClosedWithRun, Rewritten, ActiveStates
<1>3. CASE TakenUp(syncs[s], syncs'[s])
  BY <1>3 DEF TakenUp, ActiveStates
<1>4. QED
  BY <1>1, <1>2, <1>3 DEF RowStep

LEMMA OneActiveNext ==
  ASSUME TypeInv, OneActiveSyncPerCase, [Next]_vars
  PROVE  OneActiveSyncPerCase'
<1> SUFFICES ASSUME NEW s \in Syncs, NEW u \in Syncs,
                    syncs'[s].state \in ActiveStates, syncs'[u].state \in ActiveStates,
                    syncs'[s].case = syncs'[u].case, s # u
             PROVE  FALSE
  BY DEF OneActiveSyncPerCase
<1>1. RowStep(s) /\ RowStep(u)
  BY EveryRowMoves
<1>2. CASE /\ syncs[s].state \in ActiveStates /\ syncs[s].case = syncs'[s].case
           /\ syncs[u].state \in ActiveStates /\ syncs[u].case = syncs'[u].case
  BY <1>2 DEF OneActiveSyncPerCase
<1>3. CASE ActiveSyncs(syncs'[s].case) = {} /\ syncs'[u] = syncs[u]
  BY <1>3 DEF ActiveSyncs
<1>4. CASE ActiveSyncs(syncs'[u].case) = {} /\ syncs'[s] = syncs[s]
  BY <1>4 DEF ActiveSyncs
<1>5. QED
  BY <1>1, <1>2, <1>3, <1>4, ActiveRowsAreOldOrAlone

(* The unique index on the active sync of a case keeps syncs apart that     *)
(* were checked in reads of long ago, through recovery and retries.         *)
THEOREM OneActive == Spec => []OneActiveSyncPerCase
<1>1. Init => OneActiveSyncPerCase
  BY DEF Init, NoSync, OneActiveSyncPerCase, ActiveStates
<1>2. TypeInv /\ OneActiveSyncPerCase /\ [Next]_vars => OneActiveSyncPerCase'
  BY OneActiveNext
<1>3. QED
  BY <1>1, <1>2, TypeInvInit, TypeInvNext, PTL DEF Spec

-----------------------------------------------------------------------------
(* status_version.                                                          *)

LEMMA VersionRises ==
  ASSUME TypeInv, [Next]_vars, NEW s \in Syncs,
         syncs[s].state # "absent", syncs'[s].state # "absent",
         Visible(syncs'[s]) # Visible(syncs[s])
  PROVE  syncs'[s].version > syncs[s].version
<1>1. syncs[s].version \in Nat
  BY DEF TypeInv, TypeOK, SyncRow
<1>2. ~Erased(syncs[s], syncs'[s]) /\ ~Inserted(syncs[s], syncs'[s])
  BY DEF Erased, Inserted, NoSync
<1>3. ~Unmoved(syncs[s], syncs'[s])
  BY DEF Unmoved, Visible
<1>4. syncs'[s].version = syncs[s].version + 1
  BY <1>2, <1>3, EveryRowMoves
     DEF RowStep, Moved, Progressed, CancelNoted, PutBack, ClosedWithoutRun, ClosedWithRun,
         TakenUp, Rewritten
<1>5. QED
  BY <1>1, <1>4

(* No writer of a job hides its change from a client that drops answers     *)
(* whose status_version is not above the one it shows.                      *)
THEOREM VersionsRise == Spec => VersionRisesWithEveryChange
<1>1. TypeInv /\ [Next]_vars =>
        [\A s \in Syncs :
           (/\ syncs[s].state # "absent"
            /\ syncs'[s].state # "absent"
            /\ Visible(syncs'[s]) # Visible(syncs[s]))
           => syncs'[s].version > syncs[s].version]_vars
  BY VersionRises
<1>2. QED
  BY <1>1, TypeInvInit, TypeInvNext, PTL DEF Spec, VersionRisesWithEveryChange

-----------------------------------------------------------------------------
(* The case of a lease holder is live.                                      *)

WorkingPoints == ExecutingPoints \cup ClosingPoints

(* A worker that executes a job did so before, for the same job, or has     *)
(* just loaded it together with a live case.                                *)
LEMMA WorkersKeepTheirJob ==
  ASSUME TypeInv, [Next]_vars, NEW w \in Workers, worker'[w].at \in WorkingPoints
  PROVE  /\ worker'[w].sync = worker[w].sync /\ worker'[w].token = worker[w].token
         /\ \/ worker[w].at \in WorkingPoints /\ worker'[w].case = worker[w].case
            \/ /\ worker[w].at = "claimed" /\ UNCHANGED <<cases, syncs>>
               /\ worker'[w].case = Row(w).case /\ cases[Row(w).case] = "live"
<1> DEFINE Goal == /\ worker'[w].sync = worker[w].sync /\ worker'[w].token = worker[w].token
                   /\ \/ worker[w].at \in WorkingPoints /\ worker'[w].case = worker[w].case
                      \/ /\ worker[w].at = "claimed" /\ UNCHANGED <<cases, syncs>>
                         /\ worker'[w].case = Row(w).case /\ cases[Row(w).case] = "live"
<1>1. worker \in [Workers -> WorkerState]
  BY DEF TypeInv, TypeOK
<1>2. CASE worker'[w] = worker[w]
  BY <1>2
<1>3. ASSUME NEW v \in Workers, v # w, WorkerStep(v) PROVE worker'[w] = worker[w]
  BY <1>1, <1>3
     DEF WorkerStep, ExecuteStep, RecoverExpired, ClaimNext, ClaimNothing, Heartbeat,
         InternalError, IterationError, StartWorker, RequestStop, ExitLoop, Crash,
         LoadClaim, CloseUnavailableClaim, ValidateSettings, AdvanceToIngestion,
         AdvanceToFinalizing, Advance, StartBuilder, BuilderReturns, BuilderRaises,
         ScheduleRetry, CheckPublication, CommitRun, FailWithoutRun, FinishCancelled,
         Goto, ReturnToLoop
<1>4. ASSUME NEW point, Goto(w, point)
      PROVE  /\ worker'[w].at = point /\ worker'[w].sync = worker[w].sync
             /\ worker'[w].token = worker[w].token /\ worker'[w].case = worker[w].case
  BY <1>1, <1>4 DEF Goto, WorkerState
<1>5. ASSUME NEW rest, rest.at \in {"down", "idle"}, worker' = [worker EXCEPT ![w] = rest]
      PROVE  FALSE
  BY <1>1, <1>5 DEF WorkingPoints, ExecutingPoints, ClosingPoints
<1>6. ~ReturnToLoop(w)
  BY <1>5, DownAndRest DEF ReturnToLoop
<1>7. CASE StartWorker(w) \/ ExitLoop(w) \/ Crash(w)
  <2> DEFINE started == [Down EXCEPT !.at = "idle"]
  <2>1. started.at = "idle" /\ Down.at = "down"
    BY DownAndRest
  <2>2. worker' = [worker EXCEPT ![w] = started] \/ worker' = [worker EXCEPT ![w] = Down]
    BY <1>7 DEF StartWorker, ExitLoop, Crash
  <2> HIDE DEF started
  <2>3. QED
    BY <1>5, <2>1, <2>2
<1>8. CASE RecoverExpired(w)
  BY <1>4, <1>8 DEF RecoverExpired, WorkingPoints, ExecutingPoints, ClosingPoints
<1>9. CASE ClaimNext(w)
  <2>1. worker'[w].at = "claimed"
    BY <1>1, <1>9 DEF ClaimNext, WorkerState
  <2>2. QED
    BY <2>1 DEF WorkingPoints, ExecutingPoints, ClosingPoints
<1>10. CASE ClaimNothing(w) \/ CloseUnavailableClaim(w) \/ FinishCancelled(w)
            \/ IterationError(w)
  BY <1>6, <1>10 DEF ClaimNothing, CloseUnavailableClaim, FinishCancelled, IterationError
<1>11. CASE LoadClaim(w)
  <2>1. CASE Goto(w, "unavailable")
    BY <1>4, <2>1 DEF WorkingPoints, ExecutingPoints, ClosingPoints
  <2>2. CASE /\ worker' = [worker EXCEPT ![w].at = "validating", ![w].case = Row(w).case]
             /\ cases[Row(w).case] = "live"
    <3>1. /\ worker'[w].sync = worker[w].sync /\ worker'[w].token = worker[w].token
          /\ worker'[w].case = Row(w).case
      BY <1>1, <2>2 DEF WorkerState
    <3>2. QED
      BY <1>11, <2>2, <3>1 DEF LoadClaim
  <2>3. QED
    BY <1>6, <1>11, <2>1, <2>2 DEF LoadClaim
<1>12. CASE ValidateSettings(w) \/ AdvanceToIngestion(w) \/ AdvanceToFinalizing(w)
            \/ StartBuilder(w) \/ ScheduleRetry(w) \/ CheckPublication(w)
            \/ CommitRun(w) \/ FailWithoutRun(w) \/ InternalError(w)
  <2>1. worker[w].at \in WorkingPoints
    BY <1>12 DEF ValidateSettings, AdvanceToIngestion, AdvanceToFinalizing, StartBuilder,
                 ScheduleRetry, CheckPublication, CommitRun, FailWithoutRun, InternalError,
                 WorkingPoints, ExecutingPoints, ClosingPoints
  <2>2. \E point \in WorkerPoints : Goto(w, point)
    BY <1>6, <1>12
       DEF ValidateSettings, AdvanceToIngestion, AdvanceToFinalizing, Advance, StartBuilder,
           ScheduleRetry, CheckPublication, CommitRun, FailWithoutRun, InternalError,
           WorkerPoints, ExecutingPoints, ClosingPoints
  <2>3. QED
    BY <1>4, <2>1, <2>2
<1>13. CASE BuilderReturns(w) \/ BuilderRaises(w) \/ Heartbeat(w)
  <2>1. worker[w].at \in WorkingPoints
    BY <1>13 DEF BuilderReturns, BuilderRaises, Heartbeat, WorkingPoints, ExecutingPoints
  <2>2. /\ worker'[w].sync = worker[w].sync /\ worker'[w].token = worker[w].token
        /\ worker'[w].case = worker[w].case
    <3>1. CASE BuilderReturns(w)
      <4>1. \/ Goto(w, "cancelling") \/ Goto(w, "retrying")
            \/ \E result \in Results :
                 worker' = [worker EXCEPT ![w].at = "finalizing", ![w].result = result]
        BY <1>6, <3>1 DEF BuilderReturns
      <4>2. ASSUME NEW result \in Results,
                   worker' = [worker EXCEPT ![w].at = "finalizing", ![w].result = result]
            PROVE  /\ worker'[w].sync = worker[w].sync
                   /\ worker'[w].token = worker[w].token
                   /\ worker'[w].case = worker[w].case
        BY <1>1, <4>2 DEF WorkerState
      <4>3. QED
        BY <1>4, <4>1, <4>2
    <3>2. CASE BuilderRaises(w)
      BY <1>1, <3>2 DEF BuilderRaises, WorkerState
    <3>3. CASE Heartbeat(w)
      <4>1. \/ worker' = [worker EXCEPT ![w].cancelSeen = @ \/ Row(w).cancel]
            \/ worker' = [worker EXCEPT ![w].owned = FALSE]
        BY <3>3 DEF Heartbeat
      <4>2. QED
        BY <1>1, <4>1 DEF WorkerState
    <3>4. QED
      BY <1>13, <3>1, <3>2, <3>3
  <2>3. QED
    BY <2>1, <2>2
<1>14. CASE RequestStop(w)
  <2>1. /\ worker'[w].at = worker[w].at /\ worker'[w].case = worker[w].case
        /\ worker'[w].sync = worker[w].sync /\ worker'[w].token = worker[w].token
    BY <1>1, <1>14 DEF RequestStop, WorkerState
  <2>2. QED
    BY <2>1
<1>15. CASE WorkerStep(w)
  BY <1>7, <1>8, <1>9, <1>10, <1>11, <1>12, <1>13, <1>14, <1>15 DEF WorkerStep, ExecuteStep
<1>16. CASE \/ Tick \/ UNCHANGED vars \/ (\E c \in Cases : CaseStep(c))
            \/ (\E r \in Requests : RequestStep(r))
  BY <1>2, <1>16
     DEF Tick, vars, CaseStep, CreateOrOpenCase, RestoreCase, ArchiveCase, RequestStep,
         BeginDelete, CommitDelete, BeginEnqueue, CommitEnqueue, BeginCancel, CommitCancel
<1>17. QED
  BY <1>2, <1>3, <1>15, <1>16 DEF Next

(* Archive and delete are the only ways out of "live".                      *)
LEMMA BusyCasesStayLive ==
  ASSUME TypeInv, [Next]_vars, NEW c, cases[c] = "live", ActiveSyncs(c) # {}, c \in Cases
  PROVE  cases'[c] = "live"
<1>1. CASE cases' = cases
  BY <1>1
<1>2. ASSUME NEW d \in Cases, CaseStep(d) PROVE cases'[c] = "live"
  BY <1>2 DEF CaseStep, CreateOrOpenCase, RestoreCase, ArchiveCase, TypeInv, TypeOK
<1>3. ASSUME NEW r \in Requests, CommitDelete(r) PROVE cases'[c] = "live"
  BY <1>3 DEF CommitDelete, TypeInv, TypeOK
<1>4. QED
  BY <1>1, <1>2, <1>3
     DEF Next, vars, Tick, RequestStep, BeginDelete, BeginEnqueue, CommitEnqueue, BeginCancel,
         CommitCancel, WorkerStep, ExecuteStep, RecoverExpired, ClaimNext, ClaimNothing,
         Heartbeat, InternalError, IterationError, StartWorker, RequestStop, ExitLoop, Crash,
         LoadClaim, CloseUnavailableClaim, ValidateSettings, AdvanceToIngestion,
         AdvanceToFinalizing, StartBuilder, BuilderReturns, BuilderRaises,
         ScheduleRetry, CheckPublication, CommitRun, FailWithoutRun, FinishCancelled

(* A row names a case that the enqueue request had read.                    *)
CaseInv ==
  /\ \A r \in Requests : request[r].does = "enqueue" => request[r].case \in Cases
  /\ \A s \in Syncs : syncs[s].state # "absent" => syncs[s].case \in Cases

LEMMA CaseInvNext ==
  ASSUME TypeInv, CaseInv, [Next]_vars
  PROVE  CaseInv'
<1>1. ASSUME NEW r \in Requests, request'[r].does = "enqueue"
      PROVE  request'[r].case \in Cases
  <2>1. CASE request' = request
    BY <1>1, <2>1 DEF CaseInv
  <2>2. ASSUME NEW u \in Requests, RequestStep(u) PROVE request'[r].case \in Cases
    <3>1. request \in [Requests -> RequestState]
      BY DEF TypeInv, TypeOK
    <3>2. CASE request' = [request EXCEPT ![u] = NoRequest]
      BY <1>1, <3>1, <3>2 DEF CaseInv, NoRequest
    <3>3. ASSUME NEW c \in Cases, NEW k \in Keys, BeginEnqueue(u, c, k)
          PROVE  request'[r].case \in Cases
      BY <1>1, <3>1, <3>3 DEF CaseInv, BeginEnqueue, NoRequest
    <3>4. ASSUME NEW c \in Cases, BeginDelete(u, c) PROVE request'[r].case \in Cases
      BY <1>1, <3>1, <3>4 DEF CaseInv, BeginDelete, NoRequest
    <3>5. ASSUME NEW s \in Syncs, BeginCancel(u, s) PROVE request'[r].case \in Cases
      BY <1>1, <3>1, <3>5 DEF CaseInv, BeginCancel, NoRequest
    <3>6. QED
      BY <2>2, <3>2, <3>3, <3>4, <3>5
         DEF RequestStep, CommitDelete, CommitEnqueue, CommitCancel
  <2>3. QED
    BY <2>1, <2>2
       DEF Next, vars, Tick, CaseStep, CreateOrOpenCase, RestoreCase, ArchiveCase,
           WorkerStep, ExecuteStep, RecoverExpired, ClaimNext, ClaimNothing,
           Heartbeat, InternalError, IterationError, StartWorker, RequestStop, ExitLoop, Crash,
           LoadClaim, CloseUnavailableClaim, ValidateSettings, AdvanceToIngestion,
           AdvanceToFinalizing, StartBuilder, BuilderReturns, BuilderRaises,
           ScheduleRetry, CheckPublication, CommitRun, FailWithoutRun, FinishCancelled
<1>2. ASSUME NEW s \in Syncs, syncs'[s].state # "absent"
      PROVE  syncs'[s].case \in Cases
  <2>1. RowStep(s)
    BY EveryRowMoves
  <2>2. CASE syncs'[s].case = syncs[s].case /\ syncs[s].state # "absent"
    BY <2>2 DEF CaseInv
  <2>3. CASE syncs'[s].case = syncs[s].case /\ syncs'[s].state = syncs[s].state
    BY <1>2, <2>3 DEF CaseInv
  <2>4. QED
    BY <1>2, <2>1, <2>2, <2>3
       DEF RowStep, Moved, Unmoved, Progressed, CancelNoted, PutBack, ClosedWithoutRun,
           ClosedWithRun, Rewritten, TakenUp, Erased, NoSync, ActiveStates, CaseInv
<1>3. QED
  BY <1>1, <1>2 DEF CaseInv

LEMMA HolderNext ==
  ASSUME TypeInv, CaseInv, HolderWorksOnLiveCase, [Next]_vars
  PROVE  HolderWorksOnLiveCase'
<1> SUFFICES ASSUME NEW w \in Workers, worker'[w].at \in WorkingPoints,
                    syncs'[worker'[w].sync].state = "running",
                    syncs'[worker'[w].sync].token = worker'[w].token
             PROVE  /\ worker'[w].case = syncs'[worker'[w].sync].case
                    /\ cases'[worker'[w].case] = "live"
  BY DEF HolderWorksOnLiveCase, Row, WorkingPoints
<1> DEFINE s == worker[w].sync
<1>1. worker'[w].sync = s /\ worker'[w].token = worker[w].token
  BY WorkersKeepTheirJob
<1>2. CASE /\ worker[w].at = "claimed" /\ UNCHANGED <<cases, syncs>>
           /\ worker'[w].case = Row(w).case /\ cases[Row(w).case] = "live"
  BY <1>1, <1>2 DEF Row
<1>3. CASE worker[w].at \in WorkingPoints /\ worker'[w].case = worker[w].case
  <2>1. s \in Syncs /\ worker[w].token \in Tokens /\ Row(w) = syncs[s]
    BY <1>3, RowOfBusyWorker DEF Row, BusyPoints, WorkingPoints
  <2>2. RowStep(s)
    BY <2>1, EveryRowMoves
  <2>3. syncs'[s].state = "running" /\ syncs'[s].token = worker[w].token
    BY <1>1
  <2>4. /\ syncs[s].state = "running" /\ syncs[s].token = worker[w].token
        /\ syncs'[s].case = syncs[s].case
    <3> HIDE DEF s
    <3>1. CASE Moved(syncs[s], syncs'[s])
      BY <2>3, <3>1 DEF Moved, Unmoved, Progressed, CancelNoted, PutBack, ClosedWithoutRun,
                        ClosedWithRun, Rewritten
    <3>2. CASE Inserted(syncs[s], syncs'[s])
      BY <2>3, <3>2 DEF Inserted
    <3>3. CASE lastClaim'[s] = syncs'[s].token /\ Fresh(lastClaim'[s])
      BY <2>3, <3>3 DEF Fresh
    <3>4. CASE Erased(syncs[s], syncs'[s])
      BY <2>3, <3>4 DEF Erased, NoSync
    <3>5. QED
      BY <2>2, <3>1, <3>2, <3>3, <3>4 DEF RowStep
  <2>5. worker[w].case = syncs[s].case /\ cases[worker[w].case] = "live"
    BY <1>3, <2>1, <2>4 DEF HolderWorksOnLiveCase, WorkingPoints
  <2>6. s \in ActiveSyncs(worker[w].case)
    BY <2>1, <2>4, <2>5 DEF ActiveSyncs, ActiveStates
  <2>7. worker[w].case \in Cases
    BY <2>1, <2>4, <2>5 DEF CaseInv
  <2>8. QED
    BY <1>1, <1>3, <2>4, <2>5, <2>6, <2>7, BusyCasesStayLive
<1>4. QED
  BY <1>2, <1>3, WorkersKeepTheirJob

(* The check of the case when a job is loaded is never outdated while the   *)
(* worker holds the lease: nothing archives or deletes a case under it.     *)
THEOREM HoldersCaseIsLive == Spec => []HolderWorksOnLiveCase
<1>1. Init => CaseInv /\ HolderWorksOnLiveCase
  BY DEF Init, CaseInv, NoSync, NoRequest, Down, HolderWorksOnLiveCase, ExecutingPoints,
         ClosingPoints
<1>2. TypeInv /\ CaseInv /\ HolderWorksOnLiveCase /\ [Next]_vars
        => CaseInv' /\ HolderWorksOnLiveCase'
  BY CaseInvNext, HolderNext
<1>3. QED
  BY <1>1, <1>2, TypeInvInit, TypeInvNext, PTL DEF Spec

-----------------------------------------------------------------------------
(* The queue implements the job contract: every move of a row is a step of  *)
(* its job, or leaves it at rest.                                           *)

PhaseOf(row) == IF row.state = "running" /\ row.cancel THEN "cancelling" ELSE row.state

LEMMA ContractInitially == Init => Contract!ContractInit
BY DEF Init, NoSync, Contract!ContractInit

LEMMA ContractRest ==
  ASSUME NEW s \in Syncs, syncs'[s].attempts = syncs[s].attempts,
         PhaseOf(syncs'[s]) = PhaseOf(syncs[s])
  PROVE  Contract!Rests(s)
BY DEF Contract!Rests, PhaseOf

(* The two moves that change the number of executions ...                   *)
LEMMA ContractExecute ==
  ASSUME NEW s \in Syncs, TakenUp(syncs[s], syncs'[s])
  PROVE  Contract!JobStep(s)
<1>1. Contract!Execute(s)
  BY DEF TakenUp, Contract!Execute, Contract!Moves
<1>2. QED
  BY <1>1, Zenon DEF Contract!JobStep

LEMMA ContractSubmit ==
  ASSUME NEW s \in Syncs, Inserted(syncs[s], syncs'[s])
  PROVE  Contract!JobStep(s)
<1>1. Contract!Submit(s)
  BY DEF Inserted, Contract!Submit, Contract!Moves
<1>2. QED
  BY <1>1, Zenon DEF Contract!JobStep

(* ... and those that keep it.                                              *)
LEMMA ContractPutBack ==
  ASSUME NEW s \in Syncs, PutBack(syncs[s], syncs'[s])
  PROVE  Contract!JobStep(s)
<1>1. Contract!Requeue(s)
  BY DEF PutBack, Rewritten, Contract!Requeue, Contract!Moves
<1>2. QED
  BY <1>1, Zenon DEF Contract!JobStep

LEMMA ContractCancelNoted ==
  ASSUME NEW s \in Syncs, CancelNoted(syncs[s], syncs'[s])
  PROVE  Contract!JobStep(s)
<1>1. Contract!AskCancel(s)
  BY DEF CancelNoted, Rewritten, Contract!AskCancel, Contract!Moves
<1>2. QED
  BY <1>1, Zenon DEF Contract!JobStep

LEMMA ContractClosedWithRun ==
  ASSUME NEW s \in Syncs, ClosedWithRun(syncs[s], syncs'[s])
  PROVE  Contract!JobStep(s)
<1>1. Contract!Finish(s)
  BY DEF ClosedWithRun, Rewritten, Contract!Finish, Contract!Moves
<1>2. QED
  BY <1>1, Zenon DEF Contract!JobStep

(* A row that closes without a run was withdrawn from the queue, failed, or *)
(* had a recorded cancellation.                                             *)
LEMMA ContractClosedWithoutRun ==
  ASSUME NEW s \in Syncs, GoodRow(syncs[s], lastClaim[s]),
         syncs[s].attempts \in 0..MaxAttempts,
         ClosedWithoutRun(syncs[s], syncs'[s])
  PROVE  Contract!JobStep(s)
<1>1. CASE syncs[s].state = "queued"
  <2>1. Contract!CancelQueued(s)
    BY <1>1, ConstantsAssumption
       DEF GoodRow, ClosedWithoutRun, Rewritten, Contract!CancelQueued, Contract!Moves
  <2>2. QED
    BY <2>1, Zenon DEF Contract!JobStep
<1>2. CASE syncs[s].state = "running" /\ ~syncs[s].cancel
  <2>1. Contract!Finish(s)
    BY <1>2 DEF ClosedWithoutRun, Rewritten, Contract!Finish, Contract!Moves
  <2>2. QED
    BY <2>1, Zenon DEF Contract!JobStep
<1>3. CASE syncs[s].state = "running" /\ syncs[s].cancel
  <2>1. Contract!Abandon(s)
    BY <1>3 DEF ClosedWithoutRun, Rewritten, Contract!Abandon, Contract!Moves
  <2>2. QED
    BY <2>1, Zenon DEF Contract!JobStep
<1>4. QED
  BY <1>1, <1>2, <1>3 DEF ClosedWithoutRun, ActiveStates

LEMMA ContractErased ==
  ASSUME NEW s \in Syncs, Erased(syncs[s], syncs'[s])
  PROVE  Contract!JobStep(s)
<1>1. Contract!Erase(s)
  BY DEF Erased, NoSync, TerminalStates, Contract!Erase, Contract!Moves,
         Contract!FinalPhases
<1>2. QED
  BY <1>1, Zenon DEF Contract!JobStep

LEMMA ContractStep ==
  ASSUME TypeInv, RowInv, [Next]_vars, NEW s \in Syncs
  PROVE  Contract!JobStep(s) \/ Contract!Rests(s)
<1>1. RowStep(s) /\ GoodRow(syncs[s], lastClaim[s])
  BY EveryRowMoves, RowInvByRow
<1>2. syncs[s].attempts \in 0..MaxAttempts
  BY DEF TypeInv, TypeOK, SyncRow
<1>3. CASE Unmoved(syncs[s], syncs'[s]) \/ Progressed(syncs[s], syncs'[s])
  <2>1. /\ syncs'[s].attempts = syncs[s].attempts
        /\ PhaseOf(syncs'[s]) = PhaseOf(syncs[s])
    BY <1>3 DEF Unmoved, Progressed, Rewritten, PhaseOf
  <2>2. QED
    BY <2>1, ContractRest
<1>4. CASE \/ TakenUp(syncs[s], syncs'[s]) \/ Inserted(syncs[s], syncs'[s])
          \/ PutBack(syncs[s], syncs'[s]) \/ CancelNoted(syncs[s], syncs'[s])
          \/ ClosedWithRun(syncs[s], syncs'[s]) \/ Erased(syncs[s], syncs'[s])
  BY <1>4, ContractExecute, ContractSubmit, ContractPutBack, ContractCancelNoted,
     ContractClosedWithRun, ContractErased
<1>5. CASE ClosedWithoutRun(syncs[s], syncs'[s])
  BY <1>1, <1>2, <1>5, ContractClosedWithoutRun
<1>6. QED
  BY <1>1, <1>3, <1>4, <1>5 DEF RowStep, Moved

(* Clients that know only the contract are right: at most MaxAttempts       *)
(* executions, one final phase, no success after an accepted cancellation.  *)
THEOREM QueueImplementsContract == Spec => ImplementsJobContract
<1>1. TypeInv /\ RowInv /\ [Next]_vars => Contract!ContractNext
  BY ContractStep DEF Contract!ContractNext
<1>2. QED
  BY <1>1, ContractInitially, Inductive, PTL
     DEF Spec, ImplementsJobContract, Contract!ContractSpec
=============================================================================
