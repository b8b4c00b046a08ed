--------------------------- MODULE CaseSyncJobs ---------------------------
(***************************************************************************)
(* The durable CaseSync job queue of the backend: the API requests that    *)
(* create, cancel, archive, restore and delete, and the workers that       *)
(* recover, claim, execute and publish, over the wallet_cases and          *)
(* wallet_case_syncs tables.                                               *)
(*                                                                         *)
(*   services/case_sync_jobs.py      worker, lease fence, publication      *)
(*   services/wallet_cases.py        enqueue, cancel, archive, delete      *)
(*   models.py                       the unique indexes of CaseSync        *)
(*                                                                         *)
(* One action is one committed SQLite transaction, or one read outside a   *)
(* transaction whose result the caller uses later.  Time is relative: a    *)
(* column that holds an instant holds the ticks left until that instant,   *)
(* and Tick lets one tick pass.  Every handler reads the wall clock before *)
(* it waits for the SQLite write lock, so it works with a "now" that is    *)
(* lag ticks old when its statement runs, 0 <= lag <= MaxLag.              *)
(***************************************************************************)
EXTENDS Integers, FiniteSets

CONSTANTS Cases,        (* wallet identities                               *)
          Syncs,        (* rowids of wallet_case_syncs, reused by SQLite   *)
          Workers,      (* CaseSyncWorker instances with their runner loop *)
          Requests,     (* HTTP requests in flight                         *)
          Keys,         (* Idempotency-Key values                          *)
          Tokens,       (* lease tokens                                    *)
          NULL,         (* SQL NULL, Python None                           *)
          MaxAttempts,  (* CaseSync.max_attempts                           *)
          LeaseTicks,   (* lease_seconds                                   *)
          RetryTicks,   (* upper bound of _retry_delay                     *)
          MaxLag        (* longest wait for the write lock (busy_timeout)  *)

ASSUME ConstantsAssumption ==
  /\ MaxAttempts \in Nat \ {0}
  /\ LeaseTicks \in Nat \ {0}
  /\ RetryTicks \in Nat \ {0}
  /\ MaxLag \in Nat
  /\ NULL \notin Cases \cup Syncs \cup Keys \cup Tokens \cup Int

VARIABLES cases,        (* wallet_cases: absent, live or archived          *)
          syncs,        (* wallet_case_syncs                               *)
          worker,       (* the local state of every worker thread          *)
          request,      (* the local state of every HTTP request           *)
          lastClaim     (* history: the token of the latest claim of a row *)

vars == <<cases, syncs, worker, request, lastClaim>>

TerminalStates == {"succeeded", "partial", "failed", "cancelled"}
ActiveStates == {"queued", "running"}
Stages == {"queued", "validating", "ingesting", "finalizing", "cancelling",
           "retry_wait", "completed", "completed_with_limitations",
           "failed", "cancelled"}
Results == {"success", "partial", "error"}
Lags == 0..MaxLag

(* A row of wallet_case_syncs; the abstracted columns (scope, messages,     *)
(* error text, progress, plan) never take part in a guard of the queue.     *)
NoSync == [state |-> "absent", stage |-> "queued", case |-> NULL, key |-> NULL,
           attempts |-> 0, nextAttempt |-> NULL, token |-> NULL, lease |-> NULL,
           cancel |-> FALSE, run |-> NULL, version |-> 0]

SyncRow ==
  [state : {"absent"} \cup ActiveStates \cup TerminalStates, stage : Stages,
   case : Cases \cup {NULL}, key : Keys \cup {NULL}, attempts : 0..MaxAttempts,
   nextAttempt : Int \cup {NULL}, token : Tokens \cup {NULL},
   lease : Int \cup {NULL}, cancel : BOOLEAN, run : Tokens \cup {NULL},
   version : Nat]

(* The points of run_once and execute_claimed between two transactions.     *)
ExecutingPoints == {"validating", "ingesting", "starting", "building", "retrying",
                    "finalizing", "publishing", "committing"}
ClosingPoints == {"failing", "cancelling"}
WorkerPoints == {"down", "idle", "claiming", "claimed", "unavailable"}
                  \cup ExecutingPoints \cup ClosingPoints

WorkerState ==
  [at : WorkerPoints, sync : Syncs \cup {NULL}, case : Cases \cup {NULL},
   token : Tokens \cup {NULL}, attempt : 0..MaxAttempts, owned : BOOLEAN, cancelSeen : BOOLEAN,
   result : Results \cup {NULL}, stop : BOOLEAN]

Down == [at |-> "down", sync |-> NULL, case |-> NULL, token |-> NULL,
         attempt |-> 0, owned |-> TRUE, cancelSeen |-> FALSE, result |-> NULL, stop |-> FALSE]

RequestState ==
  [does : {"none", "enqueue", "cancel", "delete"}, case : Cases \cup {NULL},
   key : Keys \cup {NULL}, sync : Syncs \cup {NULL}]

NoRequest == [does |-> "none", case |-> NULL, key |-> NULL, sync |-> NULL]

TypeOK ==
  /\ cases \in [Cases -> {"absent", "live", "archived"}]
  /\ syncs \in [Syncs -> SyncRow]
  /\ worker \in [Workers -> WorkerState]
  /\ request \in [Requests -> RequestState]
  /\ lastClaim \in [Syncs -> Tokens \cup {NULL}]

Init ==
  /\ cases = [c \in Cases |-> "absent"]
  /\ syncs = [s \in Syncs |-> NoSync]
  /\ worker = [w \in Workers |-> Down]
  /\ request = [r \in Requests |-> NoRequest]
  /\ lastClaim = [s \in Syncs |-> NULL]

-----------------------------------------------------------------------------
(* Queries over the two tables.                                             *)

ActiveSyncs(c) == {s \in Syncs : syncs[s].case = c /\ syncs[s].state \in ActiveStates}
SyncsOf(c) == {s \in Syncs : syncs[s].state # "absent" /\ syncs[s].case = c}
KeyUsed(c, k) == \E s \in SyncsOf(c) : syncs[s].key = k

(* lease_expires_at against a clock that was read lag ticks ago.            *)
LeaseValid(row, lag) == row.lease # NULL /\ row.lease + lag > 0
LeaseExpired(row, lag) == row.lease # NULL /\ row.lease + lag <= 0
Due(row, lag) == row.nextAttempt # NULL /\ row.nextAttempt + lag <= 0

(* secrets.token_hex: no row and no worker remembers the token it returns.  *)
Fresh(t) ==
  /\ \A s \in Syncs : t \notin {syncs[s].token, syncs[s].run, lastClaim[s]}
  /\ \A w \in Workers : worker[w].token # t

-----------------------------------------------------------------------------
(* HTTP requests.  A request that is refused, or repeats what was already   *)
(* done, changes nothing and is left out.                                   *)

CreateOrOpenCase(c) ==
  /\ cases[c] # "live"
  /\ cases' = [cases EXCEPT ![c] = "live"]
  /\ UNCHANGED <<syncs, worker, request, lastClaim>>

RestoreCase(c) ==
  /\ cases[c] = "archived"
  /\ cases' = [cases EXCEPT ![c] = "live"]
  /\ UNCHANGED <<syncs, worker, request, lastClaim>>

(* Mutant: archive_case forgets the running syncs.                          *)
ArchiveIgnoringRunning(c) ==
  /\ cases[c] = "live"
  /\ \A s \in ActiveSyncs(c) : syncs[s].state # "queued"
  /\ cases' = [cases EXCEPT ![c] = "archived"]
  /\ UNCHANGED <<syncs, worker, request, lastClaim>>

(* The guarded UPDATE repeats every check the handler made before it.       *)
ArchiveCase(c) ==
  /\ cases[c] = "live"
  /\ ActiveSyncs(c) = {}
  /\ cases' = [cases EXCEPT ![c] = "archived"]
  /\ UNCHANGED <<syncs, worker, request, lastClaim>>

(* delete_case reads a live, idle case ...                                  *)
BeginDelete(r, c) ==
  /\ request[r].does = "none"
  /\ cases[c] = "live"
  /\ ActiveSyncs(c) = {}
  /\ request' = [request EXCEPT ![r] = [NoRequest EXCEPT !.does = "delete", !.case = c]]
  /\ UNCHANGED <<cases, syncs, worker, lastClaim>>

(* Mutant: delete_case relies on the checks made before the write fence.    *)
DeleteWithoutRecheck(r) ==
  LET c == request[r].case IN
  /\ request[r].does = "delete"
  /\ request' = [request EXCEPT ![r] = NoRequest]
  /\ cases' = [cases EXCEPT ![c] = "absent"]
  /\ syncs' = [s \in Syncs |-> IF s \in SyncsOf(c) THEN NoSync ELSE syncs[s]]
  /\ lastClaim' = [s \in Syncs |-> IF s \in SyncsOf(c) THEN NULL ELSE lastClaim[s]]
  /\ UNCHANGED worker

(* ... and removes it with all its rows behind the write fence, which only  *)
(* re-checks that the case exists and is idle.                              *)
CommitDelete(r) ==
  LET c == request[r].case IN
  /\ request[r].does = "delete"
  /\ request' = [request EXCEPT ![r] = NoRequest]
  /\ IF cases[c] # "absent" /\ ActiveSyncs(c) = {}
     THEN /\ cases' = [cases EXCEPT ![c] = "absent"]
          /\ syncs' = [s \in Syncs |-> IF s \in SyncsOf(c) THEN NoSync ELSE syncs[s]]
          /\ lastClaim' = [s \in Syncs |-> IF s \in SyncsOf(c) THEN NULL ELSE lastClaim[s]]
     ELSE UNCHANGED <<cases, syncs, lastClaim>>
  /\ UNCHANGED worker

(* enqueue_sync reads the live case, no replay and no active sync ...       *)
BeginEnqueue(r, c, k) ==
  /\ request[r].does = "none"
  /\ cases[c] = "live"
  /\ ~KeyUsed(c, k)
  /\ ActiveSyncs(c) = {}
  /\ request' = [request EXCEPT ![r] =
                   [NoRequest EXCEPT !.does = "enqueue", !.case = c, !.key = k]]
  /\ UNCHANGED <<cases, syncs, worker, lastClaim>>

(* Mutant: the unique index on the active sync of a case is missing.        *)
InsertWithoutActiveIndex(c, k) == cases[c] # "absent" /\ ~KeyUsed(c, k)

(* ... and inserts the row.  The foreign key and the two unique indexes are *)
(* all that is checked again; a violation rolls the request back.           *)
InsertAllowed(c, k) ==
  /\ cases[c] # "absent"
  /\ ~KeyUsed(c, k)
  /\ ActiveSyncs(c) = {}

Enqueued(c, k, lag) ==
  [NoSync EXCEPT !.state = "queued", !.case = c, !.key = k, !.nextAttempt = -lag,
                 !.version = 1]

CommitEnqueue(r) ==
  LET c == request[r].case
      k == request[r].key IN
  /\ request[r].does = "enqueue"
  /\ request' = [request EXCEPT ![r] = NoRequest]
  /\ IF InsertAllowed(c, k)
     THEN \E s \in Syncs, lag \in Lags :
            /\ syncs[s].state = "absent"
            /\ syncs' = [syncs EXCEPT ![s] = Enqueued(c, k, lag)]
     ELSE UNCHANGED syncs
  /\ UNCHANGED <<cases, worker, lastClaim>>

(* cancel_sync reads the live case and its unfinished sync ...              *)
BeginCancel(r, s) ==
  /\ request[r].does = "none"
  /\ syncs[s].state \in ActiveStates
  /\ cases[syncs[s].case] = "live"
  /\ request' = [request EXCEPT ![r] = [NoRequest EXCEPT !.does = "cancel", !.sync = s]]
  /\ UNCHANGED <<cases, syncs, worker, lastClaim>>

(* A row leaves the queue for good.                                         *)
Closed(row, state, stage) ==
  [row EXCEPT !.state = state, !.stage = stage, !.nextAttempt = NULL,
              !.token = NULL, !.lease = NULL, !.version = @ + 1]

Withdrawn(row) == [Closed(row, "cancelled", "cancelled") EXCEPT !.cancel = TRUE]
Marked(row) == [row EXCEPT !.stage = "cancelling", !.cancel = TRUE, !.version = @ + 1]

(* Mutant: marking a running row keeps its status_version.                  *)
CancelKeepsVersion(row) ==
  CASE row.state = "queued" -> Withdrawn(row)
    [] row.state = "running" /\ ~row.cancel ->
         [row EXCEPT !.stage = "cancelling", !.cancel = TRUE]
    [] OTHER -> row

(* ... and, in one transaction, closes it if it is still queued or marks it *)
(* if it is running and not marked yet.                                     *)
CancelRequested(row) ==
  CASE row.state = "queued" -> Withdrawn(row)
    [] row.state = "running" /\ ~row.cancel -> Marked(row)
    [] OTHER -> row

CommitCancel(r) ==
  LET s == request[r].sync IN
  /\ request[r].does = "cancel"
  /\ request' = [request EXCEPT ![r] = NoRequest]
  /\ syncs' = [syncs EXCEPT ![s] = CancelRequested(@)]
  /\ UNCHANGED <<cases, worker, lastClaim>>

RequestStep(r) ==
  \/ \E c \in Cases : BeginDelete(r, c)
  \/ CommitDelete(r)
  \/ \E c \in Cases, k \in Keys : BeginEnqueue(r, c, k)
  \/ CommitEnqueue(r)
  \/ \E s \in Syncs : BeginCancel(r, s)
  \/ CommitCancel(r)

CaseStep(c) == CreateOrOpenCase(c) \/ RestoreCase(c) \/ ArchiveCase(c)

-----------------------------------------------------------------------------
(* Workers: run_once of the loop in LocalCaseSyncJobRunner._run.            *)

Rest(w) == [Down EXCEPT !.at = "idle", !.stop = worker[w].stop]
Goto(w, point) == worker' = [worker EXCEPT ![w].at = point]
ReturnToLoop(w) == worker' = [worker EXCEPT ![w] = Rest(w)]

(* The fence in the WHERE clause of every statement of an executing worker. *)
Held(w, lag) ==
  LET row == syncs[worker[w].sync] IN
  /\ row.state = "running"
  /\ row.token = worker[w].token
  /\ LeaseValid(row, lag)

HeldUncancelled(w, lag) == Held(w, lag) /\ ~syncs[worker[w].sync].cancel
HeldCancelled(w, lag) == Held(w, lag) /\ syncs[worker[w].sync].cancel

SetRow(w, row) == syncs' = [syncs EXCEPT ![worker[w].sync] = row]
Row(w) == syncs[worker[w].sync]

Requeued(row, ticks) == [Closed(row, "queued", "retry_wait") EXCEPT !.nextAttempt = ticks]

(* Mutants: recovery allows one attempt too many, never gives an exhausted  *)
(* job up, or ignores a recorded cancellation.                              *)
RecoveredOnceTooOften(row, lag) ==
  CASE row.state = "running" /\ LeaseExpired(row, lag) /\ row.cancel ->
         Closed(row, "cancelled", "cancelled")
    [] row.state = "running" /\ LeaseExpired(row, lag) /\ ~row.cancel
         /\ row.attempts <= MaxAttempts -> Requeued(row, -lag)
    [] OTHER -> row

RecoveredUnlessExhausted(row, lag) ==
  CASE row.state = "running" /\ LeaseExpired(row, lag) /\ row.cancel ->
         Closed(row, "cancelled", "cancelled")
    [] row.state = "running" /\ LeaseExpired(row, lag) /\ ~row.cancel
         /\ row.attempts < MaxAttempts -> Requeued(row, -lag)
    [] OTHER -> row

RecoveredIgnoringCancel(row, lag) ==
  CASE row.state = "running" /\ LeaseExpired(row, lag) /\ row.attempts >= MaxAttempts ->
         Closed(row, "failed", "failed")
    [] row.state = "running" /\ LeaseExpired(row, lag) /\ row.attempts < MaxAttempts ->
         Requeued(row, -lag)
    [] OTHER -> row

(* The four UPDATE statements of the recovery transaction, by row.          *)
Recovered(row, lag) ==
  CASE row.state = "running" /\ LeaseExpired(row, lag) /\ row.cancel ->
         Closed(row, "cancelled", "cancelled")
    [] row.state = "running" /\ LeaseExpired(row, lag) /\ ~row.cancel
         /\ row.attempts >= MaxAttempts ->
         Closed(row, "failed", "failed")
    [] row.state = "running" /\ LeaseExpired(row, lag) /\ ~row.cancel
         /\ row.attempts < MaxAttempts ->
         Requeued(row, -lag)
    [] row.state = "queued" /\ row.stage = "retry_wait" /\ row.attempts >= MaxAttempts ->
         Closed(row, "failed", "failed")
    [] OTHER -> row

RecoverExpired(w) ==
  /\ worker[w].at = "idle"
  /\ ~worker[w].stop
  /\ \E lag \in Lags : syncs' = [s \in Syncs |-> Recovered(syncs[s], lag)]
  /\ Goto(w, "claiming")
  /\ UNCHANGED <<cases, request, lastClaim>>

Claimable(s, lag) ==
  /\ syncs[s].state = "queued"
  /\ ~syncs[s].cancel
  /\ syncs[s].attempts < MaxAttempts
  /\ Due(syncs[s], lag)

(* ORDER BY next_attempt_at; rows that are due since long ago count as tied. *)
Candidates(lag) ==
  {s \in Syncs : /\ Claimable(s, lag)
                 /\ \A u \in Syncs : Claimable(u, lag) =>
                      syncs[s].nextAttempt <= syncs[u].nextAttempt}

Claimed(row, t, lag) ==
  [row EXCEPT !.state = "running", !.stage = "validating", !.attempts = @ + 1,
              !.nextAttempt = NULL, !.token = t, !.lease = LeaseTicks - lag,
              !.version = @ + 1]

ClaimNext(w) ==
  /\ worker[w].at = "claiming"
  /\ ~worker[w].stop
  /\ \E lag \in Lags, t \in Tokens : \E s \in Candidates(lag) :
       /\ Fresh(t)
       /\ syncs' = [syncs EXCEPT ![s] = Claimed(@, t, lag)]
       /\ lastClaim' = [lastClaim EXCEPT ![s] = t]
       /\ worker' = [worker EXCEPT ![w].at = "claimed", ![w].sync = s,
                                   ![w].token = t, ![w].attempt = syncs[s].attempts + 1]
  /\ UNCHANGED <<cases, request>>

ClaimNothing(w) ==
  /\ worker[w].at = "claiming"
  /\ worker[w].stop \/ \E lag \in Lags : Candidates(lag) = {}
  /\ ReturnToLoop(w)
  /\ UNCHANGED <<cases, syncs, request, lastClaim>>

(* The claim is committed; its row is read back together with a live case.  *)
LoadClaim(w) ==
  LET available == /\ Row(w).token = worker[w].token
                   /\ cases[Row(w).case] = "live" IN
  /\ worker[w].at = "claimed"
  /\ \/ /\ ~available
        /\ Goto(w, "unavailable")
     \/ /\ available
        /\ worker[w].stop
        /\ ReturnToLoop(w)
     \/ /\ available
        /\ ~worker[w].stop
        /\ worker' = [worker EXCEPT ![w].at = "validating", ![w].case = Row(w).case]
  /\ UNCHANGED <<cases, syncs, request, lastClaim>>

(* Unlike every other closing statement this one ignores cancel_requested_at. *)
CloseUnavailableClaim(w) ==
  /\ worker[w].at = "unavailable"
  /\ \E lag \in Lags :
       IF Held(w, lag) THEN SetRow(w, Closed(Row(w), "failed", "failed"))
                       ELSE UNCHANGED syncs
  /\ ReturnToLoop(w)
  /\ UNCHANGED <<cases, request, lastClaim>>

(* The runtime configuration and the resume checkpoint may always disagree. *)
ValidateSettings(w) ==
  /\ worker[w].at = "validating"
  /\ \/ Goto(w, "failing")
     \/ /\ cases[worker[w].case] = "live"
        /\ worker[w].stop
        /\ ReturnToLoop(w)
     \/ /\ cases[worker[w].case] = "live"
        /\ ~worker[w].stop
        /\ Goto(w, "ingesting")
  /\ UNCHANGED <<cases, syncs, request, lastClaim>>

(* _advance: the next stage and a new lease, or the cancelled ending.       *)
Advanced(row, stage, lag) ==
  [row EXCEPT !.stage = stage, !.lease = LeaseTicks - lag, !.version = @ + 1]

Advance(w, stage) ==
  \E lag \in Lags :
    IF HeldUncancelled(w, lag)
    THEN /\ SetRow(w, Advanced(Row(w), stage, lag))
         /\ Goto(w, IF stage = "ingesting" THEN "starting" ELSE "publishing")
    ELSE /\ UNCHANGED syncs
         /\ Goto(w, "cancelling")

AdvanceToIngestion(w) ==
  /\ worker[w].at = "ingesting"
  /\ Advance(w, "ingesting")
  /\ UNCHANGED <<cases, request, lastClaim>>

AdvanceToFinalizing(w) ==
  /\ worker[w].at = "finalizing"
  /\ Advance(w, "finalizing")
  /\ UNCHANGED <<cases, request, lastClaim>>

(* Under the lifecycle lock: no provider call begins after a stop request.  *)
StartBuilder(w) ==
  /\ worker[w].at = "starting"
  /\ IF worker[w].stop THEN ReturnToLoop(w) ELSE Goto(w, "building")
  /\ UNCHANGED <<cases, syncs, request, lastClaim>>

(* While the provider call runs: extend the lease without a new version, or *)
(* give the job up because the lease is lost or the process is stopping.    *)
Extended(row, lag) == [row EXCEPT !.lease = LeaseTicks - lag]

Heartbeat(w) ==
  /\ worker[w].at = "building"
  /\ worker[w].owned
  /\ \E lag \in Lags :
       IF ~worker[w].stop /\ Held(w, lag)
       THEN /\ SetRow(w, Extended(Row(w), lag))
            /\ worker' = [worker EXCEPT ![w].cancelSeen = @ \/ Row(w).cancel]
       ELSE /\ UNCHANGED syncs
            /\ worker' = [worker EXCEPT ![w].owned = FALSE]
  /\ UNCHANGED <<cases, request, lastClaim>>

(* The provider call returns a run.  Whoever lost the job discards it; then *)
(* cancellation, a retryable provider error, or finalization, in this order. *)
BuilderReturns(w) ==
  /\ worker[w].at = "building"
  /\ IF ~worker[w].owned \/ worker[w].stop
     THEN ReturnToLoop(w)
     ELSE \E lag \in Lags, result \in Results :
            IF worker[w].cancelSeen \/ HeldCancelled(w, lag)
            THEN Goto(w, "cancelling")
            ELSE \/ /\ result = "error"
                    /\ worker[w].attempt < MaxAttempts
                    /\ Goto(w, "retrying")
                 \/ worker' = [worker EXCEPT ![w].at = "finalizing", ![w].result = result]
  /\ UNCHANGED <<cases, syncs, request, lastClaim>>

(* The provider call raises: the exception is re-raised whoever owns the    *)
(* job by then, and execute_claimed or run_once reports it as a failure of  *)
(* the job.                                                                 *)
BuilderRaises(w) ==
  /\ worker[w].at = "building"
  /\ worker' = [worker EXCEPT ![w].at = "failing",
                              ![w].owned = @ /\ ~worker[w].stop]
  /\ UNCHANGED <<cases, syncs, request, lastClaim>>

ScheduleRetry(w) ==
  /\ worker[w].at = "retrying"
  /\ \E lag \in Lags, delay \in 1..RetryTicks :
       IF HeldUncancelled(w, lag) /\ Row(w).attempts < MaxAttempts
       THEN /\ SetRow(w, Requeued(Row(w), delay - lag))
            /\ ReturnToLoop(w)
       ELSE /\ UNCHANGED syncs
            /\ Goto(w, "cancelling")
  /\ UNCHANGED <<cases, request, lastClaim>>

(* _publish_final_run reads the case before its transaction begins ...      *)
CheckPublication(w) ==
  /\ worker[w].at = "publishing"
  /\ Goto(w, IF cases[worker[w].case] = "live" THEN "committing" ELSE "failing")
  /\ UNCHANGED <<cases, syncs, request, lastClaim>>

(* Mutant: the status of the run is taken for the state of the job.         *)
UnmappedState(result) == result

FinalState(result) ==
  CASE result = "success" -> "succeeded" [] result = "partial" -> "partial"
    [] result = "error" -> "failed"
FinalStage(result) ==
  CASE result = "success" -> "completed" [] result = "partial" -> "completed_with_limitations"
    [] result = "error" -> "failed"

(* Mutants: the publishing statement drops the token or the cancel guard.   *)
PublicationUnfenced(w, lag) ==
  /\ Row(w).state = "running"
  /\ LeaseValid(Row(w), lag)
  /\ ~Row(w).cancel
  /\ Row(w).case = worker[w].case
  /\ Row(w).run = NULL

PublicationDespiteCancel(w, lag) ==
  /\ Held(w, lag)
  /\ Row(w).case = worker[w].case
  /\ Row(w).run = NULL

PublicationAllowed(w, lag) ==
  /\ HeldUncancelled(w, lag)
  /\ Row(w).case = worker[w].case
  /\ Row(w).run = NULL

(* ... and binds the run, its manifest and its stream checkpoints to the    *)
(* job together with the terminal state, or rolls all of them back.  The    *)
(* run is named by the lease token of the attempt that built it.            *)
Published(row, result, run) ==
  [Closed(row, FinalState(result), FinalStage(result)) EXCEPT !.run = run]

CommitRun(w) ==
  /\ worker[w].at = "committing"
  /\ \E lag \in Lags :
       IF PublicationAllowed(w, lag)
       THEN /\ SetRow(w, Published(Row(w), worker[w].result, worker[w].token))
            /\ ReturnToLoop(w)
       ELSE /\ UNCHANGED syncs
            /\ Goto(w, "cancelling")
  /\ UNCHANGED <<cases, request, lastClaim>>

FailWithoutRun(w) ==
  /\ worker[w].at = "failing"
  /\ \E lag \in Lags :
       IF HeldUncancelled(w, lag)
       THEN /\ SetRow(w, Closed(Row(w), "failed", "failed"))
            /\ ReturnToLoop(w)
       ELSE /\ UNCHANGED syncs
            /\ Goto(w, "cancelling")
  /\ UNCHANGED <<cases, request, lastClaim>>

FinishCancelled(w) ==
  /\ worker[w].at = "cancelling"
  /\ \E lag \in Lags :
       IF HeldCancelled(w, lag) THEN SetRow(w, Closed(Row(w), "cancelled", "cancelled"))
                                ELSE UNCHANGED syncs
  /\ ReturnToLoop(w)
  /\ UNCHANGED <<cases, request, lastClaim>>

(* A database or programming error inside execute_claimed: the handler of   *)
(* run_once reports an internal failure of the job ...                      *)
InternalError(w) ==
  /\ worker[w].at \in ExecutingPoints
  /\ worker[w].at = "building" => worker[w].owned
  /\ Goto(w, "failing")
  /\ UNCHANGED <<cases, syncs, request, lastClaim>>

(* ... and one outside of it, or while the handler closes the job, ends     *)
(* only this iteration of the loop.  (After the first error in a closing    *)
(* statement the handler executes the same statements again.)               *)
IterationError(w) ==
  /\ worker[w].at \in {"claiming", "claimed", "unavailable"} \cup ClosingPoints
  /\ ReturnToLoop(w)
  /\ UNCHANGED <<cases, syncs, request, lastClaim>>

-----------------------------------------------------------------------------
(* The process around a worker.                                             *)

StartWorker(w) ==
  /\ worker[w].at = "down"
  /\ worker' = [worker EXCEPT ![w] = [Down EXCEPT !.at = "idle"]]
  /\ UNCHANGED <<cases, syncs, request, lastClaim>>

RequestStop(w) ==
  /\ worker[w].at # "down"
  /\ ~worker[w].stop
  /\ worker' = [worker EXCEPT ![w].stop = TRUE]
  /\ UNCHANGED <<cases, syncs, request, lastClaim>>

ExitLoop(w) ==
  /\ worker[w].at = "idle"
  /\ worker[w].stop
  /\ worker' = [worker EXCEPT ![w] = Down]
  /\ UNCHANGED <<cases, syncs, request, lastClaim>>

(* The process dies anywhere; stop() also gives up on a busy loop.          *)
Crash(w) ==
  /\ worker[w].at # "down"
  /\ worker' = [worker EXCEPT ![w] = Down]
  /\ UNCHANGED <<cases, syncs, request, lastClaim>>

(* Instants further than MaxLag in the past have passed for every handler.  *)
Aged(ticks) == IF ticks = NULL \/ ticks <= -MaxLag THEN ticks ELSE ticks - 1

Older(row) == [row EXCEPT !.nextAttempt = Aged(@), !.lease = Aged(@)]

Tick ==
  /\ syncs' = [s \in Syncs |-> Older(syncs[s])]
  /\ UNCHANGED <<cases, worker, request, lastClaim>>

ExecuteStep(w) ==
  \/ LoadClaim(w) \/ CloseUnavailableClaim(w) \/ ValidateSettings(w)
  \/ AdvanceToIngestion(w) \/ StartBuilder(w) \/ BuilderReturns(w) \/ BuilderRaises(w)
  \/ ScheduleRetry(w) \/ AdvanceToFinalizing(w) \/ CheckPublication(w)
  \/ CommitRun(w) \/ FailWithoutRun(w) \/ FinishCancelled(w)

WorkerStep(w) ==
  \/ RecoverExpired(w) \/ ClaimNext(w) \/ ClaimNothing(w) \/ ExecuteStep(w)
  \/ Heartbeat(w) \/ InternalError(w) \/ IterationError(w)
  \/ StartWorker(w) \/ RequestStop(w) \/ ExitLoop(w) \/ Crash(w)

Next ==
  \/ \E c \in Cases : CaseStep(c)
  \/ \E r \in Requests : RequestStep(r)
  \/ \E w \in Workers : WorkerStep(w)
  \/ Tick

Spec == Init /\ [][Next]_vars

(* The daemon loop keeps being scheduled, provider calls return because     *)
(* their transports time out, the supervisor restarts a process that died,  *)
(* and time passes.  A process may die or be stopped any number of times,   *)
(* but not every single time before its loop reaches recovery and a claim.  *)
Fairness ==
  /\ WF_vars(Tick)
  /\ \A w \in Workers :
       /\ SF_vars(RecoverExpired(w))
       /\ SF_vars(ClaimNext(w))
       /\ WF_vars(ClaimNothing(w))
       /\ WF_vars(ExecuteStep(w))
       /\ WF_vars(StartWorker(w) \/ ExitLoop(w))

FairSpec == Spec /\ Fairness

-----------------------------------------------------------------------------
(* Correctness.                                                             *)

(* A job in the queue can always be picked up again: a queued row has a due *)
(* time, budget for one more attempt and no cancellation (so the defensive  *)
(* fourth UPDATE of recover_expired never fires), and a running row has the *)
(* lease by which recovery finds it.                                        *)
ActiveJobsAreRecoverable ==
  \A s \in Syncs :
    /\ syncs[s].state = "queued" =>
         /\ syncs[s].nextAttempt # NULL
         /\ syncs[s].attempts < MaxAttempts
         /\ ~syncs[s].cancel
    /\ syncs[s].state = "running" => syncs[s].token # NULL /\ syncs[s].lease # NULL

(* A case never has two syncs in progress, although enqueue_sync looks for  *)
(* an active one in a read that is over when it inserts, and although       *)
(* recovery and retry put running rows back into the queue.                 *)
OneActiveSyncPerCase ==
  \A s, u \in Syncs :
    /\ syncs[s].state \in ActiveStates /\ syncs[u].state \in ActiveStates
    /\ syncs[s].case = syncs[u].case
    => s = u

(* The run bound to a job was built by the worker that claimed the job last *)
(* and a job succeeds only with a run: a worker whose lease was recovered,  *)
(* or whose job was deleted and the rowid reused, never publishes.          *)
RunBelongsToLastClaim ==
  \A s \in Syncs :
    /\ syncs[s].run # NULL => syncs[s].run = lastClaim[s]
    /\ syncs[s].state \in {"succeeded", "partial"} => syncs[s].run # NULL

(* Once a cancellation is recorded no run is published for the job, however *)
(* far its worker has come.                                                 *)
CancelBeatsPublication ==
  \A s \in Syncs : syncs[s].cancel => syncs[s].run = NULL

(* The case of a job that a lease holder executes is live: the check in     *)
(* claim_next is never outdated, because an active sync blocks archive and  *)
(* delete.  So the case read of _publish_final_run cannot be outdated when  *)
(* the run is committed.                                                    *)
HolderWorksOnLiveCase ==
  \A w \in Workers :
    (/\ worker[w].at \in ExecutingPoints \cup ClosingPoints
     /\ Row(w).state = "running"
     /\ Row(w).token = worker[w].token)
    => /\ worker[w].case = Row(w).case
       /\ cases[worker[w].case] = "live"

(* What GET .../syncs/{id} shows of a job and the browser renders.          *)
Visible(row) == <<row.state, row.stage, row.attempts, row.cancel, row.run>>

(* Every visible change of a job raises status_version: the browser drops   *)
(* an answer whose version is not above the one it shows (acceptSync), so a *)
(* writer that keeps the version would hide its change.                     *)
VersionRisesWithEveryChange ==
  [][\A s \in Syncs :
       (/\ syncs[s].state # "absent"
        /\ syncs'[s].state # "absent"
        /\ Visible(syncs'[s]) # Visible(syncs[s]))
       => syncs'[s].version > syncs[s].version]_vars

(* The queue implements the job contract: a running row whose cancellation  *)
(* is recorded is "cancelling", and an attempt is consumed by the claim.    *)
Contract == INSTANCE JobContract WITH
  Jobs <- Syncs,
  phase <- [s \in Syncs |-> IF syncs[s].state = "running" /\ syncs[s].cancel
                            THEN "cancelling" ELSE syncs[s].state],
  claims <- [s \in Syncs |-> syncs[s].attempts]

ImplementsJobContract == Contract!ContractSpec

(* Every accepted job leaves the queue, whatever crashes, stops, provider   *)
(* errors, cancellations and archived cases it meets.                       *)
EveryJobSettles ==
  \A s \in Syncs :
    syncs[s].state \in ActiveStates ~> syncs[s].state \notin ActiveStates

(* RELEASE_NOTES.md, v0.83.0: "A queued or running synchronization or       *)
(* Evidence verification blocks archival".                                  *)
ArchivedCasesAreIdle ==
  \A c \in Cases : cases[c] = "archived" => ActiveSyncs(c) = {}

(* case_sync_jobs.py, _build_with_heartbeats, on a worker that gave its job *)
(* up: "Its detached result is discarded once it returns, while the         *)
(* persisted lease is left for restart recovery."                           *)
DetachedResultIsDiscarded ==
  [][\A w \in Workers :
       ~worker[w].owned /\ worker'[w] # worker[w] => UNCHANGED syncs]_vars
=============================================================================
