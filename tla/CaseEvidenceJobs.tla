-------------------------- MODULE CaseEvidenceJobs --------------------------
(***************************************************************************)
(* The durable queue of Evidence verifications: each job proves one pinned *)
(* Activity selection of a Wallet Case in a fixed sequence of stages and   *)
(* binds the artifact of every stage to its row.                           *)
(*                                                                         *)
(*   services/case_evidence_jobs.py      worker, lease fence, binding      *)
(*   services/wallet_case_evidence.py    enqueue, compare-and-swap cancel  *)
(*   models.py                           CHECK constraints, unique indexes *)
(*                                                                         *)
(* Transactions, relative time and the lag of the clock are those of       *)
(* CaseSyncJobs.  Whether stored artifacts pass their local revalidation   *)
(* is a free choice wherever the code revalidates them.                    *)
(***************************************************************************)
EXTENDS Integers

CONSTANTS Jobs,         (* rowids of wallet_case_evidence_verifications    *)
          Selections,   (* pinned (snapshot, activity, policy) of the case *)
          Workers,      (* CaseEvidenceWorker instances with their loop    *)
          Requests,     (* HTTP requests in flight                         *)
          Keys,         (* Idempotency-Key values                          *)
          Tokens,       (* lease tokens                                    *)
          NULL,
          Stages,       (* proof stages of a job: 4                        *)
          MaxAttempts,  (* wallet_case_evidence_max_attempts               *)
          CancelTries,  (* compare-and-swap rounds of cancel: 8            *)
          LeaseTicks, RetryTicks, MaxLag

ASSUME EvidenceAssumption ==
  /\ {Stages, MaxAttempts, CancelTries, LeaseTicks, RetryTicks} \subseteq Nat \ {0}
  /\ MaxLag \in Nat
  /\ NULL \notin Jobs \cup Selections \cup Keys \cup Tokens \cup Int

VARIABLES jobs,         (* the table                                       *)
          worker,       (* the local state of every worker thread          *)
          request       (* the local state of every HTTP request           *)

vars == <<jobs, worker, request>>

ActiveStates == {"queued", "running"}
TerminalStates == {"succeeded", "partial", "failed", "cancelled"}
Lags == 0..MaxLag

(* progress counts the stages whose artifacts are bound to the row.         *)
NoJob == [state |-> "absent", selection |-> NULL, key |-> NULL, attempts |-> 0,
          progress |-> 0, nextAttempt |-> NULL, token |-> NULL, lease |-> NULL,
          cancel |-> FALSE, version |-> 0]

JobRow ==
  [state : {"absent"} \cup ActiveStates \cup TerminalStates,
   selection : Selections \cup {NULL}, key : Keys \cup {NULL}, attempts : 0..MaxAttempts,
   progress : 0..Stages, nextAttempt : Int \cup {NULL}, token : Tokens \cup {NULL},
   lease : Int \cup {NULL}, cancel : BOOLEAN, version : Nat]

ClosingPoints == {"retrying", "failing", "invalid", "cancelling"}
ExecutingPoints == {"validating", "stage", "advancing", "starting", "operating",
                    "binding", "bound", "succeeding"} \cup ClosingPoints

(* todo: the rows that recover_expired found and closes one by one.         *)
Expired == [job : Jobs, cancel : BOOLEAN, token : Tokens \cup {NULL},
            lease : Int \cup {NULL}]

WorkerState ==
  [at : {"down", "idle", "recovering"} \cup ExecutingPoints, job : Jobs \cup {NULL},
   token : Tokens \cup {NULL}, attempt : 0..MaxAttempts, stage : 1..Stages, seen : Nat,
   cancelSeen : BOOLEAN, lost : BOOLEAN, lastTry : BOOLEAN, todo : SUBSET Expired,
   stop : BOOLEAN]

Down == [at |-> "down", job |-> NULL, token |-> NULL, attempt |-> 0, stage |-> 1,
         seen |-> 0, cancelSeen |-> FALSE, lost |-> FALSE, lastTry |-> FALSE, todo |-> {},
         stop |-> FALSE]

RequestState ==
  [does : {"none", "enqueue", "observe", "swap", "answer", "accepted"},
   selection : Selections \cup {NULL}, key : Keys \cup {NULL}, job : Jobs \cup {NULL},
   state : ActiveStates \cup {NULL}, version : Nat, tries : 0..CancelTries]

NoRequest == [does |-> "none", selection |-> NULL, key |-> NULL, job |-> NULL,
              state |-> NULL, version |-> 0, tries |-> 0]

TypeOK ==
  /\ jobs \in [Jobs -> JobRow]
  /\ worker \in [Workers -> WorkerState]
  /\ request \in [Requests -> RequestState]

Init ==
  /\ jobs = [j \in Jobs |-> NoJob]
  /\ worker = [w \in Workers |-> Down]
  /\ request = [r \in Requests |-> NoRequest]

LeaseValid(row, lag) == row.lease # NULL /\ row.lease + lag > 0
LeaseExpired(row, lag) == row.lease # NULL /\ row.lease + lag <= 0
Due(row, lag) == row.nextAttempt # NULL /\ row.nextAttempt + lag <= 0

ActiveJobs(x) == {j \in Jobs : jobs[j].selection = x /\ jobs[j].state \in ActiveStates}
KeyUsed(k) == \E j \in Jobs : jobs[j].key = k

Fresh(t) ==
  /\ \A j \in Jobs : jobs[j].token # t
  /\ \A w \in Workers : /\ worker[w].token # t
                         /\ \A e \in worker[w].todo : e.token # t

-----------------------------------------------------------------------------
(* How a row changes.                                                       *)

Closed(row, state) ==
  [row EXCEPT !.state = state, !.nextAttempt = NULL, !.token = NULL, !.lease = NULL,
              !.version = @ + 1]

Requeued(row, ticks) == [Closed(row, "queued") EXCEPT !.nextAttempt = ticks]

(* A binding that fails its revalidation is cleared and the job fails, even *)
(* if its cancellation was accepted.                                        *)
Unbound(row) == [Closed(row, "failed") EXCEPT !.progress = 0, !.cancel = FALSE]

Cancellations(row) == {Closed(row, "cancelled"), Unbound(row)}
Failures(row) ==
  {Closed(row, IF row.progress > 0 THEN "partial" ELSE "failed"), Unbound(row)}

Withdrawn(row) == [Closed(row, "cancelled") EXCEPT !.cancel = TRUE]
Marked(row) == [row EXCEPT !.cancel = TRUE, !.version = @ + 1]

-----------------------------------------------------------------------------
(* HTTP requests.                                                           *)

Reply(r, answer) == request' = [request EXCEPT ![r] = answer]

BeginEnqueue(r, x, k) ==
  /\ request[r].does = "none"
  /\ ~KeyUsed(k)
  /\ ActiveJobs(x) = {}
  /\ Reply(r, [NoRequest EXCEPT !.does = "enqueue", !.selection = x, !.key = k])
  /\ UNCHANGED <<jobs, worker>>

(* Only the unique indexes guard the INSERT.  Bound: the id of an erased    *)
(* row is not given again while a worker still holds it.                    *)
InsertAllowed(x, k) == ~KeyUsed(k) /\ ActiveJobs(x) = {}

Enqueued(x, k, lag) ==
  [NoJob EXCEPT !.state = "queued", !.selection = x, !.key = k, !.nextAttempt = -lag,
                !.version = 1]

CommitEnqueue(r) ==
  LET x == request[r].selection
      k == request[r].key IN
  /\ request[r].does = "enqueue"
  /\ Reply(r, NoRequest)
  /\ IF InsertAllowed(x, k)
     THEN \E j \in Jobs, lag \in Lags :
            /\ jobs[j].state = "absent"
            /\ \A w \in Workers : worker[w].job # j
            /\ jobs' = [jobs EXCEPT ![j] = Enqueued(x, k, lag)]
     ELSE UNCHANGED jobs
  /\ UNCHANGED worker

BeginCancel(r, j) ==
  /\ request[r].does = "none"
  /\ jobs[j].state \in ActiveStates
  /\ Reply(r, [NoRequest EXCEPT !.does = "observe", !.job = j])
  /\ UNCHANGED <<jobs, worker>>

(* Mutant: the answer does not look at cancel_requested_at.                 *)
RunningIsEnough(row) == row.state = "running"

CancelIsRecorded(row) == row.state = "running" /\ row.cancel

Answer(r, accepted) ==
  Reply(r, IF accepted THEN [NoRequest EXCEPT !.does = "accepted", !.job = request[r].job]
                       ELSE NoRequest)

(* One round of cancel: read the row, release the read transaction, and     *)
(* swap if neither the state nor the version has changed since.             *)
ObserveForCancel(r) ==
  LET j == request[r].job IN
  /\ request[r].does = "observe"
  /\ \/ /\ jobs[j].state \in ActiveStates
        /\ ~jobs[j].cancel
        /\ request[r].tries < CancelTries
        /\ request' = [request EXCEPT ![r].does = "swap", ![r].state = jobs[j].state,
                                      ![r].version = jobs[j].version, ![r].tries = @ + 1]
     \/ /\ \/ jobs[j].state \notin ActiveStates
           \/ jobs[j].cancel
           \/ request[r].tries = CancelTries
        /\ Answer(r, CancelIsRecorded(jobs[j]))
  /\ UNCHANGED <<jobs, worker>>

SwapCancel(r) ==
  LET row == jobs[request[r].job] IN
  /\ request[r].does = "swap"
  /\ IF /\ row.state = request[r].state
        /\ row.version = request[r].version
        /\ row.state = "running" => ~row.cancel
     THEN /\ jobs' = [jobs EXCEPT ![request[r].job] =
                        IF row.state = "queued" THEN Withdrawn(row) ELSE Marked(row)]
          /\ request' = [request EXCEPT ![r].does = "answer"]
     ELSE /\ UNCHANGED jobs
          /\ request' = [request EXCEPT ![r].does = "observe"]
  /\ UNCHANGED worker

AnswerCancel(r) ==
  /\ request[r].does = "answer"
  /\ Answer(r, jobs[request[r].job].state = "running")
  /\ UNCHANGED <<jobs, worker>>

CloseResponse(r) ==
  /\ request[r].does = "accepted"
  /\ Reply(r, NoRequest)
  /\ UNCHANGED <<jobs, worker>>

(* delete_case of an idle case cascades to its verifications; requests that *)
(* still refer to the case fail.                                            *)
EraseCase ==
  /\ \A j \in Jobs : jobs[j].state \notin ActiveStates
  /\ \E j \in Jobs : jobs[j].state # "absent"
  /\ jobs' = [j \in Jobs |-> NoJob]
  /\ request' = [r \in Requests |-> NoRequest]
  /\ UNCHANGED worker

RequestStep(r) ==
  \/ \E x \in Selections, k \in Keys : BeginEnqueue(r, x, k)
  \/ CommitEnqueue(r)
  \/ \E j \in Jobs : BeginCancel(r, j)
  \/ ObserveForCancel(r) \/ SwapCancel(r) \/ AnswerCancel(r) \/ CloseResponse(r)

-----------------------------------------------------------------------------
(* Workers: recovery and claim.                                             *)

Row(w) == jobs[worker[w].job]
SetRow(w, row) == jobs' = [jobs EXCEPT ![worker[w].job] = row]
(* The locals of a heartbeat loop and of _bind end with them.               *)
At(w, point) ==
  [worker[w] EXCEPT !.at = point, !.seen = 0, !.cancelSeen = FALSE, !.lost = FALSE]
Goto(w, point) == worker' = [worker EXCEPT ![w] = At(w, point)]
GotoStage(w, stage) == worker' = [worker EXCEPT ![w] = [At(w, "stage") EXCEPT !.stage = stage]]
GotoLastTry(w, point) == worker' = [worker EXCEPT ![w] = [At(w, point) EXCEPT !.lastTry = TRUE]]
ReturnToLoop(w) ==
  worker' = [worker EXCEPT ![w] = [Down EXCEPT !.at = "idle", !.stop = worker[w].stop]]

(* _owned, the fence of the statements of an executing worker.              *)
Owned(w, lag) ==
  /\ Row(w).state = "running"
  /\ Row(w).token = worker[w].token
  /\ LeaseValid(Row(w), lag)

OwnedUncancelled(w, lag) == Owned(w, lag) /\ ~Row(w).cancel
OwnedCancelled(w, lag) == Owned(w, lag) /\ Row(w).cancel

RunningExpired(row, lag) == row.state = "running" /\ LeaseExpired(row, lag)

(* Mutant: one attempt more than the budget is requeued.                    *)
RetriedOnceTooOften(row, lag) ==
  RunningExpired(row, lag) /\ ~row.cancel /\ row.attempts <= MaxAttempts

Retriable(row, lag) == RunningExpired(row, lag) /\ ~row.cancel /\ row.attempts < MaxAttempts

(* Mutant: exhausted jobs are not looked for.                               *)
CancelledOnly(lag) == {j \in Jobs : RunningExpired(jobs[j], lag) /\ jobs[j].cancel}

ToClose(lag) == {j \in Jobs : RunningExpired(jobs[j], lag) /\ ~Retriable(jobs[j], lag)}

RecoverExpired(w) ==
  /\ worker[w].at = "idle"
  /\ ~worker[w].stop
  /\ \E lag \in Lags :
       /\ jobs' = [j \in Jobs |-> IF Retriable(jobs[j], lag) THEN Requeued(jobs[j], -lag)
                                                             ELSE jobs[j]]
       /\ worker' = [worker EXCEPT ![w].at = "recovering",
            ![w].todo = {[job |-> j, cancel |-> jobs[j].cancel, token |-> jobs[j].token,
                          lease |-> jobs[j].lease] : j \in ToClose(lag)}]
  /\ UNCHANGED request

(* _finish_recovered_cancel and _finish_expired, each behind a write fence. *)
StillExpired(row, e) ==
  /\ row.state = "running"
  /\ IF e.cancel THEN row.cancel
                 ELSE /\ row.token = e.token
                      /\ row.lease = e.lease
                      /\ row.attempts >= MaxAttempts

FinishRecovered(w) ==
  /\ worker[w].at = "recovering"
  /\ \E e \in worker[w].todo :
       /\ worker' = [worker EXCEPT ![w].todo = @ \ {e}]
       /\ IF StillExpired(jobs[e.job], e)
          THEN \E row \in IF jobs[e.job].cancel THEN Cancellations(jobs[e.job])
                                                ELSE Failures(jobs[e.job]) :
                 jobs' = [jobs EXCEPT ![e.job] = row]
          ELSE UNCHANGED jobs
  /\ UNCHANGED request

Claimable(j, lag) ==
  /\ jobs[j].state = "queued"
  /\ ~jobs[j].cancel
  /\ jobs[j].attempts < MaxAttempts
  /\ Due(jobs[j], lag)

Candidates(lag) ==
  {j \in Jobs : /\ Claimable(j, lag)
                /\ \A i \in Jobs : Claimable(i, lag) =>
                     jobs[j].nextAttempt <= jobs[i].nextAttempt}

Claimed(row, t, lag) ==
  [row EXCEPT !.state = "running", !.attempts = @ + 1, !.nextAttempt = NULL, !.token = t,
              !.lease = LeaseTicks - lag, !.version = @ + 1]

ClaimNext(w) ==
  /\ worker[w].at = "recovering"
  /\ worker[w].todo = {}
  /\ ~worker[w].stop
  /\ \E lag \in Lags, t \in Tokens : \E j \in Candidates(lag) :
       /\ Fresh(t)
       /\ jobs' = [jobs EXCEPT ![j] = Claimed(@, t, lag)]
       /\ worker' = [worker EXCEPT ![w].at = "validating", ![w].job = j, ![w].token = t,
                                   ![w].attempt = jobs[j].attempts + 1]
  /\ UNCHANGED request

ClaimNothing(w) ==
  /\ worker[w].at = "recovering"
  /\ worker[w].todo = {}
  /\ worker[w].stop \/ \E lag \in Lags : Candidates(lag) = {}
  /\ ReturnToLoop(w)
  /\ UNCHANGED <<jobs, request>>

-----------------------------------------------------------------------------
(* Workers: _execute_claimed.                                               *)

Retry(w) == IF worker[w].attempt < MaxAttempts THEN "retrying" ELSE "failing"

(* The selection is valid, cannot be checked now, or has changed.           *)
RevalidateSelection(w) ==
  /\ worker[w].at = "validating"
  /\ \E point \in {"stage", Retry(w), "invalid"} : Goto(w, point)
  /\ UNCHANGED <<jobs, request>>

NextStage(w) ==
  IF worker[w].stage < Stages
  THEN GotoStage(w, worker[w].stage + 1)
  ELSE Goto(w, "succeeding")

(* Between two stages: stop, cancellation, an artifact that an earlier      *)
(* attempt has bound (revalidated, or an internal error), or new work.      *)
BeginStage(w) ==
  /\ worker[w].at = "stage"
  /\ IF worker[w].stop
     THEN ReturnToLoop(w)
     ELSE \E lag \in Lags :
            CASE OwnedCancelled(w, lag) -> Goto(w, "cancelling")
              [] OwnedUncancelled(w, lag) /\ Row(w).progress >= worker[w].stage ->
                   NextStage(w) \/ GotoLastTry(w, "failing")
              [] OTHER -> Goto(w, "advancing")
  /\ UNCHANGED <<jobs, request>>

Extended(row, lag) == [row EXCEPT !.lease = LeaseTicks - lag]
Advanced(row, lag) == [Extended(row, lag) EXCEPT !.version = @ + 1]

Advance(w) ==
  /\ worker[w].at = "advancing"
  /\ \E lag \in Lags :
       IF OwnedUncancelled(w, lag)
       THEN /\ SetRow(w, Advanced(Row(w), lag))
            /\ Goto(w, "starting")
       ELSE /\ UNCHANGED jobs
            /\ Goto(w, "cancelling")
  /\ UNCHANGED request

StartOperation(w) ==
  /\ worker[w].at = "starting"
  /\ IF worker[w].stop THEN ReturnToLoop(w) ELSE Goto(w, "operating")
  /\ UNCHANGED <<jobs, request>>

(* While the operation thread lives: look for a cancellation and extend the *)
(* lease; a lost lease, like a stop, only asks the operation to end.        *)
Heartbeat(w) ==
  /\ worker[w].at = "operating"
  /\ \E lag \in Lags :
       IF ~worker[w].stop /\ Owned(w, lag)
       THEN /\ SetRow(w, Extended(Row(w), lag))
            /\ worker' = [worker EXCEPT ![w].cancelSeen = @ \/ Row(w).cancel]
       ELSE /\ UNCHANGED jobs
            /\ worker' = [worker EXCEPT ![w].lost = TRUE]
  /\ UNCHANGED request

(* An exception of the stage, retryable or not.                             *)
StageFails(w) ==
  \E lag \in Lags :
    IF OwnedCancelled(w, lag) THEN Goto(w, "cancelling")
                              ELSE Goto(w, Retry(w)) \/ Goto(w, "failing")

(* The operation has ended with a value or an exception.                    *)
OperationEnds(w) ==
  /\ worker[w].at = "operating"
  /\ CASE worker[w].cancelSeen -> Goto(w, "cancelling")
       [] ~worker[w].cancelSeen /\ (worker[w].stop \/ worker[w].lost) -> ReturnToLoop(w)
       [] OTHER -> Goto(w, "binding") \/ StageFails(w)
  /\ UNCHANGED <<jobs, request>>

(* _bind reads the owned row, with its version, outside a transaction ...   *)
ReadForBinding(w) ==
  /\ worker[w].at = "binding"
  /\ \E lag \in Lags :
       IF Owned(w, lag)
       THEN worker' = [worker EXCEPT ![w].at = "bound", ![w].seen = Row(w).version]
       ELSE ReturnToLoop(w)
  /\ UNCHANGED <<jobs, request>>

(* Mutant: no CHECK constraint on the prefix of artifacts.                  *)
BindingWithoutPrefix(w) == Row(w).state = "running"

(* ... and the ORM writes it back by primary key: neither the token nor the *)
(* lease nor the version is compared.  What stops a late write are the      *)
(* CHECK constraints of the table: a lease needs a running row, and the     *)
(* artifacts must be a prefix of the stages.                                *)
BindingAllowed(w) ==
  /\ Row(w).state = "running"
  /\ Row(w).progress \in {worker[w].stage - 1, worker[w].stage}

BoundRow(w, lag) ==
  [Extended(Row(w), lag) EXCEPT !.progress = worker[w].stage,
                                !.version = worker[w].seen + 1]

WriteBinding(w) ==
  /\ worker[w].at = "bound"
  /\ \/ /\ BindingAllowed(w)
        /\ \E lag \in Lags : SetRow(w, BoundRow(w, lag))
        /\ NextStage(w)
     \/ /\ UNCHANGED jobs
        /\ StageFails(w)
  /\ UNCHANGED request

FinishSuccess(w) ==
  /\ worker[w].at = "succeeding"
  /\ \E lag \in Lags :
       \/ /\ OwnedUncancelled(w, lag)
          /\ Row(w).progress = Stages
          /\ SetRow(w, Closed(Row(w), "succeeded"))
          /\ ReturnToLoop(w)
       \/ /\ OwnedUncancelled(w, lag)
          /\ UNCHANGED jobs
          /\ Goto(w, "failing")
       \/ /\ ~OwnedUncancelled(w, lag)
          /\ UNCHANGED jobs
          /\ Goto(w, "cancelling")
  /\ UNCHANGED request

FinishFailure(w) ==
  /\ worker[w].at = "failing"
  /\ \E lag \in Lags :
       IF OwnedUncancelled(w, lag)
       THEN /\ \E row \in Failures(Row(w)) : SetRow(w, row)
            /\ ReturnToLoop(w)
       ELSE /\ UNCHANGED jobs
            /\ Goto(w, "cancelling")
  /\ UNCHANGED request

FinishInvalidSelection(w) ==
  /\ worker[w].at = "invalid"
  /\ \E lag \in Lags :
       CASE OwnedCancelled(w, lag) -> \E row \in Cancellations(Row(w)) : SetRow(w, row)
         [] OwnedUncancelled(w, lag) -> SetRow(w, Unbound(Row(w)))
         [] OTHER -> UNCHANGED jobs
  /\ ReturnToLoop(w)
  /\ UNCHANGED request

(* Mutant: the retry is not fenced.                                         *)
RetryUnfenced(w, lag) == Row(w).attempts < MaxAttempts

RetryAllowed(w, lag) == OwnedUncancelled(w, lag)

ScheduleRetry(w) ==
  /\ worker[w].at = "retrying"
  /\ \E lag \in Lags, delay \in 1..RetryTicks :
       IF RetryAllowed(w, lag)
       THEN /\ SetRow(w, Requeued(Row(w), delay - lag))
            /\ ReturnToLoop(w)
       ELSE /\ UNCHANGED jobs
            /\ Goto(w, "cancelling")
  /\ UNCHANGED request

FinishCancelled(w) ==
  /\ worker[w].at = "cancelling"
  /\ \E lag \in Lags :
       IF OwnedCancelled(w, lag)
       THEN \E row \in Cancellations(Row(w)) : SetRow(w, row)
       ELSE UNCHANGED jobs
  /\ ReturnToLoop(w)
  /\ UNCHANGED request

(* A database error: execute_claimed tries once to retry or fail the job;   *)
(* run_once gives up if that, or the recovery, does not reach the database. *)
StorageError(w) ==
  /\ worker[w].at \in ExecutingPoints \cup {"recovering"}
  /\ IF worker[w].at = "recovering" \/ worker[w].lastTry
     THEN ReturnToLoop(w)
     ELSE GotoLastTry(w, Retry(w))
  /\ UNCHANGED <<jobs, request>>

-----------------------------------------------------------------------------
(* The process around a worker, and time.                                   *)

StartWorker(w) ==
  /\ worker[w].at = "down"
  /\ worker' = [worker EXCEPT ![w].at = "idle"]
  /\ UNCHANGED <<jobs, request>>

RequestStop(w) ==
  /\ worker[w].at # "down"
  /\ ~worker[w].stop
  /\ worker' = [worker EXCEPT ![w].stop = TRUE]
  /\ UNCHANGED <<jobs, request>>

ExitLoop(w) ==
  /\ worker[w].at = "idle"
  /\ worker[w].stop
  /\ worker' = [worker EXCEPT ![w] = Down]
  /\ UNCHANGED <<jobs, request>>

Crash(w) ==
  /\ worker[w].at # "down"
  /\ worker' = [worker EXCEPT ![w] = Down]
  /\ UNCHANGED <<jobs, request>>

Aged(ticks) == IF ticks = NULL \/ ticks <= -MaxLag THEN ticks ELSE ticks - 1

OlderRow(row) == [row EXCEPT !.nextAttempt = Aged(@), !.lease = Aged(@)]
OlderFinds(todo) == {[e EXCEPT !.lease = Aged(@)] : e \in todo}

Tick ==
  /\ jobs' = [j \in Jobs |-> OlderRow(jobs[j])]
  /\ worker' = [w \in Workers |-> [worker[w] EXCEPT !.todo = OlderFinds(@)]]
  /\ UNCHANGED request

ExecuteStep(w) ==
  \/ RevalidateSelection(w) \/ BeginStage(w) \/ Advance(w) \/ StartOperation(w)
  \/ OperationEnds(w) \/ ReadForBinding(w) \/ WriteBinding(w) \/ FinishSuccess(w)
  \/ FinishFailure(w) \/ FinishInvalidSelection(w) \/ ScheduleRetry(w) \/ FinishCancelled(w)

WorkerStep(w) ==
  \/ RecoverExpired(w) \/ FinishRecovered(w) \/ ClaimNext(w) \/ ClaimNothing(w)
  \/ ExecuteStep(w) \/ Heartbeat(w) \/ StorageError(w)
  \/ StartWorker(w) \/ RequestStop(w) \/ ExitLoop(w) \/ Crash(w)

Next ==
  \/ \E r \in Requests : RequestStep(r)
  \/ EraseCase
  \/ \E w \in Workers : WorkerStep(w)
  \/ Tick

Spec == Init /\ [][Next]_vars

(* As for CaseSyncJobs: the loop is scheduled, operations end at their own  *)
(* deadlines, the process is restarted, and neither crashes nor storage     *)
(* errors strike before every single recovery and claim.                    *)
Fairness ==
  /\ WF_vars(Tick)
  /\ \A w \in Workers :
       /\ SF_vars(RecoverExpired(w))
       /\ SF_vars(FinishRecovered(w))
       /\ SF_vars(ClaimNext(w))
       /\ WF_vars(ClaimNothing(w))
       /\ WF_vars(ExecuteStep(w))
       /\ WF_vars(StartWorker(w) \/ ExitLoop(w))

FairSpec == Spec /\ Fairness

-----------------------------------------------------------------------------
(* Correctness.                                                             *)

(* Every queued verification can be claimed once it is due, and every       *)
(* running one can be found by its lease.                                   *)
ActiveVerificationsAreRecoverable ==
  \A j \in Jobs :
    /\ jobs[j].state = "queued" =>
         jobs[j].nextAttempt # NULL /\ jobs[j].attempts < MaxAttempts /\ ~jobs[j].cancel
    /\ jobs[j].state = "running" => jobs[j].token # NULL /\ jobs[j].lease # NULL

(* Bound artifacts are never taken back one by one, whoever writes late: a  *)
(* job keeps its progress until it is erased or closed as failed.           *)
ProofsAreKept ==
  [][\A j \in Jobs :
       jobs'[j].progress < jobs[j].progress =>
         jobs'[j].state \in {"failed", "absent"}]_vars

(* A cancellation whose response said "accepted" stays accepted: the job is *)
(* neither queued again nor does it end with a result.                      *)
AcceptedCancellationHolds ==
  \A r \in Requests :
    request[r].does = "accepted" =>
      LET row == jobs[request[r].job] IN
      \/ row.state = "running" /\ row.cancel
      \/ row.state \in {"cancelled", "failed"}

(* The second implementation of the job contract.                           *)
Contract == INSTANCE JobContract WITH
  Jobs <- Jobs,
  phase <- [j \in Jobs |-> IF jobs[j].state = "running" /\ jobs[j].cancel
                           THEN "cancelling" ELSE jobs[j].state],
  claims <- [j \in Jobs |-> jobs[j].attempts]

ImplementsJobContract == Contract!ContractSpec

(* Every accepted verification ends, whatever crashes, stops, errors and    *)
(* cancellations it meets.                                                  *)
EveryVerificationSettles ==
  \A j \in Jobs : jobs[j].state \in ActiveStates ~> jobs[j].state \notin ActiveStates

(* RELEASE_NOTES.md, v0.74.0: "Fenced leases ... preserve completed         *)
(* immutable artifacts": only the holder of the lease binds an artifact.    *)
BindingIsFenced ==
  [][\A w \in Workers :
       worker[w].at = "bound" /\ worker'[w] # worker[w] /\ jobs' # jobs =>
         Row(w).token = worker[w].token]_vars
=============================================================================
