---------------------------- MODULE JobContract ----------------------------
(***************************************************************************)
(* What a durable background job promises to the people who submit it,     *)
(* said without leases, tokens, workers, clocks or transactions.           *)
(*                                                                         *)
(* A job is submitted once, is executed at most MaxAttempts times, and     *)
(* reaches exactly one terminal phase, which it keeps until the record is  *)
(* erased together with its owner.  Once cancellation of an executing job  *)
(* has been accepted the job can no longer succeed and is never executed   *)
(* again.  CaseSyncJobs and CaseEvidenceJobs implement this contract.     *)
(***************************************************************************)
EXTENDS Naturals

CONSTANTS Jobs,         (* identities of job records                       *)
          MaxAttempts   (* executions a job may consume                    *)

VARIABLES phase,        (* the lifecycle phase of every job                *)
          claims        (* executions every job has consumed               *)

contractVars == <<phase, claims>>

FinalPhases == {"succeeded", "partial", "failed", "cancelled"}
Phases == FinalPhases \cup {"absent", "queued", "running", "cancelling"}

ContractInit ==
  /\ phase = [j \in Jobs |-> "absent"]
  /\ claims = [j \in Jobs |-> 0]

(* Job j moves from phase p to phase q and its consumed executions become n. *)
Moves(j, p, q, n) ==
  /\ phase[j] = p
  /\ phase'[j] = q
  /\ claims'[j] = n

Submit(j) == Moves(j, "absent", "queued", 0)

Execute(j) ==
  /\ claims[j] < MaxAttempts
  /\ Moves(j, "queued", "running", claims[j] + 1)

(* Only a job with executions left, that nobody asked to cancel, is re-run. *)
Requeue(j) ==
  /\ claims[j] < MaxAttempts
  /\ Moves(j, "running", "queued", claims[j])

CancelQueued(j) == Moves(j, "queued", "cancelled", claims[j])
AskCancel(j) == Moves(j, "running", "cancelling", claims[j])

Finish(j) ==
  \E q \in {"succeeded", "partial", "failed"} : Moves(j, "running", q, claims[j])

(* After an accepted cancellation the job ends without a result.            *)
Abandon(j) ==
  \E q \in {"cancelled", "failed"} : Moves(j, "cancelling", q, claims[j])

Erase(j) == \E p \in FinalPhases : Moves(j, p, "absent", 0)

Rests(j) == phase'[j] = phase[j] /\ claims'[j] = claims[j]

JobStep(j) ==
  \/ Submit(j) \/ Execute(j) \/ Requeue(j) \/ CancelQueued(j)
  \/ AskCancel(j) \/ Finish(j) \/ Abandon(j) \/ Erase(j)

(* A recovery sweep, or the deletion of an owner, moves several jobs in one *)
(* transaction: jobs are independent components that may step together.     *)
ContractNext == \A j \in Jobs : JobStep(j) \/ Rests(j)

ContractSpec == ContractInit /\ [][ContractNext]_contractVars
=============================================================================
