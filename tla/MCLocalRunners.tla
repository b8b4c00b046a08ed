--------------------------- MODULE MCLocalRunners ---------------------------
(* The two queues of the process on small instances.  They share no state,  *)
(* so one behaviour runs one of them and leaves the other one idle.         *)
EXTENDS CaseSyncJobs, TLC

CONSTANTS Jobs, Selections, EvidenceStages, CancelTries, EvidenceLag

VARIABLES runner,       (* the queue this behaviour runs                    *)
          jobs, evidenceWorker, evidenceRequest

Evidence == INSTANCE CaseEvidenceJobs WITH
  worker <- evidenceWorker, request <- evidenceRequest, Stages <- EvidenceStages, MaxLag <- EvidenceLag

evidenceVars == <<jobs, evidenceWorker, evidenceRequest>>
runnerVars == <<vars, runner, evidenceVars>>

RunnersInit == Init /\ Evidence!Init /\ runner \in {"sync", "evidence"}

RunnersNext ==
  \/ runner = "sync" /\ Next /\ UNCHANGED <<runner, evidenceVars>>
  \/ runner = "evidence" /\ Evidence!Next /\ UNCHANGED <<runner, vars>>

RunnersSpec == RunnersInit /\ [][RunnersNext]_runnerVars

FairRunners ==
  /\ RunnersSpec
  /\ runner = "sync" => Fairness
  /\ runner = "evidence" => Evidence!Fairness

AcceptedCancellationHolds == Evidence!AcceptedCancellationHolds
EveryVerificationSettles == Evidence!EveryVerificationSettles

(* Identities of one kind are interchangeable; used by safety runs only.    *)
Interchangeable ==
  Permutations(Workers) \cup Permutations(Syncs) \cup Permutations(Jobs) \cup Permutations(Requests)
    \cup Permutations(Keys) \cup Permutations(Tokens)
=============================================================================
