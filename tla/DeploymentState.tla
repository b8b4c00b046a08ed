-------------------------- MODULE DeploymentState --------------------------
(***************************************************************************)
(* The private host directory of ops/deployment_state.py through crashes:  *)
(* the ledger of successful rollouts, the receipt of the active release    *)
(* and the journal of the attempt in progress, written by the guarded      *)
(* rollout of ops/deploy_release.py.                                       *)
(*                                                                         *)
(* An exclusive lock lets one command run at a time.  Every file is        *)
(* replaced atomically and its directory is synchronized in a second step; *)
(* the command can be killed, or the host lose power, between any two      *)
(* steps.  files is what a reader sees; survivors is the set of contents   *)
(* that may remain after a power loss.  The chained digests of the ledger  *)
(* identify an event with its position in the sequence.                    *)
(***************************************************************************)
EXTENDS Naturals, Sequences

CONSTANTS Releases,  (* signed release identities (tag, commit, manifest)  *)
          Version,   (* the SemVer order of their tags                     *)
          Attempts,  (* values of secrets.token_hex(16)                    *)
          NULL,      (* an absent file or field                            *)
          PowerLossAfterKill (* may the host lose power after a command was *)
                             (* killed, before its writes reach the disk?   *)

VARIABLES files,     (* ledger, receipt and attempt as a command reads them *)
          survivors, (* what a power loss may leave of them                *)
          torn,      (* a killed command left a rename unsynchronized      *)
          command,   (* the command that holds the lock                    *)
          stack,     (* the release whose containers run                   *)
          volume     (* the database volume of the host                    *)

vars == <<files, survivors, torn, command, stack, volume>>

Operations == {"deployment", "rollback"}
Event == [operation : Operations, attempt : Attempts, base : Releases \cup {NULL},
          release : Releases, previous : Releases \cup {NULL}]
(* Receipts of the schemas v1 and v2 carry no attempt id and act alike.     *)
Receipt == [schema : {"v2", "v3", "v4"}, operation : Operations,
            attempt : Attempts \cup {NULL}, release : Releases,
            previous : Releases \cup {NULL}, sequence : Nat]
Attempt == [id : Attempts, operation : Operations, base : Releases \cup {NULL},
            target : Releases, verified : BOOLEAN]
Files == [ledger : Seq(Event), receipt : Receipt \cup {NULL},
          attempt : Attempt \cup {NULL}]

ASSUME DeploymentAssumption ==
  /\ Version \in [Releases -> Nat]
  /\ NULL \notin Releases /\ NULL \notin Attempts
  /\ NULL \notin Receipt /\ NULL \notin Attempt
  /\ PowerLossAfterKill \in BOOLEAN

Points == {"idle", "journalled", "gates", "checkpointed", "activating", "activated",
           "published", "binding", "recorded", "clearing", "cleared"}
Command == [at : Points, attempt : Attempt \cup {NULL}]
Idle == [at |-> "idle", attempt |-> NULL]

TypeOK ==
  /\ files \in Files
  /\ survivors \subseteq Files
  /\ torn \in BOOLEAN
  /\ command \in Command
  /\ stack \in Releases \cup {NULL}
  /\ volume \in {"empty", "unmanaged", "managed"}

-----------------------------------------------------------------------------
(* Reading and validating the directory.                                    *)

ActiveRelease(f) == IF f.receipt = NULL THEN NULL ELSE f.receipt.release
LastEvent(f) == f.ledger[Len(f.ledger)]

ReceiptOf(ledger, n) ==
  [schema |-> "v4", operation |-> ledger[n].operation, attempt |-> ledger[n].attempt,
   release |-> ledger[n].release, previous |-> ledger[n].previous, sequence |-> n]

Bound(f) == f.receipt = ReceiptOf(f.ledger, Len(f.ledger))

NewerThan(target, release) == Version[target] > Version[release]

ChainLink(prior, event) ==
  /\ event.base = prior.release
  /\ event.previous = IF event.release = prior.release THEN prior.previous
                                                       ELSE prior.release
  /\ event.operation = "rollback" => event.release = prior.previous
  /\ event.operation = "deployment" =>
       event.release = prior.release \/ NewerThan(event.release, prior.release)

ChainValid(ledger) ==
  /\ \A n \in 1..Len(ledger) : ledger[n].previous # ledger[n].release
  /\ \A n \in 1..(Len(ledger) - 1) : ChainLink(ledger[n], ledger[n + 1])

JournalMatches(attempt, event) ==
  /\ attempt.id = event.attempt
  /\ attempt.operation = event.operation
  /\ attempt.base = event.base
  /\ attempt.target = event.release

LegacyCommitted(f) ==
  /\ f.receipt # NULL
  /\ f.receipt.schema = "v3"
  /\ f.receipt.attempt = f.attempt.id
  /\ f.receipt.operation = f.attempt.operation
  /\ f.receipt.release = f.attempt.target
  /\ f.attempt.base \in {f.receipt.release, f.receipt.previous}

BeforeFirstEvent(f) ==
  /\ f.receipt # NULL => f.receipt.schema # "v4"
  /\ f.attempt # NULL => f.attempt.base = ActiveRelease(f) \/ LegacyCommitted(f)

HeadIsBound(f) ==
  /\ Bound(f)
  /\ f.attempt # NULL =>
       IF f.attempt.id = LastEvent(f).attempt THEN JournalMatches(f.attempt, LastEvent(f))
                                              ELSE f.attempt.base = f.receipt.release

HeadAwaitsReceipt(f) ==
  /\ ~Bound(f)
  /\ f.attempt # NULL
  /\ JournalMatches(f.attempt, LastEvent(f))
  /\ IF Len(f.ledger) = 1 THEN f.receipt # NULL => f.receipt.schema # "v4"
                          ELSE f.receipt = ReceiptOf(f.ledger, Len(f.ledger) - 1)
  /\ ActiveRelease(f) = LastEvent(f).base

(* validate_consistency, the gate of every command.                         *)
Consistent(f) ==
  /\ ChainValid(f.ledger)
  /\ IF f.ledger = << >> THEN BeforeFirstEvent(f) ELSE HeadIsBound(f) \/ HeadAwaitsReceipt(f)

Authorized(f, target, operation) ==
  IF f.receipt = NULL
  THEN operation = "deployment"
  ELSE \/ operation = "rollback" /\ target = f.receipt.previous
       \/ /\ operation = "deployment"
          /\ target = f.receipt.release \/ NewerThan(target, f.receipt.release)

(* Mutant: an event without its receipt does not count as a success.        *)
CommittedWhenBound(f) == f.ledger # << >> /\ LastEvent(f).attempt = f.attempt.id /\ Bound(f)

(* The ledger proves that the pending attempt passed every gate.            *)
Committed(f) == f.ledger # << >> /\ LastEvent(f).attempt = f.attempt.id

(* The checks of complete_attempt and record_success.                       *)
MayPublish(f, attempt) ==
  /\ f.attempt # NULL
  /\ f.attempt.id = attempt.id
  /\ f.attempt.operation = attempt.operation
  /\ f.attempt.target = attempt.target
  /\ Consistent(f)
  /\ f.attempt.base = ActiveRelease(f)
  /\ f.ledger # << >> => Bound(f)
  /\ Authorized(f, attempt.target, attempt.operation)

-----------------------------------------------------------------------------
(* Writing: os.replace or unlink, then fsync of the directory.              *)

PutAttempt(attempt) ==
  /\ files' = [files EXCEPT !.attempt = attempt]
  /\ survivors' = survivors \cup {[f EXCEPT !.attempt = attempt] : f \in survivors}

PutReceipt(receipt) ==
  /\ files' = [files EXCEPT !.receipt = receipt]
  /\ survivors' = survivors \cup {[f EXCEPT !.receipt = receipt] : f \in survivors}

PutEvent(event) ==
  /\ files' = [files EXCEPT !.ledger = Append(@, event)]
  /\ survivors' = survivors \cup {[f EXCEPT !.ledger = Append(files.ledger, event)] :
                                    f \in survivors}

(* Mutant: the directory is not synchronized.                               *)
NoSynchronization == UNCHANGED <<files, survivors>>

SyncStateDirectory ==
  /\ survivors' = {[files EXCEPT !.ledger = f.ledger] : f \in survivors}
  /\ UNCHANGED files

SyncLedgerDirectory ==
  /\ survivors' = {[f EXCEPT !.ledger = files.ledger] : f \in survivors}
  /\ UNCHANGED files

At(point) == command.at = point
Proceed(point) == command' = [command EXCEPT !.at = point]

-----------------------------------------------------------------------------
(* The guarded rollout of one signed release.                               *)

(* Mutant: an initial attempt starts as if its empty-volume gate had passed. *)
VerifiedFromTheStart(a, operation, target) ==
  [id |-> a, operation |-> operation, base |-> ActiveRelease(files), target |-> target,
   verified |-> ActiveRelease(files) = NULL]

NewAttempt(a, operation, target) ==
  [id |-> a, operation |-> operation, base |-> ActiveRelease(files), target |-> target,
   verified |-> FALSE]

Unused(a) ==
  \A f \in survivors \cup {files} :
    /\ f.attempt # NULL => f.attempt.id # a
    /\ f.receipt # NULL => f.receipt.attempt # a
    /\ \A n \in 1..Len(f.ledger) : f.ledger[n].attempt # a

PrepareAttempt(a, operation, target) ==
  /\ At("idle")
  /\ Consistent(files)
  /\ files.attempt = NULL
  /\ Authorized(files, target, operation)
  /\ Unused(a)
  /\ PutAttempt(NewAttempt(a, operation, target))
  /\ command' = [at |-> "journalled", attempt |-> NewAttempt(a, operation, target)]
  /\ UNCHANGED <<torn, stack, volume>>

AttemptSynced ==
  /\ At("journalled")
  /\ SyncStateDirectory
  /\ Proceed("gates")
  /\ UNCHANGED <<torn, stack, volume>>

(* --resume with the exact release and operation of the journal: the ledger *)
(* or a legacy receipt proves success, or the whole rollout is repeated.    *)
ResumeCommitted ==
  /\ At("idle")
  /\ files.attempt # NULL
  /\ Consistent(files)
  /\ Committed(files)
  /\ IF Bound(files)
     THEN /\ command' = [at |-> "clearing", attempt |-> files.attempt]
          /\ UNCHANGED <<files, survivors>>
     ELSE /\ PutReceipt(ReceiptOf(files.ledger, Len(files.ledger)))
          /\ command' = [at |-> "recorded", attempt |-> files.attempt]
  /\ UNCHANGED <<torn, stack, volume>>

ResumeLegacy ==
  /\ At("idle")
  /\ files.attempt # NULL
  /\ Consistent(files)
  /\ ~Committed(files)
  /\ LegacyCommitted(files)
  /\ command' = [at |-> "clearing", attempt |-> files.attempt]
  /\ UNCHANGED <<files, survivors, torn, stack, volume>>

MayResume(f) ==
  /\ ~Committed(f)
  /\ ~LegacyCommitted(f)
  /\ f.attempt.base = ActiveRelease(f)
  /\ Authorized(f, f.attempt.target, f.attempt.operation)

ResumeRollout ==
  /\ At("idle")
  /\ files.attempt # NULL
  /\ Consistent(files)
  /\ MayResume(files)
  /\ command' = [at |-> "gates", attempt |-> files.attempt]
  /\ UNCHANGED <<files, survivors, torn, stack, volume>>

(* The first installation proves that no database exists and checkpoints    *)
(* that before it activates anything.                                       *)
PassEmptyVolumeGate ==
  /\ At("gates")
  /\ command.attempt.base = NULL
  /\ ~command.attempt.verified
  /\ volume = "empty"
  /\ PutAttempt([files.attempt EXCEPT !.verified = TRUE])
  /\ Proceed("checkpointed")
  /\ UNCHANGED <<torn, stack, volume>>

CheckpointSynced ==
  /\ At("checkpointed")
  /\ SyncStateDirectory
  /\ Proceed("activating")
  /\ UNCHANGED <<torn, stack, volume>>

PassUpgradeGates ==
  /\ At("gates")
  /\ command.attempt.base # NULL \/ command.attempt.verified
  /\ Proceed("activating")
  /\ UNCHANGED <<files, survivors, torn, stack, volume>>

Activate ==
  /\ At("activating")
  /\ stack' = command.attempt.target
  /\ volume' = IF volume = "empty" THEN "managed" ELSE volume
  /\ Proceed("activated")
  /\ UNCHANGED <<files, survivors, torn>>

SuccessEvent(attempt) ==
  [operation |-> attempt.operation, attempt |-> attempt.id, base |-> ActiveRelease(files),
   release |-> attempt.target,
   previous |-> IF files.receipt = NULL THEN NULL
                ELSE IF files.receipt.release = attempt.target THEN files.receipt.previous
                ELSE files.receipt.release]

PublishEvent ==
  /\ At("activated")
  /\ MayPublish(files, command.attempt)
  /\ PutEvent(SuccessEvent(command.attempt))
  /\ Proceed("published")
  /\ UNCHANGED <<torn, stack, volume>>

EventSynced ==
  /\ At("published")
  /\ SyncLedgerDirectory
  /\ Proceed("binding")
  /\ UNCHANGED <<torn, stack, volume>>

BindReceipt ==
  /\ At("binding")
  /\ PutReceipt(ReceiptOf(files.ledger, Len(files.ledger)))
  /\ Proceed("recorded")
  /\ UNCHANGED <<torn, stack, volume>>

ReceiptSynced ==
  /\ At("recorded")
  /\ SyncStateDirectory
  /\ Proceed("clearing")
  /\ UNCHANGED <<torn, stack, volume>>

ClearAttempt ==
  /\ At("clearing")
  /\ PutAttempt(NULL)
  /\ Proceed("cleared")
  /\ UNCHANGED <<torn, stack, volume>>

ClearanceSynced ==
  /\ At("cleared")
  /\ SyncStateDirectory
  /\ command' = Idle
  /\ UNCHANGED <<torn, stack, volume>>

-----------------------------------------------------------------------------
(* Failures.                                                                *)

(* A gate or a system call fails, or the command is killed: the journal     *)
(* stays as it is, and so may a rename that was not synchronized.           *)
Interrupt ==
  /\ ~At("idle")
  /\ command' = Idle
  /\ torn' = (torn \/ survivors # {files})
  /\ UNCHANGED <<files, survivors, stack, volume>>

(* The operating system writes everything back in the end ...               *)
WriteBack ==
  /\ survivors' = {files}
  /\ torn' = FALSE
  /\ UNCHANGED <<files, command, stack, volume>>

(* ... which a power loss may precede.                                      *)
PowerLoss ==
  /\ torn => PowerLossAfterKill
  /\ \E f \in survivors : files' = f /\ survivors' = {f}
  /\ command' = Idle
  /\ UNCHANGED <<torn, stack, volume>>

(* A new host, or one that older versions of the tool deployed to: without  *)
(* a ledger, possibly with the journal of an attempt that its v3 receipt    *)
(* records as successful.                                                   *)
LegacyReceipts ==
  {r \in [schema : {"v2", "v3"}, operation : Operations, attempt : Attempts \cup {NULL},
          release : Releases, previous : Releases \cup {NULL}, sequence : {0}] :
     /\ r.schema = "v2" <=> r.attempt = NULL
     /\ r.previous # r.release}

LegacyJournals(r) ==
  {NULL} \cup
  {a \in Attempt : /\ ~a.verified
                   /\ LegacyCommitted([ledger |-> << >>, receipt |-> r, attempt |-> a])}

Init ==
  /\ \/ /\ files = [ledger |-> << >>, receipt |-> NULL, attempt |-> NULL]
        /\ volume \in {"empty", "unmanaged"}
     \/ /\ \E r \in LegacyReceipts : \E a \in LegacyJournals(r) :
             files = [ledger |-> << >>, receipt |-> r, attempt |-> a]
        /\ volume = "managed"
  /\ survivors = {files}
  /\ torn = FALSE
  /\ command = Idle
  /\ stack = ActiveRelease(files)

Next ==
  \/ \E a \in Attempts, operation \in Operations, target \in Releases :
       PrepareAttempt(a, operation, target)
  \/ AttemptSynced \/ ResumeCommitted \/ ResumeLegacy \/ ResumeRollout
  \/ PassEmptyVolumeGate \/ CheckpointSynced \/ PassUpgradeGates \/ Activate
  \/ PublishEvent \/ EventSynced \/ BindReceipt \/ ReceiptSynced
  \/ ClearAttempt \/ ClearanceSynced
  \/ Interrupt \/ WriteBack \/ PowerLoss

Spec == Init /\ [][Next]_vars

-----------------------------------------------------------------------------
(* Correctness.                                                             *)

(* No interruption leaves a directory that the next command refuses: ledger, *)
(* receipt and journal form one state between any two of their writes.      *)
StateStaysConsistent == Consistent(files)

(* Whenever no journal is left, the containers that run are those of the    *)
(* receipt; while one is left, they are those of its base or of its target. *)
RunningReleaseIsRecorded ==
  /\ files.attempt = NULL => stack = ActiveRelease(files)
  /\ files.attempt # NULL => stack \in {files.attempt.base, files.attempt.target}

(* A database that no rollout created is never put under an installation,   *)
(* however often its first attempt is interrupted and resumed.              *)
UnmanagedDatabaseIsRefused == volume = "unmanaged" => stack = NULL

(* An interrupted attempt is never a dead end: --resume finds it proved, or *)
(* repeats a rollout that the empty-volume gate and the publication accept. *)
InterruptedAttemptCanResume ==
  At("idle") /\ files.attempt # NULL =>
    \/ Committed(files)
    \/ LegacyCommitted(files)
    \/ /\ MayResume(files)
       /\ MayPublish(files, files.attempt)
       /\ files.attempt.base = NULL /\ volume = "managed" => files.attempt.verified

(* PRODUCTION_DEPLOYMENT.md: "The command durably publishes the event and   *)
(* success receipt before removing the matching pending journal."           *)
JournalOutlivesPublication ==
  files.attempt = NULL => \A f \in survivors : f.ledger = files.ledger
=============================================================================
