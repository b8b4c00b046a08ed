------------------------ MODULE LiteclientProcesses ------------------------
(***************************************************************************)
(* The child processes that talk to TON liteservers                        *)
(* (services/ton_liteclient_process.py) and the proofs captured with them  *)
(* (services/wallet_transaction_inclusion_proof.py).                       *)
(*                                                                         *)
(* A thread of the application (an owner) that needs a proof takes one of  *)
(* the few slots, writes the request to a file, starts a child, waits for  *)
(* it until a deadline or a cancellation, reads the reply and stores the   *)
(* proofs.  The shutdown hook of the interpreter stops the children that   *)
(* are registered; a killed process leaves its children to themselves.     *)
(* Children take turns in the cache directory behind a file lock.          *)
(***************************************************************************)
EXTENDS Naturals, FiniteSets

CONSTANTS
  Owners,        (* threads of the application that capture proofs          *)
  Children,      (* child processes; bounds how many are ever started       *)
  ChildSlots,    (* LITECLIENT_CHILD_SLOTS                                  *)
  MaxTraces,     (* bounds the verifications of the selected trace          *)
  BocOf          (* verification -> the transactions it verified            *)

ASSUME LiteclientAssumption ==
  /\ IsFiniteSet(Children) /\ ChildSlots \in Nat \ {0} /\ "none" \notin Children
  /\ MaxTraces \in Nat \ {0}

VARIABLES
  phase,         (* of the process: up, stopping (in the exit hook), exited *)
  restarted,     (* whether the application was started again               *)
  slots,         (* free slots, the value of _CHILD_SLOTS                   *)
  registry,      (* _ACTIVE_CHILDREN                                        *)
  doomed,        (* children the exit hook has yet to stop                  *)
  owner,         (* Owners -> where the thread stands in its capture        *)
  child,         (* Children -> the process                                 *)
  files,         (* children whose request and reply files exist            *)
  lock,          (* the child that holds .capture.lock                      *)
  cache,         (* files of the blockstore of the current policy           *)
  trace          (* the persisted BOC verification and its stored proofs    *)

liteclientVars ==
  <<phase, restarted, slots, registry, doomed, owner, child, files, lock, cache, trace>>

None == "none"
Idle == [at |-> "idle", child |-> None, selected |-> 0, result |-> None, shown |-> 0, late |-> FALSE]
Unstarted == [at |-> "none", reply |-> None, asked |-> FALSE, orphan |-> FALSE]

(* The verification under the selected row ids, 0 for none, and the one its *)
(* stored proofs were captured for.  `late` is history: whether the trace   *)
(* was deleted between the last look of that capture and its insert.        *)
Verified(digest) == [digest |-> digest, proofs |-> 0, late |-> FALSE]
NoTrace == Verified(0)

LiteclientInit ==
  /\ phase = "up" /\ restarted = FALSE /\ slots = ChildSlots
  /\ registry = {} /\ doomed = {} /\ files = {} /\ lock = None /\ cache = {}
  /\ owner = [o \in Owners |-> Idle]
  /\ child = [k \in Children |-> Unstarted]
  /\ trace = Verified(1)

Alive(k) == child[k].at \notin {"none", "exited"}
Running == phase # "exited"
AtOwner(o, place) == Running /\ owner[o].at = place

Moves(o, place) == owner' = [owner EXCEPT ![o].at = place]
Fails(o, result) == owner' = [owner EXCEPT ![o].at = "leaving", ![o].result = result]

Attended(k) == \E o \in Owners : owner[o].child = k

(* What is left of the child k once it stops, with its reply if it exits    *)
(* with status 0, for as long as an owner looks at it; the system drops its *)
(* file lock.                                                               *)
Exited(k, reply) ==
  IF child[k].orphan \/ ~Attended(k) THEN Unstarted ELSE [child[k] EXCEPT !.at = "exited", !.reply = reply]
Unlocked(k) == IF lock = k THEN None ELSE lock

(* stop_process: terminate, then kill, each with a bounded join.  A child   *)
(* that the system cannot stop in that time is left alive.                  *)
StopProcess(k) ==
  IF Alive(k)
  THEN \E stopped \in BOOLEAN :
         /\ child' = [child EXCEPT ![k] =
                        IF stopped THEN Exited(k, None) ELSE [child[k] EXCEPT !.asked = TRUE]]
         /\ lock' = IF stopped THEN Unlocked(k) ELSE lock
  ELSE UNCHANGED <<child, lock>>

-----------------------------------------------------------------------------
(* The owner of a capture.                                                  *)

(* A request for the proofs, to read or to create them, loads the           *)
(* verification ...                                                         *)
Select(o) ==
  /\ AtOwner(o, "idle") /\ trace.digest # 0
  /\ owner' = [owner EXCEPT ![o] = [Idle EXCEPT !.at = "reading", !.selected = trace.digest]]
  /\ UNCHANGED <<phase, restarted, slots, registry, doomed, child, files, lock, cache, trace>>

Shows(o, proofs) == owner' = [owner EXCEPT ![o].at = "answered", ![o].shown = proofs]

ReadUnchecked(o) ==
  /\ AtOwner(o, "reading") \/ AtOwner(o, "reloaded")
  /\ \/ trace.proofs # 0 /\ Shows(o, trace.proofs)
     \/ trace.proofs = 0 /\ Moves(o, IF owner[o].at = "reading" THEN "waiting" ELSE "storing")
     \/ owner' = [owner EXCEPT ![o] = Idle]
  /\ UNCHANGED <<phase, restarted, slots, registry, doomed, child, files, lock, cache, trace>>

(* ... and then, by row id, the proofs.  Those that prove the transactions  *)
(* of the loaded verification are the answer, others are a conflict; with   *)
(* none a request to create them goes on to capture or to store its own,    *)
(* and one to read them ends.                                               *)
ReadProofs(o) ==
  /\ AtOwner(o, "reading") \/ AtOwner(o, "reloaded")
  /\ \/ /\ trace.proofs # 0 /\ BocOf[trace.proofs] = BocOf[owner[o].selected]
        /\ Shows(o, trace.proofs)
     \/ trace.proofs = 0 /\ Moves(o, IF owner[o].at = "reading" THEN "waiting" ELSE "storing")
     \/ owner' = [owner EXCEPT ![o] = Idle]
  /\ UNCHANGED <<phase, restarted, slots, registry, doomed, child, files, lock, cache, trace>>

Answered(o) ==
  /\ AtOwner(o, "answered") /\ owner' = [owner EXCEPT ![o] = Idle]
  /\ UNCHANGED <<phase, restarted, slots, registry, doomed, child, files, lock, cache, trace>>

(* acquire_liteclient_child_slot.                                           *)
AcquireSlot(o) ==
  /\ AtOwner(o, "waiting") /\ slots > 0
  /\ slots' = slots - 1
  /\ Moves(o, "slot")
  /\ UNCHANGED <<phase, restarted, registry, doomed, child, files, lock, cache, trace>>

ReleaseUntaken(o) ==
  /\ AtOwner(o, "waiting")
  /\ slots' = IF slots < ChildSlots THEN slots + 1 ELSE slots
  /\ owner' = [owner EXCEPT ![o] = Idle]
  /\ UNCHANGED <<phase, restarted, registry, doomed, child, files, lock, cache, trace>>

(* It is cancelled, or waits longer than LITECLIENT_SLOT_WAIT_SECONDS.      *)
NoSlot(o) ==
  /\ AtOwner(o, "waiting")
  /\ owner' = [owner EXCEPT ![o] = Idle]
  /\ UNCHANGED <<phase, restarted, slots, registry, doomed, child, files, lock, cache, trace>>

(* The two files; a full disk or a request too large ends the capture,      *)
(* before or after they exist.                                              *)
CreateFiles(o) ==
  /\ AtOwner(o, "slot")
  /\ \/ /\ Fails(o, "failed")
        /\ UNCHANGED files
     \/ \E k \in Children :
          /\ child[k] = Unstarted /\ k \notin files /\ ~Attended(k)
          /\ files' = files \cup {k}
          /\ \/ owner' = [owner EXCEPT ![o].at = "ready", ![o].child = k]
             \/ owner' = [owner EXCEPT ![o].at = "leaving", ![o].child = k, ![o].result = "failed"]
  /\ UNCHANGED <<phase, restarted, slots, registry, doomed, child, lock, cache, trace>>

UnfencedStart(o) ==
  LET k == owner[o].child IN
  /\ AtOwner(o, "ready")
  /\ child' = [child EXCEPT ![k].at = "started"]
  /\ registry' = registry \cup {k}
  /\ Moves(o, "polling")
  /\ UNCHANGED <<phase, restarted, slots, doomed, files, lock, cache, trace>>

(* start_registered_process: under the lock of the registry the start is    *)
(* refused once the exit hook has run, and registered otherwise.            *)
StartProcess(o) ==
  LET k == owner[o].child IN
  /\ AtOwner(o, "ready") /\ phase = "up"
  /\ child' = [child EXCEPT ![k].at = "started"]
  /\ registry' = registry \cup {k}
  /\ Moves(o, "polling")
  /\ UNCHANGED <<phase, restarted, slots, doomed, files, lock, cache, trace>>

(* It is refused, or the capture is cancelled before.                       *)
RefuseStart(o) ==
  /\ AtOwner(o, "ready") /\ Fails(o, "failed")
  /\ UNCHANGED <<phase, restarted, slots, registry, doomed, child, files, lock, cache, trace>>

(* The poll loop finds the child alive at a cancellation or the deadline.   *)
StopChild(o) ==
  /\ AtOwner(o, "polling") /\ Alive(owner[o].child)
  /\ StopProcess(owner[o].child) /\ Fails(o, "failed")
  /\ UNCHANGED <<phase, restarted, slots, registry, doomed, files, cache, trace>>

(* The poll loop finds that the child has stopped.                          *)
Collect(o) ==
  LET k == owner[o].child IN
  /\ AtOwner(o, "polling") /\ ~Alive(k)
  /\ Fails(o, CASE phase = "stopping" -> "nothing"
                [] child[k].reply = None -> "failed"
                [] OTHER -> child[k].reply)
  /\ UNCHANGED <<phase, restarted, slots, registry, doomed, child, files, lock, cache, trace>>

(* The finally clause: the child is stopped once more, forgotten if that    *)
(* worked, the files are removed and the slot goes back.                    *)
StopAgain(o) ==
  LET k == owner[o].child IN
  /\ AtOwner(o, "leaving") /\ k # None /\ Alive(k)
  /\ StopProcess(k) /\ Moves(o, "stopped")
  /\ UNCHANGED <<phase, restarted, slots, registry, doomed, files, cache, trace>>

Quiet == {k \in Children : ~Alive(k)}

Left(o) ==
  \/ owner[o].at = "stopped"
  \/ owner[o].at = "leaving" /\ owner[o].child \in Quiet \cup {None}

(* A failure leaves the capture; a reply, and the empty one of a shutdown,  *)
(* go back to create_wallet_transaction_inclusion_proofs.                   *)
Returned(o) ==
  IF owner[o].result = "failed" THEN Idle
  ELSE [owner[o] EXCEPT !.at = "captured", !.child = None]

CleanUp(o) ==
  LET k == owner[o].child IN
  /\ Running /\ Left(o)
  /\ registry' = registry \ ({k} \cap Quiet)
  /\ files' = files \ {k}
  /\ slots' = slots + 1
  /\ owner' = [owner EXCEPT ![o] = Returned(o)]
  /\ child' = [j \in Children |-> IF j = k /\ j \in Quiet THEN Unstarted ELSE child[j]]
  /\ UNCHANGED <<phase, restarted, doomed, lock, cache, trace>>

RevalidatePresence(o) ==
  /\ AtOwner(o, "captured")
  /\ \/ /\ owner[o].result = "proofs" /\ trace.digest # 0
        /\ Moves(o, "reloaded")
     \/ owner' = [owner EXCEPT ![o] = Idle]
  /\ UNCHANGED <<phase, restarted, slots, registry, doomed, child, files, lock, cache, trace>>

(* The captured proofs are complete and the verification, loaded again, is  *)
(* the one they were requested for; otherwise, and after a cancellation,    *)
(* the capture ends without a trace.  Its proofs are read once more.        *)
Revalidate(o) ==
  /\ AtOwner(o, "captured")
  /\ \/ /\ owner[o].result = "proofs"
        /\ trace.digest # 0 /\ trace.digest = owner[o].selected
        /\ Moves(o, "reloaded")
     \/ owner' = [owner EXCEPT ![o] = Idle]
  /\ UNCHANGED <<phase, restarted, slots, registry, doomed, child, files, lock, cache, trace>>

(* The flush takes the write lock that no read before it took.  It inserts  *)
(* a proof per BOC row of the capture, under whatever trace has these ids   *)
(* by now; a missing row, or one proved meanwhile, fails it as a whole.     *)
StoreProofs(o) ==
  /\ AtOwner(o, "storing")
  /\ \/ /\ trace.digest # 0 /\ trace.proofs = 0
        /\ trace' = [trace EXCEPT !.proofs = owner[o].selected, !.late = owner[o].late]
        /\ Shows(o, owner[o].selected)
     \/ owner' = [owner EXCEPT ![o] = Idle] /\ UNCHANGED trace
  /\ UNCHANGED <<phase, restarted, slots, registry, doomed, child, files, lock, cache>>

Reloaded(o) == owner[o].at \in {"reloaded", "storing"}

(* A deleted case takes the verification and its proofs with it ...         *)
DeleteTrace ==
  /\ trace.digest # 0 /\ trace' = NoTrace
  /\ owner' = [o \in Owners |-> [owner[o] EXCEPT !.late = @ \/ Reloaded(o)]]
  /\ UNCHANGED <<phase, restarted, slots, registry, doomed, child, files, lock, cache>>

(* ... and a later ingestion reuses the row ids.  A digest covers the time  *)
(* of its verification: nobody has seen the new one.                        *)
VerifyTrace ==
  /\ trace.digest = 0
  /\ \E digest \in 1..MaxTraces :
       /\ \A o \in Owners : owner[o].selected # digest
       /\ trace' = Verified(digest)
  /\ UNCHANGED <<phase, restarted, slots, registry, doomed, owner, child, files, lock, cache>>

-----------------------------------------------------------------------------
(* The child: _capture_process_entry.                                       *)

ChildMoves(k, from, to) ==
  /\ child[k].at = from
  /\ child' = [child EXCEPT ![k].at = to]
  /\ UNCHANGED <<phase, restarted, slots, registry, doomed, owner, files, trace>>

Replies(k, reply) == child' = [child EXCEPT ![k].at = "replying", ![k].reply = reply]

(* The limits are installed and the request is read, or the child reports   *)
(* the failure.                                                             *)
Guard(k) ==
  /\ child[k].at = "started"
  /\ \/ child' = [child EXCEPT ![k].at = "locking"]
     \/ Replies(k, "failed")
  /\ UNCHANGED <<phase, restarted, slots, registry, doomed, owner, files, lock, cache, trace>>

LockNothing(k) ==
  /\ ChildMoves(k, "locking", "repairing")
  /\ lock' = k /\ UNCHANGED cache

(* liteclient_cache_lock waits for the lock ...                             *)
LockCache(k) ==
  /\ lock = None /\ ChildMoves(k, "locking", "repairing")
  /\ lock' = k /\ UNCHANGED cache

(* ... and keeps at most the newest whole file of the blockstore.           *)
RepairCache(k) ==
  /\ ChildMoves(k, "repairing", "syncing")
  /\ cache' = IF cache \cap {"whole", "newer"} = {} THEN {} ELSE {"whole"}
  /\ UNCHANGED lock

(* pytoniq replaces the file it started from while it follows the chain.    *)
SaveBlocks(k) ==
  \/ /\ ChildMoves(k, "syncing", "saving")
     /\ cache' = cache \cup {"torn"} /\ UNCHANGED lock
  \/ /\ ChildMoves(k, "saving", "proving")
     /\ \E kept \in SUBSET {"whole"} : cache' = {"newer"} \cup (cache \cap kept)
     /\ UNCHANGED lock

(* The request is proved or fails, and the lock is released.                *)
Prove(k) ==
  /\ child[k].at \in {"repairing", "syncing", "proving"}
  /\ \E reply \in {"failed", "proofs"} :
       (reply = "proofs" => child[k].at = "proving") /\ Replies(k, reply)
  /\ lock' = Unlocked(k)
  /\ UNCHANGED <<phase, restarted, slots, registry, doomed, owner, files, cache, trace>>

(* The reply goes into the file the owner created; without it the child     *)
(* exits with 70.                                                           *)
WriteReply(k) ==
  /\ child[k].at = "replying"
  /\ child' = [child EXCEPT ![k] = Exited(k, IF k \in files THEN child[k].reply ELSE None)]
  /\ UNCHANGED <<phase, restarted, slots, registry, doomed, owner, files, lock, cache, trace>>

(* It runs into a limit of its resources, or crashes.                       *)
ChildDies(k) ==
  /\ Alive(k) /\ child' = [child EXCEPT ![k] = Exited(k, None)]
  /\ lock' = Unlocked(k)
  /\ UNCHANGED <<phase, restarted, slots, registry, doomed, owner, files, cache, trace>>

-----------------------------------------------------------------------------
(* The process.                                                             *)

(* _shutdown_registered_processes takes the registry and closes it ...      *)
BeginShutdown ==
  /\ phase = "up" /\ phase' = "stopping"
  /\ doomed' = registry /\ registry' = {}
  /\ UNCHANGED <<restarted, slots, owner, child, files, lock, cache, trace>>

(* ... and stops each child it found, with the files of its owner.          *)
ShutdownStop(k) ==
  /\ phase = "stopping" /\ k \in doomed
  /\ StopProcess(k)
  /\ doomed' = doomed \ {k} /\ files' = files \ {k}
  /\ UNCHANGED <<phase, restarted, slots, registry, owner, cache, trace>>

Gone ==
  /\ phase' = "exited" /\ registry' = {} /\ doomed' = {} /\ slots' = 0
  /\ owner' = [o \in Owners |-> Idle]
  /\ UNCHANGED <<restarted, files, lock, cache, trace>>

(* The interpreter joins its children without a bound, then drops whatever  *)
(* its threads were doing.                                                  *)
Exit ==
  /\ phase = "stopping" /\ doomed = {}
  /\ \A k \in Children : Alive(k) => child[k].orphan
  /\ Gone
  /\ child' = [k \in Children |-> IF Alive(k) THEN child[k] ELSE Unstarted]

(* The process is killed; its children go on by themselves.                 *)
Killed ==
  /\ Running /\ Gone
  /\ child' = [k \in Children |->
       IF Alive(k) THEN [child[k] EXCEPT !.orphan = TRUE] ELSE Unstarted]

Start ==
  /\ phase = "exited"
  /\ phase' = "up" /\ restarted' = TRUE /\ slots' = ChildSlots
  /\ UNCHANGED <<registry, doomed, owner, child, files, lock, cache, trace>>

-----------------------------------------------------------------------------
OwnerStep(o) ==
  \/ AcquireSlot(o) \/ NoSlot(o) \/ CreateFiles(o) \/ StartProcess(o) \/ RefuseStart(o)
  \/ StopChild(o) \/ Collect(o) \/ StopAgain(o) \/ CleanUp(o)
  \/ ReadProofs(o) \/ Revalidate(o) \/ StoreProofs(o) \/ Answered(o)

ChildStep(k) ==
  \/ Guard(k) \/ LockCache(k) \/ RepairCache(k) \/ SaveBlocks(k) \/ Prove(k) \/ WriteReply(k)

LiteclientNext ==
  \/ \E o \in Owners : Select(o) \/ OwnerStep(o)
  \/ \E k \in Children : ChildStep(k) \/ ChildDies(k) \/ ShutdownStop(k)
  \/ DeleteTrace \/ VerifyTrace \/ BeginShutdown \/ Exit \/ Killed \/ Start

LiteclientSpec == LiteclientInit /\ [][LiteclientNext]_liteclientVars

-----------------------------------------------------------------------------
(* The children of this process that no one has tried to stop never         *)
(* outnumber the slots, whatever owners, kills and refusals interleave.     *)
LiveChildrenStayBounded ==
  Cardinality({k \in Children : Alive(k) /\ ~child[k].orphan /\ ~child[k].asked}) <= ChildSlots

(* Once the exit hook is through, every child still alive has been stopped  *)
(* or could not be stopped: none was started behind its back, so nothing    *)
(* holds up the unbounded join that follows ("Start a child while fencing   *)
(* the interpreter-shutdown race"); and only a killed or exited process     *)
(* leaves request or reply files behind, which no late child brings back.   *)
ShutdownLeavesNothingBehind ==
  /\ phase = "stopping" /\ doomed = {} =>
       \A k \in Children : Alive(k) => child[k].asked \/ child[k].orphan
  /\ \A k \in files : Running /\ ~restarted => Attended(k)

(* A child that starts to follow the chain finds at most one file, whole,   *)
(* whoever was killed while it wrote the cache, and no other child at work. *)
ReaderFindsOneWholeFile ==
  \A k \in Children : child[k].at = "syncing" => lock = k /\ cache \subseteq {"whole"}

(* Proofs stored with another verification than the one they were captured  *)
(* for come from one window only: its trace was deleted, and verified anew  *)
(* under the same row ids, between the reload of the capture and its flush  *)
(* ("exact verification and BOC coordinates are reloaded before proof       *)
(* persistence").  Neither a shutdown nor a failed child stores anything.   *)
StoredProofsCoverTheTrace ==
  trace.proofs # 0 /\ ~trace.late => trace.proofs = trace.digest

(* Whatever was stored in that window, and although a verification and its  *)
(* proofs are read by statements of their own with deletions, new           *)
(* verifications and other captures between them: nobody is shown proofs of *)
(* other transactions than those of the verification they are shown with.   *)
AnswersCoverTheirTrace ==
  \A o \in Owners : owner[o].at = "answered" =>
    BocOf[owner[o].shown] = BocOf[owner[o].selected]
=============================================================================
