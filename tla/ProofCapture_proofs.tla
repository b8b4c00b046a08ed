------------------------ MODULE ProofCapture_proofs ------------------------
(***************************************************************************)
(* Captures of inclusion proofs.  First the children of the application    *)
(* and the proofs they capture, for any number of owners, children, slots  *)
(* and verifications; then what a proving client believes, for every       *)
(* chain, every set of validators and every answer of the liteservers.     *)
(***************************************************************************)
EXTENDS LiteclientProcesses, MasterchainProofs, FunctionTheorems, FiniteSetTheorems, TLAPS

OwnerPlaces ==
  {"idle", "reading", "waiting", "slot", "ready", "polling", "leaving", "stopped", "captured",
   "reloaded", "storing", "answered"}
ChildPlaces ==
  {"none", "started", "locking", "repairing", "syncing", "saving", "proving", "replying", "exited"}
Replied == {None, "failed", "proofs"}

OwnerState ==
  [at : OwnerPlaces, child : Children \cup {None}, selected : Nat, result : Replied \cup {"nothing"},
   shown : Nat, late : BOOLEAN]
ChildState == [at : ChildPlaces, reply : Replied, asked : BOOLEAN, orphan : BOOLEAN]

(* Every variable is of its kind.                                           *)
LiteclientTypeOK ==
  /\ phase \in {"up", "stopping", "exited"} /\ restarted \in BOOLEAN
  /\ slots \in Nat
  /\ registry \subseteq Children /\ doomed \subseteq Children /\ files \subseteq Children
  /\ owner \in [Owners -> OwnerState]
  /\ child \in [Children -> ChildState]
  /\ lock \in Children \cup {None}
  /\ cache \subseteq {"torn", "whole", "newer"}
  /\ trace \in [digest : Nat, proofs : Nat, late : BOOLEAN]

(* An owner has a child from the files to the clean-up, at the places       *)
(* between a child of its own.                                              *)
Childless == {"idle", "reading", "waiting", "slot", "captured", "reloaded", "storing", "answered"}
Holding ==
  /\ \A o \in Owners :
       /\ owner[o].at \in {"ready", "polling", "stopped"} => owner[o].child # None
       /\ owner[o].at \in Childless => owner[o].child = None
  /\ \A o, p \in Owners : owner[o].child = owner[p].child /\ owner[o].child # None => o = p

LEMMA Constants ==
  /\ Idle \in OwnerState /\ Idle.at = "idle" /\ Idle.child = None
  /\ Unstarted \in ChildState /\ Unstarted.at = "none"
  /\ ~Unstarted.asked /\ ~Unstarted.orphan
  /\ None \notin Children
BY LiteclientAssumption
DEF Idle, Unstarted, OwnerState, ChildState, OwnerPlaces, ChildPlaces, Replied, None

LEMMA ExitedType ==
  ASSUME LiteclientTypeOK, NEW k \in Children, NEW reply \in Replied
  PROVE  /\ Exited(k, reply) \in ChildState
         /\ Exited(k, reply).at \in {"none", "exited"}
BY Constants DEF Exited, LiteclientTypeOK, ChildState, ChildPlaces

LEMMA UnlockedType ==
  ASSUME LiteclientTypeOK, NEW k \in Children
  PROVE  /\ Unlocked(k) \in Children \cup {None}
         /\ Unlocked(k) \in {lock, None} /\ (lock # k => Unlocked(k) = lock)
BY DEF Unlocked, LiteclientTypeOK

(* What stop_process may do to its child and to the others.                 *)
LEMMA StopProcessEffect ==
  ASSUME LiteclientTypeOK, NEW k \in Children, StopProcess(k)
  PROVE  /\ child' \in [Children -> ChildState] /\ lock' \in Children \cup {None}
         /\ \A j \in Children : j # k => child'[j] = child[j]
         /\ \/ child'[k] = child[k] /\ lock' = lock /\ ~Alive(k)
            \/ child'[k] = [child[k] EXCEPT !.asked = TRUE] /\ lock' = lock
            \/ child'[k].at \in {"none", "exited"} /\ lock' = Unlocked(k)
<1>1. CASE ~Alive(k)
  BY <1>1 DEF StopProcess, LiteclientTypeOK
<1>2. CASE Alive(k)
  <2>1. PICK stopped \in BOOLEAN :
         /\ child' = [child EXCEPT ![k] =
                        IF stopped THEN Exited(k, None) ELSE [child[k] EXCEPT !.asked = TRUE]]
         /\ lock' = IF stopped THEN Unlocked(k) ELSE lock
    BY <1>2 DEF StopProcess
  <2>2. None \in Replied
    BY DEF Replied
  <2>3. CASE stopped
    BY <2>1, <2>2, <2>3, ExitedType, UnlockedType DEF LiteclientTypeOK
  <2>4. CASE ~stopped
    <3>1. [child[k] EXCEPT !.asked = TRUE] \in ChildState
      BY DEF LiteclientTypeOK, ChildState
    <3>2. QED
      BY <2>1, <2>4, <3>1 DEF LiteclientTypeOK
  <2>5. QED
    BY <2>3, <2>4
<1>3. QED
  BY <1>1, <1>2

-----------------------------------------------------------------------------
(* Type correctness.                                                        *)

LEMMA InitTypes == ASSUME LiteclientInit PROVE LiteclientTypeOK
BY Constants, LiteclientAssumption DEF LiteclientInit, LiteclientTypeOK, Verified

(* A new place, and a new result, of one owner or of one child.             *)
LEMMA MovesType ==
  ASSUME LiteclientTypeOK, NEW o \in Owners, NEW place \in OwnerPlaces, Moves(o, place)
  PROVE  owner' \in [Owners -> OwnerState]
<1>1. owner \in [Owners -> OwnerState] /\ owner[o] \in OwnerState
  BY DEF LiteclientTypeOK
<1>2. [owner[o] EXCEPT !.at = place] \in OwnerState
  BY <1>1 DEF OwnerState
<1>3. QED
  BY <1>1, <1>2 DEF Moves

LEMMA FailsType ==
  ASSUME LiteclientTypeOK, NEW o \in Owners, NEW result \in Replied \cup {"nothing"},
         Fails(o, result)
  PROVE  owner' \in [Owners -> OwnerState]
<1>1. owner \in [Owners -> OwnerState] /\ owner[o] \in OwnerState
  BY DEF LiteclientTypeOK
<1>2. [owner[o] EXCEPT !.at = "leaving", !.result = result] \in OwnerState
  BY <1>1 DEF OwnerState, OwnerPlaces
<1>3. QED
  BY <1>1, <1>2 DEF Fails

LEMMA ShowsType ==
  ASSUME LiteclientTypeOK, NEW o \in Owners, NEW proofs \in Nat, Shows(o, proofs)
  PROVE  owner' \in [Owners -> OwnerState]
<1>1. owner \in [Owners -> OwnerState] /\ owner[o] \in OwnerState
  BY DEF LiteclientTypeOK
<1>2. [owner[o] EXCEPT !.at = "answered", !.shown = proofs] \in OwnerState
  BY <1>1 DEF OwnerState, OwnerPlaces
<1>3. QED
  BY <1>1, <1>2 DEF Shows

LEMMA ChildMovesType ==
  ASSUME LiteclientTypeOK, NEW k \in Children, NEW from, NEW to \in ChildPlaces,
         ChildMoves(k, from, to)
  PROVE  child' \in [Children -> ChildState]
<1>1. child \in [Children -> ChildState] /\ child[k] \in ChildState
  BY DEF LiteclientTypeOK
<1>2. [child[k] EXCEPT !.at = to] \in ChildState
  BY <1>1 DEF ChildState
<1>3. QED
  BY <1>1, <1>2 DEF ChildMoves

LEMMA RepliesType ==
  ASSUME LiteclientTypeOK, NEW k \in Children, NEW reply \in Replied, Replies(k, reply)
  PROVE  child' \in [Children -> ChildState]
<1>1. child \in [Children -> ChildState] /\ child[k] \in ChildState
  BY DEF LiteclientTypeOK
<1>2. [child[k] EXCEPT !.at = "replying", !.reply = reply] \in ChildState
  BY <1>1 DEF ChildState, ChildPlaces
<1>3. QED
  BY <1>1, <1>2 DEF Replies

LEMMA ReturnedType ==
  ASSUME LiteclientTypeOK, NEW o \in Owners
  PROVE  Returned(o) \in OwnerState
BY Constants DEF Returned, LiteclientTypeOK, OwnerState, OwnerPlaces

LEMMA OwnerTypes ==
  ASSUME LiteclientTypeOK, Holding, NEW o \in Owners, Select(o) \/ OwnerStep(o)
  PROVE  LiteclientTypeOK'
<1> USE DEF LiteclientTypeOK
<1>1. CASE Select(o)
  <2>1. [Idle EXCEPT !.at = "reading", !.selected = trace.digest] \in OwnerState
    BY DEF Idle, OwnerState, OwnerPlaces, Replied
  <2>2. QED
    BY <1>1, <2>1 DEF Select
<1>2. CASE AcquireSlot(o)
  <2>1. "slot" \in OwnerPlaces /\ Moves(o, "slot")
    BY <1>2 DEF AcquireSlot, OwnerPlaces
  <2>2. owner' \in [Owners -> OwnerState]
    BY <2>1, MovesType
  <2>3. QED
    BY <1>2, <2>2 DEF AcquireSlot
<1>3. CASE NoSlot(o)
  BY <1>3, Constants DEF NoSlot
<1>4. CASE CreateFiles(o)
  <2>1. owner' \in [Owners -> OwnerState]
    <3>1. CASE Fails(o, "failed")
      BY <3>1, FailsType DEF Replied
    <3>2. ASSUME NEW k \in Children,
                 owner' = [owner EXCEPT ![o].at = "ready", ![o].child = k]
          PROVE  owner' \in [Owners -> OwnerState]
      <4>1. [owner[o] EXCEPT !.at = "ready", !.child = k] \in OwnerState
        BY DEF OwnerState, OwnerPlaces
      <4>2. QED
        BY <3>2, <4>1
    <3>3. ASSUME NEW k \in Children,
                 owner' = [owner EXCEPT ![o].at = "leaving", ![o].child = k, ![o].result = "failed"]
          PROVE  owner' \in [Owners -> OwnerState]
      <4>1. [owner[o] EXCEPT !.at = "leaving", !.child = k, !.result = "failed"] \in OwnerState
        BY DEF OwnerState, OwnerPlaces, Replied
      <4>2. QED
        BY <3>3, <4>1
    <3>4. QED
      BY <1>4, <3>1, <3>2, <3>3 DEF CreateFiles
  <2>2. files' \subseteq Children
    BY <1>4 DEF CreateFiles
  <2>3. QED
    BY <1>4, <2>1, <2>2 DEF CreateFiles
<1>5. CASE StartProcess(o)
  <2>1. "polling" \in OwnerPlaces /\ Moves(o, "polling")
    BY <1>5 DEF StartProcess, OwnerPlaces
  <2>2. owner' \in [Owners -> OwnerState]
    BY <2>1, MovesType
  <2>3. child' \in [Children -> ChildState]
    <3> DEFINE k == owner[o].child
    <3>1. child' = [child EXCEPT ![k].at = "started"]
      BY <1>5 DEF StartProcess
    <3>2. k \in Children => [child[k] EXCEPT !.at = "started"] \in ChildState
      BY DEF ChildState, ChildPlaces
    <3> HIDE DEF k
    <3>3. QED
      BY <3>1, <3>2
  <2>4. registry' \subseteq Children
    <3>1. owner[o].at = "ready" /\ registry' = registry \cup {owner[o].child}
      BY <1>5 DEF StartProcess, AtOwner
    <3>2. owner[o].child \in Children
      BY <3>1 DEF Holding, OwnerState
    <3>3. QED
      BY <3>1, <3>2
  <2>5. QED
    BY <1>5, <2>2, <2>3, <2>4 DEF StartProcess
<1>6. CASE RefuseStart(o)
  <2>1. owner' \in [Owners -> OwnerState]
    BY <1>6, FailsType DEF RefuseStart, Replied
  <2>2. QED
    BY <1>6, <2>1 DEF RefuseStart
<1>7. CASE StopChild(o)
  <2>1. owner' \in [Owners -> OwnerState]
    BY <1>7, FailsType DEF StopChild, Replied
  <2>2. child' \in [Children -> ChildState] /\ lock' \in Children \cup {None}
    <3>1. owner[o].at = "polling" /\ StopProcess(owner[o].child)
      BY <1>7 DEF StopChild, AtOwner
    <3>2. owner[o].child \in Children
      BY <3>1 DEF Holding, OwnerState
    <3>3. QED
      BY <3>1, <3>2, StopProcessEffect
  <2>3. QED
    BY <1>7, <2>1, <2>2 DEF StopChild
<1>8. CASE Collect(o)
  <2>1. owner[o].child \in Children
    BY <1>8 DEF Collect, AtOwner, Holding, OwnerState
  <2>2. owner' \in [Owners -> OwnerState]
    <3> DEFINE result == CASE phase = "stopping" -> "nothing"
                           [] child[owner[o].child].reply = None -> "failed"
                           [] OTHER -> child[owner[o].child].reply
    <3>1. result \in Replied \cup {"nothing"}
      BY <2>1 DEF ChildState, Replied
    <3>2. Fails(o, result)
      BY <1>8 DEF Collect
    <3> HIDE DEF result
    <3>3. QED
      BY <3>1, <3>2, FailsType
  <2>3. QED
    BY <1>8, <2>2 DEF Collect
<1>9. CASE StopAgain(o)
  <2>1. "stopped" \in OwnerPlaces /\ Moves(o, "stopped") /\ StopProcess(owner[o].child)
    BY <1>9 DEF StopAgain, OwnerPlaces
  <2>2. owner[o].child \in Children
    BY <1>9 DEF StopAgain, OwnerState
  <2>3. owner' \in [Owners -> OwnerState]
    BY <2>1, MovesType
  <2>4. child' \in [Children -> ChildState] /\ lock' \in Children \cup {None}
    BY <2>1, <2>2, StopProcessEffect
  <2>5. QED
    BY <1>9, <2>3, <2>4 DEF StopAgain
<1>10. CASE CleanUp(o)
  BY <1>10, ReturnedType, Constants DEF CleanUp
<1>11. CASE Revalidate(o)
  <2>1. owner' \in [Owners -> OwnerState]
    <3>1. CASE Moves(o, "reloaded")
      BY <3>1, MovesType DEF OwnerPlaces
    <3>2. CASE owner' = [owner EXCEPT ![o] = Idle]
      BY <3>2, Constants
    <3>3. QED
      BY <1>11, <3>1, <3>2 DEF Revalidate
  <2>2. QED
    BY <1>11, <2>1 DEF Revalidate
<1>12. CASE StoreProofs(o)
  <2>1. owner[o].selected \in Nat /\ owner[o].late \in BOOLEAN
    BY DEF OwnerState
  <2>2. owner' \in [Owners -> OwnerState]
    <3>1. CASE Shows(o, owner[o].selected)
      BY <2>1, <3>1, ShowsType
    <3>2. CASE owner' = [owner EXCEPT ![o] = Idle]
      BY <3>2, Constants
    <3>3. QED
      BY <1>12, <3>1, <3>2 DEF StoreProofs
  <2>3. trace' \in [digest : Nat, proofs : Nat, late : BOOLEAN]
    BY <1>12, <2>1 DEF StoreProofs
  <2>4. QED
    BY <1>12, <2>2, <2>3 DEF StoreProofs
<1>13. CASE ReadProofs(o)
  <2>1. trace.proofs \in Nat
    OBVIOUS
  <2>2. owner' \in [Owners -> OwnerState]
    <3>1. CASE Shows(o, trace.proofs)
      BY <2>1, <3>1, ShowsType
    <3>2. CASE Moves(o, "waiting") \/ Moves(o, "storing")
      BY <3>2, MovesType DEF OwnerPlaces
    <3>3. CASE owner' = [owner EXCEPT ![o] = Idle]
      BY <3>3, Constants
    <3>4. QED
      BY <1>13, <3>1, <3>2, <3>3 DEF ReadProofs
  <2>3. QED
    BY <1>13, <2>2 DEF ReadProofs
<1>14. CASE Answered(o)
  BY <1>14, Constants DEF Answered
<1>15. QED
  BY <1>1, <1>2, <1>3, <1>4, <1>5, <1>6, <1>7, <1>8, <1>9, <1>10, <1>11, <1>12, <1>13, <1>14
  DEF OwnerStep

LEMMA ChildTypes ==
  ASSUME LiteclientTypeOK, NEW k \in Children, ChildStep(k) \/ ChildDies(k) \/ ShutdownStop(k)
  PROVE  LiteclientTypeOK'
<1> USE DEF LiteclientTypeOK
<1>c. ASSUME NEW reply \in Replied, child' = [child EXCEPT ![k] = Exited(k, reply)]
      PROVE  child' \in [Children -> ChildState]
  BY <1>c, ExitedType
<1>1. CASE Guard(k)
  <2>1. child' \in [Children -> ChildState]
    <3>1. CASE child' = [child EXCEPT ![k].at = "locking"]
      <4>1. [child[k] EXCEPT !.at = "locking"] \in ChildState
        BY DEF ChildState, ChildPlaces
      <4>2. QED
        BY <3>1, <4>1
    <3>2. CASE Replies(k, "failed")
      BY <3>2, RepliesType DEF Replied
    <3>3. QED
      BY <1>1, <3>1, <3>2 DEF Guard
  <2>2. QED
    BY <1>1, <2>1 DEF Guard
<1>2. CASE LockCache(k)
  <2>1. child' \in [Children -> ChildState]
    BY <1>2, ChildMovesType DEF LockCache, ChildPlaces
  <2>2. QED
    BY <1>2, <2>1 DEF LockCache, ChildMoves
<1>3. CASE RepairCache(k)
  <2>1. child' \in [Children -> ChildState]
    BY <1>3, ChildMovesType DEF RepairCache, ChildPlaces
  <2>2. QED
    BY <1>3, <2>1 DEF RepairCache, ChildMoves
<1>4. CASE SaveBlocks(k)
  <2>1. child' \in [Children -> ChildState]
    BY <1>4, ChildMovesType DEF SaveBlocks, ChildPlaces
  <2>2. QED
    BY <1>4, <2>1 DEF SaveBlocks, ChildMoves
<1>5. CASE Prove(k)
  <2>1. child' \in [Children -> ChildState]
    BY <1>5, RepliesType DEF Prove, Replied
  <2>2. QED
    BY <1>5, <2>1, UnlockedType DEF Prove
<1>6. CASE WriteReply(k)
  <2>1. (IF k \in files THEN child[k].reply ELSE None) \in Replied
    BY DEF ChildState, Replied
  <2>2. QED
    BY <1>6, <1>c, <2>1 DEF WriteReply
<1>7. CASE ChildDies(k)
  BY <1>7, <1>c, UnlockedType DEF ChildDies, Replied
<1>8. CASE ShutdownStop(k)
  BY <1>8, StopProcessEffect DEF ShutdownStop
<1>9. QED
  BY <1>1, <1>2, <1>3, <1>4, <1>5, <1>6, <1>7, <1>8 DEF ChildStep

(* A deletion leaves its mark on the owners past their last look at the     *)
(* trace, and changes nothing else of any owner.                            *)
LEMMA DeleteTraceEffect ==
  ASSUME LiteclientTypeOK, DeleteTrace
  PROVE  /\ owner' \in [Owners -> OwnerState]
         /\ \A o \in Owners :
              /\ owner'[o].at = owner[o].at /\ owner'[o].child = owner[o].child
              /\ owner'[o].selected = owner[o].selected /\ owner'[o].shown = owner[o].shown
              /\ Reloaded(o) => owner'[o].late
<1>1. \A o \in Owners : owner[o] \in OwnerState
  BY DEF LiteclientTypeOK
<1>2. \A o \in Owners : (owner[o].late \/ Reloaded(o)) \in BOOLEAN
  BY <1>1 DEF OwnerState, Reloaded
<1>3. owner' = [o \in Owners |-> [owner[o] EXCEPT !.late = @ \/ Reloaded(o)]]
  BY DEF DeleteTrace
<1>4. QED
  BY <1>1, <1>2, <1>3 DEF OwnerState

LEMMA ProcessTypes ==
  ASSUME LiteclientTypeOK, DeleteTrace \/ VerifyTrace \/ BeginShutdown \/ Exit \/ Killed \/ Start
  PROVE  LiteclientTypeOK'
<1> USE DEF LiteclientTypeOK
<1>1. CASE DeleteTrace
  BY <1>1, DeleteTraceEffect DEF DeleteTrace, NoTrace, Verified
<1>v. CASE VerifyTrace
  BY <1>v, LiteclientAssumption DEF VerifyTrace, Verified
<1>2. CASE BeginShutdown
  BY <1>2 DEF BeginShutdown
<1>3. CASE Exit
  BY <1>3, Constants DEF Exit, Gone
<1>4. CASE Killed
  <2>1. \A k \in Children : [child[k] EXCEPT !.orphan = TRUE] \in ChildState
    BY DEF ChildState
  <2>2. QED
    BY <1>4, <2>1, Constants DEF Killed, Gone
<1>5. CASE Start
  BY <1>5, LiteclientAssumption DEF Start
<1>6. QED
  BY <1>1, <1>v, <1>2, <1>3, <1>4, <1>5

LEMMA TypesAreKept ==
  ASSUME LiteclientTypeOK, Holding, [LiteclientNext]_liteclientVars
  PROVE  LiteclientTypeOK'
<1>1. CASE UNCHANGED liteclientVars
  BY <1>1 DEF liteclientVars, LiteclientTypeOK
<1>2. CASE LiteclientNext
  BY <1>2, OwnerTypes, ChildTypes, ProcessTypes DEF LiteclientNext
<1>3. QED
  BY <1>1, <1>2

-----------------------------------------------------------------------------
(* Where the owners are and which child each one has.                       *)

LEMMA MovesEffect ==
  ASSUME LiteclientTypeOK, NEW o \in Owners, NEW place, Moves(o, place)
  PROVE  /\ owner'[o].at = place /\ owner'[o].child = owner[o].child
         /\ owner'[o].selected = owner[o].selected /\ owner'[o].late = owner[o].late
         /\ \A p \in Owners : p # o => owner'[p] = owner[p]
BY DEF Moves, LiteclientTypeOK, OwnerState

LEMMA FailsEffect ==
  ASSUME LiteclientTypeOK, NEW o \in Owners, NEW result, Fails(o, result)
  PROVE  /\ owner'[o].at = "leaving" /\ owner'[o].child = owner[o].child
         /\ \A p \in Owners : p # o => owner'[p] = owner[p]
BY DEF Fails, LiteclientTypeOK, OwnerState

LEMMA BecomesEffect ==
  ASSUME LiteclientTypeOK, NEW o \in Owners, NEW row, owner' = [owner EXCEPT ![o] = row]
  PROVE  owner'[o] = row /\ \A p \in Owners : p # o => owner'[p] = owner[p]
BY DEF LiteclientTypeOK

LEMMA ReturnedEffect ==
  ASSUME LiteclientTypeOK, NEW o \in Owners
  PROVE  /\ Returned(o).at \in {"idle", "captured"} /\ Returned(o).child = None
         /\ Returned(o).at = "idle" => Returned(o) = Idle
BY Constants DEF Returned, LiteclientTypeOK, OwnerState

LEMMA ShowsEffect ==
  ASSUME LiteclientTypeOK, NEW o \in Owners, NEW proofs, Shows(o, proofs)
  PROVE  /\ owner'[o].at = "answered" /\ owner'[o].child = owner[o].child
         /\ owner'[o].selected = owner[o].selected /\ owner'[o].shown = proofs
         /\ \A p \in Owners : p # o => owner'[p] = owner[p]
BY DEF Shows, LiteclientTypeOK, OwnerState

(* Before and after the capture an owner has no child.                      *)
LEMMA DatabaseSteps ==
  ASSUME LiteclientTypeOK, Holding, NEW o \in Owners,
         ReadProofs(o) \/ Revalidate(o) \/ StoreProofs(o) \/ Answered(o)
  PROVE  /\ owner[o].at \in Childless \ {"slot"} /\ owner[o].child = None
         /\ owner'[o].at \in Childless \ {"slot"} /\ owner'[o].child = None
         /\ \A p \in Owners : p # o => owner'[p] = owner[p]
<1>1. owner[o].at \in {"reading", "reloaded", "captured", "storing", "answered"}
  BY DEF ReadProofs, Revalidate, StoreProofs, Answered, AtOwner
<1>2. owner[o].at \in Childless \ {"slot"} /\ owner[o].child = None
  BY <1>1 DEF Holding, Childless
<1>3. \/ Moves(o, "waiting") \/ Moves(o, "storing") \/ Moves(o, "reloaded")
      \/ Shows(o, trace.proofs) \/ Shows(o, owner[o].selected)
      \/ owner' = [owner EXCEPT ![o] = Idle]
  BY DEF ReadProofs, Revalidate, StoreProofs, Answered
<1>4. CASE Moves(o, "waiting") \/ Moves(o, "storing") \/ Moves(o, "reloaded")
  BY <1>2, <1>4, MovesEffect DEF Childless
<1>5. CASE Shows(o, trace.proofs) \/ Shows(o, owner[o].selected)
  BY <1>2, <1>5, ShowsEffect DEF Childless
<1>6. CASE owner' = [owner EXCEPT ![o] = Idle]
  BY <1>2, <1>6, BecomesEffect, Constants DEF Childless
<1>7. QED
  BY <1>2, <1>3, <1>4, <1>5, <1>6

(* One owner moves and keeps its child.                                     *)
LEMMA HoldingMove ==
  ASSUME Holding, NEW o \in Owners, owner'[o].child = owner[o].child,
         owner'[o].at \in {"ready", "polling", "stopped"} => owner[o].child # None,
         owner'[o].at \in Childless => owner[o].child = None,
         \A p \in Owners : p # o => owner'[p] = owner[p]
  PROVE  Holding'
<1> USE DEF Holding
<1>1. \A p \in Owners : owner'[p].child = owner[p].child
  OBVIOUS
<1>2. QED
  BY <1>1

(* One owner ends up without a child.                                       *)
LEMMA HoldingDrop ==
  ASSUME Holding, NEW o \in Owners, owner'[o].child = None,
         owner'[o].at \in Childless,
         \A p \in Owners : p # o => owner'[p] = owner[p]
  PROVE  Holding'
BY DEF Holding, Childless

LEMMA HoldingStep ==
  ASSUME LiteclientTypeOK, Holding, [LiteclientNext]_liteclientVars
  PROVE  Holding'
<1>1. ASSUME NEW o \in Owners, Select(o) PROVE Holding'
  <2>1. owner' = [owner EXCEPT ![o] = [Idle EXCEPT !.at = "reading", !.selected = trace.digest]]
    BY <1>1 DEF Select
  <2> DEFINE row == [Idle EXCEPT !.at = "reading", !.selected = trace.digest]
  <2>2. row.at = "reading" /\ row.child = None
    BY DEF Idle
  <2> HIDE DEF row
  <2>3. owner'[o] = row /\ \A p \in Owners : p # o => owner'[p] = owner[p]
    BY <2>1, BecomesEffect DEF row
  <2>4. QED
    BY <2>2, <2>3, HoldingDrop DEF Childless
<1>2. ASSUME NEW o \in Owners, AcquireSlot(o) PROVE Holding'
  BY <1>2, MovesEffect, HoldingMove DEF AcquireSlot, AtOwner, Holding, Childless
<1>3. ASSUME NEW o \in Owners, NoSlot(o) PROVE Holding'
  BY <1>3, BecomesEffect, Constants, HoldingDrop DEF NoSlot, Childless
<1>4. ASSUME NEW o \in Owners, CreateFiles(o) PROVE Holding'
  <2>1. owner[o].at = "slot" /\ owner[o].child = None
    BY <1>4 DEF CreateFiles, AtOwner, Holding, Childless
  <2>2. CASE Fails(o, "failed")
    BY <2>1, <2>2, FailsEffect, HoldingMove DEF Childless
  <2>3. ASSUME NEW k \in Children, ~Attended(k),
               \/ owner' = [owner EXCEPT ![o].at = "ready", ![o].child = k]
               \/ owner' = [owner EXCEPT ![o].at = "leaving", ![o].child = k, ![o].result = "failed"]
        PROVE  Holding'
    <3>1. /\ owner'[o].at \in {"ready", "leaving"} /\ owner'[o].child = k
          /\ \A p \in Owners : p # o => owner'[p] = owner[p]
      BY <2>3 DEF LiteclientTypeOK, OwnerState
    <3>2. k # None /\ \A p \in Owners : owner[p].child # k
      BY <2>3, Constants DEF Attended
    <3>3. QED
      BY <3>1, <3>2 DEF Holding, Childless
  <2>4. QED
    BY <1>4, <2>2, <2>3 DEF CreateFiles
<1>5. ASSUME NEW o \in Owners, StartProcess(o) PROVE Holding'
  BY <1>5, MovesEffect, HoldingMove DEF StartProcess, AtOwner, Holding, Childless
<1>6. ASSUME NEW o \in Owners, RefuseStart(o) PROVE Holding'
  BY <1>6, FailsEffect, HoldingMove DEF RefuseStart, Childless
<1>7. ASSUME NEW o \in Owners, StopChild(o) PROVE Holding'
  BY <1>7, FailsEffect, HoldingMove DEF StopChild, Childless
<1>8. ASSUME NEW o \in Owners, Collect(o) PROVE Holding'
  <2>1. PICK result : Fails(o, result)
    BY <1>8 DEF Collect
  <2>2. QED
    BY <2>1, FailsEffect, HoldingMove DEF Childless
<1>9. ASSUME NEW o \in Owners, StopAgain(o) PROVE Holding'
  BY <1>9, MovesEffect, HoldingMove DEF StopAgain, Childless
<1>10. ASSUME NEW o \in Owners, CleanUp(o) PROVE Holding'
  BY <1>10, BecomesEffect, ReturnedEffect, HoldingDrop DEF CleanUp, Childless
<1>11. ASSUME NEW o \in Owners, ReadProofs(o) \/ Revalidate(o) \/ StoreProofs(o) \/ Answered(o)
       PROVE  Holding'
  BY <1>11, DatabaseSteps, HoldingDrop
<1>12. CASE DeleteTrace
  BY <1>12, DeleteTraceEffect DEF Holding
<1>13. CASE UNCHANGED owner
  BY <1>13 DEF Holding
<1>14. CASE \A o \in Owners : owner'[o] = Idle
  BY <1>14, Constants DEF Holding, Childless
<1>15. ASSUME NEW k \in Children, ChildStep(k) \/ ChildDies(k) \/ ShutdownStop(k)
       PROVE  UNCHANGED owner
  BY <1>15 DEF ChildStep, ChildDies, ShutdownStop, Guard, LockCache, RepairCache, SaveBlocks,
     ChildMoves, Prove, WriteReply
<1>16. VerifyTrace \/ BeginShutdown \/ Start => UNCHANGED owner
  BY DEF VerifyTrace, BeginShutdown, Start
<1>17. Exit \/ Killed => \A o \in Owners : owner'[o] = Idle
  BY DEF Exit, Killed, Gone
<1>18. QED
  BY <1>1, <1>2, <1>3, <1>4, <1>5, <1>6, <1>7, <1>8, <1>9, <1>10, <1>11, <1>12, <1>13, <1>14,
     <1>15, <1>16, <1>17
  DEF LiteclientNext, OwnerStep, liteclientVars

-----------------------------------------------------------------------------
(* Stored proofs.                                                           *)

(* What an owner looked at last is what it stores with, unless it is late.  *)
Storing ==
  /\ StoredProofsCoverTheTrace /\ AnswersCoverTheirTrace
  /\ \A o \in Owners : Reloaded(o) /\ ~owner[o].late =>
       trace.digest # 0 /\ trace.digest = owner[o].selected

(* A step that keeps the trace and brings no owner to its store or answer.  *)
LEMMA StoringKept ==
  ASSUME Storing, UNCHANGED trace,
         \A o \in Owners :
           owner'[o].at \in {"reloaded", "storing", "answered"} => owner'[o] = owner[o]
  PROVE  Storing'
<1>1. StoredProofsCoverTheTrace'
  BY DEF Storing, StoredProofsCoverTheTrace
<1>2. AnswersCoverTheirTrace'
  BY DEF Storing, AnswersCoverTheirTrace
<1>3. \A o \in Owners : Reloaded(o)' => owner'[o] = owner[o] /\ Reloaded(o)
  BY DEF Reloaded
<1>4. QED
  BY <1>1, <1>2, <1>3 DEF Storing

LEMMA StoringStep ==
  ASSUME LiteclientTypeOK, Storing, [LiteclientNext]_liteclientVars
  PROVE  Storing'
<1>1. ASSUME NEW o \in Owners, Select(o) PROVE Storing'
  <2>1. owner' = [owner EXCEPT ![o] = [Idle EXCEPT !.at = "reading", !.selected = trace.digest]]
    BY <1>1 DEF Select
  <2> DEFINE row == [Idle EXCEPT !.at = "reading", !.selected = trace.digest]
  <2>2. row.at = "reading"
    BY DEF Idle
  <2> HIDE DEF row
  <2>3. owner'[o] = row /\ \A p \in Owners : p # o => owner'[p] = owner[p]
    BY <2>1, BecomesEffect DEF row
  <2>4. QED
    BY <1>1, <2>2, <2>3, StoringKept DEF Select
<1>2. ASSUME NEW o \in Owners, AcquireSlot(o) PROVE Storing'
  BY <1>2, MovesEffect, StoringKept DEF AcquireSlot
<1>3. ASSUME NEW o \in Owners, NoSlot(o) PROVE Storing'
  BY <1>3, BecomesEffect, Constants, StoringKept DEF NoSlot
<1>4. ASSUME NEW o \in Owners, CreateFiles(o) PROVE Storing'
  <2>1. CASE Fails(o, "failed")
    BY <1>4, <2>1, FailsEffect, StoringKept DEF CreateFiles
  <2>2. ASSUME NEW k \in Children,
               \/ owner' = [owner EXCEPT ![o].at = "ready", ![o].child = k]
               \/ owner' = [owner EXCEPT ![o].at = "leaving", ![o].child = k, ![o].result = "failed"]
        PROVE  Storing'
    <3>1. /\ owner'[o].at \in {"ready", "leaving"}
          /\ \A p \in Owners : p # o => owner'[p] = owner[p]
      BY <2>2 DEF LiteclientTypeOK, OwnerState
    <3>2. QED
      BY <1>4, <3>1, StoringKept DEF CreateFiles
  <2>3. QED
    BY <1>4, <2>1, <2>2 DEF CreateFiles
<1>5. ASSUME NEW o \in Owners, StartProcess(o) PROVE Storing'
  BY <1>5, MovesEffect, StoringKept DEF StartProcess
<1>6. ASSUME NEW o \in Owners, RefuseStart(o) PROVE Storing'
  BY <1>6, FailsEffect, StoringKept DEF RefuseStart
<1>7. ASSUME NEW o \in Owners, StopChild(o) PROVE Storing'
  BY <1>7, FailsEffect, StoringKept DEF StopChild
<1>8. ASSUME NEW o \in Owners, Collect(o) PROVE Storing'
  <2>1. PICK result : Fails(o, result)
    BY <1>8 DEF Collect
  <2>2. QED
    BY <1>8, <2>1, FailsEffect, StoringKept DEF Collect
<1>9. ASSUME NEW o \in Owners, StopAgain(o) PROVE Storing'
  BY <1>9, MovesEffect, StoringKept DEF StopAgain
<1>10. ASSUME NEW o \in Owners, CleanUp(o) PROVE Storing'
  <2>1. Returned(o).at \in {"idle", "captured"}
    BY ReturnedEffect
  <2>2. owner'[o] = Returned(o) /\ \A p \in Owners : p # o => owner'[p] = owner[p]
    BY <1>10, BecomesEffect DEF CleanUp
  <2>3. QED
    BY <1>10, <2>1, <2>2, StoringKept DEF CleanUp
(* The only way to the store compares the verification with the request.    *)
<1>11. ASSUME NEW o \in Owners, Revalidate(o) PROVE Storing'
  <2>1. CASE trace.digest # 0 /\ trace.digest = owner[o].selected /\ Moves(o, "reloaded")
    <3>1. /\ owner'[o].at = "reloaded" /\ owner'[o].selected = trace.digest /\ UNCHANGED trace
          /\ \A p \in Owners : p # o => owner'[p] = owner[p]
      BY <1>11, <2>1, MovesEffect DEF Revalidate
    <3>2. QED
      BY <2>1, <3>1 DEF Storing, StoredProofsCoverTheTrace, AnswersCoverTheirTrace, Reloaded
  <2>2. CASE owner' = [owner EXCEPT ![o] = Idle]
    BY <1>11, <2>2, BecomesEffect, Constants, StoringKept DEF Revalidate
  <2>3. QED
    BY <1>11, <2>1, <2>2 DEF Revalidate
<1>r. ASSUME NEW o \in Owners, ReadProofs(o) PROVE Storing'
  <2>1. UNCHANGED trace /\ owner[o].at \in {"reading", "reloaded"}
    BY <1>r DEF ReadProofs, AtOwner
  <2>2. CASE BocOf[trace.proofs] = BocOf[owner[o].selected] /\ Shows(o, trace.proofs)
    <3>1. /\ owner'[o].at = "answered" /\ owner'[o].shown = trace.proofs
          /\ owner'[o].selected = owner[o].selected
          /\ \A p \in Owners : p # o => owner'[p] = owner[p]
      BY <2>2, ShowsEffect
    <3>2. QED
      BY <2>1, <2>2, <3>1 DEF Storing, StoredProofsCoverTheTrace, AnswersCoverTheirTrace, Reloaded
  <2>3. CASE Moves(o, IF owner[o].at = "reading" THEN "waiting" ELSE "storing")
    <3>1. /\ owner'[o].at = IF owner[o].at = "reading" THEN "waiting" ELSE "storing"
          /\ owner'[o].selected = owner[o].selected /\ owner'[o].late = owner[o].late
          /\ \A p \in Owners : p # o => owner'[p] = owner[p]
      BY <2>3, MovesEffect
    <3>2. QED
      BY <2>1, <3>1 DEF Storing, StoredProofsCoverTheTrace, AnswersCoverTheirTrace, Reloaded
  <2>4. CASE owner' = [owner EXCEPT ![o] = Idle]
    BY <2>1, <2>4, BecomesEffect, Constants, StoringKept
  <2>5. QED
    BY <1>r, <2>2, <2>3, <2>4 DEF ReadProofs
<1>12. ASSUME NEW o \in Owners, StoreProofs(o) PROVE Storing'
  <2>1. owner[o].at = "storing" /\ Reloaded(o)
    BY <1>12 DEF StoreProofs, AtOwner, Reloaded
  <2>2. CASE /\ trace' = [trace EXCEPT !.proofs = owner[o].selected, !.late = owner[o].late]
             /\ Shows(o, owner[o].selected)
    <3>1. /\ owner'[o].at = "answered" /\ owner'[o].shown = owner'[o].selected
          /\ \A p \in Owners : p # o => owner'[p] = owner[p]
      BY <2>2, ShowsEffect
    <3>2. /\ trace'.digest = trace.digest /\ trace'.proofs = owner[o].selected
          /\ trace'.late = owner[o].late
      BY <2>2 DEF LiteclientTypeOK
    <3>3. StoredProofsCoverTheTrace'
      BY <2>1, <3>2 DEF Storing, StoredProofsCoverTheTrace
    <3>4. QED
      BY <3>1, <3>2, <3>3 DEF Storing, AnswersCoverTheirTrace, Reloaded
  <2>3. CASE owner' = [owner EXCEPT ![o] = Idle] /\ UNCHANGED trace
    BY <2>3, BecomesEffect, Constants, StoringKept
  <2>4. QED
    BY <1>12, <2>2, <2>3 DEF StoreProofs
<1>a. ASSUME NEW o \in Owners, Answered(o) PROVE Storing'
  BY <1>a, BecomesEffect, Constants, StoringKept DEF Answered
<1>13. CASE DeleteTrace
  <2>1. trace' = NoTrace
    BY <1>13 DEF DeleteTrace
  <2>2. \A o \in Owners : Reloaded(o)' => owner'[o].late
    BY <1>13, DeleteTraceEffect DEF Reloaded
  <2>3. AnswersCoverTheirTrace'
    BY <1>13, DeleteTraceEffect DEF Storing, AnswersCoverTheirTrace
  <2>4. QED
    BY <2>1, <2>2, <2>3 DEF Storing, StoredProofsCoverTheTrace, NoTrace, Verified
<1>v. CASE VerifyTrace
  <2>1. UNCHANGED owner /\ trace.digest = 0 /\ trace'.proofs = 0
    BY <1>v DEF VerifyTrace, Verified
  <2>2. \A o \in Owners : Reloaded(o)' => owner'[o].late
    BY <2>1 DEF Storing, Reloaded
  <2>3. QED
    BY <2>1, <2>2 DEF Storing, StoredProofsCoverTheTrace, AnswersCoverTheirTrace
<1>14. ASSUME NEW k \in Children, ChildStep(k) \/ ChildDies(k) \/ ShutdownStop(k)
       PROVE  UNCHANGED <<owner, trace>>
  BY <1>14 DEF ChildStep, ChildDies, ShutdownStop, Guard, LockCache, RepairCache, SaveBlocks,
     ChildMoves, Prove, WriteReply
<1>15. BeginShutdown \/ Start => UNCHANGED <<owner, trace>>
  BY DEF BeginShutdown, Start
<1>16. UNCHANGED <<owner, trace>> => Storing'
  BY DEF Storing, StoredProofsCoverTheTrace, AnswersCoverTheirTrace, Reloaded
<1>17. CASE Exit \/ Killed
  BY <1>17, Constants, StoringKept DEF Exit, Killed, Gone
<1>18. QED
  BY <1>1, <1>2, <1>3, <1>4, <1>5, <1>6, <1>7, <1>8, <1>9, <1>10, <1>11, <1>12, <1>13, <1>14,
     <1>15, <1>16, <1>17, <1>r, <1>a, <1>v
  DEF LiteclientNext, OwnerStep, liteclientVars

-----------------------------------------------------------------------------
(* The cache directory.                                                     *)

Critical == {"repairing", "syncing", "saving", "proving"}

(* Who works in the cache holds its lock, and starts from a whole file.     *)
Locking ==
  \A k \in Children :
    /\ child[k].at \in Critical => lock = k
    /\ child[k].at = "syncing" => cache \subseteq {"whole"}

(* A step that leaves the cache and its lock alone, and brings no child     *)
(* into the critical section.                                               *)
LEMMA LockingKept ==
  ASSUME Locking, UNCHANGED <<lock, cache>>,
         \A k \in Children : child'[k].at \in Critical => child'[k].at = child[k].at
  PROVE  Locking'
BY DEF Locking, Critical

(* A child leaves the critical section and drops the lock.                  *)
LEMMA LockingReleased ==
  ASSUME LiteclientTypeOK, Locking, NEW k \in Children, UNCHANGED cache,
         lock' = Unlocked(k), child'[k].at \notin Critical,
         \A j \in Children : j # k => child'[j] = child[j]
  PROVE  Locking'
<1>1. \A j \in Children : j # k /\ child[j].at \in Critical => lock' = lock
  BY DEF Locking, Unlocked
<1>2. QED
  BY <1>1 DEF Locking, Critical

(* The holder of the lock moves on.                                         *)
LEMMA LockingHolds ==
  ASSUME Locking, NEW k \in Children, lock' = k,
         \A j \in Children : j # k => child'[j] = child[j] /\ lock # j,
         child'[k].at = "syncing" => cache' \subseteq {"whole"}
  PROVE  Locking'
BY DEF Locking, Critical

LEMMA ChildMovesEffect ==
  ASSUME LiteclientTypeOK, NEW k \in Children, NEW from, NEW to, ChildMoves(k, from, to)
  PROVE  /\ child[k].at = from /\ child'[k].at = to
         /\ child'[k].asked = child[k].asked /\ child'[k].orphan = child[k].orphan
         /\ \A j \in Children : j # k => child'[j] = child[j]
BY DEF ChildMoves, LiteclientTypeOK, ChildState

LEMMA RepliesEffect ==
  ASSUME LiteclientTypeOK, NEW k \in Children, NEW reply, Replies(k, reply)
  PROVE  /\ child'[k].at = "replying"
         /\ child'[k].asked = child[k].asked /\ child'[k].orphan = child[k].orphan
         /\ \A j \in Children : j # k => child'[j] = child[j]
BY DEF Replies, LiteclientTypeOK, ChildState

LEMMA ExitsEffect ==
  ASSUME LiteclientTypeOK, NEW k \in Children, NEW reply \in Replied,
         child' = [child EXCEPT ![k] = Exited(k, reply)]
  PROVE  /\ child'[k].at \in {"none", "exited"}
         /\ \A j \in Children : j # k => child'[j] = child[j]
BY ExitedType DEF LiteclientTypeOK

LEMMA LockingStop ==
  ASSUME LiteclientTypeOK, Locking, NEW k \in Children, StopProcess(k), UNCHANGED cache
  PROVE  Locking'
<1>1. \A j \in Children : j # k => child'[j] = child[j]
  BY StopProcessEffect
<1>2. CASE child'[k].at = child[k].at /\ lock' = lock
  BY <1>1, <1>2, LockingKept
<1>3. CASE child'[k].at \in {"none", "exited"} /\ lock' = Unlocked(k)
  BY <1>1, <1>3, LockingReleased DEF Critical
<1>4. [child[k] EXCEPT !.asked = TRUE].at = child[k].at
  BY DEF LiteclientTypeOK, ChildState
<1>5. QED
  BY <1>2, <1>3, <1>4, StopProcessEffect

LEMMA LockingChildStep ==
  ASSUME LiteclientTypeOK, Locking, NEW k \in Children,
         ChildStep(k) \/ ChildDies(k) \/ ShutdownStop(k)
  PROVE  Locking'
<1>1. CASE Guard(k)
  <2>1. CASE child' = [child EXCEPT ![k].at = "locking"]
    BY <1>1, <2>1, LockingKept DEF Guard, LiteclientTypeOK, ChildState, Critical
  <2>2. CASE Replies(k, "failed")
    BY <1>1, <2>2, RepliesEffect, LockingKept DEF Guard, Critical
  <2>3. QED
    BY <1>1, <2>1, <2>2 DEF Guard
<1>2. CASE LockCache(k)
  BY <1>2, ChildMovesEffect, LockingHolds, Constants DEF LockCache
<1>3. ASSUME child[k].at \in Critical PROVE \A j \in Children : j # k => lock # j
  BY <1>3 DEF Locking
<1>4. CASE RepairCache(k)
  <2>1. /\ child[k].at = "repairing" /\ UNCHANGED lock /\ cache' \subseteq {"whole"}
        /\ \A j \in Children : j # k => child'[j] = child[j]
    BY <1>4, ChildMovesEffect DEF RepairCache
  <2>2. lock' = k /\ \A j \in Children : j # k => lock # j
    BY <1>3, <2>1 DEF Locking, Critical
  <2>3. QED
    BY <2>1, <2>2, LockingHolds
<1>5. CASE SaveBlocks(k)
  <2>1. /\ child[k].at \in {"syncing", "saving"} /\ UNCHANGED lock /\ child'[k].at # "syncing"
        /\ \A j \in Children : j # k => child'[j] = child[j]
    BY <1>5, ChildMovesEffect DEF SaveBlocks
  <2>2. lock' = k /\ \A j \in Children : j # k => lock # j
    BY <1>3, <2>1 DEF Locking, Critical
  <2>3. QED
    BY <2>1, <2>2, LockingHolds
<1>6. CASE Prove(k)
  BY <1>6, RepliesEffect, LockingReleased DEF Prove, Critical
<1>7. CASE WriteReply(k)
  <2>1. (IF k \in files THEN child[k].reply ELSE None) \in Replied
    BY DEF LiteclientTypeOK, ChildState, Replied
  <2>2. child'[k].at \in {"none", "exited"} /\ \A j \in Children : j # k => child'[j] = child[j]
    BY <1>7, <2>1, ExitsEffect DEF WriteReply
  <2>3. QED
    BY <1>7, <2>2, LockingKept DEF WriteReply, Critical
<1>8. CASE ChildDies(k)
  <2>1. child'[k].at \in {"none", "exited"} /\ \A j \in Children : j # k => child'[j] = child[j]
    BY <1>8, ExitsEffect DEF ChildDies, Replied
  <2>2. QED
    BY <1>8, <2>1, LockingReleased DEF ChildDies, Critical
<1>9. CASE ShutdownStop(k)
  BY <1>9, LockingStop DEF ShutdownStop
<1>10. QED
  BY <1>1, <1>2, <1>4, <1>5, <1>6, <1>7, <1>8, <1>9 DEF ChildStep

LEMMA LockingStep ==
  ASSUME LiteclientTypeOK, Holding, Locking, [LiteclientNext]_liteclientVars
  PROVE  Locking'
<1>1. UNCHANGED <<child, lock, cache>> => Locking'
  BY DEF Locking
<1>2. ASSUME NEW o \in Owners,
             Select(o) \/ AcquireSlot(o) \/ NoSlot(o) \/ CreateFiles(o) \/ RefuseStart(o)
             \/ Collect(o) \/ ReadProofs(o) \/ Revalidate(o) \/ StoreProofs(o)
             \/ Answered(o)
      PROVE  UNCHANGED <<child, lock, cache>>
  BY <1>2 DEF Select, AcquireSlot, NoSlot, CreateFiles, RefuseStart, Collect, ReadProofs, Revalidate,
     StoreProofs, Answered
<1>3. ASSUME NEW o \in Owners, StartProcess(o) PROVE Locking'
  <2>1. \A k \in Children : child'[k].at \in {child[k].at, "started"}
    BY <1>3 DEF StartProcess, LiteclientTypeOK, ChildState
  <2>2. QED
    BY <1>3, <2>1, LockingKept DEF StartProcess, Critical
<1>4. ASSUME NEW o \in Owners, StopChild(o) \/ StopAgain(o) PROVE Locking'
  <2>1. owner[o].child \in Children /\ StopProcess(owner[o].child) /\ UNCHANGED cache
    BY <1>4 DEF StopChild, StopAgain, AtOwner, Holding, LiteclientTypeOK, OwnerState
  <2>2. QED
    BY <2>1, LockingStop
<1>5. ASSUME NEW o \in Owners, CleanUp(o) PROVE Locking'
  <2>1. \A k \in Children : child'[k].at \in {child[k].at, "none"}
    BY <1>5, Constants DEF CleanUp
  <2>2. QED
    BY <1>5, <2>1, LockingKept DEF CleanUp, Critical
<1>6. CASE DeleteTrace \/ VerifyTrace \/ BeginShutdown \/ Start
  BY <1>1, <1>6 DEF DeleteTrace, VerifyTrace, BeginShutdown, Start
<1>7. CASE Exit
  <2>1. \A k \in Children : child'[k].at \in {child[k].at, "none"}
    BY <1>7, Constants DEF Exit
  <2>2. QED
    BY <1>7, <2>1, LockingKept DEF Exit, Gone, Critical
<1>8. CASE Killed
  <2>1. \A k \in Children : [child[k] EXCEPT !.orphan = TRUE].at = child[k].at
    BY DEF LiteclientTypeOK, ChildState
  <2>2. \A k \in Children : child'[k].at \in {child[k].at, "none"}
    BY <1>8, <2>1, Constants DEF Killed
  <2>3. QED
    BY <1>8, <2>2, LockingKept DEF Killed, Gone, Critical
<1>9. QED
  BY <1>1, <1>2, <1>3, <1>4, <1>5, <1>6, <1>7, <1>8, LockingChildStep
  DEF LiteclientNext, OwnerStep, liteclientVars

-----------------------------------------------------------------------------
(* Children nobody has tried to stop.                                       *)

Tried(k) == Alive(k) => child[k].asked \/ child[k].orphan

(* No step but the start of a child makes one that nobody has tried to stop.*)
LEMMA StopTries ==
  ASSUME LiteclientTypeOK, NEW k \in Children, StopProcess(k)
  PROVE  Tried(k)' /\ \A j \in Children : Tried(j) => Tried(j)'
<1>1. \A j \in Children : j # k => child'[j] = child[j]
  BY StopProcessEffect
<1>2. [child[k] EXCEPT !.asked = TRUE].asked
  BY DEF LiteclientTypeOK, ChildState
<1>3. Tried(k)'
  BY <1>2, StopProcessEffect DEF Tried, Alive
<1>4. QED
  BY <1>1, <1>3 DEF Tried, Alive

LEMMA ChildTries ==
  ASSUME LiteclientTypeOK, NEW k \in Children,
         ChildStep(k) \/ ChildDies(k) \/ ShutdownStop(k)
  PROVE  \A j \in Children : Tried(j) => Tried(j)'
<1>1. ASSUME child[k].at \notin {"none", "exited"},
             \/ /\ child'[k].asked = child[k].asked /\ child'[k].orphan = child[k].orphan
             \/ child'[k].at \in {"none", "exited"},
             \A j \in Children : j # k => child'[j] = child[j]
      PROVE  \A j \in Children : Tried(j) => Tried(j)'
  BY <1>1 DEF Tried, Alive
<1>2. CASE Guard(k)
  <2>1. CASE child' = [child EXCEPT ![k].at = "locking"]
    BY <1>1, <1>2, <2>1 DEF Guard, LiteclientTypeOK, ChildState
  <2>2. CASE Replies(k, "failed")
    BY <1>1, <1>2, <2>2, RepliesEffect DEF Guard
  <2>3. QED
    BY <1>2, <2>1, <2>2 DEF Guard
<1>3. CASE LockCache(k)
  BY <1>1, <1>3, ChildMovesEffect DEF LockCache
<1>4. CASE RepairCache(k)
  BY <1>1, <1>4, ChildMovesEffect DEF RepairCache
<1>5. CASE SaveBlocks(k)
  BY <1>1, <1>5, ChildMovesEffect DEF SaveBlocks
<1>6. CASE Prove(k)
  BY <1>1, <1>6, RepliesEffect DEF Prove
<1>7. CASE WriteReply(k)
  <2>1. (IF k \in files THEN child[k].reply ELSE None) \in Replied
    BY DEF LiteclientTypeOK, ChildState, Replied
  <2>2. QED
    BY <1>1, <1>7, <2>1, ExitsEffect DEF WriteReply
<1>8. CASE ChildDies(k)
  BY <1>1, <1>8, ExitsEffect DEF ChildDies, Alive, Replied
<1>9. CASE ShutdownStop(k)
  BY <1>9, StopTries DEF ShutdownStop
<1>10. QED
  BY <1>2, <1>3, <1>4, <1>5, <1>6, <1>7, <1>8, <1>9 DEF ChildStep

LEMMA OthersTry ==
  ASSUME LiteclientTypeOK, Holding, [LiteclientNext]_liteclientVars,
         ~\E o \in Owners : StartProcess(o)
  PROVE  \A k \in Children : Tried(k) => Tried(k)'
<1>1. UNCHANGED child => \A k \in Children : Tried(k) => Tried(k)'
  BY DEF Tried, Alive
<1>2. ASSUME NEW o \in Owners,
             Select(o) \/ AcquireSlot(o) \/ NoSlot(o) \/ CreateFiles(o) \/ RefuseStart(o)
             \/ Collect(o) \/ ReadProofs(o) \/ Revalidate(o) \/ StoreProofs(o)
             \/ Answered(o)
      PROVE  UNCHANGED child
  BY <1>2 DEF Select, AcquireSlot, NoSlot, CreateFiles, RefuseStart, Collect, ReadProofs, Revalidate,
     StoreProofs, Answered
<1>3. ASSUME NEW o \in Owners, StopChild(o) \/ StopAgain(o)
      PROVE  \A k \in Children : Tried(k) => Tried(k)'
  <2>1. owner[o].child \in Children /\ StopProcess(owner[o].child)
    BY <1>3 DEF StopChild, StopAgain, AtOwner, Holding, LiteclientTypeOK, OwnerState
  <2>2. QED
    BY <2>1, StopTries
<1>4. \A k \in Children : child'[k] \in {child[k], Unstarted, [child[k] EXCEPT !.orphan = TRUE]}
        => (Tried(k) => Tried(k)')
  BY Constants DEF Tried, Alive, LiteclientTypeOK, ChildState
<1>5. ASSUME (\E o \in Owners : CleanUp(o)) \/ Exit \/ Killed
      PROVE  \A k \in Children :
               child'[k] \in {child[k], Unstarted, [child[k] EXCEPT !.orphan = TRUE]}
  BY <1>5 DEF CleanUp, Exit, Killed
<1>6. DeleteTrace \/ VerifyTrace \/ BeginShutdown \/ Start => UNCHANGED child
  BY DEF DeleteTrace, VerifyTrace, BeginShutdown, Start
<1>7. QED
  BY <1>1, <1>2, <1>3, <1>4, <1>5, <1>6, ChildTries
  DEF LiteclientNext, OwnerStep, liteclientVars

(* Every such child is known to the exit hook; once the process is gone     *)
(* there is none.                                                           *)
Fencing ==
  \A k \in Children : ~Tried(k) =>
    \/ phase = "up" /\ k \in registry
    \/ phase = "stopping" /\ k \in doomed

LEMMA StartFences ==
  ASSUME LiteclientTypeOK, Holding, Fencing, NEW o \in Owners, StartProcess(o)
  PROVE  Fencing'
<1>1. /\ phase = "up" /\ phase' = "up"
      /\ registry' = registry \cup {owner[o].child}
      /\ child' = [child EXCEPT ![owner[o].child].at = "started"]
  BY DEF StartProcess
<1>2. \A k \in Children : k # owner[o].child => child'[k] = child[k]
  BY <1>1 DEF LiteclientTypeOK
<1>3. QED
  BY <1>1, <1>2 DEF Fencing, Tried, Alive

LEMMA FencingStep ==
  ASSUME LiteclientTypeOK, Holding, Fencing, [LiteclientNext]_liteclientVars
  PROVE  Fencing'
<1>1. CASE \E o \in Owners : StartProcess(o)
  BY <1>1, StartFences
<1> SUFFICES ASSUME ~\E o \in Owners : StartProcess(o) PROVE Fencing'
  BY <1>1
<1>2. \A k \in Children : Tried(k) => Tried(k)'
  BY OthersTry
<1>3. UNCHANGED <<phase, registry, doomed>> => Fencing'
  BY <1>2 DEF Fencing
<1>4. ASSUME NEW o \in Owners, CleanUp(o) PROVE Fencing'
  <2>1. UNCHANGED <<phase, doomed>> /\ registry' = registry \ ({owner[o].child} \cap Quiet)
    BY <1>4 DEF CleanUp
  <2>2. \A k \in Quiet : Tried(k)
    BY DEF Quiet, Tried
  <2>3. QED
    BY <1>2, <2>1, <2>2 DEF Fencing
<1>5. ASSUME NEW k \in Children, ShutdownStop(k) PROVE Fencing'
  <2>1. UNCHANGED <<phase, registry>> /\ doomed' = doomed \ {k} /\ StopProcess(k)
    BY <1>5 DEF ShutdownStop
  <2>2. Tried(k)'
    BY <2>1, StopTries
  <2>3. QED
    BY <1>2, <2>1, <2>2 DEF Fencing
<1>6. CASE BeginShutdown
  BY <1>2, <1>6 DEF BeginShutdown, Fencing
<1>7. CASE Exit
  <2>1. \A k \in Children : Tried(k)'
    BY <1>7, Constants DEF Exit, Tried, Alive
  <2>2. QED
    BY <2>1 DEF Fencing
<1>8. CASE Killed
  <2>1. \A k \in Children : [child[k] EXCEPT !.orphan = TRUE].orphan
    BY DEF LiteclientTypeOK, ChildState
  <2>2. \A k \in Children : Tried(k)'
    BY <1>8, <2>1, Constants DEF Killed, Tried, Alive
  <2>3. QED
    BY <2>2 DEF Fencing
<1>9. CASE Start
  BY <1>2, <1>9 DEF Start, Fencing
<1>10. ASSUME NEW o \in Owners,
              Select(o) \/ AcquireSlot(o) \/ NoSlot(o) \/ CreateFiles(o) \/ RefuseStart(o)
              \/ StopChild(o) \/ Collect(o) \/ StopAgain(o) \/ ReadProofs(o) \/ Revalidate(o)
              \/ StoreProofs(o) \/ Answered(o)
       PROVE  UNCHANGED <<phase, registry, doomed>>
  BY <1>10 DEF Select, AcquireSlot, NoSlot, CreateFiles, RefuseStart, StopChild, Collect, StopAgain,
     ReadProofs, Revalidate, StoreProofs, Answered
<1>11. ASSUME NEW k \in Children, ChildStep(k) \/ ChildDies(k)
       PROVE  UNCHANGED <<phase, registry, doomed>>
  BY <1>11 DEF ChildStep, ChildDies, Guard, LockCache, RepairCache, SaveBlocks, ChildMoves, Prove,
     WriteReply
<1>12. DeleteTrace \/ VerifyTrace => UNCHANGED <<phase, registry, doomed>>
  BY DEF DeleteTrace, VerifyTrace
<1>13. QED
  BY <1>3, <1>4, <1>5, <1>6, <1>7, <1>8, <1>9, <1>10, <1>11, <1>12
  DEF LiteclientNext, OwnerStep, liteclientVars

-----------------------------------------------------------------------------
(* What a step does to one owner.                                           *)

HoldingPlaces == {"slot", "ready", "polling", "leaving", "stopped"}

(* The owner goes from one place to another that holds a slot too, or not   *)
(* either, keeps the child it has, and has not just stopped it.             *)
Steady(o) ==
  /\ owner'[o].at \in HoldingPlaces <=> owner[o].at \in HoldingPlaces
  /\ owner[o].child # None => owner'[o].child = owner[o].child
  /\ owner'[o].at = "stopped" => owner[o].at = "stopped"

LEMMA SteadySteps ==
  ASSUME LiteclientTypeOK, Holding, NEW o \in Owners,
         \/ Select(o) \/ NoSlot(o) \/ CreateFiles(o) \/ StartProcess(o) \/ RefuseStart(o)
         \/ StopChild(o) \/ Collect(o) \/ ReadProofs(o) \/ Revalidate(o) \/ StoreProofs(o)
             \/ Answered(o)
  PROVE  \A p \in Owners : Steady(p)
<1>1. ASSUME Steady(o), \A p \in Owners : p # o => owner'[p] = owner[p]
      PROVE  \A p \in Owners : Steady(p)
  BY <1>1 DEF Steady
<1> USE DEF HoldingPlaces, Steady
<1>2. CASE Select(o)
  <2> DEFINE row == [Idle EXCEPT !.at = "reading", !.selected = trace.digest]
  <2>1. row.at = "reading"
    BY DEF Idle
  <2>2. owner' = [owner EXCEPT ![o] = row]
    BY <1>2 DEF Select
  <2> HIDE DEF row
  <2>3. owner'[o] = row /\ \A p \in Owners : p # o => owner'[p] = owner[p]
    BY <2>2, BecomesEffect
  <2>4. owner[o].at = "idle" /\ owner[o].child = None
    BY <1>2 DEF Select, AtOwner, Holding, Childless
  <2>5. QED
    BY <1>1, <2>1, <2>3, <2>4
<1>3. CASE NoSlot(o)
  BY <1>1, <1>3, BecomesEffect, Constants DEF NoSlot, AtOwner, Holding, Childless
<1>4. CASE CreateFiles(o)
  <2>1. owner[o].at = "slot" /\ owner[o].child = None
    BY <1>4 DEF CreateFiles, AtOwner, Holding, Childless
  <2>2. CASE Fails(o, "failed")
    BY <1>1, <2>1, <2>2, FailsEffect
  <2>3. ASSUME NEW k \in Children,
               \/ owner' = [owner EXCEPT ![o].at = "ready", ![o].child = k]
               \/ owner' = [owner EXCEPT ![o].at = "leaving", ![o].child = k, ![o].result = "failed"]
        PROVE  \A p \in Owners : Steady(p)
    <3>1. /\ owner'[o].at \in {"ready", "leaving"}
          /\ \A p \in Owners : p # o => owner'[p] = owner[p]
      BY <2>3 DEF LiteclientTypeOK, OwnerState
    <3>2. QED
      BY <1>1, <2>1, <3>1
  <2>4. QED
    BY <1>4, <2>2, <2>3 DEF CreateFiles
<1>5. CASE StartProcess(o)
  BY <1>1, <1>5, MovesEffect DEF StartProcess, AtOwner
<1>6. CASE RefuseStart(o)
  BY <1>1, <1>6, FailsEffect DEF RefuseStart, AtOwner
<1>7. CASE StopChild(o)
  BY <1>1, <1>7, FailsEffect DEF StopChild, AtOwner
<1>8. CASE Collect(o)
  <2>1. PICK result : Fails(o, result)
    BY <1>8 DEF Collect
  <2>2. QED
    BY <1>1, <1>8, <2>1, FailsEffect DEF Collect, AtOwner
<1>9. CASE ReadProofs(o) \/ Revalidate(o) \/ StoreProofs(o) \/ Answered(o)
  BY <1>1, <1>9, DatabaseSteps DEF Childless
<1>10. QED
  BY <1>2, <1>3, <1>4, <1>5, <1>6, <1>7, <1>8, <1>9

(* The steps that are left: a slot is taken, a child is stopped once more,  *)
(* the clean-up gives the slot back, the process is gone.                   *)
LEMMA OtherStepsAreSteady ==
  ASSUME LiteclientTypeOK, Holding, [LiteclientNext]_liteclientVars,
         ~\E o \in Owners : AcquireSlot(o) \/ StopAgain(o) \/ CleanUp(o), ~Exit, ~Killed
  PROVE  \A o \in Owners : Steady(o)
<1>1. UNCHANGED owner => \A o \in Owners : Steady(o)
  BY DEF Steady
<1>2. ASSUME NEW k \in Children, ChildStep(k) \/ ChildDies(k) \/ ShutdownStop(k)
      PROVE  UNCHANGED owner
  BY <1>2 DEF ChildStep, ChildDies, ShutdownStop, Guard, LockCache, RepairCache, SaveBlocks,
     ChildMoves, Prove, WriteReply
<1>3. VerifyTrace \/ BeginShutdown \/ Start => UNCHANGED owner
  BY DEF VerifyTrace, BeginShutdown, Start
<1>4. CASE DeleteTrace
  BY <1>4, DeleteTraceEffect DEF Steady, HoldingPlaces
<1>5. QED
  BY <1>1, <1>2, <1>3, <1>4, SteadySteps DEF LiteclientNext, OwnerStep, liteclientVars

-----------------------------------------------------------------------------
(* Every child nobody has tried to stop has an owner that will.             *)

Attending ==
  /\ \A k \in Children : ~Tried(k) => Attended(k)
  /\ \A o \in Owners, k \in Children :
       owner[o].at = "stopped" /\ owner[o].child = k => Tried(k)

LEMMA AttendingStep ==
  ASSUME LiteclientTypeOK, Holding, Attending, [LiteclientNext]_liteclientVars
  PROVE  Attending'
<1>1. ASSUME \A o \in Owners : Steady(o), \A k \in Children : Tried(k) => Tried(k)'
      PROVE  Attending'
  <2>1. \A k \in Children : Attended(k) => Attended(k)'
    BY <1>1, Constants DEF Steady, Attended
  <2>2. ASSUME NEW o \in Owners, NEW k \in Children,
               owner'[o].at = "stopped", owner'[o].child = k
        PROVE  Tried(k)'
    <3>1. owner[o].at = "stopped" /\ owner[o].child # None
      BY <1>1, <2>2 DEF Steady, Holding
    <3>2. owner[o].child = k
      BY <1>1, <2>2, <3>1 DEF Steady
    <3>3. QED
      BY <1>1, <3>1, <3>2 DEF Attending
  <2>3. QED
    BY <1>1, <2>1, <2>2 DEF Attending
<1>2. ASSUME NEW o \in Owners, StartProcess(o) PROVE Attending'
  <2>1. /\ owner[o].at = "ready" /\ owner[o].child \in Children
        /\ child' = [child EXCEPT ![owner[o].child].at = "started"]
    BY <1>2 DEF StartProcess, AtOwner, Holding, LiteclientTypeOK, OwnerState
  <2>2. \A k \in Children : k # owner[o].child => child'[k] = child[k]
    BY <2>1 DEF LiteclientTypeOK
  <2>3. owner'[o].at = "polling" /\ owner'[o].child = owner[o].child
        /\ \A p \in Owners : p # o => owner'[p] = owner[p]
    BY <1>2, MovesEffect DEF StartProcess
  <2>4. \A k \in Children : ~Tried(k)' => Attended(k)'
    BY <2>2, <2>3 DEF Attending, Attended, Tried, Alive
  <2>5. ASSUME NEW p \in Owners, NEW k \in Children,
               owner'[p].at = "stopped", owner'[p].child = k
        PROVE  Tried(k)'
    <3>1. p # o /\ owner[p].at = "stopped" /\ owner[p].child = k
      BY <2>3, <2>5
    <3>2. k # owner[o].child
      BY <2>1, <3>1, Constants DEF Holding
    <3>3. QED
      BY <2>2, <3>1, <3>2 DEF Attending, Tried, Alive
  <2>6. QED
    BY <2>4, <2>5 DEF Attending
<1> SUFFICES ASSUME ~\E o \in Owners : StartProcess(o) PROVE Attending'
  BY <1>2
<1>3. \A k \in Children : Tried(k) => Tried(k)'
  BY OthersTry
<1>4. ASSUME NEW o \in Owners, AcquireSlot(o) PROVE Attending'
  <2>1. owner'[o].at = "slot" /\ owner'[o].child = owner[o].child
        /\ \A p \in Owners : p # o => owner'[p] = owner[p]
    BY <1>4, MovesEffect DEF AcquireSlot
  <2>2. UNCHANGED child
    BY <1>4 DEF AcquireSlot
  <2>3. \A k \in Children : Attended(k) => Attended(k)'
    BY <2>1 DEF Attended
  <2>4. QED
    BY <2>1, <2>2, <2>3 DEF Attending, Tried, Alive
<1>5. ASSUME NEW o \in Owners, StopAgain(o) PROVE Attending'
  <2>1. owner'[o].child = owner[o].child /\ \A p \in Owners : p # o => owner'[p] = owner[p]
    BY <1>5, MovesEffect DEF StopAgain
  <2>2. owner[o].child \in Children /\ StopProcess(owner[o].child)
    BY <1>5 DEF StopAgain, LiteclientTypeOK, OwnerState
  <2>3. \A k \in Children : owner[o].child = k => Tried(k)'
    BY <2>2, StopTries
  <2>4. \A k \in Children : Attended(k) => Attended(k)'
    BY <2>1 DEF Attended
  <2>5. QED
    BY <1>3, <2>1, <2>3, <2>4 DEF Attending
<1>6. ASSUME NEW o \in Owners, CleanUp(o) PROVE Attending'
  <2>1. owner'[o] = Returned(o) /\ \A p \in Owners : p # o => owner'[p] = owner[p]
    BY <1>6, BecomesEffect DEF CleanUp
  <2>2. owner'[o].at # "stopped"
    BY <2>1, ReturnedEffect
  <2>3. \A k \in Children : owner[o].child = k => Tried(k)
    BY <1>6, Constants DEF CleanUp, Left, Attending, Quiet, Tried
  <2>4. \A k \in Children : Attended(k) /\ owner[o].child # k => Attended(k)'
    BY <2>1 DEF Attended
  <2>5. \A k \in Children : ~Tried(k)' => Attended(k)'
    BY <1>3, <2>3, <2>4 DEF Attending
  <2>6. \A p \in Owners, k \in Children :
          owner'[p].at = "stopped" /\ owner'[p].child = k => Tried(k)'
    BY <1>3, <2>1, <2>2 DEF Attending
  <2>7. QED
    BY <2>5, <2>6 DEF Attending
<1>7. CASE Exit \/ Killed
  <2>1. \A o \in Owners : owner'[o].at # "stopped"
    BY <1>7, Constants DEF Exit, Killed, Gone
  <2>2. \A k \in Children : [child[k] EXCEPT !.orphan = TRUE].orphan
    BY DEF LiteclientTypeOK, ChildState
  <2>3. \A k \in Children : Tried(k)'
    BY <1>7, <2>2, Constants DEF Exit, Killed, Tried, Alive
  <2>4. QED
    BY <2>1, <2>3 DEF Attending
<1>8. QED
  BY <1>1, <1>3, <1>4, <1>5, <1>6, <1>7, OtherStepsAreSteady

-----------------------------------------------------------------------------
(* Request and reply files.                                                 *)

Filing == \A k \in files : Running /\ ~restarted => Attended(k)

LEMMA FilingStep ==
  ASSUME LiteclientTypeOK, Holding, Filing, [LiteclientNext]_liteclientVars
  PROVE  Filing'
<1>1. ASSUME \A o \in Owners : Steady(o), files' \subseteq files,
             Running' /\ ~restarted' => Running /\ ~restarted
      PROVE  Filing'
  <2>1. \A k \in Children : Attended(k) => Attended(k)'
    BY <1>1, Constants DEF Steady, Attended
  <2>2. QED
    BY <1>1, <2>1 DEF Filing, LiteclientTypeOK
<1>2. ASSUME NEW o \in Owners, AcquireSlot(o) \/ StopAgain(o) PROVE Filing'
  <2>1. owner'[o].child = owner[o].child /\ \A p \in Owners : p # o => owner'[p] = owner[p]
    BY <1>2, MovesEffect DEF AcquireSlot, StopAgain
  <2>2. \A k \in Children : Attended(k) => Attended(k)'
    BY <2>1 DEF Attended
  <2>3. UNCHANGED <<files, phase, restarted>>
    BY <1>2 DEF AcquireSlot, StopAgain
  <2>4. QED
    BY <2>2, <2>3 DEF Filing, Running, LiteclientTypeOK
<1>3. ASSUME NEW o \in Owners, CleanUp(o) PROVE Filing'
  <2>1. \A p \in Owners : p # o => owner'[p] = owner[p]
    BY <1>3, BecomesEffect DEF CleanUp
  <2>2. \A k \in Children : Attended(k) /\ owner[o].child # k => Attended(k)'
    BY <2>1 DEF Attended
  <2>3. files' = files \ {owner[o].child} /\ UNCHANGED <<phase, restarted>>
    BY <1>3 DEF CleanUp
  <2>4. QED
    BY <2>2, <2>3 DEF Filing, Running, LiteclientTypeOK
<1>4. ASSUME NEW o \in Owners, CreateFiles(o) PROVE Filing'
  <2>1. \A p \in Owners : Steady(p)
    BY <1>4, SteadySteps
  <2>2. \A k \in Children : Attended(k) => Attended(k)'
    BY <2>1, Constants DEF Steady, Attended
  <2>3. UNCHANGED <<phase, restarted>>
    BY <1>4 DEF CreateFiles
  <2>4. CASE UNCHANGED files
    BY <2>2, <2>3, <2>4 DEF Filing, Running, LiteclientTypeOK
  <2>5. ASSUME NEW k \in Children, files' = files \cup {k},
               \/ owner' = [owner EXCEPT ![o].at = "ready", ![o].child = k]
               \/ owner' = [owner EXCEPT ![o].at = "leaving", ![o].child = k, ![o].result = "failed"]
        PROVE  Filing'
    <3>1. owner'[o].child = k
      BY <2>5 DEF LiteclientTypeOK, OwnerState
    <3>2. Attended(k)'
      BY <3>1 DEF Attended
    <3>3. QED
      BY <2>2, <2>3, <2>5, <3>2 DEF Filing, Running, LiteclientTypeOK
  <2>6. QED
    BY <1>4, <2>4, <2>5 DEF CreateFiles
<1>5. ASSUME NEW o \in Owners,
             \/ Select(o) \/ NoSlot(o) \/ StartProcess(o) \/ RefuseStart(o)
             \/ StopChild(o) \/ Collect(o) \/ ReadProofs(o) \/ Revalidate(o) \/ StoreProofs(o)
             \/ Answered(o)
      PROVE  UNCHANGED <<files, phase, restarted>>
  BY <1>5 DEF Select, NoSlot, StartProcess, RefuseStart, StopChild, Collect, ReadProofs, Revalidate,
     StoreProofs, Answered
<1>6. ASSUME NEW k \in Children, ChildStep(k) \/ ChildDies(k) \/ ShutdownStop(k)
      PROVE  UNCHANGED <<owner, phase, restarted>> /\ files' \subseteq files
  BY <1>6 DEF ChildStep, ChildDies, ShutdownStop, Guard, LockCache, RepairCache, SaveBlocks,
     ChildMoves, Prove, WriteReply
<1>7. DeleteTrace \/ VerifyTrace => UNCHANGED <<files, phase, restarted>>
  BY DEF DeleteTrace, VerifyTrace
<1>8. BeginShutdown => UNCHANGED <<files, restarted>> /\ Running
  BY DEF BeginShutdown, Running
<1>9. Exit \/ Killed => ~Running'
  BY DEF Exit, Killed, Gone, Running
<1>10. Start => restarted'
  BY DEF Start
<1>11. UNCHANGED liteclientVars => Filing'
  BY DEF liteclientVars, Filing, Running, Attended
<1>12. CASE Exit \/ Killed \/ Start
  BY <1>9, <1>10, <1>12 DEF Filing
<1>13. QED
  BY <1>1, <1>2, <1>3, <1>4, <1>5, <1>6, <1>7, <1>8, <1>11, <1>12, OtherStepsAreSteady
  DEF LiteclientNext, OwnerStep, Running

-----------------------------------------------------------------------------
(* Every slot is free or held by one owner.                                 *)

Holders == {o \in Owners : owner[o].at \in HoldingPlaces}

Accounting ==
  IF Running THEN IsFiniteSet(Holders) /\ Cardinality(Holders) + slots = ChildSlots
  ELSE Holders = {}

LEMMA AccountingStep ==
  ASSUME LiteclientTypeOK, Holding, Accounting, [LiteclientNext]_liteclientVars
  PROVE  Accounting'
<1>1. ASSUME NEW o \in Owners, AcquireSlot(o) PROVE Accounting'
  <2>1. /\ Running /\ owner[o].at = "waiting" /\ owner'[o].at = "slot"
        /\ \A p \in Owners : p # o => owner'[p] = owner[p]
        /\ slots > 0 /\ slots' = slots - 1 /\ UNCHANGED phase
    BY <1>1, MovesEffect DEF AcquireSlot, AtOwner
  <2>2. Holders' = Holders \cup {o} /\ o \notin Holders
    BY <2>1 DEF Holders, HoldingPlaces
  <2>3. /\ IsFiniteSet(Holders') /\ Cardinality(Holders') = Cardinality(Holders) + 1
        /\ Cardinality(Holders) \in Nat
    BY <2>1, <2>2, FS_AddElement, FS_CardinalityType DEF Accounting
  <2>4. QED
    BY <2>1, <2>3 DEF Accounting, Running, LiteclientTypeOK
<1>2. ASSUME NEW o \in Owners, CleanUp(o) PROVE Accounting'
  <2>1. /\ Running /\ owner[o].at \in {"leaving", "stopped"} /\ owner'[o] = Returned(o)
        /\ \A p \in Owners : p # o => owner'[p] = owner[p]
        /\ slots' = slots + 1 /\ UNCHANGED phase
    BY <1>2, BecomesEffect DEF CleanUp, Left
  <2>2. owner'[o].at \notin HoldingPlaces
    BY <2>1, ReturnedEffect DEF HoldingPlaces
  <2>3. Holders' = Holders \ {o} /\ o \in Holders
    BY <2>1, <2>2 DEF Holders, HoldingPlaces
  <2>4. /\ IsFiniteSet(Holders') /\ Cardinality(Holders') = Cardinality(Holders) - 1
        /\ Cardinality(Holders) \in Nat
    BY <2>1, <2>3, FS_RemoveElement, FS_CardinalityType DEF Accounting
  <2>5. QED
    BY <2>1, <2>4 DEF Accounting, Running, LiteclientTypeOK
<1>3. CASE Exit \/ Killed
  <2>1. ~Running' /\ \A o \in Owners : owner'[o].at = "idle"
    BY <1>3, Constants DEF Exit, Killed, Gone, Running
  <2>2. QED
    BY <2>1 DEF Accounting, Holders, HoldingPlaces
<1>4. CASE Start
  <2>1. ~Running /\ Running' /\ UNCHANGED owner /\ slots' = ChildSlots
    BY <1>4 DEF Start, Running
  <2>2. Holders' = {}
    BY <2>1 DEF Accounting, Holders
  <2>3. QED
    BY <2>1, <2>2, FS_EmptySet, LiteclientAssumption DEF Accounting
<1>5. ASSUME UNCHANGED slots, Running' = Running, Holders' = Holders PROVE Accounting'
  BY <1>5 DEF Accounting
<1>6. ASSUME NEW o \in Owners, StopAgain(o) PROVE Accounting'
  <2>1. /\ owner[o].at = "leaving" /\ owner'[o].at = "stopped"
        /\ \A p \in Owners : p # o => owner'[p] = owner[p]
        /\ UNCHANGED <<slots, phase>>
    BY <1>6, MovesEffect DEF StopAgain, AtOwner
  <2>2. Holders' = Holders
    BY <2>1 DEF Holders, HoldingPlaces
  <2>3. QED
    BY <1>5, <2>1, <2>2 DEF Running
<1>7. ASSUME NEW o \in Owners,
             \/ Select(o) \/ NoSlot(o) \/ CreateFiles(o) \/ StartProcess(o) \/ RefuseStart(o)
             \/ StopChild(o) \/ Collect(o) \/ ReadProofs(o) \/ Revalidate(o) \/ StoreProofs(o)
             \/ Answered(o)
      PROVE  UNCHANGED <<slots, phase>>
  BY <1>7 DEF Select, NoSlot, CreateFiles, StartProcess, RefuseStart, StopChild, Collect, ReadProofs,
     Revalidate, StoreProofs, Answered
<1>8. ASSUME NEW k \in Children, ChildStep(k) \/ ChildDies(k) \/ ShutdownStop(k)
      PROVE  UNCHANGED <<slots, phase>>
  BY <1>8 DEF ChildStep, ChildDies, ShutdownStop, Guard, LockCache, RepairCache, SaveBlocks,
     ChildMoves, Prove, WriteReply
<1>9. DeleteTrace \/ VerifyTrace => UNCHANGED <<slots, phase>>
  BY DEF DeleteTrace, VerifyTrace
<1>10. BeginShutdown => UNCHANGED slots /\ Running' = Running
  BY DEF BeginShutdown, Running
<1>11. (\A o \in Owners : Steady(o)) => Holders' = Holders
  BY DEF Steady, Holders
<1>12. QED
  BY <1>1, <1>2, <1>3, <1>4, <1>5, <1>6, <1>7, <1>8, <1>9, <1>10, <1>11, OtherStepsAreSteady
  DEF LiteclientNext, OwnerStep, liteclientVars, Running

-----------------------------------------------------------------------------
(* The invariant.                                                           *)

LiteclientInv ==
  /\ LiteclientTypeOK /\ Holding
  /\ Storing /\ Locking /\ Fencing /\ Attending /\ Filing /\ Accounting

LEMMA LiteclientInvariant == LiteclientSpec => []LiteclientInv
<1>1. LiteclientInit => LiteclientInv
  <2> SUFFICES ASSUME LiteclientInit PROVE LiteclientInv
    OBVIOUS
  <2>1. LiteclientTypeOK
    BY InitTypes
  <2>2. \A o \in Owners : owner[o].at = "idle" /\ owner[o].child = None
    BY Constants DEF LiteclientInit
  <2>3. \A k \in Children : child[k].at = "none"
    BY Constants DEF LiteclientInit
  <2>4. Holding
    BY <2>2 DEF Holding
  <2>5. Storing
    BY <2>2 DEF LiteclientInit, Storing, StoredProofsCoverTheTrace, AnswersCoverTheirTrace, Reloaded, Verified
  <2>6. Locking /\ Fencing
    BY <2>3 DEF Locking, Critical, Fencing, Tried, Alive
  <2>7. Attending
    BY <2>2, <2>3 DEF Attending, Tried, Alive
  <2>8. Filing
    BY DEF LiteclientInit, Filing
  <2>9. Holders = {} /\ Running /\ slots = ChildSlots
    BY <2>2 DEF LiteclientInit, Holders, HoldingPlaces, Running
  <2>10. Accounting
    BY <2>9, FS_EmptySet, LiteclientAssumption DEF Accounting
  <2>11. QED
    BY <2>1, <2>4, <2>5, <2>6, <2>7, <2>8, <2>10 DEF LiteclientInv
<1>2. LiteclientInv /\ [LiteclientNext]_liteclientVars => LiteclientInv'
  BY TypesAreKept, HoldingStep, StoringStep, LockingStep, FencingStep, AttendingStep, FilingStep,
     AccountingStep
  DEF LiteclientInv
<1>3. QED
  BY <1>1, <1>2, PTL DEF LiteclientSpec

-----------------------------------------------------------------------------
(* Every variable of the capture stays of its kind.                         *)
THEOREM LiteclientTypesAreKept == LiteclientSpec => []LiteclientTypeOK
<1>1. LiteclientInv => LiteclientTypeOK
  BY DEF LiteclientInv
<1>2. QED
  BY <1>1, LiteclientInvariant, PTL

(* The children that nobody has tried to stop have an owner each, the       *)
(* owners a slot each.                                                      *)
LEMMA LiveChildrenHaveSlots == LiteclientInv => LiveChildrenStayBounded
<1> SUFFICES ASSUME LiteclientInv PROVE LiveChildrenStayBounded
  OBVIOUS
<1> DEFINE Live == {k \in Children : Alive(k) /\ ~child[k].orphan /\ ~child[k].asked}
<1>1. \A k \in Live : ~Tried(k) /\ Attended(k)
  BY DEF LiteclientInv, Attending, Tried
<1>2. CASE ~Running
  <2>1. Live = {}
    BY <1>1, <1>2 DEF LiteclientInv, Fencing, Running
  <2>2. QED
    BY <2>1, FS_EmptySet, LiteclientAssumption DEF LiveChildrenStayBounded
<1>3. CASE Running
  <2> DEFINE Looking == {o \in Holders : owner[o].child \in Live}
             whose == [o \in Looking |-> owner[o].child]
  <2>1. \A k \in Live : \E o \in Looking : owner[o].child = k
    <3>1. SUFFICES ASSUME NEW k \in Live PROVE \E o \in Looking : owner[o].child = k
      OBVIOUS
    <3>2. PICK o \in Owners : owner[o].child = k
      BY <1>1 DEF Attended
    <3>3. owner[o].at \in HoldingPlaces
      BY <3>2, Constants
      DEF LiteclientInv, Holding, LiteclientTypeOK, OwnerState, OwnerPlaces, HoldingPlaces, Childless
    <3>4. QED
      BY <3>2, <3>3 DEF Holders
  <2>2. whose \in Surjection(Looking, Live)
    BY <2>1 DEF Surjection
  <2>3. IsFiniteSet(Holders) /\ Cardinality(Holders) + slots = ChildSlots
    BY <1>3 DEF LiteclientInv, Accounting
  <2>4. /\ IsFiniteSet(Looking) /\ Cardinality(Looking) \in Nat /\ Cardinality(Holders) \in Nat
        /\ Cardinality(Looking) <= Cardinality(Holders)
    BY <2>3, FS_Subset, FS_CardinalityType
  <2>5. Cardinality(Live) <= Cardinality(Looking) /\ Cardinality(Live) \in Nat
    BY <2>2, <2>4, FS_Surjection, FS_CardinalityType
  <2>6. slots \in Nat
    BY DEF LiteclientInv, LiteclientTypeOK
  <2> HIDE DEF Looking, Live, whose
  <2>7. Cardinality(Live) <= ChildSlots
    BY <2>3, <2>4, <2>5, <2>6, LiteclientAssumption
  <2>8. QED
    BY <2>7 DEF LiveChildrenStayBounded, Live
<1>4. QED
  BY <1>2, <1>3

(* acquire_liteclient_child_slot: untouched children never outnumber the    *)
(* slots, for every number of owners, children and slots, and whatever      *)
(* refusals, kills, hanging children and restarts come in between.          *)
THEOREM ChildrenStayBounded == LiteclientSpec => []LiveChildrenStayBounded
BY LiveChildrenHaveSlots, LiteclientInvariant, PTL

(* start_registered_process and _shutdown_registered_processes: no child is *)
(* started behind the exit hook, and no owner leaves its files behind in    *)
(* the first life of the application.                                       *)
THEOREM ShutdownFindsEveryChild == LiteclientSpec => []ShutdownLeavesNothingBehind
<1>1. LiteclientInv => ShutdownLeavesNothingBehind
  BY DEF LiteclientInv, Fencing, Filing, Tried, ShutdownLeavesNothingBehind, LiteclientTypeOK
<1>2. QED
  BY <1>1, LiteclientInvariant, PTL

(* liteclient_cache_lock: a child that follows the chain works alone and    *)
(* started from one whole file, whoever was killed in the middle of a write.*)
THEOREM ReadersFindWholeFiles == LiteclientSpec => []ReaderFindsOneWholeFile
<1>1. LiteclientInv => ReaderFindsOneWholeFile
  BY DEF LiteclientInv, Locking, Critical, ReaderFindsOneWholeFile
<1>2. QED
  BY <1>1, LiteclientInvariant, PTL

(* create_wallet_transaction_inclusion_proofs: what is stored was captured  *)
(* for the verification it is stored with, unless the trace was deleted     *)
(* after the last of the reads that take no lock and before the flush.      *)
THEOREM ProofsCoverTheirTrace == LiteclientSpec => []StoredProofsCoverTheTrace
<1>1. LiteclientInv => StoredProofsCoverTheTrace
  BY DEF LiteclientInv, Storing
<1>2. QED
  BY <1>1, LiteclientInvariant, PTL

(* _catalog: even then nobody is shown proofs of other transactions, and    *)
(* no deletion or capture between the two reads of an answer mixes two      *)
(* verifications.                                                           *)
THEOREM AnswersShowTheirTrace == LiteclientSpec => []AnswersCoverTheirTrace
<1>1. LiteclientInv => AnswersCoverTheirTrace
  BY DEF LiteclientInv, Storing
<1>2. QED
  BY <1>1, LiteclientInvariant, PTL

-----------------------------------------------------------------------------
(* What a proving client believes.                                          *)

Place == Blocks \cup {NoBlock}
StoredBlock == [seqno : Int, onChain : BOOLEAN]
StoredProof == [block : StoredBlock, anchor : StoredBlock, trust : TrustLevels, policy : Policies]

(* Every variable is of its kind; proofs of earlier releases name blocks    *)
(* that this chain may not have.                                            *)
ProofTypeOK ==
  /\ client \in {"off"} \cup TrustLevels
  /\ trusted \in Place /\ lastKey \in Place /\ selected \in Place
  /\ walk \in [target : Place, at : Place, links : Nat, best : Place]
  /\ answer \in [from : Place, target : Place, head : Place, complete : BOOLEAN]
  /\ stored \subseteq StoredProof

OnChainKey(b) == b.onChain /\ (b = NoBlock \/ b.seqno \in KeyBlocks)

(* Only a proving client walks or has an answer, its walk and its answer    *)
(* are about the block it selected, and it believes nothing off the chain.  *)
Beliefs ==
  /\ client = "off" => selected = NoBlock
  /\ client # "proved" => walk = NoWalk /\ answer = NoAnswer
  /\ walk # NoWalk => walk.target = selected
  /\ answer # NoAnswer => answer.target = selected
  /\ client = "proved" =>
       /\ trusted.onChain /\ walk.at.onChain /\ answer.head.onChain
       /\ OnChainKey(walk.best) /\ OnChainKey(lastKey)

(* What an accepted response says is so.                                    *)
AnswersAreTrue ==
  answer # NoAnswer /\ answer.target # NoBlock =>
    /\ answer.target # answer.from => answer.head # answer.from
    /\ answer.complete => answer.head = answer.target

ProofInv ==
  ProofTypeOK /\ Beliefs /\ AnswersAreTrue /\ CanonicalProofsAreOnTheChain

-----------------------------------------------------------------------------
(* The checks on one link.                                                  *)

LEMMA NoBlockFacts ==
  /\ NoBlock.onChain /\ NoBlock.seqno = -1
  /\ Checkpoint \in Blocks /\ Checkpoint.onChain /\ Checkpoint.seqno = 0
  /\ NoBlock \notin Blocks
  /\ OnChainKey(NoBlock) /\ OnChainKey(Checkpoint)
  /\ Place \subseteq StoredBlock
<1> USE DEF NoBlock, Checkpoint, Block
<1>1. NoBlock.onChain /\ NoBlock.seqno = -1 /\ Checkpoint.onChain /\ Checkpoint.seqno = 0
  OBVIOUS
<1>2. Checkpoint \in Blocks
  BY ChainAssumption DEF Blocks
<1>3. NoBlock \notin Blocks
  BY ChainAssumption DEF Blocks
<1>4. OnChainKey(NoBlock) /\ OnChainKey(Checkpoint)
  BY <1>1, ChainAssumption DEF OnChainKey
<1>5. Place \subseteq StoredBlock
  <2>1. NoBlock \in StoredBlock
    BY DEF StoredBlock
  <2>2. 0..Height \subseteq Int
    BY ChainAssumption
  <2>3. ASSUME NEW b \in Blocks PROVE b \in StoredBlock
    BY <2>2 DEF Blocks, StoredBlock
  <2>4. QED
    BY <2>1, <2>3 DEF Place
<1>6. QED
  BY <1>1, <1>2, <1>3, <1>4, <1>5

(* Two thirds of the weight never sign a block off the chain after a block  *)
(* of the chain: _verify_forward_link admits no other destination.          *)
LEMMA ForwardStaysOnTheChain ==
  ASSUME NEW b \in Blocks, NEW c \in Blocks, NEW k \in BOOLEAN,
         b.onChain, ForwardLink(b, c, k)
  PROVE  c.onChain /\ OnChainKey(b)
<1>1. OnChainKey(b)
  BY DEF ForwardLink, IsKeyBlock, OnChainKey
<1>2. c.onChain
  <2>1. SUFFICES ASSUME ~c.onChain PROVE FALSE
    OBVIOUS
  <2>2. PICK signers \in SignaturesOf(b, c) : SignedByTwoThirds(signers)
    BY DEF ForwardLink
  <2>3. PICK n \in 1..Cardinality(Nodes) : signers \in [1..n -> Faulty]
    BY <2>1, <2>2 DEF SignaturesOf
  <2>4. {signers[i] : i \in 1..Len(signers)} \in SUBSET Faulty
    BY <2>3
  <2>5. TwoThirds({signers[i] : i \in 1..Len(signers)})
    BY <2>2 DEF SignedByTwoThirds
  <2>6. \A nodes \in SUBSET Faulty : ~TwoThirds(nodes)
    BY ChainAssumption
  <2> HIDE DEF TwoThirds
  <2>7. QED
    BY <2>4, <2>5, <2>6
<1>3. QED
  BY <1>1, <1>2

(* Every link a walk follows leads from a block of the chain to another,    *)
(* and shows it key blocks of the chain only.                               *)
LEMMA LinkStaysOnTheChain ==
  ASSUME NEW b \in Blocks, NEW c \in Blocks, NEW k \in BOOLEAN, NEW forward \in BOOLEAN,
         b.onChain,
         IF forward THEN ForwardLink(b, c, k) ELSE BackwardLink(b, c, k)
  PROVE  c.onChain /\ OnChainKey(When(forward, b)) /\ OnChainKey(When(k, c))
<1>1. c.onChain /\ (forward => OnChainKey(b))
  BY ForwardStaysOnTheChain DEF BackwardLink
<1>2. k => c.seqno \in KeyBlocks
  BY <1>1 DEF ForwardLink, BackwardLink, IsKeyBlock
<1>3. QED
  BY <1>1, <1>2, NoBlockFacts DEF When, OnChainKey

LEMMA LaterIsOneOf ==
  ASSUME NEW b, NEW c
  PROVE  Later(b, c) \in {b, c}
BY DEF Later

LEMMA WhenIsOneOf ==
  ASSUME NEW k, NEW b
  PROVE  When(k, b) \in {b, NoBlock}
BY DEF When

-----------------------------------------------------------------------------
(* The invariant, step by step.                                             *)

LEMMA InitBelieves == ASSUME ProofInit PROVE ProofInv
<1>1. NoWalk \in [target : Place, at : Place, links : Nat, best : Place]
  BY DEF NoWalk, Place
<1>2. NoAnswer \in [from : Place, target : Place, head : Place, complete : BOOLEAN]
  BY DEF NoAnswer, Place
<1>3. \A p \in LegacyProofs : p.policy # "current"
  BY DEF LegacyProofs, Proof
<1>4. ASSUME NEW p \in LegacyProofs PROVE p \in StoredProof
  <2>1. Block(1, FALSE) \in StoredBlock
    BY DEF StoredBlock, Block
  <2>2. QED
    BY <2>1 DEF LegacyProofs, StoredProof
<1>5. QED
  BY <1>1, <1>2, <1>3, <1>4
  DEF ProofInit, ProofInv, ProofTypeOK, Beliefs, AnswersAreTrue, CanonicalProofsAreOnTheChain,
      Canonical, NoAnswer, NoWalk, Place

(* Steps that leave what is stored alone keep the last part.                *)
LEMMA SameStore ==
  ASSUME CanonicalProofsAreOnTheChain, UNCHANGED stored
  PROVE  CanonicalProofsAreOnTheChain'
BY DEF CanonicalProofsAreOnTheChain, Canonical

LEMMA PrepareBelieves == ASSUME ProofInv, Prepare PROVE ProofInv'
<1> USE DEF ProofInv, Prepare
<1>1. ProofTypeOK'
  BY NoBlockFacts, WhenIsOneOf DEF ProofTypeOK, Place, TrustLevels
<1>2. Beliefs'
  <2>1. walk = NoWalk /\ answer = NoAnswer
    BY DEF Beliefs
  <2>2. NoWalk.at = NoBlock /\ NoWalk.best = NoBlock /\ NoAnswer.head = NoBlock
    BY DEF NoWalk, NoAnswer
  <2>3. client' = "proved" => trusted' = Checkpoint /\ lastKey' = Checkpoint
    BY DEF When
  <2>4. QED
    BY <2>1, <2>2, <2>3, NoBlockFacts DEF Beliefs, OnChainKey
<1>3. AnswersAreTrue'
  BY DEF AnswersAreTrue
<1>4. QED
  BY <1>1, <1>2, <1>3, SameStore

LEMMA AskBelieves == ASSUME ProofInv, Ask PROVE ProofInv'
<1> USE DEF ProofInv, Ask
<1>1. walk' = [target |-> selected, at |-> trusted, links |-> 0, best |-> NoBlock]
  BY DEF NoWalk
<1>2. ProofTypeOK'
  BY <1>1 DEF ProofTypeOK, Place
<1>3. Beliefs'
  BY <1>1, NoBlockFacts DEF Beliefs, OnChainKey
<1>4. AnswersAreTrue'
  BY DEF AnswersAreTrue
<1>5. QED
  BY <1>2, <1>3, <1>4, SameStore

LEMMA FollowLinkBelieves == ASSUME ProofInv, FollowLink PROVE ProofInv'
<1>1. PICK destination \in Blocks, toKeyBlock \in BOOLEAN, forward \in BOOLEAN :
        /\ IF forward THEN ForwardLink(walk.at, destination, toKeyBlock)
           ELSE BackwardLink(walk.at, destination, toKeyBlock)
        /\ LET seen == Later(When(forward, walk.at), When(toKeyBlock, destination)) IN
             /\ lastKey' = Later(lastKey, seen)
             /\ walk' = [walk EXCEPT !.at = destination, !.links = @ + 1,
                                     !.best = Later(@, seen)]
  BY DEF FollowLink
<1> DEFINE seen == Later(When(forward, walk.at), When(toKeyBlock, destination))
<1>2. /\ walk.at # NoBlock /\ walk.links < MaxLinks
      /\ UNCHANGED <<client, trusted, answer, selected, stored>>
  BY DEF FollowLink
<1>3. walk.at \in Blocks /\ walk.links \in Nat /\ walk.best \in Place /\ lastKey \in Place
  BY <1>2 DEF ProofInv, ProofTypeOK, Place
<1>4. seen \in Place
  BY <1>3, LaterIsOneOf, WhenIsOneOf DEF Place
<1>5. walk' = [target |-> walk.target, at |-> destination, links |-> walk.links + 1,
               best |-> Later(walk.best, seen)]
  BY <1>1 DEF ProofInv, ProofTypeOK
<1>6. lastKey' = Later(lastKey, seen)
  BY <1>1
<1>7. Later(walk.best, seen) \in Place /\ Later(lastKey, seen) \in Place
  BY <1>3, <1>4, LaterIsOneOf
<1>8. walk # NoWalk
  BY <1>2 DEF NoWalk
<1>9. client = "proved" /\ walk.target = selected
  BY <1>8 DEF ProofInv, Beliefs
<1>10. /\ walk.at.onChain /\ trusted.onChain /\ answer.head.onChain
       /\ OnChainKey(walk.best) /\ OnChainKey(lastKey)
  BY <1>9 DEF ProofInv, Beliefs
<1>11. /\ destination.onChain
       /\ OnChainKey(When(forward, walk.at)) /\ OnChainKey(When(toKeyBlock, destination))
  BY <1>1, <1>3, <1>10, LinkStaysOnTheChain
<1>12. OnChainKey(seen)
  BY <1>11, LaterIsOneOf
<1>13. OnChainKey(Later(walk.best, seen)) /\ OnChainKey(Later(lastKey, seen))
  BY <1>10, <1>12, LaterIsOneOf
<1> HIDE DEF seen
<1>14. ProofTypeOK'
  BY <1>2, <1>3, <1>5, <1>6, <1>7 DEF ProofInv, ProofTypeOK, Place
<1>15. OnChainKey(walk'.best) /\ OnChainKey(lastKey') /\ walk'.at.onChain /\ walk'.target = selected
  BY <1>5, <1>6, <1>9, <1>11, <1>13
<1>16. Beliefs'
  BY <1>2, <1>9, <1>10, <1>15 DEF ProofInv, Beliefs, OnChainKey
<1>17. AnswersAreTrue'
  BY <1>2 DEF ProofInv, AnswersAreTrue
<1>18. QED
  BY <1>2, <1>14, <1>16, <1>17, SameStore DEF ProofInv

LEMMA AcceptBelieves == ASSUME ProofInv, AcceptResponse PROVE ProofInv'
<1>1. PICK complete \in BOOLEAN :
        /\ Coherent(complete)
        /\ answer' = [from |-> trusted, target |-> walk.target, head |-> walk.at,
                      complete |-> complete /\ (walk.target # NoBlock \/ walk.links > 0)]
  BY DEF AcceptResponse
<1>2. /\ walk.at # NoBlock /\ walk' = NoWalk
      /\ UNCHANGED <<client, trusted, lastKey, selected, stored>>
  BY DEF AcceptResponse
<1>3. walk # NoWalk
  BY <1>2 DEF NoWalk
<1>4. /\ client = "proved" /\ walk.target = selected /\ walk.at.onChain /\ trusted.onChain
      /\ OnChainKey(lastKey)
  BY <1>3 DEF ProofInv, Beliefs
<1>5. NoWalk \in [target : Place, at : Place, links : Nat, best : Place]
  BY DEF NoWalk, Place
<1>6. ProofTypeOK'
  BY <1>1, <1>2, <1>5 DEF ProofInv, ProofTypeOK
<1>7. NoWalk.at = NoBlock /\ NoWalk.best = NoBlock
  BY DEF NoWalk
<1>8. answer'.head.onChain /\ answer'.target = selected
  BY <1>1, <1>4
<1>9. Beliefs'
  BY <1>2, <1>4, <1>7, <1>8, NoBlockFacts DEF Beliefs, OnChainKey
<1>10. AnswersAreTrue'
  BY <1>1 DEF AnswersAreTrue, Coherent
<1>11. QED
  BY <1>2, <1>6, <1>9, <1>10, SameStore DEF ProofInv

LEMMA RejectBelieves == ASSUME ProofInv, RejectResponse PROVE ProofInv'
<1> USE DEF ProofInv, RejectResponse
<1>1. NoWalk \in [target : Place, at : Place, links : Nat, best : Place]
  BY DEF NoWalk, Place
<1>2. NoWalk.at = NoBlock /\ NoWalk.best = NoBlock
  BY DEF NoWalk
<1>3. ProofTypeOK'
  BY <1>1 DEF ProofTypeOK
<1>4. Beliefs'
  BY <1>2, NoBlockFacts DEF Beliefs, OnChainKey
<1>5. AnswersAreTrue'
  BY DEF AnswersAreTrue
<1>6. QED
  BY <1>3, <1>4, <1>5, SameStore

LEMMA StartUpBelieves == ASSUME ProofInv, StartUp PROVE ProofInv'
<1> USE DEF ProofInv, StartUp
<1>1. NoAnswer \in [from : Place, target : Place, head : Place, complete : BOOLEAN]
  BY DEF NoAnswer, Place
<1>2. ProofTypeOK'
  BY <1>1 DEF ProofTypeOK
<1>3. client = "proved" /\ answer.head.onChain /\ NoAnswer.head = NoBlock
  BY DEF Beliefs, NoAnswer
<1>4. Beliefs'
  BY <1>3, NoBlockFacts DEF Beliefs, OnChainKey
<1>5. AnswersAreTrue'
  BY DEF AnswersAreTrue
<1>6. QED
  BY <1>2, <1>4, <1>5, SameStore

LEMMA LocateBelieves == ASSUME ProofInv, LocateTransaction PROVE ProofInv'
<1> USE DEF ProofInv, LocateTransaction
<1>1. ProofTypeOK'
  BY DEF ProofTypeOK, Place
<1>2. Beliefs'
  BY DEF Beliefs, OnChainKey
<1>3. AnswersAreTrue'
  BY DEF AnswersAreTrue
<1>4. QED
  BY <1>1, <1>2, <1>3, SameStore

(* The heart of it: an answer that calls itself complete ends at the block  *)
(* it was asked about, so a proof stored as proved names a block the walk   *)
(* has reached.                                                             *)
LEMMA StoreBelieves == ASSUME ProofInv, StoreProof PROVE ProofInv'
<1> DEFINE new == Proof(selected, trusted, client, "current")
<1>1. /\ selected # NoBlock /\ walk = NoWalk /\ UNCHANGED walk
      /\ client = "proved" => answer.complete
      /\ stored' = stored \cup {new}
      /\ client' = "off" /\ trusted' = NoBlock /\ lastKey' = NoBlock
      /\ answer' = NoAnswer /\ selected' = NoBlock
  BY DEF StoreProof
<1>2. client \in TrustLevels
  BY <1>1 DEF ProofInv, ProofTypeOK, Beliefs
<1>3. selected \in Blocks /\ trusted \in Place
  BY <1>1 DEF ProofInv, ProofTypeOK, Place
<1>4. new = [block |-> selected, anchor |-> trusted, trust |-> client, policy |-> "current"]
  BY DEF Proof
<1>5. new \in StoredProof
  <2>1. selected \in StoredBlock /\ trusted \in StoredBlock /\ "current" \in Policies
    BY <1>3, NoBlockFacts DEF Place, Policies
  <2>2. QED
    BY <1>2, <1>4, <2>1 DEF StoredProof
<1>6. ASSUME client = "proved" PROVE selected.onChain /\ trusted.onChain
  <2>1. answer.complete
    BY <1>1, <1>6
  <2>2. answer # NoAnswer
    BY <2>1 DEF NoAnswer
  <2>3. answer.target = selected
    BY <2>2 DEF ProofInv, Beliefs
  <2>4. answer.head = selected
    BY <1>1, <2>1, <2>2, <2>3 DEF ProofInv, AnswersAreTrue
  <2>5. QED
    BY <1>6, <2>4 DEF ProofInv, Beliefs
<1>7. NoAnswer \in [from : Place, target : Place, head : Place, complete : BOOLEAN]
  BY DEF NoAnswer, Place
<1> HIDE DEF new
<1>8. ProofTypeOK'
  BY <1>1, <1>5, <1>7 DEF ProofInv, ProofTypeOK, Place
<1>9. Beliefs'
  BY <1>1 DEF Beliefs
<1>10. AnswersAreTrue'
  BY <1>1 DEF AnswersAreTrue
<1>11. CanonicalProofsAreOnTheChain'
  <2>1. SUFFICES ASSUME NEW p \in stored', Canonical(p)
                 PROVE  p.block.onChain /\ p.anchor.onChain
    BY DEF CanonicalProofsAreOnTheChain, Canonical
  <2>2. CASE p \in stored
    BY <2>1, <2>2 DEF ProofInv, CanonicalProofsAreOnTheChain
  <2>3. CASE p = new
    BY <1>4, <1>6, <2>1, <2>3 DEF Canonical
  <2>4. QED
    BY <1>1, <2>1, <2>2, <2>3
<1>12. QED
  BY <1>8, <1>9, <1>10, <1>11 DEF ProofInv

LEMMA GiveUpBelieves == ASSUME ProofInv, GiveUp PROVE ProofInv'
<1> USE DEF ProofInv, GiveUp
<1>1. /\ NoAnswer \in [from : Place, target : Place, head : Place, complete : BOOLEAN]
      /\ NoWalk \in [target : Place, at : Place, links : Nat, best : Place]
  BY DEF NoAnswer, NoWalk, Place
<1>2. ProofTypeOK'
  BY <1>1 DEF ProofTypeOK, Place
<1>3. Beliefs'
  BY DEF Beliefs
<1>4. AnswersAreTrue'
  BY DEF AnswersAreTrue
<1>5. QED
  BY <1>2, <1>3, <1>4, SameStore

LEMMA ProofStep == ASSUME ProofInv, [ProofNext]_proofVars PROVE ProofInv'
<1>1. CASE UNCHANGED proofVars
  BY <1>1 DEF proofVars, ProofInv, ProofTypeOK, Beliefs, OnChainKey, AnswersAreTrue,
     CanonicalProofsAreOnTheChain, Canonical
<1>2. CASE ProofNext
  BY <1>2, PrepareBelieves, AskBelieves, FollowLinkBelieves, AcceptBelieves, RejectBelieves,
     StartUpBelieves, LocateBelieves, StoreBelieves, GiveUpBelieves
  DEF ProofNext
<1>3. QED
  BY <1>1, <1>2

LEMMA ProofInvariant == ProofSpec => []ProofInv
BY InitBelieves, ProofStep, PTL DEF ProofSpec

-----------------------------------------------------------------------------
(* The client, its walk, its answer and the store are always of their kind, *)
(* whatever the servers answer.                                             *)
THEOREM ProofTypesAreKept == ProofSpec => []ProofTypeOK
<1>1. ProofInv => ProofTypeOK
  BY DEF ProofInv
<1>2. QED
  BY <1>1, ProofInvariant, PTL

(* verify_masterchain_proof_response: with faulty validators that sign      *)
(* nothing alone, a proving client never trusts a block off the chain nor   *)
(* takes another block for a key block, and an accepted answer is true, for *)
(* every height, every set of key blocks and responses of every length.     *)
THEOREM ClientsTrustTheChain == ProofSpec => []TrustAdvancesOnTheChain
<1>1. ProofInv => TrustAdvancesOnTheChain
  BY NoBlockFacts DEF ProofInv, Beliefs, AnswersAreTrue, OnChainKey, TrustAdvancesOnTheChain
<1>2. QED
  BY <1>1, ProofInvariant, PTL

(* _proof_response: a proof presented as verified against the canonical     *)
(* chain names a block and an anchor of the chain, whatever earlier         *)
(* releases have stored.                                                    *)
THEOREM StoredProofsAreCanonical == ProofSpec => []CanonicalProofsAreOnTheChain
<1>1. ProofInv => CanonicalProofsAreOnTheChain
  BY DEF ProofInv
<1>2. QED
  BY <1>1, ProofInvariant, PTL
=============================================================================
