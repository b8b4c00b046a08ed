----------------------- MODULE DeploymentState_proofs -----------------------
(***************************************************************************)
(* The host directory stays one state between any two of its writes, for   *)
(* every set of releases, every order of versions and every number of      *)
(* rollouts.  A power loss that meets the unsynchronized rename of a       *)
(* killed command is left out (PowerLossAfterKill = FALSE): it can break   *)
(* the directory.                                                          *)
(***************************************************************************)
EXTENDS DeploymentState, SequenceTheorems, TLAPS

(* An attempt that the next command repeats and whose success the           *)
(* publication accepts; st is the release that runs, vol the volume.        *)
Resumable(f, st, vol) ==
  /\ f.attempt # NULL
  /\ MayResume(f) /\ MayPublish(f, f.attempt)
  /\ st \in {f.attempt.base, f.attempt.target}
  /\ f.attempt.base = NULL /\ vol = "managed" => f.attempt.verified

(* An attempt that the ledger or a legacy receipt proves successful.        *)
Proven(f, st) ==
  /\ f.attempt # NULL
  /\ Committed(f) \/ LegacyCommitted(f)
  /\ st = f.attempt.target

(* No attempt is left, and an installation has a receipt.                   *)
Settled(f, st, vol) ==
  /\ f.attempt = NULL
  /\ st = ActiveRelease(f)
  /\ f.receipt = NULL => vol # "managed"

(* A directory that the next command accepts and takes further.             *)
Good(f, st, vol) ==
  /\ Consistent(f)
  /\ f.receipt # NULL => f.receipt.previous # f.receipt.release
  /\ Settled(f, st, vol) \/ Resumable(f, st, vol) \/ Proven(f, st)

(* The directory as the command at work has left it.                        *)
Uncommitted == {"journalled", "gates", "checkpointed", "activating", "activated"}
Working ==
  /\ ~At("idle") => command.attempt \in Attempt
  /\ command.at \in Uncommitted =>
       /\ Resumable(files, stack, volume)
       /\ command.attempt.id = files.attempt.id
       /\ command.attempt.operation = files.attempt.operation
       /\ command.attempt.base = files.attempt.base
       /\ command.attempt.target = files.attempt.target
       /\ command.attempt.verified => files.attempt.verified
  /\ At("checkpointed") => files.attempt.verified
  /\ command.at \in {"activating", "activated"} /\ files.attempt.base = NULL =>
       files.attempt.verified
  /\ At("activated") => stack = files.attempt.target
  /\ command.at \in {"published", "binding"} =>
       files.ledger # << >> /\ HeadAwaitsReceipt(files) /\ Proven(files, stack)
  /\ command.at \in {"recorded", "clearing"} =>
       /\ Proven(files, stack)
       /\ \/ files.ledger # << >> /\ Bound(files) /\ Committed(files)
          \/ At("clearing") /\ files.ledger = << >> /\ LegacyCommitted(files)
  /\ At("cleared") => files.attempt = NULL

(* What an unsynchronized write of this command may leave.                  *)
Surviving ==
  \A f \in survivors :
    /\ Good(f, stack, volume)
    /\ command.at \in {"journalled", "checkpointed", "recorded", "cleared"} =>
         f.ledger = files.ledger
    /\ At("published") => f.receipt = files.receipt /\ f.attempt = files.attempt
    /\ command.at \in {"idle", "gates", "activating", "activated", "binding", "clearing"} =>
         f = files

Inv == TypeOK /\ Good(files, stack, volume) /\ Working /\ (~torn => Surviving)

-----------------------------------------------------------------------------
(* Records and sequences.                                                   *)

LEMMA FilesFields ==
  ASSUME NEW f \in Files
  PROVE  /\ f.ledger \in Seq(Event)
         /\ f.receipt \in Receipt \cup {NULL}
         /\ f.attempt \in Attempt \cup {NULL}
         /\ f = [ledger |-> f.ledger, receipt |-> f.receipt, attempt |-> f.attempt]
BY DEF Files

LEMMA ReceiptFields ==
  ASSUME NEW ledger \in Seq(Event), NEW n \in 1..Len(ledger)
  PROVE  /\ ReceiptOf(ledger, n) \in Receipt
         /\ ReceiptOf(ledger, n) # NULL
<1>1. ledger[n] \in Event
  BY ElementOfSeq
<1>2. ReceiptOf(ledger, n) \in Receipt
  BY <1>1, LenProperties DEF ReceiptOf, Receipt, Event
<1>3. QED
  BY <1>2, DeploymentAssumption

LEMMA EmptyOrLast ==
  ASSUME NEW f \in Files
  PROVE  IF f.ledger = << >> THEN Len(f.ledger) = 0
         ELSE /\ Len(f.ledger) \in 1..Len(f.ledger) /\ LastEvent(f) = f.ledger[Len(f.ledger)]
              /\ LastEvent(f) \in Event
BY FilesFields, EmptySeq DEF LastEvent

LEMMA ActiveIsNull ==
  ASSUME NEW f \in Files
  PROVE  /\ ActiveRelease(f) \in Releases \cup {NULL}
         /\ ActiveRelease(f) = NULL <=> f.receipt = NULL
BY FilesFields, DeploymentAssumption DEF ActiveRelease, Receipt

(* A ledger whose head is bound, and no other, has a receipt of this schema.*)
LEMMA BoundReceipt ==
  ASSUME NEW f \in Files, f.ledger # << >>, Bound(f)
  PROVE  /\ f.receipt # NULL /\ f.receipt.schema = "v4" /\ f.receipt.attempt = LastEvent(f).attempt
         /\ f.receipt.release = LastEvent(f).release /\ f.receipt.previous = LastEvent(f).previous
         /\ f.receipt.operation = LastEvent(f).operation /\ f.receipt.sequence = Len(f.ledger)
BY EmptyOrLast, ReceiptFields, FilesFields DEF Bound, ReceiptOf, LastEvent

LEMMA CommandFields ==
  ASSUME TypeOK
  PROVE  /\ command = [at |-> command.at, attempt |-> command.attempt]
         /\ command.at \in Points /\ command.attempt \in Attempt \cup {NULL}
BY DEF TypeOK, Command

LEMMA ProceedEffect ==
  ASSUME TypeOK, NEW point \in Points, Proceed(point)
  PROVE  command' \in Command /\ command'.at = point /\ command'.attempt = command.attempt
BY DEF TypeOK, Command, Proceed

LEMMA PutAttemptEffect ==
  ASSUME TypeOK, NEW attempt \in Attempt \cup {NULL}, PutAttempt(attempt)
  PROVE  /\ files' \in Files /\ survivors' \subseteq Files
         /\ files'.ledger = files.ledger /\ files'.receipt = files.receipt
         /\ files'.attempt = attempt
         /\ (\A g \in survivors : g = files) => \A f \in survivors' : f \in {files, files'}
BY DEF TypeOK, Files, PutAttempt

LEMMA PutReceiptEffect ==
  ASSUME TypeOK, NEW receipt \in Receipt, PutReceipt(receipt)
  PROVE  /\ files' \in Files /\ survivors' \subseteq Files
         /\ files'.ledger = files.ledger /\ files'.receipt = receipt
         /\ files'.attempt = files.attempt
         /\ (\A g \in survivors : g = files) => \A f \in survivors' : f \in {files, files'}
BY DEF TypeOK, Files, PutReceipt

LEMMA PutEventEffect ==
  ASSUME TypeOK, NEW event \in Event, PutEvent(event)
  PROVE  /\ files' \in Files /\ survivors' \subseteq Files
         /\ files'.ledger = Append(files.ledger, event) /\ files'.receipt = files.receipt
         /\ files'.attempt = files.attempt
         /\ (\A g \in survivors : g = files) => \A f \in survivors' : f \in {files, files'}
<1>1. Append(files.ledger, event) \in Seq(Event)
  BY AppendProperties DEF TypeOK, Files
<1>2. /\ files' \in Files /\ files'.ledger = Append(files.ledger, event)
      /\ files'.receipt = files.receipt /\ files'.attempt = files.attempt
  BY <1>1 DEF TypeOK, Files, PutEvent
<1>3. survivors' \subseteq Files
  BY <1>1 DEF TypeOK, Files, PutEvent
<1>4. QED
  BY <1>2, <1>3 DEF PutEvent

(* A directory that is written back only where it differs is the one that   *)
(* is read.                                                                 *)
LEMMA SyncStateEffect ==
  ASSUME TypeOK, SyncStateDirectory
  PROVE  /\ UNCHANGED files /\ survivors' \subseteq Files
         /\ \A f \in survivors' : \E g \in survivors : f = [files EXCEPT !.ledger = g.ledger]
         /\ (\A g \in survivors : g.ledger = files.ledger) => \A f \in survivors' : f = files
BY DEF TypeOK, Files, SyncStateDirectory

LEMMA SyncLedgerEffect ==
  ASSUME TypeOK, SyncLedgerDirectory
  PROVE  /\ UNCHANGED files /\ survivors' \subseteq Files
         /\ (\A g \in survivors : g.receipt = files.receipt /\ g.attempt = files.attempt) =>
              \A f \in survivors' : f = files
BY DEF TypeOK, Files, SyncLedgerDirectory

-----------------------------------------------------------------------------
(* What one write makes of a good directory.                                *)

(* prepare_attempt on a directory without an attempt.                       *)
LEMMA Prepared ==
  ASSUME NEW f \in Files, NEW st, NEW vol, Good(f, st, vol), f.attempt = NULL,
         NEW g \in Files, g.ledger = f.ledger, g.receipt = f.receipt,
         NEW a \in Attempts, NEW operation \in Operations, NEW target \in Releases,
         g.attempt = [id |-> a, operation |-> operation, base |-> ActiveRelease(f),
                      target |-> target, verified |-> FALSE],
         Authorized(f, target, operation),
         f.receipt # NULL => f.receipt.attempt # a,
         \A n \in 1..Len(f.ledger) : f.ledger[n].attempt # a
  PROVE  Good(g, st, vol) /\ Resumable(g, st, vol)
<1>1. /\ g.attempt.id = a /\ g.attempt.operation = operation /\ g.attempt.target = target
      /\ g.attempt.base = ActiveRelease(f) /\ ~g.attempt.verified
  OBVIOUS
<1>2. g.attempt # NULL
  <2>1. g.attempt \in Attempt
    BY ActiveIsNull DEF Attempt
  <2>2. QED
    BY <2>1, DeploymentAssumption
<1>3. /\ ActiveRelease(g) = ActiveRelease(f) /\ (Bound(g) <=> Bound(f))
      /\ Authorized(g, target, operation)
  BY DEF ActiveRelease, Bound, Authorized
<1>4. f.ledger # << >> => Bound(f)
  BY DEF Good, Consistent, HeadIsBound, HeadAwaitsReceipt
<1>5. ~Committed(g)
  BY <1>1, EmptyOrLast DEF Committed, LastEvent
<1>6. ~LegacyCommitted(g)
  BY <1>1 DEF LegacyCommitted
<1>7. Consistent(g)
  <2>1. ChainValid(g.ledger)
    BY DEF Good, Consistent
  <2>2. CASE f.ledger = << >>
    BY <1>1, <1>2, <1>3, <2>1, <2>2 DEF Good, Consistent, BeforeFirstEvent
  <2>3. CASE f.ledger # << >>
    <3>1. Bound(g)
      BY <1>3, <1>4, <2>3
    <3>2. g.attempt.id # LastEvent(g).attempt
      BY <1>5, <2>3 DEF Committed
    <3>3. g.receipt # NULL
      BY <2>3, <3>1, BoundReceipt
    <3>4. g.attempt.base = g.receipt.release
      BY <1>1, <3>3 DEF ActiveRelease
    <3>5. HeadIsBound(g)
      BY <3>1, <3>2, <3>4 DEF HeadIsBound
    <3>6. QED
      BY <2>1, <2>3, <3>5 DEF Consistent
  <2>4. QED
    BY <2>2, <2>3
<1>8. MayResume(g)
  BY <1>1, <1>3, <1>5, <1>6 DEF MayResume
<1>9. MayPublish(g, g.attempt)
  BY <1>1, <1>2, <1>3, <1>4, <1>7 DEF MayPublish
<1>10. Settled(f, st, vol)
  BY DEF Good, Resumable, Proven
<1>11. Resumable(g, st, vol)
  BY <1>1, <1>2, <1>8, <1>9, <1>10, ActiveIsNull DEF Resumable, Settled
<1>12. QED
  BY <1>7, <1>11 DEF Good

(* Only an attempt that is neither proven nor cleared can be taken up.      *)
LEMMA TakenUp ==
  ASSUME NEW f, NEW st, NEW vol, Good(f, st, vol), f.attempt # NULL, MayResume(f)
  PROVE  Resumable(f, st, vol)
BY DEF Good, Settled, Proven, MayResume

(* mark_initial_bootstrap_verified.                                         *)
LEMMA Checkpointed ==
  ASSUME NEW f \in Files, NEW st, NEW vol, Good(f, st, vol), Resumable(f, st, vol),
         NEW g \in Files, g.ledger = f.ledger, g.receipt = f.receipt,
         g.attempt = [f.attempt EXCEPT !.verified = TRUE]
  PROVE  /\ Good(g, st, vol) /\ Resumable(g, st, vol) /\ g.attempt.verified
         /\ g.attempt.id = f.attempt.id /\ g.attempt.operation = f.attempt.operation
         /\ g.attempt.base = f.attempt.base /\ g.attempt.target = f.attempt.target
<1>1. f.attempt \in Attempt
  BY FilesFields DEF Resumable
<1>2. /\ g.attempt.id = f.attempt.id /\ g.attempt.operation = f.attempt.operation
      /\ g.attempt.base = f.attempt.base /\ g.attempt.target = f.attempt.target
      /\ g.attempt.verified /\ g.attempt \in Attempt
  BY <1>1 DEF Attempt
<1>3. g.attempt # NULL
  BY <1>2, DeploymentAssumption
<1>4. /\ ActiveRelease(g) = ActiveRelease(f) /\ (Bound(g) <=> Bound(f)) /\ LastEvent(g) = LastEvent(f)
      /\ \A target, operation : Authorized(g, target, operation) <=> Authorized(f, target, operation)
  BY DEF ActiveRelease, Bound, Authorized, LastEvent
<1>5. /\ Committed(g) <=> Committed(f)
      /\ LegacyCommitted(g) <=> LegacyCommitted(f)
      /\ JournalMatches(g.attempt, LastEvent(g)) <=> JournalMatches(f.attempt, LastEvent(f))
  BY <1>2, <1>4 DEF Committed, LegacyCommitted, JournalMatches
<1>6. MayResume(g)
  BY <1>2, <1>4, <1>5 DEF Resumable, MayResume
<1>7. Consistent(g)
  <2>1. ChainValid(g.ledger)
    BY DEF Good, Consistent
  <2>2. CASE f.ledger = << >>
    BY <1>2, <1>3, <1>4, <1>5, <2>1, <2>2 DEF Good, Resumable, Consistent, BeforeFirstEvent
  <2>3. CASE f.ledger # << >>
    <3>1. HeadIsBound(f)
      BY <2>3 DEF Resumable, MayPublish, Good, Consistent, HeadAwaitsReceipt
    <3>2. HeadIsBound(g)
      BY <1>2, <1>3, <1>4, <1>5, <3>1 DEF Resumable, HeadIsBound
    <3>3. QED
      BY <2>1, <2>3, <3>2 DEF Consistent
  <2>4. QED
    BY <2>2, <2>3
<1>8. MayPublish(g, g.attempt)
  BY <1>2, <1>3, <1>4, <1>7 DEF Resumable, MayPublish
<1>9. Resumable(g, st, vol)
  BY <1>2, <1>3, <1>6, <1>8 DEF Resumable
<1>10. QED
  BY <1>2, <1>7, <1>9 DEF Good

(* The containers are replaced by those of the target.                      *)
LEMMA Activated ==
  ASSUME NEW f, NEW st, NEW vol, NEW vol2, Good(f, st, vol), Resumable(f, st, vol),
         f.attempt.base = NULL => f.attempt.verified
  PROVE  Good(f, f.attempt.target, vol2) /\ Resumable(f, f.attempt.target, vol2)
BY DEF Good, Resumable

(* The event extends the chain of the ledger: its base and its previous     *)
(* release are those of the receipt, which is bound to the last event.      *)
LEMMA EventLinks ==
  ASSUME NEW f \in Files, Consistent(f), f.receipt # NULL => f.receipt.previous # f.receipt.release,
         f.ledger # << >> => Bound(f),
         NEW operation \in Operations, NEW a \in Attempts, NEW target \in Releases,
         Authorized(f, target, operation),
         NEW e, e = [operation |-> operation, attempt |-> a, base |-> ActiveRelease(f),
                     release |-> target,
                     previous |-> IF f.receipt = NULL THEN NULL
                                  ELSE IF f.receipt.release = target THEN f.receipt.previous
                                  ELSE f.receipt.release]
  PROVE  e \in Event /\ ChainValid(Append(f.ledger, e))
<1>1. /\ e.operation = operation /\ e.attempt = a /\ e.base = ActiveRelease(f) /\ e.release = target
      /\ e.previous = IF f.receipt = NULL THEN NULL
                      ELSE IF f.receipt.release = target THEN f.receipt.previous
                      ELSE f.receipt.release
  OBVIOUS
<1>2. f.receipt # NULL => f.receipt.release \in Releases /\ f.receipt.previous \in Releases \cup {NULL}
  BY FilesFields DEF Receipt
<1>3. e.previous \in Releases \cup {NULL} /\ ActiveRelease(f) \in Releases \cup {NULL}
  BY <1>1, <1>2, ActiveIsNull
<1>4. e \in Event
  BY <1>1, <1>3 DEF Event
<1>5. e.previous # e.release
  BY <1>1, <1>2, DeploymentAssumption
<1>6. ASSUME f.ledger # << >> PROVE ChainLink(LastEvent(f), e)
  <2>1. /\ f.receipt # NULL /\ f.receipt.release = LastEvent(f).release
        /\ f.receipt.previous = LastEvent(f).previous
    BY <1>6, BoundReceipt
  <2>2. e.base = LastEvent(f).release
    BY <1>1, <2>1 DEF ActiveRelease
  <2>3. e.previous = IF e.release = LastEvent(f).release THEN LastEvent(f).previous
                                                         ELSE LastEvent(f).release
    BY <1>1, <2>1
  <2>4. \/ operation = "rollback" /\ target = f.receipt.previous
        \/ /\ operation = "deployment"
           /\ target = f.receipt.release \/ NewerThan(target, f.receipt.release)
    BY <2>1 DEF Authorized
  <2>5. QED
    BY <1>1, <2>1, <2>2, <2>3, <2>4 DEF ChainLink
<1>7. ChainValid(Append(f.ledger, e))
  <2> DEFINE n == Len(f.ledger)
             extended == Append(f.ledger, e)
  <2>1. f.ledger \in Seq(Event) /\ n \in Nat
    BY FilesFields, LenProperties
  <2>2. /\ Len(extended) = n + 1 /\ extended[n + 1] = e
        /\ \A i \in 1..n : extended[i] = f.ledger[i]
    BY <1>4, <2>1, AppendProperties
  <2>3. ChainValid(f.ledger)
    BY DEF Consistent
  <2> HIDE DEF extended, n
  <2>4. ASSUME NEW i \in 1..(n + 1) PROVE extended[i].previous # extended[i].release
    <3>1. CASE i = n + 1
      BY <1>5, <2>2, <3>1
    <3>2. CASE i \in 1..n
      BY <2>2, <2>3, <3>2 DEF ChainValid, n
    <3>3. QED
      BY <2>1, <3>1, <3>2
  <2>5. ASSUME NEW i \in 1..n PROVE ChainLink(extended[i], extended[i + 1])
    <3>1. CASE i = n
      <4>1. extended[i] = LastEvent(f) /\ extended[i + 1] = e
        BY <2>1, <2>2, <3>1 DEF LastEvent, n
      <4>2. f.ledger # << >>
        BY <2>1, <3>1, EmptySeq DEF n
      <4>3. QED
        BY <1>6, <4>1, <4>2
    <3>2. CASE i \in 1..(n - 1)
      <4>1. i + 1 \in 1..n
        BY <2>1, <3>2
      <4>2. extended[i] = f.ledger[i] /\ extended[i + 1] = f.ledger[i + 1]
        BY <2>2, <4>1
      <4>3. QED
        BY <2>3, <3>2, <4>2 DEF ChainValid, n
    <3>3. QED
      BY <2>1, <3>1, <3>2
  <2>6. QED
    BY <2>1, <2>2, <2>4, <2>5 DEF ChainValid, extended
<1>8. QED
  BY <1>4, <1>7

(* complete_attempt: the event is published while the old receipt stands.   *)
LEMMA Published ==
  ASSUME NEW f \in Files, NEW st, NEW vol, Good(f, st, vol), Resumable(f, st, vol),
         st = f.attempt.target,
         NEW e, e = [operation |-> f.attempt.operation, attempt |-> f.attempt.id,
                     base |-> ActiveRelease(f), release |-> f.attempt.target,
                     previous |-> IF f.receipt = NULL THEN NULL
                                  ELSE IF f.receipt.release = f.attempt.target THEN f.receipt.previous
                                  ELSE f.receipt.release],
         NEW g \in Files, g.ledger = Append(f.ledger, e), g.receipt = f.receipt,
         g.attempt = f.attempt
  PROVE  /\ e \in Event /\ Good(g, st, vol)
         /\ g.ledger # << >> /\ HeadAwaitsReceipt(g) /\ Proven(g, st)
<1>1. f.attempt \in Attempt
  BY FilesFields DEF Resumable
<1>2. /\ f.attempt.id \in Attempts /\ f.attempt.operation \in Operations
      /\ f.attempt.target \in Releases
  BY <1>1 DEF Attempt
<1>3. /\ f.attempt.base = ActiveRelease(f) /\ (f.ledger # << >> => Bound(f))
      /\ Authorized(f, f.attempt.target, f.attempt.operation)
  BY DEF Resumable, MayPublish
<1>4. e \in Event /\ ChainValid(Append(f.ledger, e))
  BY <1>2, <1>3, EventLinks DEF Good
<1>5. /\ e.operation = f.attempt.operation /\ e.attempt = f.attempt.id
      /\ e.base = ActiveRelease(f) /\ e.release = f.attempt.target
  OBVIOUS
<1>6. /\ f.ledger \in Seq(Event) /\ Len(f.ledger) \in Nat /\ g.ledger \in Seq(Event)
      /\ Len(g.ledger) = Len(f.ledger) + 1 /\ g.ledger[Len(f.ledger) + 1] = e
      /\ \A i \in 1..Len(f.ledger) : g.ledger[i] = f.ledger[i]
  BY <1>4, FilesFields, LenProperties, AppendProperties
<1>7. g.ledger # << >> /\ LastEvent(g) = e
  BY <1>6, EmptySeq DEF LastEvent
<1>8. ActiveRelease(g) = ActiveRelease(f)
  BY DEF ActiveRelease
<1>9. f.ledger = << >> => Len(g.ledger) = 1 /\ (f.receipt # NULL => f.receipt.schema # "v4")
  BY <1>6, EmptySeq DEF Good, Consistent, BeforeFirstEvent
<1>10. f.ledger # << >> =>
         /\ Len(g.ledger) # 1 /\ f.receipt = ReceiptOf(g.ledger, Len(g.ledger) - 1)
         /\ f.receipt.sequence = Len(f.ledger)
  <2> SUFFICES ASSUME f.ledger # << >>
               PROVE  /\ Len(g.ledger) # 1 /\ f.receipt = ReceiptOf(g.ledger, Len(g.ledger) - 1)
                      /\ f.receipt.sequence = Len(f.ledger)
    OBVIOUS
  <2>1. Len(f.ledger) \in 1..Len(f.ledger) /\ Len(f.ledger) # 0
    BY <1>6, EmptyOrLast, EmptySeq
  <2>2. f.receipt = ReceiptOf(f.ledger, Len(f.ledger))
    BY <1>3 DEF Bound
  <2>3. ReceiptOf(g.ledger, Len(f.ledger)) = ReceiptOf(f.ledger, Len(f.ledger))
    BY <1>6, <2>1 DEF ReceiptOf
  <2>4. f.receipt.sequence = Len(f.ledger)
    BY <2>2 DEF ReceiptOf
  <2>5. Len(g.ledger) # 1 /\ Len(g.ledger) - 1 = Len(f.ledger)
    BY <1>6, <2>1
  <2>6. QED
    BY <2>2, <2>3, <2>4, <2>5
<1>11. ~Bound(g)
  <2>1. ASSUME Bound(g) PROVE FALSE
    <3>1. g.receipt # NULL /\ g.receipt.schema = "v4" /\ g.receipt.sequence = Len(g.ledger)
      BY <1>7, <2>1, BoundReceipt
    <3>2. CASE f.ledger = << >>
      BY <1>9, <3>1, <3>2
    <3>3. CASE f.ledger # << >>
      BY <1>6, <1>10, <3>1, <3>3
    <3>4. QED
      BY <3>2, <3>3
  <2>2. QED
    BY <2>1
<1>12. JournalMatches(g.attempt, LastEvent(g))
  BY <1>3, <1>5, <1>7 DEF JournalMatches
<1>13. HeadAwaitsReceipt(g)
  BY <1>5, <1>7, <1>8, <1>9, <1>10, <1>11, <1>12 DEF HeadAwaitsReceipt, Resumable
<1>14. Proven(g, st)
  BY <1>5, <1>7 DEF Proven, Committed, Resumable
<1>15. Good(g, st, vol)
  BY <1>4, <1>7, <1>13, <1>14 DEF Good, Consistent
<1>16. QED
  BY <1>4, <1>7, <1>13, <1>14, <1>15

(* The receipt is bound to the last event.                                  *)
LEMMA ReceiptIsBound ==
  ASSUME NEW f \in Files, NEW st, NEW vol, Good(f, st, vol),
         f.ledger # << >>, HeadAwaitsReceipt(f), Proven(f, st),
         NEW g \in Files, g.ledger = f.ledger, g.attempt = f.attempt,
         g.receipt = ReceiptOf(f.ledger, Len(f.ledger))
  PROVE  Good(g, st, vol) /\ Proven(g, st) /\ Bound(g) /\ Committed(g)
<1>1. Bound(g) /\ LastEvent(g) = LastEvent(f)
  BY DEF Bound, LastEvent
<1>2. JournalMatches(g.attempt, LastEvent(g)) /\ g.attempt.id = LastEvent(g).attempt
  BY <1>1 DEF HeadAwaitsReceipt, JournalMatches
<1>3. HeadIsBound(g)
  BY <1>1, <1>2 DEF HeadIsBound
<1>4. Committed(g) /\ Proven(g, st)
  BY <1>2 DEF Committed, Proven
<1>5. g.receipt.previous = LastEvent(f).previous /\ g.receipt.release = LastEvent(f).release
  BY DEF ReceiptOf, LastEvent
<1>6. LastEvent(f).previous # LastEvent(f).release
  BY EmptyOrLast DEF Good, Consistent, ChainValid
<1>7. Good(g, st, vol)
  BY <1>3, <1>4, <1>5, <1>6 DEF Good, Consistent
<1>8. QED
  BY <1>1, <1>4, <1>7

(* The journal of a proven attempt is removed.                              *)
LEMMA Cleared ==
  ASSUME NEW f \in Files, NEW st, NEW vol, Good(f, st, vol), Proven(f, st),
         \/ f.ledger # << >> /\ Bound(f) /\ Committed(f)
         \/ f.ledger = << >> /\ LegacyCommitted(f),
         NEW g \in Files, g.ledger = f.ledger, g.receipt = f.receipt, g.attempt = NULL
  PROVE  Good(g, st, vol)
<1>1. CASE f.ledger # << >> /\ Bound(f) /\ Committed(f)
  <2>1. Bound(g) /\ HeadIsBound(g)
    BY <1>1 DEF Bound, HeadIsBound
  <2>2. JournalMatches(f.attempt, LastEvent(f))
    BY <1>1 DEF Good, Consistent, HeadIsBound, HeadAwaitsReceipt, Committed, Proven
  <2>3. f.receipt # NULL /\ f.receipt.release = LastEvent(f).release
    BY <1>1, BoundReceipt
  <2>4. st = ActiveRelease(g)
    BY <2>2, <2>3 DEF Proven, JournalMatches, ActiveRelease
  <2>5. QED
    BY <1>1, <2>1, <2>3, <2>4 DEF Good, Consistent, Settled
<1>2. CASE f.ledger = << >> /\ LegacyCommitted(f)
  <2>1. f.receipt # NULL /\ f.receipt.schema = "v3" /\ f.receipt.release = f.attempt.target
    BY <1>2 DEF LegacyCommitted
  <2>2. BeforeFirstEvent(g)
    BY <2>1 DEF BeforeFirstEvent
  <2>3. st = ActiveRelease(g)
    BY <2>1 DEF Proven, ActiveRelease
  <2>4. QED
    BY <1>2, <2>1, <2>2, <2>3 DEF Good, Consistent, Settled
<1>3. QED
  BY <1>1, <1>2

-----------------------------------------------------------------------------
(* Every step of a command, of the host and of its failures.                *)

LEMMA PrepareKeeps ==
  ASSUME Inv, NEW a \in Attempts, NEW operation \in Operations, NEW target \in Releases,
         PrepareAttempt(a, operation, target)
  PROVE  Inv'
<1> DEFINE started == NewAttempt(a, operation, target)
<1>1. TypeOK /\ files \in Files
  BY DEF Inv, TypeOK
<1>2. started \in Attempt
  BY <1>1, ActiveIsNull DEF NewAttempt, Attempt
<1>3. /\ files' \in Files /\ survivors' \subseteq Files
      /\ files'.ledger = files.ledger /\ files'.receipt = files.receipt
      /\ files'.attempt = started
      /\ (\A g \in survivors : g = files) => \A f \in survivors' : f \in {files, files'}
  BY <1>1, <1>2, PutAttemptEffect DEF PrepareAttempt
<1>4. command' = [at |-> "journalled", attempt |-> started] /\ UNCHANGED <<torn, stack, volume>>
  BY DEF PrepareAttempt
<1>5. command'.at = "journalled" /\ command'.attempt = started /\ command' \in Command
  BY <1>2, <1>4 DEF Command, Points
<1>6. TypeOK'
  BY <1>1, <1>3, <1>4, <1>5 DEF TypeOK
<1>7. /\ At("idle") /\ files.attempt = NULL /\ Authorized(files, target, operation)
      /\ files.receipt # NULL => files.receipt.attempt # a
      /\ \A n \in 1..Len(files.ledger) : files.ledger[n].attempt # a
  BY DEF PrepareAttempt, Unused
<1>8. Good(files', stack, volume) /\ Resumable(files', stack, volume)
  BY <1>1, <1>3, <1>7, Prepared DEF Inv, NewAttempt
<1>9. Working'
  BY <1>2, <1>3, <1>4, <1>5, <1>8 DEF Working, At, Uncommitted
<1>10. ASSUME ~torn' PROVE Surviving'
  <2>1. \A f \in survivors : f = files
    BY <1>4, <1>7, <1>10 DEF Inv, Surviving, At
  <2>2. \A f \in survivors' : Good(f, stack, volume) /\ f.ledger = files'.ledger
    BY <1>3, <1>8, <2>1 DEF Inv
  <2>3. QED
    BY <1>4, <1>5, <2>2 DEF Surviving, At
<1>11. QED
  BY <1>4, <1>6, <1>8, <1>9, <1>10 DEF Inv

(* The directory of the state is synchronized and the command proceeds.     *)
LEMMA StateSyncedKeeps ==
  ASSUME Inv, SyncStateDirectory, UNCHANGED <<torn, stack, volume>>,
         \/ At("journalled") /\ Proceed("gates")
         \/ At("checkpointed") /\ Proceed("activating")
         \/ At("recorded") /\ Proceed("clearing")
         \/ At("cleared") /\ command' = Idle
  PROVE  Inv'
<1>1. /\ UNCHANGED files /\ survivors' \subseteq Files
      /\ (\A g \in survivors : g.ledger = files.ledger) => \A f \in survivors' : f = files
  BY SyncStateEffect DEF Inv
<1>2. /\ command' \in Command
      /\ ~(At("idle"))' => command'.attempt = command.attempt /\ ~At("idle")
      /\ \/ command.at = "journalled" /\ command'.at = "gates"
         \/ command.at = "checkpointed" /\ command'.at = "activating"
         \/ command.at = "recorded" /\ command'.at = "clearing"
         \/ command.at = "cleared" /\ command'.at = "idle"
  BY ProceedEffect DEF Inv, At, Idle, Command, Points
<1>3. TypeOK'
  BY <1>1, <1>2 DEF Inv, TypeOK
<1>4. Good(files', stack', volume')
  BY <1>1 DEF Inv
<1>5. Working'
  BY <1>1, <1>2 DEF Inv, Working, Uncommitted, At
<1>6. ASSUME ~torn' PROVE Surviving'
  <2>1. \A f \in survivors' : f = files
    BY <1>1, <1>2, <1>6 DEF Inv, Surviving
  <2>2. QED
    BY <1>1, <1>2, <1>4, <2>1 DEF Surviving, At
<1>7. QED
  BY <1>3, <1>4, <1>5, <1>6 DEF Inv

LEMMA ResumeCommittedKeeps ==
  ASSUME Inv, ResumeCommitted
  PROVE  Inv'
<1>1. /\ TypeOK /\ files \in Files /\ At("idle") /\ files.attempt # NULL /\ files.attempt \in Attempt
      /\ Consistent(files) /\ Committed(files) /\ UNCHANGED <<torn, stack, volume>>
  BY FilesFields DEF Inv, TypeOK, ResumeCommitted
<1>2. files.ledger # << >>
  BY <1>1 DEF Committed
<1>3. Proven(files, stack)
  BY <1>1 DEF Inv, Good, Settled, Resumable, MayResume
<1>4. ASSUME ~torn PROVE \A f \in survivors : f = files
  BY <1>1, <1>4 DEF Inv, Surviving, At
<1>5. CASE Bound(files)
  <2>1. command' = [at |-> "clearing", attempt |-> files.attempt] /\ UNCHANGED <<files, survivors>>
    BY <1>5 DEF ResumeCommitted
  <2>2. command'.at = "clearing" /\ command'.attempt = files.attempt /\ command' \in Command
    BY <1>1, <2>1 DEF Command, Points
  <2>3. TypeOK'
    BY <1>1, <2>1, <2>2 DEF TypeOK
  <2>4. Working'
    BY <1>1, <1>2, <1>3, <1>5, <2>1, <2>2 DEF Working, Uncommitted, At
  <2>5. ASSUME ~torn' PROVE Surviving'
    BY <1>1, <1>4, <2>1, <2>2, <2>5 DEF Inv, Surviving, At
  <2>6. QED
    BY <1>1, <2>1, <2>3, <2>4, <2>5 DEF Inv
<1>6. CASE ~Bound(files)
  <2>1. /\ PutReceipt(ReceiptOf(files.ledger, Len(files.ledger)))
        /\ command' = [at |-> "recorded", attempt |-> files.attempt]
    BY <1>6 DEF ResumeCommitted
  <2>2. ReceiptOf(files.ledger, Len(files.ledger)) \in Receipt
    BY <1>1, <1>2, FilesFields, EmptyOrLast, ReceiptFields
  <2>3. /\ files' \in Files /\ survivors' \subseteq Files
        /\ files'.ledger = files.ledger /\ files'.attempt = files.attempt
        /\ files'.receipt = ReceiptOf(files.ledger, Len(files.ledger))
        /\ (\A g \in survivors : g = files) => \A f \in survivors' : f \in {files, files'}
    BY <1>1, <2>1, <2>2, PutReceiptEffect
  <2>4. command'.at = "recorded" /\ command'.attempt = files.attempt /\ command' \in Command
    BY <1>1, <2>1 DEF Command, Points
  <2>5. HeadAwaitsReceipt(files)
    BY <1>1, <1>2, <1>6 DEF Consistent, HeadIsBound
  <2>6. Good(files', stack, volume) /\ Proven(files', stack) /\ Bound(files') /\ Committed(files')
    BY <1>1, <1>2, <1>3, <2>3, <2>5, ReceiptIsBound DEF Inv
  <2>7. TypeOK'
    BY <1>1, <2>3, <2>4 DEF TypeOK
  <2>8. Working'
    BY <1>1, <1>2, <2>3, <2>4, <2>6 DEF Working, Uncommitted, At
  <2>9. ASSUME ~torn' PROVE Surviving'
    <3>1. \A f \in survivors' : Good(f, stack, volume) /\ f.ledger = files'.ledger
      BY <1>1, <1>4, <2>3, <2>6, <2>9 DEF Inv
    <3>2. QED
      BY <1>1, <2>4, <3>1 DEF Surviving, At
  <2>10. QED
    BY <1>1, <2>6, <2>7, <2>8, <2>9 DEF Inv
<1>7. QED
  BY <1>5, <1>6

(* A command takes an attempt up without writing: a v3 receipt proves it, or *)
(* its rollout is repeated.                                                 *)
LEMMA ResumeKeeps ==
  ASSUME Inv, ResumeLegacy \/ ResumeRollout
  PROVE  Inv'
<1>1. /\ TypeOK /\ files \in Files /\ At("idle") /\ files.attempt # NULL /\ files.attempt \in Attempt
      /\ Consistent(files) /\ UNCHANGED <<files, survivors, torn, stack, volume>>
  BY FilesFields DEF Inv, TypeOK, ResumeLegacy, ResumeRollout
<1>2. /\ command'.at \in {"clearing", "gates"} /\ command'.attempt = files.attempt
      /\ command' \in Command
      /\ command'.at = "clearing" => ~Committed(files) /\ LegacyCommitted(files)
      /\ command'.at = "gates" => MayResume(files)
  BY <1>1 DEF ResumeLegacy, ResumeRollout, Command, Points
<1>3. TypeOK'
  BY <1>1, <1>2 DEF TypeOK
<1>4. ASSUME command'.at = "clearing" PROVE Proven(files, stack) /\ files.ledger = << >>
  <2>1. Proven(files, stack)
    BY <1>1, <1>2, <1>4 DEF Inv, Good, Settled, Resumable, MayResume
  <2>2. ASSUME files.ledger # << >> PROVE FALSE
    <3>1. Bound(files)
      BY <1>1, <1>2, <1>4, <2>2 DEF Consistent, HeadIsBound, HeadAwaitsReceipt, JournalMatches, Committed
    <3>2. files.receipt.schema = "v4"
      BY <1>1, <2>2, <3>1, BoundReceipt
    <3>3. QED
      BY <1>2, <1>4, <3>2 DEF LegacyCommitted
  <2>3. QED
    BY <2>1, <2>2
<1>5. ASSUME command'.at = "gates" PROVE Resumable(files, stack, volume)
  BY <1>1, <1>2, <1>5, TakenUp DEF Inv
<1>6. Working'
  BY <1>1, <1>2, <1>4, <1>5 DEF Working, Uncommitted, At
<1>7. ASSUME ~torn' PROVE Surviving'
  BY <1>1, <1>2, <1>7 DEF Inv, Surviving, At
<1>8. QED
  BY <1>1, <1>3, <1>6, <1>7 DEF Inv

LEMMA CheckpointKeeps ==
  ASSUME Inv, PassEmptyVolumeGate
  PROVE  Inv'
<1> DEFINE passed == [files.attempt EXCEPT !.verified = TRUE]
<1>1. /\ TypeOK /\ files \in Files /\ At("gates") /\ UNCHANGED <<torn, stack, volume>>
      /\ PutAttempt(passed) /\ Proceed("checkpointed")
  BY DEF Inv, TypeOK, PassEmptyVolumeGate
<1>2. /\ Resumable(files, stack, volume) /\ command.attempt \in Attempt
      /\ command.attempt.id = files.attempt.id
      /\ command.attempt.operation = files.attempt.operation
      /\ command.attempt.base = files.attempt.base
      /\ command.attempt.target = files.attempt.target
  BY <1>1 DEF Inv, Working, Uncommitted, At
<1>3. passed \in Attempt
  BY <1>1, <1>2, FilesFields DEF Resumable, Attempt
<1>4. /\ files' \in Files /\ survivors' \subseteq Files
      /\ files'.ledger = files.ledger /\ files'.receipt = files.receipt
      /\ files'.attempt = passed
      /\ (\A g \in survivors : g = files) => \A f \in survivors' : f \in {files, files'}
  BY <1>1, <1>3, PutAttemptEffect
<1>5. command'.at = "checkpointed" /\ command'.attempt = command.attempt /\ command' \in Command
  BY <1>1, ProceedEffect DEF Points
<1>6. /\ Good(files', stack, volume) /\ Resumable(files', stack, volume) /\ files'.attempt.verified
      /\ files'.attempt.id = files.attempt.id /\ files'.attempt.operation = files.attempt.operation
      /\ files'.attempt.base = files.attempt.base /\ files'.attempt.target = files.attempt.target
  BY <1>1, <1>2, <1>4, Checkpointed DEF Inv
<1>7. TypeOK'
  BY <1>1, <1>4, <1>5 DEF TypeOK
<1>8. Working'
  BY <1>1, <1>2, <1>5, <1>6 DEF Working, Uncommitted, At
<1>9. ASSUME ~torn' PROVE Surviving'
  <2>1. \A f \in survivors : f = files
    BY <1>1, <1>9 DEF Inv, Surviving, At
  <2>2. \A f \in survivors' : Good(f, stack, volume) /\ f.ledger = files'.ledger
    BY <1>4, <1>6, <2>1 DEF Inv
  <2>3. QED
    BY <1>1, <1>5, <2>2 DEF Surviving, At
<1>10. QED
  BY <1>1, <1>6, <1>7, <1>8, <1>9 DEF Inv

LEMMA UpgradeGatesKeep ==
  ASSUME Inv, PassUpgradeGates
  PROVE  Inv'
<1>1. /\ TypeOK /\ At("gates") /\ UNCHANGED <<files, survivors, torn, stack, volume>>
      /\ Proceed("activating") /\ (command.attempt.base # NULL \/ command.attempt.verified)
  BY DEF Inv, PassUpgradeGates
<1>2. command'.at = "activating" /\ command'.attempt = command.attempt /\ command' \in Command
  BY <1>1, ProceedEffect DEF Points
<1>3. TypeOK'
  BY <1>1, <1>2 DEF TypeOK
<1>4. Working'
  BY <1>1, <1>2 DEF Inv, Working, Uncommitted, At
<1>5. ASSUME ~torn' PROVE Surviving'
  BY <1>1, <1>2, <1>5 DEF Inv, Surviving, At
<1>6. QED
  BY <1>1, <1>3, <1>4, <1>5 DEF Inv

LEMMA ActivateKeeps ==
  ASSUME Inv, Activate
  PROVE  Inv'
<1>1. /\ TypeOK /\ At("activating") /\ UNCHANGED <<files, survivors, torn>>
      /\ stack' = command.attempt.target /\ Proceed("activated")
      /\ volume' = IF volume = "empty" THEN "managed" ELSE volume
  BY DEF Inv, Activate
<1>2. command'.at = "activated" /\ command'.attempt = command.attempt /\ command' \in Command
  BY <1>1, ProceedEffect DEF Points
<1>3. /\ Resumable(files, stack, volume) /\ command.attempt \in Attempt
      /\ command.attempt.id = files.attempt.id
      /\ command.attempt.operation = files.attempt.operation
      /\ command.attempt.base = files.attempt.base
      /\ command.attempt.target = files.attempt.target
      /\ command.attempt.verified => files.attempt.verified
      /\ files.attempt.base = NULL => files.attempt.verified
  BY <1>1 DEF Inv, Working, Uncommitted, At
<1>4. TypeOK'
  BY <1>1, <1>2, <1>3 DEF TypeOK, Attempt
<1>5. Good(files', stack', volume') /\ Resumable(files', stack', volume')
  BY <1>1, <1>3, Activated DEF Inv
<1>6. Working'
  BY <1>1, <1>2, <1>3, <1>5 DEF Working, Uncommitted, At
<1>7. ASSUME ~torn' PROVE Surviving'
  BY <1>1, <1>2, <1>5, <1>7 DEF Inv, Surviving, At
<1>8. QED
  BY <1>4, <1>5, <1>6, <1>7 DEF Inv

LEMMA PublishKeeps ==
  ASSUME Inv, PublishEvent
  PROVE  Inv'
<1> DEFINE event == SuccessEvent(command.attempt)
<1>1. /\ TypeOK /\ files \in Files /\ At("activated") /\ UNCHANGED <<torn, stack, volume>>
      /\ PutEvent(event) /\ Proceed("published")
  BY DEF Inv, TypeOK, PublishEvent
<1>2. /\ Good(files, stack, volume) /\ Resumable(files, stack, volume)
      /\ command.attempt \in Attempt
      /\ command.attempt.id = files.attempt.id
      /\ command.attempt.operation = files.attempt.operation
      /\ command.attempt.target = files.attempt.target
      /\ stack = files.attempt.target
  BY <1>1 DEF Inv, Working, Uncommitted, At
<1>3. event = [operation |-> files.attempt.operation, attempt |-> files.attempt.id,
               base |-> ActiveRelease(files), release |-> files.attempt.target,
               previous |-> IF files.receipt = NULL THEN NULL
                            ELSE IF files.receipt.release = files.attempt.target
                                 THEN files.receipt.previous
                            ELSE files.receipt.release]
  BY <1>2 DEF SuccessEvent
<1>4. event \in Event
  <2>1. files.attempt \in Attempt
    BY <1>1, <1>2, FilesFields DEF Resumable
  <2>2. /\ files.attempt.id \in Attempts /\ files.attempt.operation \in Operations
        /\ files.attempt.target \in Releases
    BY <2>1 DEF Attempt
  <2>3. QED
    BY <1>1, <1>2, <1>3, <2>2, EventLinks DEF Good, Resumable, MayPublish
<1>5. /\ files' \in Files /\ survivors' \subseteq Files
      /\ files'.ledger = Append(files.ledger, event) /\ files'.receipt = files.receipt
      /\ files'.attempt = files.attempt
      /\ (\A g \in survivors : g = files) => \A f \in survivors' : f \in {files, files'}
  BY <1>1, <1>4, PutEventEffect
<1>6. /\ Good(files', stack, volume)
      /\ files'.ledger # << >> /\ HeadAwaitsReceipt(files') /\ Proven(files', stack)
  <2> HIDE DEF event
  <2>1. QED
    BY <1>1, <1>2, <1>3, <1>5, Published
<1>7. command'.at = "published" /\ command'.attempt = command.attempt /\ command' \in Command
  BY <1>1, ProceedEffect DEF Points
<1>8. TypeOK'
  BY <1>1, <1>5, <1>7 DEF TypeOK
<1>9. Working'
  BY <1>1, <1>2, <1>5, <1>6, <1>7 DEF Working, Uncommitted, At
<1>10. ASSUME ~torn' PROVE Surviving'
  <2>1. \A f \in survivors : f = files
    BY <1>1, <1>10 DEF Inv, Surviving, At
  <2>2. \A f \in survivors' : /\ Good(f, stack, volume)
                             /\ f.receipt = files'.receipt /\ f.attempt = files'.attempt
    BY <1>2, <1>5, <1>6, <2>1
  <2>3. QED
    BY <1>1, <1>7, <2>2 DEF Surviving, At
<1>11. QED
  BY <1>1, <1>6, <1>8, <1>9, <1>10 DEF Inv

LEMMA EventSyncedKeeps ==
  ASSUME Inv, EventSynced
  PROVE  Inv'
<1>1. /\ TypeOK /\ At("published") /\ SyncLedgerDirectory /\ Proceed("binding")
      /\ UNCHANGED <<torn, stack, volume>>
  BY DEF Inv, EventSynced
<1>2. /\ UNCHANGED files /\ survivors' \subseteq Files
      /\ (\A g \in survivors : g.receipt = files.receipt /\ g.attempt = files.attempt) =>
           \A f \in survivors' : f = files
  BY <1>1, SyncLedgerEffect
<1>3. command'.at = "binding" /\ command'.attempt = command.attempt /\ command' \in Command
  BY <1>1, ProceedEffect DEF Points
<1>4. TypeOK'
  BY <1>1, <1>2, <1>3 DEF TypeOK
<1>5. Working'
  BY <1>1, <1>2, <1>3 DEF Inv, Working, Uncommitted, At
<1>6. ASSUME ~torn' PROVE Surviving'
  <2>1. \A f \in survivors' : f = files
    BY <1>1, <1>2, <1>6 DEF Inv, Surviving, At
  <2>2. QED
    BY <1>1, <1>2, <1>3, <2>1 DEF Inv, Surviving, At
<1>7. QED
  BY <1>1, <1>2, <1>4, <1>5, <1>6 DEF Inv

LEMMA BindKeeps ==
  ASSUME Inv, BindReceipt
  PROVE  Inv'
<1>1. /\ TypeOK /\ files \in Files /\ At("binding") /\ UNCHANGED <<torn, stack, volume>>
      /\ PutReceipt(ReceiptOf(files.ledger, Len(files.ledger))) /\ Proceed("recorded")
  BY DEF Inv, TypeOK, BindReceipt
<1>2. /\ files.ledger # << >> /\ HeadAwaitsReceipt(files) /\ Proven(files, stack)
      /\ Good(files, stack, volume) /\ command.attempt \in Attempt
  BY <1>1 DEF Inv, Working, At
<1>3. ReceiptOf(files.ledger, Len(files.ledger)) \in Receipt
  BY <1>1, <1>2, FilesFields, EmptyOrLast, ReceiptFields
<1>4. /\ files' \in Files /\ survivors' \subseteq Files
      /\ files'.ledger = files.ledger /\ files'.attempt = files.attempt
      /\ files'.receipt = ReceiptOf(files.ledger, Len(files.ledger))
      /\ (\A g \in survivors : g = files) => \A f \in survivors' : f \in {files, files'}
  BY <1>1, <1>3, PutReceiptEffect
<1>5. command'.at = "recorded" /\ command'.attempt = command.attempt /\ command' \in Command
  BY <1>1, ProceedEffect DEF Points
<1>6. Good(files', stack, volume) /\ Proven(files', stack) /\ Bound(files') /\ Committed(files')
  BY <1>1, <1>2, <1>4, ReceiptIsBound
<1>7. TypeOK'
  BY <1>1, <1>4, <1>5 DEF TypeOK
<1>8. Working'
  BY <1>1, <1>2, <1>4, <1>5, <1>6 DEF Working, Uncommitted, At
<1>9. ASSUME ~torn' PROVE Surviving'
  <2>1. \A f \in survivors : f = files
    BY <1>1, <1>9 DEF Inv, Surviving, At
  <2>2. \A f \in survivors' : Good(f, stack, volume) /\ f.ledger = files'.ledger
    BY <1>2, <1>4, <1>6, <2>1
  <2>3. QED
    BY <1>1, <1>5, <2>2 DEF Surviving, At
<1>10. QED
  BY <1>1, <1>6, <1>7, <1>8, <1>9 DEF Inv

LEMMA ClearKeeps ==
  ASSUME Inv, ClearAttempt
  PROVE  Inv'
<1>1. /\ TypeOK /\ files \in Files /\ At("clearing") /\ UNCHANGED <<torn, stack, volume>>
      /\ PutAttempt(NULL) /\ Proceed("cleared")
  BY DEF Inv, TypeOK, ClearAttempt
<1>2. /\ Proven(files, stack) /\ Good(files, stack, volume) /\ command.attempt \in Attempt
      /\ \/ files.ledger # << >> /\ Bound(files) /\ Committed(files)
         \/ files.ledger = << >> /\ LegacyCommitted(files)
  BY <1>1 DEF Inv, Working, At
<1>3. /\ files' \in Files /\ survivors' \subseteq Files
      /\ files'.ledger = files.ledger /\ files'.receipt = files.receipt
      /\ files'.attempt = NULL
      /\ (\A g \in survivors : g = files) => \A f \in survivors' : f \in {files, files'}
  BY <1>1, PutAttemptEffect
<1>4. command'.at = "cleared" /\ command'.attempt = command.attempt /\ command' \in Command
  BY <1>1, ProceedEffect DEF Points
<1>5. Good(files', stack, volume)
  BY <1>1, <1>2, <1>3, Cleared
<1>6. TypeOK'
  BY <1>1, <1>3, <1>4 DEF TypeOK
<1>7. Working'
  BY <1>1, <1>2, <1>3, <1>4 DEF Working, Uncommitted, At
<1>8. ASSUME ~torn' PROVE Surviving'
  <2>1. \A f \in survivors : f = files
    BY <1>1, <1>8 DEF Inv, Surviving, At
  <2>2. \A f \in survivors' : Good(f, stack, volume) /\ f.ledger = files'.ledger
    BY <1>2, <1>3, <1>5, <2>1
  <2>3. QED
    BY <1>1, <1>4, <2>2 DEF Surviving, At
<1>9. QED
  BY <1>1, <1>5, <1>6, <1>7, <1>8 DEF Inv

(* Kills, write-back and power losses: what is not torn is what is read.    *)
LEMMA FailuresKeep ==
  ASSUME Inv, ~PowerLossAfterKill, Interrupt \/ WriteBack \/ PowerLoss
  PROVE  Inv'
<1>1. CASE Interrupt
  <2>1. /\ command' = Idle /\ torn' = (torn \/ survivors # {files})
        /\ UNCHANGED <<files, survivors, stack, volume>>
    BY <1>1 DEF Interrupt
  <2>2. command'.at = "idle" /\ command' \in Command
    BY <2>1 DEF Idle, Command, Points
  <2>3. TypeOK'
    BY <2>1, <2>2 DEF Inv, TypeOK
  <2>4. Good(files', stack', volume') /\ Working'
    BY <2>1, <2>2 DEF Inv, Working, Uncommitted, At
  <2>5. ASSUME ~torn' PROVE Surviving'
    BY <2>1, <2>2, <2>4, <2>5 DEF Surviving, At
  <2>6. QED
    BY <2>3, <2>4, <2>5 DEF Inv
<1>2. CASE WriteBack
  <2>1. /\ survivors' = {files} /\ torn' = FALSE
        /\ UNCHANGED <<files, command, stack, volume>>
    BY <1>2 DEF WriteBack
  <2>2. TypeOK'
    BY <2>1 DEF Inv, TypeOK
  <2>3. Good(files', stack', volume') /\ Working'
    BY <2>1 DEF Inv, Working, Uncommitted, At
  <2>4. Surviving'
    BY <2>1, <2>3 DEF Surviving, At
  <2>5. QED
    BY <2>2, <2>3, <2>4 DEF Inv
<1>3. CASE PowerLoss
  <2>1. PICK f \in survivors : files' = f /\ survivors' = {f}
    BY <1>3 DEF PowerLoss
  <2>2. ~torn /\ command' = Idle /\ UNCHANGED <<torn, stack, volume>>
    BY <1>3 DEF PowerLoss
  <2>3. command'.at = "idle" /\ command' \in Command
    BY <2>2 DEF Idle, Command, Points
  <2>4. Good(f, stack, volume)
    BY <2>2 DEF Inv, Surviving
  <2>5. TypeOK'
    BY <2>1, <2>2, <2>3 DEF Inv, TypeOK
  <2>6. Good(files', stack', volume') /\ Working'
    BY <2>1, <2>2, <2>3, <2>4 DEF Working, Uncommitted, At
  <2>7. Surviving'
    BY <2>1, <2>3, <2>6 DEF Surviving, At
  <2>8. QED
    BY <2>5, <2>6, <2>7 DEF Inv
<1>4. QED
  BY <1>1, <1>2, <1>3

-----------------------------------------------------------------------------
(* The specification.                                                       *)

LEMMA InitHolds ==
  ASSUME Init
  PROVE  Inv
<1>1. /\ survivors = {files} /\ torn = FALSE /\ command = Idle /\ stack = ActiveRelease(files)
      /\ files.ledger = << >> /\ volume \in {"empty", "unmanaged", "managed"}
  BY DEF Init
<1>2. At("idle") /\ command \in Command /\ ChainValid(files.ledger)
  BY <1>1, EmptySeq DEF At, Idle, Command, Points, ChainValid
<1>3. files \in Files /\ Good(files, stack, volume)
  <2>1. CASE /\ files = [ledger |-> << >>, receipt |-> NULL, attempt |-> NULL]
             /\ volume \in {"empty", "unmanaged"}
    <3>1. files.receipt = NULL /\ files.attempt = NULL
      BY <2>1
    <3>2. Consistent(files)
      BY <1>1, <1>2, <3>1 DEF Consistent, BeforeFirstEvent
    <3>3. files \in Files
      BY <2>1, EmptySeq DEF Files
    <3>4. QED
      BY <1>1, <2>1, <3>1, <3>2, <3>3 DEF Good, Settled
  <2>2. ASSUME NEW r \in LegacyReceipts, NEW a \in LegacyJournals(r),
               files = [ledger |-> << >>, receipt |-> r, attempt |-> a]
        PROVE  files \in Files /\ Good(files, stack, volume)
    <3>1. files.receipt = r /\ files.attempt = a
      BY <2>2
    <3>2. r \in Receipt /\ r.schema \in {"v2", "v3"} /\ r.previous # r.release
      BY DEF LegacyReceipts, Receipt
    <3>3. r # NULL
      BY <3>2, DeploymentAssumption
    <3>4. a # NULL => a \in Attempt /\ LegacyCommitted(files)
      BY <2>2 DEF LegacyJournals
    <3>5. files \in Files
      BY <2>2, <3>2, <3>4, EmptySeq DEF Files
    <3>6. Consistent(files)
      BY <1>1, <1>2, <3>1, <3>2, <3>4 DEF Consistent, BeforeFirstEvent
    <3>7. CASE a = NULL
      BY <1>1, <3>1, <3>2, <3>3, <3>5, <3>6, <3>7 DEF Good, Settled
    <3>8. CASE a # NULL
      <4>1. LegacyCommitted(files) /\ stack = files.attempt.target
        BY <1>1, <3>3, <3>1, <3>4, <3>8 DEF LegacyCommitted, ActiveRelease
      <4>2. QED
        BY <3>1, <3>2, <3>5, <3>6, <3>8, <4>1 DEF Good, Proven
    <3>9. QED
      BY <3>7, <3>8
  <2>3. QED
    BY <2>1, <2>2 DEF Init
<1>4. TypeOK
  BY <1>1, <1>2, <1>3, ActiveIsNull DEF TypeOK
<1>5. Working
  BY <1>2 DEF Working, Uncommitted, At
<1>6. Surviving
  BY <1>1, <1>2, <1>3 DEF Surviving, At
<1>7. QED
  BY <1>3, <1>4, <1>5, <1>6 DEF Inv

LEMMA StepKeeps ==
  ASSUME Inv, ~PowerLossAfterKill, [Next]_vars
  PROVE  Inv'
<1>1. CASE \E a \in Attempts, operation \in Operations, target \in Releases :
             PrepareAttempt(a, operation, target)
  BY <1>1, PrepareKeeps
<1>2. CASE AttemptSynced \/ CheckpointSynced \/ ReceiptSynced \/ ClearanceSynced
  BY <1>2, StateSyncedKeeps DEF AttemptSynced, CheckpointSynced, ReceiptSynced, ClearanceSynced
<1>3. CASE ResumeCommitted
  BY <1>3, ResumeCommittedKeeps
<1>4. CASE ResumeLegacy \/ ResumeRollout
  BY <1>4, ResumeKeeps
<1>5. CASE PassEmptyVolumeGate
  BY <1>5, CheckpointKeeps
<1>6. CASE PassUpgradeGates
  BY <1>6, UpgradeGatesKeep
<1>7. CASE Activate
  BY <1>7, ActivateKeeps
<1>8. CASE PublishEvent
  BY <1>8, PublishKeeps
<1>9. CASE EventSynced
  BY <1>9, EventSyncedKeeps
<1>10. CASE BindReceipt
  BY <1>10, BindKeeps
<1>11. CASE ClearAttempt
  BY <1>11, ClearKeeps
<1>12. CASE Interrupt \/ WriteBack \/ PowerLoss
  BY <1>12, FailuresKeep
<1>13. CASE UNCHANGED vars
  BY <1>13 DEF vars, Inv, TypeOK, Working, Surviving, At, Uncommitted
<1>14. QED
  BY <1>1, <1>2, <1>3, <1>4, <1>5, <1>6, <1>7, <1>8, <1>9, <1>10, <1>11, <1>12, <1>13 DEF Next

LEMMA DirectoryIsGood ==
  ASSUME ~PowerLossAfterKill
  PROVE  Spec => []Inv
<1>1. Init => Inv
  BY InitHolds
<1>2. Inv /\ [Next]_vars => Inv'
  BY StepKeeps
<1>3. QED
  BY <1>1, <1>2, PTL DEF Spec

(* No interruption of a rollout between two of its writes, by a failure, a  *)
(* kill or a power loss, leaves ledger, receipt and journal in a state that *)
(* validate_consistency refuses.                                            *)
THEOREM DirectoryStaysConsistent ==
  ASSUME ~PowerLossAfterKill
  PROVE  Spec => []StateStaysConsistent
<1>1. Inv => StateStaysConsistent
  BY DEF Inv, Good, StateStaysConsistent
<1>2. QED
  BY <1>1, DirectoryIsGood, PTL

(* The containers that run are those the receipt records, or, while a       *)
(* journal is left, those of its base or of its target.                     *)
THEOREM RunningReleaseStaysRecorded ==
  ASSUME ~PowerLossAfterKill
  PROVE  Spec => []RunningReleaseIsRecorded
<1>1. Inv => RunningReleaseIsRecorded
  BY DEF Inv, Good, Settled, Resumable, Proven, RunningReleaseIsRecorded
<1>2. QED
  BY <1>1, DirectoryIsGood, PTL

(* deploy_release --resume never meets a dead end: the journal it finds is  *)
(* proven, or every gate on its way to the publication accepts it.          *)
THEOREM ResumptionIsNoDeadEnd ==
  ASSUME ~PowerLossAfterKill
  PROVE  Spec => []InterruptedAttemptCanResume
<1>1. Inv => InterruptedAttemptCanResume
  BY DEF Inv, Good, Settled, Resumable, Proven, InterruptedAttemptCanResume
<1>2. QED
  BY <1>1, DirectoryIsGood, PTL

-----------------------------------------------------------------------------
(* What holds even when the host loses power right after a kill.            *)

(* What the command at work has read or written.                            *)
Carrying ==
  /\ ~At("idle") => command.attempt \in Attempt
  /\ command.at \in {"journalled", "gates"} => files.attempt # NULL
  /\ command.at \in {"published", "binding"} => files.ledger # << >>

(* The first attempt on a host whose database no rollout created stays in   *)
(* front of the empty-volume gate.                                          *)
Untouched(f) ==
  /\ f.ledger = << >> /\ f.receipt = NULL
  /\ f.attempt # NULL => f.attempt.base = NULL /\ ~f.attempt.verified

Refused ==
  volume = "unmanaged" =>
    /\ stack = NULL
    /\ \A f \in survivors \cup {files} : Untouched(f)
    /\ command.at \in {"idle", "journalled", "gates"}
    /\ command.at # "idle" => command.attempt.base = NULL /\ ~command.attempt.verified

LEMMA TypesStep ==
  ASSUME TypeOK, Carrying, [Next]_vars
  PROVE  TypeOK' /\ Carrying'
<1> USE DEF TypeOK, Carrying
<1>1. ASSUME NEW a \in Attempts, NEW operation \in Operations, NEW target \in Releases,
             PrepareAttempt(a, operation, target)
      PROVE  TypeOK' /\ Carrying'
  <2>1. NewAttempt(a, operation, target) \in Attempt
    BY ActiveIsNull DEF NewAttempt, Attempt
  <2>2. files' \in Files /\ survivors' \subseteq Files /\ files'.attempt # NULL
    BY <1>1, <2>1, PutAttemptEffect, DeploymentAssumption DEF PrepareAttempt
  <2>3. /\ command'.at = "journalled" /\ command'.attempt \in Attempt /\ command' \in Command
        /\ UNCHANGED <<torn, stack, volume>>
    BY <1>1, <2>1 DEF PrepareAttempt, Command, Points
  <2>4. QED
    BY <2>2, <2>3 DEF At
<1>2. CASE AttemptSynced \/ CheckpointSynced \/ ReceiptSynced \/ ClearanceSynced
  <2>1. /\ UNCHANGED <<files, torn, stack, volume>> /\ survivors' \subseteq Files
    BY <1>2, SyncStateEffect DEF AttemptSynced, CheckpointSynced, ReceiptSynced, ClearanceSynced
  <2>2. /\ command' \in Command
        /\ \/ command'.at = "idle"
           \/ /\ command'.at = "gates" /\ At("journalled") /\ command'.attempt = command.attempt
           \/ /\ command'.at \in {"activating", "clearing"} /\ ~At("idle")
              /\ command'.attempt = command.attempt
    BY <1>2, ProceedEffect
       DEF AttemptSynced, CheckpointSynced, ReceiptSynced, ClearanceSynced, Idle, Command, Points, At
  <2>3. QED
    BY <2>1, <2>2 DEF At
<1>3. CASE ResumeCommitted
  <2>1. files.attempt \in Attempt /\ files.ledger # << >>
    BY <1>3, FilesFields DEF ResumeCommitted, Committed
  <2>2. files' \in Files /\ survivors' \subseteq Files
    <3>1. ReceiptOf(files.ledger, Len(files.ledger)) \in Receipt
      BY <2>1, FilesFields, EmptyOrLast, ReceiptFields
    <3>2. QED
      BY <1>3, <3>1, PutReceiptEffect DEF ResumeCommitted
  <2>3. /\ command'.at \in {"clearing", "recorded"} /\ command'.attempt = files.attempt
        /\ command' \in Command /\ UNCHANGED <<torn, stack, volume>>
    BY <1>3, <2>1 DEF ResumeCommitted, Command, Points
  <2>4. QED
    BY <2>1, <2>2, <2>3 DEF At
<1>4. CASE ResumeLegacy \/ ResumeRollout
  <2>1. files.attempt \in Attempt /\ files.attempt # NULL
    BY <1>4, FilesFields DEF ResumeLegacy, ResumeRollout
  <2>2. /\ command'.at \in {"clearing", "gates"} /\ command'.attempt = files.attempt
        /\ command' \in Command /\ UNCHANGED <<files, survivors, torn, stack, volume>>
    BY <1>4, <2>1 DEF ResumeLegacy, ResumeRollout, Command, Points
  <2>3. QED
    BY <2>1, <2>2 DEF At
<1>5. CASE PassEmptyVolumeGate
  <2>1. files.attempt \in Attempt /\ command.attempt \in Attempt
    BY <1>5, FilesFields DEF PassEmptyVolumeGate, At
  <2>2. [files.attempt EXCEPT !.verified = TRUE] \in Attempt
    BY <2>1 DEF Attempt
  <2>3. files' \in Files /\ survivors' \subseteq Files
    BY <1>5, <2>2, PutAttemptEffect DEF PassEmptyVolumeGate
  <2>4. /\ command'.at = "checkpointed" /\ command'.attempt = command.attempt
        /\ command' \in Command /\ UNCHANGED <<torn, stack, volume>>
    BY <1>5, ProceedEffect DEF PassEmptyVolumeGate, Points
  <2>5. QED
    BY <2>1, <2>3, <2>4 DEF At
<1>6. CASE PassUpgradeGates \/ Activate
  <2>1. /\ command'.at \in {"activating", "activated"} /\ command'.attempt = command.attempt
        /\ command' \in Command /\ ~At("idle")
    BY <1>6, ProceedEffect DEF PassUpgradeGates, Activate, Points, At
  <2>2. UNCHANGED <<files, survivors, torn>> /\ volume' \in {"empty", "unmanaged", "managed"}
    BY <1>6 DEF PassUpgradeGates, Activate
  <2>3. command.attempt.target \in Releases /\ stack' \in Releases \cup {NULL}
    BY <1>6, <2>1 DEF PassUpgradeGates, Activate, Attempt
  <2>4. QED
    BY <2>1, <2>2, <2>3 DEF At
<1>7. CASE PublishEvent
  <2>1. /\ command.attempt.id \in Attempts /\ command.attempt.operation \in Operations
        /\ command.attempt.target \in Releases
    BY <1>7 DEF PublishEvent, At, Attempt
  <2>2. files.receipt # NULL => files.receipt.release \in Releases
                                /\ files.receipt.previous \in Releases \cup {NULL}
    BY FilesFields DEF Receipt
  <2>3. SuccessEvent(command.attempt) \in Event
    BY <2>1, <2>2, ActiveIsNull DEF SuccessEvent, Event
  <2>4. files' \in Files /\ survivors' \subseteq Files
        /\ files'.ledger = Append(files.ledger, SuccessEvent(command.attempt))
    BY <1>7, <2>3, PutEventEffect DEF PublishEvent
  <2>5. files'.ledger # << >>
    BY <2>3, <2>4, FilesFields, AppendProperties
  <2>6. /\ command'.at = "published" /\ command'.attempt = command.attempt /\ ~At("idle")
        /\ command' \in Command /\ UNCHANGED <<torn, stack, volume>>
    BY <1>7, ProceedEffect DEF PublishEvent, Points, At
  <2>7. QED
    BY <2>4, <2>5, <2>6 DEF At
<1>8. CASE EventSynced
  <2>1. UNCHANGED <<files, torn, stack, volume>> /\ survivors' \subseteq Files
    BY <1>8, SyncLedgerEffect DEF EventSynced
  <2>2. /\ command'.at = "binding" /\ command'.attempt = command.attempt
        /\ command' \in Command /\ At("published")
    BY <1>8, ProceedEffect DEF EventSynced, Points
  <2>3. QED
    BY <2>1, <2>2 DEF At
<1>9. CASE BindReceipt
  <2>1. ReceiptOf(files.ledger, Len(files.ledger)) \in Receipt
    BY <1>9, FilesFields, EmptyOrLast, ReceiptFields DEF BindReceipt, At
  <2>2. files' \in Files /\ survivors' \subseteq Files
    BY <1>9, <2>1, PutReceiptEffect DEF BindReceipt
  <2>3. /\ command'.at = "recorded" /\ command'.attempt = command.attempt /\ ~At("idle")
        /\ command' \in Command /\ UNCHANGED <<torn, stack, volume>>
    BY <1>9, ProceedEffect DEF BindReceipt, Points, At
  <2>4. QED
    BY <2>2, <2>3 DEF At
<1>10. CASE ClearAttempt
  <2>1. files' \in Files /\ survivors' \subseteq Files
    BY <1>10, PutAttemptEffect DEF ClearAttempt
  <2>2. /\ command'.at = "cleared" /\ command'.attempt = command.attempt /\ ~At("idle")
        /\ command' \in Command /\ UNCHANGED <<torn, stack, volume>>
    BY <1>10, ProceedEffect DEF ClearAttempt, Points, At
  <2>3. QED
    BY <2>1, <2>2 DEF At
<1>11. CASE Interrupt \/ PowerLoss
  <2>1. command'.at = "idle" /\ command' \in Command /\ UNCHANGED <<stack, volume>>
    BY <1>11 DEF Interrupt, PowerLoss, Idle, Command, Points
  <2>2. files' \in Files /\ survivors' \subseteq Files /\ torn' \in BOOLEAN
    BY <1>11 DEF Interrupt, PowerLoss
  <2>3. QED
    BY <2>1, <2>2 DEF At
<1>12. CASE WriteBack
  BY <1>12 DEF WriteBack, At
<1>13. CASE UNCHANGED vars
  BY <1>13 DEF vars, At
<1>14. QED
  BY <1>1, <1>2, <1>3, <1>4, <1>5, <1>6, <1>7, <1>8, <1>9, <1>10, <1>11, <1>12, <1>13 DEF Next

LEMMA RefusedStep ==
  ASSUME TypeOK, Carrying, Refused, [Next]_vars
  PROVE  Refused'
<1> SUFFICES ASSUME volume' = "unmanaged"
             PROVE  /\ stack' = NULL
                    /\ \A f \in survivors' \cup {files'} : Untouched(f)
                    /\ command'.at \in {"idle", "journalled", "gates"}
                    /\ command'.at # "idle" =>
                         command'.attempt.base = NULL /\ ~command'.attempt.verified
  BY DEF Refused
<1>1. volume = "unmanaged"
  BY DEF Next, vars, PrepareAttempt, AttemptSynced, ResumeCommitted, ResumeLegacy, ResumeRollout,
         PassEmptyVolumeGate, CheckpointSynced, PassUpgradeGates, Activate, PublishEvent,
         EventSynced, BindReceipt, ReceiptSynced, ClearAttempt, ClearanceSynced,
         Interrupt, WriteBack, PowerLoss
<1>2. /\ stack = NULL
      /\ \A f \in survivors \cup {files} : Untouched(f)
      /\ command.at \in {"idle", "journalled", "gates"}
      /\ command.at # "idle" => command.attempt.base = NULL /\ ~command.attempt.verified
  BY <1>1 DEF Refused
<1>3. files \in Files /\ survivors \subseteq Files
  BY DEF TypeOK
<1>4. ASSUME NEW a \in Attempts, NEW operation \in Operations, NEW target \in Releases,
             PrepareAttempt(a, operation, target)
      PROVE  /\ stack' = NULL
             /\ \A f \in survivors' \cup {files'} : Untouched(f)
             /\ command'.at \in {"idle", "journalled", "gates"}
             /\ command'.attempt.base = NULL /\ ~command'.attempt.verified
  <2>1. ActiveRelease(files) = NULL
    BY <1>2 DEF Untouched, ActiveRelease
  <2> DEFINE started == NewAttempt(a, operation, target)
  <2>2. started.base = NULL /\ ~started.verified
    BY <2>1 DEF NewAttempt
  <2> HIDE DEF started
  <2>3. /\ files' = [files EXCEPT !.attempt = started]
        /\ survivors' = survivors \cup {[f EXCEPT !.attempt = started] : f \in survivors}
    BY <1>4 DEF PrepareAttempt, PutAttempt, started
  <2>4. \A f \in survivors \cup {files} : Untouched([f EXCEPT !.attempt = started])
    BY <1>2, <1>3, <2>2 DEF Untouched, Files
  <2>5. command' = [at |-> "journalled", attempt |-> started] /\ UNCHANGED stack
    BY <1>4 DEF PrepareAttempt, started
  <2>6. QED
    BY <1>2, <2>2, <2>3, <2>4, <2>5
<1>5. CASE AttemptSynced
  <2>1. /\ UNCHANGED files
        /\ \A f \in survivors' : \E g \in survivors : f = [files EXCEPT !.ledger = g.ledger]
    BY <1>5, SyncStateEffect DEF AttemptSynced
  <2>2. \A g \in survivors : Untouched([files EXCEPT !.ledger = g.ledger])
    BY <1>2, <1>3 DEF Untouched, Files
  <2>3. command'.at = "gates" /\ command'.attempt = command.attempt /\ At("journalled")
        /\ UNCHANGED stack
    BY <1>5, ProceedEffect DEF AttemptSynced, Points
  <2>4. QED
    BY <1>2, <2>1, <2>2, <2>3 DEF At
<1>6. ~ResumeCommitted /\ ~ResumeLegacy
  BY <1>2 DEF ResumeCommitted, ResumeLegacy, Committed, LegacyCommitted, Untouched
<1>7. CASE ResumeRollout
  BY <1>2, <1>7 DEF ResumeRollout, Untouched
<1>8. ~PassEmptyVolumeGate /\ ~PassUpgradeGates
  BY <1>1, <1>2 DEF PassEmptyVolumeGate, PassUpgradeGates, At
<1>9. /\ ~CheckpointSynced /\ ~Activate /\ ~PublishEvent /\ ~EventSynced /\ ~BindReceipt
      /\ ~ReceiptSynced /\ ~ClearAttempt /\ ~ClearanceSynced
  BY <1>2 DEF CheckpointSynced, Activate, PublishEvent, EventSynced, BindReceipt,
              ReceiptSynced, ClearAttempt, ClearanceSynced, At
<1>10. CASE Interrupt \/ WriteBack \/ PowerLoss
  BY <1>2, <1>10 DEF Interrupt, WriteBack, PowerLoss, Idle
<1>11. CASE UNCHANGED vars
  BY <1>2, <1>11 DEF vars
<1>12. QED
  BY <1>4, <1>5, <1>6, <1>7, <1>8, <1>9, <1>10, <1>11 DEF Next

LEMMA DirectoryTypes == Spec => [](TypeOK /\ Carrying)
<1>1. Init => TypeOK /\ Carrying
  <2>1. Init => TypeOK
    BY InitHolds DEF Inv
  <2>2. Init => command.at = "idle"
    BY DEF Init, Idle
  <2>3. QED
    BY <2>1, <2>2 DEF Carrying, At
<1>2. (TypeOK /\ Carrying) /\ [Next]_vars => (TypeOK /\ Carrying)'
  BY TypesStep
<1>3. QED
  BY <1>1, <1>2, PTL DEF Spec

(* The files of the directory and the command keep their types.             *)
THEOREM DeploymentTypesAreKept == Spec => []TypeOK
BY DirectoryTypes, PTL

(* A database that no rollout created is never put under an installation,   *)
(* however often its first attempt is killed and resumed and whatever the   *)
(* power losses leave of the directory.                                     *)
THEOREM UnmanagedDatabaseStaysRefused == Spec => []UnmanagedDatabaseIsRefused
<1>1. Init => Refused
  <2> SUFFICES ASSUME Init, volume = "unmanaged" PROVE Refused
    BY DEF Refused
  <2>1. /\ files = [ledger |-> << >>, receipt |-> NULL, attempt |-> NULL]
        /\ survivors = {files} /\ command = Idle /\ stack = ActiveRelease(files)
    BY DEF Init
  <2>2. files.ledger = << >> /\ files.receipt = NULL /\ files.attempt = NULL
    BY <2>1
  <2>3. QED
    BY <2>1, <2>2 DEF Refused, Untouched, ActiveRelease, Idle
<1>2. (TypeOK /\ Carrying) /\ Refused /\ [Next]_vars => Refused'
  BY RefusedStep
<1>3. Refused => UnmanagedDatabaseIsRefused
  BY DEF Refused, UnmanagedDatabaseIsRefused
<1>4. QED
  BY <1>1, <1>2, <1>3, DirectoryTypes, PTL DEF Spec
=============================================================================
