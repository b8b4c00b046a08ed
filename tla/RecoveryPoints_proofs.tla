----------------------- MODULE RecoveryPoints_proofs -----------------------
(***************************************************************************)
(* The recovery points survive the publication and the retention, killed   *)
(* after any of their steps, for every retention, every set of writers and *)
(* releases and every number of points.                                    *)
(***************************************************************************)
EXTENDS RecoveryPoints, FiniteSetTheorems, Functions, WellFoundedInduction, TLAPS

(* The directory of the backups and those that read it.                     *)
BackupTypes ==
  /\ copies \in Nat /\ backups \subseteq 1..copies
  /\ heartbeat \in Copy /\ status \in Copy
  /\ writer \in [Writers -> WriterRun]
  /\ \A w \in Writers : ~WriterAt(w, "idle") => writer[w].backup \in 1..copies
  /\ drill \in DrillRun
  /\ drill.at # "idle" => drill.backup \in 1..copies

(* The root of the points and the command that holds its lock.              *)
RootTypes ==
  /\ points \subseteq Point /\ IsFiniteSet(points)
  /\ published \in Nat
  /\ pointer \in {NoFile} \cup 1..published
  /\ debris \in BOOLEAN
  /\ export \in ExportRun
  /\ export.at \in Binding => export.release \in PointReleases
  /\ export.at \in Binding \ {"staged"} => export.backup \in Nat

(* Every publication takes a number of its own.                             *)
Numbered ==
  /\ \A p \in points : p.n \in 1..published
  /\ \A p, q \in points : p.n = q.n => p = q
  /\ Cardinality(points) <= published

(* The whole points that the retention at work does not take.               *)
Kept == {p \in points : p.whole /\ p.n \notin export.expired}

EnoughKept == Cardinality(Kept) >= PointRetention \/ Cardinality(Kept) = published
PointerKept == pointer # NoFile => \E p \in Kept : p.n = pointer

(* Only the retention dismantles, and it starts from a published pointer.   *)
Phases ==
  /\ export.at # "pruning" => export.expired = {}
  /\ export.at \in Binding \cup {"published", "pointed"} => \A p \in points : p.whole
  /\ export.at = "published" => \E p \in points : p.n = published
  /\ export.at = "pointed" => pointer = published

(* The periodic exporter holds the release of the point it verified.        *)
Inherited ==
  export.at \in Binding \cup {"published"} /\ export.periodic =>
    /\ pointer # NoFile
    /\ \A p \in points : p.n = pointer => p.release = export.release

RootInv == RootTypes /\ Numbered /\ EnoughKept /\ PointerKept /\ Phases /\ Inherited

-----------------------------------------------------------------------------
(* Newest and the numbers of the points.                                    *)

(* A nonempty set of bounded numbers has a greatest element.                *)
LEMMA HasGreatest ==
  ASSUME NEW b \in Nat, NEW S \in SUBSET (1..b), S # {}
  PROVE  \E f \in S : \A g \in S : g <= f
<1> DEFINE D == {d \in Nat : \E x \in S : x = b - d}
<1>1. D \subseteq Nat /\ D # {}
  <2>1. PICK x \in S : TRUE
    OBVIOUS
  <2>2. b - x \in Nat /\ x = b - (b - x)
    OBVIOUS
  <2>3. b - x \in D
    BY <2>1, <2>2
  <2>4. QED
    BY <2>3
<1>2. \E d \in D : \A e \in D : ~(<<e, d>> \in OpToRel(<, Nat))
  BY <1>1, NatLessThanWellFounded, WFMin
<1>3. PICK d \in D : \A e \in D : ~(e < d)
  BY <1>1, <1>2 DEF OpToRel
<1>4. PICK f \in S : f = b - d
  BY <1>3
<1>5. \A g \in S : g <= f
  <2> SUFFICES ASSUME NEW g \in S, g > f PROVE FALSE
    OBVIOUS
  <2>1. b - g \in Nat /\ g = b - (b - g) /\ b - g < d
    BY <1>1, <1>3, <1>4
  <2>2. b - g \in D
    BY <2>1
  <2>3. QED
    BY <1>3, <2>1, <2>2
<1>6. QED
  BY <1>5

(* The n newest of a set are all of it, or at least n.                      *)
LEMMA NewestSize ==
  ASSUME NEW b \in Nat, NEW S \in SUBSET (1..b), NEW n \in Nat
  PROVE  /\ Newest(S, n) \subseteq S
         /\ Newest(S, n) = S \/ Cardinality(Newest(S, n)) >= n
<1>1. Newest(S, n) \subseteq S
  BY DEF Newest
<1> SUFFICES ASSUME Newest(S, n) # S PROVE Cardinality(Newest(S, n)) >= n
  BY <1>1
<1>2. PICK f \in S \ Newest(S, n) : \A g \in S \ Newest(S, n) : g <= f
  BY <1>1, HasGreatest
<1> DEFINE Above == {g \in S : g > f}
<1>3. IsFiniteSet(S)
  <2>1. IsFiniteSet(1..b)
    BY FS_Interval
  <2>2. QED
    BY <2>1, FS_Subset
<1>4. IsFiniteSet(Above) /\ IsFiniteSet(Newest(S, n))
  <2>1. Above \in SUBSET S /\ Newest(S, n) \in SUBSET S
    BY <1>1
  <2>2. QED
    BY <1>3, <2>1, FS_Subset
<1>5. Cardinality(Above) \in Nat /\ Cardinality(Newest(S, n)) \in Nat
  BY <1>4, FS_CardinalityType
<1>6. Cardinality(Above) >= n
  BY <1>2, <1>5 DEF Newest
<1>7. Above \in SUBSET Newest(S, n)
  <2>1. ASSUME NEW g \in S, g > f PROVE g \in Newest(S, n)
    <3>1. f \in Nat /\ g \in Nat /\ ~(g <= f)
      BY <1>2, <2>1
    <3>2. QED
      BY <1>2, <3>1
  <2>2. QED
    BY <2>1
<1>8. Cardinality(Above) <= Cardinality(Newest(S, n))
  BY <1>4, <1>7, FS_Subset
<1>9. QED
  BY <1>5, <1>6, <1>8

(* As many points as numbers, and one point more by another number.         *)
LEMMA PointsOfNumbers ==
  ASSUME NEW P, IsFiniteSet(P), NEW M \in SUBSET {p.n : p \in P}
  PROVE  Cardinality({p \in P : p.n \in M}) >= Cardinality(M)
<1> DEFINE Q == {p \in P : p.n \in M}
           f == [p \in Q |-> p.n]
<1>1. IsFiniteSet(Q)
  BY FS_Subset
<1>2. f \in Surjection(Q, M)
  BY DEF Surjection
<1>3. IsFiniteSet(M) /\ Cardinality(M) <= Cardinality(Q)
  BY <1>1, <1>2, FS_Surjection
<1>4. Cardinality(M) \in Nat /\ Cardinality(Q) \in Nat
  BY <1>1, <1>3, FS_CardinalityType
<1>5. QED
  BY <1>3, <1>4

(* The retention never takes the point it has just published, and it takes  *)
(* no point or leaves as many as it was asked for.                          *)
LEMMA RetentionLeavesEnough ==
  ASSUME RootTypes, Numbered, \E p \in points : p.n = published
  PROVE  LET left == {p \in points : p.n \notin ExpiredPoints}
         IN  /\ published \notin ExpiredPoints
             /\ left = points \/ Cardinality(left) >= PointRetention
<1> DEFINE Names == {p.n : p \in points}
           Rest == Names \ {published}
           New == Newest(Rest, PointRetention - 1)
           M == {published} \cup New
           left == {p \in points : p.n \notin ExpiredPoints}
<1>1. PointRetention \in Nat /\ PointRetention - 1 \in Nat /\ published \in Nat
  BY RecoveryAssumption DEF RootTypes
<1>2. Names \subseteq 1..published
  BY DEF Numbered
<1>3. /\ New \subseteq Rest
      /\ New = Rest \/ Cardinality(New) >= PointRetention - 1
  BY <1>1, <1>2, NewestSize
<1>4. ExpiredPoints = Names \ M
  BY DEF ExpiredPoints
<1>5. left = {p \in points : p.n \in M}
  BY <1>4
<1>6. published \notin ExpiredPoints
  BY <1>4
<1>7. ASSUME New = Rest PROVE left = points
  BY <1>4, <1>7
<1>8. ASSUME Cardinality(New) >= PointRetention - 1
      PROVE  Cardinality(left) >= PointRetention
  <2>1. M \in SUBSET Names
    BY <1>3
  <2>2. IsFiniteSet(points)
    BY DEF RootTypes
  <2>3. Cardinality(left) >= Cardinality(M)
    <3> HIDE DEF M
    <3>1. Cardinality({p \in points : p.n \in M}) >= Cardinality(M)
      BY <2>1, <2>2, PointsOfNumbers
    <3>2. QED
      BY <1>5, <3>1
  <2>4. IsFiniteSet(New) /\ published \notin New
    <3>1. New \in SUBSET (1..published)
      BY <1>2, <1>3
    <3>2. IsFiniteSet(1..published)
      BY <1>1, FS_Interval
    <3> HIDE DEF New
    <3>3. IsFiniteSet(New)
      BY <3>1, <3>2, FS_Subset
    <3>4. QED
      BY <1>3, <3>3
  <2>5. Cardinality(M) = Cardinality(New) + 1 /\ Cardinality(New) \in Nat
    <3>1. M = New \cup {published}
      OBVIOUS
    <3>2. QED
      BY <2>4, <3>1, FS_AddElement, FS_CardinalityType
  <2>6. IsFiniteSet(left)
    BY <2>2, FS_Subset
  <2>7. Cardinality(left) \in Nat
    BY <2>6, FS_CardinalityType
  <2>8. QED
    BY <1>1, <1>8, <2>3, <2>5, <2>7
<1>9. QED
  BY <1>3, <1>6, <1>7, <1>8

-----------------------------------------------------------------------------
(* The steps below the root of the points.                                  *)

LEMMA KeptIsFinite ==
  ASSUME RootTypes
  PROVE  /\ Kept \in SUBSET points /\ IsFiniteSet(Kept)
         /\ Cardinality(Kept) \in Nat /\ Cardinality(Kept) <= Cardinality(points)
         /\ Cardinality(points) \in Nat
<1>1. Kept \in SUBSET points
  BY DEF Kept
<1>2. IsFiniteSet(points)
  BY DEF RootTypes
<1>3. IsFiniteSet(Kept) /\ Cardinality(Kept) <= Cardinality(points)
  BY <1>1, <1>2, FS_Subset
<1>4. QED
  BY <1>1, <1>2, <1>3, FS_CardinalityType

(* Fewer points keep their numbers.                                         *)
LEMMA FewerPoints ==
  ASSUME RootTypes, Numbered, points' \in SUBSET points, published' = published
  PROVE  Numbered' /\ IsFiniteSet(points')
<1>1. IsFiniteSet(points) /\ published \in Nat
  BY DEF RootTypes
<1>2. IsFiniteSet(points') /\ Cardinality(points') <= Cardinality(points)
  BY <1>1, FS_Subset
<1>3. Cardinality(points') \in Nat /\ Cardinality(points) \in Nat
  BY <1>1, <1>2, FS_CardinalityType
<1>4. QED
  BY <1>1, <1>2, <1>3 DEF Numbered

(* A step that takes nothing from the points kept keeps enough of them.     *)
LEMMA KeepingMore ==
  ASSUME RootTypes, Numbered, EnoughKept, PointerKept, RootTypes', Numbered',
         published' = published, pointer' = pointer, Kept \subseteq Kept'
  PROVE  EnoughKept' /\ PointerKept'
<1>1. /\ Cardinality(Kept) \in Nat
      /\ IsFiniteSet(Kept') /\ Cardinality(Kept') \in Nat
      /\ Cardinality(Kept') <= Cardinality(points') /\ Cardinality(points') \in Nat
  <2>1. /\ Kept' \in SUBSET points' /\ IsFiniteSet(points')
    BY DEF Kept, RootTypes
  <2>2. IsFiniteSet(Kept') /\ Cardinality(Kept') <= Cardinality(points')
    BY <2>1, FS_Subset
  <2>3. QED
    BY <2>1, <2>2, KeptIsFinite, FS_CardinalityType
<1>2. Cardinality(Kept) <= Cardinality(Kept')
  BY <1>1, FS_Subset
<1>3. published \in Nat /\ Cardinality(points') <= published
  BY DEF RootTypes, Numbered
<1>4. EnoughKept'
  BY <1>1, <1>2, <1>3, RecoveryAssumption DEF EnoughKept
<1>5. PointerKept'
  BY DEF PointerKept
<1>6. QED
  BY <1>4, <1>5

(* The command that holds the lock moves, and takes nothing.                *)
LEMMA ExportMoves ==
  ASSUME RootInv, UNCHANGED <<points, published, pointer>>, RootTypes',
         export'.expired = {}, Phases', Inherited'
  PROVE  RootInv'
<1>1. Numbered'
  BY DEF RootInv, Numbered
<1>2. Kept \subseteq Kept'
  BY DEF Kept
<1>3. EnoughKept' /\ PointerKept'
  BY <1>1, <1>2, KeepingMore DEF RootInv
<1>4. QED
  BY <1>1, <1>3 DEF RootInv

LEMMA BeginStep ==
  ASSUME RootInv, NEW periodic \in BOOLEAN, NEW release \in PointReleases,
         BeginExport(periodic, release), periodic => pointer # NoFile,
         periodic => release = InheritedRelease
  PROVE  RootInv'
<1>1. export' = [at |-> "staged", periodic |-> periodic, release |-> release,
                 backup |-> NoFile, expired |-> {}]
  BY DEF BeginExport
<1>2. UNCHANGED <<points, published, pointer, debris>>
  BY DEF BeginExport
<1>3. RootTypes'
  <2>1. export' \in ExportRun
    BY <1>1 DEF ExportRun, Binding
  <2>2. QED
    BY <1>1, <1>2, <2>1 DEF RootInv, RootTypes, Binding
<1>4. Phases'
  BY <1>1, <1>2 DEF BeginExport, RootIsValid, Phases
<1>5. Inherited'
  <2> SUFFICES ASSUME periodic PROVE \A p \in points : p.n = pointer => p.release = release
    BY <1>1, <1>2 DEF Inherited
  <2>1. \E p \in points : p.n = pointer
    BY DEF RootInv, PointerKept, Kept
  <2>2. PointOf(pointer) \in points /\ PointOf(pointer).n = pointer
    BY <2>1 DEF PointOf
  <2>3. QED
    BY <2>2 DEF RootInv, Numbered, InheritedRelease
<1>6. QED
  BY <1>1, <1>2, <1>3, <1>4, <1>5, ExportMoves

LEMMA PeriodicStep ==
  ASSUME RootInv, BeginPeriodicPoint
  PROVE  RootInv'
<1>1. pointer # NoFile /\ BeginExport(TRUE, InheritedRelease)
  BY DEF BeginPeriodicPoint
<1>2. \E p \in points : p.n = pointer
  BY <1>1 DEF RootInv, PointerKept, Kept
<1>3. PointOf(pointer) \in points
  BY <1>2 DEF PointOf
<1>4. InheritedRelease \in PointReleases
  BY <1>3 DEF InheritedRelease, RootInv, RootTypes, Point
<1>5. QED
  BY <1>1, <1>4, BeginStep

LEMMA BindingSteps ==
  ASSUME RootInv, BackupTypes, ReadHeartbeat \/ RestoreBackup \/ ConfirmBackup
  PROVE  RootInv'
<1>1. /\ export.at \in Binding \ {"sealed"} /\ export \in ExportRun
      /\ export.release \in PointReleases /\ export.expired = {}
      /\ UNCHANGED <<points, published, pointer, debris>>
  BY DEF RootInv, RootTypes, Phases, Binding, ReadHeartbeat, RestoreBackup, ConfirmBackup
<1>2. PICK at \in Binding \ {"staged"}, backup \in Nat :
        export' = [export EXCEPT !.at = at, !.backup = backup]
  <2>1. CASE ReadHeartbeat
    <3>1. heartbeat \in Nat
      BY <2>1 DEF ReadHeartbeat, BackupTypes, Copy
    <3>2. QED
      BY <2>1, <3>1 DEF ReadHeartbeat, Binding
  <2>2. CASE RestoreBackup \/ ConfirmBackup
    <3>1. export.backup \in Nat
      BY <2>2 DEF RootInv, RootTypes, Binding, RestoreBackup, ConfirmBackup
    <3>2. PICK at \in {"restored", "sealed"} : export' = [export EXCEPT !.at = at]
      BY <2>2 DEF RestoreBackup, ConfirmBackup
    <3>3. export' = [export EXCEPT !.at = at, !.backup = export.backup]
      BY <1>1, <3>2 DEF ExportRun
    <3>4. QED
      BY <3>1, <3>3 DEF Binding
  <2>3. QED
    BY <2>1, <2>2
<1>3. /\ export' \in ExportRun
      /\ export'.at = at /\ export'.backup = backup /\ export'.expired = {}
      /\ export'.release = export.release /\ export'.periodic = export.periodic
  BY <1>1, <1>2 DEF ExportRun
<1>4. RootTypes'
  BY <1>1, <1>3 DEF RootInv, RootTypes
<1>5. Phases' /\ Inherited'
  BY <1>1, <1>3 DEF RootInv, Phases, Inherited, Binding
<1>6. QED
  BY <1>1, <1>3, <1>4, <1>5, ExportMoves

(* The command ends or is killed: its points stay.                          *)
LEMMA EndSteps ==
  ASSUME RootInv, export' = NoExport, debris' \in BOOLEAN,
         UNCHANGED <<points, published, pointer>>
  PROVE  RootInv'
<1>1. export' \in ExportRun /\ export'.at = "idle" /\ export'.expired = {}
  BY DEF NoExport, ExportRun
<1>2. RootTypes' /\ Phases' /\ Inherited'
  BY <1>1 DEF RootInv, RootTypes, Phases, Inherited, Binding
<1>3. QED
  BY <1>1, <1>2, ExportMoves

LEMMA PublishStep ==
  ASSUME RootInv, PublishPoint
  PROVE  RootInv'
<1> DEFINE new == [n |-> published + 1, release |-> export.release,
                   backup |-> export.backup, whole |-> TRUE]
<1>1. /\ export.at = "sealed" /\ export.expired = {} /\ \A p \in points : p.whole
      /\ published' = published + 1 /\ points' = points \cup {new}
      /\ export' = [export EXCEPT !.at = "published"]
      /\ UNCHANGED <<pointer, debris>>
  BY DEF PublishPoint, RootInv, Phases, Binding
<1>2. /\ published \in Nat /\ points \subseteq Point /\ IsFiniteSet(points)
      /\ \A p \in points : p.n \in 1..published
      /\ Cardinality(points) \in Nat /\ Cardinality(points) <= published
  BY KeptIsFinite DEF RootInv, RootTypes, Numbered
<1>3. new \in Point /\ new.n = published + 1 /\ new.whole /\ new \notin points
  BY <1>1, <1>2 DEF RootInv, RootTypes, Binding, Point
<1> HIDE DEF new
<1>4. /\ export' \in ExportRun /\ export'.at = "published" /\ export'.expired = {}
      /\ export'.release = export.release /\ export'.periodic = export.periodic
  BY <1>1 DEF RootInv, RootTypes, ExportRun
<1>5. IsFiniteSet(points') /\ Cardinality(points') = Cardinality(points) + 1
  BY <1>1, <1>2, <1>3, FS_AddElement
<1>6. RootTypes'
  <2>1. points' \subseteq Point /\ published' \in Nat
    BY <1>1, <1>2, <1>3
  <2>2. pointer' \in {NoFile} \cup 1..published'
    BY <1>1, <1>2 DEF RootInv, RootTypes
  <2>3. QED
    BY <1>1, <1>4, <1>5, <2>1, <2>2 DEF RootInv, RootTypes, Binding
<1>7. Numbered'
  <2>1. \A p \in points' : p.n \in 1..published'
    BY <1>1, <1>2, <1>3
  <2>2. \A p, q \in points' : p.n = q.n => p = q
    BY <1>1, <1>2, <1>3 DEF RootInv, Numbered
  <2>3. Cardinality(points') <= published'
    BY <1>1, <1>2, <1>5
  <2>4. QED
    BY <2>1, <2>2, <2>3 DEF Numbered
<1>8. EnoughKept'
  <2>1. Kept = points /\ Kept' = points'
    BY <1>1, <1>3, <1>4 DEF Kept
  <2>2. Cardinality(Kept') = Cardinality(Kept) + 1 /\ Cardinality(Kept) \in Nat
    BY <1>2, <1>5, <2>1
  <2>3. Cardinality(Kept) >= PointRetention \/ Cardinality(Kept) = published
    BY DEF RootInv, EnoughKept
  <2>4. QED
    BY <1>1, <1>2, <2>2, <2>3, RecoveryAssumption DEF EnoughKept
<1>9. PointerKept'
  BY <1>1, <1>4 DEF RootInv, PointerKept, Kept
<1>10. Phases'
  BY <1>1, <1>3, <1>4 DEF Phases, Binding
<1>11. Inherited'
  <2> SUFFICES ASSUME export.periodic
               PROVE  /\ pointer # NoFile
                      /\ \A p \in points' : p.n = pointer => p.release = export.release
    BY <1>1, <1>4 DEF Inherited
  <2>1. pointer # NoFile /\ \A p \in points : p.n = pointer => p.release = export.release
    BY <1>1 DEF RootInv, Inherited, Binding
  <2>2. pointer \in 1..published
    BY <2>1 DEF RootInv, RootTypes
  <2>3. QED
    BY <1>1, <1>2, <1>3, <2>1, <2>2
<1>12. QED
  BY <1>6, <1>7, <1>8, <1>9, <1>10, <1>11 DEF RootInv

LEMMA PointerStep ==
  ASSUME RootInv, AdvancePointer
  PROVE  RootInv'
<1>1. /\ export.at = "published" /\ export.expired = {}
      /\ \A p \in points : p.whole
      /\ \E p \in points : p.n = published
      /\ pointer' = published /\ export' = [export EXCEPT !.at = "pointed"]
      /\ UNCHANGED <<points, published, debris>>
  BY DEF AdvancePointer, RootInv, Phases
<1>2. export' \in ExportRun /\ export'.at = "pointed" /\ export'.expired = {}
  BY <1>1 DEF RootInv, RootTypes, ExportRun
<1>3. published \in 1..published
  BY <1>1 DEF RootInv, Numbered
<1>4. RootTypes' /\ Numbered' /\ Phases' /\ Inherited'
  BY <1>1, <1>2, <1>3 DEF RootInv, RootTypes, Numbered, Phases, Inherited, Binding
<1>5. EnoughKept' /\ PointerKept'
  BY <1>1, <1>2 DEF RootInv, EnoughKept, PointerKept, Kept
<1>6. QED
  BY <1>4, <1>5 DEF RootInv

LEMMA ListStep ==
  ASSUME RootInv, ListExpiredPoints
  PROVE  RootInv'
<1>1. /\ export.at = "pointed" /\ export.expired = {} /\ pointer = published
      /\ \A p \in points : p.whole
      /\ export' = [export EXCEPT !.at = "pruning", !.expired = ExpiredPoints]
      /\ UNCHANGED <<points, published, pointer, debris>>
  BY DEF ListExpiredPoints, RootInv, Phases, Binding
<1>2. pointer # NoFile /\ \E p \in points : p.n = published
  BY <1>1, RecoveryAssumption DEF RootInv, RootTypes, PointerKept, Kept
<1>3. ExpiredPoints \in SUBSET Nat
  BY DEF ExpiredPoints, RootInv, RootTypes, Point
<1>4. export' \in ExportRun /\ export'.at = "pruning" /\ export'.expired = ExpiredPoints
  BY <1>1, <1>3 DEF RootInv, RootTypes, ExportRun
<1>5. RootTypes' /\ Numbered' /\ Phases' /\ Inherited'
  BY <1>1, <1>4 DEF RootInv, RootTypes, Numbered, Phases, Inherited, Binding
<1>6. Kept = points /\ Kept' = {p \in points : p.n \notin ExpiredPoints}
  BY <1>1, <1>4 DEF Kept
<1>7. published \notin ExpiredPoints /\ (Kept' = points \/ Cardinality(Kept') >= PointRetention)
  BY <1>2, <1>6, RetentionLeavesEnough DEF RootInv
<1>8. EnoughKept' /\ PointerKept'
  BY <1>1, <1>2, <1>6, <1>7 DEF RootInv, EnoughKept, PointerKept
<1>9. QED
  BY <1>5, <1>8 DEF RootInv

LEMMA DismantleStep ==
  ASSUME RootInv, DismantlePoint
  PROVE  RootInv'
<1>1. PICK p \in points : /\ {p.n} = Newest(export.expired, 1) /\ p.whole
                          /\ points' = (points \ {p}) \cup {[p EXCEPT !.whole = FALSE]}
  BY DEF DismantlePoint
<1> DEFINE torn == [p EXCEPT !.whole = FALSE]
<1>2. export.at = "pruning" /\ UNCHANGED <<published, pointer, debris, export>>
  BY DEF DismantlePoint
<1>3. p.n \in export.expired
  BY <1>1 DEF Newest
<1>4. /\ torn \in Point /\ torn.n = p.n /\ torn \notin points
      /\ points \subseteq Point /\ IsFiniteSet(points)
  <2>1. points \subseteq Point /\ p \in Point /\ IsFiniteSet(points)
    BY DEF RootInv, RootTypes
  <2>2. torn \in Point /\ torn.n = p.n /\ ~torn.whole
    BY <2>1 DEF Point
  <2>3. torn \notin points
    BY <1>1, <2>2 DEF RootInv, Numbered
  <2>4. QED
    BY <2>1, <2>2, <2>3
<1> HIDE DEF torn
<1>5. IsFiniteSet(points') /\ Cardinality(points') = Cardinality(points)
  <2>1. /\ IsFiniteSet(points \ {p}) /\ Cardinality(points \ {p}) = Cardinality(points) - 1
        /\ Cardinality(points) \in Nat
    BY <1>4, FS_RemoveElement, FS_CardinalityType
  <2>2. IsFiniteSet(points') /\ Cardinality(points') = Cardinality(points \ {p}) + 1
    <3>1. torn \notin points \ {p}
      BY <1>4
    <3>2. points' = (points \ {p}) \cup {torn}
      BY <1>1 DEF torn
    <3>3. QED
      BY <2>1, <3>1, <3>2, FS_AddElement
  <2>3. QED
    BY <2>1, <2>2
<1>6. RootTypes'
  <2>1. points' \subseteq Point
    BY <1>1, <1>4 DEF torn
  <2>2. QED
    BY <1>2, <1>5, <2>1 DEF RootInv, RootTypes
<1>7. Numbered'
  <2>1. points' = (points \ {p}) \cup {torn}
    BY <1>1 DEF torn
  <2>2. \A q \in points' : q.n \in 1..published
    BY <1>4, <2>1 DEF RootInv, Numbered
  <2>3. \A q, r \in points' : q.n = r.n => q = r
    BY <1>4, <2>1 DEF RootInv, Numbered
  <2>4. QED
    BY <1>2, <1>5, <2>2, <2>3 DEF RootInv, Numbered
<1>8. Kept \subseteq Kept'
  BY <1>1, <1>2, <1>3 DEF Kept
<1>9. EnoughKept' /\ PointerKept'
  BY <1>2, <1>6, <1>7, <1>8, KeepingMore DEF RootInv
<1>10. Phases' /\ Inherited'
  BY <1>2 DEF RootInv, Phases, Inherited, Binding
<1>11. QED
  BY <1>6, <1>7, <1>9, <1>10 DEF RootInv

LEMMA RemoveStep ==
  ASSUME RootInv, RemovePoint
  PROVE  RootInv'
<1>1. PICK p \in points : /\ {p.n} = Newest(export.expired, 1) /\ ~p.whole
                          /\ points' = points \ {p}
                          /\ export' = [export EXCEPT !.expired = @ \ {p.n}]
  BY DEF RemovePoint
<1>2. export.at = "pruning" /\ UNCHANGED <<published, pointer, debris>>
  BY DEF RemovePoint
<1>3. /\ export' \in ExportRun /\ export'.at = "pruning"
      /\ export'.expired = export.expired \ {p.n}
  BY <1>1, <1>2 DEF RootInv, RootTypes, ExportRun
<1>4. Numbered' /\ IsFiniteSet(points')
  BY <1>1, <1>2, FewerPoints DEF RootInv
<1>5. RootTypes'
  BY <1>1, <1>2, <1>3, <1>4 DEF RootInv, RootTypes, Binding
<1>6. Kept \subseteq Kept'
  BY <1>1, <1>3 DEF Kept
<1>7. EnoughKept' /\ PointerKept'
  BY <1>2, <1>4, <1>5, <1>6, KeepingMore DEF RootInv
<1>8. Phases' /\ Inherited'
  BY <1>3 DEF Phases, Inherited, Binding
<1>9. QED
  BY <1>4, <1>5, <1>7, <1>8 DEF RootInv

LEMMA RepairStep ==
  ASSUME RootInv, RepairRoot
  PROVE  RootInv'
<1>1. /\ export.at = "idle" /\ debris' = FALSE /\ points' = {p \in points : p.whole}
      /\ UNCHANGED <<published, pointer, export>>
  BY DEF RepairRoot
<1>2. Numbered' /\ IsFiniteSet(points')
  BY <1>1, FewerPoints DEF RootInv
<1>3. RootTypes' /\ Phases' /\ Inherited'
  BY <1>1, <1>2 DEF RootInv, RootTypes, Phases, Inherited, Binding
<1>4. Kept \subseteq Kept'
  BY <1>1 DEF Kept
<1>5. EnoughKept' /\ PointerKept'
  BY <1>1, <1>2, <1>3, <1>4, KeepingMore DEF RootInv
<1>6. QED
  BY <1>2, <1>3, <1>5 DEF RootInv

LEMMA RootStep ==
  ASSUME RootInv, BackupTypes, [RecoveryNext]_recoveryVars
  PROVE  RootInv'
<1>1. CASE UNCHANGED rootVars
  BY <1>1 DEF rootVars, RootInv, RootTypes, Numbered, EnoughKept, PointerKept, Kept,
     Phases, Inherited
<1>2. ASSUME NEW release \in PointReleases, BeginRolloutPoint(release) PROVE RootInv'
  BY <1>2, BeginStep DEF BeginRolloutPoint
<1>3. ASSUME AbandonExport \/ FinishExport \/ KillExport PROVE RootInv'
  <2>1. /\ export' = NoExport /\ debris' \in BOOLEAN
        /\ UNCHANGED <<points, published, pointer>>
    BY <1>3 DEF AbandonExport, FinishExport, KillExport, RootInv, RootTypes
  <2>2. QED
    BY <2>1, EndSteps
<1>4. ASSUME NEW w \in Writers,
             \/ CopyDatabase(w) \/ CompleteBackup(w) \/ ListExpiredBackups(w)
             \/ PruneBackup(w) \/ DigestBackup(w) \/ PublishHeartbeat(w) \/ KillWriter(w)
      PROVE  UNCHANGED rootVars
  BY <1>4 DEF CopyDatabase, CompleteBackup, ListExpiredBackups, PruneBackup, DigestBackup,
     PublishHeartbeat, KillWriter
<1>5. ASSUME ReadHeartbeatForDrill \/ RestoreForDrill \/ PassDrill \/ FailDrill
      PROVE  UNCHANGED rootVars
  BY <1>5 DEF ReadHeartbeatForDrill, RestoreForDrill, PassDrill, FailDrill
<1>6. UNCHANGED recoveryVars => UNCHANGED rootVars
  BY DEF recoveryVars
<1>7. QED
  BY <1>1, <1>2, <1>3, <1>4, <1>5, <1>6, PeriodicStep, BindingSteps, PublishStep, PointerStep,
     ListStep, DismantleStep, RemoveStep, RepairStep DEF RecoveryNext

-----------------------------------------------------------------------------
(* The directory of the backups.                                            *)

(* A later copy leaves a run what it was.                                   *)
LEMMA WriterRuns ==
  ASSUME BackupTypes, NEW w \in Writers, NEW run \in WriterRun,
         run.at # "idle" => run.backup \in 1..copies,
         writer' = [writer EXCEPT ![w] = run], backups' \in SUBSET (1..copies),
         heartbeat' \in Copy, UNCHANGED <<copies, drill, status>>
  PROVE  BackupTypes'
<1>1. writer' \in [Writers -> WriterRun] /\ writer'[w] = run
      /\ \A v \in Writers \ {w} : writer'[v] = writer[v]
  BY DEF BackupTypes
<1>2. WriterRun' = WriterRun /\ DrillRun' = DrillRun /\ Copy' = Copy
  BY DEF WriterRun, DrillRun, Copy
<1>3. \A v \in Writers : ~WriterAt(v, "idle")' => writer'[v].backup \in 1..copies
  BY <1>1 DEF BackupTypes, WriterAt
<1>4. QED
  BY <1>1, <1>2, <1>3 DEF BackupTypes

LEMMA DrillRuns ==
  ASSUME BackupTypes, drill' \in DrillRun, drill'.at # "idle" => drill'.backup \in 1..copies,
         status' \in Copy, UNCHANGED backupVars
  PROVE  BackupTypes'
BY DEF BackupTypes, WriterRun, DrillRun, Copy, WriterAt, backupVars

LEMMA WriterStep ==
  ASSUME BackupTypes, NEW w \in Writers,
         \/ CompleteBackup(w) \/ ListExpiredBackups(w) \/ PruneBackup(w)
         \/ DigestBackup(w) \/ PublishHeartbeat(w) \/ KillWriter(w)
  PROVE  BackupTypes'
<1>1. /\ ~WriterAt(w, "idle") /\ UNCHANGED <<copies, drill, status>>
      /\ backups' \in {backups, backups \cup {writer[w].backup}} \/ PruneBackup(w)
      /\ heartbeat' \in {heartbeat, writer[w].backup}
  BY DEF CompleteBackup, ListExpiredBackups, PruneBackup, DigestBackup, PublishHeartbeat,
     KillWriter, WriterAt, drillVars
<1>2. writer[w] \in WriterRun /\ writer[w].backup \in 1..copies /\ NoRun \in WriterRun
  BY <1>1 DEF BackupTypes, WriterRun, NoRun, Copy
<1>3. backups' \in SUBSET (1..copies) /\ heartbeat' \in Copy
  BY <1>1, <1>2 DEF BackupTypes, Copy, PruneBackup
<1>4. \E run \in WriterRun : /\ writer' = [writer EXCEPT ![w] = run]
                             /\ run.at # "idle" => run.backup \in 1..copies
  <2>1. CASE CompleteBackup(w) \/ DigestBackup(w) \/ PublishHeartbeat(w) \/ KillWriter(w)
    BY <1>2, <2>1 DEF CompleteBackup, DigestBackup, PublishHeartbeat, KillWriter, WriterGoes,
       WriterExits, WriterRun, BackupTypes, NoRun
  <2>2. CASE ListExpiredBackups(w)
    <3> DEFINE run == [writer[w] EXCEPT !.at = "pruning", !.expired = ExpiredBackups(w)]
    <3>1. ExpiredBackups(w) \subseteq backups /\ backups \subseteq Nat
      BY DEF ExpiredBackups, BackupTypes
    <3>2. run \in WriterRun /\ run.backup = writer[w].backup
      BY <1>2, <3>1 DEF WriterRun
    <3>3. writer' = [writer EXCEPT ![w] = run]
      BY <2>2 DEF ListExpiredBackups, BackupTypes
    <3>4. QED
      BY <1>2, <3>2, <3>3
  <2>3. CASE PruneBackup(w)
    BY <1>2, <2>3 DEF PruneBackup, WriterExits, WriterRun, BackupTypes, NoRun
  <2>4. QED
    BY <2>1, <2>2, <2>3
<1>5. QED
  BY <1>1, <1>3, <1>4, WriterRuns

LEMMA CopyStep ==
  ASSUME BackupTypes, NEW w \in Writers, CopyDatabase(w)
  PROVE  BackupTypes'
<1> DEFINE run == [at |-> "copied", backup |-> copies + 1, expired |-> {}]
<1>1. /\ copies' = copies + 1 /\ copies \in Nat
      /\ writer' = [writer EXCEPT ![w] = run]
      /\ UNCHANGED <<backups, heartbeat, drill, status>>
  BY DEF CopyDatabase, BackupTypes, drillVars
<1>2. 1..copies \subseteq 1..copies' /\ Copy \subseteq Copy'
  BY <1>1 DEF Copy
<1>3. WriterRun \subseteq WriterRun' /\ run \in WriterRun' /\ DrillRun \subseteq DrillRun'
  BY <1>1, <1>2 DEF WriterRun, DrillRun, Copy
<1>4. writer' \in [Writers -> WriterRun'] /\ \A v \in Writers \ {w} : writer'[v] = writer[v]
  BY <1>1, <1>3 DEF BackupTypes
<1>5. \A v \in Writers : ~WriterAt(v, "idle")' => writer'[v].backup \in 1..copies'
  BY <1>1, <1>2, <1>4 DEF BackupTypes, WriterAt
<1>6. QED
  BY <1>1, <1>2, <1>3, <1>4, <1>5 DEF BackupTypes

LEMMA DrillStep ==
  ASSUME BackupTypes, ReadHeartbeatForDrill \/ RestoreForDrill \/ PassDrill \/ FailDrill
  PROVE  BackupTypes'
<1>1. drill \in DrillRun /\ NoRun \in DrillRun /\ heartbeat \in Copy /\ status \in Copy
  BY DEF BackupTypes, DrillRun, NoRun, Copy
<1>2. /\ drill' \in DrillRun /\ status' \in Copy
      /\ drill'.at # "idle" => drill'.backup \in 1..copies
  <2>1. CASE ReadHeartbeatForDrill
    BY <1>1, <2>1 DEF ReadHeartbeatForDrill, DrillRun, Copy
  <2>2. CASE RestoreForDrill
    BY <1>1, <2>2 DEF RestoreForDrill, DrillRun, BackupTypes
  <2>3. CASE PassDrill \/ FailDrill
    <3>1. drill' = NoRun /\ NoRun.at = "idle"
      BY <2>3 DEF PassDrill, FailDrill, NoRun
    <3>2. status' \in {NoFile, drill.backup} /\ drill.backup \in Copy
      BY <1>1, <2>3 DEF PassDrill, FailDrill, DrillRun
    <3>3. QED
      BY <1>1, <3>1, <3>2 DEF Copy
  <2>4. QED
    BY <2>1, <2>2, <2>3
<1>3. UNCHANGED backupVars
  BY DEF ReadHeartbeatForDrill, RestoreForDrill, PassDrill, FailDrill
<1>4. QED
  BY <1>2, <1>3, DrillRuns

LEMMA BackupStep ==
  ASSUME BackupTypes, [RecoveryNext]_recoveryVars
  PROVE  BackupTypes'
<1>1. CASE UNCHANGED <<backupVars, drillVars>>
  BY <1>1 DEF BackupTypes, WriterRun, DrillRun, Copy, WriterAt, backupVars, drillVars
<1>2. ASSUME \/ \E release \in PointReleases : BeginRolloutPoint(release)
             \/ BeginPeriodicPoint \/ ReadHeartbeat \/ RestoreBackup \/ ConfirmBackup
             \/ AbandonExport \/ PublishPoint \/ AdvancePointer \/ ListExpiredPoints
             \/ DismantlePoint \/ RemovePoint \/ FinishExport \/ KillExport \/ RepairRoot
      PROVE  UNCHANGED <<backupVars, drillVars>>
  BY <1>2 DEF BeginRolloutPoint, BeginPeriodicPoint, BeginExport, ReadHeartbeat, RestoreBackup,
     ConfirmBackup, AbandonExport, PublishPoint, AdvancePointer, ListExpiredPoints,
     DismantlePoint, RemovePoint, FinishExport, KillExport, RepairRoot
<1>3. UNCHANGED recoveryVars => UNCHANGED <<backupVars, drillVars>>
  BY DEF recoveryVars
<1>4. QED
  BY <1>1, <1>2, <1>3, CopyStep, WriterStep, DrillStep DEF RecoveryNext

-----------------------------------------------------------------------------

LEMMA RecoveryInvariant == RecoverySpec => [](RootInv /\ BackupTypes)
<1>1. RecoveryInit => RootInv /\ BackupTypes
  <2> SUFFICES ASSUME RecoveryInit PROVE RootInv /\ BackupTypes
    OBVIOUS
  <2>1. BackupTypes
    BY DEF RecoveryInit, BackupTypes, WriterRun, DrillRun, Copy, NoRun, WriterAt
  <2>2. RootTypes /\ Phases /\ Inherited /\ PointerKept
    BY FS_EmptySet DEF RecoveryInit, RootTypes, Phases, Inherited, PointerKept, Binding, ExportRun, NoExport
  <2>3. Numbered
    BY FS_EmptySet DEF RecoveryInit, Numbered
  <2>4. EnoughKept
    BY FS_EmptySet DEF RecoveryInit, EnoughKept, Kept
  <2>5. QED
    BY <2>1, <2>2, <2>3, <2>4 DEF RootInv
<1>2. RootInv /\ BackupTypes /\ [RecoveryNext]_recoveryVars => (RootInv /\ BackupTypes)'
  BY RootStep, BackupStep
<1>3. QED
  BY <1>1, <1>2, PTL DEF RecoverySpec

(* The runs of all writers, of the drill and of the export, the records and *)
(* the points keep their types: a run under way and both records of backups *)
(* are about copies made before, and an export that is not yet visible is   *)
(* bound to a release.                                                      *)
THEOREM RecoveryTypesAreKept == RecoverySpec => []RecoveryTypeOK
<1>1. RootInv /\ BackupTypes => RecoveryTypeOK
  BY DEF RootInv, RootTypes, BackupTypes, WriterAt, RecoveryTypeOK
<1>2. QED
  BY <1>1, RecoveryInvariant, PTL

(* Wherever the publication or the retention was killed, the health record  *)
(* names a whole point and as many whole points remain as the retention     *)
(* asks for, for every retention and every number of points.                *)
THEOREM PointsSurvive == RecoverySpec => []RecoveryPointsSurvive
<1>1. RootInv => RecoveryPointsSurvive
  <2> SUFFICES ASSUME RootInv PROVE RecoveryPointsSurvive
    OBVIOUS
  <2> DEFINE Whole == {p \in points : p.whole}
  <2>1. pointer # NoFile => PointerVerifies
    BY DEF RootInv, PointerKept, PointerVerifies, Kept
  <2>2. /\ IsFiniteSet(points) /\ published \in Nat /\ Cardinality(points) <= published
        /\ Whole \in SUBSET points /\ Kept \in SUBSET Whole
    BY DEF RootInv, RootTypes, Numbered, Kept
  <2>3. /\ IsFiniteSet(Whole) /\ Cardinality(Whole) <= Cardinality(points)
        /\ Cardinality(points) \in Nat
    BY <2>2, FS_Subset, FS_CardinalityType
  <2>4. Cardinality(Whole) \in Nat /\ Cardinality(Kept) <= Cardinality(Whole)
    BY <2>2, <2>3, FS_Subset, FS_CardinalityType
  <2>5. Cardinality(Kept) >= PointRetention \/ Cardinality(Kept) = published
    BY DEF RootInv, EnoughKept
  <2>6. Cardinality(Kept) \in Nat
    BY KeptIsFinite DEF RootInv
  <2>7. /\ Cardinality(Whole) \in 0..published
        /\ Cardinality(Whole) >= PointRetention \/ Cardinality(Whole) = published
    BY <2>2, <2>3, <2>4, <2>5, <2>6, RecoveryAssumption
  <2>8. QED
    BY <2>1, <2>7 DEF RecoveryPointsSurvive
<1>2. QED
  BY <1>1, RecoveryInvariant, PTL

(* The periodic exporter never moves the health record to a point of        *)
(* another release, also after a rollout that published and was killed.     *)
THEOREM ExporterKeepsTheRelease == RecoverySpec => ExporterKeepsRelease
<1> DEFINE Move == pointer # NoFile /\ pointer' # pointer /\ export.periodic =>
                     export.release = PointOf(pointer).release
<1>1. RootInv /\ BackupTypes /\ [RecoveryNext]_recoveryVars => [Move]_recoveryVars
  <2> SUFFICES ASSUME RootInv, RecoveryNext, pointer # NoFile, pointer' # pointer, export.periodic
               PROVE  export.release = PointOf(pointer).release
    BY DEF recoveryVars, rootVars
  <2>1. AdvancePointer
    BY DEF RecoveryNext, CopyDatabase, CompleteBackup, ListExpiredBackups, PruneBackup,
       DigestBackup, PublishHeartbeat, KillWriter, ReadHeartbeatForDrill, RestoreForDrill,
       PassDrill, FailDrill, BeginRolloutPoint, BeginPeriodicPoint, BeginExport, ReadHeartbeat,
       RestoreBackup, ConfirmBackup, AbandonExport, PublishPoint, ListExpiredPoints,
       DismantlePoint, RemovePoint, FinishExport, KillExport, RepairRoot, rootVars
  <2>2. \A p \in points : p.n = pointer => p.release = export.release
    BY <2>1 DEF AdvancePointer, RootInv, Inherited
  <2>3. \E p \in points : p.n = pointer
    BY DEF RootInv, PointerKept, Kept
  <2>4. PointOf(pointer) \in points /\ PointOf(pointer).n = pointer
    BY <2>3 DEF PointOf
  <2>5. QED
    BY <2>2, <2>4
<1>2. RecoverySpec => [][Move]_recoveryVars
  BY <1>1, RecoveryInvariant, PTL DEF RecoverySpec
<1>3. QED
  BY <1>2 DEF ExporterKeepsRelease
=============================================================================
