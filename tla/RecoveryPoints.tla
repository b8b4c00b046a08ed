--------------------------- MODULE RecoveryPoints ---------------------------
(***************************************************************************)
(* The backups of the database volume and the external recovery points     *)
(* made from them: ops/backup_sqlite.py, ops/restore_sqlite.py and         *)
(* ops/recovery_point.py as the containers of compose.production.yml run   *)
(* them.                                                                   *)
(*                                                                         *)
(* The backup sidecar and the backup-now command of a rollout write the    *)
(* same directory and share no lock.  The exporter and recovery-point-now  *)
(* share one lock on the root of the recovery points.  A copy of the       *)
(* database is named by the order in which copies were completed, which is *)
(* the order of their modification times and of their contents.            *)
(***************************************************************************)
EXTENDS Naturals, FiniteSets

CONSTANTS Writers,          (* containers that write backups                *)
          PointReleases,    (* signed releases that rollouts deploy         *)
          BackupRetention,  (* BACKUP_RETENTION, at least 2                 *)
          PointRetention,   (* RECOVERY_POINT_RETENTION, at least 2         *)
          MaxOverlap,       (* copies made while another writer is at work  *)
          MaxBackups, MaxPoints, MaxKills, (* bounds of the model           *)
          NoFile            (* nothing, or not yet                           *)

ASSUME RecoveryAssumption ==
  /\ BackupRetention \in Nat /\ PointRetention \in Nat /\ PointRetention >= 1
  /\ NoFile \notin Nat

VARIABLES backups,    (* completed backup files                             *)
          copies,     (* number of copies completed so far                  *)
          heartbeat,  (* the backup that .backup-health.json names          *)
          writer,     (* the run of each writer                             *)
          drill,      (* the run of the recovery watchdog                   *)
          status,     (* the backup its success record names                *)
          points,     (* recovery points below the root                     *)
          published,  (* number of points published so far                  *)
          pointer,    (* the point that .recovery-point-health.json names   *)
          debris,     (* an unknown entry is left below the root            *)
          export,     (* the command that holds the lock of the root        *)
          kills       (* number of killed commands                          *)

backupVars == <<backups, copies, heartbeat, writer>>
drillVars == <<drill, status>>
rootVars == <<points, published, pointer, debris, export>>
recoveryVars == <<backupVars, drillVars, rootVars, kills>>

Point == [n : Nat, release : PointReleases, backup : Nat, whole : BOOLEAN]
NoRun == [at |-> "idle", backup |-> NoFile, expired |-> {}]
NoExport == [at |-> "idle", periodic |-> FALSE, release |-> NoFile, backup |-> NoFile, expired |-> {}]

Copy == {NoFile} \cup 1..copies
WriterRun == [at : {"idle", "copied", "completed", "pruning", "digested"}, backup : Copy, expired : SUBSET Nat]
DrillRun == [at : {"idle", "selected", "restored"}, backup : Copy, expired : {{}}]

(* An export that is bound to a release but not yet visible.                *)
Binding == {"staged", "selected", "restored", "sealed"}
ExportRun == [at : Binding \cup {"idle", "published", "pointed", "pruning"}, periodic : BOOLEAN,
              release : PointReleases \cup {NoFile}, backup : Nat \cup {NoFile},
              expired : SUBSET Nat]

RecoveryTypeOK ==
  /\ copies \in Nat /\ backups \subseteq 1..copies
  /\ heartbeat \in Copy /\ status \in Copy
  /\ writer \in [Writers -> WriterRun]
  /\ \A w \in Writers : writer[w].at # "idle" => writer[w].backup \in 1..copies
  /\ drill \in DrillRun
  /\ drill.at # "idle" => drill.backup \in 1..copies
  /\ published \in Nat /\ points \subseteq Point /\ pointer \in {NoFile} \cup 1..published
  /\ debris \in BOOLEAN
  /\ export \in ExportRun
  /\ export.at \in Binding => export.release \in PointReleases
  /\ export.at \in Binding \ {"staged"} => export.backup \in Nat

-----------------------------------------------------------------------------
(* Backups: copy and verify, rename, prune, then publish the heartbeat.     *)

Newest(files, n) == {f \in files : Cardinality({g \in files : g > f}) < n}

ExpiredBackups(w) == backups \ Newest(backups, BackupRetention)

WriterAt(w, point) == writer[w].at = point
WriterGoes(w, point) == writer' = [writer EXCEPT ![w].at = point]
WriterExits(w) == writer' = [writer EXCEPT ![w] = NoRun]

(* BACKUP_INTERVAL_SECONDS and the 900 seconds of a rollout step keep the   *)
(* number of copies made during one run of another writer small.            *)
MayCopy(w) ==
  /\ copies < MaxBackups
  /\ \A v \in Writers \ {w} : ~WriterAt(v, "idle") => copies - writer[v].backup < MaxOverlap

CopyDatabase(w) ==
  /\ WriterAt(w, "idle")
  /\ MayCopy(w)
  /\ copies' = copies + 1
  /\ writer' = [writer EXCEPT ![w] = [at |-> "copied", backup |-> copies + 1, expired |-> {}]]
  /\ UNCHANGED <<backups, heartbeat, drillVars, rootVars, kills>>

CompleteBackup(w) ==
  /\ WriterAt(w, "copied")
  /\ backups' = backups \cup {writer[w].backup}
  /\ WriterGoes(w, "completed")
  /\ UNCHANGED <<copies, heartbeat, drillVars, rootVars, kills>>

ListExpiredBackups(w) ==
  /\ WriterAt(w, "completed")
  /\ writer' = [writer EXCEPT ![w].at = "pruning", ![w].expired = ExpiredBackups(w)]
  /\ UNCHANGED <<backups, copies, heartbeat, drillVars, rootVars, kills>>

(* unlink: the command ends when the other writer was faster.               *)
PruneBackup(w) ==
  /\ WriterAt(w, "pruning")
  /\ writer[w].expired # {}
  /\ LET next == Newest(writer[w].expired, 1)
     IN /\ backups' = backups \ next
        /\ IF next \subseteq backups
           THEN writer' = [writer EXCEPT ![w].expired = @ \ next]
           ELSE WriterExits(w)
  /\ UNCHANGED <<copies, heartbeat, drillVars, rootVars, kills>>

(* The record is computed from the file, which must still be there ...      *)
DigestBackup(w) ==
  /\ WriterAt(w, "pruning")
  /\ writer[w].expired = {}
  /\ IF writer[w].backup \in backups THEN WriterGoes(w, "digested") ELSE WriterExits(w)
  /\ UNCHANGED <<backups, copies, heartbeat, drillVars, rootVars, kills>>

(* ... and replaces the heartbeat in a later step.                          *)
PublishHeartbeat(w) ==
  /\ WriterAt(w, "digested")
  /\ heartbeat' = writer[w].backup
  /\ WriterExits(w)
  /\ UNCHANGED <<backups, copies, drillVars, rootVars, kills>>

(* Killed, or ended by a copy that does not verify.                         *)
KillWriter(w) ==
  /\ ~WriterAt(w, "idle")
  /\ kills < MaxKills
  /\ kills' = kills + 1
  /\ WriterExits(w)
  /\ UNCHANGED <<backups, copies, heartbeat, drillVars, rootVars>>

-----------------------------------------------------------------------------
(* The recovery watchdog restores the backup of the heartbeat and keeps a   *)
(* success record that it removes when a drill fails.                       *)

ReadHeartbeatForDrill ==
  /\ drill.at = "idle"
  /\ heartbeat # NoFile
  /\ drill' = [drill EXCEPT !.at = "selected", !.backup = heartbeat]
  /\ UNCHANGED <<backupVars, status, rootVars, kills>>

RestoreForDrill ==
  /\ drill.at = "selected"
  /\ drill.backup \in backups
  /\ drill' = [drill EXCEPT !.at = "restored"]
  /\ UNCHANGED <<backupVars, status, rootVars, kills>>

PassDrill ==
  /\ drill.at = "restored"
  /\ drill.backup \in backups
  /\ status' = drill.backup
  /\ drill' = NoRun
  /\ UNCHANGED <<backupVars, rootVars, kills>>

FailDrill ==
  /\ drill.at # "idle"
  /\ drill.backup \notin backups
  /\ status' = NoFile
  /\ drill' = NoRun
  /\ UNCHANGED <<backupVars, rootVars, kills>>

-----------------------------------------------------------------------------
(* External recovery points, under the lock of their root.                  *)

PointOf(n) == CHOOSE p \in points : p.n = n

PointerVerifies == \E p \in points : p.n = pointer /\ p.whole

(* Unknown entries, incomplete points and a health record that does not     *)
(* verify refuse every later publication.                                   *)
RootIsValid ==
  /\ ~debris
  /\ \A p \in points : p.whole
  /\ pointer # NoFile => PointerVerifies

BeginExport(periodic, release) ==
  /\ export.at = "idle"
  /\ published < MaxPoints
  /\ RootIsValid
  /\ export' = [at |-> "staged", periodic |-> periodic, release |-> release,
                backup |-> NoFile, expired |-> {}]
  /\ UNCHANGED <<backupVars, drillVars, points, published, pointer, debris, kills>>

(* The last gate of a rollout binds the point to the release it activated.  *)
BeginRolloutPoint(release) == BeginExport(FALSE, release)

(* Mutant: the exporter takes the release of the newest point.              *)
ReleaseOfNewestPoint == (CHOOSE p \in points : \A q \in points : q.n <= p.n).release

(* The exporter reuses the deployment manifest of the verified point.       *)
InheritedRelease == PointOf(pointer).release

BeginPeriodicPoint ==
  /\ pointer # NoFile
  /\ BeginExport(TRUE, InheritedRelease)

ReadHeartbeat ==
  /\ export.at = "staged"
  /\ heartbeat # NoFile
  /\ export' = [export EXCEPT !.at = "selected", !.backup = heartbeat]
  /\ UNCHANGED <<backupVars, drillVars, points, published, pointer, debris, kills>>

RestoreBackup ==
  /\ export.at = "selected"
  /\ export.backup \in backups
  /\ export' = [export EXCEPT !.at = "restored"]
  /\ UNCHANGED <<backupVars, drillVars, points, published, pointer, debris, kills>>

ConfirmBackup ==
  /\ export.at = "restored"
  /\ export.backup \in backups
  /\ export' = [export EXCEPT !.at = "sealed"]
  /\ UNCHANGED <<backupVars, drillVars, points, published, pointer, debris, kills>>

(* A missing, changed or stale backup: the staging directory is removed.    *)
AbandonExport ==
  /\ export.at \in {"staged", "selected", "restored"}
  /\ export' = NoExport
  /\ UNCHANGED <<backupVars, drillVars, points, published, pointer, debris, kills>>

PublishPoint ==
  /\ export.at = "sealed"
  /\ published' = published + 1
  /\ points' = points \cup {[n |-> published + 1, release |-> export.release,
                              backup |-> export.backup, whole |-> TRUE]}
  /\ export' = [export EXCEPT !.at = "published"]
  /\ UNCHANGED <<backupVars, drillVars, pointer, debris, kills>>

AdvancePointer ==
  /\ export.at = "published"
  /\ pointer' = published
  /\ export' = [export EXCEPT !.at = "pointed"]
  /\ UNCHANGED <<backupVars, drillVars, points, published, debris, kills>>

(* Mutant: the published point is counted twice.                            *)
AllButTheLastExpire ==
  {p.n : p \in points} \
    ({published} \cup Newest({p.n : p \in points} \ {published}, PointRetention - 2))

ExpiredPoints ==
  {p.n : p \in points} \
    ({published} \cup Newest({p.n : p \in points} \ {published}, PointRetention - 1))

ListExpiredPoints ==
  /\ export.at = "pointed"
  /\ export' = [export EXCEPT !.at = "pruning", !.expired = ExpiredPoints]
  /\ UNCHANGED <<backupVars, drillVars, points, published, pointer, debris, kills>>

(* A verified point loses its three files and then its directory.           *)
DismantlePoint ==
  /\ export.at = "pruning"
  /\ \E p \in points :
       /\ {p.n} = Newest(export.expired, 1)
       /\ p.whole
       /\ points' = (points \ {p}) \cup {[p EXCEPT !.whole = FALSE]}
  /\ UNCHANGED <<backupVars, drillVars, published, pointer, debris, export, kills>>

RemovePoint ==
  /\ export.at = "pruning"
  /\ \E p \in points :
       /\ {p.n} = Newest(export.expired, 1)
       /\ ~p.whole
       /\ points' = points \ {p}
       /\ export' = [export EXCEPT !.expired = @ \ {p.n}]
  /\ UNCHANGED <<backupVars, drillVars, published, pointer, debris, kills>>

FinishExport ==
  /\ export.at = "pruning"
  /\ export.expired = {}
  /\ PointerVerifies
  /\ export' = NoExport
  /\ UNCHANGED <<backupVars, drillVars, points, published, pointer, debris, kills>>

(* Before the rename a killed command leaves its staging directory, while   *)
(* it writes the health record possibly a temporary file.                   *)
KillExport ==
  /\ export.at # "idle"
  /\ kills < MaxKills
  /\ kills' = kills + 1
  /\ CASE export.at \in {"staged", "selected", "restored", "sealed"} -> debris' = TRUE
       [] export.at = "published" -> debris' \in {debris, TRUE}
       [] OTHER -> UNCHANGED debris
  /\ export' = NoExport
  /\ UNCHANGED <<backupVars, drillVars, points, published, pointer>>

(* The operator removes what the tools refuse and never delete.             *)
RepairRoot ==
  /\ export.at = "idle"
  /\ debris \/ \E p \in points : ~p.whole
  /\ debris' = FALSE
  /\ points' = {p \in points : p.whole}
  /\ UNCHANGED <<backupVars, drillVars, published, pointer, export, kills>>

-----------------------------------------------------------------------------

RecoveryInit ==
  /\ backups = {} /\ copies = 0 /\ heartbeat = NoFile
  /\ writer = [w \in Writers |-> NoRun]
  /\ drill = NoRun /\ status = NoFile
  /\ points = {} /\ published = 0 /\ pointer = NoFile /\ debris = FALSE
  /\ export = NoExport
  /\ kills = 0

RecoveryNext ==
  \/ \E w \in Writers :
       \/ CopyDatabase(w) \/ CompleteBackup(w) \/ ListExpiredBackups(w)
       \/ PruneBackup(w) \/ DigestBackup(w) \/ PublishHeartbeat(w) \/ KillWriter(w)
  \/ ReadHeartbeatForDrill \/ RestoreForDrill \/ PassDrill \/ FailDrill
  \/ \E release \in PointReleases : BeginRolloutPoint(release)
  \/ BeginPeriodicPoint \/ ReadHeartbeat \/ RestoreBackup \/ ConfirmBackup \/ AbandonExport
  \/ PublishPoint \/ AdvancePointer \/ ListExpiredPoints \/ DismantlePoint \/ RemovePoint
  \/ FinishExport \/ KillExport \/ RepairRoot

RecoverySpec == RecoveryInit /\ [][RecoveryNext]_recoveryVars

-----------------------------------------------------------------------------
(* Correctness.                                                             *)

(* However publication and retention are killed, the health record names a  *)
(* whole point, and as many whole points as the retention asks for remain.  *)
RecoveryPointsSurvive ==
  /\ pointer # NoFile => PointerVerifies
  /\ \E kept \in 0..published :
       /\ kept = Cardinality({p \in points : p.whole})
       /\ kept >= PointRetention \/ kept = published

(* The exporter never changes the release that recovery is bound to: only a *)
(* rollout does, even if its own point was published but never pointed to.  *)
ExporterKeepsRelease ==
  [][pointer # NoFile /\ pointer' # pointer /\ export.periodic =>
       export.release = PointOf(pointer).release]_recoveryVars
=============================================================================
