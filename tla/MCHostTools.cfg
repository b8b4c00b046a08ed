\* Rollouts with kills and power losses; two writers and the exporter, two kills;
\* upgrades from every revision to two heads, dying up to twice.
CONSTANTS
  v1 = v1
  v2 = v2
  v2x = v2x
  Releases <- MCReleases
  Version <- MCVersion
  Attempts = {a1, a2, a3}
  NULL = NULL
  NoFile = NoFile
  PowerLossAfterKill = FALSE
  PointReleases <- MCPointReleases
  Writers = {sidecar, now}
  BackupRetention = 2
  PointRetention = 2
  MaxOverlap = 1
  MaxBackups = 3
  MaxPoints = 3
  Heads = {16, 28}
  MaxCrashes = 2
  MaxKills = 2
SPECIFICATION HostSpec
SYMMETRY HostInterchangeable
INVARIANTS StateStaysConsistent RunningReleaseIsRecorded
  UnmanagedDatabaseIsRefused InterruptedAttemptCanResume RecoveryPointsSurvive
  InterruptedUpgradeResumes ProofsStayUnique
PROPERTY ExporterKeepsRelease
CHECK_DEADLOCK FALSE
