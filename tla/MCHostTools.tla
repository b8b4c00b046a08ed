---------------------------- MODULE MCHostTools ----------------------------
(* The tools of the host on small instances.  The rollout, the recovery     *)
(* points and the upgrade of the schema share no state that they write, so  *)
(* one behaviour runs one of them and leaves the others as they started.    *)
EXTENDS MCDeploymentState, RecoveryPoints, SchemaMigrations

MCPointReleases == {v2, v2x}

VARIABLE tool          (* the part of the host this behaviour runs          *)

hostVars == <<tool, vars, recoveryVars, upgradeVars>>

AtRest == files.receipt = NULL /\ volume = "empty"
FreshHost == disk = Database(0, {})

HostInit ==
  /\ Init /\ RecoveryInit /\ UpgradeInit
  /\ \/ tool = "rollout" /\ FreshHost
     \/ tool = "recovery" /\ AtRest /\ FreshHost
     \/ tool = "upgrade" /\ AtRest

HostNext ==
  \/ tool = "rollout" /\ Next /\ UNCHANGED <<tool, recoveryVars, upgradeVars>>
  \/ tool = "recovery" /\ RecoveryNext /\ UNCHANGED <<tool, vars, upgradeVars>>
  \/ tool = "upgrade" /\ UpgradeNext /\ UNCHANGED <<tool, vars, recoveryVars>>

HostSpec == HostInit /\ [][HostNext]_hostVars

(* Used by safety runs only.                                                *)
HostInterchangeable == Interchangeable \cup Permutations(Writers)
=============================================================================
