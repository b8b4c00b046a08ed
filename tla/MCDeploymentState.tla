------------------------- MODULE MCDeploymentState -------------------------
(* Instances of DeploymentState for TLC.                                    *)
EXTENDS DeploymentState, TLC

CONSTANTS v1, v2, v2x

(* v2 and v2x are two manifests of one tag; both follow v1.                 *)
MCReleases == {v1, v2, v2x}
MCVersion == [r \in MCReleases |-> IF r = v1 THEN 1 ELSE 2]

(* Random identities are interchangeable.                                   *)
Interchangeable == Permutations(Attempts) \cup Permutations({v2, v2x})
=============================================================================
