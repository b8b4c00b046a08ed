--------------------------- MODULE MCCaseSyncJobs ---------------------------
(* Instances of CaseSyncJobs for TLC.                                       *)
EXTENDS CaseSyncJobs, TLC

(* Identities of one kind are interchangeable; used by safety runs only.    *)
Interchangeable ==
  Permutations(Cases) \cup Permutations(Syncs) \cup Permutations(Workers)
    \cup Permutations(Requests) \cup Permutations(Keys) \cup Permutations(Tokens)
=============================================================================
