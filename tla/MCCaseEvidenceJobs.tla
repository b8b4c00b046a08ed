------------------------- MODULE MCCaseEvidenceJobs -------------------------
(* Instances of CaseEvidenceJobs for TLC.                                   *)
EXTENDS CaseEvidenceJobs, TLC

(* Identities of one kind are interchangeable; used by safety runs only.    *)
Interchangeable ==
  Permutations(Jobs) \cup Permutations(Selections) \cup Permutations(Workers)
    \cup Permutations(Requests) \cup Permutations(Keys) \cup Permutations(Tokens)
=============================================================================
