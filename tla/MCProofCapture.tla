--------------------------- MODULE MCProofCapture ---------------------------
(* Captures of inclusion proofs on small instances: the children that run   *)
(* them while the application is stopped, killed and started, the trace     *)
(* that is deleted and verified again while it stays up, and the links a    *)
(* child verifies.  A behaviour follows one of the three.                   *)
EXTENDS LiteclientProcesses, MasterchainProofs, TLC

VARIABLE part           (* what this behaviour follows                      *)

(* Three validators; the faulty ones hold exactly two thirds of the weight. *)
Validators == 1..3
WeightOf(n) == CASE n = 1 -> 1 [] n = 2 -> 3 [] OTHER -> 2
FaultyValidators == {1, 2}

(* The first and the last verification are of the same transactions.        *)
Bocs == <<1, 2, 1>>

CaptureInit ==
  /\ LiteclientInit /\ ProofInit
  /\ \/ part = "links"
     \/ part \in {"children", "deletions"} /\ stored = {}

Captures ==
  /\ LiteclientNext
  /\ part = "children" => trace'.digest = trace.digest
  /\ part = "deletions" => phase' = "up"

CaptureNext ==
  \/ part # "links" /\ Captures /\ UNCHANGED <<part, proofVars>>
  \/ part = "links" /\ ProofNext /\ UNCHANGED <<part, liteclientVars>>

CaptureSpec == CaptureInit /\ [][CaptureNext]_<<part, liteclientVars, proofVars>>

(* Identities of one kind are interchangeable.                              *)
Interchangeable == Permutations(Owners) \cup Permutations(Children)
=============================================================================
