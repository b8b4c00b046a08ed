------------------------ MODULE MCCheckpointBackfill ------------------------
EXTENDS CheckpointDocuments

(* Row 1 is older than the interval [2, 4); rows 3 and 4 share a second.    *)
MCLts == 1..4
MCAt == <<1, 2, 3, 3>>

(* Requests are interchangeable.                                            *)
Sym == Permutations(Handlers)
=============================================================================
