--------------------------- MODULE MCBackfillWorks ---------------------------
(* Two works on one Wallet Case: a long one of one request at a time with   *)
(* failed pages and retries, and a race of two requests over short pages.   *)
EXTENDS MCCheckpointBackfill

CONSTANTS Alone        (* the request that walks                            *)

VARIABLE work          (* the work this behaviour does                      *)

Race == INSTANCE CheckpointDocuments WITH PageCap <- 1, Faults <- {"repeat"}, MaxAttempts <- 1

WorksInit == Init /\ work \in {"walk", "race"}
WorksNext ==
  \/ /\ work = "walk" /\ Next /\ UNCHANGED work
     /\ \A h \in Handlers \ {Alone} : handler'[h] = NoHandler
  \/ work = "race" /\ Race!Next /\ UNCHANGED work
WorksSpec == WorksInit /\ [][WorksNext]_<<vars, work>>
=============================================================================
