---------------------------- MODULE MCCaseReads ----------------------------
(* The reads of a Wallet Case for TLC.  "activity": pages of Activity while *)
(* up to two syncs publish.  "reports": reports and findings of a case with *)
(* one sync published and one running, and with attempts made before.       *)
EXTENDS CaseReads, TLC

VARIABLE part

Row(kind, key, time, value, sound) ==
  [kind |-> kind, key |-> key, time |-> time, value |-> value, sound |-> sound]
Period(from, to) == [from |-> from, to |-> to]
MCObservable ==
  << Row("transaction", 1, 0, "a", TRUE), Row("transaction", 1, 1, "b", TRUE),
     Row("transfer", 1, 1, "a", TRUE), Row("transfer", 1, 1, "b", TRUE),
     Row("transfer", NoKey, NoTime, Unnamed, TRUE), Row("swap", NoKey, 1, "a", FALSE),
     Row("swap", NoKey, 1, "b", TRUE), Row("transaction", 2, 1, "b", TRUE),
     Row("transfer", 2, 1, "a", TRUE) >>
MCPeriods == {Period(0, 2), Period(1, 2), Period(0, 1)}
MCSurfaces == {Kinds}
MCQueries ==
  { NoFilter, [NoFilter EXCEPT !.oldest = TRUE],
    [NoFilter EXCEPT !.kinds = {"transfer"}, !.period = Period(1, 2)],
    [NoFilter EXCEPT !.trait = "asset", !.value = "a"],
    [NoFilter EXCEPT !.trait = "outcome", !.value = "a", !.origins = {"provider_observed"}] }
MCRowSets == {{}, {1, 5}, {2}, {3, 6, 9}, {4, 5, 7}}
MCPublished == {[state |-> "succeeded", scoped |-> TRUE], [state |-> "partial", scoped |-> FALSE]}

Sync(state, rows) ==
  [state |-> state, from |-> 0, start |-> 0, to |-> 2, kinds |-> Kinds, rows |-> rows, scoped |-> TRUE]
Transaction(n) ==
  [id |-> 3 * n, row |-> <<1, IF n = 1 THEN 1 ELSE 8>>, semantic |-> Semantic(<<1, IF n = 1 THEN 1 ELSE 8>>)]
Earlier(n, state, progress, version, cancel) ==
  [Attempt(1, Transaction(n)) EXCEPT !.state = state, !.progress = progress, !.version = version, !.cancel = cancel]
MCEarlierAttempts ==
  { <<>>, <<Earlier(1, "failed", 0, 2, FALSE)>>,
    <<Earlier(1, "cancelled", 2, 2, TRUE), Earlier(2, "running", 3, 1, FALSE)>>,
    <<Earlier(1, "cancelled", 2, 2, TRUE), Earlier(1, "succeeded", 4, 2, FALSE), Earlier(2, "running", 2, 1, FALSE)>>,
    <<Earlier(1, "partial", 3, 2, FALSE), Earlier(1, "running", 2, 1, TRUE)>> }
Glimpse(state, progress, cancel) == [state |-> state, progress |-> progress, cancel |-> cancel]
MCGlimpses ==
  { Glimpse("failed", 0, FALSE), Glimpse("running", 3, FALSE), Glimpse("succeeded", 4, FALSE),
    Glimpse("cancelled", 3, TRUE), Glimpse("partial", 2, FALSE) }
Symmetry == Permutations(Readers)

MCHistories ==
  {[environment |-> world, syncs |-> <<>>] : world \in {"demo", "live"}} \cup
  {[environment |-> "demo", syncs |-> <<Sync("succeeded", {3, 5, 7, 9}), Sync("active", {})>>],
   [environment |-> "live", syncs |-> <<Sync("succeeded", {1, 3, 8, 9}), Sync("active", {})>>]}

-----------------------------------------------------------------------------
(* Bounds of this instance; CaseReads has none of them.                     *)

(* The worker, and requests for verifications of the oldest snapshot, come  *)
(* while at most one request is in flight and no traversal.                 *)
Uncrowded == history.at = "idle" /\ Cardinality({p \in Readers : building[p].at # "idle"}) <= 1

(* A request begins during no traversal.  Two in flight store a report of   *)
(* the same snapshot, and do not meet where the first attempt has failed.   *)
Meets(pinned, store) ==
  /\ history.at = "idle"
  /\ \A q \in Readers : building[q].at # "idle" =>
       /\ store /\ building[q].store /\ building[q].snapshot = pinned
       /\ ~ (attempts # <<>> /\ attempts[1].state = "failed")

(* A traversal of stored revisions begins while one is inserted.            *)
TraversalMeets == history.at = "idle" /\ history'.at # "idle" => \E p \in Readers : building[p].at = "insert"

(* The case is archived while somebody reads it.                            *)
ArchivedWhileRead ==
  archived' /\ ~ archived => reader.at = "reading" \/ \E p \in Readers : building[p].at # "idle"

(* The sync that publishes between the reads of a report brings an          *)
(* observation that conflicts with the first transaction.                   *)
LateRows == syncs' # syncs => syncs'[Len(syncs)].rows = {2} /\ syncs'[Len(syncs)].scoped

Init ==
  /\ ReadsInit
  /\ part = IF syncs = <<>> THEN "activity" ELSE "reports"
  /\ part = "reports" /\ environment = "live" => attempts # <<>>
Next ==
  /\ UNCHANGED part
  /\ \/ part = "activity" /\ (CaseMoves \/ PagesTurn) /\ ArchivedWhileRead
     \/ /\ part = "reports"
        /\ \/ Uncrowded /\ (RequestVerificationAt(Min(Usable)) \/ AdvanceAttempt)
           \/ \E p \in Readers, pinned \in {NoSync} \cup SyncIds, store \in BOOLEAN :
                Meets(pinned, store) /\ ReadActivityAt(p, pinned, store)
           \/ \E p \in Readers : ReportSteps(p)
           \/ CatalogSteps /\ TraversalMeets
           \/ CaseMoves /\ ArchivedWhileRead /\ LateRows
           \/ DeleteCase
Spec == Init /\ [][Next]_<<part, vars>>
=============================================================================
