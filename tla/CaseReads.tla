----------------------------- MODULE CaseReads -----------------------------
(* One Wallet Case and all who read it: a traversal of Activity, requests   *)
(* for reports and findings, a traversal of the stored revisions, while its *)
(* syncs and its attempts move and it is archived, restored and deleted.    *)
EXTENDS CaseFindings

CONSTANT Histories           (* what a case may have stored already         *)

(* Rows that a sync asked for, of the period it acquired unless they are    *)
(* faults.                                                                  *)
Acquirable(world, sync) ==
  /\ sync.from <= sync.start
  /\ \A i \in sync.rows :
       /\ i \in 1..Len(Observable) /\ Observable[i].kind \in sync.kinds
       /\ \/ world = "demo" \/ Observable[i].time = NoTime \/ ~ Observable[i].sound
          \/ Within(Observable[i].time, [from |-> sync.start, to |-> sync.to])

ASSUME HistoryAssumption ==
  \A h \in Histories :
    /\ h.environment \in {"demo", "live"} /\ h.syncs \in Seq(SyncRow)
    /\ \A n \in 1..Len(h.syncs) :
         /\ h.syncs[n].state = "active" => n = Len(h.syncs)
         /\ Acquirable(h.environment, h.syncs[n])

vars == <<activityVars, reportVars>>

ReadsInit ==
  /\ \E h \in Histories : environment = h.environment /\ syncs = h.syncs
  /\ archived = FALSE /\ reader = Resting /\ ReportInit

PagesTurn == ~ deleted /\ ReaderSteps /\ UNCHANGED reportVars

ReadsNext == ReportNext \/ PagesTurn
ReadsSpec == ReadsInit /\ [][ReadsNext]_vars

-----------------------------------------------------------------------------
(* A traversal of pages is a frozen view while syncs publish, and what a    *)
(* snapshot pins stays pinned for reports and for the catalog of stored     *)
(* reports: _page, _decode_cursor and the report revision catalog.          *)
WalksAreFrozen == ActivityWalkIsFrozen /\ ReportsArePinned

(* Every answer to a page, a detail, a report, findings, a catalog and a    *)
(* comparison passes the response schema, whatever moved between its reads. *)
AnswersAreServed == (AtRest => ActivityIsServed) /\ ReportsAreServed /\ FindingsAreServed

(* Refreshing and filtering lose nothing without saying so; evaluated while *)
(* no traversal is under way: _build_activity, _matching_conflict_count.    *)
NothingIsLost == AtRest => ActivityIsNotLost

(* Gates of reports and levels of findings claim what attempts have proven  *)
(* for the very activities they are about: _canonical_gate, _finding.       *)
EveryClaimIsProven == ReportsClaimWhatIsProven /\ FindingsClaimTheirWeakest
=============================================================================
