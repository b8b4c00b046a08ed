------------------------- MODULE ProviderAcquisition -------------------------
(***************************************************************************)
(* The bounded page acquisition of the TonAPI adapter: one loop per        *)
(* provider stream that walks the account history backwards from a cursor, *)
(* validates every page, accepts the rows of the requested interval, and   *)
(* ends with the evidence that the checkpoints are built from.             *)
(*                                                                         *)
(*   adapters/wallet_activity.py   the two acquisition loops, live result  *)
(*   adapters/tonapi.py            page requests and their own checks      *)
(*   services/wallet_case_stream_checkpoints.py   the verdict on a stream  *)
(*                                                                         *)
(* A row is its logical time; At gives its timestamp.  The adapter runs    *)
(* with resolved bounds, as the CaseSync worker always does: the preview   *)
(* and the one-page legacy paths never reach a checkpoint of a case sync.  *)
(* Pages are fetched one at a time, and between two pages the provider may *)
(* settle an event or fail.                                                *)
(***************************************************************************)
EXTENDS Integers, SequencesExt

CONSTANTS Streams,   (* subset of {"transactions", "account_events"}         *)
          Lts,       (* logical times of the provider's rows                 *)
          At,        (* the timestamp of each row                            *)
          Start, End,(* the resolved interval, End excluded                  *)
          PageSize,  (* rows per page                                        *)
          PageCap,   (* configured pages of one acquisition                  *)
          Faults,    (* what the provider does wrong: see Answers            *)
          NULL

ASSUME AcquisitionAssumption ==
  /\ Streams \subseteq {"transactions", "account_events"}
  /\ Lts \subseteq Nat \ {0} /\ IsFiniteSet(Lts) /\ At \in [Lts -> Nat]
  /\ \A a, b \in Lts : a < b => At[a] <= At[b]
  /\ Start \in Nat /\ End \in Nat /\ Start < End
  /\ PageSize \in Nat \ {0} /\ PageCap \in Nat \ {0}
  /\ Faults \subseteq {"provider_error", "protocol_error", "repeat", "short"}
  /\ NULL \notin Nat

VARIABLES ledger,    (* the rows the provider holds for the account          *)
          pending,   (* account events whose trace is still in progress      *)
          acq        (* the acquisition the worker is running                *)

acquisitionVars == <<ledger, pending, acq>>

InInterval(lt) == Start <= At[lt] /\ At[lt] < End

Page == [index : Nat, request : Lts \cup {NULL}, response : Lts \cup {NULL}, ok : BOOLEAN]

(* WalletActivityAcquisitionStreamEvidence, with the rows it normalised.    *)
Evidence ==
  [completion : {"complete", "incomplete", "error"},
   termination : {"provider_terminal", "requested_start_crossed", "page_cap_reached",
                  "provider_event_in_progress", "provider_error", "protocol_error"},
   pages : Seq(Page), cursor : Lts \cup {NULL}, accepted : SUBSET Lts]

Idle == [at |-> "idle", todo |-> <<>>, cursor |-> NULL, index |-> 1, left |-> 0,
         pages |-> <<>>, accepted |-> {}, seen |-> {}, sawPending |-> FALSE,
         snapshot |-> "none", got |-> [s \in Streams |-> NULL]]

Acquisition ==
  [at : {"idle", "fetching", "done"}, todo : Seq(Streams), cursor : Lts \cup {NULL},
   index : Nat, left : Nat, pages : Seq(Page), accepted : SUBSET Lts, seen : SUBSET Lts,
   sawPending : BOOLEAN, snapshot : {"none", "ok", "failed"},
   got : [Streams -> Evidence \cup {NULL}]]

AcquisitionTypeOK ==
  /\ ledger \in [Streams -> SUBSET Lts]
  /\ pending \subseteq Lts
  /\ acq \in Acquisition

-----------------------------------------------------------------------------
(* The provider.                                                            *)

(* Rows TonAPI selects: strictly below before_lt, and for account events    *)
(* also inside the closed [start_date, end_date] of the request.            *)
Selected(s, cursor) ==
  {lt \in ledger[s] : /\ cursor = NULL \/ lt < cursor
                      /\ s = "account_events" => Start <= At[lt] /\ At[lt] <= End}

(* The n newest rows of S, in descending order.                             *)
FirstRows(S, n) ==
  [i \in 1..Min({n, Cardinality(S)}) |->
     CHOOSE lt \in S : Cardinality({newer \in S : newer > lt}) = i - 1]

(* A page is a prefix of the selected rows, whole unless the provider cuts  *)
(* it short; a faulty provider repeats its first page or answers no page.   *)
Answers(s, cursor) ==
  LET rows == Selected(s, cursor)
  IN  {[status |-> "ok", rows |-> FirstRows(rows, n)] :
         n \in IF "short" \in Faults THEN 1..PageSize ELSE {PageSize}}
      \cup (IF "repeat" \in Faults
              THEN {[status |-> "ok", rows |-> FirstRows(Selected(s, NULL), PageSize)]}
              ELSE {})
      \cup {[status |-> f, rows |-> <<>>] : f \in Faults \cap {"provider_error", "protocol_error"}}

(* Mutant: the page need not lie below the cursor it was asked for.         *)
PageAnywhere(rows, cursor) ==
  /\ Len(rows) <= PageSize
  /\ \A i, j \in 1..Len(rows) : i < j => rows[i] > rows[j] /\ At[rows[i]] >= At[rows[j]]

(* What TonapiAdapter and _validate_*_page require of a page.               *)
ValidPage(rows, cursor) ==
  /\ Len(rows) <= PageSize
  /\ \A i, j \in 1..Len(rows) : i < j => rows[i] > rows[j] /\ At[rows[i]] >= At[rows[j]]
  /\ rows # <<>> /\ cursor # NULL => rows[1] < cursor

-----------------------------------------------------------------------------
(* The adapter.                                                             *)

(* _resume_position and _effective_resume_page_cap of one stream.           *)
StartStream(s, cursor, index, cap) ==
  [acq EXCEPT !.at = "fetching", !.cursor = cursor, !.index = index, !.left = cap,
              !.pages = <<>>, !.accepted = {}, !.seen = {}, !.sawPending = FALSE]

(* _fetch_live_activity: a full sync asks for the balance snapshots, then   *)
(* the transactions, then one event stream; a resume for its stream only.   *)
Requested(streams, cursor, index, cap, snapshot) ==
  [StartStream(streams[1], cursor, index, cap) EXCEPT
     !.todo = streams, !.snapshot = snapshot, !.got = [s \in Streams |-> NULL]]

CurrentStream == acq.todo[1]

(* The loop has ended for the current stream: keep its evidence and turn to *)
(* the next stream, which always starts at the newest page.                 *)
StreamEnds(completion, termination, pages, cursor, accepted) ==
  LET evidence == [completion |-> completion, termination |-> termination, pages |-> pages,
                   cursor |-> cursor, accepted |-> accepted]
      rest == Tail(acq.todo)
      next == IF rest = <<>> THEN [acq EXCEPT !.at = "done"] ELSE StartStream(rest[1], NULL, 1, PageCap)
  IN  acq' = [next EXCEPT !.todo = rest, !.got[CurrentStream] = evidence, !.pages = <<>>,
                          !.accepted = {}, !.seen = {}]

(* A request that failed, or a page that was refused: an error page ends    *)
(* the stream and leaves the cursor where it was.                           *)
PageFails(termination) ==
  /\ acq.at = "fetching"
  /\ StreamEnds(IF acq.accepted = {} THEN "error" ELSE "incomplete", termination,
                Append(acq.pages, [index |-> acq.index, request |-> acq.cursor,
                                   response |-> NULL, ok |-> FALSE]),
                acq.cursor, acq.accepted)
  /\ UNCHANGED <<ledger, pending>>

(* A valid page: rows seen before are duplicates, rows outside the interval *)
(* are skipped, in-progress events are left out and remembered.             *)
PageArrives(rows) ==
  /\ acq.at = "fetching"
  /\ LET fresh == Range(rows) \ acq.seen
         unsettled == IF CurrentStream = "account_events"
                        THEN {lt \in fresh \cap pending : InInterval(lt)} ELSE {}
         accepted == acq.accepted \cup ({lt \in fresh : InInterval(lt)} \ unsettled)
         crossed == \E lt \in fresh : At[lt] < Start
         saw == acq.sawPending \/ unsettled # {}
         response == IF rows = <<>> THEN NULL ELSE rows[Len(rows)]
         pages == Append(acq.pages, [index |-> acq.index, request |-> acq.cursor,
                                     response |-> response, ok |-> TRUE])
     IN  IF rows = <<>> \/ crossed
           THEN IF saw
                  THEN StreamEnds("incomplete", "provider_event_in_progress", pages, response, accepted)
                  ELSE StreamEnds("complete",
                                  IF rows = <<>> THEN "provider_terminal" ELSE "requested_start_crossed",
                                  pages, response, accepted)
           ELSE IF acq.left = 1
           THEN StreamEnds("incomplete", "page_cap_reached", pages, response, accepted)
           ELSE acq' = [acq EXCEPT !.cursor = response, !.index = @ + 1, !.left = @ - 1,
                                   !.pages = pages, !.accepted = accepted,
                                   !.seen = @ \cup fresh, !.sawPending = saw]
  /\ UNCHANGED <<ledger, pending>>

FetchPage ==
  /\ acq.at = "fetching"
  /\ \E answer \in Answers(CurrentStream, acq.cursor) :
       IF answer.status # "ok" THEN PageFails(answer.status)
       ELSE IF ValidPage(answer.rows, acq.cursor) THEN PageArrives(answer.rows)
       ELSE PageFails("protocol_error")

(* The provider finishes the trace of an event.                             *)
EventSettles ==
  /\ \E lt \in pending : pending' = pending \ {lt}
  /\ UNCHANGED <<ledger, acq>>

-----------------------------------------------------------------------------
(* What the rest of the program reads from finished evidence.               *)

Fatal(evidence) == evidence.completion = "error"
Acquired == {s \in Streams : acq.got[s] # NULL}

(* _fetch_live_activity's status of the run.                                *)
RunStatus ==
  IF /\ \A s \in Acquired : Fatal(acq.got[s])
     /\ acq.snapshot # "ok"
    THEN "error"
  ELSE IF \/ "account_events" \in Acquired
          \/ acq.snapshot = "failed"
          \/ \E s \in Acquired : acq.got[s].completion # "complete"
    THEN "partial"
  ELSE "success"

(* The successful pages: their positions, the pages in order, and the last. *)
GoodAt(evidence) == {i \in 1..Len(evidence.pages) : evidence.pages[i].ok}
GoodPages(evidence) ==
  LET good[n \in 0..Len(evidence.pages)] ==
        IF n = 0 THEN <<>>
        ELSE IF n \in GoodAt(evidence) THEN Append(good[n - 1], evidence.pages[n])
        ELSE good[n - 1]
  IN  good[Len(evidence.pages)]
LastGood(evidence) == evidence.pages[Max(GoodAt(evidence))]

(* _build_checkpoint: only an interrupted walk whose last successful page   *)
(* produced the terminal cursor may be resumed.                             *)
Resumable(evidence) ==
  /\ evidence.completion = "incomplete"
  /\ evidence.termination \in {"page_cap_reached", "provider_error"}
  /\ GoodAt(evidence) # {}
  /\ evidence.cursor # NULL
  /\ LastGood(evidence).response = evidence.cursor

ResumeState(evidence) ==
  IF evidence.completion = "complete" THEN "complete"
  ELSE IF Resumable(evidence) THEN "ready" ELSE "blocked"

ContinuationIndex(evidence) == LastGood(evidence).index + 1
=============================================================================
