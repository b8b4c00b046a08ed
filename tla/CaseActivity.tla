---------------------------- MODULE CaseActivity ----------------------------
(* The Activity of one Wallet Case: a timeline built at read time from the  *)
(* rows of all usable syncs up to a pinned snapshot, without duplicates,    *)
(* filtered, ordered and cut into pages, while syncs publish and the        *)
(* process restarts between two pages.                                      *)
(* Rows are numbers into Observable; a row is what the provider reported:   *)
(* its kind, its validated identity or none, its time or none, one value    *)
(* that stands for every field a filter compares, and whether its stored    *)
(* form still agrees with its raw form.  An identity is a number.  Hashes,  *)
(* decimals, addresses, texts and the parsing of parameters are left out.   *)
EXTENDS Integers, FiniteSets, SequencesExt, FiniteSetsExt

CONSTANTS Observable,        (* the rows a provider may report, a sequence  *)
          Surfaces,          (* sets of kinds a sync may request            *)
          Periods,           (* periods a bounded sync may request          *)
          Queries,           (* what readers ask for                        *)
          Overlap,           (* _INCREMENTAL_OVERLAP                        *)
          PageLimit, MaxSourceSyncs, MaxSourceRows, MaxDetailSources,
          MaxSyncs,          (* bound: syncs of the case                    *)
          RowSets,           (* bound: sets of rows one sync stores         *)
          Published          (* bound: states and scope faults of a sync    *)

VARIABLES environment,       (* data_environment of the case: demo or live  *)
          archived,
          syncs,             (* by id; one at a time is active              *)
          reader             (* one traversal of pages                      *)

activityVars == <<environment, archived, syncs, reader>>

Kinds == {"transaction", "transfer", "swap"}
NoKey == 0
NoTime == -1
Unnamed == "unnamed"         (* an asset or address without an identity     *)
NoSync == 0
Always == [from |-> NoTime, to |-> NoTime]
NoFilter == [kinds |-> {}, trait |-> "none", value |-> Unnamed, period |-> Always,
             origins |-> {}, oldest |-> FALSE]

(* Which kinds carry the field a filter compares.                           *)
Carriers == [direction |-> {"transfer"}, outcome |-> {"transaction"}, asset |-> {"transfer", "swap"},
             protocol |-> {"swap"}, counterparty |-> {"transfer"}]

ActivityRow ==
  [kind : Kinds, key : Nat, time : Nat \cup {NoTime}, value : STRING, sound : BOOLEAN]

SyncRow ==
  [state : {"active", "partial", "succeeded", "failed"}, from : Nat, start : Nat, to : Nat,
   kinds : SUBSET Kinds, rows : SUBSET Nat, scoped : BOOLEAN]

ASSUME ActivityAssumption ==
  /\ Observable \in Seq(ActivityRow)
  /\ PageLimit \in Nat \ {0} /\ Overlap \in Nat /\ MaxDetailSources \in Nat
  /\ \A period \in Periods : period \in [from : Nat, to : Nat]
  /\ \A kinds \in Surfaces : kinds \subseteq Kinds
  /\ \A q \in Queries : q.oldest \in BOOLEAN /\ q.period \in [from : Int, to : Int]
  /\ \A rows \in RowSets : rows \subseteq 1..Len(Observable)
  /\ \A as \in Published : as \in [state : {"partial", "succeeded"}, scoped : BOOLEAN]

(* The element of a singleton: {F(v) : v \in {value}} computes value once.   *)
The(S) == CHOOSE v \in S : TRUE

(* The elements of a set in a strict total order: SetToSortSeq without the  *)
(* sort of module TLC, which is not defined by TLA+.                        *)
Sorted(S, Precedes(_, _)) ==
  [n \in 1..Cardinality(S) |-> CHOOSE x \in S : Cardinality({y \in S : Precedes(y, x)}) = n - 1]

Within(time, period) == period.from <= time /\ time < period.to
Origin == IF environment = "demo" THEN "demo_fixture" ELSE "provider_observed"

-----------------------------------------------------------------------------
(* Reading the sources of a snapshot.                                       *)

SyncIds == 1..Len(syncs)
Usable == {n \in SyncIds : syncs[n].state \in {"partial", "succeeded"}}
Requested(n) == [from |-> syncs[n].from, to |-> syncs[n].to]
Acquired(n) == [from |-> syncs[n].start, to |-> syncs[n].to]

Snapshot(pinned) ==
  IF pinned = NoSync THEN Max(Usable \cup {NoSync})
  ELSE IF pinned \in Usable THEN pinned ELSE NoSync

EffectivePeriod(s, q) == IF q.period = Always THEN Requested(s) ELSE q.period

(* Mutant: sources are no longer bounded by the pinned snapshot.            *)
SourcesOfToday(s, period) ==
  {n \in Usable : syncs[n].from < period.to /\ syncs[n].to > period.from}

(* Mutant: only sources that lie in the period.                             *)
SourcesInside(s, period) ==
  {n \in Usable : n <= s /\ syncs[n].from >= period.from /\ syncs[n].to <= period.to}

SourceSyncs(s, period) ==
  {n \in Usable : n <= s /\ syncs[n].from < period.to /\ syncs[n].to > period.from}

(* Times of a demo fixture are no times of the request.                     *)
AllRows(s, q) == environment = "demo" /\ q.period = Always

LoadedRows(s, q) ==
  {r \in SourceSyncs(s, EffectivePeriod(s, q)) \X (1..Len(Observable)) :
     /\ r[2] \in syncs[r[1]].rows
     /\ \/ AllRows(s, q) \/ Observable[r[2]].time = NoTime
        \/ Within(Observable[r[2]].time, EffectivePeriod(s, q))}

TooLarge(s, q) ==
  \/ Cardinality(SourceSyncs(s, EffectivePeriod(s, q))) > MaxSourceSyncs
  \/ Cardinality(LoadedRows(s, q)) > MaxSourceRows

(* The run still has the wallet, mode, window and surfaces of its sync.     *)
RunMatchesCase(n) == syncs[n].scoped

-----------------------------------------------------------------------------
(* Building the timeline.                                                   *)

RequestedKind(r) == Observable[r[2]].kind \in syncs[r[1]].kinds
InSourcePeriod(r) ==
  LET time == Observable[r[2]].time
  IN  environment = "demo" \/ time = NoTime \/ Within(time, Acquired(r[1]))
(* Origin, raw fields and, if there is one, the identity are derived again. *)
Revalidates(r) == Observable[r[2]].sound

Admitted(r) == RunMatchesCase(r[1]) /\ RequestedKind(r) /\ InSourcePeriod(r) /\ Revalidates(r)

(* Demo rows never have a validated identity.                               *)
Identity(r) == IF environment = "demo" THEN NoKey ELSE Observable[r[2]].key
Namespace(r) == IF Observable[r[2]].kind = "transaction" THEN 0 ELSE 1

(* _activity_public_id: one per identity, or one per row without identity;  *)
(* the digests of different ones differ.                                    *)
PublicId(r) ==
  IF Identity(r) # NoKey THEN 3 * Identity(r) + Namespace(r) ELSE 3 * (Len(Observable) * r[1] + r[2]) + 2

Semantic(r) == [kind |-> Observable[r[2]].kind, time |-> Observable[r[2]].time,
                value |-> Observable[r[2]].value]

Later(r, t) == r[1] > t[1] \/ (r[1] = t[1] /\ r[2] > t[2])
Winner(group) == CHOOSE r \in group : \A t \in group \ {r} : Later(r, t)
First(group) == CHOOSE r \in group : \A t \in group \ {r} : Later(t, r)

(* Mutant: rows without an identity are merged when they look alike.        *)
GroupedByLook(observations) ==
  {{t \in observations : Semantic(t) = Semantic(r) /\ Identity(t) = Identity(r)} : r \in observations}

Grouped(observations) ==
  {{t \in observations : PublicId(t) = PublicId(r)} : r \in observations}

Agrees(group) == \A r, t \in group : Semantic(r) = Semantic(t)

Assurance(r) ==
  IF Identity(r) = NoKey THEN "unavailable"
  ELSE IF Observable[r[2]].kind = "transaction" THEN "network_scoped" ELSE "provider_scoped"

Item(group) ==
  LET last == Winner(group)
  IN  [id |-> PublicId(last), kind |-> Semantic(last).kind, time |-> Semantic(last).time,
       value |-> Semantic(last).value, origin |-> Origin, assurance |-> Assurance(last),
       linked |-> Assurance(last) = "network_scoped", named |-> Assurance(last) = "provider_scoped",
       observations |-> Cardinality(group), suppressed |-> Cardinality(group) - 1,
       firstSeen |-> First(group)[1], lastSeen |-> last[1]]

BuiltFrom(rows, groups, sources) ==
  [items |-> {Item(g) : g \in {g \in groups : Agrees(g)}},
   groups |-> {g \in groups : Agrees(g)},
   conflicts |-> {{Item({r}) : r \in g} : g \in {g \in groups : ~ Agrees(g)}},
   valid |-> {n \in sources : RunMatchesCase(n)},
   mismatched |-> UNION {syncs[n].kinds : n \in {n \in sources : ~ RunMatchesCase(n)}}
                    \cup {Observable[r[2]].kind : r \in {r \in rows : RunMatchesCase(r[1]) /\ ~ RequestedKind(r)}},
   invalid |-> {Observable[r[2]].kind : r \in
                  {r \in rows : RunMatchesCase(r[1]) /\ RequestedKind(r) /\ ~ Admitted(r)}}]

Built(s, q) ==
  LET from(rows) == The({BuiltFrom(rows, groups, SourceSyncs(s, EffectivePeriod(s, q))) :
                           groups \in {Grouped({r \in rows : Admitted(r)})}})
  IN  The({from(rows) : rows \in {LoadedRows(s, q)}})

-----------------------------------------------------------------------------
(* Filters, order and pages.                                                *)

Matches(item, q) ==
  /\ q.kinds = {} \/ item.kind \in q.kinds
  /\ q.trait = "none" \/ (item.kind \in Carriers[q.trait] /\ item.value = q.value)
  /\ q.period = Always \/ (item.time # NoTime /\ Within(item.time, q.period))
  /\ q.origins = {} \/ item.origin \in q.origins

(* Times first or last first; without a time last of all; then the id.      *)
Before(a, b, oldest) ==
  IF (a.time = NoTime) # (b.time = NoTime) THEN b.time = NoTime
  ELSE IF a.time # b.time THEN (a.time < b.time) = oldest
  ELSE (a.id < b.id) = oldest
Ordered(items, oldest) == Sorted(items, LAMBDA a, b : a # b /\ Before(a, b, oldest))

PossibleKinds(q) ==
  (IF q.kinds = {} THEN Kinds ELSE q.kinds) \cap (IF q.trait = "none" THEN Kinds ELSE Carriers[q.trait])
AcceptsOrigin(q) == q.origins = {} \/ Origin \in q.origins
MayMatch(kind, q) == AcceptsOrigin(q) /\ kind \in PossibleKinds(q)
DiagnosticItems(built) == built.items \cup UNION built.conflicts

(* Mutant: only the newest of the conflicting observations is compared.     *)
ConflictsByWinner(built, q) ==
  {c \in built.conflicts : Matches(CHOOSE i \in c : \A j \in c : j.lastSeen <= i.lastSeen, q)}

MatchingConflicts(built, q) == {c \in built.conflicts : \E i \in c : Matches(i, q)}

Unidentified(built, q) == {i \in DiagnosticItems(built) : i.assurance = "unavailable" /\ Matches(i, q)}
UnnamedAssets(built, q) ==
  {i \in DiagnosticItems(built) :
     /\ i.kind \in Carriers["asset"] /\ i.value = Unnamed
     /\ Matches(i, IF q.trait = "asset" THEN [q EXCEPT !.trait = "none"] ELSE q)}
Undated(built, q) == {i \in DiagnosticItems(built) : i.time = NoTime /\ Matches(i, [q EXCEPT !.period = Always])}
Mismatched(built, q) == {k \in built.mismatched : MayMatch(k, q)}
Invalid(built, q) == {k \in built.invalid : MayMatch(k, q)}

(* Gaps and limitations are their codes; those without a condition are left *)
(* out.  The coverage a sync publishes is complete or, if it is partial,    *)
(* incomplete for every surface.                                            *)
Gaps(s, built, q) ==
  {code \in {"surface_incomplete"} : syncs[s].state = "partial" /\ \E k \in syncs[s].kinds : MayMatch(k, q)}
  \cup {code \in {"identity_semantic_conflict"} : MatchingConflicts(built, q) # {}}
  \cup {code \in {"activity_identity_unavailable"} : Unidentified(built, q) # {}}
  \cup {code \in {"asset_identity_unavailable"} : UnnamedAssets(built, q) # {}}
  \cup {code \in {"activity_timestamp_unavailable"} : Undated(built, q) # {}}
  \cup {code \in {"source_scope_mismatch"} : Mismatched(built, q) # {}}
  \cup {code \in {"source_provenance_mismatch"} : Invalid(built, q) # {}}
  \cup {code \in {"demo_fixture_period_not_chain_coverage"} : environment = "demo" /\ AcceptsOrigin(q)}

Limitations(built, q) ==
  {code \in {"demo_fixture_not_chain_data"} : environment = "demo"}
  \cup {code \in {"identity_semantic_conflict"} : MatchingConflicts(built, q) # {}}
  \cup {code \in {"unknown_time_rows_excluded"} : q.period # Always /\ Undated(built, q) # {}}

Suppressed(items) == MapThenSumSet(LAMBDA i : i.suppressed, items)

Aggregate(items, built, q) ==
  [total |-> Cardinality(items),
   perKind |-> [k \in Kinds |-> Cardinality({i \in items : i.kind = k})],
   sources |-> IF AcceptsOrigin(q)
               THEN Cardinality({n \in built.valid : syncs[n].kinds \cap PossibleKinds(q) # {}}) ELSE 0,
   suppressed |-> Suppressed(items),
   conflicts |-> Cardinality(MatchingConflicts(built, q))]

ObservedPeriod(items) ==
  LET times == {i.time : i \in items} \ {NoTime}
  IN  IF times = {} THEN Always ELSE [from |-> Min(times), to |-> Max(times) + 1]

(* _empty_response: the case has no usable sync.                            *)
NoActivity == [snapshot |-> NoSync, ordered |-> <<>>, observed |-> Always, gaps |-> {"not_synchronized"},
               limitations |-> {"not_synchronized"},
               aggregate |-> [total |-> 0, perKind |-> [k \in Kinds |-> 0], sources |-> 0,
                              suppressed |-> 0, conflicts |-> 0]]

(* The whole answer to a query at a snapshot, before it is cut.             *)
ViewOf(s, q, built, items) ==
  [snapshot |-> s, ordered |-> Ordered(items, q.oldest), observed |-> ObservedPeriod(items),
   gaps |-> Gaps(s, built, q), limitations |-> Limitations(built, q),
   aggregate |-> Aggregate(items, built, q)]

View(s, q) ==
  LET of(built) == The({ViewOf(s, q, built, items) :
                          items \in {{i \in built.items : Matches(i, q)}}})
  IN  The({of(built) : built \in {Built(s, q)}})

(* The period of a query stays within the request of the snapshot.          *)
PeriodFits(s, q) == q.period = Always \/ (q.period.from >= syncs[s].from /\ q.period.to <= syncs[s].to)

(* What ends a request without an answer, in the order of the code.         *)
Refusal(pinned, q) ==
  LET s == Snapshot(pinned)
  IN  IF archived THEN "case_not_found"
      ELSE IF s = NoSync THEN (IF pinned = NoSync THEN "none" ELSE "snapshot_not_found")
      ELSE IF ~ PeriodFits(s, q) THEN "invalid_query"
      ELSE IF TooLarge(s, q) THEN "scope_too_large"
      ELSE IF ~ RunMatchesCase(s) THEN "snapshot_conflict" ELSE "none"

Answer(pinned, q) == IF Snapshot(pinned) = NoSync THEN NoActivity ELSE View(Snapshot(pinned), q)

(* The page after a position; position 0 is the beginning.                  *)
Page(ordered, after) ==
  LET start == IF after = NoKey THEN 0 ELSE CHOOSE i \in 1..Len(ordered) : ordered[i].id = after
      end == Min({start + PageLimit, Len(ordered)})
  IN  [items |-> SubSeq(ordered, start + 1, end), more |-> end < Len(ordered)]

PositionKnown(ordered, after) == after = NoKey \/ \E i \in 1..Len(ordered) : ordered[i].id = after

-----------------------------------------------------------------------------
(* One item with its observations; what reports, findings and Evidence use. *)

Detail(s, group) ==
  LET ordered == Sorted(group, LAMBDA r, t : Later(t, r))
      shown == SubSeq(ordered, 1, Min({MaxDetailSources, Len(ordered)}))
  IN  [item |-> Item(group), origin |-> Origin, sources |-> [i \in 1..Len(shown) |-> shown[i][1]],
       truncated |-> Len(ordered) > MaxDetailSources]

(* All items of a snapshot in one answer, for reports and findings.         *)
Dataset(pinned) == Answer(pinned, NoFilter)

(* The transactions of a snapshot that Evidence may select, each with the   *)
(* stored row it stands for.                                                *)
Verifiable(s) ==
  {[id |-> PublicId(Winner(g)), row |-> Winner(g), semantic |-> Semantic(Winner(g))] :
     g \in {g \in Built(s, NoFilter).groups :
              Item(g).kind = "transaction" /\ Item(g).linked /\ Item(g).origin = "provider_observed"}}

-----------------------------------------------------------------------------
(* The response schemas; an answer they refuse is a server error.           *)

SchemaProvenance(item) ==
  /\ item.suppressed = item.observations - 1
  /\ item.origin = "demo_fixture" => item.assurance = "unavailable"
  /\ item.assurance = "unavailable" => item.observations = 1

SchemaItem(item) ==
  /\ SchemaProvenance(item)
  /\ item.kind = "transaction" =>
       /\ item.assurance \in {"network_scoped", "unavailable"}
       /\ item.linked <=> item.assurance = "network_scoped"
  /\ item.kind # "transaction" =>
       /\ item.assurance \in {"provider_scoped", "unavailable"}
       /\ ~ item.linked
       /\ item.named <=> item.assurance = "provider_scoped"

SchemaList(view, page) ==
  /\ LET count == view.aggregate.perKind
     IN  view.aggregate.total = count["transaction"] + count["transfer"] + count["swap"]
  /\ view.snapshot = NoSync =>
       view.ordered = <<>> /\ view.observed = Always /\ "not_synchronized" \in view.limitations
  /\ view.observed = Always \/ view.observed.from < view.observed.to
  /\ \A i \in 1..Len(page.items) : SchemaItem(page.items[i]) /\ page.items[i].origin = Origin

SchemaDetail(detail) ==
  LET shown == Len(detail.sources)
      seen == {detail.sources[i] : i \in 1..shown}
  IN  /\ SchemaItem(detail.item) /\ detail.origin = detail.item.origin
      /\ shown <= detail.item.observations
      /\ ~ detail.truncated => shown = detail.item.observations /\ {detail.item.firstSeen, detail.item.lastSeen} \subseteq seen

-----------------------------------------------------------------------------
(* Syncs of the case, one at a time (CaseSyncJobs), and the lifecycle.      *)

Resting == [at |-> "idle", pinned |-> NoSync, query |-> NoFilter, signed |-> TRUE, after |-> NoKey,
            shown |-> <<>>, view |-> NoActivity, why |-> "none"]

MayBegin == ~ archived /\ Len(syncs) < MaxSyncs /\ \A n \in SyncIds : syncs[n].state # "active"

NewSync(from, start, to, kinds) ==
  syncs' = Append(syncs, [state |-> "active", from |-> from, start |-> start, to |-> to,
                          kinds |-> kinds, rows |-> {}, scoped |-> TRUE])

BeginBounded ==
  /\ MayBegin
  /\ \E period \in Periods, kinds \in Surfaces : NewSync(period.from, period.from, period.to, kinds)
  /\ UNCHANGED <<environment, archived, reader>>

(* It keeps the start of the newest usable sync, goes on to the present and *)
(* acquires the rows since the end of its base less the overlap.            *)
BeginIncremental ==
  /\ MayBegin /\ Usable # {}
  /\ LET base == syncs[Max(Usable)]
     IN  \E now \in {p.to : p \in Periods} :
           /\ base.to < now
           /\ NewSync(base.from, Max({base.from, base.to - Overlap}), now, base.kinds)
  /\ UNCHANGED <<environment, archived, reader>>

(* The run is stored with what was acquired; rows that do not revalidate or *)
(* belong to another kind, time or wallet are stored faults.                *)
PublishSync ==
  \E n \in SyncIds, as \in Published, rows \in RowSets :
    /\ syncs[n].state = "active" /\ ~ archived
    /\ \A i \in rows : environment = "demo" \/ Observable[i].time = NoTime
                         \/ Within(Observable[i].time, Acquired(n)) \/ ~ Observable[i].sound
    /\ \A i \in rows : Observable[i].kind \in syncs[n].kinds
    /\ syncs' = [syncs EXCEPT ![n].state = as.state, ![n].scoped = as.scoped, ![n].rows = rows]
    /\ UNCHANGED <<environment, archived, reader>>

FailSync ==
  \E n \in SyncIds :
    /\ syncs[n].state = "active"
    /\ syncs' = [syncs EXCEPT ![n].state = "failed"]
    /\ UNCHANGED <<environment, archived, reader>>

ArchiveCase ==
  /\ ~ archived /\ \A n \in SyncIds : syncs[n].state # "active"
  /\ archived' = TRUE
  /\ UNCHANGED <<environment, syncs, reader>>

RestoreCase ==
  /\ archived /\ archived' = FALSE
  /\ UNCHANGED <<environment, syncs, reader>>

(* The key that signs cursors belongs to one process; only a traversal      *)
(* holds one.                                                               *)
Restart ==
  /\ reader.at = "reading" /\ reader' = [reader EXCEPT !.signed = FALSE]
  /\ UNCHANGED <<environment, archived, syncs>>

-----------------------------------------------------------------------------
(* A traversal.                                                             *)

Shown(pinned, q, after) ==
  \E view \in {Answer(pinned, q)} : \E page \in {Page(view.ordered, after)} :
      reader' = [reader EXCEPT
        !.at = IF page.more THEN "reading" ELSE "done",
        !.pinned = IF view.snapshot = NoSync THEN @ ELSE view.snapshot,
        !.query = q, !.shown = @ \o page.items,
        !.after = IF page.more THEN page.items[Len(page.items)].id ELSE NoKey,
        !.view = IF after = NoKey THEN view ELSE @]

Refuse(why) == reader' = [reader EXCEPT !.at = "refused", !.why = why, !.view = NoActivity, !.shown = <<>>]

FirstPage ==
  /\ reader.at = "idle"
  /\ \E pinned \in {NoSync} \cup SyncIds, q \in Queries :
       IF Refusal(pinned, q) # "none" THEN FALSE ELSE Shown(pinned, q, NoKey)
  /\ UNCHANGED <<environment, archived, syncs>>

(* The cursor names case, snapshot, filter, order and position under the    *)
(* key of the process that gave it.                                         *)
NextPage ==
  /\ reader.at = "reading"
  /\ IF ~ reader.signed THEN Refuse("invalid_cursor")
     ELSE IF Refusal(reader.pinned, reader.query) # "none" THEN Refuse(Refusal(reader.pinned, reader.query))
     ELSE IF ~ PositionKnown(Answer(reader.pinned, reader.query).ordered, reader.after) THEN Refuse("invalid_cursor")
     ELSE Shown(reader.pinned, reader.query, reader.after)
  /\ UNCHANGED <<environment, archived, syncs>>

StartOver ==
  /\ reader.at \in {"done", "refused"} /\ ~ archived /\ reader' = Resting
  /\ UNCHANGED <<environment, archived, syncs>>

SyncSteps == BeginBounded \/ BeginIncremental \/ PublishSync \/ FailSync
ReaderSteps == Restart \/ FirstPage \/ NextPage \/ StartOver
ActivityNext == SyncSteps \/ ArchiveCase \/ RestoreCase \/ ReaderSteps

-----------------------------------------------------------------------------
(* Properties.                                                              *)

(* A traversal shows exactly what its first page froze, every item once and *)
(* in order, although syncs publish in between ("a later sync cannot change *)
(* an in-progress traversal", RELEASE_NOTES), and only a restart or the     *)
(* archival of the case ends it early.                                      *)
ActivityWalkIsFrozen ==
  /\ reader.at = "done" => reader.shown = reader.view.ordered
  /\ reader.at \in {"reading", "done"} => reader.view.aggregate.total = Len(reader.view.ordered)
  /\ reader.at = "refused" =>
       \/ reader.why = "invalid_cursor" /\ ~ reader.signed
       \/ reader.why = "case_not_found"

Answerable(s, q) == Refusal(s, q) = "none"

(* Every stored row that a query asks for is part of an item of the answer  *)
(* or of what a gap of the answer declares omitted.                         *)
OmissionsAreDeclared(s, q) ==
  LET view == View(s, q)
      shows(r) == \E i \in 1..Len(view.ordered) :
                    view.ordered[i].id = PublicId(r) /\ view.ordered[i].value = Semantic(r).value
      asked(r, filter) == Matches(Item({r}), filter)
      due(n, i) == /\ asked(<<n, i>>, q)
                   /\ Within(Observable[i].time, Requested(n))
                   /\ Within(Observable[i].time, EffectivePeriod(s, q))
  IN  \A n \in {n \in Usable : n <= s} : \A i \in syncs[n].rows : due(n, i) =>
          \/ shows(<<n, i>>)
          \/ ~ RunMatchesCase(n) /\ "source_scope_mismatch" \in view.gaps
          \/ ~ Observable[i].sound /\ "source_provenance_mismatch" \in view.gaps
          \/ "identity_semantic_conflict" \in view.gaps

(* What an older snapshot shows, a newer one that covers its time shows too *)
(* or declares in conflict: refreshing a case never loses an activity.      *)
ActivityIsKept(m, n) ==
  LET old == View(m, NoFilter)
      new == View(n, NoFilter)
  IN  \A i \in 1..Len(old.ordered) :
        Within(old.ordered[i].time, Requested(n)) =>
          \/ \E j \in 1..Len(new.ordered) : new.ordered[j].id = old.ordered[i].id
          \/ "identity_semantic_conflict" \in new.gaps

ActivityIsNotLost ==
  reader.at = "idle" /\ ~ archived /\ environment = "live" =>
    /\ \A s \in Usable, q \in Queries : Answerable(s, q) => OmissionsAreDeclared(s, q)
    /\ \A m, n \in Usable : m < n /\ Answerable(m, NoFilter) /\ Answerable(n, NoFilter) => ActivityIsKept(m, n)

(* Every answer passes its response schema, in pages and in detail.         *)
ActivityIsServed ==
  reader.at = "idle" /\ ~ archived =>
    /\ SchemaList(NoActivity, Page(<<>>, NoKey))
    /\ \A s \in Usable, q \in Queries : Answerable(s, q) =>
         \A view \in {View(s, q)} : SchemaList(view, Page(view.ordered, NoKey))
    /\ \A s \in Usable : Answerable(s, NoFilter) =>
         \A g \in Built(s, NoFilter).groups : SchemaDetail(Detail(s, g))
=============================================================================
