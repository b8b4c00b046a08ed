---------------------------- MODULE CaseFindings ----------------------------
(* Findings and flows of one Wallet Case: published rules over the Activity *)
(* of a pinned snapshot and the strongest attempt to verify each of its     *)
(* transactions.  They are read like a report (CaseReports), never stored,  *)
(* and named by their content.                                              *)
(* The one value of a row is the outcome of a transaction, the asset and    *)
(* the counterparty of a transfer, both assets and the protocol of a swap.  *)
(* Amounts and wording are left out.                                        *)
EXTENDS CaseReports

CONSTANTS MaxFlowGroups,     (* MAX_FLOW_GROUPS                             *)
          MaxSupport,        (* MAX_SUPPORTING_ACTIVITIES                   *)
          MaxPatterns,       (* MAX_PATTERN_FINDINGS                        *)
          Failed             (* the outcome of a failed transaction         *)

ASSUME FindingAssumption == MaxSupport \in Nat \ {0} /\ MaxPatterns \in Nat /\ MaxFlowGroups \in Nat

(* Evidence levels in their order.                                          *)
Fixture == 0
ProviderObservation == 1
LocallyVerified == 2
ChainInclusionProven == 3
BaseLevel == IF environment = "demo" THEN Fixture ELSE ProviderObservation

IdsOf(items) == {i.id : i \in items}
Shortest(ids, limit) ==
  LET ordered == Sorted(ids, LAMBDA a, b : a < b)
  IN  {ordered[n] : n \in 1..Min({limit, Len(ordered)})}

-----------------------------------------------------------------------------
(* The level of an item is what its strongest attempt has proven.           *)

(* Mutant: the newest attempt decides.                                      *)
LevelOfNewest(item, rows) ==
  LET of == {a \in rows : a.activity = item.id}
      newest == CHOOSE a \in of : \A b \in of : b.id <= a.id
  IN  IF of # {} /\ newest.progress >= 3 THEN ChainInclusionProven
      ELSE IF of # {} /\ newest.progress = 2 THEN LocallyVerified ELSE BaseLevel

EvidenceLevel(item, rows) ==
  LET strongest == {a \in StrongestAttempts(rows) : a.activity = item.id}
  IN  IF \E a \in strongest : a.progress >= 3 THEN ChainInclusionProven
      ELSE IF \E a \in strongest : a.progress = 2 THEN LocallyVerified ELSE BaseLevel

-----------------------------------------------------------------------------
(* Flows: identified assets, counterparties and protocols with their        *)
(* observations; items without the identity are counted apart.              *)

Transfers(items) == {i \in items : i.kind = "transfer"}
Swaps(items) == {i \in items : i.kind = "swap"}
Named(items) == {i \in items : i.value # Unnamed}

(* A swap is two observations, one of each of its legs.                     *)
AssetFlow(key, items) ==
  LET of == {i \in Transfers(items) \cup Swaps(items) : i.value = key}
  IN  [key |-> key, observations |-> Cardinality(of) + Cardinality(Swaps(of)),
       support |-> Shortest(IdsOf(of), MaxSupport), truncated |-> Cardinality(of) > MaxSupport]

Flow(key, items) ==
  LET of == {i \in items : i.value = key}
  IN  [key |-> key, observations |-> Cardinality(of), support |-> Shortest(IdsOf(of), MaxSupport),
       truncated |-> Cardinality(of) > MaxSupport]

(* The code goes on by name where observations are equal.                   *)
MostObserved(flows) ==
  CHOOSE f \in [1..Cardinality(flows) -> flows] :
    IsInjective(f) /\ \A m, n \in 1..Cardinality(flows) : m < n => f[m].observations >= f[n].observations
Groups(items, FlowOf(_, _)) ==
  MostObserved({FlowOf(key, items) : key \in {i.value : i \in Named(items)}})

FlowSummary(items) ==
  LET valued == Transfers(items) \cup Swaps(items)
  IN  [assets |-> Groups(valued, AssetFlow),
       counterparties |-> Groups(Transfers(items), Flow), protocols |-> Groups(Swaps(items), Flow),
       unnamedAssets |-> IdsOf(valued \ Named(valued)),
       unnamedCounterparties |-> IdsOf(Transfers(items) \ Named(Transfers(items))),
       unnamedProtocols |-> IdsOf(Swaps(items) \ Named(Swaps(items)))]

FirstOf(s, limit) == SubSeq(s, 1, Min({limit, Len(s)}))
Cut(groups) == [identified |-> Len(groups), rows |-> FirstOf(groups, MaxFlowGroups),
                truncated |-> Len(groups) > MaxFlowGroups]

-----------------------------------------------------------------------------
(* Findings.  A rule about rows has the least level of its rows as known    *)
(* to the rule: those of a pattern are the support of its group.            *)

Finding(rule, key, affected, basis, ids, items, rows, cap) ==
  LET known == {i \in items : i.id \in ids}
      shown == Shortest(IdsOf(known), MaxSupport)
      level == Min({EvidenceLevel(i, rows) : i \in known} \cup {IF known = {} THEN BaseLevel ELSE ChainInclusionProven})
  IN  [rule |-> rule, key |-> key, affected |-> affected, basis |-> basis,
       support |-> {[id |-> i.id, level |-> EvidenceLevel(i, rows)] : i \in {i \in known : i.id \in shown}},
       truncated |-> basis = "activity_rows" /\ affected > Cardinality(shown),
       level |-> Min({level, cap})]

Diagnostic(rule, count, basis) ==
  {Finding(rule, "case", n, basis, {}, {}, {}, ChainInclusionProven) : n \in {count} \ {0}}

About(rule, ids, items, rows, cap) ==
  {Finding(rule, "case", Cardinality(ids), "activity_rows", ids, items, rows, cap) : n \in {1} \cap 1..Cardinality(ids)}

Pattern(rule, groups, items, rows) ==
  LET first == FirstOf(groups, MaxPatterns)
  IN  {Finding(rule, first[n].key, first[n].observations, "activity_rows", first[n].support, items, rows,
               ChainInclusionProven) : n \in 1..Len(first)}

(* They are the first, in the order of MostObserved.                        *)
Repeated(groups) == FirstOf(groups, Cardinality({n \in 1..Len(groups) : groups[n].observations >= 2}))

FindingsOn(items, activity, flows, rows) ==
  Diagnostic("activity_coverage_gaps", Cardinality(activity.gaps), "coverage_gaps")
  \cup Diagnostic("activity_identity_conflicts", activity.aggregate.conflicts, "identity_conflicts")
  \cup About("failed_transaction_observations",
             IdsOf({i \in items : i.kind = "transaction" /\ i.value = Failed}), items, rows, BaseLevel)
  \cup About("unavailable_asset_identity", flows.unnamedAssets, items, rows, ChainInclusionProven)
  \cup About("unavailable_counterparty_identity", flows.unnamedCounterparties, items, rows, ChainInclusionProven)
  \cup Pattern("repeated_counterparty_observations", Repeated(flows.counterparties), items, rows)
  \cup Pattern("recognized_protocol_observations", flows.protocols, items, rows)

FindingsLimitations(activity, flows, evidence) ==
  activity.limitations \cup {"rule_based_findings_only", "selective_evidence_findings"}
  \cup {c \in {"evidence_history_truncated"} : evidence.truncated}
  \cup {c \in {"unidentified_assets_excluded"} : flows.unnamedAssets # {}}
  \cup {c \in {"unidentified_counterparties_excluded"} : flows.unnamedCounterparties # {}}
  \cup {c \in {"unrecognized_protocols_excluded"} : flows.unnamedProtocols # {}}
  \cup {c \in {"flow_groups_truncated"} :
          \E groups \in {flows.assets, flows.counterparties, flows.protocols} : Len(groups) > MaxFlowGroups}
  \cup {c \in {"pattern_findings_truncated"} :
          \E groups \in {Repeated(flows.counterparties), flows.protocols} : Len(groups) > MaxPatterns}

FindingsDocument(s, items, activity, rows, total) ==
  LET document(flows, evidence) ==
      [snapshot |-> s, environment |-> environment, aggregate |-> activity.aggregate,
       attempts |-> evidence.attempts, total |-> total, returned |-> evidence.returned,
       evidenceTruncated |-> evidence.truncated,
       assets |-> Cut(flows.assets), counterparties |-> Cut(flows.counterparties), protocols |-> Cut(flows.protocols),
       findings |-> FindingsOn(items, activity, flows, rows), gaps |-> activity.gaps,
       limitations |-> FindingsLimitations(activity, flows, evidence)]
      with(flows) == The({document(flows, evidence) : evidence \in {EvidenceRevision(rows, total)}})
  IN  The({with(flows) : flows \in {FlowSummary(items)}})

-----------------------------------------------------------------------------
(* The response schema.                                                     *)

SchemaFinding(f) ==
  /\ f.affected >= 1
  /\ IF f.basis = "activity_rows"
     THEN /\ f.support # {} /\ Cardinality(f.support) <= f.affected
          /\ f.truncated <=> f.affected > Cardinality(f.support)
          /\ \A row \in f.support : f.level <= row.level
     ELSE f.support = {} /\ ~ f.truncated
  /\ f.rule = "failed_transaction_observations" => f.level <= ProviderObservation

SchemaFlows(cut) ==
  /\ cut.truncated <=> cut.identified > Len(cut.rows)
  /\ Len(cut.rows) <= cut.identified
  /\ IsInjective([n \in 1..Len(cut.rows) |-> cut.rows[n].key])

SchemaFindings(document) ==
  /\ document.returned <= document.total
  /\ document.evidenceTruncated <=> document.total > document.returned
  /\ \A cut \in {document.assets, document.counterparties, document.protocols} :
       /\ SchemaFlows(cut)
       /\ \A n \in 1..Len(cut.rows) : cut.rows[n].observations >= 1
  /\ \A n \in 1..Len(document.assets.rows) :
       LET flow == document.assets.rows[n]
       IN  /\ Cardinality(flow.support) <= flow.observations
           /\ flow.truncated => Cardinality(flow.support) = MaxSupport
  /\ \A cut \in {document.counterparties, document.protocols} : \A n \in 1..Len(cut.rows) :
       cut.rows[n].truncated <=> cut.rows[n].observations > Cardinality(cut.rows[n].support)
  /\ \A f \in document.findings : SchemaFinding(f)
  /\ \A f, g \in document.findings : f.rule = g.rule /\ f.key = g.key => f = g

-----------------------------------------------------------------------------
(* Properties.                                                              *)

FindingsNow(p) ==
  LET b == building[p]
  IN  FindingsDocument(b.snapshot, b.items, b.activity, b.rows, b.total)

(* The findings of a request in flight pass their schema, except of a case  *)
(* deleted between the reads.                                               *)
FindingsAreServed ==
  \A p \in Readers : building[p].at = "built" /\ ~ building[p].store /\ ~ deleted =>
    SchemaFindings(FindingsNow(p))

(* What a finding about activities says is said of those that its rule is   *)
(* about, counted apart from the support it shows: how many they are, the   *)
(* level of each that is shown, and as its own level that of the weakest of *)
(* all, shown or not; failed outcomes stay what a provider has observed.    *)
FindingsClaimTheirWeakest ==
  \A p \in Readers : building[p].at = "built" /\ ~ building[p].store /\ ~ deleted =>
    LET b == building[p]
        affected(f) ==
          CASE f.rule = "failed_transaction_observations" -> {i \in b.items : i.kind = "transaction" /\ i.value = Failed}
            [] f.rule = "unavailable_asset_identity" -> {i \in Transfers(b.items) \cup Swaps(b.items) : i.value = Unnamed}
            [] f.rule = "unavailable_counterparty_identity" -> {i \in Transfers(b.items) : i.value = Unnamed}
            [] f.rule = "repeated_counterparty_observations" -> {i \in Transfers(b.items) : i.value = f.key}
            [] f.rule = "recognized_protocol_observations" -> {i \in Swaps(b.items) : i.value = f.key}
        best(i) == Max({a.progress : a \in {a \in b.rows : a.activity = i.id}} \cup {0})
        level(i) == IF best(i) >= 3 THEN ChainInclusionProven ELSE IF best(i) = 2 THEN LocallyVerified ELSE BaseLevel
        cap(f) == IF f.rule = "failed_transaction_observations" THEN BaseLevel ELSE ChainInclusionProven
    IN  \A f \in FindingsNow(p).findings : f.basis = "activity_rows" =>
          /\ f.affected = Cardinality(affected(f))
          /\ f.level = Min({level(i) : i \in affected(f)} \cup {cap(f)})
          /\ \A row \in f.support : \E i \in affected(f) : row.id = i.id /\ row.level = level(i)
=============================================================================
