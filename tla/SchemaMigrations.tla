------------------------- MODULE SchemaMigrations -------------------------
(* The upgrade of the database: services/database_migrations.py, the frozen *)
(* baseline manifest and the 28 alembic revisions.                          *)
(*                                                                          *)
(* SQLite commits every DDL statement at once until the first INSERT or     *)
(* UPDATE opens the transaction of engine.begin(); from there everything,   *)
(* DDL included, is committed together at the end of the run.  So a run     *)
(* that dies leaves what its first revision had created so far, and the     *)
(* next run meets it: each revision decides which fragments it adopts.      *)
(*                                                                          *)
(* A schema is a set of objects, and a column or an index is a number       *)
(* unless the code compares it by name.                                     *)
EXTENDS Integers, Sequences, SequencesExt

CONSTANTS Heads,       (* a subset of 1..28: the head of each image it may run *)
          MaxCrashes   (* bound: upgrades that die                           *)

LastRevision == 28
ASSUME HeadsAssumption == Heads \subseteq 1..LastRevision /\ MaxCrashes \in Nat

-----------------------------------------------------------------------------
(* Objects and statements.                                                  *)
(* [a table, the kind, a name or the group of columns or indexes, its number] *)
Table(t) == <<t, "table", t, 1>>
Column(t, group, i) == <<t, "column", group, i>>
Index(t, group, i) == <<t, "index", group, i>>
Trigger(t, event, text) == <<t, "trigger", event, text>>
Rows(t) == <<t, "rows", t, 1>>

Create(object) == [op |-> "create", object |-> object]
Drop(object) == [op |-> "drop", object |-> object]
(* An UPDATE or INSERT: it opens the transaction, when it is sent at all.   *)
Write(object, sent) == [op |-> "write", object |-> object, sent |-> sent]
(* A check of the stored rows that ends the run, unless `unless` was done.  *)
Refuse(rows, unless) == [op |-> "refuse", rows |-> rows, unless |-> unless]

Columns(t, group, n) == [i \in 1..n |-> Create(Column(t, group, i))]
Indexes(t, group, n) == [i \in 1..n |-> Create(Index(t, group, i))]
NewTable(t, n) == <<Create(Table(t))>> \o Indexes(t, "own", n)

HasTable(s, t) == Table(t) \in s
Of(s, t, kind) == {o \in s : o[1] = t /\ o[2] = kind}
ColumnGroups(s, t) == {o[3] : o \in Of(s, t, "column")}
IndexGroups(s, t) == {o[3] : o \in Of(s, t, "index")}
ColumnsOf(s, t, group) == {o[4] : o \in {x \in Of(s, t, "column") : x[3] = group}}
Absent(s, ts) == \A t \in ts : ~HasTable(s, t)
ParentFirst(s, parent, child) == HasTable(s, child) => HasTable(s, parent)
Unpopulated(s, ts) == \A t \in ts : Rows(t) \notin s

-----------------------------------------------------------------------------
(* The revisions: what each runs, and what each accepts to find.            *)
Runs == "wallet_ingestion_runs"
Transactions == "wallet_transactions"
Transfers == "wallet_transfers"
Swaps == "wallet_swaps"
Balances == "wallet_balance_snapshots"
Cases == "wallet_cases"
Syncs == "wallet_case_syncs"
Proofs == "wallet_transaction_inclusion_proofs"
DomainTables == {"analysis_runs", Runs, Transfers, Transactions, Swaps,
                 Balances, "wallet_ingestion_warnings"}

Upgrade0001 == NewTable("analysis_runs", 1) \o NewTable(Runs, 2)
  \o NewTable(Transfers, 4) \o NewTable(Transactions, 4) \o NewTable(Swaps, 3)
  \o NewTable(Balances, 2) \o NewTable("wallet_ingestion_warnings", 2)

WalletIdentityColumns == Columns(Runs, "wallet_identity", 9)
WalletIdentityBackfill == <<Write(Rows("wallet identities"), "rows")>>
WalletIdentityIndex == Indexes(Runs, "wallet_identity", 1)
Upgrade0002 == WalletIdentityColumns \o WalletIdentityBackfill \o WalletIdentityIndex

TransactionIdentityColumns == Columns(Transactions, "identity", 7)
TransactionIdentityBackfill == <<Write(Rows("transaction identities"), "rows")>>
NoDuplicateRunIdentities == <<Refuse("doubled transactions", Rows("none"))>>
TransactionIdentityIndexes == Indexes(Transactions, "identity", 3)
Upgrade0003 == TransactionIdentityColumns \o TransactionIdentityBackfill
  \o NoDuplicateRunIdentities \o TransactionIdentityIndexes

Streams == "wallet_acquisition_streams"
Pages == "wallet_acquisition_pages"
Upgrade0004 == NewTable(Streams, 1) \o NewTable(Pages, 1)
Intact0004(s) == Unpopulated(s, {Streams, Pages})
Retry0004(s) == ParentFirst(s, Streams, Pages) /\ Intact0004(s)

ActionIdentityColumns(t) == Columns(t, "event_action", 9)
ActionIdentityBackfill == <<Write(Rows("event actions"), "rows")>>
NoDuplicateActions == <<Refuse("doubled actions", Rows("none"))>>
ActionIdentityIndexes(t) == Indexes(t, "event_action", 3)
Upgrade0005 == ActionIdentityColumns(Transfers) \o ActionIdentityColumns(Swaps)
  \o ActionIdentityBackfill \o NoDuplicateActions
  \o ActionIdentityIndexes(Transfers) \o ActionIdentityIndexes(Swaps)
PreflightIdentityColumns(s) ==
  \A t \in {Transfers, Swaps} :
    /\ HasTable(s, t)
    /\ ColumnsOf(s, t, "event_action") \subseteq 1..9
IdentityIndexesKnown(s) ==
  \A t \in {Transfers, Swaps} :
    IndexGroups(s, t) \subseteq {"own", "event_action"}
Retry0005(s) == PreflightIdentityColumns(s) /\ IdentityIndexesKnown(s)

Captures == "wallet_trace_evidence_captures"
Nodes == "wallet_trace_evidence_nodes"
Messages == "wallet_trace_evidence_messages"
Upgrade0006 == NewTable(Captures, 3) \o NewTable(Nodes, 3) \o NewTable(Messages, 3)
Intact0006(s) == Unpopulated(s, {Captures, Nodes, Messages})
Retry0006(s) == /\ ParentFirst(s, Captures, Nodes) /\ ParentFirst(s, Nodes, Messages)
                /\ Intact0006(s)

Verifications == "wallet_trace_boc_verifications"
BocTransactions == "wallet_trace_boc_transactions"
Upgrade0007 == NewTable(Verifications, 2) \o NewTable(BocTransactions, 3)
Intact0007(s) == Unpopulated(s, {Verifications, BocTransactions})
Retry0007(s) == /\ \A t \in {Captures, Nodes, Messages} : HasTable(s, t)
                /\ ParentFirst(s, Verifications, BocTransactions)
                /\ Intact0007(s)

(* These refuse anything of their own that they find.                       *)
Ledgers == "wallet_native_activity_ledgers"
LedgerRows == "wallet_native_activity_rows"
Upgrade0008 == NewTable(Ledgers, 2) \o NewTable(LedgerRows, 4)
Retry0008(s) == /\ \A t \in {Captures, Verifications, BocTransactions} : HasTable(s, t)
                /\ Absent(s, {Ledgers, LedgerRows})
Jettons == "wallet_jetton_contract_verifications"
Upgrade0009 == NewTable(Jettons, 3)
Retry0009(s) == HasTable(s, Runs) /\ HasTable(s, Balances) /\ Absent(s, {Jettons})
Challenges == "wallet_ownership_challenges"
Upgrade0010 == NewTable(Challenges, 3)
Retry0010(s) == Absent(s, {Challenges})
AccountProofs == "wallet_account_state_inclusion_proofs"
Upgrade0011 == NewTable(AccountProofs, 2)
Retry0011(s) == Absent(s, {AccountProofs})
Upgrade0012 == <<Create(Table(Proofs)), Create(Index(Proofs, "boc", 1)),
                 Create(Index(Proofs, "digest", 1))>>
Retry0012(s) == Absent(s, {Proofs})
Upgrade0013 == Columns(Swaps, "dex_protocol", 2)
  \o <<Write(Rows("dex protocols"), "rows")>>
Retry0013(s) == "dex_protocol" \notin ColumnGroups(s, Swaps)
Upgrade0014 == Columns(Challenges, "network", 1)
Retry0014(s) == HasTable(s, Challenges) /\ "network" \notin ColumnGroups(s, Challenges)

Upgrade0015 == NewTable(Cases, 3) \o NewTable(Syncs, 3)
Intact0015(s) == Unpopulated(s, {Cases, Syncs})
Retry0015(s) == HasTable(s, Runs) /\ ParentFirst(s, Cases, Syncs) /\ Intact0015(s)

CompactColumns == Columns(Syncs, "compact", 2)
LegacyMessages == <<Write(Rows("legacy messages"), "always")>>
Upgrade0016 == CompactColumns \o LegacyMessages
(* The columns beyond the ones of 0015, in the order they were added.       *)
IsPrefix0016(s) ==
  /\ HasTable(s, Syncs)
  /\ ColumnGroups(s, Syncs) \subseteq {"compact"}
  /\ \E n \in 0..2 : ColumnsOf(s, Syncs, "compact") = 1..n

JobColumns == Columns(Syncs, "job", 11)
LegacyActiveRows == Rows("legacy active syncs closed")
NormalizeLegacyActiveRows == <<Write(LegacyActiveRows, "always")>>
JobIndexes == <<Create(Index(Syncs, "idempotency", 1)),
                Refuse("active pair", LegacyActiveRows),
                Create(Index(Syncs, "one_active", 1)),
                Create(Index(Syncs, "queue", 1))>>
LateCloseUpgrade0017 == JobColumns \o JobIndexes \o NormalizeLegacyActiveRows
Upgrade0017 == JobColumns \o NormalizeLegacyActiveRows \o JobIndexes
IsPrefix0017(s) ==
  /\ HasTable(s, Syncs)
  /\ ColumnsOf(s, Syncs, "compact") = 1..2
  /\ \E n \in 0..11 : ColumnsOf(s, Syncs, "job") = 1..n

ActivityTables == <<Syncs, Transactions, Transfers, Swaps>>
Upgrade0018 == [i \in 1..4 |-> Create(Index(ActivityTables[i], "timeline", 1))]
Retry0018(s) == \A t \in ToSet(ActivityTables) : HasTable(s, t)

Evidence == "wallet_case_evidence_verifications"
Upgrade0019 == NewTable(Evidence, 6)
Intact0019(s) == Unpopulated(s, {Evidence})
Retry0019(s) == /\ \A t \in {Cases, Syncs, Transactions, Captures, Verifications, Ledgers} :
                     HasTable(s, t)
                /\ Intact0019(s)

(* Every swap of the index keeps one of the two: without it two proofs of   *)
(* one transaction could be stored.                                         *)
IndexSwapStarted(s, old, new) ==
  /\ IndexGroups(s, Proofs) \subseteq {"digest", old, new}
  /\ "digest" \in IndexGroups(s, Proofs)
  /\ {old, new} \cap IndexGroups(s, Proofs) # {}
IndexSwapDone(s, new) == IndexGroups(s, Proofs) = {"digest", new}

DropFirstUpgrade0020 == <<Drop(Index(Proofs, "boc", 1)), Create(Index(Proofs, "trust", 1))>>
Upgrade0020 == <<Create(Index(Proofs, "trust", 1)), Drop(Index(Proofs, "boc", 1))>>
Retry0020(s) == HasTable(s, Proofs) /\ IndexSwapStarted(s, "boc", "trust")

CheckpointColumns == Columns(Proofs, "checkpoint", 6)
CheckpointTriggers == <<Create(Trigger(Proofs, "insert", 21)),
                        Create(Trigger(Proofs, "update", 21))>>
Upgrade0021 == CheckpointColumns \o CheckpointTriggers
  \o <<Create(Index(Proofs, "policy", 1)), Drop(Index(Proofs, "trust", 1))>>
ColumnPrefix0021(s) == \E n \in 0..6 : ColumnsOf(s, Proofs, "checkpoint") = 1..n
Retry0021(s) ==
  /\ HasTable(s, Proofs) /\ ColumnPrefix0021(s)
  /\ ColumnsOf(s, Proofs, "checkpoint") # 1..6 =>
       "policy" \notin IndexGroups(s, Proofs)
  /\ \A o \in Of(s, Proofs, "trigger") : o[4] = 21
  /\ IndexSwapStarted(s, "trust", "policy")

(* A trigger keeps its name, so the weaker one goes before the strict one   *)
(* can be created.                                                          *)
Upgrade0022 == <<Drop(Trigger(Proofs, "insert", 21)),
                 Drop(Trigger(Proofs, "update", 21)),
                 Create(Trigger(Proofs, "insert", 22)),
                 Create(Trigger(Proofs, "update", 22))>>
Retry0022(s) ==
  /\ HasTable(s, Proofs) /\ 1..6 \subseteq ColumnsOf(s, Proofs, "checkpoint")
  /\ {"digest", "policy"} \subseteq IndexGroups(s, Proofs)

Reports == "wallet_case_report_revisions"
Upgrade0023 == NewTable(Reports, 4)
Intact0023(s) == Unpopulated(s, {Reports})
Retry0023(s) == HasTable(s, Cases) /\ HasTable(s, Syncs) /\ Intact0023(s)
Lifecycle == "wallet_case_lifecycle_events"
Upgrade0024 == NewTable(Lifecycle, 3)
Intact0024(s) == Unpopulated(s, {Lifecycle})
Retry0024(s) == HasTable(s, Cases) /\ HasTable(s, Syncs) /\ Intact0024(s)
Upgrade0025 == Columns(Cases, "metadata_version", 1)
Catalog == "wallet_case_catalog_events"
SeedExistingCases == <<Write(Rows(Catalog), "always")>>
Upgrade0026 == NewTable(Catalog, 1) \o SeedExistingCases
Intact0026(s) == Unpopulated(s, {Catalog})
Retry0026(s) == HasTable(s, Cases) /\ Intact0026(s)
Manifests == "wallet_case_sync_manifests"
Upgrade0027 == NewTable(Manifests, 2)
Intact0027(s) == Unpopulated(s, {Manifests})
Retry0027(s) == HasTable(s, Syncs) /\ Intact0027(s)
Checkpoints == "wallet_case_stream_checkpoints"
Upgrade0028 == NewTable(Checkpoints, 3)
Intact0028(s) == Unpopulated(s, {Checkpoints})
Retry0028(s) == HasTable(s, Cases) /\ HasTable(s, Syncs) /\ Intact0028(s)

Scripts == <<Upgrade0001, Upgrade0002, Upgrade0003, Upgrade0004, Upgrade0005,
  Upgrade0006, Upgrade0007, Upgrade0008, Upgrade0009, Upgrade0010, Upgrade0011,
  Upgrade0012, Upgrade0013, Upgrade0014, Upgrade0015, Upgrade0016, Upgrade0017,
  Upgrade0018, Upgrade0019, Upgrade0020, Upgrade0021, Upgrade0022, Upgrade0023,
  Upgrade0024, Upgrade0025, Upgrade0026, Upgrade0027, Upgrade0028>>

(* What a revision accepts to find before it changes anything.              *)
Adopts(r, s) ==
  CASE r = 1 -> Absent(s, DomainTables)
    [] r = 2 -> HasTable(s, Runs)
    [] r = 3 -> HasTable(s, Transactions)
    [] r = 4 -> Retry0004(s) [] r = 5 -> Retry0005(s) [] r = 6 -> Retry0006(s)
    [] r = 7 -> Retry0007(s) [] r = 8 -> Retry0008(s) [] r = 9 -> Retry0009(s)
    [] r = 10 -> Retry0010(s) [] r = 11 -> Retry0011(s) [] r = 12 -> Retry0012(s)
    [] r = 13 -> Retry0013(s) [] r = 14 -> Retry0014(s) [] r = 15 -> Retry0015(s)
    [] r = 16 -> IsPrefix0016(s) [] r = 17 -> IsPrefix0017(s)
    [] r = 18 -> Retry0018(s) [] r = 19 -> Retry0019(s) [] r = 20 -> Retry0020(s)
    [] r = 21 -> Retry0021(s) [] r = 22 -> Retry0022(s) [] r = 23 -> Retry0023(s)
    [] r = 24 -> Retry0024(s) [] r = 25 -> HasTable(s, Cases)
    [] r = 26 -> Retry0026(s) [] r = 27 -> Retry0027(s) [] r = 28 -> Retry0028(s)

(* The swaps end with the exact indexes; every other revision re-validates  *)
(* what it has just made.                                                   *)
Converged(r, s) == /\ r = 20 => IndexSwapDone(s, "trust")
                   /\ r = 21 => IndexSwapDone(s, "policy")

-----------------------------------------------------------------------------
Made(script, op) == {script[i].object : i \in {j \in DOMAIN script : script[j].op = op}}
SchemaOf == [n \in 0..LastRevision |->
  (UNION {Made(Scripts[r], "create") : r \in 1..n})
    \ (UNION {Made(Scripts[r], "drop") : r \in 1..n})]
Structure(s) == {o \in s : o[2] # "rows"}

(* An unversioned database is adopted only when its domain tables are       *)
(* exactly the ones of v0.22.0; other tables do not matter.                 *)
LegacyCompatible(s) == {o \in s : o[1] \in DomainTables} = SchemaOf[1]
(* Every table the image maps exists, with exactly its columns and indexes; *)
(* tables it does not know are ignored, the proof triggers are not.         *)
CurrentSchema(head, s) ==
  {o \in Structure(s) : HasTable(SchemaOf[head], o[1])} = SchemaOf[head]

(* A database is its version and how its schema differs from that version's. *)
Database(version, s) == [version |-> version, extra |-> s \ SchemaOf[version],
                         missing |-> SchemaOf[version] \ s]
Schema(db) == (SchemaOf[db.version] \cup db.extra) \ db.missing

VARIABLES disk,    (* the database as committed                              *)
          mine,    (* what the running upgrade sees                          *)
          data,    (* what the stored rows look like                         *)
          run,     (* [at, head, rev, pc, open, why]                         *)
          crashes

upgradeVars == <<disk, mine, data, run, crashes>>

NotRunning == [at |-> "idle", head |-> 0, rev |-> 0, pc |-> 0, open |-> FALSE, why |-> ""]

(* What the rows can look like once an application at this revision ran.   *)
PossibleData(version) ==
  {"none", "rows"}
    \cup (IF version < 3 THEN {"doubled transactions"} ELSE {})
    \cup (IF version < 5 THEN {"doubled actions"} ELSE {})
    \cup (IF version \in {15, 16} THEN {"active pair"} ELSE {})

(* A new host, the unversioned v0.22.0 database, or any finished upgrade.   *)
UpgradeInit ==
  /\ \/ disk = Database(0, {}) /\ data = "none"
     \/ disk = Database(0, SchemaOf[1]) /\ data \in PossibleData(1)
     \/ \E v \in 1..LastRevision :
          disk = Database(v, SchemaOf[v]) /\ data \in PossibleData(v)
  /\ mine = disk
  /\ run = NotRunning
  /\ crashes = 0

Refused(why) == run' = [run EXCEPT !.at = "refused", !.why = why] /\ mine' = disk

(* run_database_migrations reads the version and decides.                   *)
StartOn(head) ==
  LET present == {t \in DomainTables : HasTable(Schema(disk), t)}
      Run(at, rev, open, why) ==
        [at |-> at, head |-> head, rev |-> rev, pc |-> 0, open |-> open, why |-> why]
  IN  \/ /\ disk.version > head
         /\ run' = Run("refused", 0, FALSE, "newer") /\ UNCHANGED mine
      \/ /\ disk.version = head
         /\ run' = Run("checking", 0, FALSE, "") /\ UNCHANGED mine
      \/ /\ disk.version \in 1..(head - 1)
         /\ run' = Run("upgrading", disk.version + 1, FALSE, "") /\ UNCHANGED mine
      \/ /\ disk.version = 0 /\ present = {}
         /\ run' = Run("upgrading", 1, FALSE, "") /\ UNCHANGED mine
      \/ /\ disk.version = 0 /\ present # {}
         /\ present # DomainTables \/ ~LegacyCompatible(Schema(disk))
         /\ run' = Run("refused", 0, FALSE, "partial") /\ UNCHANGED mine
      \/ /\ disk.version = 0 /\ LegacyCompatible(Schema(disk))
         /\ mine' = Database(1, Schema(mine))   \* command.stamp: an INSERT
         /\ run' = IF head = 1 THEN Run("checking", 0, TRUE, "")
                   ELSE Run("upgrading", 2, TRUE, "")

Start(head) ==
  /\ run.at = "idle"
  /\ StartOn(head)
  /\ UNCHANGED <<disk, data, crashes>>

Preflight ==
  /\ run.at = "upgrading" /\ run.pc = 0
  /\ IF Adopts(run.rev, Schema(mine))
     THEN run' = [run EXCEPT !.pc = 1] /\ UNCHANGED mine
     ELSE Refused("fragment")
  /\ UNCHANGED <<disk, data, crashes>>

(* A DDL statement, skipped when the object is already as it should be.     *)
Ddl(schema) ==
  /\ mine' = Database(mine.version, schema)
  /\ disk' = IF run.open THEN disk ELSE mine'
  /\ run' = [run EXCEPT !.pc = @ + 1]

Statement ==
  /\ run.at = "upgrading" /\ run.pc \in 1..Len(Scripts[run.rev])
  /\ LET s == Scripts[run.rev][run.pc] IN
       \/ s.op = "create" /\ Ddl(Schema(mine) \cup {s.object})
       \/ s.op = "drop" /\ Ddl(Schema(mine) \ {s.object})
       \/ /\ s.op = "write"
          /\ IF s.sent = "always" \/ data # "none"
             THEN /\ run' = [run EXCEPT !.pc = @ + 1, !.open = TRUE]
                  /\ mine' = IF data = "none" THEN mine
                             ELSE Database(mine.version, Schema(mine) \cup {s.object})
             ELSE run' = [run EXCEPT !.pc = @ + 1] /\ UNCHANGED mine
          /\ UNCHANGED disk
       \/ /\ s.op = "refuse"
          /\ IF data = s.rows /\ s.unless \notin Schema(mine)
             THEN Refused("rows")
             ELSE run' = [run EXCEPT !.pc = @ + 1] /\ UNCHANGED mine
          /\ UNCHANGED disk
  /\ UNCHANGED <<data, crashes>>

(* The revision is done: alembic writes its number, and the next one runs.  *)
Stamp ==
  /\ run.at = "upgrading" /\ run.pc = Len(Scripts[run.rev]) + 1
  /\ IF Converged(run.rev, Schema(mine))
     THEN /\ mine' = Database(run.rev, Schema(mine))
          /\ run' = IF run.rev = run.head
                    THEN [run EXCEPT !.at = "checking", !.open = TRUE]
                    ELSE [run EXCEPT !.rev = @ + 1, !.pc = 0, !.open = TRUE]
     ELSE Refused("indexes")
  /\ UNCHANGED <<disk, data, crashes>>

(* The last look, and the commit of engine.begin().                         *)
Check ==
  /\ run.at = "checking"
  /\ IF mine.version = run.head /\ CurrentSchema(run.head, Schema(mine))
     THEN /\ disk' = mine /\ UNCHANGED mine
          /\ run' = [run EXCEPT !.at = "serving"]
     ELSE Refused("schema") /\ UNCHANGED disk
  /\ UNCHANGED <<data, crashes>>

(* The process dies: the open transaction goes with it.                     *)
Crash ==
  /\ run.at \in {"upgrading", "checking"} /\ crashes < MaxCrashes
  /\ mine' = disk /\ run' = NotRunning /\ crashes' = crashes + 1
  /\ UNCHANGED <<disk, data>>

(* The application serves and stores rows until it is replaced; a refused   *)
(* start is tried again, with this image or another.                        *)
Stop ==
  \/ /\ run.at = "serving"
     /\ data' \in (IF data \in {"none", "rows"} THEN PossibleData(run.head) ELSE {data})
     /\ data = "rows" => data' # "none"
     /\ run' = NotRunning /\ UNCHANGED <<disk, mine, crashes>>
  \/ run.at = "refused" /\ run' = NotRunning /\ UNCHANGED <<disk, mine, data, crashes>>

UpgradeNext == (\E h \in Heads : Start(h)) \/ Preflight \/ Statement \/ Stamp
                 \/ Check \/ Crash \/ Stop

UpgradeSpec == UpgradeInit /\ [][UpgradeNext]_upgradeVars

-----------------------------------------------------------------------------
SchemaTypeOK ==
  /\ disk.version \in 0..LastRevision /\ mine.version \in disk.version..LastRevision
  /\ run.at \in {"idle", "upgrading", "checking", "serving", "refused"}
  /\ run.open \/ mine = disk
  /\ crashes \in 0..MaxCrashes

(* A start is refused only for a database of a newer image, for rows that   *)
(* the upgrade may not choose between, for an interrupted creation, for     *)
(* fragments of the revisions 0008 to 0014, which adopt none, or by an      *)
(* image older than the upgrade that died: wherever else one died, the next *)
(* start carries it to the head.                                            *)
InterruptedUpgradeResumes ==
  run.at = "refused" =>
    \/ run.why = "newer" /\ disk.version > run.head
    \/ run.why = "partial" /\ disk.version = 0 /\ Schema(disk) \subseteq SchemaOf[1]
    \/ run.why = "rows" /\ data \in {"doubled transactions", "doubled actions"}
    \/ run.why = "fragment" /\ run.rev \in 8..14 /\ run.rev = disk.version + 1
    \/ run.why = "schema" /\ run.head = disk.version
         /\ Structure(Schema(disk)) # SchemaOf[disk.version]

(* Since 0012 one unique index keeps a transaction from having two proofs   *)
(* of one kind: "keeps every crash point restartable without opening an     *)
(* unindexed write window" (0020).                                          *)
ProofsStayUnique ==
  disk.version >= 12 =>
    {"boc", "trust", "policy"} \cap IndexGroups(Schema(disk), Proofs) # {}
=============================================================================
