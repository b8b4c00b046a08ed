---------------------- MODULE SchemaMigrations_proofs ----------------------
(***************************************************************************)
(* The upgrade of the database, for every set of images and however often  *)
(* it dies.                                                                *)
(*                                                                         *)
(* The proofs read the 28 scripts once: At00NN says what revision NN       *)
(* creates, drops and stores.  From that follow what a schema between two  *)
(* statements holds (After), where the table or the columns a preflight    *)
(* looks at stand in their script, and that every preflight but those of   *)
(* 0008 to 0014 accepts every such schema (AdoptsAll).  UpgradeInv says    *)
(* that a committed database, and what a running upgrade sees, is always   *)
(* such a schema.                                                          *)
(***************************************************************************)
EXTENDS SchemaMigrations, SequenceTheorems, TLAPS

Kinds == {"table", "column", "index", "trigger"}
IsDdl(o) == o[2] \in Kinds
IsStatement(s) ==
  \/ s.op \in {"create", "drop"} /\ IsDdl(s.object)
  \/ s.op = "write" /\ s.object = Rows(s.object[1])
  \/ s.op = "refuse"
IsScript(script) ==
  /\ script \in Seq({script[i] : i \in DOMAIN script})
  /\ \A i \in DOMAIN script : IsStatement(script[i])

(* What a script creates, drops and does besides.                           *)
Rest(script) == {s \in {script[i] : i \in DOMAIN script} : s.op \notin {"create", "drop"}}
Makes(script, C, D, E) ==
  /\ IsScript(script)
  /\ Made(script, "create") = C
  /\ Made(script, "drop") = D
  /\ Rest(script) = E

Own(t, n) == {Table(t)} \cup {Index(t, "own", i) : i \in 1..n}
ColumnSet(t, group, n) == {Column(t, group, i) : i \in 1..n}
IndexSet(t, group, n) == {Index(t, group, i) : i \in 1..n}

LEMMA MakesBoth ==
  ASSUME NEW a, NEW b, NEW C1, NEW D1, NEW E1, NEW C2, NEW D2, NEW E2,
         Makes(a, C1, D1, E1), Makes(b, C2, D2, E2)
  PROVE  Makes(a \o b, C1 \cup C2, D1 \cup D2, E1 \cup E2)
<1> DEFINE A == {a[i] : i \in DOMAIN a}
           B == {b[i] : i \in DOMAIN b}
<1>1. a \in Seq(A \cup B) /\ b \in Seq(A \cup B)
  <2>1. a \in Seq(A) /\ b \in Seq(B)
    BY DEF Makes, IsScript
  <2> HIDE DEF A, B
  <2>2. QED
    BY <2>1, SeqMonotonic
<1> HIDE DEF A, B
<1>2. /\ a \o b \in Seq(A \cup B)
      /\ Len(a \o b) = Len(a) + Len(b)
      /\ \A i \in 1..(Len(a) + Len(b)) : (a \o b)[i] = IF i <= Len(a) THEN a[i] ELSE b[i - Len(a)]
  BY <1>1, ConcatProperties
<1>3. Len(a) \in Nat /\ Len(b) \in Nat /\ DOMAIN a = 1..Len(a) /\ DOMAIN b = 1..Len(b)
      /\ DOMAIN (a \o b) = 1..(Len(a) + Len(b))
  BY <1>1, <1>2, LenProperties
<1> DEFINE c == a \o b
<1> HIDE DEF c
<1>4. \A i \in DOMAIN a : i \in DOMAIN c /\ c[i] = a[i]
  BY <1>2, <1>3 DEF c
<1>5. \A i \in DOMAIN b : i + Len(a) \in DOMAIN c /\ c[i + Len(a)] = b[i]
  BY <1>2, <1>3 DEF c
<1>6. \A i \in DOMAIN c : \/ i \in DOMAIN a /\ c[i] = a[i]
                          \/ \E j \in DOMAIN b : c[i] = b[j]
  <2> TAKE i \in DOMAIN c
  <2>1. CASE i <= Len(a)
    BY <2>1, <1>2, <1>3 DEF c
  <2>2. CASE ~(i <= Len(a))
    <3>1. i - Len(a) \in DOMAIN b /\ c[i] = b[i - Len(a)]
      BY <2>2, <1>2, <1>3 DEF c
    <3>2. QED
      BY <3>1
  <2>3. QED
    BY <2>1, <2>2
<1>7. ASSUME NEW op PROVE Made(c, op) = Made(a, op) \cup Made(b, op)
  <2>1. \A x \in Made(a, op) : x \in Made(c, op)
    BY <1>4 DEF Made
  <2>2. \A x \in Made(b, op) : x \in Made(c, op)
    BY <1>5 DEF Made
  <2>3. \A x \in Made(c, op) : x \in Made(a, op) \cup Made(b, op)
    BY <1>6 DEF Made
  <2>4. QED
    BY <2>1, <2>2, <2>3
<1>8. \A i \in DOMAIN c : IsStatement(c[i])
  BY <1>6 DEF Makes, IsScript
<1>9. c \in Seq({c[i] : i \in DOMAIN c})
  <2>1. c \in Seq(A \cup B)
    BY <1>2 DEF c
  <2>2. \A i \in 1..Len(c) : c[i] \in {c[j] : j \in DOMAIN c}
    BY <2>1, LenProperties
  <2>3. Len(c) \in Nat /\ c = [i \in 1..Len(c) |-> c[i]]
    BY <2>1, LenProperties
  <2>4. QED
    BY <2>2, <2>3, IsASeq
<1>10. Rest(c) = Rest(a) \cup Rest(b)
  <2>1. \A x \in Rest(a) \cup Rest(b) : x \in Rest(c)
    BY <1>4, <1>5 DEF Rest
  <2>2. \A x \in Rest(c) : x \in Rest(a) \cup Rest(b)
    BY <1>6 DEF Rest
  <2>3. QED
    BY <2>1, <2>2
<1>11. QED
  BY <1>7, <1>8, <1>9, <1>10 DEF Makes, IsScript, c

LEMMA MakesEach ==
  ASSUME NEW n \in Nat, NEW f, f = [i \in 1..n |-> f[i]],
         \A i \in 1..n : f[i].op = "create" /\ IsDdl(f[i].object)
  PROVE  Makes(f, {f[i].object : i \in 1..n}, {}, {})
<1>1. DOMAIN f = 1..n
  OBVIOUS
<1>2. f \in Seq({f[i] : i \in DOMAIN f})
  BY <1>1, IsASeq
<1>3. Rest(f) = {}
  BY <1>1 DEF Rest
<1>4. QED
  BY <1>1, <1>2, <1>3 DEF Makes, Made, IsScript, IsStatement

LEMMA DdlStatements ==
  ASSUME NEW o
  PROVE  /\ Create(o).op = "create" /\ Create(o).object = o
         /\ Drop(o).op = "drop" /\ Drop(o).object = o
BY DEF Create, Drop

LEMMA ObjectsAreDdl ==
  ASSUME NEW t, NEW group, NEW i
  PROVE  /\ IsDdl(Table(t)) /\ IsDdl(Column(t, group, i))
         /\ IsDdl(Index(t, group, i)) /\ IsDdl(Trigger(t, group, i))
BY DEF Table, Column, Index, Trigger, IsDdl, Kinds

LEMMA MakesColumns ==
  ASSUME NEW t, NEW group, NEW n \in Nat
  PROVE  Makes(Columns(t, group, n), ColumnSet(t, group, n), {}, {})
<1> DEFINE f == Columns(t, group, n)
<1>1. f = [i \in 1..n |-> Create(Column(t, group, i))]
  BY DEF Columns
<1>2. \A i \in 1..n : f[i] = Create(Column(t, group, i))
  BY <1>1
<1> HIDE DEF f
<1>3. \A i \in 1..n : f[i].op = "create" /\ IsDdl(f[i].object) /\ f[i].object = Column(t, group, i)
  BY <1>2, DdlStatements, ObjectsAreDdl
<1>4. Makes(f, {f[i].object : i \in 1..n}, {}, {})
  BY <1>1, <1>3, MakesEach
<1>5. {f[i].object : i \in 1..n} = ColumnSet(t, group, n)
  BY <1>3 DEF ColumnSet
<1>6. QED
  BY <1>4, <1>5 DEF f

LEMMA MakesIndexes ==
  ASSUME NEW t, NEW group, NEW n \in Nat
  PROVE  Makes(Indexes(t, group, n), IndexSet(t, group, n), {}, {})
<1> DEFINE f == Indexes(t, group, n)
<1>1. f = [i \in 1..n |-> Create(Index(t, group, i))]
  BY DEF Indexes
<1>2. \A i \in 1..n : f[i] = Create(Index(t, group, i))
  BY <1>1
<1> HIDE DEF f
<1>3. \A i \in 1..n : f[i].op = "create" /\ IsDdl(f[i].object) /\ f[i].object = Index(t, group, i)
  BY <1>2, DdlStatements, ObjectsAreDdl
<1>4. Makes(f, {f[i].object : i \in 1..n}, {}, {})
  BY <1>1, <1>3, MakesEach
<1>5. {f[i].object : i \in 1..n} = IndexSet(t, group, n)
  BY <1>3 DEF IndexSet
<1>6. QED
  BY <1>4, <1>5 DEF f

LEMMA MakesStatement ==
  ASSUME NEW s, IsStatement(s)
  PROVE  Makes(<<s>>, IF s.op = "create" THEN {s.object} ELSE {},
                      IF s.op = "drop" THEN {s.object} ELSE {},
                      IF s.op \in {"create", "drop"} THEN {} ELSE {s})
<1> DEFINE c == <<s>>
<1>1. DOMAIN c = 1..1 /\ c[1] = s /\ c \in Seq({s}) /\ {c[i] : i \in DOMAIN c} = {s}
  OBVIOUS
<1> HIDE DEF c
<1>2. \A i \in DOMAIN c : i = 1
  BY <1>1
<1>3. IsScript(c)
  BY <1>1, <1>2 DEF IsScript
<1>4. Rest(c) = IF s.op \in {"create", "drop"} THEN {} ELSE {s}
  BY <1>1 DEF Rest
<1>5. QED
  BY <1>1, <1>2, <1>3, <1>4 DEF Makes, Made, c

LEMMA MakesOne ==
  ASSUME NEW o, IsDdl(o)
  PROVE  Makes(<<Create(o)>>, {o}, {}, {}) /\ Makes(<<Drop(o)>>, {}, {o}, {})
<1>1. IsStatement(Create(o)) /\ IsStatement(Drop(o))
  BY DdlStatements DEF IsStatement
<1>2. Makes(<<Create(o)>>, {o}, {}, {})
  BY <1>1, MakesStatement, DdlStatements
<1>3. Makes(<<Drop(o)>>, {}, {o}, {})
  BY <1>1, MakesStatement, DdlStatements
<1>4. QED
  BY <1>2, <1>3

LEMMA MakesNothing ==
  ASSUME NEW t, NEW sent, NEW rows
  PROVE  /\ Makes(<<Write(Rows(t), sent)>>, {}, {}, {Write(Rows(t), sent)})
         /\ Makes(<<Refuse(rows, Rows(t))>>, {}, {}, {Refuse(rows, Rows(t))})
<1>1. IsStatement(Write(Rows(t), sent)) /\ Write(Rows(t), sent).op = "write"
  BY DEF Write, IsStatement, Rows
<1>2. IsStatement(Refuse(rows, Rows(t))) /\ Refuse(rows, Rows(t)).op = "refuse"
  BY DEF Refuse, IsStatement
<1>3. QED
  BY <1>1, <1>2, MakesStatement

LEMMA MakesTable ==
  ASSUME NEW t, NEW n \in Nat
  PROVE  Makes(NewTable(t, n), Own(t, n), {}, {})
<1>1. Makes(<<Create(Table(t))>>, {Table(t)}, {}, {})
  BY MakesOne, ObjectsAreDdl
<1>2. Makes(Indexes(t, "own", n), IndexSet(t, "own", n), {}, {})
  BY MakesIndexes
<1>3. Makes(<<Create(Table(t))>> \o Indexes(t, "own", n), {Table(t)} \cup IndexSet(t, "own", n),
            {} \cup {}, {} \cup {})
  BY <1>1, <1>2, MakesBoth
<1>4. {} \cup {} = {}
  OBVIOUS
<1>5. QED
  BY <1>3, <1>4 DEF NewTable, Own, IndexSet

LEMMA NothingMore ==
  \A S : {} \cup S = S /\ S \cup {} = S
OBVIOUS

LEMMA MakesMore ==
  ASSUME NEW a, NEW b, NEW C, NEW E, NEW F, Makes(a, C, {}, F), Makes(b, E, {}, {})
  PROVE  Makes(a \o b, C \cup E, {}, F)
<1>1. Makes(a \o b, C \cup E, {} \cup {}, F \cup {})
  BY MakesBoth
<1>2. QED
  BY <1>1, NothingMore

LEMMA MakesMoreRest ==
  ASSUME NEW a, NEW b, NEW C, NEW E, NEW F, Makes(a, C, {}, E), Makes(b, {}, {}, F)
  PROVE  Makes(a \o b, C, {}, E \cup F)
<1>1. Makes(a \o b, C \cup {}, {} \cup {}, E \cup F)
  BY MakesBoth
<1>2. QED
  BY <1>1, NothingMore

LEMMA MakesRest ==
  ASSUME NEW a, NEW b, NEW C, NEW F, Makes(a, C, {}, {}), Makes(b, {}, {}, F)
  PROVE  Makes(a \o b, C, {}, F)
<1>1. Makes(a \o b, C, {}, {} \cup F)
  BY MakesMoreRest
<1>2. QED
  BY <1>1, NothingMore

-----------------------------------------------------------------------------
(* What each revision makes.                                                *)
LEMMA Script0001 ==
  Makes(Upgrade0001, Own("analysis_runs", 1) \cup Own(Runs, 2) \cup Own(Transfers, 4) \cup
      Own(Transactions, 4) \cup Own(Swaps, 3) \cup Own(Balances, 2) \cup
      Own("wallet_ingestion_warnings", 2), {}, {})
<1>1. Makes(NewTable("analysis_runs", 1), Own("analysis_runs", 1), {}, {})
  BY MakesTable
<1>2. Makes(NewTable(Runs, 2), Own(Runs, 2), {}, {})
  BY MakesTable
<1>3. Makes(NewTable("analysis_runs", 1) \o NewTable(Runs, 2), Own("analysis_runs", 1) \cup
       Own(Runs, 2), {}, {})
  BY <1>1, <1>2, MakesMore
<1>4. Makes(NewTable(Transfers, 4), Own(Transfers, 4), {}, {})
  BY MakesTable
<1>5. Makes(NewTable("analysis_runs", 1) \o NewTable(Runs, 2) \o NewTable(Transfers, 4),
       Own("analysis_runs", 1) \cup Own(Runs, 2) \cup Own(Transfers, 4), {}, {})
  BY <1>3, <1>4, MakesMore
<1>6. Makes(NewTable(Transactions, 4), Own(Transactions, 4), {}, {})
  BY MakesTable
<1>7. Makes(NewTable("analysis_runs", 1) \o NewTable(Runs, 2) \o NewTable(Transfers, 4) \o
       NewTable(Transactions, 4), Own("analysis_runs", 1) \cup Own(Runs, 2) \cup Own(Transfers, 4)
       \cup Own(Transactions, 4), {}, {})
  BY <1>5, <1>6, MakesMore
<1>8. Makes(NewTable(Swaps, 3), Own(Swaps, 3), {}, {})
  BY MakesTable
<1>9. Makes(NewTable("analysis_runs", 1) \o NewTable(Runs, 2) \o NewTable(Transfers, 4) \o
       NewTable(Transactions, 4) \o NewTable(Swaps, 3), Own("analysis_runs", 1) \cup Own(Runs, 2) \cup
       Own(Transfers, 4) \cup Own(Transactions, 4) \cup Own(Swaps, 3), {}, {})
  BY <1>7, <1>8, MakesMore
<1>10. Makes(NewTable(Balances, 2), Own(Balances, 2), {}, {})
  BY MakesTable
<1>11. Makes(NewTable("analysis_runs", 1) \o NewTable(Runs, 2) \o NewTable(Transfers, 4) \o
       NewTable(Transactions, 4) \o NewTable(Swaps, 3) \o NewTable(Balances, 2), Own("analysis_runs",
       1) \cup Own(Runs, 2) \cup Own(Transfers, 4) \cup Own(Transactions, 4) \cup Own(Swaps, 3) \cup
       Own(Balances, 2), {}, {})
  BY <1>9, <1>10, MakesMore
<1>12. Makes(NewTable("wallet_ingestion_warnings", 2), Own("wallet_ingestion_warnings", 2), {},
       {})
  BY MakesTable
<1>13. Makes(NewTable("analysis_runs", 1) \o NewTable(Runs, 2) \o NewTable(Transfers, 4) \o
       NewTable(Transactions, 4) \o NewTable(Swaps, 3) \o NewTable(Balances, 2) \o
       NewTable("wallet_ingestion_warnings", 2), Own("analysis_runs", 1) \cup Own(Runs, 2) \cup
       Own(Transfers, 4) \cup Own(Transactions, 4) \cup Own(Swaps, 3) \cup Own(Balances, 2) \cup
       Own("wallet_ingestion_warnings", 2), {}, {})
  BY <1>11, <1>12, MakesMore
<1>14. QED
  BY <1>13 DEF Upgrade0001

LEMMA Script0002 ==
  Makes(Upgrade0002, ColumnSet(Runs, "wallet_identity", 9) \cup IndexSet(Runs, "wallet_identity",
      1), {}, {Write(Rows("wallet identities"), "rows")})
<1>1. Makes(Columns(Runs, "wallet_identity", 9), ColumnSet(Runs, "wallet_identity", 9), {}, {})
  BY MakesColumns
<1>2. Makes(WalletIdentityBackfill, {}, {}, {Write(Rows("wallet identities"), "rows")})
  BY MakesNothing DEF WalletIdentityBackfill
<1>3. Makes(Columns(Runs, "wallet_identity", 9) \o WalletIdentityBackfill, ColumnSet(Runs,
       "wallet_identity", 9), {}, {Write(Rows("wallet identities"), "rows")})
  BY <1>1, <1>2, MakesRest
<1>4. Makes(Indexes(Runs, "wallet_identity", 1), IndexSet(Runs, "wallet_identity", 1), {}, {})
  BY MakesIndexes
<1>5. Makes(Columns(Runs, "wallet_identity", 9) \o WalletIdentityBackfill \o Indexes(Runs,
       "wallet_identity", 1), ColumnSet(Runs, "wallet_identity", 9) \cup IndexSet(Runs,
       "wallet_identity", 1), {}, {Write(Rows("wallet identities"), "rows")})
  BY <1>3, <1>4, MakesMore
<1>6. QED
  BY <1>5 DEF Upgrade0002, WalletIdentityColumns, WalletIdentityIndex

LEMMA Script0003 ==
  Makes(Upgrade0003, ColumnSet(Transactions, "identity", 7) \cup IndexSet(Transactions,
      "identity", 3), {}, {Write(Rows("transaction identities"), "rows")} \cup
      {Refuse("doubled transactions", Rows("none"))})
<1>1. Makes(Columns(Transactions, "identity", 7), ColumnSet(Transactions, "identity", 7), {},
       {})
  BY MakesColumns
<1>2. Makes(TransactionIdentityBackfill, {}, {}, {Write(Rows("transaction identities"),
       "rows")})
  BY MakesNothing DEF TransactionIdentityBackfill
<1>3. Makes(Columns(Transactions, "identity", 7) \o TransactionIdentityBackfill,
       ColumnSet(Transactions, "identity", 7), {}, {Write(Rows("transaction identities"), "rows")})
  BY <1>1, <1>2, MakesRest
<1>4. Makes(NoDuplicateRunIdentities, {}, {}, {Refuse("doubled transactions", Rows("none"))})
  BY MakesNothing DEF NoDuplicateRunIdentities
<1>5. Makes(Columns(Transactions, "identity", 7) \o TransactionIdentityBackfill \o
       NoDuplicateRunIdentities, ColumnSet(Transactions, "identity", 7), {},
       {Write(Rows("transaction identities"), "rows")} \cup {Refuse("doubled transactions",
       Rows("none"))})
  BY <1>3, <1>4, MakesMoreRest
<1>6. Makes(Indexes(Transactions, "identity", 3), IndexSet(Transactions, "identity", 3), {},
       {})
  BY MakesIndexes
<1>7. Makes(Columns(Transactions, "identity", 7) \o TransactionIdentityBackfill \o
       NoDuplicateRunIdentities \o Indexes(Transactions, "identity", 3), ColumnSet(Transactions,
       "identity", 7) \cup IndexSet(Transactions, "identity", 3), {},
       {Write(Rows("transaction identities"), "rows")} \cup {Refuse("doubled transactions",
       Rows("none"))})
  BY <1>5, <1>6, MakesMore
<1>8. QED
  BY <1>7 DEF Upgrade0003, TransactionIdentityColumns, TransactionIdentityIndexes

LEMMA Script0004 ==
  Makes(Upgrade0004, Own(Streams, 1) \cup Own(Pages, 1), {}, {})
<1>1. Makes(NewTable(Streams, 1), Own(Streams, 1), {}, {})
  BY MakesTable
<1>2. Makes(NewTable(Pages, 1), Own(Pages, 1), {}, {})
  BY MakesTable
<1>3. Makes(NewTable(Streams, 1) \o NewTable(Pages, 1), Own(Streams, 1) \cup Own(Pages, 1), {},
       {})
  BY <1>1, <1>2, MakesMore
<1>4. QED
  BY <1>3 DEF Upgrade0004

LEMMA Script0005 ==
  Makes(Upgrade0005, ColumnSet(Transfers, "event_action", 9) \cup ColumnSet(Swaps,
      "event_action", 9) \cup IndexSet(Transfers, "event_action", 3) \cup IndexSet(Swaps,
      "event_action", 3), {}, {Write(Rows("event actions"), "rows")} \cup {Refuse("doubled actions",
      Rows("none"))})
<1>1. Makes(Columns(Transfers, "event_action", 9), ColumnSet(Transfers, "event_action", 9), {},
       {})
  BY MakesColumns
<1>2. Makes(Columns(Swaps, "event_action", 9), ColumnSet(Swaps, "event_action", 9), {}, {})
  BY MakesColumns
<1>3. Makes(Columns(Transfers, "event_action", 9) \o Columns(Swaps, "event_action", 9),
       ColumnSet(Transfers, "event_action", 9) \cup ColumnSet(Swaps, "event_action", 9), {}, {})
  BY <1>1, <1>2, MakesMore
<1>4. Makes(ActionIdentityBackfill, {}, {}, {Write(Rows("event actions"), "rows")})
  BY MakesNothing DEF ActionIdentityBackfill
<1>5. Makes(Columns(Transfers, "event_action", 9) \o Columns(Swaps, "event_action", 9) \o
       ActionIdentityBackfill, ColumnSet(Transfers, "event_action", 9) \cup ColumnSet(Swaps,
       "event_action", 9), {}, {Write(Rows("event actions"), "rows")})
  BY <1>3, <1>4, MakesRest
<1>6. Makes(NoDuplicateActions, {}, {}, {Refuse("doubled actions", Rows("none"))})
  BY MakesNothing DEF NoDuplicateActions
<1>7. Makes(Columns(Transfers, "event_action", 9) \o Columns(Swaps, "event_action", 9) \o
       ActionIdentityBackfill \o NoDuplicateActions, ColumnSet(Transfers, "event_action", 9) \cup
       ColumnSet(Swaps, "event_action", 9), {}, {Write(Rows("event actions"), "rows")} \cup
       {Refuse("doubled actions", Rows("none"))})
  BY <1>5, <1>6, MakesMoreRest
<1>8. Makes(Indexes(Transfers, "event_action", 3), IndexSet(Transfers, "event_action", 3), {},
       {})
  BY MakesIndexes
<1>9. Makes(Columns(Transfers, "event_action", 9) \o Columns(Swaps, "event_action", 9) \o
       ActionIdentityBackfill \o NoDuplicateActions \o Indexes(Transfers, "event_action", 3),
       ColumnSet(Transfers, "event_action", 9) \cup ColumnSet(Swaps, "event_action", 9) \cup
       IndexSet(Transfers, "event_action", 3), {}, {Write(Rows("event actions"), "rows")} \cup
       {Refuse("doubled actions", Rows("none"))})
  BY <1>7, <1>8, MakesMore
<1>10. Makes(Indexes(Swaps, "event_action", 3), IndexSet(Swaps, "event_action", 3), {}, {})
  BY MakesIndexes
<1>11. Makes(Columns(Transfers, "event_action", 9) \o Columns(Swaps, "event_action", 9) \o
       ActionIdentityBackfill \o NoDuplicateActions \o Indexes(Transfers, "event_action", 3) \o
       Indexes(Swaps, "event_action", 3), ColumnSet(Transfers, "event_action", 9) \cup
       ColumnSet(Swaps, "event_action", 9) \cup IndexSet(Transfers, "event_action", 3) \cup
       IndexSet(Swaps, "event_action", 3), {}, {Write(Rows("event actions"), "rows")} \cup
       {Refuse("doubled actions", Rows("none"))})
  BY <1>9, <1>10, MakesMore
<1>12. QED
  BY <1>11 DEF Upgrade0005, ActionIdentityColumns, ActionIdentityIndexes

LEMMA Script0006 ==
  Makes(Upgrade0006, Own(Captures, 3) \cup Own(Nodes, 3) \cup Own(Messages, 3), {}, {})
<1>1. Makes(NewTable(Captures, 3), Own(Captures, 3), {}, {})
  BY MakesTable
<1>2. Makes(NewTable(Nodes, 3), Own(Nodes, 3), {}, {})
  BY MakesTable
<1>3. Makes(NewTable(Captures, 3) \o NewTable(Nodes, 3), Own(Captures, 3) \cup Own(Nodes, 3),
       {}, {})
  BY <1>1, <1>2, MakesMore
<1>4. Makes(NewTable(Messages, 3), Own(Messages, 3), {}, {})
  BY MakesTable
<1>5. Makes(NewTable(Captures, 3) \o NewTable(Nodes, 3) \o NewTable(Messages, 3), Own(Captures,
       3) \cup Own(Nodes, 3) \cup Own(Messages, 3), {}, {})
  BY <1>3, <1>4, MakesMore
<1>6. QED
  BY <1>5 DEF Upgrade0006

LEMMA Script0007 ==
  Makes(Upgrade0007, Own(Verifications, 2) \cup Own(BocTransactions, 3), {}, {})
<1>1. Makes(NewTable(Verifications, 2), Own(Verifications, 2), {}, {})
  BY MakesTable
<1>2. Makes(NewTable(BocTransactions, 3), Own(BocTransactions, 3), {}, {})
  BY MakesTable
<1>3. Makes(NewTable(Verifications, 2) \o NewTable(BocTransactions, 3), Own(Verifications, 2)
       \cup Own(BocTransactions, 3), {}, {})
  BY <1>1, <1>2, MakesMore
<1>4. QED
  BY <1>3 DEF Upgrade0007

LEMMA Script0008 ==
  Makes(Upgrade0008, Own(Ledgers, 2) \cup Own(LedgerRows, 4), {}, {})
<1>1. Makes(NewTable(Ledgers, 2), Own(Ledgers, 2), {}, {})
  BY MakesTable
<1>2. Makes(NewTable(LedgerRows, 4), Own(LedgerRows, 4), {}, {})
  BY MakesTable
<1>3. Makes(NewTable(Ledgers, 2) \o NewTable(LedgerRows, 4), Own(Ledgers, 2) \cup
       Own(LedgerRows, 4), {}, {})
  BY <1>1, <1>2, MakesMore
<1>4. QED
  BY <1>3 DEF Upgrade0008

LEMMA Script0009 ==
  Makes(Upgrade0009, Own(Jettons, 3), {}, {})
BY MakesTable DEF Upgrade0009

LEMMA Script0010 ==
  Makes(Upgrade0010, Own(Challenges, 3), {}, {})
BY MakesTable DEF Upgrade0010

LEMMA Script0011 ==
  Makes(Upgrade0011, Own(AccountProofs, 2), {}, {})
BY MakesTable DEF Upgrade0011

LEMMA Script0013 ==
  Makes(Upgrade0013, ColumnSet(Swaps, "dex_protocol", 2), {}, {Write(Rows("dex protocols"),
      "rows")})
<1>1. Makes(Columns(Swaps, "dex_protocol", 2), ColumnSet(Swaps, "dex_protocol", 2), {}, {})
  BY MakesColumns
<1>2. Makes(<<Write(Rows("dex protocols"), "rows")>>, {}, {}, {Write(Rows("dex protocols"),
       "rows")})
  BY MakesNothing
<1>3. Makes(Columns(Swaps, "dex_protocol", 2) \o <<Write(Rows("dex protocols"), "rows")>>,
       ColumnSet(Swaps, "dex_protocol", 2), {}, {Write(Rows("dex protocols"), "rows")})
  BY <1>1, <1>2, MakesRest
<1>4. QED
  BY <1>3 DEF Upgrade0013

LEMMA Script0014 ==
  Makes(Upgrade0014, ColumnSet(Challenges, "network", 1), {}, {})
BY MakesColumns DEF Upgrade0014

LEMMA Script0015 ==
  Makes(Upgrade0015, Own(Cases, 3) \cup Own(Syncs, 3), {}, {})
<1>1. Makes(NewTable(Cases, 3), Own(Cases, 3), {}, {})
  BY MakesTable
<1>2. Makes(NewTable(Syncs, 3), Own(Syncs, 3), {}, {})
  BY MakesTable
<1>3. Makes(NewTable(Cases, 3) \o NewTable(Syncs, 3), Own(Cases, 3) \cup Own(Syncs, 3), {}, {})
  BY <1>1, <1>2, MakesMore
<1>4. QED
  BY <1>3 DEF Upgrade0015

LEMMA Script0016 ==
  Makes(Upgrade0016, ColumnSet(Syncs, "compact", 2), {}, {Write(Rows("legacy messages"),
      "always")})
<1>1. Makes(Columns(Syncs, "compact", 2), ColumnSet(Syncs, "compact", 2), {}, {})
  BY MakesColumns
<1>2. Makes(LegacyMessages, {}, {}, {Write(Rows("legacy messages"), "always")})
  BY MakesNothing DEF LegacyMessages
<1>3. Makes(Columns(Syncs, "compact", 2) \o LegacyMessages, ColumnSet(Syncs, "compact", 2), {},
       {Write(Rows("legacy messages"), "always")})
  BY <1>1, <1>2, MakesRest
<1>4. QED
  BY <1>3 DEF Upgrade0016, CompactColumns

LEMMA Script0019 ==
  Makes(Upgrade0019, Own(Evidence, 6), {}, {})
BY MakesTable DEF Upgrade0019

LEMMA Script0023 ==
  Makes(Upgrade0023, Own(Reports, 4), {}, {})
BY MakesTable DEF Upgrade0023

LEMMA Script0024 ==
  Makes(Upgrade0024, Own(Lifecycle, 3), {}, {})
BY MakesTable DEF Upgrade0024

LEMMA Script0025 ==
  Makes(Upgrade0025, ColumnSet(Cases, "metadata_version", 1), {}, {})
BY MakesColumns DEF Upgrade0025

LEMMA Script0026 ==
  Makes(Upgrade0026, Own(Catalog, 1), {}, {Write(Rows(Catalog), "always")})
<1>1. Makes(NewTable(Catalog, 1), Own(Catalog, 1), {}, {})
  BY MakesTable
<1>2. Makes(SeedExistingCases, {}, {}, {Write(Rows(Catalog), "always")})
  BY MakesNothing DEF SeedExistingCases
<1>3. Makes(NewTable(Catalog, 1) \o SeedExistingCases, Own(Catalog, 1), {},
       {Write(Rows(Catalog), "always")})
  BY <1>1, <1>2, MakesRest
<1>4. QED
  BY <1>3 DEF Upgrade0026

LEMMA Script0027 ==
  Makes(Upgrade0027, Own(Manifests, 2), {}, {})
BY MakesTable DEF Upgrade0027

LEMMA Script0028 ==
  Makes(Upgrade0028, Own(Checkpoints, 3), {}, {})
BY MakesTable DEF Upgrade0028

(* Scripts that are written out.                                            *)
ObjectsOf(S, op) == {s.object : s \in {x \in S : x.op = op}}
RestOf(S) == {s \in S : s.op \notin {"create", "drop"}}

LEMMA MakesTwo ==
  ASSUME NEW a, NEW b, IsStatement(a), IsStatement(b)
  PROVE  Makes(<<a, b>>, ObjectsOf({a, b}, "create"), ObjectsOf({a, b}, "drop"),
        RestOf({a, b}))
<1> DEFINE c == <<a, b>>
<1>1. DOMAIN c = 1..2 /\ c[1] = a /\ c[2] = b /\ c \in Seq({a, b})
  OBVIOUS
<1> HIDE DEF c
<1>2. \A i \in DOMAIN c : i = 1 \/ i = 2
  BY <1>1
<1>3. {c[i] : i \in DOMAIN c} = {a, b} /\ 1 \in DOMAIN c /\ 2 \in DOMAIN c
  BY <1>1, <1>2
<1>4. IsScript(c)
  BY <1>1, <1>2, <1>3 DEF IsScript
<1>5. /\ \A op : Made(c, op) = ObjectsOf({c[i] : i \in DOMAIN c}, op)
      /\ Rest(c) = RestOf({c[i] : i \in DOMAIN c})
  BY DEF Made, ObjectsOf, Rest, RestOf
<1>6. QED
  BY <1>3, <1>4, <1>5 DEF Makes, c

LEMMA MakesThree ==
  ASSUME NEW a, NEW b, NEW c, IsStatement(a), IsStatement(b), IsStatement(c)
  PROVE  Makes(<<a, b, c>>, ObjectsOf({a, b, c}, "create"), ObjectsOf({a, b, c}, "drop"),
        RestOf({a, b, c}))
<1> DEFINE f == <<a, b, c>>
<1>1. DOMAIN f = 1..3 /\ f[1] = a /\ f[2] = b /\ f[3] = c /\ f \in Seq({a, b, c})
  OBVIOUS
<1> HIDE DEF f
<1>2. \A i \in DOMAIN f : i = 1 \/ i = 2 \/ i = 3
  BY <1>1
<1>3. {f[i] : i \in DOMAIN f} = {a, b, c} /\ 1 \in DOMAIN f /\ 2 \in DOMAIN f /\ 3 \in DOMAIN f
  BY <1>1, <1>2
<1>4. IsScript(f)
  BY <1>1, <1>2, <1>3 DEF IsScript
<1>5. /\ \A op : Made(f, op) = ObjectsOf({f[i] : i \in DOMAIN f}, op)
      /\ Rest(f) = RestOf({f[i] : i \in DOMAIN f})
  BY DEF Made, ObjectsOf, Rest, RestOf
<1>6. QED
  BY <1>3, <1>4, <1>5 DEF Makes, f

LEMMA MakesFour ==
  ASSUME NEW a, NEW b, NEW c, NEW d,
         IsStatement(a), IsStatement(b), IsStatement(c), IsStatement(d)
  PROVE  Makes(<<a, b, c, d>>, ObjectsOf({a, b, c, d}, "create"), ObjectsOf({a, b, c, d}, "drop"),
        RestOf({a, b, c, d}))
<1> DEFINE f == <<a, b, c, d>>
<1>1. DOMAIN f = 1..4 /\ f[1] = a /\ f[2] = b /\ f[3] = c /\ f[4] = d /\ f \in Seq({a, b, c, d})
  OBVIOUS
<1> HIDE DEF f
<1>2. \A i \in DOMAIN f : i = 1 \/ i = 2 \/ i = 3 \/ i = 4
  BY <1>1
<1>3. /\ {f[i] : i \in DOMAIN f} = {a, b, c, d}
      /\ 1 \in DOMAIN f /\ 2 \in DOMAIN f /\ 3 \in DOMAIN f /\ 4 \in DOMAIN f
  BY <1>1, <1>2
<1>4. IsScript(f)
  BY <1>1, <1>2, <1>3 DEF IsScript
<1>5. /\ \A op : Made(f, op) = ObjectsOf({f[i] : i \in DOMAIN f}, op)
      /\ Rest(f) = RestOf({f[i] : i \in DOMAIN f})
  BY DEF Made, ObjectsOf, Rest, RestOf
<1>6. QED
  BY <1>3, <1>4, <1>5 DEF Makes, f

LEMMA DdlIsStatement ==
  ASSUME NEW o, IsDdl(o)
  PROVE  IsStatement(Create(o)) /\ IsStatement(Drop(o))
BY DdlStatements DEF IsStatement

LEMMA Script0012 ==
  Makes(Upgrade0012, {Table(Proofs), Index(Proofs, "boc", 1), Index(Proofs, "digest", 1)}, {}, {})
<1> DEFINE a == Create(Table(Proofs))
           b == Create(Index(Proofs, "boc", 1))
           c == Create(Index(Proofs, "digest", 1))
<1>1. IsStatement(a) /\ IsStatement(b) /\ IsStatement(c)
  BY DdlIsStatement, ObjectsAreDdl
<1>2. /\ ObjectsOf({a, b, c}, "create") = {Table(Proofs), Index(Proofs, "boc", 1), Index(Proofs, "digest", 1)}
      /\ ObjectsOf({a, b, c}, "drop") = {} /\ RestOf({a, b, c}) = {}
  BY DdlStatements DEF ObjectsOf, RestOf
<1>3. Makes(<<a, b, c>>, ObjectsOf({a, b, c}, "create"), ObjectsOf({a, b, c}, "drop"),
        RestOf({a, b, c}))
  BY <1>1, MakesThree
<1>4. QED
  BY <1>2, <1>3 DEF Upgrade0012

LEMMA Script0017 ==
  Makes(Upgrade0017, ColumnSet(Syncs, "job", 11)
          \cup {Index(Syncs, "idempotency", 1), Index(Syncs, "one_active", 1), Index(Syncs, "queue", 1)},
        {}, {Write(LegacyActiveRows, "always")} \cup {Refuse("active pair", LegacyActiveRows)})
<1> DEFINE a == Create(Index(Syncs, "idempotency", 1))
           b == Refuse("active pair", LegacyActiveRows)
           c == Create(Index(Syncs, "one_active", 1))
           d == Create(Index(Syncs, "queue", 1))
<1>1. IsStatement(a) /\ IsStatement(b) /\ IsStatement(c) /\ IsStatement(d)
  BY DdlIsStatement, ObjectsAreDdl DEF Refuse, IsStatement
<1>2. /\ ObjectsOf({a, b, c, d}, "create") =
           {Index(Syncs, "idempotency", 1), Index(Syncs, "one_active", 1), Index(Syncs, "queue", 1)}
      /\ ObjectsOf({a, b, c, d}, "drop") = {} /\ RestOf({a, b, c, d}) = {b}
  <2>1. b.op = "refuse"
    BY DEF Refuse
  <2> HIDE DEF b
  <2>2. QED
    BY <2>1, DdlStatements DEF ObjectsOf, RestOf
<1>3. Makes(<<a, b, c, d>>, ObjectsOf({a, b, c, d}, "create"), ObjectsOf({a, b, c, d}, "drop"),
        RestOf({a, b, c, d}))
  BY <1>1, MakesFour
<1>4. Makes(JobIndexes,
        {Index(Syncs, "idempotency", 1), Index(Syncs, "one_active", 1), Index(Syncs, "queue", 1)}, {}, {b})
  BY <1>2, <1>3 DEF JobIndexes
<1>5. Makes(JobColumns, ColumnSet(Syncs, "job", 11), {}, {})
  BY MakesColumns DEF JobColumns
<1>6. Makes(NormalizeLegacyActiveRows, {}, {}, {Write(LegacyActiveRows, "always")})
  BY MakesNothing DEF NormalizeLegacyActiveRows, LegacyActiveRows
<1>7. Makes(JobColumns \o NormalizeLegacyActiveRows, ColumnSet(Syncs, "job", 11), {},
            {Write(LegacyActiveRows, "always")})
  BY <1>5, <1>6, MakesRest
<1>8. Makes((JobColumns \o NormalizeLegacyActiveRows) \o JobIndexes,
            ColumnSet(Syncs, "job", 11)
              \cup {Index(Syncs, "idempotency", 1), Index(Syncs, "one_active", 1), Index(Syncs, "queue", 1)},
            {} \cup {}, {Write(LegacyActiveRows, "always")} \cup {b})
  BY <1>4, <1>7, MakesBoth
<1>9. QED
  BY <1>8, NothingMore DEF Upgrade0017

LEMMA Script0018 ==
  Makes(Upgrade0018, {Index(t, "timeline", 1) : t \in {Syncs, Transactions, Transfers, Swaps}}, {}, {})
<1> DEFINE f == Upgrade0018
<1>1. f = [i \in 1..4 |-> Create(Index(ActivityTables[i], "timeline", 1))]
  BY DEF Upgrade0018
<1>2. /\ ActivityTables[1] = Syncs /\ ActivityTables[2] = Transactions
      /\ ActivityTables[3] = Transfers /\ ActivityTables[4] = Swaps
  BY DEF ActivityTables
<1>3. \A i \in 1..4 : /\ f[i].op = "create" /\ IsDdl(f[i].object)
                      /\ f[i].object = Index(ActivityTables[i], "timeline", 1)
  BY <1>1, DdlStatements, ObjectsAreDdl
<1> HIDE DEF f
<1>4. f = [i \in 1..4 |-> f[i]]
  BY <1>1
<1>5. Makes(f, {f[i].object : i \in 1..4}, {}, {})
  <2>1. \A i \in 1..4 : f[i].op = "create" /\ IsDdl(f[i].object)
    BY <1>3
  <2>2. 4 \in Nat
    OBVIOUS
  <2>3. QED
    BY <1>4, <2>1, <2>2, MakesEach, Zenon
<1>6. \A i \in 1..4 : i = 1 \/ i = 2 \/ i = 3 \/ i = 4
  OBVIOUS
<1>7. {f[i].object : i \in 1..4} = {Index(t, "timeline", 1) : t \in {Syncs, Transactions, Transfers, Swaps}}
  BY <1>2, <1>3, <1>6
<1>8. QED
  BY <1>5, <1>7 DEF f

LEMMA Script0020 ==
  Makes(Upgrade0020, {Index(Proofs, "trust", 1)}, {Index(Proofs, "boc", 1)}, {})
<1> DEFINE a == Create(Index(Proofs, "trust", 1))
           b == Drop(Index(Proofs, "boc", 1))
<1>1. IsStatement(a) /\ IsStatement(b)
  BY DdlIsStatement, ObjectsAreDdl
<1>2. /\ ObjectsOf({a, b}, "create") = {Index(Proofs, "trust", 1)}
      /\ ObjectsOf({a, b}, "drop") = {Index(Proofs, "boc", 1)} /\ RestOf({a, b}) = {}
  BY DdlStatements DEF ObjectsOf, RestOf
<1>3. Makes(<<a, b>>, ObjectsOf({a, b}, "create"), ObjectsOf({a, b}, "drop"),
        RestOf({a, b}))
  BY <1>1, MakesTwo
<1>4. QED
  BY <1>2, <1>3 DEF Upgrade0020

LEMMA Script0021 ==
  Makes(Upgrade0021,
        ColumnSet(Proofs, "checkpoint", 6)
          \cup {Trigger(Proofs, "insert", 21), Trigger(Proofs, "update", 21)}
          \cup {Index(Proofs, "policy", 1)},
        {Index(Proofs, "trust", 1)}, {})
<1> DEFINE a == Create(Trigger(Proofs, "insert", 21))
           b == Create(Trigger(Proofs, "update", 21))
           c == Create(Index(Proofs, "policy", 1))
           d == Drop(Index(Proofs, "trust", 1))
<1>1. IsStatement(a) /\ IsStatement(b) /\ IsStatement(c) /\ IsStatement(d)
  BY DdlIsStatement, ObjectsAreDdl
<1>2. /\ ObjectsOf({a, b}, "create") = {Trigger(Proofs, "insert", 21), Trigger(Proofs, "update", 21)}
      /\ ObjectsOf({a, b}, "drop") = {} /\ RestOf({a, b}) = {} /\ RestOf({c, d}) = {}
      /\ ObjectsOf({c, d}, "create") = {Index(Proofs, "policy", 1)}
      /\ ObjectsOf({c, d}, "drop") = {Index(Proofs, "trust", 1)}
  BY DdlStatements DEF ObjectsOf, RestOf
<1>3. /\ Makes(<<a, b>>, ObjectsOf({a, b}, "create"), ObjectsOf({a, b}, "drop"),
        RestOf({a, b}))
      /\ Makes(<<c, d>>, ObjectsOf({c, d}, "create"), ObjectsOf({c, d}, "drop"),
        RestOf({c, d}))
  BY <1>1, MakesTwo
<1>4. Makes(CheckpointColumns, ColumnSet(Proofs, "checkpoint", 6), {}, {})
  BY MakesColumns DEF CheckpointColumns
<1>5. Makes(CheckpointTriggers, {Trigger(Proofs, "insert", 21), Trigger(Proofs, "update", 21)}, {}, {})
  BY <1>2, <1>3 DEF CheckpointTriggers
<1>6. Makes(CheckpointColumns \o CheckpointTriggers,
            ColumnSet(Proofs, "checkpoint", 6)
              \cup {Trigger(Proofs, "insert", 21), Trigger(Proofs, "update", 21)}, {}, {})
  BY <1>4, <1>5, MakesMore
<1>7. Makes(<<c, d>>, {Index(Proofs, "policy", 1)}, {Index(Proofs, "trust", 1)}, {})
  BY <1>2, <1>3
<1>8. Makes((CheckpointColumns \o CheckpointTriggers) \o <<c, d>>,
            ColumnSet(Proofs, "checkpoint", 6)
              \cup {Trigger(Proofs, "insert", 21), Trigger(Proofs, "update", 21)}
              \cup {Index(Proofs, "policy", 1)},
            {} \cup {Index(Proofs, "trust", 1)}, {} \cup {})
  BY <1>6, <1>7, MakesBoth
<1>9. QED
  BY <1>8, NothingMore DEF Upgrade0021

LEMMA Script0022 ==
  Makes(Upgrade0022,
        {Trigger(Proofs, "insert", 22), Trigger(Proofs, "update", 22)},
        {Trigger(Proofs, "insert", 21), Trigger(Proofs, "update", 21)}, {})
<1> DEFINE a == Drop(Trigger(Proofs, "insert", 21))
           b == Drop(Trigger(Proofs, "update", 21))
           c == Create(Trigger(Proofs, "insert", 22))
           d == Create(Trigger(Proofs, "update", 22))
<1>1. IsStatement(a) /\ IsStatement(b) /\ IsStatement(c) /\ IsStatement(d)
  BY DdlIsStatement, ObjectsAreDdl
<1>2. /\ ObjectsOf({a, b, c, d}, "create") = {Trigger(Proofs, "insert", 22), Trigger(Proofs, "update", 22)}
      /\ ObjectsOf({a, b, c, d}, "drop") = {Trigger(Proofs, "insert", 21), Trigger(Proofs, "update", 21)}
      /\ RestOf({a, b, c, d}) = {}
  BY DdlStatements DEF ObjectsOf, RestOf
<1>3. Makes(<<a, b, c, d>>, ObjectsOf({a, b, c, d}, "create"), ObjectsOf({a, b, c, d}, "drop"),
        RestOf({a, b, c, d}))
  BY <1>1, MakesFour
<1>4. QED
  BY <1>2, <1>3 DEF Upgrade0022

-----------------------------------------------------------------------------
(* Which revision makes an object.                                          *)
CreatedAt(r) == Made(Scripts[r], "create")
DroppedAt(r) == Made(Scripts[r], "drop")
RestAt(r) == Rest(Scripts[r])

(* The revision that creates a table.                                       *)
Birth(t) ==
  CASE t \in DomainTables -> 1
    [] t \in {Streams, Pages} -> 4
    [] t \in {Captures, Nodes, Messages} -> 6
    [] t \in {Verifications, BocTransactions} -> 7
    [] t \in {Ledgers, LedgerRows} -> 8
    [] t \in {Jettons} -> 9
    [] t \in {Challenges} -> 10
    [] t \in {AccountProofs} -> 11
    [] t \in {Proofs} -> 12
    [] t \in {Cases, Syncs} -> 15
    [] t \in {Evidence} -> 19
    [] t \in {Reports} -> 23
    [] t \in {Lifecycle} -> 24
    [] t \in {Catalog} -> 26
    [] t \in {Manifests} -> 27
    [] t \in {Checkpoints} -> 28
    [] OTHER -> 0

ColumnsMade ==
  {<<2, Runs, "wallet_identity">>, <<3, Transactions, "identity">>,
   <<5, Transfers, "event_action">>, <<5, Swaps, "event_action">>,
   <<13, Swaps, "dex_protocol">>, <<14, Challenges, "network">>,
   <<16, Syncs, "compact">>, <<17, Syncs, "job">>,
   <<21, Proofs, "checkpoint">>, <<25, Cases, "metadata_version">>}
IndexesMade ==
  {<<2, Runs, "wallet_identity">>, <<3, Transactions, "identity">>,
   <<5, Transfers, "event_action">>, <<5, Swaps, "event_action">>,
   <<12, Proofs, "boc">>, <<12, Proofs, "digest">>,
   <<17, Syncs, "idempotency">>, <<17, Syncs, "one_active">>, <<17, Syncs, "queue">>,
   <<18, Syncs, "timeline">>, <<18, Transactions, "timeline">>,
   <<18, Transfers, "timeline">>, <<18, Swaps, "timeline">>,
   <<20, Proofs, "trust">>, <<21, Proofs, "policy">>}

(* What an object that revision r creates can be.                           *)
Known(r, o) ==
  /\ o[2] \in Kinds
  /\ Birth(o[1]) \in 1..r
  /\ o[2] = "table" => o = Table(o[1]) /\ r = Birth(o[1])
  /\ o[2] = "column" => o = Column(o[1], o[3], o[4]) /\ <<r, o[1], o[3]>> \in ColumnsMade
  /\ o[2] = "index" => \/ o[3] = "own" /\ r = Birth(o[1])
                       \/ o = Index(o[1], o[3], 1) /\ <<r, o[1], o[3]>> \in IndexesMade
                       \/ <<r, o[1], o[3]>> \in IndexesMade /\ o[1] # Proofs
  /\ o[2] = "trigger" => /\ o = Trigger(Proofs, o[3], o[4]) /\ o[3] \in {"insert", "update"}
                         /\ \/ r = 21 /\ o[4] = 21
                            \/ r = 22 /\ o[4] = 22

LEMMA Births ==
  /\ Birth("analysis_runs") = 1
  /\ Birth(Runs) = 1
  /\ Birth(Transfers) = 1
  /\ Birth(Transactions) = 1
  /\ Birth(Swaps) = 1
  /\ Birth(Balances) = 1
  /\ Birth("wallet_ingestion_warnings") = 1
  /\ Birth(Streams) = 4
  /\ Birth(Pages) = 4
  /\ Birth(Captures) = 6
  /\ Birth(Nodes) = 6
  /\ Birth(Messages) = 6
  /\ Birth(Verifications) = 7
  /\ Birth(BocTransactions) = 7
  /\ Birth(Ledgers) = 8
  /\ Birth(LedgerRows) = 8
  /\ Birth(Jettons) = 9
  /\ Birth(Challenges) = 10
  /\ Birth(AccountProofs) = 11
  /\ Birth(Proofs) = 12
  /\ Birth(Cases) = 15
  /\ Birth(Syncs) = 15
  /\ Birth(Evidence) = 19
  /\ Birth(Reports) = 23
  /\ Birth(Lifecycle) = 24
  /\ Birth(Catalog) = 26
  /\ Birth(Manifests) = 27
  /\ Birth(Checkpoints) = 28
BY DEF Birth, DomainTables, Runs, Transfers, Transactions, Swaps, Balances, Streams, Pages,
       Captures, Nodes, Messages, Verifications, BocTransactions, Ledgers, LedgerRows, Jettons,
       Challenges, AccountProofs, Proofs, Cases, Syncs, Evidence, Reports, Lifecycle, Catalog,
       Manifests, Checkpoints

LEMMA OwnKnown ==
  ASSUME NEW r \in 1..28, NEW t, NEW n, Birth(t) = r, NEW o \in Own(t, n)
  PROVE  Known(r, o)
BY DEF Own, Known, Kinds, Table, Index

LEMMA ColumnsKnown ==
  ASSUME NEW r \in 1..28, NEW t, NEW group, NEW n, Birth(t) \in 1..r,
         <<r, t, group>> \in ColumnsMade, NEW o \in ColumnSet(t, group, n)
  PROVE  Known(r, o)
<1>1. PICK i \in 1..n : o = Column(t, group, i)
  BY DEF ColumnSet
<1>2. /\ o[1] = t /\ o[2] = "column" /\ o[3] = group /\ o[4] = i
  BY <1>1 DEF Column
<1>3. QED
  BY <1>1, <1>2 DEF Known, Kinds

LEMMA IndexKnown ==
  ASSUME NEW r \in 1..28, NEW t, NEW group, Birth(t) \in 1..r, <<r, t, group>> \in IndexesMade
  PROVE  Known(r, Index(t, group, 1))
<1> DEFINE o == Index(t, group, 1)
<1>1. o[1] = t /\ o[2] = "index" /\ o[3] = group
  BY DEF Index
<1>2. QED
  BY <1>1 DEF Known, Kinds

LEMMA IndexesKnown ==
  ASSUME NEW r \in 1..28, NEW t, NEW group, NEW n, Birth(t) \in 1..r, t # Proofs,
         <<r, t, group>> \in IndexesMade, NEW o \in IndexSet(t, group, n)
  PROVE  Known(r, o)
<1>1. PICK i \in 1..n : o = Index(t, group, i)
  BY DEF IndexSet
<1>2. /\ o[1] = t /\ o[2] = "index" /\ o[3] = group
  BY <1>1 DEF Index
<1>3. QED
  BY <1>1, <1>2 DEF Known, Kinds

LEMMA TriggerKnown ==
  ASSUME NEW r \in {21, 22}, NEW event \in {"insert", "update"}
  PROVE  Known(r, Trigger(Proofs, event, r))
<1> DEFINE o == Trigger(Proofs, event, r)
<1>1. o[1] = Proofs /\ o[2] = "trigger" /\ o[3] = event /\ o[4] = r
  BY DEF Trigger
<1>2. QED
  BY <1>1, Births DEF Known, Kinds

LEMMA ScriptsAre ==
  /\ DOMAIN Scripts = 1..28
  /\ Scripts[1] = Upgrade0001
  /\ Scripts[2] = Upgrade0002
  /\ Scripts[3] = Upgrade0003
  /\ Scripts[4] = Upgrade0004
  /\ Scripts[5] = Upgrade0005
  /\ Scripts[6] = Upgrade0006
  /\ Scripts[7] = Upgrade0007
  /\ Scripts[8] = Upgrade0008
  /\ Scripts[9] = Upgrade0009
  /\ Scripts[10] = Upgrade0010
  /\ Scripts[11] = Upgrade0011
  /\ Scripts[12] = Upgrade0012
  /\ Scripts[13] = Upgrade0013
  /\ Scripts[14] = Upgrade0014
  /\ Scripts[15] = Upgrade0015
  /\ Scripts[16] = Upgrade0016
  /\ Scripts[17] = Upgrade0017
  /\ Scripts[18] = Upgrade0018
  /\ Scripts[19] = Upgrade0019
  /\ Scripts[20] = Upgrade0020
  /\ Scripts[21] = Upgrade0021
  /\ Scripts[22] = Upgrade0022
  /\ Scripts[23] = Upgrade0023
  /\ Scripts[24] = Upgrade0024
  /\ Scripts[25] = Upgrade0025
  /\ Scripts[26] = Upgrade0026
  /\ Scripts[27] = Upgrade0027
  /\ Scripts[28] = Upgrade0028
BY DEF Scripts

LEMMA At0001 ==
  /\ IsScript(Scripts[1])
  /\ CreatedAt(1) =
        Own("analysis_runs", 1) \cup Own(Runs, 2) \cup Own(Transfers, 4) \cup
        Own(Transactions, 4) \cup Own(Swaps, 3) \cup Own(Balances, 2) \cup
        Own("wallet_ingestion_warnings", 2)
  /\ DroppedAt(1) = {}
BY Script0001, ScriptsAre DEF Makes, CreatedAt, DroppedAt

LEMMA At0002 ==
  /\ IsScript(Scripts[2])
  /\ CreatedAt(2) =
        ColumnSet(Runs, "wallet_identity", 9) \cup IndexSet(Runs, "wallet_identity", 1)
  /\ DroppedAt(2) = {}
BY Script0002, ScriptsAre DEF Makes, CreatedAt, DroppedAt

LEMMA At0003 ==
  /\ IsScript(Scripts[3])
  /\ CreatedAt(3) =
        ColumnSet(Transactions, "identity", 7) \cup IndexSet(Transactions, "identity",
        3)
  /\ DroppedAt(3) = {}
BY Script0003, ScriptsAre DEF Makes, CreatedAt, DroppedAt

LEMMA At0004 ==
  /\ IsScript(Scripts[4])
  /\ CreatedAt(4) =
        Own(Streams, 1) \cup Own(Pages, 1)
  /\ DroppedAt(4) = {}
BY Script0004, ScriptsAre DEF Makes, CreatedAt, DroppedAt

LEMMA At0005 ==
  /\ IsScript(Scripts[5])
  /\ CreatedAt(5) =
        ColumnSet(Transfers, "event_action", 9) \cup ColumnSet(Swaps, "event_action", 9)
        \cup IndexSet(Transfers, "event_action", 3) \cup IndexSet(Swaps, "event_action",
        3)
  /\ DroppedAt(5) = {}
BY Script0005, ScriptsAre DEF Makes, CreatedAt, DroppedAt

LEMMA At0006 ==
  /\ IsScript(Scripts[6])
  /\ CreatedAt(6) =
        Own(Captures, 3) \cup Own(Nodes, 3) \cup Own(Messages, 3)
  /\ DroppedAt(6) = {}
BY Script0006, ScriptsAre DEF Makes, CreatedAt, DroppedAt

LEMMA At0007 ==
  /\ IsScript(Scripts[7])
  /\ CreatedAt(7) =
        Own(Verifications, 2) \cup Own(BocTransactions, 3)
  /\ DroppedAt(7) = {}
BY Script0007, ScriptsAre DEF Makes, CreatedAt, DroppedAt

LEMMA At0008 ==
  /\ IsScript(Scripts[8])
  /\ CreatedAt(8) =
        Own(Ledgers, 2) \cup Own(LedgerRows, 4)
  /\ DroppedAt(8) = {}
BY Script0008, ScriptsAre DEF Makes, CreatedAt, DroppedAt

LEMMA At0009 ==
  /\ IsScript(Scripts[9])
  /\ CreatedAt(9) =
        Own(Jettons, 3)
  /\ DroppedAt(9) = {}
BY Script0009, ScriptsAre DEF Makes, CreatedAt, DroppedAt

LEMMA At0010 ==
  /\ IsScript(Scripts[10])
  /\ CreatedAt(10) =
        Own(Challenges, 3)
  /\ DroppedAt(10) = {}
BY Script0010, ScriptsAre DEF Makes, CreatedAt, DroppedAt

LEMMA At0011 ==
  /\ IsScript(Scripts[11])
  /\ CreatedAt(11) =
        Own(AccountProofs, 2)
  /\ DroppedAt(11) = {}
BY Script0011, ScriptsAre DEF Makes, CreatedAt, DroppedAt

LEMMA At0012 ==
  /\ IsScript(Scripts[12])
  /\ CreatedAt(12) =
        {Table(Proofs), Index(Proofs, "boc", 1), Index(Proofs, "digest", 1)}
  /\ DroppedAt(12) = {}
BY Script0012, ScriptsAre DEF Makes, CreatedAt, DroppedAt

LEMMA At0013 ==
  /\ IsScript(Scripts[13])
  /\ CreatedAt(13) =
        ColumnSet(Swaps, "dex_protocol", 2)
  /\ DroppedAt(13) = {}
BY Script0013, ScriptsAre DEF Makes, CreatedAt, DroppedAt

LEMMA At0014 ==
  /\ IsScript(Scripts[14])
  /\ CreatedAt(14) =
        ColumnSet(Challenges, "network", 1)
  /\ DroppedAt(14) = {}
BY Script0014, ScriptsAre DEF Makes, CreatedAt, DroppedAt

LEMMA At0015 ==
  /\ IsScript(Scripts[15])
  /\ CreatedAt(15) =
        Own(Cases, 3) \cup Own(Syncs, 3)
  /\ DroppedAt(15) = {}
BY Script0015, ScriptsAre DEF Makes, CreatedAt, DroppedAt

LEMMA At0016 ==
  /\ IsScript(Scripts[16])
  /\ CreatedAt(16) =
        ColumnSet(Syncs, "compact", 2)
  /\ DroppedAt(16) = {}
BY Script0016, ScriptsAre DEF Makes, CreatedAt, DroppedAt

LEMMA At0017 ==
  /\ IsScript(Scripts[17])
  /\ CreatedAt(17) =
        ColumnSet(Syncs, "job", 11)
        \cup {Index(Syncs, "idempotency", 1), Index(Syncs, "one_active", 1), Index(Syncs, "queue", 1)}
  /\ DroppedAt(17) = {}
BY Script0017, ScriptsAre DEF Makes, CreatedAt, DroppedAt

LEMMA At0018 ==
  /\ IsScript(Scripts[18])
  /\ CreatedAt(18) =
        {Index(t, "timeline", 1) : t \in {Syncs, Transactions, Transfers, Swaps}}
  /\ DroppedAt(18) = {}
BY Script0018, ScriptsAre DEF Makes, CreatedAt, DroppedAt

LEMMA At0019 ==
  /\ IsScript(Scripts[19])
  /\ CreatedAt(19) =
        Own(Evidence, 6)
  /\ DroppedAt(19) = {}
BY Script0019, ScriptsAre DEF Makes, CreatedAt, DroppedAt

LEMMA At0020 ==
  /\ IsScript(Scripts[20])
  /\ CreatedAt(20) =
        {Index(Proofs, "trust", 1)}
  /\ DroppedAt(20) = {Index(Proofs, "boc", 1)}
BY Script0020, ScriptsAre DEF Makes, CreatedAt, DroppedAt

LEMMA At0021 ==
  /\ IsScript(Scripts[21])
  /\ CreatedAt(21) =
        ColumnSet(Proofs, "checkpoint", 6)
        \cup {Trigger(Proofs, "insert", 21), Trigger(Proofs, "update", 21)}
        \cup {Index(Proofs, "policy", 1)}
  /\ DroppedAt(21) = {Index(Proofs, "trust", 1)}
BY Script0021, ScriptsAre DEF Makes, CreatedAt, DroppedAt

LEMMA At0022 ==
  /\ IsScript(Scripts[22])
  /\ CreatedAt(22) =
        {Trigger(Proofs, "insert", 22), Trigger(Proofs, "update", 22)}
  /\ DroppedAt(22) = {Trigger(Proofs, "insert", 21), Trigger(Proofs, "update", 21)}
BY Script0022, ScriptsAre DEF Makes, CreatedAt, DroppedAt

LEMMA At0023 ==
  /\ IsScript(Scripts[23])
  /\ CreatedAt(23) =
        Own(Reports, 4)
  /\ DroppedAt(23) = {}
BY Script0023, ScriptsAre DEF Makes, CreatedAt, DroppedAt

LEMMA At0024 ==
  /\ IsScript(Scripts[24])
  /\ CreatedAt(24) =
        Own(Lifecycle, 3)
  /\ DroppedAt(24) = {}
BY Script0024, ScriptsAre DEF Makes, CreatedAt, DroppedAt

LEMMA At0025 ==
  /\ IsScript(Scripts[25])
  /\ CreatedAt(25) =
        ColumnSet(Cases, "metadata_version", 1)
  /\ DroppedAt(25) = {}
BY Script0025, ScriptsAre DEF Makes, CreatedAt, DroppedAt

LEMMA At0026 ==
  /\ IsScript(Scripts[26])
  /\ CreatedAt(26) =
        Own(Catalog, 1)
  /\ DroppedAt(26) = {}
BY Script0026, ScriptsAre DEF Makes, CreatedAt, DroppedAt

LEMMA At0027 ==
  /\ IsScript(Scripts[27])
  /\ CreatedAt(27) =
        Own(Manifests, 2)
  /\ DroppedAt(27) = {}
BY Script0027, ScriptsAre DEF Makes, CreatedAt, DroppedAt

LEMMA At0028 ==
  /\ IsScript(Scripts[28])
  /\ CreatedAt(28) =
        Own(Checkpoints, 3)
  /\ DroppedAt(28) = {}
BY Script0028, ScriptsAre DEF Makes, CreatedAt, DroppedAt

(* What a revision does besides: the rows it writes and those it refuses.   *)
LEMMA Rests ==
  /\ RestAt(1) = {}
  /\ RestAt(2) = {Write(Rows("wallet identities"), "rows")}
  /\ RestAt(3) = {Write(Rows("transaction identities"), "rows")} \cup
         {Refuse("doubled transactions", Rows("none"))}
  /\ RestAt(4) = {}
  /\ RestAt(5) = {Write(Rows("event actions"), "rows")} \cup {Refuse("doubled actions",
         Rows("none"))}
  /\ RestAt(6) = {}
  /\ RestAt(7) = {}
  /\ RestAt(8) = {}
  /\ RestAt(9) = {}
  /\ RestAt(10) = {}
  /\ RestAt(11) = {}
  /\ RestAt(12) = {}
  /\ RestAt(13) = {Write(Rows("dex protocols"), "rows")}
  /\ RestAt(14) = {}
  /\ RestAt(15) = {}
  /\ RestAt(16) = {Write(Rows("legacy messages"), "always")}
  /\ RestAt(17) = {Write(LegacyActiveRows, "always")} \cup {Refuse("active pair",
         LegacyActiveRows)}
  /\ RestAt(18) = {}
  /\ RestAt(19) = {}
  /\ RestAt(20) = {}
  /\ RestAt(21) = {}
  /\ RestAt(22) = {}
  /\ RestAt(23) = {}
  /\ RestAt(24) = {}
  /\ RestAt(25) = {}
  /\ RestAt(26) = {Write(Rows(Catalog), "always")}
  /\ RestAt(27) = {}
  /\ RestAt(28) = {}
<1>1. RestAt(1) = {}
  BY Script0001, ScriptsAre DEF Makes, RestAt
<1>2. RestAt(2) = {Write(Rows("wallet identities"), "rows")}
  BY Script0002, ScriptsAre DEF Makes, RestAt
<1>3. RestAt(3) = {Write(Rows("transaction identities"), "rows")} \cup
        {Refuse("doubled transactions", Rows("none"))}
  BY Script0003, ScriptsAre DEF Makes, RestAt
<1>4. RestAt(4) = {}
  BY Script0004, ScriptsAre DEF Makes, RestAt
<1>5. RestAt(5) = {Write(Rows("event actions"), "rows")} \cup {Refuse("doubled actions",
        Rows("none"))}
  BY Script0005, ScriptsAre DEF Makes, RestAt
<1>6. RestAt(6) = {}
  BY Script0006, ScriptsAre DEF Makes, RestAt
<1>7. RestAt(7) = {}
  BY Script0007, ScriptsAre DEF Makes, RestAt
<1>8. RestAt(8) = {}
  BY Script0008, ScriptsAre DEF Makes, RestAt
<1>9. RestAt(9) = {}
  BY Script0009, ScriptsAre DEF Makes, RestAt
<1>10. RestAt(10) = {}
  BY Script0010, ScriptsAre DEF Makes, RestAt
<1>11. RestAt(11) = {}
  BY Script0011, ScriptsAre DEF Makes, RestAt
<1>12. RestAt(12) = {}
  BY Script0012, ScriptsAre DEF Makes, RestAt
<1>13. RestAt(13) = {Write(Rows("dex protocols"), "rows")}
  BY Script0013, ScriptsAre DEF Makes, RestAt
<1>14. RestAt(14) = {}
  BY Script0014, ScriptsAre DEF Makes, RestAt
<1>15. RestAt(15) = {}
  BY Script0015, ScriptsAre DEF Makes, RestAt
<1>16. RestAt(16) = {Write(Rows("legacy messages"), "always")}
  BY Script0016, ScriptsAre DEF Makes, RestAt
<1>17. RestAt(17) = {Write(LegacyActiveRows, "always")} \cup {Refuse("active pair",
        LegacyActiveRows)}
  BY Script0017, ScriptsAre DEF Makes, RestAt
<1>18. RestAt(18) = {}
  BY Script0018, ScriptsAre DEF Makes, RestAt
<1>19. RestAt(19) = {}
  BY Script0019, ScriptsAre DEF Makes, RestAt
<1>20. RestAt(20) = {}
  BY Script0020, ScriptsAre DEF Makes, RestAt
<1>21. RestAt(21) = {}
  BY Script0021, ScriptsAre DEF Makes, RestAt
<1>22. RestAt(22) = {}
  BY Script0022, ScriptsAre DEF Makes, RestAt
<1>23. RestAt(23) = {}
  BY Script0023, ScriptsAre DEF Makes, RestAt
<1>24. RestAt(24) = {}
  BY Script0024, ScriptsAre DEF Makes, RestAt
<1>25. RestAt(25) = {}
  BY Script0025, ScriptsAre DEF Makes, RestAt
<1>26. RestAt(26) = {Write(Rows(Catalog), "always")}
  BY Script0026, ScriptsAre DEF Makes, RestAt
<1>27. RestAt(27) = {}
  BY Script0027, ScriptsAre DEF Makes, RestAt
<1>28. RestAt(28) = {}
  BY Script0028, ScriptsAre DEF Makes, RestAt
<1>29. QED
  BY <1>1, <1>2, <1>3, <1>4, <1>5, <1>6, <1>7, <1>8, <1>9, <1>10, <1>11, <1>12, <1>13, <1>14,
     <1>15, <1>16, <1>17, <1>18, <1>19, <1>20, <1>21, <1>22, <1>23, <1>24, <1>25, <1>26, <1>27, <1>28

LEMMA MadeOnce ==
  /\ <<2, Runs, "wallet_identity">> \in ColumnsMade
  /\ <<3, Transactions, "identity">> \in ColumnsMade
  /\ <<5, Transfers, "event_action">> \in ColumnsMade
  /\ <<5, Swaps, "event_action">> \in ColumnsMade
  /\ <<13, Swaps, "dex_protocol">> \in ColumnsMade
  /\ <<14, Challenges, "network">> \in ColumnsMade
  /\ <<16, Syncs, "compact">> \in ColumnsMade
  /\ <<17, Syncs, "job">> \in ColumnsMade
  /\ <<21, Proofs, "checkpoint">> \in ColumnsMade
  /\ <<25, Cases, "metadata_version">> \in ColumnsMade
  /\ <<2, Runs, "wallet_identity">> \in IndexesMade
  /\ <<3, Transactions, "identity">> \in IndexesMade
  /\ <<5, Transfers, "event_action">> \in IndexesMade
  /\ <<5, Swaps, "event_action">> \in IndexesMade
  /\ <<12, Proofs, "boc">> \in IndexesMade
  /\ <<12, Proofs, "digest">> \in IndexesMade
  /\ <<17, Syncs, "idempotency">> \in IndexesMade
  /\ <<17, Syncs, "one_active">> \in IndexesMade
  /\ <<17, Syncs, "queue">> \in IndexesMade
  /\ <<18, Syncs, "timeline">> \in IndexesMade
  /\ <<18, Transactions, "timeline">> \in IndexesMade
  /\ <<18, Transfers, "timeline">> \in IndexesMade
  /\ <<18, Swaps, "timeline">> \in IndexesMade
  /\ <<20, Proofs, "trust">> \in IndexesMade
  /\ <<21, Proofs, "policy">> \in IndexesMade
BY DEF ColumnsMade, IndexesMade

LEMMA EachIsKnown ==
  ASSUME NEW r \in 1..28, NEW o \in CreatedAt(r)
  PROVE  Known(r, o)
<1>1. CASE r = 1
  BY <1>1, At0001, Births, OwnKnown
<1>2. CASE r = 2
  BY <1>2, At0002, Births, ColumnsKnown, IndexesKnown, MadeOnce DEF Proofs, Runs, Transactions, Transfers, Swaps
<1>3. CASE r = 3
  BY <1>3, At0003, Births, ColumnsKnown, IndexesKnown, MadeOnce DEF Proofs, Runs, Transactions, Transfers, Swaps
<1>4. CASE r = 4
  BY <1>4, At0004, Births, OwnKnown
<1>5. CASE r = 5
  BY <1>5, At0005, Births, ColumnsKnown, IndexesKnown, MadeOnce DEF Proofs, Runs, Transactions, Transfers, Swaps
<1>6. CASE r = 6
  BY <1>6, At0006, Births, OwnKnown
<1>7. CASE r = 7
  BY <1>7, At0007, Births, OwnKnown
<1>8. CASE r = 8
  BY <1>8, At0008, Births, OwnKnown
<1>9. CASE r = 9
  BY <1>9, At0009, Births, OwnKnown
<1>10. CASE r = 10
  BY <1>10, At0010, Births, OwnKnown
<1>11. CASE r = 11
  BY <1>11, At0011, Births, OwnKnown
<1>12. CASE r = 12
  BY <1>12, At0012, Births, IndexKnown, MadeOnce, OwnKnown DEF Own
<1>13. CASE r = 13
  BY <1>13, At0013, Births, ColumnsKnown, MadeOnce
<1>14. CASE r = 14
  BY <1>14, At0014, Births, ColumnsKnown, MadeOnce
<1>15. CASE r = 15
  BY <1>15, At0015, Births, OwnKnown
<1>16. CASE r = 16
  BY <1>16, At0016, Births, ColumnsKnown, MadeOnce
<1>17. CASE r = 17
  BY <1>17, At0017, Births, ColumnsKnown, IndexKnown, MadeOnce
<1>18. CASE r = 18
  BY <1>18, At0018, Births, IndexKnown, MadeOnce
<1>19. CASE r = 19
  BY <1>19, At0019, Births, OwnKnown
<1>20. CASE r = 20
  BY <1>20, At0020, Births, IndexKnown, MadeOnce
<1>21. CASE r = 21
  BY <1>21, At0021, Births, ColumnsKnown, IndexKnown, MadeOnce, TriggerKnown
<1>22. CASE r = 22
  BY <1>22, At0022, Births, TriggerKnown
<1>23. CASE r = 23
  BY <1>23, At0023, Births, OwnKnown
<1>24. CASE r = 24
  BY <1>24, At0024, Births, OwnKnown
<1>25. CASE r = 25
  BY <1>25, At0025, Births, ColumnsKnown, MadeOnce
<1>26. CASE r = 26
  BY <1>26, At0026, Births, OwnKnown
<1>27. CASE r = 27
  BY <1>27, At0027, Births, OwnKnown
<1>28. CASE r = 28
  BY <1>28, At0028, Births, OwnKnown
<1>29. QED
  BY <1>1, <1>2, <1>3, <1>4, <1>5, <1>6, <1>7, <1>8, <1>9, <1>10, <1>11, <1>12, <1>13,
     <1>14, <1>15, <1>16, <1>17, <1>18, <1>19, <1>20, <1>21, <1>22, <1>23, <1>24, <1>25,
     <1>26, <1>27, <1>28

LEMMA ScriptsAreScripts ==
  \A r \in 1..28 : /\ IsScript(Scripts[r])
                    /\ Len(Scripts[r]) \in Nat
                    /\ DOMAIN Scripts[r] = 1..Len(Scripts[r])
<1>1. \A r \in 1..28 : IsScript(Scripts[r])
  <2> TAKE r \in 1..28
  <2>1. CASE r = 1
    BY <2>1, At0001
  <2>2. CASE r = 2
    BY <2>2, At0002
  <2>3. CASE r = 3
    BY <2>3, At0003
  <2>4. CASE r = 4
    BY <2>4, At0004
  <2>5. CASE r = 5
    BY <2>5, At0005
  <2>6. CASE r = 6
    BY <2>6, At0006
  <2>7. CASE r = 7
    BY <2>7, At0007
  <2>8. CASE r = 8
    BY <2>8, At0008
  <2>9. CASE r = 9
    BY <2>9, At0009
  <2>10. CASE r = 10
    BY <2>10, At0010
  <2>11. CASE r = 11
    BY <2>11, At0011
  <2>12. CASE r = 12
    BY <2>12, At0012
  <2>13. CASE r = 13
    BY <2>13, At0013
  <2>14. CASE r = 14
    BY <2>14, At0014
  <2>15. CASE r = 15
    BY <2>15, At0015
  <2>16. CASE r = 16
    BY <2>16, At0016
  <2>17. CASE r = 17
    BY <2>17, At0017
  <2>18. CASE r = 18
    BY <2>18, At0018
  <2>19. CASE r = 19
    BY <2>19, At0019
  <2>20. CASE r = 20
    BY <2>20, At0020
  <2>21. CASE r = 21
    BY <2>21, At0021
  <2>22. CASE r = 22
    BY <2>22, At0022
  <2>23. CASE r = 23
    BY <2>23, At0023
  <2>24. CASE r = 24
    BY <2>24, At0024
  <2>25. CASE r = 25
    BY <2>25, At0025
  <2>26. CASE r = 26
    BY <2>26, At0026
  <2>27. CASE r = 27
    BY <2>27, At0027
  <2>28. CASE r = 28
    BY <2>28, At0028
  <2>29. QED
    BY <2>1, <2>2, <2>3, <2>4, <2>5, <2>6, <2>7, <2>8, <2>9, <2>10, <2>11, <2>12, <2>13, <2>14,
       <2>15, <2>16, <2>17, <2>18, <2>19, <2>20, <2>21, <2>22, <2>23, <2>24, <2>25, <2>26, <2>27, <2>28
<1>2. ASSUME NEW r \in 1..28
      PROVE  Len(Scripts[r]) \in Nat /\ DOMAIN Scripts[r] = 1..Len(Scripts[r])
  <2>1. Scripts[r] \in Seq({Scripts[r][i] : i \in DOMAIN Scripts[r]})
    BY <1>1 DEF IsScript
  <2>2. QED
    BY <2>1, LenProperties
<1>3. QED
  BY <1>1, <1>2

(* Every table is made by the revision it is born in.                       *)
LEMMA TablesAreMade ==
  ASSUME NEW t, Birth(t) \in 1..28
  PROVE  Table(t) \in CreatedAt(Birth(t))
<1>1. \/ Birth(t) \in {1, 4, 6, 7, 8, 9, 10, 11, 12, 15, 19, 23, 24, 26, 27, 28}
  BY DEF Birth
<1>2. CASE Birth(t) = 1
  <2>1. t \in DomainTables
    BY <1>2 DEF Birth
  <2>2. QED
    BY <1>2, <2>1, At0001 DEF Own, DomainTables
<1>3. CASE Birth(t) = 4
  <2>1. t \in {Streams, Pages}
    BY <1>3 DEF Birth
  <2>2. QED
    BY <1>3, <2>1, At0004 DEF Own
<1>4. CASE Birth(t) = 6
  <2>1. t \in {Captures, Nodes, Messages}
    BY <1>4 DEF Birth
  <2>2. QED
    BY <1>4, <2>1, At0006 DEF Own
<1>5. CASE Birth(t) = 7
  <2>1. t \in {Verifications, BocTransactions}
    BY <1>5 DEF Birth
  <2>2. QED
    BY <1>5, <2>1, At0007 DEF Own
<1>6. CASE Birth(t) = 8
  <2>1. t \in {Ledgers, LedgerRows}
    BY <1>6 DEF Birth
  <2>2. QED
    BY <1>6, <2>1, At0008 DEF Own
<1>7. CASE Birth(t) = 9
  <2>1. t \in {Jettons}
    BY <1>7 DEF Birth
  <2>2. QED
    BY <1>7, <2>1, At0009 DEF Own
<1>8. CASE Birth(t) = 10
  <2>1. t \in {Challenges}
    BY <1>8 DEF Birth
  <2>2. QED
    BY <1>8, <2>1, At0010 DEF Own
<1>9. CASE Birth(t) = 11
  <2>1. t \in {AccountProofs}
    BY <1>9 DEF Birth
  <2>2. QED
    BY <1>9, <2>1, At0011 DEF Own
<1>10. CASE Birth(t) = 12
  <2>1. t \in {Proofs}
    BY <1>10 DEF Birth
  <2>2. QED
    BY <1>10, <2>1, At0012 DEF Own
<1>11. CASE Birth(t) = 15
  <2>1. t \in {Cases, Syncs}
    BY <1>11 DEF Birth
  <2>2. QED
    BY <1>11, <2>1, At0015 DEF Own
<1>12. CASE Birth(t) = 19
  <2>1. t \in {Evidence}
    BY <1>12 DEF Birth
  <2>2. QED
    BY <1>12, <2>1, At0019 DEF Own
<1>13. CASE Birth(t) = 23
  <2>1. t \in {Reports}
    BY <1>13 DEF Birth
  <2>2. QED
    BY <1>13, <2>1, At0023 DEF Own
<1>14. CASE Birth(t) = 24
  <2>1. t \in {Lifecycle}
    BY <1>14 DEF Birth
  <2>2. QED
    BY <1>14, <2>1, At0024 DEF Own
<1>15. CASE Birth(t) = 26
  <2>1. t \in {Catalog}
    BY <1>15 DEF Birth
  <2>2. QED
    BY <1>15, <2>1, At0026 DEF Own
<1>16. CASE Birth(t) = 27
  <2>1. t \in {Manifests}
    BY <1>16 DEF Birth
  <2>2. QED
    BY <1>16, <2>1, At0027 DEF Own
<1>17. CASE Birth(t) = 28
  <2>1. t \in {Checkpoints}
    BY <1>17 DEF Birth
  <2>2. QED
    BY <1>17, <2>1, At0028 DEF Own
<1>18. QED
  BY <1>1, <1>2, <1>3, <1>4, <1>5, <1>6, <1>7, <1>8, <1>9, <1>10, <1>11, <1>12, <1>13, <1>14, <1>15, <1>16, <1>17

(* What a revision drops, an earlier one made.                              *)
LEMMA Drops ==
  ASSUME NEW r \in 1..28, NEW o \in DroppedAt(r)
  PROVE  \/ r = 20 /\ o = Index(Proofs, "boc", 1)
         \/ r = 21 /\ o = Index(Proofs, "trust", 1)
         \/ r = 22 /\ o \in {Trigger(Proofs, "insert", 21), Trigger(Proofs, "update", 21)}
<1>1. CASE r = 1
  BY <1>1, At0001
<1>2. CASE r = 2
  BY <1>2, At0002
<1>3. CASE r = 3
  BY <1>3, At0003
<1>4. CASE r = 4
  BY <1>4, At0004
<1>5. CASE r = 5
  BY <1>5, At0005
<1>6. CASE r = 6
  BY <1>6, At0006
<1>7. CASE r = 7
  BY <1>7, At0007
<1>8. CASE r = 8
  BY <1>8, At0008
<1>9. CASE r = 9
  BY <1>9, At0009
<1>10. CASE r = 10
  BY <1>10, At0010
<1>11. CASE r = 11
  BY <1>11, At0011
<1>12. CASE r = 12
  BY <1>12, At0012
<1>13. CASE r = 13
  BY <1>13, At0013
<1>14. CASE r = 14
  BY <1>14, At0014
<1>15. CASE r = 15
  BY <1>15, At0015
<1>16. CASE r = 16
  BY <1>16, At0016
<1>17. CASE r = 17
  BY <1>17, At0017
<1>18. CASE r = 18
  BY <1>18, At0018
<1>19. CASE r = 19
  BY <1>19, At0019
<1>20. CASE r = 20
  BY <1>20, At0020
<1>21. CASE r = 21
  BY <1>21, At0021
<1>22. CASE r = 22
  BY <1>22, At0022
<1>23. CASE r = 23
  BY <1>23, At0023
<1>24. CASE r = 24
  BY <1>24, At0024
<1>25. CASE r = 25
  BY <1>25, At0025
<1>26. CASE r = 26
  BY <1>26, At0026
<1>27. CASE r = 27
  BY <1>27, At0027
<1>28. CASE r = 28
  BY <1>28, At0028
<1>29. QED
  BY <1>1, <1>2, <1>3, <1>4, <1>5, <1>6, <1>7, <1>8, <1>9, <1>10, <1>11, <1>12, <1>13, <1>14,
     <1>15, <1>16, <1>17, <1>18, <1>19, <1>20, <1>21, <1>22, <1>23, <1>24, <1>25, <1>26, <1>27, <1>28

LEMMA DropsComeLater ==
  ASSUME NEW r \in 1..28, NEW q \in 1..28, NEW o \in CreatedAt(r), o \in DroppedAt(q)
  PROVE  r < q
<1>1. Known(r, o)
  BY EachIsKnown
<1>2. CASE q = 20 /\ o = Index(Proofs, "boc", 1)
  <2>1. o[1] = Proofs /\ o[2] = "index" /\ o[3] = "boc"
    BY <1>2 DEF Index
  <2>2. r = 12
    BY <1>1, <2>1 DEF Known, IndexesMade
  <2>3. QED
    BY <1>2, <2>2
<1>3. CASE q = 21 /\ o = Index(Proofs, "trust", 1)
  <2>1. o[1] = Proofs /\ o[2] = "index" /\ o[3] = "trust"
    BY <1>3 DEF Index
  <2>2. r = 20
    BY <1>1, <2>1 DEF Known, IndexesMade
  <2>3. QED
    BY <1>3, <2>2
<1>4. CASE q = 22 /\ o \in {Trigger(Proofs, "insert", 21), Trigger(Proofs, "update", 21)}
  <2>1. o[2] = "trigger" /\ o[4] = 21
    BY <1>4 DEF Trigger
  <2>2. r = 21
    BY <1>1, <2>1 DEF Known
  <2>3. QED
    BY <1>4, <2>2
<1>5. QED
  BY <1>2, <1>3, <1>4, Drops

-----------------------------------------------------------------------------
(* The schema between two statements of a revision.                         *)
MadeIn(r, m, op) == {Scripts[r][i].object : i \in {j \in 1..m : Scripts[r][j].op = op}}
After(r, m) == (SchemaOf[r - 1] \cup MadeIn(r, m, "create")) \ MadeIn(r, m, "drop")

MadeUpTo(n) == UNION {CreatedAt(r) : r \in 1..n}
DroppedUpTo(n) == UNION {DroppedAt(r) : r \in 1..n}

LEMMA InSchema ==
  ASSUME NEW n \in 0..28
  PROVE  SchemaOf[n] = MadeUpTo(n) \ DroppedUpTo(n)
BY DEF SchemaOf, LastRevision, CreatedAt, DroppedAt, MadeUpTo, DroppedUpTo

LEMMA MembersOfSchema ==
  ASSUME NEW n \in 0..28, NEW o
  PROVE  o \in SchemaOf[n] <=> /\ \E r \in 1..n : o \in CreatedAt(r)
                               /\ \A r \in 1..n : o \notin DroppedAt(r)
<1>1. o \in MadeUpTo(n) <=> \E r \in 1..n : o \in CreatedAt(r)
  BY DEF MadeUpTo
<1>2. o \in DroppedUpTo(n) <=> \E r \in 1..n : o \in DroppedAt(r)
  BY DEF DroppedUpTo
<1>3. o \in SchemaOf[n] <=> o \in MadeUpTo(n) /\ o \notin DroppedUpTo(n)
  BY InSchema
<1>4. QED
  BY <1>1, <1>2, <1>3

LEMMA WholeScript ==
  ASSUME NEW r \in 1..28
  PROVE  /\ MadeIn(r, Len(Scripts[r]), "create") = CreatedAt(r)
         /\ MadeIn(r, Len(Scripts[r]), "drop") = DroppedAt(r)
         /\ \A m \in 0..Len(Scripts[r]) : /\ MadeIn(r, m, "create") \subseteq CreatedAt(r)
                                          /\ MadeIn(r, m, "drop") \subseteq DroppedAt(r)
<1>1. DOMAIN Scripts[r] = 1..Len(Scripts[r]) /\ Len(Scripts[r]) \in Nat
  BY ScriptsAreScripts
<1>2. \A op : Made(Scripts[r], op) = MadeIn(r, Len(Scripts[r]), op)
  BY <1>1 DEF Made, MadeIn
<1>3. \A m \in 0..Len(Scripts[r]) : \A op : MadeIn(r, m, op) \subseteq MadeIn(r, Len(Scripts[r]), op)
  BY <1>1 DEF MadeIn
<1>4. QED
  BY <1>2, <1>3 DEF CreatedAt, DroppedAt

LEMMA BeforeTheFirst ==
  ASSUME NEW r \in 1..28
  PROVE  After(r, 0) = SchemaOf[r - 1]
<1>1. MadeIn(r, 0, "create") = {} /\ MadeIn(r, 0, "drop") = {}
  BY DEF MadeIn
<1>2. QED
  BY <1>1 DEF After

LEMMA AfterTheLast ==
  ASSUME NEW r \in 1..28
  PROVE  After(r, Len(Scripts[r])) = SchemaOf[r]
<1>1. After(r, Len(Scripts[r])) = (SchemaOf[r - 1] \cup CreatedAt(r)) \ DroppedAt(r)
  BY WholeScript DEF After
<1>2. r - 1 \in 0..28 /\ r \in 0..28 /\ 1..r = 1..(r - 1) \cup {r}
  OBVIOUS
<1>3. ASSUME NEW o PROVE o \in SchemaOf[r] <=> o \in After(r, Len(Scripts[r]))
  <2>1. o \in SchemaOf[r] <=> /\ \E q \in 1..r : o \in CreatedAt(q)
                              /\ \A q \in 1..r : o \notin DroppedAt(q)
    BY <1>2, MembersOfSchema
  <2>2. o \in SchemaOf[r - 1] <=> /\ \E q \in 1..(r - 1) : o \in CreatedAt(q)
                                  /\ \A q \in 1..(r - 1) : o \notin DroppedAt(q)
    BY <1>2, MembersOfSchema
  <2>3. o \in CreatedAt(r) => \A q \in 1..(r - 1) : o \notin DroppedAt(q)
    <3>1. SUFFICES ASSUME o \in CreatedAt(r), NEW q \in 1..(r - 1), o \in DroppedAt(q) PROVE FALSE
      OBVIOUS
    <3>2. r < q
      BY <3>1, DropsComeLater
    <3>3. QED
      BY <3>2
  <2>4. QED
    BY <1>1, <1>2, <2>1, <2>2, <2>3
<1>4. QED
  BY <1>3

LEMMA OwnObjectsStay ==
  ASSUME NEW r \in 1..28
  PROVE  CreatedAt(r) \cap DroppedAt(r) = {}
BY DropsComeLater

(* A statement of the script takes the schema one statement further, or     *)
(* changes nothing when an earlier run already got there.                   *)
Moves(r, pc, m) ==
  \E k \in 0..Len(Scripts[r]) :
    /\ k >= pc /\ k >= m
    /\ Scripts[r][pc].op = "create" => After(r, m) \cup {Scripts[r][pc].object} = After(r, k)
    /\ Scripts[r][pc].op = "drop" => After(r, m) \ {Scripts[r][pc].object} = After(r, k)
    /\ Scripts[r][pc].op \notin {"create", "drop"} => After(r, m) = After(r, k)

LEMMA NextStatement ==
  ASSUME NEW r \in 1..28, NEW pc \in 1..Len(Scripts[r]), NEW m \in 0..Len(Scripts[r]), m >= pc - 1
  PROVE  Moves(r, pc, m)
<1> DEFINE s == Scripts[r][pc]
           C == MadeIn(r, m, "create")
           D == MadeIn(r, m, "drop")
<1>1. Len(Scripts[r]) \in Nat
  BY ScriptsAreScripts
<1>2. s.op = "create" => s.object \in CreatedAt(r)
  <2>1. s.op = "create" => s.object \in MadeIn(r, Len(Scripts[r]), "create")
    BY DEF MadeIn
  <2>2. QED
    BY <2>1, WholeScript
<1>3. D \subseteq DroppedAt(r) /\ C \subseteq CreatedAt(r)
  BY WholeScript
<1>4. CASE m >= pc
  <2>1. s.op = "create" => s.object \in C /\ s.object \notin D
    <3>1. s.op = "create" => s.object \in C
      BY <1>4, <1>1 DEF MadeIn
    <3>2. QED
      BY <3>1, <1>3, OwnObjectsStay
  <2>2. s.op = "drop" => s.object \in D
    BY <1>4, <1>1 DEF MadeIn
  <2>3. /\ s.op = "create" => After(r, m) \cup {s.object} = After(r, m)
        /\ s.op = "drop" => After(r, m) \ {s.object} = After(r, m)
    BY <2>1, <2>2 DEF After
  <2>4. m >= m
    BY <1>1
  <2>5. QED
    BY <1>4, <2>3, <2>4 DEF Moves
<1>5. CASE ~(m >= pc)
  <2>1. m = pc - 1 /\ 1..pc = 1..m \cup {pc} /\ pc \notin 1..m /\ pc \in 0..Len(Scripts[r])
    BY <1>5, <1>1
  <2>2. ASSUME NEW op PROVE MadeIn(r, pc, op) = MadeIn(r, m, op) \cup (IF s.op = op THEN {s.object} ELSE {})
    BY <2>1 DEF MadeIn
  <2>3. s.op = "create" => After(r, m) \cup {s.object} = After(r, pc)
    <3>1. s.op = "create" => MadeIn(r, pc, "create") = C \cup {s.object} /\ MadeIn(r, pc, "drop") = D
      BY <2>2
    <3>2. s.op = "create" => s.object \notin D
      BY <1>2, <1>3, OwnObjectsStay
    <3>3. QED
      BY <3>1, <3>2 DEF After
  <2>4. s.op = "drop" => After(r, m) \ {s.object} = After(r, pc)
    <3>1. s.op = "drop" => MadeIn(r, pc, "create") = C /\ MadeIn(r, pc, "drop") = D \cup {s.object}
      BY <2>2
    <3>2. QED
      BY <3>1 DEF After
  <2>5. s.op \notin {"create", "drop"} => After(r, m) = After(r, pc)
    <3>1. s.op \notin {"create", "drop"} => MadeIn(r, pc, "create") = C /\ MadeIn(r, pc, "drop") = D
      BY <2>2
    <3>2. QED
      BY <3>1 DEF After
  <2>6. pc >= m
    BY <2>1
  <2>7. QED
    BY <2>1, <2>3, <2>4, <2>5, <2>6 DEF Moves
<1>6. QED
  BY <1>4, <1>5

-----------------------------------------------------------------------------
(* What a schema contains between two statements.                           *)
LEMMA MembersOfAfter ==
  ASSUME NEW r \in 1..28, NEW m \in 0..Len(Scripts[r]), NEW o \in After(r, m)
  PROVE  \E q \in 1..r : /\ Known(q, o) /\ o \in CreatedAt(q)
                         /\ q = r => o \in MadeIn(r, m, "create")
<1>1. CASE o \in SchemaOf[r - 1]
  <2>1. r - 1 \in 0..28
    OBVIOUS
  <2>2. PICK q \in 1..(r - 1) : o \in CreatedAt(q)
    BY <1>1, <2>1, MembersOfSchema
  <2>3. q \in 1..28 /\ q \in 1..r /\ q # r
    OBVIOUS
  <2>4. Known(q, o)
    BY <2>2, <2>3, EachIsKnown
  <2>5. QED
    BY <2>2, <2>3, <2>4
<1>2. CASE o \in MadeIn(r, m, "create")
  <2>1. o \in CreatedAt(r)
    BY <1>2, WholeScript
  <2>2. Known(r, o)
    BY <2>1, EachIsKnown
  <2>3. QED
    BY <1>2, <2>1, <2>2
<1>3. QED
  BY <1>1, <1>2 DEF After

LEMMA NothingAtFirst == SchemaOf[0] = {}
<1>1. \A o : o \notin SchemaOf[0]
  BY MembersOfSchema
<1>2. QED
  BY <1>1

(* Tables stay, and every object has its table.                             *)
LEMMA TablesOfSchema ==
  ASSUME NEW n \in 0..28, NEW t, Birth(t) \in 1..n
  PROVE  Table(t) \in SchemaOf[n]
<1>1. Table(t) \in CreatedAt(Birth(t))
  BY TablesAreMade
<1>2. ASSUME NEW r \in 1..n, Table(t) \in DroppedAt(r) PROVE FALSE
  <2>1. Table(t)[2] \in {"index", "trigger"}
    BY <1>2, Drops DEF Index, Trigger
  <2>2. QED
    BY <2>1 DEF Table
<1>3. QED
  BY <1>1, <1>2, MembersOfSchema

LEMMA ObjectsHaveTables ==
  ASSUME NEW n \in 0..28, NEW o \in SchemaOf[n]
  PROVE  o[2] \in Kinds /\ Table(o[1]) \in SchemaOf[n]
<1>1. PICK r \in 1..n : o \in CreatedAt(r)
  BY MembersOfSchema
<1>2. Known(r, o)
  BY <1>1, EachIsKnown
<1>3. QED
  BY <1>2, TablesOfSchema DEF Known

LEMMA OlderTables ==
  ASSUME NEW r \in 1..28, NEW m \in 0..Len(Scripts[r]), NEW t, Birth(t) \in 1..(r - 1)
  PROVE  Table(t) \in After(r, m)
<1>1. Table(t) \in SchemaOf[r - 1]
  <2>1. r - 1 \in 0..28
    OBVIOUS
  <2>2. QED
    BY <2>1, TablesOfSchema
<1>2. Table(t) \notin MadeIn(r, m, "drop")
  <2>1. SUFFICES ASSUME Table(t) \in DroppedAt(r) PROVE FALSE
    BY WholeScript
  <2>2. Table(t)[2] \in {"index", "trigger"}
    BY <2>1, Drops DEF Index, Trigger
  <2>3. QED
    BY <2>2 DEF Table
<1>3. QED
  BY <1>1, <1>2 DEF After

LEMMA EarlierRevisions ==
  ASSUME NEW r \in 1..28, NEW p \in 1..(r - 1)
  PROVE  p \in 1..28 /\ p # r
OBVIOUS

(* Objects of an earlier revision are there unless this one drops them.     *)
LEMMA OlderObjects ==
  ASSUME NEW r \in 1..28, NEW m \in 0..Len(Scripts[r]), NEW q \in 1..(r - 1),
         NEW o \in CreatedAt(q), \A p \in 1..28 : o \notin DroppedAt(p)
  PROVE  o \in After(r, m)
<1>1. o \in SchemaOf[r - 1]
  <2>1. r - 1 \in 0..28
    OBVIOUS
  <2>2. \A p \in 1..(r - 1) : o \notin DroppedAt(p)
    <3> TAKE p \in 1..(r - 1)
    <3>1. p \in 1..28
      BY EarlierRevisions
    <3>2. QED
      BY <3>1
  <2>3. QED
    BY <2>1, <2>2, MembersOfSchema
<1>2. o \notin MadeIn(r, m, "drop")
  BY WholeScript
<1>3. QED
  BY <1>1, <1>2 DEF After

(* The schema of a database.                                                *)
LEMMA SchemaOfDatabase ==
  ASSUME NEW v, NEW s
  PROVE  /\ Database(v, s).version = v
         /\ Schema(Database(v, s)) = s
<1>1. /\ Database(v, s).version = v
      /\ Database(v, s).extra = s \ SchemaOf[v]
      /\ Database(v, s).missing = SchemaOf[v] \ s
  BY DEF Database
<1>2. QED
  BY <1>1 DEF Schema

LEMMA StructureMoves ==
  ASSUME NEW s, NEW o
  PROVE  /\ IsDdl(o) => /\ Structure(s \cup {o}) = Structure(s) \cup {o}
                        /\ Structure(s \ {o}) = Structure(s) \ {o}
         /\ o = Rows(o[1]) => Structure(s \cup {o}) = Structure(s)
<1>1. IsDdl(o) => o[2] # "rows"
  BY DEF IsDdl, Kinds
<1>2. o = Rows(o[1]) => o[2] = "rows"
  BY DEF Rows
<1>3. QED
  BY <1>1, <1>2 DEF Structure

LEMMA InStructure ==
  ASSUME NEW s, NEW o, o[2] \in Kinds
  PROVE  o \in s <=> o \in Structure(s)
BY DEF Structure, Kinds

LEMMA TableKind ==
  ASSUME NEW s, NEW t
  PROVE  HasTable(s, t) <=> Table(t) \in Structure(s)
<1>1. Table(t)[2] = "table"
  BY DEF Table
<1>2. QED
  BY <1>1, InStructure DEF HasTable, Kinds

-----------------------------------------------------------------------------
(* The inductive invariant.                                                 *)
IntactTables ==
  {Streams, Pages, Captures, Nodes, Messages, Verifications, BocTransactions, Cases, Syncs,
   Evidence, Reports, Lifecycle, Manifests, Checkpoints}

(* Rows that a later revision would not adopt are not there.                *)
RowsFit(s) == \A t \in IntactTables : Rows(t) \notin s

(* A committed database is that of its version, or an upgrade died in the   *)
(* first revision above it.                                                 *)
Adoptable(db) ==
  /\ db.version \in 0..LastRevision
  /\ RowsFit(Schema(db))
  /\ Rows(Catalog) \in Schema(db) => db.version >= 26
  /\ db.version = 0 => Structure(Schema(db)) = Schema(db)
  /\ db.version < LastRevision =>
       \E m \in 0..Len(Scripts[db.version + 1]) : Structure(Schema(db)) = After(db.version + 1, m)
  /\ db.version = LastRevision => Structure(Schema(db)) = SchemaOf[LastRevision]

(* An upgrade is as far as it was when one died, or further.                *)
Upgrading ==
  /\ run.rev \in 1..run.head /\ mine.version = run.rev - 1
  /\ run.pc \in 0..(Len(Scripts[run.rev]) + 1)
  /\ \E m \in 0..Len(Scripts[run.rev]) :
       /\ m >= run.pc - 1 /\ (run.open /\ run.pc = 0 => m = 0)
       /\ Structure(Schema(mine)) = After(run.rev, m)
  /\ RowsFit(Schema(mine))
  /\ Rows(Catalog) \in Schema(mine) =>
       \/ run.rev > 26
       \/ run.rev = 26 /\ run.pc > 3 /\ run.open
  /\ run.rev = 1 /\ run.pc = 0 => Absent(Schema(mine), DomainTables)
  /\ run.rev = 17 /\ run.pc > 12 /\ data # "none" => LegacyActiveRows \in Schema(mine)

Checking ==
  /\ mine.version = run.head
  /\ \/ mine = disk
     \/ /\ Structure(Schema(mine)) = SchemaOf[run.head]
        /\ RowsFit(Schema(mine))
        /\ Rows(Catalog) \in Schema(mine) => run.head >= 26

IsRun(u) == u = [at |-> u.at, head |-> u.head, rev |-> u.rev, pc |-> u.pc,
                 open |-> u.open, why |-> u.why]

UpgradeInv ==
  /\ Adoptable(disk)
  /\ IsRun(run) /\ run.open \in BOOLEAN
  /\ ~run.open => mine = disk
  /\ run.at \in {"idle", "upgrading", "checking", "serving", "refused"}
  /\ run.at \in {"idle", "serving", "refused"} => mine = disk
  /\ run.at \in {"upgrading", "checking"} => run.head \in 1..LastRevision
  /\ run.at = "upgrading" => Upgrading
  /\ run.at = "checking" => Checking
  /\ InterruptedUpgradeResumes

-----------------------------------------------------------------------------
(* Where a statement stands in its script.                                  *)
BothIn(a, b, c) ==
  /\ Len(a) \in Nat /\ Len(b) \in Nat
  /\ Len(c) = Len(a) + Len(b)
  /\ \A i \in 1..Len(a) : c[i] = a[i]
  /\ \A i \in 1..Len(b) : c[Len(a) + i] = b[i]

LEMMA Joined ==
  ASSUME NEW a, NEW b, IsScript(a), IsScript(b)
  PROVE  BothIn(a, b, a \o b)
<1> DEFINE A == {a[i] : i \in DOMAIN a}
           B == {b[i] : i \in DOMAIN b}
<1>1. a \in Seq(A) /\ b \in Seq(B)
  BY DEF IsScript
<1> HIDE DEF A, B
<1>2. a \in Seq(A \cup B) /\ b \in Seq(A \cup B)
  BY <1>1, SeqMonotonic
<1>3. Len(a) \in Nat /\ Len(b) \in Nat
  BY <1>1, LenProperties
<1>4. /\ Len(a \o b) = Len(a) + Len(b)
      /\ \A i \in 1..(Len(a) + Len(b)) : (a \o b)[i] = IF i <= Len(a) THEN a[i] ELSE b[i - Len(a)]
  BY <1>2, ConcatProperties
<1>5. ASSUME NEW i \in 1..Len(a) PROVE (a \o b)[i] = a[i]
  BY <1>3, <1>4
<1>6. ASSUME NEW i \in 1..Len(b) PROVE (a \o b)[Len(a) + i] = b[i]
  <2>1. Len(a) + i \in 1..(Len(a) + Len(b)) /\ ~(Len(a) + i <= Len(a)) /\ (Len(a) + i) - Len(a) = i
    BY <1>3
  <2>2. QED
    BY <2>1, <1>4
<1>7. QED
  BY <1>3, <1>4, <1>5, <1>6 DEF BothIn

LEMMA ColumnsAt ==
  ASSUME NEW t, NEW group, NEW n \in Nat
  PROVE  /\ IsScript(Columns(t, group, n))
         /\ Len(Columns(t, group, n)) = n
         /\ \A i \in 1..n : Columns(t, group, n)[i] = Create(Column(t, group, i))
<1>1. IsScript(Columns(t, group, n))
  BY MakesColumns DEF Makes
<1>2. QED
  BY <1>1 DEF Columns

LEMMA NewTableAt ==
  ASSUME NEW t, NEW n \in Nat
  PROVE  /\ IsScript(NewTable(t, n))
         /\ Len(NewTable(t, n)) = n + 1
         /\ NewTable(t, n)[1] = Create(Table(t))
<1> DEFINE a == <<Create(Table(t))>>
           b == Indexes(t, "own", n)
<1>1. IsScript(NewTable(t, n))
  BY MakesTable DEF Makes
<1>2. IsScript(a)
  BY MakesOne, ObjectsAreDdl DEF Makes
<1>3. IsScript(b)
  BY MakesIndexes DEF Makes
<1>4. Len(a) = 1 /\ a[1] = Create(Table(t))
  OBVIOUS
<1>5. Len(b) = n
  BY DEF Indexes
<1> HIDE DEF a, b
<1>6. /\ Len(a \o b) = Len(a) + Len(b)
      /\ \A i \in 1..Len(a) : (a \o b)[i] = a[i]
  BY <1>2, <1>3, Joined DEF BothIn
<1>7. NewTable(t, n) = a \o b
  BY DEF NewTable, a, b
<1>8. QED
  BY <1>1, <1>4, <1>5, <1>6, <1>7

(* The tables that others refer to come first.                              *)
LEMMA FirstTable ==
  ASSUME NEW t, NEW n \in Nat, NEW b, IsScript(b)
  PROVE  (NewTable(t, n) \o b)[1] = Create(Table(t))
<1>1. /\ IsScript(NewTable(t, n)) /\ Len(NewTable(t, n)) = n + 1
      /\ NewTable(t, n)[1] = Create(Table(t))
  BY NewTableAt
<1>2. 1 \in 1..Len(NewTable(t, n))
  BY <1>1
<1>3. QED
  BY <1>1, <1>2, Joined DEF BothIn

LEMMA FirstStatements ==
  /\ Scripts[4][1] = Create(Table(Streams))
  /\ Scripts[7][1] = Create(Table(Verifications))
  /\ Scripts[15][1] = Create(Table(Cases))
<1>1. Upgrade0004[1] = Create(Table(Streams))
  BY FirstTable, NewTableAt DEF Upgrade0004
<1>2. Upgrade0007[1] = Create(Table(Verifications))
  BY FirstTable, NewTableAt DEF Upgrade0007
<1>3. Upgrade0015[1] = Create(Table(Cases))
  BY FirstTable, NewTableAt DEF Upgrade0015
<1>4. QED
  BY <1>1, <1>2, <1>3, ScriptsAre

LEMMA TraceTablesInOrder ==
  /\ Scripts[6][1] = Create(Table(Captures))
  /\ Scripts[6][5] = Create(Table(Nodes))
  /\ \A i \in 1..8 : Scripts[6][i].object # Table(Messages)
<1> DEFINE a == NewTable(Captures, 3)
           b == NewTable(Nodes, 3)
           c == NewTable(Messages, 3)
           ab == a \o b
<1>1. /\ IsScript(a) /\ Len(a) = 4 /\ a[1] = Create(Table(Captures))
      /\ IsScript(b) /\ Len(b) = 4 /\ b[1] = Create(Table(Nodes))
      /\ IsScript(c)
  <2>1. IsScript(a) /\ Len(a) = 3 + 1 /\ a[1] = Create(Table(Captures))
    BY NewTableAt
  <2>2. IsScript(b) /\ Len(b) = 3 + 1 /\ b[1] = Create(Table(Nodes))
    BY NewTableAt
  <2>3. IsScript(c)
    BY NewTableAt
  <2> HIDE DEF a, b, c
  <2>4. QED
    BY <2>1, <2>2, <2>3
<1>2. Makes(a, Own(Captures, 3), {}, {}) /\ Makes(b, Own(Nodes, 3), {}, {})
  BY MakesTable
<1> HIDE DEF a, b, c
<1>3. Makes(ab, Own(Captures, 3) \cup Own(Nodes, 3), {}, {})
  BY <1>2, MakesMore
<1>4. Len(ab) = 8 /\ ab[1] = a[1] /\ ab[5] = b[1]
  <2>1. BothIn(a, b, ab)
    BY <1>1, Joined
  <2> HIDE DEF ab
  <2>2. ab[4 + 1] = b[1] /\ 4 + 1 = 5
    BY <1>1, <2>1 DEF BothIn
  <2>3. QED
    BY <1>1, <2>1, <2>2 DEF BothIn
<1>5. IsScript(ab)
  BY <1>3 DEF Makes
<1> HIDE DEF ab
<1>6. \A i \in 1..8 : (ab \o c)[i] = ab[i]
  <2>1. \A i \in 1..Len(ab) : (ab \o c)[i] = ab[i]
    BY <1>1, <1>5, Joined DEF BothIn
  <2>2. QED
    BY <1>4, <2>1
<1>7. ASSUME NEW i \in 1..8 PROVE ab[i].object # Table(Messages)
  <2>1. i \in DOMAIN ab
    <3>1. ab \in Seq({ab[j] : j \in DOMAIN ab})
      BY <1>5 DEF IsScript
    <3>2. DOMAIN ab = 1..8
      BY <3>1, <1>4, LenProperties
    <3>3. QED
      BY <3>2
  <2>2. ab[i].op \in {"create", "drop"}
    BY <2>1, <1>3 DEF Makes, Rest
  <2>3. ab[i].object \in Own(Captures, 3) \cup Own(Nodes, 3)
    BY <2>1, <2>2, <1>3 DEF Makes, Made
  <2>4. QED
    BY <2>3 DEF Own, Table, Index, Captures, Nodes, Messages
<1>8. Scripts[6] = ab \o c
  BY ScriptsAre DEF Upgrade0006, ab, a, b, c
<1> DEFINE six == ab \o c
<1> HIDE DEF six
<1>9. \A i \in 1..8 : six[i] = ab[i]
  BY <1>6 DEF six
<1>10. Scripts[6] = six
  BY <1>8 DEF six
<1>11. QED
  BY <1>1, <1>4, <1>7, <1>9, <1>10

-----------------------------------------------------------------------------
(* What a preflight finds.                                                  *)
LEMMA Found ==
  ASSUME NEW r \in 1..28, NEW m \in 0..Len(Scripts[r]), NEW s, Structure(s) = After(r, m),
         NEW o \in s, o[2] \in Kinds
  PROVE  \E q \in 1..r : /\ Known(q, o) /\ o \in CreatedAt(q)
                         /\ q = r => o \in MadeIn(r, m, "create")
<1>1. o \in After(r, m)
  BY InStructure
<1>2. QED
  BY <1>1, MembersOfAfter

LEMMA HasOlder ==
  ASSUME NEW r \in 1..28, NEW m \in 0..Len(Scripts[r]), NEW s, Structure(s) = After(r, m),
         NEW t, Birth(t) \in 1..(r - 1)
  PROVE  HasTable(s, t)
BY OlderTables, TableKind

Stable(o) == o[2] \in {"table", "column"}

LEMMA TablesStay ==
  ASSUME NEW r \in 1..28, NEW o, Stable(o)
  PROVE  o \notin DroppedAt(r)
<1>1. o \in DroppedAt(r) => o[2] \in {"index", "trigger"}
  BY Drops DEF Index, Trigger
<1>2. QED
  BY <1>1 DEF Stable

LEMMA TablesStayIn ==
  ASSUME NEW r \in 1..28, NEW m \in 0..Len(Scripts[r]), NEW o, Stable(o)
  PROVE  o \notin MadeIn(r, m, "drop")
<1>1. MadeIn(r, m, "drop") \subseteq DroppedAt(r)
  BY WholeScript
<1>2. o \notin DroppedAt(r)
  BY TablesStay
<1>3. QED
  BY <1>1, <1>2

LEMMA HasMade ==
  ASSUME NEW r \in 1..28, NEW m \in 0..Len(Scripts[r]), NEW s, Structure(s) = After(r, m),
         NEW t, Birth(t) = r
  PROVE  HasTable(s, t) <=> Table(t) \in MadeIn(r, m, "create")
<1>1. Table(t)[1] = t /\ Table(t)[2] = "table"
  BY DEF Table
<1>2. ASSUME HasTable(s, t) PROVE Table(t) \in MadeIn(r, m, "create")
  <2>1. Table(t) \in s
    BY <1>2 DEF HasTable
  <2>2. PICK q \in 1..r : /\ Known(q, Table(t))
                          /\ q = r => Table(t) \in MadeIn(r, m, "create")
    BY <1>1, <2>1, Found DEF Kinds
  <2>3. q = r
    BY <1>1, <2>2 DEF Known
  <2>4. QED
    BY <2>2, <2>3
<1>3. ASSUME Table(t) \in MadeIn(r, m, "create") PROVE HasTable(s, t)
  <2>1. Table(t) \notin MadeIn(r, m, "drop")
    <3>1. Stable(Table(t))
      BY <1>1 DEF Stable
    <3>2. QED
      BY <3>1, TablesStayIn
  <2>2. Table(t) \in After(r, m)
    BY <1>3, <2>1 DEF After
  <2>3. QED
    BY <2>2, TableKind
<1>4. QED
  BY <1>2, <1>3

LEMMA LacksUnmade ==
  ASSUME NEW r \in 1..28, NEW s, Structure(s) = After(r, 0), NEW t, Birth(t) = r
  PROVE  ~HasTable(s, t)
<1>1. 0 \in 0..Len(Scripts[r])
  <2>1. Len(Scripts[r]) \in Nat
    BY ScriptsAreScripts
  <2>2. QED
    BY <2>1
<1>2. MadeIn(r, 0, "create") = {}
  BY DEF MadeIn
<1>3. QED
  BY <1>1, <1>2, HasMade

(* A parent table comes first.                                              *)
LEMMA ParentIsFirst ==
  ASSUME NEW r \in 1..28, NEW m \in 0..Len(Scripts[r]), NEW s, Structure(s) = After(r, m),
         NEW parent, Birth(parent) = r, NEW child, Birth(child) = r,
         NEW k \in Nat, k >= 1, Scripts[r][k] = Create(Table(parent)),
         \A i \in 1..(k - 1) : Scripts[r][i].object # Table(child)
  PROVE  ParentFirst(s, parent, child)
<1>1. Len(Scripts[r]) \in Nat
  BY ScriptsAreScripts
<1>2. SUFFICES ASSUME HasTable(s, child) PROVE HasTable(s, parent)
  BY DEF ParentFirst
<1>3. Table(child) \in MadeIn(r, m, "create")
  BY <1>2, HasMade
<1>4. PICK i \in 1..m : Scripts[r][i].object = Table(child)
  BY <1>3 DEF MadeIn
<1>5. k \in 1..m
  BY <1>1, <1>4
<1>6. Scripts[r][k].op = "create" /\ Scripts[r][k].object = Table(parent)
  BY DdlStatements
<1>7. Table(parent) \in MadeIn(r, m, "create")
  BY <1>5, <1>6 DEF MadeIn
<1>8. QED
  BY <1>7, HasMade

(* Columns.                                                                 *)
LEMMA ColumnKind ==
  ASSUME NEW t, NEW group, NEW i
  PROVE  /\ Column(t, group, i)[1] = t /\ Column(t, group, i)[2] = "column"
         /\ Column(t, group, i)[3] = group /\ Column(t, group, i)[4] = i
BY DEF Column

LEMMA InColumns ==
  ASSUME NEW s, NEW t, NEW group, NEW x
  PROVE  x \in ColumnsOf(s, t, group) <=>
           \E o \in s : o[1] = t /\ o[2] = "column" /\ o[3] = group /\ o[4] = x
BY DEF ColumnsOf, Of

LEMMA ColumnsFound ==
  ASSUME NEW r \in 1..28, NEW m \in 0..Len(Scripts[r]), NEW s, Structure(s) = After(r, m),
         NEW o \in s, o[2] = "column"
  PROVE  \E q \in 1..r : /\ <<q, o[1], o[3]>> \in ColumnsMade /\ o = Column(o[1], o[3], o[4])
                         /\ o \in CreatedAt(q)
                         /\ q = r => o \in MadeIn(r, m, "create")
<1>1. o[2] \in Kinds
  BY DEF Kinds
<1>2. PICK q \in 1..r : /\ Known(q, o) /\ o \in CreatedAt(q)
                        /\ q = r => o \in MadeIn(r, m, "create")
  BY <1>1, Found
<1>3. QED
  BY <1>2 DEF Known

(* The columns of a group come first in the script of revision r, and no    *)
(* other revision has any.                                                  *)
ColumnsFirst(r, t, group, n) ==
  /\ n <= Len(Scripts[r])
  /\ \A i \in 1..n : Scripts[r][i] = Create(Column(t, group, i))
  /\ \A i \in 1..Len(Scripts[r]) :
       Scripts[r][i].op = "create" /\ Scripts[r][i].object[2] = "column" => i <= n
OnlyAt(r, t, group) == \A q \in 1..28 : <<q, t, group>> \in ColumnsMade => q = r

LEMMA ColumnPrefix ==
  ASSUME NEW r \in 1..28, NEW t, NEW group, NEW n \in Nat,
         ColumnsFirst(r, t, group, n), OnlyAt(r, t, group),
         NEW m \in 0..Len(Scripts[r]), NEW s, Structure(s) = After(r, m)
  PROVE  ColumnsOf(s, t, group) = 1..(IF m <= n THEN m ELSE n)
<1>1. Len(Scripts[r]) \in Nat
  BY ScriptsAreScripts
<1>2. ASSUME NEW x \in ColumnsOf(s, t, group) PROVE x \in 1..(IF m <= n THEN m ELSE n)
  <2>1. PICK o \in s : o[1] = t /\ o[2] = "column" /\ o[3] = group /\ o[4] = x
    BY InColumns
  <2>2. PICK q \in 1..r : /\ <<q, o[1], o[3]>> \in ColumnsMade
                          /\ q = r => o \in MadeIn(r, m, "create")
    BY <2>1, ColumnsFound
  <2>3. q \in 1..28
    OBVIOUS
  <2>4. o \in MadeIn(r, m, "create")
    BY <2>1, <2>2, <2>3 DEF OnlyAt
  <2>5. PICK i \in 1..m : Scripts[r][i].op = "create" /\ Scripts[r][i].object = o
    BY <2>4 DEF MadeIn
  <2>6. i <= n /\ i \in 1..n
    BY <1>1, <2>1, <2>5 DEF ColumnsFirst
  <2>7. o = Column(t, group, i)
    BY <2>5, <2>6, DdlStatements DEF ColumnsFirst
  <2>8. x = i
    BY <2>1, <2>7, ColumnKind
  <2>9. QED
    BY <2>6, <2>8
<1>3. ASSUME NEW x \in 1..(IF m <= n THEN m ELSE n) PROVE x \in ColumnsOf(s, t, group)
  <2>1. x \in 1..n /\ x \in 1..m
    BY <1>1
  <2> DEFINE o == Column(t, group, x)
  <2>2. Scripts[r][x].op = "create" /\ Scripts[r][x].object = o
    BY <2>1, DdlStatements DEF ColumnsFirst
  <2>3. o[1] = t /\ o[2] = "column" /\ o[3] = group /\ o[4] = x
    BY ColumnKind
  <2> HIDE DEF o
  <2>4. o \in MadeIn(r, m, "create")
    BY <2>1, <2>2 DEF MadeIn
  <2>5. o \notin MadeIn(r, m, "drop")
    <3>1. Stable(o)
      BY <2>3 DEF Stable
    <3>2. QED
      BY <3>1, TablesStayIn
  <2>6. o \in s
    <3>1. o \in After(r, m)
      BY <2>4, <2>5 DEF After
    <3>2. QED
      BY <2>3, <3>1, InStructure DEF Kinds
  <2>7. QED
    BY <2>3, <2>6, InColumns
<1>4. QED
  BY <1>2, <1>3

ColumnsWhole(r, t, group, n) ==
  /\ ColumnSet(t, group, n) \subseteq CreatedAt(r)
  /\ \A o \in CreatedAt(r) : o[1] = t /\ o[2] = "column" /\ o[3] = group => o[4] \in 1..n

LEMMA ColumnsLater ==
  ASSUME NEW r \in 1..28, NEW q \in 1..(r - 1), NEW t, NEW group, NEW n \in Nat,
         ColumnsWhole(q, t, group, n), OnlyAt(q, t, group),
         NEW m \in 0..Len(Scripts[r]), NEW s, Structure(s) = After(r, m)
  PROVE  ColumnsOf(s, t, group) = 1..n
<1>1. ASSUME NEW x \in ColumnsOf(s, t, group) PROVE x \in 1..n
  <2>1. PICK o \in s : o[1] = t /\ o[2] = "column" /\ o[3] = group /\ o[4] = x
    BY InColumns
  <2>2. PICK p \in 1..r : <<p, o[1], o[3]>> \in ColumnsMade /\ o \in CreatedAt(p)
    BY <2>1, ColumnsFound
  <2>3. p \in 1..28
    OBVIOUS
  <2>4. p = q
    BY <2>1, <2>2, <2>3 DEF OnlyAt
  <2>5. QED
    BY <2>1, <2>2, <2>4 DEF ColumnsWhole
<1>2. ASSUME NEW x \in 1..n PROVE x \in ColumnsOf(s, t, group)
  <2> DEFINE o == Column(t, group, x)
  <2>1. o \in CreatedAt(q)
    BY DEF ColumnSet, ColumnsWhole
  <2>2. o[1] = t /\ o[2] = "column" /\ o[3] = group /\ o[4] = x
    BY ColumnKind
  <2> HIDE DEF o
  <2>3. \A p \in 1..28 : o \notin DroppedAt(p)
    <3>1. Stable(o)
      BY <2>2 DEF Stable
    <3>2. QED
      BY <3>1, TablesStay
  <2>4. o \in After(r, m)
    BY <2>1, <2>3, OlderObjects
  <2>5. o \in s
    BY <2>2, <2>4, InStructure DEF Kinds
  <2>6. QED
    BY <2>2, <2>5, InColumns
<1>3. QED
  BY <1>1, <1>2

LEMMA FirstParent ==
  ASSUME NEW r \in 1..28, NEW m \in 0..Len(Scripts[r]), NEW s, Structure(s) = After(r, m),
         NEW parent, Birth(parent) = r, NEW child, Birth(child) = r,
         Scripts[r][1] = Create(Table(parent))
  PROVE  ParentFirst(s, parent, child)
<1>1. \A i \in 1..(1 - 1) : Scripts[r][i].object # Table(child)
  OBVIOUS
<1>2. 1 \in Nat /\ 1 >= 1
  OBVIOUS
<1>3. QED
  BY <1>1, <1>2, ParentIsFirst, Zenon

(* What revision r finds: the objects up to statement m of an upgrade that  *)
(* died, and no rows but those of earlier revisions.                        *)
Meets(r, m, s) ==
  /\ Structure(s) = After(r, m)
  /\ RowsFit(s)
  /\ r <= 26 => Rows(Catalog) \notin s

LEMMA NoRowsMet ==
  ASSUME NEW r, NEW m, NEW s, Meets(r, m, s), NEW ts, ts \subseteq IntactTables
  PROVE  Unpopulated(s, ts)
BY DEF Meets, RowsFit, Unpopulated

Older(r, ts) == \A t \in ts : Birth(t) \in 1..(r - 1)
Newest(r, ts) == \A t \in ts : Birth(t) = r
HasEvery(s, ts) == \A t \in ts : HasTable(s, t)

LEMMA HasAll ==
  ASSUME NEW r \in 1..28, NEW m \in 0..Len(Scripts[r]), NEW s, Meets(r, m, s), NEW ts,
         Older(r, ts)
  PROVE  HasEvery(s, ts)
<1>1. Structure(s) = After(r, m)
  BY DEF Meets
<1>2. QED
  BY <1>1, HasOlder DEF Older, HasEvery

LEMMA HasNone ==
  ASSUME NEW r \in 1..28, NEW s, Meets(r, 0, s), NEW ts, Newest(r, ts)
  PROVE  Absent(s, ts)
<1>1. Structure(s) = After(r, 0)
  BY DEF Meets
<1>2. QED
  BY <1>1, LacksUnmade DEF Newest, Absent

LEMMA Adopts0002 ==
  ASSUME NEW m \in 0..Len(Scripts[2]), NEW s, Meets(2, m, s)
  PROVE  Adopts(2, s)
<1>1. Older(2, {Runs})
  <2>1. Birth(Runs) = 1
    BY Births
  <2>2. QED
    BY <2>1 DEF Older
<1>2. HasEvery(s, {Runs})
  BY <1>1, HasAll
<1>3. QED
  BY <1>2 DEF Adopts, HasEvery

LEMMA Adopts0003 ==
  ASSUME NEW m \in 0..Len(Scripts[3]), NEW s, Meets(3, m, s)
  PROVE  Adopts(3, s)
<1>1. Older(3, {Transactions})
  <2>1. Birth(Transactions) = 1
    BY Births
  <2>2. QED
    BY <2>1 DEF Older
<1>2. HasEvery(s, {Transactions})
  BY <1>1, HasAll
<1>3. QED
  BY <1>2 DEF Adopts, HasEvery

LEMMA Adopts0004 ==
  ASSUME NEW m \in 0..Len(Scripts[4]), NEW s, Meets(4, m, s)
  PROVE  Adopts(4, s)
<1>1. ParentFirst(s, Streams, Pages)
  BY FirstParent, FirstStatements, Births DEF Meets
<1>2. Unpopulated(s, {Streams, Pages})
  BY NoRowsMet DEF IntactTables
<1>3. QED
  BY <1>1, <1>2 DEF Adopts, Retry0004, Intact0004

LEMMA Adopts0006 ==
  ASSUME NEW m \in 0..Len(Scripts[6]), NEW s, Meets(6, m, s)
  PROVE  Adopts(6, s)
<1>1. ParentFirst(s, Captures, Nodes)
  BY FirstParent, TraceTablesInOrder, Births DEF Meets
<1>2. ParentFirst(s, Nodes, Messages)
  <2>1. \A i \in 1..(5 - 1) : Scripts[6][i].object # Table(Messages)
    BY TraceTablesInOrder
  <2>2. 5 \in Nat /\ 5 >= 1 /\ 6 \in 1..28
    OBVIOUS
  <2>3. Scripts[6][5] = Create(Table(Nodes)) /\ Birth(Nodes) = 6 /\ Birth(Messages) = 6
    BY TraceTablesInOrder, Births
  <2>4. Structure(s) = After(6, m)
    BY DEF Meets
  <2>5. QED
    BY <2>1, <2>2, <2>3, <2>4, ParentIsFirst, Zenon
<1>3. Unpopulated(s, {Captures, Nodes, Messages})
  BY NoRowsMet DEF IntactTables
<1>4. QED
  BY <1>1, <1>2, <1>3 DEF Adopts, Retry0006, Intact0006

LEMMA Adopts0007 ==
  ASSUME NEW m \in 0..Len(Scripts[7]), NEW s, Meets(7, m, s)
  PROVE  Adopts(7, s)
<1>1. Older(7, {Captures, Nodes, Messages})
  <2>1. Birth(Captures) = 6 /\ Birth(Nodes) = 6 /\ Birth(Messages) = 6
    BY Births
  <2>2. QED
    BY <2>1 DEF Older
<1>2. HasEvery(s, {Captures, Nodes, Messages})
  BY <1>1, HasAll
<1>3. ParentFirst(s, Verifications, BocTransactions)
  BY FirstParent, FirstStatements, Births DEF Meets
<1>4. Unpopulated(s, {Verifications, BocTransactions})
  BY NoRowsMet DEF IntactTables
<1>5. QED
  BY <1>2, <1>3, <1>4 DEF Adopts, Retry0007, Intact0007, HasEvery

LEMMA Adopts0008 ==
  ASSUME NEW s, Meets(8, 0, s)
  PROVE  Adopts(8, s)
<1>0. 0 \in 0..Len(Scripts[8])
  BY ScriptsAreScripts
<1>1. Older(8, {Captures, Verifications, BocTransactions})
  <2>1. Birth(Captures) = 6 /\ Birth(Verifications) = 7 /\ Birth(BocTransactions) = 7
    BY Births
  <2>2. QED
    BY <2>1 DEF Older
<1>2. HasEvery(s, {Captures, Verifications, BocTransactions})
  BY <1>0, <1>1, HasAll
<1>3. Absent(s, {Ledgers, LedgerRows})
  <2>1. Newest(8, {Ledgers, LedgerRows})
    BY Births DEF Newest
  <2>2. QED
    BY <2>1, HasNone
<1>4. QED
  BY <1>2, <1>3 DEF Adopts, Retry0008, HasEvery

LEMMA Adopts0009 ==
  ASSUME NEW s, Meets(9, 0, s)
  PROVE  Adopts(9, s)
<1>0. 0 \in 0..Len(Scripts[9])
  BY ScriptsAreScripts
<1>1. Older(9, {Runs, Balances})
  <2>1. Birth(Runs) = 1 /\ Birth(Balances) = 1
    BY Births
  <2>2. QED
    BY <2>1 DEF Older
<1>2. HasEvery(s, {Runs, Balances})
  BY <1>0, <1>1, HasAll
<1>3. Absent(s, {Jettons})
  <2>1. Newest(9, {Jettons})
    BY Births DEF Newest
  <2>2. QED
    BY <2>1, HasNone
<1>4. QED
  BY <1>2, <1>3 DEF Adopts, Retry0009, HasEvery

LEMMA Adopts0010 ==
  ASSUME NEW s, Meets(10, 0, s)
  PROVE  Adopts(10, s)
<1>0. 0 \in 0..Len(Scripts[10])
  BY ScriptsAreScripts
<1>1. Absent(s, {Challenges})
  <2>1. Newest(10, {Challenges})
    BY Births DEF Newest
  <2>2. QED
    BY <2>1, HasNone
<1>2. QED
  BY <1>1 DEF Adopts, Retry0010

LEMMA Adopts0011 ==
  ASSUME NEW s, Meets(11, 0, s)
  PROVE  Adopts(11, s)
<1>0. 0 \in 0..Len(Scripts[11])
  BY ScriptsAreScripts
<1>1. Absent(s, {AccountProofs})
  <2>1. Newest(11, {AccountProofs})
    BY Births DEF Newest
  <2>2. QED
    BY <2>1, HasNone
<1>2. QED
  BY <1>1 DEF Adopts, Retry0011

LEMMA Adopts0012 ==
  ASSUME NEW s, Meets(12, 0, s)
  PROVE  Adopts(12, s)
<1>0. 0 \in 0..Len(Scripts[12])
  BY ScriptsAreScripts
<1>1. Absent(s, {Proofs})
  <2>1. Newest(12, {Proofs})
    BY Births DEF Newest
  <2>2. QED
    BY <2>1, HasNone
<1>2. QED
  BY <1>1 DEF Adopts, Retry0012

LEMMA Adopts0013 ==
  ASSUME NEW s, Meets(13, 0, s)
  PROVE  Adopts(13, s)
<1>0. 0 \in 0..Len(Scripts[13])
  BY ScriptsAreScripts
<1>1. "dex_protocol" \notin ColumnGroups(s, Swaps)
  <2>1. SUFFICES ASSUME NEW o \in s, o[1] = Swaps, o[2] = "column", o[3] = "dex_protocol" PROVE FALSE
    BY DEF ColumnGroups, Of
  <2>2. PICK q \in 1..13 : /\ <<q, o[1], o[3]>> \in ColumnsMade
                           /\ q = 13 => o \in MadeIn(13, 0, "create")
    <3>1. Structure(s) = After(13, 0) /\ 13 \in 1..28
      BY DEF Meets
    <3>2. QED
      BY <1>0, <2>1, <3>1, ColumnsFound
  <2>3. q = 13
    <3>1. <<q, Swaps, "dex_protocol">> \in ColumnsMade
      BY <2>1, <2>2
    <3>2. QED
      BY <3>1 DEF ColumnsMade
  <2>4. MadeIn(13, 0, "create") = {}
    BY DEF MadeIn
  <2>5. o \in MadeIn(13, 0, "create")
    BY <2>2, <2>3
  <2>6. QED
    BY <2>4, <2>5
<1>2. QED
  BY <1>1 DEF Adopts, Retry0013

LEMMA Adopts0014 ==
  ASSUME NEW s, Meets(14, 0, s)
  PROVE  Adopts(14, s)
<1>0. 0 \in 0..Len(Scripts[14])
  BY ScriptsAreScripts
<1>1. Older(14, {Challenges})
  <2>1. Birth(Challenges) = 10
    BY Births
  <2>2. QED
    BY <2>1 DEF Older
<1>2. HasEvery(s, {Challenges})
  BY <1>0, <1>1, HasAll
<1>3. "network" \notin ColumnGroups(s, Challenges)
  <2>1. SUFFICES ASSUME NEW o \in s, o[1] = Challenges, o[2] = "column", o[3] = "network" PROVE FALSE
    BY DEF ColumnGroups, Of
  <2>2. PICK q \in 1..14 : /\ <<q, o[1], o[3]>> \in ColumnsMade
                           /\ q = 14 => o \in MadeIn(14, 0, "create")
    <3>1. Structure(s) = After(14, 0) /\ 14 \in 1..28
      BY DEF Meets
    <3>2. QED
      BY <1>0, <2>1, <3>1, ColumnsFound
  <2>3. q = 14
    <3>1. <<q, Challenges, "network">> \in ColumnsMade
      BY <2>1, <2>2
    <3>2. QED
      BY <3>1 DEF ColumnsMade
  <2>4. MadeIn(14, 0, "create") = {}
    BY DEF MadeIn
  <2>5. o \in MadeIn(14, 0, "create")
    BY <2>2, <2>3
  <2>6. QED
    BY <2>4, <2>5
<1>4. QED
  BY <1>2, <1>3 DEF Adopts, Retry0014, HasEvery

LEMMA Adopts0015 ==
  ASSUME NEW m \in 0..Len(Scripts[15]), NEW s, Meets(15, m, s)
  PROVE  Adopts(15, s)
<1>1. Older(15, {Runs})
  <2>1. Birth(Runs) = 1
    BY Births
  <2>2. QED
    BY <2>1 DEF Older
<1>2. HasEvery(s, {Runs})
  BY <1>1, HasAll
<1>3. ParentFirst(s, Cases, Syncs)
  BY FirstParent, FirstStatements, Births DEF Meets
<1>4. Unpopulated(s, {Cases, Syncs})
  BY NoRowsMet DEF IntactTables
<1>5. QED
  BY <1>2, <1>3, <1>4 DEF Adopts, Retry0015, Intact0015, HasEvery

LEMMA Adopts0018 ==
  ASSUME NEW m \in 0..Len(Scripts[18]), NEW s, Meets(18, m, s)
  PROVE  Adopts(18, s)
<1>1. Older(18, {Syncs, Transactions, Transfers, Swaps})
  <2>1. Birth(Syncs) = 15 /\ Birth(Transactions) = 1 /\ Birth(Transfers) = 1 /\ Birth(Swaps) = 1
    BY Births
  <2>2. QED
    BY <2>1 DEF Older
<1>2. HasEvery(s, {Syncs, Transactions, Transfers, Swaps})
  BY <1>1, HasAll
<1>3. ToSet(ActivityTables) = {Syncs, Transactions, Transfers, Swaps}
  BY DEF ToSet, ActivityTables
<1>4. QED
  BY <1>2, <1>3 DEF Adopts, Retry0018, HasEvery

LEMMA Adopts0019 ==
  ASSUME NEW m \in 0..Len(Scripts[19]), NEW s, Meets(19, m, s)
  PROVE  Adopts(19, s)
<1>1. Older(19, {Cases, Syncs, Transactions, Captures, Verifications, Ledgers})
  <2>1. Birth(Cases) = 15 /\ Birth(Syncs) = 15 /\ Birth(Transactions) = 1 /\ Birth(Captures) = 6 /\ Birth(Verifications) = 7 /\ Birth(Ledgers) = 8
    BY Births
  <2>2. QED
    BY <2>1 DEF Older
<1>2. HasEvery(s, {Cases, Syncs, Transactions, Captures, Verifications, Ledgers})
  BY <1>1, HasAll
<1>3. Unpopulated(s, {Evidence})
  BY NoRowsMet DEF IntactTables
<1>4. QED
  BY <1>2, <1>3 DEF Adopts, Retry0019, Intact0019, HasEvery

LEMMA Adopts0023 ==
  ASSUME NEW m \in 0..Len(Scripts[23]), NEW s, Meets(23, m, s)
  PROVE  Adopts(23, s)
<1>1. Older(23, {Cases, Syncs})
  <2>1. Birth(Cases) = 15 /\ Birth(Syncs) = 15
    BY Births
  <2>2. QED
    BY <2>1 DEF Older
<1>2. HasEvery(s, {Cases, Syncs})
  BY <1>1, HasAll
<1>3. Unpopulated(s, {Reports})
  BY NoRowsMet DEF IntactTables
<1>4. QED
  BY <1>2, <1>3 DEF Adopts, Retry0023, Intact0023, HasEvery

LEMMA Adopts0024 ==
  ASSUME NEW m \in 0..Len(Scripts[24]), NEW s, Meets(24, m, s)
  PROVE  Adopts(24, s)
<1>1. Older(24, {Cases, Syncs})
  <2>1. Birth(Cases) = 15 /\ Birth(Syncs) = 15
    BY Births
  <2>2. QED
    BY <2>1 DEF Older
<1>2. HasEvery(s, {Cases, Syncs})
  BY <1>1, HasAll
<1>3. Unpopulated(s, {Lifecycle})
  BY NoRowsMet DEF IntactTables
<1>4. QED
  BY <1>2, <1>3 DEF Adopts, Retry0024, Intact0024, HasEvery

LEMMA Adopts0025 ==
  ASSUME NEW m \in 0..Len(Scripts[25]), NEW s, Meets(25, m, s)
  PROVE  Adopts(25, s)
<1>1. Older(25, {Cases})
  <2>1. Birth(Cases) = 15
    BY Births
  <2>2. QED
    BY <2>1 DEF Older
<1>2. HasEvery(s, {Cases})
  BY <1>1, HasAll
<1>3. QED
  BY <1>2 DEF Adopts, HasEvery

LEMMA Adopts0026 ==
  ASSUME NEW m \in 0..Len(Scripts[26]), NEW s, Meets(26, m, s)
  PROVE  Adopts(26, s)
<1>1. Older(26, {Cases})
  <2>1. Birth(Cases) = 15
    BY Births
  <2>2. QED
    BY <2>1 DEF Older
<1>2. HasEvery(s, {Cases})
  BY <1>1, HasAll
<1>3. Unpopulated(s, {Catalog})
  BY DEF Meets, Unpopulated
<1>4. QED
  BY <1>2, <1>3 DEF Adopts, Retry0026, Intact0026, HasEvery

LEMMA Adopts0027 ==
  ASSUME NEW m \in 0..Len(Scripts[27]), NEW s, Meets(27, m, s)
  PROVE  Adopts(27, s)
<1>1. Older(27, {Syncs})
  <2>1. Birth(Syncs) = 15
    BY Births
  <2>2. QED
    BY <2>1 DEF Older
<1>2. HasEvery(s, {Syncs})
  BY <1>1, HasAll
<1>3. Unpopulated(s, {Manifests})
  BY NoRowsMet DEF IntactTables
<1>4. QED
  BY <1>2, <1>3 DEF Adopts, Retry0027, Intact0027, HasEvery

LEMMA Adopts0028 ==
  ASSUME NEW m \in 0..Len(Scripts[28]), NEW s, Meets(28, m, s)
  PROVE  Adopts(28, s)
<1>1. Older(28, {Cases, Syncs})
  <2>1. Birth(Cases) = 15 /\ Birth(Syncs) = 15
    BY Births
  <2>2. 15 \in 1..(28 - 1)
    OBVIOUS
  <2>3. QED
    BY <2>1, <2>2, Zenon DEF Older
<1>2. HasEvery(s, {Cases, Syncs})
  BY <1>1, HasAll
<1>3. Unpopulated(s, {Checkpoints})
  BY NoRowsMet DEF IntactTables
<1>4. QED
  BY <1>2, <1>3 DEF Adopts, Retry0028, Intact0028, HasEvery

(* Columns come first, too.                                                 *)
Leads(c, t, group, n) ==
  /\ n <= Len(c)
  /\ \A i \in 1..n : c[i] = Create(Column(t, group, i))
  /\ \A i \in 1..Len(c) : c[i].op = "create" /\ c[i].object[2] = "column" => i <= n

LEMMA ColumnsLead ==
  ASSUME NEW t, NEW group, NEW n \in Nat
  PROVE  Leads(Columns(t, group, n), t, group, n)
BY ColumnsAt DEF Leads

NoColumns(C) == \A o \in C : o[2] # "column"

LEMMA StillLeads ==
  ASSUME NEW a, NEW b, NEW t, NEW group, NEW n \in Nat, IsScript(a), Leads(a, t, group, n),
         NEW C, NEW D, NEW E, Makes(b, C, D, E), NoColumns(C)
  PROVE  Leads(a \o b, t, group, n)
<1> DEFINE c == a \o b
<1>1. IsScript(b)
  BY DEF Makes
<1>2. BothIn(a, b, c)
  BY <1>1, Joined
<1> HIDE DEF c
<1>3. DOMAIN b = 1..Len(b)
  <2>1. b \in Seq({b[j] : j \in DOMAIN b})
    BY <1>1 DEF IsScript
  <2>2. QED
    BY <2>1, LenProperties
<1>4. n <= Len(c) /\ \A i \in 1..n : c[i] = Create(Column(t, group, i))
  <2>1. n <= Len(c)
    BY <1>2 DEF BothIn, Leads
  <2>2. ASSUME NEW i \in 1..n PROVE c[i] = Create(Column(t, group, i))
    <3>1. i \in 1..Len(a)
      BY <1>2 DEF BothIn, Leads
    <3>2. QED
      BY <1>2, <3>1 DEF BothIn, Leads
  <2>3. QED
    BY <2>1, <2>2
<1>5. ASSUME NEW i \in 1..Len(c), c[i].op = "create", c[i].object[2] = "column" PROVE i <= n
  <2>1. CASE i <= Len(a)
    <3>1. i \in 1..Len(a) /\ c[i] = a[i]
      BY <2>1, <1>2 DEF BothIn
    <3>2. QED
      BY <3>1, <1>5 DEF Leads
  <2>2. CASE ~(i <= Len(a))
    <3>1. i - Len(a) \in 1..Len(b) /\ Len(a) + (i - Len(a)) = i
      BY <2>2, <1>2 DEF BothIn
    <3>2. c[i] = b[i - Len(a)]
      BY <3>1, <1>2 DEF BothIn
    <3>3. c[i].object \in C
      BY <3>1, <3>2, <1>3, <1>5 DEF Makes, Made
    <3>4. QED
      BY <3>3, <1>5 DEF NoColumns
  <2>3. QED
    BY <2>1, <2>2
<1>6. QED
  BY <1>4, <1>5 DEF Leads, c

LEMMA CompactColumnsLead == Leads(Scripts[16], Syncs, "compact", 2)
<1>1. Leads(CompactColumns, Syncs, "compact", 2) /\ IsScript(CompactColumns)
  BY ColumnsLead, ColumnsAt DEF CompactColumns
<1>2. Makes(LegacyMessages, {}, {}, {Write(Rows("legacy messages"), "always")})
  BY MakesNothing DEF LegacyMessages
<1>3. Leads(CompactColumns \o LegacyMessages, Syncs, "compact", 2)
  <2>1. 2 \in Nat /\ NoColumns({})
    BY DEF NoColumns
  <2>2. QED
    BY <1>1, <1>2, <2>1, StillLeads
<1>4. QED
  BY <1>3, ScriptsAre DEF Upgrade0016

LEMMA JobIndexesAre ==
  /\ Makes(JobIndexes, {Index(Syncs, "idempotency", 1), Index(Syncs, "one_active", 1),
                        Index(Syncs, "queue", 1)}, {}, {Refuse("active pair", LegacyActiveRows)})
  /\ Len(JobIndexes) = 4
  /\ \A i \in 1..4 : JobIndexes[i].op = "refuse" => i = 2
<1> DEFINE a == Create(Index(Syncs, "idempotency", 1))
           b == Refuse("active pair", LegacyActiveRows)
           c == Create(Index(Syncs, "one_active", 1))
           d == Create(Index(Syncs, "queue", 1))
<1>1. IsStatement(a) /\ IsStatement(b) /\ IsStatement(c) /\ IsStatement(d)
  BY DdlIsStatement, ObjectsAreDdl DEF Refuse, IsStatement
<1>2. /\ ObjectsOf({a, b, c, d}, "create") =
           {Index(Syncs, "idempotency", 1), Index(Syncs, "one_active", 1), Index(Syncs, "queue", 1)}
      /\ ObjectsOf({a, b, c, d}, "drop") = {} /\ RestOf({a, b, c, d}) = {b}
  <2>1. b.op = "refuse"
    BY DEF Refuse
  <2> HIDE DEF b
  <2>2. QED
    BY <2>1, DdlStatements DEF ObjectsOf, RestOf
<1>3. Makes(<<a, b, c, d>>, ObjectsOf({a, b, c, d}, "create"), ObjectsOf({a, b, c, d}, "drop"),
        RestOf({a, b, c, d}))
  BY <1>1, MakesFour
<1>4. Makes(JobIndexes,
        {Index(Syncs, "idempotency", 1), Index(Syncs, "one_active", 1), Index(Syncs, "queue", 1)}, {}, {b})
  BY <1>2, <1>3 DEF JobIndexes
<1>5. Len(JobIndexes) = 4 /\ \A i \in 1..4 : JobIndexes[i].op = "refuse" => i = 2
  <2>1. a.op = "create" /\ c.op = "create" /\ d.op = "create"
    BY DdlStatements
  <2>2. JobIndexes = <<a, b, c, d>>
    BY DEF JobIndexes
  <2> HIDE DEF a, b, c, d
  <2>3. Len(<<a, b, c, d>>) = 4 /\ <<a, b, c, d>>[1] = a /\ <<a, b, c, d>>[3] = c /\ <<a, b, c, d>>[4] = d
    OBVIOUS
  <2>4. \A i \in 1..4 : i = 1 \/ i = 2 \/ i = 3 \/ i = 4
    OBVIOUS
  <2>5. QED
    BY <2>1, <2>2, <2>3, <2>4
<1>6. QED
  BY <1>4, <1>5

LEMMA JobColumnsLead ==
  /\ Leads(Scripts[17], Syncs, "job", 11)
  /\ Len(Scripts[17]) = 16
  /\ Scripts[17][12] = Write(LegacyActiveRows, "always")
  /\ \A i \in 1..16 : Scripts[17][i].op = "refuse" => i = 14
<1> DEFINE ab == JobColumns \o NormalizeLegacyActiveRows
<1>1. /\ Leads(JobColumns, Syncs, "job", 11) /\ IsScript(JobColumns) /\ Len(JobColumns) = 11
      /\ \A i \in 1..11 : JobColumns[i].op = "create"
  <2>1. \A i \in 1..11 : JobColumns[i] = Create(Column(Syncs, "job", i))
    BY ColumnsAt DEF JobColumns
  <2>2. Leads(JobColumns, Syncs, "job", 11)
    BY ColumnsLead DEF JobColumns
  <2>3. IsScript(JobColumns) /\ Len(JobColumns) = 11
    <3>1. 11 \in Nat
      OBVIOUS
    <3>2. QED
      BY <3>1, ColumnsAt, Zenon DEF JobColumns
  <2>4. \A i \in 1..11 : JobColumns[i].op = "create"
    BY <2>1, DdlStatements
  <2>5. QED
    BY <2>2, <2>3, <2>4
<1>2. /\ Makes(NormalizeLegacyActiveRows, {}, {}, {Write(LegacyActiveRows, "always")})
      /\ Len(NormalizeLegacyActiveRows) = 1
      /\ NormalizeLegacyActiveRows[1] = Write(LegacyActiveRows, "always")
  BY MakesNothing DEF NormalizeLegacyActiveRows, LegacyActiveRows
<1>3. Makes(ab, ColumnSet(Syncs, "job", 11), {}, {Write(LegacyActiveRows, "always")})
  <2>1. Makes(JobColumns, ColumnSet(Syncs, "job", 11), {}, {})
    BY MakesColumns DEF JobColumns
  <2>2. QED
    BY <2>1, <1>2, MakesRest
<1>4. Leads(ab, Syncs, "job", 11)
  <2>1. 11 \in Nat /\ NoColumns({})
    BY DEF NoColumns
  <2>2. QED
    BY <1>1, <1>2, <2>1, StillLeads
<1>5. BothIn(JobColumns, NormalizeLegacyActiveRows, ab)
  BY <1>1, <1>2, Joined DEF Makes
<1>6. Scripts[17] = ab \o JobIndexes
  BY ScriptsAre DEF Upgrade0017
<1> HIDE DEF ab
<1>7. BothIn(ab, JobIndexes, Scripts[17])
  <2>1. IsScript(ab)
    BY <1>3 DEF Makes
  <2>2. IsScript(JobIndexes)
    BY JobIndexesAre DEF Makes
  <2>3. QED
    BY <2>1, <2>2, <1>6, Joined
<1>8. /\ Len(ab) = 12 /\ ab[12] = Write(LegacyActiveRows, "always")
      /\ \A i \in 1..11 : ab[i].op = "create"
  <2>1. Len(ab) = 12
    BY <1>1, <1>2, <1>5 DEF BothIn
  <2>2. ab[11 + 1] = NormalizeLegacyActiveRows[1] /\ 11 + 1 = 12
    BY <1>1, <1>2, <1>5 DEF BothIn
  <2>3. QED
    BY <1>1, <1>2, <1>5, <2>1, <2>2 DEF BothIn
<1>9. Leads(Scripts[17], Syncs, "job", 11)
  <2>1. IsScript(ab)
    BY <1>3 DEF Makes
  <2>2. NoColumns({Index(Syncs, "idempotency", 1), Index(Syncs, "one_active", 1),
                   Index(Syncs, "queue", 1)})
    BY DEF Index, NoColumns
  <2>3. 11 \in Nat
    OBVIOUS
  <2>4. Makes(JobIndexes, {Index(Syncs, "idempotency", 1), Index(Syncs, "one_active", 1),
                        Index(Syncs, "queue", 1)}, {}, {Refuse("active pair", LegacyActiveRows)})
    BY JobIndexesAre
  <2>5. Leads(ab \o JobIndexes, Syncs, "job", 11)
    BY <2>1, <2>2, <2>3, <2>4, <1>4, StillLeads
  <2>6. QED
    BY <2>5, <1>6
<1>10. Len(Scripts[17]) = 16 /\ Scripts[17][12] = ab[12]
  <2>1. 12 \in 1..Len(ab)
    BY <1>8
  <2>2. Scripts[17][12] = ab[12]
    BY <1>7, <2>1 DEF BothIn
  <2>3. Len(Scripts[17]) = 12 + 4
    BY <1>7, <1>8, JobIndexesAre DEF BothIn
  <2>4. QED
    BY <2>2, <2>3
<1>11. ASSUME NEW i \in 1..16, Scripts[17][i].op = "refuse" PROVE i = 14
  <2>1. CASE i \in 1..12
    <3>1. Scripts[17][i] = ab[i]
      BY <2>1, <1>7, <1>8 DEF BothIn
    <3>2. ab[12].op = "write"
      BY <1>8 DEF Write
    <3>3. i \in 1..11 \/ i = 12
      BY <2>1
    <3>4. QED
      BY <3>1, <3>2, <3>3, <1>8, <1>11
  <2>2. CASE i \in 13..16
    <3>1. i - 12 \in 1..4 /\ 12 + (i - 12) = i
      BY <2>2
    <3>2. Scripts[17][i] = JobIndexes[i - 12]
      BY <3>1, <1>7, <1>8, JobIndexesAre DEF BothIn
    <3>3. i - 12 = 2
      BY <3>1, <3>2, <1>11, JobIndexesAre
    <3>4. QED
      BY <3>3, <2>2
  <2>3. QED
    BY <2>1, <2>2
<1>12. QED
  BY <1>8, <1>9, <1>10, <1>11

LEMMA SwapPositions ==
  /\ Len(Scripts[20]) = 2
  /\ Scripts[20][1] = Create(Index(Proofs, "trust", 1))
  /\ Scripts[20][2] = Drop(Index(Proofs, "boc", 1))
BY ScriptsAre DEF Upgrade0020

LEMMA PolicyPositions ==
  /\ Leads(Scripts[21], Proofs, "checkpoint", 6)
  /\ Len(Scripts[21]) = 10
  /\ \A i \in 7..8 : Scripts[21][i].op = "create" /\ Scripts[21][i].object[2] = "trigger"
  /\ Scripts[21][9] = Create(Index(Proofs, "policy", 1))
  /\ Scripts[21][10] = Drop(Index(Proofs, "trust", 1))
<1> DEFINE a == Create(Trigger(Proofs, "insert", 21))
           b == Create(Trigger(Proofs, "update", 21))
           c == Create(Index(Proofs, "policy", 1))
           d == Drop(Index(Proofs, "trust", 1))
           ab == CheckpointColumns \o CheckpointTriggers
           cd == <<c, d>>
<1>1. IsStatement(a) /\ IsStatement(b) /\ IsStatement(c) /\ IsStatement(d)
  BY DdlIsStatement, ObjectsAreDdl
<1>2. Makes(<<a, b>>, ObjectsOf({a, b}, "create"), ObjectsOf({a, b}, "drop"), RestOf({a, b}))
      /\ Makes(cd, ObjectsOf({c, d}, "create"), ObjectsOf({c, d}, "drop"), RestOf({c, d}))
  BY <1>1, MakesTwo
<1>3. NoColumns(ObjectsOf({a, b}, "create")) /\ NoColumns(ObjectsOf({c, d}, "create"))
  <2>1. \A o \in ObjectsOf({a, b}, "create") : o = Trigger(Proofs, "insert", 21) \/ o = Trigger(Proofs, "update", 21)
    BY DdlStatements DEF ObjectsOf
  <2>2. \A o \in ObjectsOf({c, d}, "create") : o = Index(Proofs, "policy", 1)
    BY DdlStatements DEF ObjectsOf
  <2>3. QED
    BY <2>1, <2>2 DEF NoColumns, Trigger, Index
<1>4. CheckpointTriggers = <<a, b>>
  BY DEF CheckpointTriggers
<1>5. Len(<<a, b>>) = 2 /\ <<a, b>>[1] = a /\ <<a, b>>[2] = b /\ Len(cd) = 2 /\ cd[1] = c /\ cd[2] = d
  OBVIOUS
<1>6. /\ a.op = "create" /\ a.object[2] = "trigger"
      /\ b.op = "create" /\ b.object[2] = "trigger"
  BY DdlStatements DEF Trigger
<1> HIDE DEF a, b
<1>7. Leads(CheckpointColumns, Proofs, "checkpoint", 6) /\ IsScript(CheckpointColumns)
      /\ Len(CheckpointColumns) = 6
  <2>1. 6 \in Nat
    OBVIOUS
  <2>2. QED
    BY <2>1, ColumnsLead, ColumnsAt, Zenon DEF CheckpointColumns
<1>8. Leads(ab, Proofs, "checkpoint", 6)
  <2>1. 6 \in Nat
    OBVIOUS
  <2>2. QED
    BY <2>1, <1>2, <1>3, <1>4, <1>7, StillLeads
<1>9. IsScript(<<a, b>>) /\ IsScript(cd)
  BY <1>2 DEF Makes
<1>10. BothIn(CheckpointColumns, <<a, b>>, ab)
  BY <1>4, <1>7, <1>9, Joined
<1>11. IsScript(ab)
  <2>1. Makes(CheckpointColumns, ColumnSet(Proofs, "checkpoint", 6), {}, {})
    BY MakesColumns DEF CheckpointColumns
  <2>2. Makes(CheckpointColumns \o <<a, b>>, ColumnSet(Proofs, "checkpoint", 6) \cup ObjectsOf({a, b}, "create"),
              {} \cup ObjectsOf({a, b}, "drop"), {} \cup RestOf({a, b}))
    BY <2>1, <1>2, MakesBoth
  <2>3. QED
    BY <2>2, <1>4 DEF Makes
<1>12. Scripts[21] = ab \o cd
  BY ScriptsAre DEF Upgrade0021
<1> HIDE DEF ab, cd
<1>13. BothIn(ab, cd, Scripts[21])
  BY <1>9, <1>11, <1>12, Joined
<1>14. Leads(Scripts[21], Proofs, "checkpoint", 6)
  <2>1. 6 \in Nat
    OBVIOUS
  <2>2. QED
    BY <2>1, <1>2, <1>3, <1>8, <1>11, <1>12, StillLeads
<1>15. Len(ab) = 8 /\ ab[7] = a /\ ab[8] = b
  <2>1. 6 + 1 = 7 /\ 6 + 2 = 8 /\ 1 \in 1..2 /\ 2 \in 1..2
    OBVIOUS
  <2>2. ab[6 + 1] = a /\ ab[6 + 2] = b
    BY <2>1, <1>5, <1>7, <1>10 DEF BothIn
  <2>3. Len(ab) = 6 + 2
    BY <1>5, <1>7, <1>10 DEF BothIn
  <2>4. QED
    BY <2>1, <2>2, <2>3
<1>16. Len(Scripts[21]) = 10 /\ Scripts[21][9] = c /\ Scripts[21][10] = d
  <2>1. 8 + 1 = 9 /\ 8 + 2 = 10 /\ 1 \in 1..2 /\ 2 \in 1..2
    OBVIOUS
  <2>2. Scripts[21][8 + 1] = c /\ Scripts[21][8 + 2] = d
    BY <2>1, <1>5, <1>13, <1>15 DEF BothIn
  <2>3. Len(Scripts[21]) = 8 + 2
    BY <1>5, <1>13, <1>15 DEF BothIn
  <2>4. QED
    BY <2>1, <2>2, <2>3
<1>17. Scripts[21][7] = a /\ Scripts[21][8] = b
  <2>1. 7 \in 1..8 /\ 8 \in 1..8
    OBVIOUS
  <2>2. QED
    BY <2>1, <1>13, <1>15 DEF BothIn
<1>18. \A i \in 7..8 : i = 7 \/ i = 8
  OBVIOUS
<1>19. QED
  BY <1>6, <1>14, <1>16, <1>17, <1>18

LEMMA OnlyOnce ==
  /\ OnlyAt(16, Syncs, "compact") /\ OnlyAt(17, Syncs, "job")
  /\ OnlyAt(21, Proofs, "checkpoint")
BY DEF OnlyAt, ColumnsMade

(* The indexes of the proofs.                                               *)
LEMMA DroppedIsGone ==
  ASSUME NEW r \in 1..28, NEW m \in 0..Len(Scripts[r]), NEW p \in 1..(r - 1),
         NEW o \in DroppedAt(p)
  PROVE  o \notin After(r, m)
<1>1. p \in 1..28 /\ r - 1 \in 0..28
  OBVIOUS
<1>2. o \notin SchemaOf[r - 1]
  BY <1>1, MembersOfSchema
<1>3. o \notin MadeIn(r, m, "create")
  <2>1. SUFFICES ASSUME o \in CreatedAt(r) PROVE FALSE
    BY WholeScript
  <2>2. r < p
    BY <1>1, <2>1, DropsComeLater
  <2>3. QED
    BY <2>2
<1>4. QED
  BY <1>2, <1>3 DEF After

LEMMA StillThere ==
  ASSUME NEW r \in 1..28, NEW m \in 0..Len(Scripts[r]), NEW q \in 1..(r - 1),
         NEW o \in CreatedAt(q), \A p \in 1..(r - 1) : o \notin DroppedAt(p),
         o \notin MadeIn(r, m, "drop")
  PROVE  o \in After(r, m)
<1>1. r - 1 \in 0..28
  OBVIOUS
<1>2. o \in SchemaOf[r - 1]
  BY <1>1, MembersOfSchema
<1>3. QED
  BY <1>2 DEF After

Digest == Index(Proofs, "digest", 1)
Boc == Index(Proofs, "boc", 1)
Trust == Index(Proofs, "trust", 1)
Policy == Index(Proofs, "policy", 1)

LEMMA ProofIndexParts ==
  /\ Digest[1] = Proofs /\ Digest[2] = "index" /\ Digest[3] = "digest"
  /\ Boc[1] = Proofs /\ Boc[2] = "index" /\ Boc[3] = "boc"
  /\ Trust[1] = Proofs /\ Trust[2] = "index" /\ Trust[3] = "trust"
  /\ Policy[1] = Proofs /\ Policy[2] = "index" /\ Policy[3] = "policy"
BY DEF Digest, Boc, Trust, Policy, Index

LEMMA ProofIndexesMade ==
  ASSUME NEW q \in 1..28, NEW o \in CreatedAt(q), o[1] = Proofs, o[2] = "index"
  PROVE  \/ q = 12 /\ o \in {Digest, Boc}
         \/ q = 20 /\ o = Trust
         \/ q = 21 /\ o = Policy
<1>1. Known(q, o)
  BY EachIsKnown
<1>2. \/ q = 12
      \/ o = Index(Proofs, o[3], 1) /\ <<q, Proofs, o[3]>> \in IndexesMade
  BY <1>1, Births DEF Known
<1>3. CASE q = 12
  <2>1. o \in {Table(Proofs), Index(Proofs, "boc", 1), Index(Proofs, "digest", 1)}
    BY <1>3, At0012
  <2>2. Table(Proofs)[2] = "table"
    BY DEF Table
  <2>3. QED
    BY <1>3, <2>1, <2>2 DEF Digest, Boc
<1>4. CASE q # 12 /\ o = Index(Proofs, o[3], 1) /\ <<q, Proofs, o[3]>> \in IndexesMade
  <2>1. \/ q = 20 /\ o[3] = "trust"
        \/ q = 21 /\ o[3] = "policy"
    BY <1>4 DEF IndexesMade, Proofs, Runs, Transactions, Transfers, Swaps, Syncs
  <2>2. QED
    BY <1>4, <2>1 DEF Trust, Policy
<1>5. QED
  BY <1>2, <1>3, <1>4

LEMMA ProofIndexesCome ==
  /\ Digest \in CreatedAt(12) /\ Boc \in CreatedAt(12)
  /\ Trust \in CreatedAt(20) /\ Policy \in CreatedAt(21)
BY At0012, At0020, At0021 DEF Digest, Boc, Trust, Policy

LEMMA ProofIndexesGo ==
  ASSUME NEW p \in 1..28
  PROVE  /\ Digest \notin DroppedAt(p) /\ Policy \notin DroppedAt(p)
         /\ Boc \in DroppedAt(p) <=> p = 20
         /\ Trust \in DroppedAt(p) <=> p = 21
<1>1. Boc \in DroppedAt(20) /\ Trust \in DroppedAt(21)
  BY At0020, At0021 DEF Boc, Trust
<1>2. ASSUME NEW o \in {Digest, Boc, Trust, Policy}, o \in DroppedAt(p)
      PROVE  (p = 20 /\ o = Boc) \/ (p = 21 /\ o = Trust)
  <2>1. o[2] = "index"
    BY <1>2, ProofIndexParts
  <2>2. \A event : Trigger(Proofs, event, 21)[2] = "trigger"
    BY DEF Trigger
  <2>3. \/ p = 20 /\ o = Index(Proofs, "boc", 1)
        \/ p = 21 /\ o = Index(Proofs, "trust", 1)
        \/ p = 22 /\ o \in {Trigger(Proofs, "insert", 21), Trigger(Proofs, "update", 21)}
    BY <1>2, Drops
  <2>4. o \notin {Trigger(Proofs, "insert", 21), Trigger(Proofs, "update", 21)}
    BY <2>1, <2>2
  <2>5. Boc = Index(Proofs, "boc", 1) /\ Trust = Index(Proofs, "trust", 1)
    BY DEF Boc, Trust
  <2>6. QED
    BY <2>3, <2>4, <2>5
<1>3. QED
  BY <1>1, <1>2, ProofIndexParts

LEMMA ProofIndexesMet ==
  ASSUME NEW r \in 1..28, NEW m \in 0..Len(Scripts[r]), NEW s, Structure(s) = After(r, m),
         NEW o \in s, o[1] = Proofs, o[2] = "index"
  PROVE  \/ o = Digest
         \/ o = Boc /\ r <= 20
         \/ o = Trust /\ r <= 21
         \/ o = Policy /\ (r <= 21 => o \in MadeIn(r, m, "create"))
<1>1. PICK q \in 1..r : /\ o \in CreatedAt(q)
                        /\ q = r => o \in MadeIn(r, m, "create")
  BY Found DEF Kinds
<1>2. \/ q = 12 /\ o \in {Digest, Boc}
      \/ q = 20 /\ o = Trust
      \/ q = 21 /\ o = Policy
  <2>1. q \in 1..28
    OBVIOUS
  <2>2. QED
    BY <1>1, <2>1, ProofIndexesMade
<1>3. o \in After(r, m)
  BY InStructure DEF Kinds
<1>4. o = Boc => r <= 20
  <2>1. SUFFICES ASSUME o = Boc, ~(r <= 20) PROVE FALSE
    OBVIOUS
  <2>2. 20 \in 1..(r - 1) /\ 20 \in 1..28
    BY <2>1
  <2>3. o \in DroppedAt(20)
    BY <2>1, <2>2, ProofIndexesGo
  <2>4. QED
    BY <1>3, <2>2, <2>3, DroppedIsGone
<1>5. o = Trust => r <= 21
  <2>1. SUFFICES ASSUME o = Trust, ~(r <= 21) PROVE FALSE
    OBVIOUS
  <2>2. 21 \in 1..(r - 1) /\ 21 \in 1..28
    BY <2>1
  <2>3. o \in DroppedAt(21)
    BY <2>1, <2>2, ProofIndexesGo
  <2>4. QED
    BY <1>3, <2>2, <2>3, DroppedIsGone
<1>6. (o = Policy /\ r <= 21) => o \in MadeIn(r, m, "create")
  <2>1. SUFFICES ASSUME o = Policy, r <= 21 PROVE o \in MadeIn(r, m, "create")
    OBVIOUS
  <2>2. q = 21
    BY <1>2, <2>1, ProofIndexParts
  <2>3. q = r
    BY <2>1, <2>2
  <2>4. QED
    BY <1>1, <2>3
<1>7. QED
  BY <1>2, <1>4, <1>5, <1>6

LEMMA GroupsOfIndexes ==
  ASSUME NEW s
  PROVE  /\ Digest \in s => "digest" \in IndexGroups(s, Proofs)
         /\ Boc \in s => "boc" \in IndexGroups(s, Proofs)
         /\ Trust \in s => "trust" \in IndexGroups(s, Proofs)
         /\ Policy \in s => "policy" \in IndexGroups(s, Proofs)
BY ProofIndexParts DEF IndexGroups, Of

LEMMA InIndexGroups ==
  ASSUME NEW s, NEW t, NEW group \in IndexGroups(s, t)
  PROVE  \E o \in s : o[1] = t /\ o[2] = "index" /\ o[3] = group
BY DEF IndexGroups, Of

LEMMA IndexesStay ==
  ASSUME NEW r \in 13..28, NEW m \in 0..Len(Scripts[r]), NEW s, Structure(s) = After(r, m)
  PROVE  /\ Digest \in s
         /\ r <= 19 => Boc \in s
         /\ r = 20 => Boc \in s \/ Trust \in s
         /\ r = 21 => Trust \in s \/ Policy \in s
         /\ r > 21 => Policy \in s
<1>1. r \in 1..28 /\ 12 \in 1..(r - 1)
  OBVIOUS
<1>2. ASSUME NEW p \in 1..(r - 1)
      PROVE  /\ Digest \notin DroppedAt(p) /\ Policy \notin DroppedAt(p)
             /\ r <= 20 => Boc \notin DroppedAt(p)
             /\ r <= 21 => Trust \notin DroppedAt(p)
  <2>1. p \in 1..28 /\ (r <= 20 => p # 20) /\ (r <= 21 => p # 21)
    OBVIOUS
  <2>2. QED
    BY <2>1, ProofIndexesGo
<1>3. MadeIn(r, m, "drop") \subseteq DroppedAt(r)
  BY <1>1, WholeScript
<1>4. ASSUME NEW o \in After(r, m), o[2] = "index" PROVE o \in s
  BY <1>4, InStructure DEF Kinds
<1>5. Digest \in s
  <2>1. Digest \in After(r, m)
    <3>1. Digest \notin MadeIn(r, m, "drop")
      BY <1>1, <1>3, ProofIndexesGo
    <3>2. \A p \in 1..(r - 1) : Digest \notin DroppedAt(p)
      BY <1>2
    <3>3. QED
      BY <1>1, <3>1, <3>2, ProofIndexesCome, StillThere
  <2>2. QED
    BY <1>4, <2>1, ProofIndexParts
<1>6. ASSUME r <= 20, Boc \notin MadeIn(r, m, "drop") PROVE Boc \in s
  <2>1. Boc \in After(r, m)
    <3>1. \A p \in 1..(r - 1) : Boc \notin DroppedAt(p)
      BY <1>2, <1>6
    <3>2. 12 \in 1..(r - 1) /\ r \in 1..28
      OBVIOUS
    <3>3. QED
      BY <1>6, <3>1, <3>2, ProofIndexesCome, StillThere
  <2>2. QED
    BY <1>4, <2>1, ProofIndexParts
<1>7. r <= 19 => Boc \in s
  <2>1. r <= 19 => r # 20 /\ r <= 20
    OBVIOUS
  <2>2. r <= 19 => Boc \notin DroppedAt(r)
    BY <1>1, <2>1, ProofIndexesGo
  <2>3. QED
    BY <1>3, <1>6, <2>1, <2>2
<1>8. ASSUME r = 20 PROVE Boc \in s \/ Trust \in s
  <2>1. SUFFICES ASSUME Boc \in MadeIn(r, m, "drop") PROVE Trust \in s
    BY <1>6, <1>8
  <2>2. PICK i \in 1..m : Scripts[20][i].op = "drop"
    BY <1>8, <2>1 DEF MadeIn
  <2>3. Scripts[20][1].op = "create" /\ Scripts[20][1].object = Trust
    BY SwapPositions, DdlStatements DEF Trust
  <2>4. 1 \in 1..m
    BY SwapPositions
  <2>5. Trust \in MadeIn(20, m, "create")
    BY <2>3, <2>4 DEF MadeIn
  <2>6. Trust \notin MadeIn(20, m, "drop")
    <3>1. Trust \notin DroppedAt(20)
      BY ProofIndexesGo
    <3>2. QED
      BY <3>1, <1>3, <1>8
  <2>7. Trust \in After(r, m)
    BY <2>5, <2>6, <1>8 DEF After
  <2>8. QED
    BY <1>4, <2>7, ProofIndexParts
<1>9. ASSUME r = 21 PROVE Trust \in s \/ Policy \in s
  <2>1. CASE Trust \in MadeIn(r, m, "drop")
    <3>1. PICK i \in 1..m : Scripts[21][i].op = "drop"
      BY <1>9, <2>1 DEF MadeIn
    <3>2. m \in 0..10 /\ i \in 1..10
      BY <1>9, PolicyPositions
    <3>3. ~(i <= 9)
      <4>1. ASSUME i <= 6 PROVE FALSE
        <5>1. Scripts[21][i] = Create(Column(Proofs, "checkpoint", i))
          BY <4>1, PolicyPositions DEF Leads
        <5>2. QED
          BY <3>1, <5>1, DdlStatements
      <4>2. ASSUME i \in 7..8 PROVE FALSE
        BY <3>1, <4>2, PolicyPositions
      <4>3. ASSUME i = 9 PROVE FALSE
        BY <3>1, <4>3, PolicyPositions, DdlStatements
      <4>4. QED
        BY <3>2, <4>1, <4>2, <4>3
    <3>4. 9 \in 1..m
      BY <3>2, <3>3
    <3>5. Scripts[21][9].op = "create" /\ Scripts[21][9].object = Policy
      BY PolicyPositions, DdlStatements DEF Policy
    <3>6. Policy \in MadeIn(21, m, "create")
      BY <3>4, <3>5 DEF MadeIn
    <3>7. Policy \notin MadeIn(21, m, "drop")
      <4>1. Policy \notin DroppedAt(21)
        BY ProofIndexesGo
      <4>2. QED
        BY <4>1, <1>3, <1>9
    <3>8. Policy \in After(r, m)
      BY <3>6, <3>7, <1>9 DEF After
    <3>9. QED
      BY <1>4, <3>8, ProofIndexParts
  <2>2. CASE Trust \notin MadeIn(r, m, "drop")
    <3>0. r <= 21
      BY <1>9
    <3>1. \A p \in 1..(r - 1) : Trust \notin DroppedAt(p)
      BY <1>2, <3>0
    <3>2. 20 \in 1..(r - 1) /\ r \in 1..28
      BY <1>9
    <3>3. Trust \in After(r, m)
      BY <2>2, <3>1, <3>2, ProofIndexesCome, StillThere
    <3>4. QED
      BY <1>4, <3>3, ProofIndexParts
  <2>3. QED
    BY <2>1, <2>2
<1>10. ASSUME r > 21 PROVE Policy \in s
  <2>1. Policy \notin MadeIn(r, m, "drop")
    BY <1>1, <1>3, ProofIndexesGo
  <2>2. \A p \in 1..(r - 1) : Policy \notin DroppedAt(p)
    BY <1>2
  <2>3. 21 \in 1..(r - 1) /\ r \in 1..28
    BY <1>10
  <2>4. Policy \in After(r, m)
    BY <2>1, <2>2, <2>3, ProofIndexesCome, StillThere
  <2>5. QED
    BY <1>4, <2>4, ProofIndexParts
<1>11. QED
  BY <1>5, <1>7, <1>8, <1>9, <1>10

LEMMA SwapStarted ==
  ASSUME NEW m \in 0..Len(Scripts[20]), NEW s, Structure(s) = After(20, m)
  PROVE  IndexSwapStarted(s, "boc", "trust")
<1>1. 20 \in 1..28 /\ 20 \in 13..28
  OBVIOUS
<1>2. Digest \in s /\ (Boc \in s \/ Trust \in s)
  BY <1>1, IndexesStay
<1>3. ASSUME NEW group \in IndexGroups(s, Proofs) PROVE group \in {"digest", "boc", "trust"}
  <2>1. PICK o \in s : o[1] = Proofs /\ o[2] = "index" /\ o[3] = group
    BY InIndexGroups
  <2>2. \/ o = Digest \/ o = Boc \/ o = Trust
        \/ o = Policy /\ o \in MadeIn(20, m, "create")
    BY <1>1, <2>1, ProofIndexesMet
  <2>3. Policy \notin MadeIn(20, m, "create")
    <3>1. Policy \notin CreatedAt(20)
      BY At0020, ProofIndexParts DEF Trust
    <3>2. QED
      BY <1>1, <3>1, WholeScript
  <2>4. QED
    BY <2>1, <2>2, <2>3, ProofIndexParts
<1>4. QED
  BY <1>2, <1>3, GroupsOfIndexes DEF IndexSwapStarted

LEMMA PolicySwapStarted ==
  ASSUME NEW m \in 0..Len(Scripts[21]), NEW s, Structure(s) = After(21, m)
  PROVE  IndexSwapStarted(s, "trust", "policy")
<1>1. 21 \in 1..28 /\ 21 \in 13..28 /\ ~(21 <= 20)
  OBVIOUS
<1>2. Digest \in s /\ (Trust \in s \/ Policy \in s)
  BY <1>1, IndexesStay
<1>3. ASSUME NEW group \in IndexGroups(s, Proofs) PROVE group \in {"digest", "trust", "policy"}
  <2>1. PICK o \in s : o[1] = Proofs /\ o[2] = "index" /\ o[3] = group
    BY InIndexGroups
  <2>2. o = Digest \/ o = Trust \/ o = Policy
    BY <1>1, <2>1, ProofIndexesMet
  <2>3. QED
    BY <2>1, <2>2, ProofIndexParts
<1>4. QED
  BY <1>2, <1>3, GroupsOfIndexes DEF IndexSwapStarted

(* The two swaps end with the index they meant to.                          *)
LEMMA SwapsConverge ==
  ASSUME NEW r \in 1..28, NEW s, Structure(s) = SchemaOf[r]
  PROVE  Converged(r, s)
<1> DEFINE m == Len(Scripts[r])
<1>1. m \in 0..Len(Scripts[r]) /\ Structure(s) = After(r, m)
  <2>1. Len(Scripts[r]) \in Nat
    BY ScriptsAreScripts
  <2>2. Structure(s) = After(r, m)
    BY AfterTheLast
  <2> HIDE DEF m
  <2>3. QED
    BY <2>1, <2>2 DEF m
<1>2. ASSUME NEW o, o \in DroppedAt(r) PROVE o \notin After(r, m)
  BY <1>2, WholeScript DEF After
<1> HIDE DEF m
<1>3. ASSUME NEW o \in s, o[2] = "index" PROVE o \notin DroppedAt(r)
  BY <1>1, <1>2, <1>3, InStructure DEF Kinds
<1>4. ASSUME r = 20 PROVE IndexSwapDone(s, "trust")
  <2>1. IndexSwapStarted(s, "boc", "trust")
    BY <1>1, <1>4, SwapStarted
  <2>2. "boc" \notin IndexGroups(s, Proofs)
    <3>1. SUFFICES ASSUME NEW o \in s, o[1] = Proofs, o[2] = "index", o[3] = "boc" PROVE FALSE
      BY InIndexGroups
    <3>2. o = Boc
      BY <1>1, <3>1, ProofIndexesMet, ProofIndexParts
    <3>3. Boc \in DroppedAt(r)
      BY <1>4, ProofIndexesGo
    <3>4. QED
      BY <1>3, <3>1, <3>2, <3>3
  <2>3. QED
    BY <2>1, <2>2 DEF IndexSwapStarted, IndexSwapDone
<1>5. ASSUME r = 21 PROVE IndexSwapDone(s, "policy")
  <2>1. IndexSwapStarted(s, "trust", "policy")
    BY <1>1, <1>5, PolicySwapStarted
  <2>2. "trust" \notin IndexGroups(s, Proofs)
    <3>1. SUFFICES ASSUME NEW o \in s, o[1] = Proofs, o[2] = "index", o[3] = "trust" PROVE FALSE
      BY InIndexGroups
    <3>2. o = Trust
      BY <1>1, <3>1, ProofIndexesMet, ProofIndexParts
    <3>3. Trust \in DroppedAt(r)
      BY <1>5, ProofIndexesGo
    <3>4. QED
      BY <1>3, <3>1, <3>2, <3>3
  <2>3. QED
    BY <2>1, <2>2 DEF IndexSwapStarted, IndexSwapDone
<1>6. QED
  BY <1>4, <1>5 DEF Converged

LEMMA Adopts0020 ==
  ASSUME NEW m \in 0..Len(Scripts[20]), NEW s, Meets(20, m, s)
  PROVE  Adopts(20, s)
<1>1. Older(20, {Proofs})
  <2>1. Birth(Proofs) = 12 /\ 12 \in 1..(20 - 1)
    BY Births
  <2>2. QED
    BY <2>1 DEF Older
<1>2. HasEvery(s, {Proofs})
  BY <1>1, HasAll
<1>3. IndexSwapStarted(s, "boc", "trust")
  BY SwapStarted DEF Meets
<1>4. QED
  BY <1>2, <1>3 DEF Adopts, Retry0020, HasEvery

LEMMA Adopts0021 ==
  ASSUME NEW m \in 0..Len(Scripts[21]), NEW s, Meets(21, m, s)
  PROVE  Adopts(21, s)
<1>0. 21 \in 1..28 /\ Structure(s) = After(21, m) /\ m \in 0..10
  BY PolicyPositions DEF Meets
<1>1. HasTable(s, Proofs)
  <2>1. Birth(Proofs) = 12 /\ 12 \in 1..(21 - 1)
    BY Births
  <2>2. Older(21, {Proofs})
    BY <2>1 DEF Older
  <2>3. HasEvery(s, {Proofs})
    BY <2>2, HasAll
  <2>4. QED
    BY <2>3 DEF HasEvery
<1>2. ColumnsOf(s, Proofs, "checkpoint") = 1..(IF m <= 6 THEN m ELSE 6)
  <2>1. ColumnsFirst(21, Proofs, "checkpoint", 6) /\ 6 \in Nat
    BY PolicyPositions DEF Leads, ColumnsFirst
  <2>2. QED
    BY <1>0, <2>1, OnlyOnce, ColumnPrefix
<1>3. ColumnPrefix0021(s)
  <2>1. (IF m <= 6 THEN m ELSE 6) \in 0..6
    BY <1>0
  <2>2. QED
    BY <1>2, <2>1 DEF ColumnPrefix0021
<1>4. ASSUME ColumnsOf(s, Proofs, "checkpoint") # 1..6 PROVE "policy" \notin IndexGroups(s, Proofs)
  <2>1. m < 6
    BY <1>0, <1>2, <1>4
  <2>2. SUFFICES ASSUME NEW o \in s, o[1] = Proofs, o[2] = "index", o[3] = "policy" PROVE FALSE
    BY InIndexGroups
  <2>3. o \in MadeIn(21, m, "create")
    <3>1. \/ o = Digest \/ o = Boc \/ o = Trust
          \/ o = Policy /\ (21 <= 21 => o \in MadeIn(21, m, "create"))
      BY <1>0, <2>2, ProofIndexesMet
    <3>2. QED
      BY <2>2, <3>1, ProofIndexParts
  <2>4. PICK i \in 1..m : Scripts[21][i].object = o
    BY <2>3 DEF MadeIn
  <2>5. i \in 1..6
    BY <1>0, <2>1
  <2>6. Scripts[21][i].object = Column(Proofs, "checkpoint", i)
    BY <2>5, PolicyPositions, DdlStatements DEF Leads
  <2>7. QED
    BY <2>2, <2>4, <2>6, ColumnKind
<1>5. ASSUME NEW o \in Of(s, Proofs, "trigger") PROVE o[4] = 21
  <2>1. o \in s /\ o[2] = "trigger"
    BY <1>5 DEF Of
  <2>2. PICK q \in 1..21 : Known(q, o)
    BY <1>0, <2>1, Found DEF Kinds
  <2>3. QED
    BY <2>1, <2>2 DEF Known
<1>6. IndexSwapStarted(s, "trust", "policy")
  BY <1>0, PolicySwapStarted
<1>7. QED
  BY <1>1, <1>3, <1>4, <1>5, <1>6 DEF Adopts, Retry0021

LEMMA Adopts0022 ==
  ASSUME NEW m \in 0..Len(Scripts[22]), NEW s, Meets(22, m, s)
  PROVE  Adopts(22, s)
<1>0. 22 \in 1..28 /\ 22 \in 13..28 /\ 22 > 21 /\ 21 \in 1..(22 - 1) /\ Structure(s) = After(22, m)
  BY DEF Meets
<1>1. HasTable(s, Proofs)
  <2>1. Birth(Proofs) = 12 /\ 12 \in 1..(22 - 1)
    BY Births
  <2>2. Older(22, {Proofs})
    BY <2>1 DEF Older
  <2>3. HasEvery(s, {Proofs})
    BY <2>2, HasAll
  <2>4. QED
    BY <2>3 DEF HasEvery
<1>2. ColumnsOf(s, Proofs, "checkpoint") = 1..6
  <2>1. ColumnsWhole(21, Proofs, "checkpoint", 6)
    <3>1. ColumnSet(Proofs, "checkpoint", 6) \subseteq CreatedAt(21)
      BY At0021
    <3>2. ASSUME NEW o \in CreatedAt(21), o[2] = "column" PROVE o[4] \in 1..6
      <4>1. o \in ColumnSet(Proofs, "checkpoint", 6)
        BY <3>2, At0021 DEF Trigger, Index
      <4>2. QED
        BY <4>1 DEF ColumnSet, Column
    <3>3. QED
      BY <3>1, <3>2 DEF ColumnsWhole
  <2>2. 6 \in Nat
    OBVIOUS
  <2>3. QED
    BY <1>0, <2>1, <2>2, OnlyOnce, ColumnsLater
<1>3. Digest \in s /\ Policy \in s
  BY <1>0, IndexesStay
<1>4. QED
  BY <1>1, <1>2, <1>3, GroupsOfIndexes DEF Adopts, Retry0022

LEMMA Adopts0016 ==
  ASSUME NEW m \in 0..Len(Scripts[16]), NEW s, Meets(16, m, s)
  PROVE  Adopts(16, s)
<1>0. 16 \in 1..28 /\ Structure(s) = After(16, m) /\ Len(Scripts[16]) \in Nat
  BY ScriptsAreScripts DEF Meets
<1>1. HasTable(s, Syncs)
  <2>1. Birth(Syncs) = 15 /\ 15 \in 1..(16 - 1)
    BY Births
  <2>2. Older(16, {Syncs})
    BY <2>1 DEF Older
  <2>3. HasEvery(s, {Syncs})
    BY <2>2, HasAll
  <2>4. QED
    BY <2>3 DEF HasEvery
<1>2. ColumnsOf(s, Syncs, "compact") = 1..(IF m <= 2 THEN m ELSE 2)
  <2>1. ColumnsFirst(16, Syncs, "compact", 2) /\ 2 \in Nat
    BY CompactColumnsLead DEF Leads, ColumnsFirst
  <2>2. QED
    BY <1>0, <2>1, OnlyOnce, ColumnPrefix
<1>3. \E n \in 0..2 : ColumnsOf(s, Syncs, "compact") = 1..n
  BY <1>0, <1>2
<1>4. ColumnGroups(s, Syncs) \subseteq {"compact"}
  <2>1. SUFFICES ASSUME NEW o \in s, o[1] = Syncs, o[2] = "column" PROVE o[3] = "compact"
    BY DEF ColumnGroups, Of
  <2>2. PICK q \in 1..16 : <<q, o[1], o[3]>> \in ColumnsMade
    BY <1>0, <2>1, ColumnsFound
  <2>3. <<q, Syncs, o[3]>> \in ColumnsMade
    BY <2>1, <2>2
  <2>4. QED
    BY <2>3 DEF ColumnsMade, Runs, Transactions, Transfers, Swaps, Challenges, Syncs, Proofs, Cases
<1>5. QED
  BY <1>1, <1>3, <1>4 DEF Adopts, IsPrefix0016

LEMMA Adopts0017 ==
  ASSUME NEW m \in 0..Len(Scripts[17]), NEW s, Meets(17, m, s)
  PROVE  Adopts(17, s)
<1>0. 17 \in 1..28 /\ Structure(s) = After(17, m) /\ m \in 0..16 /\ 16 \in 1..(17 - 1)
  BY JobColumnsLead DEF Meets
<1>1. HasTable(s, Syncs)
  <2>1. Birth(Syncs) = 15 /\ 15 \in 1..(17 - 1)
    BY Births
  <2>2. Older(17, {Syncs})
    BY <2>1 DEF Older
  <2>3. HasEvery(s, {Syncs})
    BY <2>2, HasAll
  <2>4. QED
    BY <2>3 DEF HasEvery
<1>2. ColumnsOf(s, Syncs, "compact") = 1..2
  <2>1. ColumnsWhole(16, Syncs, "compact", 2)
    <3>1. CreatedAt(16) = ColumnSet(Syncs, "compact", 2)
      BY At0016
    <3>2. QED
      BY <3>1, ColumnKind DEF ColumnsWhole, ColumnSet
  <2>2. 2 \in Nat
    OBVIOUS
  <2>3. QED
    BY <1>0, <2>1, <2>2, OnlyOnce, ColumnsLater
<1>3. ColumnsOf(s, Syncs, "job") = 1..(IF m <= 11 THEN m ELSE 11)
  <2>1. ColumnsFirst(17, Syncs, "job", 11) /\ 11 \in Nat
    BY JobColumnsLead DEF Leads, ColumnsFirst
  <2>2. QED
    BY <1>0, <2>1, OnlyOnce, ColumnPrefix
<1>4. \E n \in 0..11 : ColumnsOf(s, Syncs, "job") = 1..n
  <2>1. (IF m <= 11 THEN m ELSE 11) \in 0..11
    BY <1>0
  <2>2. QED
    BY <1>3, <2>1
<1>5. IsPrefix0017(s)
  BY <1>1, <1>2, <1>4, Zenon DEF IsPrefix0017
<1>6. QED
  BY <1>5 DEF Adopts

LEMMA Adopts0005 ==
  ASSUME NEW m \in 0..Len(Scripts[5]), NEW s, Meets(5, m, s)
  PROVE  Adopts(5, s)
<1>0. 5 \in 1..28 /\ Structure(s) = After(5, m)
  BY DEF Meets
<1>1. HasTable(s, Transfers) /\ HasTable(s, Swaps)
  <2>1. Birth(Transfers) = 1 /\ Birth(Swaps) = 1 /\ 1 \in 1..(5 - 1)
    BY Births
  <2>2. Older(5, {Transfers, Swaps})
    BY <2>1 DEF Older
  <2>3. HasEvery(s, {Transfers, Swaps})
    BY <2>2, HasAll
  <2>4. QED
    BY <2>3 DEF HasEvery
<1>2. ASSUME NEW t \in {Transfers, Swaps}
      PROVE  ColumnsOf(s, t, "event_action") \subseteq 1..9
  <2>1. SUFFICES ASSUME NEW x \in ColumnsOf(s, t, "event_action") PROVE x \in 1..9
    OBVIOUS
  <2>2. PICK o \in s : o[1] = t /\ o[2] = "column" /\ o[3] = "event_action" /\ o[4] = x
    BY InColumns
  <2>3. PICK q \in 1..5 : <<q, o[1], o[3]>> \in ColumnsMade /\ o \in CreatedAt(q)
    BY <1>0, <2>2, ColumnsFound
  <2>4. q = 5
    <3>1. <<q, o[1], "event_action">> \in ColumnsMade
      BY <2>2, <2>3
    <3>2. QED
      BY <3>1 DEF ColumnsMade
  <2>5. o \in ColumnSet(Transfers, "event_action", 9) \cup ColumnSet(Swaps, "event_action", 9)
    <3>1. o \notin IndexSet(Transfers, "event_action", 3) \cup IndexSet(Swaps, "event_action", 3)
      BY <2>2 DEF IndexSet, Index
    <3>2. QED
      BY <2>3, <2>4, <3>1, At0005
  <2>6. QED
    BY <2>2, <2>5, ColumnKind DEF ColumnSet
<1>3. ASSUME NEW t \in {Transfers, Swaps}
      PROVE  IndexGroups(s, t) \subseteq {"own", "event_action"}
  <2>1. SUFFICES ASSUME NEW o \in s, o[1] = t, o[2] = "index" PROVE o[3] \in {"own", "event_action"}
    BY InIndexGroups
  <2>2. PICK q \in 1..5 : Known(q, o)
    BY <1>0, <2>1, Found DEF Kinds
  <2>3. o[3] = "own" \/ <<q, t, o[3]>> \in IndexesMade
    BY <2>1, <2>2 DEF Known
  <2>4. ASSUME <<q, t, o[3]>> \in IndexesMade PROVE o[3] = "event_action"
    BY <2>4 DEF IndexesMade, Proofs, Runs, Transactions, Transfers, Swaps, Syncs
  <2>5. QED
    BY <2>3, <2>4
<1>4. QED
  BY <1>1, <1>2, <1>3 DEF Adopts, Retry0005, PreflightIdentityColumns, IdentityIndexesKnown

(* Every revision adopts what it finds, save those that adopt nothing.      *)
LEMMA AdoptsAll ==
  ASSUME NEW r \in 1..28, NEW m \in 0..Len(Scripts[r]), NEW s, Meets(r, m, s),
         r \in 8..14 => m = 0,
         r = 1 => Absent(s, DomainTables)
  PROVE  Adopts(r, s)
<1>1. CASE r = 1
  BY <1>1 DEF Adopts
<1>8. CASE r \in 8..14
  <2>1. Meets(r, 0, s)
    BY <1>8
  <2>2. r = 8 \/ r = 9 \/ r = 10 \/ r = 11 \/ r = 12 \/ r = 13 \/ r = 14
    BY <1>8
  <2>3. QED
    BY <2>1, <2>2, Adopts0008, Adopts0009, Adopts0010, Adopts0011, Adopts0012, Adopts0013, Adopts0014
<1>2. CASE r \in 2..7
  <2>1. r = 2 \/ r = 3 \/ r = 4 \/ r = 5 \/ r = 6 \/ r = 7
    BY <1>2
  <2>2. QED
    BY <2>1, Adopts0002, Adopts0003, Adopts0004, Adopts0005, Adopts0006, Adopts0007
<1>15. CASE r \in 15..21
  <2>1. r = 15 \/ r = 16 \/ r = 17 \/ r = 18 \/ r = 19 \/ r = 20 \/ r = 21
    BY <1>15
  <2>2. QED
    BY <2>1, Adopts0015, Adopts0016, Adopts0017, Adopts0018, Adopts0019, Adopts0020, Adopts0021
<1>22. CASE r \in 22..28
  <2>1. r = 22 \/ r = 23 \/ r = 24 \/ r = 25 \/ r = 26 \/ r = 27 \/ r = 28
    BY <1>22
  <2>2. QED
    BY <2>1, Adopts0022, Adopts0023, Adopts0024, Adopts0025, Adopts0026, Adopts0027, Adopts0028
<1>29. QED
  BY <1>1, <1>2, <1>8, <1>15, <1>22

-----------------------------------------------------------------------------
(* What the statements besides DDL do.                                      *)
LEMMA SeedsLast ==
  /\ Len(Scripts[26]) = 3
  /\ \A i \in 1..3 : Scripts[26][i].op = "write" => i = 3
<1> DEFINE a == NewTable(Catalog, 1)
           b == SeedExistingCases
<1>1. Makes(a, Own(Catalog, 1), {}, {}) /\ IsScript(a) /\ Len(a) = 1 + 1
  <2>1. 1 \in Nat
    OBVIOUS
  <2>2. QED
    BY <2>1, MakesTable, NewTableAt, Zenon
<1>2. Makes(b, {}, {}, {Write(Rows(Catalog), "always")}) /\ Len(b) = 1
  BY MakesNothing DEF SeedExistingCases
<1>3. Scripts[26] = a \o b
  BY ScriptsAre DEF Upgrade0026
<1>4. IsScript(b)
  BY <1>2 DEF Makes
<1> HIDE DEF a, b
<1>5. BothIn(a, b, Scripts[26])
  BY <1>1, <1>3, <1>4, Joined
<1>6. ASSUME NEW i \in 1..2 PROVE Scripts[26][i].op \in {"create", "drop"}
  <2>1. DOMAIN a = 1..2
    <3>1. a \in Seq({a[j] : j \in DOMAIN a})
      BY <1>1 DEF IsScript
    <3>2. QED
      BY <3>1, <1>1, LenProperties
  <2>2. Scripts[26][i] = a[i]
    BY <1>1, <1>5 DEF BothIn
  <2>3. a[i].op \in {"create", "drop"}
    BY <2>1, <1>1 DEF Makes, Rest
  <2>4. QED
    BY <2>2, <2>3
<1>7. Len(Scripts[26]) = 3
  BY <1>1, <1>2, <1>5 DEF BothIn
<1>8. \A i \in 1..3 : i \in 1..2 \/ i = 3
  OBVIOUS
<1>9. QED
  BY <1>6, <1>7, <1>8

(* A statement that stores rows: none that a later revision minds.          *)
Stores(r, s) ==
  /\ s.op = "write"
  /\ s.object = Rows(s.object[1])
  /\ \A t \in IntactTables : s.object # Rows(t)
  /\ s.object = Rows(Catalog) => r = 26
  /\ r = 17 => s.object = LegacyActiveRows /\ s.sent = "always"
Refuses(r, s) ==
  /\ s.op = "refuse"
  /\ \/ s.rows \in {"doubled transactions", "doubled actions"}
     \/ r = 17 /\ s.rows = "active pair" /\ s.unless = LegacyActiveRows

Mindless(r, t, sent) ==
  /\ t \notin IntactTables
  /\ t = Catalog => r = 26
  /\ r = 17 => Rows(t) = LegacyActiveRows /\ sent = "always"

LEMMA StoresRows ==
  ASSUME NEW r, NEW t, NEW sent, Mindless(r, t, sent)
  PROVE  Stores(r, Write(Rows(t), sent))
<1>1. /\ Write(Rows(t), sent).op = "write" /\ Write(Rows(t), sent).object = Rows(t)
      /\ Write(Rows(t), sent).sent = sent
  BY DEF Write
<1>2. \A x : Rows(x)[1] = x
  BY DEF Rows
<1>3. QED
  BY <1>1, <1>2 DEF Stores, Mindless

LEMMA RefusesRows ==
  ASSUME NEW r, NEW rows, NEW object,
         \/ rows \in {"doubled transactions", "doubled actions"}
         \/ r = 17 /\ rows = "active pair" /\ object = LegacyActiveRows
  PROVE  Refuses(r, Refuse(rows, object))
BY DEF Refuse, Refuses

LEMMA NotIntact ==
  /\ "wallet identities" \notin IntactTables /\ "transaction identities" \notin IntactTables
  /\ "event actions" \notin IntactTables /\ "dex protocols" \notin IntactTables
  /\ "legacy messages" \notin IntactTables /\ "legacy active syncs closed" \notin IntactTables
  /\ Catalog \notin IntactTables
  /\ Catalog \notin {"wallet identities", "transaction identities", "event actions",
                     "dex protocols", "legacy messages", "legacy active syncs closed"}
BY DEF IntactTables, Streams, Pages, Captures, Nodes, Messages, Verifications, BocTransactions,
       Cases, Syncs, Evidence, Reports, Lifecycle, Manifests, Checkpoints, Catalog

LEMMA RestStatements ==
  ASSUME NEW r \in 1..28, NEW s \in RestAt(r)
  PROVE  Stores(r, s) \/ Refuses(r, s)
<1>1. CASE r = 2
  <2>1. s = Write(Rows("wallet identities"), "rows")
    BY <1>1, Rests
  <2>2. Mindless(2, "wallet identities", "rows")
    <3>1. "wallet identities" \notin IntactTables /\ "wallet identities" # Catalog
      BY NotIntact
    <3>2. 2 # 17
      OBVIOUS
    <3>3. QED
      BY <3>1, <3>2, Zenon DEF Mindless
  <2>3. Stores(2, Write(Rows("wallet identities"), "rows"))
    BY <2>2, StoresRows
  <2>4. QED
    BY <1>1, <2>1, <2>3
<1>2. CASE r = 3
  <2>1. s = Write(Rows("transaction identities"), "rows") \/ s = Refuse("doubled transactions", Rows("none"))
    BY <1>2, Rests
  <2>2. Mindless(3, "transaction identities", "rows")
    <3>1. "transaction identities" \notin IntactTables /\ "transaction identities" # Catalog
      BY NotIntact
    <3>2. 3 # 17
      OBVIOUS
    <3>3. QED
      BY <3>1, <3>2, Zenon DEF Mindless
  <2>3. Stores(3, Write(Rows("transaction identities"), "rows"))
    BY <2>2, StoresRows
  <2>4. Refuses(3, Refuse("doubled transactions", Rows("none")))
    BY RefusesRows
  <2>5. QED
    BY <1>2, <2>1, <2>3, <2>4
<1>3. CASE r = 5
  <2>1. s = Write(Rows("event actions"), "rows") \/ s = Refuse("doubled actions", Rows("none"))
    BY <1>3, Rests
  <2>2. Mindless(5, "event actions", "rows")
    <3>1. "event actions" \notin IntactTables /\ "event actions" # Catalog
      BY NotIntact
    <3>2. 5 # 17
      OBVIOUS
    <3>3. QED
      BY <3>1, <3>2, Zenon DEF Mindless
  <2>3. Stores(5, Write(Rows("event actions"), "rows"))
    BY <2>2, StoresRows
  <2>4. Refuses(5, Refuse("doubled actions", Rows("none")))
    BY RefusesRows
  <2>5. QED
    BY <1>3, <2>1, <2>3, <2>4
<1>4. CASE r = 13
  <2>1. s = Write(Rows("dex protocols"), "rows")
    BY <1>4, Rests
  <2>2. Mindless(13, "dex protocols", "rows")
    <3>1. "dex protocols" \notin IntactTables /\ "dex protocols" # Catalog
      BY NotIntact
    <3>2. 13 # 17
      OBVIOUS
    <3>3. QED
      BY <3>1, <3>2, Zenon DEF Mindless
  <2>3. Stores(13, Write(Rows("dex protocols"), "rows"))
    BY <2>2, StoresRows
  <2>4. QED
    BY <1>4, <2>1, <2>3
<1>5. CASE r = 16
  <2>1. s = Write(Rows("legacy messages"), "always")
    BY <1>5, Rests
  <2>2. Mindless(16, "legacy messages", "always")
    <3>1. "legacy messages" \notin IntactTables /\ "legacy messages" # Catalog
      BY NotIntact
    <3>2. 16 # 17
      OBVIOUS
    <3>3. QED
      BY <3>1, <3>2, Zenon DEF Mindless
  <2>3. Stores(16, Write(Rows("legacy messages"), "always"))
    BY <2>2, StoresRows
  <2>4. QED
    BY <1>5, <2>1, <2>3
<1>6. CASE r = 17
  <2>1. s = Write(LegacyActiveRows, "always") \/ s = Refuse("active pair", LegacyActiveRows)
    BY <1>6, Rests
  <2>2. LegacyActiveRows = Rows("legacy active syncs closed")
    BY DEF LegacyActiveRows
  <2>3. Mindless(17, "legacy active syncs closed", "always")
    BY <2>2, NotIntact DEF Mindless
  <2>4. Stores(17, Write(LegacyActiveRows, "always"))
    BY <2>2, <2>3, StoresRows
  <2>5. Refuses(17, Refuse("active pair", LegacyActiveRows))
    BY RefusesRows
  <2>6. QED
    BY <1>6, <2>1, <2>4, <2>5
<1>7. CASE r = 26
  <2>1. s = Write(Rows(Catalog), "always")
    BY <1>7, Rests
  <2>2. Mindless(26, Catalog, "always")
    <3>1. Catalog \notin IntactTables
      BY NotIntact
    <3>2. 26 # 17
      OBVIOUS
    <3>3. QED
      BY <3>1, <3>2, Zenon DEF Mindless
  <2>3. Stores(26, Write(Rows(Catalog), "always"))
    BY <2>2, StoresRows
  <2>4. QED
    BY <1>7, <2>1, <2>3
<1>8. CASE r \in {1, 4, 6, 7, 8, 9, 10, 11, 12, 14, 15}
  BY <1>8, Rests
<1>9. CASE r \in {18, 19, 20, 21, 22, 23, 24, 25, 27, 28}
  BY <1>9, Rests
<1>10. QED
  BY <1>1, <1>2, <1>3, <1>4, <1>5, <1>6, <1>7, <1>8, <1>9

(* Every statement of a script is DDL, or one of these.                     *)
LEMMA StatementsAre ==
  ASSUME NEW r \in 1..28, NEW i \in 1..Len(Scripts[r])
  PROVE  \/ Scripts[r][i].op \in {"create", "drop"} /\ IsDdl(Scripts[r][i].object)
         \/ Stores(r, Scripts[r][i]) \/ Refuses(r, Scripts[r][i])
<1>1. IsScript(Scripts[r]) /\ i \in DOMAIN Scripts[r]
  BY ScriptsAreScripts
<1>2. CASE Scripts[r][i].op \in {"create", "drop"}
  <2>1. IsStatement(Scripts[r][i])
    BY <1>1 DEF IsScript
  <2>2. QED
    BY <1>2, <2>1 DEF IsStatement
<1>3. CASE Scripts[r][i].op \notin {"create", "drop"}
  <2>1. Scripts[r][i] \in RestAt(r)
    BY <1>1, <1>3 DEF RestAt, Rest
  <2>2. QED
    BY <2>1, RestStatements
<1>4. QED
  BY <1>2, <1>3

(* The schema of a finished upgrade is current, and what the first revision *)
(* has made so far belongs to the baseline.                                 *)
LEMMA FinishedIsCurrent ==
  ASSUME NEW head \in 1..28, NEW s, Structure(s) = SchemaOf[head]
  PROVE  CurrentSchema(head, s)
<1>1. \A o \in SchemaOf[head] : HasTable(SchemaOf[head], o[1])
  BY ObjectsHaveTables DEF HasTable
<1>2. QED
  BY <1>1 DEF CurrentSchema

LEMMA FirstObjects ==
  ASSUME NEW m \in 0..Len(Scripts[1])
  PROVE  After(1, m) \subseteq SchemaOf[1]
<1>1. 1 \in 1..28 /\ 1 - 1 = 0 /\ 1 \in 0..28 /\ 1 \in 1..1 /\ \A q \in 1..1 : q = 1
  OBVIOUS
<1>2. After(1, m) \subseteq CreatedAt(1)
  BY <1>1, NothingAtFirst, WholeScript DEF After
<1>3. DroppedAt(1) = {}
  BY At0001
<1>4. ASSUME NEW o \in CreatedAt(1) PROVE o \in SchemaOf[1]
  <2>1. (\E q \in 1..1 : o \in CreatedAt(q)) /\ (\A q \in 1..1 : o \notin DroppedAt(q))
    BY <1>1, <1>3
  <2>2. QED
    BY <1>1, <2>1, MembersOfSchema
<1>5. QED
  BY <1>2, <1>4

LEMMA SchemasHoldNoRows ==
  ASSUME NEW n \in 0..28
  PROVE  Structure(SchemaOf[n]) = SchemaOf[n] /\ \A t : Rows(t) \notin SchemaOf[n]
<1>1. \A o \in SchemaOf[n] : o[2] # "rows"
  BY ObjectsHaveTables DEF Kinds
<1>2. \A t : Rows(t)[2] = "rows"
  BY DEF Rows
<1>3. QED
  BY <1>1, <1>2 DEF Structure

LEMMA FinishedIsAdoptable ==
  ASSUME NEW db, db.version \in 1..28, Structure(Schema(db)) = SchemaOf[db.version],
         RowsFit(Schema(db)), Rows(Catalog) \in Schema(db) => db.version >= 26
  PROVE  Adoptable(db)
<1>1. ASSUME db.version < 28
      PROVE  \E m \in 0..Len(Scripts[db.version + 1]) : Structure(Schema(db)) = After(db.version + 1, m)
  <2>1. db.version + 1 \in 1..28 /\ (db.version + 1) - 1 = db.version
    BY <1>1
  <2>2. 0 \in 0..Len(Scripts[db.version + 1])
    <3>1. Len(Scripts[db.version + 1]) \in Nat
      BY <2>1, ScriptsAreScripts
    <3>2. QED
      BY <3>1
  <2>3. Structure(Schema(db)) = After(db.version + 1, 0)
    BY <2>1, BeforeTheFirst
  <2>4. QED
    BY <2>2, <2>3
<1>2. /\ db.version \in 0..28 /\ db.version # 0
      /\ db.version = 28 => Structure(Schema(db)) = SchemaOf[28]
  OBVIOUS
<1>3. QED
  BY <1>1, <1>2 DEF Adoptable, LastRevision

-----------------------------------------------------------------------------
(* Each step of an upgrade keeps the invariant.                             *)
LEMMA UpgradeStarts == UpgradeInit => UpgradeInv
<1>1. SUFFICES ASSUME UpgradeInit PROVE UpgradeInv
  OBVIOUS
<1>2. Adoptable(disk)
  <2>1. CASE disk = Database(0, {})
    <3>1. disk.version = 0 /\ Schema(disk) = {}
      BY <2>1, SchemaOfDatabase
    <3>2. Structure({}) = {}
      BY DEF Structure
    <3>3. After(1, 0) = {}
      <4>1. 1 \in 1..28 /\ 1 - 1 = 0
        OBVIOUS
      <4>2. After(1, 0) = SchemaOf[1 - 1]
        BY <4>1, BeforeTheFirst
      <4>3. QED
        BY <4>1, <4>2, NothingAtFirst
    <3>4. 0 \in 0..Len(Scripts[0 + 1])
      <4>1. 0 + 1 \in 1..28
        OBVIOUS
      <4>2. Len(Scripts[0 + 1]) \in Nat
        BY <4>1, ScriptsAreScripts
      <4>3. QED
        BY <4>2
    <3>5. \E m \in 0..Len(Scripts[0 + 1]) : Structure(Schema(disk)) = After(0 + 1, m)
      <4>1. Structure(Schema(disk)) = After(0 + 1, 0)
        BY <3>1, <3>2, <3>3
      <4>2. QED
        BY <3>4, <4>1
    <3>6. RowsFit(Schema(disk)) /\ Rows(Catalog) \notin Schema(disk)
      BY <3>1 DEF RowsFit
    <3>7. QED
      BY <3>1, <3>2, <3>5, <3>6 DEF Adoptable, LastRevision
  <2>2. CASE disk = Database(0, SchemaOf[1])
    <3>1. disk.version = 0 /\ Schema(disk) = SchemaOf[1]
      BY <2>2, SchemaOfDatabase
    <3>2. Structure(SchemaOf[1]) = SchemaOf[1] /\ \A t : Rows(t) \notin SchemaOf[1]
      <4>1. 1 \in 0..28
        OBVIOUS
      <4>2. QED
        BY <4>1, SchemasHoldNoRows
    <3>3. \E m \in 0..Len(Scripts[0 + 1]) : Structure(Schema(disk)) = After(0 + 1, m)
      <4>1. 0 + 1 \in 1..28 /\ 0 + 1 = 1
        OBVIOUS
      <4>2. Len(Scripts[0 + 1]) \in Nat
        BY <4>1, ScriptsAreScripts
      <4>3. Structure(Schema(disk)) = After(0 + 1, Len(Scripts[0 + 1]))
        BY <3>1, <3>2, <4>1, AfterTheLast
      <4>4. Len(Scripts[0 + 1]) \in 0..Len(Scripts[0 + 1])
        BY <4>2
      <4>5. QED
        BY <4>3, <4>4
    <3>4. RowsFit(Schema(disk)) /\ Rows(Catalog) \notin Schema(disk)
      BY <3>1, <3>2 DEF RowsFit
    <3>5. QED
      BY <3>1, <3>2, <3>3, <3>4 DEF Adoptable, LastRevision
  <2>3. ASSUME NEW v \in 1..LastRevision, disk = Database(v, SchemaOf[v]) PROVE Adoptable(disk)
    <3>1. disk.version = v /\ Schema(disk) = SchemaOf[v]
      BY <2>3, SchemaOfDatabase
    <3>2. v \in 1..28 /\ v \in 0..28
      BY DEF LastRevision
    <3>3. Structure(SchemaOf[v]) = SchemaOf[v] /\ \A t : Rows(t) \notin SchemaOf[v]
      BY <3>2, SchemasHoldNoRows
    <3>4. RowsFit(Schema(disk)) /\ Rows(Catalog) \notin Schema(disk)
      BY <3>1, <3>3 DEF RowsFit
    <3>5. QED
      BY <3>1, <3>2, <3>3, <3>4, FinishedIsAdoptable
  <2>4. QED
    BY <1>1, <2>1, <2>2, <2>3 DEF UpgradeInit
<1>3. run = NotRunning /\ mine = disk
  BY <1>1 DEF UpgradeInit
<1>4. IsRun(run) /\ run.at = "idle" /\ run.open = FALSE
  BY <1>3 DEF NotRunning, IsRun
<1>5. QED
  BY <1>2, <1>3, <1>4 DEF UpgradeInv, InterruptedUpgradeResumes

(* A refused start leaves the database as it was.                           *)
LEMMA RefusalKeeps ==
  ASSUME UpgradeInv, NEW why, Refused(why), disk' = disk, data' = data,
         \/ why = "rows" /\ data \in {"doubled transactions", "doubled actions"}
         \/ why = "fragment" /\ run.rev \in 8..14 /\ run.rev = disk.version + 1
         \/ why = "schema" /\ run.head = disk.version
              /\ Structure(Schema(disk)) # SchemaOf[disk.version]
  PROVE  UpgradeInv'
<1>0. IsRun(run)
  BY DEF UpgradeInv
<1>1. run' = [run EXCEPT !.at = "refused", !.why = why] /\ mine' = disk'
  BY DEF Refused
<1>2. /\ IsRun(run') /\ run'.at = "refused" /\ run'.head = run.head /\ run'.rev = run.rev
      /\ run'.open = run.open /\ run'.why = why
  BY <1>0, <1>1 DEF IsRun
<1>3. Adoptable(disk') /\ run.open \in BOOLEAN
  BY DEF UpgradeInv
<1>4. InterruptedUpgradeResumes'
  BY <1>2 DEF InterruptedUpgradeResumes
<1>5. QED
  BY <1>1, <1>2, <1>3, <1>4 DEF UpgradeInv

LEMMA IdleKeeps ==
  ASSUME UpgradeInv, disk' = disk, mine' = disk, run' = NotRunning
  PROVE  UpgradeInv'
<1>2. IsRun(run') /\ run'.at = "idle" /\ run'.open = FALSE
  BY DEF NotRunning, IsRun
<1>3. Adoptable(disk')
  BY DEF UpgradeInv
<1>4. QED
  BY <1>2, <1>3 DEF UpgradeInv, InterruptedUpgradeResumes

LEMMA CrashKeeps == UpgradeInv /\ Crash => UpgradeInv'
BY IdleKeeps DEF Crash

LEMMA StopKeeps == UpgradeInv /\ Stop => UpgradeInv'
<1>1. SUFFICES ASSUME UpgradeInv, Stop PROVE UpgradeInv'
  OBVIOUS
<1>2. run.at \in {"serving", "refused"} /\ run' = NotRunning /\ disk' = disk /\ mine' = mine
  BY <1>1 DEF Stop
<1>3. mine = disk
  BY <1>1, <1>2 DEF UpgradeInv
<1>4. QED
  BY <1>1, <1>2, <1>3, IdleKeeps

LEMMA CheckKeeps == UpgradeInv /\ Check => UpgradeInv'
<1>1. SUFFICES ASSUME UpgradeInv, Check PROVE UpgradeInv'
  OBVIOUS
<1>2. /\ run.at = "checking" /\ run.head \in 1..28 /\ Checking /\ data' = data
      /\ Adoptable(disk)
  BY <1>1 DEF UpgradeInv, Check, LastRevision
<1>3. CASE mine.version = run.head /\ CurrentSchema(run.head, Schema(mine))
  <2>1. disk' = mine /\ mine' = mine /\ run' = [run EXCEPT !.at = "serving"]
    BY <1>1, <1>3 DEF Check
  <2>2. Adoptable(mine)
    <3>1. CASE mine = disk
      BY <1>2, <3>1
    <3>2. CASE mine # disk
      <4>1. /\ Structure(Schema(mine)) = SchemaOf[run.head] /\ RowsFit(Schema(mine))
            /\ Rows(Catalog) \in Schema(mine) => run.head >= 26
        BY <1>2, <3>2 DEF Checking
      <4>2. QED
        BY <1>2, <1>3, <4>1, FinishedIsAdoptable
    <3>3. QED
      BY <3>1, <3>2
  <2>3. IsRun(run)
    BY <1>1 DEF UpgradeInv
  <2>4. IsRun(run') /\ run'.at = "serving" /\ run'.open = run.open
    BY <2>1, <2>3 DEF IsRun
  <2>5. Adoptable(disk') /\ mine' = disk' /\ run.open \in BOOLEAN
    BY <1>1, <2>1, <2>2 DEF UpgradeInv
  <2>6. QED
    BY <2>4, <2>5 DEF UpgradeInv, InterruptedUpgradeResumes
<1>4. CASE ~(mine.version = run.head /\ CurrentSchema(run.head, Schema(mine)))
  <2>1. Refused("schema") /\ disk' = disk
    BY <1>1, <1>4 DEF Check
  <2>2. mine.version = run.head
    BY <1>2 DEF Checking
  <2>3. Structure(Schema(mine)) # SchemaOf[run.head]
    BY <1>2, <1>4, <2>2, FinishedIsCurrent
  <2>4. mine = disk
    BY <1>2, <2>3 DEF Checking
  <2>5. "schema" = "schema" /\ run.head = disk.version /\ Structure(Schema(disk)) # SchemaOf[disk.version]
    BY <2>2, <2>3, <2>4
  <2>6. QED
    BY <1>1, <1>2, <2>1, <2>5, RefusalKeeps
<1>5. QED
  BY <1>3, <1>4

LEMMA PreflightKeeps == UpgradeInv /\ Preflight => UpgradeInv'
<1>1. SUFFICES ASSUME UpgradeInv, Preflight PROVE UpgradeInv'
  OBVIOUS
<1>2. /\ run.at = "upgrading" /\ run.pc = 0 /\ disk' = disk /\ data' = data
      /\ Upgrading /\ run.head \in 1..28 /\ Adoptable(disk) /\ run.open \in BOOLEAN
      /\ ~run.open => mine = disk
  BY <1>1 DEF UpgradeInv, Preflight, LastRevision
<1>3. run.rev \in 1..28 /\ run.rev \in 1..run.head
  <2>1. run.rev \in 1..run.head
    BY <1>2 DEF Upgrading
  <2>2. QED
    BY <1>2, <2>1
<1>4. PICK m \in 0..Len(Scripts[run.rev]) :
        /\ run.open /\ run.pc = 0 => m = 0
        /\ Structure(Schema(mine)) = After(run.rev, m)
  BY <1>2 DEF Upgrading
<1>5. Meets(run.rev, m, Schema(mine))
  BY <1>2, <1>3, <1>4 DEF Upgrading, Meets
<1>6. run.rev = 1 => Absent(Schema(mine), DomainTables)
  BY <1>2 DEF Upgrading
<1>7. CASE Adopts(run.rev, Schema(mine))
  <2>1. run' = [run EXCEPT !.pc = 1] /\ mine' = mine
    BY <1>1, <1>7 DEF Preflight
  <2>2. IsRun(run)
    BY <1>1 DEF UpgradeInv
  <2>3. /\ IsRun(run') /\ run'.at = "upgrading" /\ run'.head = run.head /\ run'.rev = run.rev
        /\ run'.pc = 1 /\ run'.open = run.open
    BY <1>2, <2>1, <2>2 DEF IsRun
  <2>4. Len(Scripts[run.rev]) \in Nat
    BY <1>3, ScriptsAreScripts
  <2>5. \E k \in 0..Len(Scripts[run.rev]) :
          /\ k >= 1 - 1 /\ (run.open /\ 1 = 0 => k = 0)
          /\ Structure(Schema(mine)) = After(run.rev, k)
    BY <1>4, <2>4
  <2>6. Upgrading'
    BY <1>2, <2>1, <2>3, <2>4, <2>5 DEF Upgrading
  <2>7. Adoptable(disk') /\ (~run.open => mine' = disk')
    BY <1>2, <2>1
  <2>8. QED
    BY <1>2, <2>3, <2>6, <2>7 DEF UpgradeInv, InterruptedUpgradeResumes, LastRevision
<1>8. CASE ~Adopts(run.rev, Schema(mine))
  <2>1. Refused("fragment")
    BY <1>1, <1>8 DEF Preflight
  <2>2. run.rev \in 8..14 /\ m # 0
    BY <1>3, <1>5, <1>6, <1>8, AdoptsAll
  <2>3. mine = disk
    BY <1>2, <1>4, <2>2
  <2>4. run.rev = disk.version + 1
    BY <1>2, <1>3, <2>3 DEF Upgrading
  <2>5. QED
    BY <1>1, <1>2, <2>1, <2>2, <2>4, RefusalKeeps
<1>9. QED
  BY <1>7, <1>8

LEMMA StampKeeps == UpgradeInv /\ Stamp => UpgradeInv'
<1>1. SUFFICES ASSUME UpgradeInv, Stamp PROVE UpgradeInv'
  OBVIOUS
<1>2. /\ run.at = "upgrading" /\ run.pc = Len(Scripts[run.rev]) + 1 /\ disk' = disk /\ data' = data
      /\ Upgrading /\ run.head \in 1..28 /\ Adoptable(disk)
  BY <1>1 DEF UpgradeInv, Stamp, LastRevision
<1>3. run.rev \in 1..28 /\ run.rev \in 1..run.head
  <2>1. run.rev \in 1..run.head
    BY <1>2 DEF Upgrading
  <2>2. run.head \in 1..28
    BY <1>2
  <2>3. QED
    BY <2>1, <2>2
<1>4. Len(Scripts[run.rev]) \in Nat
  BY <1>3, ScriptsAreScripts
<1>5. Structure(Schema(mine)) = SchemaOf[run.rev]
  <2>1. PICK m \in 0..Len(Scripts[run.rev]) :
          m >= run.pc - 1 /\ Structure(Schema(mine)) = After(run.rev, m)
    BY <1>2 DEF Upgrading
  <2>2. m = Len(Scripts[run.rev])
    BY <1>2, <1>4, <2>1
  <2>3. QED
    BY <1>3, <2>1, <2>2, AfterTheLast
<1>6. Converged(run.rev, Schema(mine))
  BY <1>3, <1>5, SwapsConverge
<1>7. mine' = Database(run.rev, Schema(mine))
  BY <1>1, <1>6 DEF Stamp
<1>8. mine'.version = run.rev /\ Schema(mine') = Schema(mine)
  BY <1>7, SchemaOfDatabase
<1>9. RowsFit(Schema(mine)) /\ (Rows(Catalog) \in Schema(mine) => run.rev >= 26)
  BY <1>2, <1>3 DEF Upgrading
<1>10. CASE run.rev = run.head
  <2>1. run' = [run EXCEPT !.at = "checking", !.open = TRUE]
    BY <1>1, <1>6, <1>10 DEF Stamp
  <2>2. IsRun(run)
    BY <1>1 DEF UpgradeInv
  <2>3. IsRun(run') /\ run'.at = "checking" /\ run'.head = run.head /\ run'.open = TRUE
    BY <2>1, <2>2 DEF IsRun
  <2>4. Checking'
    BY <1>5, <1>8, <1>9, <1>10, <2>3 DEF Checking
  <2>5. Adoptable(disk')
    BY <1>2
  <2>6. QED
    BY <1>2, <2>3, <2>4, <2>5 DEF UpgradeInv, InterruptedUpgradeResumes, LastRevision
<1>11. CASE run.rev # run.head
  <2>1. run' = [run EXCEPT !.rev = run.rev + 1, !.pc = 0, !.open = TRUE]
    BY <1>1, <1>6, <1>11 DEF Stamp
  <2>2. IsRun(run)
    BY <1>1 DEF UpgradeInv
  <2>3. /\ IsRun(run') /\ run'.at = "upgrading" /\ run'.head = run.head /\ run'.rev = run.rev + 1
        /\ run'.pc = 0 /\ run'.open = TRUE
    BY <1>2, <2>1, <2>2 DEF IsRun
  <2>4. /\ run.rev + 1 \in 1..28 /\ run.rev + 1 \in 1..run.head /\ (run.rev + 1) - 1 = run.rev
        /\ run.rev + 1 # 1
    <3>1. run.head \in 1..28
      BY <1>2
    <3>2. QED
      BY <3>1, <1>3, <1>11
  <2>5. Len(Scripts[run.rev + 1]) \in Nat
    BY <2>4, ScriptsAreScripts
  <2>6. Structure(Schema(mine)) = After(run.rev + 1, 0)
    BY <1>5, <2>4, BeforeTheFirst
  <2>7. \E k \in 0..Len(Scripts[run.rev + 1]) :
          /\ k >= 0 - 1 /\ (TRUE /\ 0 = 0 => k = 0)
          /\ Structure(Schema(mine)) = After(run.rev + 1, k)
    BY <2>5, <2>6
  <2>8. Rows(Catalog) \in Schema(mine) => run.rev + 1 > 26
    BY <1>3, <1>9
  <2>9. Upgrading'
    BY <1>8, <1>9, <2>3, <2>4, <2>5, <2>7, <2>8 DEF Upgrading
  <2>10. Adoptable(disk')
    BY <1>2
  <2>11. QED
    BY <1>2, <2>3, <2>9, <2>10 DEF UpgradeInv, InterruptedUpgradeResumes, LastRevision
<1>12. QED
  BY <1>10, <1>11

(* A start keeps what it does not touch, and adopts a database that stands  *)
(* exactly where v0.22.0 left it.                                           *)
StartsAt(at, head, rev, open) ==
  /\ IsRun(run') /\ run'.at = at /\ run'.head = head /\ run'.rev = rev
  /\ run'.pc = 0 /\ run'.open = open

LEMMA UpgradingFrom ==
  ASSUME UpgradeInv, NEW head \in 1..28, disk.version \in 0..(head - 1),
         run.at = "idle", mine' = mine, disk' = disk, data' = data,
         StartsAt("upgrading", head, disk.version + 1, FALSE),
         disk.version = 0 => Absent(Schema(disk), DomainTables)
  PROVE  UpgradeInv'
<1>1. Adoptable(disk) /\ mine = disk
  BY DEF UpgradeInv
<1>2. /\ disk.version + 1 \in 1..head /\ disk.version + 1 \in 1..28
      /\ (disk.version + 1) - 1 = disk.version /\ disk.version < LastRevision
  BY DEF LastRevision
<1>3. PICK m \in 0..Len(Scripts[disk.version + 1]) :
        Structure(Schema(disk)) = After(disk.version + 1, m)
  BY <1>1, <1>2 DEF Adoptable
<1>4. Len(Scripts[disk.version + 1]) \in Nat
  BY <1>2, ScriptsAreScripts
<1>5. \E k \in 0..Len(Scripts[disk.version + 1]) :
        /\ k >= 0 - 1 /\ (FALSE /\ 0 = 0 => k = 0)
        /\ Structure(Schema(mine)) = After(disk.version + 1, k)
  BY <1>1, <1>3, <1>4
<1>6. Rows(Catalog) \in Schema(mine) => disk.version + 1 > 26
  BY <1>1 DEF Adoptable
<1>7. RowsFit(Schema(mine)) /\ mine.version = disk.version
  BY <1>1 DEF Adoptable
<1>8. disk.version + 1 = 1 => disk.version = 0
  OBVIOUS
<1>9. 0 \in 0..(Len(Scripts[disk.version + 1]) + 1)
  BY <1>4
<1>10. /\ run'.rev = disk.version + 1 /\ run'.pc = 0 /\ run'.open = FALSE /\ run'.head = head
       /\ IsRun(run') /\ run'.at = "upgrading"
  BY DEF StartsAt
<1>11. Upgrading'
  <2>1. run'.rev \in 1..run'.head /\ mine'.version = run'.rev - 1
    BY <1>2, <1>7, <1>10
  <2>2. run'.pc \in 0..(Len(Scripts[run'.rev]) + 1)
    BY <1>9, <1>10
  <2>3. \E k \in 0..Len(Scripts[run'.rev]) :
          /\ k >= run'.pc - 1 /\ (run'.open /\ run'.pc = 0 => k = 0)
          /\ Structure(Schema(mine')) = After(run'.rev, k)
    BY <1>5, <1>10
  <2>4. RowsFit(Schema(mine')) /\ (Rows(Catalog) \in Schema(mine') => run'.rev > 26)
    BY <1>6, <1>7, <1>10
  <2>5. run'.rev = 1 => Absent(Schema(mine'), DomainTables)
    BY <1>1, <1>8, <1>10
  <2>6. ~(run'.pc > 12)
    BY <1>10
  <2>7. QED
    BY <2>1, <2>2, <2>3, <2>4, <2>5, <2>6 DEF Upgrading
<1>12. Adoptable(disk') /\ mine' = disk'
  BY <1>1
<1>13. QED
  BY <1>10, <1>11, <1>12 DEF UpgradeInv, InterruptedUpgradeResumes, LastRevision

LEMMA LegacyIsBaseline ==
  ASSUME Adoptable(disk), disk.version = 0, LegacyCompatible(Schema(disk))
  PROVE  Structure(Schema(disk)) = SchemaOf[1]
<1>1. \E m \in 0..Len(Scripts[0 + 1]) : Structure(Schema(disk)) = After(0 + 1, m)
  BY DEF Adoptable, LastRevision
<1>2. 0 + 1 = 1
  OBVIOUS
<1>3. Structure(Schema(disk)) \subseteq SchemaOf[1]
  BY <1>1, <1>2, FirstObjects
<1>4. SchemaOf[1] \subseteq Structure(Schema(disk))
  BY DEF LegacyCompatible, Adoptable
<1>5. QED
  BY <1>3, <1>4

LEMMA StartKeeps == ASSUME NEW head \in Heads PROVE UpgradeInv /\ Start(head) => UpgradeInv'
<1>1. SUFFICES ASSUME UpgradeInv, Start(head) PROVE UpgradeInv'
  OBVIOUS
<1>2. head \in 1..28
  BY HeadsAssumption DEF LastRevision
<1>3. /\ run.at = "idle" /\ mine = disk /\ disk' = disk /\ data' = data /\ Adoptable(disk)
      /\ disk.version \in 0..28
  BY <1>1 DEF UpgradeInv, Start, Adoptable, LastRevision
<1>4. CASE disk.version > head /\ run' = [at |-> "refused", head |-> head, rev |-> 0, pc |-> 0,
                                          open |-> FALSE, why |-> "newer"] /\ mine' = mine
  <2>1. IsRun(run') /\ run'.at = "refused" /\ run'.head = head /\ run'.open = FALSE /\ run'.why = "newer"
    BY <1>4 DEF IsRun
  <2>2. Adoptable(disk') /\ mine' = disk' /\ disk'.version > head
    BY <1>3, <1>4
  <2>3. QED
    BY <2>1, <2>2 DEF UpgradeInv, InterruptedUpgradeResumes
<1>5. CASE disk.version = head /\ run' = [at |-> "checking", head |-> head, rev |-> 0, pc |-> 0,
                                          open |-> FALSE, why |-> ""] /\ mine' = mine
  <2>1. IsRun(run') /\ run'.at = "checking" /\ run'.head = head /\ run'.open = FALSE
    BY <1>5 DEF IsRun
  <2>2. Adoptable(disk') /\ mine' = disk' /\ mine'.version = head
    BY <1>3, <1>5
  <2>3. Checking'
    BY <2>1, <2>2 DEF Checking
  <2>4. QED
    BY <1>2, <2>1, <2>2, <2>3 DEF UpgradeInv, InterruptedUpgradeResumes, LastRevision
<1>6. CASE /\ disk.version \in 1..(head - 1) /\ mine' = mine
           /\ run' = [at |-> "upgrading", head |-> head, rev |-> disk.version + 1, pc |-> 0,
                      open |-> FALSE, why |-> ""]
  <2>1. StartsAt("upgrading", head, disk.version + 1, FALSE)
    BY <1>6 DEF StartsAt, IsRun
  <2>2. disk.version \in 0..(head - 1) /\ disk.version # 0
    <3>1. disk.version \in 1..(head - 1)
      BY <1>6
    <3>2. QED
      BY <3>1, <1>2
  <2>3. QED
    BY <1>1, <1>2, <1>3, <1>6, <2>1, <2>2, UpgradingFrom
<1>7. CASE /\ disk.version = 0 /\ {t \in DomainTables : HasTable(Schema(disk), t)} = {}
           /\ mine' = mine
           /\ run' = [at |-> "upgrading", head |-> head, rev |-> 1, pc |-> 0,
                      open |-> FALSE, why |-> ""]
  <2>1. disk.version + 1 = 1 /\ disk.version \in 0..(head - 1)
    <3>1. disk.version = 0
      BY <1>7
    <3>2. QED
      BY <3>1, <1>2
  <2>2. StartsAt("upgrading", head, disk.version + 1, FALSE)
    BY <1>7, <2>1 DEF StartsAt, IsRun
  <2>3. Absent(Schema(disk), DomainTables)
    BY <1>7 DEF Absent
  <2>4. QED
    BY <1>1, <1>2, <1>3, <1>7, <2>1, <2>2, <2>3, UpgradingFrom
<1>8. CASE /\ disk.version = 0 /\ mine' = mine
           /\ run' = [at |-> "refused", head |-> head, rev |-> 0, pc |-> 0,
                      open |-> FALSE, why |-> "partial"]
  <2>1. IsRun(run') /\ run'.at = "refused" /\ run'.head = head /\ run'.open = FALSE /\ run'.why = "partial"
    BY <1>8 DEF IsRun
  <2>2. Schema(disk) \subseteq SchemaOf[1]
    <3>1. \E m \in 0..Len(Scripts[0 + 1]) : Structure(Schema(disk)) = After(0 + 1, m)
      BY <1>3, <1>8 DEF Adoptable, LastRevision
    <3>2. 0 + 1 = 1
      OBVIOUS
    <3>3. Structure(Schema(disk)) = Schema(disk)
      BY <1>3, <1>8 DEF Adoptable
    <3>4. QED
      BY <3>1, <3>2, <3>3, FirstObjects
  <2>3. Adoptable(disk') /\ mine' = disk' /\ disk'.version = 0 /\ Schema(disk') \subseteq SchemaOf[1]
    BY <1>3, <1>8, <2>2
  <2>4. QED
    BY <2>1, <2>3 DEF UpgradeInv, InterruptedUpgradeResumes
<1>9. CASE /\ disk.version = 0 /\ LegacyCompatible(Schema(disk))
           /\ mine' = Database(1, Schema(mine))
           /\ run' = IF head = 1
                     THEN [at |-> "checking", head |-> head, rev |-> 0, pc |-> 0,
                           open |-> TRUE, why |-> ""]
                     ELSE [at |-> "upgrading", head |-> head, rev |-> 2, pc |-> 0,
                           open |-> TRUE, why |-> ""]
  <2>1. mine'.version = 1 /\ Schema(mine') = Schema(disk)
    BY <1>3, <1>9, SchemaOfDatabase
  <2>2. Structure(Schema(mine')) = SchemaOf[1]
    BY <1>3, <1>9, <2>1, LegacyIsBaseline
  <2>3. RowsFit(Schema(mine')) /\ Rows(Catalog) \notin Schema(mine')
    <3>0. disk.version = 0
      BY <1>9
    <3>1. disk.version = 0 /\ Adoptable(disk) /\ ~(0 >= 26)
      BY <1>3, <3>0
    <3>2. RowsFit(Schema(disk)) /\ Rows(Catalog) \notin Schema(disk)
      BY <3>1 DEF Adoptable
    <3>3. QED
      BY <2>1, <3>2
  <2>4. Adoptable(disk')
    BY <1>3
  <2>5. CASE head = 1
    <3>1. IsRun(run') /\ run'.at = "checking" /\ run'.head = 1 /\ run'.open = TRUE
      BY <1>9, <2>5 DEF IsRun
    <3>2. Checking'
      BY <2>1, <2>2, <2>3, <3>1 DEF Checking
    <3>3. 1 \in 1..28
      OBVIOUS
    <3>4. QED
      BY <2>4, <3>1, <3>2, <3>3 DEF UpgradeInv, InterruptedUpgradeResumes, LastRevision
  <2>6. CASE head # 1
    <3>1. /\ IsRun(run') /\ run'.at = "upgrading" /\ run'.head = head /\ run'.rev = 2 /\ run'.pc = 0
          /\ run'.open = TRUE
      BY <1>9, <2>6 DEF IsRun
    <3>2. 2 \in 1..head /\ 2 \in 1..28 /\ 2 - 1 = 1
      BY <1>2, <2>6
    <3>3. Len(Scripts[2]) \in Nat
      BY <3>2, ScriptsAreScripts
    <3>4. Structure(Schema(mine')) = After(2, 0)
      <4>1. After(2, 0) = SchemaOf[2 - 1]
        BY <3>2, BeforeTheFirst
      <4>2. QED
        BY <2>2, <3>2, <4>1
    <3>5. Upgrading'
      <4>1. run'.rev \in 1..run'.head /\ mine'.version = run'.rev - 1
        BY <2>1, <3>1, <3>2
      <4>2. run'.pc \in 0..(Len(Scripts[run'.rev]) + 1)
        BY <3>1, <3>3
      <4>3. \E k \in 0..Len(Scripts[run'.rev]) :
              /\ k >= run'.pc - 1 /\ (run'.open /\ run'.pc = 0 => k = 0)
              /\ Structure(Schema(mine')) = After(run'.rev, k)
        BY <3>1, <3>3, <3>4
      <4>4. QED
        BY <2>3, <3>1, <4>1, <4>2, <4>3 DEF Upgrading
    <3>6. QED
      BY <1>2, <2>4, <3>1, <3>5 DEF UpgradeInv, InterruptedUpgradeResumes, LastRevision
  <2>7. QED
    BY <2>5, <2>6
<1>10. QED
  BY <1>1, <1>4, <1>5, <1>6, <1>7, <1>8, <1>9 DEF Start, StartOn

(* A statement that did its part.                                           *)
LEMMA RevisionsBelow ==
  ASSUME NEW h \in 1..28, NEW r \in 1..h
  PROVE  r \in 1..28
OBVIOUS

LEMMA UpgradingRuns ==
  ASSUME UpgradeInv, run.at = "upgrading"
  PROVE  /\ Upgrading /\ run.rev \in 1..28 /\ mine.version = run.rev - 1
         /\ run.head \in 1..28 /\ Len(Scripts[run.rev]) \in Nat
<1>1. Upgrading /\ run.head \in 1..28
  BY DEF UpgradeInv, LastRevision
<1>2. run.rev \in 1..run.head /\ mine.version = run.rev - 1
  BY <1>1 DEF Upgrading
<1>3. run.rev \in 1..28
  BY <1>1, <1>2, RevisionsBelow
<1>4. QED
  BY <1>1, <1>2, <1>3, ScriptsAreScripts

LEMMA VersionBelow ==
  ASSUME NEW r \in 1..28, NEW v, v = r - 1
  PROVE  v + 1 = r /\ v \in 0..28 /\ v < 28 /\ v # 28
OBVIOUS

CatalogFits ==
  Rows(Catalog) \in Schema(mine') =>
    \/ Rows(Catalog) \in Schema(mine) /\ (run.open => run'.open)
    \/ run.rev = 26 /\ run.pc = 3 /\ run'.open
ClosedFirst ==
  run.rev = 17 /\ run.pc >= 12 /\ data # "none" => LegacyActiveRows \in Schema(mine')
Advances ==
  /\ IsRun(run') /\ run'.at = "upgrading" /\ run'.head = run.head /\ run'.rev = run.rev
  /\ run'.pc = run.pc + 1 /\ run'.open \in BOOLEAN
  /\ mine'.version = mine.version
  /\ RowsFit(Schema(mine'))
  /\ CatalogFits
  /\ ClosedFirst
  /\ Adoptable(disk')
  /\ ~run'.open => mine' = disk'

LEMMA AdvanceKeeps ==
  ASSUME UpgradeInv, run.at = "upgrading", run.pc \in 1..Len(Scripts[run.rev]), data' = data,
         Advances, NEW k \in 0..Len(Scripts[run.rev]), k >= run.pc,
         Structure(Schema(mine')) = After(run.rev, k)
  PROVE  UpgradeInv'
<1>1. Upgrading /\ run.head \in 1..28
  BY DEF UpgradeInv, LastRevision
<1>2. run.rev \in 1..28
  BY UpgradingRuns
<1>3. Len(Scripts[run.rev]) \in Nat
  BY <1>2, ScriptsAreScripts
<1>4. /\ run'.head = run.head /\ run'.rev = run.rev /\ run'.pc = run.pc + 1
      /\ mine'.version = mine.version
  BY DEF Advances
<1>5. run'.rev \in 1..run'.head /\ mine'.version = run'.rev - 1
  BY <1>1, <1>4 DEF Upgrading
<1>6. run'.pc \in 0..(Len(Scripts[run'.rev]) + 1) /\ run'.pc # 0
  BY <1>3, <1>4
<1>7. \E j \in 0..Len(Scripts[run'.rev]) :
        /\ j >= run'.pc - 1 /\ (run'.open /\ run'.pc = 0 => j = 0)
        /\ Structure(Schema(mine')) = After(run'.rev, j)
  <2>1. k >= run'.pc - 1
    BY <1>3, <1>4
  <2>2. QED
    BY <1>4, <1>6, <2>1
<1>8. Rows(Catalog) \in Schema(mine') =>
        \/ run'.rev > 26
        \/ run'.rev = 26 /\ run'.pc > 3 /\ run'.open
  <2>1. SUFFICES ASSUME Rows(Catalog) \in Schema(mine')
                 PROVE  run.rev > 26 \/ (run.rev = 26 /\ run.pc + 1 > 3 /\ run'.open)
    BY <1>4
  <2>2. CASE run.rev = 26 /\ run.pc = 3 /\ run'.open
    BY <2>2
  <2>3. CASE Rows(Catalog) \in Schema(mine) /\ (run.open => run'.open)
    <3>1. run.rev > 26 \/ (run.rev = 26 /\ run.pc > 3 /\ run.open)
      BY <1>1, <2>3 DEF Upgrading
    <3>2. run.pc > 3 => run.pc + 1 > 3
      BY <1>3
    <3>3. QED
      BY <2>3, <3>1, <3>2
  <2>4. QED
    BY <2>1, <2>2, <2>3 DEF Advances, CatalogFits
<1>9. run'.rev = 17 /\ run'.pc > 12 /\ data' # "none" => LegacyActiveRows \in Schema(mine')
  <2>1. run.pc + 1 > 12 => run.pc >= 12
    BY <1>3
  <2>2. QED
    BY <1>4, <2>1 DEF Advances, ClosedFirst
<1>10. RowsFit(Schema(mine'))
  BY DEF Advances
<1>11. Upgrading'
  BY <1>5, <1>6, <1>7, <1>8, <1>9, <1>10 DEF Upgrading
<1>12. QED
  BY <1>1, <1>11 DEF UpgradeInv, Advances, InterruptedUpgradeResumes, LastRevision

LEMMA DdlKeeps ==
  ASSUME UpgradeInv, run.at = "upgrading", run.pc \in 1..Len(Scripts[run.rev]), data' = data,
         NEW schema, Ddl(schema), NEW k \in 0..Len(Scripts[run.rev]), k >= run.pc,
         Structure(schema) = After(run.rev, k), ~(run.rev = 17 /\ run.pc = 12),
         \A t : Rows(t) \in schema <=> Rows(t) \in Schema(mine),
         Structure(Schema(mine)) = Schema(mine) => Structure(schema) = schema
  PROVE  UpgradeInv'
<1>1. Upgrading /\ run.head \in 1..28 /\ IsRun(run) /\ run.open \in BOOLEAN /\ Adoptable(disk)
      /\ (~run.open => mine = disk)
  BY DEF UpgradeInv, LastRevision
<1>2. run.rev \in 1..28 /\ mine.version = run.rev - 1
  BY UpgradingRuns
<1>3. Len(Scripts[run.rev]) \in Nat
  BY <1>2, ScriptsAreScripts
<1>4. mine' = Database(mine.version, schema) /\ disk' = IF run.open THEN disk ELSE mine'
  BY DEF Ddl
<1>5. mine'.version = mine.version /\ Schema(mine') = schema
  BY <1>4, SchemaOfDatabase
<1>6. /\ IsRun(run') /\ run'.at = "upgrading" /\ run'.head = run.head /\ run'.rev = run.rev
      /\ run'.pc = run.pc + 1 /\ run'.open = run.open
  <2>1. run' = [run EXCEPT !.pc = run.pc + 1]
    BY DEF Ddl
  <2>2. QED
    BY <1>1, <2>1 DEF IsRun
<1>7. RowsFit(Schema(mine'))
  BY <1>1, <1>5 DEF Upgrading, RowsFit
<1>8. CatalogFits
  BY <1>5, <1>6 DEF CatalogFits
<1>9. ClosedFirst
  <2>1. SUFFICES ASSUME run.rev = 17, run.pc >= 12, data # "none" PROVE LegacyActiveRows \in schema
    BY <1>5 DEF ClosedFirst
  <2>2. run.pc > 12
    BY <2>1, <1>3
  <2>3. LegacyActiveRows \in Schema(mine)
    BY <1>1, <2>1, <2>2 DEF Upgrading
  <2>4. QED
    BY <2>3 DEF LegacyActiveRows
<1>10. Adoptable(disk') /\ (~run'.open => mine' = disk')
  <2>1. CASE run.open
    BY <1>1, <1>4, <1>6, <2>1
  <2>2. CASE ~run.open
    <3>1. disk' = mine' /\ mine = disk
      BY <1>1, <1>4, <2>2
    <3>2. mine'.version = run.rev - 1
      BY <1>2, <1>5
    <3>3. /\ mine'.version + 1 = run.rev /\ mine'.version \in 0..28
          /\ mine'.version < 28 /\ mine'.version # 28
      BY <1>2, <3>2, VersionBelow
    <3>4. \E m \in 0..Len(Scripts[mine'.version + 1]) :
            Structure(Schema(mine')) = After(mine'.version + 1, m)
      BY <1>5, <3>3
    <3>5. Rows(Catalog) \in Schema(mine') => mine'.version >= 26
      BY <1>1, <1>5, <3>1 DEF Adoptable
    <3>6. mine'.version = 0 => Structure(Schema(mine')) = Schema(mine')
      BY <1>1, <1>5, <3>1 DEF Adoptable
    <3>7. Adoptable(mine')
      BY <1>7, <3>3, <3>4, <3>5, <3>6 DEF Adoptable, LastRevision
    <3>8. QED
      BY <3>1, <3>7
  <2>3. QED
    BY <2>1, <2>2
<1>11. Advances
  BY <1>1, <1>5, <1>6, <1>7, <1>8, <1>9, <1>10 DEF Advances
<1>12. Structure(Schema(mine')) = After(run.rev, k)
  BY <1>5
<1>13. QED
  BY <1>11, <1>12, AdvanceKeeps

(* Rows are stored, or there are none to look at.                           *)
LEMMA WriteKeeps ==
  ASSUME UpgradeInv, run.at = "upgrading", run.pc \in 1..Len(Scripts[run.rev]), data' = data,
         disk' = disk, NEW s, Stores(run.rev, s), run.rev = 26 => run.pc = 3,
         NEW k \in 0..Len(Scripts[run.rev]), k >= run.pc,
         Structure(Schema(mine)) = After(run.rev, k),
         IF s.sent = "always" \/ data # "none"
         THEN /\ run' = [run EXCEPT !.pc = run.pc + 1, !.open = TRUE]
              /\ mine' = IF data = "none" THEN mine
                         ELSE Database(mine.version, Schema(mine) \cup {s.object})
         ELSE run' = [run EXCEPT !.pc = run.pc + 1] /\ mine' = mine
  PROVE  UpgradeInv'
<1>1. Upgrading /\ IsRun(run) /\ run.open \in BOOLEAN /\ Adoptable(disk)
      /\ (~run.open => mine = disk)
  BY DEF UpgradeInv
<1>2. \/ Schema(mine') = Schema(mine)
      \/ Schema(mine') = Schema(mine) \cup {s.object} /\ run'.open
  <2>1. CASE ~(s.sent = "always" \/ data # "none")
    BY <2>1
  <2>2. CASE (s.sent = "always" \/ data # "none") /\ data = "none"
    BY <2>2
  <2>3. CASE data # "none"
    <3>1. Schema(mine') = Schema(mine) \cup {s.object}
      BY <2>3, SchemaOfDatabase
    <3>2. run' = [run EXCEPT !.pc = run.pc + 1, !.open = TRUE]
      BY <2>3
    <3>3. run'.open = TRUE
      BY <1>1, <3>2 DEF IsRun
    <3>4. QED
      BY <3>1, <3>3
  <2>4. QED
    BY <2>1, <2>2, <2>3
<1>3. mine'.version = mine.version
  BY SchemaOfDatabase
<1>4. /\ IsRun(run') /\ run'.at = "upgrading" /\ run'.head = run.head /\ run'.rev = run.rev
      /\ run'.pc = run.pc + 1 /\ run'.open \in BOOLEAN /\ (run.open => run'.open)
  <2>1. CASE s.sent = "always" \/ data # "none"
    <3>1. run' = [run EXCEPT !.pc = run.pc + 1, !.open = TRUE]
      BY <2>1
    <3>2. QED
      BY <1>1, <3>1 DEF IsRun
  <2>2. CASE ~(s.sent = "always" \/ data # "none")
    <3>1. run' = [run EXCEPT !.pc = run.pc + 1]
      BY <2>2
    <3>2. QED
      BY <1>1, <3>1 DEF IsRun
  <2>3. QED
    BY <2>1, <2>2
<1>5. Structure(Schema(mine')) = After(run.rev, k)
  <2>1. s.object = Rows(s.object[1])
    BY DEF Stores
  <2>2. Structure(Schema(mine) \cup {s.object}) = Structure(Schema(mine))
    BY <2>1, StructureMoves
  <2>3. QED
    BY <1>2, <2>2
<1>6. RowsFit(Schema(mine'))
  BY <1>1, <1>2 DEF Upgrading, RowsFit, Stores
<1>7. CatalogFits
  <2>1. ASSUME Rows(Catalog) \in Schema(mine'), Rows(Catalog) \notin Schema(mine)
        PROVE  run.rev = 26 /\ run'.open
    BY <1>2, <2>1 DEF Stores
  <2>2. QED
    BY <1>4, <2>1 DEF CatalogFits
<1>8. ClosedFirst
  <2>1. SUFFICES ASSUME run.rev = 17, data # "none" PROVE LegacyActiveRows \in Schema(mine')
    BY DEF ClosedFirst
  <2>2. s.object = LegacyActiveRows /\ mine' = Database(mine.version, Schema(mine) \cup {s.object})
    BY <2>1 DEF Stores
  <2>3. QED
    BY <2>2, SchemaOfDatabase
<1>9. ~run'.open => mine' = disk'
  <2>1. CASE s.sent = "always" \/ data # "none"
    <3>1. run' = [run EXCEPT !.pc = run.pc + 1, !.open = TRUE]
      BY <2>1
    <3>2. run'.open = TRUE
      BY <1>1, <3>1 DEF IsRun
    <3>3. QED
      BY <3>2
  <2>2. CASE ~(s.sent = "always" \/ data # "none")
    BY <1>1, <1>4, <2>2
  <2>3. QED
    BY <2>1, <2>2
<1>10. Adoptable(disk')
  BY <1>1
<1>11. Advances
  BY <1>3, <1>4, <1>6, <1>7, <1>8, <1>9, <1>10 DEF Advances
<1>12. QED
  BY <1>5, <1>11, AdvanceKeeps

(* A check of the rows that finds nothing to refuse.                        *)
LEMMA PassKeeps ==
  ASSUME UpgradeInv, run.at = "upgrading", run.pc \in 1..Len(Scripts[run.rev]), data' = data,
         disk' = disk, mine' = mine, run' = [run EXCEPT !.pc = run.pc + 1],
         ~(run.rev = 17 /\ run.pc = 12),
         NEW k \in 0..Len(Scripts[run.rev]), k >= run.pc,
         Structure(Schema(mine)) = After(run.rev, k)
  PROVE  UpgradeInv'
<1>1. Upgrading /\ IsRun(run) /\ run.open \in BOOLEAN /\ Adoptable(disk)
      /\ (~run.open => mine = disk)
  BY DEF UpgradeInv
<1>2. /\ IsRun(run') /\ run'.at = "upgrading" /\ run'.head = run.head /\ run'.rev = run.rev
      /\ run'.pc = run.pc + 1 /\ run'.open = run.open
  BY <1>1 DEF IsRun
<1>3. RowsFit(Schema(mine')) /\ CatalogFits
  BY <1>1, <1>2 DEF Upgrading, CatalogFits
<1>4. ClosedFirst
  <2>1. SUFFICES ASSUME run.rev = 17, run.pc >= 12, data # "none" PROVE LegacyActiveRows \in Schema(mine)
    BY DEF ClosedFirst
  <2>2. run.pc \in 1..16
    BY <2>1, JobColumnsLead
  <2>3. run.pc > 12
    BY <2>1, <2>2
  <2>4. QED
    BY <1>1, <2>1, <2>3 DEF Upgrading
<1>5. Adoptable(disk') /\ (~run'.open => mine' = disk')
  BY <1>1, <1>2
<1>6. Advances
  BY <1>1, <1>2, <1>3, <1>4, <1>5 DEF Advances
<1>7. Structure(Schema(mine')) = After(run.rev, k)
  OBVIOUS
<1>8. QED
  BY <1>6, <1>7, AdvanceKeeps

LEMMA RowsAreNotDdl ==
  ASSUME NEW o, IsDdl(o)
  PROVE  \A t : Rows(t) # o
<1>1. \A t : Rows(t)[2] = "rows"
  BY DEF Rows
<1>2. o[2] # "rows"
  BY DEF IsDdl, Kinds
<1>3. QED
  BY <1>1, <1>2

(* A created or dropped object leaves the rows alone.                       *)
LEMMA DdlMoves ==
  ASSUME NEW s, NEW o, IsDdl(o)
  PROVE  /\ \A t : Rows(t) \in s \cup {o} <=> Rows(t) \in s
         /\ \A t : Rows(t) \in s \ {o} <=> Rows(t) \in s
         /\ Structure(s) = s => /\ Structure(s \cup {o}) = s \cup {o}
                                /\ Structure(s \ {o}) = s \ {o}
         /\ Structure(s \cup {o}) = Structure(s) \cup {o}
         /\ Structure(s \ {o}) = Structure(s) \ {o}
<1>1. \A t : Rows(t) # o
  BY RowsAreNotDdl
<1>2. /\ Structure(s \cup {o}) = Structure(s) \cup {o}
      /\ Structure(s \ {o}) = Structure(s) \ {o}
  BY StructureMoves
<1>3. QED
  BY <1>1, <1>2

LEMMA StatementKeeps == UpgradeInv /\ Statement => UpgradeInv'
<1> DEFINE s == Scripts[run.rev][run.pc]
<1>1. SUFFICES ASSUME UpgradeInv, Statement PROVE UpgradeInv'
  OBVIOUS
<1>2. run.at = "upgrading" /\ run.pc \in 1..Len(Scripts[run.rev]) /\ data' = data
  BY <1>1 DEF Statement
<1>3. Upgrading /\ run.rev \in 1..28
  BY <1>1, <1>2, UpgradingRuns
<1>4. PICK m \in 0..Len(Scripts[run.rev]) :
        m >= run.pc - 1 /\ Structure(Schema(mine)) = After(run.rev, m)
  BY <1>3 DEF Upgrading
<1>5. PICK k \in 0..Len(Scripts[run.rev]) :
        /\ k >= run.pc
        /\ s.op = "create" => After(run.rev, m) \cup {s.object} = After(run.rev, k)
        /\ s.op = "drop" => After(run.rev, m) \ {s.object} = After(run.rev, k)
        /\ s.op \notin {"create", "drop"} => After(run.rev, m) = After(run.rev, k)
  <2>1. run.rev \in 1..28 /\ run.pc \in 1..Len(Scripts[run.rev])
         /\ m \in 0..Len(Scripts[run.rev]) /\ m >= run.pc - 1
    BY <1>2, <1>3, <1>4
  <2>2. Moves(run.rev, run.pc, m)
    BY <2>1, NextStatement
  <2>3. QED
    BY <2>2, Zenon DEF Moves
<1>6. \/ s.op \in {"create", "drop"} /\ IsDdl(s.object)
      \/ Stores(run.rev, s) \/ Refuses(run.rev, s)
  BY <1>2, <1>3, StatementsAre
<1>7. run.rev = 17 /\ run.pc = 12 => s.op = "write"
  BY JobColumnsLead DEF Write
<1>8. /\ s.op = "create" => Ddl(Schema(mine) \cup {s.object})
      /\ s.op = "drop" => Ddl(Schema(mine) \ {s.object})
      /\ s.op = "write" =>
           /\ IF s.sent = "always" \/ data # "none"
              THEN /\ run' = [run EXCEPT !.pc = run.pc + 1, !.open = TRUE]
                   /\ mine' = IF data = "none" THEN mine
                              ELSE Database(mine.version, Schema(mine) \cup {s.object})
              ELSE run' = [run EXCEPT !.pc = run.pc + 1] /\ mine' = mine
           /\ disk' = disk
      /\ s.op = "refuse" =>
           /\ IF data = s.rows /\ s.unless \notin Schema(mine)
              THEN Refused("rows")
              ELSE run' = [run EXCEPT !.pc = run.pc + 1] /\ mine' = mine
           /\ disk' = disk
  BY <1>1 DEF Statement
<1> HIDE DEF s
<1>9. CASE s.op = "create" /\ IsDdl(s.object)
  <2> DEFINE schema == Schema(mine) \cup {s.object}
  <2>1. Ddl(schema)
    BY <1>8, <1>9
  <2>2. Structure(schema) = After(run.rev, k)
    <3>1. Structure(schema) = Structure(Schema(mine)) \cup {s.object}
      BY <1>9, DdlMoves
    <3>2. QED
      BY <1>4, <1>5, <1>9, <3>1
  <2>3. /\ \A t : Rows(t) \in schema <=> Rows(t) \in Schema(mine)
        /\ Structure(Schema(mine)) = Schema(mine) => Structure(schema) = schema
    BY <1>9, DdlMoves
  <2>4. ~(run.rev = 17 /\ run.pc = 12)
    BY <1>7, <1>9
  <2> HIDE DEF schema
  <2>5. QED
    BY <1>1, <1>2, <1>5, <2>1, <2>2, <2>3, <2>4, DdlKeeps
<1>10. CASE s.op = "drop" /\ IsDdl(s.object)
  <2> DEFINE schema == Schema(mine) \ {s.object}
  <2>1. Ddl(schema)
    BY <1>8, <1>10
  <2>2. Structure(schema) = After(run.rev, k)
    <3>1. Structure(schema) = Structure(Schema(mine)) \ {s.object}
      BY <1>10, DdlMoves
    <3>2. QED
      BY <1>4, <1>5, <1>10, <3>1
  <2>3. /\ \A t : Rows(t) \in schema <=> Rows(t) \in Schema(mine)
        /\ Structure(Schema(mine)) = Schema(mine) => Structure(schema) = schema
    BY <1>10, DdlMoves
  <2>4. ~(run.rev = 17 /\ run.pc = 12)
    BY <1>7, <1>10
  <2> HIDE DEF schema
  <2>5. QED
    BY <1>1, <1>2, <1>5, <2>1, <2>2, <2>3, <2>4, DdlKeeps
<1>11. CASE Stores(run.rev, s)
  <2>1. s.op = "write"
    BY <1>11 DEF Stores
  <2>2. run.rev = 26 => run.pc = 3
    BY <1>2, <2>1, SeedsLast DEF s
  <2>3. Structure(Schema(mine)) = After(run.rev, k)
    BY <1>4, <1>5, <2>1
  <2>4. /\ IF s.sent = "always" \/ data # "none"
           THEN /\ run' = [run EXCEPT !.pc = run.pc + 1, !.open = TRUE]
                /\ mine' = IF data = "none" THEN mine
                           ELSE Database(mine.version, Schema(mine) \cup {s.object})
           ELSE run' = [run EXCEPT !.pc = run.pc + 1] /\ mine' = mine
        /\ disk' = disk
    BY <1>8, <2>1
  <2>5. QED
    BY <1>1, <1>2, <1>5, <1>11, <2>2, <2>3, <2>4, WriteKeeps
<1>12. CASE Refuses(run.rev, s)
  <2>1. s.op = "refuse"
    BY <1>12 DEF Refuses
  <2>2. disk' = disk /\ Structure(Schema(mine)) = After(run.rev, k)
    BY <1>4, <1>5, <1>8, <2>1
  <2>3. CASE data = s.rows /\ s.unless \notin Schema(mine)
    <3>1. Refused("rows")
      BY <1>8, <2>1, <2>3
    <3>2. ASSUME run.rev = 17, s.rows = "active pair", s.unless = LegacyActiveRows PROVE FALSE
      <4>1. run.pc \in 1..16 /\ (s.op = "refuse" => run.pc = 14)
        BY <1>2, <3>2, JobColumnsLead DEF s
      <4>2. run.pc > 12
        BY <2>1, <4>1
      <4>3. data # "none"
        BY <2>3, <3>2
      <4>4. LegacyActiveRows \in Schema(mine)
        BY <1>3, <3>2, <4>2, <4>3 DEF Upgrading
      <4>5. QED
        BY <2>3, <3>2, <4>4
    <3>3. data \in {"doubled transactions", "doubled actions"}
      BY <1>12, <2>3, <3>2 DEF Refuses
    <3>4. "rows" = "rows" /\ data \in {"doubled transactions", "doubled actions"}
      BY <3>3
    <3>5. QED
      BY <1>1, <1>2, <2>2, <3>1, <3>4, RefusalKeeps
  <2>4. CASE ~(data = s.rows /\ s.unless \notin Schema(mine))
    <3>1. run' = [run EXCEPT !.pc = run.pc + 1] /\ mine' = mine
      BY <1>8, <2>1, <2>4
    <3>2. ~(run.rev = 17 /\ run.pc = 12)
      BY <1>7, <2>1
    <3>3. QED
      BY <1>1, <1>2, <1>5, <2>2, <3>1, <3>2, PassKeeps
  <2>5. QED
    BY <2>3, <2>4
<1>13. QED
  BY <1>6, <1>9, <1>10, <1>11, <1>12

-----------------------------------------------------------------------------
LEMMA UpgradeKeeps == UpgradeInv /\ [UpgradeNext]_upgradeVars => UpgradeInv'
<1>1. SUFFICES ASSUME UpgradeInv, [UpgradeNext]_upgradeVars PROVE UpgradeInv'
  OBVIOUS
<1>2. ASSUME NEW h \in Heads, Start(h) PROVE UpgradeInv'
  BY <1>1, <1>2, StartKeeps
<1>3. ASSUME UNCHANGED upgradeVars PROVE UpgradeInv'
  BY <1>1, <1>3 DEF upgradeVars, UpgradeInv, Upgrading, Checking, InterruptedUpgradeResumes
<1>4. QED
  BY <1>1, <1>2, <1>3, PreflightKeeps, StatementKeeps, StampKeeps, CheckKeeps, CrashKeeps, StopKeeps
     DEF UpgradeNext

(* The upgrade of run_database_migrations: wherever it died, the next start *)
(* adopts what it finds and goes on to the head, or is refused for one of   *)
(* the reasons an operator is told: a database of a newer image, rows that  *)
(* revision 0003 or 0005 may not choose between, a creation that never      *)
(* ended, a fragment of a revision that adopts none (0008 to 0014), or an   *)
(* image older than the upgrade that died.                                  *)
THEOREM UpgradesResume == UpgradeSpec => []InterruptedUpgradeResumes
<1>1. UpgradeInv => InterruptedUpgradeResumes
  BY DEF UpgradeInv
<1>2. QED
  BY <1>1, UpgradeStarts, UpgradeKeeps, PTL DEF UpgradeSpec

(* The two index swaps (0020 and 0021) build the new unique index before    *)
(* they drop the old one: whatever statement an upgrade dies after, a       *)
(* committed database at 0012 or later has one of the three.                *)
LEMMA AdoptableIsIndexed == Adoptable(disk) => ProofsStayUnique
<1>1. SUFFICES ASSUME Adoptable(disk), disk.version >= 12
               PROVE  \/ "boc" \in IndexGroups(Schema(disk), Proofs)
                      \/ "trust" \in IndexGroups(Schema(disk), Proofs)
                      \/ "policy" \in IndexGroups(Schema(disk), Proofs)
  BY DEF ProofsStayUnique
<1>2. disk.version \in 0..28
  BY <1>1 DEF Adoptable, LastRevision
<1>3. \E r \in 13..28 : \E m \in 0..Len(Scripts[r]) : Structure(Schema(disk)) = After(r, m)
  <2>1. CASE disk.version = 28
    <3>1. 28 \in 1..28 /\ 28 \in 13..28
      OBVIOUS
    <3>2. Len(Scripts[28]) \in Nat
      BY <3>1, ScriptsAreScripts
    <3>3. Structure(Schema(disk)) = After(28, Len(Scripts[28]))
      BY <1>1, <2>1, <3>1, AfterTheLast DEF Adoptable, LastRevision
    <3>4. Len(Scripts[28]) \in 0..Len(Scripts[28])
      BY <3>2
    <3>5. QED
      BY <3>1, <3>3, <3>4
  <2>2. CASE disk.version # 28
    <3>1. disk.version < 28 /\ disk.version + 1 \in 13..28
      BY <1>1, <1>2, <2>2
    <3>2. \E m \in 0..Len(Scripts[disk.version + 1]) :
            Structure(Schema(disk)) = After(disk.version + 1, m)
      BY <1>1, <3>1 DEF Adoptable, LastRevision
    <3>3. QED
      BY <3>1, <3>2
  <2>3. QED
    BY <2>1, <2>2
<1>4. PICK r \in 13..28 : \E m \in 0..Len(Scripts[r]) : Structure(Schema(disk)) = After(r, m)
  BY <1>3
<1>5. /\ r <= 19 => Boc \in Schema(disk)
      /\ r = 20 => Boc \in Schema(disk) \/ Trust \in Schema(disk)
      /\ r = 21 => Trust \in Schema(disk) \/ Policy \in Schema(disk)
      /\ r > 21 => Policy \in Schema(disk)
  BY <1>4, IndexesStay
<1>6. r <= 19 \/ r = 20 \/ r = 21 \/ r > 21
  OBVIOUS
<1>7. Boc \in Schema(disk) \/ Trust \in Schema(disk) \/ Policy \in Schema(disk)
  BY <1>5, <1>6
<1>8. QED
  BY <1>7, GroupsOfIndexes

(* At no moment, between two statements or after a crash, is a committed    *)
(* database of 0012 or later without a unique index that keeps a            *)
(* transaction from having two proofs of one kind (upgrade of 0012, 0020    *)
(* and 0021).                                                               *)
THEOREM ProofsAreUnique == UpgradeSpec => []ProofsStayUnique
<1>1. UpgradeInv => ProofsStayUnique
  BY AdoptableIsIndexed DEF UpgradeInv
<1>2. QED
  BY <1>1, UpgradeStarts, UpgradeKeeps, PTL DEF UpgradeSpec
====
