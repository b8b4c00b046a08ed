-------------------------- MODULE CaseReads_proofs --------------------------
(***************************************************************************)
(* What a reader of a Wallet Case may rely on while the case moves, for    *)
(* every provider row, every query, every limit and every number of        *)
(* syncs, attempts, stored reports and requests in flight.                 *)
(***************************************************************************)
EXTENDS CaseReads, FiniteSetTheorems, SequenceTheorems, TLAPS

-----------------------------------------------------------------------------
(* Sets in a strict total order.                                            *)

StrictTotalOrder(S, R) ==
  /\ \A x \in S : <<x, x>> \notin R
  /\ \A x, y \in S : x # y => <<x, y>> \in R \/ <<y, x>> \in R
  /\ \A x, y, z \in S : <<x, y>> \in R /\ <<y, z>> \in R => <<x, z>> \in R

BelowIn(S, R, x) == {y \in S : <<y, x>> \in R}

(* What is lower has fewer elements below it.                               *)
LEMMA RankGrows ==
  ASSUME NEW S, NEW R, IsFiniteSet(S), StrictTotalOrder(S, R), NEW x \in S, NEW y \in S, <<x, y>> \in R
  PROVE  Cardinality(BelowIn(S, R, x)) < Cardinality(BelowIn(S, R, y))
<1>1. BelowIn(S, R, x) \subseteq BelowIn(S, R, y)
  BY Zenon DEF BelowIn, StrictTotalOrder
<1>2. x \in BelowIn(S, R, y) /\ x \notin BelowIn(S, R, x)
  BY Zenon DEF BelowIn, StrictTotalOrder
<1>3. IsFiniteSet(BelowIn(S, R, y))
  BY FS_Subset, Zenon DEF BelowIn
<1>4. IsFiniteSet(BelowIn(S, R, x))
  BY FS_Subset, Zenon DEF BelowIn
<1>5. /\ Cardinality(BelowIn(S, R, x)) <= Cardinality(BelowIn(S, R, y))
      /\ Cardinality(BelowIn(S, R, y)) = Cardinality(BelowIn(S, R, x)) => BelowIn(S, R, y) = BelowIn(S, R, x)
  BY <1>1, <1>3, FS_Subset, Zenon
<1>6. Cardinality(BelowIn(S, R, x)) \in Nat /\ Cardinality(BelowIn(S, R, y)) \in Nat
  BY <1>3, <1>4, FS_CardinalityType, Zenon
<1>7. BelowIn(S, R, y) # BelowIn(S, R, x)
  BY <1>2, Zenon
<1> HIDE DEF BelowIn
<1>8. QED
  BY <1>5, <1>6, <1>7

(* Every number below the number of elements is the rank of one of them.    *)
LEMMA Ranks ==
  ASSUME NEW S, NEW R, IsFiniteSet(S), StrictTotalOrder(S, R)
  PROVE  /\ Cardinality(S) \in Nat
         /\ \A n \in 1..Cardinality(S) : \E x \in S : Cardinality(BelowIn(S, R, x)) = n - 1
         /\ \A x, y \in S : Cardinality(BelowIn(S, R, x)) = Cardinality(BelowIn(S, R, y)) => x = y
<1> DEFINE N == Cardinality(S)
           T == 1..N
           rank == [x \in S |-> Cardinality(BelowIn(S, R, x)) + 1]
<1>1. N \in Nat
  BY FS_CardinalityType, Zenon
<1>2. ASSUME NEW x \in S PROVE Cardinality(BelowIn(S, R, x)) \in Nat /\ Cardinality(BelowIn(S, R, x)) < N
  <2>1. BelowIn(S, R, x) \in SUBSET S /\ BelowIn(S, R, x) # S
    BY Zenon DEF BelowIn, StrictTotalOrder
  <2>2. /\ IsFiniteSet(BelowIn(S, R, x)) /\ Cardinality(BelowIn(S, R, x)) <= Cardinality(S)
        /\ Cardinality(S) = Cardinality(BelowIn(S, R, x)) => S = BelowIn(S, R, x)
    BY <2>1, FS_Subset, Zenon
  <2>3. Cardinality(BelowIn(S, R, x)) \in Nat
    BY <2>2, FS_CardinalityType, Zenon
  <2> HIDE DEF N
  <2>4. N = Cardinality(S)
    BY DEF N
  <2>5. QED
    BY <1>1, <2>1, <2>2, <2>3, <2>4
<1>3. ASSUME NEW x \in S, NEW y \in S, Cardinality(BelowIn(S, R, x)) = Cardinality(BelowIn(S, R, y))
      PROVE  x = y
  <2>1. CASE <<x, y>> \in R
    BY <2>1, <1>2, <1>3, RankGrows
  <2>2. CASE <<y, x>> \in R
    BY <2>2, <1>2, <1>3, RankGrows
  <2>3. QED
    BY <2>1, <2>2, Zenon DEF StrictTotalOrder
<1> HIDE DEF N
<1>4. rank \in Injection(S, T)
  <2>1. \A x \in S : rank[x] = Cardinality(BelowIn(S, R, x)) + 1
    OBVIOUS
  <2>2. \A x \in S : Cardinality(BelowIn(S, R, x)) + 1 \in T
    BY <1>1, <1>2
  <2>3. rank \in [S -> T]
    BY <2>2
  <2>4. \A x, y \in S : rank[x] = rank[y] => x = y
    <3>1. SUFFICES ASSUME NEW x \in S, NEW y \in S, rank[x] = rank[y] PROVE x = y
      BY Zenon
    <3>2. Cardinality(BelowIn(S, R, x)) = Cardinality(BelowIn(S, R, y))
      <4> HIDE DEF rank
      <4>1. QED
        BY <3>1, <2>1, <1>2
    <3>3. QED
      BY <3>2, <1>3, Zenon
  <2>5. DOMAIN rank = S
    BY Zenon
  <2> HIDE DEF rank, T
  <2>6. QED
    BY <2>3, <2>4, <2>5, Zenon DEF Injection, IsInjective
<1>5. IsFiniteSet(T) /\ Cardinality(T) = N
  <2>1. 1 \in Int /\ N \in Int
    BY <1>1
  <2>2. IsFiniteSet(1..N) /\ Cardinality(1..N) = IF 1 > N THEN 0 ELSE N - 1 + 1
    BY <2>1, FS_Interval
  <2>3. QED
    BY <1>1, <2>2 DEF T
<1>6. rank \in Surjection(S, T)
  <2> HIDE DEF rank, T
  <2>1. Cardinality(S) = Cardinality(T)
    BY <1>5, Zenon DEF N
  <2>2. QED
    BY <1>4, <1>5, <2>1, FS_Injection, Zenon
<1>7. ASSUME NEW n \in 1..Cardinality(S) PROVE \E x \in S : Cardinality(BelowIn(S, R, x)) = n - 1
  <2>1. n \in T /\ n \in Nat
    BY <1>1 DEF T, N
  <2>2. PICK x \in S : rank[x] = n
    <3> HIDE DEF rank, T
    <3>1. QED
      BY <2>1, <1>6, Zenon DEF Surjection
  <2>3. Cardinality(BelowIn(S, R, x)) + 1 = n
    BY <2>2
  <2>4. Cardinality(BelowIn(S, R, x)) = n - 1
    BY <2>1, <2>3, <1>2
  <2>5. QED
    BY <2>4, Zenon
<1>8. QED
  BY <1>1, <1>3, <1>7, Zenon DEF N

(* A sequence of the elements in the order of their ranks has each of them  *)
(* once and is in order.                                                    *)
LEMMA ByRank ==
  ASSUME NEW S, NEW R, IsFiniteSet(S), StrictTotalOrder(S, R), NEW f \in [1..Cardinality(S) -> S],
         \A n \in 1..Cardinality(S) : Cardinality(BelowIn(S, R, f[n])) = n - 1
  PROVE  /\ f \in Seq(S) /\ Len(f) = Cardinality(S)
         /\ \A i, j \in 1..Len(f) : f[i] = f[j] => i = j
         /\ \A x \in S : \E i \in 1..Len(f) : f[i] = x
         /\ \A i, j \in 1..Len(f) : i < j => <<f[i], f[j]>> \in R
<1> DEFINE N == Cardinality(S)
<1>1. N \in Nat
  BY FS_CardinalityType, Zenon
<1> HIDE DEF N
<1>2. f \in [1..N -> S] /\ \A n \in 1..N : Cardinality(BelowIn(S, R, f[n])) = n - 1
  BY Zenon DEF N
<1>3. f \in Seq(S) /\ Len(f) = N
  BY <1>1, <1>2
<1>4. \A i, j \in 1..N : f[i] = f[j] => i = j
  <2>1. SUFFICES ASSUME NEW i \in 1..N, NEW j \in 1..N, f[i] = f[j] PROVE i = j
    BY Zenon
  <2>2. i - 1 = j - 1
    BY <2>1, <1>2, Zenon
  <2>3. QED
    BY <2>2, <1>1
<1>5. \A x \in S : \E i \in 1..N : f[i] = x
  <2>1. SUFFICES ASSUME NEW x \in S PROVE \E i \in 1..N : f[i] = x
    BY Zenon
  <2> DEFINE T == 1..N
  <2>2. f \in Injection(T, S)
    BY <1>2, <1>4, Zenon DEF Injection, IsInjective
  <2>3. IsFiniteSet(T) /\ Cardinality(T) = N
    <3>1. IsFiniteSet(1..N) /\ Cardinality(1..N) = IF 1 > N THEN 0 ELSE N - 1 + 1
      BY <1>1, FS_Interval
    <3>2. QED
      BY <1>1, <3>1
  <2> HIDE DEF T
  <2>4. f \in Surjection(T, S)
    BY <2>2, <2>3, FS_Injection, Zenon DEF N
  <2>5. QED
    BY <2>4, Zenon DEF Surjection, T
<1>6. \A i, j \in 1..N : i < j => <<f[i], f[j]>> \in R
  <2>1. SUFFICES ASSUME NEW i \in 1..N, NEW j \in 1..N, i < j PROVE <<f[i], f[j]>> \in R
    BY Zenon
  <2>2. f[i] \in S /\ f[j] \in S /\ f[i] # f[j]
    <3>1. i # j
      BY <2>1, <1>1
    <3>2. QED
      BY <3>1, <1>2, <1>4, Zenon
  <2>3. CASE <<f[j], f[i]>> \in R
    <3>1. Cardinality(BelowIn(S, R, f[j])) < Cardinality(BelowIn(S, R, f[i]))
      BY <2>2, <2>3, RankGrows, Zenon
    <3>2. j - 1 < i - 1
      BY <3>1, <1>2
    <3>3. QED
      BY <2>1, <3>2, <1>1
  <2>4. QED
    BY <2>2, <2>3, Zenon DEF StrictTotalOrder
<1>7. QED
  BY <1>3, <1>4, <1>5, <1>6, Zenon DEF N

(* There is a lowest and a highest element.                                 *)
LEMMA Lowest ==
  ASSUME NEW S, NEW R, IsFiniteSet(S), StrictTotalOrder(S, R), S # {}
  PROVE  \E x \in S : \A y \in S : y # x => <<x, y>> \in R
<1>1. Cardinality(S) \in Nat /\ Cardinality(S) # 0
  <2>1. Cardinality(S) \in Nat
    BY FS_CardinalityType, Zenon
  <2>2. Cardinality(S) # 0
    BY FS_EmptySet, Zenon
  <2>3. QED
    BY <2>1, <2>2
<1>2. PICK x \in S : Cardinality(BelowIn(S, R, x)) = 1 - 1
  <2>1. 1 \in 1..Cardinality(S)
    BY <1>1
  <2>2. \A n \in 1..Cardinality(S) : \E y \in S : Cardinality(BelowIn(S, R, y)) = n - 1
    BY Ranks
  <2>3. QED
    BY <2>1, <2>2, Zenon
<1>3. IsFiniteSet(BelowIn(S, R, x))
  BY FS_Subset, Zenon DEF BelowIn
<1>4. Cardinality(BelowIn(S, R, x)) = 0
  BY <1>2
<1>5. BelowIn(S, R, x) = {}
  BY <1>3, <1>4, FS_EmptySet, Zenon
<1>6. QED
  BY <1>5, Zenon DEF BelowIn, StrictTotalOrder

LEMMA Highest ==
  ASSUME NEW S, NEW R, IsFiniteSet(S), StrictTotalOrder(S, R), S # {}
  PROVE  \E x \in S : \A y \in S : y # x => <<y, x>> \in R
<1>1. Cardinality(S) \in Nat /\ Cardinality(S) # 0
  <2>1. Cardinality(S) \in Nat
    BY FS_CardinalityType, Zenon
  <2>2. Cardinality(S) # 0
    BY FS_EmptySet, Zenon
  <2>3. QED
    BY <2>1, <2>2
<1>2. PICK x \in S : Cardinality(BelowIn(S, R, x)) = Cardinality(S) - 1
  <2>1. Cardinality(S) \in 1..Cardinality(S)
    BY <1>1
  <2>2. \A n \in 1..Cardinality(S) : \E y \in S : Cardinality(BelowIn(S, R, y)) = n - 1
    BY Ranks
  <2>3. QED
    BY <2>1, <2>2, Zenon
<1>3. IsFiniteSet(S \ {x}) /\ Cardinality(S \ {x}) = Cardinality(S) - 1
  BY FS_RemoveElement, Zenon
<1>4. BelowIn(S, R, x) \in SUBSET (S \ {x})
  BY Zenon DEF BelowIn, StrictTotalOrder
<1>5. S \ {x} = BelowIn(S, R, x)
  BY <1>2, <1>3, <1>4, FS_Subset, Zenon
<1>6. QED
  BY <1>5, Zenon DEF BelowIn

(* What a function makes of a finite set is finite and not larger.          *)
LEMMA ImageIsFinite ==
  ASSUME NEW S, IsFiniteSet(S), NEW f, DOMAIN f = S
  PROVE  IsFiniteSet({f[x] : x \in S}) /\ Cardinality({f[x] : x \in S}) <= Cardinality(S)
<1> DEFINE T == {f[x] : x \in S}
<1>0. \A x \in S : f[x] \in T
  BY Zenon
<1>1. [x \in S |-> f[x]] \in Surjection(S, T)
  <2>1. [x \in S |-> f[x]] \in [S -> T]
    BY <1>0
  <2>2. \A t \in T : \E x \in S : [y \in S |-> f[y]][x] = t
    BY Zenon
  <2>3. QED
    BY <2>1, <2>2, Zenon DEF Surjection
<1> HIDE DEF T
<1>2. QED
  BY <1>1, FS_Surjection, Zenon DEF T

LEMMA ImageOf ==
  \A S, f, T : IsFiniteSet(S) /\ DOMAIN f = S /\ T = {f[x] : x \in S} => IsFiniteSet(T) /\ Cardinality(T) <= Cardinality(S)
<1>1. SUFFICES ASSUME NEW S, NEW f, NEW T, IsFiniteSet(S), DOMAIN f = S, T = {f[x] : x \in S}
      PROVE  IsFiniteSet(T) /\ Cardinality(T) <= Cardinality(S)
  BY Zenon
<1>2. IsFiniteSet({f[x] : x \in S}) /\ Cardinality({f[x] : x \in S}) <= Cardinality(S)
  BY <1>1, ImageIsFinite
<1>3. QED
  BY <1>1, <1>2, Zenon

LEMMA TheOf == ASSUME NEW x PROVE The({x}) = x
<1>1. \E v \in {x} : TRUE
  OBVIOUS
<1>2. (CHOOSE v \in {x} : TRUE) \in {x}
  BY <1>1, Zenon
<1>3. QED
  BY <1>2 DEF The

-----------------------------------------------------------------------------
(* The syncs of a case: a settled one never changes again, and only the     *)
(* newest is not settled.                                                   *)

SyncsOK ==
  /\ environment \in {"demo", "live"}
  /\ syncs \in Seq(SyncRow)
  /\ \A n \in 1..Len(syncs) : syncs[n].state = "active" => n = Len(syncs)

(* What a step leaves of the syncs.                                         *)
Keeps ==
  /\ environment' = environment
  /\ Len(syncs) <= Len(syncs')
  /\ \A n \in 1..Len(syncs) : syncs[n].state # "active" => syncs'[n] = syncs[n]

LEMMA NewSyncKeeps ==
  ASSUME SyncsOK, environment' = environment, NEW from \in Nat, NEW start \in Nat, NEW to \in Nat,
         NEW kinds \in SUBSET Kinds, NewSync(from, start, to, kinds), \A n \in SyncIds : syncs[n].state # "active"
  PROVE  SyncsOK' /\ Keeps
<1> DEFINE new == [state |-> "active", from |-> from, start |-> start, to |-> to,
                   kinds |-> kinds, rows |-> {}, scoped |-> TRUE]
<1>1. new \in SyncRow
  BY DEF SyncRow
<1> HIDE DEF new
<1>2. syncs \in Seq(SyncRow) /\ syncs' = Append(syncs, new)
  BY Zenon DEF SyncsOK, NewSync, new
<1>3. /\ syncs' \in Seq(SyncRow) /\ Len(syncs') = Len(syncs) + 1
      /\ \A n \in 1..Len(syncs) : syncs'[n] = syncs[n]
  BY <1>1, <1>2
<1>4. Len(syncs) \in Nat
  BY <1>2
<1>5. Keeps
  BY <1>3, <1>4 DEF Keeps
<1>6. ASSUME NEW n \in 1..Len(syncs'), syncs'[n].state = "active" PROVE n = Len(syncs')
  <2>1. CASE n \in 1..Len(syncs)
    BY <2>1, <1>3, <1>6, Zenon DEF SyncIds
  <2>2. CASE n \notin 1..Len(syncs)
    BY <2>2, <1>3, <1>4
  <2>3. QED
    BY <2>1, <2>2
<1>7. QED
  BY <1>3, <1>5, <1>6, Zenon DEF SyncsOK

LEMMA UpdateKeeps ==
  ASSUME SyncsOK, environment' = environment, NEW n \in SyncIds, syncs[n].state = "active",
         NEW row \in SyncRow, row.state # "active", syncs' = [syncs EXCEPT ![n] = row]
  PROVE  SyncsOK' /\ Keeps
<1>1. syncs \in Seq(SyncRow) /\ n \in 1..Len(syncs)
  BY Zenon DEF SyncsOK, SyncIds
<1>2. /\ syncs' \in Seq(SyncRow) /\ Len(syncs') = Len(syncs)
      /\ \A m \in 1..Len(syncs) : syncs'[m] = IF m = n THEN row ELSE syncs[m]
  BY <1>1
<1>3. Len(syncs) \in Nat
  BY <1>1
<1>4. Keeps
  BY <1>2, <1>3 DEF Keeps
<1>5. \A m \in 1..Len(syncs') : syncs'[m].state = "active" => m = Len(syncs')
  BY <1>2, Zenon DEF SyncsOK
<1>6. QED
  BY <1>2, <1>4, <1>5, Zenon DEF SyncsOK

LEMMA SameSyncsKeep ==
  ASSUME SyncsOK, environment' = environment, syncs' = syncs
  PROVE  SyncsOK' /\ Keeps
<1>1. Len(syncs) \in Nat
  BY DEF SyncsOK
<1>2. QED
  BY <1>1 DEF SyncsOK, Keeps

LEMMA PublishKeeps ==
  ASSUME SyncsOK, PublishSync
  PROVE  SyncsOK' /\ Keeps
<1>1. PICK n \in SyncIds, as \in Published, rows \in RowSets :
        /\ syncs[n].state = "active"
        /\ syncs' = [syncs EXCEPT ![n].state = as.state, ![n].scoped = as.scoped, ![n].rows = rows]
        /\ environment' = environment
  BY Zenon DEF PublishSync
<1>2. /\ as.state \in {"partial", "succeeded"} /\ as.scoped \in BOOLEAN
      /\ rows \in SUBSET (1..Len(Observable))
  BY ActivityAssumption DEF ActivityAssumption
<1> DEFINE row == [syncs[n] EXCEPT !.state = as.state, !.scoped = as.scoped, !.rows = rows]
<1>3. syncs[n] \in SyncRow /\ n \in 1..Len(syncs)
  BY DEF SyncsOK, SyncIds
<1>4. rows \in SUBSET Nat
  BY <1>2
<1>5. row \in SyncRow /\ row.state # "active"
  BY <1>2, <1>3, <1>4 DEF SyncRow
<1>6. syncs' = [syncs EXCEPT ![n] = row]
  BY <1>1, <1>3 DEF SyncsOK, SyncRow
<1> HIDE DEF row
<1>7. QED
  BY <1>1, <1>5, <1>6, UpdateKeeps

(* The largest and the smallest of a finite set of numbers.                 *)
LEMMA NumbersOrdered ==
  ASSUME NEW S \in SUBSET Int
  PROVE  StrictTotalOrder(S, {p \in S \X S : p[1] < p[2]})
<1> DEFINE R == {p \in S \X S : p[1] < p[2]}
<1>1. \A x, y \in S : <<x, y>> \in R <=> x < y
  OBVIOUS
<1> HIDE DEF R
<1>2. StrictTotalOrder(S, R)
  BY <1>1 DEF StrictTotalOrder
<1>3. QED
  BY <1>2 DEF R

LEMMA MaxMin ==
  ASSUME NEW S \in SUBSET Int, IsFiniteSet(S), S # {}
  PROVE  /\ Max(S) \in S /\ \A y \in S : y <= Max(S)
         /\ Min(S) \in S /\ \A y \in S : Min(S) <= y
<1> DEFINE R == {p \in S \X S : p[1] < p[2]}
<1>1. \A x, y \in S : <<x, y>> \in R <=> x < y
  OBVIOUS
<1>2. StrictTotalOrder(S, R)
  BY NumbersOrdered
<1> HIDE DEF R
<1>3. PICK low \in S : \A y \in S : y # low => <<low, y>> \in R
  BY <1>2, Lowest, Zenon
<1>3a. PICK high \in S : \A y \in S : y # high => <<y, high>> \in R
  BY <1>2, Highest, Zenon
<1>4. \E x \in S : \A y \in S : x >= y
  <2>1. \A y \in S : y = high \/ y < high
    BY <1>1, <1>3a, Zenon
  <2>2. \A y \in S : high >= y
    BY <2>1
  <2>3. QED
    BY <2>2, Zenon
<1>5. \E x \in S : \A y \in S : x <= y
  <2>1. \A y \in S : y = low \/ low < y
    BY <1>1, <1>3, Zenon
  <2>2. \A y \in S : low <= y
    BY <2>1
  <2>3. QED
    BY <2>2, Zenon
<1>6. Max(S) \in S /\ \A y \in S : Max(S) >= y
  BY <1>4, Zenon DEF Max
<1>7. Min(S) \in S /\ \A y \in S : Min(S) <= y
  BY <1>5, Zenon DEF Min
<1>8. QED
  BY <1>6, <1>7

LEMMA MaxMinOfTwo ==
  ASSUME NEW a \in Int, NEW b \in Int
  PROVE  /\ Max({a, b}) = IF a >= b THEN a ELSE b
         /\ Min({a, b}) = IF a <= b THEN a ELSE b
<1> DEFINE S == {a, b}
<1>1. IsFiniteSet({a})
  BY FS_Singleton, Zenon
<1>2. IsFiniteSet({a} \cup {b})
  BY <1>1, FS_AddElement, Zenon
<1>3. {a} \cup {b} = S /\ S \in SUBSET Int /\ S # {}
  OBVIOUS
<1>3a. \A x : x \in S <=> x = a \/ x = b
  OBVIOUS
<1> HIDE DEF S
<1>4. IsFiniteSet(S)
  BY <1>2, <1>3, Zenon
<1>5. /\ Max(S) \in S /\ \A y \in S : y <= Max(S)
      /\ Min(S) \in S /\ \A y \in S : Min(S) <= y
  BY <1>3, <1>4, MaxMin, Zenon
<1>6. /\ Max(S) = IF a >= b THEN a ELSE b
      /\ Min(S) = IF a <= b THEN a ELSE b
  BY <1>3a, <1>5
<1>7. QED
  BY <1>6, Zenon DEF S

LEMMA UsableFacts ==
  ASSUME SyncsOK
  PROVE  /\ Usable \in SUBSET (1..Len(syncs)) /\ Len(syncs) \in Nat
         /\ IsFiniteSet(Usable)
         /\ Usable # {} => Max(Usable) \in Usable /\ Min(Usable) \in Usable
         /\ \A s \in Usable : syncs[s] \in SyncRow /\ syncs[s].state # "active"
<1>1. Len(syncs) \in Nat /\ syncs \in Seq(SyncRow)
  BY DEF SyncsOK
<1>2. Usable \in SUBSET (1..Len(syncs))
  BY DEF Usable, SyncIds
<1>3. IsFiniteSet(1..Len(syncs))
  BY <1>1, FS_Interval
<1>4. IsFiniteSet(Usable)
  BY <1>2, <1>3, FS_Subset, Zenon
<1>5. Usable \in SUBSET Int
  BY <1>2
<1>6. Usable # {} => Max(Usable) \in Usable /\ Min(Usable) \in Usable
  BY <1>4, <1>5, MaxMin, Zenon
<1>7. \A s \in Usable : syncs[s] \in SyncRow /\ syncs[s].state # "active"
  BY <1>1 DEF Usable, SyncIds
<1>8. QED
  BY <1>1, <1>2, <1>4, <1>6, <1>7, Zenon

LEMMA FailKeeps ==
  ASSUME SyncsOK, FailSync
  PROVE  SyncsOK' /\ Keeps
<1>1. PICK n \in SyncIds :
        /\ syncs[n].state = "active"
        /\ syncs' = [syncs EXCEPT ![n].state = "failed"] /\ environment' = environment
  BY Zenon DEF FailSync
<1> DEFINE row == [syncs[n] EXCEPT !.state = "failed"]
<1>2. syncs[n] \in SyncRow /\ n \in 1..Len(syncs)
  BY DEF SyncsOK, SyncIds
<1>3. row \in SyncRow /\ row.state # "active"
  BY <1>2 DEF SyncRow
<1>4. syncs' = [syncs EXCEPT ![n] = row]
  BY <1>1, <1>2 DEF SyncsOK, SyncRow
<1> HIDE DEF row
<1>5. QED
  BY <1>1, <1>3, <1>4, UpdateKeeps

LEMMA BeginBoundedKeeps ==
  ASSUME SyncsOK, BeginBounded
  PROVE  SyncsOK' /\ Keeps
<1>1. PICK period \in Periods, kinds \in Surfaces : NewSync(period.from, period.from, period.to, kinds)
  BY Zenon DEF BeginBounded
<1>2. environment' = environment /\ \A n \in SyncIds : syncs[n].state # "active"
  BY Zenon DEF BeginBounded, MayBegin
<1>3. period.from \in Nat /\ period.to \in Nat /\ kinds \in SUBSET Kinds
  <2>1. period \in [from : Nat, to : Nat] /\ kinds \subseteq Kinds
    BY ActivityAssumption, Zenon DEF ActivityAssumption
  <2>2. QED
    BY <2>1
<1>4. QED
  BY <1>1, <1>2, <1>3, NewSyncKeeps

LEMMA BeginIncrementalKeeps ==
  ASSUME SyncsOK, BeginIncremental
  PROVE  SyncsOK' /\ Keeps
<1> DEFINE base == syncs[Max(Usable)]
<1>1. PICK now \in {p.to : p \in Periods} :
        NewSync(base.from, Max({base.from, base.to - Overlap}), now, base.kinds)
  BY Zenon DEF BeginIncremental
<1>2. environment' = environment /\ (\A n \in SyncIds : syncs[n].state # "active") /\ Usable # {}
  BY Zenon DEF BeginIncremental, MayBegin
<1>3. base \in SyncRow
  BY <1>2, UsableFacts, Zenon
<1> HIDE DEF base
<1>4. base.from \in Nat /\ base.to \in Nat /\ base.kinds \in SUBSET Kinds
  BY <1>3 DEF SyncRow
<1>5. now \in Nat
  <2>1. \A p \in Periods : p \in [from : Nat, to : Nat]
    BY ActivityAssumption, Zenon DEF ActivityAssumption
  <2>2. QED
    BY <2>1
<1>6. Overlap \in Nat
  BY ActivityAssumption, Zenon DEF ActivityAssumption
<1>7. base.to - Overlap \in Int /\ base.from \in Int
  BY <1>4, <1>6
<1>8. Max({base.from, base.to - Overlap}) = IF base.from >= base.to - Overlap THEN base.from ELSE base.to - Overlap
  BY <1>7, MaxMinOfTwo
<1>9. Max({base.from, base.to - Overlap}) \in Nat
  BY <1>4, <1>6, <1>8
<1>10. QED
  BY <1>1, <1>2, <1>4, <1>5, <1>9, NewSyncKeeps

-----------------------------------------------------------------------------
(* What a snapshot shows does not change while the case moves on: nothing   *)
(* up to a usable sync does.                                                *)

Frozen(s) ==
  /\ environment' = environment
  /\ s \in Usable /\ s \in Usable'
  /\ s \in Nat /\ Len(syncs) \in Nat /\ Len(syncs') \in Nat
  /\ \A n \in 1..s : n \in SyncIds /\ n \in SyncIds' /\ syncs'[n] = syncs[n]

LEMMA SettledIsFrozen ==
  ASSUME SyncsOK, SyncsOK', Keeps, NEW s \in Usable
  PROVE  Frozen(s)
<1>1. s \in 1..Len(syncs) /\ Len(syncs) \in Nat /\ syncs[s].state # "active"
  BY UsableFacts, Zenon
<1>2. Len(syncs') \in Nat
  BY DEF SyncsOK
<1>3. \A n \in 1..s : n \in 1..Len(syncs) /\ n \in 1..Len(syncs') /\ syncs[n].state # "active"
  <2>1. SUFFICES ASSUME NEW n \in 1..s PROVE n \in 1..Len(syncs) /\ n \in 1..Len(syncs') /\ syncs[n].state # "active"
    BY Zenon
  <2>2. n \in 1..Len(syncs) /\ n \in 1..Len(syncs')
    BY <1>1, <1>2 DEF Keeps
  <2>3. n = Len(syncs) => n = s
    BY <1>1
  <2>4. QED
    BY <1>1, <2>2, <2>3, Zenon DEF SyncsOK
<1>4. \A n \in 1..s : syncs'[n] = syncs[n]
  BY <1>3, Zenon DEF Keeps
<1>5. s \in 1..s /\ s \in Nat
  BY <1>1
<1>6. s \in Usable'
  BY <1>3, <1>4, <1>5 DEF Usable, SyncIds
<1>7. environment' = environment
  BY Zenon DEF Keeps
<1>8. QED
  BY <1>1, <1>2, <1>3, <1>4, <1>5, <1>6, <1>7, Zenon DEF Frozen, SyncIds

LEMMA FrozenSources ==
  ASSUME NEW s, Frozen(s), NEW period
  PROVE  SourceSyncs(s, period)' = SourceSyncs(s, period)
<1>1. \A n : n \in Usable /\ n <= s <=> n \in Usable' /\ n <= s
  BY DEF Frozen, Usable, SyncIds
<1>2. \A n : n \in Usable /\ n <= s => syncs'[n] = syncs[n]
  BY DEF Frozen, Usable, SyncIds
<1>3. \A n : n \in SourceSyncs(s, period)' <=> n \in SourceSyncs(s, period)
  BY <1>1, <1>2 DEF SourceSyncs
<1>4. QED
  BY <1>3, Zenon DEF SourceSyncs

LEMMA FrozenPeriod ==
  ASSUME NEW s, Frozen(s), NEW q
  PROVE  EffectivePeriod(s, q)' = EffectivePeriod(s, q)
<1>1. syncs'[s] = syncs[s]
  BY DEF Frozen, Usable, SyncIds
<1>2. QED
  BY <1>1, Zenon DEF EffectivePeriod, Requested

LEMMA SourceFacts ==
  ASSUME NEW s, Frozen(s), NEW period, NEW n \in SourceSyncs(s, period)
  PROVE  n \in Usable /\ syncs'[n] = syncs[n]
BY DEF Frozen, Usable, SyncIds, SourceSyncs

LEMMA FrozenRows ==
  ASSUME NEW s, Frozen(s), NEW q
  PROVE  LoadedRows(s, q)' = LoadedRows(s, q)
<1>1. PICK period : period = EffectivePeriod(s, q)
  BY Zenon
<1>2. EffectivePeriod(s, q)' = period
  BY <1>1, FrozenPeriod, Zenon
<1>3. SourceSyncs(s, period)' = SourceSyncs(s, period)
  BY FrozenSources, Zenon
<1>4. AllRows(s, q)' <=> AllRows(s, q)
  BY Zenon DEF AllRows, Frozen
<1>5. \A n \in SourceSyncs(s, period) : syncs'[n] = syncs[n]
  BY SourceFacts, Zenon
<1>6. QED
  BY <1>1, <1>2, <1>3, <1>4, <1>5, Zenon DEF LoadedRows

LEMMA FrozenItem ==
  ASSUME environment' = environment
  PROVE  /\ Origin' = Origin
         /\ \A r : PublicId(r)' = PublicId(r)
         /\ \A g : Item(g)' = Item(g)
         /\ \A rows : Grouped(rows)' = Grouped(rows)
<1>1. Origin' = Origin
  BY Zenon DEF Origin
<1>2. \A r : Identity(r)' = Identity(r)
  BY Zenon DEF Identity
<1>3. \A r : PublicId(r)' = PublicId(r)
  BY <1>2, Zenon DEF PublicId
<1>4. \A r : Assurance(r)' = Assurance(r)
  BY <1>2, Zenon DEF Assurance
<1>5. \A g : Item(g)' = Item(g)
  BY <1>1, <1>3, <1>4, Zenon DEF Item
<1>6. \A rows : Grouped(rows)' = Grouped(rows)
  BY <1>3, Zenon DEF Grouped
<1>7. QED
  BY <1>1, <1>3, <1>5, <1>6, Zenon

LEMMA FrozenAdmission ==
  ASSUME NEW s, Frozen(s), NEW q, NEW r \in LoadedRows(s, q)
  PROVE  /\ RunMatchesCase(r[1])' <=> RunMatchesCase(r[1])
         /\ RequestedKind(r)' <=> RequestedKind(r)
         /\ Admitted(r)' <=> Admitted(r)
<1>1. r[1] \in SourceSyncs(s, EffectivePeriod(s, q))
  BY Zenon DEF LoadedRows
<1>2. syncs'[r[1]] = syncs[r[1]]
  BY <1>1, SourceFacts, Zenon
<1>3. RunMatchesCase(r[1])' <=> RunMatchesCase(r[1])
  BY <1>2, Zenon DEF RunMatchesCase
<1>4. RequestedKind(r)' <=> RequestedKind(r)
  BY <1>2, Zenon DEF RequestedKind
<1>5. environment' = environment
  BY Zenon DEF Frozen
<1>6. InSourcePeriod(r)' <=> InSourcePeriod(r)
  BY <1>2, <1>5, Zenon DEF InSourcePeriod, Acquired
<1>7. QED
  BY <1>3, <1>4, <1>6, Zenon DEF Admitted

(* What a timeline is built from, without the detours that compute each     *)
(* part once.                                                               *)
LEMMA BuiltIs ==
  \A s, q : Built(s, q) = BuiltFrom(LoadedRows(s, q), Grouped({r \in LoadedRows(s, q) : Admitted(r)}),
                                   SourceSyncs(s, EffectivePeriod(s, q)))
<1>1. SUFFICES ASSUME NEW s, NEW q
      PROVE  Built(s, q) = BuiltFrom(LoadedRows(s, q), Grouped({r \in LoadedRows(s, q) : Admitted(r)}),
                                     SourceSyncs(s, EffectivePeriod(s, q)))
  BY Zenon
<1> DEFINE L == LoadedRows(s, q)
           S == SourceSyncs(s, EffectivePeriod(s, q))
           G(rows) == Grouped({r \in rows : Admitted(r)})
           From(rows) == The({BuiltFrom(rows, groups, S) : groups \in {G(rows)}})
<1>2. Built(s, q) = The({From(rows) : rows \in {L}})
  BY Zenon DEF Built
<1>3. {From(rows) : rows \in {L}} = {From(L)}
  OBVIOUS
<1>4. {BuiltFrom(L, groups, S) : groups \in {G(L)}} = {BuiltFrom(L, G(L), S)}
  OBVIOUS
<1>5. From(L) = BuiltFrom(L, G(L), S)
  BY <1>4, TheOf, Zenon
<1>6. The({From(L)}) = From(L)
  BY TheOf
<1>7. QED
  BY <1>2, <1>3, <1>5, <1>6, Zenon

LEMMA BuiltIsNext ==
  (\A s, q : Built(s, q) = BuiltFrom(LoadedRows(s, q), Grouped({r \in LoadedRows(s, q) : Admitted(r)}),
                                    SourceSyncs(s, EffectivePeriod(s, q))))'
BY BuiltIs, PTL

LEMMA FrozenBuilt ==
  ASSUME NEW s, Frozen(s), NEW q
  PROVE  Built(s, q)' = Built(s, q)
<1>1. PICK L : L = LoadedRows(s, q)
  BY Zenon
<1>2. PICK S : S = SourceSyncs(s, EffectivePeriod(s, q))
  BY Zenon
<1>3. PICK G : G = Grouped({r \in L : Admitted(r)})
  BY Zenon
<1>4. L = LoadedRows(s, q)'
  BY <1>1, FrozenRows, Zenon
<1>5. S = SourceSyncs(s, EffectivePeriod(s, q))'
  <2>1. PICK period : period = EffectivePeriod(s, q)
    BY Zenon
  <2>2. EffectivePeriod(s, q)' = period
    BY <2>1, FrozenPeriod, Zenon
  <2>3. SourceSyncs(s, period)' = SourceSyncs(s, period)
    BY FrozenSources, Zenon
  <2>4. QED
    BY <1>2, <2>1, <2>2, <2>3, Zenon
<1>6. \A r \in L : (RunMatchesCase(r[1])' <=> RunMatchesCase(r[1])) /\ (RequestedKind(r)' <=> RequestedKind(r))
                   /\ (Admitted(r)' <=> Admitted(r))
  BY <1>1, FrozenAdmission, Zenon
<1>7. \A n \in S : (RunMatchesCase(n)' <=> RunMatchesCase(n)) /\ syncs'[n] = syncs[n]
  BY <1>2, SourceFacts, Zenon DEF RunMatchesCase
<1>8. environment' = environment
  BY Zenon DEF Frozen
<1>9. G = Grouped({r \in L : Admitted(r)})'
  <2>1. PICK A : A = {r \in L : Admitted(r)}
    BY Zenon
  <2>2. A = {r \in L : Admitted(r)'}
    BY <2>1, <1>6, Zenon
  <2>3. Grouped(A)' = Grouped(A)
    BY <1>8, FrozenItem, Zenon
  <2>4. QED
    BY <1>3, <2>1, <2>2, <2>3, Zenon
<1>10. BuiltFrom(L, G, S)' = BuiltFrom(L, G, S)
  <2>1. \A g : Item(g)' = Item(g)
    BY <1>8, FrozenItem, Zenon
  <2>2. {Item(g) : g \in {g \in G : Agrees(g)}}' = {Item(g) : g \in {g \in G : Agrees(g)}}
    BY <2>1, Zenon
  <2>3. {{Item({r}) : r \in g} : g \in {g \in G : ~ Agrees(g)}}' = {{Item({r}) : r \in g} : g \in {g \in G : ~ Agrees(g)}}
    <3>1. \A g : {Item({r}) : r \in g}' = {Item({r}) : r \in g}
      BY <2>1, Zenon
    <3>2. QED
      BY <3>1, Zenon
  <2>4. {n \in S : RunMatchesCase(n)}' = {n \in S : RunMatchesCase(n)}
    BY <1>7, Zenon
  <2>5. (UNION {syncs[n].kinds : n \in {n \in S : ~ RunMatchesCase(n)}})' = UNION {syncs[n].kinds : n \in {n \in S : ~ RunMatchesCase(n)}}
    BY <1>7, Zenon
  <2>6. {Observable[r[2]].kind : r \in {r \in L : RunMatchesCase(r[1]) /\ ~ RequestedKind(r)}}'
          = {Observable[r[2]].kind : r \in {r \in L : RunMatchesCase(r[1]) /\ ~ RequestedKind(r)}}
    BY <1>6, Zenon
  <2>7. {Observable[r[2]].kind : r \in {r \in L : RunMatchesCase(r[1]) /\ RequestedKind(r) /\ ~ Admitted(r)}}'
          = {Observable[r[2]].kind : r \in {r \in L : RunMatchesCase(r[1]) /\ RequestedKind(r) /\ ~ Admitted(r)}}
    BY <1>6, Zenon
  <2>8. QED
    BY <2>2, <2>3, <2>4, <2>5, <2>6, <2>7, Zenon DEF BuiltFrom
<1>11. Built(s, q) = BuiltFrom(L, G, S)
  BY <1>1, <1>2, <1>3, BuiltIs, Zenon
<1>12. Built(s, q)' = BuiltFrom(L, G, S)'
  BY <1>4, <1>5, <1>9, BuiltIsNext, Zenon
<1>13. QED
  BY <1>10, <1>11, <1>12, Zenon

LEMMA ViewIs ==
  \A s, q : View(s, q) = ViewOf(s, q, Built(s, q), {i \in Built(s, q).items : Matches(i, q)})
<1>1. SUFFICES ASSUME NEW s, NEW q
      PROVE  View(s, q) = ViewOf(s, q, Built(s, q), {i \in Built(s, q).items : Matches(i, q)})
  BY Zenon
<1> DEFINE B == Built(s, q)
           I(built) == {i \in built.items : Matches(i, q)}
           Of(built) == The({ViewOf(s, q, built, items) : items \in {I(built)}})
<1>2. View(s, q) = The({Of(built) : built \in {B}})
  BY Zenon DEF View
<1>3. {Of(built) : built \in {B}} = {Of(B)}
  OBVIOUS
<1>4. {ViewOf(s, q, B, items) : items \in {I(B)}} = {ViewOf(s, q, B, I(B))}
  OBVIOUS
<1>5. Of(B) = ViewOf(s, q, B, I(B))
  BY <1>4, TheOf, Zenon
<1>6. The({Of(B)}) = Of(B)
  BY TheOf
<1>7. QED
  BY <1>2, <1>3, <1>5, <1>6, Zenon

LEMMA ViewIsNext ==
  (\A s, q : View(s, q) = ViewOf(s, q, Built(s, q), {i \in Built(s, q).items : Matches(i, q)}))'
BY ViewIs, PTL

LEMMA BuiltValid ==
  ASSUME NEW s, NEW q, NEW n \in Built(s, q).valid
  PROVE  n \in SourceSyncs(s, EffectivePeriod(s, q))
<1>1. Built(s, q) = BuiltFrom(LoadedRows(s, q), Grouped({r \in LoadedRows(s, q) : Admitted(r)}),
                              SourceSyncs(s, EffectivePeriod(s, q)))
  BY BuiltIs, Zenon
<1>2. Built(s, q).valid = {m \in SourceSyncs(s, EffectivePeriod(s, q)) : RunMatchesCase(m)}
  BY <1>1 DEF BuiltFrom
<1>3. QED
  BY <1>2, Zenon

LEMMA FrozenView ==
  ASSUME NEW s, Frozen(s), NEW q
  PROVE  View(s, q)' = View(s, q)
<1>1. PICK B : B = Built(s, q)
  BY Zenon
<1>2. B = Built(s, q)'
  BY <1>1, FrozenBuilt, Zenon
<1>3. PICK items : items = {i \in B.items : Matches(i, q)}
  BY Zenon
<1>4. environment' = environment
  BY Zenon DEF Frozen
<1>5. syncs'[s] = syncs[s]
  BY DEF Frozen, Usable, SyncIds
<1>6. \A n \in B.valid : syncs'[n] = syncs[n]
  BY <1>1, BuiltValid, SourceFacts, Zenon
<1>7. Origin' = Origin /\ (AcceptsOrigin(q)' <=> AcceptsOrigin(q)) /\ \A k : MayMatch(k, q)' <=> MayMatch(k, q)
  BY <1>4, Zenon DEF Origin, AcceptsOrigin, MayMatch
<1>8. Gaps(s, B, q)' = Gaps(s, B, q)
  <2>1. Mismatched(B, q)' = Mismatched(B, q) /\ Invalid(B, q)' = Invalid(B, q)
    BY <1>7, Zenon DEF Mismatched, Invalid
  <2>2. QED
    BY <2>1, <1>4, <1>5, <1>7, Zenon DEF Gaps
<1>9. Limitations(B, q)' = Limitations(B, q)
  BY <1>4, Zenon DEF Limitations
<1>10. Aggregate(items, B, q)' = Aggregate(items, B, q)
  <2>1. {n \in B.valid : syncs[n].kinds \cap PossibleKinds(q) # {}}' = {n \in B.valid : syncs[n].kinds \cap PossibleKinds(q) # {}}
    BY <1>6, Zenon
  <2>2. QED
    BY <2>1, <1>7, Zenon DEF Aggregate
<1>11. ViewOf(s, q, B, items)' = ViewOf(s, q, B, items)
  BY <1>8, <1>9, <1>10, Zenon DEF ViewOf
<1>12. View(s, q) = ViewOf(s, q, B, items)
  BY <1>1, <1>3, ViewIs, Zenon
<1>13. View(s, q)' = ViewOf(s, q, B, items)'
  BY <1>2, <1>3, ViewIsNext, Zenon
<1>14. QED
  BY <1>11, <1>12, <1>13, Zenon

(* What may refuse a page of a snapshot does not change either.             *)
LEMMA FrozenRefusals ==
  ASSUME NEW s, Frozen(s), NEW q
  PROVE  /\ PeriodFits(s, q)' <=> PeriodFits(s, q)
         /\ TooLarge(s, q)' <=> TooLarge(s, q)
         /\ RunMatchesCase(s)' <=> RunMatchesCase(s)
         /\ Verifiable(s)' = Verifiable(s)
<1>1. syncs'[s] = syncs[s]
  BY DEF Frozen, Usable, SyncIds
<1>2. PeriodFits(s, q)' <=> PeriodFits(s, q)
  BY <1>1, Zenon DEF PeriodFits
<1>3. RunMatchesCase(s)' <=> RunMatchesCase(s)
  BY <1>1, Zenon DEF RunMatchesCase
<1>4. TooLarge(s, q)' <=> TooLarge(s, q)
  <2>1. PICK period : period = EffectivePeriod(s, q)
    BY Zenon
  <2>2. EffectivePeriod(s, q)' = period
    BY <2>1, FrozenPeriod, Zenon
  <2>3. SourceSyncs(s, period)' = SourceSyncs(s, period)
    BY FrozenSources, Zenon
  <2>4. LoadedRows(s, q)' = LoadedRows(s, q)
    BY FrozenRows, Zenon
  <2>5. QED
    BY <2>1, <2>2, <2>3, <2>4, Zenon DEF TooLarge
<1>5. Verifiable(s)' = Verifiable(s)
  <2>1. Built(s, NoFilter)' = Built(s, NoFilter)
    BY FrozenBuilt, Zenon
  <2>2. environment' = environment
    BY Zenon DEF Frozen
  <2>3. (\A g : Item(g)' = Item(g)) /\ \A r : PublicId(r)' = PublicId(r)
    BY <2>2, FrozenItem, Zenon
  <2>4. QED
    BY <2>1, <2>3, Zenon DEF Verifiable
<1>6. QED
  BY <1>2, <1>3, <1>4, <1>5, Zenon

-----------------------------------------------------------------------------
(* The items of a timeline: finitely many, of well-formed rows, each of its *)
(* own identity.                                                            *)

Rows == Nat \X (1..Len(Observable))

LEMMA RowFacts ==
  ASSUME SyncsOK, NEW s, NEW q
  PROVE  /\ LoadedRows(s, q) \in SUBSET Rows
         /\ IsFiniteSet(LoadedRows(s, q))
<1> DEFINE S == SourceSyncs(s, EffectivePeriod(s, q))
           T == 1..Len(Observable)
<1>1. S \in SUBSET Usable
  BY Zenon DEF SourceSyncs
<1>2. IsFiniteSet(S) /\ S \in SUBSET Nat
  <2>1. IsFiniteSet(Usable) /\ Usable \in SUBSET (1..Len(syncs)) /\ Len(syncs) \in Nat
    BY UsableFacts, Zenon
  <2>2. IsFiniteSet(S)
    BY <1>1, <2>1, FS_Subset, Zenon
  <2> HIDE DEF S
  <2>3. QED
    BY <1>1, <2>1, <2>2
<1>3. IsFiniteSet(T)
  <2>1. Len(Observable) \in Nat
    BY ActivityAssumption DEF ActivityAssumption
  <2>2. QED
    BY <2>1, FS_Interval
<1>4. LoadedRows(s, q) \in SUBSET (S \X T)
  BY Zenon DEF LoadedRows
<1> HIDE DEF S, T
<1>5. IsFiniteSet(S \X T)
  BY <1>2, <1>3, FS_Product, Zenon
<1>6. IsFiniteSet(LoadedRows(s, q))
  BY <1>4, <1>5, FS_Subset, Zenon
<1>7. S \X T \in SUBSET Rows
  BY <1>2 DEF Rows, T
<1>8. QED
  BY <1>4, <1>6, <1>7, Zenon

LEMMA RowTypes ==
  ASSUME NEW r \in Rows
  PROVE  /\ r[1] \in Nat /\ r[2] \in Nat /\ r[2] > 0 /\ r = <<r[1], r[2]>>
         /\ Observable[r[2]] \in ActivityRow
         /\ PublicId(r) \in Nat \ {0}
         /\ Semantic(r) \in [kind : Kinds, time : Nat \cup {NoTime}, value : STRING]
<1>1. Observable \in Seq(ActivityRow)
  BY ActivityAssumption, Zenon DEF ActivityAssumption
<1>2. /\ r[1] \in Nat /\ r[2] \in Nat /\ r[2] > 0 /\ r = <<r[1], r[2]>> /\ r[2] \in 1..Len(Observable)
  BY <1>1 DEF Rows
<1>3. Observable[r[2]] \in ActivityRow
  BY <1>1, <1>2
<1>4. Identity(r) \in Nat
  BY <1>3 DEF Identity, NoKey, ActivityRow
<1>5. Namespace(r) \in {0, 1}
  BY DEF Namespace
<1>6. PublicId(r) \in Nat \ {0}
  BY <1>2, <1>4, <1>5 DEF PublicId, NoKey
<1>7. Semantic(r) \in [kind : Kinds, time : Nat \cup {NoTime}, value : STRING]
  BY <1>3 DEF Semantic, ActivityRow
<1>8. QED
  BY <1>2, <1>3, <1>6, <1>7, Zenon

LEMMA LaterOrders ==
  ASSUME NEW g \in SUBSET Rows
  PROVE  /\ StrictTotalOrder(g, {p \in g \X g : Later(p[2], p[1])})
         /\ \A x, y \in g : <<x, y>> \in {p \in g \X g : Later(p[2], p[1])} <=> Later(y, x)
<1> DEFINE R == {p \in g \X g : Later(p[2], p[1])}
<1>1. \A x, y \in g : <<x, y>> \in R <=> Later(y, x)
  OBVIOUS
<1>2. \A x \in g : x[1] \in Nat /\ x[2] \in Nat /\ x = <<x[1], x[2]>>
  BY RowTypes
<1> HIDE DEF R
<1>3. \A x \in g : <<x, x>> \notin R
  BY <1>1, <1>2 DEF Later
<1>4. \A x, y \in g : x # y => <<x, y>> \in R \/ <<y, x>> \in R
  <2>1. SUFFICES ASSUME NEW x \in g, NEW y \in g, x # y PROVE <<x, y>> \in R \/ <<y, x>> \in R
    BY Zenon
  <2>2. x[1] # y[1] \/ x[2] # y[2]
    BY <1>2, <2>1, Zenon
  <2>3. QED
    BY <1>1, <1>2, <2>2 DEF Later
<1>5. \A x, y, z \in g : <<x, y>> \in R /\ <<y, z>> \in R => <<x, z>> \in R
  BY <1>1, <1>2 DEF Later
<1>6. StrictTotalOrder(g, R)
  BY <1>3, <1>4, <1>5, Zenon DEF StrictTotalOrder
<1>7. QED
  BY <1>1, <1>6, Zenon DEF R

LEMMA WinnerFirst ==
  ASSUME NEW g \in SUBSET Rows, IsFiniteSet(g), g # {}
  PROVE  /\ Winner(g) \in g /\ \A t \in g \ {Winner(g)} : Later(Winner(g), t)
         /\ First(g) \in g /\ \A t \in g \ {First(g)} : Later(t, First(g))
<1> DEFINE R == {p \in g \X g : Later(p[2], p[1])}
<1>1. StrictTotalOrder(g, R) /\ \A x, y \in g : <<x, y>> \in R <=> Later(y, x)
  BY LaterOrders
<1> HIDE DEF R
<1>2. \E x \in g : \A t \in g \ {x} : Later(x, t)
  <2>1. \E x \in g : \A y \in g : y # x => <<y, x>> \in R
    BY <1>1, Highest, Zenon
  <2>2. QED
    BY <1>1, <2>1, Zenon
<1>3. \E x \in g : \A t \in g \ {x} : Later(t, x)
  <2>1. \E x \in g : \A y \in g : y # x => <<x, y>> \in R
    BY <1>1, Lowest, Zenon
  <2>2. QED
    BY <1>1, <2>1, Zenon
<1>4. Winner(g) \in g /\ \A t \in g \ {Winner(g)} : Later(Winner(g), t)
  BY <1>2, Zenon DEF Winner
<1>5. First(g) \in g /\ \A t \in g \ {First(g)} : Later(t, First(g))
  BY <1>3, Zenon DEF First
<1>6. QED
  BY <1>4, <1>5, Zenon

LEMMA GroupFacts ==
  ASSUME NEW A \in SUBSET Rows, IsFiniteSet(A)
  PROVE  /\ IsFiniteSet(Grouped(A))
         /\ \A g \in Grouped(A) : g \in SUBSET A /\ g # {} /\ IsFiniteSet(g) /\ Winner(g) \in g /\ First(g) \in g
         /\ \A g \in Grouped(A) : \A r \in A, t \in g : PublicId(r) = PublicId(t) <=> r \in g
         /\ \A r \in A : \E g \in Grouped(A) : r \in g
<1>1. \A g \in Grouped(A) : g \in SUBSET A /\ g # {}
  BY Zenon DEF Grouped
<1>2. IsFiniteSet(SUBSET A)
  BY FS_SUBSET, Zenon
<1>3. IsFiniteSet(Grouped(A))
  <2>1. Grouped(A) \in SUBSET (SUBSET A)
    BY <1>1, Zenon
  <2>2. QED
    BY <1>2, <2>1, FS_Subset, Zenon
<1>4. \A g \in Grouped(A) : IsFiniteSet(g)
  BY <1>1, FS_Subset, Zenon
<1>5. \A g \in Grouped(A) : g \in SUBSET Rows
  BY <1>1, Zenon
<1>6. \A g \in Grouped(A) : Winner(g) \in g /\ First(g) \in g
  BY <1>1, <1>4, <1>5, WinnerFirst, Zenon
<1>7. \A g \in Grouped(A) : \A r \in A, t \in g : PublicId(r) = PublicId(t) <=> r \in g
  BY Zenon DEF Grouped
<1>8. \A r \in A : \E g \in Grouped(A) : r \in g
  <2>1. SUFFICES ASSUME NEW r \in A PROVE \E g \in Grouped(A) : r \in g
    BY Zenon
  <2> DEFINE group == {t \in A : PublicId(t) = PublicId(r)}
  <2>2. group \in Grouped(A) /\ r \in group
    BY Zenon DEF Grouped
  <2> HIDE DEF group
  <2>3. QED
    BY <2>2, Zenon
<1>9. QED
  BY <1>1, <1>3, <1>4, <1>6, <1>7, <1>8, Zenon

Admissible(s, q) == {r \in LoadedRows(s, q) : Admitted(r)}
Groups0(s, q) == Grouped(Admissible(s, q))

LEMMA AdmissibleFacts ==
  ASSUME SyncsOK, NEW s, NEW q
  PROVE  Admissible(s, q) \in SUBSET Rows /\ IsFiniteSet(Admissible(s, q))
<1>1. LoadedRows(s, q) \in SUBSET Rows /\ IsFiniteSet(LoadedRows(s, q))
  BY RowFacts, Zenon
<1>2. Admissible(s, q) \in SUBSET LoadedRows(s, q)
  BY Zenon DEF Admissible
<1>3. QED
  BY <1>1, <1>2, FS_Subset, Zenon

LEMMA BuiltFields ==
  ASSUME NEW s, NEW q
  PROVE  /\ Built(s, q).items = {Item(g) : g \in {g \in Groups0(s, q) : Agrees(g)}}
         /\ Built(s, q).groups = {g \in Groups0(s, q) : Agrees(g)}
         /\ Built(s, q).conflicts = {{Item({r}) : r \in g} : g \in {g \in Groups0(s, q) : ~ Agrees(g)}}
         /\ Built(s, q).mismatched =
              UNION {syncs[n].kinds : n \in {n \in SourceSyncs(s, EffectivePeriod(s, q)) : ~ RunMatchesCase(n)}}
              \cup {Observable[r[2]].kind : r \in {r \in LoadedRows(s, q) : RunMatchesCase(r[1]) /\ ~ RequestedKind(r)}}
         /\ Built(s, q).invalid =
              {Observable[r[2]].kind : r \in
                 {r \in LoadedRows(s, q) : RunMatchesCase(r[1]) /\ RequestedKind(r) /\ ~ Admitted(r)}}
<1>1. PICK B : B = Built(s, q)
  BY Zenon
<1>2. B = BuiltFrom(LoadedRows(s, q), Groups0(s, q), SourceSyncs(s, EffectivePeriod(s, q)))
  BY <1>1, BuiltIs, Zenon DEF Groups0, Admissible
<1>3. PICK L, G, S : L = LoadedRows(s, q) /\ G = Groups0(s, q) /\ S = SourceSyncs(s, EffectivePeriod(s, q))
  BY Zenon
<1>4. B = BuiltFrom(L, G, S)
  BY <1>2, <1>3, Zenon
<1>5. /\ B.items = {Item(g) : g \in {g \in G : Agrees(g)}}
      /\ B.groups = {g \in G : Agrees(g)}
      /\ B.conflicts = {{Item({r}) : r \in g} : g \in {g \in G : ~ Agrees(g)}}
      /\ B.mismatched =
           UNION {syncs[n].kinds : n \in {n \in S : ~ RunMatchesCase(n)}}
           \cup {Observable[r[2]].kind : r \in {r \in L : RunMatchesCase(r[1]) /\ ~ RequestedKind(r)}}
      /\ B.invalid =
           {Observable[r[2]].kind : r \in {r \in L : RunMatchesCase(r[1]) /\ RequestedKind(r) /\ ~ Admitted(r)}}
  BY <1>4 DEF BuiltFrom
<1>6. QED
  BY <1>1, <1>3, <1>5, Zenon

LEMMA ItemFields ==
  ASSUME NEW g
  PROVE  /\ Item(g).id = PublicId(Winner(g)) /\ Item(g).kind = Semantic(Winner(g)).kind
         /\ Item(g).time = Semantic(Winner(g)).time /\ Item(g).value = Semantic(Winner(g)).value
         /\ Item(g).origin = Origin /\ Item(g).assurance = Assurance(Winner(g))
         /\ Item(g).linked = (Assurance(Winner(g)) = "network_scoped")
         /\ Item(g).named = (Assurance(Winner(g)) = "provider_scoped")
         /\ Item(g).observations = Cardinality(g) /\ Item(g).suppressed = Cardinality(g) - 1
         /\ Item(g).firstSeen = First(g)[1] /\ Item(g).lastSeen = Winner(g)[1]
<1>1. PICK last : last = Winner(g)
  BY Zenon
<1>2. Item(g) =
       [id |-> PublicId(last), kind |-> Semantic(last).kind, time |-> Semantic(last).time,
        value |-> Semantic(last).value, origin |-> Origin, assurance |-> Assurance(last),
        linked |-> Assurance(last) = "network_scoped", named |-> Assurance(last) = "provider_scoped",
        observations |-> Cardinality(g), suppressed |-> Cardinality(g) - 1,
        firstSeen |-> First(g)[1], lastSeen |-> last[1]]
  BY <1>1, Zenon DEF Item
<1>3. /\ Item(g).id = PublicId(last) /\ Item(g).kind = Semantic(last).kind
      /\ Item(g).time = Semantic(last).time /\ Item(g).value = Semantic(last).value
      /\ Item(g).origin = Origin /\ Item(g).assurance = Assurance(last)
      /\ Item(g).linked = (Assurance(last) = "network_scoped")
      /\ Item(g).named = (Assurance(last) = "provider_scoped")
      /\ Item(g).observations = Cardinality(g) /\ Item(g).suppressed = Cardinality(g) - 1
      /\ Item(g).firstSeen = First(g)[1] /\ Item(g).lastSeen = last[1]
  BY <1>2
<1>4. QED
  BY <1>1, <1>3, Zenon

Items(s, q) == {i \in Built(s, q).items : Matches(i, q)}

LEMMA ItemFacts ==
  ASSUME SyncsOK, NEW s, NEW q
  PROVE  /\ IsFiniteSet(Built(s, q).items) /\ IsFiniteSet(Items(s, q))
         /\ \A i \in Built(s, q).items : i.id \in Nat \ {0} /\ i.time \in Nat \cup {NoTime} /\ i.kind \in Kinds
         /\ \A i, j \in Built(s, q).items : i.id = j.id => i = j
<1> DEFINE A == Admissible(s, q)
           G == {g \in Groups0(s, q) : Agrees(g)}
           f == [g \in G |-> Item(g)]
<1>1. A \in SUBSET Rows /\ IsFiniteSet(A)
  BY AdmissibleFacts, Zenon
<1>2. /\ IsFiniteSet(Groups0(s, q))
      /\ \A g \in Groups0(s, q) : g \in SUBSET A /\ g # {} /\ Winner(g) \in g
      /\ \A g \in Groups0(s, q) : \A r \in A, t \in g : PublicId(r) = PublicId(t) <=> r \in g
  BY <1>1, GroupFacts, Zenon DEF Groups0
<1>3. Built(s, q).items = {Item(g) : g \in G}
  BY BuiltFields, Zenon
<1>4. IsFiniteSet(Built(s, q).items)
  <2>1. G \in SUBSET Groups0(s, q)
    BY Zenon
  <2>2. IsFiniteSet(G)
    BY <1>2, <2>1, FS_Subset, Zenon
  <2>3. DOMAIN f = G /\ {f[g] : g \in G} = {Item(g) : g \in G}
    BY Zenon
  <2> HIDE DEF f, G
  <2>4. IsFiniteSet({f[g] : g \in G})
    BY <2>2, <2>3, ImageIsFinite
  <2>5. QED
    BY <1>3, <2>3, <2>4, Zenon
<1>5. Items(s, q) \in SUBSET Built(s, q).items
  BY Zenon DEF Items
<1>6. \A g \in Groups0(s, q) : Winner(g) \in Rows
  BY <1>1, <1>2, Zenon
<1>7. ASSUME NEW i \in Built(s, q).items
      PROVE  i.id \in Nat \ {0} /\ i.time \in Nat \cup {NoTime} /\ i.kind \in Kinds
  <2>1. PICK g \in Groups0(s, q) : i = Item(g)
    BY <1>3, Zenon
  <2>2. i.id = PublicId(Winner(g)) /\ i.time = Semantic(Winner(g)).time /\ i.kind = Semantic(Winner(g)).kind
    BY <2>1, ItemFields, Zenon
  <2>3. PublicId(Winner(g)) \in Nat \ {0}
        /\ Semantic(Winner(g)) \in [kind : Kinds, time : Nat \cup {NoTime}, value : STRING]
    BY <1>6, RowTypes, Zenon
  <2>4. QED
    BY <2>2, <2>3
<1>8. ASSUME NEW i \in Built(s, q).items, NEW j \in Built(s, q).items, i.id = j.id
      PROVE  i = j
  <2>1. PICK g \in Groups0(s, q) : i = Item(g)
    BY <1>3, Zenon
  <2>2. PICK h \in Groups0(s, q) : j = Item(h)
    BY <1>3, Zenon
  <2>3. PublicId(Winner(g)) = PublicId(Winner(h))
    BY <1>8, <2>1, <2>2, ItemFields, Zenon
  <2>4. \A r \in A : r \in g <=> r \in h
    BY <1>2, <2>3, Zenon
  <2>5. g = h
    <3>1. \A r : r \in g <=> r \in h
      BY <1>2, <2>4, Zenon
    <3>2. QED
      BY <3>1
  <2>6. QED
    BY <2>1, <2>2, <2>5, Zenon
<1>9. QED
  BY <1>4, <1>5, <1>7, <1>8, FS_Subset, Zenon

-----------------------------------------------------------------------------
(* The order of a page: every item once.                                    *)

Orderable(I) ==
  /\ IsFiniteSet(I)
  /\ \A i \in I : i.id \in Nat \ {0} /\ i.time \in Nat \cup {NoTime}
  /\ \A i, j \in I : i.id = j.id => i = j

BeforeIn(I, oldest) == {p \in I \X I : p[1] # p[2] /\ Before(p[1], p[2], oldest)}

LEMMA BeforeOldest ==
  ASSUME NEW x, NEW y
  PROVE  Before(x, y, TRUE) <=> IF (x.time = NoTime) # (y.time = NoTime) THEN y.time = NoTime
                                ELSE IF x.time # y.time THEN x.time < y.time ELSE x.id < y.id
<1>1. (x.time < y.time) \in BOOLEAN /\ (x.id < y.id) \in BOOLEAN
  OBVIOUS
<1>2. QED
  BY <1>1, Zenon DEF Before

LEMMA BeforeOrders ==
  ASSUME NEW I, Orderable(I), NEW oldest \in BOOLEAN
  PROVE  StrictTotalOrder(I, BeforeIn(I, oldest))
<1> DEFINE R == BeforeIn(I, oldest)
<1>1. \A x, y \in I : <<x, y>> \in R <=> x # y /\ Before(x, y, oldest)
  BY DEF BeforeIn
<1> HIDE DEF R
<1>2. \A x \in I : x.id \in Nat /\ x.time \in Int
  BY DEF Orderable, NoTime
<1>3. \A x \in I : <<x, x>> \notin R
  BY <1>1, Zenon
<1>4. ASSUME NEW x \in I, NEW y \in I, x # y PROVE <<x, y>> \in R \/ <<y, x>> \in R
  <2>1. x.id # y.id
    BY <1>4, Zenon DEF Orderable
  <2>2. CASE oldest = TRUE
    <3>1. \A a, b \in I : Before(a, b, oldest) <=>
                            IF (a.time = NoTime) # (b.time = NoTime) THEN b.time = NoTime
                            ELSE IF a.time # b.time THEN a.time < b.time ELSE a.id < b.id
      BY <2>2, BeforeOldest, Zenon
    <3>2. QED
      BY <3>1, <1>1, <1>2, <1>4, <2>1
  <2>3. CASE oldest = FALSE
    BY <1>1, <1>2, <1>4, <2>1, <2>3 DEF Before
  <2>4. QED
    BY <2>2, <2>3
<1>5. ASSUME NEW x \in I, NEW y \in I, NEW z \in I, <<x, y>> \in R, <<y, z>> \in R PROVE <<x, z>> \in R
  <2>1. x # y /\ y # z /\ x.id # y.id /\ y.id # z.id
    BY <1>1, <1>5, Zenon DEF Orderable
  <2>2. Before(x, y, oldest) /\ Before(y, z, oldest)
    BY <1>1, <1>5, Zenon
  <2>3. x = z \/ x.id # z.id
    BY Zenon DEF Orderable
  <2>4. CASE oldest = TRUE
    <3>1. \A a, b \in I : Before(a, b, oldest) <=>
                            IF (a.time = NoTime) # (b.time = NoTime) THEN b.time = NoTime
                            ELSE IF a.time # b.time THEN a.time < b.time ELSE a.id < b.id
      BY <2>4, BeforeOldest, Zenon
    <3>2. QED
      BY <3>1, <1>1, <1>2, <2>1, <2>2, <2>3
  <2>5. CASE oldest = FALSE
    BY <1>1, <1>2, <2>1, <2>2, <2>3, <2>5 DEF Before
  <2>6. QED
    BY <2>4, <2>5
<1>6. StrictTotalOrder(I, R)
  BY <1>3, <1>4, <1>5, Zenon DEF StrictTotalOrder
<1>7. QED
  BY <1>6, Zenon DEF R

LEMMA OrderedFacts ==
  ASSUME NEW I, Orderable(I), NEW oldest \in BOOLEAN
  PROVE  /\ Ordered(I, oldest) \in Seq(I) /\ Len(Ordered(I, oldest)) = Cardinality(I)
         /\ \A i, j \in 1..Len(Ordered(I, oldest)) : Ordered(I, oldest)[i] = Ordered(I, oldest)[j] => i = j
         /\ \A x \in I : \E i \in 1..Len(Ordered(I, oldest)) : Ordered(I, oldest)[i] = x
         /\ \A i, j \in 1..Len(Ordered(I, oldest)) :
              i < j => Before(Ordered(I, oldest)[i], Ordered(I, oldest)[j], oldest)
<1> DEFINE R == BeforeIn(I, oldest)
           f == Ordered(I, oldest)
           N == Cardinality(I)
<1>1. StrictTotalOrder(I, R)
  BY BeforeOrders
<1>2. IsFiniteSet(I)
  BY Zenon DEF Orderable
<1>3. \A x \in I : {y \in I : y # x /\ Before(y, x, oldest)} = BelowIn(I, R, x)
  BY DEF BeforeIn, BelowIn
<1>3a. \A x, y : <<x, y>> \in R => Before(x, y, oldest)
  BY DEF BeforeIn
<1>4. f = [n \in 1..N |-> CHOOSE x \in I : Cardinality({y \in I : y # x /\ Before(y, x, oldest)}) = n - 1]
  BY Zenon DEF Ordered, Sorted
<1> HIDE DEF R, f
<1>5. \A n \in 1..N : \E x \in I : Cardinality(BelowIn(I, R, x)) = n - 1
  BY <1>1, <1>2, Ranks
<1>6. ASSUME NEW n \in 1..N PROVE f[n] \in I /\ Cardinality(BelowIn(I, R, f[n])) = n - 1
  <2>1. \E x \in I : Cardinality({y \in I : y # x /\ Before(y, x, oldest)}) = n - 1
    BY <1>3, <1>5, Zenon
  <2>2. f[n] = CHOOSE x \in I : Cardinality({y \in I : y # x /\ Before(y, x, oldest)}) = n - 1
    BY <1>4, Zenon
  <2>3. f[n] \in I /\ Cardinality({y \in I : y # f[n] /\ Before(y, f[n], oldest)}) = n - 1
    BY <2>1, <2>2, Zenon
  <2>4. QED
    BY <1>3, <2>3, Zenon
<1>7. f \in [1..N -> I]
  <2>1. \A n \in 1..N : f[n] \in I
    BY <1>6, Zenon
  <2>2. QED
    BY <1>4, <2>1, Zenon
<1>8. /\ f \in Seq(I) /\ Len(f) = Cardinality(I)
      /\ \A i, j \in 1..Len(f) : f[i] = f[j] => i = j
      /\ \A x \in I : \E i \in 1..Len(f) : f[i] = x
      /\ \A i, j \in 1..Len(f) : i < j => <<f[i], f[j]>> \in R
  <2>1. f \in [1..Cardinality(I) -> I] /\ \A n \in 1..Cardinality(I) : Cardinality(BelowIn(I, R, f[n])) = n - 1
    BY <1>6, <1>7, Zenon
  <2>2. QED
    BY <1>1, <1>2, <2>1, ByRank
<1>9. QED
  BY <1>3a, <1>8, Zenon DEF f

LEMMA ViewFacts ==
  ASSUME SyncsOK, NEW s, NEW q, q.oldest \in BOOLEAN
  PROVE  /\ View(s, q).snapshot = s
         /\ View(s, q).ordered = Ordered(Items(s, q), q.oldest)
         /\ View(s, q).ordered \in Seq(Items(s, q))
         /\ View(s, q).aggregate.total = Len(View(s, q).ordered)
         /\ \A i \in 1..Len(View(s, q).ordered) : View(s, q).ordered[i].id # NoKey
         /\ \A i, j \in 1..Len(View(s, q).ordered) :
              View(s, q).ordered[i].id = View(s, q).ordered[j].id => i = j
         /\ \A x \in Items(s, q) : \E i \in 1..Len(View(s, q).ordered) : View(s, q).ordered[i] = x
         /\ View(s, q).gaps = Gaps(s, Built(s, q), q)
         /\ View(s, q).aggregate = Aggregate(Items(s, q), Built(s, q), q)
<1> DEFINE I == Items(s, q)
           o == Ordered(I, q.oldest)
           V == View(s, q)
<1>1. PICK B : B = Built(s, q)
  BY Zenon
<1>2. V = ViewOf(s, q, B, I)
  BY <1>1, ViewIs, Zenon DEF Items
<1>3. Orderable(I)
  <2>1. I \in SUBSET Built(s, q).items
    BY Zenon DEF Items
  <2>2. QED
    BY <2>1, ItemFacts, Zenon DEF Orderable
<1> HIDE DEF I, V
<1>4. /\ V.snapshot = s /\ V.ordered = Ordered(I, q.oldest) /\ V.aggregate = Aggregate(I, B, q)
      /\ V.gaps = Gaps(s, B, q)
  BY <1>2 DEF ViewOf
<1>5. Aggregate(I, B, q).total = Cardinality(I)
  BY DEF Aggregate
<1>6. /\ o \in Seq(I) /\ Len(o) = Cardinality(I)
      /\ \A i, j \in 1..Len(o) : o[i] = o[j] => i = j
      /\ \A x \in I : \E i \in 1..Len(o) : o[i] = x
  BY <1>3, OrderedFacts
<1> HIDE DEF o
<1>7. \A i \in 1..Len(o) : o[i] \in I
  BY <1>6
<1>8. \A i \in 1..Len(o) : o[i].id # NoKey
  BY <1>3, <1>7 DEF Orderable, NoKey
<1>9. \A i, j \in 1..Len(o) : o[i].id = o[j].id => i = j
  BY <1>3, <1>6, <1>7, Zenon DEF Orderable
<1>10. V.ordered = o
  BY <1>4, Zenon DEF o
<1>11. QED
  BY <1>1, <1>4, <1>5, <1>6, <1>8, <1>9, <1>10, Zenon DEF I, V, o

-----------------------------------------------------------------------------
(* A page continues where the one before it ended.                          *)

Ended(o, k) == IF k + PageLimit <= Len(o) THEN k + PageLimit ELSE Len(o)
PositionOf(o, k) == IF k = 0 THEN NoKey ELSE o[k].id

LEMMA PageFacts ==
  ASSUME NEW I, NEW o \in Seq(I), NEW k \in 0..Len(o),
         \A i \in 1..Len(o) : o[i].id # NoKey,
         \A i, j \in 1..Len(o) : o[i].id = o[j].id => i = j
  PROVE  /\ PositionKnown(o, PositionOf(o, k))
         /\ Page(o, PositionOf(o, k)).items = SubSeq(o, k + 1, Ended(o, k))
         /\ Page(o, PositionOf(o, k)).more <=> Ended(o, k) < Len(o)
         /\ Ended(o, k) \in 0..Len(o) /\ k <= Ended(o, k) /\ (k < Len(o) => k < Ended(o, k))
<1>1. PageLimit \in Nat /\ PageLimit > 0 /\ Len(o) \in Nat /\ k \in Nat /\ k <= Len(o)
  BY ActivityAssumption DEF ActivityAssumption
<1> DEFINE after == PositionOf(o, k)
           n == Len(o)
           start == IF after = NoKey THEN 0 ELSE CHOOSE i \in 1..Len(o) : o[i].id = after
<1>2. after = NoKey <=> k = 0
  <2>1. k # 0 => k \in 1..Len(o)
    BY <1>1
  <2>2. QED
    BY <2>1, Zenon DEF PositionOf
<1>3. start = k
  <2>1. CASE k = 0
    BY <1>2, <2>1, Zenon
  <2>2. CASE k # 0
    <3>1. k \in 1..Len(o)
      BY <1>1, <2>2
    <3>2. after = o[k].id
      BY <2>2, Zenon DEF PositionOf
    <3>3. \E i \in 1..Len(o) : o[i].id = after
      BY <3>1, <3>2, Zenon
    <3> DEFINE c == CHOOSE i \in 1..Len(o) : o[i].id = after
    <3>4. c \in 1..Len(o) /\ o[c].id = after
      BY <3>3, Zenon
    <3> HIDE DEF c
    <3>5. c = k
      BY <3>1, <3>2, <3>4, Zenon
    <3>6. QED
      BY <1>2, <2>2, <3>5, Zenon DEF c
  <2>3. QED
    BY <2>1, <2>2, Zenon
<1>4. PositionKnown(o, after)
  <2>1. CASE k = 0
    BY <1>2, <2>1, Zenon DEF PositionKnown
  <2>2. CASE k # 0
    <3>1. k \in 1..Len(o)
      BY <1>1, <2>2
    <3>2. QED
      BY <2>2, <3>1, Zenon DEF PositionKnown, PositionOf
  <2>3. QED
    BY <2>1, <2>2, Zenon
<1>5. Min({k + PageLimit, Len(o)}) = Ended(o, k)
  <2>1. k + PageLimit \in Int /\ Len(o) \in Int
    BY <1>1
  <2>2. QED
    BY <2>1, MaxMinOfTwo, Zenon DEF Ended
<1>6. Page(o, after) = [items |-> SubSeq(o, start + 1, Min({start + PageLimit, Len(o)})),
                        more |-> Min({start + PageLimit, Len(o)}) < Len(o)]
  BY Zenon DEF Page
<1> HIDE DEF start, after
<1>7. Page(o, after) = [items |-> SubSeq(o, k + 1, Ended(o, k)), more |-> Ended(o, k) < Len(o)]
  BY <1>3, <1>5, <1>6, Zenon
<1>8. Page(o, after).items = SubSeq(o, k + 1, Ended(o, k)) /\ (Page(o, after).more <=> Ended(o, k) < Len(o))
  <2>1. PICK items : items = SubSeq(o, k + 1, Ended(o, k))
    BY Zenon
  <2>2. PICK more \in BOOLEAN : more = (Ended(o, k) < Len(o))
    <3>1. (Ended(o, k) < Len(o)) \in BOOLEAN
      OBVIOUS
    <3>2. QED
      BY <3>1, Zenon
  <2>3. Page(o, after) = [items |-> items, more |-> more]
    BY <1>7, <2>1, <2>2, Zenon
  <2>4. Page(o, after).items = items /\ Page(o, after).more = more
    BY <2>3
  <2>5. QED
    BY <2>1, <2>2, <2>4, Zenon
<1>9. Ended(o, k) \in 0..Len(o) /\ k <= Ended(o, k) /\ (k < Len(o) => k < Ended(o, k))
  BY <1>1 DEF Ended
<1>10. QED
  BY <1>4, <1>8, <1>9, Zenon DEF after

LEMMA Continued ==
  ASSUME NEW I, NEW o \in Seq(I), NEW k \in 0..Len(o), NEW end \in k..Len(o)
  PROVE  /\ SubSeq(o, 1, k) \o SubSeq(o, k + 1, end) = SubSeq(o, 1, end)
         /\ k < end => /\ Len(SubSeq(o, k + 1, end)) = end - k
                       /\ SubSeq(o, k + 1, end)[end - k] = o[end]
<1>1. Len(o) \in Nat /\ k \in Nat /\ end \in Nat /\ k <= end /\ end <= Len(o)
  OBVIOUS
<1>2. SubSeq(o, 1, k) \o SubSeq(o, k + 1, end) = SubSeq(o, 1, end)
  BY <1>1
<1>3. k < end => /\ Len(SubSeq(o, k + 1, end)) = end - k
                 /\ SubSeq(o, k + 1, end)[end - k] = o[end]
  BY <1>1
<1>4. QED
  BY <1>2, <1>3
LEMMA WholeSubSeq ==
  ASSUME NEW I, NEW o \in Seq(I)
  PROVE  SubSeq(o, 1, Len(o)) = o /\ SubSeq(o, 1, 0) = <<>>
OBVIOUS

LEMMA SnapshotFacts ==
  ASSUME SyncsOK, NEW pinned
  PROVE  /\ Snapshot(pinned) \in Usable \cup {NoSync} /\ NoSync \notin Usable
         /\ pinned \in Usable => Snapshot(pinned) = pinned
<1>1. Usable \in SUBSET (1..Len(syncs)) /\ Len(syncs) \in Nat /\ IsFiniteSet(Usable)
  BY UsableFacts, Zenon
<1>2. NoSync \notin Usable
  BY <1>1 DEF NoSync
<1>3. Max(Usable \cup {NoSync}) \in Usable \cup {NoSync}
  <2> DEFINE S == Usable \cup {NoSync}
  <2>1. IsFiniteSet(S)
    BY <1>1, FS_AddElement, Zenon
  <2>2. S \in SUBSET Int /\ S # {}
    BY <1>1 DEF NoSync
  <2> HIDE DEF S
  <2>3. Max(S) \in S
    BY <2>1, <2>2, MaxMin, Zenon
  <2>4. QED
    BY <2>3, Zenon DEF S
<1>4. QED
  BY <1>2, <1>3, Zenon DEF Snapshot

-----------------------------------------------------------------------------
(* A traversal: its first page freezes the answer, every later page shows   *)
(* its next part.                                                           *)

ReaderShape ==
  reader = [at |-> reader.at, pinned |-> reader.pinned, query |-> reader.query, signed |-> reader.signed,
            after |-> reader.after, shown |-> reader.shown, view |-> reader.view, why |-> reader.why]

(* Nothing refuses a page of this snapshot but the archival of the case.    *)
Open(s, q) == s \in Usable /\ PeriodFits(s, q) /\ ~ TooLarge(s, q) /\ RunMatchesCase(s)

WalkOK ==
  /\ ReaderShape
  /\ reader.at \in {"idle", "reading", "done", "refused"}
  /\ reader.at = "idle" => reader = Resting
  /\ reader.at = "reading" =>
       /\ reader.query \in Queries /\ Open(reader.pinned, reader.query)
       /\ reader.view = View(reader.pinned, reader.query)
       /\ \E k \in 1..Len(reader.view.ordered) :
            /\ k < Len(reader.view.ordered)
            /\ reader.shown = SubSeq(reader.view.ordered, 1, k)
            /\ reader.after = reader.view.ordered[k].id
  /\ reader.at = "done" => reader.shown = reader.view.ordered /\ reader.view.aggregate.total = Len(reader.view.ordered)
  /\ reader.at = "refused" => (reader.why = "invalid_cursor" /\ ~ reader.signed) \/ reader.why = "case_not_found"

LEMMA RefusalWhenOpen ==
  ASSUME SyncsOK, NEW s, NEW q, Open(s, q)
  PROVE  /\ Snapshot(s) = s /\ s # NoSync /\ Answer(s, q) = View(s, q)
         /\ Refusal(s, q) = IF archived THEN "case_not_found" ELSE "none"
<1>1. Snapshot(s) = s /\ s # NoSync
  BY SnapshotFacts, Zenon DEF Open
<1>2. QED
  BY <1>1, Zenon DEF Refusal, Answer, Open

LEMMA OpenWhenNotRefused ==
  ASSUME SyncsOK, NEW pinned, NEW q, Refusal(pinned, q) = "none"
  PROVE  Snapshot(pinned) = NoSync \/ Open(Snapshot(pinned), q)
<1>1. Snapshot(pinned) \in Usable \cup {NoSync}
  BY SnapshotFacts, Zenon
<1>2. QED
  BY <1>1, Zenon DEF Refusal, Open

(* One page of a walk that has shown k items.                               *)
LEMMA PageShown ==
  ASSUME SyncsOK, WalkOK, NEW s, NEW q \in Queries, Open(s, q), Open(s, q)', View(s, q)' = View(s, q),
         NEW pinned, Snapshot(pinned) = s, NEW k \in 0..Len(View(s, q).ordered),
         k = 0 \/ k < Len(View(s, q).ordered),
         reader.shown = SubSeq(View(s, q).ordered, 1, k),
         k # 0 => reader.view = View(s, q),
         Shown(pinned, q, PositionOf(View(s, q).ordered, k))
  PROVE  WalkOK'
<1> DEFINE V == View(s, q)
           o == V.ordered
           after == PositionOf(o, k)
           page == Page(o, after)
           end == Ended(o, k)
<1>1. q.oldest \in BOOLEAN
  BY ActivityAssumption, Zenon DEF ActivityAssumption
<1>2. /\ V.snapshot = s /\ o \in Seq(Items(s, q)) /\ V.aggregate.total = Len(o)
      /\ \A i \in 1..Len(o) : o[i].id # NoKey
      /\ \A i, j \in 1..Len(o) : o[i].id = o[j].id => i = j
  BY <1>1, ViewFacts
<1>2a. k \in 0..Len(o)
  OBVIOUS
<1>3. s # NoSync /\ Answer(pinned, q) = V
  <2>1. s # NoSync
    BY RefusalWhenOpen, Zenon
  <2>2. QED
    BY <2>1, Zenon DEF Answer
<1>4. reader' = [reader EXCEPT
        !.at = IF page.more THEN "reading" ELSE "done",
        !.pinned = IF V.snapshot = NoSync THEN @ ELSE V.snapshot,
        !.query = q, !.shown = @ \o page.items,
        !.after = IF page.more THEN page.items[Len(page.items)].id ELSE NoKey,
        !.view = IF after = NoKey THEN V ELSE @]
  <2>1. PICK view \in {Answer(pinned, q)} : \E pg \in {Page(view.ordered, after)} :
          reader' = [reader EXCEPT
            !.at = IF pg.more THEN "reading" ELSE "done",
            !.pinned = IF view.snapshot = NoSync THEN @ ELSE view.snapshot,
            !.query = q, !.shown = @ \o pg.items,
            !.after = IF pg.more THEN pg.items[Len(pg.items)].id ELSE NoKey,
            !.view = IF after = NoKey THEN view ELSE @]
    BY Zenon DEF Shown
  <2>2. view = V
    BY <1>3
  <2> HIDE DEF V
  <2>3. QED
    BY <2>1, <2>2, Zenon
<1> HIDE DEF V
<1>5. /\ page.items = SubSeq(o, k + 1, end) /\ (page.more <=> end < Len(o))
      /\ end \in 0..Len(o) /\ k <= end /\ (k < Len(o) => k < end)
  BY <1>2, <1>2a, PageFacts, Zenon
<1>6. k = 0 <=> after = NoKey
  <2>1. k # 0 => k \in 1..Len(o)
    BY DEF V
  <2>2. QED
    BY <2>1, <1>2, Zenon DEF PositionOf
<1> HIDE DEF page, end
<1>7. reader.shown = SubSeq(o, 1, k) /\ (k # 0 => reader.view = V) /\ k \in 0..Len(o)
  BY Zenon DEF V
<1>8. /\ ReaderShape' /\ reader'.query = q /\ reader'.pinned = s /\ reader'.view = V
      /\ reader'.at = IF page.more THEN "reading" ELSE "done"
      /\ reader'.shown = reader.shown \o page.items
      /\ reader'.after = IF page.more THEN page.items[Len(page.items)].id ELSE NoKey
  <2>1. reader = [at |-> reader.at, pinned |-> reader.pinned, query |-> reader.query, signed |-> reader.signed,
                  after |-> reader.after, shown |-> reader.shown, view |-> reader.view, why |-> reader.why]
    BY Zenon DEF WalkOK, ReaderShape
  <2>2. reader' = [at |-> IF page.more THEN "reading" ELSE "done", pinned |-> s, query |-> q, signed |-> reader.signed,
                   after |-> IF page.more THEN page.items[Len(page.items)].id ELSE NoKey,
                   shown |-> reader.shown \o page.items, view |-> V, why |-> reader.why]
    BY <1>2, <1>3, <1>4, <1>6, <1>7, <2>1
  <2>3. QED
    BY <2>2 DEF ReaderShape
<1>9. Len(o) \in Nat /\ end \in k..Len(o)
  BY <1>2, <1>5, <1>7
<1>10. SubSeq(o, 1, k) \o SubSeq(o, k + 1, end) = SubSeq(o, 1, end)
       /\ (k < end => /\ Len(SubSeq(o, k + 1, end)) = end - k /\ SubSeq(o, k + 1, end)[end - k] = o[end])
  BY <1>2, <1>7, <1>9, Continued
<1>11. reader'.shown = SubSeq(o, 1, end)
  BY <1>5, <1>7, <1>8, <1>10, Zenon
<1>12. CASE page.more
  <2>1. end < Len(o) /\ k < end /\ end \in 1..Len(o)
    BY <1>5, <1>7, <1>9, <1>12
  <2>2. reader'.at = "reading" /\ reader'.after = o[end].id
    BY <1>5, <1>8, <1>10, <1>12, <2>1, Zenon
  <2>3. View(s, q)' = V
    BY Zenon DEF V
  <2>4. QED
    BY <1>8, <1>11, <2>1, <2>2, <2>3, Zenon DEF WalkOK
<1>13. CASE ~ page.more
  <2>1. end = Len(o)
    BY <1>5, <1>9, <1>13
  <2>2. reader'.at = "done" /\ reader'.shown = o
    BY <1>2, <1>8, <1>11, <1>13, <2>1, WholeSubSeq, Zenon
  <2>3. QED
    BY <1>2, <1>8, <2>2, Zenon DEF WalkOK
<1>14. QED
  BY <1>12, <1>13, Zenon

LEMMA StaysOpen ==
  ASSUME SyncsOK, SyncsOK', Keeps, NEW s, NEW q, Open(s, q)
  PROVE  Open(s, q)' /\ View(s, q)' = View(s, q)
<1>1. Frozen(s)
  BY SettledIsFrozen, Zenon DEF Open
<1>2. (PeriodFits(s, q)' <=> PeriodFits(s, q)) /\ (TooLarge(s, q)' <=> TooLarge(s, q))
      /\ (RunMatchesCase(s)' <=> RunMatchesCase(s))
  BY <1>1, FrozenRefusals, Zenon
<1>3. s \in Usable'
  BY <1>1, Zenon DEF Frozen
<1>4. Open(s, q)'
  BY <1>2, <1>3, Zenon DEF Open
<1>5. View(s, q)' = View(s, q)
  BY <1>1, FrozenView, Zenon
<1>6. QED
  BY <1>4, <1>5, Zenon

LEMMA WalkWaits ==
  ASSUME SyncsOK, SyncsOK', Keeps, WalkOK, reader' = reader
  PROVE  WalkOK'
<1>1. ASSUME reader.at = "reading"
      PROVE  Open(reader.pinned, reader.query)' /\ View(reader.pinned, reader.query)' = View(reader.pinned, reader.query)
  <2>1. PICK s, q : s = reader.pinned /\ q = reader.query
    BY Zenon
  <2>2. Open(s, q)
    BY <1>1, <2>1, Zenon DEF WalkOK
  <2>3. Open(s, q)' /\ View(s, q)' = View(s, q)
    BY <2>2, StaysOpen, Zenon
  <2>4. QED
    BY <2>1, <2>3, Zenon
<1>2. ReaderShape'
  BY Zenon DEF WalkOK, ReaderShape
<1>3. QED
  BY <1>1, <1>2, Zenon DEF WalkOK

LEMMA FirstPageWalk ==
  ASSUME SyncsOK, SyncsOK', Keeps, WalkOK, FirstPage
  PROVE  WalkOK'
<1>1. reader = Resting
  BY Zenon DEF WalkOK, FirstPage
<1>2. PICK pinned \in {NoSync} \cup SyncIds, q \in Queries :
             IF Refusal(pinned, q) # "none" THEN FALSE ELSE Shown(pinned, q, NoKey)
  BY Zenon DEF FirstPage
<1>2a. Refusal(pinned, q) = "none" /\ Shown(pinned, q, NoKey)
  <2>1. CASE Refusal(pinned, q) # "none"
    BY <1>2, <2>1, Zenon
  <2>2. CASE Refusal(pinned, q) = "none"
    <3>1. ~ (Refusal(pinned, q) # "none")
      BY <2>2
    <3>2. QED
      BY <1>2, <2>2, <3>1, Zenon
  <2>3. QED
    BY <2>1, <2>2, Zenon
<1>3. CASE Snapshot(pinned) = NoSync
  <2>1. PICK view \in {Answer(pinned, q)} : \E pg \in {Page(view.ordered, NoKey)} :
          reader' = [reader EXCEPT
            !.at = IF pg.more THEN "reading" ELSE "done",
            !.pinned = IF view.snapshot = NoSync THEN @ ELSE view.snapshot,
            !.query = q, !.shown = @ \o pg.items,
            !.after = IF pg.more THEN pg.items[Len(pg.items)].id ELSE NoKey,
            !.view = IF NoKey = NoKey THEN view ELSE @]
    BY <1>2a, Zenon DEF Shown
  <2>2. view = NoActivity
    BY <1>3 DEF Answer
  <2> DEFINE o == NoActivity.ordered
             page == Page(o, PositionOf(o, 0))
  <2>3. o = <<>> /\ o \in Seq({}) /\ Len(o) = 0 /\ NoActivity.aggregate.total = 0
    BY DEF NoActivity
  <2>4. page.items = SubSeq(o, 1, Ended(o, 0)) /\ (page.more <=> Ended(o, 0) < Len(o)) /\ Ended(o, 0) \in 0..Len(o)
    <3>1. 0 \in 0..Len(o) /\ \A i \in 1..Len(o) : FALSE
      BY <2>3
    <3> HIDE DEF o
    <3>2. page.items = SubSeq(o, 0 + 1, Ended(o, 0)) /\ (page.more <=> Ended(o, 0) < Len(o)) /\ Ended(o, 0) \in 0..Len(o)
      BY <2>3, <3>1, PageFacts, Zenon
    <3>3. QED
      BY <3>2
  <2>5. page.items = <<>> /\ ~ page.more
    <3> HIDE DEF o, page
    <3>1. QED
      BY <2>3, <2>4
  <2>6. PositionOf(o, 0) = NoKey
    BY Zenon DEF PositionOf
  <2>7. reader' = [reader EXCEPT
          !.at = IF page.more THEN "reading" ELSE "done",
          !.pinned = IF NoActivity.snapshot = NoSync THEN @ ELSE NoActivity.snapshot,
          !.query = q, !.shown = @ \o page.items,
          !.after = IF page.more THEN page.items[Len(page.items)].id ELSE NoKey,
          !.view = NoActivity]
    BY <2>1, <2>2, <2>6, Zenon
  <2> HIDE DEF page
  <2>8. /\ reader' = [reader EXCEPT !.at = "done", !.pinned = IF NoActivity.snapshot = NoSync THEN @ ELSE NoActivity.snapshot,
                        !.query = q, !.shown = @ \o <<>>, !.after = NoKey, !.view = NoActivity]
    BY <2>5, <2>7, Zenon
  <2>9. ReaderShape' /\ reader'.at = "done" /\ reader'.shown = <<>> /\ reader'.view = NoActivity
    <3>1. <<>> \o <<>> = <<>>
      OBVIOUS
    <3>2. PICK pin : pin = IF NoActivity.snapshot = NoSync THEN reader.pinned ELSE NoActivity.snapshot
      BY Zenon
    <3>3. PICK none, always : none = NoActivity /\ always = NoFilter
      BY Zenon
    <3>4. reader = [at |-> "idle", pinned |-> NoSync, query |-> always, signed |-> TRUE, after |-> NoKey,
                    shown |-> <<>>, view |-> none, why |-> "none"]
      BY <1>1, <3>3, Zenon DEF Resting
    <3>5. reader' = [at |-> "done", pinned |-> pin, query |-> q, signed |-> TRUE, after |-> NoKey,
                     shown |-> <<>>, view |-> none, why |-> "none"]
      BY <2>8, <3>1, <3>2, <3>3, <3>4
    <3>6. QED
      BY <3>3, <3>5 DEF ReaderShape
  <2>10. QED
    BY <2>3, <2>9, Zenon DEF WalkOK
<1>4. CASE Snapshot(pinned) # NoSync
  <2>1. PICK s : s = Snapshot(pinned)
    BY Zenon
  <2>2. Open(s, q)
    BY <1>2a, <1>4, <2>1, OpenWhenNotRefused, Zenon
  <2>3. Open(s, q)' /\ View(s, q)' = View(s, q)
    BY <2>2, StaysOpen, Zenon
  <2>4. q.oldest \in BOOLEAN
    BY ActivityAssumption, Zenon DEF ActivityAssumption
  <2> DEFINE o == View(s, q).ordered
  <2>5. o \in Seq(Items(s, q))
    BY <2>4, ViewFacts
  <2>6. reader.shown = SubSeq(o, 1, 0) /\ 0 \in 0..Len(o)
    <3>1. reader.shown = <<>>
      BY <1>1 DEF Resting
    <3> HIDE DEF o
    <3>2. QED
      BY <2>5, <3>1
  <2>7. PositionOf(o, 0) = NoKey
    BY Zenon DEF PositionOf
  <2>8. Shown(pinned, q, PositionOf(o, 0))
    BY <1>2a, <2>7, Zenon
  <2>9. QED
    BY <2>1, <2>2, <2>3, <2>6, <2>8, PageShown, Zenon
<1>5. QED
  BY <1>3, <1>4, Zenon

LEMMA NextPageWalk ==
  ASSUME SyncsOK, SyncsOK', Keeps, WalkOK, NextPage
  PROVE  WalkOK'
<1>1. PICK s, q : s = reader.pinned /\ q = reader.query
  BY Zenon
<1>2. q \in Queries /\ Open(s, q) /\ reader.view = View(s, q)
  BY <1>1, Zenon DEF WalkOK, NextPage
<1> DEFINE o == View(s, q).ordered
<1>3. PICK k \in 1..Len(o) : k < Len(o) /\ reader.shown = SubSeq(o, 1, k) /\ reader.after = o[k].id
  BY <1>1, <1>2, Zenon DEF WalkOK, NextPage
<1>4. /\ Snapshot(s) = s /\ Answer(s, q) = View(s, q)
      /\ Refusal(s, q) = IF archived THEN "case_not_found" ELSE "none"
  BY <1>2, RefusalWhenOpen, Zenon
<1>5. ASSUME NEW why, Refuse(why), (why = "invalid_cursor" /\ ~ reader.signed) \/ why = "case_not_found"
      PROVE  WalkOK'
  <2>1. reader = [at |-> reader.at, pinned |-> reader.pinned, query |-> reader.query, signed |-> reader.signed,
                  after |-> reader.after, shown |-> reader.shown, view |-> reader.view, why |-> reader.why]
    BY Zenon DEF WalkOK, ReaderShape
  <2>2. PICK none : none = NoActivity
    BY Zenon
  <2>3. reader' = [reader EXCEPT !.at = "refused", !.why = why, !.view = none, !.shown = <<>>]
    BY <1>5, <2>2, Zenon DEF Refuse
  <2>4. reader' = [at |-> "refused", pinned |-> reader.pinned, query |-> reader.query, signed |-> reader.signed,
                   after |-> reader.after, shown |-> <<>>, view |-> none, why |-> why]
    BY <2>1, <2>3
  <2>5. ReaderShape' /\ reader'.at = "refused" /\ reader'.why = why /\ reader'.signed = reader.signed
    BY <2>4 DEF ReaderShape
  <2>6. QED
    BY <1>5, <2>5, Zenon DEF WalkOK
<1>6. PositionOf(o, k) = reader.after /\ k \in 0..Len(o) /\ k # 0
  BY <1>3 DEF PositionOf
<1>7. q.oldest \in BOOLEAN
  BY <1>2, ActivityAssumption, Zenon DEF ActivityAssumption
<1>8. PositionKnown(o, reader.after)
  BY <1>3, Zenon DEF PositionKnown
<1>9. Open(s, q)' /\ View(s, q)' = View(s, q)
  BY <1>2, StaysOpen, Zenon
<1>10. CASE ~ reader.signed
  BY <1>5, <1>10, Zenon DEF NextPage
<1>11. CASE reader.signed /\ archived
  <2>1. Refuse("case_not_found")
    BY <1>1, <1>4, <1>11 DEF NextPage
  <2>2. QED
    BY <1>5, <2>1, Zenon
<1>12. CASE reader.signed /\ ~ archived
  <2>1. Refusal(s, q) = "none"
    BY <1>4, <1>12, Zenon
  <2>2. Shown(s, q, reader.after)
    BY <1>1, <1>4, <1>8, <1>12, <2>1, Zenon DEF NextPage
  <2>3. Shown(s, q, PositionOf(o, k))
    BY <1>6, <2>2, Zenon
  <2>4. QED
    BY <1>2, <1>3, <1>4, <1>6, <1>9, <2>3, PageShown, Zenon
<1>13. QED
  BY <1>10, <1>11, <1>12, Zenon

LEMMA RestartWalk ==
  ASSUME SyncsOK, SyncsOK', Keeps, WalkOK, Restart
  PROVE  WalkOK'
<1>1. PICK s, q : s = reader.pinned /\ q = reader.query
  BY Zenon
<1>2. q \in Queries /\ Open(s, q)
  BY <1>1, Zenon DEF WalkOK, Restart
<1>3. Open(s, q)' /\ View(s, q)' = View(s, q)
  BY <1>2, StaysOpen, Zenon
<1>4. reader' = [at |-> reader.at, pinned |-> reader.pinned, query |-> reader.query, signed |-> FALSE,
                 after |-> reader.after, shown |-> reader.shown, view |-> reader.view, why |-> reader.why]
  <2>1. reader = [at |-> reader.at, pinned |-> reader.pinned, query |-> reader.query, signed |-> reader.signed,
                  after |-> reader.after, shown |-> reader.shown, view |-> reader.view, why |-> reader.why]
    BY Zenon DEF WalkOK, ReaderShape
  <2>2. reader' = [reader EXCEPT !.signed = FALSE]
    BY Zenon DEF Restart
  <2>3. QED
    BY <2>1, <2>2
<1>5. /\ ReaderShape' /\ reader'.at = reader.at /\ reader'.pinned = reader.pinned /\ reader'.query = reader.query
      /\ reader'.after = reader.after /\ reader'.shown = reader.shown /\ reader'.view = reader.view
  BY <1>4 DEF ReaderShape
<1>6. reader.at = "reading"
  BY Zenon DEF Restart
<1>7. QED
  BY <1>1, <1>3, <1>5, <1>6, Zenon DEF WalkOK

LEMMA RestingWalk ==
  ASSUME reader = Resting
  PROVE  WalkOK
<1>1. PICK none, always : none = NoActivity /\ always = NoFilter
  BY Zenon
<1>2. reader = [at |-> "idle", pinned |-> NoSync, query |-> always, signed |-> TRUE, after |-> NoKey,
                shown |-> <<>>, view |-> none, why |-> "none"]
  BY <1>1, Zenon DEF Resting
<1>3. ReaderShape /\ reader.at = "idle"
  BY <1>2 DEF ReaderShape
<1>4. QED
  BY <1>3, Zenon DEF WalkOK

LEMMA RestingWalkNext == (reader = Resting => WalkOK)'
BY RestingWalk, PTL

(* Every step of the case, its syncs and its reader.                        *)
LEMMA ActivityStep ==
  ASSUME SyncsOK, WalkOK, ActivityNext
  PROVE  SyncsOK' /\ WalkOK' /\ Keeps
<1>1. CASE BeginBounded
  <2>1. reader' = reader
    BY <1>1, Zenon DEF BeginBounded
  <2>2. QED
    BY <1>1, <2>1, BeginBoundedKeeps, WalkWaits, Zenon
<1>2. CASE BeginIncremental
  <2>1. reader' = reader
    BY <1>2, Zenon DEF BeginIncremental
  <2>2. QED
    BY <1>2, <2>1, BeginIncrementalKeeps, WalkWaits, Zenon
<1>3. CASE PublishSync
  <2>1. reader' = reader
    BY <1>3, Zenon DEF PublishSync
  <2>2. QED
    BY <1>3, <2>1, PublishKeeps, WalkWaits, Zenon
<1>4. CASE FailSync
  <2>1. reader' = reader
    BY <1>4, Zenon DEF FailSync
  <2>2. QED
    BY <1>4, <2>1, FailKeeps, WalkWaits, Zenon
<1>5. CASE ArchiveCase
  <2>1. reader' = reader /\ environment' = environment /\ syncs' = syncs
    BY <1>5, Zenon DEF ArchiveCase
  <2>2. QED
    BY <2>1, SameSyncsKeep, WalkWaits, Zenon
<1>6. CASE RestoreCase
  <2>1. reader' = reader /\ environment' = environment /\ syncs' = syncs
    BY <1>6, Zenon DEF RestoreCase
  <2>2. QED
    BY <2>1, SameSyncsKeep, WalkWaits, Zenon
<1>7. CASE Restart
  <2>1. environment' = environment /\ syncs' = syncs
    BY <1>7, Zenon DEF Restart
  <2>2. QED
    BY <1>7, <2>1, SameSyncsKeep, RestartWalk, Zenon
<1>8. CASE FirstPage
  <2>1. environment' = environment /\ syncs' = syncs
    BY <1>8, Zenon DEF FirstPage
  <2>2. QED
    BY <1>8, <2>1, SameSyncsKeep, FirstPageWalk, Zenon
<1>9. CASE NextPage
  <2>1. environment' = environment /\ syncs' = syncs
    BY <1>9, Zenon DEF NextPage
  <2>2. QED
    BY <1>9, <2>1, SameSyncsKeep, NextPageWalk, Zenon
<1>10. CASE StartOver
  <2>1. environment' = environment /\ syncs' = syncs /\ reader' = Resting
    BY <1>10, Zenon DEF StartOver
  <2>2. WalkOK'
    BY <2>1, RestingWalkNext, Zenon
  <2>3. QED
    BY <2>1, <2>2, SameSyncsKeep, Zenon
<1>11. QED
  BY <1>1, <1>2, <1>3, <1>4, <1>5, <1>6, <1>7, <1>8, <1>9, <1>10, Zenon DEF ActivityNext, SyncSteps, ReaderSteps

LEMMA WalkIsFrozen ==
  ASSUME SyncsOK, WalkOK
  PROVE  ActivityWalkIsFrozen
<1>1. ASSUME reader.at = "reading"
      PROVE  reader.view.aggregate.total = Len(reader.view.ordered)
  <2>1. PICK s, q : s = reader.pinned /\ q = reader.query
    BY Zenon
  <2>2. q \in Queries /\ reader.view = View(s, q)
    BY <1>1, <2>1, Zenon DEF WalkOK
  <2>3. q.oldest \in BOOLEAN
    BY <2>2, ActivityAssumption, Zenon DEF ActivityAssumption
  <2>4. View(s, q).aggregate.total = Len(View(s, q).ordered)
    BY <2>3, ViewFacts
  <2>5. QED
    BY <2>2, <2>4, Zenon
<1>2. reader.at \in {"reading", "done"} => reader.at = "reading" \/ reader.at = "done"
  OBVIOUS
<1>3. QED
  BY <1>1, <1>2, Zenon DEF WalkOK, ActivityWalkIsFrozen

-----------------------------------------------------------------------------
(* Reports: what a request has read and what is stored never depends on     *)
(* what moves after it was read.                                            *)

ListedRow ==
  [id : Nat, activity : Nat, row : Nat \X Nat,
   semantic : [kind : Kinds, time : Nat \cup {NoTime}, value : STRING],
   state : States, progress : 0..Stages, version : Nat, cancel : BOOLEAN]

UniqueIds(rows) == \A a, b \in rows : a.id = b.id => a = b

(* Attempts a report of the snapshot may list: each by its own id and for a *)
(* transaction of the snapshot.                                             *)
BoundRows(s) ==
  {rows \in SUBSET ListedRow :
     IsFiniteSet(rows) /\ UniqueIds(rows) /\ \A a \in rows : Binding(a) \in Verifiable(s)}

ReportOf(s, rows, total) == Report(s, ActivityPart(View(s, NoFilter)), rows, total)

(* Every report that could be stored of the usable snapshots.               *)
Storable == UNION {UNION {{ReportOf(s, rows, total) : total \in Nat} : rows \in BoundRows(s)} : s \in Usable}

LEMMA StorableIs ==
  /\ \A s \in Usable : \A rows \in BoundRows(s), total \in Nat : ReportOf(s, rows, total) \in Storable
  /\ \A report \in Storable : \E s \in Usable : \E rows \in BoundRows(s), total \in Nat :
       report = ReportOf(s, rows, total)
<1>1. ASSUME NEW s \in Usable, NEW rows \in BoundRows(s), NEW total \in Nat
      PROVE  ReportOf(s, rows, total) \in Storable
  <2>1. ReportOf(s, rows, total) \in {ReportOf(s, rows, n) : n \in Nat}
    BY Zenon
  <2>2. ReportOf(s, rows, total) \in UNION {{ReportOf(s, r, n) : n \in Nat} : r \in BoundRows(s)}
    BY <2>1, Zenon
  <2> DEFINE of(x) == UNION {{ReportOf(x, r, n) : n \in Nat} : r \in BoundRows(x)}
  <2>3. Storable = UNION {of(x) : x \in Usable}
    BY Zenon DEF Storable
  <2>4. ReportOf(s, rows, total) \in of(s)
    BY <2>2, Zenon
  <2> HIDE DEF of
  <2>5. QED
    BY <2>3, <2>4, Zenon
<1>2. ASSUME NEW report \in Storable
      PROVE  \E s \in Usable : \E rows \in BoundRows(s), total \in Nat : report = ReportOf(s, rows, total)
  <2>1. PICK s \in Usable : report \in UNION {{ReportOf(s, rows, total) : total \in Nat} : rows \in BoundRows(s)}
    BY Zenon DEF Storable
  <2>2. PICK rows \in BoundRows(s) : report \in {ReportOf(s, rows, total) : total \in Nat}
    BY <2>1, Zenon
  <2>3. PICK total \in Nat : report = ReportOf(s, rows, total)
    BY <2>2, Zenon
  <2>4. QED
    BY <2>3, Zenon
<1>3. QED
  BY <1>1, <1>2, Zenon

LEMMA StorableIsNext ==
  (/\ \A s \in Usable : \A rows \in BoundRows(s), total \in Nat : ReportOf(s, rows, total) \in Storable
   /\ \A report \in Storable : \E s \in Usable : \E rows \in BoundRows(s), total \in Nat :
        report = ReportOf(s, rows, total))'
BY StorableIs, PTL

LEMMA ReportIs ==
  \A s, activity, rows, total :
    Report(s, activity, rows, total) =
      ReportOn(s, activity, EvidenceRevision(rows, total), Unmet(s, activity, EvidenceRevision(rows, total)))
<1>1. SUFFICES ASSUME NEW s, NEW activity, NEW rows, NEW total
      PROVE  Report(s, activity, rows, total) =
               ReportOn(s, activity, EvidenceRevision(rows, total), Unmet(s, activity, EvidenceRevision(rows, total)))
  BY Zenon
<1> DEFINE E == EvidenceRevision(rows, total)
           U(evidence) == Unmet(s, activity, evidence)
           With(evidence) == The({ReportOn(s, activity, evidence, unmet) : unmet \in {U(evidence)}})
<1>2. Report(s, activity, rows, total) = The({With(evidence) : evidence \in {E}})
  BY Zenon DEF Report
<1>3. {With(evidence) : evidence \in {E}} = {With(E)}
  OBVIOUS
<1>4. {ReportOn(s, activity, E, unmet) : unmet \in {U(E)}} = {ReportOn(s, activity, E, U(E))}
  OBVIOUS
<1>5. With(E) = ReportOn(s, activity, E, U(E))
  BY <1>4, TheOf, Zenon
<1>6. The({With(E)}) = With(E)
  BY TheOf
<1>7. QED
  BY <1>2, <1>3, <1>5, <1>6, Zenon

LEMMA ReportIsNext ==
  (\A s, activity, rows, total :
    Report(s, activity, rows, total) =
      ReportOn(s, activity, EvidenceRevision(rows, total), Unmet(s, activity, EvidenceRevision(rows, total))))'
BY ReportIs, PTL

LEMMA FrozenReport ==
  ASSUME NEW s, Frozen(s), NEW activity, NEW rows, NEW total
  PROVE  Report(s, activity, rows, total)' = Report(s, activity, rows, total)
<1>1. environment' = environment /\ syncs'[s] = syncs[s]
  BY DEF Frozen, Usable, SyncIds
<1>2. PICK E : E = EvidenceRevision(rows, total)
  BY Zenon
<1>3. EvidenceRevision(rows, total)' = E
  BY <1>2, Zenon DEF EvidenceRevision, Proven, StrongestAttempts, Stronger
<1>4. PICK U : U = Unmet(s, activity, E)
  BY Zenon
<1>5. Unmet(s, activity, E)' = U
  BY <1>1, <1>4, Zenon DEF Unmet, FullHistoryProven
<1>6. ReportOn(s, activity, E, U)' = ReportOn(s, activity, E, U)
  BY <1>1, Zenon DEF ReportOn, AssuranceLevel, ReportLimitations, AffectedCount
<1>7. QED
  BY <1>2, <1>3, <1>4, <1>5, <1>6, ReportIs, ReportIsNext, Zenon

LEMMA FrozenStorable ==
  ASSUME SyncsOK, SyncsOK', Keeps
  PROVE  /\ \A s \in Usable : /\ s \in Usable' /\ Verifiable(s)' = Verifiable(s) /\ BoundRows(s)' = BoundRows(s)
                              /\ View(s, NoFilter)' = View(s, NoFilter)
                              /\ \A rows, total : ReportOf(s, rows, total)' = ReportOf(s, rows, total)
         /\ Storable \subseteq Storable'
<1>1. ASSUME NEW s \in Usable
      PROVE  /\ s \in Usable' /\ Verifiable(s)' = Verifiable(s) /\ BoundRows(s)' = BoundRows(s)
             /\ View(s, NoFilter)' = View(s, NoFilter)
             /\ \A rows, total : ReportOf(s, rows, total)' = ReportOf(s, rows, total)
  <2>1. Frozen(s)
    BY SettledIsFrozen, Zenon
  <2>2. s \in Usable'
    BY <2>1, Zenon DEF Frozen
  <2>3. Verifiable(s)' = Verifiable(s)
    BY <2>1, FrozenRefusals, Zenon
  <2>4. View(s, NoFilter)' = View(s, NoFilter)
    BY <2>1, FrozenView, Zenon
  <2>5. BoundRows(s)' = BoundRows(s)
    BY <2>3, Zenon DEF BoundRows, Binding, UniqueIds
  <2>6. ASSUME NEW rows, NEW total PROVE ReportOf(s, rows, total)' = ReportOf(s, rows, total)
    <3>1. PICK activity : activity = ActivityPart(View(s, NoFilter))
      BY Zenon
    <3>2. ActivityPart(View(s, NoFilter))' = activity
      BY <3>1, <2>4, Zenon DEF ActivityPart
    <3>3. Report(s, activity, rows, total)' = Report(s, activity, rows, total)
      BY <2>1, FrozenReport, Zenon
    <3>4. QED
      BY <3>1, <3>2, <3>3, Zenon DEF ReportOf
  <2>7. QED
    BY <2>2, <2>3, <2>4, <2>5, <2>6, Zenon
<1>2. ASSUME NEW report \in Storable PROVE report \in Storable'
  <2>1. PICK s \in Usable : \E rows \in BoundRows(s), total \in Nat : report = ReportOf(s, rows, total)
    BY StorableIs, Zenon
  <2>2. PICK rows \in BoundRows(s), total \in Nat : report = ReportOf(s, rows, total)
    BY <2>1, Zenon
  <2>3. s \in Usable' /\ rows \in BoundRows(s)' /\ report = ReportOf(s, rows, total)'
    BY <1>1, <2>2, Zenon
  <2>4. QED
    BY <2>3, StorableIsNext, Zenon
<1>3. QED
  BY <1>1, <1>2, Zenon

-----------------------------------------------------------------------------
(* The catalog of stored reports: a page holds the next numbers below those *)
(* already shown.                                                           *)

LEMMA Descending ==
  ASSUME NEW m \in Nat
  PROVE  Sorted(1..m, LAMBDA a, b : a > b) = [i \in 1..m |-> m + 1 - i]
<1> DEFINE S == 1..m
           R(n) == CHOOSE x \in S : Cardinality({y \in S : y > x}) = n - 1
           f == [n \in 1..Cardinality(S) |-> R(n)]
<1>1. Sorted(S, LAMBDA a, b : a > b) = f
  BY Zenon DEF Sorted
<1>2. Cardinality(S) = m
  <2>1. Cardinality(1..m) = IF 1 > m THEN 0 ELSE m - 1 + 1
    BY FS_Interval
  <2>2. QED
    BY <2>1
<1>3. ASSUME NEW x \in S PROVE Cardinality({y \in S : y > x}) = m - x
  <2>1. {y \in S : y > x} = (x + 1)..m
    OBVIOUS
  <2>2. x + 1 \in Int /\ m \in Int /\ x <= m
    OBVIOUS
  <2>3. Cardinality((x + 1)..m) = IF x + 1 > m THEN 0 ELSE m - (x + 1) + 1
    BY <2>2, FS_Interval
  <2>4. Cardinality((x + 1)..m) = m - x
    BY <2>2, <2>3
  <2>5. QED
    BY <2>1, <2>4, Zenon
<1>4. ASSUME NEW n \in 1..m PROVE R(n) = m + 1 - n
  <2>1. m + 1 - n \in S /\ m - (m + 1 - n) = n - 1
    OBVIOUS
  <2>2. Cardinality({y \in S : y > m + 1 - n}) = n - 1
    BY <2>1, <1>3
  <2>3. R(n) \in S /\ Cardinality({y \in S : y > R(n)}) = n - 1
    BY <2>1, <2>2, Zenon
  <2>4. m - R(n) = n - 1
    BY <2>3, <1>3, Zenon
  <2> HIDE DEF R
  <2>5. QED
    BY <2>3, <2>4
<1> HIDE DEF S, R
<1>5. f = [i \in 1..m |-> m + 1 - i]
  BY <1>2, <1>4, Zenon
<1>6. QED
  BY <1>1, <1>5, Zenon DEF S

(* The numbers of a page that comes after k others.                         *)
Left(cutoff, k) == cutoff - k
Turn(cutoff, k) == IF RevisionLimit <= Left(cutoff, k) THEN RevisionLimit ELSE Left(cutoff, k)
CatalogPosition(cutoff, k) == IF k = 0 THEN 0 ELSE cutoff + 1 - k

LEMMA RevisionPageIs ==
  ASSUME NEW X, revisions \in Seq(X), NEW cutoff \in 0..Len(revisions), NEW k \in 0..cutoff
  PROVE  /\ RevisionPage(cutoff, CatalogPosition(cutoff, k)).items = [i \in 1..Turn(cutoff, k) |-> Left(cutoff, k) + 1 - i]
         /\ RevisionPage(cutoff, CatalogPosition(cutoff, k)).more <=> Left(cutoff, k) > RevisionLimit
         /\ RevisionPage(cutoff, CatalogPosition(cutoff, k)).total = cutoff
<1> DEFINE after == CatalogPosition(cutoff, k)
           m == Left(cutoff, k)
           t == Turn(cutoff, k)
           ids == {n \in 1..Len(revisions) : n <= cutoff /\ (after = 0 \/ n < after)}
           page == RevisionPage(cutoff, after)
<1>1. Len(revisions) \in Nat /\ cutoff \in Nat /\ k \in Nat /\ k <= cutoff /\ cutoff <= Len(revisions)
  OBVIOUS
<1>2. ids = 1..m /\ m \in Nat
  BY <1>1 DEF CatalogPosition, Left
<1>3. Cardinality({n \in 1..Len(revisions) : n <= cutoff}) = cutoff
  <2>1. {n \in 1..Len(revisions) : n <= cutoff} = 1..cutoff
    BY <1>1
  <2>2. 1 \in Int /\ cutoff \in Int
    BY <1>1
  <2>3. Cardinality(1..cutoff) = IF 1 > cutoff THEN 0 ELSE cutoff - 1 + 1
    BY <2>2, FS_Interval
  <2>4. Cardinality(1..cutoff) = cutoff
    BY <1>1, <2>3
  <2>5. QED
    BY <2>1, <2>4, Zenon
<1> DEFINE ordered == [i \in 1..m |-> m + 1 - i]
<1> HIDE DEF m
<1>4. page = [items |-> SubSeq(ordered, 1, Min({RevisionLimit, Len(ordered)})), more |-> Len(ordered) > RevisionLimit,
              total |-> cutoff]
  <2>1. Sorted(ids, LAMBDA a, b : a > b) = ordered
    BY <1>2, Descending, Zenon
  <2>2. page = [items |-> SubSeq(Sorted(ids, LAMBDA a, b : a > b), 1, Min({RevisionLimit, Len(Sorted(ids, LAMBDA a, b : a > b))})),
                more |-> Len(Sorted(ids, LAMBDA a, b : a > b)) > RevisionLimit,
                total |-> Cardinality({n \in 1..Len(revisions) : n <= cutoff})]
    BY Zenon DEF RevisionPage
  <2> HIDE DEF ids, ordered, page
  <2>3. QED
    BY <1>3, <2>1, <2>2, Zenon
<1>5. ordered \in Seq(Int) /\ Len(ordered) = m
  BY <1>2
<1>6. RevisionLimit \in Nat /\ RevisionLimit > 0
  BY ReportAssumption DEF ReportAssumption
<1>7. Min({RevisionLimit, m}) = t
  <2>1. RevisionLimit \in Int /\ m \in Int
    BY <1>2, <1>6
  <2>2. QED
    BY <2>1, MaxMinOfTwo, Zenon DEF Turn, m
<1>8. t \in 0..m
  BY <1>2, <1>6 DEF Turn, m
<1> HIDE DEF t, page
<1>9. SubSeq(ordered, 1, t) = [i \in 1..t |-> m + 1 - i]
  BY <1>2, <1>8
<1>10. page = [items |-> [i \in 1..t |-> m + 1 - i], more |-> m > RevisionLimit, total |-> cutoff]
  BY <1>4, <1>5, <1>7, <1>9, Zenon
<1>11. page.items = [i \in 1..t |-> m + 1 - i] /\ (page.more <=> m > RevisionLimit) /\ page.total = cutoff
  <2>1. PICK items : items = [i \in 1..t |-> m + 1 - i]
    BY Zenon
  <2>2. PICK more \in BOOLEAN : more = (m > RevisionLimit)
    <3>1. (m > RevisionLimit) \in BOOLEAN
      OBVIOUS
    <3>2. QED
      BY <3>1, Zenon
  <2>3. page = [items |-> items, more |-> more, total |-> cutoff]
    BY <1>10, <2>1, <2>2, Zenon
  <2>4. page.items = items /\ page.more = more /\ page.total = cutoff
    BY <2>3
  <2>5. QED
    BY <2>1, <2>2, <2>4, Zenon
<1>12. QED
  BY <1>11, Zenon DEF page, m, t

HistoryShape ==
  history = [at |-> history.at, cutoff |-> history.cutoff, after |-> history.after, shown |-> history.shown,
             total |-> history.total, signed |-> history.signed]

HistoryOK ==
  /\ HistoryShape
  /\ history.at \in {"idle", "reading", "done", "invalid_cursor", "case_not_found"}
  /\ history.at = "idle" => history = Unopened
  /\ history.at = "reading" =>
       /\ history.cutoff \in Nat
       /\ deleted \/ history.cutoff <= Len(revisions)
       /\ \E k \in 1..history.cutoff :
            /\ k < history.cutoff
            /\ history.shown = [i \in 1..k |-> history.cutoff + 1 - i]
            /\ history.after = CatalogPosition(history.cutoff, k)
  /\ history.at = "done" =>
       history.shown = [i \in 1..history.total |-> history.cutoff + 1 - i] /\ history.total = history.cutoff
  /\ history.at = "invalid_cursor" => ~ history.signed

LEMMA Joined ==
  \A a, b \in Seq(Int) :
    /\ a \o b \in Seq(Int) /\ Len(a \o b) = Len(a) + Len(b)
    /\ \A i \in 1..(Len(a) + Len(b)) : (a \o b)[i] = IF i <= Len(a) THEN a[i] ELSE b[i - Len(a)]
<1>1. SUFFICES ASSUME NEW a \in Seq(Int), NEW b \in Seq(Int)
      PROVE  /\ a \o b \in Seq(Int) /\ Len(a \o b) = Len(a) + Len(b)
             /\ \A i \in 1..(Len(a) + Len(b)) : (a \o b)[i] = IF i <= Len(a) THEN a[i] ELSE b[i - Len(a)]
  BY Zenon
<1>2. QED
  BY ConcatProperties

(* One page of a traversal that has shown k numbers.                        *)
LEMMA TurnedHistory ==
  ASSUME NEW X, revisions \in Seq(X), revisions' = revisions, HistoryOK,
         NEW cutoff \in 1..Len(revisions), NEW k \in 0..cutoff, k < cutoff,
         history.shown = [i \in 1..k |-> cutoff + 1 - i],
         Turned(cutoff, CatalogPosition(cutoff, k))
  PROVE  HistoryOK'
<1> DEFINE after == CatalogPosition(cutoff, k)
           m == Left(cutoff, k)
           t == Turn(cutoff, k)
           page == RevisionPage(cutoff, after)
<1>1. Len(revisions) \in Nat /\ cutoff \in Nat /\ cutoff >= 1 /\ k \in Nat /\ cutoff <= Len(revisions) /\ m \in Nat /\ m >= 1
  BY DEF Left
<1>2. page.items = [i \in 1..t |-> m + 1 - i] /\ (page.more <=> m > RevisionLimit) /\ page.total = cutoff
  <2>1. cutoff \in 0..Len(revisions)
    BY <1>1
  <2>2. QED
    BY <2>1, RevisionPageIs, Zenon
<1>3. RevisionLimit \in Nat /\ RevisionLimit >= 1
  BY ReportAssumption DEF ReportAssumption
<1>4. t \in 1..m /\ (m > RevisionLimit <=> t < m)
  BY <1>1, <1>3 DEF Turn
<1>5. history' = [history EXCEPT !.at = IF page.more THEN "reading" ELSE "done", !.cutoff = cutoff,
                    !.after = IF page.more THEN page.items[Len(page.items)] ELSE 0,
                    !.shown = @ \o page.items, !.total = page.total]
  <2>1. PICK pg \in {RevisionPage(cutoff, after)} :
          history' = [history EXCEPT !.at = IF pg.more THEN "reading" ELSE "done", !.cutoff = cutoff,
                        !.after = IF pg.more THEN pg.items[Len(pg.items)] ELSE 0,
                        !.shown = @ \o pg.items, !.total = pg.total]
    BY Zenon DEF Turned
  <2>2. pg = page
    BY Zenon
  <2>3. QED
    BY <2>1, <2>2, Zenon
<1> HIDE DEF page
<1>6. PICK items : items = page.items
  BY Zenon
<1>7. items = [i \in 1..t |-> m + 1 - i] /\ Len(items) = t /\ items[t] = m + 1 - t
  BY <1>1, <1>2, <1>4, <1>6
<1>8. /\ HistoryShape' /\ history'.at = IF page.more THEN "reading" ELSE "done"
      /\ history'.cutoff = cutoff /\ history'.total = cutoff /\ history'.shown = history.shown \o items
      /\ history'.after = IF page.more THEN m + 1 - t ELSE 0
  <2>1. history = [at |-> history.at, cutoff |-> history.cutoff, after |-> history.after, shown |-> history.shown,
                   total |-> history.total, signed |-> history.signed]
    BY Zenon DEF HistoryOK, HistoryShape
  <2>2. history' = [at |-> IF page.more THEN "reading" ELSE "done", cutoff |-> cutoff,
                    after |-> IF page.more THEN m + 1 - t ELSE 0,
                    shown |-> history.shown \o items, total |-> cutoff, signed |-> history.signed]
    BY <1>2, <1>5, <1>6, <1>7, <2>1
  <2>3. QED
    BY <2>2 DEF HistoryShape
<1>9. history.shown \o items = [i \in 1..(k + t) |-> cutoff + 1 - i]
  <2> HIDE DEF m, t
  <2>1. PICK shown : shown = [i \in 1..k |-> cutoff + 1 - i]
    BY Zenon
  <2>2. /\ shown \in Seq(Int) /\ Len(shown) = k
        /\ \A i \in 1..k : shown[i] = cutoff + 1 - i
    BY <1>1, <2>1
  <2>3. t \in Nat
    BY <1>1, <1>4
  <2>4. /\ items \in Seq(Int) /\ Len(items) = t
        /\ \A i \in 1..t : items[i] = m + 1 - i
    <3>1. m \in Nat /\ items = [i \in 1..t |-> m + 1 - i] /\ Len(items) = t
      BY <1>1, <1>7, Zenon
    <3>2. \A i \in 1..t : m + 1 - i \in Int
      BY <2>3, <3>1
    <3>3. items \in [1..t -> Int]
      BY <3>1, <3>2, Zenon
    <3>4. items \in Seq(Int)
      BY <2>3, <3>3
    <3>5. \A i \in 1..t : items[i] = m + 1 - i
      BY <3>1, Zenon
    <3>6. QED
      BY <3>1, <3>4, <3>5, Zenon
  <2>5. /\ shown \o items \in Seq(Int) /\ Len(shown \o items) = Len(shown) + Len(items)
        /\ \A i \in 1..(Len(shown) + Len(items)) :
             (shown \o items)[i] = IF i <= Len(shown) THEN shown[i] ELSE items[i - Len(shown)]
    BY <2>2, <2>4, Joined
  <2>6. PICK both : both = shown \o items
    BY Zenon
  <2>7. /\ both \in Seq(Int) /\ Len(both) = k + t
        /\ \A i \in 1..(k + t) : both[i] = IF i <= k THEN shown[i] ELSE items[i - k]
    BY <2>2, <2>4, <2>5, <2>6, Zenon
  <2>7a. m = cutoff - k
    BY Zenon DEF m, Left
  <2>7b. \A i \in 1..(k + t) : both[i] = cutoff + 1 - i
    <3>1. SUFFICES ASSUME NEW i \in 1..(k + t) PROVE both[i] = cutoff + 1 - i
      BY Zenon
    <3>2. CASE i <= k
      <4>1. i \in 1..k
        BY <1>1, <2>3, <3>2
      <4>2. both[i] = shown[i]
        BY <2>7, <3>2, Zenon
      <4>3. QED
        BY <2>2, <4>1, <4>2, Zenon
    <3>3. CASE ~ (i <= k)
      <4>1. i - k \in 1..t
        BY <1>1, <2>3, <3>3
      <4>2. both[i] = items[i - k]
        BY <2>7, <3>3
      <4>3. items[i - k] = m + 1 - (i - k)
        BY <2>4, <4>1
      <4>4. QED
        BY <1>1, <2>7a, <4>2, <4>3
    <3>4. QED
      BY <3>2, <3>3, Zenon
  <2>8. both = [i \in 1..(k + t) |-> cutoff + 1 - i]
    BY <2>7, <2>7b
  <2>9. QED
    BY <2>1, <2>6, <2>8, Zenon
<1>10. CASE page.more
  <2>1. k + t \in 1..cutoff /\ k + t < cutoff /\ m + 1 - t = CatalogPosition(cutoff, k + t)
    BY <1>1, <1>2, <1>4, <1>10 DEF Left, CatalogPosition
  <2>2. /\ history'.at = "reading" /\ history'.cutoff = cutoff /\ cutoff \in Nat /\ cutoff <= Len(revisions')
        /\ history'.shown = [i \in 1..(k + t) |-> cutoff + 1 - i] /\ history'.after = CatalogPosition(cutoff, k + t)
    BY <1>1, <1>8, <1>9, <1>10, <2>1, Zenon
  <2>3. PICK l : l = k + t
    BY Zenon
  <2>4. /\ l \in 1..history'.cutoff /\ l < history'.cutoff
        /\ history'.shown = [i \in 1..l |-> history'.cutoff + 1 - i]
        /\ history'.after = CatalogPosition(history'.cutoff, l)
    BY <2>1, <2>2, <2>3, Zenon
  <2>5. \E l_1 \in 1..history'.cutoff :
          /\ l_1 < history'.cutoff
          /\ history'.shown = [i \in 1..l_1 |-> history'.cutoff + 1 - i]
          /\ history'.after = CatalogPosition(history'.cutoff, l_1)
    BY <2>4, Zenon
  <2>6. QED
    BY <1>8, <2>2, <2>5, Zenon DEF HistoryOK, CatalogPosition
<1>11. CASE ~ page.more
  <2>1. k + t = cutoff
    BY <1>1, <1>2, <1>4, <1>11 DEF Left
  <2>2. /\ history'.at = "done" /\ history'.cutoff = cutoff /\ history'.total = cutoff
        /\ history'.shown = [i \in 1..cutoff |-> cutoff + 1 - i]
    BY <1>8, <1>9, <1>11, <2>1, Zenon
  <2>3. QED
    BY <1>8, <2>2, Zenon DEF HistoryOK
<1>12. QED
  BY <1>10, <1>11, Zenon

LEMMA OpenHistoryKeeps ==
  ASSUME NEW X, revisions \in Seq(X), HistoryOK, OpenHistory
  PROVE  HistoryOK'
<1>1. Len(revisions) \in Nat /\ Len(revisions) \in 1..Len(revisions)
  BY DEF OpenHistory
<1>2. history.shown = [i \in 1..0 |-> Len(revisions) + 1 - i]
  <2>1. history = Unopened
    BY Zenon DEF HistoryOK, OpenHistory
  <2>2. history.shown = <<>>
    BY <2>1 DEF Unopened
  <2>3. QED
    BY <2>2
<1>3. CatalogPosition(Len(revisions), 0) = 0
  BY Zenon DEF CatalogPosition
<1>4. Turned(Len(revisions), CatalogPosition(Len(revisions), 0)) /\ revisions' = revisions
  BY <1>3, Zenon DEF OpenHistory
<1>5. 0 \in 0..Len(revisions) /\ 0 < Len(revisions)
  BY <1>1
<1>6. QED
  BY <1>1, <1>2, <1>4, <1>5, TurnedHistory, Zenon

LEMMA TurnPageKeeps ==
  ASSUME NEW X, revisions \in Seq(X), deleted \in BOOLEAN, HistoryOK, TurnPage
  PROVE  HistoryOK'
<1> DEFINE cutoff == history.cutoff
<1>1. /\ history.at = "reading" /\ revisions' = revisions /\ deleted' = deleted
      /\ cutoff \in Nat /\ (deleted \/ cutoff <= Len(revisions))
  BY Zenon DEF TurnPage, HistoryOK
<1>2. PICK k \in 1..cutoff : /\ k < cutoff
                             /\ history.shown = [i \in 1..k |-> cutoff + 1 - i]
                             /\ history.after = CatalogPosition(cutoff, k)
  BY <1>1, Zenon DEF HistoryOK
<1>3. CASE CaseIsLive /\ history.signed
  <2>1. ~ deleted /\ cutoff \in 1..Len(revisions) /\ k \in 0..cutoff
    BY <1>1, <1>2, <1>3 DEF CaseIsLive
  <2>2. history.after <= cutoff
    BY <1>1, <1>2 DEF CatalogPosition
  <2>3. cutoff <= Len(revisions)
    BY <1>1, <2>1, Zenon
  <2>4. Turned(cutoff, CatalogPosition(cutoff, k))
    BY <1>2, <1>3, <2>2, <2>3, Zenon DEF TurnPage
  <2>5. QED
    BY <1>1, <1>2, <2>1, <2>4, TurnedHistory, Zenon
<1>4. CASE ~ (CaseIsLive /\ history.signed)
  <2>1. history' = [history EXCEPT !.at = IF CaseIsLive THEN "invalid_cursor" ELSE "case_not_found"]
    BY <1>4, Zenon DEF TurnPage
  <2>2. history = [at |-> history.at, cutoff |-> history.cutoff, after |-> history.after, shown |-> history.shown,
                   total |-> history.total, signed |-> history.signed]
    BY Zenon DEF HistoryOK, HistoryShape
  <2>3. history' = [at |-> IF CaseIsLive THEN "invalid_cursor" ELSE "case_not_found", cutoff |-> history.cutoff,
                    after |-> history.after, shown |-> history.shown, total |-> history.total, signed |-> history.signed]
    BY <2>1, <2>2
  <2>4. HistoryShape' /\ history'.at = (IF CaseIsLive THEN "invalid_cursor" ELSE "case_not_found")
        /\ history'.signed = history.signed
    BY <2>3 DEF HistoryShape
  <2>5. QED
    BY <1>4, <2>4, Zenon DEF HistoryOK
<1>5. QED
  BY <1>3, <1>4, Zenon

LEMMA UnopenedIsOK ==
  ASSUME history = Unopened
  PROVE  HistoryOK
<1>1. HistoryShape /\ history.at = "idle"
  BY DEF Unopened, HistoryShape
<1>2. QED
  BY <1>1, Zenon DEF HistoryOK

LEMMA UnopenedIsOKNext == (history = Unopened => HistoryOK)'
BY UnopenedIsOK, PTL

LEMMA RestartHistory ==
  ASSUME HistoryOK, revisions' = revisions, deleted' = deleted,
         history' = IF history.at = "reading" THEN [history EXCEPT !.signed = FALSE] ELSE history
  PROVE  HistoryOK'
<1>1. history = [at |-> history.at, cutoff |-> history.cutoff, after |-> history.after, shown |-> history.shown,
                 total |-> history.total, signed |-> history.signed]
  BY Zenon DEF HistoryOK, HistoryShape
<1>2. CASE history.at = "reading"
  <2>1. history' = [at |-> history.at, cutoff |-> history.cutoff, after |-> history.after, shown |-> history.shown,
                    total |-> history.total, signed |-> FALSE]
    BY <1>1, <1>2
  <2>2. /\ HistoryShape' /\ history'.at = history.at /\ history'.cutoff = history.cutoff
        /\ history'.after = history.after /\ history'.shown = history.shown
    BY <2>1 DEF HistoryShape
  <2>3. QED
    BY <1>2, <2>2, Zenon DEF HistoryOK, CatalogPosition
<1>3. CASE history.at # "reading"
  <2>1. history' = history
    BY <1>3, Zenon
  <2>2. HistoryShape'
    BY <2>1, Zenon DEF HistoryOK, HistoryShape
  <2>3. QED
    BY <1>3, <2>1, <2>2, Zenon DEF HistoryOK, CatalogPosition
<1>4. QED
  BY <1>2, <1>3, Zenon

(* A step that turns no page keeps the traversal; stored reports only grow  *)
(* in number until the case is deleted.                                     *)
LEMMA HistoryWaits ==
  ASSUME HistoryOK, history' = history, deleted \in BOOLEAN,
         deleted' \/ (~ deleted /\ ~ deleted' /\ Len(revisions) \in Nat /\ Len(revisions') \in Nat /\ Len(revisions) <= Len(revisions'))
  PROVE  HistoryOK'
<1>1. ASSUME history.at = "reading" PROVE deleted' \/ history.cutoff <= Len(revisions')
  <2>1. history.cutoff \in Nat /\ (deleted \/ history.cutoff <= Len(revisions))
    BY <1>1, Zenon DEF HistoryOK
  <2>2. QED
    BY <2>1
<1>2. HistoryShape'
  BY Zenon DEF HistoryOK, HistoryShape
<1>3. QED
  BY <1>1, <1>2, Zenon DEF HistoryOK, CatalogPosition

-----------------------------------------------------------------------------
(* Attempts: each stays bound to a transaction that its snapshot publishes. *)

LEMMA MatchesNoFilter == \A i : Matches(i, NoFilter)
BY DEF Matches, NoFilter, Always

LEMMA VerifiableFacts ==
  ASSUME SyncsOK, NEW s, NEW v \in Verifiable(s)
  PROVE  /\ v = [id |-> v.id, row |-> v.row, semantic |-> v.semantic]
         /\ v.id \in Nat /\ v.row \in Nat \X Nat
         /\ v.semantic \in [kind : Kinds, time : Nat \cup {NoTime}, value : STRING]
         /\ \E i \in Items(s, NoFilter) : i.id = v.id /\ i.kind = "transaction"
<1>1. PICK g \in Built(s, NoFilter).groups :
        /\ Item(g).kind = "transaction"
        /\ v = [id |-> PublicId(Winner(g)), row |-> Winner(g), semantic |-> Semantic(Winner(g))]
  BY Zenon DEF Verifiable
<1>2. g \in Groups0(s, NoFilter) /\ Agrees(g)
  <2>1. Built(s, NoFilter).groups = {h \in Groups0(s, NoFilter) : Agrees(h)}
    BY BuiltFields
  <2>2. QED
    BY <2>1, Zenon
<1>3. Admissible(s, NoFilter) \in SUBSET Rows /\ IsFiniteSet(Admissible(s, NoFilter))
  BY AdmissibleFacts
<1>4. g \in SUBSET Admissible(s, NoFilter) /\ Winner(g) \in g
  BY <1>2, <1>3, GroupFacts, Zenon DEF Groups0
<1>5. Winner(g) \in Rows
  BY <1>3, <1>4, Zenon
<1>6. /\ PublicId(Winner(g)) \in Nat
      /\ Semantic(Winner(g)) \in [kind : Kinds, time : Nat \cup {NoTime}, value : STRING]
  <2>1. PublicId(Winner(g)) \in Nat \ {0}
    BY <1>5, RowTypes, Zenon
  <2>2. QED
    BY <1>5, <2>1, RowTypes, Zenon
<1>7. Winner(g) \in Nat \X Nat
  BY <1>5 DEF Rows
<1>8. Item(g) \in Items(s, NoFilter)
  <2>0. Built(s, NoFilter).items = {Item(h) : h \in {h \in Groups0(s, NoFilter) : Agrees(h)}}
    BY BuiltFields
  <2>1. Item(g) \in Built(s, NoFilter).items
    BY <1>2, <2>0, Zenon
  <2>2. QED
    BY <2>1, MatchesNoFilter, Zenon DEF Items
<1>9. Item(g).id = PublicId(Winner(g))
  BY ItemFields, Zenon
<1> HIDE DEF Kinds
<1>10. /\ v = [id |-> v.id, row |-> v.row, semantic |-> v.semantic]
       /\ v.id = PublicId(Winner(g)) /\ v.row = Winner(g) /\ v.semantic = Semantic(Winner(g))
  BY <1>1
<1>11. QED
  BY <1>1, <1>6, <1>7, <1>8, <1>9, <1>10, Zenon

BoundAttempt(a) == a.snapshot \in Usable /\ Binding(a) \in Verifiable(a.snapshot)

AttemptsOK ==
  /\ attempts \in Seq(AttemptRow)
  /\ \A n \in 1..Len(attempts) : BoundAttempt(attempts[n])

LEMMA RequestedIsBound ==
  ASSUME SyncsOK, AttemptsOK, RequestVerification
  PROVE  attempts' \in Seq(AttemptRow) /\ \A n \in 1..Len(attempts') : BoundAttempt(attempts'[n])
<1>1. PICK s \in Usable : \E v \in IF Answerable(s, NoFilter) THEN Verifiable(s) ELSE {} :
        attempts' = Append(attempts, Attempt(s, v))
  BY Zenon DEF RequestVerification, RequestVerificationAt
<1>2. PICK v \in IF Answerable(s, NoFilter) THEN Verifiable(s) ELSE {} : attempts' = Append(attempts, Attempt(s, v))
  BY <1>1, Zenon
<1>3. v \in Verifiable(s)
  <2>1. CASE Answerable(s, NoFilter)
    BY <1>2, <2>1, Zenon
  <2>2. CASE ~ Answerable(s, NoFilter)
    BY <1>2, <2>2, Zenon
  <2>3. QED
    BY <2>1, <2>2, Zenon
<1>4. s \in Usable
  BY <1>1, Zenon
<1>5. s \in Nat
  BY <1>4, UsableFacts DEF Usable, SyncIds
<1>6. /\ v = [id |-> v.id, row |-> v.row, semantic |-> v.semantic]
      /\ v.id \in Nat /\ v.row \in Nat \X Nat
      /\ v.semantic \in [kind : Kinds, time : Nat \cup {NoTime}, value : STRING]
  BY <1>3, VerifiableFacts, Zenon
<1>7. Attempt(s, v) \in AttemptRow
  BY <1>5, <1>6 DEF Attempt, AttemptRow, States, Stages, NoProgress
<1>8. BoundAttempt(Attempt(s, v))
  <2>1. Attempt(s, v).snapshot = s /\ Binding(Attempt(s, v)) = [id |-> v.id, row |-> v.row, semantic |-> v.semantic]
    BY DEF Attempt, Binding
  <2>2. QED
    BY <1>3, <1>4, <1>6, <2>1, Zenon DEF BoundAttempt
<1>9. /\ attempts \in Seq(AttemptRow) /\ \A n \in 1..Len(attempts) : BoundAttempt(attempts[n])
  BY Zenon DEF AttemptsOK
<1>10. PICK a : a = Attempt(s, v)
  BY Zenon
<1>11. attempts' = Append(attempts, a) /\ a \in AttemptRow /\ BoundAttempt(a)
  BY <1>2, <1>7, <1>8, <1>10, Zenon
<1>12. /\ attempts' \in Seq(AttemptRow) /\ Len(attempts') = Len(attempts) + 1
       /\ \A n \in 1..Len(attempts) : attempts'[n] = attempts[n]
       /\ attempts'[Len(attempts) + 1] = a
  BY <1>9, <1>11
<1>13. \A n \in 1..Len(attempts') : n \in 1..Len(attempts) \/ n = Len(attempts) + 1
  BY <1>9, <1>12
<1>14. QED
  BY <1>9, <1>11, <1>12, <1>13, Zenon

LEMMA AdvancedIsBound ==
  ASSUME AttemptsOK, AdvanceAttempt
  PROVE  attempts' \in Seq(AttemptRow) /\ Len(attempts') = Len(attempts) /\ \A n \in 1..Len(attempts') : BoundAttempt(attempts'[n])
<1>0. PICK n \in 1..Len(attempts) : \E a \in Successors(attempts[n]) : attempts' = [attempts EXCEPT ![n] = a]
  BY Zenon DEF AdvanceAttempt
<1>1. PICK a \in Successors(attempts[n]) : attempts' = [attempts EXCEPT ![n] = a]
  BY <1>0, Zenon
<1>2. /\ attempts \in Seq(AttemptRow) /\ \A m \in 1..Len(attempts) : BoundAttempt(attempts[m])
  BY Zenon DEF AttemptsOK
<1>3. PICK b : b = attempts[n]
  BY Zenon
<1>4. b \in AttemptRow /\ BoundAttempt(b)
  BY <1>1, <1>2, <1>3
<1>5. PICK g \in Glimpses : a = [b EXCEPT !.state = g.state, !.progress = g.progress, !.cancel = g.cancel, !.version = @ + 1]
  BY <1>1, <1>3, Zenon DEF Successors
<1>6. g \in [state : States, progress : 0..Stages, cancel : BOOLEAN]
  BY <1>5, ReportAssumption, Zenon DEF ReportAssumption
<1>7. a \in AttemptRow /\ a.snapshot = b.snapshot /\ Binding(a) = Binding(b)
  <2> HIDE DEF States, Stages, Kinds
  <2>1. b = [snapshot |-> b.snapshot, activity |-> b.activity, row |-> b.row, semantic |-> b.semantic,
             state |-> b.state, progress |-> b.progress, version |-> b.version, cancel |-> b.cancel]
    BY <1>4 DEF AttemptRow
  <2>2. /\ b.snapshot \in Nat /\ b.activity \in Nat /\ b.row \in Nat \X Nat /\ b.version \in Nat
        /\ b.semantic \in [kind : Kinds, time : Nat \cup {NoTime}, value : STRING]
    BY <1>4 DEF AttemptRow
  <2>3. g.state \in States /\ g.progress \in 0..Stages /\ g.cancel \in BOOLEAN
    BY <1>6
  <2>4. a = [snapshot |-> b.snapshot, activity |-> b.activity, row |-> b.row, semantic |-> b.semantic,
             state |-> g.state, progress |-> g.progress, version |-> b.version + 1, cancel |-> g.cancel]
    BY <1>5, <2>1
  <2>5. PICK version : version = b.version + 1
    BY Zenon
  <2>6. version \in Nat
    BY <2>2, <2>5
  <2>7. a = [snapshot |-> b.snapshot, activity |-> b.activity, row |-> b.row, semantic |-> b.semantic,
             state |-> g.state, progress |-> g.progress, version |-> version, cancel |-> g.cancel]
    BY <2>4, <2>5, Zenon
  <2>8. a \in AttemptRow
    BY <2>2, <2>3, <2>6, <2>7 DEF AttemptRow
  <2>9. a.snapshot = b.snapshot /\ Binding(a) = Binding(b)
    BY <2>7 DEF Binding
  <2>10. QED
    BY <2>8, <2>9, Zenon
<1>8. BoundAttempt(a)
  BY <1>4, <1>7, Zenon DEF BoundAttempt
<1>9. /\ attempts' \in Seq(AttemptRow) /\ Len(attempts') = Len(attempts)
      /\ \A m \in 1..Len(attempts) : attempts'[m] = IF m = n THEN a ELSE attempts[m]
  BY <1>1, <1>2, <1>7
<1>10. QED
  BY <1>2, <1>8, <1>9, Zenon

(* The attempts of a snapshot that a report lists.                          *)
LEMMA NewestAreBound ==
  ASSUME AttemptsOK, NEW s
  PROVE  NewestAttempts(s) \in BoundRows(s)
<1> DEFINE N == {n \in AttemptsOf(s) : Cardinality({m \in AttemptsOf(s) : m > n}) < AttemptLimit}
           f == [n \in N |-> Listed(n, attempts[n])]
<1>1. attempts \in Seq(AttemptRow) /\ Len(attempts) \in Nat
  BY DEF AttemptsOK
<1>2. N \in SUBSET (1..Len(attempts)) /\ \A n \in N : attempts[n].snapshot = s
  BY Zenon DEF AttemptsOf
<1>3. NewestAttempts(s) = {f[n] : n \in N}
  BY Zenon DEF NewestAttempts
<1>4. IsFiniteSet(N)
  <2>1. IsFiniteSet(1..Len(attempts))
    <3>1. 1 \in Int /\ Len(attempts) \in Int
      BY <1>1
    <3>2. QED
      BY <3>1, FS_Interval, Zenon
  <2>2. QED
    BY <1>2, <2>1, FS_Subset, Zenon
<1> HIDE DEF N
<1>5. IsFiniteSet({f[n] : n \in N})
  <2>1. DOMAIN f = N
    BY Zenon
  <2> HIDE DEF f
  <2>2. QED
    BY <1>4, <2>1, ImageIsFinite, Zenon
<1>6. ASSUME NEW n \in N
      PROVE  /\ f[n] \in ListedRow /\ f[n].id = n /\ Binding(f[n]) \in Verifiable(s)
  <2>1. n \in Nat /\ n \in 1..Len(attempts) /\ attempts[n] \in AttemptRow
    BY <1>1, <1>2
  <2>2. PICK a : a = attempts[n]
    BY Zenon
  <2>3. f[n] = Listed(n, a)
    BY <2>2, Zenon
  <2>4. Listed(n, a) \in ListedRow /\ Listed(n, a).id = n /\ Binding(Listed(n, a)) = Binding(a)
    BY <2>1, <2>2 DEF Listed, ListedRow, AttemptRow, Binding
  <2>5. Binding(a) \in Verifiable(s)
    BY <1>2, <2>1, <2>2, Zenon DEF AttemptsOK, BoundAttempt
  <2>6. QED
    BY <2>3, <2>4, <2>5, Zenon
<1> HIDE DEF f
<1>7. {f[n] : n \in N} \in SUBSET ListedRow
  BY <1>6, Zenon
<1>8. UniqueIds({f[n] : n \in N})
  <2>1. ASSUME NEW a \in {f[n] : n \in N}, NEW b \in {f[n] : n \in N}, a.id = b.id PROVE a = b
    <3>1. PICK n \in N : a = f[n]
      BY Zenon
    <3>2. PICK m \in N : b = f[m]
      BY Zenon
    <3>3. n = m
      BY <1>6, <2>1, <3>1, <3>2, Zenon
    <3>4. QED
      BY <3>1, <3>2, <3>3, Zenon
  <2>2. QED
    BY <2>1, Zenon DEF UniqueIds
<1>9. \A a \in {f[n] : n \in N} : Binding(a) \in Verifiable(s)
  BY <1>6, Zenon
<1>10. QED
  BY <1>3, <1>5, <1>7, <1>8, <1>9, Zenon DEF BoundRows

-----------------------------------------------------------------------------
(* A request keeps what it has read.                                        *)

BuildingOK(b) ==
  /\ b = [at |-> b.at, store |-> b.store, snapshot |-> b.snapshot, activity |-> b.activity,
          items |-> b.items, rows |-> b.rows, total |-> b.total]
  /\ b.at \in {"idle", "attempts", "count", "built", "insert"}
  /\ b.at # "idle" => /\ b.snapshot \in Usable
                      /\ b.activity = ActivityPart(View(b.snapshot, NoFilter))
                      /\ ~ b.store => b.items = Items(b.snapshot, NoFilter)
  /\ b.at \in {"count", "built", "insert"} => b.rows \in BoundRows(b.snapshot)
  /\ b.at \in {"built", "insert"} => b.total \in Nat

BuildingsOK ==
  /\ building = [p \in Readers |-> building[p]]
  /\ \A p \in Readers : BuildingOK(building[p])

LEMMA FrozenItems ==
  ASSUME NEW s, Frozen(s), NEW q
  PROVE  Items(s, q)' = Items(s, q)
BY FrozenBuilt, Zenon DEF Items

LEMMA BuildingWaits ==
  ASSUME SyncsOK, SyncsOK', Keeps, NEW b, BuildingOK(b)
  PROVE  BuildingOK(b)'
<1>1. ASSUME NEW s \in Usable
      PROVE  /\ s \in Usable' /\ BoundRows(s)' = BoundRows(s) /\ Items(s, NoFilter)' = Items(s, NoFilter)
             /\ ActivityPart(View(s, NoFilter))' = ActivityPart(View(s, NoFilter))
  <2>1. Frozen(s)
    BY SettledIsFrozen, Zenon
  <2>2. s \in Usable' /\ BoundRows(s)' = BoundRows(s) /\ View(s, NoFilter)' = View(s, NoFilter)
    BY FrozenStorable, Zenon
  <2>3. Items(s, NoFilter)' = Items(s, NoFilter)
    BY <2>1, FrozenItems, Zenon
  <2>4. ActivityPart(View(s, NoFilter))' = ActivityPart(View(s, NoFilter))
    BY <2>2, Zenon DEF ActivityPart
  <2>5. QED
    BY <2>2, <2>3, <2>4, Zenon
<1>2. PICK s, activity, items, rows : s = b.snapshot /\ activity = b.activity /\ items = b.items /\ rows = b.rows
  BY Zenon
<1>3. b.at # "idle" => /\ s \in Usable
                       /\ activity = ActivityPart(View(s, NoFilter))
                       /\ ~ b.store => items = Items(s, NoFilter)
  BY <1>2, Zenon DEF BuildingOK
<1>4. b.at \in {"count", "built", "insert"} => b.at # "idle" /\ rows \in BoundRows(s)
  BY <1>2 DEF BuildingOK
<1>5. b.at # "idle" => /\ s \in Usable'
                       /\ activity = ActivityPart(View(s, NoFilter))'
                       /\ ~ b.store => items = Items(s, NoFilter)'
  BY <1>1, <1>3, Zenon
<1>6. b.at \in {"count", "built", "insert"} => rows \in BoundRows(s)'
  BY <1>1, <1>3, <1>4, Zenon
<1>7. QED
  BY <1>2, <1>5, <1>6, Zenon DEF BuildingOK

LEMMA UnreadIsOK == BuildingOK(Unread)
<1>1. PICK activity : activity = ActivityPart(NoActivity)
  BY Zenon
<1>2. Unread = [at |-> "idle", store |-> FALSE, snapshot |-> NoSync, activity |-> activity,
                items |-> {}, rows |-> {}, total |-> 0]
  BY <1>1, Zenon DEF Unread
<1>3. PICK b : b = Unread
  BY Zenon
<1>4. /\ b = [at |-> b.at, store |-> b.store, snapshot |-> b.snapshot, activity |-> b.activity,
              items |-> b.items, rows |-> b.rows, total |-> b.total]
      /\ b.at = "idle"
  BY <1>2, <1>3
<1>5. BuildingOK(b)
  BY <1>4 DEF BuildingOK
<1>6. QED
  BY <1>3, <1>5, Zenon

LEMMA UnreadIsOKNext == BuildingOK(Unread)'
BY UnreadIsOK, PTL

LEMMA OutcomeKeeps ==
  ASSUME SyncsOK, SyncsOK', Keeps, BuildingsOK, NEW p \in Readers, NEW step, Outcome(p, step), BuildingOK(step)'
  PROVE  BuildingsOK'
<1>1. building' = [q \in Readers |-> IF q = p THEN step ELSE building[q]]
  <2>1. building' = [building EXCEPT ![p] = step]
    BY Zenon DEF Outcome
  <2>2. PICK f : f = building
    BY Zenon
  <2>3. f = [q \in Readers |-> f[q]]
    BY <2>2, Zenon DEF BuildingsOK
  <2>4. building' = [q \in Readers |-> IF q = p THEN step ELSE f[q]]
    BY <2>1, <2>2, <2>3
  <2>5. QED
    BY <2>2, <2>4, Zenon
<1>2. building' = [q \in Readers |-> building'[q]]
  BY <1>1, Zenon
<1>3. ASSUME NEW q \in Readers PROVE BuildingOK(building[q])'
  <2>1. PICK b : b = building[q]
    BY Zenon
  <2>2. CASE q = p
    <3>1. building'[q] = step
      BY <1>1, <2>2, Zenon
    <3>2. QED
      BY <3>1, Zenon
  <2>3. CASE q # p
    <3>1. building'[q] = b
      BY <1>1, <2>1, <2>3, Zenon
    <3>2. BuildingOK(b)
      BY <2>1, Zenon DEF BuildingsOK
    <3>3. BuildingOK(b)'
      BY <3>2, BuildingWaits, Zenon
    <3>4. QED
      BY <3>1, <3>3, Zenon
  <2>4. QED
    BY <2>2, <2>3, Zenon
<1>4. QED
  BY <1>2, <1>3, Zenon DEF BuildingsOK

LEMMA AbandonKeeps ==
  ASSUME SyncsOK, SyncsOK', Keeps, BuildingsOK, NEW p \in Readers, Abandon(p)
  PROVE  BuildingsOK'
<1>1. PICK step : step = Unread
  BY Zenon
<1>2. Outcome(p, step)
  BY <1>1, Zenon DEF Abandon
<1>3. BuildingOK(step)'
  BY <1>1, UnreadIsOKNext, Zenon
<1>4. QED
  BY <1>2, <1>3, OutcomeKeeps, Zenon

LEMMA BuildingsWait ==
  ASSUME SyncsOK, SyncsOK', Keeps, BuildingsOK, building' = building
  PROVE  BuildingsOK'
<1>1. ASSUME NEW q \in Readers PROVE BuildingOK(building[q])'
  <2>1. PICK b : b = building[q]
    BY Zenon
  <2>2. BuildingOK(b)
    BY <2>1, Zenon DEF BuildingsOK
  <2>3. BuildingOK(b)'
    BY <2>2, BuildingWaits, Zenon
  <2>4. QED
    BY <2>1, <2>3, Zenon
<1>2. QED
  BY <1>1, Zenon DEF BuildingsOK

LEMMA AllUnread ==
  ASSUME building' = [p \in Readers |-> Unread]
  PROVE  BuildingsOK'
<1>1. \A q \in Readers : building'[q] = Unread'
  BY Zenon DEF Unread, NoActivity, ActivityPart
<1>2. \A q \in Readers : BuildingOK(building[q])'
  BY <1>1, UnreadIsOKNext, Zenon
<1>3. building' = [q \in Readers |-> building'[q]]
  BY Zenon
<1>4. QED
  BY <1>2, <1>3, Zenon DEF BuildingsOK

LEMMA ItemsShown ==
  ASSUME SyncsOK, NEW s
  PROVE  /\ View(s, NoFilter).snapshot = s
         /\ ToSet(View(s, NoFilter).ordered) = Items(s, NoFilter)
<1>1. NoFilter.oldest \in BOOLEAN
  BY DEF NoFilter
<1>2. PICK o : o = View(s, NoFilter).ordered
  BY Zenon
<1>3. View(s, NoFilter).snapshot = s
  BY <1>1, ViewFacts
<1>4. o \in Seq(Items(s, NoFilter)) /\ \A x \in Items(s, NoFilter) : \E i \in 1..Len(o) : o[i] = x
  BY <1>1, <1>2, ViewFacts
<1>5. DOMAIN o = 1..Len(o) /\ \A i \in 1..Len(o) : o[i] \in Items(s, NoFilter)
  BY <1>4
<1>6. ToSet(o) = {o[i] : i \in DOMAIN o}
  BY Zenon DEF ToSet
<1>7. ToSet(o) = Items(s, NoFilter)
  BY <1>4, <1>5, <1>6, Zenon
<1>8. QED
  BY <1>2, <1>3, <1>7, Zenon

LEMMA ReadActivityKeeps ==
  ASSUME SyncsOK, BuildingsOK, NEW p \in Readers, ReadActivity(p)
  PROVE  BuildingsOK'
<1>1. SyncsOK' /\ Keeps
  BY SameSyncsKeep, Zenon DEF ReadActivity, ReadActivityAt, activityVars
<1>2. PICK pinned \in {NoSync} \cup SyncIds, store \in BOOLEAN :
        /\ Refusal(pinned, NoFilter) = "none" /\ Snapshot(pinned) # NoSync
        /\ \E view \in {Dataset(pinned)} :
             Outcome(p, [Unread EXCEPT !.at = "attempts", !.store = store, !.snapshot = view.snapshot,
                                       !.activity = ActivityPart(view), !.items = IF store THEN {} ELSE ToSet(view.ordered)])
  BY Zenon DEF ReadActivity, ReadActivityAt
<1>3. PICK s : s = Snapshot(pinned)
  BY Zenon
<1>4. s \in Usable
  <2>1. Snapshot(pinned) \in Usable \cup {NoSync}
    BY SnapshotFacts, Zenon
  <2>2. QED
    BY <1>2, <1>3, <2>1, Zenon
<1>5. Dataset(pinned) = View(s, NoFilter)
  BY <1>2, <1>3, Zenon DEF Dataset, Answer
<1>6. PICK view : view = View(s, NoFilter)
  BY Zenon
<1>7. Outcome(p, [Unread EXCEPT !.at = "attempts", !.store = store, !.snapshot = view.snapshot,
                                !.activity = ActivityPart(view), !.items = IF store THEN {} ELSE ToSet(view.ordered)])
  BY <1>2, <1>5, <1>6, Zenon
<1>8. view.snapshot = s /\ ToSet(view.ordered) = Items(s, NoFilter)
  BY <1>6, ItemsShown, Zenon
<1>9. PICK activity, items, read, none : /\ activity = ActivityPart(view) /\ items = Items(s, NoFilter)
                                          /\ read = (IF store THEN {} ELSE items)
                                          /\ none = ActivityPart(NoActivity)
  BY Zenon
<1>10. PICK step : step = [Unread EXCEPT !.at = "attempts", !.store = store, !.snapshot = view.snapshot,
                             !.activity = ActivityPart(view), !.items = IF store THEN {} ELSE ToSet(view.ordered)]
  BY Zenon
<1>11. step = [Unread EXCEPT !.at = "attempts", !.store = store, !.snapshot = s, !.activity = activity, !.items = read]
  BY <1>8, <1>9, <1>10, Zenon
<1>12. step = [at |-> "attempts", store |-> store, snapshot |-> s, activity |-> activity, items |-> read,
               rows |-> {}, total |-> 0]
  <2>1. Unread = [at |-> "idle", store |-> FALSE, snapshot |-> NoSync, activity |-> none, items |-> {}, rows |-> {}, total |-> 0]
    BY <1>9, Zenon DEF Unread
  <2>2. QED
    BY <1>11, <2>1
<1>13. /\ step = [at |-> step.at, store |-> step.store, snapshot |-> step.snapshot, activity |-> step.activity,
                  items |-> step.items, rows |-> step.rows, total |-> step.total]
       /\ step.at = "attempts" /\ step.store = store /\ step.snapshot = s /\ step.activity = activity /\ step.items = read
  BY <1>12
<1>14. ~ store => read = items
  BY <1>9
<1>15. BuildingOK(step)
  BY <1>4, <1>6, <1>9, <1>13, <1>14 DEF BuildingOK
<1>16. BuildingOK(step)'
  BY <1>1, <1>15, BuildingWaits, Zenon
<1>17. Outcome(p, step)
  BY <1>7, <1>10, Zenon
<1>18. QED
  BY <1>1, <1>16, <1>17, OutcomeKeeps, Zenon

LEMMA ReadAttemptsKeeps ==
  ASSUME SyncsOK, AttemptsOK, BuildingsOK, NEW p \in Readers, ReadAttempts(p)
  PROVE  BuildingsOK'
<1>1. SyncsOK' /\ Keeps
  BY SameSyncsKeep, Zenon DEF ReadAttempts, activityVars
<1>2. CASE Abandon(p)
  BY <1>1, <1>2, AbandonKeeps, Zenon
<1>3. CASE Outcome(p, [building[p] EXCEPT !.at = "count", !.rows = NewestAttempts(building[p].snapshot)])
  <2>1. PICK b : b = building[p]
    BY Zenon
  <2>2. BuildingOK(b) /\ b.at = "attempts"
    BY <2>1, Zenon DEF BuildingsOK, ReadAttempts
  <2>3. PICK rows : rows = NewestAttempts(b.snapshot)
    BY Zenon
  <2>4. rows \in BoundRows(b.snapshot)
    BY <2>3, NewestAreBound, Zenon
  <2>5. PICK step : step = [b EXCEPT !.at = "count", !.rows = rows]
    BY Zenon
  <2>6. Outcome(p, step)
    BY <1>3, <2>1, <2>3, <2>5, Zenon
  <2>7. b = [at |-> b.at, store |-> b.store, snapshot |-> b.snapshot, activity |-> b.activity,
             items |-> b.items, rows |-> b.rows, total |-> b.total]
    BY <2>2, Zenon DEF BuildingOK
  <2>8. step = [at |-> "count", store |-> b.store, snapshot |-> b.snapshot, activity |-> b.activity,
                items |-> b.items, rows |-> rows, total |-> b.total]
    BY <2>5, <2>7
  <2>9. /\ step = [at |-> step.at, store |-> step.store, snapshot |-> step.snapshot, activity |-> step.activity,
                   items |-> step.items, rows |-> step.rows, total |-> step.total]
        /\ step.at = "count" /\ step.store = b.store /\ step.snapshot = b.snapshot /\ step.activity = b.activity
        /\ step.items = b.items /\ step.rows = rows
    BY <2>8
  <2>10. BuildingOK(step)
    BY <2>2, <2>4, <2>9 DEF BuildingOK
  <2>11. BuildingOK(step)'
    BY <1>1, <2>10, BuildingWaits, Zenon
  <2>12. QED
    BY <1>1, <2>6, <2>11, OutcomeKeeps, Zenon
<1>4. QED
  BY <1>2, <1>3, Zenon DEF ReadAttempts

LEMMA CountIsNumber ==
  ASSUME AttemptsOK, NEW s
  PROVE  Cardinality(AttemptsOf(s)) \in Nat /\ IsFiniteSet(AttemptsOf(s))
<1>1. Len(attempts) \in Nat
  BY DEF AttemptsOK
<1>2. 1 \in Int /\ Len(attempts) \in Int
  BY <1>1
<1>3. IsFiniteSet(1..Len(attempts))
  BY <1>2, FS_Interval, Zenon
<1>4. AttemptsOf(s) \in SUBSET (1..Len(attempts))
  BY Zenon DEF AttemptsOf
<1>5. QED
  BY <1>3, <1>4, FS_Subset, FS_CardinalityType, Zenon

LEMMA CountAttemptsKeeps ==
  ASSUME SyncsOK, AttemptsOK, BuildingsOK, NEW p \in Readers, CountAttempts(p)
  PROVE  BuildingsOK'
<1>1. SyncsOK' /\ Keeps
  BY SameSyncsKeep, Zenon DEF CountAttempts, activityVars
<1>2. CASE Abandon(p)
  BY <1>1, <1>2, AbandonKeeps, Zenon
<1>3. CASE Outcome(p, [building[p] EXCEPT !.at = "built", !.total = Cardinality(AttemptsOf(building[p].snapshot))])
  <2>1. PICK b : b = building[p]
    BY Zenon
  <2>2. BuildingOK(b) /\ b.at = "count"
    BY <2>1, Zenon DEF BuildingsOK, CountAttempts
  <2>3. PICK total : total = Cardinality(AttemptsOf(b.snapshot))
    BY Zenon
  <2>4. total \in Nat
    BY <2>3, CountIsNumber, Zenon
  <2>5. PICK step : step = [b EXCEPT !.at = "built", !.total = total]
    BY Zenon
  <2>6. Outcome(p, step)
    BY <1>3, <2>1, <2>3, <2>5, Zenon
  <2>7. b = [at |-> b.at, store |-> b.store, snapshot |-> b.snapshot, activity |-> b.activity,
             items |-> b.items, rows |-> b.rows, total |-> b.total]
    BY <2>2, Zenon DEF BuildingOK
  <2>8. step = [at |-> "built", store |-> b.store, snapshot |-> b.snapshot, activity |-> b.activity,
                items |-> b.items, rows |-> b.rows, total |-> total]
    BY <2>5, <2>7
  <2>9. /\ step = [at |-> step.at, store |-> step.store, snapshot |-> step.snapshot, activity |-> step.activity,
                   items |-> step.items, rows |-> step.rows, total |-> step.total]
        /\ step.at = "built" /\ step.store = b.store /\ step.snapshot = b.snapshot /\ step.activity = b.activity
        /\ step.items = b.items /\ step.rows = b.rows /\ step.total = total
    BY <2>8
  <2>10. BuildingOK(step)
    BY <2>2, <2>4, <2>9 DEF BuildingOK
  <2>11. BuildingOK(step)'
    BY <1>1, <2>10, BuildingWaits, Zenon
  <2>12. QED
    BY <1>1, <2>6, <2>11, OutcomeKeeps, Zenon
<1>4. QED
  BY <1>2, <1>3, Zenon DEF CountAttempts

LEMMA LookForRevisionKeeps ==
  ASSUME SyncsOK, BuildingsOK, NEW p \in Readers, LookForRevision(p)
  PROVE  BuildingsOK'
<1>1. SyncsOK' /\ Keeps
  BY SameSyncsKeep, Zenon DEF LookForRevision, activityVars
<1>2. CASE Abandon(p)
  BY <1>1, <1>2, AbandonKeeps, Zenon
<1>3. CASE Outcome(p, [building[p] EXCEPT !.at = "insert"])
  <2>1. PICK b : b = building[p]
    BY Zenon
  <2>2. BuildingOK(b) /\ b.at = "built"
    BY <2>1, Zenon DEF BuildingsOK, LookForRevision
  <2>3. PICK step : step = [b EXCEPT !.at = "insert"]
    BY Zenon
  <2>4. Outcome(p, step)
    BY <1>3, <2>1, <2>3, Zenon
  <2>5. b = [at |-> b.at, store |-> b.store, snapshot |-> b.snapshot, activity |-> b.activity,
             items |-> b.items, rows |-> b.rows, total |-> b.total]
    BY <2>2, Zenon DEF BuildingOK
  <2>6. step = [at |-> "insert", store |-> b.store, snapshot |-> b.snapshot, activity |-> b.activity,
                items |-> b.items, rows |-> b.rows, total |-> b.total]
    BY <2>3, <2>5
  <2>7. /\ step = [at |-> step.at, store |-> step.store, snapshot |-> step.snapshot, activity |-> step.activity,
                   items |-> step.items, rows |-> step.rows, total |-> step.total]
        /\ step.at = "insert" /\ step.store = b.store /\ step.snapshot = b.snapshot /\ step.activity = b.activity
        /\ step.items = b.items /\ step.rows = b.rows /\ step.total = b.total
    BY <2>6
  <2>8. BuildingOK(step)
    BY <2>2, <2>7 DEF BuildingOK
  <2>9. BuildingOK(step)'
    BY <1>1, <2>8, BuildingWaits, Zenon
  <2>10. QED
    BY <1>1, <2>4, <2>9, OutcomeKeeps, Zenon
<1>4. QED
  BY <1>2, <1>3, Zenon DEF LookForRevision

(* What a request is about to store is a report of a usable snapshot.       *)
LEMMA DocumentIsStorable ==
  ASSUME BuildingsOK, NEW p \in Readers, building[p].at \in {"built", "insert"}
  PROVE  Document(building[p]) \in Storable
<1>1. PICK b : b = building[p]
  BY Zenon
<1>2. BuildingOK(b) /\ b.at \in {"built", "insert"}
  BY <1>1, Zenon DEF BuildingsOK
<1>3. /\ b.snapshot \in Usable /\ b.activity = ActivityPart(View(b.snapshot, NoFilter))
      /\ b.rows \in BoundRows(b.snapshot) /\ b.total \in Nat
  BY <1>2 DEF BuildingOK
<1>4. Document(b) = ReportOf(b.snapshot, b.rows, b.total)
  BY <1>3, Zenon DEF Document, ReportOf
<1>5. QED
  BY <1>1, <1>3, <1>4, StorableIs, Zenon

LEMMA InsertRevisionKeeps ==
  ASSUME SyncsOK, BuildingsOK, revisions \in Seq(Storable), deleted \in BOOLEAN, HistoryOK,
         NEW p \in Readers, InsertRevision(p)
  PROVE  BuildingsOK' /\ revisions' \in Seq(Storable) /\ HistoryOK'
<1>1. SyncsOK' /\ Keeps
  BY SameSyncsKeep, Zenon DEF InsertRevision, activityVars
<1>2. BuildingsOK'
  BY <1>1, AbandonKeeps, Zenon DEF InsertRevision
<1>3. Document(building[p]) \in Storable
  <2>1. building[p].at \in {"built", "insert"}
    BY DEF InsertRevision
  <2>2. QED
    BY <2>1, DocumentIsStorable, Zenon
<1>4. PICK report \in {Document(building[p])} :
        revisions' = IF deleted \/ StoredAs(report) # {} THEN revisions ELSE Append(revisions, report)
  BY Zenon DEF InsertRevision
<1>5. report \in Storable
  BY <1>3, <1>4, Zenon
<1> HIDE DEF Storable
<1>6. revisions' \in Seq(Storable) /\ Len(revisions) \in Nat /\ Len(revisions') \in Nat /\ Len(revisions) <= Len(revisions')
  BY <1>4, <1>5
<1>7. history' = history /\ deleted' = deleted
  BY Zenon DEF InsertRevision
<1>8. deleted' \/ (~ deleted /\ ~ deleted' /\ Len(revisions) \in Nat /\ Len(revisions') \in Nat /\ Len(revisions) <= Len(revisions'))
  BY <1>6, <1>7, Zenon
<1>9. HistoryOK'
  BY <1>7, <1>8, HistoryWaits, Zenon
<1>10. QED
  BY <1>2, <1>6, <1>9, Zenon

-----------------------------------------------------------------------------
(* Every step of the reports.                                               *)

ReportsOK ==
  /\ deleted \in BOOLEAN
  /\ AttemptsOK
  /\ revisions \in Seq(Storable)
  /\ BuildingsOK
  /\ HistoryOK

LEMMA SeqGrows == \A S, T : S \subseteq T => Seq(S) \subseteq Seq(T)
<1>1. SUFFICES ASSUME NEW S, NEW T, S \subseteq T, NEW f \in Seq(S) PROVE f \in Seq(T)
  BY Zenon
<1>2. Len(f) \in Nat /\ f \in [1..Len(f) -> S]
  OBVIOUS
<1>3. f \in [1..Len(f) -> T]
  BY <1>1, <1>2
<1>4. QED
  BY <1>2, <1>3

LEMMA RevisionsWait ==
  ASSUME SyncsOK, SyncsOK', Keeps, revisions' \in Seq(Storable)
  PROVE  (revisions \in Seq(Storable))'
<1>1. Storable \subseteq Storable'
  BY FrozenStorable, Zenon
<1>2. QED
  BY <1>1, SeqGrows, Zenon

LEMMA AttemptsStep ==
  ASSUME SyncsOK, SyncsOK', Keeps, attempts' \in Seq(AttemptRow), \A n \in 1..Len(attempts') : BoundAttempt(attempts'[n])
  PROVE  AttemptsOK'
<1>1. ASSUME NEW n \in 1..Len(attempts') PROVE BoundAttempt(attempts[n])'
  <2>1. PICK a : a = attempts'[n]
    BY Zenon
  <2>2. PICK s : s = a.snapshot
    BY Zenon
  <2>3. s \in Usable /\ Binding(a) \in Verifiable(s)
    BY <1>1, <2>1, <2>2, Zenon DEF BoundAttempt
  <2>4. s \in Usable' /\ Verifiable(s)' = Verifiable(s)
    BY <2>3, FrozenStorable, Zenon
  <2>5. Binding(a)' = Binding(a)
    BY Zenon DEF Binding
  <2>6. BoundAttempt(a)'
    BY <2>2, <2>3, <2>4, <2>5, Zenon DEF BoundAttempt
  <2>7. QED
    BY <2>1, <2>6, Zenon
<1>2. QED
  BY <1>1, Zenon DEF AttemptsOK

LEMMA AttemptsWait ==
  ASSUME SyncsOK, SyncsOK', Keeps, AttemptsOK, attempts' = attempts
  PROVE  AttemptsOK'
<1>1. attempts' \in Seq(AttemptRow) /\ \A n \in 1..Len(attempts') : BoundAttempt(attempts'[n])
  BY Zenon DEF AttemptsOK
<1>2. QED
  BY <1>1, AttemptsStep, Zenon

(* A step that leaves attempts and stored reports alone.                    *)
LEMMA OthersWait ==
  ASSUME SyncsOK, SyncsOK', Keeps, ReportsOK, BuildingsOK', HistoryOK',
         attempts' = attempts, revisions' = revisions, deleted' = deleted
  PROVE  ReportsOK'
<1>1. AttemptsOK'
  BY AttemptsWait, Zenon DEF ReportsOK
<1>2. (revisions \in Seq(Storable))'
  BY RevisionsWait, Zenon DEF ReportsOK
<1>3. QED
  BY <1>1, <1>2, Zenon DEF ReportsOK

LEMMA HistoryStays ==
  ASSUME ReportsOK, history' = history, revisions' = revisions, deleted' = deleted
  PROVE  HistoryOK'
<1>1. Len(revisions) \in Nat /\ deleted \in BOOLEAN
  <2> HIDE DEF Storable
  <2>1. QED
    BY DEF ReportsOK
<1>2. deleted' \/ (~ deleted /\ ~ deleted' /\ Len(revisions) \in Nat /\ Len(revisions') \in Nat /\ Len(revisions) <= Len(revisions'))
  BY <1>1
<1>3. QED
  BY <1>1, <1>2, HistoryWaits, Zenon DEF ReportsOK

LEMMA RequestStep ==
  ASSUME SyncsOK, ReportsOK, NEW p \in Readers,
         ReadActivity(p) \/ ReadAttempts(p) \/ CountAttempts(p) \/ ReturnReport(p) \/ LookForRevision(p) \/ InsertRevision(p)
  PROVE  SyncsOK' /\ Keeps /\ reader' = reader /\ ReportsOK'
<1>1. UNCHANGED activityVars
  BY Zenon DEF ReadActivity, ReadActivityAt, ReadAttempts, CountAttempts, ReturnReport, LookForRevision, InsertRevision
<1>2. SyncsOK' /\ Keeps /\ reader' = reader
  BY <1>1, SameSyncsKeep, Zenon DEF activityVars
<1>3. AttemptsOK /\ BuildingsOK /\ revisions \in Seq(Storable) /\ deleted \in BOOLEAN /\ HistoryOK
  BY Zenon DEF ReportsOK
<1>4. ASSUME BuildingsOK', attempts' = attempts, revisions' = revisions, deleted' = deleted, history' = history
      PROVE  ReportsOK'
  <2>1. HistoryOK'
    BY <1>4, HistoryStays, Zenon
  <2>2. QED
    BY <1>2, <1>4, <2>1, OthersWait, Zenon
<1>5. CASE ReadActivity(p)
  <2>1. attempts' = attempts /\ revisions' = revisions /\ deleted' = deleted /\ history' = history
    BY <1>5, Zenon DEF ReadActivity, ReadActivityAt
  <2>2. QED
    BY <1>2, <1>3, <1>4, <1>5, <2>1, ReadActivityKeeps, Zenon
<1>6. CASE ReadAttempts(p)
  <2>1. attempts' = attempts /\ revisions' = revisions /\ deleted' = deleted /\ history' = history
    BY <1>6, Zenon DEF ReadAttempts
  <2>2. QED
    BY <1>2, <1>3, <1>4, <1>6, <2>1, ReadAttemptsKeeps, Zenon
<1>7. CASE CountAttempts(p)
  <2>1. attempts' = attempts /\ revisions' = revisions /\ deleted' = deleted /\ history' = history
    BY <1>7, Zenon DEF CountAttempts
  <2>2. QED
    BY <1>2, <1>3, <1>4, <1>7, <2>1, CountAttemptsKeeps, Zenon
<1>8. CASE ReturnReport(p)
  <2>1. attempts' = attempts /\ revisions' = revisions /\ deleted' = deleted /\ history' = history /\ Abandon(p)
    BY <1>8, Zenon DEF ReturnReport
  <2>2. QED
    BY <1>2, <1>3, <1>4, <2>1, AbandonKeeps, Zenon
<1>9. CASE LookForRevision(p)
  <2>1. attempts' = attempts /\ revisions' = revisions /\ deleted' = deleted /\ history' = history
    BY <1>9, Zenon DEF LookForRevision
  <2>2. QED
    BY <1>2, <1>3, <1>4, <1>9, <2>1, LookForRevisionKeeps, Zenon
<1>10. CASE InsertRevision(p)
  <2>1. attempts' = attempts /\ deleted' = deleted
    BY <1>10, Zenon DEF InsertRevision
  <2>2. BuildingsOK' /\ revisions' \in Seq(Storable) /\ HistoryOK'
    BY <1>3, <1>10, InsertRevisionKeeps, Zenon
  <2>3. (revisions \in Seq(Storable))'
    BY <1>2, <2>2, RevisionsWait, Zenon
  <2>4. AttemptsOK'
    BY <1>2, <1>3, <2>1, AttemptsWait, Zenon DEF ReportsOK
  <2>5. QED
    BY <1>2, <1>3, <2>1, <2>2, <2>3, <2>4, Zenon DEF ReportsOK
<1>11. QED
  BY <1>5, <1>6, <1>7, <1>8, <1>9, <1>10, Zenon

LEMMA CatalogStep ==
  ASSUME SyncsOK, ReportsOK, OpenHistory \/ TurnPage \/ CloseHistory \/ RestartProcess
  PROVE  SyncsOK' /\ Keeps /\ reader' = reader /\ ReportsOK'
<1>1. UNCHANGED activityVars /\ attempts' = attempts /\ revisions' = revisions /\ deleted' = deleted
  BY Zenon DEF OpenHistory, TurnPage, CloseHistory, RestartProcess
<1>2. SyncsOK' /\ Keeps /\ reader' = reader
  BY <1>1, SameSyncsKeep, Zenon DEF activityVars
<1>3. BuildingsOK /\ revisions \in Seq(Storable) /\ deleted \in BOOLEAN /\ HistoryOK
  BY Zenon DEF ReportsOK
<1>4. CASE OpenHistory
  <2>1. building' = building
    BY <1>4, Zenon DEF OpenHistory
  <2>2. HistoryOK' /\ BuildingsOK'
    BY <1>2, <1>3, <1>4, <2>1, OpenHistoryKeeps, BuildingsWait, Zenon
  <2>3. QED
    BY <1>1, <1>2, <2>2, OthersWait, Zenon
<1>5. CASE TurnPage
  <2>1. building' = building
    BY <1>5, Zenon DEF TurnPage
  <2>2. HistoryOK' /\ BuildingsOK'
    BY <1>2, <1>3, <1>5, <2>1, TurnPageKeeps, BuildingsWait, Zenon
  <2>3. QED
    BY <1>1, <1>2, <2>2, OthersWait, Zenon
<1>6. CASE CloseHistory
  <2>1. building' = building /\ history' = Unopened
    BY <1>6, Zenon DEF CloseHistory
  <2>2. history' = Unopened'
    BY <2>1, Zenon DEF Unopened
  <2>3. HistoryOK' /\ BuildingsOK'
    BY <1>2, <1>3, <2>1, <2>2, UnopenedIsOKNext, BuildingsWait, Zenon
  <2>4. QED
    BY <1>1, <1>2, <2>3, OthersWait, Zenon
<1>7. CASE RestartProcess
  <2>1. /\ building' = [p \in Readers |-> Unread]
        /\ history' = IF history.at = "reading" THEN [history EXCEPT !.signed = FALSE] ELSE history
    BY <1>7, Zenon DEF RestartProcess
  <2>2. HistoryOK' /\ BuildingsOK'
    BY <1>1, <1>3, <2>1, RestartHistory, AllUnread, Zenon
  <2>3. QED
    BY <1>1, <1>2, <2>2, OthersWait, Zenon
<1>8. QED
  BY <1>4, <1>5, <1>6, <1>7, Zenon

(* The syncs of the case move, or the case is archived or restored.         *)
LEMMA MovesKeep ==
  ASSUME SyncsOK, CaseMoves
  PROVE  SyncsOK' /\ Keeps /\ reader' = reader
<1>1. CASE SyncSteps
  <2>1. reader' = reader
    BY <1>1, Zenon DEF SyncSteps, BeginBounded, BeginIncremental, PublishSync, FailSync
  <2>2. SyncsOK' /\ Keeps
    BY <1>1, BeginBoundedKeeps, BeginIncrementalKeeps, PublishKeeps, FailKeeps, Zenon DEF SyncSteps
  <2>3. QED
    BY <2>1, <2>2, Zenon
<1>2. CASE ArchiveCase \/ RestoreCase
  <2>1. environment' = environment /\ syncs' = syncs /\ reader' = reader
    BY <1>2, Zenon DEF ArchiveCase, RestoreCase
  <2>2. QED
    BY <2>1, SameSyncsKeep, Zenon
<1>3. QED
  BY <1>1, <1>2, Zenon DEF CaseMoves

LEMMA CaseStep ==
  ASSUME SyncsOK, ReportsOK, RequestVerification \/ AdvanceAttempt \/ CaseMoves \/ DeleteCase
  PROVE  SyncsOK' /\ Keeps /\ reader' = reader /\ ReportsOK'
<1>1. SyncsOK' /\ Keeps /\ reader' = reader
  <2>1. CASE CaseMoves
    BY <2>1, MovesKeep, Zenon
  <2>2. CASE RequestVerification \/ AdvanceAttempt \/ DeleteCase
    <3>1. environment' = environment /\ syncs' = syncs /\ reader' = reader
      BY <2>2, Zenon DEF RequestVerification, RequestVerificationAt, AdvanceAttempt, DeleteCase, activityVars
    <3>2. QED
      BY <3>1, SameSyncsKeep, Zenon
  <2>3. QED
    BY <2>1, <2>2, Zenon
<1>2. BuildingsOK'
  <2>1. building' = building
    BY Zenon DEF RequestVerification, RequestVerificationAt, AdvanceAttempt, CaseMoves, DeleteCase, reportVars
  <2>2. QED
    BY <1>1, <2>1, BuildingsWait, Zenon DEF ReportsOK
<1>3. CASE RequestVerification \/ AdvanceAttempt
  <2>1. history' = history /\ revisions' = revisions /\ deleted' = deleted
    BY <1>3, Zenon DEF RequestVerification, RequestVerificationAt, AdvanceAttempt
  <2>2. AttemptsOK
    BY Zenon DEF ReportsOK
  <2>3. attempts' \in Seq(AttemptRow) /\ \A n \in 1..Len(attempts') : BoundAttempt(attempts'[n])
    BY <1>3, <2>2, RequestedIsBound, AdvancedIsBound, Zenon
  <2>4. AttemptsOK'
    BY <1>1, <2>3, AttemptsStep, Zenon
  <2>5. HistoryOK'
    BY <2>1, HistoryStays, Zenon
  <2>6. (revisions \in Seq(Storable))'
    BY <1>1, <2>1, RevisionsWait, Zenon DEF ReportsOK
  <2>7. QED
    BY <1>1, <1>2, <2>1, <2>4, <2>5, <2>6, Zenon DEF ReportsOK
<1>4. CASE CaseMoves
  <2>1. history' = history /\ revisions' = revisions /\ deleted' = deleted /\ attempts' = attempts
    BY <1>4, Zenon DEF CaseMoves, reportVars
  <2>2. HistoryOK'
    BY <2>1, HistoryStays, Zenon
  <2>3. QED
    BY <1>1, <1>2, <2>1, <2>2, OthersWait, Zenon
<1>5. CASE DeleteCase
  <2>1. history' = history /\ revisions' = <<>> /\ deleted' = TRUE /\ attempts' = <<>>
    BY <1>5, Zenon DEF DeleteCase
  <2>2. HistoryOK'
    BY <2>1, HistoryWaits, Zenon DEF ReportsOK
  <2>3. attempts' \in Seq(AttemptRow) /\ \A n \in 1..Len(attempts') : BoundAttempt(attempts'[n])
    <3>1. attempts' \in Seq(AttemptRow) /\ Len(attempts') = 0
      BY <2>1
    <3>2. QED
      BY <3>1
  <2>4. AttemptsOK'
    BY <1>1, <2>3, AttemptsStep, Zenon
  <2>5. (revisions \in Seq(Storable))'
    <3> HIDE DEF Storable
    <3>1. revisions' \in Seq(Storable)
      BY <2>1
    <3>2. QED
      BY <1>1, <3>1, RevisionsWait, Zenon
  <2>6. QED
    BY <1>1, <1>2, <2>1, <2>2, <2>4, <2>5, Zenon DEF ReportsOK
<1>6. QED
  BY <1>1, <1>3, <1>4, <1>5, Zenon

LEMMA ReportsStep ==
  ASSUME SyncsOK, ReportsOK, ReportNext
  PROVE  SyncsOK' /\ Keeps /\ reader' = reader /\ ReportsOK'
<1>1. CASE RequestVerification \/ AdvanceAttempt \/ CaseMoves \/ DeleteCase
  BY <1>1, CaseStep, Zenon
<1>2. CASE \E p \in Readers : ReadActivity(p) \/ ReportSteps(p)
  <2>1. PICK p \in Readers : ReadActivity(p) \/ ReportSteps(p)
    BY <1>2, Zenon
  <2>2. ReadActivity(p) \/ ReadAttempts(p) \/ CountAttempts(p) \/ ReturnReport(p) \/ LookForRevision(p) \/ InsertRevision(p)
    BY <2>1, Zenon DEF ReportSteps
  <2>3. QED
    BY <2>2, RequestStep, Zenon
<1>3. CASE CatalogSteps
  BY <1>3, CatalogStep, Zenon DEF CatalogSteps
<1>4. QED
  BY <1>1, <1>2, <1>3, Zenon DEF ReportNext

-----------------------------------------------------------------------------
(* Equal Evidence makes equal reports of one snapshot: its counts are of    *)
(* the attempts it shows.                                                   *)

LEMMA ImageOfInjective ==
  ASSUME NEW S, IsFiniteSet(S), NEW f, DOMAIN f = S, \A x, y \in S : f[x] = f[y] => x = y,
         NEW I, I = {f[x] : x \in S}
  PROVE  Cardinality(I) = Cardinality(S)
<1>2. PICK T : T = {f[x] : x \in S}
  BY Zenon
<1>1. IsFiniteSet(T) /\ Cardinality(T) <= Cardinality(S)
  BY <1>2, ImageOf, Zenon
<1>3. PICK g : g = [t \in T |-> CHOOSE x \in S : f[x] = t]
  BY Zenon
<1>4. ASSUME NEW x \in S PROVE f[x] \in T /\ g[f[x]] = x
  <2>1. f[x] \in T
    BY <1>2, Zenon
  <2>2. g[f[x]] = CHOOSE y \in S : f[y] = f[x]
    BY <1>3, <2>1, Zenon
  <2>3. g[f[x]] \in S /\ f[g[f[x]]] = f[x]
    BY <2>2, Zenon
  <2>4. QED
    BY <2>1, <2>3, Zenon
<1>5. ASSUME NEW t \in T PROVE g[t] \in S
  <2>1. PICK x \in S : t = f[x]
    BY <1>2, Zenon
  <2>2. QED
    BY <1>4, <2>1, Zenon
<1>6. S = {g[t] : t \in T}
  <2>1. ASSUME NEW x \in S PROVE \E t \in T : x = g[t]
    BY <1>4, Zenon
  <2>2. QED
    BY <1>5, <2>1
<1>7. IsFiniteSet(T) /\ DOMAIN g = T
  BY <1>1, <1>2, <1>3, Zenon
<1>8. Cardinality(S) <= Cardinality(T)
  BY <1>6, <1>7, ImageOf, Zenon
<1>9. Cardinality(S) <= Cardinality(T) /\ Cardinality(T) <= Cardinality(S)
  BY <1>1, <1>8, Zenon
<1>10. Cardinality(S) \in Nat /\ Cardinality(T) \in Nat
  BY <1>7, FS_CardinalityType, Zenon
<1>11. Cardinality(T) = Cardinality(S)
  BY <1>9, <1>10
<1>12. QED
  BY <1>2, <1>11, Zenon

(* What Evidence shows of an attempt.                                       *)
Showing(a) == [id |-> a.id, activity |-> a.activity, version |-> a.version, state |-> a.state, progress |-> a.progress]

LEMMA ShowingFields ==
  \A a : /\ Showing(a).id = a.id /\ Showing(a).activity = a.activity /\ Showing(a).version = a.version
         /\ Showing(a).state = a.state /\ Showing(a).progress = a.progress
         /\ Showing(Showing(a)) = Showing(a)
BY DEF Showing

LEMMA ShowingDiffers ==
  ASSUME NEW rows, UniqueIds(rows), NEW a \in rows, NEW b \in rows, Showing(a) = Showing(b)
  PROVE  a = b
<1>1. Showing(a).id = a.id /\ Showing(b).id = b.id
  BY ShowingFields, Zenon
<1>2. a.id = b.id
  BY <1>1, Zenon
<1>3. QED
  BY <1>2, Zenon DEF UniqueIds

LEMMA ShownStrongest ==
  ASSUME NEW rows, UniqueIds(rows)
  PROVE  StrongestAttempts({Showing(a) : a \in rows}) = {Showing(a) : a \in StrongestAttempts(rows)}
<1> DEFINE P == {Showing(a) : a \in rows}
<1>1. \A a, b : Stronger(Showing(a), Showing(b)) <=> Stronger(a, b)
  BY ShowingFields DEF Stronger
<1>2. \A a, b \in rows : Showing(a) = Showing(b) => a = b
  BY ShowingDiffers, Zenon
<1>3. ASSUME NEW a \in StrongestAttempts(rows) PROVE Showing(a) \in StrongestAttempts(P)
  <2>1. a \in rows /\ \A b \in rows \ {a} : b.activity = a.activity => Stronger(a, b)
    BY Zenon DEF StrongestAttempts
  <2>2. ASSUME NEW c \in P \ {Showing(a)}, c.activity = Showing(a).activity PROVE Stronger(Showing(a), c)
    <3>1. PICK b \in rows : c = Showing(b)
      BY Zenon
    <3>2. b # a /\ b.activity = a.activity
      BY <2>2, <3>1, ShowingFields, Zenon
    <3>3. Stronger(a, b)
      BY <2>1, <3>2, Zenon
    <3>4. QED
      BY <1>1, <3>1, <3>3, Zenon
  <2>3. Showing(a) \in P
    BY <2>1, Zenon
  <2>4. QED
    BY <2>2, <2>3, Zenon DEF StrongestAttempts
<1>4. ASSUME NEW c \in StrongestAttempts(P) PROVE c \in {Showing(a) : a \in StrongestAttempts(rows)}
  <2>1. c \in P /\ \A d \in P \ {c} : d.activity = c.activity => Stronger(c, d)
    BY Zenon DEF StrongestAttempts
  <2>2. PICK a \in rows : c = Showing(a)
    BY <2>1, Zenon
  <2>3. ASSUME NEW b \in rows \ {a}, b.activity = a.activity PROVE Stronger(a, b)
    <3>1. Showing(b) \in P \ {c}
      BY <1>2, <2>2, Zenon
    <3>2. Showing(b).activity = c.activity
      BY <2>2, <2>3, ShowingFields, Zenon
    <3>3. Stronger(c, Showing(b))
      BY <2>1, <3>1, <3>2, Zenon
    <3>4. QED
      BY <1>1, <2>2, <3>3, Zenon
  <2>4. a \in StrongestAttempts(rows)
    BY <2>3, Zenon DEF StrongestAttempts
  <2>5. QED
    BY <2>2, <2>4, Zenon
<1>5. QED
  BY <1>3, <1>4, Zenon

LEMMA ShownNumber ==
  ASSUME NEW rows, IsFiniteSet(rows), UniqueIds(rows)
  PROVE  Cardinality({Showing(a) : a \in rows}) = Cardinality(rows)
<1> DEFINE f == [a \in rows |-> Showing(a)]
<1>1. \A a \in rows : f[a] = Showing(a)
  BY Zenon
<1>2. {f[a] : a \in rows} = {Showing(a) : a \in rows}
  BY <1>1, Zenon
<1>3. \A a, b \in rows : f[a] = f[b] => a = b
  BY <1>1, ShowingDiffers, Zenon
<1>4. DOMAIN f = rows
  BY Zenon
<1> HIDE DEF f
<1>5. PICK I : I = {f[a] : a \in rows}
  BY Zenon
<1>6. Cardinality(I) = Cardinality(rows)
  BY <1>3, <1>4, <1>5, ImageOfInjective
<1>7. QED
  BY <1>2, <1>5, <1>6, Zenon

LEMMA SubsetsKeep ==
  ASSUME NEW rows, IsFiniteSet(rows), UniqueIds(rows)
  PROVE  /\ IsFiniteSet(StrongestAttempts(rows)) /\ UniqueIds(StrongestAttempts(rows))
         /\ \A p : /\ IsFiniteSet({a \in StrongestAttempts(rows) : a.progress >= p})
                   /\ UniqueIds({a \in StrongestAttempts(rows) : a.progress >= p})
<1>1. StrongestAttempts(rows) \in SUBSET rows
  BY Zenon DEF StrongestAttempts
<1>2. IsFiniteSet(StrongestAttempts(rows)) /\ UniqueIds(StrongestAttempts(rows))
  BY <1>1, FS_Subset, Zenon DEF UniqueIds
<1>3. ASSUME NEW p
      PROVE  /\ IsFiniteSet({a \in StrongestAttempts(rows) : a.progress >= p})
             /\ UniqueIds({a \in StrongestAttempts(rows) : a.progress >= p})
  <2>1. {a \in StrongestAttempts(rows) : a.progress >= p} \in SUBSET StrongestAttempts(rows)
    BY Zenon
  <2>2. QED
    BY <1>2, <2>1, FS_Subset, Zenon DEF UniqueIds
<1>4. QED
  BY <1>2, <1>3, Zenon

LEMMA EvidenceIsShown ==
  ASSUME NEW rows, IsFiniteSet(rows), UniqueIds(rows), NEW total
  PROVE  EvidenceRevision(rows, total) = EvidenceRevision({Showing(a) : a \in rows}, total)
<1>1. PICK P : P = {Showing(a) : a \in rows}
  BY Zenon
<1>2. {Showing(a) : a \in P} = P
  <2>1. \A a \in P : Showing(a) = a
    BY <1>1, ShowingFields, Zenon
  <2>2. QED
    BY <2>1, Zenon
<1>3. Cardinality(P) = Cardinality(rows)
  BY <1>1, ShownNumber, Zenon
<1>4. StrongestAttempts(P) = {Showing(a) : a \in StrongestAttempts(rows)}
  BY <1>1, ShownStrongest, Zenon
<1>5. Cardinality(StrongestAttempts(P)) = Cardinality(StrongestAttempts(rows))
  BY <1>4, SubsetsKeep, ShownNumber, Zenon
<1>6. ASSUME NEW p PROVE Proven(P, p) = Proven(rows, p)
  <2>1. PICK R : R = {a \in StrongestAttempts(rows) : a.progress >= p}
    BY Zenon
  <2>2. {a \in StrongestAttempts(P) : a.progress >= p} = {Showing(a) : a \in R}
    BY <1>4, <2>1, ShowingFields, Zenon
  <2>3. IsFiniteSet(R) /\ UniqueIds(R)
    BY <2>1, SubsetsKeep, Zenon
  <2>4. Cardinality({Showing(a) : a \in R}) = Cardinality(R)
    BY <2>3, ShownNumber, Zenon
  <2>5. QED
    BY <2>1, <2>2, <2>4, Zenon DEF Proven
<1>7. PICK n, k, l, c, d :
        /\ n = Cardinality(rows) /\ k = Cardinality(StrongestAttempts(rows))
        /\ l = Proven(rows, 2) /\ c = Proven(rows, 3) /\ d = Proven(rows, Stages)
  BY Zenon
<1>8. EvidenceRevision(rows, total) = [attempts |-> P, total |-> total, returned |-> n, truncated |-> total > n,
                                       selected |-> k, local |-> l, chain |-> c, ledger |-> d]
  BY <1>1, <1>7, Zenon DEF EvidenceRevision, Showing
<1>9. Cardinality(P) = n /\ Cardinality(StrongestAttempts(P)) = k /\ Proven(P, 2) = l /\ Proven(P, 3) = c /\ Proven(P, Stages) = d
  BY <1>3, <1>5, <1>6, <1>7, Zenon
<1>10. {[id |-> a.id, activity |-> a.activity, version |-> a.version, state |-> a.state, progress |-> a.progress] : a \in P} = P
  BY <1>2, Zenon DEF Showing
<1>11. EvidenceRevision(P, total) = [attempts |-> P, total |-> total, returned |-> n, truncated |-> total > n,
                                     selected |-> k, local |-> l, chain |-> c, ledger |-> d]
  BY <1>9, <1>10, Zenon DEF EvidenceRevision
<1>12. QED
  BY <1>1, <1>8, <1>11, Zenon

LEMMA ReportFields ==
  ASSUME NEW s, NEW activity, NEW rows, NEW total
  PROVE  /\ Report(s, activity, rows, total).snapshot = s
         /\ Report(s, activity, rows, total).activity = activity
         /\ Report(s, activity, rows, total).evidence = EvidenceRevision(rows, total)
         /\ Report(s, activity, rows, total).unmet = Unmet(s, activity, EvidenceRevision(rows, total))
         /\ Report(s, activity, rows, total).assurance =
              AssuranceLevel(EvidenceRevision(rows, total), Unmet(s, activity, EvidenceRevision(rows, total)) = {})
<1>1. PICK E, U : E = EvidenceRevision(rows, total) /\ U = Unmet(s, activity, E)
  BY Zenon
<1>2. Report(s, activity, rows, total) = ReportOn(s, activity, E, U)
  BY <1>1, ReportIs, Zenon
<1>3. PICK assurance, limitations, claims :
        /\ assurance = AssuranceLevel(E, U = {}) /\ limitations = ReportLimitations(activity, E, assurance)
        /\ claims = {[code |-> c, affected |-> AffectedCount(c, activity, E)] : c \in U}
  BY Zenon
<1>4. ReportOn(s, activity, E, U) =
        [snapshot |-> s, environment |-> environment, assurance |-> assurance,
         activity |-> activity, evidence |-> E, unmet |-> U, eligible |-> U = {},
         limitations |-> limitations, claims |-> claims]
  BY <1>3, Zenon DEF ReportOn
<1>5. /\ ReportOn(s, activity, E, U).snapshot = s /\ ReportOn(s, activity, E, U).activity = activity
      /\ ReportOn(s, activity, E, U).evidence = E /\ ReportOn(s, activity, E, U).unmet = U
      /\ ReportOn(s, activity, E, U).assurance = assurance
  BY <1>4
<1>6. QED
  BY <1>1, <1>2, <1>3, <1>5, Zenon

LEMMA ComparedFields ==
  ASSUME NEW m, NEW n, NEW R, NEW T, R = revisions[m], T = revisions[n]
  PROVE  /\ Compared(m, n).sameSnapshot <=> R.snapshot = T.snapshot
         /\ Compared(m, n).contentChanged <=> R # T
         /\ Compared(m, n).activityChanged <=> \/ R.activity.aggregate # T.activity.aggregate
                                                \/ R.activity.observed # T.activity.observed
         /\ Compared(m, n).evidenceChanged <=> \/ R.evidence.attempts # T.evidence.attempts
                                                \/ R.evidence.total # T.evidence.total
<1>1. PICK same \in BOOLEAN : same = (R.snapshot = T.snapshot)
  <2>1. (R.snapshot = T.snapshot) \in BOOLEAN
    OBVIOUS
  <2>2. QED
    BY <2>1, Zenon
<1>2. PICK content \in BOOLEAN : content = (R # T)
  <2>1. (R # T) \in BOOLEAN
    OBVIOUS
  <2>2. QED
    BY <2>1, Zenon
<1>3. PICK activity \in BOOLEAN : activity = (R.activity.aggregate # T.activity.aggregate \/ R.activity.observed # T.activity.observed)
  <2>1. (R.activity.aggregate # T.activity.aggregate \/ R.activity.observed # T.activity.observed) \in BOOLEAN
    OBVIOUS
  <2>2. QED
    BY <2>1, Zenon
<1>4. PICK evidence \in BOOLEAN : evidence = (R.evidence.attempts # T.evidence.attempts \/ R.evidence.total # T.evidence.total)
  <2>1. (R.evidence.attempts # T.evidence.attempts \/ R.evidence.total # T.evidence.total) \in BOOLEAN
    OBVIOUS
  <2>2. QED
    BY <2>1, Zenon
<1>5. PICK number, gate, gaps, limitations, claims :
        /\ number = T.evidence.total - R.evidence.total /\ gate = CodeChanges(R.unmet, T.unmet)
        /\ gaps = CodeChanges(R.activity.gaps, T.activity.gaps)
        /\ limitations = CodeChanges(R.limitations, T.limitations) /\ claims = ClaimChanges(R.claims, T.claims)
  BY Zenon
<1>6. Compared(m, n) = [sameSnapshot |-> same, contentChanged |-> content, activityChanged |-> activity,
                        evidenceChanged |-> evidence, attempts |-> number, gate |-> gate, gaps |-> gaps,
                        limitations |-> limitations, claims |-> claims]
  BY <1>1, <1>2, <1>3, <1>4, <1>5, Zenon DEF Compared
<1>7. /\ Compared(m, n).sameSnapshot = same /\ Compared(m, n).contentChanged = content
      /\ Compared(m, n).activityChanged = activity /\ Compared(m, n).evidenceChanged = evidence
  BY <1>6
<1>8. QED
  BY <1>1, <1>2, <1>3, <1>4, <1>7, Zenon

LEMMA EvidenceFields ==
  ASSUME NEW rows, NEW total
  PROVE  /\ EvidenceRevision(rows, total).attempts = {Showing(a) : a \in rows}
         /\ EvidenceRevision(rows, total).total = total
         /\ EvidenceRevision(rows, total).returned = Cardinality(rows)
         /\ EvidenceRevision(rows, total).selected = Cardinality(StrongestAttempts(rows))
         /\ EvidenceRevision(rows, total).local = Proven(rows, 2)
         /\ EvidenceRevision(rows, total).chain = Proven(rows, 3)
         /\ EvidenceRevision(rows, total).ledger = Proven(rows, Stages)
         /\ EvidenceRevision(rows, total).truncated <=> total > Cardinality(rows)
<1>1. PICK P, n, k, l, c, d :
        /\ P = {Showing(a) : a \in rows} /\ n = Cardinality(rows) /\ k = Cardinality(StrongestAttempts(rows))
        /\ l = Proven(rows, 2) /\ c = Proven(rows, 3) /\ d = Proven(rows, Stages)
  BY Zenon
<1>2. PICK truncated \in BOOLEAN : truncated = (total > n)
  <2>1. (total > n) \in BOOLEAN
    OBVIOUS
  <2>2. QED
    BY <2>1, Zenon
<1>3. EvidenceRevision(rows, total) = [attempts |-> P, total |-> total, returned |-> n, truncated |-> truncated,
                                       selected |-> k, local |-> l, chain |-> c, ledger |-> d]
  BY <1>1, <1>2, Zenon DEF EvidenceRevision, Showing
<1>4. /\ EvidenceRevision(rows, total).attempts = P /\ EvidenceRevision(rows, total).total = total
      /\ EvidenceRevision(rows, total).returned = n /\ EvidenceRevision(rows, total).selected = k
      /\ EvidenceRevision(rows, total).local = l /\ EvidenceRevision(rows, total).chain = c
      /\ EvidenceRevision(rows, total).ledger = d /\ EvidenceRevision(rows, total).truncated = truncated
  BY <1>3
<1>5. QED
  BY <1>1, <1>2, <1>4, Zenon

(* Two reports of one snapshot differ in their Evidence only.               *)
LEMMA StorableCompare ==
  ASSUME NEW R \in Storable, NEW T \in Storable, R.snapshot = T.snapshot
  PROVE  /\ R.activity = T.activity
         /\ R # T => R.evidence.attempts # T.evidence.attempts \/ R.evidence.total # T.evidence.total
<1>1. PICK s \in Usable : \E rows \in BoundRows(s), total \in Nat : R = ReportOf(s, rows, total)
  BY StorableIs, Zenon
<1>2. PICK rows \in BoundRows(s), total \in Nat : R = ReportOf(s, rows, total)
  BY <1>1, Zenon
<1>3. PICK u \in Usable : \E others \in BoundRows(u), number \in Nat : T = ReportOf(u, others, number)
  BY StorableIs, Zenon
<1>4. PICK others \in BoundRows(u), number \in Nat : T = ReportOf(u, others, number)
  BY <1>3, Zenon
<1>5. PICK activity : activity = ActivityPart(View(s, NoFilter))
  BY Zenon
<1>6. R = Report(s, activity, rows, total)
  BY <1>2, <1>5, Zenon DEF ReportOf
<1>7. T = Report(u, ActivityPart(View(u, NoFilter)), others, number)
  BY <1>4, Zenon DEF ReportOf
<1>8. u = s
  BY <1>6, <1>7, ReportFields
<1>9. T = Report(s, activity, others, number)
  BY <1>5, <1>7, <1>8, Zenon
<1>10. R.activity = T.activity
  BY <1>6, <1>9, ReportFields
<1>11. ASSUME R.evidence.attempts = T.evidence.attempts, R.evidence.total = T.evidence.total
       PROVE  R = T
  <2>1. /\ IsFiniteSet(rows) /\ UniqueIds(rows) /\ IsFiniteSet(others) /\ UniqueIds(others)
    BY <1>2, <1>4, Zenon DEF BoundRows
  <2>2. R.evidence = EvidenceRevision(rows, total) /\ T.evidence = EvidenceRevision(others, number)
    BY <1>6, <1>9, ReportFields
  <2>3. {Showing(a) : a \in rows} = {Showing(a) : a \in others} /\ total = number
    <3>1. R.evidence.attempts = {Showing(a) : a \in rows} /\ R.evidence.total = total
      BY <2>2, EvidenceFields
    <3>2. T.evidence.attempts = {Showing(a) : a \in others} /\ T.evidence.total = number
      BY <2>2, EvidenceFields
    <3>3. QED
      BY <1>11, <3>1, <3>2, Zenon
  <2>4. EvidenceRevision(rows, total) = EvidenceRevision({Showing(a) : a \in rows}, total)
    BY <2>1, EvidenceIsShown, Zenon
  <2>5. EvidenceRevision(others, number) = EvidenceRevision({Showing(a) : a \in others}, number)
    BY <2>1, EvidenceIsShown, Zenon
  <2>6. EvidenceRevision(rows, total) = EvidenceRevision(others, number)
    BY <2>3, <2>4, <2>5, Zenon
  <2>7. QED
    BY <1>6, <1>9, <2>6, ReportIs, Zenon
<1>12. QED
  BY <1>10, <1>11, Zenon

LEMMA PinnedReports ==
  ASSUME ReportsOK
  PROVE  ReportsArePinned
<1>1. ASSUME NEW s PROVE ~ StoredConflict(s, NewestAttempts(s))
  <2>1. NewestAttempts(s) \in BoundRows(s)
    BY NewestAreBound, Zenon DEF ReportsOK
  <2>2. \A a \in NewestAttempts(s) : Binding(a) \in Verifiable(s)
    BY <2>1, Zenon DEF BoundRows
  <2>3. QED
    BY <2>2, Zenon DEF StoredConflict
<1>2. ASSUME NEW m \in 1..Len(revisions), NEW n \in 1..Len(revisions), Compared(m, n).sameSnapshot
      PROVE  ~ Compared(m, n).activityChanged /\ (Compared(m, n).contentChanged => Compared(m, n).evidenceChanged)
  <2>1. revisions[m] \in Storable /\ revisions[n] \in Storable
    <3> HIDE DEF Storable
    <3>1. revisions \in Seq(Storable)
      BY Zenon DEF ReportsOK
    <3>2. QED
      BY <3>1
  <2>2. PICK R, T : R = revisions[m] /\ T = revisions[n]
    BY Zenon
  <2>3. R.snapshot = T.snapshot
    BY <1>2, <2>2, ComparedFields
  <2>4. R.activity = T.activity /\ (R # T => R.evidence.attempts # T.evidence.attempts \/ R.evidence.total # T.evidence.total)
    BY <2>1, <2>2, <2>3, StorableCompare, Zenon
  <2>5. R.activity.aggregate = T.activity.aggregate /\ R.activity.observed = T.activity.observed
    BY <2>4, Zenon
  <2>6. QED
    BY <2>2, <2>4, <2>5, ComparedFields
<1>3. history.at = "done" =>
        history.shown = [i \in 1..history.total |-> history.cutoff + 1 - i] /\ history.total = history.cutoff
  BY Zenon DEF ReportsOK, HistoryOK
<1>4. history.at = "invalid_cursor" => ~ history.signed
  BY Zenon DEF ReportsOK, HistoryOK
<1>5. QED
  BY <1>1, <1>2, <1>3, <1>4, Zenon DEF ReportsArePinned

-----------------------------------------------------------------------------
(* Where the reads start.                                                   *)

LEMMA EarlierAreStorable ==
  ASSUME SyncsOK, AttemptsOK, attempts # <<>>
  PROVE  EarlierReports \in Seq(Storable)
<1>1. PICK s : s = attempts[1].snapshot
  BY Zenon
<1>2. s \in Usable
  <2>1. 1 \in 1..Len(attempts)
    BY DEF AttemptsOK
  <2>2. QED
    BY <1>1, <2>1, Zenon DEF AttemptsOK, BoundAttempt
<1>3. attempts \in Seq(AttemptRow) /\ 1 \in 1..Len(attempts)
  BY DEF AttemptsOK
<1>4. PICK a : a = attempts[1]
  BY Zenon
<1>5. a \in AttemptRow /\ a.snapshot = s /\ Binding(a) \in Verifiable(s)
  <2>1. a \in AttemptRow
    BY <1>3, <1>4
  <2>2. a.snapshot = s
    BY <1>1, <1>4, Zenon
  <2>3. BoundAttempt(a)
    BY <1>3, <1>4, Zenon DEF AttemptsOK
  <2>4. QED
    BY <2>1, <2>2, <2>3, Zenon DEF BoundAttempt
<1>6. PICK first : first = [Listed(1, a) EXCEPT !.state = "queued", !.progress = NoProgress, !.version = 1, !.cancel = FALSE]
  BY Zenon
<1>7. first \in ListedRow /\ Binding(first) = Binding(a)
  <2>1. /\ a.activity \in Nat /\ a.row \in Nat \X Nat
        /\ a.semantic \in [kind : Kinds, time : Nat \cup {NoTime}, value : STRING]
    BY <1>5 DEF AttemptRow
  <2>2. first = [id |-> 1, activity |-> a.activity, row |-> a.row, semantic |-> a.semantic, state |-> "queued",
                 progress |-> NoProgress, version |-> 1, cancel |-> FALSE]
    BY <1>6 DEF Listed
  <2>3. "queued" \in States /\ NoProgress \in 0..Stages
    BY DEF States, NoProgress, Stages
  <2> HIDE DEF States, Kinds
  <2>4. first \in ListedRow
    BY <2>1, <2>2, <2>3 DEF ListedRow
  <2>5. Binding(first) = Binding(a)
    BY <2>2 DEF Binding
  <2>6. QED
    BY <2>4, <2>5, Zenon
<1>8. {} \in BoundRows(s) /\ {first} \in BoundRows(s)
  <2>1. IsFiniteSet({}) /\ IsFiniteSet({first})
    BY FS_EmptySet, FS_Singleton, Zenon
  <2>2. UniqueIds({}) /\ UniqueIds({first})
    BY Zenon DEF UniqueIds
  <2>3. {} \in SUBSET ListedRow /\ {first} \in SUBSET ListedRow
    BY <1>7, Zenon
  <2>4. \A b \in {first} : Binding(b) \in Verifiable(s)
    BY <1>5, <1>7, Zenon
  <2>5. QED
    BY <2>1, <2>2, <2>3, <2>4, Zenon DEF BoundRows
<1>9. ReportOf(s, {}, 0) \in Storable /\ ReportOf(s, {first}, 1) \in Storable
  BY <1>2, <1>8, StorableIs, Zenon
<1>10. PICK activity : activity = ActivityPart(View(s, NoFilter))
  BY Zenon
<1>11. EarlierReports = <<ReportOf(s, {}, 0), ReportOf(s, {first}, 1)>>
  <2>1. EarlierReports = The({<<Report(s, x, {}, 0), Report(s, x, {first}, 1)>> : x \in {activity}})
    BY <1>1, <1>4, <1>6, <1>10, Zenon DEF EarlierReports
  <2>2. {<<Report(s, x, {}, 0), Report(s, x, {first}, 1)>> : x \in {activity}} = {<<Report(s, activity, {}, 0), Report(s, activity, {first}, 1)>>}
    OBVIOUS
  <2>3. EarlierReports = <<Report(s, activity, {}, 0), Report(s, activity, {first}, 1)>>
    BY <2>1, <2>2, TheOf, Zenon
  <2>4. QED
    BY <1>10, <2>3, Zenon DEF ReportOf
<1> HIDE DEF Storable
<1>12. PICK x, y : x = ReportOf(s, {}, 0) /\ y = ReportOf(s, {first}, 1)
  BY Zenon
<1>13. x \in Storable /\ y \in Storable
  BY <1>9, <1>12, Zenon
<1>14. <<x, y>> \in Seq(Storable)
  BY <1>13
<1>15. QED
  BY <1>11, <1>12, <1>14, Zenon

LEMMA ReportsStart ==
  ASSUME SyncsOK, ReportInit
  PROVE  ReportsOK
<1>1. /\ attempts \in EarlierAttempts
      /\ \A n \in 1..Len(attempts) : BoundAttempt(attempts[n])
  BY Zenon DEF ReportInit, BoundAttempt
<1>2. attempts \in Seq(AttemptRow)
  BY <1>1, ReportAssumption, Zenon DEF ReportAssumption
<1>3. AttemptsOK
  BY <1>1, <1>2, Zenon DEF AttemptsOK
<1>4. revisions \in Seq(Storable)
  <2>1. CASE attempts = <<>>
    <3> HIDE DEF Storable
    <3>1. revisions = <<>>
      BY <2>1, Zenon DEF ReportInit
    <3>2. QED
      BY <3>1
  <2>2. CASE attempts # <<>>
    <3>1. revisions = EarlierReports
      BY <2>2, Zenon DEF ReportInit
    <3>2. QED
      BY <1>3, <2>2, <3>1, EarlierAreStorable, Zenon
  <2>3. QED
    BY <2>1, <2>2, Zenon
<1>5. BuildingsOK
  <2>1. building = [p \in Readers |-> Unread]
    BY Zenon DEF ReportInit
  <2>2. \A p \in Readers : building[p] = Unread
    BY <2>1, Zenon
  <2>3. building = [p \in Readers |-> building[p]]
    BY <2>1, Zenon
  <2>4. QED
    BY <2>2, <2>3, UnreadIsOK, Zenon DEF BuildingsOK
<1>6. HistoryOK /\ deleted \in BOOLEAN
  BY UnopenedIsOK, Zenon DEF ReportInit
<1>7. QED
  BY <1>3, <1>4, <1>5, <1>6, Zenon DEF ReportsOK

LEMMA HistoriesAreOK ==
  ASSUME NEW h \in Histories, environment = h.environment, syncs = h.syncs
  PROVE  SyncsOK /\ \A n \in 1..Len(syncs) : Acquirable(environment, syncs[n])
<1>1. /\ h.environment \in {"demo", "live"} /\ h.syncs \in Seq(SyncRow)
      /\ \A n \in 1..Len(h.syncs) :
           /\ h.syncs[n].state = "active" => n = Len(h.syncs)
           /\ Acquirable(h.environment, h.syncs[n])
  BY HistoryAssumption, Zenon DEF HistoryAssumption
<1>2. QED
  BY <1>1, Zenon DEF SyncsOK

-----------------------------------------------------------------------------
(* The inductive invariant.                                                 *)

ReadsOK == SyncsOK /\ WalkOK /\ ReportsOK

LEMMA ReadsStart ==
  ASSUME ReadsInit
  PROVE  ReadsOK
<1>1. SyncsOK
  BY HistoriesAreOK, Zenon DEF ReadsInit
<1>2. reader = Resting /\ ReportInit
  BY Zenon DEF ReadsInit
<1>3. QED
  BY <1>1, <1>2, RestingWalk, ReportsStart, Zenon DEF ReadsOK

(* What a page or a step of nobody leaves alone.                            *)
LEMMA ReportsRest ==
  ASSUME SyncsOK, SyncsOK', Keeps, ReportsOK, UNCHANGED reportVars
  PROVE  ReportsOK'
<1>1. attempts' = attempts /\ revisions' = revisions /\ building' = building /\ history' = history /\ deleted' = deleted
  BY Zenon DEF reportVars
<1>2. BuildingsOK' /\ HistoryOK'
  BY <1>1, BuildingsWait, HistoryStays, Zenon DEF ReportsOK
<1>3. QED
  BY <1>1, <1>2, OthersWait, Zenon

LEMMA ReadsStep ==
  ASSUME ReadsOK, [ReadsNext]_vars
  PROVE  ReadsOK'
<1>1. SyncsOK /\ WalkOK /\ ReportsOK
  BY Zenon DEF ReadsOK
<1>2. CASE ReportNext
  <2>1. SyncsOK' /\ Keeps /\ reader' = reader /\ ReportsOK'
    BY <1>1, <1>2, ReportsStep, Zenon
  <2>2. WalkOK'
    BY <1>1, <2>1, WalkWaits, Zenon
  <2>3. QED
    BY <2>1, <2>2, Zenon DEF ReadsOK
<1>3. CASE PagesTurn
  <2>1. ActivityNext /\ UNCHANGED reportVars
    BY <1>3, Zenon DEF PagesTurn, ActivityNext
  <2>2. SyncsOK' /\ WalkOK' /\ Keeps
    BY <1>1, <2>1, ActivityStep, Zenon
  <2>3. QED
    BY <1>1, <2>1, <2>2, ReportsRest, Zenon DEF ReadsOK
<1>4. CASE UNCHANGED vars
  <2>1. UNCHANGED activityVars /\ UNCHANGED reportVars
    BY <1>4, Zenon DEF vars
  <2>2. SyncsOK' /\ Keeps /\ reader' = reader
    BY <1>1, <2>1, SameSyncsKeep, Zenon DEF activityVars
  <2>3. WalkOK'
    BY <1>1, <2>2, WalkWaits, Zenon
  <2>4. QED
    BY <1>1, <2>1, <2>2, <2>3, ReportsRest, Zenon DEF ReadsOK
<1>5. QED
  BY <1>2, <1>3, <1>4, Zenon DEF ReadsNext

(* Whatever the rows of a provider, the queries and the limits: a traversal *)
(* of Activity shows exactly what its first page froze, attempts stay bound *)
(* to transactions of their snapshot, two stored reports of one snapshot    *)
(* differ in their Evidence only, and a traversal of stored reports shows   *)
(* all of its cutoff: _build_activity, _page, _decode_cursor and the report *)
(* revision catalog.                                                        *)
THEOREM ReadsAreFrozen == ReadsSpec => []WalksAreFrozen
<1>1. ReadsInit => ReadsOK
  BY ReadsStart
<1>2. ReadsOK /\ [ReadsNext]_vars => ReadsOK'
  BY ReadsStep
<1>3. ReadsOK => WalksAreFrozen
  BY WalkIsFrozen, PinnedReports, Zenon DEF ReadsOK, WalksAreFrozen
<1>4. QED
  BY <1>1, <1>2, <1>3, PTL DEF ReadsSpec

-----------------------------------------------------------------------------
(* Nothing that was stored is lost.                                         *)

StoredWell(sync) == Acquirable(environment, sync)
StoredOK == \A n \in 1..Len(syncs) : StoredWell(syncs[n])

LEMMA StoredSame ==
  ASSUME StoredOK, environment' = environment, syncs' = syncs
  PROVE  StoredOK'
<1>1. \A sync : StoredWell(sync) => StoredWell(sync)'
  BY Zenon DEF StoredWell, Acquirable
<1>2. QED
  BY <1>1, Zenon DEF StoredOK

LEMMA StoredNew ==
  ASSUME SyncsOK, StoredOK, environment' = environment, NEW from \in Nat, NEW start \in Nat, NEW to \in Nat,
         NEW kinds \in SUBSET Kinds, NewSync(from, start, to, kinds), from <= start
  PROVE  StoredOK'
<1> DEFINE new == [state |-> "active", from |-> from, start |-> start, to |-> to,
                   kinds |-> kinds, rows |-> {}, scoped |-> TRUE]
<1>1. \A sync : StoredWell(sync) => StoredWell(sync)'
  BY Zenon DEF StoredWell, Acquirable
<1>2. StoredWell(new)'
  BY DEF StoredWell, Acquirable
<1> HIDE DEF new
<1>3. syncs \in Seq(SyncRow) /\ syncs' = Append(syncs, new)
  BY Zenon DEF SyncsOK, NewSync, new
<1>3a. /\ Len(syncs') = Len(syncs) + 1 /\ Len(syncs) \in Nat /\ syncs'[Len(syncs) + 1] = new
       /\ \A n \in 1..Len(syncs) : syncs'[n] = syncs[n]
  BY <1>3
<1>4. \A n \in 1..Len(syncs') : syncs'[n] = new \/ (n \in 1..Len(syncs) /\ syncs'[n] = syncs[n])
  BY <1>3a
<1>5. QED
  BY <1>1, <1>2, <1>4, Zenon DEF StoredOK

LEMMA StoredUpdate ==
  ASSUME SyncsOK, StoredOK, environment' = environment, NEW n \in 1..Len(syncs), NEW row, StoredWell(row),
         syncs' = [syncs EXCEPT ![n] = row]
  PROVE  StoredOK'
<1>1. \A sync : StoredWell(sync) => StoredWell(sync)'
  BY Zenon DEF StoredWell, Acquirable
<1>2. syncs \in Seq(SyncRow)
  BY DEF SyncsOK
<1>3. /\ Len(syncs') = Len(syncs)
      /\ \A m \in 1..Len(syncs) : syncs'[m] = IF m = n THEN row ELSE syncs[m]
  BY <1>2
<1>4. QED
  BY <1>1, <1>3, Zenon DEF StoredOK

LEMMA StoredPublish ==
  ASSUME SyncsOK, StoredOK, PublishSync
  PROVE  StoredOK'
<1>1. PICK n \in SyncIds, as \in Published, rows \in RowSets :
        /\ \A i \in rows : environment = "demo" \/ Observable[i].time = NoTime
                             \/ Within(Observable[i].time, Acquired(n)) \/ ~ Observable[i].sound
        /\ \A i \in rows : Observable[i].kind \in syncs[n].kinds
        /\ syncs' = [syncs EXCEPT ![n].state = as.state, ![n].scoped = as.scoped, ![n].rows = rows]
        /\ environment' = environment
  BY Zenon DEF PublishSync
<1>2. rows \in SUBSET (1..Len(Observable))
  BY ActivityAssumption DEF ActivityAssumption
<1> DEFINE row == [syncs[n] EXCEPT !.state = as.state, !.scoped = as.scoped, !.rows = rows]
<1>3. syncs[n] \in SyncRow /\ n \in 1..Len(syncs)
  BY DEF SyncsOK, SyncIds
<1>4. row.rows = rows /\ row.kinds = syncs[n].kinds /\ row.from = syncs[n].from /\ row.start = syncs[n].start /\ row.to = syncs[n].to
  BY <1>3 DEF SyncRow
<1>5. syncs' = [syncs EXCEPT ![n] = row]
  BY <1>1, <1>3 DEF SyncsOK, SyncRow
<1> HIDE DEF row
<1>6. syncs[n].from <= syncs[n].start
  BY <1>3, Zenon DEF StoredOK, StoredWell, Acquirable
<1>7. StoredWell(row)
  BY <1>1, <1>2, <1>4, <1>6, Zenon DEF StoredWell, Acquirable, Acquired
<1>8. QED
  BY <1>1, <1>3, <1>5, <1>7, StoredUpdate, Zenon

LEMMA StoredFail ==
  ASSUME SyncsOK, StoredOK, FailSync
  PROVE  StoredOK'
<1>1. PICK n \in SyncIds : syncs' = [syncs EXCEPT ![n].state = "failed"] /\ environment' = environment
  BY Zenon DEF FailSync
<1> DEFINE row == [syncs[n] EXCEPT !.state = "failed"]
<1>2. syncs[n] \in SyncRow /\ n \in 1..Len(syncs)
  BY DEF SyncsOK, SyncIds
<1>3. row.rows = syncs[n].rows /\ row.kinds = syncs[n].kinds /\ row.from = syncs[n].from /\ row.start = syncs[n].start /\ row.to = syncs[n].to
  BY <1>2 DEF SyncRow
<1>4. syncs' = [syncs EXCEPT ![n] = row]
  BY <1>1, <1>2 DEF SyncsOK, SyncRow
<1> HIDE DEF row
<1>5. StoredWell(syncs[n])
  BY <1>2, Zenon DEF StoredOK
<1>6. StoredWell(row)
  BY <1>3, <1>5, Zenon DEF StoredWell, Acquirable
<1>7. QED
  BY <1>1, <1>2, <1>4, <1>6, StoredUpdate, Zenon

LEMMA StoredBounded ==
  ASSUME SyncsOK, StoredOK, BeginBounded
  PROVE  StoredOK'
<1>1. PICK period \in Periods, kinds \in Surfaces : NewSync(period.from, period.from, period.to, kinds)
  BY Zenon DEF BeginBounded
<1>2. environment' = environment
  BY Zenon DEF BeginBounded
<1>3. period.from \in Nat /\ period.to \in Nat /\ kinds \in SUBSET Kinds
  <2>1. period \in [from : Nat, to : Nat] /\ kinds \subseteq Kinds
    BY ActivityAssumption, Zenon DEF ActivityAssumption
  <2>2. QED
    BY <2>1
<1>4. period.from <= period.from
  BY <1>3
<1>5. QED
  BY <1>1, <1>2, <1>3, <1>4, StoredNew, Zenon

LEMMA StoredIncremental ==
  ASSUME SyncsOK, StoredOK, BeginIncremental
  PROVE  StoredOK'
<1> DEFINE base == syncs[Max(Usable)]
           start == Max({base.from, base.to - Overlap})
<1>1. PICK now \in {p.to : p \in Periods} : NewSync(base.from, start, now, base.kinds)
  BY Zenon DEF BeginIncremental
<1>2. environment' = environment /\ Usable # {}
  BY Zenon DEF BeginIncremental
<1>3. base \in SyncRow
  BY <1>2, UsableFacts, Zenon
<1> HIDE DEF base
<1>4. base.from \in Nat /\ base.to \in Nat /\ base.kinds \in SUBSET Kinds
  BY <1>3 DEF SyncRow
<1>5. now \in Nat
  <2>1. \A p \in Periods : p \in [from : Nat, to : Nat]
    BY ActivityAssumption, Zenon DEF ActivityAssumption
  <2>2. QED
    BY <2>1
<1>6. Overlap \in Nat
  BY ActivityAssumption, Zenon DEF ActivityAssumption
<1>7. base.to - Overlap \in Int /\ base.from \in Int
  BY <1>4, <1>6
<1>8. start = IF base.from >= base.to - Overlap THEN base.from ELSE base.to - Overlap
  BY <1>7, MaxMinOfTwo
<1>9. start \in Nat /\ base.from <= start
  BY <1>4, <1>6, <1>8
<1> HIDE DEF start
<1>10. QED
  BY <1>1, <1>2, <1>4, <1>5, <1>9, StoredNew, Zenon

LEMMA StoredStep ==
  ASSUME SyncsOK, StoredOK, ActivityNext
  PROVE  StoredOK'
<1>1. CASE BeginBounded
  BY <1>1, StoredBounded
<1>2. CASE BeginIncremental
  BY <1>2, StoredIncremental
<1>3. CASE PublishSync
  BY <1>3, StoredPublish
<1>4. CASE FailSync
  BY <1>4, StoredFail
<1>5. CASE ArchiveCase \/ RestoreCase \/ Restart \/ FirstPage \/ NextPage \/ StartOver
  <2>1. environment' = environment /\ syncs' = syncs
    BY <1>5, Zenon DEF ArchiveCase, RestoreCase, Restart, FirstPage, NextPage, StartOver
  <2>2. QED
    BY <2>1, StoredSame
<1>6. QED
  BY <1>1, <1>2, <1>3, <1>4, <1>5, Zenon DEF ActivityNext, SyncSteps, ReaderSteps

LEMMA MatchesAlike ==
  ASSUME NEW q, NEW i, NEW j, i.kind = j.kind, i.time = j.time, i.value = j.value, i.origin = j.origin, Matches(i, q)
  PROVE  Matches(j, q)
BY Zenon DEF Matches

LEMMA Alone ==
  ASSUME NEW r \in Rows
  PROVE  Winner({r}) = r
<1>1. IsFiniteSet({r}) /\ {r} \in SUBSET Rows /\ {r} # {}
  BY FS_Singleton, Zenon
<1>2. Winner({r}) \in {r}
  BY <1>1, WinnerFirst, Zenon
<1>3. QED
  BY <1>2

(* The gaps that declare an omission.                                       *)
LEMMA Declared ==
  ASSUME NEW s, NEW q, NEW built
  PROVE  /\ MatchingConflicts(built, q) # {} => "identity_semantic_conflict" \in Gaps(s, built, q)
         /\ Mismatched(built, q) # {} => "source_scope_mismatch" \in Gaps(s, built, q)
         /\ Invalid(built, q) # {} => "source_provenance_mismatch" \in Gaps(s, built, q)
BY Zenon DEF Gaps

(* A row that is admitted is part of an item or of a declared conflict.     *)
LEMMA ShownOrInConflict ==
  ASSUME SyncsOK, NEW s, NEW q, NEW r \in Admissible(s, q), Matches(Item({r}), q)
  PROVE  \/ \E i \in Items(s, q) : i.id = PublicId(r) /\ i.value = Semantic(r).value
         \/ "identity_semantic_conflict" \in Gaps(s, Built(s, q), q)
<1> DEFINE A == Admissible(s, q)
<1>1. A \in SUBSET Rows /\ IsFiniteSet(A)
  BY AdmissibleFacts, Zenon
<1>1a. /\ \A g \in Groups0(s, q) : g \in SUBSET A /\ Winner(g) \in g
       /\ \A g \in Groups0(s, q) : \A t \in A, u \in g : PublicId(t) = PublicId(u) <=> t \in g
       /\ \A t \in A : \E g \in Groups0(s, q) : t \in g
  BY <1>1, GroupFacts, Zenon DEF Groups0
<1>2. r \in Rows
  BY <1>1, Zenon
<1>3. PICK g \in Groups0(s, q) : r \in g
  BY <1>1a, Zenon
<1>4. g \in SUBSET A /\ Winner(g) \in g /\ PublicId(r) = PublicId(Winner(g))
  BY <1>1a, <1>3, Zenon
<1>5. Winner({r}) = r
  BY <1>2, Alone
<1>6. CASE Agrees(g)
  <2>1. Semantic(r) = Semantic(Winner(g))
    BY <1>3, <1>4, <1>6, Zenon DEF Agrees
  <2>1a. /\ Item(g).id = PublicId(r) /\ Item(g).kind = Semantic(r).kind /\ Item(g).time = Semantic(r).time
         /\ Item(g).value = Semantic(r).value /\ Item(g).origin = Origin
    BY <1>4, <2>1, ItemFields
  <2>1b. /\ Item({r}).kind = Semantic(r).kind /\ Item({r}).time = Semantic(r).time
         /\ Item({r}).value = Semantic(r).value /\ Item({r}).origin = Origin
    BY <1>5, ItemFields
  <2>2. /\ Item(g).kind = Item({r}).kind /\ Item(g).time = Item({r}).time /\ Item(g).value = Item({r}).value
        /\ Item(g).origin = Item({r}).origin /\ Item(g).id = PublicId(r) /\ Item(g).value = Semantic(r).value
    BY <2>1a, <2>1b, Zenon
  <2>3. Matches(Item(g), q)
    BY <2>2, MatchesAlike, Zenon
  <2>4. Item(g) \in Built(s, q).items
    <3>1. Built(s, q).items = {Item(h) : h \in {h \in Groups0(s, q) : Agrees(h)}}
      BY BuiltFields, Zenon
    <3>2. QED
      BY <1>3, <1>6, <3>1, Zenon
  <2>5. Item(g) \in Items(s, q)
    BY <2>3, <2>4, Zenon DEF Items
  <2>6. QED
    BY <2>2, <2>5, Zenon
<1>7. CASE ~ Agrees(g)
  <2> DEFINE c == {Item({t}) : t \in g}
  <2>1. c \in Built(s, q).conflicts
    <3>1. Built(s, q).conflicts = {{Item({t}) : t \in h} : h \in {h \in Groups0(s, q) : ~ Agrees(h)}}
      BY BuiltFields, Zenon
    <3>2. QED
      BY <1>3, <1>7, <3>1, Zenon
  <2>2. Item({r}) \in c
    BY <1>3, Zenon
  <2> HIDE DEF c
  <2>3. c \in MatchingConflicts(Built(s, q), q)
    BY <2>1, <2>2, Zenon DEF MatchingConflicts
  <2>4. MatchingConflicts(Built(s, q), q) # {}
    BY <2>3, Zenon
  <2>5. QED
    BY <2>4, Declared, Zenon
<1>8. QED
  BY <1>6, <1>7

LEMMA MayMatchOf ==
  ASSUME NEW q, NEW r \in Rows, Matches(Item({r}), q)
  PROVE  MayMatch(Observable[r[2]].kind, q)
<1>1. Winner({r}) = r
  BY Alone
<1>2. Item({r}).kind = Semantic(r).kind /\ Item({r}).origin = Origin
  BY <1>1, ItemFields, Zenon
<1>3. Semantic(r).kind = Observable[r[2]].kind
  BY DEF Semantic
<1>4. Observable[r[2]].kind \in Kinds
  BY RowTypes DEF ActivityRow
<1>5. PICK i : i = Item({r})
  BY Zenon
<1>6. i.kind = Observable[r[2]].kind /\ i.origin = Origin /\ Matches(i, q)
  BY <1>2, <1>3, <1>5, Zenon
<1>7. AcceptsOrigin(q)
  BY <1>6, Zenon DEF Matches, AcceptsOrigin
<1>8. Observable[r[2]].kind \in PossibleKinds(q)
  BY <1>4, <1>6 DEF Matches, PossibleKinds
<1>9. QED
  BY <1>7, <1>8, Zenon DEF MayMatch

(* A stored row that a query asks for is shown or declared omitted.         *)
LEMMA RowIsDeclared ==
  ASSUME SyncsOK, StoredOK, environment = "live", NEW s, NEW q, NEW n \in Usable, n <= s, NEW i \in syncs[n].rows,
         Matches(Item({<<n, i>>}), q), Within(Observable[i].time, Requested(n)),
         Within(Observable[i].time, EffectivePeriod(s, q)), EffectivePeriod(s, q) \in [from : Int, to : Int]
  PROVE  \/ \E x \in Items(s, q) : x.id = PublicId(<<n, i>>) /\ x.value = Semantic(<<n, i>>).value
         \/ ~ RunMatchesCase(n) /\ "source_scope_mismatch" \in Gaps(s, Built(s, q), q)
         \/ ~ Observable[i].sound /\ "source_provenance_mismatch" \in Gaps(s, Built(s, q), q)
         \/ "identity_semantic_conflict" \in Gaps(s, Built(s, q), q)
<1> DEFINE r == <<n, i>>
           period == EffectivePeriod(s, q)
           S == SourceSyncs(s, period)
<1>1. n \in 1..Len(syncs) /\ syncs[n] \in SyncRow /\ Len(syncs) \in Nat
  BY UsableFacts, Zenon
<1>2. /\ i \in 1..Len(Observable) /\ Observable[i].kind \in syncs[n].kinds
      /\ Observable[i].time = NoTime \/ ~ Observable[i].sound \/ Within(Observable[i].time, Acquired(n))
  <2>1. environment # "demo"
    OBVIOUS
  <2>2. QED
    BY <1>1, <2>1, Zenon DEF StoredOK, StoredWell, Acquirable, Acquired
<1>3. r \in Rows /\ r[1] = n /\ r[2] = i
  BY <1>1, <1>2 DEF Rows
<1>4. Observable[i] \in ActivityRow
  BY <1>3, RowTypes, Zenon
<1>5. n \in S
  <2>1. syncs[n].from \in Nat /\ syncs[n].to \in Nat /\ Observable[i].time \in Int
    BY <1>1, <1>4 DEF SyncRow, ActivityRow, NoTime
  <2>2. PICK p : p = period
    BY Zenon
  <2>3. p.from <= Observable[i].time /\ Observable[i].time < p.to /\ syncs[n].from <= Observable[i].time /\ Observable[i].time < syncs[n].to
    BY <2>2 DEF Within, Requested
  <2>3a. p.from \in Int /\ p.to \in Int
    BY <2>2
  <2>4. syncs[n].from < p.to /\ syncs[n].to > p.from
    BY <2>1, <2>3, <2>3a
  <2>5. QED
    BY <2>2, <2>4, Zenon DEF SourceSyncs
<1>6. r \in LoadedRows(s, q)
  BY <1>2, <1>3, <1>5, Zenon DEF LoadedRows
<1>7. MayMatch(Observable[i].kind, q)
  BY <1>3, MayMatchOf, Zenon
<1> HIDE DEF period
<1>8. CASE ~ RunMatchesCase(n)
  <2>1. Observable[i].kind \in Built(s, q).mismatched
    <3>1. syncs[n].kinds \in {syncs[m].kinds : m \in {m \in S : ~ RunMatchesCase(m)}}
      BY <1>5, <1>8, Zenon
    <3>2. Observable[i].kind \in UNION {syncs[m].kinds : m \in {m \in S : ~ RunMatchesCase(m)}}
      BY <1>2, <3>1, Zenon
    <3>2a. Built(s, q).mismatched = 
             UNION {syncs[m].kinds : m \in {m \in S : ~ RunMatchesCase(m)}}
             \cup {Observable[t[2]].kind : t \in {t \in LoadedRows(s, q) : RunMatchesCase(t[1]) /\ ~ RequestedKind(t)}}
      BY BuiltFields, Zenon DEF period
    <3>3. QED
      BY <3>2, <3>2a, Zenon
  <2>2. Mismatched(Built(s, q), q) # {}
    BY <1>7, <2>1, Zenon DEF Mismatched
  <2>3. QED
    BY <1>8, <2>2, Declared, Zenon
<1>9. CASE RunMatchesCase(n) /\ ~ Admitted(r)
  <2>1. RunMatchesCase(r[1]) /\ RequestedKind(r)
    BY <1>2, <1>3, <1>9, Zenon DEF RequestedKind
  <2>2. ~ Observable[i].sound
    <3>1. Observable[i].sound => InSourcePeriod(r)
      BY <1>2, <1>3, Zenon DEF InSourcePeriod
    <3>2. QED
      BY <1>3, <1>9, <2>1, <3>1, Zenon DEF Admitted, Revalidates
  <2>3. Observable[i].kind \in Built(s, q).invalid
    <3>1. Observable[r[2]].kind \in
            {Observable[t[2]].kind : t \in {t \in LoadedRows(s, q) : RunMatchesCase(t[1]) /\ RequestedKind(t) /\ ~ Admitted(t)}}
      BY <1>6, <1>9, <2>1, Zenon
    <3>2. Built(s, q).invalid =
            {Observable[t[2]].kind : t \in {t \in LoadedRows(s, q) : RunMatchesCase(t[1]) /\ RequestedKind(t) /\ ~ Admitted(t)}}
      BY BuiltFields, Zenon
    <3>3. QED
      BY <1>3, <3>1, <3>2, Zenon
  <2>4. Invalid(Built(s, q), q) # {}
    BY <1>7, <2>3, Zenon DEF Invalid
  <2>5. QED
    BY <2>2, <2>4, Declared, Zenon
<1>10. CASE Admitted(r)
  <2>1. r \in Admissible(s, q)
    BY <1>6, <1>10, Zenon DEF Admissible
  <2>2. QED
    BY <2>1, ShownOrInConflict, Zenon
<1>11. QED
  BY <1>8, <1>9, <1>10, Zenon

LEMMA ShownInView ==
  ASSUME SyncsOK, NEW s, NEW q, q.oldest \in BOOLEAN, NEW x \in Items(s, q)
  PROVE  \E j \in 1..Len(View(s, q).ordered) : View(s, q).ordered[j] = x
BY ViewFacts

LEMMA OmissionsDeclared ==
  ASSUME SyncsOK, StoredOK, environment = "live", NEW s \in Usable, NEW q \in Queries
  PROVE  OmissionsAreDeclared(s, q)
<1> DEFINE V == View(s, q)
           shows(r) == \E i \in 1..Len(V.ordered) :
                         V.ordered[i].id = PublicId(r) /\ V.ordered[i].value = Semantic(r).value
<1>0. q.oldest \in BOOLEAN /\ q.period \in [from : Int, to : Int]
  BY ActivityAssumption, Zenon DEF ActivityAssumption
<1>0a. EffectivePeriod(s, q) \in [from : Int, to : Int]
  <2>1. syncs[s] \in SyncRow
    BY UsableFacts, Zenon
  <2>2. Requested(s) \in [from : Int, to : Int]
    BY <2>1 DEF Requested, SyncRow
  <2>3. QED
    BY <1>0, <2>2, Zenon DEF EffectivePeriod
<1>1. V.gaps = Gaps(s, Built(s, q), q)
  BY <1>0, ViewFacts
<1>2. ASSUME NEW n \in Usable, n <= s, NEW i \in syncs[n].rows, Matches(Item({<<n, i>>}), q),
             Within(Observable[i].time, Requested(n)), Within(Observable[i].time, EffectivePeriod(s, q))
      PROVE  \/ shows(<<n, i>>)
             \/ ~ RunMatchesCase(n) /\ "source_scope_mismatch" \in V.gaps
             \/ ~ Observable[i].sound /\ "source_provenance_mismatch" \in V.gaps
             \/ "identity_semantic_conflict" \in V.gaps
  <2>1. PICK r : r = <<n, i>>
    BY Zenon
  <2>2. \/ \E x \in Items(s, q) : x.id = PublicId(<<n, i>>) /\ x.value = Semantic(<<n, i>>).value
        \/ ~ RunMatchesCase(n) /\ "source_scope_mismatch" \in V.gaps
        \/ ~ Observable[i].sound /\ "source_provenance_mismatch" \in V.gaps
        \/ "identity_semantic_conflict" \in V.gaps
    BY <1>0a, <1>1, <1>2, RowIsDeclared
  <2>3. ASSUME NEW x \in Items(s, q), x.id = PublicId(r), x.value = Semantic(r).value
        PROVE  shows(r)
    <3>1. \E j \in 1..Len(V.ordered) : V.ordered[j] = x
      BY <1>0, ShownInView
    <3>2. QED
      BY <2>3, <3>1, Zenon
  <2>4. QED
    BY <2>1, <2>2, <2>3, Zenon
<1> HIDE DEF V
<1>3. QED
  BY <1>2, Zenon DEF OmissionsAreDeclared, V

(* A newer snapshot that covers the time of an older item keeps it.         *)
LEMMA ItemIsKept ==
  ASSUME SyncsOK, StoredOK, environment = "live", NEW m \in Usable, NEW n \in Usable, m < n,
         NEW x \in Items(m, NoFilter), Within(x.time, Requested(n))
  PROVE  \/ \E y \in Items(n, NoFilter) : y.id = x.id
         \/ "identity_semantic_conflict" \in Gaps(n, Built(n, NoFilter), NoFilter)
<1> DEFINE A == Admissible(m, NoFilter)
<1>1. A \in SUBSET Rows /\ IsFiniteSet(A)
  BY AdmissibleFacts, Zenon
<1>1a. /\ \A g \in Groups0(m, NoFilter) : g \in SUBSET A /\ Winner(g) \in g
  BY <1>1, GroupFacts, Zenon DEF Groups0
<1>2. PICK g \in Groups0(m, NoFilter) : x = Item(g)
  <2>1. Built(m, NoFilter).items = {Item(g) : g \in {g \in Groups0(m, NoFilter) : Agrees(g)}}
    BY BuiltFields, Zenon
  <2>2. QED
    BY <2>1, Zenon DEF Items
<1>3. PICK r : r = Winner(g)
  BY Zenon
<1>4. r \in A /\ r \in Rows
  <2>1. g \in SUBSET A /\ Winner(g) \in g
    BY <1>1a, <1>2, Zenon
  <2>2. QED
    BY <1>1, <1>3, <2>1, Zenon
<1>5. x.id = PublicId(r) /\ x.time = Observable[r[2]].time
  <2>1. Semantic(r).time = Observable[r[2]].time
    BY DEF Semantic
  <2>2. QED
    BY <1>2, <1>3, <2>1, ItemFields, Zenon
<1>6. r \in LoadedRows(m, NoFilter) /\ Admitted(r)
  BY <1>4, Zenon DEF Admissible
<1>7. PICK k, i : k = r[1] /\ i = r[2]
  BY Zenon
<1>8. /\ k \in Usable /\ k <= m /\ i \in syncs[k].rows /\ r = <<k, i>> /\ i \in 1..Len(Observable)
  <2>1. r[1] \in SourceSyncs(m, EffectivePeriod(m, NoFilter)) /\ r[2] \in 1..Len(Observable) /\ r[2] \in syncs[r[1]].rows
    BY <1>6 DEF LoadedRows
  <2>2. r[1] \in Usable /\ r[1] <= m
    BY <2>1, Zenon DEF SourceSyncs
  <2>3. r = <<r[1], r[2]>>
    BY <1>4, RowTypes, Zenon
  <2>4. QED
    BY <1>7, <2>1, <2>2, <2>3, Zenon
<1>9. PICK time : time = Observable[i].time
  BY Zenon
<1>10. /\ k \in 1..Len(syncs) /\ m \in 1..Len(syncs) /\ n \in 1..Len(syncs) /\ Len(syncs) \in Nat
       /\ syncs[k] \in SyncRow /\ syncs[n] \in SyncRow /\ Observable[i] \in ActivityRow
  <2>1. Observable[i] \in ActivityRow
    BY <1>4, <1>7, RowTypes, Zenon
  <2>2. QED
    BY <1>8, <2>1, UsableFacts, Zenon
<1>11. time \in Int /\ time # NoTime /\ syncs[n].from <= time /\ time < syncs[n].to
  <2>1. Within(time, Requested(n))
    BY <1>5, <1>7, <1>9, Zenon
  <2>2. syncs[n].from <= time /\ time < syncs[n].to
    BY <2>1 DEF Within, Requested
  <2>3. syncs[n].from \in Nat /\ time \in Nat \cup {NoTime}
    BY <1>9, <1>10 DEF SyncRow, ActivityRow
  <2>4. QED
    BY <2>2, <2>3 DEF NoTime
<1>12. syncs[k].start <= time /\ time < syncs[k].to
  <2>1. InSourcePeriod(r)
    BY <1>6, Zenon DEF Admitted
  <2>2. environment # "demo"
    OBVIOUS
  <2>3. Within(time, Acquired(k))
    BY <1>7, <1>9, <1>11, <2>1, <2>2, Zenon DEF InSourcePeriod
  <2>4. QED
    BY <2>3 DEF Within, Acquired
<1>13. syncs[k].from <= syncs[k].start
  BY <1>10, Zenon DEF StoredOK, StoredWell, Acquirable
<1>14. PICK period : period = EffectivePeriod(n, NoFilter)
  BY Zenon
<1>15. period = Requested(n)
  <2>1. NoFilter.period = Always
    BY DEF NoFilter
  <2>2. QED
    BY <1>14, <2>1, Zenon DEF EffectivePeriod
<1>16. period.from = syncs[n].from /\ period.to = syncs[n].to
  BY <1>15 DEF Requested
<1>17. k \in SourceSyncs(n, period)
  <2>1. k <= n
    BY <1>8, <1>10
  <2>2. syncs[k].from < period.to /\ syncs[k].to > period.from
    <3>1. syncs[k].from \in Nat /\ syncs[k].start \in Nat /\ syncs[k].to \in Nat /\ syncs[n].from \in Nat /\ syncs[n].to \in Nat
      BY <1>10 DEF SyncRow
    <3>2. QED
      BY <1>11, <1>12, <1>13, <1>16, <3>1
  <2>3. QED
    BY <1>8, <2>1, <2>2, Zenon DEF SourceSyncs
<1>18. Within(time, period)
  BY <1>11, <1>16, Zenon DEF Within
<1>19. r \in LoadedRows(n, NoFilter)
  BY <1>7, <1>8, <1>9, <1>14, <1>17, <1>18, Zenon DEF LoadedRows
<1>20. r \in Admissible(n, NoFilter)
  BY <1>6, <1>19, Zenon DEF Admissible
<1>21. Matches(Item({r}), NoFilter)
  BY MatchesNoFilter, Zenon
<1>22. QED
  BY <1>5, <1>20, <1>21, ShownOrInConflict, Zenon

LEMMA ActivityKept ==
  ASSUME SyncsOK, StoredOK, environment = "live", NEW m \in Usable, NEW n \in Usable, m < n
  PROVE  ActivityIsKept(m, n)
<1> DEFINE old == View(m, NoFilter)
           new == View(n, NoFilter)
<1>1. NoFilter.oldest \in BOOLEAN
  BY DEF NoFilter
<1>2. new.gaps = Gaps(n, Built(n, NoFilter), NoFilter)
  BY <1>1, ViewFacts
<1>3. ASSUME NEW i \in 1..Len(old.ordered), Within(old.ordered[i].time, Requested(n))
      PROVE  \/ \E j \in 1..Len(new.ordered) : new.ordered[j].id = old.ordered[i].id
             \/ "identity_semantic_conflict" \in new.gaps
  <2>1. PICK x : x = old.ordered[i]
    BY Zenon
  <2>2. x \in Items(m, NoFilter)
    <3>1. old.ordered \in Seq(Items(m, NoFilter))
      BY <1>1, ViewFacts
    <3> HIDE DEF old
    <3>2. QED
      BY <2>1, <3>1
  <2>3. \/ \E y \in Items(n, NoFilter) : y.id = x.id
        \/ "identity_semantic_conflict" \in new.gaps
    BY <1>2, <1>3, <2>1, <2>2, ItemIsKept, Zenon
  <2>4. ASSUME NEW y \in Items(n, NoFilter), y.id = x.id
        PROVE  \E j \in 1..Len(new.ordered) : new.ordered[j].id = old.ordered[i].id
    <3>1. \E j \in 1..Len(new.ordered) : new.ordered[j] = y
      BY <1>1, ShownInView
    <3>2. QED
      BY <2>1, <2>4, <3>1, Zenon
  <2>5. QED
    BY <2>3, <2>4, Zenon
<1> HIDE DEF old, new
<1>4. QED
  BY <1>3, Zenon DEF ActivityIsKept, old, new

LEMMA ActivityNotLost ==
  ASSUME SyncsOK, StoredOK
  PROVE  ActivityIsNotLost
<1>1. ASSUME environment = "live", NEW s \in Usable, NEW q \in Queries
      PROVE  OmissionsAreDeclared(s, q)
  BY <1>1, OmissionsDeclared
<1>2. ASSUME environment = "live", NEW m \in Usable, NEW n \in Usable, m < n
      PROVE  ActivityIsKept(m, n)
  BY <1>2, ActivityKept
<1>3. QED
  BY <1>1, <1>2, Zenon DEF ActivityIsNotLost

KeptOK == ReadsOK /\ StoredOK

LEMMA KeptStep ==
  ASSUME SyncsOK, StoredOK, [ReadsNext]_vars
  PROVE  StoredOK'
<1>1. ActivityNext \/ (environment' = environment /\ syncs' = syncs)
  <2>1. CASE CaseMoves \/ PagesTurn
    BY <2>1, Zenon DEF CaseMoves, PagesTurn, ActivityNext
  <2>2. CASE RequestVerification \/ AdvanceAttempt \/ CatalogSteps \/ DeleteCase \/ UNCHANGED vars
    BY <2>2, Zenon DEF RequestVerification, RequestVerificationAt, AdvanceAttempt, CatalogSteps, OpenHistory, TurnPage,
         CloseHistory, RestartProcess, DeleteCase, vars, activityVars
  <2>3. CASE \E p \in Readers : ReadActivity(p) \/ ReportSteps(p)
    BY <2>3, Zenon DEF ReadActivity, ReadActivityAt, ReportSteps, ReadAttempts, CountAttempts, ReturnReport,
         LookForRevision, InsertRevision, activityVars
  <2>4. QED
    BY <2>1, <2>2, <2>3, Zenon DEF ReadsNext, ReportNext
<1>2. QED
  BY <1>1, StoredStep, StoredSame, Zenon

(* Whatever the rows of a provider, the queries, the limits and the faults  *)
(* of what syncs store: every stored row that a query asks for is shown by  *)
(* its answer or declared omitted by one of its gaps, and a newer snapshot  *)
(* shows or declares in conflict what an older one showed: _build_activity, *)
(* _matching_conflict_count, _gaps.                                         *)
THEOREM NothingIsEverLost == ReadsSpec => []NothingIsLost
<1>1. ReadsInit => KeptOK
  <2>1. SUFFICES ASSUME ReadsInit PROVE KeptOK
    OBVIOUS
  <2>2. StoredOK
    BY <2>1, HistoriesAreOK, Zenon DEF ReadsInit, StoredOK, StoredWell
  <2>3. QED
    BY <2>1, <2>2, ReadsStart, Zenon DEF KeptOK
<1>2. KeptOK /\ [ReadsNext]_vars => KeptOK'
  BY ReadsStep, KeptStep, Zenon DEF KeptOK, ReadsOK
<1>3. KeptOK => NothingIsLost
  BY ActivityNotLost, Zenon DEF KeptOK, ReadsOK, NothingIsLost
<1>4. QED
  BY <1>1, <1>2, <1>3, PTL DEF ReadsSpec

-----------------------------------------------------------------------------
(* What a report claims: every activity counts with its strongest attempt.  *)

LEMMA StrongerOrders ==
  ASSUME NEW rows \in SUBSET ListedRow, UniqueIds(rows)
  PROVE  /\ StrictTotalOrder(rows, {p \in rows \X rows : Stronger(p[2], p[1])})
         /\ \A x, y \in rows : <<x, y>> \in {p \in rows \X rows : Stronger(p[2], p[1])} <=> Stronger(y, x)
<1> DEFINE R == {p \in rows \X rows : Stronger(p[2], p[1])}
<1>1. \A x, y \in rows : <<x, y>> \in R <=> Stronger(y, x)
  OBVIOUS
<1>2. \A x \in rows : x.progress \in Int /\ x.version \in Int /\ x.id \in Int
  BY DEF ListedRow, Stages
<1> HIDE DEF R
<1>3. \A x \in rows : <<x, x>> \notin R
  BY <1>1, <1>2 DEF Stronger
<1>4. \A x, y \in rows : x # y => <<x, y>> \in R \/ <<y, x>> \in R
  <2>1. SUFFICES ASSUME NEW x \in rows, NEW y \in rows, x # y PROVE <<x, y>> \in R \/ <<y, x>> \in R
    BY Zenon
  <2>2. x.id # y.id
    BY <2>1, Zenon DEF UniqueIds
  <2>3. QED
    BY <1>1, <1>2, <2>2 DEF Stronger
<1>5. \A x, y, z \in rows : <<x, y>> \in R /\ <<y, z>> \in R => <<x, z>> \in R
  BY <1>1, <1>2 DEF Stronger
<1>6. StrictTotalOrder(rows, R)
  BY <1>3, <1>4, <1>5, Zenon DEF StrictTotalOrder
<1>7. QED
  BY <1>1, <1>6, Zenon DEF R

LEMMA StrongestOf ==
  ASSUME NEW rows \in SUBSET ListedRow, IsFiniteSet(rows), UniqueIds(rows), NEW a \in rows
  PROVE  \E b \in StrongestAttempts(rows) : b.activity = a.activity /\ b.progress >= a.progress
<1> DEFINE S == {b \in rows : b.activity = a.activity}
           R == {p \in S \X S : Stronger(p[2], p[1])}
<1>1. S \in SUBSET ListedRow /\ S \in SUBSET rows /\ a \in S
  BY Zenon
<1>2. IsFiniteSet(S) /\ UniqueIds(S) /\ S # {}
  BY <1>1, FS_Subset, Zenon DEF UniqueIds
<1>2a. \A b \in S : b \in rows /\ b.activity = a.activity
  BY Zenon
<1>2b. \A b \in rows : b.activity = a.activity => b \in S
  BY Zenon
<1> HIDE DEF S
<1>3. StrictTotalOrder(S, R) /\ \A x, y \in S : <<x, y>> \in R <=> Stronger(y, x)
  BY <1>1, <1>2, StrongerOrders
<1> HIDE DEF R
<1>4. PICK b \in S : \A y \in S : y # b => <<y, b>> \in R
  BY <1>2, <1>3, Highest, Zenon
<1>5. \A y \in S : y # b => Stronger(b, y)
  BY <1>3, <1>4, Zenon
<1>6. b \in StrongestAttempts(rows)
  BY <1>2a, <1>2b, <1>5, Zenon DEF StrongestAttempts
<1>7. b.progress >= a.progress
  <2>1. b.progress \in Int /\ a.progress \in Int
    BY <1>1 DEF ListedRow, Stages
  <2>2. a = b \/ Stronger(b, a)
    BY <1>1, <1>5, Zenon
  <2>3. QED
    BY <2>1, <2>2 DEF Stronger
<1>8. QED
  BY <1>2a, <1>6, <1>7, Zenon

LEMMA StrongestOnce ==
  ASSUME NEW rows \in SUBSET ListedRow, UniqueIds(rows), NEW a \in StrongestAttempts(rows),
         NEW b \in StrongestAttempts(rows), a.activity = b.activity
  PROVE  a = b
<1>1. a \in rows /\ b \in rows
  BY Zenon DEF StrongestAttempts
<1>2. SUFFICES ASSUME a # b PROVE FALSE
  BY Zenon
<1>3. Stronger(a, b) /\ Stronger(b, a)
  BY <1>1, <1>2, Zenon DEF StrongestAttempts
<1>4. a.progress \in Int /\ a.version \in Int /\ a.id \in Int /\ b.progress \in Int /\ b.version \in Int /\ b.id \in Int
  BY <1>1 DEF ListedRow, Stages
<1>5. QED
  BY <1>3, <1>4 DEF Stronger

Reached(rows, progress) == {a.activity : a \in {a \in rows : a.progress >= progress}}

LEMMA ProvenIs ==
  ASSUME NEW rows \in SUBSET ListedRow, IsFiniteSet(rows), UniqueIds(rows), NEW p \in Nat
  PROVE  Proven(rows, p) = Cardinality(Reached(rows, p)) /\ IsFiniteSet(Reached(rows, p))
<1> DEFINE T == {a \in StrongestAttempts(rows) : a.progress >= p}
           f == [a \in T |-> a.activity]
<1>1. IsFiniteSet(T)
  BY SubsetsKeep, Zenon
<1>2. DOMAIN f = T /\ \A a \in T : f[a] = a.activity
  BY Zenon
<1>3. \A a, b \in T : f[a] = f[b] => a = b
  BY <1>2, StrongestOnce, Zenon
<1>4. {f[a] : a \in T} = Reached(rows, p)
  <2>1. ASSUME NEW a \in T PROVE f[a] \in Reached(rows, p)
    BY <1>2, Zenon DEF Reached, StrongestAttempts
  <2>2. ASSUME NEW x \in Reached(rows, p) PROVE \E a \in T : x = f[a]
    <3>1. PICK a \in rows : a.progress >= p /\ x = a.activity
      BY Zenon DEF Reached
    <3>2. PICK b \in StrongestAttempts(rows) : b.activity = a.activity /\ b.progress >= a.progress
      BY <3>1, StrongestOf, Zenon
    <3>3. b \in rows
      BY <3>2, Zenon DEF StrongestAttempts
    <3>4. a.progress \in Int /\ b.progress \in Int
      BY <3>3 DEF ListedRow, Stages
    <3>5. b.progress >= p
      BY <3>1, <3>2, <3>4
    <3>6. b \in T
      BY <3>5, Zenon
    <3>7. QED
      BY <1>2, <3>1, <3>2, <3>6, Zenon
  <2> HIDE DEF T, f
  <2>3. QED
    BY <2>1, <2>2
<1> HIDE DEF T, f
<1>5. PICK I : I = {f[a] : a \in T}
  BY Zenon
<1>6. Cardinality(I) = Cardinality(T)
  BY <1>1, <1>2, <1>3, <1>5, ImageOfInjective
<1>7. IsFiniteSet(I)
  BY <1>1, <1>2, <1>5, ImageOf, Zenon
<1>8. QED
  BY <1>4, <1>5, <1>6, <1>7, Zenon DEF Proven, T

LEMMA ReachedShown ==
  ASSUME NEW rows, NEW p
  PROVE  {a.activity : a \in {a \in {Showing(b) : b \in rows} : a.progress >= p}} = Reached(rows, p)
<1> DEFINE P == {Showing(b) : b \in rows}
<1>1. ASSUME NEW a \in P, a.progress >= p PROVE a.activity \in Reached(rows, p)
  <2>1. PICK b \in rows : a = Showing(b)
    BY Zenon
  <2>2. b.progress >= p /\ a.activity = b.activity
    BY <1>1, <2>1, ShowingFields, Zenon
  <2>3. QED
    BY <2>2, Zenon DEF Reached
<1>2. ASSUME NEW b \in rows, b.progress >= p PROVE \E a \in P : a.progress >= p /\ a.activity = b.activity
  <2>1. Showing(b) \in P /\ Showing(b).progress = b.progress /\ Showing(b).activity = b.activity
    BY ShowingFields, Zenon
  <2> HIDE DEF P
  <2>2. QED
    BY <1>2, <2>1, Zenon
<1> HIDE DEF P
<1>3. QED
  BY <1>1, <1>2, Zenon DEF Reached, P

LEMMA GatesOpen ==
  ASSUME NEW s, NEW activity, NEW evidence
  PROVE  /\ "every_transaction_must_be_chain_proven" \notin Unmet(s, activity, evidence) =>
              evidence.chain = activity.aggregate.perKind["transaction"]
         /\ "every_transaction_needs_native_ledger" \notin Unmet(s, activity, evidence) =>
              evidence.ledger = activity.aggregate.perKind["transaction"]
BY Zenon DEF Unmet

TransactionItems(s) == {i \in Items(s, NoFilter) : i.kind = "transaction"}

LEMMA TransactionsCounted ==
  ASSUME SyncsOK, NEW s
  PROVE  /\ ActivityPart(View(s, NoFilter)).aggregate.perKind["transaction"] = Cardinality(TransactionItems(s))
         /\ IsFiniteSet(TransactionItems(s))
<1>1. NoFilter.oldest \in BOOLEAN
  BY DEF NoFilter
<1>2. View(s, NoFilter).aggregate = Aggregate(Items(s, NoFilter), Built(s, NoFilter), NoFilter)
  BY <1>1, ViewFacts
<1>3. PICK view : view = View(s, NoFilter)
  BY Zenon
<1>4. ActivityPart(view).aggregate = view.aggregate
  BY DEF ActivityPart
<1>5. PICK I, B : I = Items(s, NoFilter) /\ B = Built(s, NoFilter)
  BY Zenon
<1>6. Aggregate(I, B, NoFilter).perKind["transaction"] = Cardinality({i \in I : i.kind = "transaction"})
  <2>1. Aggregate(I, B, NoFilter).perKind = [k \in Kinds |-> Cardinality({i \in I : i.kind = k})]
    BY DEF Aggregate
  <2>2. "transaction" \in Kinds
    BY DEF Kinds
  <2>3. QED
    BY <2>1, <2>2, Zenon
<1>7. TransactionItems(s) \in SUBSET Items(s, NoFilter)
  BY Zenon DEF TransactionItems
<1>8. IsFiniteSet(TransactionItems(s))
  BY <1>7, ItemFacts, FS_Subset, Zenon
<1>9. QED
  BY <1>2, <1>3, <1>4, <1>5, <1>6, <1>8, Zenon DEF TransactionItems

(* Only a transaction of the snapshot is proven.                            *)
LEMMA ReachedAreTransactions ==
  ASSUME SyncsOK, NEW s, NEW rows \in BoundRows(s), NEW p
  PROVE  Reached(rows, p) \in SUBSET {i.id : i \in TransactionItems(s)}
<1>1. ASSUME NEW a \in rows PROVE \E i \in TransactionItems(s) : a.activity = i.id
  <2>1. Binding(a) \in Verifiable(s)
    BY Zenon DEF BoundRows
  <2>2. Binding(a).id = a.activity
    BY DEF Binding
  <2>3. PICK v \in Verifiable(s) : v = Binding(a)
    BY <2>1, Zenon
  <2>4. PICK i \in Items(s, NoFilter) : i.id = v.id /\ i.kind = "transaction"
    BY VerifiableFacts, Zenon
  <2>5. QED
    BY <2>2, <2>3, <2>4, Zenon DEF TransactionItems
<1>2. QED
  BY <1>1, Zenon DEF Reached

LEMMA ReachedAtMost ==
  ASSUME SyncsOK, NEW s, NEW rows \in BoundRows(s), NEW p
  PROVE  Cardinality(Reached(rows, p)) <= Cardinality(TransactionItems(s))
<1> DEFINE f == [i \in TransactionItems(s) |-> i.id]
<1>1. IsFiniteSet(TransactionItems(s))
  BY TransactionsCounted, Zenon
<1>2. DOMAIN f = TransactionItems(s) /\ {f[i] : i \in TransactionItems(s)} = {i.id : i \in TransactionItems(s)}
  BY Zenon
<1> HIDE DEF f
<1>3. PICK I : I = {i.id : i \in TransactionItems(s)}
  BY Zenon
<1>4. IsFiniteSet(I) /\ Cardinality(I) <= Cardinality(TransactionItems(s))
  BY <1>1, <1>2, <1>3, ImageOf, Zenon
<1>5. Reached(rows, p) \in SUBSET I
  BY <1>3, ReachedAreTransactions, Zenon
<1>6. IsFiniteSet(Reached(rows, p)) /\ Cardinality(Reached(rows, p)) <= Cardinality(I)
  BY <1>4, <1>5, FS_Subset, Zenon
<1>7. Cardinality(Reached(rows, p)) \in Nat /\ Cardinality(I) \in Nat /\ Cardinality(TransactionItems(s)) \in Nat
  BY <1>1, <1>4, <1>6, FS_CardinalityType, Zenon
<1>8. QED
  BY <1>4, <1>6, <1>7

LEMMA StorableClaims ==
  ASSUME SyncsOK, NEW R \in Storable
  PROVE  LET transactions == R.activity.aggregate.perKind["transaction"]
             proven(progress) == {a.activity : a \in {a \in R.evidence.attempts : a.progress >= progress}}
         IN  /\ "every_transaction_must_be_chain_proven" \notin R.unmet => Cardinality(proven(3)) = transactions
             /\ "every_transaction_needs_native_ledger" \notin R.unmet => Cardinality(proven(Stages)) = transactions
             /\ R.evidence.local <= transactions
             /\ R.assurance = "partially_verified" => proven(2) # {}
<1> DEFINE transactions == R.activity.aggregate.perKind["transaction"]
           proven(progress) == {a.activity : a \in {a \in R.evidence.attempts : a.progress >= progress}}
<1>1. PICK s \in Usable : \E rows \in BoundRows(s), total \in Nat : R = ReportOf(s, rows, total)
  BY StorableIs, Zenon
<1>2. PICK rows \in BoundRows(s), total \in Nat : R = ReportOf(s, rows, total)
  BY <1>1, Zenon
<1>3. PICK activity : activity = ActivityPart(View(s, NoFilter))
  BY Zenon
<1>4. PICK E : E = EvidenceRevision(rows, total)
  BY Zenon
<1>5. /\ R.activity = activity /\ R.evidence = E /\ R.unmet = Unmet(s, activity, E)
      /\ R.assurance = AssuranceLevel(E, Unmet(s, activity, E) = {})
  <2>1. R = Report(s, activity, rows, total)
    BY <1>2, <1>3, Zenon DEF ReportOf
  <2>2. QED
    BY <1>4, <2>1, ReportFields
<1>6. rows \in SUBSET ListedRow /\ IsFiniteSet(rows) /\ UniqueIds(rows)
  BY Zenon DEF BoundRows
<1>7. transactions = Cardinality(TransactionItems(s))
  BY <1>3, <1>5, TransactionsCounted, Zenon
<1>8. /\ E.attempts = {Showing(a) : a \in rows} /\ E.local = Proven(rows, 2) /\ E.chain = Proven(rows, 3)
      /\ E.ledger = Proven(rows, Stages)
  BY <1>4, EvidenceFields
<1>9. ASSUME NEW p \in Nat PROVE proven(p) = Reached(rows, p) /\ Cardinality(proven(p)) = Proven(rows, p)
  <2>1. proven(p) = {a.activity : a \in {a \in {Showing(b) : b \in rows} : a.progress >= p}}
    BY <1>5, <1>8, Zenon
  <2>2. proven(p) = Reached(rows, p)
    BY <2>1, ReachedShown, Zenon
  <2>3. QED
    BY <1>6, <2>2, ProvenIs, Zenon
<1>10. 2 \in Nat /\ 3 \in Nat /\ Stages \in Nat
  BY DEF Stages
<1>11. /\ "every_transaction_must_be_chain_proven" \notin R.unmet => E.chain = transactions
       /\ "every_transaction_needs_native_ledger" \notin R.unmet => E.ledger = transactions
  <2>1. /\ "every_transaction_must_be_chain_proven" \notin Unmet(s, activity, E) =>
              E.chain = activity.aggregate.perKind["transaction"]
        /\ "every_transaction_needs_native_ledger" \notin Unmet(s, activity, E) =>
              E.ledger = activity.aggregate.perKind["transaction"]
    BY GatesOpen
  <2>2. QED
    BY <1>5, <2>1, Zenon
<1>12. R.evidence.local <= transactions
  <2>1. Cardinality(Reached(rows, 2)) <= Cardinality(TransactionItems(s))
    BY ReachedAtMost, Zenon
  <2>2. E.local = Cardinality(Reached(rows, 2))
    BY <1>6, <1>8, <1>10, ProvenIs, Zenon
  <2>3. QED
    BY <1>5, <1>7, <2>1, <2>2, Zenon
<1>13. R.assurance = "partially_verified" => proven(2) # {}
  <2>1. R.assurance = "partially_verified" => E.local > 0
    BY <1>5 DEF AssuranceLevel
  <2>2. E.local = Cardinality(proven(2))
    BY <1>8, <1>9, <1>10, Zenon
  <2>3. proven(2) = {} => Cardinality(proven(2)) = 0
    BY FS_EmptySet, Zenon
  <2> HIDE DEF proven
  <2>4. QED
    BY <2>1, <2>2, <2>3
<1>14. Cardinality(proven(3)) = E.chain /\ Cardinality(proven(Stages)) = E.ledger
  BY <1>8, <1>9, <1>10, Zenon
<1> HIDE DEF proven, transactions
<1>15. /\ "every_transaction_must_be_chain_proven" \notin R.unmet => Cardinality(proven(3)) = transactions
       /\ "every_transaction_needs_native_ledger" \notin R.unmet => Cardinality(proven(Stages)) = transactions
  BY <1>11, <1>14, Zenon
<1>16. QED
  BY <1>12, <1>13, <1>15, Zenon DEF proven, transactions

LEMMA ReportsClaim ==
  ASSUME SyncsOK, ReportsOK
  PROVE  ReportsClaimWhatIsProven
<1>1. ASSUME NEW n \in 1..Len(revisions) PROVE revisions[n] \in Storable
  <2>1. revisions \in Seq(Storable)
    BY Zenon DEF ReportsOK
  <2> HIDE DEF Storable
  <2>2. QED
    BY <2>1
<1>2. QED
  BY <1>1, StorableClaims, Zenon DEF ReportsClaimWhatIsProven

-----------------------------------------------------------------------------
(* The levels of items, and of the finding that shows them.                 *)

ProgressOf(i, rows) == {a.progress : a \in {a \in rows : a.activity = i.id}}
Best(i, rows) == Max(ProgressOf(i, rows) \cup {0})
LevelBy(best) == IF best >= 3 THEN ChainInclusionProven ELSE IF best = 2 THEN LocallyVerified ELSE BaseLevel

LEMMA BestFacts ==
  ASSUME NEW rows \in SUBSET ListedRow, IsFiniteSet(rows), NEW i
  PROVE  /\ Best(i, rows) \in ProgressOf(i, rows) \cup {0} /\ Best(i, rows) \in Nat
         /\ \A a \in rows : a.activity = i.id => a.progress <= Best(i, rows)
<1> DEFINE S == {a \in rows : a.activity = i.id}
           f == [a \in S |-> a.progress]
           P == ProgressOf(i, rows) \cup {0}
<1>1. IsFiniteSet(S)
  BY FS_Subset, Zenon
<1>2. DOMAIN f = S /\ {f[a] : a \in S} = ProgressOf(i, rows)
  BY Zenon DEF ProgressOf
<1>3. ProgressOf(i, rows) \in SUBSET Nat
  BY DEF ProgressOf, ListedRow, Stages
<1> HIDE DEF S, f
<1>4. IsFiniteSet(ProgressOf(i, rows))
  BY <1>1, <1>2, ImageOf, Zenon
<1>5. IsFiniteSet(P)
  BY <1>4, FS_AddElement, Zenon
<1>6. P \in SUBSET Int /\ P # {} /\ P \in SUBSET Nat
  BY <1>3
<1>6a. \A a \in rows : a.activity = i.id => a.progress \in P
  BY Zenon DEF ProgressOf
<1> HIDE DEF P
<1>7. Max(P) \in P /\ \A y \in P : y <= Max(P)
  BY <1>5, <1>6, MaxMin
<1>8. QED
  BY <1>6, <1>6a, <1>7, Zenon DEF Best, P

(* The level of an item is what its strongest attempt has proven.           *)
LEMMA LevelIsBest ==
  ASSUME NEW rows \in SUBSET ListedRow, IsFiniteSet(rows), UniqueIds(rows), NEW i
  PROVE  /\ EvidenceLevel(i, rows) \in 0..3 /\ BaseLevel \in {0, 1}
         /\ EvidenceLevel(i, rows) = LevelBy(Best(i, rows))
<1> DEFINE strongest == {a \in StrongestAttempts(rows) : a.activity = i.id}
<1>1. BaseLevel \in {0, 1}
  BY DEF BaseLevel, Fixture, ProviderObservation
<1>2. EvidenceLevel(i, rows) = IF \E a \in strongest : a.progress >= 3 THEN 3
                               ELSE IF \E a \in strongest : a.progress = 2 THEN 2 ELSE BaseLevel
  BY Zenon DEF EvidenceLevel, ChainInclusionProven, LocallyVerified
<1>3. ASSUME NEW a \in strongest PROVE a \in rows /\ a.activity = i.id
  BY Zenon DEF StrongestAttempts
<1>4. ASSUME NEW a \in rows, a.activity = i.id PROVE \E b \in strongest : b.progress >= a.progress
  <2>1. PICK b \in StrongestAttempts(rows) : b.activity = a.activity /\ b.progress >= a.progress
    BY StrongestOf, Zenon
  <2>2. QED
    BY <1>4, <2>1, Zenon
<1> HIDE DEF strongest
<1>5. \A a \in strongest : a.progress \in 0..4 /\ a.progress <= Best(i, rows)
  <2>1. \A a \in strongest : a.progress \in 0..4
    BY <1>3 DEF ListedRow, Stages
  <2>2. QED
    BY <1>3, <2>1, BestFacts, Zenon
<1>6. Best(i, rows) = 0 \/ \E b \in strongest : b.progress >= Best(i, rows)
  <2>1. Best(i, rows) \in ProgressOf(i, rows) \cup {0}
    BY BestFacts, Zenon
  <2>2. ASSUME Best(i, rows) \in ProgressOf(i, rows) PROVE \E b \in strongest : b.progress >= Best(i, rows)
    <3>1. PICK a \in rows : a.activity = i.id /\ Best(i, rows) = a.progress
      BY <2>2, Zenon DEF ProgressOf
    <3>2. QED
      BY <1>4, <3>1, Zenon
  <2>3. QED
    BY <2>1, <2>2
<1>7. Best(i, rows) \in Nat
  BY BestFacts, Zenon
<1>8. LevelBy(Best(i, rows)) = IF Best(i, rows) >= 3 THEN 3 ELSE IF Best(i, rows) = 2 THEN 2 ELSE BaseLevel
  BY DEF LevelBy, ChainInclusionProven, LocallyVerified
<1>9. CASE \E a \in strongest : a.progress >= 3
  <2>1. Best(i, rows) >= 3
    BY <1>5, <1>7, <1>9
  <2>2. EvidenceLevel(i, rows) = 3
    BY <1>2, <1>9, Zenon
  <2>3. QED
    BY <1>1, <1>8, <2>1, <2>2
<1>10. CASE ~ (\E a \in strongest : a.progress >= 3) /\ \E a \in strongest : a.progress = 2
  <2>1. Best(i, rows) = 2
    BY <1>5, <1>6, <1>7, <1>10
  <2>2. EvidenceLevel(i, rows) = 2
    BY <1>2, <1>10, Zenon
  <2>3. QED
    BY <1>1, <1>8, <2>1, <2>2
<1>11. CASE ~ (\E a \in strongest : a.progress >= 3) /\ ~ \E a \in strongest : a.progress = 2
  <2>1. \A b \in strongest : b.progress < 2
    BY <1>5, <1>11
  <2>2. Best(i, rows) < 2
    BY <1>5, <1>6, <1>7, <2>1
  <2>3. EvidenceLevel(i, rows) = BaseLevel
    BY <1>2, <1>11, Zenon
  <2>4. QED
    BY <1>1, <1>7, <1>8, <2>2, <2>3
<1>12. QED
  BY <1>9, <1>10, <1>11, Zenon

LEMMA LevelWithoutAttempts ==
  ASSUME NEW rows, NEW i, \A a \in rows : a.activity # i.id
  PROVE  EvidenceLevel(i, rows) = BaseLevel
BY Zenon DEF EvidenceLevel, StrongestAttempts

(* Attempts are made for transactions only.                                 *)
LEMMA OthersHaveNone ==
  ASSUME SyncsOK, NEW s, NEW rows \in BoundRows(s), NEW i \in Items(s, NoFilter), i.kind # "transaction"
  PROVE  EvidenceLevel(i, rows) = BaseLevel
<1>1. ASSUME NEW a \in rows PROVE a.activity # i.id
  <2>1. Binding(a) \in Verifiable(s)
    BY Zenon DEF BoundRows
  <2>2. Binding(a).id = a.activity
    BY DEF Binding
  <2>3. PICK v \in Verifiable(s) : v = Binding(a)
    BY <2>1, Zenon
  <2>4. PICK j \in Items(s, NoFilter) : j.id = v.id /\ j.kind = "transaction"
    BY VerifiableFacts, Zenon
  <2>5. i.id = j.id => i = j
    BY ItemFacts, Zenon DEF Items
  <2>6. QED
    BY <2>2, <2>3, <2>4, <2>5, Zenon
<1>2. QED
  BY <1>1, LevelWithoutAttempts, Zenon

(* The least of finitely many levels.                                       *)
LEMMA LeastLevel ==
  ASSUME NEW K, IsFiniteSet(K), NEW f, DOMAIN f = K, \A i \in K : f[i] \in Int, NEW least \in Int,
         NEW S, S = {f[i] : i \in K} \cup {least}
  PROVE  Min(S) \in Int /\ Min(S) <= least /\ \A i \in K : Min(S) <= f[i]
<1>1. PICK T : T = {f[i] : i \in K}
  BY Zenon
<1>2. IsFiniteSet(T)
  BY <1>1, ImageOf, Zenon
<1>3. IsFiniteSet(T \cup {least})
  BY <1>2, FS_AddElement, Zenon
<1>4. S = T \cup {least}
  BY <1>1, Zenon
<1>5. S \in SUBSET Int /\ S # {} /\ least \in S /\ \A i \in K : f[i] \in S
  BY <1>1, <1>4
<1>6. Min(S) \in S /\ \A y \in S : Min(S) <= y
  BY <1>3, <1>4, <1>5, MaxMin
<1>7. QED
  BY <1>5, <1>6, Zenon

(* What a finding says of the rows it was given, those with an id in ids.   *)
SaysOf(f, rule, ids, items, rows) ==
  /\ f.rule = rule
  /\ \A row \in f.support : \E i \in items : i.id \in ids /\ row.id = i.id /\ row.level = EvidenceLevel(i, rows)
  /\ f.level \in Int
  /\ \A i \in items : i.id \in ids => f.level <= EvidenceLevel(i, rows)
  /\ (\A i \in items : i.id \notin ids) => f.level <= BaseLevel

LEMMA FindingFacts ==
  ASSUME NEW rule, NEW key, NEW affected, NEW basis, NEW ids, NEW items, IsFiniteSet(items),
         NEW rows \in SUBSET ListedRow, IsFiniteSet(rows), UniqueIds(rows), NEW cap \in Int
  PROVE  SaysOf(Finding(rule, key, affected, basis, ids, items, rows, cap), rule, ids, items, rows)
<1>0. PICK f : f = Finding(rule, key, affected, basis, ids, items, rows, cap)
  BY Zenon
<1> DEFINE known == {i \in items : i.id \in ids}
           shown == Shortest(IdsOf(known), MaxSupport)
           bottom == IF known = {} THEN BaseLevel ELSE ChainInclusionProven
           level == Min({EvidenceLevel(i, rows) : i \in known} \cup {bottom})
           of == [i \in known |-> EvidenceLevel(i, rows)]
           support == {[id |-> i.id, level |-> EvidenceLevel(i, rows)] : i \in {i \in known : i.id \in shown}}
<1>1. PICK truncated \in BOOLEAN : truncated = (basis = "activity_rows" /\ affected > Cardinality(shown))
  <2>1. (basis = "activity_rows" /\ affected > Cardinality(shown)) \in BOOLEAN
    OBVIOUS
  <2>2. QED
    BY <2>1, Zenon
<1>2. f = [rule |-> rule, key |-> key, affected |-> affected, basis |-> basis, support |-> support,
           truncated |-> truncated, level |-> Min({level, cap})]
  BY <1>0, <1>1, Zenon DEF Finding
<1>3. known \in SUBSET items
  BY Zenon
<1>4. IsFiniteSet(known)
  BY <1>3, FS_Subset, Zenon
<1>5. \A i : EvidenceLevel(i, rows) \in Int /\ BaseLevel \in Int
  <2>1. \A i : EvidenceLevel(i, rows) \in 0..3 /\ BaseLevel \in {0, 1}
    BY LevelIsBest, Zenon
  <2>2. QED
    BY <2>1
<1>6. DOMAIN of = known /\ (\A i \in known : of[i] \in Int)
      /\ {of[i] : i \in known} = {EvidenceLevel(i, rows) : i \in known}
  BY <1>5, Zenon
<1>7. bottom \in Int
  BY <1>5 DEF ChainInclusionProven
<1>8. PICK S : S = {of[i] : i \in known} \cup {bottom}
  BY Zenon
<1>9. Min(S) = level
  BY <1>6, <1>8, Zenon
<1>10. \A i \in known : of[i] = EvidenceLevel(i, rows)
  BY Zenon
<1>11. known = {} => bottom = BaseLevel
  BY Zenon
<1>11a. \A row \in support : \E i \in items : i.id \in ids /\ row.id = i.id /\ row.level = EvidenceLevel(i, rows)
  <2>1. SUFFICES ASSUME NEW i \in items, i.id \in ids, NEW row, row = [id |-> i.id, level |-> EvidenceLevel(i, rows)]
        PROVE  row.id = i.id /\ row.level = EvidenceLevel(i, rows)
    BY Zenon
  <2>2. QED
    BY <2>1
<1>11b. (\A i \in items : i.id \notin ids) => known = {}
  BY Zenon
<1>11c. \A i \in items : i.id \in ids => i \in known
  BY Zenon
<1> HIDE DEF of, bottom, level, known, support, shown
<1>12. level \in Int /\ level <= bottom /\ \A i \in known : level <= of[i]
  BY <1>4, <1>6, <1>7, <1>8, <1>9, LeastLevel
<1>13. Min({level, cap}) \in Int /\ Min({level, cap}) <= level
  <2>1. Min({level, cap}) = IF level <= cap THEN level ELSE cap
    BY <1>12, MaxMinOfTwo
  <2>2. QED
    BY <1>12, <2>1
<1>14. f.rule = rule /\ f.support = support /\ f.level = Min({level, cap})
  BY <1>2
<1>15. ASSUME NEW i \in items, i.id \in ids PROVE f.level <= EvidenceLevel(i, rows)
  <2>1. level <= EvidenceLevel(i, rows)
    BY <1>10, <1>11c, <1>12, <1>15, Zenon
  <2>2. QED
    BY <1>5, <1>12, <1>13, <1>14, <2>1
<1>16. ASSUME \A i \in items : i.id \notin ids PROVE f.level <= BaseLevel
  <2>1. level <= BaseLevel
    BY <1>11, <1>11b, <1>12, <1>16, Zenon
  <2>2. QED
    BY <1>5, <1>12, <1>13, <1>14, <2>1
<1>17. QED
  BY <1>0, <1>11a, <1>13, <1>14, <1>15, <1>16, Zenon DEF SaysOf

(* Items that their ids tell apart.                                         *)
UniqueItems(items) == IsFiniteSet(items) /\ \A i, j \in items : i.id = j.id => i = j

-----------------------------------------------------------------------------
(* Flows show items of their own only.                                      *)

LEMMA ShortestFacts ==
  ASSUME NEW ids \in SUBSET Nat, IsFiniteSet(ids)
  PROVE  Shortest(ids, MaxSupport) \in SUBSET ids
<1> DEFINE R == {p \in ids \X ids : p[1] < p[2]}
           o == Sorted(ids, LAMBDA a, b : a < b)
           N == Cardinality(ids)
<1>1. StrictTotalOrder(ids, R)
  <2>1. ids \in SUBSET Int
    OBVIOUS
  <2>2. QED
    BY <2>1, NumbersOrdered
<1>2. \A x \in ids : {y \in ids : y < x} = BelowIn(ids, R, x)
  BY DEF BelowIn
<1> HIDE DEF R
<1>3. o = [n \in 1..N |-> CHOOSE x \in ids : Cardinality({y \in ids : y < x}) = n - 1]
  BY Zenon DEF Sorted
<1> HIDE DEF o
<1>4a. IsFiniteSet(ids) /\ StrictTotalOrder(ids, R)
  BY <1>1, Zenon
<1>4b. /\ Cardinality(ids) \in Nat
       /\ \A n \in 1..Cardinality(ids) : \E x \in ids : Cardinality(BelowIn(ids, R, x)) = n - 1
       /\ \A x, y \in ids : Cardinality(BelowIn(ids, R, x)) = Cardinality(BelowIn(ids, R, y)) => x = y
  BY <1>4a, Ranks, Zenon
<1>4. N \in Nat /\ \A n \in 1..N : \E x \in ids : Cardinality(BelowIn(ids, R, x)) = n - 1
  BY <1>4b, Zenon
<1>5. ASSUME NEW n \in 1..N PROVE o[n] \in ids
  <2>1. \E x \in ids : Cardinality({y \in ids : y < x}) = n - 1
    BY <1>2, <1>4, Zenon
  <2>2. o[n] = CHOOSE x \in ids : Cardinality({y \in ids : y < x}) = n - 1
    BY <1>3, Zenon
  <2>3. QED
    BY <2>1, <2>2, Zenon
<1>6. DOMAIN o = 1..N
  BY <1>3, Zenon
<1>7. Len(o) = N
  <2>1. o \in [1..N -> ids]
    BY <1>3, <1>5, Zenon
  <2> HIDE DEF N
  <2>2. QED
    BY <1>4, <2>1
<1>8. Shortest(ids, MaxSupport) = {o[n] : n \in 1..Min({MaxSupport, Len(o)})}
  BY Zenon DEF Shortest, o
<1>9. \A n \in 1..Min({MaxSupport, Len(o)}) : n \in 1..N
  <2>1. MaxSupport \in Nat
    BY FindingAssumption DEF FindingAssumption
  <2>2. Min({MaxSupport, N}) = IF MaxSupport <= N THEN MaxSupport ELSE N
    BY <1>4, <2>1, MaxMinOfTwo
  <2>3. QED
    BY <1>4, <1>7, <2>1, <2>2
<1>10. QED
  BY <1>5, <1>8, <1>9, Zenon

(* The flow with more observations first, then by their places.             *)
Ahead(x, y, place) ==
  \/ x.observations > y.observations
  \/ x.observations = y.observations /\ place[x] < place[y]

LEMMA MostObservedFacts ==
  ASSUME NEW flows, IsFiniteSet(flows), \A x \in flows : x.observations \in Int
  PROVE  /\ Cardinality(flows) \in Nat
         /\ MostObserved(flows) \in [1..Cardinality(flows) -> flows]
         /\ IsInjective(MostObserved(flows))
<1>0. PICK N : N = Cardinality(flows)
  BY Zenon
<1>1. N \in Nat /\ ExistsBijection(1..N, flows)
  BY <1>0, FS_CardinalityType, Zenon
<1>2. PICK h \in Bijection(1..N, flows) : TRUE
  BY <1>1, Zenon DEF ExistsBijection
<1>3. /\ h \in [1..N -> flows]
      /\ \A x \in flows : \E n \in 1..N : h[n] = x
      /\ \A m, n \in 1..N : h[m] = h[n] => m = n
  BY <1>2, Zenon DEF Bijection, Injection, Surjection, IsInjective
<1>4. PICK place : place = [x \in flows |-> CHOOSE n \in 1..N : h[n] = x]
  BY Zenon
<1>5. \A x \in flows : place[x] \in 1..N /\ h[place[x]] = x
  <2>1. SUFFICES ASSUME NEW x \in flows PROVE place[x] \in 1..N /\ h[place[x]] = x
    BY Zenon
  <2>2. place[x] = CHOOSE n \in 1..N : h[n] = x
    BY <1>4, Zenon
  <2>3. QED
    BY <1>3, <2>2, Zenon
<1>6. \A x, y \in flows : place[x] = place[y] => x = y
  BY <1>5, Zenon
<1>7. \A x \in flows : place[x] \in Int
  BY <1>1, <1>5
<1> DEFINE R == {p \in flows \X flows : Ahead(p[1], p[2], place)}
<1>7a. \A x, y \in flows : <<x, y>> \in R <=> Ahead(x, y, place)
  OBVIOUS
<1> HIDE DEF R
<1>8. \A x, y \in flows : <<x, y>> \in R <=> \/ x.observations > y.observations
                                             \/ x.observations = y.observations /\ place[x] < place[y]
  BY <1>7a, Zenon DEF Ahead
<1>9. StrictTotalOrder(flows, R)
  <2>1. \A x \in flows : <<x, x>> \notin R
    BY <1>7, <1>8
  <2>2. \A x, y \in flows : x # y => <<x, y>> \in R \/ <<y, x>> \in R
    <3>1. SUFFICES ASSUME NEW x \in flows, NEW y \in flows, x # y PROVE <<x, y>> \in R \/ <<y, x>> \in R
      BY Zenon
    <3>2. place[x] # place[y]
      BY <1>6, <3>1, Zenon
    <3>3. place[x] \in Int /\ place[y] \in Int /\ x.observations \in Int /\ y.observations \in Int
      BY <1>7, Zenon
    <3>4. \/ x.observations > y.observations \/ (x.observations = y.observations /\ place[x] < place[y])
          \/ y.observations > x.observations \/ (y.observations = x.observations /\ place[y] < place[x])
      BY <3>2, <3>3
    <3>5. QED
      BY <1>8, <3>4, Zenon
  <2>3. \A x, y, z \in flows : <<x, y>> \in R /\ <<y, z>> \in R => <<x, z>> \in R
    BY <1>7, <1>8
  <2>4. QED
    BY <2>1, <2>2, <2>3, Zenon DEF StrictTotalOrder
<1>10. PICK f : f = [n \in 1..N |-> CHOOSE x \in flows : Cardinality(BelowIn(flows, R, x)) = n - 1]
  BY Zenon
<1>11. ASSUME NEW n \in 1..N PROVE f[n] \in flows /\ Cardinality(BelowIn(flows, R, f[n])) = n - 1
  <2>0. /\ Cardinality(flows) \in Nat
        /\ \A m \in 1..Cardinality(flows) : \E x \in flows : Cardinality(BelowIn(flows, R, x)) = m - 1
        /\ \A x, y \in flows : Cardinality(BelowIn(flows, R, x)) = Cardinality(BelowIn(flows, R, y)) => x = y
    BY <1>9, Ranks, Zenon
  <2>1. \E x \in flows : Cardinality(BelowIn(flows, R, x)) = n - 1
    BY <1>0, <2>0, Zenon
  <2>2. f[n] = CHOOSE x \in flows : Cardinality(BelowIn(flows, R, x)) = n - 1
    BY <1>10, Zenon
  <2>3. QED
    BY <2>1, <2>2, Zenon
<1>12. f \in [1..N -> flows]
  BY <1>10, <1>11, Zenon
<1>13. /\ \A i, j \in 1..N : f[i] = f[j] => i = j
       /\ \A i, j \in 1..N : i < j => <<f[i], f[j]>> \in R
  <2>0. f \in [1..Cardinality(flows) -> flows] /\ \A n \in 1..Cardinality(flows) : Cardinality(BelowIn(flows, R, f[n])) = n - 1
    BY <1>0, <1>11, <1>12, Zenon
  <2>0a. /\ Len(f) = Cardinality(flows)
         /\ \A i, j \in 1..Len(f) : f[i] = f[j] => i = j
         /\ \A i, j \in 1..Len(f) : i < j => <<f[i], f[j]>> \in R
    <3>1. IsFiniteSet(flows) /\ StrictTotalOrder(flows, R)
      BY <1>9, Zenon
    <3>2. /\ f \in Seq(flows) /\ Len(f) = Cardinality(flows)
          /\ \A i, j \in 1..Len(f) : f[i] = f[j] => i = j
          /\ \A x \in flows : \E i \in 1..Len(f) : f[i] = x
          /\ \A i, j \in 1..Len(f) : i < j => <<f[i], f[j]>> \in R
      BY <2>0, <3>1, ByRank, Zenon
    <3>3. QED
      BY <3>2, Zenon
  <2>1. /\ Len(f) = N
        /\ \A i, j \in 1..Len(f) : f[i] = f[j] => i = j
        /\ \A i, j \in 1..Len(f) : i < j => <<f[i], f[j]>> \in R
    BY <1>0, <2>0a, Zenon
  <2>2. QED
    BY <2>1, Zenon
<1>14. IsInjective(f)
  BY <1>12, <1>13, Zenon DEF IsInjective
<1>15. \A m, n \in 1..N : m < n => f[m].observations >= f[n].observations
  <2>1. SUFFICES ASSUME NEW m \in 1..N, NEW n \in 1..N, m < n PROVE f[m].observations >= f[n].observations
    BY Zenon
  <2>2. f[m] \in flows /\ f[n] \in flows /\ <<f[m], f[n]>> \in R
    BY <1>11, <1>13, <2>1, Zenon
  <2>3. f[m].observations > f[n].observations \/ f[m].observations = f[n].observations
    BY <1>8, <2>2, Zenon
  <2>4. QED
    BY <2>2, <2>3
<1>16. \E g \in [1..N -> flows] :
         IsInjective(g) /\ \A m, n \in 1..N : m < n => g[m].observations >= g[n].observations
  BY <1>12, <1>14, <1>15, Zenon
<1>17. MostObserved(flows) \in [1..N -> flows] /\ IsInjective(MostObserved(flows))
  BY <1>0, <1>16, Zenon DEF MostObserved
<1>18. QED
  BY <1>0, <1>1, <1>17, Zenon

LEMMA FirstOfFacts ==
  ASSUME NEW S, NEW groups \in Seq(S), NEW limit \in Nat
  PROVE  FirstOf(groups, limit) \in Seq(S)
<1>1. PICK n : n = Len(groups)
  BY Zenon
<1>2. n \in Nat /\ n \in Int /\ limit \in Int
  BY <1>1
<1>3. Min({limit, n}) = IF limit <= n THEN limit ELSE n
  BY <1>2, MaxMinOfTwo
<1>4. PICK k : k = Min({limit, n})
  BY Zenon
<1>5. k \in Nat /\ k <= n
  BY <1>2, <1>3, <1>4
<1>6. SubSeq(groups, 1, k) \in Seq(S)
  BY <1>1, <1>5
<1>7. QED
  BY <1>1, <1>4, <1>6, Zenon DEF FirstOf

LEMMA RepeatedFacts ==
  ASSUME NEW S, NEW groups \in Seq(S)
  PROVE  Repeated(groups) \in Seq(S)
<1> DEFINE K == {n \in 1..Len(groups) : groups[n].observations >= 2}
<1>1. Len(groups) \in Nat
  OBVIOUS
<1>2. IsFiniteSet(1..Len(groups))
  BY <1>1, FS_Interval
<1>3. K \in SUBSET (1..Len(groups))
  BY Zenon
<1>4. Cardinality(K) \in Nat
  BY <1>2, <1>3, FS_Subset, FS_CardinalityType, Zenon
<1>5. QED
  BY <1>4, FirstOfFacts, Zenon DEF Repeated

(* The flows over some items, and what they show.                           *)
OwnFlows(K) == {Flow(key, K) : key \in {i.value : i \in Named(K)}}

-----------------------------------------------------------------------------
(* What the rules read, and what a document says.                           *)

LEMMA SnapshotItems ==
  ASSUME SyncsOK, NEW s
  PROVE  UniqueItems(Items(s, NoFilter)) /\ \A i \in Items(s, NoFilter) : i.id \in Nat
<1>1. Items(s, NoFilter) \in SUBSET Built(s, NoFilter).items
  BY Zenon DEF Items
<1>2. QED
  BY <1>1, ItemFacts, Zenon DEF UniqueItems

(* A pattern is about transfers or swaps, which no attempt is bound to.     *)
LEMMA FlowsOf ==
  ASSUME NEW items
  PROVE  /\ FlowSummary(items).counterparties = Groups(Transfers(items), Flow)
         /\ FlowSummary(items).protocols = Groups(Swaps(items), Flow)
<1>1. PICK assets, counterparties, protocols :
        /\ counterparties = Groups(Transfers(items), Flow) /\ protocols = Groups(Swaps(items), Flow)
        /\ assets = Groups(Transfers(items) \cup Swaps(items), AssetFlow)
  BY Zenon
<1>2. PICK unnamedAssets, unnamedCounterparties, unnamedProtocols :
        FlowSummary(items) = [assets |-> assets, counterparties |-> counterparties, protocols |-> protocols,
                              unnamedAssets |-> unnamedAssets, unnamedCounterparties |-> unnamedCounterparties,
                              unnamedProtocols |-> unnamedProtocols]
  BY <1>1, Zenon DEF FlowSummary
<1>3. FlowSummary(items).counterparties = counterparties /\ FlowSummary(items).protocols = protocols
  BY <1>2
<1>4. QED
  BY <1>1, <1>3, Zenon

(* What the schema looks at in a document.                                  *)
DocumentOf(d, flows, total, rows, findings) ==
  /\ d.total = total /\ d.returned = Cardinality(rows)
  /\ d.evidenceTruncated <=> total > Cardinality(rows)
  /\ d.assets = Cut(flows.assets) /\ d.counterparties = Cut(flows.counterparties) /\ d.protocols = Cut(flows.protocols)
  /\ d.findings = findings

LEMMA DocumentFields ==
  ASSUME NEW s, NEW items, NEW activity, NEW rows, NEW total
  PROVE  DocumentOf(FindingsDocument(s, items, activity, rows, total), FlowSummary(items), total, rows,
                    FindingsOn(items, activity, FlowSummary(items), rows))
<1> DEFINE document(flows, evidence) ==
      [snapshot |-> s, environment |-> environment, aggregate |-> activity.aggregate,
       attempts |-> evidence.attempts, total |-> total, returned |-> evidence.returned,
       evidenceTruncated |-> evidence.truncated,
       assets |-> Cut(flows.assets), counterparties |-> Cut(flows.counterparties), protocols |-> Cut(flows.protocols),
       findings |-> FindingsOn(items, activity, flows, rows), gaps |-> activity.gaps,
       limitations |-> FindingsLimitations(activity, flows, evidence)]
<1>1. FindingsDocument(s, items, activity, rows, total) =
        The({The({document(flows, evidence) : evidence \in {EvidenceRevision(rows, total)}}) : flows \in {FlowSummary(items)}})
  BY Zenon DEF FindingsDocument
<1>2. \A flows, evidence :
        /\ document(flows, evidence).total = total /\ document(flows, evidence).returned = evidence.returned
        /\ document(flows, evidence).evidenceTruncated = evidence.truncated
        /\ document(flows, evidence).assets = Cut(flows.assets)
        /\ document(flows, evidence).counterparties = Cut(flows.counterparties)
        /\ document(flows, evidence).protocols = Cut(flows.protocols)
        /\ document(flows, evidence).findings = FindingsOn(items, activity, flows, rows)
  OBVIOUS
<1> HIDE DEF document
<1>3. PICK F, E : F = FlowSummary(items) /\ E = EvidenceRevision(rows, total)
  BY Zenon
<1>4. ASSUME NEW flows PROVE The({document(flows, evidence) : evidence \in {E}}) = document(flows, E)
  <2>1. {document(flows, evidence) : evidence \in {E}} = {document(flows, E)}
    BY Zenon
  <2>2. QED
    BY <2>1, TheOf, Zenon
<1>5. {The({document(flows, evidence) : evidence \in {E}}) : flows \in {F}} = {document(F, E)}
  BY <1>4, Zenon
<1>6. FindingsDocument(s, items, activity, rows, total) = document(F, E)
  <2>1. FindingsDocument(s, items, activity, rows, total) =
          The({The({document(flows, evidence) : evidence \in {E}}) : flows \in {F}})
    BY <1>1, <1>3, Zenon
  <2>2. FindingsDocument(s, items, activity, rows, total) = The({document(F, E)})
    BY <1>5, <2>1, Zenon
  <2>3. QED
    BY <2>2, TheOf, Zenon
<1>7. E.returned = Cardinality(rows) /\ (E.truncated <=> total > Cardinality(rows))
  BY <1>3, EvidenceFields, Zenon
<1>8. PICK d, findings : d = document(F, E) /\ findings = FindingsOn(items, activity, F, rows)
  BY Zenon
<1>9. /\ d.total = total /\ d.returned = E.returned /\ d.evidenceTruncated = E.truncated
      /\ d.assets = Cut(F.assets) /\ d.counterparties = Cut(F.counterparties) /\ d.protocols = Cut(F.protocols)
      /\ d.findings = findings
  BY <1>2, <1>8, Zenon
<1>10. d.evidenceTruncated <=> total > Cardinality(rows)
  BY <1>7, <1>9, Zenon
<1>11. DocumentOf(d, F, total, rows, findings)
  BY <1>7, <1>9, <1>10, Zenon DEF DocumentOf
<1>12. QED
  BY <1>3, <1>6, <1>8, <1>11, Zenon

LEMMA FindingsOfDocument ==
  ASSUME NEW s, NEW items, NEW activity, NEW rows, NEW total
  PROVE  FindingsDocument(s, items, activity, rows, total).findings
           = FindingsOn(items, activity, FlowSummary(items), rows)
<1>1. PICK d, flows, findings :
        /\ d = FindingsDocument(s, items, activity, rows, total) /\ flows = FlowSummary(items)
        /\ findings = FindingsOn(items, activity, FlowSummary(items), rows)
  BY Zenon
<1>2. DocumentOf(d, flows, total, rows, findings)
  BY <1>1, DocumentFields
<1>3. d.findings = findings
  BY <1>2, Zenon DEF DocumentOf
<1>4. QED
  BY <1>1, <1>3, Zenon

-----------------------------------------------------------------------------
(* Every answer passes its schema.  Items: one without an identity stands   *)
(* for one row.                                                             *)

LEMMA ProductGap ==
  ASSUME NEW L \in Nat, NEW a \in Nat, NEW c \in Nat, a < c
  PROVE  L * a + L <= L * c
<1>1. PICK d \in Nat : c = a + 1 + d
  <2>1. c - a - 1 \in Nat /\ c = a + 1 + (c - a - 1)
    OBVIOUS
  <2>2. QED
    BY <2>1, Zenon
<1>2. L * c = L * a + L + L * d
  BY <1>1
<1>3. L * d \in Nat /\ L * a \in Nat /\ L * c \in Nat
  BY <1>1
<1>4. QED
  BY <1>2, <1>3

LEMMA IdsDiffer ==
  ASSUME NEW r \in Rows, NEW t \in Rows, Identity(r) = NoKey, PublicId(r) = PublicId(t)
  PROVE  r = t
<1>1. PICK L : L = Len(Observable)
  BY Zenon
<1>2. Observable \in Seq(ActivityRow)
  BY ActivityAssumption, Zenon DEF ActivityAssumption
<1>3. PICK a, b, c, d : a = r[1] /\ b = r[2] /\ c = t[1] /\ d = t[2]
  BY Zenon
<1>4. /\ L \in Nat /\ a \in Nat /\ c \in Nat /\ b \in 1..L /\ d \in 1..L
      /\ r = <<a, b>> /\ t = <<c, d>>
  BY <1>1, <1>2, <1>3 DEF Rows
<1>5. PICK m, n : m = L * a + b /\ n = L * c + d
  BY Zenon
<1>6. m \in Nat /\ n \in Nat
  <2>1. L * a \in Nat /\ L * c \in Nat
    BY <1>4
  <2>2. QED
    BY <1>4, <1>5, <2>1
<1>7. PublicId(r) = 3 * m + 2
  BY <1>1, <1>3, <1>5, Zenon DEF PublicId
<1>8. Identity(t) = NoKey
  <2>1. SUFFICES ASSUME Identity(t) # NoKey PROVE FALSE
    BY Zenon
  <2>2. Observable[t[2]] \in ActivityRow
    BY RowTypes, Zenon
  <2>3. Identity(t) \in Nat
    BY <2>2 DEF Identity, NoKey, ActivityRow
  <2>4. Namespace(t) \in {0, 1}
    BY DEF Namespace
  <2>5. PublicId(t) = 3 * Identity(t) + Namespace(t)
    BY <2>1, Zenon DEF PublicId
  <2>6. PICK k, x : k = Identity(t) /\ x = Namespace(t)
    BY Zenon
  <2>7. 3 * m + 2 = 3 * k + x /\ k \in Nat /\ x \in {0, 1}
    BY <1>7, <2>3, <2>4, <2>5, <2>6, Zenon
  <2>8. QED
    BY <1>6, <2>7
<1>9. PublicId(t) = 3 * n + 2
  BY <1>1, <1>3, <1>5, <1>8, Zenon DEF PublicId
<1>10. m = n
  <2>1. 3 * m + 2 = 3 * n + 2
    BY <1>7, <1>9, Zenon
  <2>2. QED
    BY <1>6, <2>1
<1>11. a = c
  <2>1. a < c => L * a + L <= L * c
    BY <1>4, ProductGap, Zenon
  <2>2. c < a => L * c + L <= L * a
    BY <1>4, ProductGap, Zenon
  <2>3. PICK x, y : x = L * a /\ y = L * c
    BY Zenon
  <2>4. x \in Nat /\ y \in Nat
    BY <1>4, <2>3
  <2>5. x + b = y + d
    BY <1>5, <1>10, <2>3, Zenon
  <2>6. (a < c => x + L <= y) /\ (c < a => y + L <= x)
    BY <2>1, <2>2, <2>3, Zenon
  <2>7. QED
    BY <1>4, <2>4, <2>5, <2>6
<1>12. b = d
  <2>1. PICK x : x = L * a
    BY Zenon
  <2>2. x \in Nat /\ x + b = x + d
    BY <1>4, <1>5, <1>10, <1>11, <2>1
  <2>3. QED
    BY <1>4, <2>2
<1>13. QED
  BY <1>4, <1>11, <1>12, Zenon

LEMMA ItemIsServed ==
  ASSUME SyncsOK, NEW s, NEW q, NEW g \in Groups0(s, q)
  PROVE  SchemaItem(Item(g)) /\ Item(g).origin = Origin
<1>1. Admissible(s, q) \in SUBSET Rows /\ IsFiniteSet(Admissible(s, q))
  BY AdmissibleFacts, Zenon
<1>2. /\ g \in SUBSET Admissible(s, q) /\ IsFiniteSet(g) /\ Winner(g) \in g
      /\ \A r \in Admissible(s, q), t \in g : PublicId(r) = PublicId(t) <=> r \in g
  BY <1>1, GroupFacts, Zenon DEF Groups0
<1>3. PICK w : w = Winner(g)
  BY Zenon
<1>4. w \in Rows /\ w \in g /\ g \in SUBSET Rows
  BY <1>1, <1>2, <1>3, Zenon
<1>5. environment \in {"demo", "live"}
  BY DEF SyncsOK
<1>6. Identity(w) = NoKey => g = {w}
  <2>1. SUFFICES ASSUME Identity(w) = NoKey, NEW t \in g PROVE t = w
    BY <1>4, Zenon
  <2>2. PublicId(w) = PublicId(t)
    BY <1>1, <1>2, <1>4, Zenon
  <2>3. t \in Rows
    BY <1>4, Zenon
  <2>4. QED
    BY <1>4, <2>1, <2>2, <2>3, IdsDiffer, Zenon
<1>7. PICK i : i = Item(g)
  BY Zenon
<1>8. /\ i.kind = Semantic(w).kind /\ i.origin = Origin /\ i.assurance = Assurance(w)
      /\ i.linked = (Assurance(w) = "network_scoped") /\ i.named = (Assurance(w) = "provider_scoped")
      /\ i.observations = Cardinality(g) /\ i.suppressed = Cardinality(g) - 1
  BY <1>3, <1>7, ItemFields, Zenon
<1>9. Semantic(w).kind = Observable[w[2]].kind
  BY DEF Semantic
<1>10. Assurance(w) = IF Identity(w) = NoKey THEN "unavailable"
                      ELSE IF i.kind = "transaction" THEN "network_scoped" ELSE "provider_scoped"
  BY <1>8, <1>9, Zenon DEF Assurance
<1>11. SchemaProvenance(i)
  <2>1. i.suppressed = i.observations - 1
    BY <1>8, Zenon
  <2>2. i.origin = "demo_fixture" => i.assurance = "unavailable"
    BY <1>8, <1>10 DEF Origin, Identity
  <2>3. i.assurance = "unavailable" => i.observations = 1
    <3>1. Cardinality({w}) = 1
      BY FS_Singleton, Zenon
    <3>2. i.assurance = "unavailable" => Identity(w) = NoKey
      BY <1>8, <1>10
    <3>3. QED
      BY <1>6, <1>8, <3>1, <3>2, Zenon
  <2>4. QED
    BY <2>1, <2>2, <2>3, Zenon DEF SchemaProvenance
<1>12. SchemaItem(i)
  BY <1>8, <1>10, <1>11 DEF SchemaItem
<1>13. QED
  BY <1>7, <1>8, <1>12, Zenon

-----------------------------------------------------------------------------
(* Pages.                                                                   *)

(* A set counts as the part that has a kind and the rest.                   *)
LEMMA CountedApart ==
  ASSUME NEW S, IsFiniteSet(S), NEW T \in SUBSET S
  PROVE  /\ IsFiniteSet(T) /\ IsFiniteSet(S \ T)
         /\ Cardinality(T) \in Nat /\ Cardinality(S \ T) \in Nat /\ Cardinality(S) \in Nat
         /\ Cardinality(S) = Cardinality(T) + Cardinality(S \ T)
<1>1. IsFiniteSet(T)
  BY FS_Subset, Zenon
<1>2. IsFiniteSet(S \ T) /\ Cardinality(S \ T) = Cardinality(S) - Cardinality(S \cap T)
  BY FS_Difference, Zenon
<1>3. S \cap T = T
  BY Zenon
<1>4. Cardinality(T) \in Nat /\ Cardinality(S) \in Nat /\ Cardinality(S \ T) \in Nat
  BY <1>1, <1>2, FS_CardinalityType, Zenon
<1>5. Cardinality(S \ T) = Cardinality(S) - Cardinality(T)
  BY <1>2, <1>3, Zenon
<1>6. QED
  BY <1>1, <1>2, <1>4, <1>5

LEMMA KindsCounted ==
  ASSUME NEW I, IsFiniteSet(I), \A i \in I : i.kind \in Kinds
  PROVE  Cardinality(I) = Cardinality({i \in I : i.kind = "transaction"})
                          + Cardinality({i \in I : i.kind = "transfer"}) + Cardinality({i \in I : i.kind = "swap"})
<1> DEFINE A == {i \in I : i.kind = "transaction"}
           R == I \ A
           B == {i \in I : i.kind = "transfer"}
           C == {i \in I : i.kind = "swap"}
<1>1. A \in SUBSET I
  BY Zenon
<1>2. B \in SUBSET R
  OBVIOUS
<1>3. C = R \ B
  BY DEF Kinds
<1> HIDE DEF A, B, C, R
<1>4. /\ IsFiniteSet(R) /\ Cardinality(A) \in Nat /\ Cardinality(R) \in Nat
      /\ Cardinality(I) = Cardinality(A) + Cardinality(R)
  BY <1>1, CountedApart, Zenon DEF R
<1>5. /\ Cardinality(B) \in Nat /\ Cardinality(C) \in Nat
      /\ Cardinality(R) = Cardinality(B) + Cardinality(C)
  BY <1>2, <1>3, <1>4, CountedApart, Zenon
<1>6. Cardinality(I) = Cardinality(A) + Cardinality(B) + Cardinality(C)
  BY <1>4, <1>5
<1>7. QED
  BY <1>6, Zenon DEF A, B, C

LEMMA ObservedIsServed ==
  ASSUME NEW I, IsFiniteSet(I), \A i \in I : i.time \in Nat \cup {NoTime}
  PROVE  ObservedPeriod(I) = Always \/ ObservedPeriod(I).from < ObservedPeriod(I).to
<1> DEFINE f == [i \in I |-> i.time]
           T == {i.time : i \in I}
           times == T \ {NoTime}
<1>1. DOMAIN f = I /\ T = {f[i] : i \in I}
  BY Zenon
<1>2. times \in SUBSET Int
  BY DEF NoTime
<1>3. times \in SUBSET T
  BY Zenon
<1>4. ObservedPeriod(I) = IF times = {} THEN Always ELSE [from |-> Min(times), to |-> Max(times) + 1]
  BY Zenon DEF ObservedPeriod
<1> HIDE DEF f, T, times
<1>5. IsFiniteSet(times)
  <2>1. IsFiniteSet(T)
    BY <1>1, ImageOf, Zenon
  <2>2. QED
    BY <1>3, <2>1, FS_Subset, Zenon
<1>6. ASSUME times # {} PROVE ObservedPeriod(I).from < ObservedPeriod(I).to
  <2>1. Max(times) \in times /\ Min(times) \in times /\ \A y \in times : Min(times) <= y
    BY <1>2, <1>5, <1>6, MaxMin
  <2>2. PICK a, b : a = Min(times) /\ b = Max(times) /\ a \in Int /\ b \in Int /\ a <= b
    BY <1>2, <2>1, Zenon
  <2>3. ObservedPeriod(I) = [from |-> a, to |-> b + 1]
    BY <1>4, <1>6, <2>2, Zenon
  <2>4. QED
    BY <2>2, <2>3
<1>7. QED
  BY <1>4, <1>6, Zenon

LEMMA ListIsServed ==
  ASSUME SyncsOK, NEW s \in Usable, NEW q, q.oldest \in BOOLEAN
  PROVE  SchemaList(View(s, q), Page(View(s, q).ordered, NoKey))
<1>1. PICK view : view = View(s, q)
  BY Zenon
<1>2. PICK I : I = Items(s, q)
  BY Zenon
<1>3. PICK B : B = Built(s, q)
  BY Zenon
<1>4. PICK o : o = view.ordered
  BY Zenon
<1>5. /\ view.snapshot = s /\ o \in Seq(I)
      /\ \A i \in 1..Len(o) : o[i].id # NoKey
      /\ \A i, j \in 1..Len(o) : o[i].id = o[j].id => i = j
      /\ view.aggregate = Aggregate(I, B, q)
  <2>1. /\ View(s, q).snapshot = s
        /\ View(s, q).ordered \in Seq(Items(s, q))
        /\ \A i \in 1..Len(View(s, q).ordered) : View(s, q).ordered[i].id # NoKey
        /\ \A i, j \in 1..Len(View(s, q).ordered) :
             View(s, q).ordered[i].id = View(s, q).ordered[j].id => i = j
        /\ View(s, q).aggregate = Aggregate(Items(s, q), Built(s, q), q)
    BY ViewFacts
  <2>2. QED
    BY <1>1, <1>2, <1>3, <1>4, <2>1, Zenon
<1>6. IsFiniteSet(I) /\ \A i \in I : i.time \in Nat \cup {NoTime} /\ i.kind \in Kinds
  BY <1>2, ItemFacts, Zenon DEF Items
<1>7. \A i \in I : SchemaItem(i) /\ i.origin = Origin
  <2>1. SUFFICES ASSUME NEW i \in I PROVE SchemaItem(i) /\ i.origin = Origin
    BY Zenon
  <2>2. Built(s, q).items = {Item(g) : g \in {g \in Groups0(s, q) : Agrees(g)}}
    BY BuiltFields
  <2>3. PICK g \in Groups0(s, q) : i = Item(g)
    BY <1>2, <2>1, <2>2, Zenon DEF Items
  <2>4. QED
    BY <2>3, ItemIsServed, Zenon
<1>8. LET count == view.aggregate.perKind
      IN  view.aggregate.total = count["transaction"] + count["transfer"] + count["swap"]
  <2>1. /\ Aggregate(I, B, q).total = Cardinality(I)
        /\ Aggregate(I, B, q).perKind = [k \in Kinds |-> Cardinality({i \in I : i.kind = k})]
    BY DEF Aggregate
  <2>2. "transaction" \in Kinds /\ "transfer" \in Kinds /\ "swap" \in Kinds
    BY DEF Kinds
  <2>3. PICK count : count = view.aggregate.perKind
    BY Zenon
  <2>4. /\ count["transaction"] = Cardinality({i \in I : i.kind = "transaction"})
        /\ count["transfer"] = Cardinality({i \in I : i.kind = "transfer"})
        /\ count["swap"] = Cardinality({i \in I : i.kind = "swap"})
    BY <1>5, <2>1, <2>2, <2>3, Zenon
  <2>5. Cardinality(I) = count["transaction"] + count["transfer"] + count["swap"]
    BY <1>6, <2>4, KindsCounted, Zenon
  <2>6. QED
    BY <1>5, <2>1, <2>3, <2>5, Zenon
<1>9. view.snapshot # NoSync
  <2>1. s \in 1..Len(syncs) /\ Len(syncs) \in Nat
    BY UsableFacts, Zenon
  <2>2. s # 0
    BY <2>1
  <2>3. QED
    BY <1>5, <2>2, Zenon DEF NoSync
<1>10. view.observed = Always \/ view.observed.from < view.observed.to
  <2>1. View(s, q) = ViewOf(s, q, B, I)
    BY <1>2, <1>3, ViewIs, Zenon DEF Items
  <2>2. ViewOf(s, q, B, I).observed = ObservedPeriod(I)
    BY DEF ViewOf
  <2>3. QED
    BY <1>1, <1>6, <2>1, <2>2, ObservedIsServed, Zenon
<1>11. PICK page : page = Page(o, NoKey)
  BY Zenon
<1>12. page.items \in Seq(I)
  <2>1. 0 \in 0..Len(o) /\ PositionOf(o, 0) = NoKey
    BY <1>5 DEF PositionOf
  <2>2. /\ Page(o, PositionOf(o, 0)).items = SubSeq(o, 0 + 1, Ended(o, 0))
        /\ Ended(o, 0) \in 0..Len(o)
    BY <1>5, <2>1, PageFacts
  <2>3. PICK e : e = Ended(o, 0)
    BY Zenon
  <2>4. SubSeq(o, 1, e) \in Seq(I)
    BY <1>5, <2>2, <2>3
  <2>5. page.items = SubSeq(o, 1, e)
    BY <1>11, <2>1, <2>2, <2>3
  <2>6. QED
    BY <2>4, <2>5, Zenon
<1>13. \A i \in 1..Len(page.items) : SchemaItem(page.items[i]) /\ page.items[i].origin = Origin
  <2>1. \A i \in 1..Len(page.items) : page.items[i] \in I
    BY <1>12
  <2>2. QED
    BY <1>7, <2>1, Zenon
<1>14. SchemaList(view, page)
  BY <1>8, <1>9, <1>10, <1>13, Zenon DEF SchemaList
<1>15. QED
  BY <1>1, <1>4, <1>11, <1>14, Zenon

LEMMA NothingIsServed == SchemaList(NoActivity, Page(<<>>, NoKey))
<1>1. PICK page, view : page = Page(<<>>, NoKey) /\ view = NoActivity
  BY Zenon
<1>2. page.items = <<>>
  <2>1. PageLimit \in Nat \ {0}
    BY ActivityAssumption DEF ActivityAssumption
  <2>2. Len(<<>>) = 0
    OBVIOUS
  <2>3. page.items = SubSeq(<<>>, 0 + 1, Min({0 + PageLimit, Len(<<>>)}))
    BY <1>1 DEF Page
  <2>4. Min({0 + PageLimit, 0}) = 0
    <3>1. 0 + PageLimit \in Int /\ 0 \in Int
      BY <2>1
    <3>2. Min({0 + PageLimit, 0}) = IF 0 + PageLimit <= 0 THEN 0 + PageLimit ELSE 0
      BY <3>1, MaxMinOfTwo
    <3>3. QED
      BY <2>1, <3>2
  <2>5. page.items = SubSeq(<<>>, 0 + 1, 0)
    BY <2>2, <2>3, <2>4, Zenon
  <2>6. QED
    BY <2>5
<1>3. PICK counts, aggregate :
        /\ counts = [k \in Kinds |-> 0]
        /\ aggregate = [total |-> 0, perKind |-> counts, sources |-> 0, suppressed |-> 0, conflicts |-> 0]
  BY Zenon
<1>4. view = [snapshot |-> NoSync, ordered |-> <<>>, observed |-> Always, gaps |-> {"not_synchronized"},
              limitations |-> {"not_synchronized"}, aggregate |-> aggregate]
  BY <1>1, <1>3, Zenon DEF NoActivity
<1>5. /\ view.snapshot = NoSync /\ view.ordered = <<>> /\ view.observed = Always
      /\ view.limitations = {"not_synchronized"} /\ view.aggregate = aggregate
  BY <1>4
<1>6. aggregate.total = 0 /\ aggregate.perKind = counts
  BY <1>3
<1>7. counts["transaction"] = 0 /\ counts["transfer"] = 0 /\ counts["swap"] = 0
  BY <1>3 DEF Kinds
<1>8. QED
  BY <1>1, <1>2, <1>5, <1>6, <1>7 DEF SchemaList

-----------------------------------------------------------------------------
(* Details: an item with its observations.                                  *)

(* The element of a rank.                                                   *)
AtRank(S, R, n) == CHOOSE x \in S : Cardinality(BelowIn(S, R, x)) = n - 1

RankedBy(f, S, R) == f = [n \in 1..Cardinality(S) |-> AtRank(S, R, n)]

(* A sequence of all elements of a set, each once.                          *)
Lists(f, S) ==
  /\ f \in Seq(S) /\ Len(f) = Cardinality(S) /\ Cardinality(S) \in Nat
  /\ \A i, j \in 1..Len(f) : f[i] = f[j] => i = j
  /\ \A x \in S : \E i \in 1..Len(f) : f[i] = x

LEMMA RankedSeq ==
  ASSUME NEW S, NEW R, IsFiniteSet(S), StrictTotalOrder(S, R), NEW f, RankedBy(f, S, R)
  PROVE  Lists(f, S)
<1>1. /\ Cardinality(S) \in Nat
      /\ \A n \in 1..Cardinality(S) : \E x \in S : Cardinality(BelowIn(S, R, x)) = n - 1
      /\ \A x, y \in S : Cardinality(BelowIn(S, R, x)) = Cardinality(BelowIn(S, R, y)) => x = y
  BY Ranks, Zenon
<1>2. ASSUME NEW n \in 1..Cardinality(S) PROVE f[n] \in S /\ Cardinality(BelowIn(S, R, f[n])) = n - 1
  <2>1. \E x \in S : Cardinality(BelowIn(S, R, x)) = n - 1
    BY <1>1, Zenon
  <2>2. f[n] = CHOOSE x \in S : Cardinality(BelowIn(S, R, x)) = n - 1
    BY Zenon DEF AtRank, RankedBy
  <2>3. QED
    BY <2>1, <2>2, Zenon
<1>3. f \in [1..Cardinality(S) -> S] /\ \A n \in 1..Cardinality(S) : Cardinality(BelowIn(S, R, f[n])) = n - 1
  BY <1>2, Zenon DEF RankedBy
<1>4. /\ f \in Seq(S) /\ Len(f) = Cardinality(S)
      /\ \A i, j \in 1..Len(f) : f[i] = f[j] => i = j
      /\ \A x \in S : \E i \in 1..Len(f) : f[i] = x
      /\ \A i, j \in 1..Len(f) : i < j => <<f[i], f[j]>> \in R
  BY <1>3, ByRank, Zenon
<1>5. QED
  BY <1>1, <1>4, Zenon DEF Lists

LEMMA DetailIsServed ==
  ASSUME SyncsOK, NEW s, NEW g \in Built(s, NoFilter).groups
  PROVE  SchemaDetail(Detail(s, g))
<1>1. Admissible(s, NoFilter) \in SUBSET Rows /\ IsFiniteSet(Admissible(s, NoFilter))
  BY AdmissibleFacts, Zenon
<1>2. g \in Groups0(s, NoFilter)
  <2>1. Built(s, NoFilter).groups = {h \in Groups0(s, NoFilter) : Agrees(h)}
    BY BuiltFields
  <2>2. QED
    BY <2>1, Zenon
<1>3. /\ g \in SUBSET Rows /\ IsFiniteSet(g) /\ Winner(g) \in g /\ First(g) \in g
  <2>1. /\ g \in SUBSET Admissible(s, NoFilter) /\ IsFiniteSet(g) /\ Winner(g) \in g /\ First(g) \in g
    BY <1>1, <1>2, GroupFacts, Zenon DEF Groups0
  <2>2. QED
    BY <1>1, <2>1, Zenon
<1> DEFINE R == {p \in g \X g : Later(p[2], p[1])}
           o == Sorted(g, LAMBDA r, t : Later(t, r))
<1>4. StrictTotalOrder(g, R) /\ \A x, y \in g : <<x, y>> \in R <=> Later(y, x)
  BY <1>3, LaterOrders
<1> HIDE DEF R
<1>5. \A x \in g : {y \in g : Later(x, y)} = BelowIn(g, R, x)
  BY <1>4, Zenon DEF BelowIn
<1> DEFINE Looked(n) == CHOOSE x \in g : Cardinality({y \in g : Later(x, y)}) = n - 1
<1>6. o = [n \in 1..Cardinality(g) |-> AtRank(g, R, n)]
  <2>1. o = [n \in 1..Cardinality(g) |-> Looked(n)]
    BY Zenon DEF Sorted
  <2>2. \A n : Looked(n) = AtRank(g, R, n)
    <3>1. SUFFICES ASSUME NEW n PROVE Looked(n) = AtRank(g, R, n)
      BY Zenon
    <3>2. \A x : (x \in g /\ Cardinality({y \in g : Later(x, y)}) = n - 1)
                   <=> (x \in g /\ Cardinality(BelowIn(g, R, x)) = n - 1)
      BY <1>5, Zenon
    <3>3. QED
      BY <3>2 DEF AtRank
  <2> HIDE DEF o, Looked
  <2>3. QED
    BY <2>1, <2>2
<1>6a. PICK order : order = R
  BY Zenon
<1>7. PICK ordered : ordered = o
  BY Zenon
<1> HIDE DEF Looked
<1>8. /\ ordered \in Seq(g) /\ Len(ordered) = Cardinality(g) /\ Cardinality(g) \in Nat
      /\ \A x \in g : \E i \in 1..Len(ordered) : ordered[i] = x
  <2>1. RankedBy(ordered, g, order)
    BY <1>6, <1>6a, <1>7, Zenon DEF RankedBy
  <2>2. IsFiniteSet(g) /\ StrictTotalOrder(g, order)
    BY <1>3, <1>4, <1>6a, Zenon
  <2> HIDE DEF o
  <2>3. Lists(ordered, g)
    BY <2>1, <2>2, RankedSeq, Zenon
  <2>4. QED
    BY <2>3, Zenon DEF Lists
<1>9. PICK n : n = Len(ordered)
  BY Zenon
<1>10. n \in Nat /\ MaxDetailSources \in Nat /\ n = Cardinality(g)
  BY <1>8, <1>9, ActivityAssumption DEF ActivityAssumption
<1>11. PICK k : k = Min({MaxDetailSources, n})
  BY Zenon
<1>12. k = IF MaxDetailSources <= n THEN MaxDetailSources ELSE n
  <2>1. MaxDetailSources \in Int /\ n \in Int
    BY <1>10
  <2>2. QED
    BY <1>11, <2>1, MaxMinOfTwo
<1>13. k \in Nat /\ k <= n /\ (~ (n > MaxDetailSources) => k = n)
  BY <1>10, <1>12
<1>14. PICK shown : shown = SubSeq(ordered, 1, k)
  BY Zenon
<1>15. Len(shown) = k /\ \A i \in 1..k : shown[i] = ordered[i]
  BY <1>8, <1>9, <1>13, <1>14
<1>16. PICK sources : sources = [i \in 1..k |-> shown[i][1]]
  BY Zenon
<1>17. Len(sources) = k /\ \A i \in 1..k : sources[i] = ordered[i][1]
  <2>1. DOMAIN sources = 1..k /\ \A i \in 1..k : sources[i] = ordered[i][1]
    BY <1>15, <1>16, Zenon
  <2>2. sources = [i \in 1..k |-> sources[i]]
    BY <1>16
  <2>3. Len(sources) = k
    BY <1>13, <2>2
  <2>4. QED
    BY <2>1, <2>3, Zenon
<1>18. PICK item : item = Item(g)
  BY Zenon
<1>19. /\ item.observations = n /\ item.origin = Origin /\ item.firstSeen = First(g)[1] /\ item.lastSeen = Winner(g)[1]
       /\ SchemaItem(item)
  BY <1>2, <1>10, <1>18, ItemFields, ItemIsServed, Zenon
<1>20. PICK truncated \in BOOLEAN : truncated = (n > MaxDetailSources)
  <2>1. (n > MaxDetailSources) \in BOOLEAN
    OBVIOUS
  <2>2. QED
    BY <2>1, Zenon
<1>21. PICK origin : origin = Origin
  BY Zenon
<1>22. PICK detail : detail = Detail(s, g)
  BY Zenon
<1>23. detail = [item |-> item, origin |-> origin, sources |-> sources, truncated |-> truncated]
  <2>1. Detail(s, g) = [item |-> Item(g), origin |-> Origin,
                        sources |-> [i \in 1..Len(SubSeq(o, 1, Min({MaxDetailSources, Len(o)}))) |->
                                       SubSeq(o, 1, Min({MaxDetailSources, Len(o)}))[i][1]],
                        truncated |-> Len(o) > MaxDetailSources]
    BY Zenon DEF Detail
  <2> HIDE DEF o
  <2>2. SubSeq(o, 1, Min({MaxDetailSources, Len(o)})) = shown
    BY <1>7, <1>9, <1>11, <1>14, Zenon
  <2>3. detail = [item |-> item, origin |-> origin, sources |-> [i \in 1..Len(shown) |-> shown[i][1]],
                  truncated |-> n > MaxDetailSources]
    BY <1>7, <1>9, <1>18, <1>21, <1>22, <2>1, <2>2, Zenon
  <2>4. QED
    BY <1>15, <1>16, <1>20, <2>3, Zenon
<1>24. detail.item = item /\ detail.origin = origin /\ detail.sources = sources /\ detail.truncated = truncated
  BY <1>23
<1>25. ASSUME ~ truncated, NEW r \in g PROVE r[1] \in {sources[i] : i \in 1..k}
  <2>1. PICK i \in 1..n : ordered[i] = r
    BY <1>8, <1>9, Zenon
  <2>2. i \in 1..k /\ sources[i] = r[1]
    BY <1>13, <1>17, <1>20, <1>25, <2>1, Zenon
  <2>3. QED
    BY <2>2, Zenon
<1>26. ~ truncated => k = n /\ {item.firstSeen, item.lastSeen} \subseteq {sources[i] : i \in 1..k}
  BY <1>3, <1>13, <1>19, <1>20, <1>25, Zenon
<1>27. SchemaDetail(detail)
  <2>1. SchemaItem(detail.item) /\ detail.origin = detail.item.origin
    BY <1>19, <1>21, <1>24, Zenon
  <2>2. Len(detail.sources) = k /\ k <= detail.item.observations
    BY <1>13, <1>17, <1>19, <1>24, Zenon
  <2>3. ~ detail.truncated => /\ k = detail.item.observations
                              /\ {detail.item.firstSeen, detail.item.lastSeen}
                                   \subseteq {detail.sources[i] : i \in 1..Len(detail.sources)}
    BY <1>17, <1>19, <1>24, <1>26, Zenon
  <2>4. QED
    BY <2>1, <2>2, <2>3, Zenon DEF SchemaDetail
<1>28. QED
  BY <1>22, <1>27, Zenon

LEMMA ActivityServed ==
  ASSUME SyncsOK
  PROVE  ActivityIsServed
<1>1. ASSUME NEW s \in Usable, NEW q \in Queries
      PROVE  SchemaList(View(s, q), Page(View(s, q).ordered, NoKey))
  <2>1. q.oldest \in BOOLEAN
    BY ActivityAssumption, Zenon DEF ActivityAssumption
  <2>2. QED
    BY <2>1, ListIsServed
<1>2. \A s \in Usable : \A g \in Built(s, NoFilter).groups : SchemaDetail(Detail(s, g))
  BY DetailIsServed, Zenon
<1>3. QED
  BY <1>1, <1>2, NothingIsServed, Zenon DEF ActivityIsServed

-----------------------------------------------------------------------------
(* Evidence as the schema has it.                                           *)

WellRows(rows) == \A row \in rows : SchemaAttempt(row)

LEMMA WellRowsNext ==
  ASSUME NEW rows, WellRows(rows)
  PROVE  WellRows(rows)'
BY Zenon DEF WellRows, SchemaAttempt, Level, Stages, NoProgress

(* The constraints on a stored attempt make its answer pass the schema.     *)
LEMMA StoredPasses ==
  ASSUME NEW a, Consistent(a), NEW n
  PROVE  SchemaAttempt(Listed(n, a))
<1>1. /\ Listed(n, a).state = a.state /\ Listed(n, a).progress = a.progress /\ Listed(n, a).cancel = a.cancel
  BY DEF Listed
<1>2. /\ a.state = "failed" => a.progress = NoProgress
      /\ a.state = "partial" => a.progress > NoProgress
      /\ a.state = "succeeded" => a.progress = Stages
      /\ a.state = "running" \/ (a.cancel <=> a.state = "cancelled")
  BY Zenon DEF Consistent
<1>3. PICK row : row = Listed(n, a)
  BY Zenon
<1>4. /\ row.cancel => row.state \in {"running", "cancelled"}
      /\ row.state = "cancelled" => row.cancel
  BY <1>1, <1>2, <1>3
<1>5. /\ row.state = "failed" => row.progress = NoProgress
      /\ row.state = "partial" => row.progress > NoProgress
      /\ row.state = "succeeded" => row.progress = Stages
  BY <1>1, <1>2, <1>3, Zenon
<1>6. row.progress = Stages => Level(row) = "chain_inclusion_proven"
  BY DEF Level, Stages
<1>7. QED
  BY <1>3, <1>4, <1>5, <1>6, Zenon DEF SchemaAttempt

LEMMA NewestAreWell ==
  ASSUME \A n \in 1..Len(attempts) : Consistent(attempts[n]), NEW s
  PROVE  WellRows(NewestAttempts(s))
<1>1. ASSUME NEW row \in NewestAttempts(s) PROVE SchemaAttempt(row)
  <2>1. PICK n \in AttemptsOf(s) : row = Listed(n, attempts[n])
    BY Zenon DEF NewestAttempts
  <2>2. Consistent(attempts[n])
    BY <2>1, Zenon DEF AttemptsOf
  <2>3. QED
    BY <2>1, <2>2, StoredPasses, Zenon
<1>2. QED
  BY <1>1, Zenon DEF WellRows

(* A worker leaves an attempt consistent.                                   *)
LEMMA SuccessorConsistent ==
  ASSUME NEW b \in AttemptRow, NEW a \in Successors(b)
  PROVE  Consistent(a)
<1>1. PICK g \in {g \in Glimpses : Follows(b, g)} :
        a = [b EXCEPT !.state = g.state, !.progress = g.progress, !.cancel = g.cancel, !.version = @ + 1]
  BY Zenon DEF Successors
<1>2. g \in [state : States, progress : 0..Stages, cancel : BOOLEAN] /\ Follows(b, g)
  BY <1>1, ReportAssumption, Zenon DEF ReportAssumption
<1>3. a.state = g.state /\ a.progress = g.progress /\ a.cancel = g.cancel
  <2>1. b = [snapshot |-> b.snapshot, activity |-> b.activity, row |-> b.row, semantic |-> b.semantic,
             state |-> b.state, progress |-> b.progress, version |-> b.version, cancel |-> b.cancel]
    BY DEF AttemptRow
  <2>2. QED
    BY <1>1, <2>1
<1>4. g.progress \in 0..4 /\ g.cancel \in BOOLEAN
  BY <1>2 DEF Stages
<1>5. QED
  BY <1>2, <1>3, <1>4 DEF Consistent, Follows, NoProgress, Stages

AllConsistent == \A n \in 1..Len(attempts) : Consistent(attempts[n])

LEMMA RequestedConsistent ==
  ASSUME AttemptsOK, AllConsistent, RequestVerification
  PROVE  \A n \in 1..Len(attempts') : Consistent(attempts'[n])
<1>1. PICK s \in Usable : \E v \in IF Answerable(s, NoFilter) THEN Verifiable(s) ELSE {} :
        attempts' = Append(attempts, Attempt(s, v))
  BY Zenon DEF RequestVerification, RequestVerificationAt
<1>2. PICK v \in IF Answerable(s, NoFilter) THEN Verifiable(s) ELSE {} : attempts' = Append(attempts, Attempt(s, v))
  BY <1>1, Zenon
<1>3. PICK a : a = Attempt(s, v)
  BY Zenon
<1>4. Consistent(a)
  BY <1>3 DEF Consistent, Attempt
<1>5. attempts \in Seq(AttemptRow) /\ attempts' = Append(attempts, a)
  BY <1>2, <1>3, Zenon DEF AttemptsOK
<1>6. /\ Len(attempts') = Len(attempts) + 1
      /\ \A n \in 1..Len(attempts) : attempts'[n] = attempts[n]
      /\ attempts'[Len(attempts) + 1] = a
  BY <1>5
<1>7. \A n \in 1..Len(attempts') : n \in 1..Len(attempts) \/ n = Len(attempts) + 1
  BY <1>5, <1>6
<1>8. QED
  BY <1>4, <1>6, <1>7, Zenon DEF AllConsistent

LEMMA AdvancedConsistent ==
  ASSUME AttemptsOK, AllConsistent, AdvanceAttempt
  PROVE  \A n \in 1..Len(attempts') : Consistent(attempts'[n])
<1>1. PICK n \in 1..Len(attempts) : \E a \in Successors(attempts[n]) : attempts' = [attempts EXCEPT ![n] = a]
  BY Zenon DEF AdvanceAttempt
<1>2. PICK a \in Successors(attempts[n]) : attempts' = [attempts EXCEPT ![n] = a]
  BY <1>1, Zenon
<1>3. PICK b : b = attempts[n]
  BY Zenon
<1>4. attempts \in Seq(AttemptRow)
  BY Zenon DEF AttemptsOK
<1>5. b \in AttemptRow
  BY <1>1, <1>3, <1>4
<1>6. Consistent(a)
  BY <1>2, <1>3, <1>5, SuccessorConsistent, Zenon
<1>7. Len(attempts') = Len(attempts) /\ \A m \in 1..Len(attempts) : attempts'[m] = IF m = n THEN a ELSE attempts[m]
  BY <1>2, <1>4
<1>8. QED
  BY <1>6, <1>7, Zenon DEF AllConsistent

-----------------------------------------------------------------------------
(* The catalog of attempts and the report.                                  *)

LEMMA NumbersOf ==
  ASSUME NEW S, IsFiniteSet(S), NEW T \in SUBSET S
  PROVE  Cardinality(T) \in Nat /\ Cardinality(S) \in Nat /\ Cardinality(T) <= Cardinality(S)
<1>1. IsFiniteSet(T) /\ Cardinality(T) <= Cardinality(S)
  BY FS_Subset, Zenon
<1>2. QED
  BY <1>1, FS_CardinalityType, Zenon

(* The counts of the Evidence are ordered.                                  *)
LEMMA EvidenceOrdered ==
  ASSUME NEW rows \in SUBSET ListedRow, IsFiniteSet(rows)
  PROVE  /\ Proven(rows, Stages) <= Proven(rows, 3) /\ Proven(rows, 3) <= Proven(rows, 2)
         /\ Proven(rows, 2) <= Cardinality(StrongestAttempts(rows))
         /\ Cardinality(StrongestAttempts(rows)) <= Cardinality(rows)
         /\ Proven(rows, Stages) \in Nat /\ Proven(rows, 3) \in Nat
<1> DEFINE S == StrongestAttempts(rows)
           P(n) == {a \in S : a.progress >= n}
<1>1. S \in SUBSET rows
  BY Zenon DEF StrongestAttempts
<1>2. IsFiniteSet(S) /\ Cardinality(S) <= Cardinality(rows)
  BY <1>1, FS_Subset, NumbersOf, Zenon
<1>3. P(2) \in SUBSET S
  BY Zenon
<1>4. \A a \in S : a.progress \in Int
  <2>1. \A a \in ListedRow : a.progress \in Int
    BY DEF ListedRow, Stages
  <2>2. QED
    BY <1>1, <2>1, Zenon
<1>5. P(3) \in SUBSET P(2) /\ P(Stages) \in SUBSET P(3)
  <2> HIDE DEF S
  <2>1. \A a \in S : (a.progress >= 3 => a.progress >= 2) /\ (a.progress >= Stages => a.progress >= 3)
    BY <1>4 DEF Stages
  <2>2. QED
    BY <2>1, Zenon
<1>6. Proven(rows, 2) = Cardinality(P(2)) /\ Proven(rows, 3) = Cardinality(P(3)) /\ Proven(rows, Stages) = Cardinality(P(Stages))
  BY Zenon DEF Proven
<1> HIDE DEF P
<1>7. IsFiniteSet(P(2)) /\ IsFiniteSet(P(3)) /\ Cardinality(P(2)) <= Cardinality(S)
  BY <1>2, <1>3, <1>5, FS_Subset, NumbersOf, Zenon
<1>8. Cardinality(P(3)) <= Cardinality(P(2)) /\ Cardinality(P(3)) \in Nat
  BY <1>5, <1>7, NumbersOf, Zenon
<1>9. Cardinality(P(Stages)) <= Cardinality(P(3)) /\ Cardinality(P(Stages)) \in Nat
  BY <1>5, <1>7, NumbersOf, Zenon
<1>10. QED
  BY <1>2, <1>6, <1>7, <1>8, <1>9, Zenon

(* The numbers of a whole answer.                                           *)
LEMMA ActivityNumbers ==
  ASSUME SyncsOK, NEW s
  PROVE  /\ ActivityPart(View(s, NoFilter)).aggregate.total \in Nat
         /\ ActivityPart(View(s, NoFilter)).aggregate.conflicts \in Nat
         /\ ActivityPart(View(s, NoFilter)).aggregate.perKind["transaction"] \in Nat
<1>1. NoFilter.oldest \in BOOLEAN
  BY DEF NoFilter
<1>2. PICK view, B, I : view = View(s, NoFilter) /\ B = Built(s, NoFilter) /\ I = Items(s, NoFilter)
  BY Zenon
<1>3. view.aggregate = Aggregate(I, B, NoFilter)
  <2>1. View(s, NoFilter).aggregate = Aggregate(Items(s, NoFilter), Built(s, NoFilter), NoFilter)
    BY <1>1, ViewFacts
  <2>2. QED
    BY <1>2, <2>1, Zenon
<1>4. ActivityPart(view).aggregate = view.aggregate
  BY DEF ActivityPart
<1>5. /\ Aggregate(I, B, NoFilter).total = Cardinality(I)
      /\ Aggregate(I, B, NoFilter).conflicts = Cardinality(MatchingConflicts(B, NoFilter))
  BY DEF Aggregate
<1>6. Cardinality(I) \in Nat
  BY <1>2, ItemFacts, FS_CardinalityType, Zenon
<1>7. Cardinality(MatchingConflicts(B, NoFilter)) \in Nat
  <2> DEFINE G == {g \in Groups0(s, NoFilter) : ~ Agrees(g)}
             f == [g \in G |-> {Item({r}) : r \in g}]
  <2>1. B.conflicts = {{Item({r}) : r \in g} : g \in G}
    BY <1>2, BuiltFields
  <2>2. DOMAIN f = G /\ {f[g] : g \in G} = {{Item({r}) : r \in g} : g \in G}
    BY Zenon
  <2>3. IsFiniteSet(G)
    <3>1. Admissible(s, NoFilter) \in SUBSET Rows /\ IsFiniteSet(Admissible(s, NoFilter))
      BY AdmissibleFacts, Zenon
    <3>2. IsFiniteSet(Groups0(s, NoFilter))
      BY <3>1, GroupFacts, Zenon DEF Groups0
    <3>3. G \in SUBSET Groups0(s, NoFilter)
      BY Zenon
    <3>4. QED
      BY <3>2, <3>3, FS_Subset, Zenon
  <2> HIDE DEF f, G
  <2>4. IsFiniteSet({f[g] : g \in G})
    BY <2>2, <2>3, ImageIsFinite
  <2>5. MatchingConflicts(B, NoFilter) \in SUBSET B.conflicts
    BY Zenon DEF MatchingConflicts
  <2>6. QED
    BY <2>1, <2>2, <2>4, <2>5, FS_Subset, FS_CardinalityType, Zenon
<1>8. ActivityPart(view).aggregate.perKind["transaction"] \in Nat
  BY <1>2, TransactionsCounted, FS_CardinalityType, Zenon
<1>9. QED
  BY <1>2, <1>3, <1>4, <1>5, <1>6, <1>7, <1>8, Zenon

(* The report of a usable snapshot passes its schema when it counts no      *)
(* fewer attempts than it lists.                                            *)
LEMMA ReportPasses ==
  ASSUME SyncsOK, NEW s \in Usable, NEW rows \in BoundRows(s), NEW total \in Nat, Cardinality(rows) <= total,
         environment \in {"live", "demo"}
  PROVE  SchemaReport(ReportOf(s, rows, total))
<1>1. PICK activity, E, U : activity = ActivityPart(View(s, NoFilter)) /\ E = EvidenceRevision(rows, total) /\ U = Unmet(s, activity, E)
  BY Zenon
<1>2. rows \in SUBSET ListedRow /\ IsFiniteSet(rows)
  BY Zenon DEF BoundRows
<1>3. ReportOf(s, rows, total) = ReportOn(s, activity, E, U)
  BY <1>1, ReportIs, Zenon DEF ReportOf
<1>4. PICK assurance, limitations, claims :
        /\ assurance = AssuranceLevel(E, U = {}) /\ limitations = ReportLimitations(activity, E, assurance)
        /\ claims = {[code |-> c, affected |-> AffectedCount(c, activity, E)] : c \in U}
  BY Zenon
<1>5. PICK eligible \in BOOLEAN : eligible = (U = {})
  <2>1. (U = {}) \in BOOLEAN
    OBVIOUS
  <2>2. QED
    BY <2>1, Zenon
<1>6. PICK report : report = ReportOf(s, rows, total)
  BY Zenon
<1>7. report = [snapshot |-> s, environment |-> environment, assurance |-> assurance,
                activity |-> activity, evidence |-> E, unmet |-> U, eligible |-> eligible,
                limitations |-> limitations, claims |-> claims]
  BY <1>3, <1>4, <1>5, <1>6, Zenon DEF ReportOn
<1>8. /\ report.environment = environment /\ report.assurance = assurance /\ report.evidence = E
      /\ report.eligible = eligible /\ report.claims = claims
  BY <1>7
<1>9. /\ E.total = total /\ E.returned = Cardinality(rows) /\ E.selected = Cardinality(StrongestAttempts(rows))
      /\ E.local = Proven(rows, 2) /\ E.chain = Proven(rows, 3) /\ E.ledger = Proven(rows, Stages)
      /\ E.truncated <=> total > Cardinality(rows)
  BY <1>1, EvidenceFields
<1>10. /\ E.returned <= E.total /\ (E.truncated <=> E.total > E.returned)
       /\ E.ledger <= E.chain /\ E.chain <= E.local /\ E.local <= E.selected /\ E.selected <= E.returned
       /\ E.ledger \in Nat /\ E.chain \in Nat
  BY <1>2, <1>9, EvidenceOrdered, Zenon
<1>11. U # {}
  BY <1>1, Zenon DEF Unmet, FullHistoryProven
<1>12. eligible <=> assurance = "canonical"
  BY <1>4, <1>5, <1>11 DEF AssuranceLevel
<1>13. environment = "demo" => assurance = "observed"
  BY <1>4, <1>11 DEF AssuranceLevel
<1>14. \A claim \in claims : claim.affected >= NotCounted
  <2>1. /\ activity.aggregate.total \in Nat /\ activity.aggregate.conflicts \in Nat
        /\ activity.aggregate.perKind["transaction"] \in Nat
    BY <1>1, ActivityNumbers, Zenon
  <2>2. Cardinality(rows) \in Nat
    BY <1>2, FS_CardinalityType, Zenon
  <2>3. \A n \in Int : Max({0, n}) >= NotCounted
    <3>1. SUFFICES ASSUME NEW n \in Int PROVE Max({0, n}) >= NotCounted
      BY Zenon
    <3>2. 0 \in Int /\ n \in Int
      OBVIOUS
    <3>3. Max({0, n}) = IF 0 >= n THEN 0 ELSE n
      BY <3>2, MaxMinOfTwo
    <3>4. QED
      BY <3>3 DEF NotCounted
  <2>4. PICK transactions : transactions = activity.aggregate.perKind["transaction"]
    BY Zenon
  <2>5. transactions - E.chain \in Int /\ transactions - E.ledger \in Int
    BY <1>10, <2>1, <2>4
  <2>6. Max({0, transactions - E.chain}) >= NotCounted /\ Max({0, transactions - E.ledger}) >= NotCounted
    BY <2>3, <2>5, Zenon
  <2>7. PICK x, y : x = Max({0, transactions - E.chain}) /\ y = Max({0, transactions - E.ledger})
    BY Zenon
  <2>8. x >= NotCounted /\ y >= NotCounted
    BY <2>6, <2>7, Zenon
  <2>9. /\ activity.aggregate.total >= NotCounted /\ activity.aggregate.conflicts >= NotCounted
        /\ E.total - E.returned >= NotCounted /\ NotCounted >= NotCounted
    BY <1>9, <2>1, <2>2 DEF NotCounted
  <2>10. ASSUME NEW c PROVE AffectedCount(c, activity, E) >= NotCounted
    <3>1. AffectedCount(c, activity, E) =
            CASE c = "activity_required" -> activity.aggregate.total
              [] c = "identity_conflicts_must_be_resolved" -> activity.aggregate.conflicts
              [] c = "evidence_history_must_be_fully_revalidated" -> E.total - E.returned
              [] c = "every_transaction_must_be_chain_proven" -> x
              [] c = "every_transaction_needs_native_ledger" -> y
              [] OTHER -> NotCounted
      BY <2>4, <2>7, Zenon DEF AffectedCount
    <3>2. AffectedCount(c, activity, E) \in {activity.aggregate.total, activity.aggregate.conflicts, E.total - E.returned, x, y, NotCounted}
      BY <3>1
    <3>3. QED
      BY <2>8, <2>9, <3>2, Zenon
  <2>11. ASSUME NEW claim \in claims PROVE claim.affected >= NotCounted
    <3>1. PICK c \in U : claim = [code |-> c, affected |-> AffectedCount(c, activity, E)]
      BY <1>4, Zenon
    <3>2. claim.affected = AffectedCount(c, activity, E)
      BY <3>1
    <3>3. QED
      BY <2>10, <3>2, Zenon
  <2>12. QED
    BY <2>11, Zenon
<1>15. SchemaReport(report)
  BY <1>8, <1>10, <1>12, <1>13, <1>14, Zenon DEF SchemaReport
<1>16. QED
  BY <1>6, <1>15, Zenon

(* A function of a finite set counts its values.                            *)
StateCount(rows, state) == Cardinality({row \in rows : row.state = state})
LevelCount(rows, level) == Cardinality({row \in rows : Level(row) = level})

LEMMA StatesCounted ==
  ASSUME NEW rows \in SUBSET ListedRow, IsFiniteSet(rows)
  PROVE  Cardinality(rows) = StateCount(rows, "queued") + StateCount(rows, "running") + StateCount(rows, "partial")
                             + StateCount(rows, "succeeded") + StateCount(rows, "failed") + StateCount(rows, "cancelled")
<1> DEFINE A(state) == {row \in rows : row.state = state}
           R1 == rows \ A("queued")
           R2 == R1 \ A("running")
           R3 == R2 \ A("partial")
           R4 == R3 \ A("succeeded")
           R5 == R4 \ A("failed")
<1>1. \A row \in rows : row.state \in States
  BY DEF ListedRow
<1>2. R5 = A("cancelled")
  BY <1>1 DEF States
<1>3. A("queued") \in SUBSET rows /\ A("running") \in SUBSET R1 /\ A("partial") \in SUBSET R2
      /\ A("succeeded") \in SUBSET R3 /\ A("failed") \in SUBSET R4
  OBVIOUS
<1>4. \A state : StateCount(rows, state) = Cardinality(A(state))
  BY Zenon DEF StateCount
<1> HIDE DEF A
<1>5. /\ IsFiniteSet(R1) /\ Cardinality(A("queued")) \in Nat /\ Cardinality(R1) \in Nat
      /\ Cardinality(rows) = Cardinality(A("queued")) + Cardinality(R1)
  BY <1>3, CountedApart, Zenon
<1> HIDE DEF R1
<1>6. /\ IsFiniteSet(R2) /\ Cardinality(A("running")) \in Nat /\ Cardinality(R2) \in Nat
      /\ Cardinality(R1) = Cardinality(A("running")) + Cardinality(R2)
  BY <1>3, <1>5, CountedApart, Zenon
<1> HIDE DEF R2
<1>7. /\ IsFiniteSet(R3) /\ Cardinality(A("partial")) \in Nat /\ Cardinality(R3) \in Nat
      /\ Cardinality(R2) = Cardinality(A("partial")) + Cardinality(R3)
  BY <1>3, <1>6, CountedApart, Zenon
<1> HIDE DEF R3
<1>8. /\ IsFiniteSet(R4) /\ Cardinality(A("succeeded")) \in Nat /\ Cardinality(R4) \in Nat
      /\ Cardinality(R3) = Cardinality(A("succeeded")) + Cardinality(R4)
  BY <1>3, <1>7, CountedApart, Zenon
<1> HIDE DEF R4
<1>9. /\ Cardinality(A("failed")) \in Nat /\ Cardinality(R5) \in Nat
      /\ Cardinality(R4) = Cardinality(A("failed")) + Cardinality(R5)
  BY <1>3, <1>8, CountedApart, Zenon
<1> HIDE DEF R5
<1>10. Cardinality(rows) = Cardinality(A("queued")) + Cardinality(A("running")) + Cardinality(A("partial"))
                           + Cardinality(A("succeeded")) + Cardinality(A("failed")) + Cardinality(R5)
  BY <1>5, <1>6, <1>7, <1>8, <1>9
<1>11. PICK a, b, c, d, e, f :
         /\ a = Cardinality(A("queued")) /\ b = Cardinality(A("running")) /\ c = Cardinality(A("partial"))
         /\ d = Cardinality(A("succeeded")) /\ e = Cardinality(A("failed")) /\ f = Cardinality(R5)
  BY Zenon
<1>12. /\ StateCount(rows, "queued") = a /\ StateCount(rows, "running") = b /\ StateCount(rows, "partial") = c
       /\ StateCount(rows, "succeeded") = d /\ StateCount(rows, "failed") = e /\ StateCount(rows, "cancelled") = f
  BY <1>2, <1>4, <1>11, Zenon
<1>13. Cardinality(rows) = a + b + c + d + e + f
  BY <1>10, <1>11, Zenon
<1>14. QED
  BY <1>12, <1>13, Zenon

LEMMA LevelsCounted ==
  ASSUME NEW rows, IsFiniteSet(rows)
  PROVE  Cardinality(rows) = LevelCount(rows, "normalized") + LevelCount(rows, "locally_verified")
                             + LevelCount(rows, "chain_inclusion_proven")
<1> DEFINE A(level) == {row \in rows : Level(row) = level}
           R1 == rows \ A("normalized")
           R2 == R1 \ A("locally_verified")
<1>1. \A row : Level(row) \in {"normalized", "locally_verified", "chain_inclusion_proven"}
  BY DEF Level
<1>2. R2 = A("chain_inclusion_proven")
  BY <1>1
<1>3. A("normalized") \in SUBSET rows /\ A("locally_verified") \in SUBSET R1
  OBVIOUS
<1>4. \A level : LevelCount(rows, level) = Cardinality(A(level))
  BY Zenon DEF LevelCount
<1> HIDE DEF A
<1>5. /\ IsFiniteSet(R1) /\ Cardinality(A("normalized")) \in Nat /\ Cardinality(R1) \in Nat
      /\ Cardinality(rows) = Cardinality(A("normalized")) + Cardinality(R1)
  BY <1>3, CountedApart, Zenon
<1> HIDE DEF R1
<1>6. /\ Cardinality(A("locally_verified")) \in Nat /\ Cardinality(R2) \in Nat
      /\ Cardinality(R1) = Cardinality(A("locally_verified")) + Cardinality(R2)
  BY <1>3, <1>5, CountedApart, Zenon
<1> HIDE DEF R2
<1>7. Cardinality(rows) = Cardinality(A("normalized")) + Cardinality(A("locally_verified")) + Cardinality(R2)
  BY <1>5, <1>6
<1>8. PICK a, b, c : a = Cardinality(A("normalized")) /\ b = Cardinality(A("locally_verified")) /\ c = Cardinality(R2)
  BY Zenon
<1>9. LevelCount(rows, "normalized") = a /\ LevelCount(rows, "locally_verified") = b /\ LevelCount(rows, "chain_inclusion_proven") = c
  BY <1>2, <1>4, <1>8, Zenon
<1>10. Cardinality(rows) = a + b + c
  BY <1>7, <1>8, Zenon
<1>11. QED
  BY <1>9, <1>10, Zenon

(* The catalog of the attempts that a report lists.                         *)
LEMMA CatalogPasses ==
  ASSUME NEW rows \in SUBSET ListedRow, IsFiniteSet(rows), NEW total \in Nat, Cardinality(rows) <= total,
         NEW runner \in BOOLEAN, NEW runtime \in BOOLEAN, environment \in {"live", "demo"}
  PROVE  SchemaCatalog(Catalog(rows, total, runner, runtime))
<1>1. PICK limitation, returned : limitation = RuntimeLimitation(runner, runtime) /\ returned = Cardinality(rows)
  BY Zenon
<1>2. PICK states, levels : /\ states = [s \in States |-> StateCount(rows, s)]
                            /\ levels = [l \in Levels |-> LevelCount(rows, l)]
  BY Zenon
<1>3. PICK limitations :
        limitations = limitation
          \cup {IF environment = "demo" THEN "demo_evidence_not_verifiable" ELSE "selective_transaction_evidence"}
          \cup {c \in {"catalog_history_not_revalidated"} : total > returned}
  BY Zenon
<1>4. PICK truncated \in BOOLEAN, available \in BOOLEAN :
        truncated = (total > returned) /\ available = (environment = "live" /\ limitation = {})
  <2>1. (total > returned) \in BOOLEAN /\ (environment = "live" /\ limitation = {}) \in BOOLEAN
    OBVIOUS
  <2>2. QED
    BY <2>1, Zenon
<1>5. PICK catalog : catalog = Catalog(rows, total, runner, runtime)
  BY Zenon
<1>6. catalog = [returned |-> returned, total |-> total, truncated |-> truncated, states |-> states, levels |-> levels,
                 available |-> available, limitations |-> limitations]
  BY <1>1, <1>2, <1>3, <1>4, <1>5, Zenon DEF Catalog, StateCount, LevelCount
<1>7. /\ catalog.returned = returned /\ catalog.total = total /\ catalog.truncated = truncated /\ catalog.states = states
      /\ catalog.levels = levels /\ catalog.available = available /\ catalog.limitations = limitations
  BY <1>6
<1>8. returned = states["queued"] + states["running"] + states["partial"] + states["succeeded"] + states["failed"] + states["cancelled"]
  <2>1. \A s \in States : states[s] = StateCount(rows, s)
    BY <1>2, Zenon
  <2>2. "queued" \in States /\ "running" \in States /\ "partial" \in States /\ "succeeded" \in States /\ "failed" \in States
        /\ "cancelled" \in States
    BY DEF States
  <2>3. QED
    BY <1>1, <2>1, <2>2, StatesCounted, Zenon
<1>9. returned = levels["normalized"] + levels["locally_verified"] + levels["chain_inclusion_proven"]
  <2>1. \A l \in Levels : levels[l] = LevelCount(rows, l)
    BY <1>2, Zenon
  <2>2. "normalized" \in Levels /\ "locally_verified" \in Levels /\ "chain_inclusion_proven" \in Levels
    BY DEF Levels
  <2>3. QED
    BY <1>1, <2>1, <2>2, LevelsCounted, Zenon
<1>10. returned <= total /\ (truncated <=> total > returned)
       /\ (truncated => "catalog_history_not_revalidated" \in limitations)
  BY <1>1, <1>3, <1>4
<1>11. environment = "demo" => ~ available /\ "demo_evidence_not_verifiable" \in limitations
  BY <1>3, <1>4
<1>12. available <=> limitations \cap {"demo_evidence_not_verifiable", "evidence_runner_unavailable", "evidence_runtime_unavailable"} = {}
  BY <1>1, <1>3, <1>4 DEF RuntimeLimitation
<1>13. SchemaCatalog(catalog)
  BY <1>7, <1>8, <1>9, <1>10, <1>11, <1>12, Zenon DEF SchemaCatalog
<1>14. QED
  BY <1>5, <1>13, Zenon

-----------------------------------------------------------------------------
(* The catalog of stored reports and their comparison.                      *)

LEMMA HistoryPasses ==
  ASSUME NEW X, revisions \in Seq(X)
  PROVE  SchemaHistory(RevisionPage(Len(revisions), 0), Len(revisions))
<1>1. PICK cutoff, page, n : cutoff = Len(revisions) /\ page = RevisionPage(cutoff, 0) /\ n = Turn(cutoff, 0)
  BY Zenon
<1>2. cutoff \in Nat /\ cutoff \in 0..Len(revisions) /\ 0 \in 0..cutoff
  BY <1>1
<1>3. CatalogPosition(cutoff, 0) = 0
  BY DEF CatalogPosition
<1>4. /\ RevisionPage(cutoff, CatalogPosition(cutoff, 0)).items = [i \in 1..Turn(cutoff, 0) |-> Left(cutoff, 0) + 1 - i]
      /\ RevisionPage(cutoff, CatalogPosition(cutoff, 0)).total = cutoff
  BY <1>2, RevisionPageIs, Zenon
<1>5. page.items = [i \in 1..n |-> Left(cutoff, 0) + 1 - i] /\ page.total = cutoff
  BY <1>1, <1>3, <1>4, Zenon
<1>6. RevisionLimit \in Nat
  BY ReportAssumption DEF ReportAssumption
<1>7. n \in Nat /\ n <= cutoff /\ n <= RevisionLimit /\ Left(cutoff, 0) = cutoff
  BY <1>1, <1>2, <1>6 DEF Turn, Left
<1>8. PICK items : items = [i \in 1..n |-> cutoff + 1 - i]
  BY Zenon
<1>9. page.items = items
  BY <1>5, <1>7, <1>8, Zenon
<1>10. Len(items) = n /\ DOMAIN items = 1..n /\ \A i \in 1..n : items[i] = cutoff + 1 - i
  BY <1>2, <1>7, <1>8
<1>11. \A i, j \in 1..n : items[i] = items[j] => i = j
  BY <1>2, <1>7, <1>10
<1>12. IsInjective(page.items)
  BY <1>9, <1>10, <1>11, Zenon DEF IsInjective
<1>13. cutoff = 0 <=> page.total = 0
  BY <1>5, Zenon
<1>14. Len(page.items) <= page.total /\ Len(page.items) <= RevisionLimit
  BY <1>5, <1>7, <1>9, <1>10, Zenon
<1>15. SchemaHistory(page, cutoff)
  BY <1>12, <1>13, <1>14, Zenon DEF SchemaHistory
<1>16. QED
  BY <1>1, <1>15, Zenon

LEMMA CodesApart ==
  ASSUME NEW baseline, NEW target
  PROVE  CodeChanges(baseline, target).added \cap CodeChanges(baseline, target).removed = {}
<1>1. PICK n : n = Cardinality(baseline \cap target)
  BY Zenon
<1>2. CodeChanges(baseline, target) = [added |-> target \ baseline, removed |-> baseline \ target, unchanged |-> n]
  BY <1>1, Zenon DEF CodeChanges
<1>3. CodeChanges(baseline, target).added = target \ baseline /\ CodeChanges(baseline, target).removed = baseline \ target
  BY <1>2
<1>4. QED
  BY <1>3

LEMMA ClaimsApart ==
  ASSUME NEW baseline, NEW target
  PROVE  /\ ClaimChanges(baseline, target).added \cap ClaimChanges(baseline, target).removed = {}
         /\ ClaimChanges(baseline, target).modified
              \cap (ClaimChanges(baseline, target).added \cup ClaimChanges(baseline, target).removed) = {}
<1>1. PICK B, T, same : B = {c.code : c \in baseline} /\ T = {c.code : c \in target} /\ same = {c.code : c \in baseline \cap target}
  BY Zenon
<1>2. PICK n : n = Cardinality((B \cap T) \cap same)
  BY Zenon
<1>3. ClaimChanges(baseline, target) =
        [added |-> T \ B, removed |-> B \ T, modified |-> (B \cap T) \ same, unchanged |-> n]
  BY <1>1, <1>2, Zenon DEF ClaimChanges
<1>4. /\ ClaimChanges(baseline, target).added = T \ B /\ ClaimChanges(baseline, target).removed = B \ T
      /\ ClaimChanges(baseline, target).modified = (B \cap T) \ same
  BY <1>3
<1>5. QED
  BY <1>4

LEMMA ComparisonPasses ==
  ASSUME NEW m, NEW n
  PROVE  SchemaComparison(Compared(m, n))
<1>1. PICK R, T : R = revisions[m] /\ T = revisions[n]
  BY Zenon
<1>2. PICK same, content, activity, evidence, number :
        /\ same = (R.snapshot = T.snapshot) /\ content = (R # T)
        /\ activity = (R.activity.aggregate # T.activity.aggregate \/ R.activity.observed # T.activity.observed)
        /\ evidence = (R.evidence.attempts # T.evidence.attempts \/ R.evidence.total # T.evidence.total)
        /\ number = T.evidence.total - R.evidence.total
  BY Zenon
<1>3. PICK gate, gaps, limitations, claims :
        /\ gate = CodeChanges(R.unmet, T.unmet)
        /\ gaps = CodeChanges(R.activity.gaps, T.activity.gaps)
        /\ limitations = CodeChanges(R.limitations, T.limitations) /\ claims = ClaimChanges(R.claims, T.claims)
  BY Zenon
<1>4. PICK c : c = Compared(m, n)
  BY Zenon
<1>5. c = [sameSnapshot |-> same, contentChanged |-> content, activityChanged |-> activity,
           evidenceChanged |-> evidence, attempts |-> number, gate |-> gate, gaps |-> gaps,
           limitations |-> limitations, claims |-> claims]
  BY <1>1, <1>2, <1>3, <1>4, Zenon DEF Compared
<1>6. c.gate = gate /\ c.gaps = gaps /\ c.limitations = limitations /\ c.claims = claims
  BY <1>5
<1>7. /\ gate.added \cap gate.removed = {} /\ gaps.added \cap gaps.removed = {}
      /\ limitations.added \cap limitations.removed = {}
  BY <1>3, CodesApart, Zenon
<1>8. claims.added \cap claims.removed = {} /\ claims.modified \cap (claims.added \cup claims.removed) = {}
  BY <1>3, ClaimsApart, Zenon
<1>9. SchemaComparison(c)
  BY <1>6, <1>7, <1>8, Zenon DEF SchemaComparison
<1>10. QED
  BY <1>4, <1>9, Zenon

-----------------------------------------------------------------------------
(* What the reports keep for their schemas: no request lists more attempts  *)
(* than there are to count, and no content is stored twice.                 *)

WellRead(b) ==
  /\ WellRows(b.rows)
  /\ deleted \/ /\ b.at = "count" => Cardinality(b.rows) <= Cardinality(AttemptsOf(b.snapshot))
                /\ b.at \in {"built", "insert"} => Cardinality(b.rows) <= b.total

AnswersOK ==
  /\ AllConsistent
  /\ IsInjective(revisions)
  /\ \A p \in Readers : WellRead(building[p])

(* No snapshot loses an attempt but with its case.                          *)
Grown == deleted' \/ (~ deleted /\ \A s : Cardinality(AttemptsOf(s)) <= Cardinality(AttemptsOf(s)'))

LEMMA CountsAreNumbers == AttemptsOK => \A t : Cardinality(AttemptsOf(t)) \in Nat
BY CountIsNumber, Zenon

LEMMA CountsAreNumbersNext == (AttemptsOK => \A t : Cardinality(AttemptsOf(t)) \in Nat)'
BY CountsAreNumbers, PTL

LEMMA WellReadWaits ==
  ASSUME AttemptsOK, AttemptsOK', Grown, NEW b, BuildingOK(b), WellRead(b)
  PROVE  WellRead(b)'
<1>1. PICK rows, s : rows = b.rows /\ s = b.snapshot
  BY Zenon
<1>2. WellRows(rows)'
  BY <1>1, WellRowsNext, Zenon DEF WellRead
<1>3. CASE ~ deleted' /\ b.at = "count"
  <2>1. rows \in BoundRows(s)
    BY <1>1, <1>3 DEF BuildingOK
  <2>2. Cardinality(rows) \in Nat
    BY <2>1, FS_CardinalityType, Zenon DEF BoundRows
  <2>3. Cardinality(rows) <= Cardinality(AttemptsOf(s)) /\ Cardinality(AttemptsOf(s)) <= Cardinality(AttemptsOf(s)')
    BY <1>1, <1>3, Zenon DEF WellRead, Grown
  <2>4. Cardinality(AttemptsOf(s)) \in Nat
    BY CountIsNumber, Zenon
  <2>5. Cardinality(AttemptsOf(s)') \in Nat
    BY CountsAreNumbersNext, Zenon
  <2>6. Cardinality(rows) <= Cardinality(AttemptsOf(s)')
    BY <2>2, <2>3, <2>4, <2>5
  <2>7. QED
    BY <1>1, <1>2, <1>3, <2>6 DEF WellRead
<1>4. CASE deleted' \/ b.at # "count"
  <2>1. deleted' \/ (b.at \in {"built", "insert"} => Cardinality(b.rows) <= b.total)
    BY Zenon DEF WellRead, Grown
  <2>2. QED
    BY <1>1, <1>2, <1>4, <2>1, Zenon DEF WellRead
<1>5. QED
  BY <1>3, <1>4, Zenon

LEMMA WellReadSame ==
  ASSUME attempts' = attempts, deleted' = deleted, NEW b, WellRead(b)
  PROVE  WellRead(b)'
<1>1. PICK rows, s : rows = b.rows /\ s = b.snapshot
  BY Zenon
<1>2. WellRows(rows)'
  BY <1>1, WellRowsNext, Zenon DEF WellRead
<1>3. AttemptsOf(s)' = AttemptsOf(s)
  BY Zenon DEF AttemptsOf
<1>4. QED
  BY <1>1, <1>2, <1>3, Zenon DEF WellRead

LEMMA OutcomeReads ==
  ASSUME BuildingsOK, \A q \in Readers : WellRead(building[q]), attempts' = attempts, deleted' = deleted,
         NEW p \in Readers, NEW step, Outcome(p, step), WellRead(step)
  PROVE  \A q \in Readers : WellRead(building[q])'
<1>1. building' = [q \in Readers |-> IF q = p THEN step ELSE building[q]]
  <2>1. building' = [building EXCEPT ![p] = step]
    BY Zenon DEF Outcome
  <2>2. PICK f : f = building
    BY Zenon
  <2>3. f = [q \in Readers |-> f[q]]
    BY <2>2, Zenon DEF BuildingsOK
  <2>4. building' = [q \in Readers |-> IF q = p THEN step ELSE f[q]]
    BY <2>1, <2>2, <2>3
  <2>5. QED
    BY <2>2, <2>4, Zenon
<1>2. ASSUME NEW q \in Readers PROVE WellRead(building[q])'
  <2>1. PICK b : b = IF q = p THEN step ELSE building[q]
    BY Zenon
  <2>2. WellRead(b)
    BY <2>1, Zenon
  <2>3. WellRead(b)'
    BY <2>2, WellReadSame, Zenon
  <2>4. building'[q] = b
    BY <1>1, <2>1, Zenon
  <2>5. QED
    BY <2>3, <2>4, Zenon
<1>3. QED
  BY <1>2, Zenon

LEMMA UnreadIsWell == WellRead(Unread)
<1>1. Unread.at = "idle" /\ Unread.rows = {}
  BY DEF Unread
<1>2. QED
  BY <1>1 DEF WellRead, WellRows

LEMMA NewestAreSome ==
  ASSUME AttemptsOK, NEW s
  PROVE  Cardinality(NewestAttempts(s)) <= Cardinality(AttemptsOf(s))
<1> DEFINE N == {n \in AttemptsOf(s) : Cardinality({m \in AttemptsOf(s) : m > n}) < AttemptLimit}
           f == [n \in N |-> Listed(n, attempts[n])]
<1>1. N \in SUBSET AttemptsOf(s)
  BY Zenon
<1>2. NewestAttempts(s) = {f[n] : n \in N} /\ DOMAIN f = N
  BY Zenon DEF NewestAttempts
<1> HIDE DEF N, f
<1>3. IsFiniteSet(AttemptsOf(s)) /\ Cardinality(AttemptsOf(s)) \in Nat
  BY CountIsNumber, Zenon
<1>4. IsFiniteSet(N) /\ Cardinality(N) <= Cardinality(AttemptsOf(s))
  BY <1>1, <1>3, FS_Subset, Zenon
<1>5. PICK I : I = {f[n] : n \in N}
  BY Zenon
<1>6. IsFiniteSet(I) /\ Cardinality(I) <= Cardinality(N)
  BY <1>2, <1>4, <1>5, ImageOf, Zenon
<1>7. Cardinality(I) \in Nat /\ Cardinality(N) \in Nat
  BY <1>4, <1>6, FS_CardinalityType, Zenon
<1>8. Cardinality(I) <= Cardinality(AttemptsOf(s))
  BY <1>3, <1>4, <1>6, <1>7
<1>9. QED
  BY <1>2, <1>5, <1>8, Zenon

LEMMA RequestReads ==
  ASSUME BuildingsOK, AttemptsOK, AnswersOK, NEW p \in Readers,
         ReadActivity(p) \/ ReadAttempts(p) \/ CountAttempts(p) \/ ReturnReport(p) \/ LookForRevision(p) \/ InsertRevision(p)
  PROVE  \A q \in Readers : WellRead(building[q])'
<1>0. /\ attempts' = attempts /\ deleted' = deleted /\ \A q \in Readers : WellRead(building[q])
  BY Zenon DEF ReadActivity, ReadActivityAt, ReadAttempts, CountAttempts, ReturnReport, LookForRevision, InsertRevision, AnswersOK
<1>1. ASSUME NEW step, Outcome(p, step), WellRead(step)
      PROVE  \A q \in Readers : WellRead(building[q])'
  BY <1>0, <1>1, OutcomeReads, Zenon
<1>2. ASSUME Abandon(p)
      PROVE  \A q \in Readers : WellRead(building[q])'
  BY <1>1, <1>2, UnreadIsWell, Zenon DEF Abandon
<1>3. PICK b : b = building[p]
  BY Zenon
<1>4. /\ b = [at |-> b.at, store |-> b.store, snapshot |-> b.snapshot, activity |-> b.activity,
              items |-> b.items, rows |-> b.rows, total |-> b.total]
      /\ WellRead(b) /\ BuildingOK(b)
  BY <1>0, <1>3, Zenon DEF BuildingsOK, BuildingOK
<1>5. CASE ReadActivity(p)
  <2>1. PICK pinned \in {NoSync} \cup SyncIds, store \in BOOLEAN :
          \E view \in {Dataset(pinned)} :
             Outcome(p, [Unread EXCEPT !.at = "attempts", !.store = store, !.snapshot = view.snapshot,
                                       !.activity = ActivityPart(view), !.items = IF store THEN {} ELSE ToSet(view.ordered)])
    BY <1>5, Zenon DEF ReadActivity, ReadActivityAt
  <2>2. PICK view : Outcome(p, [Unread EXCEPT !.at = "attempts", !.store = store, !.snapshot = view.snapshot,
                                       !.activity = ActivityPart(view), !.items = IF store THEN {} ELSE ToSet(view.ordered)])
    BY <2>1, Zenon
  <2>3. PICK s, activity, items : s = view.snapshot /\ activity = ActivityPart(view)
                                  /\ items = (IF store THEN {} ELSE ToSet(view.ordered))
    BY Zenon
  <2>4. PICK step : step = [Unread EXCEPT !.at = "attempts", !.store = store, !.snapshot = s, !.activity = activity, !.items = items]
    BY Zenon
  <2>5. Outcome(p, step)
    BY <2>2, <2>3, <2>4, Zenon
  <2>6. step.at = "attempts" /\ step.rows = {}
    BY <2>4 DEF Unread
  <2>7. WellRead(step)
    BY <2>6 DEF WellRead, WellRows
  <2>8. QED
    BY <1>1, <2>5, <2>7, Zenon
<1>6. CASE ReadAttempts(p)
  <2>1. CASE Outcome(p, [building[p] EXCEPT !.at = "count", !.rows = NewestAttempts(building[p].snapshot)])
    <3>1. PICK rows, s : s = b.snapshot /\ rows = NewestAttempts(s)
      BY Zenon
    <3>2. PICK step : step = [b EXCEPT !.at = "count", !.rows = rows]
      BY Zenon
    <3>3. Outcome(p, step)
      BY <1>3, <2>1, <3>1, <3>2, Zenon
    <3>4. step.at = "count" /\ step.rows = rows /\ step.snapshot = s
      BY <1>4, <3>1, <3>2
    <3>5. Cardinality(rows) <= Cardinality(AttemptsOf(s))
      BY <3>1, NewestAreSome, Zenon
    <3>6. WellRows(rows)
      BY <3>1, NewestAreWell, Zenon DEF AnswersOK, AllConsistent
    <3>7. WellRead(step)
      BY <3>4, <3>5, <3>6 DEF WellRead
    <3>8. QED
      BY <1>1, <3>3, <3>7, Zenon
  <2>2. QED
    BY <1>2, <1>6, <2>1, Zenon DEF ReadAttempts
<1>7. CASE CountAttempts(p)
  <2>1. CASE Outcome(p, [building[p] EXCEPT !.at = "built", !.total = Cardinality(AttemptsOf(building[p].snapshot))])
    <3>1. PICK total : total = Cardinality(AttemptsOf(b.snapshot))
      BY Zenon
    <3>2. PICK step : step = [b EXCEPT !.at = "built", !.total = total]
      BY Zenon
    <3>3. Outcome(p, step)
      BY <1>3, <2>1, <3>1, <3>2, Zenon
    <3>4. step.at = "built" /\ step.rows = b.rows /\ step.total = total
      BY <1>4, <3>2
    <3>5. b.at = "count"
      BY <1>3, <1>7, Zenon DEF CountAttempts
    <3>6. WellRows(b.rows) /\ (deleted \/ Cardinality(b.rows) <= total)
      BY <1>4, <3>1, <3>5, Zenon DEF WellRead
    <3>7. WellRead(step)
      BY <3>4, <3>6 DEF WellRead
    <3>8. QED
      BY <1>1, <3>3, <3>7, Zenon
  <2>2. QED
    BY <1>2, <1>7, <2>1, Zenon DEF CountAttempts
<1>8. CASE ReturnReport(p) \/ InsertRevision(p)
  BY <1>2, <1>8, Zenon DEF ReturnReport, InsertRevision
<1>9. CASE LookForRevision(p)
  <2>1. CASE Outcome(p, [building[p] EXCEPT !.at = "insert"])
    <3>1. PICK step : step = [b EXCEPT !.at = "insert"]
      BY Zenon
    <3>2. Outcome(p, step)
      BY <1>3, <2>1, <3>1, Zenon
    <3>3. step.at = "insert" /\ step.rows = b.rows /\ step.total = b.total
      BY <1>4, <3>1
    <3>4. b.at = "built"
      BY <1>3, <1>9, Zenon DEF LookForRevision
    <3>5. WellRows(b.rows) /\ (deleted \/ Cardinality(b.rows) <= b.total)
      BY <1>4, <3>4 DEF WellRead
    <3>6. WellRead(step)
      BY <3>3, <3>5 DEF WellRead
    <3>7. QED
      BY <1>1, <3>2, <3>6, Zenon
  <2>2. QED
    BY <1>2, <1>9, <2>1, Zenon DEF LookForRevision
<1>10. QED
  BY <1>5, <1>6, <1>7, <1>8, <1>9, Zenon

(* A second report of the same content is not stored.                       *)
LEMMA StoredOnce ==
  ASSUME NEW X, revisions \in Seq(X), IsInjective(revisions), NEW report \in X, NEW refused \in BOOLEAN,
         revisions' = IF refused \/ StoredAs(report) # {} THEN revisions ELSE Append(revisions, report)
  PROVE  IsInjective(revisions)'
<1>1. CASE revisions' = revisions
  BY <1>1, Zenon DEF IsInjective
<1>2. CASE revisions' = Append(revisions, report) /\ StoredAs(report) = {}
  <2>1. /\ DOMAIN revisions = 1..Len(revisions) /\ Len(revisions) \in Nat
        /\ DOMAIN revisions' = 1..(Len(revisions) + 1)
        /\ \A n \in 1..Len(revisions) : revisions'[n] = revisions[n]
        /\ revisions'[Len(revisions) + 1] = report
    BY <1>2
  <2>2. \A n \in 1..Len(revisions) : revisions[n] # report
    BY <1>2, Zenon DEF StoredAs
  <2>3. \A n \in 1..(Len(revisions) + 1) : n \in 1..Len(revisions) \/ n = Len(revisions) + 1
    BY <2>1
  <2>4. \A m, n \in 1..Len(revisions) : revisions[m] = revisions[n] => m = n
    BY <2>1, Zenon DEF IsInjective
  <2>5. \A m, n \in DOMAIN revisions' : revisions'[m] = revisions'[n] => m = n
    <3>1. SUFFICES ASSUME NEW m \in 1..(Len(revisions) + 1), NEW n \in 1..(Len(revisions) + 1), revisions'[m] = revisions'[n]
          PROVE  m = n
      BY <2>1, Zenon
    <3>2. CASE m \in 1..Len(revisions) /\ n \in 1..Len(revisions)
      BY <2>1, <2>4, <3>1, <3>2, Zenon
    <3>3. CASE m \in 1..Len(revisions) /\ n = Len(revisions) + 1
      BY <2>1, <2>2, <3>1, <3>3, Zenon
    <3>4. CASE m = Len(revisions) + 1 /\ n \in 1..Len(revisions)
      BY <2>1, <2>2, <3>1, <3>4, Zenon
    <3>5. CASE m = Len(revisions) + 1 /\ n = Len(revisions) + 1
      BY <3>5, Zenon
    <3>6. QED
      BY <2>3, <3>1, <3>2, <3>3, <3>4, <3>5, Zenon
  <2>6. QED
    BY <2>5, Zenon DEF IsInjective
<1>3. QED
  BY <1>1, <1>2, Zenon

LEMMA AllConsistentSame ==
  ASSUME attempts' = attempts, AllConsistent
  PROVE  AllConsistent'
<1>1. ASSUME NEW n \in 1..Len(attempts') PROVE Consistent(attempts[n])'
  <2>1. PICK a : a = attempts'[n]
    BY Zenon
  <2>2. Consistent(a)
    BY <2>1, Zenon DEF AllConsistent
  <2>3. Consistent(a)'
    BY <2>2, Zenon DEF Consistent, NoProgress, Stages
  <2>4. QED
    BY <2>1, <2>3, Zenon
<1>2. QED
  BY <1>1, Zenon DEF AllConsistent

LEMMA AllConsistentStep ==
  ASSUME \A n \in 1..Len(attempts') : Consistent(attempts'[n])
  PROVE  AllConsistent'
<1>1. ASSUME NEW n \in 1..Len(attempts') PROVE Consistent(attempts[n])'
  <2>1. PICK a : a = attempts'[n]
    BY Zenon
  <2>2. Consistent(a)'
    BY <2>1, Zenon DEF Consistent, NoProgress, Stages
  <2>3. QED
    BY <2>1, <2>2, Zenon
<1>2. QED
  BY <1>1, Zenon DEF AllConsistent

LEMMA SameGrown ==
  ASSUME attempts' = attempts, deleted' = deleted, deleted \in BOOLEAN, AttemptsOK
  PROVE  Grown
<1>1. ASSUME NEW s PROVE Cardinality(AttemptsOf(s)) <= Cardinality(AttemptsOf(s)')
  <2>1. AttemptsOf(s)' = AttemptsOf(s)
    BY Zenon DEF AttemptsOf
  <2>2. PICK n : n = Cardinality(AttemptsOf(s))
    BY Zenon
  <2>3. n \in Nat
    BY <2>2, CountIsNumber, Zenon
  <2>4. n <= n
    BY <2>3
  <2>5. QED
    BY <2>1, <2>2, <2>4, Zenon
<1>2. QED
  BY <1>1 DEF Grown

LEMMA AttemptsGrow ==
  ASSUME SyncsOK, AttemptsOK, AttemptsOK', deleted \in BOOLEAN, RequestVerification \/ AdvanceAttempt
  PROVE  Grown
<1>1. ASSUME NEW s PROVE AttemptsOf(s) \in SUBSET AttemptsOf(s)'
  <2>1. /\ attempts \in Seq(AttemptRow) /\ attempts' \in Seq(AttemptRow) /\ Len(attempts) <= Len(attempts')
        /\ \A n \in 1..Len(attempts) : attempts'[n].snapshot = attempts[n].snapshot
    <3>0. attempts \in Seq(AttemptRow) /\ attempts' \in Seq(AttemptRow)
      BY Zenon DEF AttemptsOK
    <3>1. CASE RequestVerification
      <4>1. \E t \in Usable : \E v \in IF Answerable(t, NoFilter) THEN Verifiable(t) ELSE {} :
              attempts' = Append(attempts, Attempt(t, v))
        BY <3>1, Zenon DEF RequestVerification, RequestVerificationAt
      <4>2. PICK a : attempts' = Append(attempts, a)
        BY <4>1, Zenon
      <4>3. Len(attempts) <= Len(attempts') /\ \A n \in 1..Len(attempts) : attempts'[n] = attempts[n]
        BY <3>0, <4>2
      <4>4. QED
        BY <3>0, <4>3, Zenon
    <3>2. CASE AdvanceAttempt
      <4>1. PICK n \in 1..Len(attempts) : \E a \in Successors(attempts[n]) : attempts' = [attempts EXCEPT ![n] = a]
        BY <3>2, Zenon DEF AdvanceAttempt
      <4>2. PICK a \in Successors(attempts[n]) : attempts' = [attempts EXCEPT ![n] = a]
        BY <4>1, Zenon
      <4>3. PICK b : b = attempts[n]
        BY Zenon
      <4>4. PICK g \in Glimpses : a = [b EXCEPT !.state = g.state, !.progress = g.progress, !.cancel = g.cancel, !.version = @ + 1]
        BY <4>2, <4>3, Zenon DEF Successors
      <4>5. b \in AttemptRow
        BY <3>0, <4>3
      <4>6. a.snapshot = b.snapshot
        <5>1. b = [snapshot |-> b.snapshot, activity |-> b.activity, row |-> b.row, semantic |-> b.semantic,
                   state |-> b.state, progress |-> b.progress, version |-> b.version, cancel |-> b.cancel]
          BY <4>5 DEF AttemptRow
        <5>2. QED
          BY <4>4, <5>1
      <4>7. Len(attempts') = Len(attempts) /\ \A m \in 1..Len(attempts) : attempts'[m] = IF m = n THEN a ELSE attempts[m]
        BY <3>0, <4>2
      <4>8. \A m \in 1..Len(attempts) : attempts'[m].snapshot = attempts[m].snapshot
        BY <4>3, <4>6, <4>7, Zenon
      <4>9. Len(attempts) <= Len(attempts')
        BY <3>0, <4>7
      <4>10. QED
        BY <3>0, <4>8, <4>9, Zenon
    <3>3. QED
      BY <3>1, <3>2, Zenon
  <2>2. \A n \in 1..Len(attempts) : n \in 1..Len(attempts')
    BY <2>1
  <2>3. QED
    BY <2>1, <2>2, Zenon DEF AttemptsOf
<1>2. ASSUME NEW s PROVE IsFiniteSet(AttemptsOf(s)')
  <2>1. attempts' \in Seq(AttemptRow)
    BY Zenon DEF AttemptsOK
  <2>2. 1 \in Int /\ Len(attempts') \in Int
    BY <2>1
  <2>3. IsFiniteSet(1..Len(attempts'))
    BY <2>2, FS_Interval, Zenon
  <2>4. AttemptsOf(s)' \in SUBSET (1..Len(attempts'))
    BY Zenon DEF AttemptsOf
  <2>5. QED
    BY <2>3, <2>4, FS_Subset, Zenon
<1>3. ASSUME NEW s PROVE Cardinality(AttemptsOf(s)) <= Cardinality(AttemptsOf(s)')
  BY <1>1, <1>2, FS_Subset, Zenon
<1>4. deleted' = deleted
  BY Zenon DEF RequestVerification, RequestVerificationAt, AdvanceAttempt
<1>5. QED
  BY <1>3, <1>4 DEF Grown

LEMMA BuildingsRead ==
  ASSUME AttemptsOK, AttemptsOK', Grown, BuildingsOK, building' = building, \A q \in Readers : WellRead(building[q])
  PROVE  \A q \in Readers : WellRead(building[q])'
<1>1. ASSUME NEW q \in Readers PROVE WellRead(building[q])'
  <2>1. PICK b : b = building[q]
    BY Zenon
  <2>2. WellRead(b) /\ BuildingOK(b)
    BY <2>1, Zenon DEF BuildingsOK
  <2>3. WellRead(b)'
    BY <2>2, WellReadWaits, Zenon
  <2>4. QED
    BY <2>1, <2>3, Zenon
<1>2. QED
  BY <1>1, Zenon

LEMMA UnreadIsWellNext == WellRead(Unread)'
BY UnreadIsWell, PTL

LEMMA AnswersStep ==
  ASSUME SyncsOK, ReportsOK, ReportsOK', AnswersOK, ReportNext
  PROVE  AnswersOK'
<1>1. /\ AttemptsOK /\ AttemptsOK' /\ BuildingsOK /\ deleted \in BOOLEAN /\ revisions \in Seq(Storable)
  BY Zenon DEF ReportsOK
<1>2. AllConsistent /\ IsInjective(revisions) /\ \A q \in Readers : WellRead(building[q])
  BY Zenon DEF AnswersOK
<1>3. ASSUME attempts' = attempts, revisions' = revisions, \A q \in Readers : WellRead(building[q])' PROVE AnswersOK'
  <2>1. AllConsistent'
    BY <1>2, <1>3, AllConsistentSame, Zenon
  <2>2. IsInjective(revisions)'
    BY <1>2, <1>3, Zenon DEF IsInjective
  <2>3. QED
    BY <1>3, <2>1, <2>2, Zenon DEF AnswersOK
<1>4. CASE RequestVerification \/ AdvanceAttempt
  <2>1. building' = building /\ revisions' = revisions
    BY <1>4, Zenon DEF RequestVerification, RequestVerificationAt, AdvanceAttempt
  <2>2. AllConsistent'
    <3>1. \A n \in 1..Len(attempts') : Consistent(attempts'[n])
      BY <1>1, <1>2, <1>4, RequestedConsistent, AdvancedConsistent, Zenon
    <3>2. QED
      BY <3>1, AllConsistentStep, Zenon
  <2>3. Grown
    BY <1>1, <1>4, AttemptsGrow, Zenon
  <2>4. \A q \in Readers : WellRead(building[q])'
    BY <1>1, <1>2, <2>1, <2>3, BuildingsRead, Zenon
  <2>5. IsInjective(revisions)'
    BY <1>2, <2>1, Zenon DEF IsInjective
  <2>6. QED
    BY <2>2, <2>4, <2>5, Zenon DEF AnswersOK
<1>5. CASE \E p \in Readers : ReadActivity(p) \/ ReportSteps(p)
  <2>1. PICK p \in Readers : ReadActivity(p) \/ ReadAttempts(p) \/ CountAttempts(p) \/ ReturnReport(p)
                               \/ LookForRevision(p) \/ InsertRevision(p)
    BY <1>5, Zenon DEF ReportSteps
  <2>2. \A q \in Readers : WellRead(building[q])'
    BY <1>1, <2>1, RequestReads, Zenon
  <2>3. attempts' = attempts
    BY <2>1, Zenon DEF ReadActivity, ReadActivityAt, ReadAttempts, CountAttempts, ReturnReport, LookForRevision, InsertRevision
  <2>4. CASE revisions' = revisions
    BY <1>3, <2>2, <2>3, <2>4, Zenon
  <2>5. CASE InsertRevision(p)
    <3>1. PICK report \in {Document(building[p])} :
            revisions' = IF deleted \/ StoredAs(report) # {} THEN revisions ELSE Append(revisions, report)
      BY <2>5, Zenon DEF InsertRevision
    <3>2. building[p].at \in {"built", "insert"}
      BY <2>5 DEF InsertRevision
    <3>3. report \in Storable
      BY <1>1, <3>1, <3>2, DocumentIsStorable, Zenon
    <3>4. PICK X : X = Storable
      BY Zenon
    <3>5. revisions \in Seq(X) /\ report \in X
      BY <1>1, <3>3, <3>4, Zenon
    <3>6. IsInjective(revisions)'
      BY <1>1, <1>2, <3>1, <3>5, StoredOnce, Zenon
    <3>7. AllConsistent'
      BY <1>2, <2>3, AllConsistentSame, Zenon
    <3>8. QED
      BY <2>2, <3>6, <3>7, Zenon DEF AnswersOK
  <2>6. InsertRevision(p) \/ revisions' = revisions
    BY <2>1, Zenon DEF ReadActivity, ReadActivityAt, ReadAttempts, CountAttempts, ReturnReport, LookForRevision
  <2>7. QED
    BY <2>4, <2>5, <2>6, Zenon
<1>6. CASE OpenHistory \/ TurnPage \/ CloseHistory \/ CaseMoves
  <2>1. attempts' = attempts /\ revisions' = revisions /\ deleted' = deleted /\ building' = building
    BY <1>6, Zenon DEF OpenHistory, TurnPage, CloseHistory, CaseMoves, reportVars
  <2>2. Grown
    BY <1>1, <2>1, SameGrown, Zenon
  <2>3. \A q \in Readers : WellRead(building[q])'
    BY <1>1, <1>2, <2>1, <2>2, BuildingsRead, Zenon
  <2>4. QED
    BY <1>3, <2>1, <2>3, Zenon
<1>7. CASE RestartProcess
  <2>1. attempts' = attempts /\ revisions' = revisions /\ building' = [p \in Readers |-> Unread]
    BY <1>7, Zenon DEF RestartProcess
  <2>2. \A q \in Readers : building'[q] = Unread'
    BY <2>1, Zenon DEF Unread, NoActivity, ActivityPart
  <2>3. \A q \in Readers : WellRead(building[q])'
    BY <2>2, UnreadIsWellNext, Zenon
  <2>4. QED
    BY <1>3, <2>1, <2>3, Zenon
<1>8. CASE DeleteCase
  <2>1. attempts' = <<>> /\ revisions' = <<>> /\ deleted' = TRUE /\ building' = building
    BY <1>8, Zenon DEF DeleteCase
  <2>2. Grown
    BY <2>1, Zenon DEF Grown
  <2>3. \A q \in Readers : WellRead(building[q])'
    BY <1>1, <1>2, <2>1, <2>2, BuildingsRead, Zenon
  <2>4. \A n \in 1..Len(attempts') : Consistent(attempts'[n])
    <3>1. Len(attempts') = 0
      BY <2>1
    <3>2. 1..Len(attempts') = {}
      BY <3>1
    <3>3. QED
      BY <3>2, Zenon
  <2>5. IsInjective(revisions)'
    <3>1. DOMAIN revisions' = {}
      BY <2>1
    <3>2. QED
      BY <3>1, Zenon DEF IsInjective
  <2>6. QED
    BY <2>3, <2>4, <2>5, AllConsistentStep, Zenon DEF AnswersOK
<1>9. QED
  BY <1>4, <1>5, <1>6, <1>7, <1>8, Zenon DEF ReportNext, CatalogSteps

LEMMA AnswersStay ==
  ASSUME ReportsOK, ReportsOK', AnswersOK, UNCHANGED reportVars
  PROVE  AnswersOK'
<1>1. attempts' = attempts /\ revisions' = revisions /\ deleted' = deleted /\ building' = building
  BY Zenon DEF reportVars
<1>2. AttemptsOK /\ AttemptsOK' /\ BuildingsOK /\ deleted \in BOOLEAN
  BY Zenon DEF ReportsOK
<1>3. AllConsistent'
  BY <1>1, AllConsistentSame, Zenon DEF AnswersOK
<1>4. IsInjective(revisions)'
  BY <1>1, Zenon DEF AnswersOK, IsInjective
<1>5. Grown
  BY <1>1, <1>2, SameGrown, Zenon
<1>6. \A q \in Readers : WellRead(building[q])'
  BY <1>1, <1>2, <1>5, BuildingsRead, Zenon DEF AnswersOK
<1>7. QED
  BY <1>3, <1>4, <1>6, Zenon DEF AnswersOK

LEMMA EarlierDiffer == IsInjective(EarlierReports)
<1>1. PICK s, a, activity : s = attempts[1].snapshot /\ a = attempts[1] /\ activity = ActivityPart(View(s, NoFilter))
  BY Zenon
<1>2. PICK first : first = [Listed(1, a) EXCEPT !.state = "queued", !.progress = NoProgress, !.version = 1, !.cancel = FALSE]
  BY Zenon
<1>3. PICK x, y : x = Report(s, activity, {}, 0) /\ y = Report(s, activity, {first}, 1)
  BY Zenon
<1>4. EarlierReports = <<x, y>>
  <2>1. EarlierReports = The({<<Report(s, z, {}, 0), Report(s, z, {first}, 1)>> : z \in {activity}})
    BY <1>1, <1>2, Zenon DEF EarlierReports
  <2>2. {<<Report(s, z, {}, 0), Report(s, z, {first}, 1)>> : z \in {activity}} = {<<x, y>>}
    BY <1>3
  <2>3. QED
    BY <2>1, <2>2, TheOf, Zenon
<1>5. x # y
  <2>1. x.evidence = EvidenceRevision({}, 0) /\ y.evidence = EvidenceRevision({first}, 1)
    BY <1>3, ReportFields
  <2>2. EvidenceRevision({}, 0).total = 0 /\ EvidenceRevision({first}, 1).total = 1
    BY EvidenceFields
  <2>3. x.evidence.total = 0 /\ y.evidence.total = 1
    BY <2>1, <2>2, Zenon
  <2>4. QED
    BY <2>3
<1>6. PICK f : f = <<x, y>>
  BY Zenon
<1>7. DOMAIN f = {1, 2} /\ f[1] = x /\ f[2] = y
  BY <1>6
<1>8. \A m, n \in DOMAIN f : f[m] = f[n] => m = n
  BY <1>5, <1>7
<1>9. QED
  BY <1>4, <1>6, <1>8, Zenon DEF IsInjective

LEMMA AnswersStart ==
  ASSUME ReportInit
  PROVE  AnswersOK
<1>1. AllConsistent
  <2>1. attempts \in EarlierAttempts
    BY Zenon DEF ReportInit
  <2>2. QED
    BY <2>1, ReportAssumption, Zenon DEF ReportAssumption, AllConsistent
<1>2. IsInjective(revisions)
  <2>1. CASE attempts = <<>>
    <3>1. revisions = <<>>
      BY <2>1, Zenon DEF ReportInit
    <3>2. DOMAIN revisions = {}
      BY <3>1
    <3>3. QED
      BY <3>2, Zenon DEF IsInjective
  <2>2. CASE attempts # <<>>
    <3>1. revisions = EarlierReports
      BY <2>2, Zenon DEF ReportInit
    <3>2. QED
      BY <3>1, EarlierDiffer, Zenon
  <2>3. QED
    BY <2>1, <2>2, Zenon
<1>3. \A p \in Readers : WellRead(building[p])
  <2>1. \A p \in Readers : building[p] = Unread
    BY Zenon DEF ReportInit
  <2>2. QED
    BY <2>1, UnreadIsWell, Zenon
<1>4. QED
  BY <1>1, <1>2, <1>3, Zenon DEF AnswersOK

LEMMA ReportsServed ==
  ASSUME SyncsOK, ReportsOK, AnswersOK
  PROVE  ReportsAreServed
<1>1. environment \in {"live", "demo"}
  BY DEF SyncsOK
<1>2. revisions \in Seq(Storable) /\ IsInjective(revisions)
  BY Zenon DEF ReportsOK, AnswersOK
<1>3. ASSUME NEW p \in Readers
      PROVE  /\ \A row \in building[p].rows : SchemaAttempt(row)
             /\ building[p].at \in {"built", "insert"} => deleted \/ SchemaReport(Document(building[p]))
             /\ building[p].at = "built" => deleted \/ \A runner, runtime \in BOOLEAN :
                  SchemaCatalog(Catalog(building[p].rows, building[p].total, runner, runtime))
  <2>1. PICK b : b = building[p]
    BY Zenon
  <2>2. WellRead(b) /\ BuildingOK(b)
    BY <2>1, Zenon DEF AnswersOK, ReportsOK, BuildingsOK
  <2>3. \A row \in b.rows : SchemaAttempt(row)
    BY <2>2, Zenon DEF WellRead, WellRows
  <2>4. ASSUME b.at \in {"built", "insert"}, ~ deleted
        PROVE  /\ SchemaReport(Document(b))
               /\ \A runner, runtime \in BOOLEAN : SchemaCatalog(Catalog(b.rows, b.total, runner, runtime))
    <3>1. /\ b.snapshot \in Usable /\ b.activity = ActivityPart(View(b.snapshot, NoFilter))
          /\ b.rows \in BoundRows(b.snapshot) /\ b.total \in Nat
      BY <2>2, <2>4 DEF BuildingOK
    <3>2. Cardinality(b.rows) <= b.total
      BY <2>2, <2>4, Zenon DEF WellRead
    <3>3. Document(b) = ReportOf(b.snapshot, b.rows, b.total)
      BY <3>1, Zenon DEF Document, ReportOf
    <3>4. PICK s, rows, total : s = b.snapshot /\ rows = b.rows /\ total = b.total
      BY Zenon
    <3>5. SchemaReport(ReportOf(s, rows, total))
      BY <1>1, <3>1, <3>2, <3>4, ReportPasses, Zenon
    <3>6. rows \in SUBSET ListedRow /\ IsFiniteSet(rows)
      BY <3>1, <3>4, Zenon DEF BoundRows
    <3>7. \A runner, runtime \in BOOLEAN : SchemaCatalog(Catalog(rows, total, runner, runtime))
      BY <1>1, <3>1, <3>2, <3>4, <3>6, CatalogPasses, Zenon
    <3>8. QED
      BY <3>3, <3>4, <3>5, <3>7, Zenon
  <2>5. b.at = "built" => b.at \in {"built", "insert"}
    OBVIOUS
  <2>6. QED
    BY <2>1, <2>3, <2>4, <2>5, Zenon
<1>4. SchemaHistory(RevisionPage(Len(revisions), 0), Len(revisions))
  <2>1. PICK X : X = Storable
    BY Zenon
  <2>2. revisions \in Seq(X)
    BY <1>2, <2>1, Zenon
  <2>3. QED
    BY <2>2, HistoryPasses, Zenon
<1>5. \A m, n \in 1..Len(revisions) : SchemaComparison(Compared(m, n))
  BY ComparisonPasses, Zenon
<1>6. QED
  BY <1>2, <1>3, <1>4, <1>5, Zenon DEF ReportsAreServed

-----------------------------------------------------------------------------
(* Flows as the schema has them.                                            *)

(* The shortest identifiers are all of them, or as many as fit.             *)
LEMMA ShortestIs ==
  ASSUME NEW ids \in SUBSET Nat, IsFiniteSet(ids)
  PROVE  /\ IsFiniteSet(Shortest(ids, MaxSupport))
         /\ Cardinality(Shortest(ids, MaxSupport)) = IF MaxSupport <= Cardinality(ids) THEN MaxSupport ELSE Cardinality(ids)
         /\ Cardinality(ids) <= MaxSupport => Shortest(ids, MaxSupport) = ids
<1> DEFINE R == {p \in ids \X ids : p[1] < p[2]}
           o == Sorted(ids, LAMBDA a, b : a < b)
           Looked(n) == CHOOSE x \in ids : Cardinality({y \in ids : y < x}) = n - 1
<1>1. StrictTotalOrder(ids, R)
  <2>1. ids \in SUBSET Int
    OBVIOUS
  <2>2. QED
    BY <2>1, NumbersOrdered
<1>2. \A x \in ids : {y \in ids : y < x} = BelowIn(ids, R, x)
  BY DEF BelowIn
<1> HIDE DEF R
<1>3. o = [n \in 1..Cardinality(ids) |-> AtRank(ids, R, n)]
  <2>1. o = [n \in 1..Cardinality(ids) |-> Looked(n)]
    BY Zenon DEF Sorted
  <2>2. \A n : Looked(n) = AtRank(ids, R, n)
    <3>1. SUFFICES ASSUME NEW n PROVE Looked(n) = AtRank(ids, R, n)
      BY Zenon
    <3>2. \A x : (x \in ids /\ Cardinality({y \in ids : y < x}) = n - 1)
                   <=> (x \in ids /\ Cardinality(BelowIn(ids, R, x)) = n - 1)
      BY <1>2, Zenon
    <3>3. QED
      BY <3>2 DEF AtRank
  <2> HIDE DEF o, Looked
  <2>3. QED
    BY <2>1, <2>2
<1> HIDE DEF Looked
<1>4. PICK order, ordered : order = R /\ ordered = o
  BY Zenon
<1>5. Shortest(ids, MaxSupport) = {ordered[n] : n \in 1..Min({MaxSupport, Len(ordered)})}
  BY <1>4, Zenon DEF Shortest
<1> HIDE DEF o
<1>6. Lists(ordered, ids)
  <2>1. RankedBy(ordered, ids, order)
    BY <1>3, <1>4, Zenon DEF RankedBy
  <2>2. IsFiniteSet(ids) /\ StrictTotalOrder(ids, order)
    BY <1>1, <1>4, Zenon
  <2>3. QED
    BY <2>1, <2>2, RankedSeq, Zenon
<1>7. PICK N : N = Cardinality(ids)
  BY Zenon
<1>8. /\ ordered \in Seq(ids) /\ Len(ordered) = N /\ N \in Nat
      /\ \A i, j \in 1..N : ordered[i] = ordered[j] => i = j
      /\ \A x \in ids : \E i \in 1..N : ordered[i] = x
  BY <1>6, <1>7, Zenon DEF Lists
<1>9. PICK k : k = Min({MaxSupport, N})
  BY Zenon
<1>10. MaxSupport \in Nat
  BY FindingAssumption DEF FindingAssumption
<1>11. k = IF MaxSupport <= N THEN MaxSupport ELSE N
  <2>1. MaxSupport \in Int /\ N \in Int
    BY <1>8, <1>10
  <2>2. QED
    BY <1>9, <2>1, MaxMinOfTwo
<1>12. k \in Nat /\ k <= N /\ (N <= MaxSupport => k = N) /\ \A n \in 1..k : n \in 1..N
  BY <1>8, <1>10, <1>11
<1>13. PICK f : f = [n \in 1..k |-> ordered[n]]
  BY Zenon
<1>14. PICK I : I = {f[n] : n \in 1..k}
  BY Zenon
<1>15. Shortest(ids, MaxSupport) = I
  <2>1. Shortest(ids, MaxSupport) = {ordered[n] : n \in 1..k}
    BY <1>5, <1>8, <1>9, Zenon
  <2>2. \A n \in 1..k : f[n] = ordered[n]
    BY <1>13, Zenon
  <2>3. QED
    BY <1>14, <2>1, <2>2, Zenon
<1>16. IsFiniteSet(1..k) /\ Cardinality(1..k) = k
  <2>1. 1 \in Int /\ k \in Int
    BY <1>12
  <2>2. IsFiniteSet(1..k) /\ Cardinality(1..k) = IF 1 > k THEN 0 ELSE k - 1 + 1
    BY <2>1, FS_Interval
  <2>3. QED
    BY <1>12, <2>2
<1>17. IsFiniteSet(I) /\ Cardinality(I) = k
  <2>1. DOMAIN f = 1..k /\ \A i, j \in 1..k : f[i] = f[j] => i = j
    BY <1>8, <1>12, <1>13, Zenon
  <2>2. PICK D : D = 1..k
    BY Zenon
  <2>3. IsFiniteSet(D) /\ DOMAIN f = D /\ (\A i, j \in D : f[i] = f[j] => i = j) /\ I = {f[n] : n \in D}
    BY <1>14, <1>16, <2>1, <2>2, Zenon
  <2>4. IsFiniteSet(I) /\ Cardinality(I) <= Cardinality(D)
    BY <2>3, ImageOf, Zenon
  <2>5. Cardinality(I) = Cardinality(D)
    BY <2>3, ImageOfInjective
  <2>6. QED
    BY <1>16, <2>2, <2>4, <2>5, Zenon
<1>18. ASSUME N <= MaxSupport PROVE I = ids
  <2>1. k = N
    BY <1>12, <1>18, Zenon
  <2>2. \A n \in 1..N : f[n] = ordered[n] /\ ordered[n] \in ids
    BY <1>8, <1>13, <2>1
  <2>3. I = {f[n] : n \in 1..N}
    BY <1>14, <2>1, Zenon
  <2>4. ASSUME NEW x \in I PROVE x \in ids
    BY <2>2, <2>3, <2>4, Zenon
  <2>5. ASSUME NEW x \in ids PROVE x \in I
    <3>1. PICK n \in 1..N : ordered[n] = x
      BY <1>8, Zenon
    <3>2. f[n] = x
      BY <2>2, <3>1, Zenon
    <3>3. QED
      BY <2>3, <3>2, Zenon
  <2>6. QED
    BY <2>4, <2>5, Zenon
<1>19. QED
  BY <1>7, <1>11, <1>15, <1>17, <1>18, Zenon

(* Different items have different identifiers.                              *)
LEMMA IdsCounted ==
  ASSUME NEW K, UniqueItems(K), \A i \in K : i.id \in Nat
  PROVE  IsFiniteSet(IdsOf(K)) /\ Cardinality(IdsOf(K)) = Cardinality(K) /\ Cardinality(K) \in Nat /\ IdsOf(K) \in SUBSET Nat
<1> DEFINE f == [i \in K |-> i.id]
<1>1. DOMAIN f = K /\ IdsOf(K) = {f[i] : i \in K}
  BY Zenon DEF IdsOf
<1>2. \A i, j \in K : f[i] = f[j] => i = j
  BY Zenon DEF UniqueItems
<1>3. IsFiniteSet(K)
  BY Zenon DEF UniqueItems
<1> HIDE DEF f
<1>4. PICK I : I = {f[i] : i \in K}
  BY Zenon
<1>5. IsFiniteSet(I) /\ Cardinality(I) = Cardinality(K)
  <2>1. IsFiniteSet(I) /\ Cardinality(I) <= Cardinality(K)
    BY <1>1, <1>3, <1>4, ImageOf, Zenon
  <2>2. Cardinality(I) = Cardinality(K)
    BY <1>1, <1>2, <1>3, <1>4, ImageOfInjective
  <2>3. QED
    BY <2>1, <2>2, Zenon
<1>6. IdsOf(K) \in SUBSET Nat
  BY Zenon DEF IdsOf
<1>7. QED
  BY <1>1, <1>3, <1>4, <1>5, <1>6, FS_CardinalityType, Zenon

LEMMA UniqueSubset ==
  ASSUME NEW K, UniqueItems(K), NEW L \in SUBSET K
  PROVE  UniqueItems(L)
BY FS_Subset, Zenon DEF UniqueItems

(* What a flow shows of the items it is about.                              *)
Supports(support, of) ==
  /\ support \in SUBSET IdsOf(of) /\ support # {} /\ IsFiniteSet(support)
  /\ Cardinality(support) \in Nat /\ Cardinality(of) \in Nat /\ Cardinality(of) >= 1
  /\ Cardinality(support) <= MaxSupport /\ Cardinality(support) <= Cardinality(of)
  /\ Cardinality(of) > MaxSupport <=> Cardinality(of) > Cardinality(support)
  /\ Cardinality(of) > MaxSupport => Cardinality(support) = MaxSupport

LEMMA ShortestSupports ==
  ASSUME NEW of, UniqueItems(of), \A i \in of : i.id \in Nat, of # {}
  PROVE  Supports(Shortest(IdsOf(of), MaxSupport), of)
<1>1. PICK ids, support, n, m : ids = IdsOf(of) /\ support = Shortest(ids, MaxSupport) /\ n = Cardinality(of) /\ m = Cardinality(support)
  BY Zenon
<1>2. IsFiniteSet(ids) /\ Cardinality(ids) = n /\ n \in Nat /\ ids \in SUBSET Nat
  BY <1>1, IdsCounted, Zenon
<1>3. n # 0
  <2>1. IsFiniteSet(of)
    BY Zenon DEF UniqueItems
  <2>2. QED
    BY <1>1, <2>1, FS_EmptySet, Zenon
<1>4. MaxSupport \in Nat /\ MaxSupport # 0
  BY FindingAssumption DEF FindingAssumption
<1>5. IsFiniteSet(support) /\ m = IF MaxSupport <= n THEN MaxSupport ELSE n
  BY <1>1, <1>2, ShortestIs, Zenon
<1>6. support \in SUBSET ids
  BY <1>1, <1>2, ShortestFacts, Zenon
<1>7. /\ m \in Nat /\ n >= 1 /\ m <= MaxSupport /\ m <= n /\ (n > MaxSupport <=> n > m) /\ (n > MaxSupport => m = MaxSupport)
      /\ m # 0
  BY <1>2, <1>3, <1>4, <1>5
<1>8. support # {}
  BY <1>1, <1>7, FS_EmptySet, Zenon
<1>9. QED
  BY <1>1, <1>2, <1>5, <1>6, <1>7, <1>8, Zenon DEF Supports

(* A flow of at least one item of K.                                        *)
ShowsFlow(flow, ids) ==
  /\ flow.observations \in Nat /\ flow.observations >= 1
  /\ flow.support \in SUBSET ids /\ flow.support # {} /\ IsFiniteSet(flow.support)
  /\ Cardinality(flow.support) \in Nat /\ Cardinality(flow.support) <= MaxSupport
  /\ Cardinality(flow.support) <= flow.observations
  /\ flow.truncated => Cardinality(flow.support) = MaxSupport
Counts(flow) == flow.truncated <=> flow.observations > Cardinality(flow.support)

LEMMA FlowServed ==
  ASSUME NEW K, UniqueItems(K), \A i \in K : i.id \in Nat, NEW key \in {i.value : i \in Named(K)}
  PROVE  Flow(key, K).key = key /\ ShowsFlow(Flow(key, K), IdsOf(K)) /\ Counts(Flow(key, K))
<1>1. PICK of : of = {i \in K : i.value = key}
  BY Zenon
<1>2. of \in SUBSET K
  BY <1>1, Zenon
<1>3. of # {}
  BY <1>1, Zenon DEF Named
<1>4. UniqueItems(of) /\ \A i \in of : i.id \in Nat
  BY <1>2, UniqueSubset, Zenon
<1>5. PICK support, n, m : support = Shortest(IdsOf(of), MaxSupport) /\ n = Cardinality(of) /\ m = Cardinality(support)
  BY Zenon
<1>6. Supports(support, of)
  BY <1>3, <1>4, <1>5, ShortestSupports, Zenon
<1>7. /\ support \in SUBSET IdsOf(of) /\ support # {} /\ IsFiniteSet(support)
      /\ m \in Nat /\ n \in Nat /\ n >= 1 /\ m <= MaxSupport /\ m <= n
      /\ (n > MaxSupport <=> n > m) /\ (n > MaxSupport => m = MaxSupport)
  BY <1>5, <1>6, Zenon DEF Supports
<1>8. IdsOf(of) \in SUBSET IdsOf(K)
  BY <1>2, Zenon DEF IdsOf
<1>9. PICK cut \in BOOLEAN : cut = (n > MaxSupport)
  <2>1. (n > MaxSupport) \in BOOLEAN
    OBVIOUS
  <2>2. QED
    BY <2>1, Zenon
<1>10. PICK flow : flow = Flow(key, K)
  BY Zenon
<1>11. flow = [key |-> key, observations |-> n, support |-> support, truncated |-> cut]
  BY <1>1, <1>5, <1>9, <1>10, Zenon DEF Flow
<1>12. flow.key = key /\ flow.observations = n /\ flow.support = support /\ flow.truncated = cut
  BY <1>11
<1>13. support \in SUBSET IdsOf(K)
  BY <1>7, <1>8, Zenon
<1>14. ShowsFlow(flow, IdsOf(K))
  BY <1>5, <1>7, <1>9, <1>12, <1>13, Zenon DEF ShowsFlow
<1>15. Counts(flow)
  BY <1>5, <1>7, <1>9, <1>12, Zenon DEF Counts
<1>16. QED
  BY <1>10, <1>12, <1>14, <1>15, Zenon

(* A swap counts twice, so there may be more observations than items.       *)
LEMMA AssetFlowServed ==
  ASSUME NEW K, UniqueItems(K), \A i \in K : i.id \in Nat,
         \A i \in K : i.kind \in {"transfer", "swap"}, NEW key \in {i.value : i \in Named(K)}
  PROVE  AssetFlow(key, K).key = key /\ ShowsFlow(AssetFlow(key, K), IdsOf(K))
<1>0. Transfers(K) \cup Swaps(K) = K
  BY DEF Transfers, Swaps
<1>1. PICK of : of = {i \in K : i.value = key}
  BY Zenon
<1>2. of \in SUBSET K
  BY <1>1, Zenon
<1>3. of # {}
  BY <1>1, Zenon DEF Named
<1>4. UniqueItems(of) /\ \A i \in of : i.id \in Nat
  BY <1>2, UniqueSubset, Zenon
<1>5. PICK support, n, m, w : /\ support = Shortest(IdsOf(of), MaxSupport) /\ n = Cardinality(of) /\ m = Cardinality(support)
                              /\ w = Cardinality(Swaps(of))
  BY Zenon
<1>6. Supports(support, of)
  BY <1>3, <1>4, <1>5, ShortestSupports, Zenon
<1>7. /\ support \in SUBSET IdsOf(of) /\ support # {} /\ IsFiniteSet(support)
      /\ m \in Nat /\ n \in Nat /\ n >= 1 /\ m <= MaxSupport /\ m <= n
      /\ (n > MaxSupport => m = MaxSupport)
  BY <1>5, <1>6, Zenon DEF Supports
<1>8. IdsOf(of) \in SUBSET IdsOf(K)
  BY <1>2, Zenon DEF IdsOf
<1>8a. w \in Nat
  <2>1. IsFiniteSet(of) /\ Swaps(of) \in SUBSET of
    BY <1>4, Zenon DEF UniqueItems, Swaps
  <2>2. QED
    BY <1>5, <2>1, FS_Subset, FS_CardinalityType, Zenon
<1>9. PICK cut \in BOOLEAN : cut = (n > MaxSupport)
  <2>1. (n > MaxSupport) \in BOOLEAN
    OBVIOUS
  <2>2. QED
    BY <2>1, Zenon
<1>10. PICK flow : flow = AssetFlow(key, K)
  BY Zenon
<1>10a. PICK seen : seen = n + w
  BY Zenon
<1>11. flow = [key |-> key, observations |-> seen, support |-> support, truncated |-> cut]
  BY <1>0, <1>1, <1>5, <1>9, <1>10, <1>10a, Zenon DEF AssetFlow
<1>12. flow.key = key /\ flow.observations = seen /\ flow.support = support /\ flow.truncated = cut
  BY <1>11
<1>12a. seen \in Nat /\ seen >= 1 /\ m <= seen
  BY <1>7, <1>8a, <1>10a
<1>13. support \in SUBSET IdsOf(K)
  BY <1>7, <1>8, Zenon
<1>14. ShowsFlow(flow, IdsOf(K))
  BY <1>5, <1>7, <1>9, <1>12, <1>12a, <1>13, Zenon DEF ShowsFlow
<1>15. QED
  BY <1>10, <1>12, <1>14, Zenon

(* No group twice.                                                          *)
Keyed(groups) == \A m, n \in 1..Len(groups) : groups[m].key = groups[n].key => m = n

LEMMA MostObservedKeyed ==
  ASSUME NEW flows, IsFiniteSet(flows), \A x \in flows : x.observations \in Int,
         \A x, y \in flows : x.key = y.key => x = y
  PROVE  MostObserved(flows) \in Seq(flows) /\ Keyed(MostObserved(flows))
<1>1. PICK n, f : n = Cardinality(flows) /\ f = MostObserved(flows)
  BY Zenon
<1>2. n \in Nat /\ f \in [1..n -> flows] /\ IsInjective(f)
  BY <1>1, MostObservedFacts, Zenon
<1>3. f \in Seq(flows) /\ Len(f) = n
  BY <1>2
<1>4. ASSUME NEW i \in 1..n, NEW j \in 1..n, f[i].key = f[j].key PROVE i = j
  <2>1. f[i] \in flows /\ f[j] \in flows
    BY <1>2, Zenon
  <2>2. f[i] = f[j]
    BY <1>4, <2>1, Zenon
  <2>3. i \in DOMAIN f /\ j \in DOMAIN f
    BY <1>2, Zenon
  <2>4. QED
    BY <1>2, <2>2, <2>3, Zenon DEF IsInjective
<1>5. QED
  BY <1>1, <1>3, <1>4, Zenon DEF Keyed

LEMMA FirstOfKeeps ==
  ASSUME NEW S, NEW groups \in Seq(S), Keyed(groups), NEW limit \in Nat
  PROVE  /\ FirstOf(groups, limit) \in Seq(S) /\ Keyed(FirstOf(groups, limit))
         /\ Len(FirstOf(groups, limit)) <= Len(groups)
         /\ Len(groups) > limit <=> Len(groups) > Len(FirstOf(groups, limit))
<1>1. PICK n : n = Len(groups)
  BY Zenon
<1>2. n \in Nat /\ n \in Int /\ limit \in Int
  BY <1>1
<1>3. Min({limit, n}) = IF limit <= n THEN limit ELSE n
  BY <1>2, MaxMinOfTwo
<1>4. PICK k : k = Min({limit, n})
  BY Zenon
<1>5. k \in Nat /\ k <= n /\ (n > limit <=> n > k)
  BY <1>2, <1>3, <1>4
<1>6. PICK first : first = SubSeq(groups, 1, k)
  BY Zenon
<1>7. first \in Seq(S) /\ Len(first) = k /\ \A i \in 1..k : first[i] = groups[i] /\ i \in 1..n
  BY <1>1, <1>5, <1>6
<1>8. Keyed(first)
  BY <1>1, <1>7, Zenon DEF Keyed
<1>9. FirstOf(groups, limit) = first
  BY <1>1, <1>4, <1>6, Zenon DEF FirstOf
<1>10. QED
  BY <1>1, <1>5, <1>7, <1>8, <1>9, Zenon

LEMMA RepeatedKeeps ==
  ASSUME NEW S, NEW groups \in Seq(S), Keyed(groups)
  PROVE  Repeated(groups) \in Seq(S) /\ Keyed(Repeated(groups))
<1> DEFINE K == {n \in 1..Len(groups) : groups[n].observations >= 2}
<1>1. Len(groups) \in Nat
  OBVIOUS
<1>2. IsFiniteSet(1..Len(groups))
  BY <1>1, FS_Interval
<1>3. K \in SUBSET (1..Len(groups))
  BY Zenon
<1>4. PICK limit : limit = Cardinality(K)
  BY Zenon
<1>5. limit \in Nat
  BY <1>2, <1>3, <1>4, FS_Subset, FS_CardinalityType, Zenon
<1>6. Repeated(groups) = FirstOf(groups, limit)
  BY <1>4, Zenon DEF Repeated
<1>7. QED
  BY <1>5, <1>6, FirstOfKeeps, Zenon

(* What is cut says so.                                                     *)
LEMMA CutServed ==
  ASSUME NEW S, NEW groups \in Seq(S), Keyed(groups)
  PROVE  SchemaFlows(Cut(groups)) /\ Cut(groups).rows \in Seq(S)
<1>1. MaxFlowGroups \in Nat
  BY FindingAssumption DEF FindingAssumption
<1>2. PICK rows, n, k : rows = FirstOf(groups, MaxFlowGroups) /\ n = Len(groups) /\ k = Len(rows)
  BY Zenon
<1>3. PICK cut \in BOOLEAN : cut = (n > MaxFlowGroups)
  <2>1. (n > MaxFlowGroups) \in BOOLEAN
    OBVIOUS
  <2>2. QED
    BY <2>1, Zenon
<1>4. PICK c : c = Cut(groups)
  BY Zenon
<1>5. c = [identified |-> n, rows |-> rows, truncated |-> cut]
  BY <1>2, <1>3, <1>4, Zenon DEF Cut
<1>6. c.identified = n /\ c.rows = rows /\ c.truncated = cut
  BY <1>5
<1>7. rows \in Seq(S) /\ Keyed(rows) /\ k <= n /\ (n > MaxFlowGroups <=> n > k)
  BY <1>1, <1>2, FirstOfKeeps, Zenon
<1>8. IsInjective([i \in 1..Len(rows) |-> rows[i].key])
  BY <1>7, Zenon DEF IsInjective, Keyed
<1>9. SchemaFlows(c)
  BY <1>2, <1>3, <1>6, <1>7, <1>8, Zenon DEF SchemaFlows
<1>10. QED
  BY <1>4, <1>6, <1>7, <1>9, Zenon

LEMMA GroupsServed ==
  ASSUME NEW K, UniqueItems(K), \A i \in K : i.id \in Nat
  PROVE  Groups(K, Flow) \in Seq(OwnFlows(K)) /\ Keyed(Groups(K, Flow))
<1> DEFINE N == Named(K)
           f == [i \in N |-> Flow(i.value, K)]
<1>1. N \in SUBSET K
  BY Zenon DEF Named
<1>2. IsFiniteSet(K) /\ IsFiniteSet(N)
  BY <1>1, FS_Subset, Zenon DEF UniqueItems
<1>3. DOMAIN f = N /\ OwnFlows(K) = {f[i] : i \in N}
  <2>1. OwnFlows(K) = {Flow(i.value, K) : i \in N}
    BY Zenon DEF OwnFlows
  <2>2. \A i \in N : f[i] = Flow(i.value, K)
    BY Zenon
  <2>3. QED
    BY <2>1, <2>2, Zenon
<1>4. IsFiniteSet(OwnFlows(K))
  <2> HIDE DEF f, N
  <2>1. QED
    BY <1>2, <1>3, ImageOf, Zenon
<1>5. \A key \in {i.value : i \in Named(K)} : Flow(key, K).key = key /\ Flow(key, K).observations \in Nat
  BY FlowServed, Zenon DEF ShowsFlow
<1>6. \A x \in OwnFlows(K) : x.observations \in Int
  <2>1. \A n \in Nat : n \in Int
    OBVIOUS
  <2>2. QED
    BY <1>5, <2>1, Zenon DEF OwnFlows
<1>7. \A x, y \in OwnFlows(K) : x.key = y.key => x = y
  BY <1>5, Zenon DEF OwnFlows
<1>8. PICK flows : flows = OwnFlows(K)
  BY Zenon
<1>9. MostObserved(flows) \in Seq(flows) /\ Keyed(MostObserved(flows))
  BY <1>4, <1>6, <1>7, <1>8, MostObservedKeyed, Zenon
<1>10. Groups(K, Flow) = MostObserved(flows)
  BY <1>8, Zenon DEF Groups, OwnFlows
<1>11. QED
  BY <1>8, <1>9, <1>10, Zenon

OwnAssets(K) == {AssetFlow(key, K) : key \in {i.value : i \in Named(K)}}

LEMMA AssetsServed ==
  ASSUME NEW K, UniqueItems(K), \A i \in K : i.id \in Nat, \A i \in K : i.kind \in {"transfer", "swap"}
  PROVE  Groups(K, AssetFlow) \in Seq(OwnAssets(K)) /\ Keyed(Groups(K, AssetFlow))
<1> DEFINE N == Named(K)
           f == [i \in N |-> AssetFlow(i.value, K)]
<1>1. N \in SUBSET K
  BY Zenon DEF Named
<1>2. IsFiniteSet(K) /\ IsFiniteSet(N)
  BY <1>1, FS_Subset, Zenon DEF UniqueItems
<1>3. DOMAIN f = N /\ OwnAssets(K) = {f[i] : i \in N}
  <2>1. OwnAssets(K) = {AssetFlow(i.value, K) : i \in N}
    BY Zenon DEF OwnAssets
  <2>2. \A i \in N : f[i] = AssetFlow(i.value, K)
    BY Zenon
  <2>3. QED
    BY <2>1, <2>2, Zenon
<1>4. IsFiniteSet(OwnAssets(K))
  <2> HIDE DEF f, N
  <2>1. QED
    BY <1>2, <1>3, ImageOf, Zenon
<1>5. \A key \in {i.value : i \in Named(K)} : AssetFlow(key, K).key = key /\ AssetFlow(key, K).observations \in Nat
  BY AssetFlowServed, Zenon DEF ShowsFlow
<1>6. \A x \in OwnAssets(K) : x.observations \in Int
  <2>1. \A n \in Nat : n \in Int
    OBVIOUS
  <2>2. QED
    BY <1>5, <2>1, Zenon DEF OwnAssets
<1>7. \A x, y \in OwnAssets(K) : x.key = y.key => x = y
  BY <1>5, Zenon DEF OwnAssets
<1>8. PICK flows : flows = OwnAssets(K)
  BY Zenon
<1>9. MostObserved(flows) \in Seq(flows) /\ Keyed(MostObserved(flows))
  BY <1>4, <1>6, <1>7, <1>8, MostObservedKeyed, Zenon
<1>10. Groups(K, AssetFlow) = MostObserved(flows)
  BY <1>8, Zenon DEF Groups, OwnAssets
<1>11. QED
  BY <1>8, <1>9, <1>10, Zenon

LEMMA AssetsOf ==
  ASSUME NEW items
  PROVE  /\ FlowSummary(items).assets = Groups(Transfers(items) \cup Swaps(items), AssetFlow)
         /\ FlowSummary(items).unnamedAssets
              = IdsOf((Transfers(items) \cup Swaps(items)) \ Named(Transfers(items) \cup Swaps(items)))
         /\ FlowSummary(items).unnamedCounterparties = IdsOf(Transfers(items) \ Named(Transfers(items)))
<1>1. PICK assets, counterparties, protocols, ids1, ids2, ids3 :
        /\ counterparties = Groups(Transfers(items), Flow) /\ protocols = Groups(Swaps(items), Flow)
        /\ assets = Groups(Transfers(items) \cup Swaps(items), AssetFlow)
        /\ ids1 = IdsOf((Transfers(items) \cup Swaps(items)) \ Named(Transfers(items) \cup Swaps(items)))
        /\ ids2 = IdsOf(Transfers(items) \ Named(Transfers(items)))
        /\ ids3 = IdsOf(Swaps(items) \ Named(Swaps(items)))
  BY Zenon
<1>2. FlowSummary(items) = [assets |-> assets, counterparties |-> counterparties, protocols |-> protocols,
                            unnamedAssets |-> ids1, unnamedCounterparties |-> ids2, unnamedProtocols |-> ids3]
  BY <1>1, Zenon DEF FlowSummary
<1>3. FlowSummary(items).assets = assets /\ FlowSummary(items).unnamedAssets = ids1
      /\ FlowSummary(items).unnamedCounterparties = ids2
  BY <1>2
<1>4. QED
  BY <1>1, <1>3, Zenon

-----------------------------------------------------------------------------
(* Findings as the schema has them.                                         *)

Passes(f, rule, key) == SchemaFinding(f) /\ f.rule = rule /\ f.key = key

LEMMA FindingServed ==
  ASSUME NEW rule, NEW key, NEW affected \in Int, NEW items, UniqueItems(items), \A i \in items : i.id \in Nat,
         NEW ids \in SUBSET IdsOf(items), ids # {}, Cardinality(ids) <= affected,
         NEW rows \in SUBSET ListedRow, IsFiniteSet(rows), UniqueIds(rows), NEW cap \in Int,
         rule = "failed_transaction_observations" => cap <= ProviderObservation
  PROVE  Passes(Finding(rule, key, affected, "activity_rows", ids, items, rows, cap), rule, key)
<1>0. PICK f : f = Finding(rule, key, affected, "activity_rows", ids, items, rows, cap)
  BY Zenon
<1>1. PICK known : known = {i \in items : i.id \in ids}
  BY Zenon
<1>2. known \in SUBSET items /\ IdsOf(known) = ids
  BY <1>1, Zenon DEF IdsOf
<1>3. UniqueItems(known) /\ \A i \in known : i.id \in Nat
  BY <1>2, UniqueSubset, Zenon
<1>4. known # {}
  BY <1>2, Zenon DEF IdsOf
<1>5. PICK shown, n, m : shown = Shortest(IdsOf(known), MaxSupport) /\ n = Cardinality(known) /\ m = Cardinality(shown)
  BY Zenon
<1>6. Supports(shown, known)
  BY <1>3, <1>4, <1>5, ShortestSupports, Zenon
<1>7. /\ shown \in SUBSET IdsOf(known) /\ shown # {} /\ IsFiniteSet(shown)
      /\ m \in Nat /\ n \in Nat /\ n >= 1 /\ m <= n
  BY <1>5, <1>6, Zenon DEF Supports
<1>8. Cardinality(ids) = n
  BY <1>2, <1>3, <1>5, IdsCounted, Zenon
<1>9. affected >= 1 /\ m <= affected
  BY <1>7, <1>8
<1>10. PICK about : about = {i \in known : i.id \in shown}
  BY Zenon
<1>11. UniqueItems(about) /\ (\A i \in about : i.id \in Nat) /\ IdsOf(about) = shown
  <2>1. about \in SUBSET known
    BY <1>10, Zenon
  <2>2. IdsOf(about) = shown
    BY <1>7, <1>10, Zenon DEF IdsOf
  <2>3. QED
    BY <1>3, <2>1, <2>2, UniqueSubset, Zenon
<1>12. Cardinality(about) = m
  BY <1>5, <1>11, IdsCounted, Zenon
<1>13. PICK g : g = [i \in about |-> [id |-> i.id, level |-> EvidenceLevel(i, rows)]]
  BY Zenon
<1>14. PICK support : support = {[id |-> i.id, level |-> EvidenceLevel(i, rows)] : i \in about}
  BY Zenon
<1>15. support = {g[i] : i \in about}
  BY <1>13, <1>14, Zenon
<1>16. \A i, j \in about : g[i] = g[j] => i = j
  <2>1. SUFFICES ASSUME NEW i \in about, NEW j \in about, g[i] = g[j] PROVE i = j
    BY Zenon
  <2>2. g[i].id = i.id /\ g[j].id = j.id
    BY <1>13
  <2>3. i.id = j.id
    BY <2>1, <2>2, Zenon
  <2>4. QED
    BY <1>11, <2>3, Zenon DEF UniqueItems
<1>17. Cardinality(support) = m
  <2>1. IsFiniteSet(about)
    BY <1>11, Zenon DEF UniqueItems
  <2>2. DOMAIN g = about
    BY <1>13, Zenon
  <2>3. Cardinality(support) = Cardinality(about)
    BY <1>15, <1>16, <2>1, <2>2, ImageOfInjective
  <2>4. QED
    BY <1>12, <2>3, Zenon
<1>18. support # {}
  <2>1. about # {}
    BY <1>7, <1>11, Zenon DEF IdsOf
  <2>2. QED
    BY <1>14, <2>1, Zenon
<1>19. PICK truncated \in BOOLEAN : truncated = (affected > m)
  <2>1. (affected > m) \in BOOLEAN
    OBVIOUS
  <2>2. QED
    BY <2>1, Zenon
<1>20. PICK level : level = Min({EvidenceLevel(i, rows) : i \in known} \cup {IF known = {} THEN BaseLevel ELSE ChainInclusionProven})
  BY Zenon
<1>21. f = [rule |-> rule, key |-> key, affected |-> affected, basis |-> "activity_rows", support |-> support,
            truncated |-> truncated, level |-> Min({level, cap})]
  <2>1. ("activity_rows" = "activity_rows" /\ affected > m) = (affected > m)
    OBVIOUS
  <2>2. QED
    BY <1>0, <1>1, <1>5, <1>10, <1>14, <1>19, <1>20, <2>1, Zenon DEF Finding
<1>22. /\ f.rule = rule /\ f.key = key /\ f.affected = affected /\ f.basis = "activity_rows" /\ f.support = support
       /\ f.truncated = truncated /\ f.level = Min({level, cap})
  BY <1>21
<1>23. IsFiniteSet(items)
  BY Zenon DEF UniqueItems
<1>24. SaysOf(f, rule, ids, items, rows)
  BY <1>0, <1>23, FindingFacts, Zenon
<1>25. \A row \in f.support : f.level <= row.level
  BY <1>24, Zenon DEF SaysOf
<1>26. level \in Int
  <2>1. PICK levels : levels = [i \in known |-> EvidenceLevel(i, rows)]
    BY Zenon
  <2>2. \A i : EvidenceLevel(i, rows) \in Int
    <3>1. \A i : EvidenceLevel(i, rows) \in 0..3
      BY LevelIsBest, Zenon
    <3>2. QED
      BY <3>1
  <2>3. PICK S : S = {levels[i] : i \in known} \cup {ChainInclusionProven}
    BY Zenon
  <2>4. DOMAIN levels = known /\ \A i \in known : levels[i] \in Int /\ levels[i] = EvidenceLevel(i, rows)
    BY <2>1, <2>2, Zenon
  <2>5. ChainInclusionProven \in Int
    BY DEF ChainInclusionProven
  <2>6. IsFiniteSet(known)
    BY <1>3, Zenon DEF UniqueItems
  <2>7. Min(S) \in Int
    BY <2>3, <2>4, <2>5, <2>6, LeastLevel
  <2>8. S = {EvidenceLevel(i, rows) : i \in known} \cup {IF known = {} THEN BaseLevel ELSE ChainInclusionProven}
    BY <1>4, <2>3, <2>4, Zenon
  <2>9. QED
    BY <1>20, <2>7, <2>8, Zenon
<1>27. f.level <= cap
  <2>1. Min({level, cap}) = IF level <= cap THEN level ELSE cap
    BY <1>26, MaxMinOfTwo
  <2>2. QED
    BY <1>22, <1>26, <2>1
<1>28. f.rule = "failed_transaction_observations" => f.level <= ProviderObservation
  <2>1. f.level \in Int
    BY <1>24, Zenon DEF SaysOf
  <2>2. ProviderObservation \in Int
    BY DEF ProviderObservation
  <2>3. QED
    BY <1>22, <1>27, <2>1, <2>2
<1>29. SchemaFinding(f)
  BY <1>9, <1>17, <1>18, <1>19, <1>22, <1>25, <1>28, Zenon DEF SchemaFinding
<1>30. QED
  BY <1>0, <1>22, <1>29, Zenon DEF Passes

LEMMA OneCode == ASSUME NEW x, NEW G \in SUBSET {x} PROVE IsFiniteSet(G)
BY FS_Singleton, FS_Subset, Zenon

LEMMA GapsCounted ==
  ASSUME SyncsOK, NEW s
  PROVE  Cardinality(ActivityPart(View(s, NoFilter)).gaps) \in Nat
<1>1. NoFilter.oldest \in BOOLEAN
  BY DEF NoFilter
<1>2. PICK view, B, q : view = View(s, NoFilter) /\ B = Built(s, NoFilter) /\ q = NoFilter
  BY Zenon
<1>3. view.gaps = Gaps(s, B, q)
  <2>1. View(s, NoFilter).gaps = Gaps(s, Built(s, NoFilter), NoFilter)
    BY <1>1, ViewFacts
  <2>2. QED
    BY <1>2, <2>1, Zenon
<1>4. ActivityPart(view).gaps = view.gaps
  BY DEF ActivityPart
<1>5. PICK G1, G2, G3, G4, G5, G6, G7, G8 :
        /\ G1 = {code \in {"surface_incomplete"} : syncs[s].state = "partial" /\ \E k \in syncs[s].kinds : MayMatch(k, q)}
        /\ G2 = {code \in {"identity_semantic_conflict"} : MatchingConflicts(B, q) # {}}
        /\ G3 = {code \in {"activity_identity_unavailable"} : Unidentified(B, q) # {}}
        /\ G4 = {code \in {"asset_identity_unavailable"} : UnnamedAssets(B, q) # {}}
        /\ G5 = {code \in {"activity_timestamp_unavailable"} : Undated(B, q) # {}}
        /\ G6 = {code \in {"source_scope_mismatch"} : Mismatched(B, q) # {}}
        /\ G7 = {code \in {"source_provenance_mismatch"} : Invalid(B, q) # {}}
        /\ G8 = {code \in {"demo_fixture_period_not_chain_coverage"} : environment = "demo" /\ AcceptsOrigin(q)}
  BY Zenon
<1>6. /\ IsFiniteSet(G1) /\ IsFiniteSet(G2) /\ IsFiniteSet(G3) /\ IsFiniteSet(G4)
      /\ IsFiniteSet(G5) /\ IsFiniteSet(G6) /\ IsFiniteSet(G7) /\ IsFiniteSet(G8)
  <2>1. /\ G1 \in SUBSET {"surface_incomplete"} /\ G2 \in SUBSET {"identity_semantic_conflict"}
        /\ G3 \in SUBSET {"activity_identity_unavailable"} /\ G4 \in SUBSET {"asset_identity_unavailable"}
        /\ G5 \in SUBSET {"activity_timestamp_unavailable"} /\ G6 \in SUBSET {"source_scope_mismatch"}
        /\ G7 \in SUBSET {"source_provenance_mismatch"} /\ G8 \in SUBSET {"demo_fixture_period_not_chain_coverage"}
    BY <1>5, Zenon
  <2>2. QED
    BY <2>1, OneCode, Zenon
<1>7. Gaps(s, B, q) = G1 \cup G2 \cup G3 \cup G4 \cup G5 \cup G6 \cup G7 \cup G8
  BY <1>5, Zenon DEF Gaps
<1>8. IsFiniteSet(G1 \cup G2 \cup G3 \cup G4)
  BY <1>6, FS_Union, Zenon
<1>9. IsFiniteSet(G1 \cup G2 \cup G3 \cup G4 \cup G5 \cup G6 \cup G7 \cup G8)
  BY <1>6, <1>8, FS_Union, Zenon
<1>10. QED
  BY <1>2, <1>3, <1>4, <1>7, <1>9, FS_CardinalityType, Zenon

(* The findings of one rule.                                                *)
RuleServed(F, rule) ==
  /\ \A f \in F : SchemaFinding(f) /\ f.rule = rule
  /\ \A f, g \in F : f.key = g.key => f = g

LEMMA DiagnosticServed ==
  ASSUME NEW rule, rule # "failed_transaction_observations", NEW count \in Nat, NEW basis, basis # "activity_rows"
  PROVE  RuleServed(Diagnostic(rule, count, basis), rule)
<1>1. PICK F : F = Diagnostic(rule, count, basis)
  BY Zenon
<1>2. F = {Finding(rule, "case", n, basis, {}, {}, {}, ChainInclusionProven) : n \in {count} \ {0}}
  BY <1>1, Zenon DEF Diagnostic
<1>3. ASSUME NEW f \in F PROVE SchemaFinding(f) /\ f.rule = rule /\ count # 0 /\ f = Finding(rule, "case", count, basis, {}, {}, {}, ChainInclusionProven)
  <2>1. count # 0 /\ f = Finding(rule, "case", count, basis, {}, {}, {}, ChainInclusionProven)
    BY <1>2, Zenon
  <2>2. PICK known, shown, level, support :
          /\ known = {i \in {} : i.id \in {}} /\ shown = Shortest(IdsOf(known), MaxSupport)
          /\ level = Min({EvidenceLevel(i, {}) : i \in known} \cup {IF known = {} THEN BaseLevel ELSE ChainInclusionProven})
          /\ support = {[id |-> i.id, level |-> EvidenceLevel(i, {})] : i \in {i \in known : i.id \in shown}}
    BY Zenon
  <2>3. support = {}
    <3>1. known = {}
      BY <2>2, Zenon
    <3>2. QED
      BY <2>2, <3>1, Zenon
  <2>4. (basis = "activity_rows" /\ count > Cardinality(shown)) = FALSE
    OBVIOUS
  <2>5. f = [rule |-> rule, key |-> "case", affected |-> count, basis |-> basis, support |-> support,
             truncated |-> FALSE, level |-> Min({level, ChainInclusionProven})]
    BY <2>1, <2>2, <2>4, Zenon DEF Finding
  <2>6. f.rule = rule /\ f.affected = count /\ f.basis = basis /\ f.support = support /\ f.truncated = FALSE
    BY <2>5
  <2>7. f.affected >= 1
    BY <2>1, <2>6
  <2>8. SchemaFinding(f)
    BY <2>3, <2>6, <2>7, Zenon DEF SchemaFinding
  <2>9. QED
    BY <2>1, <2>6, <2>8, Zenon
<1>4. QED
  BY <1>1, <1>3, Zenon DEF RuleServed

LEMMA AboutServed ==
  ASSUME NEW rule, NEW items, UniqueItems(items), \A i \in items : i.id \in Nat,
         NEW ids \in SUBSET IdsOf(items), NEW rows \in SUBSET ListedRow, IsFiniteSet(rows), UniqueIds(rows), NEW cap \in Int,
         rule = "failed_transaction_observations" => cap <= ProviderObservation
  PROVE  RuleServed(About(rule, ids, items, rows, cap), rule)
<1>1. PICK F : F = About(rule, ids, items, rows, cap)
  BY Zenon
<1>2. IsFiniteSet(ids)
  <2>1. IsFiniteSet(IdsOf(items))
    BY IdsCounted, Zenon
  <2>2. QED
    BY <2>1, FS_Subset, Zenon
<1>3. PICK n : n = Cardinality(ids)
  BY Zenon
<1>4. n \in Nat /\ n \in Int /\ n <= n
  <2>1. n \in Nat
    BY <1>2, <1>3, FS_CardinalityType, Zenon
  <2>2. QED
    BY <2>1
<1>5. F = {Finding(rule, "case", n, "activity_rows", ids, items, rows, cap) : k \in {1} \cap 1..n}
  BY <1>1, <1>3, Zenon DEF About
<1>6. ASSUME NEW f \in F
      PROVE  f = Finding(rule, "case", n, "activity_rows", ids, items, rows, cap) /\ SchemaFinding(f) /\ f.rule = rule
  <2>1. PICK k \in {1} \cap 1..n : f = Finding(rule, "case", n, "activity_rows", ids, items, rows, cap)
    BY <1>5, Zenon
  <2>2. n # 0
    BY <1>4, <2>1
  <2>3. ids # {}
    BY <1>3, <2>2, FS_EmptySet, Zenon
  <2>4. Cardinality(ids) <= n
    BY <1>3, <1>4, Zenon
  <2>4a. Passes(Finding(rule, "case", n, "activity_rows", ids, items, rows, cap), rule, "case")
    BY <1>4, <2>3, <2>4, FindingServed, Zenon
  <2>5. QED
    BY <2>1, <2>4a, Zenon DEF Passes
<1>7. QED
  BY <1>1, <1>6, Zenon DEF RuleServed

LEMMA PatternServed ==
  ASSUME NEW rule, rule # "failed_transaction_observations",
         NEW items, UniqueItems(items), \A i \in items : i.id \in Nat, NEW K \in SUBSET items,
         NEW groups \in Seq(OwnFlows(K)), Keyed(groups),
         NEW rows \in SUBSET ListedRow, IsFiniteSet(rows), UniqueIds(rows)
  PROVE  RuleServed(Pattern(rule, groups, items, rows), rule)
<1>1. PICK F, first : F = Pattern(rule, groups, items, rows) /\ first = FirstOf(groups, MaxPatterns)
  BY Zenon
<1>2. first \in Seq(OwnFlows(K)) /\ Keyed(first)
  <2>1. MaxPatterns \in Nat
    BY FindingAssumption DEF FindingAssumption
  <2>2. QED
    BY <1>1, <2>1, FirstOfKeeps, Zenon
<1>3. F = {Finding(rule, first[n].key, first[n].observations, "activity_rows", first[n].support, items, rows,
                   ChainInclusionProven) : n \in 1..Len(first)}
  BY <1>1, Zenon DEF Pattern
<1>4. UniqueItems(K) /\ \A i \in K : i.id \in Nat
  BY UniqueSubset, Zenon
<1>5. ASSUME NEW n \in 1..Len(first), NEW f,
             f = Finding(rule, first[n].key, first[n].observations, "activity_rows", first[n].support, items, rows,
                         ChainInclusionProven)
      PROVE  SchemaFinding(f) /\ f.rule = rule /\ f.key = first[n].key
  <2>1. first[n] \in OwnFlows(K)
    BY <1>2
  <2>2. ShowsFlow(first[n], IdsOf(K))
    <3>1. PICK key \in {i.value : i \in Named(K)} : first[n] = Flow(key, K)
      BY <2>1, Zenon DEF OwnFlows
    <3>2. QED
      BY <1>4, <3>1, FlowServed, Zenon
  <2>3. PICK key, seen, support : key = first[n].key /\ seen = first[n].observations /\ support = first[n].support
    BY Zenon
  <2>4. seen \in Nat /\ support \in SUBSET IdsOf(K) /\ support # {} /\ Cardinality(support) <= seen
    BY <2>2, <2>3, Zenon DEF ShowsFlow
  <2>5. support \in SUBSET IdsOf(items)
    BY <2>4, Zenon DEF IdsOf
  <2>6. seen \in Int /\ ChainInclusionProven \in Int
    BY <2>4 DEF ChainInclusionProven
  <2>7. f = Finding(rule, key, seen, "activity_rows", support, items, rows, ChainInclusionProven)
    BY <1>5, <2>3, Zenon
  <2>8. Passes(Finding(rule, key, seen, "activity_rows", support, items, rows, ChainInclusionProven), rule, key)
    <3>1. support # {} /\ Cardinality(support) <= seen
      BY <2>4, Zenon
    <3>2. PICK top : top = ChainInclusionProven
      BY Zenon
    <3>3. top \in Int /\ (rule = "failed_transaction_observations" => top <= ProviderObservation)
      BY <2>6, <3>2, Zenon
    <3>4. QED
      BY <2>5, <2>6, <3>1, <3>2, <3>3, FindingServed, Zenon
  <2>9. QED
    BY <2>3, <2>7, <2>8, Zenon DEF Passes
<1>6. \A f \in F : SchemaFinding(f) /\ f.rule = rule
  BY <1>3, <1>5, Zenon
<1>7. ASSUME NEW f \in F, NEW g \in F, f.key = g.key PROVE f = g
  <2>1. PICK m \in 1..Len(first) :
          f = Finding(rule, first[m].key, first[m].observations, "activity_rows", first[m].support, items, rows, ChainInclusionProven)
    BY <1>3, Zenon
  <2>2. PICK n \in 1..Len(first) :
          g = Finding(rule, first[n].key, first[n].observations, "activity_rows", first[n].support, items, rows, ChainInclusionProven)
    BY <1>3, Zenon
  <2>3. first[m].key = first[n].key
    BY <1>5, <1>7, <2>1, <2>2, Zenon
  <2>4. m = n
    BY <1>2, <2>3, Zenon DEF Keyed
  <2>5. QED
    BY <2>1, <2>2, <2>4, Zenon
<1>8. QED
  BY <1>1, <1>6, <1>7, Zenon DEF RuleServed

Distinct(findings) ==
  /\ \A f \in findings : SchemaFinding(f)
  /\ \A f, g \in findings : f.rule = g.rule /\ f.key = g.key => f = g

LEMMA FindingsPass ==
  ASSUME SyncsOK, NEW s, NEW rows \in BoundRows(s), NEW activity, activity = ActivityPart(View(s, NoFilter)),
         NEW items, items = Items(s, NoFilter), NEW findings, findings = FindingsOn(items, activity, FlowSummary(items), rows)
  PROVE  Distinct(findings)
<1>1. UniqueItems(items) /\ \A i \in items : i.id \in Nat
  BY SnapshotItems, Zenon
<1>2. rows \in SUBSET ListedRow /\ IsFiniteSet(rows) /\ UniqueIds(rows)
  BY Zenon DEF BoundRows
<1>3. ChainInclusionProven \in Int /\ BaseLevel \in Int /\ BaseLevel <= ProviderObservation
  BY DEF ChainInclusionProven, BaseLevel, Fixture, ProviderObservation
<1>4. PICK flows : flows = FlowSummary(items)
  BY Zenon
<1>5. ASSUME NEW K \in SUBSET items PROVE UniqueItems(K) /\ \A i \in K : i.id \in Nat
  BY <1>1, UniqueSubset, Zenon
<1>6. Transfers(items) \in SUBSET items /\ Swaps(items) \in SUBSET items
  BY Zenon DEF Transfers, Swaps
<1>7. /\ Repeated(flows.counterparties) \in Seq(OwnFlows(Transfers(items))) /\ Keyed(Repeated(flows.counterparties))
      /\ flows.protocols \in Seq(OwnFlows(Swaps(items))) /\ Keyed(flows.protocols)
  <2>1. flows.counterparties = Groups(Transfers(items), Flow) /\ flows.protocols = Groups(Swaps(items), Flow)
    BY <1>4, FlowsOf, Zenon
  <2>2. /\ Groups(Transfers(items), Flow) \in Seq(OwnFlows(Transfers(items))) /\ Keyed(Groups(Transfers(items), Flow))
        /\ Groups(Swaps(items), Flow) \in Seq(OwnFlows(Swaps(items))) /\ Keyed(Groups(Swaps(items), Flow))
    BY <1>5, <1>6, GroupsServed, Zenon
  <2>3. QED
    BY <2>1, <2>2, RepeatedKeeps, Zenon
<1>8. PICK ids1, ids2, ids3, gaps, conflicts :
        /\ ids1 = IdsOf({i \in items : i.kind = "transaction" /\ i.value = Failed})
        /\ ids2 = flows.unnamedAssets /\ ids3 = flows.unnamedCounterparties
        /\ gaps = Cardinality(activity.gaps) /\ conflicts = activity.aggregate.conflicts
  BY Zenon
<1>9. ids1 \in SUBSET IdsOf(items) /\ ids2 \in SUBSET IdsOf(items) /\ ids3 \in SUBSET IdsOf(items)
  <2>1. ids2 = IdsOf((Transfers(items) \cup Swaps(items)) \ Named(Transfers(items) \cup Swaps(items)))
        /\ ids3 = IdsOf(Transfers(items) \ Named(Transfers(items)))
    BY <1>4, <1>8, AssetsOf, Zenon
  <2>2. QED
    BY <1>6, <1>8, <2>1, Zenon DEF IdsOf
<1>10. conflicts \in Nat
  BY <1>8, ActivityNumbers, Zenon
<1>11. gaps \in Nat
  BY <1>8, GapsCounted, Zenon
<1>12. PICK F1, F2, F3, F4, F5, F6, F7 :
        /\ F1 = Diagnostic("activity_coverage_gaps", gaps, "coverage_gaps")
        /\ F2 = Diagnostic("activity_identity_conflicts", conflicts, "identity_conflicts")
        /\ F3 = About("failed_transaction_observations", ids1, items, rows, BaseLevel)
        /\ F4 = About("unavailable_asset_identity", ids2, items, rows, ChainInclusionProven)
        /\ F5 = About("unavailable_counterparty_identity", ids3, items, rows, ChainInclusionProven)
        /\ F6 = Pattern("repeated_counterparty_observations", Repeated(flows.counterparties), items, rows)
        /\ F7 = Pattern("recognized_protocol_observations", flows.protocols, items, rows)
  BY Zenon
<1>13. findings = F1 \cup F2 \cup F3 \cup F4 \cup F5 \cup F6 \cup F7
  BY <1>4, <1>8, <1>12, Zenon DEF FindingsOn
<1>14. /\ "activity_coverage_gaps" # "failed_transaction_observations" /\ "coverage_gaps" # "activity_rows"
       /\ "activity_identity_conflicts" # "failed_transaction_observations" /\ "identity_conflicts" # "activity_rows"
       /\ "repeated_counterparty_observations" # "failed_transaction_observations"
       /\ "recognized_protocol_observations" # "failed_transaction_observations"
  OBVIOUS
<1>15. RuleServed(F1, "activity_coverage_gaps") /\ RuleServed(F2, "activity_identity_conflicts")
  BY <1>10, <1>11, <1>12, <1>14, DiagnosticServed, Zenon
<1>16. RuleServed(F3, "failed_transaction_observations")
  BY <1>1, <1>2, <1>3, <1>9, <1>12, AboutServed, Zenon
<1>17. RuleServed(F4, "unavailable_asset_identity") /\ RuleServed(F5, "unavailable_counterparty_identity")
  <2>1. "unavailable_asset_identity" # "failed_transaction_observations"
        /\ "unavailable_counterparty_identity" # "failed_transaction_observations"
    OBVIOUS
  <2>2. QED
    BY <1>1, <1>2, <1>3, <1>9, <1>12, <2>1, AboutServed, Zenon
<1>18. RuleServed(F6, "repeated_counterparty_observations") /\ RuleServed(F7, "recognized_protocol_observations")
  BY <1>1, <1>2, <1>6, <1>7, <1>12, <1>14, PatternServed, Zenon
<1>19. \A f \in findings : SchemaFinding(f)
  BY <1>13, <1>15, <1>16, <1>17, <1>18, Zenon DEF RuleServed
<1>20. ASSUME NEW f \in findings, NEW g \in findings, f.rule = g.rule, f.key = g.key PROVE f = g
  <2>1. /\ f.rule = "activity_coverage_gaps" <=> f \in F1
        /\ f.rule = "activity_identity_conflicts" <=> f \in F2
        /\ f.rule = "failed_transaction_observations" <=> f \in F3
        /\ f.rule = "unavailable_asset_identity" <=> f \in F4
        /\ f.rule = "unavailable_counterparty_identity" <=> f \in F5
        /\ f.rule = "repeated_counterparty_observations" <=> f \in F6
        /\ f.rule = "recognized_protocol_observations" <=> f \in F7
        /\ g.rule = "activity_coverage_gaps" <=> g \in F1
        /\ g.rule = "activity_identity_conflicts" <=> g \in F2
        /\ g.rule = "failed_transaction_observations" <=> g \in F3
        /\ g.rule = "unavailable_asset_identity" <=> g \in F4
        /\ g.rule = "unavailable_counterparty_identity" <=> g \in F5
        /\ g.rule = "repeated_counterparty_observations" <=> g \in F6
        /\ g.rule = "recognized_protocol_observations" <=> g \in F7
    BY <1>13, <1>15, <1>16, <1>17, <1>18, <1>20 DEF RuleServed
  <2>2. QED
    BY <1>13, <1>15, <1>16, <1>17, <1>18, <1>20, <2>1, Zenon DEF RuleServed
<1>21. QED
  BY <1>19, <1>20, Zenon DEF Distinct

LEMMA FindingsServed ==
  ASSUME SyncsOK, NEW s, NEW rows \in BoundRows(s), NEW total \in Nat, Cardinality(rows) <= total,
         NEW items, items = Items(s, NoFilter), NEW activity, activity = ActivityPart(View(s, NoFilter))
  PROVE  SchemaFindings(FindingsDocument(s, items, activity, rows, total))
<1>1. PICK d, flows, findings : /\ d = FindingsDocument(s, items, activity, rows, total) /\ flows = FlowSummary(items)
                                /\ findings = FindingsOn(items, activity, FlowSummary(items), rows)
  BY Zenon
<1>2. DocumentOf(d, flows, total, rows, findings)
  BY <1>1, DocumentFields
<1>3. /\ d.total = total /\ d.returned = Cardinality(rows) /\ (d.evidenceTruncated <=> total > Cardinality(rows))
      /\ d.assets = Cut(flows.assets) /\ d.counterparties = Cut(flows.counterparties)
      /\ d.protocols = Cut(flows.protocols) /\ d.findings = findings
  BY <1>2, Zenon DEF DocumentOf
<1>4. /\ \A f \in findings : SchemaFinding(f)
      /\ \A f, g \in findings : f.rule = g.rule /\ f.key = g.key => f = g
  <2>1. findings = FindingsOn(items, activity, FlowSummary(items), rows)
    BY <1>1, Zenon
  <2>2. Distinct(findings)
    BY <2>1, FindingsPass
  <2>3. QED
    BY <2>2, Zenon DEF Distinct
<1>5. UniqueItems(items) /\ \A i \in items : i.id \in Nat
  BY SnapshotItems, Zenon
<1>6. PICK T, W, V : T = Transfers(items) /\ W = Swaps(items) /\ V = T \cup W
  BY Zenon
<1>7. T \in SUBSET items /\ W \in SUBSET items /\ V \in SUBSET items
  BY <1>6, Zenon DEF Transfers, Swaps
<1>8. /\ UniqueItems(T) /\ UniqueItems(W) /\ UniqueItems(V) /\ (\A i \in T : i.id \in Nat) /\ (\A i \in W : i.id \in Nat)
      /\ \A i \in V : i.id \in Nat
  BY <1>5, <1>7, UniqueSubset, Zenon
<1>9. \A i \in V : i.kind \in {"transfer", "swap"}
  BY <1>6 DEF Transfers, Swaps
<1>10. flows.counterparties = Groups(T, Flow) /\ flows.protocols = Groups(W, Flow) /\ flows.assets = Groups(V, AssetFlow)
  BY <1>1, <1>6, FlowsOf, AssetsOf, Zenon
<1>11. /\ flows.counterparties \in Seq(OwnFlows(T)) /\ Keyed(flows.counterparties)
       /\ flows.protocols \in Seq(OwnFlows(W)) /\ Keyed(flows.protocols)
  BY <1>8, <1>10, GroupsServed, Zenon
<1>12. flows.assets \in Seq(OwnAssets(V)) /\ Keyed(flows.assets)
  BY <1>8, <1>9, <1>10, AssetsServed, Zenon
<1>13. SchemaFlows(d.assets) /\ SchemaFlows(d.counterparties) /\ SchemaFlows(d.protocols)
  BY <1>3, <1>11, <1>12, CutServed, Zenon
<1>14. \A n \in 1..Len(d.assets.rows) : ShowsFlow(d.assets.rows[n], IdsOf(V))
  <2>1. PICK shown : shown = d.assets.rows
    BY Zenon
  <2>2. shown \in Seq(OwnAssets(V))
    BY <1>3, <1>12, <2>1, CutServed, Zenon
  <2>3. \A n \in 1..Len(shown) : shown[n] \in OwnAssets(V)
    BY <2>2
  <2>4. \A flow \in OwnAssets(V) : ShowsFlow(flow, IdsOf(V))
    BY <1>8, <1>9, AssetFlowServed, Zenon DEF OwnAssets
  <2>5. QED
    BY <2>1, <2>3, <2>4, Zenon
<1>15. \A n \in 1..Len(d.counterparties.rows) : ShowsFlow(d.counterparties.rows[n], IdsOf(T)) /\ Counts(d.counterparties.rows[n])
  <2>1. PICK shown : shown = d.counterparties.rows
    BY Zenon
  <2>2. shown \in Seq(OwnFlows(T))
    BY <1>3, <1>11, <2>1, CutServed, Zenon
  <2>3. \A n \in 1..Len(shown) : shown[n] \in OwnFlows(T)
    BY <2>2
  <2>4. \A flow \in OwnFlows(T) : ShowsFlow(flow, IdsOf(T)) /\ Counts(flow)
    BY <1>8, FlowServed, Zenon DEF OwnFlows
  <2>5. QED
    BY <2>1, <2>3, <2>4, Zenon
<1>16. \A n \in 1..Len(d.protocols.rows) : ShowsFlow(d.protocols.rows[n], IdsOf(W)) /\ Counts(d.protocols.rows[n])
  <2>1. PICK shown : shown = d.protocols.rows
    BY Zenon
  <2>2. shown \in Seq(OwnFlows(W))
    BY <1>3, <1>11, <2>1, CutServed, Zenon
  <2>3. \A n \in 1..Len(shown) : shown[n] \in OwnFlows(W)
    BY <2>2
  <2>4. \A flow \in OwnFlows(W) : ShowsFlow(flow, IdsOf(W)) /\ Counts(flow)
    BY <1>8, FlowServed, Zenon DEF OwnFlows
  <2>5. QED
    BY <2>1, <2>3, <2>4, Zenon
<1>17. d.returned <= d.total /\ (d.evidenceTruncated <=> d.total > d.returned)
  BY <1>3, Zenon
<1>18. \A cut \in {d.assets, d.counterparties, d.protocols} :
         SchemaFlows(cut) /\ \A n \in 1..Len(cut.rows) : cut.rows[n].observations >= 1
  BY <1>13, <1>14, <1>15, <1>16, Zenon DEF ShowsFlow
<1>19. \A n \in 1..Len(d.assets.rows) :
         /\ Cardinality(d.assets.rows[n].support) <= d.assets.rows[n].observations
         /\ d.assets.rows[n].truncated => Cardinality(d.assets.rows[n].support) = MaxSupport
  BY <1>14, Zenon DEF ShowsFlow
<1>20. \A cut \in {d.counterparties, d.protocols} : \A n \in 1..Len(cut.rows) :
         cut.rows[n].truncated <=> cut.rows[n].observations > Cardinality(cut.rows[n].support)
  BY <1>15, <1>16, Zenon DEF Counts
<1>21. SchemaFindings(d)
  BY <1>3, <1>4, <1>17, <1>18, <1>19, <1>20, Zenon DEF SchemaFindings
<1>22. QED
  BY <1>1, <1>21, Zenon

LEMMA FindingsAnswered ==
  ASSUME SyncsOK, ReportsOK, AnswersOK
  PROVE  FindingsAreServed
<1>1. SUFFICES ASSUME NEW p \in Readers, building[p].at = "built", ~ building[p].store, ~ deleted
               PROVE  SchemaFindings(FindingsNow(p))
  BY Zenon DEF FindingsAreServed
<1>2. PICK b : b = building[p]
  BY Zenon
<1>3. WellRead(b) /\ BuildingOK(b) /\ b.at = "built" /\ ~ b.store
  BY <1>1, <1>2, Zenon DEF AnswersOK, ReportsOK, BuildingsOK
<1>4. /\ b.snapshot \in Usable /\ b.activity = ActivityPart(View(b.snapshot, NoFilter))
      /\ b.items = Items(b.snapshot, NoFilter) /\ b.rows \in BoundRows(b.snapshot) /\ b.total \in Nat
  <2>1. b.at # "idle" /\ b.at \in {"count", "built", "insert"} /\ b.at \in {"built", "insert"}
    BY <1>3
  <2>2. QED
    BY <1>3, <2>1, Zenon DEF BuildingOK
<1>5. Cardinality(b.rows) <= b.total
  <2>1. b.at \in {"built", "insert"}
    BY <1>3
  <2>2. QED
    BY <1>1, <1>3, <2>1, Zenon DEF WellRead
<1>6. PICK s, items, activity, rows, total :
        s = b.snapshot /\ items = b.items /\ activity = b.activity /\ rows = b.rows /\ total = b.total
  BY Zenon
<1>7. SchemaFindings(FindingsDocument(s, items, activity, rows, total))
  <2>1. /\ rows \in BoundRows(s) /\ total \in Nat /\ Cardinality(rows) <= total
        /\ items = Items(s, NoFilter) /\ activity = ActivityPart(View(s, NoFilter))
    BY <1>4, <1>5, <1>6, Zenon
  <2>2. QED
    BY <2>1, FindingsServed, Zenon
<1>8. FindingsNow(p) = FindingsDocument(b.snapshot, b.items, b.activity, b.rows, b.total)
  BY <1>2, Zenon DEF FindingsNow
<1>9. QED
  BY <1>6, <1>7, <1>8, Zenon

-----------------------------------------------------------------------------
(* What a finding says of all the activities that its rule is about.        *)

AffectedBy(f, items) ==
  CASE f.rule = "failed_transaction_observations" -> {i \in items : i.kind = "transaction" /\ i.value = Failed}
    [] f.rule = "unavailable_asset_identity" -> {i \in Transfers(items) \cup Swaps(items) : i.value = Unnamed}
    [] f.rule = "unavailable_counterparty_identity" -> {i \in Transfers(items) : i.value = Unnamed}
    [] f.rule = "repeated_counterparty_observations" -> {i \in Transfers(items) : i.value = f.key}
    [] f.rule = "recognized_protocol_observations" -> {i \in Swaps(items) : i.value = f.key}
CapOf(f) == IF f.rule = "failed_transaction_observations" THEN BaseLevel ELSE ChainInclusionProven

SaysOfAll(f, A, cap, rows) ==
  /\ f.affected = Cardinality(A)
  /\ f.level = Min({EvidenceLevel(i, rows) : i \in A} \cup {cap})
  /\ \A row \in f.support : \E i \in A : row.id = i.id /\ row.level = EvidenceLevel(i, rows)
IsOf(f, rule, key) == f.rule = rule /\ f.key = key /\ f.basis = "activity_rows"

(* A cap below the top is the least of the levels with it.                  *)
LEMMA CappedLevel ==
  ASSUME NEW S \in SUBSET Int, IsFiniteSet(S), NEW top \in Int, NEW cap \in Int, cap <= top
  PROVE  Min({Min(S \cup {top}), cap}) = Min(S \cup {cap})
<1>1. PICK T, C : T = S \cup {top} /\ C = S \cup {cap}
  BY Zenon
<1>2. IsFiniteSet(T) /\ IsFiniteSet(C)
  BY <1>1, FS_AddElement, Zenon
<1>3. T \in SUBSET Int /\ C \in SUBSET Int /\ T # {} /\ C # {}
  BY <1>1
<1>4. PICK a, b : a = Min(T) /\ b = Min(C)
  BY Zenon
<1>5. a \in T /\ (\A y \in T : a <= y) /\ b \in C /\ \A y \in C : b <= y
  BY <1>2, <1>3, <1>4, MaxMin, Zenon
<1>6. a \in Int /\ b \in Int
  BY <1>3, <1>5
<1>7. Min({a, cap}) = IF a <= cap THEN a ELSE cap
  BY <1>6, MaxMinOfTwo
<1>8. (a \in S \/ a = top) /\ (b \in S \/ b = cap) /\ b <= cap /\ a <= top
      /\ (b \in S => a <= b) /\ (a \in S => b <= a)
  BY <1>1, <1>5
<1>9. (IF a <= cap THEN a ELSE cap) = b
  BY <1>6, <1>8
<1>10. QED
  BY <1>1, <1>4, <1>7, <1>9, Zenon

(* The items a finding knows have the levels of all that its rule is about. *)
LEMMA FindingSays ==
  ASSUME NEW rule, NEW key, NEW affected, NEW ids, NEW items, IsFiniteSet(items),
         NEW rows \in SUBSET ListedRow, IsFiniteSet(rows), UniqueIds(rows), NEW cap \in Int, cap <= ChainInclusionProven,
         NEW A, affected = Cardinality(A), {i \in items : i.id \in ids} \in SUBSET A, {i \in items : i.id \in ids} # {},
         \A i \in A : \E j \in items : j.id \in ids /\ EvidenceLevel(j, rows) = EvidenceLevel(i, rows),
         NEW f, f = Finding(rule, key, affected, "activity_rows", ids, items, rows, cap)
  PROVE  IsOf(f, rule, key) /\ SaysOfAll(f, A, cap, rows)
<1>1. PICK known, S : known = {i \in items : i.id \in ids} /\ S = {EvidenceLevel(i, rows) : i \in known}
  BY Zenon
<1>2. known \in SUBSET items /\ known \in SUBSET A /\ known # {}
  BY <1>1, Zenon
<1>3. PICK shown : shown = Shortest(IdsOf(known), MaxSupport)
  BY Zenon
<1>4. PICK truncated : truncated = (affected > Cardinality(shown))
  BY Zenon
<1>5. PICK support : support = {[id |-> i.id, level |-> EvidenceLevel(i, rows)] : i \in {i \in known : i.id \in shown}}
  BY Zenon
<1>6. f = [rule |-> rule, key |-> key, affected |-> affected, basis |-> "activity_rows", support |-> support,
           truncated |-> ("activity_rows" = "activity_rows" /\ affected > Cardinality(shown)),
           level |-> Min({Min(S \cup {IF known = {} THEN BaseLevel ELSE ChainInclusionProven}), cap})]
  BY <1>1, <1>3, <1>5, Zenon DEF Finding
<1>7. PICK cut, level : /\ cut = ("activity_rows" = "activity_rows" /\ affected > Cardinality(shown))
                        /\ level = Min({Min(S \cup {IF known = {} THEN BaseLevel ELSE ChainInclusionProven}), cap})
  BY Zenon
<1>8. f = [rule |-> rule, key |-> key, affected |-> affected, basis |-> "activity_rows", support |-> support,
           truncated |-> cut, level |-> level]
  BY <1>6, <1>7, Zenon
<1>9. /\ f.rule = rule /\ f.key = key /\ f.affected = affected /\ f.basis = "activity_rows" /\ f.support = support
      /\ f.level = level
  BY <1>8
<1>10. \A i : EvidenceLevel(i, rows) \in Int
  <2>1. \A i : EvidenceLevel(i, rows) \in 0..3
    BY LevelIsBest, Zenon
  <2>2. QED
    BY <2>1
<1>11. S \in SUBSET Int
  <2>1. ASSUME NEW x \in S PROVE x \in Int
    BY <1>1, <1>10, <2>1, Zenon
  <2>2. QED
    BY <2>1, Zenon
<1>12. IsFiniteSet(S)
  <2>1. PICK g : g = [i \in known |-> EvidenceLevel(i, rows)]
    BY Zenon
  <2>2. DOMAIN g = known /\ S = {g[i] : i \in known}
    BY <1>1, <2>1, Zenon
  <2>3. IsFiniteSet(known)
    BY <1>2, FS_Subset, Zenon
  <2>4. PICK I : I = {g[i] : i \in known}
    BY Zenon
  <2>5. IsFiniteSet(I)
    BY <2>2, <2>3, <2>4, ImageOf, Zenon
  <2>6. QED
    BY <2>2, <2>4, <2>5, Zenon
<1>13. S = {EvidenceLevel(i, rows) : i \in A}
  <2>1. ASSUME NEW x \in S PROVE x \in {EvidenceLevel(i, rows) : i \in A}
    BY <1>1, <1>2, <2>1, Zenon
  <2>2. ASSUME NEW i \in A PROVE EvidenceLevel(i, rows) \in S
    <3>1. PICK j \in items : j.id \in ids /\ EvidenceLevel(j, rows) = EvidenceLevel(i, rows)
      BY Zenon
    <3>2. j \in known
      BY <1>1, <3>1, Zenon
    <3>3. QED
      BY <1>1, <3>1, <3>2, Zenon
  <2>3. QED
    BY <2>1, <2>2, Zenon
<1>14. ChainInclusionProven \in Int
  BY DEF ChainInclusionProven
<1>15. level = Min(S \cup {cap})
  <2>1. PICK top : top = ChainInclusionProven
    BY Zenon
  <2>2. level = Min({Min(S \cup {top}), cap})
    BY <1>2, <1>7, <2>1, Zenon
  <2>3. top \in Int /\ cap <= top
    BY <1>14, <2>1, Zenon
  <2>4. QED
    BY <1>11, <1>12, <2>2, <2>3, CappedLevel, Zenon
<1>16. ASSUME NEW row \in support PROVE \E i \in A : row.id = i.id /\ row.level = EvidenceLevel(i, rows)
  <2>1. PICK i \in known : row = [id |-> i.id, level |-> EvidenceLevel(i, rows)]
    BY <1>5, Zenon
  <2>2. row.id = i.id /\ row.level = EvidenceLevel(i, rows)
    BY <2>1
  <2>3. QED
    BY <1>2, <2>1, <2>2, Zenon
<1>17. SaysOfAll(f, A, cap, rows)
  BY <1>9, <1>13, <1>15, <1>16, Zenon DEF SaysOfAll
<1>18. QED
  BY <1>9, <1>17, Zenon DEF IsOf

(* A rule about all rows of one kind.                                       *)
LEMMA AboutSays ==
  ASSUME NEW rule, NEW items, UniqueItems(items), \A i \in items : i.id \in Nat, NEW A \in SUBSET items,
         NEW rows \in SUBSET ListedRow, IsFiniteSet(rows), UniqueIds(rows), NEW cap \in Int, cap <= ChainInclusionProven,
         NEW f \in About(rule, IdsOf(A), items, rows, cap)
  PROVE  IsOf(f, rule, "case") /\ SaysOfAll(f, A, cap, rows)
<1>1. PICK ids : ids = IdsOf(A)
  BY Zenon
<1>2. UniqueItems(A) /\ \A i \in A : i.id \in Nat
  BY UniqueSubset, Zenon
<1>3. PICK n : n = Cardinality(ids)
  BY Zenon
<1>4. n = Cardinality(A) /\ n \in Nat /\ IsFiniteSet(ids)
  BY <1>1, <1>2, <1>3, IdsCounted, Zenon
<1>5. PICK k \in {1} \cap 1..n : f = Finding(rule, "case", n, "activity_rows", ids, items, rows, cap)
  BY <1>1, <1>3, Zenon DEF About
<1>6. n # 0
  BY <1>4, <1>5
<1>7. ids # {}
  BY <1>3, <1>6, FS_EmptySet, Zenon
<1>8. {i \in items : i.id \in ids} = A
  BY <1>1, Zenon DEF IdsOf, UniqueItems
<1>9. A # {}
  BY <1>1, <1>7, Zenon DEF IdsOf
<1>10. \A i \in A : \E j \in items : j.id \in ids /\ EvidenceLevel(j, rows) = EvidenceLevel(i, rows)
  BY <1>8, Zenon
<1>11. IsFiniteSet(items)
  BY Zenon DEF UniqueItems
<1>12. {i \in items : i.id \in ids} \in SUBSET A /\ {i \in items : i.id \in ids} # {}
  BY <1>8, <1>9, Zenon
<1>13. QED
  BY <1>4, <1>5, <1>10, <1>11, <1>12, FindingSays, Zenon

IsFlowOf(flow, key, of) ==
  flow.key = key /\ flow.observations = Cardinality(of) /\ flow.support = Shortest(IdsOf(of), MaxSupport)

LEMMA FlowIs ==
  ASSUME NEW key, NEW K
  PROVE  IsFlowOf(Flow(key, K), key, {i \in K : i.value = key})
<1>0. PICK of : of = {i \in K : i.value = key}
  BY Zenon
<1>1. PICK n, support, cut : n = Cardinality(of) /\ support = Shortest(IdsOf(of), MaxSupport) /\ cut = (n > MaxSupport)
  BY Zenon
<1>2. Flow(key, K) = [key |-> key, observations |-> n, support |-> support, truncated |-> (n > MaxSupport)]
  BY <1>0, <1>1, Zenon DEF Flow
<1>3. PICK flow : flow = Flow(key, K)
  BY Zenon
<1>4. flow = [key |-> key, observations |-> n, support |-> support, truncated |-> cut]
  BY <1>1, <1>2, <1>3, Zenon
<1>5. flow.key = key /\ flow.observations = n /\ flow.support = support
  BY <1>4
<1>6. IsFlowOf(flow, key, of)
  BY <1>1, <1>5, Zenon DEF IsFlowOf
<1>7. QED
  BY <1>0, <1>3, <1>6, Zenon

(* A pattern is about transfers or swaps, which no attempt is bound to: the *)
(* support stands for all of them.                                          *)
GroupsOf(groups, K, items) ==
  K \in SUBSET items /\ (\A i \in K : i.kind # "transaction") /\ groups \in Seq(OwnFlows(K))
SaysOfPattern(f, rule, K, rows) ==
  \E key : IsOf(f, rule, key) /\ SaysOfAll(f, {i \in K : i.value = key}, ChainInclusionProven, rows)

LEMMA PatternSays ==
  ASSUME SyncsOK, NEW s, NEW rows \in BoundRows(s), NEW items, items = Items(s, NoFilter), NEW K, NEW groups,
         GroupsOf(groups, K, items), NEW rule, NEW f \in Pattern(rule, groups, items, rows)
  PROVE  SaysOfPattern(f, rule, K, rows)
<1>0. K \in SUBSET items /\ (\A i \in K : i.kind # "transaction") /\ groups \in Seq(OwnFlows(K))
  BY Zenon DEF GroupsOf
<1>1. PICK first : first = FirstOf(groups, MaxPatterns)
  BY Zenon
<1>2. first \in Seq(OwnFlows(K))
  <2>1. MaxPatterns \in Nat
    BY FindingAssumption DEF FindingAssumption
  <2>2. QED
    BY <1>0, <1>1, <2>1, FirstOfFacts, Zenon
<1>3. PICK n \in 1..Len(first) :
        f = Finding(rule, first[n].key, first[n].observations, "activity_rows", first[n].support, items, rows,
                    ChainInclusionProven)
  BY <1>1, Zenon DEF Pattern
<1>4. first[n] \in OwnFlows(K)
  BY <1>2
<1>5. PICK key \in {i.value : i \in Named(K)} : first[n] = Flow(key, K)
  BY <1>4, Zenon DEF OwnFlows
<1>6. PICK of : of = {i \in K : i.value = key}
  BY Zenon
<1>7. of # {} /\ of \in SUBSET K
  BY <1>5, <1>6, Zenon DEF Named
<1>8. UniqueItems(items) /\ \A i \in items : i.id \in Nat
  BY SnapshotItems, Zenon
<1>9. UniqueItems(of) /\ \A i \in of : i.id \in Nat
  <2>1. of \in SUBSET items
    BY <1>0, <1>7, Zenon
  <2>2. QED
    BY <1>8, <2>1, UniqueSubset, Zenon
<1>10. PICK seen, support : seen = Cardinality(of) /\ support = Shortest(IdsOf(of), MaxSupport)
  BY Zenon
<1>11. f = Finding(rule, key, seen, "activity_rows", support, items, rows, ChainInclusionProven)
  <2>0. IsFlowOf(first[n], key, of)
    BY <1>5, <1>6, FlowIs, Zenon
  <2>1. first[n].key = key /\ first[n].observations = seen /\ first[n].support = support
    BY <1>10, <2>0, Zenon DEF IsFlowOf
  <2>2. QED
    BY <1>3, <2>1, Zenon
<1>12. support \in SUBSET IdsOf(of) /\ support # {}
  BY <1>7, <1>9, <1>10, ShortestSupports, Zenon DEF Supports
<1>13. {i \in items : i.id \in support} \in SUBSET of
  <2>1. ASSUME NEW i \in items, i.id \in support PROVE i \in of
    <3>1. PICK j \in of : j.id = i.id
      BY <1>12, <2>1, Zenon DEF IdsOf
    <3>2. i = j
      BY <1>0, <1>7, <1>8, <3>1, Zenon DEF UniqueItems
    <3>3. QED
      BY <3>1, <3>2, Zenon
  <2>2. QED
    BY <2>1, Zenon
<1>14. PICK shown \in items : shown.id \in support
  <2>1. PICK id \in support : TRUE
    BY <1>12, Zenon
  <2>2. PICK i \in of : i.id = id
    BY <1>12, <2>1, Zenon DEF IdsOf
  <2>3. QED
    BY <1>0, <1>7, <2>1, <2>2, Zenon
<1>15. ASSUME NEW i \in of PROVE EvidenceLevel(i, rows) = BaseLevel
  <2>1. i \in Items(s, NoFilter) /\ i.kind # "transaction"
    BY <1>0, <1>7, Zenon
  <2>2. QED
    BY <2>1, OthersHaveNone, Zenon
<1>16. \A i \in of : \E j \in items : j.id \in support /\ EvidenceLevel(j, rows) = EvidenceLevel(i, rows)
  <2>1. shown \in of
    BY <1>13, <1>14, Zenon
  <2>2. QED
    BY <1>14, <1>15, <2>1, Zenon
<1>17. rows \in SUBSET ListedRow /\ IsFiniteSet(rows) /\ UniqueIds(rows)
  BY Zenon DEF BoundRows
<1>18. PICK top : top = ChainInclusionProven
  BY Zenon
<1>19. top \in Int /\ top <= ChainInclusionProven
  BY <1>18 DEF ChainInclusionProven
<1>20. IsFiniteSet(items) /\ {i \in items : i.id \in support} # {}
  BY <1>8, <1>14, Zenon DEF UniqueItems
<1>21. f = Finding(rule, key, seen, "activity_rows", support, items, rows, top)
  BY <1>11, <1>18, Zenon
<1>22. IsOf(f, rule, key) /\ SaysOfAll(f, of, top, rows)
  BY <1>10, <1>13, <1>16, <1>17, <1>19, <1>20, <1>21, FindingSays, Zenon
<1>23. QED
  BY <1>6, <1>18, <1>22, Zenon DEF SaysOfPattern

LEMMA DiagnosticSays ==
  ASSUME NEW rule, NEW count, NEW basis, NEW f \in Diagnostic(rule, count, basis)
  PROVE  f.basis = basis
<1>1. PICK n : f = Finding(rule, "case", n, basis, {}, {}, {}, ChainInclusionProven)
  BY Zenon DEF Diagnostic
<1>2. Finding(rule, "case", n, basis, {}, {}, {}, ChainInclusionProven).basis = basis
  BY DEF Finding
<1>3. QED
  BY <1>1, <1>2, Zenon

LEMMA FindingsSay ==
  ASSUME SyncsOK, NEW s, NEW rows \in BoundRows(s), NEW activity, NEW items, items = Items(s, NoFilter),
         NEW f \in FindingsOn(items, activity, FlowSummary(items), rows), f.basis = "activity_rows"
  PROVE  SaysOfAll(f, AffectedBy(f, items), CapOf(f), rows)
<1>1. UniqueItems(items) /\ \A i \in items : i.id \in Nat
  BY SnapshotItems, Zenon
<1>2. rows \in SUBSET ListedRow /\ IsFiniteSet(rows) /\ UniqueIds(rows)
  BY Zenon DEF BoundRows
<1>3. /\ ChainInclusionProven \in Int /\ BaseLevel \in Int
      /\ BaseLevel <= ChainInclusionProven /\ ChainInclusionProven <= ChainInclusionProven
  BY DEF ChainInclusionProven, BaseLevel, Fixture, ProviderObservation
<1>4. PICK flows, T, W : flows = FlowSummary(items) /\ T = Transfers(items) /\ W = Swaps(items)
  BY Zenon
<1>5. T \in SUBSET items /\ W \in SUBSET items
  BY <1>4, Zenon DEF Transfers, Swaps
<1>6. (\A i \in T : i.kind # "transaction") /\ \A i \in W : i.kind # "transaction"
  BY <1>4 DEF Transfers, Swaps
<1>7. Repeated(flows.counterparties) \in Seq(OwnFlows(T)) /\ flows.protocols \in Seq(OwnFlows(W))
  <2>1. flows.counterparties = Groups(T, Flow) /\ flows.protocols = Groups(W, Flow)
    BY <1>4, FlowsOf, Zenon
  <2>2. UniqueItems(T) /\ UniqueItems(W) /\ (\A i \in T : i.id \in Nat) /\ \A i \in W : i.id \in Nat
    BY <1>1, <1>5, UniqueSubset, Zenon
  <2>3. Groups(T, Flow) \in Seq(OwnFlows(T)) /\ Groups(W, Flow) \in Seq(OwnFlows(W))
    BY <2>2, GroupsServed, Zenon
  <2>4. QED
    BY <2>1, <2>3, RepeatedFacts, Zenon
<1>8. PICK A1, A2, A3 :
        /\ A1 = {i \in items : i.kind = "transaction" /\ i.value = Failed}
        /\ A2 = {i \in T \cup W : i.value = Unnamed} /\ A3 = {i \in T : i.value = Unnamed}
  BY Zenon
<1>9. A1 \in SUBSET items /\ A2 \in SUBSET items /\ A3 \in SUBSET items
  BY <1>5, <1>8, Zenon
<1>10. flows.unnamedAssets = IdsOf(A2) /\ flows.unnamedCounterparties = IdsOf(A3)
  <2>1. A2 = (T \cup W) \ Named(T \cup W) /\ A3 = T \ Named(T)
    BY <1>8, Zenon DEF Named
  <2>2. QED
    BY <1>4, <2>1, AssetsOf, Zenon
<1>11. \/ f \in Diagnostic("activity_coverage_gaps", Cardinality(activity.gaps), "coverage_gaps")
       \/ f \in Diagnostic("activity_identity_conflicts", activity.aggregate.conflicts, "identity_conflicts")
       \/ f \in About("failed_transaction_observations", IdsOf(A1), items, rows, BaseLevel)
       \/ f \in About("unavailable_asset_identity", IdsOf(A2), items, rows, ChainInclusionProven)
       \/ f \in About("unavailable_counterparty_identity", IdsOf(A3), items, rows, ChainInclusionProven)
       \/ f \in Pattern("repeated_counterparty_observations", Repeated(flows.counterparties), items, rows)
       \/ f \in Pattern("recognized_protocol_observations", flows.protocols, items, rows)
  BY <1>4, <1>8, <1>10, Zenon DEF FindingsOn
<1>12. CASE \/ f \in Diagnostic("activity_coverage_gaps", Cardinality(activity.gaps), "coverage_gaps")
            \/ f \in Diagnostic("activity_identity_conflicts", activity.aggregate.conflicts, "identity_conflicts")
  <2>1. f.basis = "coverage_gaps" \/ f.basis = "identity_conflicts"
    BY <1>12, DiagnosticSays, Zenon
  <2>2. QED
    BY <2>1
<1>13. CASE f \in About("failed_transaction_observations", IdsOf(A1), items, rows, BaseLevel)
  <2>1. IsOf(f, "failed_transaction_observations", "case") /\ SaysOfAll(f, A1, BaseLevel, rows)
    BY <1>1, <1>2, <1>3, <1>9, <1>13, AboutSays, Zenon
  <2>2. AffectedBy(f, items) = A1 /\ CapOf(f) = BaseLevel
    BY <1>8, <2>1 DEF IsOf, AffectedBy, CapOf
  <2>3. QED
    BY <2>1, <2>2, Zenon
<1>14. CASE f \in About("unavailable_asset_identity", IdsOf(A2), items, rows, ChainInclusionProven)
  <2>1. IsOf(f, "unavailable_asset_identity", "case") /\ SaysOfAll(f, A2, ChainInclusionProven, rows)
    BY <1>1, <1>2, <1>3, <1>9, <1>14, AboutSays, Zenon
  <2>2. AffectedBy(f, items) = A2 /\ CapOf(f) = ChainInclusionProven
    BY <1>4, <1>8, <2>1 DEF IsOf, AffectedBy, CapOf
  <2>3. QED
    BY <2>1, <2>2, Zenon
<1>15. CASE f \in About("unavailable_counterparty_identity", IdsOf(A3), items, rows, ChainInclusionProven)
  <2>1. IsOf(f, "unavailable_counterparty_identity", "case") /\ SaysOfAll(f, A3, ChainInclusionProven, rows)
    BY <1>1, <1>2, <1>3, <1>9, <1>15, AboutSays, Zenon
  <2>2. AffectedBy(f, items) = A3 /\ CapOf(f) = ChainInclusionProven
    BY <1>4, <1>8, <2>1 DEF IsOf, AffectedBy, CapOf
  <2>3. QED
    BY <2>1, <2>2, Zenon
<1>16. CASE f \in Pattern("repeated_counterparty_observations", Repeated(flows.counterparties), items, rows)
  <2>1. PICK key : /\ IsOf(f, "repeated_counterparty_observations", key)
                   /\ SaysOfAll(f, {i \in T : i.value = key}, ChainInclusionProven, rows)
    <3>1. GroupsOf(Repeated(flows.counterparties), T, items)
      BY <1>5, <1>6, <1>7, Zenon DEF GroupsOf
    <3>2. SaysOfPattern(f, "repeated_counterparty_observations", T, rows)
      BY <1>16, <3>1, PatternSays, Zenon
    <3>3. QED
      BY <3>2, Zenon DEF SaysOfPattern
  <2>2. AffectedBy(f, items) = {i \in T : i.value = key} /\ CapOf(f) = ChainInclusionProven
    BY <1>4, <2>1 DEF IsOf, AffectedBy, CapOf
  <2>3. QED
    BY <2>1, <2>2, Zenon
<1>17. CASE f \in Pattern("recognized_protocol_observations", flows.protocols, items, rows)
  <2>1. PICK key : /\ IsOf(f, "recognized_protocol_observations", key)
                   /\ SaysOfAll(f, {i \in W : i.value = key}, ChainInclusionProven, rows)
    <3>1. GroupsOf(flows.protocols, W, items)
      BY <1>5, <1>6, <1>7, Zenon DEF GroupsOf
    <3>2. SaysOfPattern(f, "recognized_protocol_observations", W, rows)
      BY <1>17, <3>1, PatternSays, Zenon
    <3>3. QED
      BY <3>2, Zenon DEF SaysOfPattern
  <2>2. AffectedBy(f, items) = {i \in W : i.value = key} /\ CapOf(f) = ChainInclusionProven
    BY <1>4, <2>1 DEF IsOf, AffectedBy, CapOf
  <2>3. QED
    BY <2>1, <2>2, Zenon
<1>18. QED
  BY <1>11, <1>12, <1>13, <1>14, <1>15, <1>16, <1>17, Zenon

LEMMA FindingsClaim ==
  ASSUME SyncsOK, BuildingsOK
  PROVE  FindingsClaimTheirWeakest
<1> DEFINE level(i, rows) == LevelBy(Best(i, rows))
<1>1. SUFFICES ASSUME NEW p \in Readers, building[p].at = "built", ~ building[p].store, ~ deleted,
                      NEW b, b = building[p], NEW f \in FindingsNow(p).findings, f.basis = "activity_rows"
      PROVE  /\ f.affected = Cardinality(AffectedBy(f, b.items))
             /\ f.level = Min({level(i, b.rows) : i \in AffectedBy(f, b.items)} \cup {CapOf(f)})
             /\ \A row \in f.support : \E i \in AffectedBy(f, b.items) : row.id = i.id /\ row.level = level(i, b.rows)
  <2>1. SUFFICES ASSUME NEW p \in Readers, building[p].at = "built" /\ ~ building[p].store /\ ~ deleted,
                        NEW f \in FindingsNow(p).findings, f.basis = "activity_rows"
        PROVE  /\ f.affected = Cardinality(AffectedBy(f, building[p].items))
               /\ f.level = Min({level(i, building[p].rows) : i \in AffectedBy(f, building[p].items)} \cup {CapOf(f)})
               /\ \A row \in f.support : \E i \in AffectedBy(f, building[p].items) :
                    row.id = i.id /\ row.level = level(i, building[p].rows)
    BY DEF FindingsClaimTheirWeakest, AffectedBy, CapOf, LevelBy, Best, ProgressOf
  <2> HIDE DEF level
  <2>2. QED
    BY <2>1, Zenon
<1>2. /\ b.snapshot \in Usable /\ b.items = Items(b.snapshot, NoFilter) /\ b.rows \in BoundRows(b.snapshot)
  <2>1. BuildingOK(b) /\ b.at = "built" /\ ~ b.store
    BY <1>1, Zenon DEF BuildingsOK
  <2>2. b.at # "idle" /\ b.at \in {"count", "built", "insert"}
    BY <2>1
  <2>3. QED
    BY <2>1, <2>2, Zenon DEF BuildingOK
<1>3. PICK items, rows : items = b.items /\ rows = b.rows
  BY Zenon
<1>4. f \in FindingsOn(items, b.activity, FlowSummary(items), rows)
  <2>1. FindingsNow(p) = FindingsDocument(b.snapshot, b.items, b.activity, b.rows, b.total)
    BY <1>1, Zenon DEF FindingsNow
  <2>2. FindingsDocument(b.snapshot, b.items, b.activity, b.rows, b.total).findings
          = FindingsOn(b.items, b.activity, FlowSummary(b.items), b.rows)
    <3>1. PICK s, i, a, r, t : s = b.snapshot /\ i = b.items /\ a = b.activity /\ r = b.rows /\ t = b.total
      BY Zenon
    <3>2. FindingsDocument(s, i, a, r, t).findings = FindingsOn(i, a, FlowSummary(i), r)
      BY FindingsOfDocument
    <3>3. QED
      BY <3>1, <3>2, Zenon
  <2>3. f \in FindingsOn(b.items, b.activity, FlowSummary(b.items), b.rows)
    BY <1>1, <2>1, <2>2, Zenon
  <2>4. QED
    BY <1>3, <2>3, Zenon
<1>5. rows \in SUBSET ListedRow /\ IsFiniteSet(rows) /\ UniqueIds(rows)
  BY <1>2, <1>3, Zenon DEF BoundRows
<1>6. \A i : level(i, rows) = EvidenceLevel(i, rows)
  BY <1>5, LevelIsBest, Zenon
<1>7. PICK A : A = AffectedBy(f, items)
  BY Zenon
<1>8. SaysOfAll(f, A, CapOf(f), rows)
  <2>1. f.basis = "activity_rows"
    BY <1>1, Zenon
  <2>2. QED
    BY <1>2, <1>3, <1>4, <1>7, <2>1, FindingsSay, Zenon
<1> HIDE DEF level
<1>9. {level(i, rows) : i \in A} = {EvidenceLevel(i, rows) : i \in A}
  BY <1>6, Zenon
<1>10. /\ f.affected = Cardinality(A)
       /\ f.level = Min({level(i, rows) : i \in A} \cup {CapOf(f)})
       /\ \A row \in f.support : \E i \in A : row.id = i.id /\ row.level = level(i, rows)
  BY <1>6, <1>8, <1>9, Zenon DEF SaysOfAll
<1>11. QED
  BY <1>3, <1>7, <1>10, Zenon

(* Whatever was stored before, the rows, the attempts and their ends: a     *)
(* stored report claims a gate for every transaction only if as many        *)
(* transactions have been proven as its snapshot has, and a finding counts  *)
(* all activities its rule is about and has the level of the weakest of     *)
(* them, whether its support shows it or not: _canonical_gate,              *)
(* _evidence_revision, _finding.                                            *)
THEOREM ClaimsAreProven == ReadsSpec => []EveryClaimIsProven
<1>1. ReadsInit => ReadsOK
  BY ReadsStart
<1>2. ReadsOK /\ [ReadsNext]_vars => ReadsOK'
  BY ReadsStep
<1>3. ReadsOK => EveryClaimIsProven
  BY ReportsClaim, FindingsClaim, Zenon DEF ReadsOK, ReportsOK, EveryClaimIsProven
<1>4. QED
  BY <1>1, <1>2, <1>3, PTL DEF ReadsSpec

-----------------------------------------------------------------------------
(* Every answer that is read, in every step.                                *)
ServedOK == ReadsOK /\ AnswersOK

(* Whatever the rows, the attempts and the order of the reads: no document  *)
(* that these endpoints build fails the validators of its response model,   *)
(* so none of them ends in an internal error: the counts, bounds, levels    *)
(* and orders that WalletCaseActivityListResponse, WalletCaseReport,        *)
(* WalletCaseReportRevisionComparison and WalletCaseFindings check.         *)
THEOREM AnswersPassTheirSchemas == ReadsSpec => []AnswersAreServed
<1>1. ReadsInit => ServedOK
  BY ReadsStart, AnswersStart, Zenon DEF ReadsInit, ServedOK
<1>2. ServedOK /\ [ReadsNext]_vars => ServedOK'
  <2>1. SUFFICES ASSUME ServedOK, [ReadsNext]_vars PROVE ServedOK'
    OBVIOUS
  <2>2. ReadsOK /\ ReadsOK'
    BY <2>1, ReadsStep, Zenon DEF ServedOK
  <2>3. SyncsOK /\ ReportsOK /\ ReportsOK' /\ AnswersOK
    BY <2>1, <2>2, Zenon DEF ServedOK, ReadsOK
  <2>4. CASE ReportNext
    BY <2>2, <2>3, <2>4, AnswersStep, Zenon DEF ServedOK
  <2>5. CASE PagesTurn \/ UNCHANGED vars
    <3>1. UNCHANGED reportVars
      BY <2>5, Zenon DEF PagesTurn, vars
    <3>2. QED
      BY <2>2, <2>3, <3>1, AnswersStay, Zenon DEF ServedOK
  <2>6. QED
    BY <2>1, <2>4, <2>5, Zenon DEF ReadsNext
<1>3. ServedOK => AnswersAreServed
  BY ActivityServed, ReportsServed, FindingsAnswered, Zenon DEF ServedOK, ReadsOK, AnswersAreServed
<1>4. QED
  BY <1>1, <1>2, <1>3, PTL DEF ReadsSpec
=============================================================================
