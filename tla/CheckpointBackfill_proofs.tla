---------------------- MODULE CheckpointBackfill_proofs ----------------------
(***************************************************************************)
(* The chain of a checkpoint is one walk and never forks, and a complete   *)
(* chain of transactions has every row of the interval once, for every set *)
(* of requests, any rows, faults and page size of the provider, any number *)
(* of syncs and every budget.                                              *)
(*                                                                         *)
(* Rows and pages are sequences whose elements have no type here: what the *)
(* provider answers in a page is of no consequence for the walk, and what  *)
(* matters of it for the rows is stated at the second theorem.             *)
(***************************************************************************)
EXTENDS CheckpointBackfill, FiniteSetTheorems, WellFoundedInduction, TLAPS

IsSeq(p) == p \in Seq({p[i] : i \in 1..Len(p)})

(* Pages that count on from one number and follow the cursors from one      *)
(* request; evidence of which the last page alone may have failed.          *)
Walks(pages, first, cursor) ==
  \A i \in 1..Len(pages) :
    /\ pages[i].index = first + i - 1
    /\ pages[i].request = IF i = 1 THEN cursor ELSE pages[i - 1].response
Uninterrupted(pages) == \A i \in 1..Len(pages) - 1 : pages[i].ok
Walked(row, s, evidence) ==
  /\ IsSeq(evidence.pages) /\ Uninterrupted(evidence.pages)
  /\ Walks(evidence.pages, row.index, row.cursor)
  /\ row.kind # "full" => s = row.stream

(* A continuation that was started goes on where the newest checkpoint of   *)
(* its stream ended, and no checkpoint was published in between.            *)
Continues(rows, n) ==
  rows[n].kind # "full" =>
    /\ rows[rows[n].source].out[rows[n].stream] # NULL
    /\ ResumeState(rows[rows[n].source].out[rows[n].stream]) = "ready"
    /\ rows[n].cursor = rows[rows[n].source].out[rows[n].stream].cursor
    /\ rows[n].index = ContinuationIndex(rows[rows[n].source].out[rows[n].stream])
    /\ \A m \in rows[n].source + 1..n - 1 : rows[m].out[rows[n].stream] = NULL

Started(row) == row.state = "running" \/ \E s \in Streams : row.out[s] # NULL

RowFields == {"kind", "stream", "source", "cursor", "index", "doc", "state", "out"}
Sound(rows) ==
  /\ IsSeq(rows)
  /\ \A n \in 1..Len(rows) :
       /\ DOMAIN rows[n] = RowFields /\ DOMAIN rows[n].out = Streams
       /\ rows[n].state \in {"queued", "running"} => n = Len(rows)
       /\ rows[n].kind = "full" => rows[n].index = 1 /\ rows[n].cursor = NULL
       /\ rows[n].kind # "full" => rows[n].stream \in Streams /\ rows[n].source \in 1..n - 1
       /\ Started(rows[n]) => rows[n].index \in Nat /\ Continues(rows, n)
       /\ \A s \in Streams : rows[n].out[s] # NULL => Walked(rows[n], s, rows[n].out[s])

(* The acquisition a of a running row.                                      *)
AcquisitionFields ==
  {"at", "todo", "cursor", "index", "left", "pages", "accepted", "seen", "sawPending", "snapshot", "got"}
Acquiring(row, a) ==
  /\ \A s \in Streams : a.got[s] # NULL => Walked(row, s, a.got[s])
  /\ a.at = "fetching" =>
       /\ IsSeq(a.pages) /\ IsSeq(a.todo) /\ a.todo # <<>>
       /\ row.kind # "full" => a.todo = <<row.stream>>
       /\ Walks(a.pages, row.index, row.cursor) /\ \A i \in 1..Len(a.pages) : a.pages[i].ok
       /\ a.index = row.index + Len(a.pages)
       /\ a.cursor = IF a.pages = <<>> THEN row.cursor ELSE a.pages[Len(a.pages)].response

(* What a request holds when it inserts: a full sync, or a checkpoint that  *)
(* was once the tip of its stream.                                          *)
HandlerFields == {"at", "does", "doc", "tips", "budget", "stream", "source"}
Prepared(r, rows) ==
  /\ DOMAIN r = HandlerFields
  /\ r.at \in {"plan", "active"} => r.does \in {"show", "schedule"}
  /\ r.at = "recheck" => r.does \in {"plan", "schedule"}
  /\ r.at = "tip" => r.does \in {"resume", "plan", "schedule"} /\ r.stream \in Streams /\ r.source # 0
  /\ r.at = "insert" =>
       \/ r.does = "full" /\ r.source = 0
       \/ /\ r.does \in {"resume", "plan", "schedule"} /\ r.stream \in Streams
          /\ r.source \in 1..Len(rows)

RunsHold == \A n \in Ids : syncs[n].state = "running" => Acquiring(syncs[n], acq)
WalkInv ==
  /\ Sound(syncs)
  /\ DOMAIN acq = AcquisitionFields /\ DOMAIN acq.got = Streams
  /\ RunsHold
  /\ DOMAIN handler = Handlers /\ \A h \in Handlers : Prepared(handler[h], syncs)

-----------------------------------------------------------------------------
(* Sequences.                                                               *)

(* A sequence over a set is a sequence.                                     *)
LEMMA SeqIsSeq ==
  ASSUME NEW S, NEW p \in Seq(S)
  PROVE  IsSeq(p)
BY DEF IsSeq

(* Numbers have a least one, by the well-foundedness of <.                  *)
LEMMA Least ==
  ASSUME NEW D, D \subseteq Nat, D # {}
  PROVE  \E d \in D : \A e \in D : d <= e
<1>1. \E d \in D : \A e \in D : ~(<<e, d>> \in OpToRel(<, Nat))
  BY NatLessThanWellFounded, WFMin
<1>2. PICK d \in D : \A e \in D : ~(e < d)
  BY <1>1 DEF OpToRel
<1>3. QED
  BY <1>2

(* A walk whose pages but the last succeeded: its good pages are a prefix. *)
LEMMA GoodPagesArePrefix ==
  ASSUME NEW e, IsSeq(e.pages), Uninterrupted(e.pages)
  PROVE  /\ IsSeq(GoodPages(e))
         /\ Len(GoodPages(e)) \in 0..Len(e.pages)
         /\ \A i \in 1..Len(GoodPages(e)) : GoodPages(e)[i] = e.pages[i]
         /\ GoodAt(e) = 1..Len(GoodPages(e))
<1> DEFINE p == e.pages
           N == Len(p)
           first(n) == [i \in 1..n |-> p[i]]
           known == [n \in 0..N |-> IF n = N /\ n # 0 /\ n \notin GoodAt(e) THEN first(n - 1) ELSE first(n)]
           next(f) == [n \in 0..N |-> IF n = 0 THEN <<>>
                                      ELSE IF n \in GoodAt(e) THEN Append(f[n - 1], p[n])
                                      ELSE f[n - 1]]
<1>1. PICK S : p \in Seq(S)
  BY DEF IsSeq
<1>2. N \in Nat /\ \A i \in 1..N : p[i] \in S
  BY <1>1
<1>3. (\A n \in 1..N - 1 : n \in GoodAt(e)) /\ GoodAt(e) \subseteq 1..N
  BY DEF GoodAt, Uninterrupted
<1> HIDE DEF p
<1>4. \A n \in 0..N : first(n) \in Seq(S) /\ Len(first(n)) = n
  BY <1>2
<1>5. \A n \in 1..N : Append(first(n - 1), p[n]) = first(n)
  <2> TAKE n \in 1..N
  <2>1. first(n - 1) \in Seq(S) /\ Len(first(n - 1)) = n - 1 /\ p[n] \in S
    BY <1>2, <1>4
  <2>2. Append(first(n - 1), p[n]) \in Seq(S) /\ Len(Append(first(n - 1), p[n])) = n
    BY <2>1
  <2>3. \A i \in 1..n : Append(first(n - 1), p[n])[i] = first(n)[i]
    BY <2>1
  <2>4. QED
    BY <2>2, <2>3, <1>2, <1>4
<1>6. \A n \in 0..N : known[n] = IF n = N /\ n # 0 /\ n \notin GoodAt(e) THEN first(n - 1) ELSE first(n)
  BY Zenon
<1>7. first(0) = <<>>
  BY <1>2
<1> HIDE DEF known, first
<1>8. \A n \in 0..N : known[n] = IF n = 0 THEN <<>>
                                 ELSE IF n \in GoodAt(e) THEN Append(known[n - 1], p[n])
                                 ELSE known[n - 1]
  <2> TAKE n \in 0..N
  <2>1. CASE n = 0
    BY <2>1, <1>2, <1>6, <1>7
  <2>2. CASE n # 0
    <3>1. n \in 1..N /\ n - 1 \in 0..N /\ n - 1 # N
      BY <2>2, <1>2
    <3>2. known[n - 1] = first(n - 1)
      BY <3>1, <1>6
    <3>3. n # N => n \in GoodAt(e)
      BY <2>2, <3>1, <1>2, <1>3
    <3>4. QED
      BY <2>2, <3>1, <3>2, <3>3, <1>5, <1>6
  <2>3. QED
    BY <2>1, <2>2
<1>9. known = next(known)
  BY <1>8, Zenon DEF known
<1> DEFINE good == CHOOSE f : f = next(f)
<1>10. good = next(good)
  BY <1>9, Zenon
<1>11. GoodPages(e) = good[N]
  BY Zenon DEF GoodPages, p
<1>12. \A n \in 0..N : good[n] = IF n = 0 THEN <<>>
                                 ELSE IF n \in GoodAt(e) THEN Append(good[n - 1], p[n])
                                 ELSE good[n - 1]
  BY <1>10, Zenon
<1> HIDE DEF good, next
<1>13. \A n \in 0..N : good[n] = known[n]
  <2> DEFINE D == {n \in 0..N : good[n] # known[n]}
  <2> SUFFICES ASSUME D # {} PROVE FALSE
    OBVIOUS
  <2>1. PICK n \in D : \A m \in D : n <= m
    <3>1. D \subseteq Nat
      BY <1>2
    <3> HIDE DEF D
    <3>2. QED
      BY <3>1, Least
  <2>2. n # 0 => good[n - 1] = known[n - 1]
    BY <2>1, <1>2
  <2>3. QED
    BY <2>1, <2>2, <1>8, <1>12
<1>14. N \in 0..N
  BY <1>2
<1>15. PICK n \in 0..N : GoodPages(e) = first(n) /\ GoodAt(e) = 1..n
  <2>1. CASE N # 0 /\ N \notin GoodAt(e)
    <3>1. N - 1 \in 0..N
      BY <2>1, <1>2
    <3>2. \A i : i \in GoodAt(e) <=> i \in 1..N - 1
      BY <2>1, <1>2, <1>3
    <3>3. GoodAt(e) = 1..N - 1
      BY <3>2
    <3>4. QED
      BY <2>1, <3>1, <3>3, <1>6, <1>11, <1>13, <1>14
  <2>2. CASE N = 0 \/ N \in GoodAt(e)
    <3>1. \A i : i \in GoodAt(e) <=> i \in 1..N
      BY <2>2, <1>2, <1>3
    <3>2. GoodAt(e) = 1..N
      BY <3>1
    <3>3. QED
      BY <2>2, <3>2, <1>6, <1>11, <1>13, <1>14
  <2>3. QED
    BY <2>1, <2>2
<1>16. first(n) \in Seq(S) /\ Len(first(n)) = n /\ \A i \in 1..n : first(n)[i] = p[i]
  BY <1>2, <1>4 DEF first
<1>17. QED
  BY <1>15, <1>16, SeqIsSeq DEF p

(* The recursive functions behind FlattenSeq and Chain, as equations.       *)
Flattens(f, seqs) ==
  f = [i \in 1..Len(seqs) |-> IF i = 1 THEN seqs[i] ELSE f[i - 1] \o seqs[i]]
Links(f, n) ==
  f = [m \in 0..n |-> IF m = 0 THEN <<>>
                      ELSE IF syncs[m].kind = "full" THEN <<m>>
                      ELSE Append(f[syncs[m].source], m)]
Descends == \A m \in Ids : syncs[m].kind # "full" => syncs[m].source \in 0..m - 1

(* FlattenSeq is whatever function satisfies its recursion.                 *)
LEMMA FlattenBy ==
  ASSUME NEW seqs, Len(seqs) \in Nat \ {0}, NEW g, Flattens(g, seqs)
  PROVE  FlattenSeq(seqs) = g[Len(seqs)]
<1> DEFINE N == Len(seqs)
           f == CHOOSE f : Flattens(f, seqs)
<1>1. Flattens(f, seqs)
  BY Zenon
<1>2. FlattenSeq(seqs) = f[N]
  BY Zenon DEF FlattenSeq, Flattens
<1> HIDE DEF f, N
<1>3. \A i \in 1..N : f[i] = IF i = 1 THEN seqs[i] ELSE f[i - 1] \o seqs[i]
  BY <1>1, Zenon DEF Flattens, N
<1>4. \A i \in 1..N : g[i] = IF i = 1 THEN seqs[i] ELSE g[i - 1] \o seqs[i]
  BY Zenon DEF Flattens, N
<1>5. \A i \in 1..N : f[i] = g[i]
  <2> DEFINE D == {i \in 1..N : f[i] # g[i]}
  <2> SUFFICES ASSUME D # {} PROVE FALSE
    OBVIOUS
  <2>1. PICK i \in D : \A j \in D : i <= j
    <3>1. D \subseteq Nat
      BY DEF N
    <3> HIDE DEF D
    <3>2. QED
      BY <3>1, Least
  <2>2. i # 1 => f[i - 1] = g[i - 1]
    BY <2>1 DEF N
  <2>3. QED
    BY <2>1, <2>2, <1>3, <1>4
<1>6. QED
  BY <1>2, <1>5 DEF N

LEMMA FlattenOne ==
  ASSUME NEW seqs, IsSeq(seqs), Len(seqs) = 1
  PROVE  FlattenSeq(seqs) = seqs[1] /\ \E f : Flattens(f, seqs)
<1> DEFINE f == [i \in 1..1 |-> seqs[i]]
<1>1. Flattens(f, seqs)
  BY DEF Flattens
<1>2. QED
  BY <1>1, FlattenBy

(* To flatten one sequence more appends its elements.                       *)
LEMMA FlattenAppend ==
  ASSUME NEW seqs, IsSeq(seqs), NEW one, seqs # <<>>, NEW f, Flattens(f, seqs)
  PROVE  /\ FlattenSeq(Append(seqs, one)) = FlattenSeq(seqs) \o one
         /\ \E g : Flattens(g, Append(seqs, one))
<1> DEFINE N == Len(seqs)
           more == Append(seqs, one)
           g == [i \in 1..N + 1 |-> IF i = N + 1 THEN f[N] \o one ELSE f[i]]
<1>1. PICK S : seqs \in Seq(S)
  BY DEF IsSeq
<1>2. N \in Nat \ {0} /\ Len(more) = N + 1 /\ more[N + 1] = one /\ \A i \in 1..N : more[i] = seqs[i]
  BY <1>1
<1> HIDE DEF N, more
<1>3. \A i \in 1..N : f[i] = IF i = 1 THEN seqs[i] ELSE f[i - 1] \o seqs[i]
  BY Zenon DEF Flattens, N
<1>4. \A i \in 1..N + 1 : g[i] = IF i = N + 1 THEN f[N] \o one ELSE f[i]
  BY Zenon
<1> HIDE DEF g
<1>5. \A i \in 1..Len(more) : g[i] = IF i = 1 THEN more[i] ELSE g[i - 1] \o more[i]
  <2> TAKE i \in 1..Len(more)
  <2> DEFINE last == N + 1
  <2>1. /\ i \in 1..N \/ i = last
        /\ i \in 1..N => i \in 1..last /\ i # last
        /\ i # 1 => i - 1 \in 1..N /\ i - 1 \in 1..last /\ i - 1 # last
        /\ last \in 1..last /\ last # 1 /\ last - 1 = N
    BY <1>2
  <2>2. \A k \in 1..last : g[k] = IF k = last THEN f[N] \o one ELSE f[k]
    BY <1>4
  <2>3. more[last] = one
    BY <1>2
  <2> HIDE DEF last
  <2>4. i # 1 => g[i - 1] = f[i - 1]
    BY <2>1, <2>2, Zenon
  <2>5. CASE i \in 1..N
    <3>1. g[i] = f[i] /\ more[i] = seqs[i]
      BY <2>1, <2>2, <2>5, <1>2, Zenon
    <3>2. QED
      BY <2>4, <2>5, <3>1, <1>3, Zenon
  <2>6. CASE i = last
    <3>1. g[i] = f[N] \o one /\ more[i] = one /\ i # 1 /\ g[i - 1] = f[N]
      BY <2>1, <2>2, <2>3, <2>4, <2>6, Zenon
    <3>2. QED
      BY <3>1, Zenon
  <2>7. QED
    BY <2>1, <2>5, <2>6, Zenon
<1>6. Flattens(g, more)
  BY <1>2, <1>5, Zenon DEF Flattens, g
<1>7. FlattenSeq(more) = g[N + 1] /\ FlattenSeq(seqs) = f[N]
  BY <1>2, <1>6, FlattenBy DEF N
<1>8. g[N + 1] = f[N] \o one
  <2>1. N + 1 \in 1..N + 1
    BY <1>2
  <2>2. QED
    BY <2>1, <1>4, Zenon
<1>9. QED
  BY <1>6, <1>7, <1>8, Zenon DEF more

(* The recursion of Chain has one solution where two are defined, and it    *)
(* has one up to every sync.                                                *)
LEMMA LinksAgree ==
  ASSUME Len(syncs) \in Nat, Descends, NEW n \in 0..Len(syncs), NEW k \in 0..n,
         NEW f, NEW g, Links(f, k), Links(g, n)
  PROVE  \A m \in 0..k : f[m] = g[m]
<1>1. \A m \in 0..k : f[m] = IF m = 0 THEN <<>> ELSE IF syncs[m].kind = "full" THEN <<m>>
                             ELSE Append(f[syncs[m].source], m)
  BY Zenon DEF Links
<1>2. \A m \in 0..n : g[m] = IF m = 0 THEN <<>> ELSE IF syncs[m].kind = "full" THEN <<m>>
                             ELSE Append(g[syncs[m].source], m)
  BY Zenon DEF Links
<1> DEFINE D == {m \in 0..k : f[m] # g[m]}
<1> SUFFICES ASSUME D # {} PROVE FALSE
  OBVIOUS
<1>3. PICK m \in D : \A j \in D : m <= j
  <2>1. D \subseteq Nat
    OBVIOUS
  <2> HIDE DEF D
  <2>2. QED
    BY <2>1, Least
<1>4. m \in 0..k /\ m \in 0..n /\ f[m] # g[m]
  BY <1>3
<1>5. m # 0 /\ syncs[m].kind # "full" => f[syncs[m].source] = g[syncs[m].source]
  <2> SUFFICES ASSUME m # 0, syncs[m].kind # "full" PROVE f[syncs[m].source] = g[syncs[m].source]
    OBVIOUS
  <2>1. syncs[m].source \in 0..m - 1
    BY <1>4 DEF Descends, Ids
  <2>2. QED
    BY <2>1, <1>3, <1>4
<1>6. QED
  BY <1>1, <1>2, <1>4, <1>5, Zenon

LEMMA LinksExist ==
  ASSUME Len(syncs) \in Nat, Descends, NEW n \in 0..Len(syncs)
  PROVE  \E f : Links(f, n)
<1> DEFINE D == {k \in 0..Len(syncs) : ~ \E f : Links(f, k)}
<1> SUFFICES ASSUME D # {} PROVE FALSE
  OBVIOUS
<1>1. PICK k \in D : \A j \in D : k <= j
  <2>1. D \subseteq Nat
    OBVIOUS
  <2> HIDE DEF D
  <2>2. QED
    BY <2>1, Least
<1>2. k \in 0..Len(syncs) /\ ~ \E f : Links(f, k)
  BY <1>1
<1>3. k # 0
  <2> DEFINE f == [m \in 0..0 |-> <<>>]
  <2>1. Links(f, 0)
    BY DEF Links
  <2>2. QED
    BY <2>1, <1>2
<1>4. k - 1 \in 0..Len(syncs) /\ k - 1 \notin D
  BY <1>1, <1>2, <1>3
<1>5. PICK f : Links(f, k - 1)
  BY <1>4
<1>6. \A m \in 0..k - 1 : f[m] = IF m = 0 THEN <<>> ELSE IF syncs[m].kind = "full" THEN <<m>>
                                 ELSE Append(f[syncs[m].source], m)
  BY <1>5, Zenon DEF Links
<1> DEFINE last == IF syncs[k].kind = "full" THEN <<k>> ELSE Append(f[syncs[k].source], k)
           g == [m \in 0..k |-> IF m = k THEN last ELSE f[m]]
<1>7. \A m \in 0..k : g[m] = IF m = k THEN last ELSE f[m]
  BY Zenon
<1>8. \A m \in 1..k : syncs[m].kind # "full" => syncs[m].source \in 0..m - 1
  BY <1>2 DEF Descends, Ids
<1> HIDE DEF g
<1>9. \A m \in 0..k : g[m] = IF m = 0 THEN <<>> ELSE IF syncs[m].kind = "full" THEN <<m>>
                             ELSE Append(g[syncs[m].source], m)
  <2> TAKE m \in 0..k
  <2>1. m # 0 /\ syncs[m].kind # "full" => /\ g[syncs[m].source] = f[syncs[m].source]
    BY <1>2, <1>7, <1>8
  <2>2. m # k => m \in 0..k - 1
    BY <1>2
  <2>3. QED
    BY <2>1, <2>2, <1>3, <1>6, <1>7
<1>10. Links(g, k)
  BY <1>9, Zenon DEF Links, g
<1>11. QED
  BY <1>2, <1>10

(* The chain of a continuation is its source's chain and itself.            *)
LEMMA ChainGrows ==
  ASSUME Len(syncs) \in Nat, Descends, NEW n \in Ids
  PROVE  Chain(n) = IF syncs[n].kind = "full" THEN <<n>> ELSE Append(Chain(syncs[n].source), n)
<1>1. /\ n \in 0..Len(syncs) /\ n # 0
      /\ syncs[n].kind # "full" => syncs[n].source \in 0..n /\ syncs[n].source \in 0..Len(syncs)
  BY DEF Ids, Descends
<1>2. ASSUME NEW k \in 0..Len(syncs)
      PROVE  \E f : Links(f, k) /\ Chain(k) = f[k]
  <2> DEFINE f == CHOOSE f : Links(f, k)
  <2>1. Links(f, k)
    BY LinksExist, Zenon
  <2>2. Chain(k) = f[k]
    BY Zenon DEF Chain, Links
  <2>3. QED
    BY <2>1, <2>2
<1>3. PICK f : Links(f, n) /\ Chain(n) = f[n]
  BY <1>1, <1>2
<1>4. f[n] = IF syncs[n].kind = "full" THEN <<n>> ELSE Append(f[syncs[n].source], n)
  <2>1. n \in 0..n
    BY <1>1
  <2>2. f[n] = IF n = 0 THEN <<>> ELSE IF syncs[n].kind = "full" THEN <<n>> ELSE Append(f[syncs[n].source], n)
    BY <2>1, <1>3, Zenon DEF Links
  <2>3. QED
    BY <2>2, <1>1
<1>5. CASE syncs[n].kind = "full"
  BY <1>3, <1>4, <1>5
<1>6. CASE syncs[n].kind # "full"
  <2> DEFINE k == syncs[n].source
  <2>1. k \in 0..n /\ k \in 0..Len(syncs)
    BY <1>1, <1>6
  <2> HIDE DEF k
  <2>2. PICK g : Links(g, k) /\ Chain(k) = g[k]
    BY <2>1, <1>2
  <2>3. k \in 0..k
    BY <2>1
  <2>4. g[k] = f[k]
    BY <2>1, <2>2, <2>3, <1>1, <1>3, LinksAgree
  <2>5. QED
    BY <2>2, <2>4, <1>3, <1>4, <1>6 DEF k
<1>7. QED
  BY <1>5, <1>6

-----------------------------------------------------------------------------
(* Maxima, tips and the end of a walk.                                      *)

(* A maximum is recognised, and bounded sets have one.                      *)
LEMMA MaxIs ==
  ASSUME NEW S, S \subseteq Nat, NEW d \in S, \A e \in S : e <= d
  PROVE  Max(S) = d
<1>1. \A x \in S : (\A y \in S : x >= y) => x = d
  OBVIOUS
<1>2. d \in S /\ \A y \in S : d >= y
  OBVIOUS
<1>3. QED
  BY <1>1, <1>2 DEF Max

LEMMA HasMax ==
  ASSUME NEW N \in Nat, NEW S, S \subseteq 0..N, S # {}
  PROVE  Max(S) \in S /\ \A e \in S : e <= Max(S)
<1> DEFINE D == {d \in Nat : N - d \in S}
<1>1. D # {} /\ D \subseteq Nat
  <2>1. PICK x \in S : x \in 0..N
    OBVIOUS
  <2>2. N - x \in Nat /\ N - (N - x) = x
    BY <2>1
  <2>3. QED
    BY <2>1, <2>2
<1>2. PICK d \in D : \A e \in D : d <= e
  <2> HIDE DEF D
  <2>1. QED
    BY <1>1, Least
<1>3. N - d \in S /\ d \in Nat
  BY <1>2
<1>4. ASSUME NEW e \in S PROVE e <= N - d
  <2>1. e \in 0..N /\ N - e \in Nat /\ N - (N - e) = e
    OBVIOUS
  <2>2. N - e \in D
    BY <2>1
  <2>3. d <= N - e
    BY <2>2, <1>2
  <2>4. QED
    BY <2>1, <2>3, <1>3
<1>5. Max(S) = N - d
  <2>1. S \subseteq Nat
    OBVIOUS
  <2>2. QED
    BY <2>1, <1>3, <1>4, MaxIs
<1>6. QED
  BY <1>3, <1>4, <1>5

(* The current tip is the newest checkpoint of its stream.                  *)
LEMMA TipIsNewest ==
  ASSUME Len(syncs) \in Nat, NEW s \in Streams
  PROVE  /\ CurrentTips[s] \in 0..Len(syncs)
         /\ CurrentTips[s] # 0 => syncs[CurrentTips[s]].out[s] # NULL
         /\ \A m \in CurrentTips[s] + 1..Len(syncs) : syncs[m].out[s] = NULL
<1> DEFINE N == Len(syncs)
           S == {n \in 1..N : syncs[n].out[s] # NULL} \cup {0}
<1>1. CurrentTips[s] = Max(S)
  BY DEF CurrentTips, TipsAt
<1>2. S \subseteq 0..N /\ S # {}
  OBVIOUS
<1>3. Max(S) \in S /\ \A e \in S : e <= Max(S)
  <2> HIDE DEF S
  <2>1. QED
    BY <1>2, HasMax
<1>4. ASSUME NEW m \in Max(S) + 1..N PROVE syncs[m].out[s] = NULL
  <2> SUFFICES ASSUME syncs[m].out[s] # NULL PROVE FALSE
    OBVIOUS
  <2>1. Max(S) \in 0..N
    BY <1>2, <1>3
  <2> DEFINE top == Max(S)
  <2> HIDE DEF top
  <2>2. top \in 0..N /\ m \in top + 1..N
    BY <2>1 DEF top
  <2>3. m \in 1..N /\ ~ (m <= top)
    BY <2>2
  <2>4. m \in S
    BY <2>3
  <2>5. QED
    BY <2>3, <2>4, <1>3 DEF top
<1>5. QED
  BY <1>1, <1>2, <1>3, <1>4

(* Evidence that may be resumed ends with a successful page, and the next   *)
(* position follows that page.                                              *)
LEMMA ReadyGoesOn ==
  ASSUME NEW row, NEW s, NEW e, Walked(row, s, e), row.index \in Nat, ResumeState(e) = "ready"
  PROVE  /\ Len(GoodPages(e)) \in Nat \ {0}
         /\ ContinuationIndex(e) = row.index + Len(GoodPages(e))
         /\ e.cursor = GoodPages(e)[Len(GoodPages(e))].response
<1>1. Resumable(e)
  BY DEF ResumeState
<1>2. IsSeq(e.pages) /\ Uninterrupted(e.pages) /\ Walks(e.pages, row.index, row.cursor)
  BY DEF Walked
<1> DEFINE k == Len(GoodPages(e))
<1>3. /\ k \in 0..Len(e.pages) /\ GoodAt(e) = 1..k
      /\ \A i \in 1..k : GoodPages(e)[i] = e.pages[i]
      /\ Len(e.pages) \in Nat
  <2>1. Len(e.pages) \in Nat
    BY <1>2 DEF IsSeq
  <2>2. QED
    BY <2>1, <1>2, GoodPagesArePrefix
<1>4. GoodAt(e) # {} /\ LastGood(e).response = e.cursor
  BY <1>1 DEF Resumable
<1> HIDE DEF k
<1>5. k \in Nat \ {0} /\ k \in 1..Len(e.pages)
  BY <1>3, <1>4
<1>6. Max(1..k) = k
  <2>1. 1..k \subseteq Nat /\ k \in 1..k /\ \A i \in 1..k : i <= k
    BY <1>5
  <2>2. QED
    BY <2>1, MaxIs
<1>7. LastGood(e) = e.pages[k] /\ e.pages[k] = GoodPages(e)[k]
  BY <1>3, <1>5, <1>6 DEF LastGood
<1>8. e.pages[k].index = row.index + k - 1
  BY <1>2, <1>5 DEF Walks
<1>9. QED
  BY <1>4, <1>5, <1>7, <1>8 DEF ContinuationIndex, k

-----------------------------------------------------------------------------
(* What the invariant says of chains.                                       *)

GoodOf(chain, s) == [i \in 1..Len(chain) |-> GoodPages(Checkpoint(chain[i], s))]

(* The successful pages up to a checkpoint are one walk from the newest     *)
(* page, and the checkpoint's own are its end.                              *)
OneWalk(n, s) ==
  LET walk == GoodPagesOf(Chain(n), s)
      own == GoodPages(Checkpoint(n, s))
  IN  /\ IsSeq(Chain(n)) /\ Chain(n) # <<>> /\ syncs[n].index \in Nat \ {0}
      /\ \E f : Flattens(f, GoodOf(Chain(n), s))
      /\ IsSeq(walk) /\ Walks(walk, 1, NULL)
      /\ Len(walk) = syncs[n].index + Len(own) - 1
      /\ own # <<>> => walk[Len(walk)] = own[Len(own)]

(* Sources lie below their continuations.                                   *)
LEMMA SoundRows ==
  ASSUME Sound(syncs)
  PROVE  /\ Len(syncs) \in Nat /\ Descends
         /\ \A n \in Ids : syncs[n].kind # "full" => syncs[n].source \in Ids
<1>1. Len(syncs) \in Nat
  BY DEF Sound, IsSeq
<1>2. QED
  BY <1>1 DEF Sound, Descends, Ids

(* The successful pages of one checkpoint.                                  *)
LEMMA OwnPages ==
  ASSUME Sound(syncs), NEW s \in Streams, NEW n \in Published(s)
  PROVE  /\ n \in Ids /\ Started(syncs[n]) /\ syncs[n].index \in Nat
         /\ Walked(syncs[n], s, Checkpoint(n, s))
         /\ IsSeq(GoodPages(Checkpoint(n, s)))
         /\ Walks(GoodPages(Checkpoint(n, s)), syncs[n].index, syncs[n].cursor)
<1>1. n \in Ids /\ n \in 1..Len(syncs) /\ syncs[n].out[s] # NULL
  BY DEF Published, Ids
<1>2. Started(syncs[n])
  BY <1>1 DEF Started
<1>3. syncs[n].index \in Nat /\ Walked(syncs[n], s, syncs[n].out[s])
  BY <1>1, <1>2 DEF Sound
<1> DEFINE e == Checkpoint(n, s)
           g == GoodPages(e)
<1>4. e = syncs[n].out[s]
  BY DEF Checkpoint
<1> HIDE DEF e
<1>5. IsSeq(e.pages) /\ Uninterrupted(e.pages) /\ Walks(e.pages, syncs[n].index, syncs[n].cursor)
  BY <1>3, <1>4 DEF Walked
<1>6. IsSeq(g) /\ Len(g) \in 0..Len(e.pages) /\ \A i \in 1..Len(g) : g[i] = e.pages[i]
  BY <1>5, GoodPagesArePrefix
<1>7. Len(e.pages) \in Nat
  BY <1>5 DEF IsSeq
<1> HIDE DEF g
<1>8. \A i \in 1..Len(g) : i \in 1..Len(e.pages) /\ (i # 1 => i - 1 \in 1..Len(g))
  BY <1>6, <1>7
<1>9. Walks(g, syncs[n].index, syncs[n].cursor)
  BY <1>5, <1>6, <1>8 DEF Walks
<1>10. QED
  BY <1>1, <1>2, <1>3, <1>4, <1>6, <1>9 DEF e, g

(* A full sync starts a walk of its own at page 1.                          *)
LEMMA WalkStarts ==
  ASSUME Sound(syncs), NEW s \in Streams, NEW n \in Published(s), syncs[n].kind = "full"
  PROVE  OneWalk(n, s)
<1> DEFINE own == GoodPages(Checkpoint(n, s))
<1>1. /\ n \in Ids /\ IsSeq(own) /\ Walks(own, syncs[n].index, syncs[n].cursor)
  BY OwnPages
<1>2. syncs[n].index = 1 /\ syncs[n].cursor = NULL
  BY <1>1 DEF Sound, Ids
<1>3. Chain(n) = <<n>>
  BY <1>1, SoundRows, ChainGrows
<1>4. IsSeq(<<n>>) /\ <<n>> # <<>>
  BY DEF IsSeq
<1>5. GoodOf(<<n>>, s) \in Seq({own}) /\ Len(GoodOf(<<n>>, s)) = 1 /\ GoodOf(<<n>>, s)[1] = own
  <2>1. Len(<<n>>) = 1 /\ \A i \in 1..1 : <<n>>[i] = n
    OBVIOUS
  <2>2. GoodOf(<<n>>, s) = [i \in 1..1 |-> own]
    BY <2>1, Zenon DEF GoodOf
  <2> HIDE DEF own
  <2>3. [i \in 1..1 |-> own] = <<own>>
    OBVIOUS
  <2>4. <<own>> \in Seq({own}) /\ Len(<<own>>) = 1 /\ <<own>>[1] = own
    OBVIOUS
  <2>5. QED
    BY <2>2, <2>3, <2>4, Zenon
<1>6. FlattenSeq(GoodOf(<<n>>, s)) = own /\ \E f : Flattens(f, GoodOf(<<n>>, s))
  BY <1>5, SeqIsSeq, FlattenOne
<1>7. GoodPagesOf(<<n>>, s) = own
  BY <1>6 DEF GoodPagesOf, GoodOf
<1>8. Len(own) \in Nat
  BY <1>1 DEF IsSeq
<1> HIDE DEF own
<1>9. Len(own) = syncs[n].index + Len(own) - 1
  BY <1>2, <1>8
<1>10. QED
  BY <1>1, <1>2, <1>3, <1>4, <1>6, <1>7, <1>9 DEF OneWalk, own

(* One more revision adds its good pages.                                   *)
LEMMA GoodOfLonger ==
  ASSUME NEW chain, IsSeq(chain), chain # <<>>, NEW n, NEW s
  PROVE  /\ IsSeq(Append(chain, n)) /\ Append(chain, n) # <<>>
         /\ IsSeq(GoodOf(chain, s)) /\ GoodOf(chain, s) # <<>>
         /\ GoodOf(Append(chain, n), s) = Append(GoodOf(chain, s), GoodPages(Checkpoint(n, s)))
<1> DEFINE own(m) == GoodPages(Checkpoint(m, s))
           R == {own(m) : m \in {chain[i] : i \in 1..Len(chain)} \cup {n}}
<1>1. PICK S : chain \in Seq(S)
  BY DEF IsSeq
<1>2. Append(chain, n) \in Seq(S \cup {n}) /\ Append(chain, n) # <<>>
  BY <1>1
<1>3. /\ Len(chain) \in Nat \ {0} /\ Len(Append(chain, n)) = Len(chain) + 1
      /\ \A i \in 1..Len(chain) : Append(chain, n)[i] = chain[i]
      /\ Append(chain, n)[Len(chain) + 1] = n
  BY <1>1
<1>4. /\ GoodOf(chain, s) = [i \in 1..Len(chain) |-> own(chain[i])]
      /\ GoodOf(Append(chain, n), s) = [i \in 1..Len(chain) + 1 |-> own(Append(chain, n)[i])]
  BY <1>3, Zenon DEF GoodOf
<1>5. own(n) \in R /\ \A i \in 1..Len(chain) : own(chain[i]) \in R
  BY Zenon
<1> HIDE DEF own, R
<1>6. GoodOf(chain, s) \in Seq(R) /\ Len(GoodOf(chain, s)) = Len(chain)
  BY <1>3, <1>4, <1>5
<1>7. Append(GoodOf(chain, s), own(n)) = GoodOf(Append(chain, n), s)
  BY <1>3, <1>4, <1>5, <1>6
<1>8. QED
  BY <1>2, <1>3, <1>6, <1>7, SeqIsSeq DEF own

(* A walk that starts where another ended extends it.                       *)
LEMMA WalksJoin ==
  ASSUME NEW walk, IsSeq(walk), walk # <<>>, Walks(walk, 1, NULL),
         NEW own, IsSeq(own), Walks(own, Len(walk) + 1, walk[Len(walk)].response)
  PROVE  /\ IsSeq(walk \o own) /\ Walks(walk \o own, 1, NULL)
         /\ Len(walk \o own) = Len(walk) + Len(own)
         /\ own # <<>> => (walk \o own)[Len(walk \o own)] = own[Len(own)]
<1> DEFINE W == Len(walk)
           all == walk \o own
<1>1. PICK S, T : walk \in Seq(S) /\ own \in Seq(T)
  BY DEF IsSeq
<1>2. walk \in Seq(S \cup T) /\ own \in Seq(S \cup T)
  BY <1>1
<1>3. all \in Seq(S \cup T)
  BY <1>2
<1>4. /\ W \in Nat \ {0} /\ Len(own) \in Nat /\ Len(all) = W + Len(own)
      /\ \A i \in 1..W : all[i] = walk[i]
      /\ \A i \in W + 1..W + Len(own) : all[i] = own[i - W]
      /\ own # <<>> => Len(own) # 0
  BY <1>2
<1> HIDE DEF all, W
<1>5. \A i \in 1..W : /\ all[i].index = i
                      /\ all[i].request = IF i = 1 THEN NULL ELSE all[i - 1].response
  <2> TAKE i \in 1..W
  <2>1. /\ walk[i].index = 1 + i - 1
        /\ walk[i].request = IF i = 1 THEN NULL ELSE walk[i - 1].response
    BY DEF Walks, W
  <2>2. 1 + i - 1 = i /\ (i # 1 => i - 1 \in 1..W)
    BY <1>4
  <2>3. QED
    BY <2>1, <2>2, <1>4
<1>6. ASSUME NEW i \in W + 1..W + Len(own)
      PROVE  all[i].index = i /\ all[i].request = all[i - 1].response
  <2>1. i - W \in 1..Len(own) /\ all[i] = own[i - W]
    BY <1>4
  <2>2. /\ own[i - W].index = W + 1 + (i - W) - 1
        /\ own[i - W].request = IF i - W = 1 THEN walk[W].response ELSE own[i - W - 1].response
    BY <2>1 DEF Walks, W
  <2>3. i - W = 1 => i - 1 = W /\ all[i - 1] = walk[W]
    BY <1>4
  <2>4. i - W # 1 => all[i - 1] = own[i - W - 1]
    <3> SUFFICES ASSUME i - W # 1 PROVE all[i - 1] = own[i - W - 1]
      OBVIOUS
    <3>1. i - 1 \in W + 1..W + Len(own) /\ i - 1 - W = i - W - 1
      BY <1>4
    <3>2. QED
      BY <3>1, <1>4
  <2>5. W + 1 + (i - W) - 1 = i
    BY <1>4
  <2>6. QED
    BY <2>1, <2>2, <2>3, <2>4, <2>5
<1>7. Walks(all, 1, NULL)
  <2> SUFFICES ASSUME NEW i \in 1..Len(all)
               PROVE  /\ all[i].index = 1 + i - 1
                      /\ all[i].request = IF i = 1 THEN NULL ELSE all[i - 1].response
    BY DEF Walks
  <2>1. i \in 1..W \/ (i \in W + 1..W + Len(own) /\ i # 1)
    BY <1>4
  <2>2. 1 + i - 1 = i
    BY <1>4
  <2>3. QED
    BY <2>1, <2>2, <1>5, <1>6
<1>8. own # <<>> => all[Len(all)] = own[Len(own)]
  <2> SUFFICES ASSUME own # <<>> PROVE all[Len(all)] = own[Len(own)]
    OBVIOUS
  <2>1. Len(all) \in W + 1..W + Len(own) /\ Len(all) - W = Len(own)
    BY <1>4
  <2>2. QED
    BY <2>1, <1>4
<1>9. QED
  BY <1>3, <1>4, <1>7, <1>8, SeqIsSeq DEF all, W

(* A continuation extends the walk of its source.                           *)
LEMMA WalkContinues ==
  ASSUME Sound(syncs), NEW s \in Streams, NEW n \in Published(s), syncs[n].kind # "full",
         syncs[n].source \in Published(s) => OneWalk(syncs[n].source, s)
  PROVE  OneWalk(n, s)
<1> DEFINE m == syncs[n].source
           own == GoodPages(Checkpoint(n, s))
           before == GoodPages(Checkpoint(m, s))
           walk == GoodPagesOf(Chain(m), s)
           longer == Append(Chain(m), n)
<1>1. /\ n \in Ids /\ Started(syncs[n]) /\ syncs[n].stream = s
      /\ IsSeq(own) /\ Walks(own, syncs[n].index, syncs[n].cursor)
  BY OwnPages DEF Walked
<1>2. m \in Ids
  BY <1>1, SoundRows
<1>3. /\ Checkpoint(m, s) # NULL /\ ResumeState(Checkpoint(m, s)) = "ready"
      /\ syncs[n].cursor = Checkpoint(m, s).cursor
      /\ syncs[n].index = ContinuationIndex(Checkpoint(m, s))
  <2>1. Continues(syncs, n)
    BY <1>1 DEF Sound, Ids
  <2>2. QED
    BY <2>1, <1>1 DEF Continues, Checkpoint
<1>4. m \in Published(s)
  BY <1>2, <1>3 DEF Published, Checkpoint
<1>5. /\ Len(before) \in Nat \ {0}
      /\ syncs[n].index = syncs[m].index + Len(before)
      /\ syncs[n].cursor = before[Len(before)].response
  <2>1. syncs[m].index \in Nat /\ Walked(syncs[m], s, Checkpoint(m, s))
    BY <1>4, OwnPages
  <2>2. QED
    BY <2>1, <1>3, ReadyGoesOn
<1>6. /\ IsSeq(Chain(m)) /\ Chain(m) # <<>>
      /\ \E f : Flattens(f, GoodOf(Chain(m), s))
      /\ IsSeq(walk) /\ Walks(walk, 1, NULL)
      /\ Len(walk) = syncs[m].index + Len(before) - 1 /\ syncs[m].index \in Nat \ {0}
      /\ walk[Len(walk)] = before[Len(before)]
  <2>1. OneWalk(m, s)
    BY <1>4
  <2>2. before # <<>>
    BY <1>5
  <2>3. QED
    BY <2>1, <2>2 DEF OneWalk
<1>7. Chain(n) = longer
  BY <1>1, SoundRows, ChainGrows
<1>8. /\ IsSeq(longer) /\ longer # <<>>
      /\ IsSeq(GoodOf(Chain(m), s)) /\ GoodOf(Chain(m), s) # <<>>
      /\ GoodOf(longer, s) = Append(GoodOf(Chain(m), s), own)
  <2> DEFINE chain == Chain(m)
  <2>1. IsSeq(chain) /\ chain # <<>>
    BY <1>6
  <2> HIDE DEF chain
  <2>2. IsSeq(Append(chain, n)) /\ Append(chain, n) # <<>>
    BY <2>1, GoodOfLonger, Zenon
  <2>3. IsSeq(GoodOf(chain, s)) /\ GoodOf(chain, s) # <<>>
    BY <2>1, GoodOfLonger, Zenon
  <2>4. GoodOf(Append(chain, n), s) = Append(GoodOf(chain, s), GoodPages(Checkpoint(n, s)))
    BY <2>1, GoodOfLonger
  <2>5. QED
    BY <2>2, <2>3, <2>4, Zenon DEF chain
<1>9. GoodPagesOf(longer, s) = walk \o own /\ \E f : Flattens(f, GoodOf(longer, s))
  <2> DEFINE seqs == GoodOf(Chain(m), s)
  <2>1. PICK f : Flattens(f, seqs)
    BY <1>6
  <2>2. IsSeq(seqs) /\ seqs # <<>> /\ GoodOf(longer, s) = Append(seqs, own)
    BY <1>8
  <2>3. walk = FlattenSeq(seqs) /\ GoodPagesOf(longer, s) = FlattenSeq(GoodOf(longer, s))
    BY Zenon DEF GoodPagesOf, GoodOf
  <2> HIDE DEF seqs, own
  <2>4. FlattenSeq(Append(seqs, own)) = FlattenSeq(seqs) \o own
    BY <2>1, <2>2, FlattenAppend, Zenon
  <2>5. \E g : Flattens(g, Append(seqs, own))
    BY <2>1, <2>2, FlattenAppend, Zenon
  <2>6. QED
    BY <2>2, <2>3, <2>4, <2>5, Zenon
<1> HIDE DEF walk, own, before, longer
<1>10. Len(walk) \in Nat /\ Len(own) \in Nat /\ syncs[n].index = Len(walk) + 1 /\ walk # <<>>
       /\ syncs[n].index \in Nat \ {0}
  <2>1. Len(own) \in Nat
    BY <1>1 DEF IsSeq
  <2> DEFINE i == syncs[m].index
             b == Len(before)
             w == Len(walk)
  <2>2. w = i + b - 1 /\ i \in Nat \ {0} /\ b \in Nat \ {0} /\ syncs[n].index = i + b
    BY <1>5, <1>6
  <2>3. walk = <<>> => w = 0
    OBVIOUS
  <2> HIDE DEF i, b, w
  <2>4. w \in Nat \ {0}
    BY <2>2
  <2>5. syncs[n].index = w + 1 /\ w + 1 \in Nat \ {0}
    BY <2>2
  <2>6. QED
    BY <2>1, <2>2, <2>3, <2>4, <2>5 DEF w
<1>11. /\ IsSeq(walk \o own) /\ Walks(walk \o own, 1, NULL)
       /\ Len(walk \o own) = Len(walk) + Len(own)
       /\ own # <<>> => (walk \o own)[Len(walk \o own)] = own[Len(own)]
  BY <1>1, <1>5, <1>6, <1>10, WalksJoin
<1>12. Len(walk \o own) = syncs[n].index + Len(own) - 1
  BY <1>10, <1>11
<1>13. GoodPagesOf(Chain(n), s) = walk \o own /\ IsSeq(Chain(n)) /\ Chain(n) # <<>>
  BY <1>7, <1>8, <1>9, Zenon
<1>14. \E f : Flattens(f, GoodOf(Chain(n), s))
  BY <1>7, <1>9, Zenon
<1>15. QED
  BY <1>10, <1>11, <1>12, <1>13, <1>14, Zenon DEF OneWalk, own

(* Every checkpoint's chain is one walk, by induction on its sync.          *)
LEMMA EveryWalk ==
  ASSUME Sound(syncs), NEW s \in Streams, NEW n \in Published(s)
  PROVE  OneWalk(n, s)
<1> DEFINE D == {m \in Published(s) : ~ OneWalk(m, s)}
<1> SUFFICES ASSUME D # {} PROVE FALSE
  OBVIOUS
<1>1. D \subseteq Nat
  BY DEF Published, Ids
<1>2. PICK m \in D : \A k \in D : m <= k
  <2> HIDE DEF D
  <2>1. QED
    BY <1>1, Least
<1>3. m \in Published(s) /\ ~ OneWalk(m, s)
  BY <1>2
<1>4. syncs[m].kind # "full"
  BY <1>3, WalkStarts
<1>5. syncs[m].source \in 1..m - 1
  BY <1>3, <1>4 DEF Sound, Published, Ids
<1>6. syncs[m].source \in Published(s) => OneWalk(syncs[m].source, s)
  BY <1>1, <1>2, <1>5
<1>7. QED
  BY <1>3, <1>4, <1>6, WalkContinues

(* What the invariant says of the rows is the property.                     *)
LEMMA WalksAreSingle ==
  ASSUME Sound(syncs)
  PROVE  ChainIsOneWalk
<1>1. ASSUME NEW s \in Streams, NEW n \in Published(s)
      PROVE  LET walk == GoodPagesOf(Chain(n), s)
             IN  \A i \in 1..Len(walk) :
                   /\ walk[i].index = i
                   /\ walk[i].request = IF i = 1 THEN NULL ELSE walk[i - 1].response
  <2> DEFINE walk == GoodPagesOf(Chain(n), s)
  <2>1. Walks(walk, 1, NULL)
    BY EveryWalk DEF OneWalk
  <2> HIDE DEF walk
  <2>2. \A i \in 1..Len(walk) : /\ walk[i].index = i
                                /\ walk[i].request = IF i = 1 THEN NULL ELSE walk[i - 1].response
    BY <2>1 DEF Walks
  <2>3. QED
    BY <2>2, Zenon DEF walk
<1>2. ASSUME NEW s \in Streams, NEW m \in Published(s), NEW n \in Published(s), m < n,
             syncs[m].kind # "full", syncs[n].kind # "full"
      PROVE  syncs[m].source # syncs[n].source
  <2>1. /\ m \in Ids /\ Started(syncs[m]) /\ Walked(syncs[m], s, Checkpoint(m, s))
        /\ n \in Ids /\ Started(syncs[n]) /\ Walked(syncs[n], s, Checkpoint(n, s))
    BY OwnPages
  <2>2. syncs[n].stream = s /\ syncs[m].out[s] # NULL
    BY <2>1, <1>2 DEF Walked, Published
  <2>3. \A k \in syncs[n].source + 1..n - 1 : syncs[k].out[s] = NULL
    BY <2>1, <2>2, <1>2 DEF Sound, Continues, Ids
  <2>4. syncs[m].source \in 1..m - 1 /\ syncs[n].source \in 1..n - 1
    BY <2>1, <1>2 DEF Sound, Ids
  <2>5. m \in Nat /\ n \in Nat
    BY <2>1 DEF Ids
  <2>6. ~ (syncs[n].source < m)
    BY <2>2, <2>3, <2>4, <2>5, <1>2
  <2>7. QED
    BY <2>4, <2>5, <2>6
<1>3. \A s \in Streams : \A m, n \in Published(s) : m # n => m < n \/ n < m
  <2>1. \A s \in Streams : Published(s) \subseteq Nat
    BY DEF Published, Ids
  <2>2. QED
    BY <2>1
<1>4. QED
  BY <1>1, <1>2, <1>3, Zenon DEF ChainIsOneWalk

-----------------------------------------------------------------------------
(* The rows of the syncs change at the end only.                            *)

SamePosition(row, old) ==
  /\ row.kind = old.kind /\ row.stream = old.stream /\ row.source = old.source
  /\ row.cursor = old.cursor /\ row.index = old.index

(* What a continuation goes on from lies below its own row.                 *)
LEMMA ContinuesBelow ==
  ASSUME NEW old, NEW rows, NEW n \in Nat, SamePosition(rows[n], old[n]),
         \A m \in 1..n - 1 : rows[m] = old[m],
         old[n].kind # "full" => old[n].source \in 1..n - 1,
         Continues(old, n)
  PROVE  Continues(rows, n)
<1> SUFFICES ASSUME rows[n].kind # "full"
             PROVE  /\ rows[rows[n].source].out[rows[n].stream] # NULL
                    /\ ResumeState(rows[rows[n].source].out[rows[n].stream]) = "ready"
                    /\ rows[n].cursor = rows[rows[n].source].out[rows[n].stream].cursor
                    /\ rows[n].index = ContinuationIndex(rows[rows[n].source].out[rows[n].stream])
                    /\ \A m \in rows[n].source + 1..n - 1 : rows[m].out[rows[n].stream] = NULL
  BY DEF Continues
<1> DEFINE k == old[n].source
           s == old[n].stream
<1>1. rows[n].source = k /\ rows[n].stream = s /\ k \in 1..n - 1 /\ old[n].kind # "full"
  BY DEF SamePosition
<1>2. rows[k] = old[k]
  BY <1>1
<1>3. /\ old[k].out[s] # NULL /\ ResumeState(old[k].out[s]) = "ready"
      /\ old[n].cursor = old[k].out[s].cursor
      /\ old[n].index = ContinuationIndex(old[k].out[s])
      /\ \A m \in k + 1..n - 1 : old[m].out[s] = NULL
  BY <1>1 DEF Continues
<1>4. rows[n].cursor = old[n].cursor /\ rows[n].index = old[n].index
  BY DEF SamePosition
<1> HIDE DEF k, s
<1>5. \A m \in k + 1..n - 1 : rows[m].out[s] = NULL
  <2> TAKE m \in k + 1..n - 1
  <2>1. m \in 1..n - 1
    BY <1>1
  <2>2. QED
    BY <2>1, <1>3
<1>6. QED
  BY <1>1, <1>2, <1>3, <1>4, <1>5, Zenon

(* The newest row changes: its state, or what it published.                 *)
LEMMA NewestRowChanges ==
  ASSUME NEW old, Sound(old), NEW rows, NEW n, n = Len(old), n # 0,
         IsSeq(rows), Len(rows) = Len(old), \A m \in 1..n - 1 : rows[m] = old[m],
         SamePosition(rows[n], old[n]),
         DOMAIN rows[n] = RowFields, DOMAIN rows[n].out = Streams,
         Started(rows[n]) => old[n].index \in Nat /\ Continues(old, n),
         \A s \in Streams : rows[n].out[s] # NULL => Walked(old[n], s, rows[n].out[s])
  PROVE  Sound(rows)
<1>1. Len(old) \in Nat /\ n \in Nat /\ n \in 1..Len(old)
  BY DEF Sound, IsSeq
<1>2. /\ old[n].kind = "full" => old[n].index = 1 /\ old[n].cursor = NULL
      /\ old[n].kind # "full" => old[n].stream \in Streams /\ old[n].source \in 1..n - 1
  BY <1>1 DEF Sound
<1>3. /\ rows[n].kind = "full" => rows[n].index = 1 /\ rows[n].cursor = NULL
      /\ rows[n].kind # "full" => rows[n].stream \in Streams /\ rows[n].source \in 1..n - 1
  BY <1>2 DEF SamePosition
<1>4. Started(rows[n]) => rows[n].index \in Nat /\ Continues(rows, n)
  <2>1. Continues(old, n) => Continues(rows, n)
    BY <1>1, <1>2, ContinuesBelow
  <2>2. QED
    BY <2>1 DEF SamePosition
<1>5. \A s \in Streams : rows[n].out[s] # NULL => Walked(rows[n], s, rows[n].out[s])
  BY DEF SamePosition, Walked
<1>6. ASSUME NEW m \in 1..n - 1
      PROVE  /\ DOMAIN rows[m] = RowFields /\ DOMAIN rows[m].out = Streams
             /\ rows[m].state \in {"queued", "running"} => m = Len(rows)
             /\ rows[m].kind = "full" => rows[m].index = 1 /\ rows[m].cursor = NULL
             /\ rows[m].kind # "full" => rows[m].stream \in Streams /\ rows[m].source \in 1..m - 1
             /\ Started(rows[m]) => rows[m].index \in Nat /\ Continues(rows, m)
             /\ \A s \in Streams : rows[m].out[s] # NULL => Walked(rows[m], s, rows[m].out[s])
  <2>1. m \in 1..Len(old) /\ rows[m] = old[m] /\ m \in Nat
    BY <1>1
  <2>2. \A k \in 1..m - 1 : rows[k] = old[k]
    BY <1>1
  <2>3. old[m].kind # "full" => old[m].source \in 1..m - 1
    BY <2>1 DEF Sound
  <2>4. Continues(old, m) => Continues(rows, m)
    BY <2>1, <2>2, <2>3, ContinuesBelow DEF SamePosition
  <2>5. QED
    BY <2>1, <2>4 DEF Sound
<1>7. \A m \in 1..Len(rows) : m \in 1..n - 1 \/ m = n
  BY <1>1
<1>8. QED
  BY <1>3, <1>4, <1>5, <1>6, <1>7, ZenonT(40) DEF Sound

(* A row is added: nothing was active, and it has published nothing.        *)
LEMMA RowIsAdded ==
  ASSUME NEW old, Sound(old), \A m \in 1..Len(old) : old[m].state \notin {"queued", "running"},
         NEW row, DOMAIN row = RowFields, row.state = "queued", row.out = NoOutput,
         row.kind = "full" => row.index = 1 /\ row.cursor = NULL,
         row.kind # "full" => row.stream \in Streams /\ row.source \in 1..Len(old)
  PROVE  Sound(Append(old, row))
<1> DEFINE rows == Append(old, row)
           N == Len(old)
<1>1. PICK S : old \in Seq(S)
  BY DEF Sound, IsSeq
<1>2. rows \in Seq(S \cup {row})
  BY <1>1
<1>3. /\ N \in Nat /\ Len(rows) = N + 1 /\ rows[N + 1] = row
      /\ \A m \in 1..N : rows[m] = old[m]
  BY <1>1
<1>4. IsSeq(rows)
  BY <1>2, SeqIsSeq
<1> HIDE DEF rows, N
<1>5. ~ Started(row) /\ DOMAIN row.out = Streams /\ \A s \in Streams : row.out[s] = NULL
  BY DEF Started, NoOutput
<1>6. ASSUME NEW m \in 1..N
      PROVE  /\ DOMAIN rows[m] = RowFields /\ DOMAIN rows[m].out = Streams
             /\ rows[m].state \in {"queued", "running"} => m = Len(rows)
             /\ rows[m].kind = "full" => rows[m].index = 1 /\ rows[m].cursor = NULL
             /\ rows[m].kind # "full" => rows[m].stream \in Streams /\ rows[m].source \in 1..m - 1
             /\ Started(rows[m]) => rows[m].index \in Nat /\ Continues(rows, m)
             /\ \A s \in Streams : rows[m].out[s] # NULL => Walked(rows[m], s, rows[m].out[s])
  <2>1. m \in 1..Len(old) /\ rows[m] = old[m] /\ m \in Nat
    BY <1>3 DEF N
  <2>2. \A k \in 1..m - 1 : rows[k] = old[k]
    BY <1>3
  <2>3. old[m].kind # "full" => old[m].source \in 1..m - 1
    BY <2>1 DEF Sound
  <2>4. Continues(old, m) => Continues(rows, m)
    BY <2>1, <2>2, <2>3, ContinuesBelow DEF SamePosition
  <2>5. QED
    BY <2>1, <2>4 DEF Sound
<1> DEFINE last == N + 1
<1>7. rows[last] = row /\ last = Len(rows) /\ last - 1 = Len(old)
  BY <1>3 DEF N
<1>8. \A m \in 1..Len(rows) : m \in 1..N \/ m = last
  BY <1>3
<1> HIDE DEF last
<1>9. row.kind # "full" => row.stream \in Streams /\ row.source \in 1..last - 1
  BY <1>7
<1>10. Sound(rows)
  <2> DEFINE Fine(m) ==
        /\ DOMAIN rows[m] = RowFields /\ DOMAIN rows[m].out = Streams
        /\ rows[m].state \in {"queued", "running"} => m = Len(rows)
        /\ rows[m].kind = "full" => rows[m].index = 1 /\ rows[m].cursor = NULL
        /\ rows[m].kind # "full" => rows[m].stream \in Streams /\ rows[m].source \in 1..m - 1
        /\ Started(rows[m]) => rows[m].index \in Nat /\ Continues(rows, m)
        /\ \A s \in Streams : rows[m].out[s] # NULL => Walked(rows[m], s, rows[m].out[s])
  <2>1. Fine(last)
    BY <1>5, <1>7, <1>9
  <2>2. ASSUME NEW m \in 1..N PROVE Fine(m)
    BY <1>6, Zenon
  <2> HIDE DEF Fine
  <2>3. \A m \in 1..Len(rows) : Fine(m)
    BY <1>8, <2>1, <2>2
  <2>4. QED
    BY <1>4, <2>3, Zenon DEF Sound, Fine
<1>11. QED
  BY <1>10 DEF rows

-----------------------------------------------------------------------------
(* The acquisition follows the position of the row it runs for.             *)

(* A request starts at the position it is given, with nothing fetched.      *)
LEMMA RequestedHolds ==
  ASSUME DOMAIN acq = AcquisitionFields, NEW streams, NEW cursor, NEW index, NEW cap, NEW snapshot,
         acq' = Requested(streams, cursor, index, cap, snapshot)
  PROVE  /\ DOMAIN acq' = AcquisitionFields /\ acq'.got = NoOutput
         /\ acq'.todo = streams /\ acq'.cursor = cursor /\ acq'.index = index
         /\ acq'.pages = <<>> /\ acq'.seen = {} /\ acq'.accepted = {}
<1> DEFINE started == StartStream(streams[1], cursor, index, cap)
<1>1. /\ DOMAIN started = AcquisitionFields
      /\ started.cursor = cursor /\ started.index = index /\ started.pages = <<>>
      /\ started.seen = {} /\ started.accepted = {}
  BY DEF StartStream, AcquisitionFields
<1>2. acq' = [started EXCEPT !.todo = streams, !.snapshot = snapshot, !.got = NoOutput]
  BY DEF Requested, NoOutput
<1> HIDE DEF started
<1>3. QED
  BY <1>1, <1>2 DEF AcquisitionFields

LEMMA RequestAcquires ==
  ASSUME DOMAIN acq = AcquisitionFields, NEW row, row.index \in Nat, NEW streams, NEW cap, NEW snapshot,
         acq' = Requested(streams, row.cursor, row.index, cap, snapshot),
         IsSeq(streams), streams # <<>>, row.kind # "full" => streams = <<row.stream>>
  PROVE  Acquiring(row, acq') /\ DOMAIN acq' = AcquisitionFields /\ DOMAIN acq'.got = Streams
<1>1. /\ DOMAIN acq' = AcquisitionFields /\ acq'.got = NoOutput
      /\ acq'.todo = streams /\ acq'.cursor = row.cursor /\ acq'.index = row.index
      /\ acq'.pages = <<>>
  BY RequestedHolds
<1>2. DOMAIN acq'.got = Streams /\ \A s \in Streams : acq'.got[s] = NULL
  BY <1>1 DEF NoOutput
<1>3. IsSeq(<<>>) /\ Len(<<>>) = 0
  BY DEF IsSeq
<1>4. Walks(<<>>, row.index, row.cursor)
  BY <1>3 DEF Walks
<1>5. acq'.index = row.index + Len(<<>>)
  BY <1>1, <1>3
<1>6. QED
  BY <1>1, <1>2, <1>3, <1>4, <1>5 DEF Acquiring

(* When a stream ends, its evidence is kept and the rest starts afresh.     *)
LEMMA StreamEndsEffect ==
  ASSUME DOMAIN acq = AcquisitionFields, DOMAIN acq.got = Streams,
         NEW completion, NEW termination, NEW pages, NEW cursor, NEW accepted,
         StreamEnds(completion, termination, pages, cursor, accepted)
  PROVE  /\ DOMAIN acq' = AcquisitionFields /\ DOMAIN acq'.got = Streams
         /\ acq'.todo = Tail(acq.todo) /\ acq'.pages = <<>> /\ acq'.seen = {} /\ acq'.accepted = {}
         /\ \A s \in Streams :
              acq'.got[s] = IF s # CurrentStream THEN acq.got[s]
                            ELSE [completion |-> completion, termination |-> termination, pages |-> pages,
                                  cursor |-> cursor, accepted |-> accepted]
         /\ IF Tail(acq.todo) = <<>> THEN acq'.at = "done"
            ELSE acq'.at = "fetching" /\ acq'.cursor = NULL /\ acq'.index = 1
<1> DEFINE evidence == [completion |-> completion, termination |-> termination, pages |-> pages,
                        cursor |-> cursor, accepted |-> accepted]
           rest == Tail(acq.todo)
           next == IF rest = <<>> THEN [acq EXCEPT !.at = "done"] ELSE StartStream(rest[1], NULL, 1, PageCap)
<1>1. acq' = [next EXCEPT !.todo = rest, !.got[CurrentStream] = evidence, !.pages = <<>>,
                          !.accepted = {}, !.seen = {}]
  BY DEF StreamEnds
<1>2. /\ DOMAIN next = AcquisitionFields /\ next.got = acq.got
      /\ IF rest = <<>> THEN next.at = "done"
         ELSE next.at = "fetching" /\ next.cursor = NULL /\ next.index = 1
  BY DEF StartStream, AcquisitionFields
<1> HIDE DEF next, evidence
<1>3. /\ DOMAIN acq' = AcquisitionFields
      /\ acq'.todo = rest /\ acq'.pages = <<>> /\ acq'.at = next.at
      /\ acq'.seen = {} /\ acq'.accepted = {}
      /\ acq'.cursor = next.cursor /\ acq'.index = next.index
      /\ acq'.got = [next.got EXCEPT ![CurrentStream] = evidence]
  BY <1>1, <1>2 DEF AcquisitionFields
<1>4. \A s \in Streams : acq'.got[s] = IF s # CurrentStream THEN acq.got[s] ELSE evidence
  BY <1>2, <1>3
<1>5. QED
  BY <1>2, <1>3, <1>4 DEF evidence

(* One more page of the current stream.                                     *)
LEMMA PageFollows ==
  ASSUME NEW row, row.index \in Nat, acq.at = "fetching", Acquiring(row, acq),
         NEW page, page.index = acq.index, page.request = acq.cursor
  PROVE  /\ IsSeq(Append(acq.pages, page)) /\ Uninterrupted(Append(acq.pages, page))
         /\ Walks(Append(acq.pages, page), row.index, row.cursor)
         /\ Len(Append(acq.pages, page)) = Len(acq.pages) + 1
         /\ Append(acq.pages, page) # <<>>
         /\ Append(acq.pages, page)[Len(acq.pages) + 1] = page
         /\ \A i \in 1..Len(acq.pages) : Append(acq.pages, page)[i] = acq.pages[i]
<1> DEFINE p == acq.pages
           N == Len(p)
           more == Append(p, page)
<1>1. /\ IsSeq(p) /\ Walks(p, row.index, row.cursor) /\ \A i \in 1..N : p[i].ok
      /\ acq.index = row.index + N
      /\ acq.cursor = IF p = <<>> THEN row.cursor ELSE p[N].response
  BY DEF Acquiring
<1> HIDE DEF p
<1>2. PICK S : p \in Seq(S)
  BY <1>1, Zenon DEF IsSeq
<1>3. more \in Seq(S \cup {page}) /\ more # <<>>
  <2>1. S \subseteq S \cup {page} /\ page \in S \cup {page}
    OBVIOUS
  <2>2. p \in Seq(S \cup {page})
    BY <2>1, <1>2
  <2>3. QED
    BY <2>1, <2>2
<1>4. /\ N \in Nat /\ Len(more) = N + 1 /\ more[N + 1] = page
      /\ \A i \in 1..N : more[i] = p[i]
      /\ p = <<>> <=> N = 0
  BY <1>2
<1> HIDE DEF more, N
<1>5. IsSeq(more)
  BY <1>3, SeqIsSeq
<1>6. Uninterrupted(more)
  BY <1>1, <1>4 DEF Uninterrupted
<1>7. \A i \in 1..N : /\ p[i].index = row.index + i - 1
                      /\ p[i].request = IF i = 1 THEN row.cursor ELSE p[i - 1].response
  BY <1>1 DEF Walks, N
<1>8. ASSUME NEW i \in 1..N
      PROVE  /\ more[i].index = row.index + i - 1
             /\ more[i].request = IF i = 1 THEN row.cursor ELSE more[i - 1].response
  <2>1. i # 1 => i - 1 \in 1..N
    BY <1>4
  <2>2. QED
    BY <2>1, <1>4, <1>7
<1> DEFINE last == N + 1
<1>9. /\ last - 1 = N /\ (last = 1 <=> N = 0) /\ last \in Nat \ {0} /\ more[last] = page
      /\ row.index + last - 1 = row.index + N
      /\ \A i \in 1..Len(more) : i \in 1..N \/ i = last
  <2>1. N \in Nat /\ Len(more) = last /\ more[last] = page
    BY <1>4
  <2>2. \A i \in 1..last : i \in 1..N \/ i = last
    BY <2>1
  <2>3. /\ last - 1 = N /\ (last = 1 <=> N = 0) /\ last \in Nat \ {0}
        /\ row.index + last - 1 = row.index + N
    BY <2>1
  <2>4. QED
    BY <2>1, <2>2, <2>3, Zenon
<1>10. Walks(more, row.index, row.cursor)
  <2> HIDE DEF last
  <2>1. last # 1 => more[last - 1] = p[N]
    BY <1>4, <1>9
  <2>2. /\ more[last].index = row.index + last - 1
        /\ more[last].request = IF last = 1 THEN row.cursor ELSE more[last - 1].response
    BY <2>1, <1>1, <1>4, <1>9
  <2>3. ASSUME NEW i \in 1..Len(more)
        PROVE  /\ more[i].index = row.index + i - 1
               /\ more[i].request = IF i = 1 THEN row.cursor ELSE more[i - 1].response
    <3>1. CASE i \in 1..N
      BY <3>1, <1>8, Zenon
    <3>2. CASE i = last
      BY <3>2, <2>2, Zenon
    <3>3. QED
      BY <3>1, <3>2, <1>9
  <2>4. QED
    BY <2>3, Zenon DEF Walks
<1>11. QED
  BY <1>3, <1>4, <1>5, <1>6, <1>10 DEF more, N, p

(* A page ends its stream, or the walk goes on behind it.                   *)
EndsWith(page) ==
  \E completion, termination, cursor, accepted :
    StreamEnds(completion, termination, Append(acq.pages, page), cursor, accepted)
GoesOnWith(page) ==
  /\ page.ok /\ acq'.at = acq.at /\ acq'.todo = acq.todo /\ acq'.got = acq.got
  /\ DOMAIN acq' = DOMAIN acq
  /\ acq'.pages = Append(acq.pages, page)
  /\ acq'.cursor = page.response /\ acq'.index = acq.index + 1

(* Whatever the provider answers, one page is added: it asked for the       *)
(* cursor at which the acquisition stood.                                   *)
LEMMA FetchedPage ==
  ASSUME DOMAIN acq = AcquisitionFields, FetchPage
  PROVE  \E page : /\ page.index = acq.index /\ page.request = acq.cursor
                   /\ EndsWith(page) \/ GoesOnWith(page)
<1> DEFINE good(response) == [index |-> acq.index, request |-> acq.cursor, response |-> response, ok |-> TRUE]
           bad == [index |-> acq.index, request |-> acq.cursor, response |-> NULL, ok |-> FALSE]
<1>1. \A response : /\ good(response).index = acq.index /\ good(response).request = acq.cursor
                    /\ good(response).response = response /\ good(response).ok
  OBVIOUS
<1>2. bad.index = acq.index /\ bad.request = acq.cursor
  OBVIOUS
<1>3. PICK answer : \/ \E termination : PageFails(termination)
                    \/ PageArrives(answer.rows)
  BY DEF FetchPage
<1>4. ASSUME NEW termination, PageFails(termination)
      PROVE  EndsWith(bad)
  BY <1>4, Zenon DEF PageFails, EndsWith
<1>5. ASSUME PageArrives(answer.rows)
      PROVE  \E response : EndsWith(good(response)) \/ GoesOnWith(good(response))
  <2> DEFINE rows == answer.rows
             fresh == Range(rows) \ acq.seen
             unsettled == IF CurrentStream = "account_events"
                            THEN {lt \in fresh \cap pending : InInterval(lt)} ELSE {}
             accepted == acq.accepted \cup ({lt \in fresh : InInterval(lt)} \ unsettled)
             saw == acq.sawPending \/ unsettled # {}
             response == IF rows = <<>> THEN NULL ELSE rows[Len(rows)]
             pages == Append(acq.pages, good(response))
             ends == \E c, t : StreamEnds(c, t, pages, response, accepted)
             goes == acq' = [acq EXCEPT !.cursor = response, !.index = acq.index + 1, !.left = acq.left - 1,
                                        !.pages = pages, !.accepted = accepted,
                                        !.seen = acq.seen \cup fresh, !.sawPending = saw]
  <2>1. ends \/ goes
    BY <1>5, Zenon DEF PageArrives
  <2> HIDE DEF fresh, unsettled, accepted, saw, response, rows
  <2>2. ends => EndsWith(good(response))
    BY Zenon DEF EndsWith
  <2>3. goes => GoesOnWith(good(response))
    <3> SUFFICES ASSUME goes PROVE GoesOnWith(good(response))
      OBVIOUS
    <3>1. good(response).ok /\ good(response).response = response
      OBVIOUS
    <3> HIDE DEF good
    <3>2. QED
      BY <3>1 DEF GoesOnWith, AcquisitionFields
  <2>4. QED
    BY <2>1, <2>2, <2>3
<1> HIDE DEF good, bad
<1>6. QED
  BY <1>1, <1>2, <1>3, <1>4, <1>5, Zenon

(* Either way the pages remain the walk of the row.                         *)
LEMMA PageEndsStream ==
  ASSUME DOMAIN acq = AcquisitionFields, DOMAIN acq.got = Streams, acq.at = "fetching",
         NEW page, EndsWith(page)
  PROVE  /\ DOMAIN acq' = AcquisitionFields /\ DOMAIN acq'.got = Streams
         /\ \A row : /\ row.index \in Nat /\ Acquiring(row, acq)
                     /\ row.kind = "full" => row.index = 1 /\ row.cursor = NULL
                     /\ page.index = acq.index /\ page.request = acq.cursor
                     => Acquiring(row, acq')
<1> DEFINE pages == Append(acq.pages, page)
           rest == Tail(acq.todo)
<1>1. /\ DOMAIN acq' = AcquisitionFields /\ DOMAIN acq'.got = Streams
      /\ acq'.todo = rest /\ acq'.pages = <<>>
      /\ \A s \in Streams : \/ acq'.got[s] = acq.got[s]
                            \/ s = CurrentStream /\ acq'.got[s].pages = pages
      /\ IF rest = <<>> THEN acq'.at = "done"
         ELSE acq'.at = "fetching" /\ acq'.cursor = NULL /\ acq'.index = 1
  <2>1. PICK completion, termination, cursor, accepted :
          StreamEnds(completion, termination, pages, cursor, accepted)
    BY DEF EndsWith
  <2> DEFINE evidence == [completion |-> completion, termination |-> termination, pages |-> pages,
                          cursor |-> cursor, accepted |-> accepted]
  <2>2. evidence.pages = pages
    OBVIOUS
  <2> HIDE DEF pages
  <2>3. \A s \in Streams : acq'.got[s] = IF s # CurrentStream THEN acq.got[s] ELSE evidence
    BY <2>1, StreamEndsEffect
  <2>4. /\ DOMAIN acq' = AcquisitionFields /\ DOMAIN acq'.got = Streams
        /\ acq'.todo = rest /\ acq'.pages = <<>>
        /\ IF rest = <<>> THEN acq'.at = "done"
           ELSE acq'.at = "fetching" /\ acq'.cursor = NULL /\ acq'.index = 1
    BY <2>1, StreamEndsEffect
  <2> HIDE DEF evidence, rest
  <2>5. QED
    BY <2>2, <2>3, <2>4
<1>2. ASSUME NEW row, row.index \in Nat, Acquiring(row, acq),
             row.kind = "full" => row.index = 1 /\ row.cursor = NULL,
             page.index = acq.index, page.request = acq.cursor
      PROVE  Acquiring(row, acq')
  <2>1. IsSeq(pages) /\ Uninterrupted(pages) /\ Walks(pages, row.index, row.cursor)
    BY <1>2, PageFollows
  <2>2. /\ IsSeq(acq.todo) /\ acq.todo # <<>>
        /\ row.kind # "full" => acq.todo = <<row.stream>>
        /\ \A s \in Streams : acq.got[s] # NULL => Walked(row, s, acq.got[s])
    BY <1>2 DEF Acquiring
  <2> HIDE DEF pages, rest
  <2>3. row.kind # "full" => CurrentStream = row.stream /\ rest = <<>>
    <3>1. Tail(<<row.stream>>) = <<>> /\ <<row.stream>>[1] = row.stream
      OBVIOUS
    <3>2. QED
      BY <3>1, <2>2, Zenon DEF CurrentStream, rest
  <2>4. \A s \in Streams : acq'.got[s] # NULL => Walked(row, s, acq'.got[s])
    <3> TAKE s \in Streams
    <3>1. CASE acq'.got[s] = acq.got[s]
      BY <3>1, <2>2
    <3>2. CASE s = CurrentStream /\ acq'.got[s].pages = pages
      BY <3>2, <2>1, <2>3 DEF Walked
    <3>3. QED
      BY <3>1, <3>2, <1>1
  <2>5. CASE rest = <<>>
    BY <2>4, <2>5, <1>1 DEF Acquiring
  <2>6. CASE rest # <<>>
    <3>1. row.index = 1 /\ row.cursor = NULL /\ row.kind = "full"
      BY <2>3, <2>6, <1>2
    <3>2. IsSeq(rest)
      <4>1. PICK S : acq.todo \in Seq(S)
        BY <2>2 DEF IsSeq
      <4>2. rest \in Seq(S)
        BY <4>1, <2>2 DEF rest
      <4>3. QED
        BY <4>2, SeqIsSeq
    <3>3. IsSeq(<<>>) /\ Len(<<>>) = 0 /\ Walks(<<>>, row.index, row.cursor)
      BY DEF IsSeq, Walks
    <3>4. acq'.index = row.index + Len(<<>>) /\ acq'.cursor = row.cursor
      BY <3>1, <3>3, <1>1, <2>6
    <3>5. QED
      BY <2>4, <2>6, <3>1, <3>2, <3>3, <3>4, <1>1 DEF Acquiring
  <2>7. QED
    BY <2>5, <2>6
<1>3. QED
  BY <1>1, <1>2

LEMMA PageGoesOn ==
  ASSUME DOMAIN acq = AcquisitionFields, DOMAIN acq.got = Streams, acq.at = "fetching",
         NEW page, GoesOnWith(page), page.index = acq.index, page.request = acq.cursor,
         NEW row, row.index \in Nat, Acquiring(row, acq)
  PROVE  Acquiring(row, acq')
<1> DEFINE pages == Append(acq.pages, page)
           N == Len(acq.pages)
<1>1. /\ page.ok /\ acq'.at = "fetching" /\ acq'.todo = acq.todo /\ acq'.got = acq.got
      /\ acq'.pages = pages /\ acq'.cursor = page.response /\ acq'.index = acq.index + 1
  BY DEF GoesOnWith
<1>2. /\ IsSeq(pages) /\ Walks(pages, row.index, row.cursor)
      /\ Len(pages) = N + 1 /\ pages # <<>> /\ pages[N + 1] = page
      /\ \A i \in 1..N : pages[i] = acq.pages[i]
  BY PageFollows
<1>3. /\ IsSeq(acq.pages) /\ \A i \in 1..N : acq.pages[i].ok
      /\ acq.index = row.index + N
      /\ IsSeq(acq.todo) /\ acq.todo # <<>> /\ (row.kind # "full" => acq.todo = <<row.stream>>)
      /\ \A s \in Streams : acq.got[s] # NULL => Walked(row, s, acq.got[s])
  BY DEF Acquiring
<1>4. N \in Nat
  BY <1>3 DEF IsSeq
<1> HIDE DEF pages, N
<1>5. \A i \in 1..Len(pages) : pages[i].ok
  <2> TAKE i \in 1..Len(pages)
  <2>1. i \in 1..N \/ i = N + 1
    BY <1>2, <1>4
  <2>2. CASE i \in 1..N
    BY <2>2, <1>2, <1>3, Zenon
  <2>3. CASE i = N + 1
    BY <2>3, <1>1, <1>2, Zenon
  <2>4. QED
    BY <2>1, <2>2, <2>3
<1>6. acq'.index = row.index + Len(pages) /\ acq'.cursor = pages[Len(pages)].response
  BY <1>1, <1>2, <1>3, <1>4
<1>7. QED
  BY <1>1, <1>2, <1>3, <1>5, <1>6 DEF Acquiring

-----------------------------------------------------------------------------
(* Every step keeps the invariant.                                          *)

LEMMA WalkInit == Init => WalkInv
<1> SUFFICES ASSUME Init PROVE WalkInv
  OBVIOUS
<1>1. syncs = <<>> /\ acq = Idle /\ handler = [h \in Handlers |-> NoHandler]
  BY DEF Init
<1>2. Sound(syncs) /\ Ids = {}
  <2>1. IsSeq(<<>>) /\ Len(<<>>) = 0 /\ 1..0 = {}
    BY DEF IsSeq
  <2>2. QED
    BY <1>1, <2>1 DEF Sound, Ids
<1>3. DOMAIN acq = AcquisitionFields /\ DOMAIN acq.got = Streams
  BY <1>1 DEF Idle, AcquisitionFields
<1>4. Prepared(NoHandler, syncs)
  BY DEF Prepared, NoHandler, HandlerFields
<1>5. QED
  BY <1>1, <1>2, <1>3, <1>4 DEF WalkInv, RunsHold

(* A request reads, and goes on with what it has read.                      *)
LEMMA RequestGoesOn ==
  ASSUME WalkInv, UNCHANGED <<syncs, acq>>, NEW h \in Handlers, NEW r, Goes(h, r), Prepared(r, syncs)
  PROVE  WalkInv'
<1>1. DOMAIN handler = Handlers /\ \A g \in Handlers : Prepared(handler[g], syncs)
  BY DEF WalkInv
<1>2. handler' = [handler EXCEPT ![h] = r]
  BY DEF Goes
<1>3. DOMAIN handler' = Handlers /\ \A g \in Handlers : Prepared(handler'[g], syncs)
  BY <1>1, <1>2
<1>4. Ids' = Ids
  BY DEF Ids
<1>5. QED
  BY <1>3, <1>4 DEF WalkInv, RunsHold

LEMMA IdleIsPrepared ==
  ASSUME NEW rows
  PROVE  Prepared(NoHandler, rows)
BY DEF Prepared, NoHandler, HandlerFields

(* A request that is posted has read nothing yet.                           *)
LEMMA PostStep ==
  ASSUME WalkInv, NEW h \in Handlers, Post(h)
  PROVE  WalkInv'
<1>1. UNCHANGED <<syncs, acq>>
  BY DEF Post, BeginSync, BeginResume, BeginPlanResume, BeginShow, BeginSchedule, OnlyReads, acquisitionVars
<1>2. CASE BeginSync(h)
  <2> DEFINE r == [NoHandler EXCEPT !.at = "insert", !.does = "full"]
  <2>1. Prepared(r, syncs)
    BY DEF Prepared, NoHandler, HandlerFields
  <2>2. Goes(h, r)
    BY <1>2 DEF BeginSync
  <2>3. QED
    BY <1>1, <2>1, <2>2, RequestGoesOn
<1>3. ASSUME NEW s \in Streams, BeginResume(h, s)
      PROVE  WalkInv'
  <2> DEFINE r == [NoHandler EXCEPT !.at = "tip", !.does = "resume", !.stream = s,
                                    !.source = screen.tips[s]]
  <2>1. Goes(h, r) /\ screen.tips[s] # 0
    BY <1>3 DEF BeginResume
  <2>2. Prepared(r, syncs)
    BY <2>1 DEF Prepared, NoHandler, HandlerFields
  <2>3. QED
    BY <1>1, <2>1, <2>2, RequestGoesOn
<1>4. ASSUME NEW s \in Streams, BeginPlanResume(h, s)
      PROVE  WalkInv'
  <2> DEFINE r == [NoHandler EXCEPT !.at = "recheck", !.does = "plan", !.stream = s,
                                    !.doc = [screen EXCEPT !.active = 0], !.source = screen.tips[s]]
  <2>1. Goes(h, r)
    BY <1>4 DEF BeginPlanResume
  <2>2. Prepared(r, syncs)
    BY DEF Prepared, NoHandler, HandlerFields
  <2>3. QED
    BY <1>1, <2>1, <2>2, RequestGoesOn
<1>5. ASSUME NEW b \in Budgets, BeginShow(h, b)
      PROVE  WalkInv'
  <2> DEFINE r == [NoHandler EXCEPT !.at = "plan", !.does = "show", !.budget = b, !.tips = CurrentTips]
  <2>1. Goes(h, r)
    BY <1>5 DEF BeginShow
  <2>2. Prepared(r, syncs)
    BY DEF Prepared, NoHandler, HandlerFields
  <2>3. QED
    BY <1>1, <2>1, <2>2, RequestGoesOn
<1>6. CASE BeginSchedule(h)
  <2> DEFINE r == [NoHandler EXCEPT !.at = "plan", !.does = "schedule", !.doc = screen,
                                    !.budget = screen.budget, !.tips = CurrentTips]
  <2>1. Goes(h, r)
    BY <1>6 DEF BeginSchedule
  <2>2. Prepared(r, syncs)
    BY DEF Prepared, NoHandler, HandlerFields
  <2>3. QED
    BY <1>1, <2>1, <2>2, RequestGoesOn
<1>7. QED
  BY <1>2, <1>3, <1>4, <1>5, <1>6 DEF Post

(* A check that fails answers; one that holds makes the next read.          *)
LEMMA ReadStep ==
  ASSUME WalkInv, NEW h \in Handlers, ReadPlan(h) \/ ReadActive(h) \/ RecheckPlan(h) \/ CheckTip(h)
  PROVE  WalkInv'
<1>1. UNCHANGED <<syncs, acq>>
  BY DEF ReadPlan, ReadActive, RecheckPlan, CheckTip, OnlyReads, acquisitionVars
<1>2. Prepared(handler[h], syncs) /\ DOMAIN handler[h] = HandlerFields
  BY DEF WalkInv, Prepared
<1>3. CASE Answered(h)
  BY <1>1, <1>3, IdleIsPrepared, RequestGoesOn DEF Answered
<1>4. CASE ReadPlan(h) /\ ~ Answered(h)
  <2> DEFINE r == [handler[h] EXCEPT !.at = "active"]
  <2>1. Goes(h, r) /\ handler[h].at = "plan"
    BY <1>4 DEF ReadPlan
  <2>2. Prepared(r, syncs)
    BY <1>2, <2>1 DEF Prepared, HandlerFields
  <2>3. QED
    BY <1>1, <2>1, <2>2, RequestGoesOn
<1>5. CASE ReadActive(h) /\ ~ Answered(h)
  <2> DEFINE here == [tips |-> handler[h].tips, active |-> ActiveSync, budget |-> handler[h].budget]
             r == [handler[h] EXCEPT !.at = "recheck", !.tips = NULL,
                                     !.stream = Selection(here.tips),
                                     !.source = here.tips[Selection(here.tips)]]
  <2>1. Goes(h, r) /\ handler[h].at = "active" /\ handler[h].does # "show"
    BY <1>5, Zenon DEF ReadActive
  <2> HIDE DEF here
  <2>2. Prepared(r, syncs)
    BY <1>2, <2>1 DEF Prepared, HandlerFields
  <2>3. QED
    BY <1>1, <2>1, <2>2, RequestGoesOn
<1>6. CASE RecheckPlan(h) /\ ~ Answered(h)
  <2> DEFINE r == [handler[h] EXCEPT !.at = "tip"]
  <2>1. /\ Goes(h, r) /\ handler[h].at = "recheck"
        /\ handler[h].stream \in InState(CurrentTips, "ready")
        /\ CurrentTips[handler[h].stream] = handler[h].source
    BY <1>6 DEF RecheckPlan
  <2>2. handler[h].stream \in Streams /\ handler[h].source # 0
    BY <2>1 DEF InState, Present
  <2>3. Prepared(r, syncs)
    BY <1>2, <2>1, <2>2 DEF Prepared, HandlerFields
  <2>4. QED
    BY <1>1, <2>1, <2>3, RequestGoesOn
<1>7. CASE CheckTip(h) /\ ~ Answered(h)
  <2> DEFINE r == [handler[h] EXCEPT !.at = "insert"]
  <2>1. /\ Goes(h, r) /\ handler[h].at = "tip"
        /\ CurrentTips[handler[h].stream] = handler[h].source
    BY <1>7 DEF CheckTip
  <2>2. handler[h].stream \in Streams /\ handler[h].source # 0
    BY <1>2, <2>1 DEF Prepared
  <2>3. handler[h].source \in 1..Len(syncs)
    <3>1. Len(syncs) \in Nat
      BY SoundRows DEF WalkInv
    <3>2. CurrentTips[handler[h].stream] \in 0..Len(syncs)
      BY <3>1, <2>2, TipIsNewest
    <3>3. QED
      BY <3>1, <3>2, <2>1, <2>2
  <2>4. Prepared(r, syncs)
    BY <1>2, <2>1, <2>2, <2>3 DEF Prepared, HandlerFields
  <2>5. QED
    BY <1>1, <2>1, <2>4, RequestGoesOn
<1>8. QED
  BY <1>3, <1>4, <1>5, <1>6, <1>7

LEMMA MoreRowsKeepRequests ==
  ASSUME WalkInv, NEW h \in Handlers, Answered(h), Len(syncs) \in Nat, Len(syncs') \in Nat,
         Len(syncs) <= Len(syncs')
  PROVE  DOMAIN handler' = Handlers /\ \A g \in Handlers : Prepared(handler'[g], syncs')
<1>1. DOMAIN handler = Handlers /\ \A g \in Handlers : Prepared(handler[g], syncs)
  BY DEF WalkInv
<1>2. handler' = [handler EXCEPT ![h] = NoHandler]
  BY DEF Answered, Goes
<1>3. \A g \in Handlers : Prepared(handler[g], syncs')
  BY <1>1 DEF Prepared
<1>4. QED
  BY <1>1, <1>2, <1>3, IdleIsPrepared

(* An insert adds a queued row where no other is active.                    *)
LEMMA InsertStep ==
  ASSUME WalkInv, NEW h \in Handlers, Insert(h)
  PROVE  WalkInv'
<1> DEFINE row == NewSync(handler[h])
<1>1. handler[h].at = "insert" /\ Answered(h) /\ UNCHANGED acq
  BY DEF Insert, acquisitionVars
<1>2. Len(syncs) \in Nat
  BY SoundRows DEF WalkInv
<1>3. CASE UNCHANGED syncs
  BY <1>1, <1>2, <1>3, MoreRowsKeepRequests DEF WalkInv, RunsHold, Ids
<1>4. CASE Active = {} /\ syncs' = Append(syncs, row)
  <2>1. /\ DOMAIN row = RowFields /\ row.state = "queued" /\ row.out = NoOutput
        /\ row.kind = handler[h].does /\ row.stream = handler[h].stream
        /\ row.source = handler[h].source
        /\ handler[h].source = 0 => row.index = 1 /\ row.cursor = NULL
    BY DEF NewSync, RowFields
  <2>2. \/ handler[h].does = "full" /\ handler[h].source = 0
        \/ /\ handler[h].does \in {"resume", "plan", "schedule"} /\ handler[h].stream \in Streams
           /\ handler[h].source \in 1..Len(syncs)
    BY <1>1 DEF WalkInv, Prepared
  <2> HIDE DEF row
  <2>3. /\ row.kind = "full" => row.index = 1 /\ row.cursor = NULL
        /\ row.kind # "full" => row.stream \in Streams /\ row.source \in 1..Len(syncs)
    BY <2>1, <2>2
  <2>4. \A m \in 1..Len(syncs) : syncs[m].state \notin {"queued", "running"}
    BY <1>4 DEF Active, Ids
  <2>5. Sound(syncs) /\ IsSeq(syncs)
    BY DEF WalkInv, Sound
  <2>6. Sound(Append(syncs, row))
    BY <2>1, <2>3, <2>4, <2>5, RowIsAdded
  <2>7. /\ Len(syncs') = Len(syncs) + 1 /\ syncs'[Len(syncs) + 1] = row
        /\ \A m \in 1..Len(syncs) : syncs'[m] = syncs[m]
    <3>1. PICK S : syncs \in Seq(S)
      BY <2>5 DEF IsSeq
    <3>2. QED
      BY <3>1, <1>4
  <2>8. RunsHold'
    <3>1. \A n \in Ids' : n \in 1..Len(syncs) \/ n = Len(syncs) + 1
      BY <2>7, <1>2 DEF Ids
    <3>2. \A n \in Ids' : syncs'[n].state # "running"
      BY <3>1, <2>1, <2>4, <2>7
    <3>3. QED
      BY <3>2 DEF RunsHold
  <2>9. DOMAIN handler' = Handlers /\ \A g \in Handlers : Prepared(handler'[g], syncs')
    BY <1>1, <1>2, <2>7, MoreRowsKeepRequests
  <2>10. QED
    BY <1>1, <1>4, <2>6, <2>8, <2>9 DEF WalkInv
<1>5. QED
  BY <1>3, <1>4 DEF Insert

(* A step of the worker or a cancellation changes the one active row.       *)
LEMMA JobStep ==
  ASSUME WalkInv, NEW n \in Ids, syncs[n].state \in {"queued", "running"},
         NEW row, syncs' = [syncs EXCEPT ![n] = row], UNCHANGED handler,
         SamePosition(row, syncs[n]), DOMAIN row = RowFields, DOMAIN row.out = Streams,
         Started(row) => syncs[n].index \in Nat /\ Continues(syncs, n),
         \A s \in Streams : row.out[s] # NULL => Walked(syncs[n], s, row.out[s]),
         DOMAIN acq' = AcquisitionFields, DOMAIN acq'.got = Streams,
         row.state = "running" => Acquiring(syncs[n], acq')
  PROVE  WalkInv'
<1>1. Sound(syncs) /\ IsSeq(syncs) /\ Len(syncs) \in Nat
  BY SoundRows DEF WalkInv, Sound
<1>2. n = Len(syncs) /\ n # 0
  BY <1>1 DEF Sound, Ids
<1>3. IsSeq(syncs') /\ Len(syncs') = Len(syncs)
  <2>1. PICK S : syncs \in Seq(S)
    BY <1>1 DEF IsSeq
  <2> DEFINE N == Len(syncs)
             T == S \cup {row}
  <2>2. syncs \in [1..N -> T] /\ row \in T /\ N \in Nat
    BY <1>1, <2>1
  <2> HIDE DEF N, T
  <2>3. syncs' \in [1..N -> T]
    BY <2>2
  <2>4. syncs' \in Seq(T) /\ Len(syncs') = N
    BY <2>2, <2>3
  <2>5. QED
    BY <2>4, SeqIsSeq DEF N
<1>4. syncs'[n] = row /\ \A m \in 1..n - 1 : syncs'[m] = syncs[m]
  <2>1. PICK S : syncs \in Seq(S)
    BY <1>1 DEF IsSeq
  <2>2. \A m \in 1..n - 1 : m \in 1..Len(syncs) /\ m # n
    BY <1>1, <1>2
  <2>3. QED
    BY <2>1, <2>2 DEF Ids
<1>5. Sound(syncs')
  <2>1. /\ SamePosition(syncs'[n], syncs[n])
        /\ DOMAIN syncs'[n] = RowFields /\ DOMAIN syncs'[n].out = Streams
        /\ Started(syncs'[n]) => syncs[n].index \in Nat /\ Continues(syncs, n)
        /\ \A s \in Streams : syncs'[n].out[s] # NULL => Walked(syncs[n], s, syncs'[n].out[s])
    BY <1>4, Zenon
  <2>2. QED
    BY <1>1, <1>2, <1>3, <1>4, <2>1, NewestRowChanges, ZenonT(40)
<1>6. RunsHold'
  <2>1. \A m \in Ids' : syncs'[m].state = "running" => m = n
    BY <1>2, <1>3, <1>5 DEF Sound, Ids
  <2>2. Acquiring(row, acq') \/ row.state # "running"
    <3>1. row.state = "running" => Acquiring(syncs[n], acq')
      OBVIOUS
    <3>2. \A s, e : Walked(syncs[n], s, e) => Walked(row, s, e)
      BY DEF SamePosition, Walked
    <3>3. QED
      BY <3>1, <3>2 DEF Acquiring, SamePosition
  <2>3. QED
    BY <1>4, <2>1, <2>2 DEF RunsHold
<1>7. DOMAIN handler' = Handlers /\ \A g \in Handlers : Prepared(handler'[g], syncs')
  BY <1>3 DEF WalkInv, Prepared
<1>8. QED
  BY <1>5, <1>6, <1>7, Zenon DEF WalkInv

LEMMA IdleAcquisition ==
  ASSUME acq' = Idle
  PROVE  DOMAIN acq' = AcquisitionFields /\ DOMAIN acq'.got = Streams
BY DEF Idle, AcquisitionFields

(* A job that stops or waits again has changed its state alone.             *)
LEMMA JobStops ==
  ASSUME WalkInv, NEW n \in Ids, syncs[n].state \in {"queued", "running"},
         NEW state, state # "running", Becomes(n, state), UNCHANGED handler,
         DOMAIN acq' = AcquisitionFields, DOMAIN acq'.got = Streams
  PROVE  WalkInv'
<1> DEFINE row == [syncs[n] EXCEPT !.state = state]
<1>1. /\ DOMAIN syncs[n] = RowFields /\ DOMAIN syncs[n].out = Streams
      /\ Started(syncs[n]) => syncs[n].index \in Nat /\ Continues(syncs, n)
      /\ \A s \in Streams : syncs[n].out[s] # NULL => Walked(syncs[n], s, syncs[n].out[s])
  BY DEF WalkInv, Sound, Ids
<1>2. syncs' = [syncs EXCEPT ![n] = row]
  BY DEF Becomes
<1>3. /\ DOMAIN row = RowFields /\ SamePosition(row, syncs[n]) /\ row.out = syncs[n].out
      /\ row.state = state
  BY <1>1 DEF RowFields, SamePosition
<1> HIDE DEF row
<1>4. Started(row) => Started(syncs[n])
  BY <1>3 DEF Started
<1>5. QED
  BY <1>1, <1>2, <1>3, <1>4, JobStep

LEMMA CancelStep ==
  ASSUME WalkInv, NEW n \in Ids, Cancel(n)
  PROVE  WalkInv'
BY IdleAcquisition, JobStops DEF Cancel, Active

LEMMA CrashStep ==
  ASSUME WalkInv, NEW n \in Ids, Crash(n)
  PROVE  WalkInv'
<1>1. \E state \in {"queued", "failed"} : Becomes(n, state)
  BY DEF Crash
<1>2. QED
  BY <1>1, IdleAcquisition, JobStops DEF Crash

(* What the worker validates is that the job still continues the tip.       *)
LEMMA ResumeContinues ==
  ASSUME WalkInv, NEW n \in Ids, syncs[n].state = "queued", syncs[n].kind # "full", ResumeHolds(n)
  PROVE  syncs[n].index \in Nat /\ Continues(syncs, n)
<1> DEFINE k == syncs[n].source
           s == syncs[n].stream
<1>1. Sound(syncs) /\ Len(syncs) \in Nat
  BY SoundRows DEF WalkInv
<1>2. n = Len(syncs) /\ s \in Streams /\ k \in 1..n - 1 /\ k \in Ids
  BY <1>1 DEF Sound, Ids
<1>3. /\ CurrentTips[s] = k /\ StateOf(k, s) = "ready"
      /\ Checkpoint(k, s).cursor = syncs[n].cursor
      /\ ContinuationIndex(Checkpoint(k, s)) = syncs[n].index
  BY Zenon DEF ResumeHolds
<1> HIDE DEF k, s
<1>4. syncs[k].out[s] # NULL /\ \A m \in k + 1..Len(syncs) : syncs[m].out[s] = NULL
  BY <1>1, <1>2, <1>3, TipIsNewest
<1>5. k \in Published(s)
  BY <1>2, <1>4 DEF Published
<1>6. syncs[k].index \in Nat /\ Walked(syncs[k], s, Checkpoint(k, s))
  BY <1>1, <1>2, <1>5, OwnPages
<1>7. syncs[n].index \in Nat
  <2>1. ResumeState(Checkpoint(k, s)) = "ready"
    BY <1>3 DEF StateOf
  <2>2. /\ Len(GoodPages(Checkpoint(k, s))) \in Nat \ {0}
        /\ ContinuationIndex(Checkpoint(k, s)) = syncs[k].index + Len(GoodPages(Checkpoint(k, s)))
    BY <1>6, <2>1, ReadyGoesOn
  <2>3. QED
    BY <2>2, <1>3, <1>6
<1>8. Continues(syncs, n)
  <2>1. \A m \in k + 1..n - 1 : syncs[m].out[s] = NULL
    <3> TAKE m \in k + 1..n - 1
    <3>1. m \in k + 1..Len(syncs)
      BY <1>1, <1>2
    <3>2. QED
      BY <3>1, <1>4
  <2>2. /\ syncs[k].out[s] # NULL /\ ResumeState(syncs[k].out[s]) = "ready"
        /\ syncs[n].cursor = syncs[k].out[s].cursor
        /\ syncs[n].index = ContinuationIndex(syncs[k].out[s])
    BY <1>3, <1>4 DEF StateOf, Checkpoint
  <2>3. QED
    BY <2>1, <2>2, Zenon DEF Continues, k, s
<1>9. QED
  BY <1>7, <1>8

(* A claimed job starts at its stored position, which still continues the   *)
(* tip.                                                                     *)
LEMMA ClaimStep ==
  ASSUME WalkInv, NEW n \in Ids, Claim(n)
  PROVE  WalkInv'
<1>1. syncs[n].state = "queued" /\ UNCHANGED handler
  BY DEF Claim
<1>2. /\ DOMAIN acq = AcquisitionFields /\ DOMAIN acq.got = Streams
      /\ DOMAIN syncs[n] = RowFields /\ DOMAIN syncs[n].out = Streams
      /\ \A s \in Streams : syncs[n].out[s] # NULL => Walked(syncs[n], s, syncs[n].out[s])
      /\ syncs[n].kind = "full" => syncs[n].index = 1 /\ syncs[n].cursor = NULL
  BY DEF WalkInv, Sound, Ids
<1>3. ASSUME Becomes(n, "running"), syncs[n].index \in Nat, Continues(syncs, n),
             NEW streams, NEW cap, NEW snapshot,
             acq' = Requested(streams, syncs[n].cursor, syncs[n].index, cap, snapshot),
             IsSeq(streams), streams # <<>>, syncs[n].kind # "full" => streams = <<syncs[n].stream>>
      PROVE  WalkInv'
  <2> DEFINE row == [syncs[n] EXCEPT !.state = "running"]
  <2>1. syncs' = [syncs EXCEPT ![n] = row]
    BY <1>3 DEF Becomes
  <2>2. DOMAIN row = RowFields /\ SamePosition(row, syncs[n]) /\ row.out = syncs[n].out
    BY <1>2 DEF RowFields, SamePosition
  <2>3. Acquiring(syncs[n], acq') /\ DOMAIN acq' = AcquisitionFields /\ DOMAIN acq'.got = Streams
    BY <1>2, <1>3, RequestAcquires
  <2> HIDE DEF row
  <2>4. QED
    BY <1>1, <1>2, <1>3, <2>1, <2>2, <2>3, JobStep
<1>4. CASE syncs[n].kind = "full" /\ Becomes(n, "running")
  <2>1. PICK snapshot : acq' = Requested(FullSync, NULL, 1, PageCap, snapshot)
    BY <1>4 DEF Claim
  <2>2. IsSeq(FullSync) /\ FullSync # <<>>
    BY DEF FullSync, IsSeq
  <2>3. syncs[n].index \in Nat /\ Continues(syncs, n)
    BY <1>2, <1>4 DEF Continues
  <2>4. acq' = Requested(FullSync, syncs[n].cursor, syncs[n].index, PageCap, snapshot)
    BY <1>2, <1>4, <2>1
  <2>5. QED
    BY <1>3, <1>4, <2>2, <2>3, <2>4
<1>5. CASE syncs[n].kind # "full" /\ ResumeHolds(n) /\ Becomes(n, "running")
  <2> DEFINE streams == <<syncs[n].stream>>
  <2>1. acq' = Requested(streams, syncs[n].cursor, syncs[n].index, Cap(syncs[n]), "none")
    BY <1>5 DEF Claim
  <2>2. IsSeq(streams) /\ streams # <<>>
    BY DEF IsSeq
  <2>3. syncs[n].index \in Nat /\ Continues(syncs, n)
    BY <1>1, <1>5, ResumeContinues
  <2>4. QED
    BY <1>3, <1>5, <2>1, <2>2, <2>3
<1>6. CASE Becomes(n, "failed") /\ UNCHANGED acq
  BY <1>1, <1>2, <1>6, JobStops
<1>7. QED
  BY <1>4, <1>5, <1>6 DEF Claim

(* A finished run waits again, or publishes what it acquired.               *)
LEMMA PublishStep ==
  ASSUME WalkInv, NEW n \in Ids, Publish(n)
  PROVE  WalkInv'
<1>1. syncs[n].state = "running" /\ UNCHANGED handler /\ acq' = Idle
  BY DEF Publish
<1>2. CASE Becomes(n, "queued")
  BY <1>1, <1>2, IdleAcquisition, JobStops
<1>3. CASE ~ Becomes(n, "queued")
  <2> DEFINE result == CASE RunStatus = "error" -> "failed"
                         [] RunStatus = "partial" -> "partial"
                         [] RunStatus = "success" -> "succeeded"
             row == [syncs[n] EXCEPT !.out = acq.got, !.state = result]
  <2>1. syncs' = [syncs EXCEPT ![n].out = acq.got, ![n].state = result]
    BY <1>3 DEF Publish
  <2>2. result # "running"
    BY DEF RunStatus
  <2>3. /\ DOMAIN syncs[n] = RowFields /\ DOMAIN acq.got = Streams /\ Acquiring(syncs[n], acq)
        /\ syncs[n].index \in Nat /\ Continues(syncs, n)
    <3>1. n \in 1..Len(syncs) /\ Started(syncs[n])
      BY <1>1 DEF Ids, Started
    <3>2. QED
      BY <1>1, <3>1 DEF WalkInv, Sound, RunsHold
  <2> HIDE DEF result
  <2>4. syncs' = [syncs EXCEPT ![n] = row]
    BY <2>1
  <2>5. DOMAIN row = RowFields /\ SamePosition(row, syncs[n]) /\ row.out = acq.got /\ row.state = result
    BY <2>3 DEF RowFields, SamePosition
  <2>6. \A s \in Streams : acq.got[s] # NULL => Walked(syncs[n], s, acq.got[s])
    BY <2>3 DEF Acquiring
  <2> HIDE DEF row
  <2>7. DOMAIN acq' = AcquisitionFields /\ DOMAIN acq'.got = Streams
    BY <1>1, IdleAcquisition
  <2>8. QED
    BY <1>1, <2>2, <2>3, <2>4, <2>5, <2>6, <2>7, JobStep
<1>4. QED
  BY <1>2, <1>3

LEMMA AcquiresStep ==
  ASSUME WalkInv, Acquires
  PROVE  WalkInv'
<1>1. UNCHANGED <<syncs, handler>> /\ (FetchPage \/ EventSettles)
  BY DEF Acquires
<1>2. DOMAIN acq = AcquisitionFields /\ DOMAIN acq.got = Streams
  BY DEF WalkInv
<1>3. \A n \in Ids : syncs[n].state = "running" =>
        /\ Acquiring(syncs[n], acq) /\ syncs[n].index \in Nat
        /\ syncs[n].kind = "full" => syncs[n].index = 1 /\ syncs[n].cursor = NULL
  BY DEF WalkInv, RunsHold, Sound, Ids, Started
<1>4. Ids' = Ids
  BY <1>1 DEF Ids
<1>5. CASE EventSettles
  BY <1>1, <1>4, <1>5 DEF EventSettles, WalkInv, RunsHold
<1>6. CASE FetchPage
  <2>1. acq.at = "fetching"
    BY <1>6 DEF FetchPage
  <2>2. PICK page : /\ page.index = acq.index /\ page.request = acq.cursor
                    /\ EndsWith(page) \/ GoesOnWith(page)
    BY <1>2, <1>6, FetchedPage
  <2>3. /\ DOMAIN acq' = AcquisitionFields /\ DOMAIN acq'.got = Streams
        /\ \A n \in Ids : syncs[n].state = "running" => Acquiring(syncs[n], acq')
    <3>1. CASE EndsWith(page)
      BY <1>2, <1>3, <2>1, <2>2, <3>1, PageEndsStream
    <3>2. CASE GoesOnWith(page)
      <4>1. DOMAIN acq' = AcquisitionFields /\ DOMAIN acq'.got = Streams
        BY <1>2, <3>2 DEF GoesOnWith
      <4>2. QED
        BY <1>2, <1>3, <2>1, <2>2, <3>2, <4>1, PageGoesOn
    <3>3. QED
      BY <2>2, <3>1, <3>2
  <2>4. QED
    BY <1>1, <1>4, <2>3 DEF WalkInv, RunsHold
<1>7. QED
  BY <1>1, <1>5, <1>6

LEMMA WalkStep == WalkInv /\ [Next]_vars => WalkInv'
<1> SUFFICES ASSUME WalkInv, [Next]_vars PROVE WalkInv'
  OBVIOUS
<1>1. ASSUME NEW h \in Handlers, Post(h) \/ RequestStep(h)
      PROVE  WalkInv'
  BY <1>1, PostStep, ReadStep, InsertStep DEF RequestStep
<1>2. ASSUME NEW n \in Ids, Cancel(n) \/ Claim(n) \/ Publish(n) \/ Crash(n)
      PROVE  WalkInv'
  BY <1>2, CancelStep, ClaimStep, PublishStep, CrashStep
<1>3. CASE Acquires
  BY <1>3, AcquiresStep
<1>4. CASE UNCHANGED vars
  BY <1>4 DEF vars, WalkInv, RunsHold, Ids
<1>5. QED
  BY <1>1, <1>2, <1>3, <1>4 DEF Next

(* No checkpoint is continued twice, and along every chain the successful   *)
(* pages count 1, 2, 3, ... and each starts at the cursor the page before   *)
(* it returned: a request may decide on an older tip and a job may wait in  *)
(* the queue, but the worker validates the stored position against the      *)
(* newest checkpoint of its stream when it claims, and while it runs no     *)
(* other job is active (_validate_resume_checkpoint, _resume_position and   *)
(* the unique index of active jobs).                                        *)
THEOREM ChainStaysOneWalk == Spec => []ChainIsOneWalk
<1>1. WalkInv => ChainIsOneWalk
  BY WalksAreSingle DEF WalkInv
<1>2. QED
  BY <1>1, WalkInit, WalkStep, PTL DEF Spec

-----------------------------------------------------------------------------
(* Complete chains.  The rows of the transaction stream that a walk from    *)
(* one cursor to another passes, and those of them it accepts.              *)

Older(lt, cursor) == cursor = NULL \/ lt < cursor
Between(from, to) == {lt \in Lts : Older(lt, from) /\ ~ Older(lt, to)}
Inside(rows) == {lt \in rows : InInterval(lt)}

(* Evidence that is complete has everything below the position of its row,  *)
(* evidence that may be resumed everything down to its cursor.              *)
Swept(row, evidence) ==
  /\ evidence.completion = "complete" => evidence.accepted = Inside({lt \in Lts : Older(lt, row.cursor)})
  /\ ResumeState(evidence) = "ready" =>
       /\ evidence.cursor \in Lts /\ Older(evidence.cursor, row.cursor)
       /\ evidence.accepted = Inside(Between(row.cursor, evidence.cursor))
Sweeping(row, a) ==
  /\ a.got["transactions"] # NULL => Swept(row, a.got["transactions"])
  /\ a.at = "fetching" /\ a.todo[1] = "transactions" =>
       /\ \/ a.pages = <<>> /\ a.cursor = row.cursor
          \/ a.cursor \in Lts /\ Older(a.cursor, row.cursor)
       /\ a.seen = Between(row.cursor, a.cursor)
       /\ a.accepted = Inside(a.seen)

SweepInv ==
  "transactions" \in Streams =>
    /\ ledger = [s \in Streams |-> Lts]
    /\ \A n \in Ids :
         /\ syncs[n].out["transactions"] # NULL => Swept(syncs[n], syncs[n].out["transactions"])
         /\ syncs[n].state = "running" => Sweeping(syncs[n], acq)

(* In a finite set of numbers, to be the k-th newest is to be one of them.  *)
LEMMA RanksAreTaken ==
  ASSUME NEW S, S \subseteq Nat, IsFiniteSet(S)
  PROVE  /\ Cardinality(S) \in Nat
         /\ \A x \in S : Cardinality({y \in S : y > x}) \in 0..Cardinality(S) - 1
         /\ \A x, z \in S : x < z => Cardinality({y \in S : y > z}) < Cardinality({y \in S : y > x})
         /\ \A k \in 0..Cardinality(S) - 1 : \E x \in S : Cardinality({y \in S : y > x}) = k
<1> DEFINE newer(x) == {y \in S : y > x}
           N == Cardinality(S)
           rank == [x \in S |-> Cardinality(newer(x))]
           K == 0..N - 1
<1>1. N \in Nat
  BY FS_CardinalityType
<1>2. \A x \in S : IsFiniteSet(newer(x)) /\ Cardinality(newer(x)) \in Nat
  BY FS_Subset, FS_CardinalityType
<1>3. \A x \in S : Cardinality(newer(x)) \in K
  <2> TAKE x \in S
  <2>1. newer(x) \in SUBSET S /\ newer(x) # S
    OBVIOUS
  <2> HIDE DEF newer
  <2>2. Cardinality(newer(x)) <= N /\ Cardinality(newer(x)) # N
    BY <2>1, FS_Subset
  <2>3. QED
    BY <2>2, <1>1, <1>2
<1>4. \A x, z \in S : x < z => Cardinality(newer(z)) < Cardinality(newer(x))
  <2> SUFFICES ASSUME NEW x \in S, NEW z \in S, x < z
               PROVE  Cardinality(newer(z)) < Cardinality(newer(x))
    OBVIOUS
  <2>1. newer(z) \in SUBSET newer(x) /\ newer(z) # newer(x)
    <3>1. \A y \in S : y > z => y > x
      OBVIOUS
    <3>2. z > x /\ ~ (z > z)
      OBVIOUS
    <3>3. z \in newer(x) /\ z \notin newer(z)
      BY <3>2
    <3>4. QED
      BY <3>1, <3>3
  <2> HIDE DEF newer
  <2>2. /\ Cardinality(newer(z)) <= Cardinality(newer(x))
        /\ Cardinality(newer(z)) # Cardinality(newer(x))
    BY <2>1, <1>2, FS_Subset
  <2>3. QED
    BY <2>2, <1>2
<1> HIDE DEF newer, N
<1>5. rank \in Injection(S, K)
  <2>1. rank \in [S -> K]
    BY <1>3
  <2>2. \A x, z \in S : x # z => x < z \/ z < x
    OBVIOUS
  <2>3. \A x, z \in S : rank[x] = rank[z] => x = z
    BY <1>1, <1>3, <1>4, <2>2
  <2>4. QED
    BY <2>1, <2>3 DEF Injection, IsInjective
<1>6. IsFiniteSet(K) /\ Cardinality(K) = N
  BY <1>1, FS_Interval
<1>7. rank \in Surjection(S, K)
  <2> HIDE DEF rank, K
  <2>1. QED
    BY <1>5, <1>6, FS_Injection DEF N
<1>8. \A k \in K : \E x \in S : rank[x] = k
  BY <1>7 DEF Surjection
<1>9. QED
  BY <1>1, <1>3, <1>4, <1>8 DEF newer, N

(* A page holds its newest rows: all of them down to its last, and one at   *)
(* least where there are any.                                               *)
PageOf(rows, S) ==
  /\ Len(rows) \in Nat /\ DOMAIN rows = 1..Len(rows)
  /\ \A i \in 1..Len(rows) : rows[i] \in S
  /\ \A i, j \in 1..Len(rows) : i < j => rows[i] > rows[j]
  /\ \A i \in 1..Len(rows) : \A lt \in S : lt >= rows[i] => \E j \in 1..Len(rows) : rows[j] = lt
  /\ Len(rows) = 0 => rows = <<>> /\ S = {}
  /\ Len(rows) # 0 => rows # <<>>

(* The n newest rows of a set are a page of it.                             *)
LEMMA FirstRowsArePage ==
  ASSUME NEW S, S \subseteq Nat, IsFiniteSet(S), NEW n \in Nat \ {0}
  PROVE  PageOf(FirstRows(S, n), S)
<1> DEFINE N == Cardinality(S)
           rank(x) == Cardinality({y \in S : y > x})
           K == Min({n, N})
           rows == FirstRows(S, n)
<1>1. /\ N \in Nat
      /\ \A x \in S : rank(x) \in 0..N - 1
      /\ \A x, z \in S : x < z => rank(z) < rank(x)
      /\ \A k \in 0..N - 1 : \E x \in S : rank(x) = k
  BY RanksAreTaken
<1>2. N = 0 <=> S = {}
  BY FS_EmptySet
<1>3. rows = [i \in 1..K |-> CHOOSE lt \in S : rank(lt) = i - 1]
  BY Zenon DEF FirstRows
<1> HIDE DEF rank, N, rows
<1>4. K \in Nat /\ K <= N /\ (K = 0 => N = 0)
  <2>1. \A a, b \in Nat : a <= b => Min({a, b}) = a
    BY DEF Min
  <2>2. \A a, b \in Nat : a >= b => Min({a, b}) = b
    BY DEF Min
  <2>3. QED
    BY <2>1, <2>2, <1>1
<1> HIDE DEF K
<1> DEFINE Ranked(x) == x \in S /\ x \in Nat /\ rank(x) \in Nat
<1>5. \A x \in S : Ranked(x)
  BY <1>1
<1>6. \A x, z \in S : rank(x) < rank(z) => x > z
  <2> TAKE x, z \in S
  <2>1. x < z \/ x = z \/ x > z
    BY <1>5
  <2>2. Ranked(x) /\ Ranked(z)
    BY <1>5
  <2>3. QED
    BY <2>1, <2>2, <1>1
<1>7. \A x, z \in S : rank(x) = rank(z) => x = z
  <2> TAKE x, z \in S
  <2>1. x < z \/ x = z \/ z < x
    BY <1>5
  <2>2. Ranked(x) /\ Ranked(z)
    BY <1>5
  <2>3. QED
    BY <2>1, <2>2, <1>1
<1>8. \A x, z \in S : x >= z => rank(x) <= rank(z)
  <2> TAKE x, z \in S
  <2>1. Ranked(x) /\ Ranked(z)
    BY <1>5
  <2>2. QED
    BY <2>1, <1>6
<1>9. \A i \in 1..K : rows[i] \in S /\ rank(rows[i]) = i - 1
  <2> TAKE i \in 1..K
  <2>1. i - 1 \in 0..N - 1
    BY <1>1, <1>4
  <2>2. \E x \in S : rank(x) = i - 1
    BY <1>1, <2>1
  <2>3. rows[i] = CHOOSE lt \in S : rank(lt) = i - 1
    BY <1>3
  <2>4. QED
    BY <2>2, <2>3, Zenon
<1>10. Len(rows) = K /\ rows \in Seq(S)
  BY <1>3, <1>4, <1>9
<1>11. \A i, j \in 1..K : i < j => rows[i] > rows[j]
  <2> SUFFICES ASSUME NEW i \in 1..K, NEW j \in 1..K, i < j PROVE rows[i] > rows[j]
    OBVIOUS
  <2> DEFINE x == rows[i]
             z == rows[j]
  <2>1. x \in S /\ z \in S /\ rank(x) = i - 1 /\ rank(z) = j - 1
    BY <1>9
  <2> HIDE DEF x, z
  <2>2. rank(x) < rank(z)
    BY <2>1, <1>4
  <2>3. x > z
    BY <2>1, <2>2, <1>6
  <2>4. QED
    BY <2>3 DEF x, z
<1>12. ASSUME NEW i \in 1..K, NEW lt \in S, lt >= rows[i]
      PROVE  \E j \in 1..K : rows[j] = lt
  <2> DEFINE x == rows[i]
             j == rank(lt) + 1
  <2>1. x \in S /\ rank(x) = i - 1 /\ lt >= x
    BY <1>9, <1>12
  <2> HIDE DEF x
  <2>2. rank(lt) <= i - 1 /\ rank(lt) \in Nat
    BY <2>1, <1>5, <1>8
  <2>3. j \in 1..K /\ j - 1 = rank(lt)
    BY <2>2, <1>4
  <2>4. rows[j] \in S /\ rank(rows[j]) = rank(lt)
    BY <2>3, <1>9
  <2> HIDE DEF j
  <2>5. rows[j] = lt
    BY <2>4, <1>7
  <2>6. QED
    BY <2>3, <2>5
<1>13. Len(rows) = 0 => rows = <<>>
  BY <1>10
<1>14. QED
  BY <1>2, <1>4, <1>9, <1>10, <1>11, <1>12, <1>13 DEF PageOf, rows

(* An accepted answer is a page of the rows below the cursor: a repeated    *)
(* first page does not lie below a cursor.                                  *)
LEMMA AnswerIsPage ==
  ASSUME "transactions" \in Streams, ledger = [s \in Streams |-> Lts],
         NEW cursor, cursor \in Lts \cup {NULL},
         NEW answer, answer \in Answers("transactions", cursor), answer.status = "ok",
         ValidPage(answer.rows, cursor)
  PROVE  PageOf(answer.rows, {lt \in Lts : Older(lt, cursor)})
<1> DEFINE below == {lt \in Lts : Older(lt, cursor)}
           rows == answer.rows
<1>1. Lts \subseteq Nat /\ IsFiniteSet(Lts) /\ PageSize \in Nat \ {0} /\ NULL \notin Nat
      /\ Faults \subseteq {"provider_error", "protocol_error", "repeat", "short"}
  BY AcquisitionAssumption
<1>2. Selected("transactions", cursor) = below /\ Selected("transactions", NULL) = Lts
  BY DEF Selected, Older
<1>3. below \subseteq Nat /\ IsFiniteSet(below)
  <2>1. below \in SUBSET Lts
    OBVIOUS
  <2> HIDE DEF below
  <2>2. QED
    BY <1>1, <2>1, FS_Subset
<1>4. \/ \E n \in Nat \ {0} : rows = FirstRows(below, n)
      \/ rows = FirstRows(Lts, PageSize)
  <2> HIDE DEF below
  <2> DEFINE short == {[status |-> "ok", rows |-> FirstRows(below, n)] :
                         n \in IF "short" \in Faults THEN 1..PageSize ELSE {PageSize}}
             again == IF "repeat" \in Faults
                        THEN {[status |-> "ok", rows |-> FirstRows(Lts, PageSize)]} ELSE {}
             failed == {[status |-> f, rows |-> <<>>] : f \in Faults \cap {"provider_error", "protocol_error"}}
  <2>1. answer \in short \cup again \cup failed
    BY <1>2, Zenon DEF Answers
  <2>2. answer \notin failed
    OBVIOUS
  <2>3. ASSUME answer \in short PROVE \E n \in Nat \ {0} : rows = FirstRows(below, n)
    <3>1. PICK n \in IF "short" \in Faults THEN 1..PageSize ELSE {PageSize} :
            answer = [status |-> "ok", rows |-> FirstRows(below, n)]
      BY <2>3
    <3>2. n \in Nat \ {0}
      BY <1>1, <3>1
    <3>3. QED
      BY <3>1, <3>2
  <2>4. ASSUME answer \in again PROVE rows = FirstRows(Lts, PageSize)
    BY <2>4
  <2>5. QED
    BY <2>1, <2>2, <2>3, <2>4, Zenon
<1>5. ASSUME NEW n \in Nat \ {0}, rows = FirstRows(below, n)
      PROVE  PageOf(rows, below)
  <2> HIDE DEF below
  <2>1. QED
    BY <1>3, <1>5, FirstRowsArePage
<1>6. ASSUME rows = FirstRows(Lts, PageSize)
      PROVE  PageOf(rows, below)
  <2>1. PageOf(rows, Lts)
    BY <1>1, <1>6, FirstRowsArePage
  <2>2. cursor = NULL => below = Lts
    BY DEF Older
  <2>3. cursor \notin Lts
    <3> SUFFICES ASSUME cursor \in Lts PROVE FALSE
      OBVIOUS
    <3> HIDE DEF rows
    <3>1. Len(rows) \in Nat /\ Len(rows) # 0 /\ rows # <<>>
      BY <2>1 DEF PageOf
    <3>2. 1 \in 1..Len(rows) /\ rows[1] \in Lts
      BY <2>1, <3>1 DEF PageOf
    <3>3. cursor \in Nat /\ rows[1] \in Nat /\ cursor # NULL
      BY <1>1, <3>2
    <3>4. rows[1] < cursor
      BY <3>1, <3>3 DEF ValidPage, rows
    <3>5. cursor >= rows[1]
      BY <3>3, <3>4
    <3>6. PICK j \in 1..Len(rows) : rows[j] = cursor
      BY <2>1, <3>2, <3>5 DEF PageOf
    <3>7. j = 1 \/ rows[1] > rows[j]
      BY <2>1, <3>1, <3>2 DEF PageOf
    <3>8. QED
      BY <3>3, <3>4, <3>6, <3>7
  <2>4. QED
    BY <2>1, <2>2, <2>3
<1>7. QED
  BY <1>4, <1>5, <1>6

(* What a page adds to the rows that the walk has passed.                   *)
LEMMA PagePasses ==
  ASSUME NEW from, from \in Lts \cup {NULL}, NEW cursor,
         cursor = from \/ (cursor \in Lts /\ Older(cursor, from)),
         NEW rows, PageOf(rows, {lt \in Lts : Older(lt, cursor)})
  PROVE  /\ rows = <<>> => Between(from, cursor) \cup Range(rows) = {lt \in Lts : Older(lt, from)}
         /\ rows # <<>> =>
              /\ rows[Len(rows)] \in Lts /\ Older(rows[Len(rows)], from)
              /\ Between(from, cursor) \cup Range(rows) = Between(from, rows[Len(rows)])
         /\ (\E lt \in Range(rows) : At[lt] < Start) =>
              Inside(Between(from, cursor) \cup Range(rows)) = Inside({lt \in Lts : Older(lt, from)})
<1> DEFINE last == rows[Len(rows)]
<1>1. Lts \subseteq Nat /\ NULL \notin Nat /\ Start \in Nat /\ At \in [Lts -> Nat]
      /\ \A a, b \in Lts : a < b => At[a] <= At[b]
  BY AcquisitionAssumption
<1>2. /\ Len(rows) \in Nat
      /\ Range(rows) = {rows[i] : i \in 1..Len(rows)}
      /\ \A i \in 1..Len(rows) : rows[i] \in Lts /\ Older(rows[i], cursor)
      /\ \A i, j \in 1..Len(rows) : i < j => rows[i] > rows[j]
      /\ \A i \in 1..Len(rows) : \A lt \in Lts :
           Older(lt, cursor) /\ lt >= rows[i] => \E j \in 1..Len(rows) : rows[j] = lt
      /\ Len(rows) = 0 => \A lt \in Lts : ~ Older(lt, cursor)
      /\ Len(rows) = 0 <=> rows = <<>>
  <2>1. Range(rows) = {rows[i] : i \in 1..Len(rows)}
    BY DEF PageOf, Range
  <2>2. /\ Len(rows) \in Nat
        /\ \A i \in 1..Len(rows) : rows[i] \in {lt \in Lts : Older(lt, cursor)}
        /\ \A i, j \in 1..Len(rows) : i < j => rows[i] > rows[j]
        /\ \A i \in 1..Len(rows) : \A lt \in {x \in Lts : Older(x, cursor)} :
             lt >= rows[i] => \E j \in 1..Len(rows) : rows[j] = lt
        /\ Len(rows) = 0 => rows = <<>> /\ {lt \in Lts : Older(lt, cursor)} = {}
        /\ Len(rows) # 0 => rows # <<>>
    BY Zenon DEF PageOf
  <2>3. QED
    BY <2>1, <2>2
<1>3. \A x \in Lts : Older(x, cursor) => Older(x, from)
  <2>1. CASE cursor = from
    BY <2>1
  <2>2. CASE cursor \in Lts /\ Older(cursor, from)
    <3> SUFFICES ASSUME NEW x \in Lts, Older(x, cursor), from # NULL PROVE x < from
      BY DEF Older
    <3>1. cursor \in Nat /\ x \in Nat /\ from \in Nat /\ cursor # NULL
      BY <1>1, <2>2
    <3>2. x < cursor /\ cursor < from
      BY <2>2, <3>1 DEF Older
    <3>3. QED
      BY <3>1, <3>2
  <2>3. QED
    BY <2>1, <2>2
<1>4. ASSUME rows # <<>>
      PROVE  /\ last \in Lts /\ Older(last, cursor) /\ Older(last, from)
             /\ \A x \in Lts : x \in Range(rows) <=> Older(x, cursor) /\ ~ Older(x, last)
  <2>1. Len(rows) \in 1..Len(rows) /\ last \in Lts /\ Older(last, cursor)
    BY <1>2, <1>4
  <2>2. last \in Nat /\ last # NULL /\ Older(last, from)
    BY <1>1, <1>3, <2>1
  <2>3. ASSUME NEW i \in 1..Len(rows) PROVE rows[i] >= last
    <3>1. i = Len(rows) \/ i < Len(rows)
      BY <1>2
    <3>2. rows[i] \in Nat
      BY <1>1, <1>2
    <3>3. QED
      BY <3>1, <3>2, <2>1, <2>2, <1>2
  <2>4. \A x \in Lts : x \in Range(rows) => Older(x, cursor) /\ ~ Older(x, last)
    <3> TAKE x \in Lts
    <3> HAVE x \in Range(rows)
    <3>1. PICK i \in 1..Len(rows) : rows[i] = x
      BY <1>2
    <3>2. x \in Nat /\ x >= last
      BY <1>1, <2>3, <3>1
    <3>3. QED
      BY <1>2, <2>2, <3>1, <3>2 DEF Older
  <2>5. \A x \in Lts : Older(x, cursor) /\ ~ Older(x, last) => x \in Range(rows)
    <3> TAKE x \in Lts
    <3> HAVE Older(x, cursor) /\ ~ Older(x, last)
    <3>1. x \in Nat /\ x >= last
      BY <1>1, <2>2 DEF Older
    <3>2. QED
      BY <1>2, <2>1, <3>1
  <2>6. QED
    BY <2>1, <2>2, <2>4, <2>5
<1> HIDE DEF last
<1>5. rows = <<>> => Between(from, cursor) \cup Range(rows) = {lt \in Lts : Older(lt, from)}
  BY <1>2 DEF Between
<1>6. rows # <<>> => Between(from, cursor) \cup Range(rows) = Between(from, last)
  <2> SUFFICES ASSUME rows # <<>>
               PROVE  \A x : x \in Between(from, cursor) \cup Range(rows) <=> x \in Between(from, last)
    OBVIOUS
  <2>1. Range(rows) \subseteq Lts
    BY <1>2
  <2>2. \A x \in Lts : ~ Older(x, cursor) => ~ Older(x, last)
    <3> SUFFICES ASSUME NEW x \in Lts, Older(x, last), ~ Older(x, cursor) PROVE FALSE
      OBVIOUS
    <3>1. last \in Lts /\ Older(last, cursor)
      BY <1>4
    <3>2. last \in Nat /\ x \in Nat /\ last # NULL
      BY <1>1, <3>1
    <3>3. cursor # NULL /\ ~ (x < cursor)
      BY DEF Older
    <3>4. cursor \in Nat
      <4>1. cursor = from \/ cursor \in Lts
        OBVIOUS
      <4>2. QED
        BY <1>1, <3>3, <4>1
    <3>5. x < last /\ last < cursor
      BY <3>1, <3>2, <3>3 DEF Older
    <3>6. QED
      BY <3>2, <3>3, <3>4, <3>5
  <2>3. QED
    BY <1>3, <1>4, <2>1, <2>2 DEF Between
<1>7. ASSUME NEW low \in Range(rows), At[low] < Start
      PROVE  Inside(Between(from, cursor) \cup Range(rows)) = Inside({lt \in Lts : Older(lt, from)})
  <2>1. rows # <<>> /\ low \in Lts
    BY <1>2
  <2>2. ~ Older(low, last)
    BY <1>4, <2>1
  <2>3. \A x \in Lts : Older(x, last) => ~ InInterval(x)
    <3> TAKE x \in Lts
    <3> HAVE Older(x, last)
    <3>1. x \in Nat /\ low \in Nat /\ last \in Nat /\ last # NULL
      BY <1>1, <1>4, <2>1
    <3>2. x < low
      BY <2>2, <3>1 DEF Older
    <3>3. At[x] <= At[low] /\ At[x] \in Nat /\ At[low] \in Nat
      BY <1>1, <2>1, <3>2
    <3>4. QED
      BY <1>1, <1>7, <3>3 DEF InInterval
  <2>4. Inside(Between(from, last)) = Inside({lt \in Lts : Older(lt, from)})
    BY <2>3 DEF Inside, Between
  <2>5. QED
    BY <1>6, <2>1, <2>4
<1>8. QED
  BY <1>4, <1>5, <1>6, <1>7 DEF last

(* A page of transactions ends the walk, as an unfinished one, a complete   *)
(* one, or one that reached its cap, or the walk goes on below its last row. *)
LEMMA PageArrivesEffect ==
  ASSUME DOMAIN acq = AcquisitionFields, CurrentStream = "transactions",
         acq.seen \subseteq Lts, acq.accepted = Inside(acq.seen),
         NEW rows, Range(rows) \subseteq Lts, PageArrives(rows)
  PROVE  LET passed == acq.seen \cup Range(rows)
             response == IF rows = <<>> THEN NULL ELSE rows[Len(rows)]
         IN  \E pages :
               \/ \E accepted :
                    StreamEnds("incomplete", "provider_event_in_progress", pages, response, accepted)
               \/ /\ rows = <<>> \/ \E lt \in Range(rows) \ acq.seen : At[lt] < Start
                  /\ \E termination : StreamEnds("complete", termination, pages, response, Inside(passed))
               \/ /\ rows # <<>>
                  /\ StreamEnds("incomplete", "page_cap_reached", pages, response, Inside(passed))
               \/ /\ rows # <<>>
                  /\ acq'.at = acq.at /\ acq'.todo = acq.todo /\ acq'.got = acq.got
                  /\ acq'.cursor = response /\ acq'.seen = passed /\ acq'.accepted = Inside(passed)
<1> DEFINE fresh == Range(rows) \ acq.seen
           unsettled == {}
           accepted == acq.accepted \cup ({lt \in fresh : InInterval(lt)} \ unsettled)
           crossed == \E lt \in fresh : At[lt] < Start
           saw == acq.sawPending \/ unsettled # {}
           response == IF rows = <<>> THEN NULL ELSE rows[Len(rows)]
           pages == Append(acq.pages, [index |-> acq.index, request |-> acq.cursor,
                                       response |-> response, ok |-> TRUE])
           passed == acq.seen \cup Range(rows)
           goes == acq' = [acq EXCEPT !.cursor = response, !.index = acq.index + 1, !.left = acq.left - 1,
                                      !.pages = pages, !.accepted = accepted,
                                      !.seen = acq.seen \cup fresh, !.sawPending = saw]
<1>1. IF rows = <<>> \/ crossed
        THEN IF saw
               THEN StreamEnds("incomplete", "provider_event_in_progress", pages, response, accepted)
               ELSE \E t : StreamEnds("complete", t, pages, response, accepted)
        ELSE IF acq.left = 1
        THEN StreamEnds("incomplete", "page_cap_reached", pages, response, accepted)
        ELSE goes
  <2>1. CurrentStream # "account_events"
    OBVIOUS
  <2>2. QED
    BY <2>1, Zenon DEF PageArrives
<1>2. accepted = Inside(passed) /\ acq.seen \cup fresh = passed
  BY DEF Inside
<1> HIDE DEF response, pages, accepted, passed, saw
<1>3. goes => /\ acq'.at = acq.at /\ acq'.todo = acq.todo /\ acq'.got = acq.got
              /\ acq'.cursor = response /\ acq'.seen = passed /\ acq'.accepted = Inside(passed)
  BY <1>2 DEF AcquisitionFields
<1> HIDE DEF goes
<1>4. \E p :
        \/ \E a : StreamEnds("incomplete", "provider_event_in_progress", p, response, a)
        \/ /\ rows = <<>> \/ \E lt \in Range(rows) \ acq.seen : At[lt] < Start
           /\ \E termination : StreamEnds("complete", termination, p, response, Inside(passed))
        \/ /\ rows # <<>>
           /\ StreamEnds("incomplete", "page_cap_reached", p, response, Inside(passed))
        \/ /\ rows # <<>>
           /\ acq'.at = acq.at /\ acq'.todo = acq.todo /\ acq'.got = acq.got
           /\ acq'.cursor = response /\ acq'.seen = passed /\ acq'.accepted = Inside(passed)
  <2> WITNESS pages
  <2>1. QED
    BY <1>1, <1>2, <1>3, Zenon
<1>5. QED
  BY <1>4, Zenon DEF passed, response

(* A stream ends: what follows starts at the newest page, as its row did.   *)
LEMMA SweepEnds ==
  ASSUME "transactions" \in Streams, DOMAIN acq = AcquisitionFields, DOMAIN acq.got = Streams,
         acq.at = "fetching", NEW row, Acquiring(row, acq), row.kind = "full" => row.cursor = NULL,
         Sweeping(row, acq),
         NEW completion, NEW termination, NEW pages, NEW cursor, NEW accepted,
         StreamEnds(completion, termination, pages, cursor, accepted),
         CurrentStream = "transactions" =>
           Swept(row, [completion |-> completion, termination |-> termination, pages |-> pages,
                       cursor |-> cursor, accepted |-> accepted])
  PROVE  Sweeping(row, acq')
<1> DEFINE evidence == [completion |-> completion, termination |-> termination, pages |-> pages,
                        cursor |-> cursor, accepted |-> accepted]
           rest == Tail(acq.todo)
<1>1. /\ acq'.todo = rest /\ acq'.pages = <<>> /\ acq'.seen = {} /\ acq'.accepted = {}
      /\ acq'.got["transactions"] = IF "transactions" # CurrentStream THEN acq.got["transactions"]
                                    ELSE evidence
      /\ IF rest = <<>> THEN acq'.at = "done"
         ELSE acq'.at = "fetching" /\ acq'.cursor = NULL /\ acq'.index = 1
  BY StreamEndsEffect
<1>2. CurrentStream = "transactions" => Swept(row, evidence)
  OBVIOUS
<1>3. row.kind # "full" => rest = <<>>
  <2>1. Tail(<<row.stream>>) = <<>>
    OBVIOUS
  <2>2. row.kind # "full" => acq.todo = <<row.stream>>
    BY DEF Acquiring
  <2>3. QED
    BY <2>1, <2>2, Zenon
<1> HIDE DEF evidence, rest
<1>4. acq'.got["transactions"] # NULL => Swept(row, acq'.got["transactions"])
  BY <1>1, <1>2, Zenon DEF Sweeping
<1>5. acq'.at = "fetching" => row.cursor = NULL /\ acq'.cursor = NULL
  BY <1>1, <1>3
<1>6. Between(NULL, NULL) = {} /\ Inside({}) = {}
  BY DEF Between, Older, Inside
<1>7. QED
  BY <1>1, <1>4, <1>5, <1>6, Zenon DEF Sweeping

(* Where a run of a row starts on the transaction stream.                   *)
Positioned(row) ==
  /\ row.kind = "full" => row.cursor = NULL
  /\ row.kind # "full" /\ row.stream = "transactions" => row.cursor \in Lts

(* Whatever the provider answers, the rows passed stay those between the    *)
(* position of the row and the cursor.                                      *)
LEMMA FetchSweeps ==
  ASSUME "transactions" \in Streams, ledger = [s \in Streams |-> Lts],
         DOMAIN acq = AcquisitionFields, DOMAIN acq.got = Streams, FetchPage,
         NEW row, Acquiring(row, acq), Positioned(row), Sweeping(row, acq)
  PROVE  Sweeping(row, acq')
<1>1. acq.at = "fetching" /\ (row.kind = "full" => row.cursor = NULL)
  BY DEF FetchPage, Positioned
<1>2. NULL \notin Lts /\ Lts \subseteq Nat
  BY AcquisitionAssumption
<1>3. CASE CurrentStream # "transactions"
  <2>1. PICK page : EndsWith(page) \/ GoesOnWith(page)
    BY FetchedPage
  <2>2. CASE EndsWith(page)
    BY <1>1, <1>3, <2>2, SweepEnds DEF EndsWith
  <2>3. CASE GoesOnWith(page)
    BY <1>1, <1>3, <2>3 DEF GoesOnWith, Sweeping, CurrentStream
  <2>4. QED
    BY <2>1, <2>2, <2>3
<1>4. CASE CurrentStream = "transactions"
  <2> DEFINE from == row.cursor
             cursor == acq.cursor
  <2>1. /\ cursor = from \/ (cursor \in Lts /\ Older(cursor, from))
        /\ acq.pages # <<>> => cursor \in Lts /\ Older(cursor, from)
        /\ acq.seen = Between(from, cursor) /\ acq.accepted = Inside(acq.seen)
    BY <1>1, <1>4 DEF Sweeping, CurrentStream
  <2>2. from \in Lts \cup {NULL}
    <3>1. row.kind # "full" => row.stream = "transactions"
      <4>1. <<row.stream>>[1] = row.stream
        OBVIOUS
      <4>2. row.kind # "full" => acq.todo = <<row.stream>>
        BY <1>1 DEF Acquiring
      <4>3. QED
        BY <4>1, <4>2, <1>4, Zenon DEF CurrentStream
    <3>2. QED
      BY <3>1 DEF Positioned
  <2>3. cursor \in Lts \cup {NULL} /\ acq.seen \subseteq Lts
    BY <2>1, <2>2 DEF Between
  <2>4. ASSUME NEW completion, NEW termination, NEW pages, NEW c, NEW accepted,
               StreamEnds(completion, termination, pages, c, accepted),
               completion = "complete" => accepted = Inside({lt \in Lts : Older(lt, from)}),
               ResumeState([completion |-> completion, termination |-> termination, pages |-> pages,
                            cursor |-> c, accepted |-> accepted]) = "ready" =>
                 c \in Lts /\ Older(c, from) /\ accepted = Inside(Between(from, c))
        PROVE  Sweeping(row, acq')
    <3> DEFINE evidence == [completion |-> completion, termination |-> termination, pages |-> pages,
                            cursor |-> c, accepted |-> accepted]
    <3>1. evidence.completion = completion /\ evidence.cursor = c /\ evidence.accepted = accepted
      OBVIOUS
    <3>2. ResumeState(evidence) = "ready" =>
            c \in Lts /\ Older(c, from) /\ accepted = Inside(Between(from, c))
      BY <2>4
    <3> HIDE DEF evidence
    <3>3. Swept(row, evidence)
      BY <2>4, <3>1, <3>2, Zenon DEF Swept
    <3>4. QED
      BY <1>1, <2>4, <3>3, SweepEnds DEF evidence
  <2>5. ASSUME NEW termination, PageFails(termination)
        PROVE  Sweeping(row, acq')
    <3> DEFINE bad == [index |-> acq.index, request |-> cursor, response |-> NULL, ok |-> FALSE]
               completion == IF acq.accepted = {} THEN "error" ELSE "incomplete"
               pages == Append(acq.pages, bad)
               evidence == [completion |-> completion, termination |-> termination, pages |-> pages,
                            cursor |-> cursor, accepted |-> acq.accepted]
    <3>1. StreamEnds(completion, termination, pages, cursor, acq.accepted)
      BY <2>5, Zenon DEF PageFails
    <3>2. completion # "complete"
      OBVIOUS
    <3>3. ResumeState(evidence) = "ready" => acq.pages # <<>>
      <4> SUFFICES ASSUME ResumeState(evidence) = "ready", acq.pages = <<>> PROVE FALSE
        OBVIOUS
      <4>1. GoodAt(evidence) # {}
        <5> HIDE DEF evidence
        <5>1. QED
          BY DEF ResumeState, Resumable
      <4>2. evidence.pages = <<bad>>
        <5>1. \A b : Append(<<>>, b) = <<b>>
          OBVIOUS
        <5>2. evidence.pages = pages
          OBVIOUS
        <5> HIDE DEF evidence, bad
        <5>3. QED
          BY <5>1, <5>2, Zenon DEF pages
      <4>3. Len(<<bad>>) = 1 /\ <<bad>>[1] = bad /\ ~ bad.ok
        OBVIOUS
      <4> HIDE DEF evidence, bad
      <4>4. \A i \in 1..1 : i = 1
        OBVIOUS
      <4>5. QED
        BY <4>1, <4>2, <4>3, <4>4, Zenon DEF GoodAt
    <3> HIDE DEF completion, pages
    <3>4. ResumeState(evidence) = "ready" =>
            cursor \in Lts /\ Older(cursor, from) /\ acq.accepted = Inside(Between(from, cursor))
      BY <3>3, <2>1, Zenon
    <3>5. QED
      BY <2>4, <3>1, <3>2, <3>4
  <2>6. ASSUME NEW answer, answer \in Answers("transactions", cursor), answer.status = "ok",
               ValidPage(answer.rows, cursor), PageArrives(answer.rows)
        PROVE  Sweeping(row, acq')
    <3> DEFINE rows == answer.rows
               passed == acq.seen \cup Range(rows)
               response == IF rows = <<>> THEN NULL ELSE rows[Len(rows)]
               below == {lt \in Lts : Older(lt, from)}
    <3>1. PageOf(rows, {lt \in Lts : Older(lt, cursor)})
      BY <2>3, <2>6, AnswerIsPage
    <3> HIDE DEF rows, from, cursor
    <3>2. /\ rows = <<>> => Between(from, cursor) \cup Range(rows) = {lt \in Lts : Older(lt, from)}
          /\ rows # <<>> =>
               /\ rows[Len(rows)] \in Lts /\ Older(rows[Len(rows)], from)
               /\ Between(from, cursor) \cup Range(rows) = Between(from, rows[Len(rows)])
          /\ (\E lt \in Range(rows) : At[lt] < Start) =>
               Inside(Between(from, cursor) \cup Range(rows)) = Inside({lt \in Lts : Older(lt, from)})
      <4>1. cursor = from \/ (cursor \in Lts /\ Older(cursor, from))
        BY <2>1
      <4>2. QED
        BY <2>2, <3>1, <4>1, PagePasses
    <3>3. passed = Between(from, cursor) \cup Range(rows)
      BY <2>1
    <3> HIDE DEF passed
    <3>4. /\ rows = <<>> => passed = below
          /\ rows # <<>> => /\ rows[Len(rows)] \in Lts /\ Older(rows[Len(rows)], from)
                            /\ passed = Between(from, rows[Len(rows)])
          /\ (\E lt \in Range(rows) : At[lt] < Start) => Inside(passed) = Inside(below)
      BY <3>2, <3>3, Zenon
    <3>5. Range(rows) \subseteq Lts
      <4>1. \A i \in DOMAIN rows : rows[i] \in Lts
        BY <3>1 DEF PageOf
      <4>2. QED
        BY <4>1 DEF Range
    <3>6. PICK pages :
               \/ \E accepted :
                    StreamEnds("incomplete", "provider_event_in_progress", pages, response, accepted)
               \/ /\ rows = <<>> \/ \E lt \in Range(rows) \ acq.seen : At[lt] < Start
                  /\ \E termination : StreamEnds("complete", termination, pages, response, Inside(passed))
               \/ /\ rows # <<>>
                  /\ StreamEnds("incomplete", "page_cap_reached", pages, response, Inside(passed))
               \/ /\ rows # <<>>
                  /\ acq'.at = acq.at /\ acq'.todo = acq.todo /\ acq'.got = acq.got
                  /\ acq'.cursor = response /\ acq'.seen = passed /\ acq'.accepted = Inside(passed)
      BY <1>4, <2>1, <2>3, <2>6, <3>5, PageArrivesEffect, Zenon DEF rows, passed, response
    <3>7. rows # <<>> => response \in Lts /\ Older(response, from) /\ passed = Between(from, response)
      BY <3>4
    <3>8. (rows = <<>> \/ \E lt \in Range(rows) : At[lt] < Start) => Inside(passed) = Inside(below)
      BY <3>4
    <3> HIDE DEF response, below
    <3>9. ASSUME NEW accepted,
                 StreamEnds("incomplete", "provider_event_in_progress", pages, response, accepted)
          PROVE  Sweeping(row, acq')
      <4> DEFINE evidence == [completion |-> "incomplete", termination |-> "provider_event_in_progress",
                              pages |-> pages, cursor |-> response, accepted |-> accepted]
      <4>1. ResumeState(evidence) # "ready"
        BY DEF ResumeState, Resumable
      <4>2. QED
        BY <2>4, <3>9, <4>1
    <3>10. ASSUME NEW termination, rows = <<>> \/ \E lt \in Range(rows) : At[lt] < Start,
                 StreamEnds("complete", termination, pages, response, Inside(passed))
          PROVE  Sweeping(row, acq')
      <4> DEFINE evidence == [completion |-> "complete", termination |-> termination,
                              pages |-> pages, cursor |-> response, accepted |-> Inside(passed)]
      <4>1. ResumeState(evidence) # "ready"
        BY DEF ResumeState
      <4>2. Inside(passed) = Inside({lt \in Lts : Older(lt, from)})
        BY <3>8, <3>10 DEF below
      <4>3. QED
        BY <2>4, <3>10, <4>1, <4>2
    <3>11. ASSUME rows # <<>>,
                 StreamEnds("incomplete", "page_cap_reached", pages, response, Inside(passed))
          PROVE  Sweeping(row, acq')
      <4>1. response \in Lts /\ Older(response, from) /\ Inside(passed) = Inside(Between(from, response))
        BY <3>7, <3>11
      <4>2. QED
        BY <2>4, <3>11, <4>1
    <3>12. ASSUME rows # <<>>,
                  acq'.at = acq.at /\ acq'.todo = acq.todo /\ acq'.got = acq.got,
                  acq'.cursor = response, acq'.seen = passed, acq'.accepted = Inside(passed)
           PROVE  Sweeping(row, acq')
      <4>1. /\ acq'.cursor \in Lts /\ Older(acq'.cursor, row.cursor)
            /\ acq'.seen = Between(row.cursor, acq'.cursor)
        BY <3>7, <3>12, Zenon DEF from
      <4>2. acq'.accepted = Inside(acq'.seen) /\ acq'.got = acq.got
        BY <3>12, Zenon
      <4>3. acq.got["transactions"] # NULL => Swept(row, acq.got["transactions"])
        BY DEF Sweeping
      <4>4. QED
        BY <4>1, <4>2, <4>3, Zenon DEF Sweeping
    <3>13. QED
      BY <3>6, <3>9, <3>10, <3>11, <3>12, Zenon
  <2>7. QED
    <3>1. PICK answer \in Answers("transactions", cursor) :
            IF answer.status # "ok" THEN PageFails(answer.status)
            ELSE IF ValidPage(answer.rows, cursor) THEN PageArrives(answer.rows)
            ELSE PageFails("protocol_error")
      BY <1>4, Zenon DEF FetchPage
    <3>2. QED
      BY <3>1, <2>5, <2>6, Zenon
<1>5. QED
  BY <1>3, <1>4

(* A job that runs or has published holds a position on the chain.          *)
LEMMA StartedIsPositioned ==
  ASSUME "transactions" \in Streams, WalkInv, SweepInv, NEW n \in Ids, Started(syncs[n])
  PROVE  Positioned(syncs[n])
<1>1. /\ syncs[n].kind = "full" => syncs[n].cursor = NULL
      /\ Continues(syncs, n)
      /\ syncs[n].kind # "full" => syncs[n].source \in Ids
  BY SoundRows DEF WalkInv, Sound, Ids
<1>2. ASSUME syncs[n].kind # "full", syncs[n].stream = "transactions"
      PROVE  syncs[n].cursor \in Lts
  <2> DEFINE k == syncs[n].source
  <2>1. /\ k \in Ids /\ syncs[k].out["transactions"] # NULL
        /\ ResumeState(syncs[k].out["transactions"]) = "ready"
        /\ syncs[n].cursor = syncs[k].out["transactions"].cursor
    BY <1>1, <1>2 DEF Continues
  <2>2. Swept(syncs[k], syncs[k].out["transactions"])
    BY <2>1 DEF SweepInv
  <2>3. QED
    BY <2>1, <2>2 DEF Swept
<1>3. QED
  BY <1>1, <1>2 DEF Positioned

LEMMA SweepInit == Init => SweepInv
<1> SUFFICES ASSUME Init PROVE SweepInv
  OBVIOUS
<1>1. Ids = {}
  BY DEF Init, Ids
<1>2. QED
  BY <1>1 DEF Init, SweepInv

(* A step that changes the one active job, and none that has published.     *)
LEMMA SweepJob ==
  ASSUME "transactions" \in Streams, WalkInv, SweepInv, UNCHANGED ledger,
         NEW n \in Ids, syncs[n].state \in {"queued", "running"},
         NEW row, syncs' = [syncs EXCEPT ![n] = row], row.cursor = syncs[n].cursor,
         row.out["transactions"] # NULL => Swept(syncs[n], row.out["transactions"]),
         row.state = "running" => Sweeping(syncs[n], acq')
  PROVE  SweepInv'
<1>1. /\ n = Len(syncs) /\ n \in 1..Len(syncs)
      /\ \A m \in 1..Len(syncs) : syncs[m].state = "running" => m = n
  BY DEF WalkInv, Sound, Ids
<1>2. PICK S : syncs \in Seq(S)
  BY DEF WalkInv, Sound, IsSeq
<1>3. /\ Len(syncs') = Len(syncs) /\ syncs'[n] = row
      /\ \A m \in 1..Len(syncs) : m # n => syncs'[m] = syncs[m]
  BY <1>1, <1>2
<1>4. Ids' = Ids /\ Ids = 1..Len(syncs)
  BY <1>3 DEF Ids
<1>5. /\ \A e : Swept(syncs[n], e) => Swept(row, e)
      /\ \A a : Sweeping(syncs[n], a) => Sweeping(row, a)
  BY DEF Swept, Sweeping
<1>6. ledger' = [s \in Streams |-> Lts]
  BY DEF SweepInv
<1>7. \A m \in Ids : m # n =>
        /\ syncs[m].out["transactions"] # NULL => Swept(syncs[m], syncs[m].out["transactions"])
        /\ syncs[m].state # "running"
  BY <1>1, <1>4 DEF SweepInv
<1>8. ASSUME NEW m \in Ids
      PROVE  /\ syncs'[m].out["transactions"] # NULL => Swept(syncs'[m], syncs'[m].out["transactions"])
             /\ syncs'[m].state = "running" => Sweeping(syncs'[m], acq')
  <2>1. CASE m = n
    BY <2>1, <1>3, <1>5
  <2>2. CASE m # n
    <3>1. syncs'[m] = syncs[m]
      BY <2>2, <1>3, <1>4
    <3>2. QED
      BY <2>2, <3>1, <1>7, Zenon
  <2>3. QED
    BY <2>1, <2>2
<1>9. QED
  BY <1>4, <1>6, <1>8, Zenon DEF SweepInv

(* A job that stops or waits again has published nothing new.               *)
LEMMA SweepStops ==
  ASSUME "transactions" \in Streams, WalkInv, SweepInv, UNCHANGED ledger,
         NEW n \in Ids, syncs[n].state \in {"queued", "running"},
         NEW state, state # "running", Becomes(n, state)
  PROVE  SweepInv'
<1> DEFINE row == [syncs[n] EXCEPT !.state = state]
<1>1. DOMAIN syncs[n] = RowFields
  BY DEF WalkInv, Sound, Ids
<1>2. syncs[n].out["transactions"] # NULL => Swept(syncs[n], syncs[n].out["transactions"])
  BY DEF SweepInv
<1>3. syncs' = [syncs EXCEPT ![n] = row]
  BY DEF Becomes
<1>4. row.cursor = syncs[n].cursor /\ row.out = syncs[n].out /\ row.state = state
  BY <1>1 DEF RowFields
<1> HIDE DEF row
<1>5. QED
  BY <1>2, <1>3, <1>4, SweepJob

(* A row that is added has published nothing, and a claimed one has passed  *)
(* nothing.                                                                 *)
LEMMA SweepInsert ==
  ASSUME "transactions" \in Streams, WalkInv, SweepInv, NEW h \in Handlers, Insert(h)
  PROVE  SweepInv'
<1> DEFINE row == NewSync(handler[h])
<1>1. UNCHANGED <<ledger, acq>> /\ (UNCHANGED syncs \/ syncs' = Append(syncs, row))
  BY DEF Insert, acquisitionVars
<1>2. CASE UNCHANGED syncs
  BY <1>1, <1>2 DEF SweepInv, Ids
<1>3. CASE syncs' = Append(syncs, row)
  <2>1. row.state = "queued" /\ row.out["transactions"] = NULL
    BY DEF NewSync, NoOutput
  <2> HIDE DEF row
  <2>2. PICK S : syncs \in Seq(S)
    BY DEF WalkInv, Sound, IsSeq
  <2>3. /\ \A m \in Ids : syncs'[m] = syncs[m]
        /\ \A m \in Ids' : m \in Ids \/ syncs'[m] = row
    BY <1>3, <2>2 DEF Ids
  <2>4. ledger' = [s \in Streams |-> Lts] /\ acq' = acq
    BY <1>1 DEF SweepInv
  <2>5. \A m \in Ids :
          /\ syncs[m].out["transactions"] # NULL => Swept(syncs[m], syncs[m].out["transactions"])
          /\ syncs[m].state = "running" => Sweeping(syncs[m], acq)
    BY DEF SweepInv
  <2>6. ASSUME NEW m \in Ids'
        PROVE  /\ syncs'[m].out["transactions"] # NULL => Swept(syncs'[m], syncs'[m].out["transactions"])
               /\ syncs'[m].state = "running" => Sweeping(syncs'[m], acq')
    BY <2>1, <2>3, <2>4, <2>5
  <2>7. QED
    BY <2>4, <2>6, Zenon DEF SweepInv
<1>4. QED
  BY <1>1, <1>2, <1>3

LEMMA SweepClaim ==
  ASSUME "transactions" \in Streams, WalkInv, SweepInv, NEW n \in Ids, Claim(n)
  PROVE  SweepInv'
<1>1. syncs[n].state = "queued" /\ UNCHANGED ledger
  BY DEF Claim
<1>2. /\ DOMAIN acq = AcquisitionFields /\ DOMAIN syncs[n] = RowFields
      /\ syncs[n].kind = "full" => syncs[n].index = 1 /\ syncs[n].cursor = NULL
  BY DEF WalkInv, Sound, Ids
<1>3. ASSUME Becomes(n, "running"), NEW streams, NEW cap, NEW snapshot,
             acq' = Requested(streams, syncs[n].cursor, syncs[n].index, cap, snapshot)
      PROVE  SweepInv'
  <2> DEFINE row == [syncs[n] EXCEPT !.state = "running"]
  <2>1. syncs' = [syncs EXCEPT ![n] = row]
    BY <1>3 DEF Becomes
  <2>2. row.cursor = syncs[n].cursor /\ row.out = syncs[n].out
    BY <1>2 DEF RowFields
  <2>3. /\ acq'.got = NoOutput /\ acq'.cursor = syncs[n].cursor
        /\ acq'.pages = <<>> /\ acq'.seen = {} /\ acq'.accepted = {}
    BY <1>2, <1>3, RequestedHolds
  <2>4. acq'.got["transactions"] = NULL
    BY <2>3 DEF NoOutput
  <2>5. Between(syncs[n].cursor, syncs[n].cursor) = {} /\ Inside({}) = {}
    BY DEF Between, Inside
  <2>6. Sweeping(syncs[n], acq')
    BY <2>3, <2>4, <2>5 DEF Sweeping
  <2>7. syncs[n].out["transactions"] # NULL => Swept(syncs[n], syncs[n].out["transactions"])
    BY DEF SweepInv
  <2> HIDE DEF row
  <2>8. QED
    BY <1>1, <2>1, <2>2, <2>6, <2>7, SweepJob
<1>4. CASE syncs[n].kind = "full" /\ Becomes(n, "running")
  <2>1. PICK snapshot : acq' = Requested(FullSync, NULL, 1, PageCap, snapshot)
    BY <1>4 DEF Claim
  <2>2. acq' = Requested(FullSync, syncs[n].cursor, syncs[n].index, PageCap, snapshot)
    BY <1>2, <1>4, <2>1
  <2>3. QED
    BY <1>3, <1>4, <2>2
<1>5. CASE syncs[n].kind # "full" /\ Becomes(n, "running")
  <2>1. \/ acq' = Requested(<<syncs[n].stream>>, syncs[n].cursor, syncs[n].index, Cap(syncs[n]), "none")
        \/ Becomes(n, "failed")
    BY <1>5 DEF Claim
  <2>2. QED
    BY <1>1, <1>3, <1>5, <2>1, SweepStops
<1>6. CASE Becomes(n, "failed")
  BY <1>1, <1>6, SweepStops
<1>7. QED
  BY <1>4, <1>5, <1>6 DEF Claim

(* What is published is what the run has swept.                             *)
LEMMA SweepPublish ==
  ASSUME "transactions" \in Streams, WalkInv, SweepInv, NEW n \in Ids, Publish(n)
  PROVE  SweepInv'
<1>1. syncs[n].state = "running" /\ UNCHANGED ledger
  BY DEF Publish
<1>2. CASE Becomes(n, "queued")
  BY <1>1, <1>2, SweepStops
<1>3. CASE ~ Becomes(n, "queued")
  <2> DEFINE result == CASE RunStatus = "error" -> "failed"
                         [] RunStatus = "partial" -> "partial"
                         [] RunStatus = "success" -> "succeeded"
             row == [syncs[n] EXCEPT !.out = acq.got, !.state = result]
  <2>1. syncs' = [syncs EXCEPT ![n].out = acq.got, ![n].state = result]
    BY <1>3 DEF Publish
  <2>2. result # "running"
    BY DEF RunStatus
  <2>3. DOMAIN syncs[n] = RowFields /\ Sweeping(syncs[n], acq)
    BY <1>1 DEF WalkInv, Sound, SweepInv, Ids
  <2> HIDE DEF result
  <2>4. syncs' = [syncs EXCEPT ![n] = row]
    BY <2>1
  <2>5. row.cursor = syncs[n].cursor /\ row.out = acq.got /\ row.state = result
    BY <2>3 DEF RowFields
  <2> HIDE DEF row
  <2>6. row.out["transactions"] # NULL => Swept(syncs[n], row.out["transactions"])
    BY <2>3, <2>5 DEF Sweeping
  <2>7. QED
    BY <1>1, <2>2, <2>4, <2>5, <2>6, SweepJob
<1>4. QED
  BY <1>2, <1>3

LEMMA SweepAcquires ==
  ASSUME "transactions" \in Streams, WalkInv, SweepInv, Acquires
  PROVE  SweepInv'
<1>1. UNCHANGED <<syncs, ledger>> /\ (FetchPage \/ UNCHANGED acq)
  BY DEF Acquires, FetchPage, PageFails, PageArrives, EventSettles
<1>2. Ids' = Ids /\ ledger = [s \in Streams |-> Lts]
  BY <1>1 DEF Ids, SweepInv
<1>3. \A n \in Ids : syncs[n].state = "running" => Sweeping(syncs[n], acq')
  <2> SUFFICES ASSUME NEW n \in Ids, syncs[n].state = "running", FetchPage
               PROVE  Sweeping(syncs[n], acq')
    BY <1>1 DEF SweepInv
  <2>1. Positioned(syncs[n])
    BY StartedIsPositioned DEF Started
  <2>2. DOMAIN acq = AcquisitionFields /\ DOMAIN acq.got = Streams /\ Acquiring(syncs[n], acq)
    BY DEF WalkInv, RunsHold
  <2>3. Sweeping(syncs[n], acq)
    BY DEF SweepInv
  <2>4. QED
    BY <1>2, <2>1, <2>2, <2>3, FetchSweeps
<1>4. QED
  BY <1>1, <1>2, <1>3 DEF SweepInv

LEMMA SweepStep == WalkInv /\ SweepInv /\ [Next]_vars => SweepInv'
<1> SUFFICES ASSUME WalkInv, SweepInv, [Next]_vars, "transactions" \in Streams PROVE SweepInv'
  BY DEF SweepInv
<1>1. ASSUME UNCHANGED <<syncs, acq, ledger>>
      PROVE  SweepInv'
  BY <1>1 DEF SweepInv, Ids
<1>2. ASSUME NEW h \in Handlers, Post(h)
      PROVE  SweepInv'
  BY <1>1, <1>2
     DEF Post, BeginSync, BeginResume, BeginPlanResume, BeginShow, BeginSchedule, OnlyReads, acquisitionVars
<1>3. ASSUME NEW h \in Handlers, RequestStep(h)
      PROVE  SweepInv'
  <2>1. CASE ReadPlan(h) \/ ReadActive(h) \/ RecheckPlan(h) \/ CheckTip(h)
    BY <1>1, <2>1 DEF ReadPlan, ReadActive, RecheckPlan, CheckTip, OnlyReads, acquisitionVars
  <2>2. CASE Insert(h)
    BY <2>2, SweepInsert
  <2>3. QED
    BY <1>3, <2>1, <2>2 DEF RequestStep
<1>4. ASSUME NEW n \in Ids, Cancel(n)
      PROVE  SweepInv'
  BY <1>4, SweepStops DEF Cancel, Active
<1>5. ASSUME NEW n \in Ids, Crash(n)
      PROVE  SweepInv'
  <2>1. PICK state \in {"queued", "failed"} : Becomes(n, state)
    BY <1>5 DEF Crash
  <2>2. QED
    BY <1>5, <2>1, SweepStops DEF Crash
<1>6. ASSUME NEW n \in Ids, Claim(n) \/ Publish(n)
      PROVE  SweepInv'
  BY <1>6, SweepClaim, SweepPublish
<1>7. CASE Acquires
  BY <1>7, SweepAcquires
<1>8. CASE UNCHANGED vars
  BY <1>1, <1>8 DEF vars
<1>9. QED
  BY <1>2, <1>3, <1>4, <1>5, <1>6, <1>7, <1>8 DEF Next

(* What the revisions of a chain accepted, and that no two share a row.     *)
Apart(chain, s) ==
  \A i, j \in 1..Len(chain) :
    i # j => Checkpoint(chain[i], s).accepted \cap Checkpoint(chain[j], s).accepted = {}

(* What a chain accepts, revision by revision.                              *)
LEMMA AcceptedByOne ==
  ASSUME NEW n, NEW s
  PROVE  AcceptedBy(<<n>>, s) = Checkpoint(n, s).accepted /\ Apart(<<n>>, s)
<1>1. Len(<<n>>) = 1 /\ <<n>>[1] = n /\ \A i \in 1..1 : i = 1
  OBVIOUS
<1>2. Apart(<<n>>, s)
  BY <1>1, Zenon DEF Apart
<1>3. {Checkpoint(<<n>>[i], s).accepted : i \in 1..Len(<<n>>)} = {Checkpoint(n, s).accepted}
  <2>1. 1..1 = {1}
    OBVIOUS
  <2>2. QED
    BY <2>1, <1>1, Zenon
<1>4. \A A : UNION {A} = A
  OBVIOUS
<1>5. QED
  BY <1>2, <1>3, <1>4, Zenon DEF AcceptedBy

LEMMA AcceptedByMore ==
  ASSUME NEW chain, IsSeq(chain), NEW n, NEW s
  PROVE  /\ IsSeq(Append(chain, n))
         /\ AcceptedBy(Append(chain, n), s) = AcceptedBy(chain, s) \cup Checkpoint(n, s).accepted
         /\ Apart(chain, s) /\ AcceptedBy(chain, s) \cap Checkpoint(n, s).accepted = {}
              => Apart(Append(chain, n), s)
<1> DEFINE N == Len(chain)
           more == Append(chain, n)
           last == N + 1
           Took(k) == Checkpoint(k, s).accepted
<1>1. PICK S : chain \in Seq(S)
  BY DEF IsSeq
<1>2. /\ N \in Nat /\ Len(more) = last /\ more[last] = n
      /\ \A i \in 1..N : more[i] = chain[i]
      /\ \A i \in 1..last : i \in 1..N \/ i = last
      /\ last \in 1..last /\ \A i \in 1..N : i \in 1..last
  BY <1>1
<1>3. IsSeq(more)
  <2>1. S \subseteq S \cup {n} /\ n \in S \cup {n}
    OBVIOUS
  <2>2. chain \in Seq(S \cup {n})
    BY <1>1, <2>1
  <2>3. more \in Seq(S \cup {n})
    BY <2>1, <2>2
  <2>4. QED
    BY <2>3, SeqIsSeq
<1> HIDE DEF more, last, N, Took
<1>4. /\ AcceptedBy(chain, s) = UNION {Took(chain[i]) : i \in 1..N}
      /\ AcceptedBy(more, s) = UNION {Took(more[i]) : i \in 1..last}
  BY <1>2, Zenon DEF AcceptedBy, Took, N
<1>5. AcceptedBy(more, s) = AcceptedBy(chain, s) \cup Took(n)
  <2>1. \A x : x \in AcceptedBy(more, s) <=> \E i \in 1..last : x \in Took(more[i])
    BY <1>4
  <2>2. \A x : x \in AcceptedBy(chain, s) <=> \E i \in 1..N : x \in Took(chain[i])
    BY <1>4
  <2>3. ASSUME NEW x \in AcceptedBy(more, s)
        PROVE  x \in AcceptedBy(chain, s) \cup Took(n)
    <3>1. PICK i \in 1..last : x \in Took(more[i])
      BY <2>1
    <3>2. CASE i \in 1..N
      BY <3>1, <3>2, <2>2, <1>2, Zenon
    <3>3. CASE i = last
      BY <3>1, <3>3, <1>2, Zenon
    <3>4. QED
      BY <3>2, <3>3, <1>2
  <2>4. ASSUME NEW x \in AcceptedBy(chain, s) \cup Took(n)
        PROVE  x \in AcceptedBy(more, s)
    <3>1. CASE x \in Took(n)
      BY <3>1, <2>1, <1>2, Zenon
    <3>2. CASE x \in AcceptedBy(chain, s)
      <4>1. PICK i \in 1..N : x \in Took(chain[i])
        BY <3>2, <2>2
      <4>2. i \in 1..last /\ more[i] = chain[i]
        BY <1>2
      <4>3. QED
        BY <4>1, <4>2, <2>1, Zenon
    <3>3. QED
      BY <3>1, <3>2
  <2>5. QED
    BY <2>3, <2>4
<1>6. ASSUME Apart(chain, s), AcceptedBy(chain, s) \cap Took(n) = {}
      PROVE  Apart(more, s)
  <2>1. \A i, j \in 1..N : i # j => Took(chain[i]) \cap Took(chain[j]) = {}
    BY <1>6, Zenon DEF Apart, Took, N
  <2>2. \A i \in 1..N : Took(chain[i]) \cap Took(n) = {} /\ Took(n) \cap Took(chain[i]) = {}
    BY <1>4, <1>6
  <2>3. \A i, j \in 1..last : i # j => Took(more[i]) \cap Took(more[j]) = {}
    <3> SUFFICES ASSUME NEW i \in 1..last, NEW j \in 1..last, i # j
                 PROVE  Took(more[i]) \cap Took(more[j]) = {}
      OBVIOUS
    <3>1. CASE i \in 1..N /\ j \in 1..N
      BY <3>1, <2>1, <1>2
    <3>2. CASE i = last /\ j \in 1..N
      BY <3>2, <2>2, <1>2
    <3>3. CASE j = last /\ i \in 1..N
      BY <3>3, <2>2, <1>2
    <3>4. QED
      BY <3>1, <3>2, <3>3, <1>2
  <2>4. QED
    BY <2>3, <1>2, Zenon DEF Apart, Took
<1>7. QED
  BY <1>3, <1>5, <1>6, Zenon DEF more, Took

(* A chain that may be resumed has everything of the interval down to its   *)
(* cursor, a complete one everything of it, and nothing twice.              *)
Covers(n) ==
  LET e == Checkpoint(n, "transactions")
  IN  /\ IsSeq(Chain(n))
      /\ ResumeState(e) = "ready" =>
           /\ e.cursor \in Lts /\ Apart(Chain(n), "transactions")
           /\ AcceptedBy(Chain(n), "transactions") = Inside({lt \in Lts : ~ Older(lt, e.cursor)})
      /\ e.completion = "complete" =>
           /\ Apart(Chain(n), "transactions")
           /\ AcceptedBy(Chain(n), "transactions") = Inside(Lts)

(* A full sync covers what it has swept, and a continuation adds what lies  *)
(* below its source.                                                        *)
LEMMA CoversStarts ==
  ASSUME "transactions" \in Streams, WalkInv, SweepInv, NEW n \in Published("transactions"),
         syncs[n].kind = "full"
  PROVE  Covers(n)
<1> DEFINE e == Checkpoint(n, "transactions")
<1>1. n \in Ids /\ syncs[n].cursor = NULL /\ Swept(syncs[n], e)
  BY DEF Published, WalkInv, Sound, Ids, SweepInv, Checkpoint
<1>2. Chain(n) = <<n>>
  BY <1>1, SoundRows, ChainGrows DEF WalkInv
<1>3. IsSeq(<<n>>)
  BY DEF IsSeq
<1>4. AcceptedBy(Chain(n), "transactions") = e.accepted /\ Apart(Chain(n), "transactions")
  BY <1>2, AcceptedByOne
<1> HIDE DEF e
<1>5. \A lt : Older(lt, NULL)
  BY DEF Older
<1>6. /\ {lt \in Lts : Older(lt, NULL)} = Lts
      /\ \A c : Between(NULL, c) = {lt \in Lts : ~ Older(lt, c)}
  BY <1>5 DEF Between
<1>7. /\ e.completion = "complete" => e.accepted = Inside(Lts)
      /\ ResumeState(e) = "ready" => e.cursor \in Lts /\ e.accepted = Inside({lt \in Lts : ~ Older(lt, e.cursor)})
  BY <1>1, <1>6, Zenon DEF Swept
<1>8. QED
  BY <1>2, <1>3, <1>4, <1>7, Zenon DEF Covers, e

LEMMA CoversContinues ==
  ASSUME "transactions" \in Streams, WalkInv, SweepInv, NEW n \in Published("transactions"),
         syncs[n].kind # "full",
         syncs[n].source \in Published("transactions") => Covers(syncs[n].source)
  PROVE  Covers(n)
<1> DEFINE e == Checkpoint(n, "transactions")
           k == syncs[n].source
           before == Checkpoint(k, "transactions")
           chain == Chain(k)
<1>1. Lts \subseteq Nat /\ NULL \notin Nat
  BY AcquisitionAssumption
<1>2. n \in Ids /\ Started(syncs[n]) /\ syncs[n].stream = "transactions" /\ Swept(syncs[n], e)
  <2>1. n \in Ids /\ Started(syncs[n]) /\ Walked(syncs[n], "transactions", e)
    BY OwnPages DEF WalkInv
  <2>2. QED
    BY <2>1 DEF Walked, Published, SweepInv, Checkpoint
<1>3. k \in Ids /\ Chain(n) = Append(chain, n)
  BY <1>2, SoundRows, ChainGrows DEF WalkInv
<1>4. before # NULL /\ ResumeState(before) = "ready" /\ syncs[n].cursor = before.cursor
  <2>1. Continues(syncs, n)
    BY <1>2 DEF WalkInv, Sound, Ids
  <2>2. QED
    BY <2>1, <1>2 DEF Continues, Checkpoint
<1>5. k \in Published("transactions")
  BY <1>3, <1>4 DEF Published, Checkpoint
<1>6. /\ IsSeq(chain) /\ before.cursor \in Lts /\ Apart(chain, "transactions")
      /\ AcceptedBy(chain, "transactions") = Inside({lt \in Lts : ~ Older(lt, before.cursor)})
  BY <1>4, <1>5 DEF Covers
<1> DEFINE cut == before.cursor
<1>7. /\ e.completion = "complete" => e.accepted = Inside({lt \in Lts : Older(lt, cut)})
      /\ ResumeState(e) = "ready" =>
           e.cursor \in Lts /\ Older(e.cursor, cut) /\ e.accepted = Inside(Between(cut, e.cursor))
  BY <1>2, <1>4, Zenon DEF Swept
<1>8. /\ IsSeq(Append(chain, n))
      /\ AcceptedBy(Append(chain, n), "transactions") = AcceptedBy(chain, "transactions") \cup e.accepted
      /\ Apart(chain, "transactions") /\ AcceptedBy(chain, "transactions") \cap e.accepted = {}
           => Apart(Append(chain, n), "transactions")
  BY <1>6, AcceptedByMore
<1> HIDE DEF e, k, before, chain
<1>9. cut \in Lts /\ AcceptedBy(chain, "transactions") = Inside({lt \in Lts : ~ Older(lt, cut)})
  BY <1>6
<1> HIDE DEF cut
<1>10. ASSUME e.completion = "complete"
       PROVE  /\ AcceptedBy(chain, "transactions") \cup e.accepted = Inside(Lts)
              /\ AcceptedBy(chain, "transactions") \cap e.accepted = {}
  <2>1. e.accepted = Inside({lt \in Lts : Older(lt, cut)})
    BY <1>7, <1>10
  <2>2. QED
    BY <2>1, <1>9 DEF Inside
<1>11. ASSUME ResumeState(e) = "ready"
       PROVE  /\ AcceptedBy(chain, "transactions") \cup e.accepted = Inside({lt \in Lts : ~ Older(lt, e.cursor)})
              /\ AcceptedBy(chain, "transactions") \cap e.accepted = {}
  <2> DEFINE c == e.cursor
  <2>1. c \in Lts /\ Older(c, cut) /\ e.accepted = Inside(Between(cut, c))
    BY <1>7, <1>11
  <2> HIDE DEF c
  <2>2. \A lt \in Lts : ~ Older(lt, cut) => ~ Older(lt, c)
    <3> SUFFICES ASSUME NEW lt \in Lts, ~ Older(lt, cut), Older(lt, c) PROVE FALSE
      OBVIOUS
    <3>1. lt \in Nat /\ c \in Nat /\ cut \in Nat /\ c # NULL /\ cut # NULL
      BY <1>1, <1>9, <2>1
    <3>2. c < cut /\ lt < c /\ ~ (lt < cut)
      BY <2>1, <3>1 DEF Older
    <3>3. QED
      BY <3>1, <3>2
  <2>3. QED
    BY <2>1, <2>2, <1>9 DEF Inside, Between, c
<1>12. QED
  BY <1>3, <1>6, <1>7, <1>8, <1>10, <1>11, Zenon DEF Covers, e

(* Every checkpoint's chain covers, by induction on its sync.               *)
LEMMA EveryChainCovers ==
  ASSUME "transactions" \in Streams, WalkInv, SweepInv, NEW n \in Published("transactions")
  PROVE  Covers(n)
<1> DEFINE D == {m \in Published("transactions") : ~ Covers(m)}
<1> SUFFICES ASSUME D # {} PROVE FALSE
  OBVIOUS
<1>1. D \subseteq Nat
  BY DEF Published, Ids
<1>2. PICK m \in D : \A k \in D : m <= k
  <2> HIDE DEF D
  <2>1. QED
    BY <1>1, Least
<1>3. m \in Published("transactions") /\ ~ Covers(m)
  BY <1>2
<1>4. syncs[m].kind # "full"
  BY <1>3, CoversStarts
<1>5. syncs[m].source \in 1..m - 1
  BY <1>3, <1>4 DEF WalkInv, Sound, Published, Ids
<1>6. syncs[m].source \in Published("transactions") => Covers(syncs[m].source)
  BY <1>1, <1>2, <1>5
<1>7. QED
  BY <1>3, <1>4, <1>6, CoversContinues

(* A transaction stream whose newest checkpoint says complete has accepted  *)
(* every row of the resolved interval that the provider holds, and none in  *)
(* two revisions, however often it was cut short by the page cap or by a    *)
(* failed request, retried, crashed, cancelled and resumed in between: a    *)
(* walk passes all rows between its position and its cursor, a checkpoint   *)
(* is resumable only where its last good page produced that cursor, and     *)
(* the continuation starts there (_build_checkpoint, _resume_position, the  *)
(* two acquisition loops).                                                  *)
THEOREM CompleteChainsHaveEveryRow == Spec => []CompleteChainHasEveryRow
<1>1. WalkInv /\ SweepInv => CompleteChainHasEveryRow
  <2> SUFFICES ASSUME WalkInv, SweepInv, "transactions" \in Streams,
                      NEW n \in Published("transactions"), StateOf(n, "transactions") = "complete"
               PROVE  /\ AcceptedBy(Chain(n), "transactions") = {lt \in ledger["transactions"] : InInterval(lt)}
                      /\ Apart(Chain(n), "transactions")
    BY Zenon DEF CompleteChainHasEveryRow, Apart
  <2>1. ledger["transactions"] = Lts
    BY DEF SweepInv
  <2>2. Checkpoint(n, "transactions").completion = "complete"
    BY DEF StateOf, ResumeState
  <2>3. Covers(n)
    BY EveryChainCovers
  <2>4. QED
    BY <2>1, <2>2, <2>3, Zenon DEF Covers, Inside
<1>2. QED
  BY <1>1, WalkInit, WalkStep, SweepInit, SweepStep, PTL DEF Spec
=============================================================================
