-------------------------- MODULE PlacementProofs --------------------------
(***************************************************************************)
(* Proofs about where workshops land: ClusterTenant and MultiWorkshop.     *)
(*                                                                         *)
(* ClusterTenant, for schedules of any length, any catalog, pools, buffer  *)
(* and time.  Its repairs go through the rows one after the other, so what *)
(* they do is shown by induction over the rows: Induct has it from the     *)
(* least counterexample, ThoseIs and ProvidedIs unfold the two recursive   *)
(* functions once.                                                         *)
(*                                                                         *)
(* MultiWorkshop, for any number of assets and polls.                      *)
(***************************************************************************)
EXTENDS ClusterTenant, MultiWorkshop, FiniteSetTheorems, SequenceTheorems, WellFoundedInduction, TLAPS

-----------------------------------------------------------------------------
(* Induction over the rows of a schedule.                                  *)

\* Every set of natural numbers that is not empty has a least element: the
\* interval below it is the smallest.
LEMMA Least ==
  ASSUME NEW S \in SUBSET Nat, S # {}
  PROVE  \E x \in S : \A y \in S : x <= y
<1> DEFINE R == StrictSubsetOrdering(Nat)
           T == {0..x : x \in S}
<1>1. T \subseteq FiniteSubsetsOf(Nat)
  <2> SUFFICES ASSUME NEW x \in S PROVE 0..x \in FiniteSubsetsOf(Nat)
    OBVIOUS
  <2> QED BY FS_Interval DEF FiniteSubsetsOf
<1>2. PICK t \in T : \A u \in T : ~(<<u, t>> \in R)
  <2>1. T # {}
    OBVIOUS
  <2> HIDE DEF T, R
  <2>2. IsWellFoundedOn(R, FiniteSubsetsOf(Nat))
    BY FS_StrictSubsetOrderingWellFounded DEF R
  <2> QED BY <1>1, <2>1, <2>2, WFMin
<1>3. PICK x \in S : t = 0..x
  OBVIOUS
<1>4. ASSUME NEW y \in S, y < x PROVE FALSE
  <2>1. 0..y \in SUBSET Nat /\ 0..x \in SUBSET Nat /\ 0..y \subseteq 0..x
    BY <1>4
  <2>2. x \in 0..x /\ x \notin 0..y
    BY <1>4
  <2>3. <<0..y, 0..x>> \in R
    BY <2>1, <2>2, Zenon DEF StrictSubsetOrdering
  <2>4. 0..y \in T
    OBVIOUS
  <2> QED
    BY <1>2, <1>3, <2>3, <2>4
<1> QED
  BY <1>4

LEMMA Greatest ==
  ASSUME NEW n \in Nat, NEW S \in SUBSET (1..n), S # {}
  PROVE  \E x \in S : \A y \in S : y <= x
<1> DEFINE D == {n - x : x \in S}
<1>1. D \in SUBSET Nat /\ D # {}
  <2>1. ASSUME NEW x \in S PROVE n - x \in Nat
    <3>1. x \in 1..n
      OBVIOUS
    <3> QED BY <3>1
  <2> QED BY <2>1
<1>2. PICK d \in D : \A e \in D : d <= e
  <2> HIDE DEF D
  <2> QED BY <1>1, Least
<1>3. PICK x \in S : d = n - x
  OBVIOUS
<1>4. ASSUME NEW y \in S PROVE y <= x
  <2>1. n - x <= n - y
    BY <1>2, <1>3
  <2> QED
    BY <2>1
<1> QED
  BY <1>4

\* What holds at the start and is kept from each number to the next holds for
\* all: there would be a least number for which it does not.
LEMMA Induct ==
  ASSUME NEW N \in Nat, NEW T, 0 \in T, \A n \in 0..(N - 1) : n \in T => n + 1 \in T
  PROVE  \A n \in 0..N : n \in T
<1> DEFINE S == {n \in 0..N : n \notin T}
<1> SUFFICES ASSUME S # {} PROVE FALSE
  OBVIOUS
<1>1. S \in SUBSET Nat
  OBVIOUS
<1>2. PICK x \in S : \A y \in S : x <= y
  <2> HIDE DEF S
  <2> QED BY <1>1, Least
<1>3. x # 0 /\ x \in 0..N
  OBVIOUS
<1>4. x - 1 \in 0..(N - 1) /\ x - 1 \in 0..N
  BY <1>3
<1>5. x - 1 \in T
  BY <1>2, <1>4
<1>6. (x - 1) + 1 \in T
  BY <1>4, <1>5
<1> QED
  BY <1>6

Iterates(f, N, V, v, step) ==
    /\ f \in [0..N -> V] /\ f[0] = v
    /\ \A n \in 1..N : f[n] = step[<<n, f[n - 1]>>]

\* Steps can be repeated.
LEMMA Iterated ==
  ASSUME NEW N \in Nat, NEW V, NEW v \in V, NEW step \in [(1..N) \X V -> V]
  PROVE  \E f : Iterates(f, N, V, v, step)
<1> DEFINE Upto(n) == \E f \in [0..n -> V] :
                         f[0] = v /\ \A k \in 1..n : f[k] = step[<<k, f[k - 1]>>]
           T == {n \in 0..N : Upto(n)}
<1>1. 0 \in T
  <2> DEFINE f == [k \in 0..0 |-> v]
  <2>1. f \in [0..0 -> V] /\ f[0] = v /\ \A k \in 1..0 : f[k] = step[<<k, f[k - 1]>>]
    OBVIOUS
  <2> HIDE DEF f
  <2>2. Upto(0)
    BY <2>1
  <2> QED
    BY <2>2
<1>2. ASSUME NEW n \in 0..(N - 1), n \in T PROVE n + 1 \in T
  <2>1. PICK f \in [0..n -> V] : f[0] = v /\ \A k \in 1..n : f[k] = step[<<k, f[k - 1]>>]
    BY <1>2
  <2> DEFINE next == step[<<n + 1, f[n]>>]
             g == [k \in 0..(n + 1) |-> IF k = n + 1 THEN next ELSE f[k]]
  <2>2. next \in V
    <3>1. f[n] \in V /\ n + 1 \in 1..N
      OBVIOUS
    <3> QED BY <3>1
  <2>3. g \in [0..(n + 1) -> V] /\ g[0] = v
    BY <2>1, <2>2
  <2>4. ASSUME NEW k \in 1..(n + 1) PROVE g[k] = step[<<k, g[k - 1]>>]
    <3>1. CASE k = n + 1
      BY <3>1
    <3>2. CASE k # n + 1
      <4>1. k \in 1..n /\ k - 1 \in 0..n
        BY <3>2
      <4>2. g[k] = f[k] /\ g[k - 1] = f[k - 1]
        BY <4>1
      <4> QED BY <2>1, <4>1, <4>2
    <3> QED BY <3>1, <3>2
  <2> HIDE DEF g, next
  <2>5. Upto(n + 1)
    BY <2>3, <2>4
  <2> QED
    BY <2>5
<1>3. \A n \in 0..N : n \in T
  <2> HIDE DEF T
  <2> QED BY <1>1, <1>2, Induct
<1>4. Upto(N)
  BY <1>3
<1> QED
  BY <1>4 DEF Iterates

-----------------------------------------------------------------------------
(* Rows chosen by their index.                                             *)

LEMMA ThoseIs ==
  ASSUME NEW rs \in Seq(Row), NEW is
  PROVE  \E g \in [0..Len(rs) -> Seq(Row)] :
            /\ g[0] = <<>>
            /\ \A n \in 1..Len(rs) : g[n] = IF n \in is THEN Append(g[n - 1], rs[n]) ELSE g[n - 1]
            /\ Those(rs, is) = g[Len(rs)]
<1> DEFINE N == Len(rs)
           those(g) == [n \in 0..N |->
                          IF n = 0 THEN <<>>
                          ELSE IF n \in is THEN Append(g[n - 1], rs[n]) ELSE g[n - 1]]
           step == [p \in (1..N) \X Seq(Row) |->
                      IF p[1] \in is THEN Append(p[2], rs[p[1]]) ELSE p[2]]
           g == CHOOSE g : g = those(g)
<1>1. N \in Nat /\ \A n \in 1..N : rs[n] \in Row
  OBVIOUS
<1>2. step \in [(1..N) \X Seq(Row) -> Seq(Row)]
  <2>1. ASSUME NEW p \in (1..N) \X Seq(Row)
        PROVE  (IF p[1] \in is THEN Append(p[2], rs[p[1]]) ELSE p[2]) \in Seq(Row)
    <3>1. p[1] \in 1..N /\ p[2] \in Seq(Row)
      OBVIOUS
    <3> QED BY <1>1, <3>1
  <2> QED BY <2>1
<1>3. PICK f \in [0..N -> Seq(Row)] :
         f[0] = <<>> /\ \A n \in 1..N : f[n] = step[<<n, f[n - 1]>>]
  <2> DEFINE V == Seq(Row)
             v == <<>>
  <2>1. v \in V /\ N \in Nat /\ step \in [(1..N) \X V -> V]
    BY <1>1, <1>2
  <2>2. \E f : Iterates(f, N, V, v, step)
    <3> HIDE DEF step, N, V, v
    <3> QED BY <2>1, Iterated
  <2> QED BY <2>2 DEF Iterates
<1>4. \A n \in 1..N : f[n] = IF n \in is THEN Append(f[n - 1], rs[n]) ELSE f[n - 1]
  <2> TAKE n \in 1..N
  <2>1. n - 1 \in 0..N
    BY <1>1
  <2>2. f[n - 1] \in Seq(Row)
    BY <2>1
  <2>3. step[<<n, f[n - 1]>>] = IF n \in is THEN Append(f[n - 1], rs[n]) ELSE f[n - 1]
    <3> DEFINE u == f[n - 1]
    <3>1. u \in Seq(Row)
      BY <2>2
    <3> HIDE DEF u
    <3>2. step[<<n, u>>] = IF n \in is THEN Append(u, rs[n]) ELSE u
      BY <3>1
    <3> QED BY <3>2 DEF u
  <2> QED
    BY <1>3, <2>3
<1>5. f = those(f)
  <2>1. \A n \in 0..N : n # 0 => n \in 1..N
    BY <1>1
  <2>2. \A n \in 0..N : f[n] = those(f)[n]
    BY <1>3, <1>4, <2>1
  <2> QED BY <2>2
<1>6. g = those(g)
  <2> HIDE DEF those
  <2> QED BY <1>5
<1>7. Those(rs, is) = g[N]
  BY DEF Those
<1>8. /\ g[0] = <<>>
      /\ \A n \in 1..N : g[n] = IF n \in is THEN Append(g[n - 1], rs[n]) ELSE g[n - 1]
      /\ DOMAIN g = 0..N
  <2> HIDE DEF g
  <2>1. DOMAIN g = 0..N /\ \A n \in 0..N : g[n] = those(g)[n]
    BY <1>6
  <2>2. 0 \in 0..N /\ \A n \in 1..N : n \in 0..N /\ n # 0
    BY <1>1
  <2> QED BY <2>1, <2>2
<1> HIDE DEF g, N, those, step
<1>9. \A n \in 0..N : g[n] \in Seq(Row)
  <2> DEFINE T == {n \in 0..N : g[n] \in Seq(Row)}
  <2>1. 0 \in T
    <3>1. <<>> \in Seq(Row) /\ 0 \in 0..N
      BY <1>1
    <3> QED BY <1>8, <3>1
  <2>2. ASSUME NEW n \in 0..(N - 1), n \in T PROVE n + 1 \in T
    <3>1. n + 1 \in 1..N /\ (n + 1) - 1 = n
      BY <1>1
    <3>2. g[n + 1] = IF n + 1 \in is THEN Append(g[n], rs[n + 1]) ELSE g[n]
      BY <1>8, <3>1
    <3>3. g[n] \in Seq(Row) /\ rs[n + 1] \in Row
      BY <1>1, <2>2, <3>1
    <3>4. g[n + 1] \in Seq(Row)
      BY <3>2, <3>3
    <3> QED BY <1>1, <3>4
  <2>3. \A n \in 0..N : n \in T
    <3> HIDE DEF T
    <3> QED BY <1>1, <2>1, <2>2, Induct
  <2> QED BY <2>3
<1>10. g \in [0..N -> Seq(Row)]
  <2>1. g = [n \in 0..N |-> g[n]]
    BY <1>6, <1>8 DEF those
  <2> QED BY <1>9, <2>1
<1> QED
  BY <1>7, <1>8, <1>10 DEF N

\* Of two sequences the second of which goes on where the first ends, and whose
\* rows are chosen alike there, the chosen rows correspond.
Corresponds(a, b, rs, qs, is) ==
    /\ Len(a) = Len(b)
    /\ \A m \in 1..Len(a) : \E j \in 1..Len(rs) : j \in is /\ a[m] = rs[j] /\ b[m] = qs[j]

LEMMA AppendCorresponds ==
  ASSUME NEW rs \in Seq(Row), NEW qs \in Seq(Row), NEW is,
         NEW a \in Seq(Row), NEW b \in Seq(Row), Corresponds(a, b, rs, qs, is),
         NEW n \in 1..Len(rs), n \in is, Len(rs) <= Len(qs)
  PROVE  Corresponds(Append(a, rs[n]), Append(b, qs[n]), rs, qs, is)
<1> DEFINE aa == Append(a, rs[n])
           bb == Append(b, qs[n])
<1>1. rs[n] \in Row /\ qs[n] \in Row /\ Len(a) = Len(b) /\ Len(a) \in Nat
  BY DEF Corresponds
<1>2. Len(aa) = Len(a) + 1 /\ Len(bb) = Len(a) + 1
  BY <1>1
<1>3. ASSUME NEW m \in 1..(Len(a) + 1)
      PROVE  \E j \in 1..Len(rs) : j \in is /\ aa[m] = rs[j] /\ bb[m] = qs[j]
  <2>1. CASE m = Len(a) + 1
    <3>1. aa[m] = rs[n] /\ bb[m] = qs[n]
      BY <1>1, <2>1
    <3> QED BY <3>1
  <2>2. CASE m # Len(a) + 1
    <3>1. m \in 1..Len(a) /\ m \in 1..Len(b)
      BY <1>1, <2>2
    <3>2. aa[m] = a[m] /\ bb[m] = b[m]
      BY <1>1, <3>1
    <3> HIDE DEF aa, bb
    <3> QED BY <3>1, <3>2 DEF Corresponds
  <2> QED BY <2>1, <2>2
<1> HIDE DEF aa, bb
<1>4. Corresponds(aa, bb, rs, qs, is)
  BY <1>2, <1>3 DEF Corresponds
<1> QED
  BY <1>4 DEF aa, bb

LEMMA ThoseLinked ==
  ASSUME NEW rs \in Seq(Row), NEW qs \in Seq(Row), NEW is, NEW js, Len(rs) <= Len(qs),
         \A n \in 1..Len(rs) : n \in is <=> n \in js,
         \A n \in (Len(rs) + 1)..Len(qs) : n \notin js
  PROVE  /\ Those(rs, is) \in Seq(Row) /\ Those(qs, js) \in Seq(Row)
         /\ Corresponds(Those(rs, is), Those(qs, js), rs, qs, is)
<1> DEFINE M == Len(rs)
           N == Len(qs)
<1>1. M \in Nat /\ N \in Nat /\ M <= N
  OBVIOUS
<1>2. PICK g \in [0..M -> Seq(Row)] :
        /\ g[0] = <<>>
        /\ \A n \in 1..M : g[n] = IF n \in is THEN Append(g[n - 1], rs[n]) ELSE g[n - 1]
        /\ Those(rs, is) = g[M]
  BY ThoseIs
<1>3. PICK h \in [0..N -> Seq(Row)] :
        /\ h[0] = <<>>
        /\ \A n \in 1..N : h[n] = IF n \in js THEN Append(h[n - 1], qs[n]) ELSE h[n - 1]
        /\ Those(qs, js) = h[N]
  BY ThoseIs
<1>4. \A n \in 1..M : n \in is <=> n \in js
  OBVIOUS
<1>5. \A n \in (M + 1)..N : n \notin js
  OBVIOUS
<1> DEFINE a(n) == IF n <= M THEN g[n] ELSE g[M]
           T == {n \in 0..N : Corresponds(a(n), h[n], rs, qs, is)}
<1> HIDE DEF M, N
<1>6. 0 \in T
  <2>1. a(0) = <<>> /\ h[0] = <<>> /\ 0 \in 0..N
    BY <1>1, <1>2, <1>3
  <2>2. Corresponds(<<>>, <<>>, rs, qs, is)
    BY DEF Corresponds
  <2> QED BY <2>1, <2>2
<1>7. ASSUME NEW n \in 0..(N - 1), n \in T PROVE n + 1 \in T
  <2>1. n \in 0..N /\ n + 1 \in 1..N /\ n + 1 \in 0..N /\ (n + 1) - 1 = n
    BY <1>1
  <2>2. h[n + 1] = IF n + 1 \in js THEN Append(h[n], qs[n + 1]) ELSE h[n]
    BY <1>3, <2>1
  <2>3. Corresponds(a(n), h[n], rs, qs, is) /\ h[n] \in Seq(Row) /\ a(n) \in Seq(Row)
    <3>1. a(n) \in Seq(Row)
      BY <1>1
    <3> QED BY <1>7, <2>1, <3>1
  <2>4. CASE n + 1 <= M
    <3>1. n + 1 \in 1..M /\ n <= M
      BY <1>1, <2>4
    <3>2. a(n) = g[n] /\ a(n + 1) = g[n + 1]
      BY <2>4, <3>1
    <3>3. g[n + 1] = IF n + 1 \in is THEN Append(g[n], rs[n + 1]) ELSE g[n]
      BY <1>2, <2>1, <3>1
    <3>4. CASE n + 1 \in is
      <4>1. Corresponds(Append(a(n), rs[n + 1]), Append(h[n], qs[n + 1]), rs, qs, is)
        <5> HIDE DEF a
        <5> QED BY <1>1, <2>3, <3>1, <3>4, AppendCorresponds DEF M, N
      <4> QED BY <1>4, <2>1, <2>2, <3>1, <3>2, <3>3, <3>4, <4>1
    <3>5. CASE n + 1 \notin is
      BY <1>4, <2>1, <2>2, <2>3, <3>1, <3>2, <3>3, <3>5
    <3> QED BY <3>4, <3>5
  <2>5. CASE ~(n + 1 <= M)
    <3>1. n + 1 \in (M + 1)..N /\ a(n) = a(n + 1)
      BY <1>1, <2>1, <2>5
    <3>2. h[n + 1] = h[n]
      BY <1>5, <2>2, <3>1
    <3> HIDE DEF a
    <3> QED BY <2>1, <2>3, <3>1, <3>2
  <2> QED BY <2>4, <2>5
<1>8. \A n \in 0..N : n \in T
  <2> HIDE DEF T
  <2> QED BY <1>1, <1>6, <1>7, Induct
<1>9. N \in T /\ a(N) = g[M] /\ g[M] \in Seq(Row) /\ h[N] \in Seq(Row)
  BY <1>1, <1>8
<1> HIDE DEF a
<1> QED
  BY <1>2, <1>3, <1>9

\* The rows chosen are rows of the sequence that were to be chosen.
LEMMA ThoseRows ==
  ASSUME NEW rs \in Seq(Row), NEW is
  PROVE  /\ Those(rs, is) \in Seq(Row)
         /\ \A m \in 1..Len(Those(rs, is)) :
               \E j \in 1..Len(rs) : j \in is /\ Those(rs, is)[m] = rs[j]
<1>1. Len(rs) <= Len(rs) /\ \A n \in (Len(rs) + 1)..Len(rs) : n \notin is
  OBVIOUS
<1>2. Those(rs, is) \in Seq(Row) /\ Corresponds(Those(rs, is), Those(rs, is), rs, rs, is)
  BY <1>1, ThoseLinked
<1> QED
  BY <1>2 DEF Corresponds

\* If all are to be chosen, all are.
LEMMA ThoseAll ==
  ASSUME NEW rs \in Seq(Row), NEW is, 1..Len(rs) \subseteq is
  PROVE  Those(rs, is) = rs
<1> DEFINE N == Len(rs)
<1>1. N \in Nat /\ \A n \in 1..N : n \in is /\ rs[n] \in Row
  OBVIOUS
<1>2. PICK g \in [0..N -> Seq(Row)] :
        /\ g[0] = <<>>
        /\ \A n \in 1..N : g[n] = IF n \in is THEN Append(g[n - 1], rs[n]) ELSE g[n - 1]
        /\ Those(rs, is) = g[N]
  BY ThoseIs
<1> DEFINE T == {n \in 0..N : Len(g[n]) = n /\ \A k \in 1..n : g[n][k] = rs[k]}
<1> HIDE DEF N
<1>3. 0 \in T
  BY <1>1, <1>2
<1>4. ASSUME NEW n \in 0..(N - 1), n \in T PROVE n + 1 \in T
  <2>1. n \in 0..N /\ n + 1 \in 1..N /\ n + 1 \in 0..N /\ (n + 1) - 1 = n
    BY <1>1
  <2>2. g[n + 1] = Append(g[n], rs[n + 1]) /\ rs[n + 1] \in Row /\ g[n] \in Seq(Row)
    BY <1>1, <1>2, <2>1
  <2>3. Len(g[n]) = n /\ \A k \in 1..n : g[n][k] = rs[k]
    BY <1>4
  <2>4. Len(g[n + 1]) = n + 1
    BY <2>2, <2>3
  <2>5. ASSUME NEW k \in 1..(n + 1) PROVE g[n + 1][k] = rs[k]
    <3>1. CASE k = n + 1
      BY <2>2, <2>3, <3>1
    <3>2. CASE k # n + 1
      <4>1. k \in 1..n
        BY <2>1, <3>2
      <4> QED BY <2>2, <2>3, <4>1
    <3> QED BY <3>1, <3>2
  <2> QED BY <2>1, <2>4, <2>5
<1>5. \A n \in 0..N : n \in T
  <2> HIDE DEF T
  <2> QED BY <1>1, <1>3, <1>4, Induct
<1>6. N \in T /\ g[N] \in Seq(Row)
  BY <1>1, <1>5
<1>7. Len(g[N]) = N /\ \A k \in 1..N : g[N][k] = rs[k]
  BY <1>6
<1> QED
  <2>1. g[N] = rs
    BY <1>6, <1>7 DEF N
  <2> QED BY <1>2, <2>1

-----------------------------------------------------------------------------
(* What detection and auto-fix leave alone.                                *)

USE ItemsAssumption, TimesAssumption

\* Nothing that is a cluster is a tenant.
Separate(rs) == \A i \in 1..Len(rs) : ~(rs[i].cluster /\ rs[i].tenant)

\* Rows of the same item, as their owner or Flow wrote them.
SameRow(a, b) == Written(a) = Written(b) /\ a.auto = b.auto

LEMMA RowIs ==
  ASSUME NEW r \in Row
  PROVE  /\ r.ci \in Items /\ r.label \in Labels /\ r.override \in Overrides /\ r.at \in Dates
         /\ r.ui \in BOOLEAN /\ r.auto \in BOOLEAN /\ r.cluster \in BOOLEAN
         /\ r.tenant \in BOOLEAN /\ r.bound \in Items \cup {None}
         /\ r.at \in Int /\ (r.at # NoDate => r.at \in Nat)
  BY DEF Row, Dates

LEMMA WithDate ==
  ASSUME NEW r \in Row, NEW t \in Dates
  PROVE  LET d == [r EXCEPT !.at = t]
         IN  /\ d \in Row /\ d.at = t
             /\ d.ci = r.ci /\ d.label = r.label /\ d.override = r.override /\ d.ui = r.ui
             /\ d.auto = r.auto /\ d.cluster = r.cluster /\ d.tenant = r.tenant /\ d.bound = r.bound
  BY DEF Row

LEMMA HostIs ==
  ASSUME NEW r \in Row
  PROVE  /\ ByName(r) \in Items \cup {None} /\ Host(r) \in Items \cup {None}
         /\ \A answers \in BOOLEAN : Binding(r, answers) \in Items \cup {None}
<1>1. r.ci \in Items /\ r.override \in Overrides /\ r.bound \in Items \cup {None}
  BY RowIs
<1>2. ByName(r) \in Items \cup {None}
  <2>1. CASE r.override \in Items
    BY <2>1 DEF ByName
  <2>2. CASE r.override \notin Items \cup {"none"} /\ r.ci \in TenantNamed
    <3>1. Counterpart[r.ci] \in Items
      BY <2>2
    <3> QED BY <2>2, <3>1 DEF ByName
  <2>3. CASE ~(r.override \in Items) /\ ~(r.override \notin Items \cup {"none"} /\ r.ci \in TenantNamed)
    BY <2>3 DEF ByName
  <2> QED BY <2>1, <2>2, <2>3
<1> QED
  BY <1>1, <1>2 DEF Host, Binding

LEMMA DetectIs ==
  ASSUME NEW r \in Row, NEW answers \in BOOLEAN
  PROVE  LET d == Detect(r, answers)
         IN  /\ d \in Row /\ SameRow(d, r) /\ d.at = r.at
             /\ ~(d.cluster /\ d.tenant)
<1> DEFINE c == LabelledOrNamed(r, "cluster", ClusterNamed)
           t == ~c /\ LabelledOrNamed(r, "tenant", TenantNamed)
           b == IF t THEN Binding(r, answers) ELSE None
           d == [r EXCEPT !.cluster = c, !.tenant = t, !.bound = b]
<1>1. c \in BOOLEAN /\ t \in BOOLEAN /\ ~(c /\ t)
  BY DEF LabelledOrNamed
<1>2. b \in Items \cup {None}
  BY HostIs
<1> HIDE DEF c, t, b
<1>3. /\ d \in Row /\ d.at = r.at /\ d.cluster = c /\ d.tenant = t
      /\ d.ci = r.ci /\ d.label = r.label /\ d.override = r.override /\ d.ui = r.ui /\ d.auto = r.auto
  BY <1>1, <1>2 DEF Row
<1>4. SameRow(d, r)
  <2> HIDE DEF d
  <2> QED BY <1>3 DEF SameRow, Written
<1>5. Detect(r, answers) = d
  BY DEF Detect, c, t, b
<1> HIDE DEF d
<1> QED
  BY <1>1, <1>3, <1>4, <1>5

LEMMA FunctionIsSeq ==
  ASSUME NEW S, NEW n \in Nat, NEW f \in [1..n -> S]
  PROVE  f \in Seq(S) /\ Len(f) = n
<1>1. f \in Seq(S)
  BY SeqDef
<1>2. DOMAIN f = 1..n /\ Len(f) \in Nat /\ DOMAIN f = 1..Len(f)
  BY <1>1
<1>3. Len(f) = n
  <2>1. ASSUME n < Len(f) PROVE FALSE
    <3>1. Len(f) \in 1..Len(f) /\ Len(f) \notin 1..n
      BY <1>2, <2>1
    <3> QED BY <1>2, <3>1
  <2>2. ASSUME Len(f) < n PROVE FALSE
    <3>1. n \in 1..n /\ n \notin 1..Len(f)
      BY <1>2, <2>2
    <3> QED BY <1>2, <3>1
  <2> QED BY <1>2, <2>1, <2>2
<1> QED
  BY <1>1, <1>3

LEMMA AnalyzedIs ==
  ASSUME NEW rs \in Seq(Row), NEW answered
  PROVE  LET as == Analyzed(rs, answered)
         IN  /\ as \in Seq(Row) /\ Len(as) = Len(rs) /\ Separate(as)
             /\ \A i \in 1..Len(rs) : SameRow(as[i], rs[i]) /\ as[i].at = rs[i].at
<1> DEFINE as == Analyzed(rs, answered)
<1>1. DOMAIN rs = 1..Len(rs) /\ Len(rs) \in Nat /\ \A i \in 1..Len(rs) : rs[i] \in Row
  OBVIOUS
<1>2. DOMAIN as = 1..Len(rs) /\ \A i \in 1..Len(rs) : as[i] = Detect(rs[i], i \in answered)
  BY <1>1 DEF Analyzed
<1>3. \A i \in 1..Len(rs) : /\ as[i] \in Row /\ SameRow(as[i], rs[i]) /\ as[i].at = rs[i].at
                           /\ ~(as[i].cluster /\ as[i].tenant)
  <2> TAKE i \in 1..Len(rs)
  <2> DEFINE a == i \in answered
  <2>1. a \in BOOLEAN /\ rs[i] \in Row /\ as[i] = Detect(rs[i], a)
    BY <1>1, <1>2
  <2> HIDE DEF a, as
  <2> QED BY <2>1, DetectIs
<1>4. as = [i \in 1..Len(rs) |-> as[i]]
  BY <1>1 DEF Analyzed
<1> HIDE DEF as
<1>5. as \in Seq(Row) /\ Len(as) = Len(rs)
  <2>1. as \in [1..Len(rs) -> Row]
    BY <1>3, <1>4
  <2> QED BY <1>1, <2>1, FunctionIsSeq
<1> QED
  BY <1>3, <1>5 DEF Separate, as

LEMMA MovedIs ==
  ASSUME now \in Nat, NEW k \in Dates, NEW t \in Dates
  PROVE  /\ Moved(k, t) \in Dates /\ (Moved(k, t) = NoDate <=> k = NoDate)
         /\ Moved(Moved(k, t), t) = Moved(k, t)
         /\ (Buffer > 0 /\ k # NoDate /\ t > now + Lead) => Moved(k, t) < t
<1>1. k \in Int /\ t \in Int /\ (k # NoDate => k \in Nat) /\ (t # NoDate => t \in Nat)
  BY DEF Dates
<1>2. CASE k = NoDate \/ t = NoDate
  <2>1. Moved(k, t) = k
    BY <1>2 DEF Moved
  <2>2. t > now + Lead => t # NoDate
    BY <1>1
  <2> QED BY <1>2, <2>1, <2>2
<1>3. CASE k # NoDate /\ t # NoDate
  <2>1. Moved(k, t) = IF t - k < Buffer \/ k < now THEN Start(t) ELSE k
    BY <1>3 DEF Moved
  <2>2. k \in Nat /\ t \in Nat /\ Start(t) \in Nat
    BY <1>1, <1>3 DEF Start
  <2>3. Moved(k, t) \in Nat /\ Moved(k, t) # NoDate
    BY <2>1, <2>2
  <2>4. Moved(Moved(k, t), t) = IF t - Moved(k, t) < Buffer \/ Moved(k, t) < now
                                THEN Start(t) ELSE Moved(k, t)
    <3> DEFINE m == Moved(k, t)
    <3> HIDE DEF m
    <3>1. Moved(m, t) = IF t - m < Buffer \/ m < now THEN Start(t) ELSE m
      BY <1>3, <2>3 DEF Moved, m
    <3> QED BY <3>1 DEF m
  <2>5. Moved(Moved(k, t), t) = Moved(k, t)
    BY <2>1, <2>2, <2>4 DEF Start
  <2>6. (Buffer > 0 /\ t > now + Lead) => Moved(k, t) < t
    BY <2>1, <2>2 DEF Start
  <2> QED BY <1>3, <2>3, <2>5, <2>6 DEF Dates
<1> QED
  BY <1>2, <1>3

-----------------------------------------------------------------------------
(* Auto-fix.                                                               *)

LEMMA LinkedIs ==
  ASSUME NEW rs \in Seq(Row)
  PROVE  /\ DOMAIN rs = 1..Len(rs) /\ Len(rs) \in Nat /\ \A k \in 1..Len(rs) : rs[k] \in Row
         /\ Linked(rs) \subseteq 1..Len(rs) /\ Considered(rs) \subseteq Linked(rs)
  BY DEF Linked, Considered

\* One tenant decides when a cluster starts.
LEMMA Decider ==
  ASSUME NEW rs \in Seq(Row), NEW k \in 1..Len(rs), Movable(rs, k)
  PROVE  LET d == CHOOSE i \in Linked(rs) : Decides(rs, i, k)
         IN  /\ d \in Linked(rs) /\ Decides(rs, d, k)
             /\ \A e \in Linked(rs) : Decides(rs, e, k) => e = d
<1> DEFINE S == {i \in Linked(rs) : rs[i].bound = rs[k].ci}
           d == CHOOSE i \in Linked(rs) : Decides(rs, i, k)
<1>1. S # {} /\ S \in SUBSET (1..Len(rs)) /\ Len(rs) \in Nat
  BY LinkedIs DEF Movable
<1>2. PICK x \in S : \A y \in S : y <= x
  <2> HIDE DEF S
  <2> QED BY <1>1, Greatest
<1>3. x \in Linked(rs) /\ Decides(rs, x, k)
  BY <1>2 DEF Decides
<1>4. d \in Linked(rs) /\ Decides(rs, d, k)
  BY <1>3
<1>5. ASSUME NEW e \in Linked(rs), Decides(rs, e, k) PROVE e = d
  <2> HIDE DEF d
  <2>1. e <= d /\ d <= e
    BY <1>4, <1>5 DEF Decides
  <2>2. e \in Int /\ d \in Int
    BY <1>4, LinkedIs
  <2> QED BY <2>1, <2>2
<1> QED
  BY <1>4, <1>5

\* Nothing of a row but its date differs.
SameButDate(a, b) == a = [b EXCEPT !.at = a.at]

LEMMA SameButDateIs ==
  ASSUME NEW a \in Row, NEW b \in Row, SameButDate(a, b)
  PROVE  /\ a.ci = b.ci /\ a.label = b.label /\ a.override = b.override /\ a.ui = b.ui
         /\ a.auto = b.auto /\ a.cluster = b.cluster /\ a.tenant = b.tenant /\ a.bound = b.bound
         /\ SameRow(a, b)
         /\ a.at = b.at => a = b
<1>1. a.at \in Dates
  BY RowIs
<1> DEFINE d == [b EXCEPT !.at = a.at]
<1>2. a = d
  BY DEF SameButDate
<1>3. /\ d.ci = b.ci /\ d.label = b.label /\ d.override = b.override /\ d.ui = b.ui
      /\ d.auto = b.auto /\ d.cluster = b.cluster /\ d.tenant = b.tenant /\ d.bound = b.bound
  BY <1>1, WithDate
<1>4. b = [b EXCEPT !.at = b.at]
  BY DEF Row
<1>5. a.at = b.at => a = b
  BY <1>2, <1>4
<1> HIDE DEF d
<1> QED
  BY <1>2, <1>3, <1>5 DEF SameRow, Written

LEMMA FixedIs ==
  ASSUME now \in Nat, NEW rs \in Seq(Row)
  PROVE  LET fs == Fixed(rs)
         IN  /\ fs \in Seq(Row) /\ Len(fs) = Len(rs)
             /\ \A k \in 1..Len(rs) :
                   /\ SameButDate(fs[k], rs[k])
                   /\ ~Movable(rs, k) => fs[k] = rs[k]
                   /\ Movable(rs, k) =>
                         \A d \in Linked(rs) :
                            Decides(rs, d, k) => fs[k].at = Moved(rs[k].at, rs[d].at)
<1> DEFINE fs == Fixed(rs)
           N == Len(rs)
           decider(k) == CHOOSE i \in Linked(rs) : Decides(rs, i, k)
<1>1. DOMAIN rs = 1..N /\ N \in Nat /\ \A k \in 1..N : rs[k] \in Row
  BY LinkedIs
<1>2. /\ DOMAIN fs = 1..N
      /\ \A k \in 1..N :
            fs[k] = IF Movable(rs, k)
                    THEN [rs[k] EXCEPT !.at = Moved(rs[k].at, rs[decider(k)].at)]
                    ELSE rs[k]
      /\ fs = [k \in 1..N |-> fs[k]]
  BY <1>1 DEF Fixed
<1> HIDE DEF fs, N
<1>3. ASSUME NEW k \in 1..N
      PROVE  /\ fs[k] \in Row /\ SameButDate(fs[k], rs[k])
             /\ ~Movable(rs, k) => fs[k] = rs[k]
             /\ Movable(rs, k) =>
                   \A d \in Linked(rs) :
                      Decides(rs, d, k) => fs[k].at = Moved(rs[k].at, rs[d].at)
  <2>1. rs[k] \in Row /\ rs[k].at \in Dates
    BY <1>1, RowIs
  <2>2. CASE Movable(rs, k)
    <3>1. /\ decider(k) \in Linked(rs)
          /\ \A e \in Linked(rs) : Decides(rs, e, k) => e = decider(k)
      BY <2>2, Decider DEF N
    <3>2. rs[decider(k)] \in Row
      BY <1>1, <3>1, LinkedIs DEF N
    <3> DEFINE t == rs[decider(k)].at
               m == Moved(rs[k].at, t)
    <3>3. t \in Dates
      BY <3>2, RowIs
    <3>4. m \in Dates
      <4> HIDE DEF t
      <4> QED BY <2>1, <3>3, MovedIs
    <3>5. fs[k] = [rs[k] EXCEPT !.at = m]
      BY <1>2, <2>2
    <3> HIDE DEF m
    <3>6. fs[k] \in Row /\ fs[k].at = m /\ SameButDate(fs[k], rs[k])
      BY <2>1, <3>4, <3>5, WithDate DEF SameButDate
    <3>7. ASSUME NEW e \in Linked(rs), Decides(rs, e, k) PROVE m = Moved(rs[k].at, rs[e].at)
      BY <3>1, <3>7 DEF m
    <3> QED BY <2>2, <3>6, <3>7
  <2>3. CASE ~Movable(rs, k)
    <3>1. fs[k] = rs[k]
      BY <1>2, <2>3
    <3>2. SameButDate(rs[k], rs[k])
      BY <2>1 DEF SameButDate, Row
    <3> QED BY <2>1, <2>3, <3>1, <3>2
  <2> QED BY <2>2, <2>3
<1>4. fs \in Seq(Row) /\ Len(fs) = N
  <2>1. fs \in [1..N -> Row]
    BY <1>2, <1>3
  <2> QED BY <1>1, <2>1, FunctionIsSeq
<1> QED
  BY <1>3, <1>4 DEF fs, N

\* A second auto-fix finds the same clusters to move, and each with the date of
\* the same tenant, which the first has not touched.
LEMMA StableFix ==
  ASSUME now \in Nat, NEW rs \in Seq(Row), Separate(rs)
  PROVE  Fixed(Fixed(rs)) = Fixed(rs)
<1> DEFINE fs == Fixed(rs)
           gs == Fixed(fs)
           N == Len(rs)
<1>1. /\ fs \in Seq(Row) /\ Len(fs) = N
      /\ \A k \in 1..N :
            /\ SameButDate(fs[k], rs[k])
            /\ ~Movable(rs, k) => fs[k] = rs[k]
            /\ Movable(rs, k) =>
                  \A d \in Linked(rs) :
                     Decides(rs, d, k) => fs[k].at = Moved(rs[k].at, rs[d].at)
  BY FixedIs
<1> HIDE DEF fs
<1>2. /\ gs \in Seq(Row) /\ Len(gs) = N
      /\ \A k \in 1..N :
            /\ SameButDate(gs[k], fs[k])
            /\ ~Movable(fs, k) => gs[k] = fs[k]
            /\ Movable(fs, k) =>
                  \A d \in Linked(fs) :
                     Decides(fs, d, k) => gs[k].at = Moved(fs[k].at, fs[d].at)
  BY <1>1, FixedIs
<1> HIDE DEF gs
<1>3. /\ DOMAIN rs = 1..N /\ DOMAIN fs = 1..N /\ DOMAIN gs = 1..N
      /\ \A k \in 1..N : rs[k] \in Row /\ fs[k] \in Row /\ gs[k] \in Row
  BY <1>1, <1>2, LinkedIs
<1> HIDE DEF N
<1>4. \A k \in 1..N : /\ fs[k].ci = rs[k].ci /\ fs[k].bound = rs[k].bound
                     /\ fs[k].cluster = rs[k].cluster /\ fs[k].tenant = rs[k].tenant
  BY <1>1, <1>3, SameButDateIs
<1>5. Linked(fs) = Linked(rs) /\ Linked(rs) \subseteq 1..N /\ Considered(rs) \subseteq 1..N
  BY <1>3, <1>4 DEF Linked, Considered
<1>6. Considered(fs) = Considered(rs)
  BY <1>4, <1>5 DEF Considered
<1>7. ASSUME NEW k \in 1..N
      PROVE  /\ Movable(fs, k) <=> Movable(rs, k)
             /\ \A i \in Linked(rs) : Decides(fs, i, k) <=> Decides(rs, i, k)
  <2>1. Movable(fs, k) <=> Movable(rs, k)
    BY <1>3, <1>4, <1>5, <1>6 DEF Movable
  <2>2. \A i \in Linked(rs) : Decides(fs, i, k) <=> Decides(rs, i, k)
    BY <1>4, <1>5 DEF Decides
  <2> QED BY <2>1, <2>2
<1>8. ASSUME NEW k \in 1..N PROVE gs[k] = fs[k]
  <2>1. CASE ~Movable(rs, k)
    BY <1>2, <1>7, <2>1
  <2>2. CASE Movable(rs, k)
    <3>1. PICK d \in Linked(rs) : Decides(rs, d, k)
      BY <2>2, Decider DEF N
    <3>2. d \in 1..N /\ rs[d].tenant
      BY <1>5 DEF Linked
    <3>3. fs[d] = rs[d]
      <4>1. ~rs[d].cluster
        BY <3>2 DEF Separate, N
      <4>2. ~Movable(rs, d)
        BY <4>1 DEF Movable
      <4> QED BY <1>1, <3>2, <4>2
    <3>4. fs[k].at = Moved(rs[k].at, rs[d].at) /\ gs[k].at = Moved(fs[k].at, rs[d].at)
      BY <1>1, <1>2, <1>5, <1>7, <2>2, <3>1, <3>3
    <3>5. rs[k].at \in Dates /\ rs[d].at \in Dates
      BY <1>3, <3>2, RowIs
    <3>6. gs[k].at = fs[k].at
      BY <3>4, <3>5, MovedIs
    <3> QED BY <1>2, <1>3, <3>6, SameButDateIs
  <2> QED BY <2>1, <2>2
<1>9. gs = fs
  BY <1>1, <1>2, <1>3, <1>8, SeqEqual
<1> QED
  BY <1>9 DEF fs, gs

\* A tenant alone on the one row of its cluster decides when it starts.
LEMMA CuringFix ==
  ASSUME now \in Nat, NEW rs \in Seq(Row), Buffer > 0,
         NEW i \in 1..Len(rs), Alone(rs, i), rs[i].at > now + Lead,
         NEW k \in 1..Len(rs), rs[k].cluster, rs[k].ci = rs[i].bound, rs[k].at # NoDate,
         \A j \in DOMAIN rs \ {k} : rs[j].ci # rs[k].ci
  PROVE  Finding(Fixed(rs), DOMAIN rs, rs[i], TRUE) = "ok"
<1> DEFINE fs == Fixed(rs)
           N == Len(rs)
<1>1. DOMAIN rs = 1..N /\ N \in Nat /\ \A j \in 1..N : rs[j] \in Row
  BY LinkedIs
<1>2. /\ fs \in Seq(Row) /\ Len(fs) = N
      /\ \A j \in 1..N :
            /\ SameButDate(fs[j], rs[j])
            /\ Movable(rs, j) =>
                  \A d \in Linked(rs) :
                     Decides(rs, d, j) => fs[j].at = Moved(rs[j].at, rs[d].at)
  BY FixedIs
<1> HIDE DEF fs
<1>3. DOMAIN fs = 1..N /\ \A j \in 1..N : fs[j] \in Row
  BY <1>2, LinkedIs
<1>4. \A j \in 1..N : fs[j].ci = rs[j].ci /\ fs[j].cluster = rs[j].cluster
  BY <1>1, <1>2, <1>3, SameButDateIs
<1>5. rs[i].bound # None /\ rs[i].bound \in Items
  <2>1. rs[k].ci \in Items
    BY <1>1, RowIs
  <2> QED BY <2>1
<1>6. i \in Linked(rs) /\ Linked(rs) \subseteq 1..N
  BY <1>1, LinkedIs DEF Linked, Alone
<1>7. \A j \in Linked(rs) : j = i \/ (rs[j].ci # rs[i].ci /\ rs[j].bound # rs[k].ci)
  <2> SUFFICES ASSUME NEW j \in Linked(rs), j # i
               PROVE  rs[j].ci # rs[i].ci /\ rs[j].bound # rs[k].ci
    OBVIOUS
  <2>1. j \in DOMAIN rs \ {i} /\ rs[j].tenant
    BY <1>1, <1>6 DEF Linked
  <2>2. rs[j].ci # rs[i].ci /\ Host(rs[j]) # Host(rs[i])
    BY <2>1 DEF Alone
  <2>3. ASSUME rs[j].bound = rs[k].ci PROVE FALSE
    BY <1>5, <2>2, <2>3 DEF Host
  <2> QED BY <2>2, <2>3
<1>8. i \in Considered(rs)
  BY <1>6, <1>7 DEF Considered
<1>9. Decides(rs, i, k)
  BY <1>6, <1>7 DEF Decides
<1>10. Movable(rs, k)
  BY <1>1, <1>8 DEF Movable
<1>11. fs[k].at = Moved(rs[k].at, rs[i].at)
  BY <1>2, <1>6, <1>9, <1>10
<1>12. fs[k].at # NoDate /\ fs[k].at < rs[i].at /\ rs[i].at # NoDate /\ fs[k].at \in Int /\ rs[i].at \in Int
  <2>1. rs[k].at \in Dates /\ rs[i].at \in Dates /\ rs[i].at \in Int
    BY <1>1, RowIs
  <2>2. fs[k].at \in Int
    BY <1>3, RowIs
  <2> QED BY <1>11, <2>1, <2>2, MovedIs
<1> DEFINE hosts == {j \in DOMAIN rs : fs[j].cluster /\ fs[j].ci = rs[i].bound}
           host == CHOOSE j \in hosts : \A e \in hosts : e <= j
<1>13. hosts = {k}
  BY <1>1, <1>4
<1>14. host = k
  <2> HIDE DEF hosts
  <2>1. k \in Int
    BY <1>1
  <2> QED BY <1>13, <2>1
<1>15. Finding(fs, DOMAIN rs, rs[i], TRUE) = IF NoDate \in {fs[host].at, rs[i].at} THEN "warning"
                                            ELSE IF fs[host].at >= rs[i].at THEN "error" ELSE "ok"
  <2>1. hosts # {}
    BY <1>13
  <2> QED BY <1>5, <2>1 DEF Finding
<1> DEFINE found == Finding(fs, DOMAIN rs, rs[i], TRUE)
<1> HIDE DEF host, hosts, found
<1>16. found = IF NoDate \in {fs[k].at, rs[i].at} THEN "warning"
               ELSE IF fs[k].at >= rs[i].at THEN "error" ELSE "ok"
  BY <1>14, <1>15 DEF found
<1>17. NoDate \notin {fs[k].at, rs[i].at} /\ ~(fs[k].at >= rs[i].at)
  BY <1>12
<1>18. found = "ok"
  BY <1>16, <1>17
<1> QED
  BY <1>18 DEF found, fs

-----------------------------------------------------------------------------
(* The provision of clusters that are missing.                             *)

LEMMA ClusterRowIs ==
  ASSUME NEW c \in Items, NEW t \in Dates
  PROVE  LET r == ClusterRow(c, t)
         IN r \in Row /\ r.ci = c /\ r.at = t /\ r.auto /\ r.cluster /\ ~r.tenant
  BY DEF ClusterRow, Row, Labels, Overrides

\* What a row for the cluster of row i changes.
LEMMA SuppliedIs ==
  ASSUME now \in Nat, NEW rs \in Seq(Row), NEW i \in 1..Len(rs)
  PROVE  LET s == Supplied(rs, i)
             c == Host(rs[i])
             n == Len(rs) + 1
         IN  /\ s \in Seq(Row)
             /\ (c = None \/ c \in ClusterItems(rs)) => s = rs
             /\ (c # None /\ c \notin ClusterItems(rs)) =>
                   /\ Len(s) = n
                   /\ s[n].ci = c /\ s[n].auto /\ s[n].cluster /\ ~s[n].tenant
                   /\ \A k \in 1..Len(rs) : k # i => s[k] = rs[k]
                   /\ SameButDate(s[i], rs[i])
                   /\ s[i].at >= rs[i].at
                   /\ rs[i].at # NoDate => s[i].at - s[n].at >= Buffer
<1> DEFINE s == Supplied(rs, i)
           c == Host(rs[i])
           N == Len(rs)
           t == rs[i].at
<1>1. DOMAIN rs = 1..N /\ N \in Nat /\ \A k \in 1..N : rs[k] \in Row
  BY LinkedIs
<1>2. c \in Items \cup {None} /\ rs[i] \in Row /\ t \in Dates /\ t \in Int /\ (t # NoDate => t \in Nat)
  BY <1>1, HostIs, RowIs
<1>3. CASE c = None \/ c \in ClusterItems(rs)
  <2>1. s = rs
    BY <1>3 DEF Supplied
  <2> QED BY <1>3, <2>1
<1>4. CASE c # None /\ c \notin ClusterItems(rs) /\ t = NoDate
  <2> DEFINE row == ClusterRow(c, NoDate)
  <2>1. row \in Row /\ row.ci = c /\ row.auto /\ row.cluster /\ ~row.tenant
    <3>1. c \in Items /\ NoDate \in Dates
      BY <1>2, <1>4 DEF Dates
    <3> HIDE DEF c
    <3> QED BY <3>1, ClusterRowIs
  <2>2. s = Append(rs, row)
    BY <1>4 DEF Supplied
  <2> HIDE DEF row, s
  <2>3. /\ s \in Seq(Row) /\ Len(s) = N + 1 /\ s[N + 1] = row
        /\ \A k \in 1..N : s[k] = rs[k]
    BY <1>1, <2>1, <2>2, AppendProperties
  <2>4. SameButDate(s[i], rs[i]) /\ s[i].at >= t
    <3>1. SameButDate(rs[i], rs[i])
      BY <1>2 DEF SameButDate, Row
    <3> QED BY <1>2, <2>3, <3>1
  <2> HIDE DEF c, t, N
  <2>5. /\ Len(s) = N + 1
        /\ s[N + 1].ci = c /\ s[N + 1].auto /\ s[N + 1].cluster /\ ~s[N + 1].tenant
        /\ \A k \in 1..N : k # i => s[k] = rs[k]
    BY <2>1, <2>3
  <2> QED BY <1>4, <2>3, <2>4, <2>5 DEF s, c, t, N
<1>5. CASE c # None /\ c \notin ClusterItems(rs) /\ t # NoDate
  <2> DEFINE start == Start(t)
             row == ClusterRow(c, start)
             pushed == Pushed(t, start)
             qs == [rs EXCEPT ![i] = [rs[i] EXCEPT !.at = pushed]]
  <2>1. start \in Nat /\ pushed \in Nat /\ pushed >= t /\ pushed - start >= Buffer
    BY <1>2, <1>5 DEF Start, Pushed
  <2>2. s = Append(qs, row)
    BY <1>5 DEF Supplied
  <2> HIDE DEF start, pushed
  <2>3. row \in Row /\ row.ci = c /\ row.at = start /\ row.auto /\ row.cluster /\ ~row.tenant
    <3>1. c \in Items /\ start \in Dates
      BY <1>2, <1>5, <2>1 DEF Dates
    <3> HIDE DEF c
    <3> QED BY <3>1, ClusterRowIs
  <2> DEFINE r == [rs[i] EXCEPT !.at = pushed]
  <2>4. r \in Row /\ r.at = pushed /\ SameButDate(r, rs[i])
    BY <1>2, <2>1, WithDate DEF Dates, SameButDate
  <2> HIDE DEF r
  <2>5. /\ qs \in Seq(Row) /\ Len(qs) = N /\ qs[i] = r
        /\ \A k \in 1..N : k # i => qs[k] = rs[k]
    BY <1>1, <2>4 DEF r
  <2> HIDE DEF qs, row, s
  <2>6. /\ s \in Seq(Row) /\ Len(s) = N + 1 /\ s[N + 1] = row
        /\ \A k \in 1..N : s[k] = qs[k]
    BY <1>1, <2>2, <2>3, <2>5, AppendProperties
  <2>7. s[i] = r /\ \A k \in 1..N : k # i => s[k] = rs[k]
    BY <2>5, <2>6
  <2> HIDE DEF c, t, N
  <2>8. /\ Len(s) = N + 1
        /\ s[N + 1].ci = c /\ s[N + 1].auto /\ s[N + 1].cluster /\ ~s[N + 1].tenant
        /\ s[i].at >= t /\ s[i].at - s[N + 1].at >= Buffer /\ SameButDate(s[i], rs[i])
    BY <2>1, <2>3, <2>4, <2>6, <2>7
  <2> QED BY <1>5, <2>6, <2>7, <2>8 DEF s, c, t, N
<1> QED
  BY <1>3, <1>4, <1>5

\* No row is lost, moved to another place or to an earlier date, and those that
\* are new are Flow's clusters.
Grown(qs, rs) ==
    /\ qs \in Seq(Row) /\ Len(rs) <= Len(qs)
    /\ \A k \in 1..Len(rs) : SameButDate(qs[k], rs[k]) /\ qs[k].at >= rs[k].at
    /\ \A k \in (Len(rs) + 1)..Len(qs) : qs[k].auto /\ qs[k].cluster /\ ~qs[k].tenant

LEMMA SuppliedGrows ==
  ASSUME now \in Nat, NEW rs \in Seq(Row), NEW qs, Grown(qs, rs), NEW i \in 1..Len(rs)
  PROVE  Grown(Supplied(qs, i), rs)
<1> DEFINE s == Supplied(qs, i)
           c == Host(qs[i])
           n == Len(qs) + 1
<1>1. /\ qs \in Seq(Row) /\ Len(rs) \in Nat /\ Len(qs) \in Nat /\ Len(rs) <= Len(qs)
      /\ i \in 1..Len(qs) /\ i \in 1..Len(rs)
  BY DEF Grown
<1>2. /\ s \in Seq(Row)
      /\ (c = None \/ c \in ClusterItems(qs)) => s = qs
      /\ (c # None /\ c \notin ClusterItems(qs)) =>
            /\ Len(s) = n
            /\ s[n].ci = c /\ s[n].auto /\ s[n].cluster /\ ~s[n].tenant
            /\ \A k \in 1..Len(qs) : k # i => s[k] = qs[k]
            /\ SameButDate(s[i], qs[i])
            /\ s[i].at >= qs[i].at
            /\ qs[i].at # NoDate => s[i].at - s[n].at >= Buffer
  BY <1>1, SuppliedIs, Zenon
<1> HIDE DEF s, c
<1>3. CASE c = None \/ c \in ClusterItems(qs)
  BY <1>2, <1>3 DEF s
<1>4. CASE c # None /\ c \notin ClusterItems(qs)
  <2>1. Len(s) = n /\ Len(rs) <= Len(s)
    BY <1>1, <1>2, <1>4
  <2>2. ASSUME NEW k \in 1..Len(rs)
        PROVE  SameButDate(s[k], rs[k]) /\ s[k].at >= rs[k].at
    <3>1. SameButDate(qs[k], rs[k]) /\ qs[k].at >= rs[k].at /\ k \in 1..Len(qs)
      BY <1>1 DEF Grown
    <3>2. CASE k = i
      <4>1. SameButDate(s[k], qs[k]) /\ s[k].at >= qs[k].at
        BY <1>2, <1>4, <3>2
      <4>2. s[k] \in Row /\ qs[k] \in Row /\ rs[k] \in Row /\ k \in 1..Len(s)
        BY <1>1, <1>2, <2>1, <3>1
      <4>3. s[k].at \in Int /\ qs[k].at \in Int /\ rs[k].at \in Int
        BY <4>2, RowIs
      <4>4. SameButDate(s[k], rs[k])
        BY <3>1, <4>1, <4>2 DEF SameButDate, Row
      <4> QED BY <3>1, <4>1, <4>3, <4>4
    <3>3. CASE k # i
      BY <1>2, <1>4, <3>1, <3>3
    <3> QED BY <3>2, <3>3
  <2>3. ASSUME NEW k \in (Len(rs) + 1)..Len(s)
        PROVE  s[k].auto /\ s[k].cluster /\ ~s[k].tenant
    <3>1. CASE k = n
      BY <1>2, <1>4, <3>1
    <3>2. CASE k # n
      <4>1. k \in (Len(rs) + 1)..Len(qs) /\ k \in 1..Len(qs) /\ k # i
        BY <1>1, <2>1, <3>2
      <4>2. s[k] = qs[k]
        BY <1>2, <1>4, <4>1
      <4> QED BY <4>1, <4>2 DEF Grown
    <3> QED BY <3>1, <3>2
  <2>4. Grown(s, rs)
    BY <1>2, <2>1, <2>2, <2>3 DEF Grown
  <2> QED BY <2>4 DEF s
<1> QED
  BY <1>3, <1>4, <1>2

LEMMA AtRiskIs ==
  ASSUME NEW rs \in Seq(Row)
  PROVE  /\ AtRisk(rs) \in Seq(Row)
         /\ \A n \in 1..Len(AtRisk(rs)) : \E j \in 1..Len(rs) : AtRisk(rs)[n] = rs[j]
<1> DEFINE of(tier) == Those(rs, {i \in DOMAIN rs :
                          rs[i].tenant /\ Tier(rs[i]) = tier /\ ~HasClusterRow(rs, rs[i])})
           a == of("missing_refs")
           b == of("ref_no_pool")
           c == of("pool_no_capacity")
           From(s) == s \in Seq(Row) /\ \A m \in 1..Len(s) : \E j \in 1..Len(rs) : s[m] = rs[j]
<1>1. \A is : From(Those(rs, is))
  BY ThoseRows
<1>2. From(a) /\ From(b) /\ From(c)
  <2> HIDE DEF From
  <2> QED BY <1>1
<1>3. AtRisk(rs) = a \o b \o c
  BY DEF AtRisk
<1>4. ASSUME NEW x, NEW y, From(x), From(y) PROVE From(x \o y)
  <2>1. /\ x \o y \in Seq(Row) /\ Len(x \o y) = Len(x) + Len(y) /\ Len(x) \in Nat /\ Len(y) \in Nat
        /\ \A m \in 1..(Len(x) + Len(y)) : (x \o y)[m] = IF m <= Len(x) THEN x[m] ELSE y[m - Len(x)]
    BY <1>4, ConcatProperties
  <2>2. ASSUME NEW m \in 1..(Len(x) + Len(y)) PROVE \E j \in 1..Len(rs) : (x \o y)[m] = rs[j]
    <3>1. CASE m <= Len(x)
      <4>1. m \in 1..Len(x) /\ (x \o y)[m] = x[m]
        BY <2>1, <3>1
      <4> QED BY <1>4, <4>1
    <3>2. CASE ~(m <= Len(x))
      <4>1. m - Len(x) \in 1..Len(y) /\ (x \o y)[m] = y[m - Len(x)]
        BY <2>1, <3>2
      <4> QED BY <1>4, <4>1
    <3> QED BY <3>1, <3>2
  <2> QED BY <2>1, <2>2
<1> HIDE DEF From, a, b, c
<1>5. From((a \o b) \o c)
  BY <1>2, <1>4
<1> QED
  BY <1>3, <1>5 DEF From

LEMMA LastIs ==
  ASSUME NEW rs \in Seq(Row), NEW j \in 1..Len(rs)
  PROVE  Last(rs, rs[j].ci) \in 1..Len(rs) /\ rs[Last(rs, rs[j].ci)].ci = rs[j].ci
<1> DEFINE item == rs[j].ci
           S == {i \in 1..Len(rs) : rs[i].ci = item}
<1>1. S # {} /\ S \in SUBSET (1..Len(rs)) /\ Len(rs) \in Nat /\ DOMAIN rs = 1..Len(rs)
  OBVIOUS
<1>2. PICK x \in S : \A y \in S : y <= x
  <2> HIDE DEF S
  <2> QED BY <1>1, Greatest
<1>3. x \in DOMAIN rs /\ rs[x].ci = item /\ \A i \in DOMAIN rs : rs[i].ci = item => i <= x
  BY <1>1, <1>2
<1> HIDE DEF item
<1>4. Last(rs, item) \in DOMAIN rs /\ rs[Last(rs, item)].ci = item
  BY <1>3 DEF Last
<1> QED
  BY <1>1, <1>4 DEF item

\* The tenants at risk are taken up one after the other.
LEMMA ProvidedIs ==
  ASSUME now \in Nat, NEW rs \in Seq(Row)
  PROVE  LET risk == AtRisk(rs)
         IN  \E g : /\ g[0] = rs /\ Provided(rs) = g[Len(risk)]
                    /\ \A n \in 1..Len(risk) : g[n] = Supplied(g[n - 1], Last(rs, risk[n].ci))
                    /\ \A n \in 0..Len(risk) : Grown(g[n], rs)
<1> DEFINE risk == AtRisk(rs)
           N == Len(risk)
           V == {q \in Seq(Row) : Grown(q, rs)}
           at(n) == Last(rs, risk[n].ci)
           provided(g) == [n \in 0..N |-> IF n = 0 THEN rs ELSE Supplied(g[n - 1], at(n))]
           step == [p \in (1..N) \X V |-> Supplied(p[2], at(p[1]))]
           g == CHOOSE g : g = provided(g)
<1>1. N \in Nat /\ \A n \in 1..N : at(n) \in 1..Len(rs)
  <2>1. risk \in Seq(Row) /\ \A n \in 1..N : \E j \in 1..Len(rs) : risk[n] = rs[j]
    BY AtRiskIs
  <2> HIDE DEF risk
  <2>2. N \in Nat
    BY <2>1
  <2>3. ASSUME NEW n \in 1..N PROVE at(n) \in 1..Len(rs)
    <3>1. PICK j \in 1..Len(rs) : risk[n] = rs[j]
      BY <2>1, <2>3
    <3>2. Last(rs, rs[j].ci) \in 1..Len(rs)
      BY LastIs
    <3> QED BY <3>1, <3>2
  <2> HIDE DEF N, at
  <2> QED BY <2>2, <2>3
<1>2. ASSUME NEW q \in V, NEW n \in 1..N PROVE Supplied(q, at(n)) \in V
  <2> DEFINE i == at(n)
  <2>1. i \in 1..Len(rs)
    BY <1>1
  <2> HIDE DEF i
  <2>2. Grown(Supplied(q, i), rs)
    BY <2>1, SuppliedGrows
  <2> QED BY <2>2 DEF i, Grown
<1>3. rs \in V
  <2>1. \A k \in 1..Len(rs) : SameButDate(rs[k], rs[k]) /\ rs[k].at >= rs[k].at
    <3> TAKE k \in 1..Len(rs)
    <3>1. rs[k] \in Row /\ rs[k].at \in Int
      BY RowIs
    <3> QED BY <3>1 DEF SameButDate, Row
  <2> QED BY <2>1 DEF Grown
<1> HIDE DEF V, N, at
<1>4. step \in [(1..N) \X V -> V]
  BY <1>2
<1>5. PICK f : Iterates(f, N, V, rs, step)
  <2> HIDE DEF step
  <2> QED BY <1>1, <1>3, <1>4, Iterated
<1>6. f \in [0..N -> V] /\ f[0] = rs /\ \A n \in 1..N : f[n] = step[<<n, f[n - 1]>>]
  <2> HIDE DEF step
  <2> QED BY <1>5 DEF Iterates
<1>7. \A n \in 1..N : f[n] = Supplied(f[n - 1], at(n))
  <2> TAKE n \in 1..N
  <2> DEFINE u == f[n - 1]
  <2>1. n - 1 \in 0..N
    BY <1>1
  <2>2. u \in V
    BY <1>6, <2>1
  <2> HIDE DEF u
  <2>3. step[<<n, u>>] = Supplied(u, at(n))
    BY <2>2
  <2> HIDE DEF step
  <2> QED
    BY <1>6, <2>3 DEF u
<1>8. f = provided(f)
  <2>1. \A n \in 0..N : n # 0 => n \in 1..N
    BY <1>1
  <2>2. \A n \in 0..N : f[n] = provided(f)[n]
    BY <1>6, <1>7, <2>1
  <2> QED BY <1>6, <2>2
<1>9. g = provided(g)
  <2> HIDE DEF provided
  <2> QED BY <1>8
<1>10. Provided(rs) = g[N]
  BY DEF Provided, N, at
<1>11. /\ g[0] = rs /\ \A n \in 1..N : g[n] = Supplied(g[n - 1], at(n))
  <2> HIDE DEF g
  <2>1. DOMAIN g = 0..N /\ \A n \in 0..N : g[n] = provided(g)[n]
    BY <1>9
  <2>2. 0 \in 0..N /\ \A n \in 1..N : n \in 0..N /\ n # 0
    BY <1>1
  <2> QED BY <2>1, <2>2
<1> HIDE DEF g, provided, step
<1>12. \A n \in 0..N : g[n] \in V
  <2> DEFINE T == {n \in 0..N : g[n] \in V}
  <2>1. 0 \in T
    BY <1>1, <1>3, <1>11
  <2>2. ASSUME NEW n \in 0..(N - 1), n \in T PROVE n + 1 \in T
    <3>1. n + 1 \in 1..N /\ (n + 1) - 1 = n
      BY <1>1
    <3>2. g[n + 1] = Supplied(g[n], at(n + 1))
      BY <1>11, <3>1
    <3> QED BY <1>1, <1>2, <2>2, <3>1, <3>2
  <2>3. \A n \in 0..N : n \in T
    <3> HIDE DEF T
    <3> QED BY <1>1, <2>1, <2>2, Induct
  <2> QED BY <2>3
<1>13. \A n \in 0..N : Grown(g[n], rs)
  BY <1>12 DEF V
<1> QED
  BY <1>10, <1>11, <1>13 DEF N, at

\* A tenant stays without a cluster until it is taken up, and keeps the one it
\* gets: the others get theirs elsewhere.
LEMMA ServingProvision ==
  ASSUME now \in Nat, NEW rs \in Seq(Row), NEW i \in 1..Len(rs), Alone(rs, i),
         Host(rs[i]) # None, rs[i].at # NoDate,
         \A j \in DOMAIN rs \ {i} : Host(rs[j]) # Host(rs[i]),
         NEW n0 \in 1..Len(AtRisk(rs)), AtRisk(rs)[n0] = rs[i],
         Host(rs[i]) \notin ClusterItems(rs)
  PROVE  LET qs == Provided(rs)
         IN  \E k \in 1..Len(qs) :
                /\ qs[k].ci = Host(rs[i]) /\ qs[k].cluster
                /\ qs[i].at - qs[k].at >= Buffer
<1> DEFINE risk == AtRisk(rs)
           N == Len(risk)
           c == Host(rs[i])
           at(n) == Last(rs, risk[n].ci)
           Pending(q) == q[i].at = rs[i].at /\ c \notin ClusterItems(q)
           Served(q) == \E k \in 1..Len(q) :
                           k > Len(rs) /\ q[k].ci = c /\ q[k].cluster /\ q[i].at - q[k].at >= Buffer
<1>1. PICK g : /\ g[0] = rs /\ Provided(rs) = g[N]
               /\ \A n \in 1..N : g[n] = Supplied(g[n - 1], at(n))
               /\ \A n \in 0..N : Grown(g[n], rs)
  BY ProvidedIs
<1>2. /\ risk \in Seq(Row) /\ N \in Nat /\ n0 \in 1..N
      /\ \A n \in 1..N : at(n) \in 1..Len(rs)
      /\ at(n0) = i
  <2>1. risk \in Seq(Row) /\ \A n \in 1..N : \E j \in 1..Len(rs) : risk[n] = rs[j]
    BY AtRiskIs
  <2>2. \A n \in 1..N : at(n) \in 1..Len(rs)
    <3> HIDE DEF risk
    <3> QED BY <2>1, LastIs
  <2>3. risk[n0] = rs[i] /\ n0 \in 1..N
    OBVIOUS
  <2>4. at(n0) = i
    <3> HIDE DEF risk
    <3>1. rs[at(n0)].ci = rs[i].ci /\ at(n0) \in DOMAIN rs
      BY <2>3, LastIs
    <3> HIDE DEF at
    <3> QED BY <3>1 DEF Alone
  <2> HIDE DEF at
  <2> QED BY <2>1, <2>2, <2>3, <2>4
<1>3. /\ DOMAIN rs = 1..Len(rs) /\ Len(rs) \in Nat /\ \A k \in 1..Len(rs) : rs[k] \in Row
      /\ c # None /\ c \notin ClusterItems(rs) /\ rs[i].at # NoDate
      /\ \A j \in 1..Len(rs) : j # i => Host(rs[j]) # c
  BY LinkedIs
<1> HIDE DEF risk, N, at, c
<1> DEFINE T == {n \in 0..N : (n < n0 /\ Pending(g[n])) \/ Served(g[n])}
<1>4. 0 \in T
  BY <1>1, <1>2, <1>3
<1>5. ASSUME NEW n \in 0..(N - 1), n \in T PROVE n + 1 \in T
  <2> DEFINE q == g[n]
             l == at(n + 1)
             s == Supplied(q, l)
             m == Len(q) + 1
  <2>1. n \in 0..N /\ n + 1 \in 1..N /\ n + 1 \in 0..N /\ (n + 1) - 1 = n
    BY <1>2
  <2>2. g[n + 1] = s
    BY <1>1, <2>1
  <2>3. Grown(q, rs)
    BY <1>1, <2>1
  <2>4. (n < n0 /\ Pending(q)) \/ Served(q)
    BY <1>5
  <2>5. l \in 1..Len(rs)
    BY <1>2, <2>1
  <2>6. n + 1 = n0 => l = i
    BY <1>2
  <2> HIDE DEF q, l
  <2>7. /\ q \in Seq(Row) /\ Len(q) \in Nat /\ Len(rs) <= Len(q) /\ DOMAIN q = 1..Len(q)
        /\ \A k \in 1..Len(q) : q[k] \in Row
        /\ \A k \in 1..Len(rs) : k \in 1..Len(q) /\ SameButDate(q[k], rs[k])
    BY <1>3, <2>3, LinkedIs DEF Grown
  <2>8. \A k \in 1..Len(rs) : Host(q[k]) = Host(rs[k]) /\ q[k].ci = rs[k].ci
    <3> TAKE k \in 1..Len(rs)
    <3>1. q[k].ci = rs[k].ci /\ q[k].override = rs[k].override /\ q[k].bound = rs[k].bound
      BY <1>3, <2>7, SameButDateIs
    <3> QED BY <3>1 DEF Host, ByName
  <2>9. l \in 1..Len(q)
    BY <2>5, <2>7
  <2>10. /\ s \in Seq(Row)
         /\ (Host(q[l]) = None \/ Host(q[l]) \in ClusterItems(q)) => s = q
         /\ (Host(q[l]) # None /\ Host(q[l]) \notin ClusterItems(q)) =>
               /\ Len(s) = m
               /\ s[m].ci = Host(q[l]) /\ s[m].auto /\ s[m].cluster /\ ~s[m].tenant
               /\ \A k \in 1..Len(q) : k # l => s[k] = q[k]
               /\ SameButDate(s[l], q[l])
               /\ s[l].at >= q[l].at
               /\ q[l].at # NoDate => s[l].at - s[m].at >= Buffer
    BY <2>7, <2>9, SuppliedIs, Zenon
  <2> HIDE DEF s
  <2>11. CASE Served(q)
    <3>1. PICK k \in 1..Len(q) : k > Len(rs) /\ q[k].ci = c /\ q[k].cluster
                                 /\ q[i].at - q[k].at >= Buffer
      BY <2>11
    <3>2. c \in ClusterItems(q)
      BY <2>7, <3>1 DEF ClusterItems
    <3>3. CASE s = q
      BY <2>1, <2>2, <2>11, <3>3
    <3>4. CASE s # q
      <4>1. Host(q[l]) # None /\ Host(q[l]) \notin ClusterItems(q)
        BY <2>10, <3>4
      <4>2. l # i
        BY <2>5, <2>8, <3>2, <4>1 DEF c
      <4>3. Len(s) = m /\ s[i] = q[i] /\ s[k] = q[k] /\ k \in 1..Len(s)
        <5>1. k # l /\ i \in 1..Len(q) /\ i # l
          BY <2>5, <2>7, <3>1, <4>2
        <5> QED BY <2>7, <2>10, <4>1, <5>1
      <4>4. Served(s)
        BY <3>1, <4>3
      <4> QED BY <2>1, <2>2, <4>4
    <3> QED BY <3>3, <3>4
  <2>12. CASE n < n0 /\ Pending(q) /\ l = i
    <3>1. Host(q[l]) = c /\ q[l].at # NoDate
      BY <1>3, <2>8, <2>12 DEF c
    <3>2. Len(s) = m /\ s[m].ci = c /\ s[m].cluster /\ s[i].at - s[m].at >= Buffer
      BY <1>3, <2>10, <2>12, <3>1
    <3>3. m \in 1..Len(s) /\ m > Len(rs)
      BY <1>3, <2>7, <3>2
    <3>4. Served(s)
      <4> HIDE DEF m
      <4> QED BY <3>2, <3>3
    <3> QED BY <2>1, <2>2, <3>4
  <2>13. CASE n < n0 /\ Pending(q) /\ l # i
    <3>1. n + 1 < n0
      BY <1>2, <2>1, <2>6, <2>13
    <3>2. Host(q[l]) # c
      BY <1>3, <2>5, <2>8, <2>13
    <3>3. Pending(s)
      <4>1. CASE s = q
        BY <2>13, <4>1
      <4>2. CASE s # q
        <5>1. Host(q[l]) # None /\ Host(q[l]) \notin ClusterItems(q)
          BY <2>10, <4>2
        <5>2. /\ Len(s) = m /\ s[m].ci = Host(q[l]) /\ \A k \in 1..Len(q) : k # l => s[k] = q[k]
              /\ SameButDate(s[l], q[l])
          BY <2>10, <5>1
        <5>3. s[i].at = rs[i].at
          BY <2>7, <2>13, <5>2
        <5>4. ASSUME c \in ClusterItems(s) PROVE FALSE
          <6>1. PICK k \in 1..Len(s) : (s[k].cluster \/ s[k].ci \in ClusterNamed) /\ s[k].ci = c
            BY <2>10, <5>4 DEF ClusterItems
          <6>2. k # m
            BY <3>2, <5>2, <6>1
          <6>3. k \in 1..Len(q)
            <7>1. k \in 1..m /\ Len(q) \in Nat
              BY <2>7, <5>2
            <7> QED BY <6>2, <7>1
          <6>4. s[k].ci = q[k].ci /\ s[k].cluster = q[k].cluster
            <7>1. CASE k = l
              <8>1. s[k] \in Row /\ q[k] \in Row
                BY <2>7, <2>10, <6>1, <6>3
              <8> QED BY <5>2, <7>1, <8>1, SameButDateIs
            <7>2. CASE k # l
              BY <5>2, <6>3, <7>2
            <7> QED BY <7>1, <7>2
          <6>5. c \in ClusterItems(q)
            BY <2>7, <6>1, <6>3, <6>4 DEF ClusterItems
          <6> QED BY <2>13, <6>5
        <5> QED BY <5>3, <5>4
      <4> QED BY <4>1, <4>2
    <3> QED BY <2>1, <2>2, <3>1, <3>3
  <2> QED BY <2>4, <2>11, <2>12, <2>13
<1>6. \A n \in 0..N : n \in T
  <2> HIDE DEF T
  <2> QED BY <1>2, <1>4, <1>5, Induct
<1>7. Served(g[N])
  <2>1. N \in T /\ ~(N < n0)
    BY <1>2, <1>6
  <2> QED BY <2>1
<1> QED
  BY <1>1, <1>7 DEF c

LEMMA ProvidedGrows ==
  ASSUME now \in Nat, NEW rs \in Seq(Row)
  PROVE  Grown(Provided(rs), rs) /\ Provided(rs) \in Seq(Row)
<1>1. AtRisk(rs) \in Seq(Row) /\ Len(AtRisk(rs)) \in 0..Len(AtRisk(rs))
  BY AtRiskIs
<1>2. Grown(Provided(rs), rs)
  BY <1>1, ProvidedIs
<1> QED
  BY <1>2 DEF Grown

-----------------------------------------------------------------------------
(* Validation.                                                             *)

\* Where the tenant of a row may land.
Lands(rs, i) ==
    /\ References[rs[i].ci] \in Items => References[rs[i].ci] \in DOMAIN pools
    /\ \/ Tier(rs[i]) = "ready"
       \/ rs[i].bound \in claims
       \/ \E k \in DOMAIN rs :
             /\ rs[k].cluster /\ rs[k].ci = rs[i].bound
             /\ rs[k].at # NoDate /\ rs[k].at < rs[i].at

\* Workshop Manager looks after the rows of an item that has a pool, so what it
\* leaves to Flow of the others has been looked at.
LEMMA VerdictIs ==
  ASSUME NEW rs \in Seq(Row), NEW lookup \in BOOLEAN, Verdict(rs, lookup) = "valid",
         NEW i \in 1..Len(rs), rs[i].tenant
  PROVE  Lands(rs, i)
<1> DEFINE N == Len(rs)
           left == Legacy(rs)
           found == {Finding(rs, left, rs[j], lookup) : j \in {j \in left : rs[j].tenant}}
           ref == References[rs[i].ci]
<1>1. DOMAIN rs = 1..N /\ N \in Nat /\ \A k \in 1..N : rs[k] \in Row
  BY LinkedIs
<1>2. "error" \notin found /\ "warning" \notin found /\ \A j \in 1..N : ~Blocked(rs[j])
  BY <1>1 DEF Verdict
<1>3. rs[i].ci \in Items /\ ref \in Items \cup {None, Direct} /\ rs[i].bound \in Items \cup {None}
  <2>1. rs[i].ci \in Items /\ rs[i].bound \in Items \cup {None}
    BY <1>1, RowIs
  <2> QED BY <2>1
<1>4. Tier(rs[i]) # "ref_no_pool" /\ Tier(rs[i]) # "pool_no_capacity"
  BY <1>2 DEF Blocked
<1>5. ref \in Items => ref \in DOMAIN pools
  BY <1>4 DEF Tier
<1>6. CASE ref # None
  <2>1. ref \in DOMAIN pools
    BY <1>4, <1>6 DEF Tier
  <2>2. Tier(rs[i]) = "ready"
    BY <1>4, <1>6, <2>1 DEF Tier
  <2> QED BY <1>5, <2>2 DEF Lands
<1>7. CASE ref = None
  <2>1. \A j \in 1..N : rs[j].ci = rs[i].ci => ~Managed(rs[j])
    BY <1>7 DEF Managed, Tier
  <2>2. i \in left
    BY <1>1, <2>1 DEF Legacy
  <2>3. left \subseteq 1..N
    BY <1>1 DEF Legacy
  <2> HIDE DEF left
  <2> DEFINE what == Finding(rs, left, rs[i], lookup)
             hosts == {j \in left : rs[j].cluster /\ rs[j].ci = rs[i].bound}
             host == CHOOSE j \in hosts : \A e \in hosts : e <= j
  <2>4. what \in found
    BY <2>2
  <2>5. what # "error" /\ what # "warning"
    BY <1>2, <2>4
  <2>6. rs[i].bound # None
    BY <2>5 DEF Finding
  <2>7. CASE hosts = {}
    <3>1. lookup = TRUE
      BY <2>5, <2>7 DEF Finding
    <3>2. what = IF rs[i].bound \in claims THEN "ok" ELSE "error"
      BY <2>6, <2>7, <3>1 DEF Finding
    <3>3. rs[i].bound \in claims
      BY <2>5, <3>2
    <3> QED BY <1>5, <3>3 DEF Lands
  <2>8. CASE hosts # {}
    <3>1. host \in hosts
      <4>1. hosts \in SUBSET (1..N)
        BY <2>3
      <4>2. \E x \in hosts : \A y \in hosts : y <= x
        <5> HIDE DEF hosts
        <5> QED BY <1>1, <2>8, <4>1, Greatest
      <4> HIDE DEF hosts
      <4> QED BY <4>2
    <3>2. what = IF NoDate \in {rs[host].at, rs[i].at} THEN "warning"
                 ELSE IF rs[host].at >= rs[i].at THEN "error" ELSE "ok"
      BY <2>6, <2>8 DEF Finding
    <3> HIDE DEF host, what
    <3>3. host \in DOMAIN rs /\ rs[host].cluster /\ rs[host].ci = rs[i].bound
      BY <1>1, <2>3, <3>1
    <3>4. rs[host].at \in Int /\ rs[i].at \in Int
      BY <1>1, <3>3, RowIs
    <3>5. rs[host].at # NoDate /\ rs[host].at < rs[i].at
      BY <2>5, <3>2, <3>4
    <3> QED BY <1>5, <3>3, <3>5 DEF Lands
  <2> QED BY <2>7, <2>8
<1> QED
  BY <1>6, <1>7

-----------------------------------------------------------------------------
(* What the requests keep.                                                 *)

\* Nothing is both a cluster and a tenant, and "valid" means what it says.
PlacementInv == TypeOK /\ Separate(rows) /\ ValidMeansServed

LEMMA ReadIs ==
  ASSUME NEW u \in Uploads
  PROVE  [i \in 1..Len(u) |-> ReadRow(u[i])] \in Seq(Row)
<1> DEFINE read == [i \in 1..Len(u) |-> ReadRow(u[i])]
<1>1. u \in Seq(Items \X Labels \X Overrides \X Dates \X BOOLEAN) /\ Len(u) \in Nat
  BY UploadsAssumption
<1>2. ASSUME NEW i \in 1..Len(u) PROVE ReadRow(u[i]) \in Row
  <2>1. u[i] \in Items \X Labels \X Overrides \X Dates \X BOOLEAN
    BY <1>1
  <2> QED BY <2>1 DEF ReadRow, Row
<1>3. read \in [1..Len(u) -> Row]
  BY <1>2
<1> HIDE DEF read
<1>4. read \in Seq(Row)
  BY <1>1, <1>3, FunctionIsSeq
<1> QED
  BY <1>4 DEF read

LEMMA UsersAre ==
  ASSUME NEW rs \in Seq(Row)
  PROVE  /\ Users(rs) \in Seq(Row)
         /\ \A m \in 1..Len(Users(rs)) : ~Users(rs)[m].auto
<1> DEFINE is == {i \in DOMAIN rs : ~rs[i].auto}
           us == Those(rs, is)
<1>1. us \in Seq(Row) /\ \A m \in 1..Len(us) : \E j \in 1..Len(rs) : j \in is /\ us[m] = rs[j]
  <2> HIDE DEF is
  <2>1. Those(rs, is) \in Seq(Row)
    BY ThoseRows
  <2>2. \A m \in 1..Len(Those(rs, is)) : \E j \in 1..Len(rs) : j \in is /\ Those(rs, is)[m] = rs[j]
    BY ThoseRows
  <2> QED BY <2>1, <2>2
<1> HIDE DEF us
<1>2. us \in Seq(Row) /\ \A m \in 1..Len(us) : ~us[m].auto
  BY <1>1
<1> QED
  BY <1>2 DEF Users, us

\* The rows change by analysis, edits and auto-fix only, whichever rows they are.
LEMMA RowsStay ==
  ASSUME TypeOK, Separate(rows), Next
  PROVE  /\ rows' \in Seq(Row) /\ Separate(rows')
         /\ now' \in 0..Horizon
         /\ pools' = pools /\ claims' = claims
<1>1. rows \in Seq(Row) /\ now \in Nat /\ now \in 0..Horizon
  BY DEF TypeOK
<1>2. CASE Tick
  BY <1>1, <1>2 DEF Tick, outside
<1>3. CASE Upload
  <2>1. PICK u \in Uploads : \E answered : rows' = Analyzed([i \in 1..Len(u) |-> ReadRow(u[i])], answered)
    BY <1>3 DEF Upload
  <2>2. rows' \in Seq(Row) /\ Separate(rows')
    <3> DEFINE read == [i \in 1..Len(u) |-> ReadRow(u[i])]
    <3>1. read \in Seq(Row)
      BY ReadIs
    <3> HIDE DEF read
    <3>2. \A answered : Analyzed(read, answered) \in Seq(Row) /\ Separate(Analyzed(read, answered))
      BY <3>1, AnalyzedIs
    <3> QED BY <2>1, <3>2 DEF read
  <2> QED BY <1>1, <1>3, <2>2 DEF Upload, Answer, outside
<1>4. CASE Edit
  <2>1. PICK i \in DOMAIN rows, e \in Edits :
          rows' = [rows EXCEPT ![i].at = e[1], ![i].override = e[2]]
    BY <1>4 DEF Edit
  <2>2. e[1] \in Dates /\ e[2] \in Overrides
    BY EditsAssumption
  <2> DEFINE r == [[rows[i] EXCEPT !.at = e[1]] EXCEPT !.override = e[2]]
  <2>3. i \in 1..Len(rows) /\ rows[i] \in Row
    BY <1>1
  <2>4. r \in Row /\ r.cluster = rows[i].cluster /\ r.tenant = rows[i].tenant
    BY <2>2, <2>3 DEF Row
  <2>5. rows' = [rows EXCEPT ![i] = r]
    BY <1>1, <2>1, <2>3
  <2> HIDE DEF r
  <2>6. rows' \in Seq(Row) /\ Len(rows') = Len(rows) /\ \A k \in 1..Len(rows) : rows'[k] = IF k = i THEN r ELSE rows[k]
    BY <1>1, <2>3, <2>4, <2>5
  <2>7. Separate(rows')
    BY <2>4, <2>6 DEF Separate
  <2> QED BY <1>1, <1>4, <2>6, <2>7 DEF Edit, Answer, outside
<1>5. CASE Validate
  <2>1. PICK answered : rows' = Analyzed(rows, answered)
    BY <1>5 DEF Validate
  <2>2. rows' \in Seq(Row) /\ Separate(rows')
    BY <1>1, <2>1, AnalyzedIs
  <2> QED BY <1>1, <1>5, <2>2 DEF Validate, Answer, outside
<1>6. CASE AutoFix
  <2>1. rows' = Fixed(rows)
    BY <1>6 DEF AutoFix
  <2>2. /\ Fixed(rows) \in Seq(Row) /\ Len(Fixed(rows)) = Len(rows)
        /\ \A k \in 1..Len(rows) : SameButDate(Fixed(rows)[k], rows[k])
    BY <1>1, FixedIs
  <2>3. Separate(rows')
    <3> SUFFICES ASSUME NEW k \in 1..Len(rows')
                 PROVE  ~(rows'[k].cluster /\ rows'[k].tenant)
      BY DEF Separate
    <3>1. rows'[k] \in Row /\ rows[k] \in Row /\ SameButDate(rows'[k], rows[k]) /\ k \in 1..Len(rows)
      BY <1>1, <2>1, <2>2
    <3>2. rows'[k].cluster = rows[k].cluster /\ rows'[k].tenant = rows[k].tenant
      BY <3>1, SameButDateIs
    <3> QED BY <3>1, <3>2 DEF Separate
  <2> QED BY <1>1, <1>6, <2>1, <2>2, <2>3 DEF AutoFix, Answer, outside
<1>7. CASE AutoProvision
  <2>1. PICK answered : rows' = Analyzed(Provided(rows), answered)
    BY <1>7 DEF AutoProvision
  <2>2. Provided(rows) \in Seq(Row)
    BY <1>1, ProvidedGrows
  <2>3. rows' \in Seq(Row) /\ Separate(rows')
    BY <2>1, <2>2, AnalyzedIs
  <2> QED BY <1>1, <1>7, <2>3 DEF AutoProvision, Answer, outside
<1>8. CASE RemoveAuto
  <2>1. PICK answered : rows' = Analyzed(Users(rows), answered)
    BY <1>8 DEF RemoveAuto
  <2>2. Users(rows) \in Seq(Row)
    BY <1>1, UsersAre
  <2>3. rows' \in Seq(Row) /\ Separate(rows')
    BY <2>1, <2>2, AnalyzedIs
  <2> QED BY <1>1, <1>8, <2>3 DEF RemoveAuto, Answer, outside
<1> QED
  BY <1>2, <1>3, <1>4, <1>5, <1>6, <1>7, <1>8 DEF Next

\* The inductive invariant: only a validation answers "valid", and of the rows it
\* leaves behind.
LEMMA InitPlacement == Init => PlacementInv
<1> SUFFICES ASSUME Init PROVE PlacementInv
  OBVIOUS
<1>1. rows = <<>> /\ rows \in Seq(Row) /\ Len(rows) = 0
  BY DEF Init
<1>2. TypeOK
  BY <1>1, TimesAssumption DEF Init, TypeOK
<1>3. Separate(rows) /\ ValidMeansServed
  BY <1>1 DEF Init, Separate, ValidMeansServed
<1> QED
  BY <1>2, <1>3 DEF PlacementInv

LEMMA ValidStays ==
  ASSUME PlacementInv, [Next]_vars
  PROVE  ValidMeansServed' /\ report' \in {"nothing", "valid", "warned", "invalid"}
<1>1. rows \in Seq(Row) /\ report \in {"nothing", "valid", "warned", "invalid"} /\ ValidMeansServed
  BY DEF PlacementInv, TypeOK
<1>2. CASE Tick \/ UNCHANGED vars
  <2>1. UNCHANGED <<rows, pools, claims, report>>
    BY <1>2 DEF Tick, vars, outside
  <2> QED BY <1>1, <2>1 DEF ValidMeansServed, Tier
<1>3. CASE Validate
  <2>1. PICK answered :
           LET rs == Analyzed(rows, answered)
           IN  /\ rows' = rs
               /\ \/ \E lookup \in BOOLEAN : Answer(Verdict(rs, lookup))
                  \/ Answer("nothing")
    BY <1>3 DEF Validate
  <2> DEFINE rs == Analyzed(rows, answered)
  <2>2. rs \in Seq(Row)
    BY <1>1, AnalyzedIs
  <2>3. CASE Answer("nothing")
    BY <2>3 DEF Answer, ValidMeansServed
  <2>4. ASSUME NEW lookup \in BOOLEAN, Answer(Verdict(rs, lookup))
        PROVE  ValidMeansServed' /\ report' \in {"nothing", "valid", "warned", "invalid"}
    <3>1. report' = Verdict(rs, lookup) /\ rows' = rs /\ pools' = pools /\ claims' = claims
      BY <2>1, <2>4 DEF Answer, outside
    <3>2. Verdict(rs, lookup) \in {"valid", "warned", "invalid"}
      BY DEF Verdict
    <3>3. Verdict(rs, lookup) = "valid" =>
            \A i \in 1..Len(rs) : rs[i].tenant => Lands(rs, i)
      BY <2>2, VerdictIs
    <3>4. DOMAIN rs = 1..Len(rs)
      BY <2>2, LinkedIs
    <3> HIDE DEF rs
    <3>5. ValidMeansServed'
      BY <3>1, <3>3, <3>4 DEF ValidMeansServed, Lands, Tier
    <3> QED BY <3>1, <3>2, <3>5
  <2> QED BY <2>1, <2>3, <2>4
<1>4. CASE Upload \/ Edit \/ AutoFix \/ AutoProvision \/ RemoveAuto
  <2>1. report' = "nothing"
    BY <1>4 DEF Upload, Edit, AutoFix, AutoProvision, RemoveAuto, Answer
  <2> QED BY <2>1 DEF ValidMeansServed
<1> QED
  BY <1>2, <1>3, <1>4 DEF Next

LEMMA NextPlacement == PlacementInv /\ [Next]_vars => PlacementInv'
<1> SUFFICES ASSUME PlacementInv, [Next]_vars PROVE PlacementInv'
  OBVIOUS
<1>1. TypeOK /\ Separate(rows)
  BY DEF PlacementInv
<1>2. /\ rows' \in Seq(Row) /\ Separate(rows') /\ now' \in 0..Horizon
      /\ pools' \in PoolSets /\ claims' \in ClaimSets
  <2>1. CASE Next
    BY <1>1, <2>1, RowsStay DEF TypeOK
  <2>2. CASE UNCHANGED vars
    BY <1>1, <2>2 DEF TypeOK, Separate, vars
  <2> QED BY <2>1, <2>2
<1>3. ValidMeansServed' /\ report' \in {"nothing", "valid", "warned", "invalid"}
  BY ValidStays
<1>4. TypeOK'
  BY <1>2, <1>3 DEF TypeOK
<1>5. Separate(rows)'
  BY <1>2 DEF Separate
<1> QED
  BY <1>3, <1>4, <1>5 DEF PlacementInv

\* The inductive invariant holds throughout.
THEOREM PlacementInvariance == Spec => []PlacementInv
  BY InitPlacement, NextPlacement, PTL DEF Spec

\* Rows, pools, claims and answers keep their types, whatever is uploaded, edited,
\* fixed, provided and removed.
THEOREM RowsAreTyped == Spec => []TypeOK
<1>1. PlacementInv => TypeOK
  BY DEF PlacementInv
<1> QED
  BY <1>1, PlacementInvariance, PTL

\* What the validation passes without a word has a place for every tenant to land.
THEOREM ValidIsServed == Spec => []ValidMeansServed
<1>1. PlacementInv => ValidMeansServed
  BY DEF PlacementInv
<1> QED
  BY <1>1, PlacementInvariance, PTL

\* A second auto-fix has nothing to do, the first cures the timing of a tenant
\* alone on its cluster, and a cluster that is provided comes in time, for any
\* schedule, any buffer and any time.
THEOREM RepairsDoWork == Spec => []RepairsWork
<1>1. PlacementInv => RepairsWork
  <2> SUFFICES ASSUME PlacementInv PROVE RepairsWork
    OBVIOUS
  <2>1. /\ rows \in Seq(Row) /\ Separate(rows) /\ now \in Nat
        /\ DOMAIN rows = 1..Len(rows)
    BY DEF PlacementInv, TypeOK
  <2>2. FixStable
    BY <2>1, StableFix DEF FixStable
  <2>3. FixCures
    <3> SUFFICES ASSUME Buffer > 0, NEW i \in DOMAIN rows, Alone(rows, i), rows[i].at > now + Lead,
                        NEW k \in DOMAIN rows, rows[k].cluster, rows[k].ci = rows[i].bound,
                        rows[k].at # NoDate, \A j \in DOMAIN rows \ {k} : rows[j].ci # rows[k].ci
                 PROVE  Finding(Fixed(rows), DOMAIN rows, rows[i], TRUE) = "ok"
      BY DEF FixCures
    <3> QED BY <2>1, CuringFix
  <2>4. ProvisionServes
    <3> SUFFICES ASSUME NEW i \in DOMAIN rows, Alone(rows, i), Host(rows[i]) # None,
                        rows[i].at # NoDate,
                        \A j \in DOMAIN rows \ {i} : Host(rows[j]) # Host(rows[i]),
                        NEW n \in DOMAIN AtRisk(rows), AtRisk(rows)[n] = rows[i],
                        Host(rows[i]) \notin ClusterItems(rows)
                 PROVE  \E k \in DOMAIN Provided(rows) :
                           /\ Provided(rows)[k].ci = Host(rows[i]) /\ Provided(rows)[k].cluster
                           /\ Provided(rows)[i].at - Provided(rows)[k].at >= Buffer
      BY DEF ProvisionServes
    <3> DEFINE qs == Provided(rows)
    <3>1. n \in 1..Len(AtRisk(rows))
      BY <2>1, AtRiskIs
    <3>2. DOMAIN qs = 1..Len(qs)
      BY <2>1, ProvidedGrows
    <3>3. \E k \in 1..Len(qs) : /\ qs[k].ci = Host(rows[i]) /\ qs[k].cluster
                               /\ qs[i].at - qs[k].at >= Buffer
      BY <2>1, <3>1, ServingProvision
    <3> QED BY <3>2, <3>3
  <2> QED BY <2>2, <2>3, <2>4 DEF RepairsWork
<1> QED
  BY <1>1, PlacementInvariance, PTL

-----------------------------------------------------------------------------
(* What repairs do to the rows of the user.                                *)

KeptRows(old, new) ==
    /\ Len(new) = Len(old)
    /\ \A i \in DOMAIN old :
          /\ Written(new[i]) = Written(old[i])
          /\ ~old[i].cluster => new[i].at >= old[i].at

LEMMA UsersKept ==
  ASSUME NEW rs \in Seq(Row), NEW qs \in Seq(Row), Len(rs) <= Len(qs),
         \A k \in 1..Len(rs) :
            SameRow(qs[k], rs[k]) /\ (~rs[k].cluster => qs[k].at >= rs[k].at),
         \A k \in (Len(rs) + 1)..Len(qs) : qs[k].auto
  PROVE  KeptRows(Users(rs), Users(qs))
<1> DEFINE is == {i \in DOMAIN rs : ~rs[i].auto}
           js == {i \in DOMAIN qs : ~qs[i].auto}
           old == Those(rs, is)
           new == Those(qs, js)
<1>1. /\ DOMAIN rs = 1..Len(rs) /\ DOMAIN qs = 1..Len(qs) /\ Len(rs) \in Nat /\ Len(qs) \in Nat
      /\ Len(rs) <= Len(qs)
  OBVIOUS
<1>2. \A n \in 1..Len(rs) : n \in is <=> n \in js
  <2> TAKE n \in 1..Len(rs)
  <2>1. n \in 1..Len(qs) /\ qs[n].auto = rs[n].auto
    BY <1>1 DEF SameRow
  <2> QED BY <1>1, <2>1
<1>3. \A n \in (Len(rs) + 1)..Len(qs) : n \notin js
  OBVIOUS
<1> HIDE DEF is, js
<1>4. old \in Seq(Row) /\ new \in Seq(Row) /\ Corresponds(old, new, rs, qs, is)
  BY <1>1, <1>2, <1>3, ThoseLinked
<1> HIDE DEF old, new
<1>5. Len(new) = Len(old) /\ DOMAIN old = 1..Len(old)
  BY <1>4 DEF Corresponds
<1>6. ASSUME NEW m \in 1..Len(old)
      PROVE  Written(new[m]) = Written(old[m]) /\ (~old[m].cluster => new[m].at >= old[m].at)
  <2>1. PICK j \in 1..Len(rs) : old[m] = rs[j] /\ new[m] = qs[j]
    BY <1>4 DEF Corresponds
  <2> QED BY <2>1 DEF SameRow
<1> QED
  BY <1>5, <1>6 DEF KeptRows, Users, old, new, is, js

LEMMA FixKeeps ==
  ASSUME now \in Nat, NEW rs \in Seq(Row)
  PROVE  KeptRows(Users(rs), Users(Fixed(rs)))
<1> DEFINE fs == Fixed(rs)
<1>1. /\ fs \in Seq(Row) /\ Len(fs) = Len(rs)
      /\ \A k \in 1..Len(rs) :
            SameButDate(fs[k], rs[k]) /\ (~Movable(rs, k) => fs[k] = rs[k])
  BY FixedIs
<1> HIDE DEF fs
<1>2. Len(rs) <= Len(fs) /\ Len(rs) \in Nat /\ \A k \in (Len(rs) + 1)..Len(fs) : fs[k].auto
  BY <1>1
<1>3. ASSUME NEW k \in 1..Len(rs)
      PROVE  SameRow(fs[k], rs[k]) /\ (~rs[k].cluster => fs[k].at >= rs[k].at)
  <2>1. fs[k] \in Row /\ rs[k] \in Row /\ rs[k].at \in Int
    BY <1>1, RowIs
  <2>2. SameRow(fs[k], rs[k])
    BY <1>1, <2>1, SameButDateIs
  <2>3. ~rs[k].cluster => fs[k] = rs[k]
    BY <1>1 DEF Movable
  <2> QED BY <2>1, <2>2, <2>3
<1>4. KeptRows(Users(rs), Users(fs))
  BY <1>1, <1>2, <1>3, UsersKept
<1> QED
  BY <1>4 DEF fs

LEMMA ProvisionKeeps ==
  ASSUME now \in Nat, NEW rs \in Seq(Row), NEW answered
  PROVE  KeptRows(Users(rs), Users(Analyzed(Provided(rs), answered)))
<1> DEFINE ps == Provided(rs)
           qs == Analyzed(ps, answered)
<1>1. Grown(ps, rs) /\ ps \in Seq(Row)
  BY ProvidedGrows
<1> HIDE DEF ps
<1>2. /\ qs \in Seq(Row) /\ Len(qs) = Len(ps)
      /\ \A i \in 1..Len(ps) : SameRow(qs[i], ps[i]) /\ qs[i].at = ps[i].at
  BY <1>1, AnalyzedIs
<1> HIDE DEF qs
<1>3. Len(rs) <= Len(ps) /\ Len(rs) \in Nat /\ Len(ps) \in Nat
  BY <1>1 DEF Grown
<1>4. ASSUME NEW k \in 1..Len(rs)
      PROVE  SameRow(qs[k], rs[k]) /\ (~rs[k].cluster => qs[k].at >= rs[k].at)
  <2>1. k \in 1..Len(ps)
    BY <1>3
  <2>2. SameButDate(ps[k], rs[k]) /\ ps[k].at >= rs[k].at /\ ps[k] \in Row /\ rs[k] \in Row
    BY <1>1, <2>1 DEF Grown
  <2>3. SameRow(ps[k], rs[k])
    BY <2>2, SameButDateIs
  <2> QED BY <1>2, <2>1, <2>2, <2>3 DEF SameRow
<1>5. \A k \in (Len(rs) + 1)..Len(qs) : qs[k].auto
  <2> TAKE k \in (Len(rs) + 1)..Len(qs)
  <2>1. k \in 1..Len(ps) /\ ps[k].auto
    BY <1>1, <1>2, <1>3 DEF Grown
  <2> QED BY <1>2, <2>1 DEF SameRow
<1>6. KeptRows(Users(rs), Users(qs))
  BY <1>2, <1>3, <1>4, <1>5, UsersKept
<1> QED
  BY <1>6 DEF ps, qs

LEMMA RemovalKeeps ==
  ASSUME NEW rs \in Seq(Row), NEW answered
  PROVE  KeptRows(Users(rs), Users(Analyzed(Users(rs), answered)))
<1> DEFINE us == Users(rs)
           qs == Analyzed(us, answered)
<1>1. us \in Seq(Row) /\ \A m \in 1..Len(us) : ~us[m].auto
  BY UsersAre
<1> HIDE DEF us
<1>2. /\ qs \in Seq(Row) /\ Len(qs) = Len(us)
      /\ \A i \in 1..Len(us) : SameRow(qs[i], us[i]) /\ qs[i].at = us[i].at
  BY <1>1, AnalyzedIs
<1> HIDE DEF qs
<1>3. Users(qs) = qs
  <2> DEFINE is == {i \in DOMAIN qs : ~qs[i].auto}
  <2>1. 1..Len(qs) \subseteq is
    <3> SUFFICES ASSUME NEW i \in 1..Len(qs) PROVE i \in is
      OBVIOUS
    <3>1. i \in DOMAIN qs /\ i \in 1..Len(us)
      BY <1>2
    <3> QED BY <1>1, <1>2, <3>1 DEF SameRow
  <2> HIDE DEF is
  <2>2. Those(qs, is) = qs
    BY <1>2, <2>1, ThoseAll
  <2> QED BY <2>2 DEF Users, is
<1>4. KeptRows(us, qs)
  <2> SUFFICES ASSUME NEW i \in DOMAIN us
               PROVE  Written(qs[i]) = Written(us[i]) /\ qs[i].at >= us[i].at
    BY <1>2 DEF KeptRows
  <2>1. i \in 1..Len(us) /\ us[i] \in Row
    BY <1>1
  <2>2. us[i].at \in Int
    BY <2>1, RowIs
  <2> QED BY <1>2, <2>1, <2>2 DEF SameRow
<1> QED
  BY <1>3, <1>4 DEF us, qs

\* Repairing the schedules, and taking the repair back, neither loses nor reorders
\* a row of the user, and starts no tenant sooner than its row says.
THEOREM RepairsKeepTheRows == Spec => RepairsKeepRows
<1> DEFINE Repair == AutoFix \/ AutoProvision \/ RemoveAuto
           Keeps == Repair => KeptRows(Users(rows), Users(rows'))
<1>1. TypeOK /\ Next => Keeps
  <2> SUFFICES ASSUME TypeOK, Repair PROVE KeptRows(Users(rows), Users(rows'))
    OBVIOUS
  <2>1. rows \in Seq(Row) /\ now \in Nat
    BY DEF TypeOK
  <2>2. CASE AutoFix
    <3>1. rows' = Fixed(rows)
      BY <2>2 DEF AutoFix
    <3>2. KeptRows(Users(rows), Users(Fixed(rows)))
      BY <2>1, FixKeeps
    <3> QED BY <3>1, <3>2
  <2>3. CASE AutoProvision
    <3>1. PICK answered : rows' = Analyzed(Provided(rows), answered)
      BY <2>3 DEF AutoProvision
    <3>2. KeptRows(Users(rows), Users(Analyzed(Provided(rows), answered)))
      BY <2>1, ProvisionKeeps
    <3> QED BY <3>1, <3>2
  <2>4. CASE RemoveAuto
    <3>1. PICK answered : rows' = Analyzed(Users(rows), answered)
      BY <2>4 DEF RemoveAuto
    <3>2. KeptRows(Users(rows), Users(Analyzed(Users(rows), answered)))
      BY <2>1, RemovalKeeps
    <3> QED BY <3>1, <3>2
  <2> QED BY <2>2, <2>3, <2>4
<1>2. Spec => [][Next /\ TypeOK]_vars
  BY RowsAreTyped, PTL DEF Spec
<1>3. Keeps => (Repair =>
                  LET old == Users(rows)  new == Users(rows')
                  IN  /\ Len(new) = Len(old)
                      /\ \A i \in DOMAIN old :
                            /\ Written(new[i]) = Written(old[i])
                            /\ ~old[i].cluster => new[i].at >= old[i].at)
  BY DEF KeptRows
<1> QED
  BY <1>1, <1>2, <1>3, PTL DEF RepairsKeepRows

-----------------------------------------------------------------------------
(* MultiWorkshop: the cleanup never breaks a live MultiWorkshop, for any   *)
(* number of assets, attempts, polls and Workshops of other jobs.          *)

USE PollsAssumption, AttemptsAssumption, StrangersAssumption

\* Until the run submits them none of its shells is listed, and those that got an
\* id are there; and the cleanup goes by a list that no shell has joined since.
RunInv ==
    /\ pc = "creating" => /\ ready = {}
                          /\ \A a \in todo : shell[a] = NoShell
                          /\ \A a \in todo \ looking : tries[a] < Attempts
    /\ pc \in {"creating", "waiting", "submitting"} => polls = 0
    /\ pc = "polling" => polls < Polls
    /\ pc \in {"waiting", "submitting"} => \A a \in ready : shell[a] \in exists
    /\ pc \in {"creating", "waiting", "submitting"} => listed \subseteq Owns /\ listed \subseteq exists
    /\ pc = "undoing" /\ Spared({"lost"}) => listed \subseteq Owns
    /\ pc = "deleting" /\ Spared({"read"}) => listed \subseteq names \cup Owns
    /\ pc # "creating" => looking = {}
    /\ Spared({"unnamed"}) => looking = {} /\ \A a \in Assets : shell[a] \notin Strangers
    /\ ~live => listed = {}

MultiInv == MultiTypeOK /\ RunInv /\ NeverBreakLive /\ KnowsItsShells

\* What Workshops are called tells whose they are.
LEMMA NamesDiffer ==
    /\ \A a \in Assets, n \in 1..Attempts : Shell(a, n) \in Shells
    /\ \A a \in Assets : Own(a) \in Owns
    /\ Shells \subseteq Workshops /\ Owns \subseteq Workshops /\ Strangers \subseteq Workshops
    /\ Shells \cap Owns = {} /\ Shells \cap Strangers = {} /\ Owns \cap Strangers = {}
    /\ NoShell \notin Workshops /\ Prefix \notin Workshops
    /\ NoShell # Prefix
  <1>1. \A a \in Assets, n \in 1..Attempts : Shell(a, n) \in Shells
    BY DEF Shells
  <1>2. \A a \in Assets : Own(a) \in Owns
    BY DEF Owns
  <1>3. Shells \cap Owns = {}
    BY DEF Shells, Owns, Shell, Own
  <1>4. NoShell # Prefix
    BY DEF NoShell, Prefix
  <1> QED
    BY <1>1, <1>2, <1>3, <1>4 DEF Workshops

LEMMA InitMulti == MultiInit => MultiInv
  <1> SUFFICES ASSUME MultiInit PROVE MultiInv
    OBVIOUS
  <1>1. /\ listed \subseteq Owns /\ exists = listed /\ live \in BOOLEAN
        /\ ~live => listed = {}
    BY DEF MultiInit, Owns
  <1>2. MultiTypeOK
    BY <1>1, NamesDiffer DEF MultiInit, MultiTypeOK
  <1>3. RunInv
    BY <1>1, NamesDiffer DEF MultiInit, RunInv
  <1>4. NeverBreakLive
    BY <1>1 DEF MultiInit, NeverBreakLive
  <1>5. KnowsItsShells
    BY <1>1, NamesDiffer DEF KnowsItsShells
  <1> QED
    BY <1>2, <1>3, <1>4, <1>5 DEF MultiInv

\* A step that creates a shell.
LEMMA CreatesMulti ==
    ASSUME MultiInv, NEW a \in Assets,
           \/ CreateShell(a) \/ CreateRefused(a) \/ CreateTransient(a)
           \/ CreateLost(a) \/ CreateUnnamed(a)
    PROVE  MultiInv'
  <1> DEFINE t == tries[a] + 1
             new == Shell(a, t)
  <1> USE NamesDiffer
  <1>1. /\ pc = "creating" /\ pc' = pc /\ a \in todo /\ a \notin looking
        /\ tries' = [tries EXCEPT ![a] = t]
        /\ t \in 1..Attempts /\ tries'[a] = t /\ new \in Shells
        /\ UNCHANGED <<faults, ready, polls, names, live, listed, adopted, others>>
    <2>1. tries[a] < Attempts /\ tries[a] \in 0..Attempts
      BY DEF MultiInv, MultiTypeOK, RunInv, CreateShell, CreateRefused, CreateTransient, CreateLost,
             CreateUnnamed, Creates, Current
    <2> QED
      BY <2>1 DEF MultiInv, MultiTypeOK, CreateShell, CreateRefused, CreateTransient, CreateLost,
         CreateUnnamed, Creates, Current, Made, workshops, multi
  <1> HIDE DEF t
  <1>2. \/ exists' = exists /\ newest' = newest
        \/ exists' = exists \cup {new} /\ newest' = new
    BY <1>1 DEF CreateShell, CreateRefused, CreateTransient, CreateLost, CreateUnnamed, Made, workshops
  <1>3. /\ \/ shell' = shell \/ shell' = [shell EXCEPT ![a] = NoShell]
           \/ shell' = [shell EXCEPT ![a] = Prefix] \/ shell' = [shell EXCEPT ![a] = new]
        /\ todo' = todo \ {a} \/ (todo' = todo /\ shell' = shell)
    BY <1>1 DEF CreateShell, CreateRefused, CreateTransient, CreateLost, CreateUnnamed, GoesOn
  <1>4. /\ looking' = looking \/ (looking' = looking \cup {a} /\ todo' = todo)
        /\ Spared({"unnamed"}) => looking' = looking
        /\ todo' = todo => a \in looking' \/ t < Attempts
    BY <1>1 DEF CreateShell, CreateRefused, CreateTransient, CreateLost, CreateUnnamed, GoesOn, Spared
  <1>5. Spared({"lost", "unnamed"}) =>
           exists' = exists \/ (shell' = [shell EXCEPT ![a] = new] /\ exists' = exists \cup {new})
    BY <1>1 DEF CreateShell, CreateRefused, CreateTransient, CreateLost, CreateUnnamed, Made, workshops, Spared
  <1> HIDE DEF new
  <1>6. MultiTypeOK'
    BY <1>1, <1>2, <1>3, <1>4 DEF MultiInv, MultiTypeOK
  <1>7. RunInv'
    BY <1>1, <1>2, <1>3, <1>4 DEF MultiInv, MultiTypeOK, RunInv, Spared
  <1>8. NeverBreakLive'
    BY <1>1, <1>2 DEF MultiInv, NeverBreakLive, Spared
  <1>9. KnowsItsShells'
    <2> SUFFICES ASSUME Spared({"lost", "unnamed"}), NEW w \in Shells, w \in exists'
                 PROVE  \E b \in Assets : w = shell'[b]
      BY <1>1 DEF KnowsItsShells, Spared
    <2>1. CASE w \in exists
      <3>1. PICK b \in Assets : w = shell[b]
        BY <2>1 DEF MultiInv, KnowsItsShells
      <3>2. b # a
        BY <1>1, <3>1 DEF MultiInv, RunInv, Workshops
      <3> QED
        BY <1>3, <3>1, <3>2 DEF MultiInv, MultiTypeOK
    <2>2. CASE w \notin exists
      BY <1>5, <2>2 DEF MultiInv, MultiTypeOK
    <2> QED
      BY <2>1, <2>2
  <1> QED
    BY <1>6, <1>7, <1>8, <1>9 DEF MultiInv

\* A step that deletes a shell, or makes up its mind to keep it.
LEMMA DeletesMulti ==
    ASSUME MultiInv, NEW a \in Assets, KeepShell(a) \/ DeleteShell(a) \/ UndoShell(a)
    PROVE  MultiInv'
  <1> USE NamesDiffer DEF MultiInv
  <1>1. /\ pc \in {"deleting", "undoing"} /\ a \in todo /\ todo' = todo \ {a}
        /\ UNCHANGED <<pc, faults, tries, looking, shell, ready, polls, names, newest, others>>
        /\ UNCHANGED <<live, listed, adopted>>
        /\ exists' = exists \/ exists' = exists \ {shell[a]}
        /\ exists' = exists \/ (pc = "deleting" => shell[a] \notin names)
    BY DEF KeepShell, DeleteShell, UndoShell, Deletes, progress, workshops, multi
  <1>2. MultiTypeOK'
    <2>1. looking = {}
      BY <1>1 DEF RunInv
    <2> QED
      BY <1>1, <2>1 DEF MultiTypeOK
  <1>3. RunInv'
    BY <1>1 DEF MultiTypeOK, RunInv, Spared
  <1>4. shell[a] \notin Owns
    BY DEF MultiTypeOK, Workshops
  <1>5. NeverBreakLive'
    <2>1. live /\ Spared({"read"}) /\ (pc \in {"undoing", "failed"} => Spared({"lost"}))
             => listed \subseteq exists'
      BY <1>1, <1>4 DEF NeverBreakLive, RunInv
    <2>2. Spared({"unnamed"}) => others \subseteq exists'
      BY <1>1 DEF NeverBreakLive, RunInv, MultiTypeOK
    <2> QED
      BY <1>1, <2>1, <2>2 DEF NeverBreakLive, Spared
  <1>6. KnowsItsShells'
    BY <1>1 DEF KnowsItsShells, Spared
  <1> QED
    BY <1>2, <1>3, <1>5, <1>6

\* The step that makes the MultiWorkshop, or finds that it cannot.
LEMMA SubmitsMulti ==
    ASSUME MultiInv, Submit \/ SubmitFails \/ SubmitTimesOut
    PROVE  MultiInv'
  <1> USE NamesDiffer DEF MultiInv
  <1>1. /\ pc = "submitting" /\ pc' \in {"polling", "undoing", "failed"}
        /\ UNCHANGED <<faults, tries, looking, shell, ready, polls, names, exists, newest, others>>
        /\ \/ UNCHANGED <<live, listed, adopted>>
           \/ /\ live' = TRUE /\ listed' = {shell[a] : a \in ready} /\ adopted' = adopted
              /\ pc' = "undoing" => ~Spared({"lost"})
        /\ todo' \subseteq Assets
    BY DEF Submit, SubmitFails, SubmitTimesOut, MakesMulti, progress, workshops, multi, Spared, Created,
           MultiTypeOK
  <1>2. listed' \subseteq exists
    BY <1>1 DEF RunInv
  <1>3. MultiTypeOK'
    BY <1>1, <1>2 DEF MultiTypeOK, RunInv
  <1>4. RunInv'
    BY <1>1, <1>2 DEF MultiTypeOK, RunInv, Spared
  <1>5. NeverBreakLive'
    BY <1>1, <1>2 DEF NeverBreakLive, Spared
  <1>6. KnowsItsShells'
    BY <1>1 DEF KnowsItsShells, Spared
  <1> QED
    BY <1>3, <1>4, <1>5, <1>6

LEMMA NextMulti == MultiInv /\ [MultiNext]_multiVars => MultiInv'
  <1> SUFFICES ASSUME MultiInv, [MultiNext]_multiVars PROVE MultiInv'
    OBVIOUS
  <1> USE NamesDiffer DEF MultiInv, MultiTypeOK, RunInv, NeverBreakLive, KnowsItsShells, Spared,
          progress, workshops, multi
  <1>1. ASSUME NEW a \in Assets, TakeNewest(a) PROVE MultiInv'
    <2>1. MultiTypeOK' /\ RunInv'
      BY <1>1 DEF TakeNewest, GoesOn
    <2>2. NeverBreakLive'
      BY <1>1 DEF TakeNewest
    <2>3. KnowsItsShells'
      BY <1>1 DEF TakeNewest
    <2> QED
      BY <2>1, <2>2, <2>3
  <1>2. CASE AllCreated
    BY <1>2 DEF AllCreated, Created
  <1>3. ASSUME NEW w \in Strangers, Stranger(w) PROVE MultiInv'
    BY <1>3 DEF Stranger
  <1>4. ASSUME NEW a \in Assets, AwaitId(a) PROVE MultiInv'
    BY <1>4 DEF AwaitId
  <1>5. CASE AllAwaited
    BY <1>5 DEF AllAwaited, Created
  <1>6. CASE Poll
    BY <1>6 DEF Poll
  <1>7. CASE BeginCleanup
    BY <1>7 DEF BeginCleanup, Reads, Created
  <1>8. CASE Return
    BY <1>8 DEF Return
  <1>9. ASSUME NEW a \in Assets, Rewrite(a) PROVE MultiInv'
    BY <1>9 DEF Rewrite
  <1>10. CASE Adopt
    BY <1>10 DEF Adopt
  <1>11. CASE UNCHANGED multiVars
    BY <1>11 DEF multiVars
  <1> QED
    BY <1>1, <1>2, <1>3, <1>4, <1>5, <1>6, <1>7, <1>8, <1>9, <1>10, <1>11, CreatesMulti,
       DeletesMulti, SubmitsMulti DEF MultiNext, Run, Controller

\* The inductive invariant holds throughout.
THEOREM MultiInvariance == MultiSpec => []MultiInv
  BY InitMulti, NextMulti, PTL DEF MultiSpec

\* The variables keep their types.
THEOREM MultiTypeCorrect == MultiSpec => []MultiTypeOK
  <1>1. MultiInv => MultiTypeOK
    BY DEF MultiInv
  <1> QED
    BY <1>1, MultiInvariance, PTL

\* Whatever the controller does between two steps of the cleanup, and whatever
\* answers, inspections, deletions and creations fail, every Workshop that a
\* MultiWorkshop lists exists ("never break a live MW"), if its assets can be read
\* and the run does not take it for refused; and if oc names what it makes, the
\* Workshops of other jobs are left alone.
THEOREM LiveStaysWhole == MultiSpec => []NeverBreakLive
  <1>1. MultiInv => NeverBreakLive
    BY DEF MultiInv
  <1> QED
    BY <1>1, MultiInvariance, PTL
-----------------------------------------------------------------------------
(* What a run leaves behind. While it takes its shells back or cleans them up,   *)
(* those it is done with are gone, or stay for a reason.                         *)

UndoneInv ==
    (pc \in {"undoing", "failed"} /\ Spared({"timeout", "delete"})) =>
        /\ \A a \in Assets : shell[a] \in exists => a \in todo
        /\ pc = "failed" => todo = {}

CleanedInv ==
    (pc \in {"deleting", "done"} /\ Spared({"inspect", "delete"})) =>
        /\ \A a \in Created \ todo : shell[a] \in exists => shell[a] \in adopted \cup names
        /\ pc = "done" => todo = {}

LeftInv == UndoneInv /\ CleanedInv

LEMMA NextLeft == MultiInv /\ LeftInv /\ [MultiNext]_multiVars => LeftInv'
  <1> SUFFICES ASSUME MultiInv, LeftInv, [MultiNext]_multiVars PROVE LeftInv'
    OBVIOUS
  <1> USE NamesDiffer DEF LeftInv, UndoneInv, CleanedInv, Created, Spared, progress, workshops, multi
  <1>1. ASSUME NEW a \in Assets,
               \/ CreateShell(a) \/ CreateRefused(a) \/ CreateTransient(a)
               \/ CreateLost(a) \/ CreateUnnamed(a)
        PROVE  LeftInv'
    BY <1>1 DEF CreateShell, CreateRefused, CreateTransient, CreateLost, CreateUnnamed, Creates
  <1>2. ASSUME NEW a \in Assets, TakeNewest(a) PROVE LeftInv'
    BY <1>2 DEF TakeNewest
  <1>3. CASE AllCreated
    BY <1>3 DEF AllCreated, MultiInv, MultiTypeOK
  <1>4. ASSUME NEW w \in Strangers, Stranger(w) PROVE LeftInv'
    BY <1>4 DEF Stranger
  <1>5. ASSUME NEW a \in Assets, AwaitId(a) PROVE LeftInv'
    BY <1>5 DEF AwaitId
  <1>6. CASE AllAwaited
    BY <1>6 DEF AllAwaited, MultiInv, MultiTypeOK
  <1>7. CASE Submit
    BY <1>7 DEF Submit
  <1>8. CASE SubmitFails
    BY <1>8 DEF SubmitFails, MultiInv, MultiTypeOK
  <1>9. CASE SubmitTimesOut
    BY <1>9 DEF SubmitTimesOut
  <1>10. CASE Poll
    BY <1>10 DEF Poll
  <1>11. CASE BeginCleanup
    BY <1>11 DEF BeginCleanup
  <1>12. ASSUME NEW a \in Assets, KeepShell(a) PROVE LeftInv'
    BY <1>12 DEF KeepShell, Protected
  <1>13. ASSUME NEW a \in Assets, DeleteShell(a) PROVE LeftInv'
    BY <1>13 DEF DeleteShell, Deletes
  <1>14. ASSUME NEW a \in Assets, UndoShell(a) PROVE LeftInv'
    BY <1>14 DEF UndoShell, Deletes
  <1>15. CASE Return
    BY <1>15 DEF Return
  <1>16. ASSUME NEW a \in Assets, Rewrite(a) PROVE LeftInv'
    BY <1>16 DEF Rewrite, MultiInv, MultiTypeOK
  <1>17. CASE Adopt
    BY <1>17 DEF Adopt
  <1>18. CASE UNCHANGED multiVars
    BY <1>18 DEF multiVars
  <1> QED
    BY <1>1, <1>2, <1>3, <1>4, <1>5, <1>6, <1>7, <1>8, <1>9, <1>10, <1>11, <1>12,
       <1>13, <1>14, <1>15, <1>16, <1>17, <1>18 DEF MultiNext, Run, Controller

\* A run that fails has taken back every shell it knows of, one that succeeds has
\* deleted each that nothing uses, and it knows of all if answers arrive and name
\* what was made; however the controller rewrites and adopts them in the meantime.
THEOREM NothingIsLeftOver == MultiSpec => []NothingLeftOver
  <1>1. MultiInit => LeftInv
    BY DEF MultiInit, LeftInv, UndoneInv, CleanedInv
  <1>2. MultiInv /\ LeftInv => NothingLeftOver
    BY DEF MultiInv, LeftInv, UndoneInv, CleanedInv, NothingLeftOver, FailureLeavesNoShell,
           SuccessLeavesNoOrphan
  <1> QED
    BY <1>1, <1>2, NextLeft, MultiInvariance, PTL DEF MultiSpec
=============================================================================
