---------------------------- MODULE QARunProofs ----------------------------
(***************************************************************************)
(* Proofs about ScheduleList and QARun: the files follow the dashboard, a  *)
(* deployment of an upload deploys that upload, what the scope of the QA   *)
(* results claims is true, and the dashboard is a register of sheets, for  *)
(* any number of runs, rows and requests.                                  *)
(***************************************************************************)
EXTENDS QARun, FiniteSetTheorems, WellFoundedInduction, TLAPS

-----------------------------------------------------------------------------
(* The inductive invariants.                                               *)

\* A list object, and the rows that it shows.
IsList(x) ==
    /\ x \in [objects : Seq(Row), has : Seq(Nat)]
    /\ \A i \in DOMAIN x.has : x.has[i] \in DOMAIN x.objects
ShownOf(x) == [i \in DOMAIN x.has |-> x.objects[x.has[i]]]

\* A request that is under way works with the list it began with, and with rows
\* that this list had.
ClientsInv ==
    /\ fix.pc # "none" => "fix" \in clients
    /\ fix.pc = "fixing" => fix.list \in Lists
    /\ deploy.pc # "none" =>
          "session" \in clients /\ deploy.list \in Lists /\ deploy.file \in DOMAIN Files
    /\ deploy.pc # "grouped" => deploy.todo = {} /\ deploy.done = {}
    /\ deploy.todo # {} => deploy.todo \subseteq DOMAIN lists[deploy.list].objects
    /\ check.todo # <<>> =>
          /\ "check" \in clients
          /\ check.list \in Lists
          /\ \A i \in DOMAIN check.todo : check.todo[i] \in DOMAIN lists[check.list].objects

\* What becomes of a list to which a request refers: rows are taken out of it and
\* changed where they are, by clients c, but they are its rows still.
InPlace == {"fill", "fix", "check"}
Ages(x, y, c) ==
    /\ DOMAIN y.objects = DOMAIN x.objects
    /\ \A i \in DOMAIN x.objects :
          y.objects[i].name = x.objects[i].name /\ y.objects[i].ns = x.objects[i].ns
    /\ "delete" \notin c => y.has = x.has
    /\ InPlace \cap c = {} => y.objects = x.objects

\* A deployment has the rows of its file and has lost none unnoticed.
MirrorInv ==
    /\ deploy.pc # "none" => Ages(ListOf(Files[deploy.file]), lists[deploy.list], clients)
    /\ DeploysItsOwnUndisturbed

Working == {"asked", "checking", "covering", "publishing"}

\* The results that a run has found are its own, and about its names.
InOrder(r, j) ==
    /\ r.pc \in Working => r.request \in Requests
    /\ r.pc \notin Working \ {"asked"} => r.found = {} /\ ~r.cancelled
    /\ r.pc = "publishing" => r.coverage \in Scope /\ r.coverage.names = r.request.names
    /\ \A f \in r.found :
          f.run = j /\ (r.request.names = {} \/ f.name \in r.request.names)
    /\ \A f, g \in r.found :
          (f.name = g.name /\ f.ns = g.ns /\ f.kind = g.kind /\ f.item = g.item) => f = g
    /\ r.pc = "checking" =>
          \A f \in r.found : f.kind = "workshop" /\ f.ns \notin r.left

FoundInv == \A j \in Runs : InOrder(runs[j], j)

OneEach(rs) ==
    \A r, s \in rs : (r.name = s.name /\ r.ns = s.ns /\ r.kind = s.kind /\ r.item = s.item) => r = s

StoredInv ==
    /\ OneEach(checks)
    /\ OneEach(saved)
    /\ \A j \in Runs : OneEach(runs[j].copy)

\* One run at a time is between its coverage and its save.
HoldingInv ==
    /\ \A i, j \in Runs : Holding(i) /\ Holding(j) => i = j
    /\ "clear" \notin clients =>
          \A j \in Runs : runs[j].pc = "writing" => runs[j].copy = checks

\* Do these results have something to show for the row?
Has(c, rs) == \E r \in rs : c \in r.of

\* What a run has a result for grows from namespace to namespace, until it is
\* all that the coverage will claim.  The rows are not those of an empty list.
ShownSoFar(r) ==
    /\ r.pc \in {"asked", "checking", "covering"} => Schedules # <<>>
    /\ r.pc \in {"checking", "covering"} => r.spaces # {}
    /\ r.pc = "checking" =>
          /\ ~r.cancelled
          /\ r.left \subseteq r.spaces
          /\ \A row \in Scoped(r.request) :
                row.ns \in r.spaces \ r.left /\ r.request.type # "1" => Has(Entry(row), r.found)
    /\ r.pc = "covering" =>
          \A row \in Scoped(r.request) : row.ns \in r.spaces => Has(Entry(row), r.found)
    /\ r.pc = "publishing" => \A c \in r.coverage.covered : Has(c, r.found)

ShownInv == ~spoilt => \A j \in Runs : ShownSoFar(runs[j])

-----------------------------------------------------------------------------
(* Operators of ScheduleList.                                              *)

\* A new list object is none that a request refers to.
LEMMA FreshIs ==
    ASSUME current \in Lists
    PROVE  Fresh \in Lists /\ Fresh \notin Held
  <1>1. \E l \in Lists :
            /\ l \notin {deploy.list, fix.list, check.list}
            /\ current \in {deploy.list, fix.list, check.list} \/ l = current
    BY ListsAssumption
  <1> QED
    BY <1>1 DEF Fresh, Held

LEMMA ListOfIs ==
    ASSUME NEW rows \in Seq(Row)
    PROVE  IsList(ListOf(rows)) /\ ShownOf(ListOf(rows)) = rows /\ ListOf(rows).objects = rows
  <1>1. DOMAIN rows = 1..Len(rows) /\ Len(rows) \in Nat
    OBVIOUS
  <1>2. [i \in DOMAIN rows |-> i] \in [1..Len(rows) -> Nat]
    BY <1>1
  <1>3. [i \in DOMAIN rows |-> i] \in Seq(Nat)
    BY <1>1, <1>2
  <1>4. /\ ListOf(rows).objects = rows /\ ListOf(rows).has = [i \in DOMAIN rows |-> i]
        /\ ListOf(rows) \in [objects : Seq(Row), has : Seq(Nat)]
    BY <1>3 DEF ListOf
  <1>5. \A i \in DOMAIN rows : rows[i] \in Row
    OBVIOUS
  <1>6. rows = [i \in DOMAIN rows |-> rows[i]]
    OBVIOUS
  <1>7. ShownOf(ListOf(rows)) = [i \in DOMAIN rows |-> rows[i]]
    BY <1>4 DEF ShownOf
  <1> QED
    BY <1>4, <1>6, <1>7 DEF IsList

LEMMA ShownOfIs ==
    ASSUME NEW x, IsList(x)
    PROVE  /\ ShownOf(x) \in Seq(Row) /\ Len(ShownOf(x)) = Len(x.has)
           /\ DOMAIN ShownOf(x) = DOMAIN x.has
           /\ \A i \in DOMAIN x.has : ShownOf(x)[i] = x.objects[x.has[i]]
  <1>1. DOMAIN x.has = 1..Len(x.has) /\ Len(x.has) \in Nat
    BY DEF IsList
  <1>2. \A i \in DOMAIN x.has : x.objects[x.has[i]] \in Row
    BY DEF IsList
  <1>3. ShownOf(x) \in [1..Len(x.has) -> Row]
    BY <1>1, <1>2 DEF ShownOf
  <1>4. ShownOf(x) \in Seq(Row)
    BY <1>1, <1>3
  <1>5. DOMAIN ShownOf(x) = 1..Len(x.has)
    BY <1>3
  <1> QED
    BY <1>1, <1>4, <1>5 DEF ShownOf

LEMMA TypeGivesLists ==
    ASSUME ScheduleTypeOK
    PROVE  /\ lists \in [Lists -> [objects : Seq(Row), has : Seq(Nat)]]
           /\ \A l \in Lists : IsList(lists[l]) /\ Shown(l) = ShownOf(lists[l])
           /\ current \in Lists /\ Schedules = ShownOf(lists[current])
           /\ Schedules \in Seq(Row)
  <1>1. /\ lists \in [Lists -> [objects : Seq(Row), has : Seq(Nat)]]
        /\ \A l \in Lists : IsList(lists[l]) /\ current \in Lists
    BY DEF ScheduleTypeOK, IsList
  <1>2. \A l \in Lists : Shown(l) = ShownOf(lists[l])
    BY DEF Shown, ShownOf
  <1>3. current \in Lists
    BY DEF ScheduleTypeOK
  <1>4. Schedules = ShownOf(lists[current]) /\ IsList(lists[current])
    BY <1>1, <1>2, <1>3 DEF Schedules
  <1> QED
    BY <1>1, <1>2, <1>3, <1>4, ShownOfIs

LEMMA WithNewIs ==
    ASSUME ScheduleTypeOK, NEW rows \in Seq(Row)
    PROVE  /\ WithNew(rows) \in [Lists -> [objects : Seq(Row), has : Seq(Nat)]]
           /\ \A l \in Lists : IsList(WithNew(rows)[l])
           /\ WithNew(rows)[Fresh] = ListOf(rows)
           /\ \A l \in Held \cap Lists : WithNew(rows)[l] = lists[l]
  <1>1. Fresh \in Lists /\ Fresh \notin Held
    BY FreshIs DEF ScheduleTypeOK
  <1>2. IsList(ListOf(rows)) /\ IsList(ListOf(<<>>))
    BY ListOfIs, <<>> \in Seq(Row)
  <1>3. \A l \in Lists : IsList(lists[l])
    BY TypeGivesLists
  <1>4. \A l \in Lists : WithNew(rows)[l] = IF l = Fresh THEN ListOf(rows)
                                            ELSE IF l \in Held THEN lists[l] ELSE ListOf(<<>>)
    BY DEF WithNew
  <1>5. \A l \in Lists : IsList(WithNew(rows)[l])
    BY <1>2, <1>3, <1>4, Zenon
  <1>6. \A l \in Lists : WithNew(rows)[l] \in [objects : Seq(Row), has : Seq(Nat)]
    BY <1>5 DEF IsList
  <1>7. WithNew(rows) = [l \in Lists |-> WithNew(rows)[l]]
    BY DEF WithNew
  <1> HIDE DEF WithNew
  <1>8. WithNew(rows) \in [Lists -> [objects : Seq(Row), has : Seq(Nat)]]
    BY <1>6, <1>7
  <1> QED
    BY <1>1, <1>4, <1>5, <1>8

\* Without one of its elements a sequence has no new ones.
LEMMA RemoveAtIs ==
    ASSUME NEW S, NEW s \in Seq(S), NEW i \in DOMAIN s
    PROVE  /\ RemoveAt(s, i) \in Seq(S) /\ Len(RemoveAt(s, i)) = Len(s) - 1
           /\ \A k \in 1..(Len(s) - 1) : RemoveAt(s, i)[k] = IF k < i THEN s[k] ELSE s[k + 1]
  <1> DEFINE a == SubSeq(s, 1, i - 1)
             b == SubSeq(s, i + 1, Len(s))
  <1>1. /\ a \in Seq(S) /\ Len(a) = i - 1
        /\ \A k \in 1..Len(a) : a[k] = s[k]
    OBVIOUS
  <1>2. /\ b \in Seq(S) /\ Len(b) = Len(s) - i
        /\ \A k \in 1..Len(b) : b[k] = s[i + k]
    OBVIOUS
  <1>3. RemoveAt(s, i) = a \o b
    BY DEF RemoveAt
  <1> HIDE DEF a, b
  <1>4. a \o b \in Seq(S) /\ Len(a \o b) = Len(a) + Len(b)
    <2>1. a \in Seq(S) /\ b \in Seq(S)
      BY <1>1, <1>2
    <2> QED
      BY <2>1
  <1>5. ASSUME NEW k \in 1..(Len(s) - 1)
        PROVE  (a \o b)[k] = IF k < i THEN s[k] ELSE s[k + 1]
    <2>0. k \in 1..(Len(a) + Len(b)) /\ i \in 1..Len(s) /\ Len(s) \in Nat
      BY <1>1, <1>2, <1>4
    <2>1. CASE k < i
      <3>1. (a \o b)[k] = a[k]
        BY <1>1, <1>2, <2>0, <2>1
      <3> QED
        BY <1>1, <2>0, <2>1, <3>1
    <2>2. CASE ~(k < i)
      <3>0. k > Len(a) /\ i = Len(a) + 1 /\ Len(a) \in Nat /\ Len(b) \in Nat
        BY <1>1, <1>2, <2>0, <2>2
      <3>1. (a \o b)[k] = b[k - Len(a)]
        <4>1. k > Len(a) /\ a \in Seq(S) /\ b \in Seq(S)
          BY <1>1, <1>2, <3>0
        <4> QED
          BY <2>0, <4>1
      <3>2. k - Len(a) \in 1..Len(b) /\ i + (k - Len(a)) = k + 1
        BY <2>0, <3>0
      <3> QED
        BY <1>2, <2>0, <2>2, <3>1, <3>2
    <2> QED
      BY <2>1, <2>2
  <1>6. Len(a) + Len(b) = Len(s) - 1
    BY <1>1, <1>2
  <1> QED
    BY <1>3, <1>4, <1>5, <1>6

\* The newest n of a sequence whose numbers count up to the latest.
LEMMA NewestIs ==
    ASSUME NEW S, NEW s \in Seq(S), NEW n \in Nat \ {0}
    PROVE  /\ Newest(s, n) \in Seq(S)
           /\ Len(Newest(s, n)) = (IF Len(s) > n THEN n ELSE Len(s))
           /\ \A i \in DOMAIN Newest(s, n) :
                 Newest(s, n)[i] = s[Len(s) - Len(Newest(s, n)) + i]
  <1>1. CASE Len(s) > n
    <2> DEFINE t == SubSeq(s, Len(s) - n + 1, Len(s))
    <2>1. t \in Seq(S) /\ Len(t) = n
      BY <1>1
    <2>2. \A i \in 1..n : t[i] = s[Len(s) - n + i]
      BY <1>1
    <2>3. Newest(s, n) = t
      BY <1>1 DEF Newest
    <2>4. DOMAIN t = 1..n
      BY <2>1
    <2> HIDE DEF t
    <2> QED
      BY <1>1, <2>1, <2>2, <2>3, <2>4
  <1>2. CASE ~(Len(s) > n)
    BY <1>2 DEF Newest
  <1> QED
    BY <1>1, <1>2
-----------------------------------------------------------------------------
(* What the requests do to a list.                                         *)

LEMMA AgesIs ==
    ASSUME NEW c
    PROVE  /\ \A x : Ages(x, x, c)
           /\ \A x, y, z : Ages(x, y, c) /\ Ages(y, z, c) => Ages(x, z, c)
  BY DEF Ages

\* The index of a row is taken out.
Without(x, i) == [x EXCEPT !.has = RemoveAt(@, i)]

LEMMA WithoutIs ==
    ASSUME NEW x, IsList(x), NEW i \in DOMAIN x.has
    PROVE  /\ IsList(Without(x, i)) /\ Without(x, i).objects = x.objects
           /\ ShownOf(Without(x, i)) = RemoveAt(ShownOf(x), i)
  <1> DEFINE y == Without(x, i)
             h == RemoveAt(x.has, i)
  <1>1. x.has \in Seq(Nat) /\ DOMAIN x.has = 1..Len(x.has) /\ Len(x.has) \in Nat
    BY DEF IsList
  <1>2. /\ h \in Seq(Nat) /\ Len(h) = Len(x.has) - 1
        /\ \A k \in 1..(Len(x.has) - 1) : h[k] = IF k < i THEN x.has[k] ELSE x.has[k + 1]
    BY <1>1, RemoveAtIs
  <1>3. y.objects = x.objects /\ y.has = h /\ y \in [objects : Seq(Row), has : Seq(Nat)]
    BY <1>2 DEF IsList, Without
  <1> HIDE DEF y, h
  <1>4. DOMAIN h = 1..(Len(x.has) - 1)
    BY <1>1, <1>2
  <1>5. IsList(y)
    <2>1. \A k \in DOMAIN h : h[k] \in DOMAIN x.objects
      <3> SUFFICES ASSUME NEW k \in DOMAIN h PROVE h[k] \in DOMAIN x.objects
        OBVIOUS
      <3>1. k \in 1..Len(x.has) /\ k + 1 \in 1..Len(x.has)
        BY <1>1, <1>4
      <3>2. h[k] = x.has[k] \/ h[k] = x.has[k + 1]
        BY <1>2, <1>4
      <3> QED
        BY <1>1, <3>1, <3>2 DEF IsList
    <2> QED
      BY <1>3, <2>1 DEF IsList
  <1>6. /\ ShownOf(x) \in Seq(Row) /\ Len(ShownOf(x)) = Len(x.has)
        /\ \A k \in DOMAIN x.has : ShownOf(x)[k] = x.objects[x.has[k]]
    BY ShownOfIs
  <1>7. /\ RemoveAt(ShownOf(x), i) \in Seq(Row)
        /\ Len(RemoveAt(ShownOf(x), i)) = Len(x.has) - 1
        /\ \A k \in 1..(Len(x.has) - 1) :
              RemoveAt(ShownOf(x), i)[k] = IF k < i THEN ShownOf(x)[k] ELSE ShownOf(x)[k + 1]
    <2>1. i \in DOMAIN ShownOf(x)
      BY <1>1, <1>6
    <2> QED
      BY <1>6, <2>1, RemoveAtIs
  <1>8. /\ ShownOf(y) \in Seq(Row) /\ Len(ShownOf(y)) = Len(x.has) - 1
        /\ \A k \in DOMAIN h : ShownOf(y)[k] = x.objects[h[k]]
    BY <1>2, <1>3, <1>5, ShownOfIs
  <1>9. \A k \in 1..(Len(x.has) - 1) : ShownOf(y)[k] = RemoveAt(ShownOf(x), i)[k]
    <2> SUFFICES ASSUME NEW k \in 1..(Len(x.has) - 1)
                 PROVE  ShownOf(y)[k] = RemoveAt(ShownOf(x), i)[k]
      OBVIOUS
    <2>1. k \in 1..Len(x.has) /\ k + 1 \in 1..Len(x.has)
      BY <1>1
    <2>2. CASE k < i
      <3>1. RemoveAt(ShownOf(x), i)[k] = x.objects[x.has[k]]
        BY <1>1, <1>6, <1>7, <2>1, <2>2
      <3>2. h[k] = x.has[k]
        BY <1>2, <2>2
      <3> QED
        BY <1>4, <1>8, <3>1, <3>2
    <2>3. CASE ~(k < i)
      <3>1. RemoveAt(ShownOf(x), i)[k] = x.objects[x.has[k + 1]]
        BY <1>1, <1>6, <1>7, <2>1, <2>3
      <3>2. h[k] = x.has[k + 1]
        BY <1>2, <2>3
      <3> QED
        BY <1>4, <1>8, <3>1, <3>2
    <2> QED
      BY <2>2, <2>3
  <1>10. ShownOf(y) = RemoveAt(ShownOf(x), i)
    <2> DEFINE s == ShownOf(y)
               t == RemoveAt(ShownOf(x), i)
               n == Len(x.has) - 1
    <2>1. s \in Seq(Row) /\ t \in Seq(Row) /\ Len(s) = n /\ Len(t) = n /\ \A k \in 1..n : s[k] = t[k]
      BY <1>7, <1>8, <1>9
    <2> HIDE DEF s, t, n
    <2>2. s = t
      BY <2>1
    <2> QED
      BY <2>2 DEF s, t
  <1> QED
    BY <1>3, <1>5, <1>10 DEF y

\* The rows are changed.
Changed(x, rows) == [x EXCEPT !.objects = rows]

LEMMA ChangedIs ==
    ASSUME NEW x, IsList(x), NEW rows \in Seq(Row), DOMAIN rows = DOMAIN x.objects
    PROVE  /\ IsList(Changed(x, rows))
           /\ Changed(x, rows).has = x.has /\ Changed(x, rows).objects = rows
           /\ Len(ShownOf(Changed(x, rows))) = Len(x.has)
           /\ \A i \in DOMAIN x.has : ShownOf(Changed(x, rows))[i] = rows[x.has[i]]
  <1> DEFINE y == Changed(x, rows)
  <1>1. y.objects = rows /\ y.has = x.has /\ y \in [objects : Seq(Row), has : Seq(Nat)]
    BY DEF IsList, Changed
  <1> HIDE DEF y
  <1>2. IsList(y)
    BY <1>1 DEF IsList
  <1>3. Len(ShownOf(y)) = Len(x.has) /\ \A i \in DOMAIN x.has : ShownOf(y)[i] = rows[x.has[i]]
    BY <1>1, <1>2, ShownOfIs
  <1> QED
    BY <1>1, <1>2, <1>3 DEF y

\* A row with its missing date, and rows with theirs.
Dated(row, d) == [row EXCEPT !.day = IF @ = NoDay THEN d ELSE @]
Filled(x, d) == [i \in DOMAIN x.objects |->
                    IF i \in Range(x.has) THEN Dated(x.objects[i], d) ELSE x.objects[i]]

LEMMA DatedIs ==
    ASSUME NEW row \in Row, NEW d \in Days
    PROVE  Dated(row, d) \in Row /\ Dated(row, d).name = row.name /\ Dated(row, d).ns = row.ns
  BY DEF Row, Dated

LEMMA FilledIs ==
    ASSUME NEW x, IsList(x), NEW d \in Days
    PROVE  /\ Filled(x, d) \in Seq(Row) /\ DOMAIN Filled(x, d) = DOMAIN x.objects
           /\ \A i \in DOMAIN x.objects :
                 Filled(x, d)[i].name = x.objects[i].name /\ Filled(x, d)[i].ns = x.objects[i].ns
           /\ ShownOf(Changed(x, Filled(x, d))) =
                 [i \in DOMAIN x.has |-> Dated(ShownOf(x)[i], d)]
  <1>1. /\ x.objects \in Seq(Row) /\ DOMAIN x.objects = 1..Len(x.objects) /\ Len(x.objects) \in Nat
        /\ \A i \in DOMAIN x.objects : x.objects[i] \in Row
    BY DEF IsList
  <1>2. DOMAIN Filled(x, d) = 1..Len(x.objects)
    BY <1>1 DEF Filled
  <1>3. ASSUME NEW i \in DOMAIN x.objects
        PROVE  /\ Filled(x, d)[i] \in Row
               /\ Filled(x, d)[i].name = x.objects[i].name /\ Filled(x, d)[i].ns = x.objects[i].ns
    <2>1. Filled(x, d)[i] = IF i \in Range(x.has) THEN Dated(x.objects[i], d) ELSE x.objects[i]
      BY DEF Filled
    <2>2. x.objects[i] \in Row
      BY <1>1
    <2> QED
      BY <2>1, <2>2, DatedIs
  <1>4. Filled(x, d) = [i \in 1..Len(x.objects) |-> Filled(x, d)[i]]
    BY <1>1 DEF Filled
  <1>5. Filled(x, d) \in [1..Len(x.objects) -> Row]
    BY <1>1, <1>3, <1>4
  <1>6. Filled(x, d) \in Seq(Row)
    BY <1>1, <1>5
  <1> DEFINE y == Changed(x, Filled(x, d))
  <1>7. IsList(y) /\ Len(ShownOf(y)) = Len(x.has) /\ \A i \in DOMAIN x.has : ShownOf(y)[i] = Filled(x, d)[x.has[i]]
    BY <1>1, <1>2, <1>6, ChangedIs
  <1> HIDE DEF y
  <1>8. DOMAIN x.has = 1..Len(x.has) /\ Len(x.has) \in Nat
    BY DEF IsList
  <1>9. ShownOf(y) \in Seq(Row) /\ DOMAIN ShownOf(y) = DOMAIN x.has
    BY <1>7, <1>8, ShownOfIs
  <1>10. ASSUME NEW i \in DOMAIN x.has PROVE ShownOf(y)[i] = Dated(ShownOf(x)[i], d)
    <2>1. x.has[i] \in Range(x.has) /\ x.has[i] \in DOMAIN x.objects
      BY DEF Range, IsList
    <2>2. Filled(x, d)[x.has[i]] = Dated(x.objects[x.has[i]], d)
      BY <2>1 DEF Filled
    <2>3. ShownOf(x)[i] = x.objects[x.has[i]]
      BY ShownOfIs
    <2> QED
      BY <1>7, <2>2, <2>3
  <1>11. ShownOf(y) = [i \in DOMAIN x.has |-> ShownOf(y)[i]]
    BY <1>9
  <1>12. ShownOf(y) = [i \in DOMAIN x.has |-> Dated(ShownOf(x)[i], d)]
    BY <1>10, <1>11
  <1> QED
    BY <1>1, <1>2, <1>3, <1>6, <1>12 DEF y

\* One row is changed where it is.
Put1(x, i, row) == [x.objects EXCEPT ![i] = row]

LEMMA Put1Is ==
    ASSUME NEW x, IsList(x), NEW i \in DOMAIN x.objects, NEW row \in Row,
           row.name = x.objects[i].name, row.ns = x.objects[i].ns
    PROVE  /\ Put1(x, i, row) \in Seq(Row) /\ DOMAIN Put1(x, i, row) = DOMAIN x.objects
           /\ \A k \in DOMAIN x.objects :
                 /\ Put1(x, i, row)[k] = IF k = i THEN row ELSE x.objects[k]
                 /\ Put1(x, i, row)[k].name = x.objects[k].name
                 /\ Put1(x, i, row)[k].ns = x.objects[k].ns
  <1>1. x.objects \in Seq(Row)
    BY DEF IsList
  <1> QED
    BY <1>1 DEF Put1

LEMMA CorrectIs ==
    ASSUME NEW row \in Row, row.ci \in DOMAIN Corrected
    PROVE  /\ Correct(row) \in Row
           /\ Correct(row).name = row.name /\ Correct(row).ns = row.ns /\ Correct(row).day = row.day
  <1>1. Corrected[row.ci] \in Items
    BY CorrectedAssumption
  <1>2. {IF a = row.ci THEN Corrected[a] ELSE a : a \in row.assets} \in SUBSET Items
    BY <1>1 DEF Row
  <1> QED
    BY <1>1, <1>2 DEF Row, Correct

-----------------------------------------------------------------------------
(* The schedules: types, and what a request refers to.                     *)

ScheduleInv == ScheduleTypeOK /\ ClientsInv

DeployStep == Group \/ DeployRow \/ DeployEnd

\* What QARun's actions do to the schedules.
ScheduleStep ==
    \/ Change \/ DeployStep \/ Restart
    \/ \E b \in BOOLEAN : Emptied /\ sessions' = Archived(b)

LEMMA NextIsScheduleStep == [Next]_vars => ScheduleStep \/ UNCHANGED scheduleVars
  <1>1. ASSUME ClearSession PROVE ScheduleStep
    BY <1>1, (checks # {}) \in BOOLEAN DEF ClearSession, ScheduleStep
  <1>2. ASSUME NEW j \in Runs, Ask(j) \/ Run(j) \/ Cancel(j) PROVE UNCHANGED scheduleVars
    BY <1>2 DEF Ask, Run, Cancel, Resolve, CheckSpace, CheckCatalog, CheckFails, Cover, Publish,
                Read, Write
  <1>3. ASSUME ChangeSchedules \/ DeployRows \/ RestartPod PROVE ScheduleStep
    BY <1>3 DEF ChangeSchedules, DeployRows, DeployStep, RestartPod, ScheduleStep
  <1> QED
    BY <1>1, <1>2, <1>3 DEF Next, vars

\* Lists stay lists, and those that a request refers to only age.
Moved ==
    /\ lists' \in [Lists -> [objects : Seq(Row), has : Seq(Nat)]]
    /\ \A l \in Lists : IsList(lists'[l])
    /\ \A l \in Held \cap Lists : Ages(lists[l], lists'[l], clients)

LEMMA MovedNew ==
    ASSUME ScheduleInv, NEW rows \in Seq(Row), lists' = WithNew(rows), current' = Fresh
    PROVE  Moved /\ current' \in Lists /\ Schedules' = rows
  <1>1. /\ WithNew(rows) \in [Lists -> [objects : Seq(Row), has : Seq(Nat)]]
        /\ \A l \in Lists : IsList(WithNew(rows)[l])
        /\ WithNew(rows)[Fresh] = ListOf(rows)
        /\ \A l \in Held \cap Lists : WithNew(rows)[l] = lists[l]
    BY WithNewIs DEF ScheduleInv
  <1>2. Fresh \in Lists
    BY FreshIs DEF ScheduleInv, ScheduleTypeOK
  <1>3. Moved
    BY <1>1, AgesIs, Zenon DEF Moved
  <1>4. Schedules' = ShownOf(ListOf(rows))
    BY <1>1 DEF Schedules, Shown, ShownOf
  <1> QED
    BY <1>2, <1>3, <1>4, ListOfIs

LEMMA MovedOne ==
    ASSUME ScheduleInv, NEW l \in Lists, NEW x, IsList(x), Ages(lists[l], x, clients),
           lists' = [lists EXCEPT ![l] = x]
    PROVE  Moved /\ lists'[l] = x /\ \A k \in Lists : k # l => lists'[k] = lists[k]
  <1>1. /\ lists \in [Lists -> [objects : Seq(Row), has : Seq(Nat)]]
        /\ \A k \in Lists : IsList(lists[k])
    BY TypeGivesLists DEF ScheduleInv
  <1>2. x \in [objects : Seq(Row), has : Seq(Nat)]
    BY DEF IsList
  <1>3. lists' \in [Lists -> [objects : Seq(Row), has : Seq(Nat)]]
    BY <1>1, <1>2
  <1>4. lists'[l] = x /\ \A k \in Lists : k # l => lists'[k] = lists[k]
    BY <1>1
  <1>5. \A k \in Lists : IsList(lists'[k]) /\ Ages(lists[k], lists'[k], clients)
    BY <1>1, <1>4, AgesIs, Zenon
  <1> QED
    BY <1>3, <1>4, <1>5 DEF Moved

LEMMA MovedNone ==
    ASSUME ScheduleInv, lists' = lists
    PROVE  Moved
  BY TypeGivesLists, AgesIs, Zenon DEF ScheduleInv, Moved

LEMMA MovedDelete ==
    ASSUME ScheduleInv, Delete
    PROVE  /\ Moved
           /\ \E i \in DOMAIN Schedules :
                 /\ Schedules' = RemoveAt(Schedules, i)
                 /\ disk' = Saved(RemoveAt(Schedules, i))
                 /\ RemoveAt(Schedules, i) \in Seq(Row)
                 /\ Len(RemoveAt(Schedules, i)) = Len(Schedules) - 1
  <1>1. PICK i \in DOMAIN Schedules :
            /\ "delete" \in clients
            /\ lists' = [lists EXCEPT ![current].has = RemoveAt(@, i)]
            /\ disk' = Saved(RemoveAt(Schedules, i))
            /\ current' = current
    BY DEF Delete
  <1> DEFINE x == lists[current]
  <1>2. current \in Lists /\ IsList(x) /\ Schedules = ShownOf(x) /\ Schedules \in Seq(Row)
    BY TypeGivesLists DEF ScheduleInv
  <1>3. lists' = [lists EXCEPT ![current] = Without(x, i)]
    BY <1>1 DEF Without
  <1>4. i \in DOMAIN x.has
    BY <1>2, ShownOfIs
  <1> HIDE DEF x
  <1>5. /\ IsList(Without(x, i)) /\ Without(x, i).objects = x.objects
        /\ ShownOf(Without(x, i)) = RemoveAt(ShownOf(x), i)
    BY <1>2, <1>4, WithoutIs
  <1>6. Ages(x, Without(x, i), clients)
    BY <1>1, <1>5 DEF Ages
  <1>7. Moved /\ lists'[current] = Without(x, i)
    BY <1>2, <1>3, <1>5, <1>6, MovedOne DEF x
  <1>70. current' = current
    BY <1>1
  <1>8. Schedules' = ShownOf(Without(x, i))
    BY <1>7, <1>70 DEF Schedules, Shown, ShownOf
  <1>9. Schedules' = RemoveAt(Schedules, i)
    BY <1>2, <1>5, <1>8
  <1>10. RemoveAt(Schedules, i) \in Seq(Row) /\ Len(RemoveAt(Schedules, i)) = Len(Schedules) - 1
    BY <1>2, RemoveAtIs
  <1> QED
    BY <1>1, <1>7, <1>9, <1>10

LEMMA MovedFill ==
    ASSUME ScheduleInv, FillDates
    PROVE  /\ Moved /\ disk' = Saved(Schedules')
           /\ Schedules' \in Seq(Row) /\ Len(Schedules') = Len(Schedules)
  <1>1. PICK d \in Days :
            /\ "fill" \in clients
            /\ lists' = [lists EXCEPT ![current].objects =
                            [i \in DOMAIN @ |-> IF i \in Range(lists[current].has)
                                                THEN Dated(@[i], d) ELSE @[i]]]
            /\ disk' = Saved([i \in DOMAIN Schedules |-> Dated(Schedules[i], d)])
            /\ current' = current
    BY DEF FillDates, Dated
  <1> DEFINE x == lists[current]
             y == Changed(x, Filled(x, d))
  <1>2. current \in Lists /\ IsList(x) /\ Schedules = ShownOf(x) /\ Schedules \in Seq(Row)
    BY TypeGivesLists DEF ScheduleInv
  <1>3. lists' = [lists EXCEPT ![current] = y]
    BY <1>1 DEF Changed, Filled
  <1> HIDE DEF x
  <1>4. /\ Filled(x, d) \in Seq(Row) /\ DOMAIN Filled(x, d) = DOMAIN x.objects
        /\ \A i \in DOMAIN x.objects :
              Filled(x, d)[i].name = x.objects[i].name /\ Filled(x, d)[i].ns = x.objects[i].ns
        /\ ShownOf(y) = [i \in DOMAIN x.has |-> Dated(ShownOf(x)[i], d)]
    BY <1>2, FilledIs
  <1>5. IsList(y) /\ y.has = x.has /\ y.objects = Filled(x, d) /\ Len(ShownOf(y)) = Len(x.has)
    BY <1>2, <1>4, ChangedIs
  <1> HIDE DEF y
  <1>6. Ages(x, y, clients)
    BY <1>1, <1>4, <1>5 DEF Ages, InPlace
  <1>7. Moved /\ lists'[current] = y
    BY <1>2, <1>3, <1>5, <1>6, MovedOne DEF x
  <1>70. current' = current
    BY <1>1
  <1>8. Schedules' = ShownOf(y)
    BY <1>7, <1>70 DEF Schedules, Shown, ShownOf
  <1>9. DOMAIN Schedules = DOMAIN x.has /\ Len(Schedules) = Len(x.has)
    BY <1>2, ShownOfIs
  <1>10. disk' = Saved(Schedules')
    BY <1>1, <1>2, <1>4, <1>8, <1>9
  <1>11. Schedules' \in Seq(Row)
    BY <1>5, <1>8, ShownOfIs
  <1> QED
    BY <1>5, <1>7, <1>8, <1>9, <1>10, <1>11

\* One row of a list is changed where it is.
LEMMA MovedRow ==
    ASSUME ScheduleInv, NEW l \in Lists, NEW i \in DOMAIN lists[l].objects, NEW row \in Row,
           row.name = lists[l].objects[i].name, row.ns = lists[l].objects[i].ns,
           InPlace \cap clients # {}, current' = current,
           lists' = [lists EXCEPT ![l] = Changed(lists[l], Put1(lists[l], i, row))]
    PROVE  /\ Moved /\ Schedules' \in Seq(Row) /\ Len(Schedules') = Len(Schedules)
           /\ \A k \in DOMAIN Schedules :
                 /\ Schedules'[k].name = Schedules[k].name /\ Schedules'[k].ns = Schedules[k].ns
                 /\ row.day = lists[l].objects[i].day => Schedules'[k].day = Schedules[k].day
  <1> DEFINE x == lists[l]
             y == Changed(x, Put1(x, i, row))
  <1>1. IsList(x) /\ current \in Lists /\ Schedules = ShownOf(lists[current]) /\ IsList(lists[current])
    BY TypeGivesLists DEF ScheduleInv
  <1>2. /\ Put1(x, i, row) \in Seq(Row) /\ DOMAIN Put1(x, i, row) = DOMAIN x.objects
        /\ \A k \in DOMAIN x.objects :
              /\ Put1(x, i, row)[k] = IF k = i THEN row ELSE x.objects[k]
              /\ Put1(x, i, row)[k].name = x.objects[k].name
              /\ Put1(x, i, row)[k].ns = x.objects[k].ns
    BY <1>1, Put1Is
  <1>3. /\ IsList(y) /\ y.has = x.has /\ y.objects = Put1(x, i, row)
        /\ Len(ShownOf(y)) = Len(x.has)
        /\ \A k \in DOMAIN x.has : ShownOf(y)[k] = Put1(x, i, row)[x.has[k]]
    BY <1>1, <1>2, ChangedIs
  <1> HIDE DEF y
  <1>4. Ages(x, y, clients)
    BY <1>2, <1>3 DEF Ages
  <1>5. lists' = [lists EXCEPT ![l] = y]
    BY DEF y
  <1>6. Moved /\ lists'[l] = y /\ \A k \in Lists : k # l => lists'[k] = lists[k]
    BY <1>3, <1>4, <1>5, MovedOne
  <1>7. Schedules' = ShownOf(lists'[current])
    BY DEF Schedules, Shown, ShownOf
  <1>8. CASE current # l
    <2>1. Schedules' = Schedules
      BY <1>1, <1>6, <1>7, <1>8
    <2>2. Schedules \in Seq(Row)
      BY TypeGivesLists DEF ScheduleInv
    <2> QED
      BY <1>6, <2>1, <2>2
  <1>9. CASE current = l
    <2>1. Schedules = ShownOf(x) /\ Schedules' = ShownOf(y)
      BY <1>1, <1>6, <1>7, <1>9
    <2>2. /\ Len(Schedules) = Len(x.has) /\ DOMAIN Schedules = DOMAIN x.has
          /\ \A k \in DOMAIN x.has : Schedules[k] = x.objects[x.has[k]]
      BY <1>1, <2>1, ShownOfIs
    <2>3. Schedules' \in Seq(Row)
      BY <1>3, <2>1, ShownOfIs
    <2>4. ASSUME NEW k \in DOMAIN Schedules
          PROVE  /\ Schedules'[k].name = Schedules[k].name /\ Schedules'[k].ns = Schedules[k].ns
                 /\ row.day = x.objects[i].day => Schedules'[k].day = Schedules[k].day
      <3>1. k \in DOMAIN x.has /\ x.has[k] \in DOMAIN x.objects
        BY <1>1, <2>2 DEF IsList
      <3>2. Schedules'[k] = Put1(x, i, row)[x.has[k]] /\ Schedules[k] = x.objects[x.has[k]]
        BY <1>3, <2>1, <2>2, <3>1
      <3> HIDE DEF x
      <3> QED
        BY <1>2, <3>1, <3>2
    <2>5. Len(Schedules') = Len(Schedules)
      BY <1>3, <2>1, <2>2
    <2> QED
      BY <1>6, <2>3, <2>4, <2>5
  <1> QED
    BY <1>8, <1>9

LEMMA MovedFix ==
    ASSUME ScheduleInv, FixRow
    PROVE  /\ Moved /\ Schedules' \in Seq(Row) /\ Len(Schedules') = Len(Schedules)
           /\ \A k \in DOMAIN Schedules :
                 Schedules'[k].name = Schedules[k].name /\ Schedules'[k].ns = Schedules[k].ns
  <1>0. PICK i \in DOMAIN lists[fix.list].has, d \in Days :
            /\ fix.pc = "fixing"
            /\ lists' = [lists EXCEPT ![fix.list].objects[lists[fix.list].has[i]].day = d]
            /\ current' = current
    BY DEF FixRow
  <1> DEFINE l == fix.list
             at == lists[l].has[i]
             row == [lists[l].objects[at] EXCEPT !.day = d]
  <1>00. current' = current
    BY <1>0
  <1>1. l \in Lists /\ "fix" \in clients
    BY <1>0 DEF ScheduleInv, ClientsInv
  <1>2. IsList(lists[l])
    BY <1>1, TypeGivesLists DEF ScheduleInv
  <1>3. at \in DOMAIN lists[l].objects /\ lists[l].objects[at] \in Row
    BY <1>2 DEF IsList
  <1>4. row \in Row /\ row.name = lists[l].objects[at].name /\ row.ns = lists[l].objects[at].ns
    BY <1>3 DEF Row
  <1>5. lists' = [lists EXCEPT ![l] = Changed(lists[l], Put1(lists[l], at, row))]
    BY <1>0 DEF Changed, Put1
  <1>6. InPlace \cap clients # {}
    BY <1>1 DEF InPlace
  <1> HIDE DEF l, at, row
  <1> QED
    BY <1>00, <1>1, <1>3, <1>4, <1>5, <1>6, MovedRow

LEMMA MovedCheck ==
    ASSUME ScheduleInv, CheckRow
    PROVE  /\ Moved /\ Schedules' \in Seq(Row) /\ Len(Schedules') = Len(Schedules)
           /\ \A k \in DOMAIN Schedules :
                 /\ Schedules'[k].name = Schedules[k].name /\ Schedules'[k].ns = Schedules[k].ns
                 /\ Schedules'[k].day = Schedules[k].day
  <1> DEFINE l == check.list
             at == Head(check.todo)
             row == lists[l].objects[at]
  <1>1. /\ check.todo # <<>> /\ current' = current
        /\ \/ lists' = lists
           \/ /\ row.ci \in DOMAIN Corrected
              /\ lists' = [lists EXCEPT ![l].objects[at] = Correct(row)]
    BY DEF CheckRow
  <1>2. l \in Lists /\ "check" \in clients /\ at \in DOMAIN lists[l].objects
    <2>1. check.todo \in Seq(Nat)
      BY DEF ScheduleInv, ScheduleTypeOK
    <2>2. at = check.todo[1] /\ 1 \in DOMAIN check.todo
      BY <1>1, <2>1
    <2> QED
      BY <1>1, <2>2 DEF ScheduleInv, ClientsInv
  <1>3. IsList(lists[l]) /\ Schedules \in Seq(Row)
    BY <1>2, TypeGivesLists DEF ScheduleInv
  <1>4. row \in Row
    BY <1>2, <1>3 DEF IsList
  <1>5. CASE lists' = lists
    <2>1. Schedules' = Schedules
      BY <1>1, <1>5 DEF Schedules, Shown
    <2> QED
      BY <1>3, <1>5, <2>1, MovedNone
  <1>6. CASE /\ row.ci \in DOMAIN Corrected
             /\ lists' = [lists EXCEPT ![l].objects[at] = Correct(row)]
    <2>1. /\ Correct(row) \in Row
          /\ Correct(row).name = row.name /\ Correct(row).ns = row.ns /\ Correct(row).day = row.day
      BY <1>4, <1>6, CorrectIs
    <2>2. lists' = [lists EXCEPT ![l] = Changed(lists[l], Put1(lists[l], at, Correct(row)))]
      BY <1>6 DEF Changed, Put1
    <2>3. InPlace \cap clients # {} /\ current' = current
      BY <1>1, <1>2 DEF InPlace
    <2> DEFINE new == Correct(row)
    <2>4. /\ new \in Row /\ new.name = lists[l].objects[at].name /\ new.ns = lists[l].objects[at].ns
          /\ new.day = lists[l].objects[at].day
          /\ lists' = [lists EXCEPT ![l] = Changed(lists[l], Put1(lists[l], at, new))]
      BY <2>1, <2>2
    <2> HIDE DEF new, l, at
    <2> QED
      BY <1>2, <2>3, <2>4, MovedRow
  <1> QED
    BY <1>1, <1>5, <1>6

\* What requests refer to is there after a step as well.
LEMMA RefsStay ==
    ASSUME ScheduleInv, Moved
    PROVE  /\ deploy.pc # "none" => /\ deploy.list \in Lists
                                    /\ Ages(lists[deploy.list], lists'[deploy.list], clients)
           /\ deploy.todo # {} => deploy.todo \subseteq DOMAIN lists'[deploy.list].objects
           /\ check.todo # <<>> =>
                 \A i \in DOMAIN check.todo : check.todo[i] \in DOMAIN lists'[check.list].objects
  <1>1. deploy.pc # "none" => deploy.list \in Held \cap Lists
    BY DEF ScheduleInv, ClientsInv, Held
  <1>2. check.todo # <<>> => check.list \in Held \cap Lists
    BY DEF ScheduleInv, ClientsInv, Held
  <1>3. deploy.todo # {} => deploy.pc # "none"
    BY DEF ScheduleInv, ClientsInv
  <1>4. \A l \in Held \cap Lists : /\ Ages(lists[l], lists'[l], clients)
                                   /\ DOMAIN lists'[l].objects = DOMAIN lists[l].objects
    BY DEF Moved, Ages
  <1>5. deploy.todo # {} => deploy.todo \subseteq DOMAIN lists[deploy.list].objects
    BY DEF ScheduleInv, ClientsInv
  <1>6. check.todo # <<>> =>
            \A i \in DOMAIN check.todo : check.todo[i] \in DOMAIN lists[check.list].objects
    BY DEF ScheduleInv, ClientsInv
  <1> QED
    BY <1>1, <1>2, <1>3, <1>4, <1>5, <1>6

\* The requests as a set of states.
DeployType == [pc : {"none", "mirrored", "grouped"}, file : DOMAIN Files \cup {None},
               list : Lists \cup {None}, todo : SUBSET Nat, done : SUBSET [at : Nat, row : Row]]
FixType == [pc : {"none", "fixing", "saving", "writing"}, list : Lists \cup {None}, rows : Seq(Row)]
CheckType == [list : Lists \cup {None}, todo : Seq(Nat)]
DiskType == [rows : Seq(Row), filename : DOMAIN Files \cup {None}]

\* A step with these types keeps the invariant if its requests are in order.
LEMMA StepType ==
    ASSUME Moved, current' \in Lists, filename' \in DOMAIN Files \cup {None}, disk' \in DiskType,
           results' \in BOOLEAN, sessions' \in Seq([id : Nat, checked : BOOLEAN]),
           counter' \in 0..MaxClears, deploy' \in DeployType, fix' \in FixType, check' \in CheckType,
           clients' \in ClientSets
    PROVE  ScheduleTypeOK'
  <1>1. /\ lists' \in [Lists -> [objects : Seq(Row), has : Seq(Nat)]]
        /\ \A l \in Lists : \A i \in DOMAIN lists'[l].has :
              lists'[l].has[i] \in DOMAIN lists'[l].objects
    BY DEF Moved, IsList
  <1> QED
    BY <1>1 DEF ScheduleTypeOK, DeployType, FixType, CheckType, DiskType

LEMMA TypesAre ==
    ASSUME ScheduleInv
    PROVE  /\ current \in Lists /\ filename \in DOMAIN Files \cup {None} /\ disk \in DiskType
           /\ results \in BOOLEAN /\ sessions \in Seq([id : Nat, checked : BOOLEAN])
           /\ counter \in 0..MaxClears /\ deploy \in DeployType /\ fix \in FixType
           /\ check \in CheckType /\ clients \in ClientSets
  BY DEF ScheduleInv, ScheduleTypeOK, DeployType, FixType, CheckType, DiskType

\* The requests as they are before they come.
LEMMA NoneType ==
    NoDeploy \in DeployType /\ NoFix \in FixType /\ NoCheck \in CheckType /\ Blank \in DiskType
  <1>1. <<>> \in Seq(Row) /\ <<>> \in Seq(Nat)
    OBVIOUS
  <1> QED
    BY <1>1 DEF NoDeploy, NoFix, NoCheck, Blank, DeployType, FixType, CheckType, DiskType

\* Requests that are not concerned stay in order.
LEMMA OthersStay ==
    ASSUME ScheduleInv, Moved, UNCHANGED requests
    PROVE  ClientsInv'
  <1>1. deploy' = deploy /\ fix' = fix /\ check' = check /\ clients' = clients
    BY DEF requests
  <1>2. ClientsInv
    BY DEF ScheduleInv
  <1>3. /\ deploy.todo # {} => deploy.todo \subseteq DOMAIN lists'[deploy.list].objects
        /\ check.todo # <<>> =>
              \A i \in DOMAIN check.todo : check.todo[i] \in DOMAIN lists'[check.list].objects
    BY RefsStay
  <1> QED
    BY <1>1, <1>2, <1>3 DEF ClientsInv

LEMMA StoreType ==
    ASSUME ScheduleInv, Moved, current' \in Lists, filename' \in DOMAIN Files \cup {None},
           disk' \in DiskType, UNCHANGED archive, UNCHANGED requests
    PROVE  ScheduleInv'
  <1>1. /\ results' = results /\ sessions' = sessions /\ counter' = counter
        /\ deploy' = deploy /\ fix' = fix /\ check' = check /\ clients' = clients
    BY DEF archive, requests
  <1>2. ScheduleTypeOK'
    BY <1>1, TypesAre, StepType
  <1> QED
    BY <1>2, OthersStay DEF ScheduleInv

LEMMA SavedType ==
    ASSUME ScheduleInv, NEW rows \in Seq(Row)
    PROVE  Saved(rows) \in DiskType
  BY TypesAre DEF Saved, DiskType

LEMMA UploadType == ScheduleInv /\ Upload => ScheduleInv'
  <1> SUFFICES ASSUME ScheduleInv, Upload PROVE ScheduleInv'
    OBVIOUS
  <1>1. PICK f \in DOMAIN Files :
            /\ lists' = WithNew(Files[f])
            /\ current' = Fresh
            /\ filename' = f
            /\ disk' = [rows |-> Files[f], filename |-> f]
            /\ UNCHANGED <<archive, requests>>
    BY DEF Upload
  <1>2. Files[f] \in Seq(Row)
    BY FilesAssumption
  <1>3. Moved /\ current' \in Lists
    BY <1>1, <1>2, MovedNew
  <1>4. disk' \in DiskType
    BY <1>1, <1>2 DEF DiskType
  <1> QED
    BY <1>1, <1>3, <1>4, StoreType

LEMMA UpdateType == ScheduleInv /\ Update => ScheduleInv'
  <1> SUFFICES ASSUME ScheduleInv, Update PROVE ScheduleInv'
    OBVIOUS
  <1>1. PICK rows \in Edits :
            /\ lists' = WithNew(rows)
            /\ current' = Fresh
            /\ disk' = Saved(rows)
            /\ UNCHANGED <<filename, archive, requests>>
    BY DEF Update
  <1>2. rows \in Seq(Row)
    BY EditsAssumption
  <1>3. Moved /\ current' \in Lists
    BY <1>1, <1>2, MovedNew
  <1> QED
    BY <1>1, <1>2, <1>3, StoreType, SavedType, TypesAre

LEMMA DeleteType == ScheduleInv /\ Delete => ScheduleInv'
  <1> SUFFICES ASSUME ScheduleInv, Delete PROVE ScheduleInv'
    OBVIOUS
  <1>1. current' = current /\ filename' = filename /\ UNCHANGED <<archive, requests>>
    BY DEF Delete
  <1>2. Moved /\ disk' \in DiskType
    BY MovedDelete, SavedType
  <1> QED
    BY <1>1, <1>2, StoreType, TypesAre

LEMMA FillDatesType == ScheduleInv /\ FillDates => ScheduleInv'
  <1> SUFFICES ASSUME ScheduleInv, FillDates PROVE ScheduleInv'
    OBVIOUS
  <1>1. current' = current /\ filename' = filename /\ UNCHANGED <<archive, requests>>
    BY DEF FillDates
  <1>2. Moved /\ disk' \in DiskType
    <2>1. /\ Moved /\ Schedules' \in Seq(Row) /\ disk' = Saved(Schedules')
      BY MovedFill
    <2>2. ASSUME NEW rows \in Seq(Row) PROVE Saved(rows) \in DiskType
      BY SavedType
    <2> QED
      BY <2>1, <2>2
  <1> QED
    BY <1>1, <1>2, StoreType, TypesAre

LEMMA MirrorType == ScheduleInv /\ Mirror => ScheduleInv'
  <1> SUFFICES ASSUME ScheduleInv, Mirror PROVE ScheduleInv'
    OBVIOUS
  <1>1. PICK f \in DOMAIN Files :
            /\ "session" \in clients
            /\ lists' = WithNew(Files[f])
            /\ current' = Fresh
            /\ disk' = Saved(Files[f])
            /\ deploy' = [NoDeploy EXCEPT !.pc = "mirrored", !.file = f, !.list = Fresh]
            /\ UNCHANGED <<filename, archive, fix, check, clients>>
    BY DEF Mirror
  <1>2. Files[f] \in Seq(Row)
    BY FilesAssumption
  <1>3. Moved /\ current' \in Lists
    BY <1>1, <1>2, MovedNew
  <1>4. /\ deploy'.pc = "mirrored" /\ deploy'.file = f /\ deploy'.list = Fresh
        /\ deploy'.todo = {} /\ deploy'.done = {} /\ deploy' \in DeployType
    BY <1>1, <1>3 DEF NoDeploy, DeployType
  <1>5. results' = results /\ sessions' = sessions /\ counter' = counter
    BY <1>1 DEF archive
  <1>6. ScheduleTypeOK'
    BY <1>1, <1>2, <1>3, <1>4, <1>5, StepType, SavedType, TypesAre
  <1>7. /\ fix' = fix /\ check' = check /\ clients' = clients /\ deploy'.list \in Lists
    BY <1>1, <1>3, <1>4
  <1>8. check.todo # <<>> =>
            \A i \in DOMAIN check.todo : check.todo[i] \in DOMAIN lists'[check.list].objects
    BY <1>3, RefsStay
  <1>9. ClientsInv
    BY DEF ScheduleInv
  <1>10. ClientsInv'
    BY <1>1, <1>4, <1>7, <1>8, <1>9 DEF ClientsInv
  <1> QED
    BY <1>6, <1>10 DEF ScheduleInv

LEMMA DeployStepType == ScheduleInv /\ DeployStep => ScheduleInv'
  <1> SUFFICES ASSUME ScheduleInv, DeployStep PROVE ScheduleInv'
    OBVIOUS
  <1>0. ClientsInv
    BY DEF ScheduleInv
  <1>1. /\ lists' = lists /\ current' = current /\ filename' = filename /\ disk' = disk
        /\ sessions' = sessions /\ counter' = counter /\ fix' = fix /\ check' = check
        /\ clients' = clients
    BY DEF DeployStep, Group, DeployRow, DeployEnd, archive
  <1>2. Moved
    BY <1>1, MovedNone
  <1>3. results' \in BOOLEAN
    <2>1. (results \/ deploy.done # {}) \in BOOLEAN
      OBVIOUS
    <2> QED
      BY <2>1, TypesAre DEF DeployStep, Group, DeployRow, DeployEnd, archive
  <1>4. /\ \A l \in Lists : IsList(lists[l])
        /\ deploy.pc # "none" => deploy.list \in Lists
    BY <1>0, TypeGivesLists DEF ScheduleInv, ClientsInv
  <1>5. deploy' \in DeployType /\ ClientsInv'
    <2>1. CASE Group
      <3>1. deploy.list \in Lists /\ deploy.pc = "mirrored" /\ IsList(lists[deploy.list])
        BY <1>4, <2>1 DEF Group
      <3>2. /\ Range(lists[deploy.list].has) \subseteq DOMAIN lists[deploy.list].objects
            /\ Range(lists[deploy.list].has) \in SUBSET Nat
        BY <3>1 DEF IsList, Range
      <3>3. /\ deploy'.pc = "grouped" /\ deploy'.list = deploy.list /\ deploy'.file = deploy.file
            /\ deploy'.todo = Range(lists[deploy.list].has)
            /\ deploy' \in DeployType
        BY <2>1, <3>2, TypesAre DEF Group, DeployType
      <3> QED
        BY <1>0, <1>1, <3>1, <3>2, <3>3 DEF ClientsInv
    <2>2. CASE DeployRow
      <3>1. PICK i \in deploy.todo :
                deploy' = [deploy EXCEPT !.todo = @ \ {i},
                                         !.done = @ \cup {[at |-> i, row |-> lists[deploy.list].objects[i]]}]
        BY <2>2 DEF DeployRow
      <3>2. deploy.pc = "grouped" /\ deploy.list \in Lists /\ i \in DOMAIN lists[deploy.list].objects
        BY <1>0, <3>1 DEF ClientsInv
      <3>3. i \in Nat /\ lists[deploy.list].objects[i] \in Row
        BY <1>4, <3>1, <3>2, TypesAre DEF IsList, DeployType
      <3> DEFINE more == deploy.done \cup {[at |-> i, row |-> lists[deploy.list].objects[i]]}
      <3>5. more \in SUBSET [at : Nat, row : Row] /\ deploy.todo \ {i} \in SUBSET Nat
        BY <3>3, TypesAre DEF DeployType
      <3>6. deploy' = [deploy EXCEPT !.todo = deploy.todo \ {i}, !.done = more]
        BY <3>1, TypesAre DEF DeployType
      <3> HIDE DEF more
      <3>4. /\ deploy'.pc = deploy.pc /\ deploy'.list = deploy.list /\ deploy'.file = deploy.file
            /\ deploy'.todo \subseteq deploy.todo
            /\ deploy' \in DeployType
        BY <3>5, <3>6, TypesAre DEF DeployType
      <3> QED
        BY <1>0, <1>1, <3>2, <3>4 DEF ClientsInv
    <2>3. CASE DeployEnd
      <3>1. deploy' = NoDeploy
        BY <2>3 DEF DeployEnd
      <3> QED
        BY <1>0, <1>1, <3>1, NoneType DEF ClientsInv, NoDeploy
    <2> QED
      BY <2>1, <2>2, <2>3 DEF DeployStep
  <1>6. ScheduleTypeOK'
    BY <1>1, <1>2, <1>3, <1>5, TypesAre, StepType
  <1> QED
    BY <1>5, <1>6 DEF ScheduleInv

\* A step of the auto-fix that leaves the lists alone.
LEMMA FixStepType ==
    ASSUME ScheduleInv, lists' = lists, current' \in Lists, disk' \in DiskType, fix' \in FixType,
           fix'.pc # "none" => "fix" \in clients, fix'.pc = "fixing" => fix'.list \in Lists,
           UNCHANGED <<filename, archive, deploy, check, clients>>
    PROVE  ScheduleInv'
  <1>1. /\ filename' = filename /\ results' = results /\ sessions' = sessions /\ counter' = counter
        /\ deploy' = deploy /\ check' = check /\ clients' = clients
    BY DEF archive
  <1>2. ScheduleTypeOK'
    BY <1>1, MovedNone, TypesAre, StepType
  <1> QED
    BY <1>1, <1>2 DEF ScheduleInv, ClientsInv

LEMMA FixTypes == ScheduleInv /\ Fix => ScheduleInv'
  <1> SUFFICES ASSUME ScheduleInv, Fix PROVE ScheduleInv'
    OBVIOUS
  <1>0. current \in Lists /\ fix \in FixType /\ disk \in DiskType /\ Schedules \in Seq(Row)
        /\ (fix.pc # "none" => "fix" \in clients) /\ (fix.pc = "fixing" => fix.list \in Lists)
    BY TypesAre, TypeGivesLists DEF ScheduleInv, ClientsInv
  <1>1. CASE FixBegin
    <2>1. fix' = [NoFix EXCEPT !.pc = "fixing", !.list = current]
      BY <1>1 DEF FixBegin
    <2>2. fix' \in FixType /\ fix'.list = current
      BY <1>0, <2>1, <<>> \in Seq(Row) DEF NoFix, FixType
    <2> QED
      BY <1>0, <1>1, <2>2, FixStepType DEF FixBegin
  <1>2. CASE fix.list # None /\ FixRow
    <2>1. PICK i \in DOMAIN lists[fix.list].has, d \in Days :
              /\ fix.pc = "fixing"
              /\ lists' = [lists EXCEPT ![fix.list].objects[lists[fix.list].has[i]].day = d]
              /\ UNCHANGED <<current, filename, disk, archive, requests>>
      BY <1>2 DEF FixRow
    <2>2. Moved
      BY <1>2, MovedFix
    <2> QED
      BY <1>0, <2>1, <2>2, StoreType, TypesAre
  <1>3. CASE FixStore
    <2>1. fix' = [fix EXCEPT !.pc = "saving", !.list = None] /\ fix.pc = "fixing"
      BY <1>3 DEF FixStore
    <2>2. fix' \in FixType /\ fix'.pc = "saving"
      BY <1>0, <2>1 DEF FixType
    <2> QED
      BY <1>0, <1>3, <2>1, <2>2, FixStepType DEF FixStore
  <1>4. CASE FixRead
    <2>1. fix' = [fix EXCEPT !.pc = "writing", !.rows = Schedules] /\ fix.pc = "saving"
      BY <1>4 DEF FixRead
    <2>2. fix' \in FixType /\ fix'.pc = "writing"
      BY <1>0, <2>1 DEF FixType
    <2> QED
      BY <1>0, <1>4, <2>1, <2>2, FixStepType DEF FixRead
  <1>5. CASE FixWrite
    <2>1. fix' = NoFix /\ disk' = Saved(fix.rows) /\ fix.rows \in Seq(Row)
      BY <1>0, <1>5 DEF FixWrite, FixType
    <2>2. fix' \in FixType /\ fix'.pc = "none" /\ disk' \in DiskType
      BY <2>1, NoneType, SavedType DEF NoFix
    <2> QED
      BY <1>0, <1>5, <2>2, FixStepType DEF FixWrite
  <1> QED
    BY <1>1, <1>2, <1>3, <1>4, <1>5 DEF Fix

LEMMA CheckTypes == ScheduleInv /\ Check => ScheduleInv'
  <1> SUFFICES ASSUME ScheduleInv, Check PROVE ScheduleInv'
    OBVIOUS
  <1>0. ClientsInv /\ check \in CheckType /\ current \in Lists
    BY TypesAre DEF ScheduleInv
  <1>1. /\ current' = current /\ filename' = filename /\ disk' = disk /\ results' = results
        /\ sessions' = sessions /\ counter' = counter /\ deploy' = deploy /\ fix' = fix
        /\ clients' = clients
    BY DEF Check, CheckBegin, CheckRow, archive
  <1>2. Moved
    <2>1. CASE CheckBegin
      BY <2>1, MovedNone DEF CheckBegin
    <2>2. CASE CheckRow
      BY <2>2, MovedCheck
    <2> QED
      BY <2>1, <2>2 DEF Check
  <1>3. /\ check' \in CheckType
        /\ check'.todo # <<>> =>
              /\ "check" \in clients
              /\ check'.list \in Lists
              /\ \A i \in DOMAIN check'.todo : check'.todo[i] \in DOMAIN lists'[check'.list].objects
    <2>1. CASE CheckBegin
      <3>1. IsList(lists[current])
        BY <1>0, TypeGivesLists DEF ScheduleInv
      <3>2. /\ check' = [list |-> current, todo |-> lists[current].has] /\ lists' = lists
            /\ "check" \in clients
        BY <2>1 DEF CheckBegin
      <3> QED
        BY <1>0, <3>1, <3>2 DEF IsList, CheckType
    <2>2. CASE CheckRow /\ Len(check.todo) = 1
      <3>1. check' = NoCheck
        BY <2>2 DEF CheckRow
      <3> QED
        BY <3>1, NoneType DEF NoCheck
    <2>3. CASE CheckRow /\ Len(check.todo) # 1
      <3>1. check' = [check EXCEPT !.todo = Tail(@)] /\ check.todo # <<>>
        BY <2>3 DEF CheckRow
      <3>2. check.todo \in Seq(Nat)
        BY <1>0 DEF CheckType
      <3>3. /\ check'.todo = Tail(check.todo) /\ check'.list = check.list /\ check' \in CheckType
            /\ \A i \in DOMAIN check'.todo : i + 1 \in DOMAIN check.todo /\ check'.todo[i] = check.todo[i + 1]
        <4> DEFINE s == check.todo
        <4>1. /\ Tail(s) \in Seq(Nat) /\ Len(Tail(s)) = Len(s) - 1 /\ Len(s) \in Nat
              /\ DOMAIN s = 1..Len(s)
              /\ \A i \in 1..(Len(s) - 1) : Tail(s)[i] = s[i + 1]
          BY <3>1, <3>2
        <4>2. DOMAIN Tail(s) = 1..(Len(s) - 1)
          BY <4>1
        <4> HIDE DEF s
        <4>3. \A i \in DOMAIN Tail(s) : i + 1 \in DOMAIN s /\ Tail(s)[i] = s[i + 1]
          BY <4>1, <4>2
        <4>4. check' = [check EXCEPT !.todo = Tail(s)]
          BY <3>1 DEF s
        <4> QED
          BY <1>0, <4>1, <4>3, <4>4 DEF CheckType, s
      <3>4. \A i \in DOMAIN check.todo : check.todo[i] \in DOMAIN lists'[check.list].objects
        BY <1>2, <3>1, RefsStay
      <3> QED
        BY <1>0, <3>1, <3>3, <3>4 DEF ClientsInv
    <2> QED
      BY <2>1, <2>2, <2>3 DEF Check
  <1>4. ScheduleTypeOK'
    BY <1>1, <1>2, <1>3, TypesAre, StepType
  <1>5. deploy.todo # {} => deploy.todo \subseteq DOMAIN lists'[deploy.list].objects
    BY <1>2, RefsStay
  <1>6. ClientsInv'
    BY <1>0, <1>1, <1>3, <1>5 DEF ClientsInv
  <1> QED
    BY <1>4, <1>6 DEF ScheduleInv

LEMMA ArchivedIs ==
    ASSUME ScheduleInv, NEW b \in BOOLEAN
    PROVE  Archived(b) \in Seq([id : Nat, checked : BOOLEAN])
  <1> DEFINE S == [id : Nat, checked : BOOLEAN]
             s == Append(sessions, [id |-> counter + 1, checked |-> b])
  <1>1. sessions \in Seq(S) /\ [id |-> counter + 1, checked |-> b] \in S
    BY SessionsAssumption DEF ScheduleInv, ScheduleTypeOK
  <1>2. s \in Seq(S)
    BY <1>1
  <1>3. Newest(s, MaxSessions) \in Seq(S)
    BY <1>2, NewestIs, SessionsAssumption
  <1> QED
    BY <1>1, <1>3 DEF Archived

LEMMA EmptiedType ==
    ASSUME ScheduleInv, Emptied, NEW b \in BOOLEAN, sessions' = Archived(b)
    PROVE  ScheduleInv'
  <1>1. Moved /\ current' \in Lists
    BY MovedNew, <<>> \in Seq(Row) DEF Emptied
  <1>2. sessions' \in Seq([id : Nat, checked : BOOLEAN])
    BY ArchivedIs
  <1>3. counter' \in 0..MaxClears
    BY SessionsAssumption DEF Emptied, ScheduleInv, ScheduleTypeOK
  <1>4. /\ filename' = None /\ disk' = Blank /\ results' = FALSE /\ UNCHANGED requests
        /\ deploy' = deploy /\ fix' = fix /\ check' = check /\ clients' = clients
    BY DEF Emptied, requests
  <1>5. ScheduleTypeOK'
    BY <1>1, <1>2, <1>3, <1>4, NoneType, TypesAre, StepType
  <1> QED
    BY <1>1, <1>4, <1>5, OthersStay DEF ScheduleInv

LEMMA RestartIsNew ==
    ASSUME ScheduleInv, Restart
    PROVE  \E rows \in Found :
              /\ rows \in Seq(Row) /\ Schedules' = rows /\ current' \in Lists
              /\ filename' = IF rows = <<>> THEN None ELSE disk.filename
              /\ disk' = [disk EXCEPT !.rows = rows] /\ disk' \in DiskType
              /\ lists' \in [Lists -> [objects : Seq(Row), has : Seq(Nat)]]
              /\ \A l \in Lists : IsList(lists'[l])
  <1>1. PICK rows \in Found :
            /\ lists' = [l \in Lists |-> IF l = 1 THEN ListOf(rows) ELSE ListOf(<<>>)]
            /\ current' = 1
            /\ filename' = IF rows = <<>> THEN None ELSE disk.filename
            /\ disk' = [disk EXCEPT !.rows = rows]
    BY DEF Restart
  <1>2. rows \in Seq(Row) /\ <<>> \in Seq(Row)
    BY FilesAssumption, TypesAre DEF Found, DiskType
  <1>3. IsList(ListOf(rows)) /\ IsList(ListOf(<<>>)) /\ ShownOf(ListOf(rows)) = rows
    BY <1>2, ListOfIs
  <1>4. 1 \in Lists
    BY ListsAssumption
  <1>5. /\ lists'[1] = ListOf(rows)
        /\ \A l \in Lists : lists'[l] = ListOf(rows) \/ lists'[l] = ListOf(<<>>)
    BY <1>1, <1>4
  <1>6. \A l \in Lists : IsList(lists'[l])
    BY <1>3, <1>5
  <1>7. lists' \in [Lists -> [objects : Seq(Row), has : Seq(Nat)]]
    <2>1. /\ ListOf(rows) \in [objects : Seq(Row), has : Seq(Nat)]
          /\ ListOf(<<>>) \in [objects : Seq(Row), has : Seq(Nat)]
      BY <1>3 DEF IsList
    <2> QED
      BY <1>1, <2>1
  <1>8. Schedules' = ShownOf(lists'[current'])
    BY DEF Schedules, Shown, ShownOf
  <1>9. disk' \in DiskType
    BY <1>1, <1>2, TypesAre DEF DiskType
  <1> QED
    BY <1>1, <1>2, <1>3, <1>4, <1>5, <1>6, <1>7, <1>8, <1>9

LEMMA RestartType == ScheduleInv /\ Restart => ScheduleInv'
  <1> SUFFICES ASSUME ScheduleInv, Restart PROVE ScheduleInv'
    OBVIOUS
  <1>1. /\ current' \in Lists /\ filename' \in DOMAIN Files \cup {None} /\ disk' \in DiskType
        /\ lists' \in [Lists -> [objects : Seq(Row), has : Seq(Nat)]]
        /\ \A l \in Lists : IsList(lists'[l])
    BY RestartIsNew, TypesAre DEF DiskType
  <1>2. /\ sessions' = <<>> /\ counter' = 0 /\ deploy' = NoDeploy /\ fix' = NoFix
        /\ check' = NoCheck /\ results' = results /\ clients' = clients
    BY DEF Restart
  <1>3. sessions' \in Seq([id : Nat, checked : BOOLEAN]) /\ counter' \in 0..MaxClears
    BY <1>2, SessionsAssumption
  <1>4. /\ deploy' \in DeployType /\ fix' \in FixType /\ check' \in CheckType
        /\ results' \in BOOLEAN /\ clients' \in ClientSets
    BY <1>2, NoneType, TypesAre
  <1>5. \A l \in Lists : \A i \in DOMAIN lists'[l].has :
            lists'[l].has[i] \in DOMAIN lists'[l].objects
    BY <1>1 DEF IsList
  <1>6. ScheduleTypeOK'
    BY <1>1, <1>3, <1>4, <1>5 DEF ScheduleTypeOK, DeployType, FixType, CheckType, DiskType
  <1> QED
    BY <1>2, <1>6 DEF ScheduleInv, ClientsInv, NoDeploy, NoFix, NoCheck

LEMMA ScheduleStepType == ScheduleInv /\ (ScheduleStep \/ UNCHANGED scheduleVars) => ScheduleInv'
  <1>1. ASSUME ScheduleInv, UNCHANGED scheduleVars PROVE ScheduleInv'
    BY <1>1 DEF ScheduleInv, ScheduleTypeOK, ClientsInv, scheduleVars
  <1>2. ASSUME ScheduleInv, Change PROVE ScheduleInv'
    BY <1>2, UploadType, UpdateType, DeleteType, FillDatesType, MirrorType, FixTypes, CheckTypes
    DEF Change
  <1> QED
    BY <1>1, <1>2, DeployStepType, RestartType, EmptiedType DEF ScheduleStep

LEMMA InitScheduleType == ScheduleInit => ScheduleInv
  <1> SUFFICES ASSUME ScheduleInit PROVE ScheduleInv
    OBVIOUS
  <1>1. <<>> \in Seq(Row) /\ <<>> \in Seq([id : Nat, checked : BOOLEAN])
    OBVIOUS
  <1>2. current \in Lists /\ counter \in 0..MaxClears
    BY ListsAssumption, SessionsAssumption DEF ScheduleInit
  <1>3. IsList(ListOf(<<>>)) /\ \A l \in Lists : lists[l] = ListOf(<<>>)
    BY <1>1, ListOfIs DEF ScheduleInit
  <1>4. /\ lists \in [Lists -> [objects : Seq(Row), has : Seq(Nat)]]
        /\ \A l \in Lists : \A i \in DOMAIN lists[l].has : lists[l].has[i] \in DOMAIN lists[l].objects
    BY <1>3 DEF ScheduleInit, IsList
  <1>5. /\ filename = None /\ disk = Blank /\ results = FALSE /\ sessions = <<>>
        /\ deploy = NoDeploy /\ fix = NoFix /\ check = NoCheck /\ clients \in ClientSets
    BY DEF ScheduleInit
  <1>6. ScheduleTypeOK
    BY <1>1, <1>2, <1>4, <1>5, NoneType
    DEF ScheduleTypeOK, DeployType, FixType, CheckType, DiskType
  <1> QED
    BY <1>5, <1>6 DEF ScheduleInv, ClientsInv, NoDeploy, NoFix, NoCheck

-----------------------------------------------------------------------------
(* A deployment of an upload, and the files of the schedules.              *)

\* Every step but a restart lets lists age at most, for the same clients.
LEMMA StepMoves ==
    ASSUME ScheduleInv, ScheduleStep \/ UNCHANGED scheduleVars
    PROVE  clients' = clients /\ (Moved \/ Restart)
  <1>1. clients' = clients
    BY DEF ScheduleStep, Change, Upload, Update, Delete, FillDates, Mirror, Fix, FixBegin, FixRow,
           FixStore, FixRead, FixWrite, Check, CheckBegin, CheckRow, DeployStep, Group, DeployRow,
           DeployEnd, Restart, Emptied, requests, scheduleVars
  <1>2. ASSUME NEW rows \in Seq(Row), lists' = WithNew(rows), current' = Fresh PROVE Moved
    BY <1>2, MovedNew
  <1>3. CASE Upload
    BY <1>1, <1>2, <1>3, FilesAssumption DEF Upload
  <1>4. CASE Update
    BY <1>1, <1>2, <1>4, EditsAssumption DEF Update
  <1>5. CASE Mirror
    BY <1>1, <1>2, <1>5, FilesAssumption DEF Mirror
  <1>6. CASE Emptied
    BY <1>1, <1>2, <1>6, <<>> \in Seq(Row) DEF Emptied
  <1>7. CASE lists' = lists
    BY <1>1, <1>7, MovedNone
  <1>8. CASE Delete \/ FillDates \/ FixRow \/ CheckRow
    BY <1>1, <1>8, MovedDelete, MovedFill, MovedFix, MovedCheck
  <1>9. CASE FixBegin \/ FixStore \/ FixRead \/ FixWrite \/ CheckBegin \/ DeployStep
    BY <1>1, <1>7, <1>9 DEF FixBegin, FixStore, FixRead, FixWrite, CheckBegin, DeployStep, Group, DeployRow,
                      DeployEnd
  <1>10. CASE UNCHANGED scheduleVars
    BY <1>1, <1>7, <1>10 DEF scheduleVars
  <1> QED
    BY <1>1, <1>3, <1>4, <1>5, <1>6, <1>8, <1>9, <1>10 DEF ScheduleStep, Change, Fix, Check

LEMMA DeployUnchanged ==
    ASSUME ScheduleStep \/ UNCHANGED scheduleVars
    PROVE  deploy' = deploy \/ Mirror \/ DeployStep \/ Restart
  BY DEF ScheduleStep, Change, Upload, Update, Delete, FillDates, Fix, FixBegin, FixRow,
         FixStore, FixRead, FixWrite, Check, CheckBegin, CheckRow, Emptied, requests, scheduleVars

LEMMA NextMirrorInv ==
    ScheduleInv /\ MirrorInv /\ (ScheduleStep \/ UNCHANGED scheduleVars) => MirrorInv'
  <1> SUFFICES ASSUME ScheduleInv, MirrorInv, ScheduleStep \/ UNCHANGED scheduleVars
               PROVE  MirrorInv'
    OBVIOUS
  <1>1. clients' = clients /\ (Moved \/ Restart)
    BY StepMoves
  <1>2. CASE Restart
    BY <1>2 DEF Restart, NoDeploy, MirrorInv, DeploysItsOwnUndisturbed, AllRows, OwnRows
  <1>3. CASE Moved /\ deploy' = deploy
    <2>1. deploy.pc # "none" => Ages(ListOf(Files[deploy.file]), lists'[deploy.list], clients)
      BY <1>3, RefsStay, AgesIs DEF MirrorInv
    <2> QED
      BY <1>1, <1>3, <2>1 DEF MirrorInv, DeploysItsOwnUndisturbed, AllRows, OwnRows
  <1>4. CASE Mirror
    <2>1. PICK f \in DOMAIN Files :
              /\ lists' = WithNew(Files[f])
              /\ deploy' = [NoDeploy EXCEPT !.pc = "mirrored", !.file = f, !.list = Fresh]
      BY <1>4 DEF Mirror
    <2>2. /\ deploy'.pc = "mirrored" /\ deploy'.file = f /\ deploy'.list = Fresh
          /\ deploy'.done = {}
      BY <2>1 DEF NoDeploy
    <2>3. lists'[Fresh] = ListOf(Files[f])
      BY <2>1, WithNewIs, FilesAssumption DEF ScheduleInv
    <2> QED
      BY <2>2, <2>3, AgesIs DEF MirrorInv, DeploysItsOwnUndisturbed, AllRows, OwnRows
  <1>5. CASE DeployEnd
    BY <1>5 DEF DeployEnd, NoDeploy, MirrorInv, DeploysItsOwnUndisturbed, AllRows, OwnRows
  <1> DEFINE x == lists[deploy.list]
             rows == Files[deploy.file]
  <1>6. deploy.pc # "none" =>
            /\ DOMAIN x.objects = DOMAIN rows
            /\ \A i \in DOMAIN rows : x.objects[i].name = rows[i].name /\ x.objects[i].ns = rows[i].ns
            /\ "delete" \notin clients => x.has = [i \in DOMAIN rows |-> i]
            /\ InPlace \cap clients = {} => x.objects = rows
    BY DEF MirrorInv, Ages, ListOf
  <1>7. CASE Group
    <2>1. /\ deploy.pc = "mirrored" /\ lists' = lists
          /\ deploy' = [deploy EXCEPT !.pc = "grouped", !.todo = Range(x.has)]
      BY <1>7 DEF Group
    <2>2. /\ deploy'.pc = "grouped" /\ deploy'.todo = Range(x.has) /\ deploy'.done = {}
          /\ deploy'.list = deploy.list /\ deploy'.file = deploy.file
      BY <2>1, TypesAre DEF DeployType, ScheduleInv, ClientsInv
    <2>3. "delete" \notin clients => Range(x.has) = DOMAIN rows
      BY <1>6, <2>1 DEF Range
    <2> HIDE DEF x, rows
    <2>4. DeploysItsOwnUndisturbed'
      BY <1>1, <2>2, <2>3 DEF DeploysItsOwnUndisturbed, AllRows, OwnRows, rows
    <2> QED
      BY <1>1, <2>1, <2>2, <2>4 DEF MirrorInv
  <1>8. CASE DeployRow
    <2>1. PICK i \in deploy.todo :
              /\ lists' = lists
              /\ deploy' = [deploy EXCEPT !.todo = @ \ {i},
                                          !.done = @ \cup {[at |-> i, row |-> x.objects[i]]}]
      BY <1>8 DEF DeployRow
    <2>2. deploy.pc = "grouped" /\ i \in DOMAIN x.objects
      BY <2>1 DEF ScheduleInv, ClientsInv
    <2> DEFINE u == [at |-> i, row |-> x.objects[i]]
    <2>3. /\ deploy'.pc = "grouped" /\ deploy'.todo = deploy.todo \ {i}
          /\ deploy'.done = deploy.done \cup {u}
          /\ deploy'.list = deploy.list /\ deploy'.file = deploy.file
      BY <2>1, <2>2, TypesAre DEF DeployType
    <2>4. /\ u.at \in DOMAIN rows /\ u.row.name = rows[u.at].name /\ u.row.ns = rows[u.at].ns
          /\ InPlace \cap clients = {} => u.row = rows[u.at]
          /\ u.at = i
      BY <1>6, <2>2
    <2> HIDE DEF u, x, rows
    <2>5. /\ \A v \in deploy.done :
                /\ v.at \in DOMAIN rows /\ v.row.name = rows[v.at].name /\ v.row.ns = rows[v.at].ns
                /\ InPlace \cap clients = {} => v.row = rows[v.at]
          /\ "delete" \notin clients =>
                {v.at : v \in deploy.done} \cup deploy.todo = DOMAIN rows
      BY <2>2 DEF MirrorInv, DeploysItsOwnUndisturbed, AllRows, OwnRows, InPlace, rows
    <2>6. "delete" \notin clients =>
              {v.at : v \in deploy'.done} \cup deploy'.todo = DOMAIN rows
      BY <2>1, <2>3, <2>4, <2>5
    <2>7. \A v \in deploy'.done :
              /\ v.at \in DOMAIN rows /\ v.row.name = rows[v.at].name /\ v.row.ns = rows[v.at].ns
              /\ InPlace \cap clients = {} => v.row = rows[v.at]
      BY <2>3, <2>4, <2>5
    <2>8. DeploysItsOwnUndisturbed'
      BY <1>1, <2>3, <2>6, <2>7 DEF DeploysItsOwnUndisturbed, AllRows, OwnRows, InPlace, rows
    <2> QED
      BY <1>1, <2>1, <2>2, <2>3, <2>8 DEF MirrorInv
  <1> QED
    BY <1>1, <1>2, <1>3, <1>4, <1>5, <1>7, <1>8, DeployUnchanged DEF DeployStep

LEMMA BareIs ==
    ASSUME NEW r \in Seq(Row), NEW s \in Seq(Row), Len(r) = Len(s),
           \A k \in DOMAIN r : r[k].name = s[k].name /\ r[k].ns = s[k].ns /\ r[k].day = s[k].day
    PROVE  Bare(r) = Bare(s)
  <1>1. DOMAIN r = DOMAIN s
    OBVIOUS
  <1> QED
    BY <1>1 DEF Bare

LEMMA NextDiskFollows ==
    ScheduleInv /\ DiskFollowsSchedules /\ (ScheduleStep \/ UNCHANGED scheduleVars)
        => DiskFollowsSchedules'
  <1> SUFFICES ASSUME ScheduleInv, DiskFollowsSchedules, ScheduleStep \/ UNCHANGED scheduleVars,
                      "fix" \notin clients'
               PROVE  DiskFollowsSchedules'
    BY DEF DiskFollowsSchedules
  <1>0. clients' = clients /\ fix.pc = "none" /\ Schedules \in Seq(Row)
    BY StepMoves, TypeGivesLists DEF ScheduleInv, ClientsInv
  <1>1. /\ Bare(disk.rows) = Bare(Schedules)
        /\ "check" \notin clients => disk.rows = Schedules
        /\ Schedules # <<>> => disk.filename = filename
    BY <1>0 DEF DiskFollowsSchedules
  <1>2. ASSUME disk'.rows = Schedules', disk'.filename = filename' \/ Schedules' = <<>>
        PROVE  DiskFollowsSchedules'
    BY <1>2 DEF DiskFollowsSchedules, Bare
  <1>3. ASSUME NEW rows \in Seq(Row), lists' = WithNew(rows), current' = Fresh
        PROVE  Schedules' = rows
    BY <1>3, MovedNew
  <1>4. CASE Upload
    BY <1>2, <1>3, <1>4, FilesAssumption DEF Upload
  <1>5. CASE Update
    BY <1>2, <1>3, <1>5, EditsAssumption DEF Update, Saved
  <1>6. CASE Mirror
    BY <1>2, <1>3, <1>6, FilesAssumption DEF Mirror, Saved
  <1>7. CASE Emptied
    BY <1>2, <1>3, <1>7, <<>> \in Seq(Row) DEF Emptied, Blank
  <1>8. CASE Delete
    <2>1. filename' = filename
      BY <1>8 DEF Delete
    <2> QED
      BY <1>2, <1>8, <2>1, MovedDelete DEF Saved
  <1>9. CASE FillDates
    <2>1. filename' = filename
      BY <1>9 DEF FillDates
    <2> QED
      BY <1>2, <1>9, <2>1, MovedFill DEF Saved
  <1>10. CASE CheckRow
    <2>1. disk' = disk /\ filename' = filename /\ "check" \in clients
      <3>1. check.todo # <<>>
        BY <1>10 DEF CheckRow
      <3> QED
        BY <1>10, <3>1 DEF CheckRow, ScheduleInv, ClientsInv
    <2>2. /\ Schedules' \in Seq(Row) /\ Len(Schedules') = Len(Schedules)
          /\ \A k \in DOMAIN Schedules :
                /\ Schedules'[k].name = Schedules[k].name /\ Schedules'[k].ns = Schedules[k].ns
                /\ Schedules'[k].day = Schedules[k].day
      BY <1>10, MovedCheck
    <2>3. Bare(Schedules) = Bare(Schedules')
      BY <1>0, <2>2, BareIs
    <2>4. Schedules' # <<>> => Schedules # <<>>
      BY <1>0, <2>2
    <2>5. Bare(disk'.rows) = Bare(Schedules')
      BY <1>1, <2>1, <2>3
    <2> QED
      BY <1>0, <1>1, <2>1, <2>4, <2>5 DEF DiskFollowsSchedules, Bare
  <1>11. CASE Restart
    <2>1. PICK rows \in Found :
              /\ rows \in Seq(Row) /\ Schedules' = rows
              /\ filename' = IF rows = <<>> THEN None ELSE disk.filename
              /\ disk' = [disk EXCEPT !.rows = rows]
      BY <1>11, RestartIsNew
    <2>2. disk'.rows = rows /\ disk'.filename = disk.filename
      BY <2>1, TypesAre DEF DiskType
    <2> QED
      BY <1>2, <2>1, <2>2
  <1>12. CASE UNCHANGED <<lists, current, disk, filename>>
    <2>1. Schedules' = Schedules
      BY <1>12 DEF Schedules, Shown
    <2> QED
      BY <1>0, <1>1, <1>12, <2>1 DEF DiskFollowsSchedules, Bare
  <1>13. CASE CheckBegin \/ DeployStep \/ UNCHANGED scheduleVars
    BY <1>12, <1>13 DEF CheckBegin, DeployStep, Group, DeployRow, DeployEnd, scheduleVars
  <1>14. CASE Fix
    BY <1>0, <1>14 DEF Fix, FixBegin, FixRow, FixStore, FixRead, FixWrite
  <1> QED
    BY <1>4, <1>5, <1>6, <1>7, <1>8, <1>9, <1>10, <1>11, <1>13, <1>14 DEF ScheduleStep, Change, Check

-----------------------------------------------------------------------------
(* The archive.                                                            *)

LEMMA NextArchive ==
    ScheduleInv /\ ArchiveKeepsNewest /\ (ScheduleStep \/ UNCHANGED scheduleVars)
        => ArchiveKeepsNewest'
  <1> SUFFICES ASSUME ScheduleInv, ArchiveKeepsNewest, ScheduleStep \/ UNCHANGED scheduleVars
               PROVE  ArchiveKeepsNewest'
    OBVIOUS
  <1>1. CASE UNCHANGED <<sessions, counter>>
    BY <1>1 DEF ArchiveKeepsNewest
  <1>2. CASE Restart
    BY <1>2, SessionsAssumption DEF Restart, ArchiveKeepsNewest
  <1>3. ASSUME Emptied, NEW b \in BOOLEAN, sessions' = Archived(b) PROVE ArchiveKeepsNewest'
    <2>1. CASE NothingShown
      BY <1>3, <2>1 DEF Emptied, Archived, ArchiveKeepsNewest
    <2>2. CASE ~NothingShown
      <3> DEFINE S == [id : Nat, checked : BOOLEAN]
                 s == Append(sessions, [id |-> counter + 1, checked |-> b])
                 t == Newest(s, MaxSessions)
      <3>1. sessions \in Seq(S) /\ counter \in Nat /\ MaxSessions \in Nat \ {0}
        BY SessionsAssumption DEF ScheduleInv, ScheduleTypeOK
      <3>2. /\ s \in Seq(S) /\ Len(s) = Len(sessions) + 1
            /\ \A i \in DOMAIN sessions : s[i] = sessions[i]
            /\ s[Len(sessions) + 1].id = counter + 1
        BY <3>1
      <3>3. \A i \in 1..Len(s) : s[i].id = counter + 1 - Len(s) + i
        <4> SUFFICES ASSUME NEW i \in 1..Len(s) PROVE s[i].id = counter + 1 - Len(s) + i
          OBVIOUS
        <4>1. CASE i = Len(sessions) + 1
          BY <3>1, <3>2, <4>1
        <4>2. CASE i # Len(sessions) + 1
          <5>1. i \in DOMAIN sessions
            BY <3>1, <3>2, <4>2
          <5>2. s[i].id = counter - Len(sessions) + i
            BY <3>2, <5>1 DEF ArchiveKeepsNewest
          <5> QED
            BY <3>1, <3>2, <5>2
        <4> QED
          BY <4>1, <4>2
      <3>4. sessions' = t /\ counter' = counter + 1
        BY <1>3, <2>2 DEF Emptied, Archived
      <3>5. /\ t \in Seq(S)
            /\ Len(t) = (IF Len(s) > MaxSessions THEN MaxSessions ELSE Len(s))
            /\ \A i \in DOMAIN t : t[i] = s[Len(s) - Len(t) + i]
        BY <3>1, <3>2, NewestIs
      <3> HIDE DEF S, s, t
      <3>6. Len(sessions) \in Nat /\ Len(s) \in Nat /\ Len(t) \in Nat /\ DOMAIN t = 1..Len(t)
        BY <3>1, <3>2, <3>5
      <3>7. \A i \in DOMAIN t : t[i].id = counter + 1 - Len(t) + i
        <4> SUFFICES ASSUME NEW i \in DOMAIN t PROVE t[i].id = counter + 1 - Len(t) + i
          OBVIOUS
        <4>1. Len(s) - Len(t) + i \in 1..Len(s)
          BY <3>1, <3>5, <3>6
        <4>2. t[i].id = counter + 1 - Len(s) + (Len(s) - Len(t) + i)
          BY <3>3, <3>5, <4>1
        <4> QED
          BY <3>1, <3>6, <4>2
      <3>8. Len(sessions) <= MaxSessions /\ (Len(sessions) < MaxSessions => Len(sessions) = counter)
        BY DEF ArchiveKeepsNewest
      <3>9. Len(t) <= MaxSessions /\ (Len(t) < MaxSessions => Len(t) = counter + 1)
        BY <3>1, <3>2, <3>5, <3>6, <3>8
      <3>10. \A i \in DOMAIN sessions' : sessions'[i].id = counter' - Len(sessions') + i
        <4> SUFFICES ASSUME NEW i \in DOMAIN sessions'
                     PROVE  sessions'[i].id = counter' - Len(sessions') + i
          OBVIOUS
        <4>1. i \in DOMAIN t /\ sessions'[i] = t[i] /\ Len(sessions') = Len(t)
          BY <3>4
        <4>2. t[i].id = counter + 1 - Len(t) + i
          BY <3>7, <4>1
        <4>3. counter \in Nat /\ Len(t) \in Nat /\ i \in Nat
          BY <3>1, <3>6, <4>1
        <4> QED
          BY <3>4, <4>1, <4>2, <4>3
      <3>11. /\ Len(sessions') <= MaxSessions
             /\ Len(sessions') < MaxSessions => Len(sessions') = counter'
        BY <3>4, <3>9, Zenon
      <3> QED
        BY <3>10, <3>11, Zenon DEF ArchiveKeepsNewest
    <2> QED
      BY <2>1, <2>2
  <1> QED
    BY <1>1, <1>2, <1>3
    DEF ScheduleStep, Change, Upload, Update, Delete, FillDates, Mirror, Fix, FixBegin, FixStore,
        FixRead, FixWrite, FixRow, Check, CheckBegin, CheckRow, DeployStep, Group, DeployRow,
        DeployEnd, archive, scheduleVars
-----------------------------------------------------------------------------
(* Operators of QARun.                                                     *)

LEMMA FirstPosition ==
    ASSUME NEW n \in Nat, NEW S \in SUBSET (1..n), S # {}
    PROVE  \E x \in S : \A y \in S : x <= y
  <1> DEFINE R == StrictSubsetOrdering(1..n)
             T == {1..x : x \in S}
  <1>1. T \subseteq FiniteSubsetsOf(1..n) /\ T # {}
    <2>1. ASSUME NEW x \in S PROVE 1..x \in FiniteSubsetsOf(1..n)
      BY FS_Interval DEF FiniteSubsetsOf
    <2> QED
      BY <2>1
  <1>2. PICK t \in T : \A u \in T : ~(<<u, t>> \in R)
    <2> HIDE DEF T, R
    <2>1. IsFiniteSet(1..n)
      BY FS_Interval
    <2>2. IsWellFoundedOn(R, FiniteSubsetsOf(1..n))
      BY FS_StrictSubsetOrderingWellFounded DEF R
    <2> QED
      BY <1>1, <2>2, WFMin
  <1>3. PICK x \in S : t = 1..x
    OBVIOUS
  <1>4. ASSUME NEW y \in S, y < x PROVE FALSE
    <2>1. 1..y \in SUBSET (1..n) /\ 1..x \in SUBSET (1..n) /\ 1..y \subseteq 1..x
      BY <1>4
    <2>2. x \in 1..x /\ x \notin 1..y
      BY <1>4
    <2>3. <<1..y, 1..x>> \in R
      BY <2>1, <2>2, Zenon DEF StrictSubsetOrdering
    <2> QED
      BY <1>3, <1>2, <2>3
  <1> QED
    BY <1>4

LEMMA ScopedIs ==
    ASSUME Schedules \in Seq(Row), NEW q
    PROVE  /\ Rows \subseteq Row
           /\ \A row \in Scoped(q) :
                 /\ row \in Row /\ Entry(row) \in Covered
                 /\ q.names = {} \/ row.name \in q.names
  <1>1. Rows \subseteq Row
    BY DEF Rows
  <1>2. \A row \in Row : Entry(row) \in Covered
    BY DEF Entry, Covered, Row
  <1> QED
    BY <1>1, <1>2 DEF Scoped, InScope

LEMMA EntriesAre ==
    ASSUME Schedules \in Seq(Row), NEW q, NEW rows \in SUBSET Scoped(q)
    PROVE  Entries(rows) \in SUBSET Covered /\ \A row \in rows : Entry(row) \in Entries(rows)
  BY ScopedIs DEF Entries

LEMMA CheckedIs ==
    ASSUME Schedules \in Seq(Row), NEW q, NEW ns \in Spaces, NEW j \in Runs
    PROVE  /\ Checked(q, ns, j) \in SUBSET Result
           /\ \A r \in Checked(q, ns, j) :
                 /\ r.run = j /\ (q.names = {} \/ r.name \in q.names)
                 /\ r.kind = "workshop" /\ r.ns = ns
           /\ \A r, s \in Checked(q, ns, j) : r.name = s.name => r = s
           /\ q.type # "1" =>
                 \A row \in Scoped(q) : row.ns = ns => Has(Entry(row), Checked(q, ns, j))
  <1> DEFINE rows == {row \in Scoped(q) : row.ns = ns}
             of(n) == Entries({row \in rows : row.name = n})
             result(n) == [name |-> n, ns |-> ns, kind |-> "workshop", item |-> None, run |-> j,
                           of |-> of(n)]
  <1>1. Checked(q, ns, j) = IF q.type = "1" THEN {} ELSE {result(n) : n \in {row.name : row \in rows}}
    BY DEF Checked
  <1>2. ASSUME NEW n \in {row.name : row \in rows}
        PROVE  result(n) \in Result /\ (q.names = {} \/ n \in q.names)
    <2>1. of(n) \in SUBSET Covered
      BY EntriesAre, {row \in rows : row.name = n} \in SUBSET Scoped(q)
    <2>2. n \in Names /\ (q.names = {} \/ n \in q.names)
      BY ScopedIs DEF Row
    <2> HIDE DEF of
    <2> QED
      BY <2>1, <2>2 DEF Result, Kinds
  <1>3. ASSUME q.type # "1", NEW row \in Scoped(q), row.ns = ns
        PROVE  Has(Entry(row), Checked(q, ns, j))
    <2>1. row \in rows
      BY <1>3
    <2>2. Entry(row) \in of(row.name)
      BY <2>1, EntriesAre, {s \in rows : s.name = row.name} \in SUBSET Scoped(q)
    <2> HIDE DEF rows, of
    <2>3. result(row.name) \in Checked(q, ns, j)
      BY <1>1, <1>3, <2>1
    <2> QED
      BY <2>2, <2>3 DEF Has
  <1> HIDE DEF rows, of
  <1>4. ASSUME NEW r \in Checked(q, ns, j)
        PROVE  \E n \in {row.name : row \in rows} : r = result(n)
    BY <1>1
  <1>5. ASSUME NEW r \in Checked(q, ns, j)
        PROVE  /\ r \in Result /\ r.run = j /\ (q.names = {} \/ r.name \in q.names)
               /\ r.kind = "workshop" /\ r.ns = ns /\ r = result(r.name)
    <2>1. PICK n \in {row.name : row \in rows} : r = result(n)
      BY <1>4
    <2> QED
      BY <1>2, <2>1
  <1> QED
    BY <1>3, <1>5

LEMMA CatalogIs ==
    ASSUME Schedules \in Seq(Row), NEW q, NEW spaces \in SUBSET Spaces, NEW j \in Runs
    PROVE  /\ CatalogChecked(q, spaces, j) \in SUBSET Result
           /\ \A r \in CatalogChecked(q, spaces, j) :
                 r.run = j /\ (q.names = {} \/ r.name \in q.names) /\ r.kind = "catalog"
           /\ \A r, s \in CatalogChecked(q, spaces, j) : r.item = s.item => r = s
           /\ q.type \in {"1", "all"} =>
                 \A row \in Scoped(q) :
                     row.ns \in spaces => Has(Entry(row), CatalogChecked(q, spaces, j))
  <1> DEFINE rows == {row \in Scoped(q) : row.ns \in spaces}
             with(item) == {row \in rows : item \in ItemsOf(row, rows)}
             first(item) == Schedules[CHOOSE i \in DOMAIN Schedules :
                               /\ Schedules[i] \in with(item)
                               /\ \A k \in 1..(i - 1) : Schedules[k] \notin with(item)]
             of(item) == Entries(with(item))
             result(item) == [name |-> first(item).name, ns |-> first(item).ns, kind |-> "catalog",
                              item |-> item, run |-> j, of |-> of(item)]
             items == UNION {ItemsOf(row, rows) : row \in rows}
  <1>1. ASSUME NEW item \in items
        PROVE  first(item) \in rows
    <2> DEFINE S == {i \in DOMAIN Schedules : Schedules[i] \in with(item)}
    <2>1. with(item) # {} /\ with(item) \subseteq rows /\ with(item) \subseteq Rows
      <3>1. PICK row \in rows : item \in ItemsOf(row, rows)
        OBVIOUS
      <3> QED
        BY <3>1 DEF Scoped
    <2> HIDE DEF with
    <2>2. S \in SUBSET (1..Len(Schedules)) /\ Len(Schedules) \in Nat /\ S # {}
      BY <2>1 DEF Rows
    <2>3. PICK x \in S : \A y \in S : x <= y
      <3> HIDE DEF S
      <3> QED
        BY <2>2, FirstPosition
    <2>4. \A k \in 1..(x - 1) : Schedules[k] \notin with(item)
      <3> SUFFICES ASSUME NEW k \in 1..(x - 1), Schedules[k] \in with(item) PROVE FALSE
        OBVIOUS
      <3>1. x \in 1..Len(Schedules) /\ DOMAIN Schedules = 1..Len(Schedules) /\ Len(Schedules) \in Nat
        BY <2>2
      <3>2. k \in S
        BY <3>1
      <3>3. x <= k
        BY <2>3, <3>2
      <3> QED
        BY <3>1, <3>3
    <2>5. \E i \in DOMAIN Schedules :
              /\ Schedules[i] \in with(item)
              /\ \A k \in 1..(i - 1) : Schedules[k] \notin with(item)
      BY <2>4
    <2>6. first(item) \in with(item)
      BY <2>5
    <2> QED
      BY <2>1, <2>6
  <1>2. CatalogChecked(q, spaces, j) =
            IF q.type \notin {"1", "all"} THEN {} ELSE {result(item) : item \in items}
    BY DEF CatalogChecked
  <1>3. rows \in SUBSET Scoped(q) /\ \A r \in rows : r \in Row /\ (q.names = {} \/ r.name \in q.names)
    BY ScopedIs
  <1>4. \A row \in rows : ItemsOf(row, rows) \subseteq Items /\ ItemsOf(row, rows) # {}
    <2> HIDE DEF rows
    <2> QED
      BY <1>3 DEF ItemsOf, Row
  <1>5. ASSUME NEW item \in items
        PROVE  result(item) \in Result /\ (q.names = {} \/ result(item).name \in q.names)
    <2>1. first(item).ns \in Spaces /\ first(item).name \in Names
          /\ (q.names = {} \/ first(item).name \in q.names)
      <3> HIDE DEF rows, first, items
      <3> QED
        BY <1>1, <1>3 DEF Row
    <2>2. of(item) \in SUBSET Covered
      BY EntriesAre, with(item) \in SUBSET Scoped(q)
    <2>3. item \in Items
      <3>1. PICK row \in rows : item \in ItemsOf(row, rows)
        OBVIOUS
      <3> HIDE DEF rows
      <3> QED
        BY <1>4, <3>1
    <2> HIDE DEF first, of, items
    <2> QED
      BY <2>1, <2>2, <2>3 DEF Result, Kinds
  <1>6. ASSUME q.type \in {"1", "all"}, NEW row \in Scoped(q), row.ns \in spaces
        PROVE  Has(Entry(row), CatalogChecked(q, spaces, j))
    <2>1. row \in rows
      BY <1>6
    <2>2. PICK item : item \in ItemsOf(row, rows)
      <3> HIDE DEF rows
      <3> QED
        BY <1>4, <2>1
    <2>3. row \in with(item) /\ item \in items
      BY <2>1, <2>2
    <2>4. Entry(row) \in of(item)
      <3>1. with(item) \in SUBSET Scoped(q)
        OBVIOUS
      <3> HIDE DEF with
      <3> QED
        BY <2>3, <3>1, EntriesAre
    <2> HIDE DEF first, of, items
    <2>5. result(item) \in CatalogChecked(q, spaces, j)
      BY <1>2, <1>6, <2>3
    <2> QED
      BY <2>4, <2>5 DEF Has
  <1> HIDE DEF rows, first, of, items
  <1>7. ASSUME NEW r \in CatalogChecked(q, spaces, j)
        PROVE  /\ r \in Result /\ r.run = j /\ (q.names = {} \/ r.name \in q.names)
               /\ r.kind = "catalog" /\ r = result(r.item)
    <2>1. PICK item \in items : r = result(item)
      BY <1>2
    <2>2. r \in Result /\ (q.names = {} \/ r.name \in q.names)
      BY <1>5, <2>1
    <2> QED
      BY <2>1, <2>2
  <1> QED
    BY <1>6, <1>7

LEMMA CoverageIs ==
    ASSUME Schedules \in Seq(Row), NEW q \in Requests, NEW spaces \in SUBSET Spaces
    PROVE  /\ Coverage(q, spaces) \in Scope /\ Coverage(q, spaces).names = q.names
           /\ \A c \in Coverage(q, spaces).covered : \E row \in Scoped(q) :
                 c = Entry(row) /\ (spaces = {} \/ row.ns \in spaces)
  <1> DEFINE rows == {row \in Scoped(q) : spaces = {} \/ row.ns \in spaces}
  <1>1. Entries(rows) \in SUBSET Covered
    BY EntriesAre, rows \in SUBSET Scoped(q)
  <1>2. q.names \in SUBSET Names
    BY RequestsAssumption
  <1>3. Coverage(q, spaces) = [names |-> q.names, covered |-> Entries(rows)]
    BY DEF Coverage
  <1>4. \A c \in Entries(rows) : \E row \in Scoped(q) :
            c = Entry(row) /\ (spaces = {} \/ row.ns \in spaces)
    BY DEF Entries
  <1> HIDE DEF rows
  <1> QED
    BY <1>1, <1>2, <1>3, <1>4 DEF Scope

LEMMA MergedIs ==
    ASSUME NEW prior \in Scope \cup {None}, NEW latest \in Scope
    PROVE  /\ Merged(prior, latest) \in Scope
           /\ \A c \in Merged(prior, latest).covered :
                 \/ c \in latest.covered
                 \/ prior # None /\ latest.names # {} /\ c \in prior.covered
  BY DEF Merged, Scope

-----------------------------------------------------------------------------
(* The runs: types, and what they have found.                              *)

QAInv == TypeOK /\ ClientsInv /\ FoundInv

LEMMA QAInvGives == QAInv => ScheduleInv /\ Schedules \in Seq(Row)
  BY TypeGivesLists DEF QAInv, TypeOK, ScheduleInv

\* One run moves on.
LEMMA RunMovesOn ==
    ASSUME QAInv, NEW j \in Runs, NEW r \in RunState, InOrder(r, j), runs' = [runs EXCEPT ![j] = r]
    PROVE  runs' \in [Runs -> RunState] /\ FoundInv'
  <1> HIDE DEF RunState, InOrder
  <1> QED
    BY DEF QAInv, TypeOK, FoundInv

RunsOK == runs \in [Runs -> RunState] /\ FoundInv

LEMMA NotStartedType ==
    /\ NotStarted \in RunState /\ Ended \in RunState
    /\ [NotStarted EXCEPT !.pc = "reading"] \in RunState
    /\ \A j \in Runs : /\ InOrder(NotStarted, j) /\ InOrder(Ended, j)
                       /\ InOrder([NotStarted EXCEPT !.pc = "reading"], j)
  BY DEF NotStarted, Ended, RunState, InOrder, Working

\* A run for names without rows ends; another has namespaces if there are rows.
LEMMA ResolveIs ==
    ASSUME QAInv, NEW j \in Runs, Resolve(j)
    PROVE  \/ runs' = [runs EXCEPT ![j] = Ended]
           \/ \E spaces \in SUBSET Spaces :
                 /\ runs' = [runs EXCEPT ![j] = [runs[j] EXCEPT !.pc = "checking", !.spaces = spaces,
                                                              !.left = spaces]]
                 /\ Schedules # <<>> => spaces # {}
  <1> DEFINE q == runs[j].request
             wanted == IF q.spaces = {} THEN {row.ns : row \in Rows} ELSE q.spaces
             matching == {row.ns : row \in Scoped(q)}
             spaces == IF q.names = {} THEN wanted ELSE wanted \cap matching
  <1>1. q \in Requests /\ q.spaces \in SUBSET Spaces
    BY RequestsAssumption DEF QAInv, FoundInv, Resolve, InOrder, Working
  <1>2. \A row \in Rows : row.ns \in Spaces
    <2>1. Rows \subseteq Row
      BY QAInvGives DEF Rows
    <2> QED
      BY <2>1 DEF Row
  <1>3. spaces \in SUBSET Spaces
    BY <1>1, <1>2
  <1>4. runs' = [runs EXCEPT ![j] =
                    IF q.names # {} /\ spaces = {} THEN Ended
                    ELSE [@ EXCEPT !.pc = "checking", !.spaces = spaces, !.left = spaces]]
    BY Zenon DEF Resolve
  <1>5. ASSUME ~(q.names # {} /\ spaces = {}), Schedules # <<>> PROVE spaces # {}
    <2>1. Rows # {}
      <3>1. Schedules \in Seq(Row) /\ Schedules # <<>>
        BY <1>5, QAInvGives
      <3>2. 1 \in DOMAIN Schedules
        <4> HIDE DEF Row, Schedules
        <4> QED
          BY <3>1
      <3> QED
        BY <3>2 DEF Rows
    <2> QED
      BY <1>5, <2>1
  <1>6. runs \in [Runs -> RunState]
    BY DEF QAInv, TypeOK
  <1> HIDE DEF q, spaces
  <1> QED
    BY <1>3, <1>4, <1>5, <1>6

LEMMA RunStepOK ==
    ASSUME QAInv, NEW j \in Runs, Ask(j) \/ Run(j) \/ Cancel(j)
    PROVE  RunsOK'
  <1>0. /\ runs \in [Runs -> RunState] /\ runs[j] \in RunState /\ InOrder(runs[j], j)
        /\ checks \in SUBSET Result /\ Schedules \in Seq(Row)
    BY QAInvGives DEF QAInv, TypeOK, FoundInv
  <1>1. CASE Ask(j)
    <2>1. PICK q \in Requests :
              runs' = [runs EXCEPT ![j] = [runs[j] EXCEPT !.pc = "asked", !.request = q]]
      BY <1>0, <1>1 DEF Ask
    <2> DEFINE r == [runs[j] EXCEPT !.pc = "asked", !.request = q]
    <2>2. r \in RunState /\ InOrder(r, j)
      BY <1>0, <1>1 DEF Ask, RunState, InOrder, Working
    <2> QED
      BY <2>1, <2>2, RunMovesOn DEF RunsOK
  <1>2. CASE Resolve(j)
    <2>1. CASE runs' = [runs EXCEPT ![j] = Ended]
      BY <2>1, RunMovesOn, NotStartedType DEF RunsOK
    <2>2. ASSUME NEW spaces \in SUBSET Spaces,
                 runs' = [runs EXCEPT ![j] = [runs[j] EXCEPT !.pc = "checking", !.spaces = spaces,
                                                             !.left = spaces]]
          PROVE  RunsOK'
      <3> DEFINE r == [runs[j] EXCEPT !.pc = "checking", !.spaces = spaces, !.left = spaces]
      <3>1. r \in RunState /\ InOrder(r, j)
        BY <1>0, <1>2 DEF Resolve, RunState, InOrder, Working
      <3> QED
        BY <2>2, <3>1, RunMovesOn DEF RunsOK
    <2> QED
      BY <1>2, <2>1, <2>2, ResolveIs
  <1>3. CASE CheckSpace(j)
    <2>1. PICK ns \in runs[j].left :
              runs' = [runs EXCEPT ![j] = [runs[j] EXCEPT
                          !.left = @ \ {ns}, !.found = @ \cup Checked(runs[j].request, ns, j)]]
      BY <1>0, <1>3 DEF CheckSpace
    <2> DEFINE r == [runs[j] EXCEPT
                        !.left = @ \ {ns}, !.found = @ \cup Checked(runs[j].request, ns, j)]
               more == Checked(runs[j].request, ns, j)
    <2>2. /\ more \in SUBSET Result
          /\ \A f \in more :
                /\ f.run = j /\ (runs[j].request.names = {} \/ f.name \in runs[j].request.names)
                /\ f.kind = "workshop" /\ f.ns = ns
          /\ \A f, g \in more : f.name = g.name => f = g
      <3>1. ns \in Spaces
        BY <1>0 DEF RunState
      <3> QED
        BY <1>0, <3>1, CheckedIs
    <2>3. r = [runs[j] EXCEPT !.left = @ \ {ns}, !.found = @ \cup more]
      OBVIOUS
    <2> HIDE DEF more, r
    <2>4. /\ r \in RunState /\ r.pc = "checking" /\ r.request = runs[j].request
          /\ r.left = runs[j].left \ {ns} /\ r.found = runs[j].found \cup more
      BY <1>0, <1>3, <2>2, <2>3 DEF CheckSpace, RunState
    <2>5. InOrder(r, j)
      <3>1. \A f \in runs[j].found : f.kind = "workshop" /\ f.ns \notin runs[j].left
        BY <1>0, <1>3 DEF CheckSpace, InOrder
      <3>2. \A f \in r.found : f.kind = "workshop" /\ f.ns \notin r.left
        BY <2>2, <2>4, <3>1
      <3>3. \A f \in r.found :
                f.run = j /\ (r.request.names = {} \/ f.name \in r.request.names)
        BY <1>0, <2>2, <2>4 DEF InOrder
      <3>4. \A f, g \in r.found :
                (f.name = g.name /\ f.ns = g.ns /\ f.kind = g.kind /\ f.item = g.item) => f = g
        BY <1>0, <2>2, <2>4, <3>1 DEF InOrder
      <3>5. r.request \in Requests
        BY <1>0, <1>3, <2>4 DEF CheckSpace, InOrder, Working
      <3> QED
        BY <2>4, <3>2, <3>3, <3>4, <3>5 DEF InOrder, Working
    <2> QED
      BY <2>1, <2>4, <2>5, RunMovesOn DEF RunsOK, r
  <1>4. CASE CheckCatalog(j)
    <2> DEFINE more == IF runs[j].cancelled THEN {}
                       ELSE CatalogChecked(runs[j].request, runs[j].spaces, j)
               r == [runs[j] EXCEPT !.pc = "covering", !.left = {}, !.found = @ \cup more]
    <2>1. runs' = [runs EXCEPT ![j] = r]
      BY <1>0, <1>4 DEF CheckCatalog
    <2>2. /\ more \in SUBSET Result
          /\ \A f \in more :
                /\ f.run = j /\ (runs[j].request.names = {} \/ f.name \in runs[j].request.names)
                /\ f.kind = "catalog"
          /\ \A f, g \in more : f.item = g.item => f = g
      <3>1. runs[j].spaces \in SUBSET Spaces
        BY <1>0 DEF RunState
      <3> QED
        BY <1>0, <3>1, CatalogIs
    <2>3. r = [runs[j] EXCEPT !.pc = "covering", !.left = {}, !.found = @ \cup more]
      OBVIOUS
    <2> HIDE DEF more, r
    <2>4. /\ r \in RunState /\ r.pc = "covering" /\ r.request = runs[j].request
          /\ r.found = runs[j].found \cup more
      BY <1>0, <1>4, <2>2, <2>3 DEF CheckCatalog, RunState
    <2>5. InOrder(r, j)
      <3>1. runs[j].pc = "checking" /\ \A f \in runs[j].found : f.kind = "workshop"
        BY <1>0, <1>4 DEF CheckCatalog, InOrder
      <3>2. \A f \in r.found :
                f.run = j /\ (r.request.names = {} \/ f.name \in r.request.names)
        BY <1>0, <2>2, <2>4 DEF InOrder
      <3>3. \A f, g \in r.found :
                (f.name = g.name /\ f.ns = g.ns /\ f.kind = g.kind /\ f.item = g.item) => f = g
        BY <1>0, <2>2, <2>4, <3>1 DEF InOrder
      <3>4. r.request \in Requests
        BY <1>0, <2>4, <3>1 DEF InOrder, Working
      <3> QED
        BY <2>4, <3>2, <3>3, <3>4 DEF InOrder, Working
    <2> QED
      BY <2>1, <2>4, <2>5, RunMovesOn DEF RunsOK, r
  <1>5. CASE CheckFails(j)
    BY <1>5, RunMovesOn, NotStartedType DEF CheckFails, RunsOK
  <1>6. CASE Cover(j)
    <2> DEFINE cov == Coverage(runs[j].request, runs[j].spaces)
               r == [runs[j] EXCEPT !.pc = "publishing", !.coverage = cov]
    <2>1. runs' = [runs EXCEPT ![j] = r]
      BY <1>0, <1>6 DEF Cover
    <2>2. cov \in Scope /\ cov.names = runs[j].request.names
      <3>1. runs[j].pc = "covering"
        BY <1>6 DEF Cover
      <3>2. runs[j].request \in Requests /\ runs[j].spaces \in SUBSET Spaces
        BY <1>0, <3>1 DEF RunState, InOrder, Working
      <3>3. cov \in Scope
        BY <1>0, <3>2, CoverageIs
      <3>4. cov.names = runs[j].request.names
        BY DEF Coverage
      <3> QED
        BY <3>3, <3>4
    <2> HIDE DEF cov
    <2>3. r \in RunState /\ InOrder(r, j)
      BY <1>0, <1>6, <2>2 DEF Cover, RunState, InOrder, Working
    <2> QED
      BY <2>1, <2>3, RunMovesOn DEF RunsOK
  <1>7. CASE Publish(j) \/ Write(j)
    BY <1>7, RunMovesOn, NotStartedType DEF Publish, Write, RunsOK
  <1>8. CASE Read(j)
    <2> DEFINE r == [runs[j] EXCEPT !.pc = "writing", !.copy = checks]
    <2>1. runs' = [runs EXCEPT ![j] = r]
      BY <1>0, <1>8 DEF Read
    <2>2. r \in RunState /\ InOrder(r, j)
      BY <1>0, <1>8 DEF Read, RunState, InOrder, Working
    <2> QED
      BY <2>1, <2>2, RunMovesOn DEF RunsOK
  <1>9. CASE Cancel(j)
    <2> DEFINE r == [runs[j] EXCEPT !.cancelled = TRUE]
    <2>1. runs' = [runs EXCEPT ![j] = r]
      BY <1>0, <1>9 DEF Cancel
    <2>2. r \in RunState /\ InOrder(r, j)
      BY <1>0, <1>9 DEF Cancel, RunState, InOrder, Working
    <2> QED
      BY <2>1, <2>2, RunMovesOn DEF RunsOK
  <1> QED
    BY <1>1, <1>2, <1>3, <1>4, <1>5, <1>6, <1>7, <1>8, <1>9 DEF Run

\* Nobody else moves a run, but for a restart, which ends it.
LEMMA OthersOK ==
    ASSUME QAInv, ChangeSchedules \/ DeployRows \/ ClearSession \/ RestartPod
    PROVE  RunsOK'
  <1>1. CASE UNCHANGED runs
    BY <1>1 DEF RunsOK, QAInv, TypeOK, FoundInv
  <1>2. CASE RestartPod
    BY <1>2, NotStartedType DEF RestartPod, RunsOK, QAInv, TypeOK, FoundInv
  <1> QED
    BY <1>1, <1>2 DEF ChangeSchedules, DeployRows, ClearSession, qaVars

LEMMA InitQAInv == Init => QAInv
  <1> SUFFICES ASSUME Init PROVE QAInv
    OBVIOUS
  <1>1. ScheduleInv
    BY InitScheduleType DEF Init
  <1>2. RunsOK
    BY NotStartedType DEF Init, RunsOK, FoundInv
  <1> QED
    BY <1>1, <1>2 DEF Init, QAInv, TypeOK, ScheduleInv, RunsOK

LEMMA NextQAInv == QAInv /\ [Next]_vars => QAInv'
  <1> SUFFICES ASSUME QAInv, [Next]_vars PROVE QAInv'
    OBVIOUS
  <1>1. ScheduleInv'
    BY QAInvGives, NextIsScheduleStep, ScheduleStepType
  <1>2. RunsOK'
    BY RunStepOK, OthersOK DEF Next, vars, qaVars, RunsOK, QAInv, TypeOK, FoundInv
  <1>3. /\ checks \in SUBSET Result /\ saved \in SUBSET Result /\ spoilt \in BOOLEAN
        /\ scope \in Scope \cup {None}
        /\ \A j \in Runs : runs[j] \in RunState /\ InOrder(runs[j], j)
    BY DEF QAInv, TypeOK, FoundInv
  <1> DEFINE Goal == /\ checks' \in SUBSET Result /\ saved' \in SUBSET Result
                     /\ spoilt' \in BOOLEAN
                     /\ scope' \in Scope \cup {None}
  <1>4. ASSUME UNCHANGED <<checks, saved, scope>>, spoilt' \in BOOLEAN PROVE Goal
    BY <1>3, <1>4
  <1>5. ASSUME NEW j \in Runs, Publish(j) PROVE Goal
    <2>1. runs[j].coverage \in Scope /\ runs[j].found \in SUBSET Result
      BY <1>3, <1>5 DEF Publish, InOrder, RunState
    <2>2. Merged(scope, runs[j].coverage) \in Scope
      BY <1>3, <2>1, MergedIs
    <2>3. Kept(j) \in SUBSET Result
      BY <1>3 DEF Kept
    <2>4. Overreaches(j) \in BOOLEAN
      BY DEF Overreaches
    <2> HIDE DEF Result
    <2> QED
      BY <1>3, <1>5, <2>1, <2>2, <2>3, <2>4 DEF Publish
  <1>6. ASSUME NEW j \in Runs, Write(j) PROVE Goal
    BY <1>3, <1>6 DEF Write, RunState
  <1>7. ASSUME NEW j \in Runs, Ask(j) \/ Run(j) \/ Cancel(j) PROVE Goal
    <2>1. CASE Ask(j) \/ Resolve(j) \/ CheckSpace(j) \/ CheckCatalog(j) \/ CheckFails(j)
               \/ Cover(j) \/ Read(j)
      BY <1>3, <1>4, <2>1 DEF Ask, Resolve, CheckSpace, CheckCatalog, CheckFails, Cover, Read
    <2>2. CASE Cancel(j)
      BY <1>3, <1>4, <2>2 DEF Cancel
    <2> QED
      BY <1>5, <1>6, <1>7, <2>1, <2>2 DEF Run
  <1>8. ASSUME ChangeSchedules \/ DeployRows PROVE Goal
    <2>1. (\E j \in Runs : Underway(j)) \in BOOLEAN /\ spoilt \in BOOLEAN
      BY <1>3
    <2>2. spoilt' \in BOOLEAN
      BY <1>8, <2>1 DEF ChangeSchedules, DeployRows, qaVars
    <2>3. UNCHANGED <<checks, saved, scope>>
      BY <1>8 DEF ChangeSchedules, DeployRows, qaVars
    <2> QED
      BY <1>4, <2>2, <2>3
  <1>9. ASSUME ClearSession \/ RestartPod PROVE Goal
    <2>1. (\E j \in Runs : Underway(j)) \in BOOLEAN
      OBVIOUS
    <2>2. spoilt' \in BOOLEAN
      BY <1>9, <2>1 DEF ClearSession, RestartPod
    <2>3. /\ checks' \in SUBSET Result /\ saved' \in SUBSET Result
          /\ scope' \in Scope \cup {None}
      BY <1>3, <1>9 DEF ClearSession, RestartPod
    <2> QED
      BY <2>2, <2>3
  <1>10. ASSUME UNCHANGED vars PROVE Goal
    <2>1. UNCHANGED <<checks, saved, scope>> /\ spoilt' = spoilt
      BY <1>10 DEF vars, qaVars
    <2>2. spoilt' \in BOOLEAN
      BY <1>3, <2>1
    <2> QED
      BY <1>4, <2>1, <2>2
  <1>11. Goal
    BY <1>7, <1>8, <1>9, <1>10 DEF Next
  <1> QED
    BY <1>1, <1>2, <1>11 DEF QAInv, TypeOK, ScheduleInv, RunsOK

THEOREM TypeCorrect == Spec => []TypeOK
  <1>1. Spec => []QAInv
    BY InitQAInv, NextQAInv, PTL DEF Spec
  <1>2. QAInv => TypeOK
    BY DEF QAInv
  <1> QED
    BY <1>1, <1>2, PTL
-----------------------------------------------------------------------------
(* One result each.                                                        *)

LEMMA FoundOne == ASSUME QAInv, NEW j \in Runs PROVE OneEach(runs[j].found)
  BY DEF QAInv, FoundInv, InOrder, OneEach

\* What is published is one result each: it is kept for other names than those
\* that the run has found results for.
LEMMA PublishOne ==
    ASSUME QAInv, OneEach(checks), NEW j \in Runs
    PROVE  OneEach(Kept(j) \cup runs[j].found)
  <1>1. \A r \in runs[j].found : runs[j].request.names = {} \/ r.name \in runs[j].request.names
    BY DEF QAInv, FoundInv, InOrder
  <1>2. \A r \in Kept(j) : r \in checks /\ r.name \notin runs[j].request.names
                           /\ runs[j].request.names # {}
    BY DEF Kept
  <1> QED
    BY <1>1, <1>2, FoundOne DEF OneEach

LEMMA NextStoredInv == QAInv /\ StoredInv /\ [Next]_vars => StoredInv'
  <1> SUFFICES ASSUME QAInv, StoredInv, [Next]_vars PROVE StoredInv'
    OBVIOUS
  <1>0. /\ runs \in [Runs -> RunState]
        /\ OneEach({})
    BY DEF QAInv, TypeOK, OneEach
  <1>1. ASSUME UNCHANGED <<checks, saved>>,
               \A j \in Runs : runs'[j].copy \in {runs[j].copy, checks, {}}
        PROVE  StoredInv'
    BY <1>0, <1>1 DEF StoredInv
  <1>2. ASSUME NEW j \in Runs, Publish(j) PROVE StoredInv'
    <2>1. OneEach(checks')
      BY <1>2, PublishOne DEF Publish, StoredInv
    <2>2. \A i \in Runs : runs'[i].copy \in {runs[i].copy, {}}
      BY <1>0, <1>2 DEF Publish, NotStarted
    <2>3. saved' = saved
      BY <1>2 DEF Publish
    <2> QED
      BY <1>0, <2>1, <2>2, <2>3 DEF StoredInv
  <1>3. ASSUME NEW j \in Runs, Write(j) PROVE StoredInv'
    <2>1. \A i \in Runs : runs'[i].copy \in {runs[i].copy, {}}
      BY <1>0, <1>3 DEF Write, Ended, NotStarted
    <2>2. checks' = checks /\ saved' = runs[j].copy
      BY <1>3 DEF Write
    <2> QED
      BY <1>0, <2>1, <2>2 DEF StoredInv
  <1>4. ASSUME NEW j \in Runs, Ask(j) \/ Resolve(j) \/ CheckSpace(j) \/ CheckCatalog(j)
                               \/ CheckFails(j) \/ Cover(j) \/ Read(j) \/ Cancel(j)
        PROVE  StoredInv'
    <2>1. UNCHANGED <<checks, saved>>
      BY <1>4 DEF Ask, Resolve, CheckSpace, CheckCatalog, CheckFails, Cover, Read, Cancel
    <2>2. \A i \in Runs : runs'[i].copy \in {runs[i].copy, checks, {}}
      <3> SUFFICES ASSUME NEW i \in Runs PROVE runs'[i].copy \in {runs[i].copy, checks, {}}
        OBVIOUS
      <3>0. runs[j] \in RunState /\ runs[i] \in RunState /\ Ended.copy = {}
        BY <1>0 DEF Ended, NotStarted
      <3>1. CASE Ask(j)
        BY <1>0, <3>0, <3>1 DEF Ask, RunState
      <3>2. CASE Resolve(j) \/ CheckFails(j)
        <4>1. CASE runs' = [runs EXCEPT ![j] = Ended]
          BY <1>0, <3>0, <4>1
        <4>2. ASSUME NEW spaces,
                     runs' = [runs EXCEPT ![j] = [runs[j] EXCEPT !.pc = "checking",
                                                      !.spaces = spaces, !.left = spaces]]
              PROVE  runs'[i].copy = runs[i].copy
          BY <1>0, <3>0, <4>2 DEF RunState
        <4> QED
          BY <3>2, <4>1, <4>2, ResolveIs DEF CheckFails
      <3>3. CASE CheckSpace(j)
        BY <1>0, <3>0, <3>3 DEF CheckSpace, RunState
      <3>4. CASE CheckCatalog(j) \/ Cover(j)
        BY <1>0, <3>0, <3>4 DEF CheckCatalog, Cover, RunState
      <3>5. CASE Read(j) \/ Cancel(j)
        BY <1>0, <3>0, <3>5 DEF Read, Cancel, RunState
      <3> QED
        BY <1>4, <3>1, <3>2, <3>3, <3>4, <3>5
    <2> QED
      BY <1>1, <2>1, <2>2
  <1>5. ASSUME ChangeSchedules \/ DeployRows \/ UNCHANGED vars PROVE StoredInv'
    <2>1. UNCHANGED <<checks, saved, runs>>
      BY <1>5 DEF ChangeSchedules, DeployRows, qaVars, vars
    <2> QED
      BY <1>1, <2>1
  <1>6. ASSUME ClearSession PROVE StoredInv'
    BY <1>0, <1>6 DEF ClearSession, StoredInv
  <1>7. ASSUME RestartPod PROVE StoredInv'
    <2>1. \A i \in Runs : runs'[i].copy \in {runs[i].copy, {}}
      BY <1>0, <1>7 DEF RestartPod, Ended, NotStarted
    <2> QED
      BY <1>0, <1>7, <2>1 DEF RestartPod, StoredInv
  <1> QED
    BY <1>2, <1>3, <1>4, <1>5, <1>6, <1>7 DEF Next, Run

\* The invariant of this section, and the archive's.
LEMMA InitStored == Init => StoredInv /\ ArchiveKeepsNewest
  BY SessionsAssumption DEF Init, ScheduleInit, StoredInv, OneEach, NotStarted, ArchiveKeepsNewest

\* Variables have their types, no row and kind has two results, and the archive
\* holds the newest sessions: after any number of runs, clears and restarts.
THEOREM StaysWellFormed == Spec => []WellFormed
  <1>1. Init => QAInv /\ StoredInv /\ ArchiveKeepsNewest
    BY InitQAInv, InitStored
  <1>2. QAInv /\ StoredInv /\ ArchiveKeepsNewest /\ [Next]_vars
            => QAInv' /\ StoredInv' /\ ArchiveKeepsNewest'
    BY NextQAInv, NextStoredInv, NextArchive, NextIsScheduleStep, QAInvGives
  <1>3. QAInv /\ StoredInv /\ ArchiveKeepsNewest => WellFormed
    BY DEF WellFormed, QAInv, StoredInv, OneEach, OneResultEach
  <1> QED
    BY <1>1, <1>2, <1>3, PTL DEF Spec
-----------------------------------------------------------------------------
(* The saved results.                                                      *)

\* Where a run goes; the others stay where they are.
LEMMA RunGoes ==
    ASSUME QAInv, NEW j \in Runs
    PROVE  /\ Ask(j) \/ Run(j) \/ Cancel(j) => \A i \in Runs \ {j} : runs'[i] = runs[i]
           /\ Ask(j) => runs'[j].pc = "asked"
           /\ Resolve(j) => runs'[j].pc \in {"checking", "done"}
           /\ CheckSpace(j) => runs'[j].pc = "checking"
           /\ CheckCatalog(j) => runs'[j].pc = "covering"
           /\ CheckFails(j) \/ Write(j) => runs'[j].pc = "done"
           /\ Cover(j) => runs'[j].pc = "publishing"
           /\ Publish(j) => runs'[j].pc = "reading"
           /\ Read(j) => runs'[j].pc = "writing" /\ runs'[j].copy = checks
           /\ Cancel(j) => runs'[j].pc = runs[j].pc
  <1>0. runs \in [Runs -> RunState] /\ runs[j] \in RunState /\ Ended.pc = "done"
    BY DEF QAInv, TypeOK, Ended, NotStarted
  <1>1. Ask(j) => runs'[j].pc = "asked"
    BY <1>0 DEF Ask, RunState
  <1>2. Resolve(j) => runs'[j].pc \in {"checking", "done"}
    BY <1>0, ResolveIs DEF RunState
  <1>3. CheckSpace(j) => runs'[j].pc = "checking"
    BY <1>0 DEF CheckSpace, RunState
  <1>8. CheckCatalog(j) => runs'[j].pc = "covering"
    BY <1>0 DEF CheckCatalog, RunState
  <1>4. /\ CheckFails(j) \/ Write(j) => runs'[j].pc = "done"
        /\ Cover(j) => runs'[j].pc = "publishing"
    BY <1>0 DEF CheckFails, Write, Cover, RunState
  <1>5. Publish(j) => runs'[j].pc = "reading"
    BY <1>0 DEF Publish, NotStarted
  <1>6. /\ Read(j) => runs'[j].pc = "writing" /\ runs'[j].copy = checks
        /\ Cancel(j) => runs'[j].pc = runs[j].pc
    BY <1>0 DEF Read, Cancel, RunState
  <1>7. ASSUME Ask(j) \/ Run(j) \/ Cancel(j), NEW i \in Runs \ {j} PROVE runs'[i] = runs[i]
    <2>1. CASE Resolve(j)
      BY <1>0, <2>1, ResolveIs
    <2> QED
      BY <1>0, <1>7, <2>1
      DEF Ask, Run, CheckSpace, CheckCatalog, CheckFails, Cover, Publish, Read, Write, Cancel
  <1> QED
    BY <1>1, <1>2, <1>3, <1>4, <1>5, <1>6, <1>7, <1>8

\* What the others do to a run.
LEMMA OthersLeave ==
    ASSUME QAInv, ChangeSchedules \/ DeployRows \/ ClearSession \/ RestartPod \/ UNCHANGED vars,
           NEW j \in Runs
    PROVE  runs'[j] = runs[j] \/ (RestartPod /\ runs'[j].pc \in {"new", "done"})
  <1>1. CASE RestartPod
    BY <1>1 DEF QAInv, TypeOK, RestartPod, Ended, NotStarted, Underway
  <1> QED
    BY <1>1 DEF ChangeSchedules, DeployRows, ClearSession, qaVars, vars

SaveInv == HoldingInv /\ SavedFollows

LEMMA NextSaveInv == QAInv /\ SaveInv /\ [Next]_vars => SaveInv'
  <1> SUFFICES ASSUME QAInv, SaveInv, [Next]_vars PROVE SaveInv'
    OBVIOUS
  <1>1. ASSUME NEW j \in Runs, Ask(j) \/ Run(j) \/ Cancel(j) PROVE SaveInv'
    <2>0. clients' = clients
      BY <1>1 DEF Ask, Run, Cancel, Resolve, CheckSpace, CheckCatalog, CheckFails, Cover, Publish,
                  Read, Write, scheduleVars
    <2>1. CASE Ask(j) \/ Resolve(j) \/ CheckSpace(j) \/ CheckCatalog(j) \/ CheckFails(j) \/ Cancel(j)
      <3>1. UNCHANGED <<checks, saved>>
        BY <2>1 DEF Ask, Resolve, CheckSpace, CheckCatalog, CheckFails, Cancel
      <3>2. runs[j].pc \notin {"reading", "writing"}
        BY <2>1 DEF Ask, Resolve, CheckSpace, CheckCatalog, CheckFails, Cancel
      <3>3. /\ \A i \in Runs \ {j} : runs'[i] = runs[i]
            /\ runs'[j].pc \notin {"reading", "writing"}
            /\ runs'[j].pc = "publishing" => runs[j].pc = "publishing"
        BY <1>1, <2>1, RunGoes DEF Cancel
      <3> QED
        BY <2>0, <3>1, <3>2, <3>3 DEF SaveInv, HoldingInv, SavedFollows, Holding
    <2>2. CASE Cover(j)
      <3>1. /\ UNCHANGED <<checks, saved>>
            /\ runs[j].pc = "covering"
            /\ \A i \in Runs : ~Holding(i)
        BY <2>2 DEF Cover, LoopFree
      <3>2. /\ \A i \in Runs \ {j} : runs'[i] = runs[i]
            /\ runs'[j].pc = "publishing"
        BY <1>1, <2>2, RunGoes DEF Cover
      <3> QED
        BY <2>0, <3>1, <3>2 DEF SaveInv, HoldingInv, SavedFollows, Holding
    <2>3. CASE Publish(j)
      <3>1. /\ \A i \in Runs \ {j} : runs'[i] = runs[i]
            /\ runs'[j].pc = "reading" /\ runs[j].pc = "publishing"
        BY <1>1, <2>3, RunGoes DEF Publish
      <3> QED
        BY <2>0, <3>1 DEF SaveInv, HoldingInv, SavedFollows, Holding
    <2>4. CASE Read(j)
      <3>1. /\ \A i \in Runs \ {j} : runs'[i] = runs[i]
            /\ runs'[j].pc = "writing" /\ runs'[j].copy = checks /\ runs[j].pc = "reading"
            /\ UNCHANGED <<checks, saved>>
        BY <1>1, <2>4, RunGoes DEF Read
      <3> QED
        BY <2>0, <3>1 DEF SaveInv, HoldingInv, SavedFollows, Holding
    <2>5. CASE Write(j)
      <3>1. /\ \A i \in Runs \ {j} : runs'[i] = runs[i]
            /\ runs'[j].pc = "done" /\ runs[j].pc = "writing"
            /\ checks' = checks /\ saved' = runs[j].copy
        BY <1>1, <2>5, RunGoes DEF Write
      <3> QED
        BY <2>0, <3>1 DEF SaveInv, HoldingInv, SavedFollows, Holding
    <2> QED
      BY <1>1, <2>1, <2>2, <2>3, <2>4, <2>5 DEF Run
  <1>2. ASSUME ChangeSchedules \/ DeployRows \/ UNCHANGED vars PROVE SaveInv'
    <2>1. UNCHANGED <<checks, saved, runs>>
      BY <1>2 DEF ChangeSchedules, DeployRows, qaVars, vars
    <2>2. clients' = clients
      BY QAInvGives, NextIsScheduleStep, StepMoves
    <2> QED
      BY <2>1, <2>2 DEF SaveInv, HoldingInv, SavedFollows, Holding
  <1>3. ASSUME ClearSession PROVE SaveInv'
    BY <1>3 DEF ClearSession, Emptied, requests, SaveInv, HoldingInv, SavedFollows, Holding
  <1>4. ASSUME RestartPod PROVE SaveInv'
    <2>1. \A j \in Runs : runs'[j].pc \in {"new", "done"}
      BY <1>4 DEF RestartPod, QAInv, TypeOK, Underway, Ended, NotStarted
    <2> QED
      BY <1>4, <2>1 DEF RestartPod, SaveInv, HoldingInv, SavedFollows, Holding
  <1> QED
    BY <1>1, <1>2, <1>3, <1>4 DEF Next

LEMMA InitFiles == Init => SaveInv /\ MirrorInv /\ DiskFollowsSchedules
  <1> SUFFICES ASSUME Init PROVE SaveInv /\ MirrorInv /\ DiskFollowsSchedules
    OBVIOUS
  <1>1. SaveInv
    BY DEF Init, SaveInv, HoldingInv, SavedFollows, Holding, NotStarted
  <1>2. deploy = NoDeploy /\ disk = Blank /\ filename = None
    BY DEF Init, ScheduleInit
  <1>3. MirrorInv
    BY <1>2 DEF MirrorInv, DeploysItsOwnUndisturbed, AllRows, OwnRows, NoDeploy
  <1>4. Schedules = <<>>
    <2>1. current \in Lists /\ lists[current] = ListOf(<<>>)
      BY ListsAssumption DEF Init, ScheduleInit
    <2>2. Schedules = ShownOf(lists[current])
      BY <2>1 DEF Schedules, Shown, ShownOf
    <2> QED
      BY <2>1, <2>2, ListOfIs, <<>> \in Seq(Row)
  <1>5. disk.rows = <<>>
    BY <1>2 DEF Blank
  <1>6. DiskFollowsSchedules
    BY <1>4, <1>5 DEF DiskFollowsSchedules, Bare
  <1> QED
    BY <1>1, <1>3, <1>6

\* The files of schedules and of QA results have what the dashboard has, but for
\* corrections of items, as often as runs save, requests save and the pod restarts.
THEOREM FilesAlwaysFollow == Spec => []FilesFollow
  <1>1. Init => QAInv /\ SaveInv /\ DiskFollowsSchedules
    BY InitQAInv, InitFiles
  <1>2. QAInv /\ SaveInv /\ DiskFollowsSchedules /\ [Next]_vars
            => QAInv' /\ SaveInv' /\ DiskFollowsSchedules'
    BY NextQAInv, NextSaveInv, NextDiskFollows, NextIsScheduleStep, QAInvGives
  <1>3. SaveInv /\ DiskFollowsSchedules => FilesFollow
    BY DEF FilesFollow, SaveInv
  <1> QED
    BY <1>1, <1>2, <1>3, PTL DEF Spec

\* A deployment of an uploaded CSV deploys nobody else's rows, whatever requests
\* do to the dashboard and to the rows it refers to; all of its own if none is
\* deleted before they are grouped, and as uploaded if none is changed in place.
THEOREM DeploysTheUpload == Spec => []DeploysItsOwnUndisturbed
  <1>1. Init => QAInv /\ MirrorInv
    BY InitQAInv, InitFiles
  <1>2. QAInv /\ MirrorInv /\ [Next]_vars => QAInv' /\ MirrorInv'
    BY NextQAInv, NextMirrorInv, NextIsScheduleStep, QAInvGives
  <1>3. MirrorInv => DeploysItsOwnUndisturbed
    BY DEF MirrorInv
  <1> QED
    BY <1>1, <1>2, <1>3, PTL DEF Spec
-----------------------------------------------------------------------------
(* What the scope claims.                                                  *)

\* More results show no less.
LEMMA ShownMore ==
    ASSUME NEW c, NEW rs, NEW more, Has(c, rs) \/ Has(c, more)
    PROVE  Has(c, rs \cup more)
  BY DEF Has

\* While the schedules stay, a run that stays has shown what it had.
LEMMA ShownStays ==
    ASSUME UNCHANGED <<lists, current>>, NEW j \in Runs, runs'[j] = runs[j], ShownSoFar(runs[j])
    PROVE  ShownSoFar(runs[j])'
  <1>1. Schedules' = Schedules /\ Rows' = Rows
    BY DEF Rows, Schedules, Shown
  <1> QED
    BY <1>1 DEF ShownSoFar, Scoped

\* A run that is not under way claims nothing.
LEMMA ShownIdle ==
    ASSUME NEW j \in Runs, runs'[j].pc \in {"new", "done", "reading", "writing"}
    PROVE  ShownSoFar(runs[j])'
  BY DEF ShownSoFar

LEMMA RunShows ==
    ASSUME QAInv, ~spoilt', ~spoilt, NEW j \in Runs, ShownSoFar(runs[j]), Run(j) \/ Ask(j) \/ Cancel(j)
    PROVE  ShownSoFar(runs[j])'
  <1>0. /\ runs \in [Runs -> RunState] /\ runs[j] \in RunState /\ InOrder(runs[j], j)
        /\ Schedules \in Seq(Row)
    BY QAInvGives DEF QAInv, TypeOK, FoundInv
  <1>00. UNCHANGED <<lists, current>> /\ Schedules' = Schedules /\ Rows' = Rows
    BY DEF Ask, Run, Cancel, Resolve, CheckSpace, CheckCatalog, CheckFails, Cover, Publish, Read,
           Write, scheduleVars, Rows, Schedules, Shown
  <1>1. CASE Ask(j)
    BY <1>00, <1>1, RunGoes DEF Ask, ShownSoFar
  <1>2. CASE Resolve(j)
    <2>1. CASE runs' = [runs EXCEPT ![j] = Ended]
      BY <1>0, <2>1, ShownIdle DEF Ended
    <2>2. ASSUME NEW spaces \in SUBSET Spaces,
                 runs' = [runs EXCEPT ![j] = [runs[j] EXCEPT !.pc = "checking", !.spaces = spaces,
                                                             !.left = spaces]],
                 Schedules # <<>> => spaces # {}
          PROVE  ShownSoFar(runs[j])'
      <3>1. Schedules # <<>> /\ ~runs[j].cancelled
        BY <1>0, <1>2 DEF Resolve, ShownSoFar, InOrder
      <3>2. /\ runs'[j].pc = "checking" /\ runs'[j].spaces = spaces /\ runs'[j].left = spaces
            /\ ~runs'[j].cancelled
        BY <1>0, <2>2, <3>1 DEF RunState
      <3> QED
        BY <1>00, <2>2, <3>1, <3>2 DEF ShownSoFar
    <2> QED
      BY <1>2, <2>1, <2>2, ResolveIs
  <1>3. CASE CheckSpace(j)
    <2>1. PICK ns \in runs[j].left :
              runs' = [runs EXCEPT ![j] = [runs[j] EXCEPT
                          !.left = @ \ {ns}, !.found = @ \cup Checked(runs[j].request, ns, j)]]
      BY <1>0, <1>3 DEF CheckSpace
    <2> DEFINE q == runs[j].request
               more == Checked(q, ns, j)
    <2>2. ns \in Spaces
      BY <1>0 DEF RunState
    <2>3. q.type # "1" => \A row \in Scoped(q) : row.ns = ns => Has(Entry(row), more)
      BY <1>0, <2>2, CheckedIs
    <2> HIDE DEF more
    <2>4. runs'[j] = [runs[j] EXCEPT !.left = @ \ {ns}, !.found = @ \cup more]
      BY <1>0, <2>1 DEF more
    <2>5. /\ runs'[j].pc = "checking" /\ runs'[j].request = q /\ runs'[j].spaces = runs[j].spaces
          /\ runs'[j].left = runs[j].left \ {ns} /\ runs'[j].found = runs[j].found \cup more
          /\ runs'[j].cancelled = runs[j].cancelled /\ runs[j].pc = "checking"
      BY <1>0, <1>3, <2>4 DEF RunState, CheckSpace
    <2>6. ASSUME NEW row \in Scoped(q), row.ns \in runs[j].spaces \ (runs[j].left \ {ns}),
                 q.type # "1"
          PROVE  Has(Entry(row), runs[j].found \cup more)
      <3>1. CASE row.ns = ns
        BY <2>3, <2>6, <3>1, ShownMore
      <3>2. CASE row.ns # ns
        BY <2>5, <2>6, <3>2, ShownMore DEF ShownSoFar
      <3> QED
        BY <3>1, <3>2
    <2>7. Scoped(q) = {row \in Rows' : InScope(row, q)}
      BY <1>00 DEF Scoped
    <2> QED
      BY <1>00, <2>5, <2>6, <2>7 DEF ShownSoFar, Scoped
  <1>4. CASE CheckCatalog(j)
    <2> DEFINE q == runs[j].request
               more == CatalogChecked(q, runs[j].spaces, j)
    <2>1. ~runs[j].cancelled /\ runs[j].left = {} /\ runs[j].pc = "checking"
      BY <1>4 DEF CheckCatalog, ShownSoFar
    <2>2. runs[j].spaces \in SUBSET Spaces /\ q \in Requests
      BY <1>0, <2>1 DEF RunState, InOrder, Working
    <2>3. q.type \in {"1", "all"} =>
              \A row \in Scoped(q) : row.ns \in runs[j].spaces => Has(Entry(row), more)
      BY <1>0, <2>2, CatalogIs
    <2> HIDE DEF more
    <2>4. runs' = [runs EXCEPT ![j].pc = "covering", ![j].left = {}, ![j].found = @ \cup more]
      BY <1>4, <2>1 DEF CheckCatalog, more
    <2>5. /\ runs'[j].pc = "covering" /\ runs'[j].request = q /\ runs'[j].spaces = runs[j].spaces
          /\ runs'[j].found = runs[j].found \cup more
      BY <1>0, <2>4 DEF RunState
    <2>6. ASSUME NEW row \in Scoped(q), row.ns \in runs[j].spaces
          PROVE  Has(Entry(row), runs[j].found \cup more)
      <3>1. CASE q.type = "1"
        BY <2>3, <2>6, <3>1, ShownMore
      <3>2. CASE q.type # "1"
        BY <2>1, <2>6, <3>2, ShownMore DEF ShownSoFar
      <3> QED
        BY <3>1, <3>2
    <2>7. Scoped(q) = {row \in Rows' : InScope(row, q)}
      BY <1>00 DEF Scoped
    <2> QED
      BY <1>00, <2>1, <2>5, <2>6, <2>7 DEF ShownSoFar, Scoped
  <1>5. CASE Cover(j)
    <2> DEFINE q == runs[j].request
               cov == Coverage(q, runs[j].spaces)
    <2>1. q \in Requests /\ runs[j].spaces \in SUBSET Spaces /\ runs[j].pc = "covering"
      BY <1>0, <1>5 DEF Cover, RunState, InOrder, Working
    <2>2. \A c \in cov.covered : \E row \in Scoped(q) :
              c = Entry(row) /\ (runs[j].spaces = {} \/ row.ns \in runs[j].spaces)
      BY <1>0, <2>1, CoverageIs
    <2> HIDE DEF cov
    <2>3. runs' = [runs EXCEPT ![j].pc = "publishing", ![j].coverage = cov]
      BY <1>5 DEF Cover, cov
    <2>4. /\ runs'[j].pc = "publishing" /\ runs'[j].coverage = cov
          /\ runs'[j].found = runs[j].found
      BY <1>0, <2>3 DEF RunState
    <2>5. \A row \in Scoped(q) : row.ns \in runs[j].spaces => Has(Entry(row), runs[j].found)
      BY <2>1 DEF ShownSoFar
    <2>6. runs[j].spaces # {}
      BY <2>1 DEF ShownSoFar
    <2>7. \A c \in cov.covered : Has(c, runs[j].found)
      BY <2>2, <2>5, <2>6
    <2> QED
      BY <2>4, <2>7 DEF ShownSoFar
  <1>6. CASE CheckFails(j) \/ Publish(j) \/ Read(j) \/ Write(j)
    BY <1>6, RunGoes, ShownIdle
  <1>7. CASE Cancel(j)
    <2>1. runs[j].pc \in {"covering", "publishing"} /\ runs' = [runs EXCEPT ![j].cancelled = TRUE]
      BY <1>7 DEF Cancel
    <2>2. /\ runs'[j].pc = runs[j].pc /\ runs'[j].request = runs[j].request
          /\ runs'[j].spaces = runs[j].spaces /\ runs'[j].found = runs[j].found
          /\ runs'[j].coverage = runs[j].coverage
      BY <1>0, <2>1 DEF RunState
    <2> QED
      BY <1>00, <2>1, <2>2 DEF ShownSoFar, Scoped
  <1> QED
    BY <1>1, <1>2, <1>3, <1>4, <1>5, <1>6, <1>7 DEF Run

\* Nothing but an emptied dashboard makes the scope true again.
LEMMA SpoiltStays ==
    ASSUME [Next]_vars, spoilt, ~spoilt'
    PROVE  scope' = None /\ \A j \in Runs : Underway(j) => RestartPod
  <1>1. CASE ClearSession \/ RestartPod
    BY <1>1 DEF ClearSession, RestartPod
  <1>2. CASE ChangeSchedules \/ DeployRows \/ UNCHANGED vars
    BY <1>2 DEF ChangeSchedules, DeployRows, qaVars, vars
  <1>3. ASSUME NEW j \in Runs, Ask(j) \/ Run(j) \/ Cancel(j) PROVE FALSE
    BY <1>3 DEF Ask, Run, Cancel, Resolve, CheckSpace, CheckCatalog, CheckFails, Cover, Publish,
                Read, Write
  <1> QED
    BY <1>1, <1>2, <1>3 DEF Next

LEMMA NextShownInv == QAInv /\ ShownInv /\ [Next]_vars => ShownInv'
  <1> SUFFICES ASSUME QAInv, ShownInv, [Next]_vars, ~spoilt', NEW i \in Runs
               PROVE  ShownSoFar(runs[i])'
    BY DEF ShownInv
  <1>0. runs[i] \in RunState
    BY DEF QAInv, TypeOK
  <1>1. ASSUME NEW j \in Runs, Ask(j) \/ Run(j) \/ Cancel(j) PROVE ShownSoFar(runs[i])'
    <2>1. ~spoilt
      BY <1>1 DEF Ask, Run, Cancel, Resolve, CheckSpace, CheckCatalog, CheckFails, Cover, Publish,
                  Read, Write
    <2>2. ShownSoFar(runs[i])
      BY <2>1 DEF ShownInv
    <2>3. CASE i = j
      BY <1>1, <2>1, <2>2, <2>3, RunShows
    <2>4. CASE i # j
      <3>1. runs'[i] = runs[i]
        BY <1>1, <2>4, RunGoes
      <3>2. UNCHANGED <<lists, current>>
        BY <1>1 DEF Ask, Run, Cancel, Resolve, CheckSpace, CheckCatalog, CheckFails, Cover,
                    Publish, Read, Write, scheduleVars
      <3> QED
        BY <2>2, <3>1, <3>2, ShownStays
    <2> QED
      BY <2>3, <2>4
  <1>2. ASSUME ChangeSchedules \/ ClearSession PROVE ShownSoFar(runs[i])'
    <2>1. ~Underway(i) /\ runs' = runs
      BY <1>2 DEF ChangeSchedules, ClearSession
    <2> QED
      BY <2>1, ShownIdle DEF Underway
  <1>3. ASSUME RestartPod PROVE ShownSoFar(runs[i])'
    <2>1. runs'[i].pc \in {"new", "done"}
      BY <1>3 DEF RestartPod, Underway, Ended, NotStarted
    <2> QED
      BY <2>1, ShownIdle
  <1>4. ASSUME DeployRows \/ UNCHANGED vars PROVE ShownSoFar(runs[i])'
    <2>1. UNCHANGED <<lists, current, runs, spoilt>>
      BY <1>4 DEF DeployRows, Group, DeployRow, DeployEnd, qaVars, vars, scheduleVars
    <2> QED
      BY <2>1, ShownStays DEF ShownInv
  <1> QED
    BY <1>1, <1>2, <1>3, <1>4 DEF Next

\* All rows that a run covers have a result among those that it found.
LEMMA CoveredIsFound ==
    ASSUME ShownInv, ~spoilt, NEW j \in Runs, runs[j].pc = "publishing"
    PROVE  \A c \in runs[j].coverage.covered : Has(c, runs[j].found)
  BY DEF ShownInv, ShownSoFar

\* After a publication what was covered has its results still, or the run that
\* replaced them has covered it.
LEMMA PublishCovers ==
    ASSUME QAInv, ShownInv, CoverageTrue, ~spoilt', NEW j \in Runs, Publish(j)
    PROVE  \A c \in scope'.covered : Has(c, checks')
  <1>0. /\ ~spoilt /\ ~Overreaches(j) /\ runs[j].pc = "publishing"
        /\ checks' = Kept(j) \cup runs[j].found
        /\ scope' = Merged(scope, runs[j].coverage)
    BY DEF Publish
  <1>1. \A c \in runs[j].coverage.covered : Has(c, checks')
    BY <1>0, CoveredIsFound, ShownMore
  <1>2. ASSUME NEW c \in scope.covered, scope # None, runs[j].coverage.names # {}
        PROVE  Has(c, checks')
    <2>1. runs[j].request.names # {}
      BY <1>0, <1>2 DEF QAInv, FoundInv, InOrder
    <2>2. PICK r \in checks : c \in r.of
      BY <1>0, <1>2 DEF CoverageTrue, Shows
    <2>3. CASE r \in Kept(j)
      BY <1>0, <2>2, <2>3 DEF Has
    <2>4. CASE r \notin Kept(j)
      <3>1. c \in runs[j].coverage.covered
        BY <1>0, <2>1, <2>2, <2>4 DEF Overreaches
      <3> QED
        BY <1>1, <3>1
    <2> QED
      BY <2>3, <2>4
  <1>3. /\ scope \in Scope \cup {None} /\ runs[j].coverage \in Scope
    BY <1>0 DEF QAInv, TypeOK, FoundInv, InOrder
  <1> QED
    BY <1>0, <1>1, <1>2, <1>3, MergedIs

LEMMA NextCoverage ==
    QAInv /\ ShownInv /\ CoverageTrue /\ [Next]_vars => CoverageTrue'
  <1> SUFFICES ASSUME QAInv, ShownInv, CoverageTrue, [Next]_vars, ~spoilt', scope' # None
               PROVE  \A c \in scope'.covered : Has(c, checks')
    BY DEF CoverageTrue, Shows, Has
  <1>0. ~spoilt
    BY SpoiltStays
  <1>1. ASSUME NEW j \in Runs, Publish(j) PROVE \A c \in scope'.covered : Has(c, checks')
    BY <1>1, PublishCovers
  <1>2. CASE UNCHANGED <<checks, scope>>
    BY <1>0, <1>2 DEF CoverageTrue, Shows, Has
  <1> QED
    BY <1>1, <1>2
    DEF Next, Ask, Run, Cancel, Resolve, CheckSpace, CheckCatalog, CheckFails, Cover, Read, Write,
        ChangeSchedules, DeployRows, ClearSession, RestartPod, qaVars, vars

LEMMA InitCoverage == Init => ShownInv /\ CoverageTrue
  BY DEF Init, ShownInv, ShownSoFar, NotStarted, CoverageTrue

CoverInv == QAInv /\ ShownInv

LEMMA AlwaysCoverInv == Spec => []CoverInv
  <1>1. Init => CoverInv
    BY InitQAInv, InitCoverage DEF CoverInv
  <1>2. CoverInv /\ [Next]_vars => CoverInv'
    BY NextQAInv, NextShownInv DEF CoverInv
  <1> QED
    BY <1>1, <1>2, PTL DEF Spec

\* What the scope claims to be covered has a result to show for it, however
\* runs overlap with one another and with requests, unless the claim is spoilt.
THEOREM ScopeIsTrue == Spec => []CoverageTrue
  <1>1. Init => CoverageTrue
    BY InitCoverage
  <1>2. CoverInv /\ CoverageTrue /\ [Next]_vars => CoverageTrue'
    BY NextCoverage DEF CoverInv
  <1> QED
    BY <1>1, <1>2, AlwaysCoverInv, PTL DEF Spec

-----------------------------------------------------------------------------
(* The dashboard is a register of sheets.                                  *)

SheetType == [rows : Seq([name : Names, ns : Spaces, day : Days \cup {NoDay}]),
              filename : DOMAIN Files \cup {None}]

LEMMA SheetIs ==
    ASSUME NEW rows \in Seq(Row), NEW n \in DOMAIN Files \cup {None}
    PROVE  /\ SheetOf(rows, n) \in SheetType /\ Len(SheetOf(rows, n).rows) = Len(rows)
           /\ rows = <<>> => SheetOf(rows, n) = Blank
           /\ rows # <<>> => SheetOf(rows, n).filename = n
  <1> DEFINE B == [name : Names, ns : Spaces, day : Days \cup {NoDay}]
  <1>1. \A i \in 1..Len(rows) : rows[i] \in Row
    OBVIOUS
  <1>2. DOMAIN rows = 1..Len(rows) /\ Len(rows) \in Nat
    OBVIOUS
  <1>3. \A i \in 1..Len(rows) : [name |-> rows[i].name, ns |-> rows[i].ns, day |-> rows[i].day] \in B
    BY <1>1 DEF Row
  <1>4. Bare(rows) \in [1..Len(rows) -> B]
    BY <1>2, <1>3 DEF Bare
  <1>5. Bare(rows) \in Seq(B) /\ Len(Bare(rows)) = Len(rows)
    <2> HIDE DEF B
    <2> QED
      BY <1>2, <1>4
  <1>6. rows = <<>> => Bare(rows) = <<>>
    BY DEF Bare
  <1> HIDE DEF B
  <1> QED
    BY <1>5, <1>6 DEF SheetOf, SheetType, Blank, B

\* Rows that are uploaded, deployed or put.
LEMMA PutIs ==
    ASSUME NEW rows \in (Edits \ {<<>>}) \cup {Files[f] : f \in DOMAIN Files}, Schedules' = rows,
           filename' \in DOMAIN Files \cup {None}, UNCHANGED <<sessions, counter>>
    PROVE  Register!Put
  BY DEF Register!Put

LEMMA EditIs ==
    ASSUME Schedules \in Seq(Row), Schedules' \in Seq(Row), Schedules # <<>>,
           Len(Schedules') \in {Len(Schedules), Len(Schedules) - 1},
           filename \in DOMAIN Files \cup {None}, UNCHANGED <<filename, sessions, counter>>
    PROVE  Register!Edit
  <1> DEFINE old == SheetOf(Schedules, filename)
             new == SheetOf(Schedules', filename')
  <1>1. /\ old \in SheetType /\ Len(old.rows) = Len(Schedules) /\ old.filename = filename
    BY SheetIs
  <1>2. /\ new \in SheetType /\ Len(new.rows) = Len(Schedules')
        /\ new = Blank \/ new.filename = filename
    <2>1. ASSUME NEW rows \in Seq(Row), NEW n \in DOMAIN Files \cup {None}
          PROVE  /\ SheetOf(rows, n) \in SheetType /\ Len(SheetOf(rows, n).rows) = Len(rows)
                 /\ SheetOf(rows, n) = Blank \/ SheetOf(rows, n).filename = n
      BY SheetIs
    <2>2. filename' = filename
      OBVIOUS
    <2> QED
      BY <2>1, <2>2
  <1>3. UNCHANGED <<sessions, counter>>
    OBVIOUS
  <1> HIDE DEF old, new
  <1>4. /\ new \in SheetType /\ Len(new.rows) \in {Len(old.rows), Len(old.rows) - 1}
        /\ new = Blank \/ new.filename = old.filename
    BY <1>1, <1>2
  <1> QED
    BY <1>3, <1>4 DEF Register!Edit, SheetType, old, new

\* The numbers of archived sessions are those up to the latest.
Numbers(s) == {s[i].id : i \in DOMAIN s}

LEMMA NumbersAre ==
    ASSUME NEW s \in Seq([id : Nat, checked : BOOLEAN]), NEW c \in Nat,
           \A i \in DOMAIN s : s[i].id = c - Len(s) + i
    PROVE  Numbers(s) = (c - Len(s) + 1)..c /\ Len(s) <= c + 1
  <1>0. \A i \in DOMAIN s : s[i] \in [id : Nat, checked : BOOLEAN]
    <2>1. ASSUME NEW S, NEW t \in Seq(S) PROVE \A i \in DOMAIN t : t[i] \in S
      OBVIOUS
    <2> QED
      BY <2>1
  <1>1. DOMAIN s = 1..Len(s) /\ Len(s) \in Nat
    OBVIOUS
  <1>2. \A i \in DOMAIN s : s[i].id \in (c - Len(s) + 1)..c
    BY <1>1
  <1>3. ASSUME NEW n \in (c - Len(s) + 1)..c PROVE \E i \in DOMAIN s : s[i].id = n
    <2>1. n - c + Len(s) \in DOMAIN s /\ c - Len(s) + (n - c + Len(s)) = n
      BY <1>1
    <2> QED
      BY <2>1
  <1>4. Len(s) <= c + 1
    <2>1. CASE Len(s) = 0
      BY <2>1
    <2>2. CASE Len(s) # 0
      <3>1. 1 \in DOMAIN s
        BY <1>1, <2>2
      <3>2. s[1].id \in Nat
        BY <1>0, <3>1
      <3>3. c - Len(s) + 1 \in Nat
        BY <3>1, <3>2
      <3> QED
        BY <1>1, <3>3
    <2> QED
      BY <2>1, <2>2
  <1> QED
    BY <1>2, <1>3, <1>4 DEF Numbers

\* A session that is archived is the latest one; the oldest makes room for it.
LEMMA ArchivingIs ==
    ASSUME ScheduleInv, ArchiveKeepsNewest, ArchiveKeepsNewest', ~NothingShown, Emptied,
           NEW b \in BOOLEAN, sessions' = Archived(b)
    PROVE  Numbers(sessions') =
               {n \in Numbers(sessions) \cup {counter + 1} : n + MaxSessions > counter + 1}
  <1> DEFINE S == [id : Nat, checked : BOOLEAN]
             s == Append(sessions, [id |-> counter + 1, checked |-> b])
  <1>1. sessions \in Seq(S) /\ counter \in Nat /\ MaxSessions \in Nat \ {0}
    BY SessionsAssumption DEF ScheduleInv, ScheduleTypeOK
  <1>2. sessions' \in Seq(S) /\ counter' = counter + 1
    BY ArchivedIs DEF Emptied
  <1>3. s \in Seq(S) /\ Len(s) = Len(sessions) + 1
    BY <1>1
  <1>4. Len(sessions') <= Len(sessions) + 1
    <2>1. sessions' = Newest(s, MaxSessions)
      BY DEF Archived
    <2>2. Len(sessions') = IF Len(s) > MaxSessions THEN MaxSessions ELSE Len(s)
      <3> HIDE DEF s, S
      <3> QED
        BY <1>1, <1>3, <2>1, NewestIs
    <2> HIDE DEF s
    <2> QED
      BY <1>1, <1>3, <2>2
  <1>5. /\ Numbers(sessions) = (counter - Len(sessions) + 1)..counter
        /\ Len(sessions) <= counter + 1
    BY <1>1, NumbersAre DEF ArchiveKeepsNewest
  <1>6. /\ Numbers(sessions') = (counter' - Len(sessions') + 1)..counter'
        /\ Len(sessions') <= counter' + 1
    <2>1. counter' \in Nat
      BY <1>1, <1>2
    <2>2. \A i \in DOMAIN sessions' : sessions'[i].id = counter' - Len(sessions') + i
      BY DEF ArchiveKeepsNewest
    <2> QED
      BY <1>2, <2>1, <2>2, NumbersAre, Zenon
  <1>7. /\ Len(sessions) \in Nat /\ Len(sessions') \in Nat
        /\ Len(sessions) <= MaxSessions /\ Len(sessions') <= MaxSessions
        /\ Len(sessions) < MaxSessions => Len(sessions) = counter
        /\ Len(sessions') < MaxSessions => Len(sessions') = counter + 1
    BY <1>1, <1>2 DEF ArchiveKeepsNewest
  <1> DEFINE k == Len(sessions)
             m == Len(sessions')
  <1>8. k \in Nat /\ m \in Nat
    BY <1>7
  <1> HIDE DEF S, s, k, m
  <1> QED
    BY <1>1, <1>2, <1>4, <1>5, <1>6, <1>7, <1>8 DEF k, m

LEMMA ClearIs ==
    ASSUME ScheduleInv, ArchiveKeepsNewest, ArchiveKeepsNewest', Emptied,
           NEW b \in BOOLEAN, sessions' = Archived(b)
    PROVE  Register!Clear
  <1>1. Schedules' = <<>>
    BY MovedNew, <<>> \in Seq(Row) DEF Emptied
  <1>2. SheetOf(Schedules', filename') = Blank
    BY <1>1 DEF SheetOf, Blank, Bare
  <1>3. CASE NothingShown
    <2>1. SheetOf(Schedules, filename) = Blank /\ UNCHANGED <<sessions, counter>>
      BY <1>3 DEF NothingShown, SheetOf, Blank, Bare, Emptied, Archived
    <2> QED
      BY <1>2, <2>1 DEF Register!Clear
  <1>4. CASE ~NothingShown
    <2>1. counter' = counter + 1
      BY <1>4 DEF Emptied
    <2>2. Numbers(sessions') = {n \in Numbers(sessions) \cup {counter'} : n + MaxSessions > counter'}
      BY <1>4, <2>1, ArchivingIs
    <2> QED
      BY <1>2, <2>1, <2>2 DEF Register!Clear, Numbers
  <1> QED
    BY <1>3, <1>4

\* After a restart the items are those from before the corrections.
LEMMA RestartIs ==
    ASSUME ScheduleInv, DiskFollowsSchedules, {"fix", "torn"} \cap clients = {}, Restart
    PROVE  Register!Restart
  <1>0. Schedules \in Seq(Row) /\ disk.rows \in Seq(Row)
    BY TypeGivesLists, TypesAre DEF ScheduleInv, DiskType
  <1>1. Bare(disk.rows) = Bare(Schedules) /\ (Schedules # <<>> => disk.filename = filename)
    BY DEF DiskFollowsSchedules
  <1>2. Found = {disk.rows}
    BY DEF Found
  <1>3. /\ Schedules' = disk.rows /\ filename' = IF disk.rows = <<>> THEN None ELSE disk.filename
        /\ sessions' = <<>> /\ counter' = 0
    BY <1>2, RestartIsNew DEF Restart
  <1>4. disk.rows = <<>> <=> Schedules = <<>>
    <2>1. ASSUME NEW r \in Seq(Row), NEW s \in Seq(Row), Bare(r) = Bare(s), r = <<>> PROVE s = <<>>
      <3>1. DOMAIN Bare(r) = DOMAIN r /\ DOMAIN Bare(s) = DOMAIN s
        BY DEF Bare
      <3>2. DOMAIN s = {}
        BY <2>1, <3>1
      <3> HIDE DEF Row
      <3> QED
        BY <3>2
    <2> QED
      BY <1>0, <1>1, <2>1
  <1>5. SheetOf(Schedules', filename') = SheetOf(Schedules, filename)
    BY <1>1, <1>3, <1>4 DEF SheetOf
  <1>6. {sessions'[i].id : i \in DOMAIN sessions'} = {}
    BY <1>3
  <1> QED
    BY <1>3, <1>5, <1>6 DEF Register!Restart

\* Every step of the requests is one of the register.
LEMMA NextRegister ==
    ASSUME ScheduleInv, ScheduleInv', DiskFollowsSchedules, ArchiveKeepsNewest, ArchiveKeepsNewest',
           ScheduleStep \/ UNCHANGED scheduleVars, {"fix", "torn", "empty"} \cap clients = {}
    PROVE  Register!Next \/ UNCHANGED Register!vars
  <1>0. /\ Schedules \in Seq(Row)
        /\ filename \in DOMAIN Files \cup {None} /\ filename' \in DOMAIN Files \cup {None}
    BY TypeGivesLists DEF ScheduleInv, ScheduleTypeOK
  <1>1. ASSUME NEW rows \in (Edits \ {<<>>}) \cup {Files[f] : f \in DOMAIN Files},
               lists' = WithNew(rows), current' = Fresh, UNCHANGED <<sessions, counter>>
        PROVE  Register!Next
    <2>1. rows \in Seq(Row)
      BY FilesAssumption, EditsAssumption
    <2>2. Schedules' = rows
      BY <1>1, <2>1, MovedNew
    <2> QED
      BY <1>0, <1>1, <2>2, PutIs DEF Register!Next
  <1>2. CASE Upload \/ Mirror
    BY <1>1, <1>2 DEF Upload, Mirror, archive
  <1>3. CASE Update
    <2>1. PICK rows \in Edits :
              /\ rows # <<>> \/ "empty" \in clients
              /\ lists' = WithNew(rows) /\ current' = Fresh /\ UNCHANGED <<sessions, counter>>
      BY <1>3 DEF Update, archive
    <2>2. rows # <<>>
      BY <2>1
    <2> QED
      BY <1>1, <2>1, <2>2
  <1>4. CASE Delete
    <2>1. PICK i \in DOMAIN Schedules :
              /\ Schedules' = RemoveAt(Schedules, i) /\ RemoveAt(Schedules, i) \in Seq(Row)
              /\ Len(RemoveAt(Schedules, i)) = Len(Schedules) - 1
      BY <1>4, MovedDelete
    <2>2. Schedules # <<>>
      BY <2>1
    <2>3. UNCHANGED <<filename, sessions, counter>>
      BY <1>4 DEF Delete, archive
    <2> QED
      BY <1>0, <2>1, <2>2, <2>3, EditIs DEF Register!Next
  <1>5. CASE FillDates
    <2>1. Schedules' \in Seq(Row) /\ Len(Schedules') = Len(Schedules)
      BY <1>5, MovedFill
    <2>2. UNCHANGED <<filename, sessions, counter>> /\ \E i \in DOMAIN Schedules : TRUE
      BY <1>5 DEF FillDates, archive
    <2>3. Schedules # <<>>
      BY <2>2
    <2> QED
      BY <1>0, <2>1, <2>2, <2>3, EditIs DEF Register!Next
  <1>6. CASE UNCHANGED <<lists, current, filename, sessions, counter>>
    <2>1. Schedules' = Schedules /\ UNCHANGED <<filename, sessions, counter>>
      BY <1>6 DEF Schedules, Shown
    <2> QED
      BY <2>1 DEF Register!vars, SheetOf, Bare
  <1>7. CASE CheckBegin \/ DeployStep \/ UNCHANGED scheduleVars
    BY <1>6, <1>7 DEF CheckBegin, DeployStep, Group, DeployRow, DeployEnd, archive, scheduleVars
  <1>8. CASE CheckRow
    <2>1. /\ Schedules' \in Seq(Row) /\ Len(Schedules') = Len(Schedules)
          /\ \A k \in DOMAIN Schedules :
                /\ Schedules'[k].name = Schedules[k].name /\ Schedules'[k].ns = Schedules[k].ns
                /\ Schedules'[k].day = Schedules[k].day
      BY <1>8, MovedCheck
    <2>2. Bare(Schedules) = Bare(Schedules')
      BY <1>0, <2>1, BareIs
    <2>3. Schedules = <<>> <=> Schedules' = <<>>
      BY <1>0, <2>1
    <2>4. UNCHANGED <<filename, sessions, counter>>
      BY <1>8 DEF CheckRow, archive
    <2>5. SheetOf(Schedules', filename') = SheetOf(Schedules, filename)
      BY <2>2, <2>3, <2>4 DEF SheetOf
    <2> QED
      BY <2>4, <2>5 DEF Register!vars
  <1>9. CASE Fix
    BY <1>9 DEF Fix, FixBegin, FixRow, FixStore, FixRead, FixWrite, ScheduleInv, ClientsInv
  <1>10. CASE Restart
    BY <1>10, RestartIs DEF Register!Next
  <1>11. CASE \E b \in BOOLEAN : Emptied /\ sessions' = Archived(b)
    BY <1>11, ClearIs DEF Register!Next
  <1> QED
    BY <1>2, <1>3, <1>4, <1>5, <1>7, <1>8, <1>9, <1>10, <1>11 DEF ScheduleStep, Change, Check

LEMMA InitRegister == Init => Register!Init
  <1> SUFFICES ASSUME Init PROVE Register!Init
    OBVIOUS
  <1>1. /\ current \in Lists /\ lists[current] = ListOf(<<>>)
        /\ filename = None /\ sessions = <<>> /\ counter = 0
    BY ListsAssumption DEF Init, ScheduleInit
  <1>2. Schedules = ShownOf(lists[current])
    BY <1>1 DEF Schedules, Shown, ShownOf
  <1>3. Schedules = <<>>
    BY <1>1, <1>2, ListOfIs, <<>> \in Seq(Row)
  <1> QED
    BY <1>1, <1>3 DEF Register!Init, SheetOf, Blank, Bare

\* The dashboard keeps the promises of a register of sheets, but for auto-fixes,
\* saves that are cut off, and clients that put an empty list.
THEOREM KeepsTheRegister == Spec => KeepsRegister
  <1> DEFINE Inv == QAInv /\ DiskFollowsSchedules /\ ArchiveKeepsNewest
             Goes == {"fix", "torn", "empty"} \cap clients = {} => Register!Next
  <1>1. Init => Inv /\ Register!Init
    BY InitQAInv, InitFiles, InitStored, InitRegister
  <1>2. Inv /\ [Next]_vars => Inv'
    BY NextQAInv, NextDiskFollows, NextArchive, NextIsScheduleStep, QAInvGives
  <1>3. ASSUME Inv, [Next]_vars PROVE [Goes]_(Register!vars)
    <2>1. Inv'
      BY <1>2, <1>3
    <2>2. ScheduleInv /\ ScheduleInv'
      BY <1>3, <2>1, QAInvGives DEF QAInv, TypeOK, ScheduleInv
    <2>3. ScheduleStep \/ UNCHANGED scheduleVars
      BY <1>3, NextIsScheduleStep
    <2> QED
      BY <1>3, <2>1, <2>2, <2>3, NextRegister
  <1>4. KeepsRegister <=> Register!Init /\ [][Goes]_(Register!vars)
    BY DEF KeepsRegister
  <1> HIDE DEF Inv, Goes
  <1> QED
    BY <1>1, <1>2, <1>3, <1>4, PTL DEF Spec
=============================================================================
