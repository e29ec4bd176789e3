--------------------------- MODULE QAChecksProofs ---------------------------
(***************************************************************************)
(* Proofs about QAChecks, for every schedule, any number of objects that   *)
(* come, go and change between the calls, and any number of calls that     *)
(* fail: every row is answered, and what is said of it was true of it at   *)
(* some moment of the check.                                               *)
(***************************************************************************)
EXTENDS QAChecks, FiniteSetTheorems, SequenceTheorems, WellFoundedInduction, TLAPS

\* How many of the rows the phase has answered so far.
Far ==
    IF job.pc = "listing" THEN 0
    ELSE IF job.pc \in {"looking", "readying"} THEN job.row - 1 ELSE Len(rows)

\* The first n rows have results, and no others.
Answered(rs, n) ==
    /\ \A j \in DOMAIN rs : rs[j].row \in 1..n
    /\ \A i \in 1..n : \E j \in DOMAIN rs : rs[j].row = i

\* What the place of the check says of the rest.
PlaceInv ==
    /\ job.row \in 1..(Len(rows) + 1)
    /\ job.phase = "destroy" <=> job.kind = "destroy"
    /\ job.phase = "setup" => job.kind \in {"2", "both"}
    /\ job.phase = "deployment" => job.kind \in {"3", "both"}
    /\ job.phase = "destroy" => job.pc \in {"looking", "done"}
    /\ job.phase = "setup" => job.pc \in {"listing", "looking", "readying", "merging", "done"}
    /\ job.phase = "setup" /\ job.pc \in {"merging", "done"} => job.kind = "2"
    /\ job.pc \notin {"status", "merging", "done"} => sound.polls < Polls
    /\ job.pc = "readying" =>
          /\ job.row <= Len(rows)
          /\ job.subject \in Objects /\ job.seen \in State
          /\ IF Kind[job.subject] = "multi" THEN Row.multi
             ELSE Kind[job.subject] = "workshop" /\ Item[job.subject] = Row.item

AnsweredInv ==
    /\ Answered(setup, IF job.phase = "setup" THEN Far ELSE IF job.kind = "both" THEN Len(rows) ELSE 0)
    /\ Answered(deployed, IF job.phase = "deployment" THEN Far ELSE 0)

ResultsInv ==
    job.kind # "destroy" =>
        results = IF job.pc # "done" THEN <<>>
                  ELSE IF job.kind = "2" THEN [i \in DOMAIN rows |-> Dedup(setup, i)]
                  ELSE IF job.kind = "3" THEN deployed
                  ELSE [i \in DOMAIN rows |-> Merged(i)]

\* What there is, what is listed and what is looked at is remembered.
PastInv ==
    /\ \A o \in Objects : IF There(o) THEN o \in past.been ELSE o \in past.gone
    /\ \A o \in Objects : There(o) /\ cluster[o].health = "up" => o \in past.up
    /\ \A o \in Objects : listed[o] # None => o \in past.been /\ (listed[o].health = "up" => o \in past.up)
    /\ job.pc = "readying" => job.subject \in past.been

\* As far as calls were answered, the claims of the rows that have been searched
\* for are listed or were gone; the same for a workshop looked for in vain.
Searched(i) == IF job.pc = "listing" THEN i < job.row ELSE job.pc \in {"looking", "readying"}
ClaimsInv ==
    (faults = 0 /\ job.phase # "destroy") =>
        \A i \in DOMAIN rows, o \in Objects :
            (Searched(i) /\ Kind[o] = "claim" /\ Item[o] = rows[i].item) => listed[o] # None \/ o \in past.gone
WorkshopsInv ==
    /\ (faults = 0 /\ job.tried = "workshop" /\ job.row <= Len(rows)) =>
          \A o \in Objects : Kind[o] = "workshop" /\ Item[o] = Row.item => o \in past.gone
    /\ job.pc = "listing" \/ job.row > Len(rows) => job.tried = "nothing"

\* What a result of a check says is true.
WasGone(i) ==
    \A o \in Objects :
        (Item[o] = rows[i].item /\ (Kind[o] = "claim" \/ (Kind[o] = "workshop" /\ rows[i].ui))) => o \in past.gone
WasThere(r) ==
    /\ r.about \in past.been
    /\ IF Kind[r.about] = "multi" THEN rows[r.row].multi
       ELSE Kind[r.about] \in {"claim", "workshop"} /\ Item[r.about] = ItemOf(r)
WasUp(r) ==
    IF Kind[r.about] = "claim" THEN r.about \in past.up
    ELSE (\A p \in Objects : (Kind[p] = "provision" /\ Item[p] = ItemOf(r)) => Owner[p] = r.about)
            => \E p \in past.up : Kind[p] = "provision" /\ Owner[p] = r.about
IsTrue(r) ==
    /\ r.there = "Yes" => WasThere(r)
    /\ r.there # "Yes" /\ faults = 0 => WasGone(r.row)
    /\ r.health = "up" => r.there = "Yes" /\ WasUp(r)
TrueInv ==
    /\ \A j \in DOMAIN setup : IsTrue(setup[j]) /\ setup[j].showroom = "none"
    /\ \A j \in DOMAIN deployed : IsTrue(deployed[j]) /\ deployed[j].match = "none"

\* Soundcheck: nothing is known before it is asked, and a session that has ended
\* well was one of workshops in order.
SoundInv ==
    /\ job.pc \in {"listing", "looking", "readying", "workshops"} => sound = NoSound
    /\ job.pc \in {"create", "run"} => ~sound.kicked /\ sound.session = "unknown"
    /\ sound.kicked \/ job.pc = "run" => sound.reached
    /\ job.kind = "2" => sound = NoSound
    /\ sound.ids \subseteq {w \in Objects : Kind[w] = "workshop" /\ Item[w] \in RowItems}
    /\ job.pc = "poll" => sound.kicked
    /\ sound.session = "completed" => sound.kicked /\ \A w \in sound.taken : truth[w] = "completed"
    /\ job.pc \notin {"merging", "done"} => \A j \in DOMAIN deployed : deployed[j].showroom = "none"
\* What is shown of an item is true.
TruthShown(item, shown) ==
    /\ ~sound.reached /\ IdsOf(item) # {} => shown = "unreachable"
    /\ (\E w \in IdsOf(item) \cap sound.heard : truth[w] = "failed") => shown = "unhealthy"
    /\ shown = "healthy" =>
          LET own == IdsOf(item) \cap sound.heard
          IN  /\ \A w \in own : truth[w] \in {"completed", "other"}
              /\ (\A w \in own : truth[w] = "other")
                    => own = {} /\ sound.kicked /\ \A w \in sound.taken : truth[w] = "completed"
ShowroomInv ==
    job.pc \in {"merging", "done"} =>
        \A j \in DOMAIN deployed : TruthShown(ItemOf(deployed[j]), deployed[j].showroom)

\* The check after the end: what is missing so far, and what was said of rows.
MissingInv ==
    (job.phase = "destroy" /\ job.row <= Len(rows)) =>
        /\ faults = 0 => \A o \in Objects : Kind[o] \in job.missing /\ Item[o] = Row.item => o \in past.gone
        /\ \A n \in 1..job.asked : Asks[n] \notin job.missing =>
              \E o \in past.been : Kind[o] = Asks[n] /\ Item[o] = Row.item
OwnOf(r) == {o \in Objects : Kind[o] # "multi" /\ Item[o] = ItemOf(r)}
DestroyInv ==
    job.phase = "destroy" =>
        /\ DOMAIN results = 1..(job.row - 1) /\ results \in Seq(Verdict)
        /\ job.pc = "done" => job.row = Len(rows) + 1
        /\ \A i \in DOMAIN results :
              /\ results[i].row = i
              /\ faults = 0 /\ results[i].overall = "destroyed" => OwnOf(results[i]) \subseteq past.gone
              /\ results[i].overall = "overdue" => OwnOf(results[i]) \cap past.been # {}

-----------------------------------------------------------------------------
(* Numbers and sequences. *)

\* Sets of numbers that are not empty have a least one, and if they are bounded
\* a largest.
LEMMA MinIn ==
    ASSUME NEW S, S \subseteq Nat, S # {}
    PROVE  Min(S) \in S /\ \A x \in S : Min(S) <= x
  <1> DEFINE Segments == {0..x : x \in S}
  <1>1. Segments \subseteq FiniteSubsetsOf(Nat) /\ Segments # {}
    <2>1. ASSUME NEW x \in S PROVE 0..x \in FiniteSubsetsOf(Nat)
      BY FS_Interval, x \in Int, 0 \in Int DEF FiniteSubsetsOf
    <2> QED
      BY <2>1
  <1>2. PICK s \in Segments : \A t \in Segments : <<t, s>> \notin StrictSubsetOrdering(Nat)
    <2> HIDE DEF Segments
    <2> QED
      BY <1>1, FS_StrictSubsetOrderingWellFounded, WFMin
  <1>3. PICK x \in S : s = 0..x
    OBVIOUS
  <1>4. ASSUME NEW y \in S, y < x PROVE FALSE
    <2>1. 0..y \subseteq 0..x /\ x \in 0..x /\ x \notin 0..y /\ 0..y \in SUBSET Nat /\ 0..x \in SUBSET Nat
      BY <1>4
    <2>2. 0..y # 0..x
      BY <2>1
    <2>3. <<0..y, 0..x>> \in StrictSubsetOrdering(Nat)
      BY <2>1, <2>2 DEF StrictSubsetOrdering
    <2> QED
      BY <1>2, <1>3, <2>3
  <1>5. \A y \in S : x <= y
    BY <1>4
  <1> QED
    BY <1>5 DEF Min

LEMMA MaxIn ==
    ASSUME NEW n \in Nat, NEW S, S \subseteq 1..n, S # {}
    PROVE  Max(S) \in S /\ \A x \in S : x <= Max(S)
  <1> DEFINE T == {n - x : x \in S}
  <1>1. T \subseteq Nat /\ T # {}
    <2>1. \A x \in S : n - x \in Nat
      OBVIOUS
    <2> QED
      BY <2>1
  <1>2. PICK t \in T : \A u \in T : t <= u
    <2> HIDE DEF T
    <2> QED
      BY <1>1, MinIn
  <1>3. PICK x \in S : t = n - x
    OBVIOUS
  <1>4. ASSUME NEW y \in S PROVE y <= x
    <2>1. n - x <= n - y
      BY <1>2, <1>3
    <2> QED
      BY <2>1
  <1> QED
    BY <1>4 DEF Max


LEMMA Single ==
    ASSUME NEW S, NEW x \in S
    PROVE  <<x>> \in Seq(S) /\ <<x>> # <<>> /\ \A k \in DOMAIN <<x>> : <<x>>[k] = x
  <1>1. <<x>> \in Seq(S) /\ Len(<<x>>) = 1 /\ <<x>>[1] = x
    OBVIOUS
  <1>2. DOMAIN <<x>> = 1..1
    BY <1>1
  <1>3. \A k \in 1..1 : k = 1
    OBVIOUS
  <1> QED
    BY <1>1, <1>2, <1>3

\* The elements of a sequence that is made of two.
LEMMA Joined ==
    ASSUME NEW S, NEW s \in Seq(S), NEW t \in Seq(S)
    PROVE  /\ s \o t \in Seq(S)
           /\ \A j \in DOMAIN s : j \in DOMAIN (s \o t) /\ (s \o t)[j] = s[j]
           /\ \A k \in DOMAIN t : \E j \in DOMAIN (s \o t) : (s \o t)[j] = t[k]
           /\ \A j \in DOMAIN (s \o t) : (s \o t)[j] \in Range(s) \cup Range(t)
  <1>1. /\ s \o t \in Seq(S) /\ Len(s \o t) = Len(s) + Len(t) /\ Len(s) \in Nat /\ Len(t) \in Nat
        /\ \A j \in 1..(Len(s) + Len(t)) : (s \o t)[j] = IF j <= Len(s) THEN s[j] ELSE t[j - Len(s)]
        /\ DOMAIN s = 1..Len(s) /\ DOMAIN t = 1..Len(t) /\ DOMAIN (s \o t) = 1..(Len(s) + Len(t))
    OBVIOUS
  <1>2. \A j \in DOMAIN s : j \in DOMAIN (s \o t) /\ (s \o t)[j] = s[j]
    BY <1>1
  <1>3. ASSUME NEW k \in DOMAIN t PROVE \E j \in DOMAIN (s \o t) : (s \o t)[j] = t[k]
    <2>1. k + Len(s) \in DOMAIN (s \o t) /\ ~(k + Len(s) <= Len(s)) /\ (k + Len(s)) - Len(s) = k
      BY <1>1
    <2>2. (s \o t)[k + Len(s)] = t[k]
      BY <1>1, <2>1
    <2> QED
      BY <2>1, <2>2
  <1>4. ASSUME NEW j \in DOMAIN (s \o t)
        PROVE  (s \o t)[j] \in Range(s) \cup Range(t)
    <2>1. CASE j <= Len(s)
      BY <1>1, <2>1 DEF Range
    <2>2. CASE ~(j <= Len(s))
      <3>1. j - Len(s) \in DOMAIN t /\ (s \o t)[j] = t[j - Len(s)]
        BY <1>1, <2>2
      <3> QED
        BY <3>1 DEF Range
    <2> QED
      BY <2>1, <2>2
  <1> QED
    BY <1>1, <1>2, <1>3, <1>4

-----------------------------------------------------------------------------
(* Types, and the place of the check. *)

\* What a row of the check is about.
LEMMA RowIs ==
    ASSUME TypeOK, job.row \in 1..(Len(rows) + 1), MoreRows
    PROVE  job.row \in DOMAIN rows /\ Row \in Workshop
  <1>1. DOMAIN rows = 1..Len(rows) /\ Len(rows) \in Nat /\ \A i \in DOMAIN rows : rows[i] \in Workshop
    BY DEF TypeOK
  <1>2. job.row \in DOMAIN rows
    BY <1>1 DEF MoreRows
  <1> QED
    BY <1>1, <1>2 DEF Row

LEMMA AboutIs ==
    ASSUME TypeOK, NEW o \in Objects, NEW seen \in State, NEW agrees \in BOOLEAN
    PROVE  /\ About(o, seen, agrees) \in Result
           /\ About(o, seen, agrees).row = job.row
           /\ About(o, seen, agrees).there = "Yes" /\ About(o, seen, agrees).about = o
           /\ About(o, seen, agrees).health = seen.health /\ About(o, seen, agrees).showroom = "none"
           /\ job.phase # "setup" => About(o, seen, agrees).match = "none"
  <1>1. job.row \in Nat
    BY DEF TypeOK, Job
  <1>2. seen.health \in {"up", "coming", "down"}
    BY DEF State
  <1>3. Agrees(agrees) \in {"Yes", "No"} /\ Agrees(SeatsAgree(seen)) \in {"Yes", "No"}
    BY DEF Agrees
  <1> QED
    BY <1>1, <1>2, <1>3 DEF About, Plain, Result

LEMMA PlainIs ==
    ASSUME TypeOK, NEW there \in {"No", "Deleted"}
    PROVE  /\ Plain(there) \in Result /\ Plain(there).row = job.row /\ Plain(there).there = there
           /\ Plain(there).health = "none" /\ Plain(there).showroom = "none" /\ Plain(there).match = "none"
  <1>1. job.row \in Nat
    BY DEF TypeOK, Job
  <1> QED
    BY <1>1 DEF Plain, Result

\* A workshop that is ready has a provision that is up, its own if all are.
LEMMA ReadinessIs ==
    ASSUME TypeOK, PastInv, NEW o \in Objects, NEW item
    PROVE  /\ Readiness(o, item) \in {"up", "coming", "down"}
           /\ (/\ Readiness(o, item) = "up"
               /\ \A p \in Objects : (Kind[p] = "provision" /\ Item[p] = item) => Owner[p] = o)
                   => \E p \in past.up : Kind[p] = "provision" /\ Owner[p] = o
  <1> DEFINE all == Of("provision", item)
             own == {p \in all : Owner[p] = o}
             from == IF own = {} THEN all ELSE own
  <1>1. Readiness(o, item) = IF all = {} THEN "down" ELSE cluster[Min(from)].health
    BY DEF Readiness
  <1>2. all \subseteq Objects /\ \A p \in all : Kind[p] = "provision" /\ Item[p] = item /\ cluster[p] # None
    BY DEF Of, There
  <1>3. CASE all = {}
    BY <1>1, <1>3
  <1>4. CASE all # {}
    <2>1. from # {} /\ from \subseteq all
      BY <1>4
    <2>2. from \subseteq Nat
      BY <1>2, <2>1, ObjectsAssumption
    <2>3. Min(from) \in from
      <3> HIDE DEF from
      <3> QED
        BY <2>1, <2>2, MinIn
    <2> DEFINE p == Min(from)
    <2>4. p \in all /\ p \in Objects /\ cluster[p] \in State
      <3>1. p \in all /\ p \in Objects
        BY <1>2, <2>1, <2>3
      <3>2. cluster[p] \in State \cup {None} /\ cluster[p] # None
        BY <1>2, <3>1 DEF TypeOK
      <3> QED
        BY <3>1, <3>2
    <2> HIDE DEF p
    <2>5. Readiness(o, item) = cluster[p].health
      BY <1>1, <1>4 DEF p
    <2>6. cluster[p].health \in {"up", "coming", "down"}
      BY <2>4 DEF State
    <2>7. ASSUME cluster[p].health = "up", \A q \in Objects : (Kind[q] = "provision" /\ Item[q] = item) => Owner[q] = o
          PROVE  p \in past.up /\ Kind[p] = "provision" /\ Owner[p] = o
      BY <1>2, <2>4, <2>7 DEF PastInv, There
    <2> QED
      BY <2>5, <2>6, <2>7
  <1> QED
    BY <1>3, <1>4

\* What a check may add for the row that it is at.
NewResult(r) ==
    /\ r \in Result /\ r.row = job.row /\ IsTrue(r) /\ r.showroom = "none"
    /\ job.phase # "setup" => r.match = "none"

\* Of a workshop or multi-workshop that was found.
LEMMA ReadyReports ==
    ASSUME TypeOK, PlaceInv, PastInv, Ready
    PROVE  /\ \E rs \in Seq(Result) : rs # <<>> /\ Report(rs) /\ \A k \in DOMAIN rs : NewResult(rs[k])
           /\ faults' \in 0..MaxFaults /\ (faults' = 0 => faults = 0)
  <1> DEFINE o == job.subject
             agrees == IF Kind[o] = "multi" THEN MultiAgrees(job.seen) ELSE WorkshopAgrees(job.seen)
  <1>1. PICK ok \in Calls :
            LET health == IF ok THEN Readiness(o, Row.item) ELSE "down"
            IN  /\ Report(<<[About(o, job.seen, agrees) EXCEPT !.health = health]>>)
                /\ faults' = Failed(ok)
    BY DEF Ready
  <1>2. /\ job.pc = "readying" /\ job.row <= Len(rows) /\ o \in Objects /\ job.seen \in State /\ o \in past.been
        /\ IF Kind[o] = "multi" THEN Row.multi ELSE Kind[o] = "workshop" /\ Item[o] = Row.item
        /\ job.row \in 1..(Len(rows) + 1)
    BY DEF Ready, PlaceInv, PastInv
  <1>3. agrees \in BOOLEAN
    BY DEF MultiAgrees, WorkshopAgrees
  <1> DEFINE a == About(o, job.seen, agrees)
             health == IF ok THEN Readiness(o, Row.item) ELSE "down"
             r == [a EXCEPT !.health = health]
  <1>4. /\ a \in Result /\ a.row = job.row /\ a.there = "Yes" /\ a.about = o /\ a.showroom = "none"
        /\ job.phase # "setup" => a.match = "none"
    <2>1. job.subject \in Objects /\ job.seen \in State
      BY <1>2
    <2> QED
      BY <1>3, <2>1, AboutIs
  <1>5. health \in {"up", "coming", "down"}
    BY <1>2, ReadinessIs
  <1>6. (/\ health = "up"
         /\ \A p \in Objects : (Kind[p] = "provision" /\ Item[p] = Row.item) => Owner[p] = o)
               => \E p \in past.up : Kind[p] = "provision" /\ Owner[p] = o
    BY <1>2, ReadinessIs
  <1>7. Report(<<r>>) /\ faults' = Failed(ok)
    BY <1>1
  <1> HIDE DEF a, health
  <1>8. /\ r \in Result /\ r.row = job.row /\ r.there = "Yes" /\ r.about = o /\ r.showroom = "none" /\ r.health = health
        /\ job.phase # "setup" => r.match = "none"
    BY <1>4, <1>5 DEF Result
  <1> HIDE DEF r
  <1>9. ItemOf(r) = Row.item /\ rows[r.row].multi = Row.multi
    BY <1>8 DEF ItemOf, Row
  <1>10. WasThere(r)
    BY <1>2, <1>8, <1>9 DEF WasThere
  <1>11. r.health = "up" => WasUp(r)
    <2>1. Kind[o] # "claim"
      BY <1>2
    <2> QED
      BY <1>6, <1>8, <1>9, <2>1 DEF WasUp
  <1>12. NewResult(r)
    BY <1>8, <1>10, <1>11 DEF NewResult, IsTrue
  <1>13. <<r>> \in Seq(Result) /\ <<r>> # <<>> /\ \A k \in DOMAIN <<r>> : <<r>>[k] = r
    BY <1>8, Single
  <1>14. faults' \in 0..MaxFaults /\ (faults' = 0 => faults = 0)
    BY <1>7, BoundsAssumption DEF Failed, Calls, TypeOK
  <1> QED
    BY <1>7, <1>12, <1>13, <1>14

\* One for each of the claims.
LEMMA ClaimsReport ==
    ASSUME TypeOK, PlaceInv, PastInv, LookClaims
    PROVE  /\ \E rs \in Seq(Result) : rs # <<>> /\ Report(rs) /\ \A k \in DOMAIN rs : NewResult(rs[k])
           /\ faults' \in 0..MaxFaults /\ (faults' = 0 => faults = 0)
  <1>1. PICK ok \in IF job.phase = "setup" THEN Calls ELSE {TRUE} :
            LET late == ok /\ \E w \in Of("workshop", Row.item) : cluster[w].differs = "times"
                result(o) == About(o, listed[o], ClaimAgrees(listed[o], late))
            IN  /\ \E order \in Bijection(1..Cardinality(Claims), Claims) :
                      Report([i \in DOMAIN order |-> result(order[i])])
                /\ faults' = Failed(ok)
    BY DEF LookClaims
  <1> DEFINE late == ok /\ \E w \in Of("workshop", Row.item) : cluster[w].differs = "times"
             result(o) == About(o, listed[o], ClaimAgrees(listed[o], late))
  <1>2. PICK order \in Bijection(1..Cardinality(Claims), Claims) : Report([i \in DOMAIN order |-> result(order[i])])
    BY <1>1
  <1>3. ok \in Calls
    BY <1>1 DEF Calls
  <1>4. Cardinality(Claims) \in Nat \ {0}
    <2>1. Claims \subseteq Objects /\ Claims # {}
      BY DEF Claims, LookClaims
    <2>2. IsFiniteSet(Claims)
      BY <2>1, ObjectsAssumption, FS_Subset
    <2> QED
      BY <2>1, <2>2, FS_CardinalityType, FS_EmptySet
  <1>5. order \in [1..Cardinality(Claims) -> Claims]
    BY <1>2 DEF Bijection, Injection
  <1> DEFINE rs == [i \in DOMAIN order |-> result(order[i])]
  <1>6. ASSUME NEW c \in Claims PROVE NewResult(result(c))
    <2>1. c \in Objects /\ Kind[c] = "claim" /\ Item[c] = Row.item /\ listed[c] # None
      BY DEF Claims
    <2>2. listed[c] \in State
      BY <2>1 DEF TypeOK
    <2>3. c \in past.been /\ (listed[c].health = "up" => c \in past.up)
      BY <2>1 DEF PastInv
    <2>4. ClaimAgrees(listed[c], late) \in BOOLEAN
      BY DEF ClaimAgrees
    <2> DEFINE r == result(c)
    <2>5. /\ r \in Result /\ r.row = job.row /\ r.there = "Yes" /\ r.about = c /\ r.showroom = "none"
          /\ r.health = listed[c].health
          /\ job.phase # "setup" => r.match = "none"
      <3>1. c \in Objects
        BY <2>1
      <3> QED
        BY <2>2, <2>4, <3>1, AboutIs
    <2> HIDE DEF r
    <2>6. ItemOf(r) = Row.item
      BY <2>5 DEF ItemOf, Row
    <2>7. WasThere(r) /\ (r.health = "up" => WasUp(r))
      BY <2>1, <2>3, <2>5, <2>6 DEF WasThere, WasUp
    <2>8. NewResult(r)
      BY <2>5, <2>7 DEF NewResult, IsTrue
    <2> QED
      BY <2>8 DEF r
  <1> HIDE DEF result
  <1>7. \A i \in DOMAIN rs : NewResult(rs[i])
    BY <1>5, <1>6
  <1>8. rs \in Seq(Result) /\ rs # <<>>
    <2>1. DOMAIN rs = 1..Cardinality(Claims)
      BY <1>5
    <2>2. rs \in [1..Cardinality(Claims) -> Result]
      BY <1>7, <2>1 DEF NewResult
    <2> QED
      BY <1>4, <2>1, <2>2
  <1>9. Report(rs)
    BY <1>2
  <1>10. faults' \in 0..MaxFaults /\ (faults' = 0 => faults = 0)
    BY <1>1, <1>3, BoundsAssumption DEF Failed, Calls, TypeOK
  <1> HIDE DEF rs
  <1> QED
    BY <1>7, <1>8, <1>9, <1>10

\* Nothing was found: the row's claims and workshops were gone.
LEMMA NothingReports ==
    ASSUME TypeOK, PlaceInv, PastInv, ClaimsInv, WorkshopsInv, LookNothing
    PROVE  /\ \E rs \in Seq(Result) : rs # <<>> /\ Report(rs) /\ \A k \in DOMAIN rs : NewResult(rs[k])
           /\ faults' \in 0..MaxFaults /\ (faults' = 0 => faults = 0)
  <1> DEFINE r == Plain(Absent(Row))
  <1>1. Report(<<r>>) /\ faults' = faults
    BY DEF LookNothing
  <1>2. Absent(Row) \in {"No", "Deleted"}
    BY DEF Absent
  <1>3. /\ r \in Result /\ r.row = job.row /\ r.there # "Yes" /\ r.health = "none" /\ r.showroom = "none"
        /\ r.match = "none"
    BY <1>2, PlainIs
  <1>4. ASSUME faults = 0 PROVE WasGone(job.row)
    <2>1. job.pc = "looking" /\ job.phase # "destroy" /\ MoreRows /\ Claims = {} /\ (Row.ui => job.tried = "workshop")
      BY DEF LookNothing, Looking
    <2>2. job.row \in DOMAIN rows /\ Row = rows[job.row] /\ job.row <= Len(rows)
      BY <2>1, RowIs DEF Row, MoreRows, PlaceInv
    <2>3. ASSUME NEW o \in Objects, Item[o] = Row.item, Kind[o] = "claim" PROVE o \in past.gone
      <3>1. listed[o] = None
        BY <2>1, <2>3 DEF Claims
      <3> QED
        BY <1>4, <2>1, <2>2, <2>3, <3>1 DEF ClaimsInv, Searched
    <2>4. ASSUME NEW o \in Objects, Item[o] = Row.item, Kind[o] = "workshop", Row.ui PROVE o \in past.gone
      BY <1>4, <2>1, <2>2, <2>4 DEF WorkshopsInv
    <2> QED
      BY <2>2, <2>3, <2>4 DEF WasGone
  <1> HIDE DEF r
  <1>5. NewResult(r)
    BY <1>3, <1>4 DEF NewResult, IsTrue
  <1>6. <<r>> \in Seq(Result) /\ <<r>> # <<>> /\ \A k \in DOMAIN <<r>> : <<r>>[k] = r
    BY <1>3, Single
  <1> QED
    BY <1>1, <1>5, <1>6 DEF TypeOK

Reports == Ready \/ LookClaims \/ LookNothing

\* The three together: a row gets results of its own, and they are true.
LEMMA RowReports ==
    ASSUME TypeOK, PlaceInv, PastInv, ClaimsInv, WorkshopsInv, Reports
    PROVE  /\ \E rs \in Seq(Result) : rs # <<>> /\ Report(rs) /\ \A k \in DOMAIN rs : NewResult(rs[k])
           /\ faults' \in 0..MaxFaults /\ (faults' = 0 => faults = 0)
           /\ job.phase # "destroy" /\ job.pc \in {"looking", "readying"} /\ job.row <= Len(rows)
           /\ job' = NextRow /\ UNCHANGED <<rows, cluster, listed, results, sound, truth, past, moves>>
  <1>1. CASE Ready
    <2>1. job.phase # "destroy" /\ job.row <= Len(rows)
      BY <1>1 DEF Ready, PlaceInv
    <2>2. job' = NextRow /\ UNCHANGED <<rows, cluster, listed, results, sound, truth, past, moves>> /\ job.pc = "readying"
      BY <1>1 DEF Ready
    <2> QED
      BY <1>1, <2>1, <2>2, ReadyReports
  <1>2. CASE LookClaims
    <2>1. job' = NextRow /\ UNCHANGED <<rows, cluster, listed, results, sound, truth, past, moves>> /\ Looking
      BY <1>2 DEF LookClaims
    <2> QED
      BY <1>2, <2>1, ClaimsReport DEF Looking, MoreRows
  <1>3. CASE LookNothing
    <2>1. job' = NextRow /\ UNCHANGED <<rows, cluster, listed, results, sound, truth, past, moves>> /\ Looking
      BY <1>3 DEF LookNothing
    <2> QED
      BY <1>3, <2>1, NothingReports DEF Looking, MoreRows
  <1> QED
    BY <1>1, <1>2, <1>3 DEF Reports

LEMMA NextRowIs ==
    ASSUME TypeOK, job' = NextRow
    PROVE  /\ job' \in Job /\ job'.row = job.row + 1 /\ job'.pc = "looking" /\ job'.tried = "nothing"
           /\ job'.phase = job.phase /\ job'.kind = job.kind /\ job'.cancelled = job.cancelled
           /\ job'.asked = job.asked /\ job'.missing = job.missing
  <1>1. /\ job \in Job /\ job.row + 1 \in Nat
        /\ job' = [job EXCEPT !.row = job.row + 1, !.pc = "looking", !.tried = "nothing", !.subject = None, !.seen = None]
    BY DEF NextRow, TypeOK, Job
  <1>2. "looking" \in Places /\ None \in Objects \cup {None} /\ None \in State \cup {None}
    BY DEF Places
  <1> QED
    BY <1>1, <1>2 DEF Job

\* What is found by a look, and looked at next.
LEMMA FoundIs ==
    ASSUME TypeOK, NEW found, found \subseteq Objects, found # {}, \A o \in found : There(o)
    PROVE  Min(found) \in found /\ Min(found) \in Objects /\ cluster[Min(found)] \in State
  <1>1. Min(found) \in found
    <2>1. found \subseteq Nat
      BY ObjectsAssumption
    <2> QED
      BY <2>1, MinIn
  <1>2. cluster[Min(found)] \in State \cup {None} /\ cluster[Min(found)] # None
    BY <1>1 DEF TypeOK, There
  <1> QED
    BY <1>1, <1>2

LEMMA FaultsGrow ==
    ASSUME TypeOK, NEW ok \in Calls, faults' = Failed(ok)
    PROVE  faults' \in 0..MaxFaults /\ (faults' = 0 => faults = 0)
  BY BoundsAssumption DEF Calls, Failed, TypeOK

Still == UNCHANGED <<rows, cluster, listed, setup, deployed, results, sound, truth, past, moves>>

LEMMA LookMultiIs ==
    ASSUME TypeOK, PlaceInv, LookMulti
    PROVE  /\ Still /\ job.pc = "looking" /\ job.phase # "destroy" /\ job.row <= Len(rows) /\ job.tried = "nothing"
           /\ faults' \in 0..MaxFaults /\ (faults' = 0 => faults = 0)
           /\ \/ job' = [job EXCEPT !.tried = "multi"]
              \/ \E o \in Objects : /\ cluster[o] \in State /\ Kind[o] = "multi" /\ Row.multi
                                    /\ job' = [job EXCEPT !.pc = "readying", !.subject = o, !.seen = cluster[o]]
  <1>1. PICK ok \in Calls :
            LET found == IF ok THEN Multis ELSE {}
            IN  /\ job' = IF found = {} THEN [job EXCEPT !.tried = "multi"]
                          ELSE [job EXCEPT !.pc = "readying", !.subject = Min(found), !.seen = cluster[Min(found)]]
                /\ faults' = Failed(ok)
    BY DEF LookMulti
  <1> DEFINE found == IF ok THEN Multis ELSE {}
  <1>2. found \subseteq Objects /\ \A o \in found : There(o) /\ Kind[o] = "multi"
    BY DEF Multis
  <1>3. /\ Still /\ job.pc = "looking" /\ job.phase # "destroy" /\ job.row <= Len(rows) /\ Row.multi
        /\ job.tried = "nothing"
    BY DEF LookMulti, Looking, MoreRows, Still
  <1>4. faults' \in 0..MaxFaults /\ (faults' = 0 => faults = 0)
    BY <1>1, FaultsGrow
  <1>5. CASE found = {}
    BY <1>1, <1>3, <1>4, <1>5
  <1>6. CASE found # {}
    <2>1. job' = [job EXCEPT !.pc = "readying", !.subject = Min(found), !.seen = cluster[Min(found)]]
      BY <1>1, <1>6
    <2> HIDE DEF found
    <2>2. Min(found) \in found /\ Min(found) \in Objects /\ cluster[Min(found)] \in State
      BY <1>2, <1>6, FoundIs
    <2> QED
      BY <1>2, <1>3, <1>4, <2>1, <2>2
  <1> QED
    BY <1>5, <1>6

LEMMA LookWorkshopIs ==
    ASSUME TypeOK, PlaceInv, LookWorkshop
    PROVE  /\ Still /\ job.pc = "looking" /\ job.phase # "destroy" /\ job.row <= Len(rows)
           /\ faults' \in 0..MaxFaults /\ (faults' = 0 => faults = 0)
           /\ \/ /\ job' = [job EXCEPT !.tried = "workshop"]
                 /\ faults' = 0 => Of("workshop", Row.item) = {}
              \/ \E o \in Objects : /\ cluster[o] \in State /\ Kind[o] = "workshop" /\ Item[o] = Row.item
                                    /\ job' = [job EXCEPT !.pc = "readying", !.subject = o, !.seen = cluster[o]]
  <1>1. PICK ok \in Calls :
            LET found == IF ok THEN Of("workshop", Row.item) ELSE {}
            IN  /\ job' = IF found = {} THEN [job EXCEPT !.tried = "workshop"]
                          ELSE [job EXCEPT !.pc = "readying", !.subject = Min(found), !.seen = cluster[Min(found)]]
                /\ faults' = Failed(ok)
    BY DEF LookWorkshop
  <1> DEFINE found == IF ok THEN Of("workshop", Row.item) ELSE {}
  <1>2. found \subseteq Objects /\ \A o \in found : There(o) /\ Kind[o] = "workshop" /\ Item[o] = Row.item
    BY DEF Of
  <1>3. Still /\ job.pc = "looking" /\ job.phase # "destroy" /\ job.row <= Len(rows)
    BY DEF LookWorkshop, Looking, MoreRows, Still
  <1>4. faults' \in 0..MaxFaults /\ (faults' = 0 => faults = 0)
    BY <1>1, FaultsGrow
  <1>5. CASE found = {}
    <2>1. faults' = 0 => ok
      BY <1>1 DEF Failed, TypeOK
    <2> QED
      BY <1>1, <1>3, <1>4, <1>5, <2>1
  <1>6. CASE found # {}
    <2>1. job' = [job EXCEPT !.pc = "readying", !.subject = Min(found), !.seen = cluster[Min(found)]]
      BY <1>1, <1>6
    <2> HIDE DEF found
    <2>2. Min(found) \in found /\ Min(found) \in Objects /\ cluster[Min(found)] \in State
      BY <1>2, <1>6, FoundIs
    <2> QED
      BY <1>2, <1>3, <1>4, <2>1, <2>2
  <1> QED
    BY <1>5, <1>6
-----------------------------------------------------------------------------
(* Types. *)

Base == TypeOK /\ PlaceInv

\* The states that a change of an object leads to.
LEMMA MoveIs ==
    ASSUME TypeOK, Move
    PROVE  /\ \E o \in Objects, s \in State \cup {None} :
                 /\ cluster' = [cluster EXCEPT ![o] = s]
                 /\ past' = [been |-> past.been \cup {x \in {o} : s # None},
                             gone |-> past.gone \cup {x \in {o} : s = None},
                             up |-> past.up \cup {x \in {o} : s # None /\ s.health = "up"}]
           /\ moves' \in 0..MaxMoves
           /\ UNCHANGED <<rows, job, listed, setup, deployed, results, sound, truth, faults>>
  <1>1. PICK o \in Objects : \E s \in Successors(o) :
            /\ moves < MaxMoves /\ moves' = moves + 1
            /\ cluster' = [cluster EXCEPT ![o] = s]
            /\ past' = [been |-> past.been \cup {x \in {o} : s # None},
                        gone |-> past.gone \cup {x \in {o} : s = None},
                        up |-> past.up \cup {x \in {o} : s # None /\ s.health = "up"}]
            /\ UNCHANGED <<rows, job, listed, setup, deployed, results, sound, truth, faults>>
    BY DEF Move
  <1>2. Successors(o) \subseteq State \cup {None}
    <2>1. There(o) => cluster[o] \in State
      BY DEF TypeOK, There
    <2> QED
      BY <2>1 DEF Successors, State
  <1>3. moves' \in 0..MaxMoves
    BY <1>1, BoundsAssumption DEF TypeOK
  <1> QED
    BY <1>1, <1>2, <1>3

\* Where a row is reported, or nothing is: types are kept.
LEMMA ReportsType ==
    ASSUME Base, PastInv, ClaimsInv, WorkshopsInv, Reports
    PROVE  Base'
  <1>1. PICK rs \in Seq(Result) : Report(rs)
    BY RowReports DEF Base
  <1>2. setup' \in Seq(Result) /\ deployed' \in Seq(Result)
    <2>1. Added("setup", rs) \in Seq(Result) /\ Added("deployment", rs) \in Seq(Result)
      BY DEF Added
    <2> QED
      BY <1>1, <2>1, Joined DEF Report, Base, TypeOK
  <1>3. /\ faults' \in 0..MaxFaults /\ job.row <= Len(rows) /\ job' = NextRow
        /\ UNCHANGED <<rows, cluster, listed, results, sound, truth, past, moves>>
        /\ job.phase # "destroy" /\ job.pc \in {"looking", "readying"}
    BY RowReports DEF Base
  <1>4. /\ job' \in Job /\ job'.row = job.row + 1 /\ job'.pc = "looking"
        /\ job'.phase = job.phase /\ job'.kind = job.kind
    BY <1>3, NextRowIs DEF Base
  <1>5. TypeOK'
    BY <1>2, <1>3, <1>4 DEF Base, TypeOK
  <1>6. PlaceInv'
    <2>1. Len(rows) \in Nat /\ job.row \in Nat
      BY DEF Base, TypeOK, Job
    <2> QED
      BY <1>3, <1>4, <2>1 DEF Base, PlaceInv
  <1> QED
    BY <1>5, <1>6 DEF Base

LEMMA InitBase == Init => Base
  <1> SUFFICES ASSUME Init PROVE Base
    OBVIOUS
  <1>1. job \in Job /\ job.row = 1
    BY JobsAssumption DEF Init, Job, Places
  <1>2. rows \in Seq(Workshop) /\ Len(rows) \in Nat
    BY SheetsAssumption DEF Init
  <1>3. sound \in Sound
    BY BoundsAssumption DEF Init, NoSound, Sound
  <1>4. cluster \in [Objects -> State \cup {None}] /\ listed \in [Objects -> State \cup {None}]
    BY WorldsAssumption DEF Init
  <1>5. truth \in [Objects -> Statuses \cup {"none"}]
    BY DEF Init, Statuses
  <1>6. past \in [been : SUBSET Objects, gone : SUBSET Objects, up : SUBSET Objects]
    BY DEF Init, Observed
  <1>7. setup \in Seq(Result) /\ deployed \in Seq(Result) /\ results = <<>>
    BY DEF Init
  <1>8. moves \in 0..MaxMoves /\ faults \in 0..MaxFaults
    BY BoundsAssumption DEF Init
  <1>9. TypeOK
    BY <1>1, <1>2, <1>3, <1>4, <1>5, <1>6, <1>7, <1>8 DEF TypeOK
  <1>10. PlaceInv
    BY <1>1, <1>2, JobsAssumption, BoundsAssumption DEF Init, PlaceInv, NoSound
  <1> QED
    BY <1>9, <1>10 DEF Base

\* The lists.
LEMMA ListBase == ASSUME Base, List PROVE Base' /\ (faults' = 0 => faults = 0)
  <1>1. PICK ok1, ok2 \in Calls :
            /\ faults + (IF ok1 THEN 0 ELSE 1) + (IF ok2 THEN 0 ELSE 1) <= MaxFaults
            /\ listed' = ListedWith(IF ok1 THEN {o \in Labelled : There(o)} ELSE {},
                                   IF ok2 THEN Of("claim", Row.item) ELSE {})
            /\ faults' = faults + (IF ok1 THEN 0 ELSE 1) + (IF ok2 THEN 0 ELSE 1)
    BY DEF List
  <1>2. listed' \in [Objects -> State \cup {None}]
    BY <1>1 DEF ListedWith, Base, TypeOK
  <1>3. faults' \in 0..MaxFaults /\ (faults' = 0 => faults = 0)
    BY <1>1, BoundsAssumption DEF Base, TypeOK
  <1>4. job \in Job /\ job.row \in Nat /\ Len(rows) \in Nat
    BY DEF Base, TypeOK, Job
  <1>5. job' = [job EXCEPT !.row = job.row + 1] /\ job.pc = "listing" /\ job.row <= Len(rows)
    BY DEF List, MoreRows
  <1>6. job' \in Job /\ job'.row = job.row + 1 /\ job'.pc = "listing" /\ job'.phase = job.phase /\ job'.kind = job.kind
    BY <1>4, <1>5 DEF Job
  <1>7. UNCHANGED <<rows, cluster, setup, deployed, results, sound, truth, past, moves>>
    BY DEF List
  <1>8. TypeOK'
    BY <1>2, <1>3, <1>6, <1>7 DEF Base, TypeOK
  <1>9. PlaceInv'
    BY <1>4, <1>5, <1>6, <1>7 DEF Base, PlaceInv
  <1> QED
    BY <1>3, <1>8, <1>9 DEF Base

LEMMA ListedBase == ASSUME Base, Listed PROVE Base'
  <1>1. job \in Job /\ Len(rows) \in Nat
    BY DEF Base, TypeOK
  <1>2. job' = [job EXCEPT !.pc = "looking", !.row = 1] /\ job.pc = "listing"
        /\ UNCHANGED <<rows, cluster, listed, setup, deployed, results, sound, truth, past, moves, faults>>
    BY DEF Listed
  <1>3. job' \in Job /\ job'.row = 1 /\ job'.pc = "looking" /\ job'.phase = job.phase /\ job'.kind = job.kind
    BY <1>1, <1>2 DEF Job, Places
  <1>4. TypeOK'
    BY <1>2, <1>3 DEF Base, TypeOK
  <1>5. PlaceInv'
    BY <1>1, <1>2, <1>3 DEF Base, PlaceInv
  <1> QED
    BY <1>4, <1>5 DEF Base

\* The two looks for something to be there.
LEMMA LookBase == ASSUME Base, LookMulti \/ LookWorkshop PROVE Base' /\ (faults' = 0 => faults = 0)
  <1>1. job \in Job /\ Len(rows) \in Nat
    BY DEF Base, TypeOK
  <1>2. /\ Still /\ job.pc = "looking" /\ job.phase # "destroy" /\ job.row <= Len(rows)
        /\ faults' \in 0..MaxFaults /\ (faults' = 0 => faults = 0)
        /\ \/ \E t \in {"multi", "workshop"} : job' = [job EXCEPT !.tried = t]
           \/ \E o \in Objects :
                 /\ cluster[o] \in State /\ job' = [job EXCEPT !.pc = "readying", !.subject = o, !.seen = cluster[o]]
                 /\ IF Kind[o] = "multi" THEN Row.multi ELSE Kind[o] = "workshop" /\ Item[o] = Row.item
    <2>1. CASE LookMulti
      BY <2>1, LookMultiIs DEF Base
    <2>2. CASE LookWorkshop
      BY <2>2, LookWorkshopIs DEF Base
    <2> QED
      BY <2>1, <2>2
  <1>3. CASE \E t \in {"multi", "workshop"} : job' = [job EXCEPT !.tried = t]
    <2>1. PICK t \in {"multi", "workshop"} : job' = [job EXCEPT !.tried = t]
      BY <1>3
    <2>2. job' \in Job /\ job'.row = job.row /\ job'.pc = job.pc /\ job'.phase = job.phase /\ job'.kind = job.kind
      BY <1>1, <2>1 DEF Job
    <2>3. TypeOK'
      BY <1>2, <2>2 DEF Base, TypeOK, Still
    <2>4. PlaceInv'
      BY <1>2, <2>2 DEF Base, PlaceInv, Still
    <2> QED
      BY <1>2, <2>3, <2>4 DEF Base
  <1>4. ASSUME NEW o \in Objects, cluster[o] \in State,
               job' = [job EXCEPT !.pc = "readying", !.subject = o, !.seen = cluster[o]],
               IF Kind[o] = "multi" THEN Row.multi ELSE Kind[o] = "workshop" /\ Item[o] = Row.item
        PROVE  Base' /\ (faults' = 0 => faults = 0)
    <2>1. /\ job' \in Job /\ job'.row = job.row /\ job'.pc = "readying" /\ job'.phase = job.phase /\ job'.kind = job.kind
          /\ job'.subject = o /\ job'.seen = cluster[o]
      BY <1>1, <1>4 DEF Job, Places
    <2>2. Row' = Row
      BY <1>2, <2>1 DEF Row, Still
    <2>3. TypeOK'
      BY <1>2, <2>1 DEF Base, TypeOK, Still
    <2>4. PlaceInv'
      BY <1>2, <1>4, <2>1, <2>2 DEF Base, PlaceInv, Still
    <2> QED
      BY <1>2, <2>3, <2>4 DEF Base
  <1> QED
    BY <1>2, <1>3, <1>4

LEMMA EndPhaseBase == ASSUME Base, EndPhase PROVE Base'
  <1>1. job \in Job /\ Len(rows) \in Nat
    BY DEF Base, TypeOK
  <1>2. /\ job.pc = "looking" /\ job.phase # "destroy"
        /\ UNCHANGED <<rows, cluster, setup, deployed, results, sound, truth, past, moves, faults>>
        /\ listed' = [o \in Objects |-> None]
    BY DEF EndPhase
  <1>3. listed' \in [Objects -> State \cup {None}]
    BY <1>2
  <1>4. CASE job.phase = "setup" /\ job.kind = "both"
    <2>1. job' = [job EXCEPT !.phase = "deployment", !.pc = "listing", !.row = 1]
      BY <1>4 DEF EndPhase
    <2>2. job' \in Job /\ job'.row = 1 /\ job'.pc = "listing" /\ job'.phase = "deployment" /\ job'.kind = "both"
      BY <1>1, <1>4, <2>1 DEF Job, Places
    <2>3. TypeOK'
      BY <1>2, <1>3, <2>2 DEF Base, TypeOK
    <2>4. PlaceInv'
      BY <1>1, <1>2, <2>2 DEF Base, PlaceInv
    <2> QED
      BY <2>3, <2>4 DEF Base
  <1>5. CASE ~(job.phase = "setup" /\ job.kind = "both")
    <2> DEFINE pc == IF job.phase = "setup" \/ job.cancelled \/ deployed = <<>> THEN "merging" ELSE "workshops"
    <2>1. job' = [job EXCEPT !.pc = pc]
      BY <1>5 DEF EndPhase
    <2>2. pc \in Places /\ pc \in {"merging", "workshops"} /\ (job.phase = "setup" => pc = "merging")
      BY DEF Places
    <2> HIDE DEF pc
    <2>3. job' \in Job /\ job'.row = job.row /\ job'.pc = pc /\ job'.phase = job.phase /\ job'.kind = job.kind
      BY <1>1, <2>1, <2>2 DEF Job
    <2>4. TypeOK'
      BY <1>2, <1>3, <2>3 DEF Base, TypeOK
    <2>5. PlaceInv'
      BY <1>1, <1>2, <1>5, <2>2, <2>3 DEF Base, PlaceInv
    <2> QED
      BY <2>4, <2>5 DEF Base
  <1> QED
    BY <1>4, <1>5

\* Soundcheck, all but the report: a place, a session and a truth.
Soundcheck == CollectWorkshops \/ CreateGroup \/ RunGroup \/ Poll \/ CheckStatus

LEMMA SoundcheckIs ==
    ASSUME TypeOK, PlaceInv, Soundcheck
    PROVE  /\ job.pc \in {"workshops", "create", "run", "poll", "status"}
           /\ \E pc \in {"create", "run", "poll", "status", "merging"} :
                 job' = [job EXCEPT !.pc = pc] /\ (pc \in {"create", "run", "poll"} => sound'.polls < Polls)
           /\ sound' \in Sound /\ truth' \in [Objects -> Statuses \cup {"none"}]
           /\ faults' \in 0..MaxFaults /\ (faults' = 0 => faults = 0)
           /\ UNCHANGED <<rows, cluster, listed, setup, results, past, moves>>
           /\ CheckStatus \/ deployed' = deployed
  <1>1. sound \in Sound /\ truth \in [Objects -> Statuses \cup {"none"}] /\ faults \in 0..MaxFaults
    BY DEF TypeOK
  <1>2. \A ok \in Calls : Failed(ok) \in 0..MaxFaults /\ (Failed(ok) = 0 => faults = 0)
    BY <1>1, BoundsAssumption DEF Calls, Failed
  <1>3. CASE CollectWorkshops
    <2>1. PICK ok \in Calls :
              LET ids == IF ok THEN {w \in Objects : Kind[w] = "workshop" /\ Item[w] \in RowItems /\ There(w)} ELSE {}
              IN  /\ sound' = [sound EXCEPT !.ids = ids]
                  /\ job' = [job EXCEPT !.pc = IF ids = {} THEN "merging" ELSE "create"]
                  /\ faults' = Failed(ok)
      BY <1>3 DEF CollectWorkshops
    <2>2. sound' \in Sound /\ sound'.polls = sound.polls /\ sound.polls < Polls
      BY <1>1, <1>3, <2>1 DEF Sound, PlaceInv, CollectWorkshops
    <2>3. \E pc \in {"create", "run", "poll", "status", "merging"} :
              job' = [job EXCEPT !.pc = pc] /\ (pc \in {"create", "run", "poll"} => sound'.polls < Polls)
      BY <2>1, <2>2
    <2> QED
      BY <1>1, <1>2, <1>3, <2>1, <2>2, <2>3 DEF CollectWorkshops
  <1>4. CASE CreateGroup
    <2>1. PICK ok \in Calls :
              /\ job' = [job EXCEPT !.pc = IF ok THEN "run" ELSE "status"]
              /\ sound' = [sound EXCEPT !.reached = ok]
              /\ faults' = Failed(ok)
      BY <1>4 DEF CreateGroup
    <2>2. sound' \in Sound /\ sound'.polls = sound.polls /\ sound.polls < Polls
      BY <1>1, <1>4, <2>1 DEF Sound, Calls, PlaceInv, CreateGroup
    <2>3. \E pc \in {"create", "run", "poll", "status", "merging"} :
              job' = [job EXCEPT !.pc = pc] /\ (pc \in {"create", "run", "poll"} => sound'.polls < Polls)
      BY <2>1, <2>2
    <2> QED
      BY <1>1, <1>2, <1>4, <2>1, <2>2, <2>3 DEF CreateGroup
  <1>5. CASE RunGroup
    <2>1. PICK ok \in Calls, taken \in SUBSET Asked :
              /\ job' = [job EXCEPT !.pc = IF ok THEN "poll" ELSE "status"]
              /\ sound' = [sound EXCEPT !.kicked = ok, !.taken = taken]
              /\ truth' = [w \in Objects |-> IF w \in taken THEN "running" ELSE truth[w]]
              /\ faults' = Failed(ok)
      BY <1>5 DEF RunGroup
    <2> taken \subseteq Objects
      BY <1>1 DEF Asked, Sound
    <2>2. sound' \in Sound /\ sound'.polls = sound.polls /\ sound.polls < Polls
      BY <1>1, <1>5, <2>1 DEF Sound, Calls, PlaceInv, RunGroup
    <2>3. truth' \in [Objects -> Statuses \cup {"none"}]
      BY <1>1, <2>1 DEF Statuses
    <2>4. \E pc \in {"create", "run", "poll", "status", "merging"} :
              job' = [job EXCEPT !.pc = pc] /\ (pc \in {"create", "run", "poll"} => sound'.polls < Polls)
      BY <2>1, <2>2
    <2> QED
      BY <1>1, <1>2, <1>5, <2>1, <2>2, <2>3, <2>4 DEF RunGroup
  <1>6. CASE Poll
    <2>1. PICK ok \in IF job.cancelled THEN {TRUE} ELSE Calls :
              LET stop == job.cancelled \/ ~ok
              IN  /\ job' = [job EXCEPT !.pc = IF \/ stop \/ Session \in {"completed", "failed"}
                                                  \/ sound.polls + 1 >= Polls
                                               THEN "status" ELSE "poll"]
                  /\ sound' = IF stop THEN sound ELSE [sound EXCEPT !.session = Session, !.polls = @ + 1]
                  /\ faults' = Failed(ok)
      BY <1>6 DEF Poll
    <2>2. ok \in Calls
      BY <2>1 DEF Calls
    <2>3. Session \in Statuses
      BY DEF Session, Statuses
    <2>4. sound.polls \in Nat /\ sound.polls < Polls
      BY <1>1, <1>6, BoundsAssumption DEF Sound, Poll, PlaceInv
    <2>5. sound' \in Sound
      <3>1. sound.polls + 1 \in 0..Polls
        BY <2>4, BoundsAssumption
      <3>2. [sound EXCEPT !.session = Session, !.polls = sound.polls + 1] \in Sound
        BY <1>1, <2>3, <3>1 DEF Sound
      <3> QED
        BY <1>1, <2>1, <3>2
    <2>6. \E pc \in {"create", "run", "poll", "status", "merging"} :
              job' = [job EXCEPT !.pc = pc] /\ (pc \in {"create", "run", "poll"} => sound'.polls < Polls)
      BY <1>1, <2>1, <2>4, BoundsAssumption DEF Sound
    <2> QED
      BY <1>1, <1>2, <1>6, <2>1, <2>2, <2>5, <2>6 DEF Poll
  <1>7. CASE CheckStatus
    <2>1. PICK ok \in IF sound.reached THEN Calls ELSE BOOLEAN, heard \in SUBSET Asked :
              /\ sound' = [sound EXCEPT !.heard = heard, !.reached = @ \/ ok]
              /\ faults' = IF sound.reached THEN Failed(ok) ELSE faults
      BY <1>7 DEF CheckStatus
    <2> heard \subseteq Objects
      BY <1>1 DEF Asked, Sound
    <2>2. sound' \in Sound
      BY <1>1, <2>1 DEF Sound, Calls
    <2>3. faults' \in 0..MaxFaults /\ (faults' = 0 => faults = 0)
      BY <1>1, <1>2, <2>1
    <2>4. \E pc \in {"create", "run", "poll", "status", "merging"} :
              job' = [job EXCEPT !.pc = pc] /\ (pc \in {"create", "run", "poll"} => sound'.polls < Polls)
      BY <1>7 DEF CheckStatus
    <2>5. job.pc = "status" /\ UNCHANGED <<rows, cluster, listed, setup, results, truth, past, moves>>
      BY <1>7 DEF CheckStatus
    <2> QED
      BY <1>1, <1>7, <2>2, <2>3, <2>4, <2>5
  <1> QED
    BY <1>3, <1>4, <1>5, <1>6, <1>7 DEF Soundcheck

\* What the showroom column may show.
LEMMA ShownIs ==
    ASSUME NEW item, NEW heard, NEW reached
    PROVE  Shown(item, heard, reached) \in {"none", "healthy", "unhealthy", "pending", "other", "unreachable"}
  <1>1. OfSession(item) \in {"none", "healthy", "unhealthy", "pending", "other", "unreachable"}
    BY DEF OfSession
  <1> QED
    BY <1>1 DEF Shown

\* The showrooms are all that a look at the status changes of the results.
LEMMA StatusIs ==
    ASSUME TypeOK, CheckStatus
    PROVE  /\ deployed' \in Seq(Result) /\ DOMAIN deployed' = DOMAIN deployed
           /\ \A j \in DOMAIN deployed :
                 \E shown \in {"none", "healthy", "unhealthy", "pending", "other", "unreachable"} :
                    deployed'[j] = [deployed[j] EXCEPT !.showroom = shown]
  <1>1. PICK ok \in IF sound.reached THEN Calls ELSE BOOLEAN, heard \in SUBSET {w \in Asked : truth[w] # "none"} :
            deployed' = [i \in DOMAIN deployed |->
                          [deployed[i] EXCEPT !.showroom =
                              Shown(rows[deployed[i].row].item, heard, ok \/ sound.kicked)]]
    BY DEF CheckStatus
  <1>2. \A i \in DOMAIN deployed : deployed[i] \in Result
    BY DEF TypeOK
  <1>3. \A j \in DOMAIN deployed :
            \E shown \in {"none", "healthy", "unhealthy", "pending", "other", "unreachable"} :
               deployed'[j] = [deployed[j] EXCEPT !.showroom = shown]
    BY <1>1, ShownIs
  <1>4. \A j \in DOMAIN deployed : deployed'[j] \in Result
    <2> SUFFICES ASSUME NEW j \in DOMAIN deployed PROVE deployed'[j] \in Result
      OBVIOUS
    <2>1. PICK shown \in {"none", "healthy", "unhealthy", "pending", "other", "unreachable"} :
              deployed'[j] = [deployed[j] EXCEPT !.showroom = shown]
      BY <1>3
    <2>2. deployed[j] \in Result
      BY <1>2
    <2> QED
      BY <2>1, <2>2 DEF Result
  <1>5. DOMAIN deployed' = 1..Len(deployed) /\ DOMAIN deployed = 1..Len(deployed) /\ Len(deployed) \in Nat
    BY <1>1 DEF TypeOK
  <1>6. deployed' = [i \in 1..Len(deployed) |-> deployed'[i]]
    BY <1>1, <1>5
  <1>7. deployed' \in Seq(Result)
    BY <1>4, <1>5, <1>6
  <1> QED
    BY <1>3, <1>5, <1>7

LEMMA SoundcheckBase == ASSUME Base, Soundcheck PROVE Base' /\ (faults' = 0 => faults = 0)
  <1>1. /\ job.pc \in {"workshops", "create", "run", "poll", "status"}
        /\ sound' \in Sound /\ truth' \in [Objects -> Statuses \cup {"none"}]
        /\ faults' \in 0..MaxFaults /\ (faults' = 0 => faults = 0)
        /\ UNCHANGED <<rows, cluster, listed, setup, results, past, moves>>
    BY SoundcheckIs DEF Base
  <1>2. PICK pc \in {"create", "run", "poll", "status", "merging"} :
            job' = [job EXCEPT !.pc = pc] /\ (pc \in {"create", "run", "poll"} => sound'.polls < Polls)
    BY SoundcheckIs DEF Base
  <1>3. job' \in Job /\ job'.row = job.row /\ job'.pc = pc /\ job'.phase = job.phase /\ job'.kind = job.kind
    BY <1>2 DEF Base, TypeOK, Job, Places
  <1>4. deployed' \in Seq(Result)
    <2>1. CASE CheckStatus
      BY <2>1, StatusIs DEF Base
    <2>2. CASE deployed' = deployed
      BY <2>2 DEF Base, TypeOK
    <2> QED
      BY <2>1, <2>2, SoundcheckIs DEF Base
  <1>5. TypeOK'
    BY <1>1, <1>3, <1>4 DEF Base, TypeOK
  <1>6. PlaceInv'
    BY <1>1, <1>2, <1>3 DEF Base, PlaceInv
  <1> QED
    BY <1>1, <1>5, <1>6 DEF Base

\* What is returned for a row is one of its results, and only whether it
\* matches may be changed.
LEMMA DedupIs ==
    ASSUME NEW rs \in Seq(Result), NEW i, Own(rs, i) # {}
    PROVE  /\ Dedup(rs, i) \in Result /\ Dedup(rs, i).row = i
           /\ Dedup(rs, i).match = "No" <=> \E j \in Own(rs, i) : rs[j].match = "No"
           /\ \E j \in Own(rs, i) : \E m \in {"Yes", "No", "none"} : Dedup(rs, i) = [rs[j] EXCEPT !.match = m]
  <1>1. \A j \in Own(rs, i) : rs[j] \in Result /\ rs[j].row = i
    BY DEF Own
  <1>2. Min(Own(rs, i)) \in Own(rs, i)
    <2>1. Own(rs, i) \subseteq Nat
      BY DEF Own
    <2> QED
      BY <2>1, MinIn
  <1>3. PICK j \in Own(rs, i) : j = Min(Own(rs, i))
    BY <1>2
  <1>4. rs[j] \in Result /\ rs[j].row = i /\ rs[j].match \in {"Yes", "No", "none"}
    BY <1>1 DEF Result
  <1>5. PICK m \in {"Yes", "No", "none"} : m = IF \E k \in Own(rs, i) : rs[k].match = "No" THEN "No" ELSE rs[j].match
    BY <1>4
  <1>6. Dedup(rs, i) = [rs[j] EXCEPT !.match = m]
    BY <1>3, <1>5 DEF Dedup
  <1>7. Dedup(rs, i) \in Result /\ Dedup(rs, i).row = i /\ Dedup(rs, i).match = m
    BY <1>4, <1>6 DEF Result
  <1>8. m = "No" <=> \E k \in Own(rs, i) : rs[k].match = "No"
    BY <1>5
  <1> QED
    BY <1>6, <1>7, <1>8

LEMMA MergedIs ==
    ASSUME TypeOK, NEW i, Own(deployed, i) # {}, \A j \in DOMAIN deployed : deployed[j].match = "none"
    PROVE  /\ Merged(i) \in Result /\ Merged(i).row = i
           /\ Merged(i).match = "No" <=> \E j \in Own(setup, i) : setup[j].match = "No"
           /\ \E j \in Own(deployed, i) : \E m \in {"Yes", "No", "none"} : Merged(i) = [deployed[j] EXCEPT !.match = m]
  <1>1. \A j \in Own(deployed, i) : deployed[j] \in Result /\ deployed[j].row = i /\ deployed[j].match = "none"
    BY DEF Own, TypeOK
  <1>2. Max(Own(deployed, i)) \in Own(deployed, i)
    <2>1. Own(deployed, i) \subseteq 1..Len(deployed) /\ Len(deployed) \in Nat
      BY DEF Own, TypeOK
    <2> QED
      BY <2>1, MaxIn
  <1>3. PICK j \in Own(deployed, i) : j = Max(Own(deployed, i))
    BY <1>2
  <1>4. deployed[j] \in Result /\ deployed[j].row = i /\ deployed[j].match = "none"
    BY <1>1
  <1>5. PICK m \in {"Yes", "No", "none"} :
            m = IF \E k \in Own(setup, i) : setup[k].match = "No" THEN "No" ELSE deployed[j].match
    BY <1>4
  <1>6. Merged(i) = [deployed[j] EXCEPT !.match = m]
    BY <1>3, <1>5 DEF Merged
  <1>7. Merged(i) \in Result /\ Merged(i).row = i /\ Merged(i).match = m
    BY <1>4, <1>6 DEF Result
  <1>8. m = "No" <=> \E k \in Own(setup, i) : setup[k].match = "No"
    BY <1>4, <1>5
  <1> QED
    BY <1>6, <1>7, <1>8

LEMMA AnsweredOwn ==
    ASSUME NEW rs, NEW n, Answered(rs, n), NEW i \in 1..n
    PROVE  Own(rs, i) # {}
  BY DEF Answered, Own

LEMMA MergeBase == ASSUME Base, AnsweredInv, TrueInv, Merge PROVE Base'
  <1>1. /\ job \in Job /\ Len(rows) \in Nat /\ DOMAIN rows = 1..Len(rows)
        /\ setup \in Seq(Result) /\ deployed \in Seq(Result)
    BY DEF Base, TypeOK
  <1>2. /\ job.pc = "merging" /\ job' = [job EXCEPT !.pc = "done"]
        /\ UNCHANGED <<rows, cluster, listed, setup, deployed, sound, truth, past, moves, faults>>
        /\ results' = IF job.kind = "2" THEN [i \in DOMAIN rows |-> Dedup(setup, i)]
                      ELSE IF job.kind = "3" THEN deployed
                      ELSE [i \in DOMAIN rows |-> Merged(i)]
    BY DEF Merge
  <1>3. /\ job' \in Job /\ job'.row = job.row /\ job'.pc = "done" /\ job'.phase = job.phase /\ job'.kind = job.kind
    BY <1>1, <1>2 DEF Job, Places
  <1>4. job.phase # "destroy" /\ job.kind \in {"2", "3", "both"} /\ (job.kind = "2" => job.phase = "setup")
        /\ (job.kind = "both" => job.phase = "deployment") /\ job.phase \in {"setup", "deployment"}
    BY <1>1, <1>2 DEF Base, PlaceInv, Job
  <1>5. \A i \in DOMAIN results' : results'[i] \in Result
    <2>1. CASE job.kind = "2"
      <3>1. Answered(setup, Len(rows))
        BY <1>2, <1>4, <2>1 DEF AnsweredInv, Far
      <3>2. \A i \in DOMAIN rows : Dedup(setup, i) \in Result
        BY <1>1, <3>1, AnsweredOwn, DedupIs
      <3> QED
        BY <1>2, <2>1, <3>2
    <2>2. CASE job.kind = "3"
      BY <1>1, <1>2, <2>2
    <2>3. CASE job.kind = "both"
      <3>1. Answered(deployed, Len(rows))
        BY <1>2, <1>4, <2>3 DEF AnsweredInv, Far
      <3>2. \A i \in DOMAIN rows : Merged(i) \in Result
        BY <1>1, <3>1, AnsweredOwn, MergedIs DEF TrueInv, Base
      <3> QED
        BY <1>2, <2>3, <3>2
    <2> QED
      BY <1>4, <2>1, <2>2, <2>3
  <1>6. TypeOK'
    BY <1>2, <1>3, <1>5 DEF Base, TypeOK
  <1>7. PlaceInv'
    BY <1>2, <1>3, <1>4 DEF Base, PlaceInv
  <1> QED
    BY <1>6, <1>7 DEF Base

\* The check after the end.
LEMMA LookForBase == ASSUME Base, NEW n \in 1..3, LookFor(n) PROVE Base' /\ (faults' = 0 => faults = 0)
  <1>1. PICK ok \in Calls :
            /\ job' = [job EXCEPT !.asked = n,
                                  !.missing = IF ok /\ Of(Asks[n], Row.item) # {} THEN @ ELSE @ \cup {Asks[n]}]
            /\ faults' = Failed(ok)
    BY DEF LookFor
  <1>2. /\ job.pc = "looking" /\ job.phase = "destroy"
        /\ UNCHANGED <<rows, cluster, listed, setup, deployed, results, sound, truth, past, moves>>
    BY DEF LookFor
  <1>3. Asks[n] \in {"workshop", "provision", "claim"}
    BY DEF Asks
  <1>4. job \in Job /\ job.missing \cup {Asks[n]} \in SUBSET {"workshop", "provision", "claim"}
    BY <1>3 DEF Base, TypeOK, Job
  <1>5. job' \in Job /\ job'.row = job.row /\ job'.pc = "looking" /\ job'.phase = job.phase /\ job'.kind = job.kind
    <2> DEFINE missing == IF ok /\ Of(Asks[n], Row.item) # {} THEN job.missing ELSE job.missing \cup {Asks[n]}
    <2>1. missing \in SUBSET {"workshop", "provision", "claim"} /\ n \in 0..3
      BY <1>4 DEF Job
    <2>2. job' = [job EXCEPT !.asked = n, !.missing = missing]
      BY <1>1
    <2> HIDE DEF missing
    <2> QED
      BY <1>2, <1>4, <2>1, <2>2 DEF Job
  <1>6. faults' \in 0..MaxFaults /\ (faults' = 0 => faults = 0)
    BY <1>1, FaultsGrow DEF Base
  <1>7. TypeOK'
    BY <1>2, <1>5, <1>6 DEF Base, TypeOK
  <1>8. PlaceInv'
    BY <1>2, <1>5 DEF Base, PlaceInv
  <1> QED
    BY <1>6, <1>7, <1>8 DEF Base

JudgedRow == [row |-> job.row, overall |-> Overall(job.missing, Row.ended)]

LEMMA JudgeRowIs ==
    ASSUME Base, JudgeRow
    PROVE  /\ JudgedRow \in Verdict
           /\ job' \in Job /\ job'.row = job.row + 1 /\ job'.pc = "looking" /\ job'.phase = job.phase
           /\ job'.kind = job.kind /\ job'.asked = 0 /\ job'.missing = {} /\ job'.tried = "nothing"
           /\ results' = Append(results, JudgedRow)
  <1>1. job \in Job /\ job.row + 1 \in Nat /\ job.row \in Nat
    BY DEF Base, TypeOK, Job
  <1>2. "looking" \in Places /\ None \in Objects \cup {None} /\ None \in State \cup {None} /\ 0 \in 0..3
    BY DEF Places
  <1>3. job' = [NextRow EXCEPT !.asked = 0, !.missing = {}] /\ results' = Append(results, JudgedRow)
    BY DEF JudgeRow, JudgedRow
  <1>4. NextRow \in Job /\ NextRow.row = job.row + 1 /\ NextRow.pc = "looking" /\ NextRow.phase = job.phase
        /\ NextRow.kind = job.kind /\ NextRow.tried = "nothing"
    BY <1>1, <1>2 DEF NextRow, Job
  <1>5. JudgedRow \in Verdict
    BY <1>1 DEF JudgedRow, Overall, Verdict
  <1> QED
    BY <1>2, <1>3, <1>4, <1>5 DEF Job

LEMMA JudgeRowBase == ASSUME Base, DestroyInv, JudgeRow PROVE Base'
  <1>1. /\ job.pc = "looking" /\ job.phase = "destroy" /\ job.row <= Len(rows)
        /\ UNCHANGED <<rows, cluster, listed, setup, deployed, sound, truth, past, moves, faults>>
    BY DEF JudgeRow, MoreRows
  <1>2. \A i \in DOMAIN results' : results'[i] \in Verdict
    <2>1. results \in Seq(Verdict)
      BY <1>1 DEF DestroyInv
    <2>2. results' \in Seq(Verdict)
      BY <2>1, JudgeRowIs
    <2> QED
      BY <2>2
  <1>3. TypeOK'
    BY <1>1, <1>2, JudgeRowIs DEF Base, TypeOK
  <1>4. PlaceInv'
    <2>1. Len(rows) \in Nat /\ job.row \in Nat
      BY DEF Base, TypeOK, Job
    <2> QED
      BY <1>1, <2>1, JudgeRowIs DEF Base, PlaceInv
  <1> QED
    BY <1>3, <1>4 DEF Base

LEMMA EndDestroyBase == ASSUME Base, EndDestroy PROVE Base'
  <1>1. /\ job.pc = "looking" /\ job.phase = "destroy" /\ job' = [job EXCEPT !.pc = "done"]
        /\ UNCHANGED <<rows, cluster, listed, setup, deployed, results, sound, truth, past, moves, faults>>
    BY DEF EndDestroy
  <1>2. job' \in Job /\ job'.row = job.row /\ job'.pc = "done" /\ job'.phase = job.phase /\ job'.kind = job.kind
    BY <1>1 DEF Base, TypeOK, Job, Places
  <1>3. TypeOK'
    BY <1>1, <1>2 DEF Base, TypeOK
  <1>4. PlaceInv'
    BY <1>1, <1>2 DEF Base, PlaceInv
  <1> QED
    BY <1>3, <1>4 DEF Base

\* The surroundings.
LEMMA MoveBase == ASSUME Base, Move PROVE Base'
  <1>1. PICK o \in Objects, s \in State \cup {None} :
            /\ cluster' = [cluster EXCEPT ![o] = s]
            /\ past' = [been |-> past.been \cup {x \in {o} : s # None},
                        gone |-> past.gone \cup {x \in {o} : s = None},
                        up |-> past.up \cup {x \in {o} : s # None /\ s.health = "up"}]
    BY MoveIs DEF Base
  <1>2. /\ moves' \in 0..MaxMoves
        /\ UNCHANGED <<rows, job, listed, setup, deployed, results, sound, truth, faults>>
    BY MoveIs DEF Base
  <1>3. past \in [been : SUBSET Objects, gone : SUBSET Objects, up : SUBSET Objects]
    BY DEF Base, TypeOK
  <1>4. past' \in [been : SUBSET Objects, gone : SUBSET Objects, up : SUBSET Objects]
    BY <1>1, <1>3
  <1>5. TypeOK'
    BY <1>1, <1>2, <1>4 DEF Base, TypeOK
  <1>6. PlaceInv'
    BY <1>2 DEF Base, PlaceInv, Row
  <1> QED
    BY <1>5, <1>6 DEF Base

LEMMA ProbeBase == ASSUME Base, Probe PROVE Base'
  <1>1. PICK w \in Asked, s \in {"completed", "failed", "other"} : truth' = [truth EXCEPT ![w] = s]
    BY DEF Probe
  <1>2. UNCHANGED <<rows, cluster, job, listed, setup, deployed, results, sound, past, moves, faults>>
    BY DEF Probe
  <1>3. truth' \in [Objects -> Statuses \cup {"none"}]
    BY <1>1 DEF Base, TypeOK, Statuses
  <1>4. TypeOK'
    BY <1>2, <1>3 DEF Base, TypeOK
  <1>5. PlaceInv'
    BY <1>2 DEF Base, PlaceInv, Row
  <1> QED
    BY <1>4, <1>5 DEF Base

LEMMA CancelBase == ASSUME Base, Cancel PROVE Base'
  <1>1. /\ job' = [job EXCEPT !.cancelled = TRUE]
        /\ UNCHANGED <<rows, cluster, listed, setup, deployed, results, sound, truth, past, moves, faults>>
    BY DEF Cancel
  <1>2. /\ job' \in Job /\ job'.row = job.row /\ job'.pc = job.pc /\ job'.phase = job.phase /\ job'.kind = job.kind
        /\ job'.subject = job.subject /\ job'.seen = job.seen
    BY <1>1 DEF Base, TypeOK, Job
  <1>3. TypeOK'
    BY <1>1, <1>2 DEF Base, TypeOK
  <1>4. PlaceInv'
    BY <1>1, <1>2 DEF Base, PlaceInv, Row
  <1> QED
    BY <1>3, <1>4 DEF Base

-----------------------------------------------------------------------------
(* Every row is answered. *)

LEMMA AnsweredNext ==
    ASSUME NEW s \in Seq(Result), NEW rs \in Seq(Result), NEW n \in Nat, Answered(s, n), rs # <<>>,
           \A k \in DOMAIN rs : rs[k].row = n + 1
    PROVE  Answered(s \o rs, n + 1)
  <1> DEFINE t == s \o rs
  <1>1. /\ \A j \in DOMAIN s : j \in DOMAIN t /\ t[j] = s[j]
        /\ \A k \in DOMAIN rs : \E j \in DOMAIN t : t[j] = rs[k]
        /\ \A j \in DOMAIN t : (\E i \in DOMAIN s : t[j] = s[i]) \/ (\E k \in DOMAIN rs : t[j] = rs[k])
    <2>1. \A j \in DOMAIN s : j \in DOMAIN (s \o rs) /\ (s \o rs)[j] = s[j]
      BY Joined
    <2>2. \A k \in DOMAIN rs : \E j \in DOMAIN (s \o rs) : (s \o rs)[j] = rs[k]
      BY Joined
    <2>3. ASSUME NEW j \in DOMAIN (s \o rs)
          PROVE  (\E i \in DOMAIN s : (s \o rs)[j] = s[i]) \/ (\E k \in DOMAIN rs : (s \o rs)[j] = rs[k])
      <3>1. (s \o rs)[j] \in Range(s) \cup Range(rs)
        BY Joined
      <3> QED
        BY <3>1 DEF Range
    <2> QED
      BY <2>1, <2>2, <2>3
  <1>2. 1 \in DOMAIN rs
    OBVIOUS
  <1> HIDE DEF t
  <1>3. ASSUME NEW j \in DOMAIN t PROVE t[j].row \in 1..(n + 1)
    <2>1. t[j].row \in 1..n \/ t[j].row = n + 1
      BY <1>1 DEF Answered
    <2> QED
      BY <2>1
  <1>4. ASSUME NEW i \in 1..(n + 1) PROVE \E j \in DOMAIN t : t[j].row = i
    <2>1. CASE i = n + 1
      BY <1>1, <1>2, <2>1
    <2>2. CASE i # n + 1
      <3>1. i \in 1..n
        BY <2>2
      <3>2. PICK j \in DOMAIN s : s[j].row = i
        BY <3>1 DEF Answered
      <3> QED
        BY <1>1, <3>2
    <2> QED
      BY <2>1, <2>2
  <1>5. Answered(t, n + 1)
    BY <1>3, <1>4 DEF Answered
  <1> QED
    BY <1>5 DEF t

\* How the results of the two phases grow.
LEMMA ReportIs ==
    ASSUME Base, NEW rs \in Seq(Result), Report(rs)
    PROVE  /\ setup' = IF job.phase = "setup" THEN setup \o rs ELSE setup
           /\ deployed' = IF job.phase = "deployment" THEN deployed \o rs ELSE deployed
  <1>1. setup \in Seq(Result) /\ deployed \in Seq(Result)
    BY DEF Base, TypeOK
  <1>2. setup \o <<>> = setup /\ deployed \o <<>> = deployed
    BY <1>1
  <1> QED
    BY <1>2 DEF Report, Added

LEMMA ReportsAnswered ==
    ASSUME Base, AnsweredInv, PastInv, ClaimsInv, WorkshopsInv, Reports
    PROVE  AnsweredInv'
  <1>1. PICK rs \in Seq(Result) : rs # <<>> /\ Report(rs) /\ \A k \in DOMAIN rs : NewResult(rs[k])
    BY RowReports DEF Base
  <1>2. /\ job.phase # "destroy" /\ job.pc \in {"looking", "readying"} /\ rows' = rows
        /\ job'.row = job.row + 1 /\ job'.pc = "looking" /\ job'.phase = job.phase /\ job'.kind = job.kind
    BY RowReports, NextRowIs DEF Base
  <1>3. job.row \in 1..(Len(rows) + 1) /\ Len(rows) \in Nat /\ setup \in Seq(Result) /\ deployed \in Seq(Result)
    BY DEF Base, TypeOK, PlaceInv
  <1> DEFINE n == job.row - 1
  <1>4. n \in Nat /\ n + 1 = job.row /\ Far = n /\ Far' = n + 1
    BY <1>2, <1>3 DEF Far
  <1>5. \A k \in DOMAIN rs : rs[k].row = n + 1
    BY <1>1, <1>4 DEF NewResult
  <1> HIDE DEF n
  <1>6. CASE job.phase = "setup"
    <2>1. setup' = setup \o rs /\ deployed' = deployed
      BY <1>1, <1>6, ReportIs
    <2>2. Answered(setup, n)
      BY <1>4, <1>6 DEF AnsweredInv
    <2>3. Answered(setup', n + 1)
      BY <1>1, <1>3, <1>4, <1>5, <2>1, <2>2, AnsweredNext
    <2> QED
      BY <1>2, <1>4, <1>6, <2>1, <2>3 DEF AnsweredInv, Answered
  <1>7. CASE job.phase = "deployment"
    <2>1. deployed' = deployed \o rs /\ setup' = setup
      BY <1>1, <1>7, ReportIs
    <2>2. Answered(deployed, n)
      BY <1>4, <1>7 DEF AnsweredInv
    <2>3. Answered(deployed', n + 1)
      BY <1>1, <1>3, <1>4, <1>5, <2>1, <2>2, AnsweredNext
    <2> QED
      BY <1>2, <1>4, <1>7, <2>1, <2>3 DEF AnsweredInv, Answered
  <1>8. CASE job.phase \notin {"setup", "deployment"}
    BY <1>2, <1>8 DEF Base, TypeOK, Job
  <1> QED
    BY <1>6, <1>7, <1>8

\* Nothing is added to the results, and no phase is left before its end.
LEMMA StillAnswered ==
    ASSUME Base, AnsweredInv, rows' = rows, setup' = setup, DOMAIN deployed' = DOMAIN deployed,
           \A j \in DOMAIN deployed : deployed'[j].row = deployed[j].row,
           job'.phase = job.phase, job'.kind = job.kind, Far' = Far \/ job.phase = "destroy"
    PROVE  AnsweredInv'
  <1>1. \A n : Answered(deployed, n) => Answered(deployed', n)
    BY DEF Answered
  <1>2. \A n : Answered(setup, n) => Answered(setup', n)
    OBVIOUS
  <1> HIDE DEF Far
  <1>3. job.phase = "destroy" => job.kind = "destroy"
    BY DEF Base, PlaceInv
  <1> QED
    BY <1>1, <1>2, <1>3 DEF AnsweredInv

LEMMA EndPhaseAnswered == ASSUME Base, AnsweredInv, EndPhase PROVE AnsweredInv'
  <1>1. /\ job.pc = "looking" /\ job.phase # "destroy" /\ ~(job.row <= Len(rows))
        /\ UNCHANGED <<rows, setup, deployed>>
    BY DEF EndPhase, MoreRows
  <1>2. job \in Job /\ Len(rows) \in Nat /\ job.row \in 1..(Len(rows) + 1)
    BY DEF Base, TypeOK, PlaceInv
  <1>3. Far = Len(rows)
    BY <1>1, <1>2 DEF Far
  <1>4. CASE job.phase = "setup" /\ job.kind = "both"
    <2>1. job' = [job EXCEPT !.phase = "deployment", !.pc = "listing", !.row = 1]
      BY <1>4 DEF EndPhase
    <2>2. job'.pc = "listing" /\ job'.phase = "deployment" /\ job'.kind = "both"
      BY <1>2, <1>4, <2>1 DEF Job
    <2>3. Far' = 0
      BY <2>2 DEF Far
    <2> HIDE DEF Far
    <2>4. Answered(setup, Len(rows)) /\ Answered(deployed, 0)
      BY <1>3, <1>4 DEF AnsweredInv
    <2> QED
      BY <1>1, <2>2, <2>3, <2>4 DEF AnsweredInv
  <1>5. CASE ~(job.phase = "setup" /\ job.kind = "both")
    <2> DEFINE pc == IF job.phase = "setup" \/ job.cancelled \/ deployed = <<>> THEN "merging" ELSE "workshops"
    <2>1. job' = [job EXCEPT !.pc = pc]
      BY <1>5 DEF EndPhase
    <2>2. job'.pc = pc /\ job'.phase = job.phase /\ job'.kind = job.kind
      BY <1>2, <2>1 DEF Job
    <2>3. Far' = Len(rows)
      BY <1>1, <2>2 DEF Far
    <2> QED
      BY <1>1, <1>3, <2>2, <2>3, StillAnswered
  <1> QED
    BY <1>4, <1>5

LEMMA SoundcheckAnswered == ASSUME Base, AnsweredInv, Soundcheck PROVE AnsweredInv'
  <1>1. job.pc \in {"workshops", "create", "run", "poll", "status"} /\ rows' = rows /\ setup' = setup
    BY SoundcheckIs DEF Base
  <1>2. job'.phase = job.phase /\ job'.kind = job.kind /\ job'.pc \in {"create", "run", "poll", "status", "merging"}
    BY SoundcheckIs DEF Base, TypeOK, Job
  <1>3. Far = Far'
    BY <1>1, <1>2 DEF Far
  <1>4. DOMAIN deployed' = DOMAIN deployed /\ \A j \in DOMAIN deployed : deployed'[j].row = deployed[j].row
    <2>1. CASE deployed' = deployed
      BY <2>1
    <2>2. CASE CheckStatus
      <3>1. \A j \in DOMAIN deployed : deployed[j] \in Result
        BY DEF Base, TypeOK
      <3> QED
        BY <2>2, <3>1, StatusIs DEF Base, Result
    <2> QED
      BY <2>1, <2>2, SoundcheckIs DEF Base
  <1> QED
    BY <1>1, <1>2, <1>3, <1>4, StillAnswered

\* The others leave the results of the two checks alone.
Quiet == List \/ Listed \/ LookMulti \/ LookWorkshop \/ Merge \/ (\E n \in 1..3 : LookFor(n)) \/ JudgeRow
         \/ EndDestroy \/ Move \/ Probe \/ Cancel

LEMMA QuietAnswered == ASSUME Base, AnsweredInv, Quiet PROVE AnsweredInv'
  <1>1. rows' = rows /\ setup' = setup /\ deployed' = deployed
    BY DEF Quiet, List, Listed, LookMulti, LookWorkshop, Merge, LookFor, JudgeRow, EndDestroy, Move, Probe, Cancel
  <1>2. job \in Job /\ job.row \in Nat /\ Len(rows) \in Nat
    BY DEF Base, TypeOK, Job
  <1>3. job'.phase = job.phase /\ job'.kind = job.kind /\ (Far' = Far \/ job.phase = "destroy")
    <2>1. CASE List
      <3>1. job.pc = "listing" /\ job'.pc = "listing" /\ job'.phase = job.phase /\ job'.kind = job.kind
        BY <1>2, <2>1 DEF List, Job
      <3> QED
        BY <3>1 DEF Far
    <2>2. CASE Listed
      <3>1. /\ job.pc = "listing" /\ job'.pc = "looking" /\ job'.row = 1
            /\ job'.phase = job.phase /\ job'.kind = job.kind
        BY <1>2, <2>2 DEF Listed, Job
      <3> QED
        BY <3>1 DEF Far
    <2>3. CASE LookMulti
      <3>1. /\ job.pc = "looking" /\ job'.pc \in {"looking", "readying"} /\ job'.row = job.row
            /\ job'.phase = job.phase /\ job'.kind = job.kind
        BY <1>2, <2>3, LookMultiIs DEF Job, Base
      <3> QED
        BY <3>1 DEF Far
    <2>4. CASE LookWorkshop
      <3>1. /\ job.pc = "looking" /\ job'.pc \in {"looking", "readying"} /\ job'.row = job.row
            /\ job'.phase = job.phase /\ job'.kind = job.kind
        BY <1>2, <2>4, LookWorkshopIs DEF Job, Base
      <3> QED
        BY <3>1 DEF Far
    <2>5. CASE Merge
      <3>1. /\ job.pc = "merging" /\ job'.pc = "done" /\ job'.phase = job.phase /\ job'.kind = job.kind
        BY <1>2, <2>5 DEF Merge, Job
      <3> QED
        BY <1>1, <3>1 DEF Far
    <2>6. ASSUME NEW n \in 1..3, LookFor(n) PROVE job'.phase = job.phase /\ job'.kind = job.kind /\ job.phase = "destroy"
      BY <1>2, <2>6 DEF LookFor, Job
    <2>7. CASE JudgeRow
      BY <2>7, JudgeRowIs DEF JudgeRow
    <2>8. CASE EndDestroy
      BY <1>2, <2>8 DEF EndDestroy, Job
    <2>9. CASE Move \/ Probe
      BY <1>1, <2>9 DEF Move, Probe, Far
    <2>10. CASE Cancel
      <3>1. job'.pc = job.pc /\ job'.row = job.row /\ job'.phase = job.phase /\ job'.kind = job.kind
        BY <1>2, <2>10 DEF Cancel, Job
      <3> QED
        BY <1>1, <3>1 DEF Far
    <2> QED
      BY <2>1, <2>2, <2>3, <2>4, <2>5, <2>6, <2>7, <2>8, <2>9, <2>10 DEF Quiet
  <1> QED
    BY <1>1, <1>3, StillAnswered

-----------------------------------------------------------------------------
(* What is remembered, and what was searched for. *)

LEMMA Steps == ASSUME Next PROVE Reports \/ EndPhase \/ Soundcheck \/ Quiet
  BY DEF Next, Check, Reports, Soundcheck, Quiet

\* What a step leaves as it is, and what can only grow.
LEMMA Grows ==
    ASSUME Base, PastInv, ClaimsInv, WorkshopsInv, Next
    PROVE  /\ rows' = rows /\ job.pc # "done"
           /\ past.been \subseteq past'.been /\ past.gone \subseteq past'.gone /\ past.up \subseteq past'.up
           /\ faults' = 0 => faults = 0
           /\ Move \/ (past' = past /\ cluster' = cluster)
  <1>1. CASE Reports
    BY <1>1, RowReports DEF Base
  <1>2. CASE EndPhase
    BY <1>2 DEF EndPhase
  <1>3. CASE Soundcheck
    BY <1>3, SoundcheckIs DEF Base
  <1>4. CASE Quiet
    <2>1. CASE List
      BY <2>1, ListBase DEF List
    <2>2. CASE Listed
      BY <2>2 DEF Listed
    <2>3. CASE LookMulti \/ LookWorkshop
      BY <2>3, LookBase DEF LookMulti, LookWorkshop, Looking
    <2>4. CASE Merge
      BY <2>4 DEF Merge
    <2>5. ASSUME NEW n \in 1..3, LookFor(n)
          PROVE  /\ rows' = rows /\ job.pc # "done" /\ past' = past /\ cluster' = cluster
                 /\ faults' = 0 => faults = 0
      BY <2>5, LookForBase DEF LookFor
    <2>6. CASE JudgeRow
      BY <2>6 DEF JudgeRow
    <2>7. CASE EndDestroy
      BY <2>7 DEF EndDestroy
    <2>8. CASE Move
      <3>1. job.pc # "done"
        BY <2>8 DEF Move
      <3>2. \E o \in Objects, s \in State \cup {None} :
               past' = [been |-> past.been \cup {x \in {o} : s # None},
                        gone |-> past.gone \cup {x \in {o} : s = None},
                        up |-> past.up \cup {x \in {o} : s # None /\ s.health = "up"}]
        BY <2>8, MoveIs DEF Base
      <3>3. rows' = rows /\ faults' = faults
        BY <2>8, MoveIs DEF Base
      <3>4. past.been \subseteq past'.been /\ past.gone \subseteq past'.gone /\ past.up \subseteq past'.up
        BY <3>2
      <3> QED
        BY <2>8, <3>1, <3>3, <3>4
    <2>9. CASE Probe
      BY <2>9 DEF Probe
    <2>10. CASE Cancel
      BY <2>10 DEF Cancel
    <2> QED
      BY <1>4, <2>1, <2>2, <2>3, <2>4, <2>5, <2>6, <2>7, <2>8, <2>9, <2>10 DEF Quiet
  <1> QED
    BY <1>1, <1>2, <1>3, <1>4, Steps

\* Where the check is after a step that is not one of a row's reports.
LEMMA PlaceIs ==
    ASSUME Base, EndPhase \/ Soundcheck \/ Quiet
    PROVE  /\ job'.kind = job.kind
           /\ job'.pc = "readying" =>
                \/ job.pc = "readying" /\ job'.subject = job.subject
                \/ job'.subject \in Objects /\ There(job'.subject)
           /\ List \/ listed' = listed \/ (EndPhase /\ \A o \in Objects : listed'[o] = None)
           /\ job'.pc = "done" => Merge \/ job.kind = "destroy" \/ job.pc = "done"
           /\ JudgeRow \/ Merge \/ results' = results
  <1>1. job \in Job /\ None \notin State
    BY NoneAssumption DEF Base, TypeOK
  <1>2. CASE EndPhase
    <2>1. job'.pc \in {"listing", "merging", "workshops"} /\ job'.kind = job.kind
      BY <1>1, <1>2 DEF EndPhase, Job
    <2>2. results' = results /\ \A o \in Objects : listed'[o] = None
      BY <1>2 DEF EndPhase
    <2> QED
      BY <1>2, <2>1, <2>2
  <1>3. CASE Soundcheck
    <2>1. job'.pc \in {"create", "run", "poll", "status", "merging"} /\ job'.kind = job.kind
      BY <1>1, <1>3, SoundcheckIs DEF Base, Job
    <2> QED
      BY <1>3, <2>1, SoundcheckIs DEF Base
  <1>4. CASE List
    <2>1. job'.pc = "listing" /\ job'.kind = job.kind
      BY <1>1, <1>4 DEF List, Job
    <2> QED
      BY <1>4, <2>1 DEF List
  <1>5. CASE Listed
    <2>1. job'.pc = "looking" /\ job'.kind = job.kind
      BY <1>1, <1>5 DEF Listed, Job
    <2> QED
      BY <1>5, <2>1 DEF Listed
  <1>6. CASE LookMulti \/ LookWorkshop
    <2>1. /\ Still /\ job.pc = "looking"
          /\ \/ \E t \in {"multi", "workshop"} : job' = [job EXCEPT !.tried = t]
             \/ \E o \in Objects :
                   cluster[o] \in State /\ job' = [job EXCEPT !.pc = "readying", !.subject = o, !.seen = cluster[o]]
      <3>1. CASE LookMulti
        BY <3>1, LookMultiIs DEF Base
      <3>2. CASE LookWorkshop
        BY <3>2, LookWorkshopIs DEF Base
      <3> QED
        BY <1>6, <3>1, <3>2
    <2>2. CASE \E t \in {"multi", "workshop"} : job' = [job EXCEPT !.tried = t]
      <3>1. job'.pc = "looking" /\ job'.kind = job.kind
        BY <1>1, <2>1, <2>2 DEF Job
      <3> QED
        BY <2>1, <3>1 DEF Still
    <2>3. ASSUME NEW o \in Objects, cluster[o] \in State,
                 job' = [job EXCEPT !.pc = "readying", !.subject = o, !.seen = cluster[o]]
          PROVE  job'.pc = "readying" /\ job'.kind = job.kind /\ job'.subject = o /\ There(o)
      BY <1>1, <2>3 DEF Job, There
    <2> QED
      BY <2>1, <2>2, <2>3 DEF Still
  <1>7. CASE Merge
    BY <1>1, <1>7 DEF Merge, Job
  <1>8. ASSUME NEW n \in 1..3, LookFor(n)
        PROVE  job'.pc = "looking" /\ job'.kind = job.kind /\ listed' = listed /\ results' = results
    BY <1>1, <1>8 DEF LookFor, Job
  <1>9. CASE JudgeRow
    <2>1. listed' = listed
      BY <1>9 DEF JudgeRow
    <2> QED
      BY <1>9, <2>1, JudgeRowIs
  <1>10. CASE EndDestroy
    <2>1. job.kind = "destroy" /\ job'.pc = "done" /\ job'.kind = job.kind
      BY <1>1, <1>10 DEF EndDestroy, Job, Base, PlaceInv
    <2> QED
      BY <1>10, <2>1 DEF EndDestroy
  <1>11. CASE Move \/ Probe
    BY <1>11 DEF Move, Probe
  <1>12. CASE Cancel
    <2>1. job'.pc = job.pc /\ job'.kind = job.kind /\ job'.subject = job.subject
      BY <1>1, <1>12 DEF Cancel, Job
    <2> QED
      BY <1>12, <2>1 DEF Cancel
  <1> QED
    BY <1>2, <1>3, <1>4, <1>5, <1>6, <1>7, <1>8, <1>9, <1>10, <1>11, <1>12 DEF Quiet

LEMMA PastNext ==
    ASSUME Base, PastInv, ClaimsInv, WorkshopsInv, Next
    PROVE  PastInv'
  <1>1. /\ cluster \in [Objects -> State \cup {None}] /\ None \notin State
        /\ past.been \subseteq past'.been /\ past.gone \subseteq past'.gone /\ past.up \subseteq past'.up
    BY Grows, NoneAssumption DEF Base, TypeOK
  <1>2. \A o \in Objects : /\ (IF cluster'[o] # None THEN o \in past'.been ELSE o \in past'.gone)
                           /\ (cluster'[o] # None /\ cluster'[o].health = "up" => o \in past'.up)
    <2>1. CASE Move
      <3>1. PICK p \in Objects, s \in State \cup {None} :
                /\ cluster' = [cluster EXCEPT ![p] = s]
                /\ past' = [been |-> past.been \cup {x \in {p} : s # None},
                            gone |-> past.gone \cup {x \in {p} : s = None},
                            up |-> past.up \cup {x \in {p} : s # None /\ s.health = "up"}]
        BY <2>1, MoveIs DEF Base
      <3> SUFFICES ASSUME NEW o \in Objects
                   PROVE  /\ (IF cluster'[o] # None THEN o \in past'.been ELSE o \in past'.gone)
                          /\ (cluster'[o] # None /\ cluster'[o].health = "up" => o \in past'.up)
        OBVIOUS
      <3>2. CASE o = p
        BY <1>1, <3>1, <3>2
      <3>3. CASE o # p
        <4>1. cluster'[o] = cluster[o]
          BY <1>1, <3>1, <3>3
        <4> QED
          BY <1>1, <4>1 DEF PastInv, There
      <3> QED
        BY <3>2, <3>3
    <2>2. CASE past' = past /\ cluster' = cluster
      BY <2>2 DEF PastInv, There
    <2> QED
      BY <2>1, <2>2, Grows
  <1>3. \A o \in Objects : listed'[o] # None => o \in past'.been /\ (listed'[o].health = "up" => o \in past'.up)
    <2>1. CASE List
      <3>1. \A o \in Objects : listed'[o] = listed[o] \/ listed'[o] = cluster[o]
        BY <2>1 DEF List, ListedWith, Base, TypeOK
      <3> QED
        BY <1>1, <3>1 DEF PastInv, There
    <2>2. CASE listed' = listed
      BY <1>1, <2>2 DEF PastInv
    <2>3. CASE \A o \in Objects : listed'[o] = None
      BY <2>3
    <2>4. Reports => listed' = listed
      BY RowReports DEF Base
    <2> QED
      BY <2>1, <2>2, <2>3, <2>4, PlaceIs, Steps
  <1>4. job'.pc = "readying" => job'.subject \in past'.been
    <2>1. CASE Reports
      <3>1. job'.pc = "looking"
        BY <2>1, RowReports, NextRowIs DEF Base
      <3> QED
        BY <3>1
    <2>2. CASE EndPhase \/ Soundcheck \/ Quiet
      BY <1>1, <2>2, PlaceIs DEF PastInv
    <2> QED
      BY <2>1, <2>2, Steps
  <1> QED
    BY <1>2, <1>3, <1>4 DEF PastInv, There

\* Where the row is that is searched for.
LEMMA ClaimsNext ==
    ASSUME Base, PastInv, ClaimsInv, WorkshopsInv, Next
    PROVE  ClaimsInv'
  <1>1. /\ rows' = rows /\ past.gone \subseteq past'.gone /\ (faults' = 0 => faults = 0)
        /\ job \in Job /\ job.row \in Nat /\ Len(rows) \in Nat /\ DOMAIN rows = 1..Len(rows)
    BY Grows DEF Base, TypeOK, Job
  <1>2. SUFFICES ASSUME faults' = 0, job'.phase # "destroy", NEW i \in DOMAIN rows, NEW o \in Objects, Searched(i)',
                        Kind[o] = "claim", Item[o] = rows[i].item
                 PROVE  listed'[o] # None \/ o \in past'.gone
    BY <1>1 DEF ClaimsInv
  <1>3. ASSUME job.phase # "destroy", Searched(i), listed' = listed PROVE listed'[o] # None \/ o \in past'.gone
    BY <1>1, <1>2, <1>3 DEF ClaimsInv
  <1>4. CASE Reports
    <2>1. job.phase # "destroy" /\ job.pc \in {"looking", "readying"} /\ listed' = listed
      BY <1>4, RowReports DEF Base
    <2> QED
      BY <1>3, <2>1 DEF Searched
  <1>5. CASE EndPhase
    <2>1. job'.pc \in {"merging", "workshops"} \/ (job'.pc = "listing" /\ job'.row = 1)
      BY <1>1, <1>5 DEF EndPhase, Job
    <2>2. ~Searched(i)'
      BY <1>1, <2>1 DEF Searched
    <2> QED
      BY <1>2, <2>2
  <1>6. CASE Soundcheck
    <2>1. job'.pc \in {"create", "run", "poll", "status", "merging"}
      BY <1>1, <1>6, SoundcheckIs DEF Base, Job
    <2> QED
      BY <1>2, <2>1 DEF Searched
  <1>7. CASE List
    <2>1. job.pc = "listing" /\ job'.pc = "listing" /\ job'.row = job.row + 1 /\ job'.phase = job.phase
      BY <1>1, <1>7 DEF List, Job
    <2>2. i < job.row + 1
      BY <1>1, <1>2, <2>1 DEF Searched
    <2>3. PICK ok1, ok2 \in Calls :
              /\ listed' = ListedWith(IF ok1 THEN {x \in Labelled : There(x)} ELSE {},
                                     IF ok2 THEN Of("claim", Row.item) ELSE {})
              /\ faults' = faults + (IF ok1 THEN 0 ELSE 1) + (IF ok2 THEN 0 ELSE 1)
      BY <1>7 DEF List
    <2>4. CASE i < job.row
      <3>1. listed[o] # None \/ o \in past.gone
        BY <1>1, <1>2, <2>1, <2>4 DEF ClaimsInv, Searched
      <3>2. listed[o] # None => listed'[o] = listed[o]
        BY <2>3 DEF ListedWith
      <3> QED
        BY <1>1, <3>1, <3>2
    <2>5. CASE i = job.row
      <3>1. ok2
        BY <1>2, <2>3 DEF Base, TypeOK
      <3>2. CASE There(o)
        <4>1. o \in Of("claim", Row.item)
          BY <1>2, <2>5, <3>2 DEF Of, Row
        <4>2. listed'[o] = listed[o] \/ listed'[o] = cluster[o]
          BY <2>3 DEF ListedWith
        <4>3. listed[o] # None \/ listed'[o] = cluster[o]
          BY <2>3, <3>1, <4>1 DEF ListedWith
        <4>4. listed[o] # None => listed'[o] = listed[o]
          BY <2>3 DEF ListedWith
        <4> QED
          BY <3>2, <4>3, <4>4 DEF There
      <3>3. CASE ~There(o)
        BY <1>1, <3>3 DEF PastInv
      <3> QED
        BY <3>2, <3>3
    <2> QED
      BY <1>1, <2>2, <2>4, <2>5
  <1>8. CASE Listed
    <2>1. job.pc = "listing" /\ ~(job.row <= Len(rows)) /\ job'.phase = job.phase /\ listed' = listed
      BY <1>1, <1>8 DEF Listed, MoreRows, Job
    <2>2. Searched(i)
      BY <1>1, <2>1 DEF Searched
    <2> QED
      BY <1>2, <1>3, <2>1, <2>2
  <1>9. CASE LookMulti \/ LookWorkshop
    <2>1. job.phase # "destroy" /\ job.pc = "looking" /\ listed' = listed
      BY <1>9 DEF LookMulti, LookWorkshop, Looking
    <2> QED
      BY <1>3, <2>1 DEF Searched
  <1>10. CASE Merge
    <2>1. job'.pc = "done"
      BY <1>1, <1>10 DEF Merge, Job
    <2> QED
      BY <1>2, <2>1 DEF Searched
  <1>11. ASSUME NEW n \in 1..3, LookFor(n) PROVE job'.phase = "destroy"
    BY <1>1, <1>11 DEF LookFor, Job
  <1>12. CASE JudgeRow
    <2>1. job'.phase = "destroy"
      BY <1>12, JudgeRowIs DEF JudgeRow
    <2> QED
      BY <1>2, <2>1
  <1>13. CASE EndDestroy
    <2>1. job'.phase = "destroy"
      BY <1>1, <1>13 DEF EndDestroy, Job
    <2> QED
      BY <1>2, <2>1
  <1>14. CASE Move \/ Probe
    <2>1. job' = job /\ listed' = listed
      BY <1>14 DEF Move, Probe
    <2> QED
      BY <1>2, <1>3, <2>1 DEF Searched
  <1>15. CASE Cancel
    <2>1. job'.phase = job.phase /\ job'.pc = job.pc /\ job'.row = job.row /\ listed' = listed
      BY <1>1, <1>15 DEF Cancel, Job
    <2> QED
      BY <1>2, <1>3, <2>1 DEF Searched
  <1> QED
    BY <1>2, <1>4, <1>5, <1>6, <1>7, <1>8, <1>9, <1>10, <1>11, <1>12, <1>13, <1>14, <1>15, Steps DEF Quiet

LEMMA WorkshopsNext ==
    ASSUME Base, PastInv, ClaimsInv, WorkshopsInv, Next
    PROVE  WorkshopsInv'
  <1>1. /\ rows' = rows /\ past.gone \subseteq past'.gone /\ (faults' = 0 => faults = 0)
        /\ job \in Job /\ job.row \in 1..(Len(rows) + 1) /\ Len(rows) \in Nat
    BY Grows DEF Base, TypeOK, PlaceInv
  <1>2. ASSUME job'.tried = job.tried, job'.row = job.row, job'.pc = "listing" => job.pc = "listing"
        PROVE  WorkshopsInv'
    BY <1>1, <1>2 DEF WorkshopsInv, Row
  <1>3. ASSUME job'.tried = "nothing" PROVE WorkshopsInv'
    BY <1>3 DEF WorkshopsInv
  <1>4. CASE Reports
    <2>1. job'.tried = "nothing"
      BY <1>4, RowReports, NextRowIs DEF Base
    <2> QED
      BY <1>3, <2>1
  <1>5. CASE EndPhase
    <2>1. job'.tried = job.tried
      BY <1>1, <1>5 DEF EndPhase, Job
    <2>2. job.tried = "nothing"
      BY <1>1, <1>5 DEF EndPhase, MoreRows, WorkshopsInv
    <2> QED
      BY <1>3, <2>1, <2>2
  <1>6. CASE Soundcheck
    <2>1. job'.pc # "listing" /\ job'.tried = job.tried /\ job'.row = job.row
      BY <1>1, <1>6, SoundcheckIs DEF Base, Job
    <2> QED
      BY <1>2, <2>1
  <1>7. CASE List \/ Listed
    <2>1. job'.tried = job.tried /\ job.pc = "listing"
      BY <1>1, <1>7 DEF List, Listed, Job
    <2> QED
      BY <1>3, <2>1 DEF WorkshopsInv
  <1>8. CASE LookMulti
    <2>1. job.row <= Len(rows) /\ job.tried = "nothing"
      BY <1>8, LookMultiIs DEF Base
    <2>2. job'.row = job.row /\ job'.pc # "listing" /\ job'.tried \in {"nothing", "multi"}
      BY <1>1, <1>8, <2>1, LookMultiIs DEF Base, Job
    <2> QED
      BY <1>1, <2>1, <2>2 DEF WorkshopsInv
  <1>9. CASE LookWorkshop
    <2>1. /\ Still /\ job.pc = "looking" /\ job.row <= Len(rows)
          /\ \/ /\ job' = [job EXCEPT !.tried = "workshop"]
                /\ faults' = 0 => Of("workshop", Row.item) = {}
             \/ \E o \in Objects : job' = [job EXCEPT !.pc = "readying", !.subject = o, !.seen = cluster[o]]
      BY <1>9, LookWorkshopIs DEF Base
    <2>2. CASE \E o \in Objects : job' = [job EXCEPT !.pc = "readying", !.subject = o, !.seen = cluster[o]]
      <3>1. job'.tried = job.tried /\ job'.row = job.row /\ job'.pc # "listing"
        BY <1>1, <2>2 DEF Job
      <3> QED
        BY <1>2, <3>1
    <2>3. CASE job' = [job EXCEPT !.tried = "workshop"] /\ (faults' = 0 => Of("workshop", Row.item) = {})
      <3>1. job'.row = job.row /\ job'.pc = "looking"
        BY <1>1, <2>1, <2>3 DEF Job
      <3>2. Row' = Row
        BY <1>1, <3>1 DEF Row
      <3>3. faults' = 0 => \A o \in Objects : Kind[o] = "workshop" /\ Item[o] = Row.item => o \in past.gone
        BY <2>3 DEF Of, PastInv
      <3>4. faults' = 0 => \A o \in Objects : Kind[o] = "workshop" /\ Item[o] = Row'.item => o \in past'.gone
        BY <1>1, <3>2, <3>3
      <3>5. ~(job'.pc = "listing" \/ job'.row > Len(rows'))
        <4>1. job.row <= Len(rows)
          BY <2>1
        <4>3. job.row \in Int /\ Len(rows) \in Int
          BY <1>1
        <4>2. Len(rows') = Len(rows)
          BY <1>1
        <4> QED
          BY <3>1, <4>1, <4>2, <4>3
      <3> QED
        BY <3>4, <3>5 DEF WorkshopsInv
    <2> QED
      BY <2>1, <2>2, <2>3
  <1>10. CASE Merge \/ EndDestroy \/ Cancel
    <2>1. job'.tried = job.tried /\ job'.row = job.row /\ (job'.pc = "done" \/ job'.pc = job.pc)
      BY <1>1, <1>10 DEF Merge, EndDestroy, Cancel, Job
    <2> QED
      BY <1>2, <2>1
  <1>11. ASSUME NEW n \in 1..3, LookFor(n) PROVE job'.tried = job.tried /\ job'.row = job.row /\ job'.pc = job.pc
    BY <1>1, <1>11 DEF LookFor, Job
  <1>12. CASE JudgeRow
    BY <1>3, <1>12, JudgeRowIs
  <1>13. CASE Move \/ Probe
    BY <1>2, <1>13 DEF Move, Probe
  <1> QED
    BY <1>2, <1>4, <1>5, <1>6, <1>7, <1>8, <1>9, <1>10, <1>11, <1>12, <1>13, Steps DEF Quiet

-----------------------------------------------------------------------------
(* What is said is true, and stays so. *)

LEMMA TrueStays ==
    ASSUME Base, PastInv, ClaimsInv, WorkshopsInv, Next, NEW r, IsTrue(r)
    PROVE  IsTrue(r)'
  <1>1. /\ rows' = rows /\ (faults' = 0 => faults = 0)
        /\ past.been \subseteq past'.been /\ past.gone \subseteq past'.gone /\ past.up \subseteq past'.up
    BY Grows
  <1>2. ItemOf(r)' = ItemOf(r)
    BY <1>1 DEF ItemOf
  <1>3. WasThere(r) => WasThere(r)'
    BY <1>1, <1>2 DEF WasThere
  <1>4. WasGone(r.row) => WasGone(r.row)'
    BY <1>1 DEF WasGone
  <1>5. WasUp(r) => WasUp(r)'
    BY <1>1, <1>2 DEF WasUp
  <1> QED
    BY <1>1, <1>3, <1>4, <1>5 DEF IsTrue

\* Whether a result matches and what it shows of the showroom is no part of it.
LEMMA TrueOfAnother ==
    ASSUME NEW r \in Result, NEW q \in Result, IsTrue(r), q.row = r.row, q.there = r.there, q.health = r.health,
           q.about = r.about
    PROVE  IsTrue(q)
  BY DEF IsTrue, WasThere, WasUp, ItemOf

LEMMA TrueNext ==
    ASSUME Base, PastInv, ClaimsInv, WorkshopsInv, TrueInv, Next
    PROVE  TrueInv'
  <1>1. setup \in Seq(Result) /\ deployed \in Seq(Result)
    BY DEF Base, TypeOK
  <1>2. \A r : IsTrue(r) => IsTrue(r)'
    BY TrueStays
  <1>3. /\ \A r \in Range(setup) : r \in Result /\ IsTrue(r) /\ r.showroom = "none"
        /\ \A r \in Range(deployed) : r \in Result /\ IsTrue(r) /\ r.match = "none"
    BY <1>1 DEF TrueInv, Range
  <1>4. /\ \A r \in Range(setup') : IsTrue(r)' /\ r.showroom = "none"
        /\ \A r \in Range(deployed') : IsTrue(r)' /\ r.match = "none"
    <2>1. CASE Reports
      <3>1. PICK rs \in Seq(Result) : Report(rs) /\ \A k \in DOMAIN rs : NewResult(rs[k])
        BY <2>1, RowReports DEF Base
      <3>2. /\ setup' = IF job.phase = "setup" THEN setup \o rs ELSE setup
            /\ deployed' = IF job.phase = "deployment" THEN deployed \o rs ELSE deployed
        BY <3>1, ReportIs
      <3>3. \A r \in Range(rs) : IsTrue(r) /\ r.showroom = "none" /\ (job.phase # "setup" => r.match = "none")
        BY <3>1 DEF NewResult, Range
      <3>4. Range(setup \o rs) \subseteq Range(setup) \cup Range(rs)
            /\ Range(deployed \o rs) \subseteq Range(deployed) \cup Range(rs)
        <4>1. ASSUME NEW s \in Seq(Result) PROVE Range(s \o rs) \subseteq Range(s) \cup Range(rs)
          <5>1. \A j \in DOMAIN (s \o rs) : (s \o rs)[j] \in Range(s) \cup Range(rs)
            BY Joined
          <5> QED
            BY <5>1 DEF Range
        <4> QED
          BY <1>1, <4>1
      <3> QED
        BY <1>2, <1>3, <3>2, <3>3, <3>4
    <2>2. CASE CheckStatus
      <3>1. setup' = setup
        BY <2>2 DEF CheckStatus
      <3>2. ASSUME NEW r \in Range(deployed') PROVE IsTrue(r)' /\ r.match = "none"
        <4>1. PICK j \in DOMAIN deployed : r = deployed'[j]
          BY <2>2, StatusIs DEF Range, Base
        <4>2. PICK shown \in {"none", "healthy", "unhealthy", "pending", "other", "unreachable"} :
                  r = [deployed[j] EXCEPT !.showroom = shown]
          BY <2>2, <4>1, StatusIs DEF Base
        <4>3. deployed[j] \in Result /\ IsTrue(deployed[j]) /\ deployed[j].match = "none"
          BY <1>1 DEF TrueInv
        <4>4. /\ r \in Result /\ r.match = "none" /\ r.row = deployed[j].row /\ r.there = deployed[j].there
              /\ r.health = deployed[j].health /\ r.about = deployed[j].about
          BY <4>2, <4>3 DEF Result
        <4>5. PICK q \in Result : q = deployed[j]
          BY <4>3
        <4>6. IsTrue(r)
          BY <4>3, <4>4, <4>5, TrueOfAnother
        <4> QED
          BY <1>2, <4>4, <4>6
      <3> QED
        BY <1>2, <1>3, <3>1, <3>2
    <2>3. CASE setup' = setup /\ deployed' = deployed
      BY <1>2, <1>3, <2>3
    <2>4. (EndPhase \/ Quiet) => setup' = setup /\ deployed' = deployed
      BY DEF EndPhase, Quiet, List, Listed, LookMulti, LookWorkshop, Merge, LookFor, JudgeRow, EndDestroy, Move,
             Probe, Cancel
    <2>5. Soundcheck => setup' = setup /\ (CheckStatus \/ deployed' = deployed)
      BY SoundcheckIs DEF Base
    <2> QED
      BY <2>1, <2>2, <2>3, <2>4, <2>5, Steps
  <1>5. \A j \in DOMAIN setup' : setup'[j] \in Range(setup')
    BY DEF Range
  <1>6. \A j \in DOMAIN deployed' : deployed'[j] \in Range(deployed')
    BY DEF Range
  <1> QED
    BY <1>4, <1>5, <1>6 DEF TrueInv, IsTrue, WasThere, WasUp, WasGone, ItemOf

-----------------------------------------------------------------------------
(* What is returned. *)

LEMMA ResultsNext ==
    ASSUME Base, ResultsInv, PastInv, ClaimsInv, WorkshopsInv, Next
    PROVE  ResultsInv'
  <1>1. job.pc # "done" /\ rows' = rows /\ job \in Job
    BY Grows DEF Base, TypeOK
  <1>2. job.kind # "destroy" => results = <<>>
    BY <1>1 DEF ResultsInv
  <1>3. CASE Reports
    <2>1. job'.kind = job.kind /\ job'.pc = "looking" /\ results' = results
      BY <1>3, RowReports, NextRowIs DEF Base
    <2> QED
      BY <1>2, <2>1 DEF ResultsInv
  <1>4. CASE Merge
    <2>1. job'.pc = "done" /\ job'.kind = job.kind /\ setup' = setup /\ deployed' = deployed
      BY <1>1, <1>4 DEF Merge, Job
    <2>2. results' = IF job.kind = "2" THEN [i \in DOMAIN rows |-> Dedup(setup, i)]
                     ELSE IF job.kind = "3" THEN deployed
                     ELSE [i \in DOMAIN rows |-> Merged(i)]
      BY <1>4 DEF Merge
    <2> QED
      BY <1>1, <2>1, <2>2 DEF ResultsInv, Merged, Dedup, Own
  <1>5. CASE JudgeRow
    <2>1. job.kind = "destroy" /\ job'.kind = job.kind
      BY <1>5, JudgeRowIs DEF JudgeRow, Base, PlaceInv
    <2> QED
      BY <2>1 DEF ResultsInv
  <1>6. CASE (EndPhase \/ Soundcheck \/ Quiet) /\ ~Merge /\ ~JudgeRow
    <2>1. results' = results /\ job'.kind = job.kind /\ (job'.pc = "done" => job.kind = "destroy")
      BY <1>1, <1>6, PlaceIs
    <2> QED
      BY <1>2, <2>1 DEF ResultsInv
  <1> QED
    BY <1>3, <1>4, <1>5, <1>6, Steps

-----------------------------------------------------------------------------
(* Soundcheck. *)

\* A step that leaves the session alone.
LEMMA SoundStays ==
    ASSUME Base, SoundInv, rows' = rows, sound' = sound, job'.kind = job.kind,
           \A w \in Objects : truth'[w] = truth[w] \/ (truth[w] = "running" /\ truth'[w] # "none"),
           job'.pc \in {"listing", "looking", "readying", "workshops"}
                => job.pc \in {"listing", "looking", "readying", "workshops"},
           job'.pc \in {"create", "run", "poll"} => job'.pc = job.pc,
           job'.pc \notin {"merging", "done"} => \A j \in DOMAIN deployed' : deployed'[j].showroom = "none"
    PROVE  SoundInv'
  <1>1. sound.taken \subseteq Objects
    BY DEF Base, TypeOK, Sound
  <1>2. \A w \in sound'.taken : truth[w] = "completed" => truth'[w] = "completed"
    BY <1>1
  <1>3. RowItems' = RowItems /\ NoSound' = NoSound
    BY DEF RowItems, NoSound
  <1> HIDE DEF RowItems, NoSound
  <1> QED
    BY <1>2, <1>3 DEF SoundInv

LEMMA SoundNext ==
    ASSUME Base, SoundInv, PastInv, ClaimsInv, WorkshopsInv, Next
    PROVE  SoundInv'
  <1>1. /\ job \in Job /\ rows' = rows /\ job.pc # "done" /\ sound \in Sound
        /\ setup \in Seq(Result) /\ deployed \in Seq(Result)
        /\ truth \in [Objects -> Statuses \cup {"none"}]
    BY Grows DEF Base, TypeOK
  <1>2. CASE Reports
    <2>1. /\ job.pc \in {"looking", "readying"} /\ sound' = sound /\ truth' = truth
          /\ job'.pc = "looking" /\ job'.kind = job.kind
      BY <1>2, RowReports, NextRowIs DEF Base
    <2>2. PICK rs \in Seq(Result) : Report(rs) /\ \A k \in DOMAIN rs : NewResult(rs[k])
      BY <1>2, RowReports DEF Base
    <2>3. \A j \in DOMAIN deployed' : deployed'[j].showroom = "none"
      <3>1. \A j \in DOMAIN deployed : deployed[j].showroom = "none"
        BY <2>1 DEF SoundInv
      <3>2. \A r \in Range(deployed) \cup Range(rs) : r.showroom = "none"
        BY <2>2, <3>1 DEF Range, NewResult
      <3>3. \A j \in DOMAIN (deployed \o rs) : (deployed \o rs)[j] \in Range(deployed) \cup Range(rs)
        BY <1>1, Joined
      <3>4. \A j \in DOMAIN (deployed \o rs) : (deployed \o rs)[j].showroom = "none"
        BY <3>2, <3>3
      <3>5. deployed' = deployed \o rs \/ deployed' = deployed
        BY <2>2, ReportIs
      <3> QED
        BY <3>1, <3>4, <3>5
    <2> QED
      BY <1>1, <2>1, <2>3, SoundStays
  <1>3. CASE EndPhase
    <2>1. /\ job.pc = "looking" /\ sound' = sound /\ truth' = truth /\ deployed' = deployed
          /\ job'.kind = job.kind /\ job'.pc \in {"listing", "workshops", "merging"}
      BY <1>1, <1>3 DEF EndPhase, Job
    <2>2. \A j \in DOMAIN deployed' : deployed'[j].showroom = "none"
      BY <2>1 DEF SoundInv
    <2> QED
      BY <1>1, <2>1, <2>2, SoundStays
  <1>4. CASE Soundcheck
    <2>1. job.kind # "2" /\ job'.kind = job.kind
      <3>1. job.kind # "2"
        BY <1>1, <1>4, SoundcheckIs DEF Base, PlaceInv, Job
      <3> QED
        BY <1>1, <1>4, <3>1, SoundcheckIs DEF Base, Job
    <2>2. CheckStatus \/ deployed' = deployed
      BY <1>4, SoundcheckIs DEF Base
    <2>3. RowItems' = RowItems
      BY <1>1 DEF RowItems
    <2>4. CASE CollectWorkshops
      <3>1. PICK ids : /\ sound' = [sound EXCEPT !.ids = ids]
                       /\ ids \subseteq {w \in Objects : Kind[w] = "workshop" /\ Item[w] \in RowItems}
                       /\ job' = [job EXCEPT !.pc = IF ids = {} THEN "merging" ELSE "create"]
        BY <2>4 DEF CollectWorkshops
      <3>2. sound = NoSound /\ deployed' = deployed /\ truth' = truth /\ job.pc = "workshops"
        BY <2>4 DEF CollectWorkshops, SoundInv
      <3>3. ~sound'.kicked /\ sound'.session = "unknown" /\ sound'.ids = ids
        BY <3>1, <3>2 DEF NoSound
      <3>4. job'.pc \in {"merging", "create"}
        BY <1>1, <3>1 DEF Job
      <3>5. \A j \in DOMAIN deployed' : deployed'[j].showroom = "none"
        BY <3>2 DEF SoundInv
      <3> HIDE DEF RowItems
      <3> QED
        BY <2>1, <2>3, <3>1, <3>3, <3>4, <3>5 DEF SoundInv
    <2>5. CASE CreateGroup
      <3>1. PICK ok \in BOOLEAN : /\ job' = [job EXCEPT !.pc = IF ok THEN "run" ELSE "status"]
                                  /\ sound' = [sound EXCEPT !.reached = ok]
        BY <2>5 DEF CreateGroup, Calls
      <3>2. deployed' = deployed /\ truth' = truth /\ job.pc = "create" /\ ~sound.kicked /\ sound.session = "unknown"
        BY <2>5 DEF CreateGroup, SoundInv
      <3>3. /\ ~sound'.kicked /\ sound'.session = "unknown" /\ sound'.ids = sound.ids /\ sound'.reached = ok
        BY <1>1, <3>1, <3>2 DEF Sound
      <3>4. job'.pc = IF ok THEN "run" ELSE "status"
        BY <1>1, <3>1 DEF Job
      <3>5. \A j \in DOMAIN deployed' : deployed'[j].showroom = "none"
        BY <3>2 DEF SoundInv
      <3> HIDE DEF RowItems
      <3> QED
        BY <2>1, <2>3, <3>3, <3>4, <3>5 DEF SoundInv
    <2>6. CASE RunGroup
      <3>1. PICK ok \in BOOLEAN, taken \in SUBSET Asked :
                /\ job' = [job EXCEPT !.pc = IF ok THEN "poll" ELSE "status"]
                /\ sound' = [sound EXCEPT !.kicked = ok, !.taken = taken]
        BY <2>6 DEF RunGroup, Calls
      <3>2. deployed' = deployed /\ job.pc = "run" /\ sound.reached /\ sound.session = "unknown"
        BY <2>6 DEF RunGroup, SoundInv
      <3>3. /\ sound'.kicked = ok /\ sound'.session = "unknown" /\ sound'.ids = sound.ids /\ sound'.reached
        BY <1>1, <3>1, <3>2 DEF Sound
      <3>5. job'.pc = IF ok THEN "poll" ELSE "status"
        BY <1>1, <3>1 DEF Job
      <3>6. \A j \in DOMAIN deployed' : deployed'[j].showroom = "none"
        BY <3>2 DEF SoundInv
      <3> HIDE DEF RowItems
      <3> QED
        BY <2>1, <2>3, <3>3, <3>5, <3>6 DEF SoundInv
    <2>7. CASE Poll
      <3>1. /\ sound' = sound \/ sound' = [sound EXCEPT !.session = Session, !.polls = sound.polls + 1]
            /\ job.pc = "poll" /\ truth' = truth /\ deployed' = deployed
        BY <2>7 DEF Poll
      <3>2. /\ sound'.kicked = sound.kicked /\ sound'.ids = sound.ids /\ sound'.reached = sound.reached
            /\ sound'.taken = sound.taken /\ (sound'.session = sound.session \/ sound'.session = Session)
        BY <1>1, <3>1 DEF Sound
      <3>3. sound.kicked
        BY <3>1 DEF SoundInv
      <3>4. job'.pc \in {"poll", "status"}
        BY <1>1, <2>7 DEF Poll, Job
      <3>5. Session = "completed" => \A w \in sound.taken : truth[w] = "completed"
        BY DEF Session
      <3>6. \A j \in DOMAIN deployed' : deployed'[j].showroom = "none"
        BY <3>1 DEF SoundInv
      <3> HIDE DEF RowItems
      <3> QED
        BY <2>1, <2>3, <3>1, <3>2, <3>3, <3>4, <3>5, <3>6 DEF SoundInv
    <2>8. CASE CheckStatus
      <3>1. PICK ok \in BOOLEAN, heard \in SUBSET Asked : sound' = [sound EXCEPT !.heard = heard, !.reached = @ \/ ok]
        BY <2>8 DEF CheckStatus, Calls
      <3>2. job.pc = "status" /\ truth' = truth /\ job'.pc = "merging"
        BY <1>1, <2>8 DEF CheckStatus, Job
      <3>3. /\ sound'.kicked = sound.kicked /\ sound'.ids = sound.ids /\ (sound.reached => sound'.reached)
            /\ sound'.session = sound.session /\ sound'.taken = sound.taken
        BY <1>1, <3>1 DEF Sound
      <3> HIDE DEF RowItems
      <3> QED
        BY <2>1, <2>3, <3>2, <3>3 DEF SoundInv
    <2> QED
      BY <1>4, <2>4, <2>5, <2>6, <2>7, <2>8 DEF Soundcheck
  <1>5. ASSUME deployed' = deployed, sound' = sound, job'.kind = job.kind,
               \A w \in Objects : truth'[w] = truth[w] \/ (truth[w] = "running" /\ truth'[w] # "none"),
               job'.pc = job.pc \/ job'.pc = "done"
                  \/ {job.pc, job'.pc} \subseteq {"listing", "looking", "readying"}
        PROVE  SoundInv'
    <2>1. job'.pc \notin {"merging", "done"} => \A j \in DOMAIN deployed' : deployed'[j].showroom = "none"
      BY <1>1, <1>5 DEF SoundInv
    <2>2. /\ job'.pc \in {"listing", "looking", "readying", "workshops"}
                => job.pc \in {"listing", "looking", "readying", "workshops"}
          /\ job'.pc \in {"create", "run", "poll"} => job'.pc = job.pc
      BY <1>5
    <2> QED
      BY <1>1, <1>5, <2>1, <2>2, SoundStays
  <1>6. CASE List \/ Listed
    <2>1. /\ deployed' = deployed /\ sound' = sound /\ truth' = truth /\ job'.kind = job.kind
          /\ job.pc = "listing" /\ job'.pc \in {"listing", "looking"}
      BY <1>1, <1>6 DEF List, Listed, Job
    <2> QED
      BY <1>5, <2>1
  <1>7. CASE LookMulti \/ LookWorkshop
    <2>1. Still /\ job.pc = "looking" /\ job'.kind = job.kind /\ job'.pc \in {"looking", "readying"}
      <3>1. CASE LookMulti
        BY <1>1, <3>1, LookMultiIs DEF Base, Job
      <3>2. CASE LookWorkshop
        BY <1>1, <3>2, LookWorkshopIs DEF Base, Job
      <3> QED
        BY <1>7, <3>1, <3>2
    <2> QED
      BY <1>5, <2>1 DEF Still
  <1>8. CASE Merge \/ EndDestroy
    <2>1. deployed' = deployed /\ sound' = sound /\ truth' = truth /\ job'.kind = job.kind /\ job'.pc = "done"
      BY <1>1, <1>8 DEF Merge, EndDestroy, Job
    <2> QED
      BY <1>5, <2>1
  <1>9. ASSUME NEW n \in 1..3, LookFor(n) PROVE SoundInv'
    <2>1. deployed' = deployed /\ sound' = sound /\ truth' = truth /\ job'.kind = job.kind /\ job'.pc = job.pc
      BY <1>1, <1>9 DEF LookFor, Job
    <2> QED
      BY <1>5, <2>1
  <1>10. CASE JudgeRow
    <2>1. deployed' = deployed /\ sound' = sound /\ truth' = truth /\ job'.kind = job.kind /\ job'.pc = job.pc
      BY <1>10, JudgeRowIs DEF JudgeRow
    <2> QED
      BY <1>5, <2>1
  <1>11. CASE Move \/ Cancel
    <2>1. deployed' = deployed /\ sound' = sound /\ truth' = truth /\ job'.kind = job.kind /\ job'.pc = job.pc
      BY <1>1, <1>11 DEF Move, Cancel, Job
    <2> QED
      BY <1>5, <2>1
  <1>12. CASE Probe
    <2>1. deployed' = deployed /\ sound' = sound /\ job' = job
      BY <1>12 DEF Probe
    <2>2. \A w \in Objects : truth'[w] = truth[w] \/ (truth[w] = "running" /\ truth'[w] # "none")
      BY <1>1, <1>12 DEF Probe
    <2> QED
      BY <1>5, <2>1, <2>2
  <1> QED
    BY <1>2, <1>3, <1>4, <1>6, <1>7, <1>8, <1>9, <1>10, <1>11, <1>12, Steps DEF Quiet

\* What is shown of an item is true of an answer.
TrueOfAnswer(item, heard, ok, shown) ==
    /\ ~(sound.reached \/ ok) /\ IdsOf(item) # {} => shown = "unreachable"
    /\ (\E w \in IdsOf(item) \cap heard : truth[w] = "failed") => shown = "unhealthy"
    /\ shown = "healthy" =>
          LET own == IdsOf(item) \cap heard
          IN  /\ \A w \in own : truth[w] \in {"completed", "other"}
              /\ (\A w \in own : truth[w] = "other")
                    => own = {} /\ sound.kicked /\ \A w \in sound.taken : truth[w] = "completed"

LEMMA ShownTrue ==
    ASSUME Base, SoundInv, NEW item, NEW heard \in SUBSET {w \in Asked : truth[w] # "none"}, NEW ok \in BOOLEAN,
           ok \/ heard = {},
           NEW shown, shown = Shown(item, heard, ok \/ sound.kicked)
    PROVE  TrueOfAnswer(item, heard, ok, shown)
  <1>1. \A w \in heard : truth[w] \in {"running", "completed", "failed", "other"}
    BY DEF Asked, Base, TypeOK, Sound, Statuses
  <1> DEFINE said == Said(item, heard)
  <1>2. \A w \in IdsOf(item) \cap heard : truth[w] \in said
    BY DEF Said
  <1>3. said # {} => IdsOf(item) # {} /\ ok
    BY DEF Said
  <1>4. IdsOf(item) \cap heard # {} => said # {}
    BY <1>2
  <1>5. \A x \in said : \E w \in IdsOf(item) \cap heard : truth[w] = x
    BY DEF Said
  <1>6. CASE said = {}
    <2>1. IdsOf(item) \cap heard = {}
      BY <1>4, <1>6
    <2>2. OfSession(item) = "healthy" => sound.session = "completed"
      BY DEF OfSession
    <2>3. shown = "healthy" => OfSession(item) = "healthy"
      BY <1>6 DEF Shown
    <2>4. ~(sound.reached \/ ok) /\ IdsOf(item) # {} => shown = "unreachable"
      BY DEF Shown, SoundInv
    <2> HIDE DEF said
    <2> QED
      BY <2>1, <2>2, <2>3, <2>4 DEF SoundInv, TrueOfAnswer
  <1>7. CASE said # {}
    <2>1. shown = IF "failed" \in said THEN "unhealthy"
                  ELSE IF "running" \in said THEN "pending"
                  ELSE IF "completed" \in said THEN "healthy" ELSE "other"
      BY <1>3, <1>7 DEF Shown
    <2>2. ok
      BY <1>3, <1>7
    <2> HIDE DEF said
    <2>3. shown = "healthy" => "completed" \in said /\ "failed" \notin said /\ "running" \notin said
      BY <2>1
    <2>4. (\E w \in IdsOf(item) \cap heard : truth[w] = "failed") => shown = "unhealthy"
      BY <1>2, <2>1
    <2>5. ASSUME shown = "healthy"
          PROVE  /\ \A w \in IdsOf(item) \cap heard : truth[w] \in {"completed", "other"}
                 /\ \E w \in IdsOf(item) \cap heard : truth[w] = "completed"
      <3>1. ASSUME NEW w \in IdsOf(item) \cap heard PROVE truth[w] \in {"completed", "other"}
        BY <1>1, <1>2, <2>3, <2>5, <3>1
      <3> QED
        BY <1>5, <2>3, <2>5, <3>1
    <2> QED
      BY <2>2, <2>4, <2>5 DEF TrueOfAnswer
  <1> QED
    BY <1>6, <1>7

LEMMA ShowroomNext ==
    ASSUME Base, AnsweredInv, SoundInv, ShowroomInv, PastInv, ClaimsInv, WorkshopsInv, Next
    PROVE  ShowroomInv'
  <1>1. job \in Job /\ rows' = rows /\ job.pc # "done" /\ sound \in Sound /\ deployed \in Seq(Result)
    BY Grows DEF Base, TypeOK
  <1>2. CASE Reports
    <2>1. job'.pc = "looking"
      BY <1>2, RowReports, NextRowIs DEF Base
    <2> QED
      BY <2>1 DEF ShowroomInv
  <1>3. CASE EndPhase
    <2>1. sound' = NoSound
      BY <1>3 DEF EndPhase, SoundInv
    <2>2. sound'.ids = {} /\ ~sound'.kicked
      BY <2>1 DEF NoSound
    <2>3. job'.pc \in {"merging", "done"} => \A j \in DOMAIN deployed' : deployed'[j].showroom = "none"
      BY <1>1, <1>3 DEF EndPhase, SoundInv
    <2> QED
      BY <2>2, <2>3 DEF ShowroomInv, TruthShown, IdsOf
  <1>4. CASE CollectWorkshops
    <2>1. PICK ids : /\ sound' = [sound EXCEPT !.ids = ids]
                     /\ job' = [job EXCEPT !.pc = IF ids = {} THEN "merging" ELSE "create"]
      BY <1>4 DEF CollectWorkshops
    <2>2. sound = NoSound
      BY <1>4 DEF CollectWorkshops, SoundInv
    <2>3. ~sound'.kicked /\ sound'.ids = ids
      BY <2>1, <2>2 DEF NoSound
    <2>4. job'.pc = "create" \/ ids = {}
      BY <1>1, <2>1 DEF Job
    <2>5. \A j \in DOMAIN deployed' : deployed'[j].showroom = "none"
      BY <1>4 DEF CollectWorkshops, SoundInv
    <2> QED
      BY <2>3, <2>4, <2>5 DEF ShowroomInv, TruthShown, IdsOf
  <1>5. CASE CreateGroup \/ RunGroup \/ Poll
    <2>1. job'.pc \in {"run", "poll", "status"}
      BY <1>1, <1>5 DEF CreateGroup, RunGroup, Poll, Job
    <2> QED
      BY <2>1 DEF ShowroomInv
  <1>6. CASE CheckStatus
    <2>1. PICK ok \in BOOLEAN, heard \in SUBSET {w \in Asked : truth[w] # "none"} :
              /\ ok \/ heard = {}
              /\ deployed' = [i \in DOMAIN deployed |->
                                [deployed[i] EXCEPT !.showroom =
                                    Shown(rows[deployed[i].row].item, heard, ok \/ sound.kicked)]]
              /\ sound' = [sound EXCEPT !.heard = heard, !.reached = @ \/ ok]
      BY <1>6 DEF CheckStatus, Calls
    <2>2. /\ sound'.kicked = sound.kicked /\ sound'.ids = sound.ids /\ sound'.taken = sound.taken
          /\ sound'.heard = heard /\ sound'.reached = (sound.reached \/ ok) /\ truth' = truth
      BY <1>1, <1>6, <2>1 DEF Sound, CheckStatus
    <2> SUFFICES ASSUME NEW j \in DOMAIN deployed'
                 PROVE  TruthShown(ItemOf(deployed[j]), deployed[j].showroom)'
      BY DEF ShowroomInv
    <2>3. j \in DOMAIN deployed /\ deployed[j] \in Result
      BY <1>1, <2>1
    <2> DEFINE item == rows[deployed[j].row].item
    <2>4. deployed'[j].showroom = Shown(item, heard, ok \/ sound.kicked) /\ deployed'[j].row = deployed[j].row
      BY <2>1, <2>3 DEF Result
    <2>5. IdsOf(ItemOf(deployed[j]))' = IdsOf(item)
      BY <1>1, <2>2, <2>4 DEF IdsOf, ItemOf
    <2> DEFINE shown == deployed'[j].showroom
    <2> HIDE DEF item, shown
    <2>6. shown = Shown(item, heard, ok \/ sound.kicked)
      BY <2>4 DEF shown
    <2>7. TrueOfAnswer(item, heard, ok, shown)
      BY <2>1, <2>6, ShownTrue
    <2> HIDE DEF IdsOf
    <2> QED
      BY <2>2, <2>5, <2>7 DEF TruthShown, TrueOfAnswer, shown
  <1>7. ASSUME deployed' = deployed, sound' = sound, truth' = truth \/ job'.pc = "status" \/ job'.pc = "poll",
               job'.pc = job.pc \/ (job'.pc = "done" /\ job.pc = "merging") \/ job'.pc \in {"looking", "readying"}
                  \/ job.phase = "destroy"
        PROVE  ShowroomInv'
    <2>1. CASE job.phase = "destroy"
      <3>1. DOMAIN deployed = {}
        <4>1. Answered(deployed, 0)
          BY <2>1 DEF AnsweredInv
        <4>2. \A x : x \notin 1..0
          OBVIOUS
        <4> QED
          BY <4>1, <4>2 DEF Answered
      <3> QED
        BY <1>7, <3>1 DEF ShowroomInv
    <2>2. CASE job.phase # "destroy"
      BY <1>1, <1>7, <2>2 DEF ShowroomInv, TruthShown, IdsOf, ItemOf
    <2> QED
      BY <2>1, <2>2
  <1>8. CASE List \/ Listed
    <2>1. job'.pc \in {"listing", "looking"}
      BY <1>1, <1>8 DEF List, Listed, Job
    <2> QED
      BY <2>1 DEF ShowroomInv
  <1>9. CASE LookMulti \/ LookWorkshop
    <2>1. job'.pc \in {"looking", "readying"}
      <3>1. CASE LookMulti
        BY <1>1, <3>1, LookMultiIs DEF Base, Job
      <3>2. CASE LookWorkshop
        BY <1>1, <3>2, LookWorkshopIs DEF Base, Job
      <3> QED
        BY <1>9, <3>1, <3>2
    <2> QED
      BY <2>1 DEF ShowroomInv
  <1>10. CASE Merge \/ EndDestroy
    <2>1. deployed' = deployed /\ sound' = sound /\ truth' = truth /\ (job.pc = "merging" \/ job.phase = "destroy")
          /\ job'.pc = "done"
      BY <1>1, <1>10 DEF Merge, EndDestroy, Job
    <2> QED
      BY <1>7, <2>1
  <1>11. ASSUME NEW n \in 1..3, LookFor(n) PROVE ShowroomInv'
    <2>1. deployed' = deployed /\ sound' = sound /\ truth' = truth /\ job.phase = "destroy"
      BY <1>11 DEF LookFor
    <2> QED
      BY <1>7, <2>1
  <1>12. CASE JudgeRow
    <2>1. deployed' = deployed /\ sound' = sound /\ truth' = truth /\ job.phase = "destroy"
      BY <1>12 DEF JudgeRow
    <2> QED
      BY <1>7, <2>1
  <1>13. CASE Move \/ Cancel
    <2>1. deployed' = deployed /\ sound' = sound /\ truth' = truth /\ job'.pc = job.pc
      BY <1>1, <1>13 DEF Move, Cancel, Job
    <2> QED
      BY <1>7, <2>1
  <1>14. CASE Probe
    <2>1. job'.pc \in {"poll", "status"}
      BY <1>14 DEF Probe
    <2> QED
      BY <2>1 DEF ShowroomInv
  <1> QED
    BY <1>2, <1>3, <1>4, <1>5, <1>6, <1>8, <1>9, <1>10, <1>11, <1>12, <1>13, <1>14, Steps DEF Quiet, Soundcheck

-----------------------------------------------------------------------------
(* The check after the end. *)

LEMMA AsksAre == Asks[1] = "workshop" /\ Asks[2] = "provision" /\ Asks[3] = "claim" /\ DOMAIN Asks = 1..3
  BY DEF Asks

LEMMA MissingNext ==
    ASSUME Base, MissingInv, PastInv, ClaimsInv, WorkshopsInv, Next
    PROVE  MissingInv'
  <1>1. /\ job \in Job /\ rows' = rows /\ (faults' = 0 => faults = 0) /\ Len(rows) \in Nat
        /\ past.been \subseteq past'.been /\ past.gone \subseteq past'.gone
    BY Grows DEF Base, TypeOK
  <1>2. ASSUME job'.phase = job.phase, job.phase = "destroy" => job' = job PROVE MissingInv'
    <2>1. CASE job.phase = "destroy"
      <3>1. Row' = Row /\ job' = job
        BY <1>1, <1>2, <2>1 DEF Row
      <3> QED
        BY <1>1, <3>1 DEF MissingInv
    <2>2. CASE job.phase # "destroy"
      BY <1>2, <2>2 DEF MissingInv
    <2> QED
      BY <2>1, <2>2
  <1>3. ASSUME job'.phase # "destroy" PROVE MissingInv'
    BY <1>3 DEF MissingInv
  <1>4. CASE Reports
    <2>1. job'.phase # "destroy"
      BY <1>4, RowReports, NextRowIs DEF Base
    <2> QED
      BY <1>3, <2>1
  <1>5. CASE EndPhase
    <2>1. job'.phase # "destroy"
      BY <1>1, <1>5 DEF EndPhase, Job
    <2> QED
      BY <1>3, <2>1
  <1>6. CASE Soundcheck
    <2>1. job'.phase = job.phase /\ job.phase # "destroy"
      BY <1>1, <1>6, SoundcheckIs DEF Base, PlaceInv, Job
    <2> QED
      BY <1>3, <2>1
  <1>7. CASE List \/ Listed \/ Merge
    <2>1. job'.phase = job.phase /\ job.phase # "destroy"
      BY <1>1, <1>7 DEF List, Listed, Merge, Base, PlaceInv, Job
    <2> QED
      BY <1>3, <2>1
  <1>8. CASE LookMulti \/ LookWorkshop
    <2>1. job'.phase # "destroy"
      <3>1. CASE LookMulti
        BY <1>1, <3>1, LookMultiIs DEF Base, Job
      <3>2. CASE LookWorkshop
        BY <1>1, <3>2, LookWorkshopIs DEF Base, Job
      <3> QED
        BY <1>8, <3>1, <3>2
    <2> QED
      BY <1>3, <2>1
  <1>9. ASSUME NEW n \in 1..3, LookFor(n) PROVE MissingInv'
    <2>1. PICK ok \in Calls :
              /\ job' = [job EXCEPT !.asked = n,
                                    !.missing = IF ok /\ Of(Asks[n], Row.item) # {} THEN @ ELSE @ \cup {Asks[n]}]
              /\ faults' = Failed(ok)
      BY <1>9 DEF LookFor
    <2>2. past' = past /\ job.phase = "destroy" /\ job.row <= Len(rows) /\ job.asked = n - 1
      BY <1>9 DEF LookFor, MoreRows
    <2> DEFINE found == ok /\ Of(Asks[n], Row.item) # {}
    <2>3. /\ job'.asked = n /\ job'.missing = (IF found THEN job.missing ELSE job.missing \cup {Asks[n]})
          /\ job'.row = job.row
      BY <1>1, <2>1 DEF Job
    <2>4. Row' = Row
      BY <1>1, <2>3 DEF Row
    <2>5. faults' = 0 => ok
      BY <2>1 DEF Failed, Base, TypeOK
    <2>6. ASSUME faults' = 0, NEW o \in Objects, Kind[o] \in job'.missing, Item[o] = Row.item PROVE o \in past.gone
      <3>1. CASE Kind[o] \in job.missing
        BY <1>1, <2>2, <2>6, <3>1 DEF MissingInv
      <3>2. CASE Kind[o] \notin job.missing
        <4>1. Kind[o] = Asks[n] /\ Of(Asks[n], Row.item) = {}
          BY <2>3, <2>5, <2>6, <3>2
        <4> QED
          BY <2>6, <4>1 DEF Of, PastInv
      <3> QED
        BY <3>1, <3>2
    <2>7. ASSUME NEW m \in 1..n, Asks[m] \notin job'.missing
          PROVE  \E o \in past.been : Kind[o] = Asks[m] /\ Item[o] = Row.item
      <3>1. CASE m = n
        <4>1. PICK o \in Of(Asks[n], Row.item) : TRUE
          BY <2>3, <2>7, <3>1
        <4> QED
          BY <3>1, <4>1 DEF Of, PastInv
      <3>2. CASE m # n
        <4>1. m \in 1..job.asked /\ Asks[m] \notin job.missing
          BY <2>2, <2>3, <2>7, <3>2
        <4> QED
          BY <2>2, <4>1 DEF MissingInv
      <3> QED
        BY <3>1, <3>2
    <2> HIDE DEF found
    <2> QED
      BY <2>2, <2>3, <2>4, <2>6, <2>7 DEF MissingInv
  <1>10. CASE JudgeRow
    <2>1. job'.asked = 0 /\ job'.missing = {}
      BY <1>10, JudgeRowIs
    <2> QED
      BY <2>1 DEF MissingInv
  <1>11. CASE EndDestroy
    <2>1. job'.row = job.row /\ ~(job.row <= Len(rows))
      BY <1>1, <1>11 DEF EndDestroy, MoreRows, Job
    <2> QED
      BY <1>1, <2>1 DEF MissingInv
  <1>12. CASE Move \/ Probe
    BY <1>2, <1>12 DEF Move, Probe
  <1>13. CASE Cancel
    <2>1. job'.phase # "destroy"
      BY <1>1, <1>13 DEF Cancel, Base, PlaceInv, Job
    <2> QED
      BY <1>3, <2>1
  <1> QED
    BY <1>4, <1>5, <1>6, <1>7, <1>8, <1>9, <1>10, <1>11, <1>12, <1>13, Steps DEF Quiet

\* The verdict about a row: with nothing found everything was gone at some
\* moment, with something found it was there.
LEMMA VerdictIs ==
    ASSUME Base, MissingInv, JudgeRow
    PROVE  /\ faults = 0 /\ JudgedRow.overall = "destroyed" => OwnOf(JudgedRow) \subseteq past.gone
           /\ JudgedRow.overall = "overdue" => OwnOf(JudgedRow) \cap past.been # {}
  <1>1. /\ job.phase = "destroy" /\ job.row <= Len(rows) /\ job.asked = 3 /\ job \in Job
        /\ past.been \subseteq Objects
    BY DEF JudgeRow, MoreRows, Base, TypeOK
  <1>2. JudgedRow.overall = Overall(job.missing, Row.ended) /\ ItemOf(JudgedRow) = Row.item
    BY DEF JudgedRow, ItemOf, Row
  <1>3. Range(Asks) = {"workshop", "provision", "claim"}
    BY AsksAre DEF Range
  <1>4. job.missing \subseteq Range(Asks)
    BY <1>1, <1>3 DEF Job
  <1>5. ASSUME faults = 0, JudgedRow.overall = "destroyed" PROVE OwnOf(JudgedRow) \subseteq past.gone
    <2>1. job.missing = Range(Asks)
      BY <1>2, <1>5 DEF Overall
    <2>2. ASSUME NEW o \in OwnOf(JudgedRow) PROVE Kind[o] \in job.missing /\ Item[o] = Row.item /\ o \in Objects
      BY <1>2, <1>3, <2>1, ObjectsAssumption DEF OwnOf
    <2> QED
      BY <1>1, <1>5, <2>2 DEF MissingInv
  <1>6. ASSUME JudgedRow.overall = "overdue" PROVE OwnOf(JudgedRow) \cap past.been # {}
    <2>1. job.missing # Range(Asks)
      BY <1>2, <1>6 DEF Overall
    <2>2. PICK n \in 1..3 : Asks[n] \notin job.missing
      BY <1>4, <2>1, AsksAre DEF Range
    <2>3. PICK o \in past.been : Kind[o] = Asks[n] /\ Item[o] = Row.item
      BY <1>1, <2>2 DEF MissingInv
    <2>4. o \in OwnOf(JudgedRow)
      BY <1>1, <1>2, <2>3, AsksAre DEF OwnOf
    <2> QED
      BY <2>3, <2>4
  <1> QED
    BY <1>5, <1>6

LEMMA DestroyNext ==
    ASSUME Base, MissingInv, DestroyInv, PastInv, ClaimsInv, WorkshopsInv, Next
    PROVE  DestroyInv'
  <1>1. /\ job \in Job /\ rows' = rows /\ (faults' = 0 => faults = 0) /\ Len(rows) \in Nat /\ job.pc # "done"
        /\ past.been \subseteq past'.been /\ past.gone \subseteq past'.gone /\ job.row \in 1..(Len(rows) + 1)
    BY Grows DEF Base, TypeOK, PlaceInv
  <1>2. ASSUME job'.phase # "destroy" PROVE DestroyInv'
    BY <1>2 DEF DestroyInv
  <1>3. ASSUME job.phase = "destroy", results' = results, job'.row = job.row,
               job'.pc = "done" => job.row = Len(rows) + 1
        PROVE  DestroyInv'
    <2>1. \A i : ItemOf(results[i])' = ItemOf(results[i])
      BY <1>1, <1>3 DEF ItemOf
    <2>2. \A i : OwnOf(results[i])' = OwnOf(results[i])
      BY <2>1 DEF OwnOf
    <2>3. \A i \in DOMAIN results :
              /\ results[i].row = i
              /\ faults = 0 /\ results[i].overall = "destroyed" => OwnOf(results[i]) \subseteq past.gone
              /\ results[i].overall = "overdue" => OwnOf(results[i]) \cap past.been # {}
      BY <1>3 DEF DestroyInv
    <2>4. \A i \in DOMAIN results' :
              /\ results'[i].row = i
              /\ faults' = 0 /\ results'[i].overall = "destroyed" => OwnOf(results[i])' \subseteq past'.gone
              /\ results'[i].overall = "overdue" => OwnOf(results[i])' \cap past'.been # {}
      BY <1>1, <1>3, <2>2, <2>3
    <2>5. DOMAIN results = 1..(job.row - 1) /\ results \in Seq(Verdict)
      BY <1>3 DEF DestroyInv
    <2> HIDE DEF OwnOf
    <2> QED
      BY <1>1, <1>3, <2>4, <2>5 DEF DestroyInv
  <1>4. CASE Reports
    <2>1. job'.phase # "destroy"
      BY <1>4, RowReports, NextRowIs DEF Base
    <2> QED
      BY <1>2, <2>1
  <1>5. CASE EndPhase
    <2>1. job'.phase # "destroy"
      BY <1>1, <1>5 DEF EndPhase, Job
    <2> QED
      BY <1>2, <2>1
  <1>6. CASE Soundcheck
    <2>1. job'.phase = job.phase /\ job.phase # "destroy"
      BY <1>1, <1>6, SoundcheckIs DEF Base, PlaceInv, Job
    <2> QED
      BY <1>2, <2>1
  <1>7. CASE List \/ Listed \/ Merge \/ Cancel
    <2>1. job'.phase = job.phase /\ job.phase # "destroy"
      BY <1>1, <1>7 DEF List, Listed, Merge, Cancel, Base, PlaceInv, Job
    <2> QED
      BY <1>2, <2>1
  <1>8. CASE LookMulti \/ LookWorkshop
    <2>1. job'.phase # "destroy"
      <3>1. CASE LookMulti
        BY <1>1, <3>1, LookMultiIs DEF Base, Job
      <3>2. CASE LookWorkshop
        BY <1>1, <3>2, LookWorkshopIs DEF Base, Job
      <3> QED
        BY <1>8, <3>1, <3>2
    <2> QED
      BY <1>2, <2>1
  <1>9. ASSUME NEW n \in 1..3, LookFor(n) PROVE DestroyInv'
    <2>1. job.phase = "destroy" /\ results' = results /\ job'.row = job.row /\ job'.pc = "looking"
      BY <1>1, <1>9 DEF LookFor, Job
    <2> QED
      BY <1>3, <2>1
  <1>10. CASE JudgeRow
    <2>1. /\ JudgedRow \in Verdict /\ job'.row = job.row + 1 /\ job'.pc = "looking" /\ job'.phase = job.phase
          /\ results' = Append(results, JudgedRow)
      BY <1>10, JudgeRowIs
    <2>2. /\ job.phase = "destroy" /\ past' = past /\ faults' = faults
      BY <1>10 DEF JudgeRow
    <2>3. results \in Seq(Verdict) /\ DOMAIN results = 1..(job.row - 1)
      BY <2>2 DEF DestroyInv
    <2> DEFINE n == job.row - 1
    <2>4. n \in Nat /\ n + 1 = job.row /\ Len(results) = n /\ JudgedRow.row = n + 1
      BY <1>1, <2>3 DEF JudgedRow
    <2> DEFINE v == JudgedRow
    <2>5. /\ v.row = n + 1
          /\ faults = 0 /\ v.overall = "destroyed" => OwnOf(v) \subseteq past.gone
          /\ v.overall = "overdue" => OwnOf(v) \cap past.been # {}
      BY <1>10, <2>4, VerdictIs
    <2> HIDE DEF n, v
    <2>6. /\ results' \in Seq(Verdict) /\ DOMAIN results' = 1..(n + 1)
          /\ \A i \in 1..n : results'[i] = results[i]
          /\ results'[n + 1] = v
      BY <2>1, <2>3, <2>4 DEF v
    <2>7. \A i \in DOMAIN results' :
              /\ results'[i].row = i
              /\ faults = 0 /\ results'[i].overall = "destroyed" =>
                    {o \in Objects : Kind[o] # "multi" /\ Item[o] = rows[results'[i].row].item} \subseteq past.gone
              /\ results'[i].overall = "overdue" =>
                    {o \in Objects : Kind[o] # "multi" /\ Item[o] = rows[results'[i].row].item} \cap past.been # {}
      <3> SUFFICES ASSUME NEW i \in DOMAIN results'
                   PROVE  /\ results'[i].row = i
                          /\ faults = 0 /\ results'[i].overall = "destroyed" =>
                               {o \in Objects : Kind[o] # "multi" /\ Item[o] = rows[results'[i].row].item} \subseteq past.gone
                          /\ results'[i].overall = "overdue" =>
                               {o \in Objects : Kind[o] # "multi" /\ Item[o] = rows[results'[i].row].item} \cap past.been # {}
        OBVIOUS
      <3>1. CASE i = n + 1
        BY <2>5, <2>6, <3>1 DEF OwnOf, ItemOf
      <3>2. CASE i # n + 1
        <4>1. i \in 1..n /\ i \in DOMAIN results /\ results'[i] = results[i]
          BY <2>3, <2>4, <2>6, <3>2
        <4> QED
          BY <2>2, <4>1 DEF DestroyInv, OwnOf, ItemOf
      <3> QED
        BY <3>1, <3>2
    <2>8. job'.pc # "done" /\ DOMAIN results' = 1..(job'.row - 1)
      BY <2>1, <2>4, <2>6
    <2> QED
      BY <1>1, <2>2, <2>6, <2>7, <2>8 DEF DestroyInv, OwnOf, ItemOf
  <1>11. CASE EndDestroy
    <2>1. job.phase = "destroy" /\ results' = results /\ job'.row = job.row /\ ~(job.row <= Len(rows))
      BY <1>1, <1>11 DEF EndDestroy, MoreRows, Job
    <2>2. job.row = Len(rows) + 1
      BY <1>1, <2>1
    <2> QED
      BY <1>3, <2>1, <2>2
  <1>12. CASE Move \/ Probe
    <2>1. job' = job /\ results' = results
      BY <1>12 DEF Move, Probe
    <2> QED
      BY <1>1, <1>2, <1>3, <2>1
  <1> QED
    BY <1>4, <1>5, <1>6, <1>7, <1>8, <1>9, <1>10, <1>11, <1>12, Steps DEF Quiet

-----------------------------------------------------------------------------
(* The invariant. *)

IInv ==
    /\ Base /\ AnsweredInv /\ ResultsInv
    /\ PastInv /\ ClaimsInv /\ WorkshopsInv /\ TrueInv
    /\ SoundInv /\ ShowroomInv
    /\ MissingInv /\ DestroyInv

LEMMA InitIInv == Init => IInv
  <1> SUFFICES ASSUME Init PROVE IInv
    OBVIOUS
  <1>1. Base
    BY InitBase
  <1>2. /\ setup = <<>> /\ deployed = <<>> /\ results = <<>> /\ sound = NoSound
        /\ job.row = 1 /\ job.tried = "nothing" /\ job.asked = 0 /\ job.missing = {}
        /\ job.pc \in {"listing", "looking"} /\ (job.phase = "destroy" <=> job.pc = "looking")
        /\ \A o \in Objects : listed[o] = None
        /\ past = Observed /\ Len(rows) \in Nat
    BY <1>1 DEF Init, Base, TypeOK
  <1>3. AnsweredInv
    <2>1. Answered(<<>>, 0)
      BY DEF Answered
    <2>2. Far = 0
      BY <1>2 DEF Far
    <2>3. job.kind = "both" => job.phase = "setup"
      BY DEF Init
    <2> QED
      BY <1>2, <2>1, <2>2, <2>3 DEF AnsweredInv
  <1>4. ResultsInv
    BY <1>2 DEF ResultsInv
  <1>5. PastInv
    BY <1>2 DEF PastInv, Observed, There
  <1>6. ClaimsInv
    <2>1. DOMAIN rows = 1..Len(rows)
      BY <1>1 DEF Base, TypeOK
    <2> QED
      BY <1>2, <2>1 DEF ClaimsInv, Searched
  <1>7. WorkshopsInv
    BY <1>2 DEF WorkshopsInv
  <1>8. TrueInv
    BY <1>2 DEF TrueInv
  <1>9. SoundInv
    BY <1>2 DEF SoundInv, NoSound
  <1>10. ShowroomInv
    BY <1>2 DEF ShowroomInv
  <1>11. MissingInv
    BY <1>2 DEF MissingInv
  <1>12. DestroyInv
    BY <1>2 DEF DestroyInv
  <1> QED
    BY <1>1, <1>3, <1>4, <1>5, <1>6, <1>7, <1>8, <1>9, <1>10, <1>11, <1>12 DEF IInv

LEMMA BaseNext == ASSUME IInv, Next PROVE Base'
  <1>1. CASE Reports
    BY <1>1, ReportsType DEF IInv
  <1>2. CASE EndPhase
    BY <1>2, EndPhaseBase DEF IInv
  <1>3. CASE Soundcheck
    BY <1>3, SoundcheckBase DEF IInv
  <1>4. CASE Quiet
    BY <1>4, ListBase, ListedBase, LookBase, MergeBase, LookForBase, JudgeRowBase, EndDestroyBase, MoveBase,
       ProbeBase, CancelBase DEF Quiet, IInv
  <1> QED
    BY <1>1, <1>2, <1>3, <1>4, Steps

LEMMA AnsweredInvNext == ASSUME IInv, Next PROVE AnsweredInv'
  BY ReportsAnswered, EndPhaseAnswered, SoundcheckAnswered, QuietAnswered, Steps DEF IInv

LEMMA NextIInv == IInv /\ [Next]_vars => IInv'
  <1> SUFFICES ASSUME IInv, [Next]_vars PROVE IInv'
    OBVIOUS
  <1>1. CASE Next
    BY <1>1, BaseNext, AnsweredInvNext, ResultsNext, PastNext, ClaimsNext, WorkshopsNext, TrueNext, SoundNext,
       ShowroomNext, MissingNext, DestroyNext DEF IInv
  <1>2. CASE UNCHANGED vars
    <2>1. UNCHANGED <<rows, cluster, job, listed, setup, deployed, results, sound, truth, past, moves, faults>>
      BY <1>2 DEF vars
    <2>2. Base'
      BY <2>1 DEF IInv, Base, TypeOK, PlaceInv, Row
    <2>3. AnsweredInv' /\ ResultsInv'
      BY <2>1 DEF IInv, AnsweredInv, Answered, Far, ResultsInv, Dedup, Merged, Own
    <2>4. PastInv' /\ ClaimsInv' /\ WorkshopsInv'
      BY <2>1 DEF IInv, PastInv, There, ClaimsInv, Searched, WorkshopsInv, Row
    <2>5. TrueInv'
      BY <2>1 DEF IInv, TrueInv, IsTrue, WasThere, WasGone, WasUp, ItemOf
    <2>6. SoundInv'
      <3>1. RowItems' = RowItems /\ NoSound' = NoSound
        BY <2>1 DEF RowItems, NoSound
      <3> QED
        BY <2>1, <3>1 DEF IInv, SoundInv
    <2>7. ShowroomInv'
      BY <2>1 DEF IInv, ShowroomInv, TruthShown, IdsOf, ItemOf
    <2>8. MissingInv' /\ DestroyInv'
      BY <2>1 DEF IInv, MissingInv, DestroyInv, OwnOf, ItemOf, Row
    <2> QED
      BY <2>2, <2>3, <2>4, <2>5, <2>6, <2>7, <2>8 DEF IInv
  <1> QED
    BY <1>1, <1>2

LEMMA Invariance == Spec => []IInv
  BY InitIInv, NextIInv, PTL DEF Spec

\* Variables have their types.
THEOREM TypeCorrect == Spec => []TypeOK
  <1>1. IInv => TypeOK
    BY DEF IInv, Base
  <1> QED
    BY <1>1, Invariance, PTL

-----------------------------------------------------------------------------
(* What is returned in the end. *)

\* Where the results of the end come from.
LEMMA AtTheEnd ==
    ASSUME IInv, QA
    PROVE  /\ DOMAIN rows = 1..Len(rows) /\ job.kind \in {"2", "3", "both"}
           /\ job.kind = "2" => Answered(setup, Len(rows))
           /\ job.kind # "2" => Answered(deployed, Len(rows))
           /\ job.kind = "2" => results = [i \in DOMAIN rows |-> Dedup(setup, i)]
           /\ job.kind = "3" => results = deployed
           /\ job.kind = "both" => results = [i \in DOMAIN rows |-> Merged(i)]
  <1>1. job \in Job /\ DOMAIN rows = 1..Len(rows) /\ job.pc = "done" /\ job.kind # "destroy"
    BY DEF IInv, Base, TypeOK, QA, Done
  <1>2. job.kind \in {"2", "3", "both"} /\ job.phase \in {"setup", "deployment"}
        /\ (job.kind = "2" <=> job.phase = "setup")
    BY <1>1 DEF IInv, Base, PlaceInv, Job
  <1>3. Far = Len(rows)
    BY <1>1 DEF Far
  <1> QED
    BY <1>1, <1>2, <1>3 DEF IInv, AnsweredInv, ResultsInv

\* Each is what a check found, and only whether it matches may be changed.
LEMMA FinalIs ==
    ASSUME IInv, NEW r \in Final
    PROVE  /\ r \in Result /\ IsTrue(r) /\ r.row \in DOMAIN rows /\ job.pc = "done" /\ job.kind # "destroy"
           /\ job.kind = "2" => r.showroom = "none"
           /\ job.kind # "2" => \E j \in DOMAIN deployed : /\ r.row = deployed[j].row
                                                         /\ r.showroom = deployed[j].showroom
  <1>1. QA /\ setup \in Seq(Result) /\ deployed \in Seq(Result) /\ TypeOK /\ TrueInv
    BY DEF Final, IInv, Base, TypeOK
  <1>2. PICK k \in DOMAIN results : r = results[k]
    BY <1>1 DEF Final
  <1>3. job.pc = "done" /\ job.kind # "destroy"
    BY <1>1 DEF QA, Done
  <1>4. ASSUME NEW q \in Result, IsTrue(q), q.row \in DOMAIN rows, NEW m \in {"Yes", "No", "none"},
               r = [q EXCEPT !.match = m]
        PROVE  r \in Result /\ IsTrue(r) /\ r.row = q.row /\ r.row \in DOMAIN rows /\ r.showroom = q.showroom
    <2>1. /\ r \in Result /\ r.row = q.row /\ r.there = q.there /\ r.health = q.health /\ r.about = q.about
          /\ r.showroom = q.showroom
      BY <1>4 DEF Result
    <2> QED
      BY <1>4, <2>1, TrueOfAnother
  <1>5. CASE job.kind = "2"
    <2>1. Answered(setup, Len(rows)) /\ results = [i \in DOMAIN rows |-> Dedup(setup, i)] /\ DOMAIN rows = 1..Len(rows)
      BY <1>1, <1>5, AtTheEnd
    <2>2. k \in DOMAIN rows /\ r = Dedup(setup, k) /\ Own(setup, k) # {}
      BY <1>2, <2>1, AnsweredOwn
    <2>3. PICK j \in Own(setup, k), m \in {"Yes", "No", "none"} : r = [setup[j] EXCEPT !.match = m]
      BY <1>1, <2>2, DedupIs
    <2>4. j \in DOMAIN setup /\ setup[j].row = k
      BY DEF Own
    <2>5. setup[j] \in Result /\ IsTrue(setup[j]) /\ setup[j].showroom = "none"
      BY <1>1, <2>4 DEF TrueInv
    <2>6. PICK q \in Result : q = setup[j]
      BY <2>5
    <2> QED
      BY <1>3, <1>4, <1>5, <2>2, <2>3, <2>4, <2>5, <2>6
  <1>6. CASE job.kind # "2"
    <2>1. Answered(deployed, Len(rows)) /\ DOMAIN rows = 1..Len(rows) /\ job.kind \in {"3", "both"}
      BY <1>1, <1>6, AtTheEnd
    <2>2. \E j \in DOMAIN deployed : \E m \in {"Yes", "No", "none"} : r = [deployed[j] EXCEPT !.match = m]
      <3>1. CASE job.kind = "3"
        <4>1. results = deployed
          BY <1>1, <3>1, AtTheEnd
        <4>2. deployed[k] \in Result /\ k \in DOMAIN deployed /\ r = deployed[k]
          BY <1>1, <1>2, <4>1
        <4>3. deployed[k].match \in {"Yes", "No", "none"} /\ r = [deployed[k] EXCEPT !.match = deployed[k].match]
          BY <4>2 DEF Result
        <4> QED
          BY <4>2, <4>3
      <3>2. CASE job.kind = "both"
        <4>1. results = [i \in DOMAIN rows |-> Merged(i)]
          BY <1>1, <3>2, AtTheEnd
        <4>2. k \in DOMAIN rows /\ r = Merged(k) /\ Own(deployed, k) # {}
          BY <1>2, <2>1, <4>1, AnsweredOwn
        <4>3. \A j \in DOMAIN deployed : deployed[j].match = "none"
          BY <1>1 DEF TrueInv
        <4> QED
          BY <1>1, <4>2, <4>3, MergedIs DEF Own
      <3> QED
        BY <2>1, <3>1, <3>2
    <2>3. PICK j \in DOMAIN deployed, m \in {"Yes", "No", "none"} : r = [deployed[j] EXCEPT !.match = m]
      BY <2>2
    <2>4. deployed[j] \in Result /\ IsTrue(deployed[j]) /\ deployed[j].row \in DOMAIN rows
      BY <1>1, <2>1 DEF TrueInv, Answered
    <2>5. PICK q \in Result : q = deployed[j]
      BY <2>4
    <2> QED
      BY <1>3, <1>4, <1>6, <2>3, <2>4, <2>5
  <1> QED
    BY <1>5, <1>6

\* The result of a row where rows have one.
LEMMA OneOfEach ==
    ASSUME IInv, QA, job.kind # "3", NEW i \in DOMAIN rows
    PROVE  /\ DOMAIN results = DOMAIN rows /\ results[i].row = i
           /\ results[i].match = "No" <=> \E j \in Own(setup, i) : setup[j].match = "No"
  <1>1. setup \in Seq(Result) /\ TypeOK /\ \A j \in DOMAIN deployed : deployed[j].match = "none"
    BY DEF IInv, Base, TypeOK, TrueInv
  <1>2. CASE job.kind = "2"
    <2>1. Own(setup, i) # {} /\ results = [k \in DOMAIN rows |-> Dedup(setup, k)]
      BY <1>2, AtTheEnd, AnsweredOwn
    <2> QED
      BY <1>1, <2>1, DedupIs
  <1>3. CASE job.kind = "both"
    <2>1. Own(deployed, i) # {} /\ results = [k \in DOMAIN rows |-> Merged(k)]
      BY <1>3, AtTheEnd, AnsweredOwn
    <2> QED
      BY <1>1, <2>1, MergedIs
  <1> QED
    BY <1>2, <1>3, AtTheEnd

\* Every row has a result, and only one if setup checks are asked for, whatever
\* fails and however many claims a row has.
THEOREM RowsAreAnswered == Spec => []WellFormed
  <1>1. ASSUME IInv PROVE WellFormed
    <2> DEFINE own(i) == {j \in DOMAIN results : results[j].row = i}
    <2>1. ASSUME Done, NEW i \in DOMAIN rows
          PROVE  own(i) # {} /\ (job.kind # "3" => Cardinality(own(i)) = 1)
      <3>1. CASE job.kind # "destroy" /\ job.kind # "3"
        <4>1. QA
          BY <2>1, <3>1 DEF QA
        <4>2. DOMAIN results = DOMAIN rows /\ \A k \in DOMAIN rows : results[k].row = k
          BY <1>1, <3>1, <4>1, OneOfEach
        <4>3. own(i) = {i}
          BY <4>2
        <4> QED
          BY <4>3, FS_Singleton
      <3>2. CASE job.kind = "3"
        <4>1. QA
          BY <2>1, <3>2 DEF QA
        <4>2. results = deployed /\ Answered(deployed, Len(rows)) /\ i \in 1..Len(rows)
          BY <1>1, <3>2, <4>1, AtTheEnd
        <4> QED
          BY <3>2, <4>2 DEF Answered
      <3>3. CASE job.kind = "destroy"
        <4>1. job.phase = "destroy" /\ job.pc = "done" /\ DOMAIN rows = 1..Len(rows) /\ Len(rows) \in Nat
          BY <1>1, <2>1, <3>3 DEF IInv, Base, TypeOK, PlaceInv, Done
        <4>2. DOMAIN results = 1..Len(rows) /\ \A k \in DOMAIN results : results[k].row = k
          BY <1>1, <4>1 DEF IInv, DestroyInv
        <4>3. own(i) = {i}
          BY <4>1, <4>2
        <4> QED
          BY <4>3, FS_Singleton
      <3> QED
        BY <3>1, <3>2, <3>3
    <2>2. TypeOK
      BY <1>1 DEF IInv, Base
    <2> QED
      BY <2>1, <2>2 DEF WellFormed, EveryRowAnswered
  <1> QED
    BY <1>1, Invariance, PTL

\* Whatever a result says of its row, absent, deployed or ready, was true at some
\* moment of the check.
THEOREM StatusIsTrue == Spec => []StatusTrue
  <1>1. ASSUME IInv PROVE StatusTrue
    <2>1. AbsentWasGone
      BY <1>1, FinalIs DEF AbsentWasGone, IsTrue, WasGone, ItemOf
    <2>2. DeployedWasThereAlone
      BY <1>1, FinalIs DEF DeployedWasThereAlone, IsTrue, WasThere
    <2>3. ReadyWasUp
      BY <1>1, FinalIs DEF ReadyWasUp, IsTrue, WasUp
    <2> QED
      BY <2>1, <2>2, <2>3 DEF StatusTrue
  <1> QED
    BY <1>1, Invariance, PTL

\* Nothing that the setup check finds different is lost, and nothing else is
\* said to be different.
THEOREM MismatchIsKept == Spec => []MismatchSurvives
  <1>1. ASSUME IInv, QA, job.kind # "3", NEW i \in DOMAIN rows
        PROVE  (\E j \in DOMAIN setup : setup[j].row = i /\ setup[j].match = "No")
                  <=> (\E r \in Final : r.row = i /\ r.match = "No")
    <2>1. /\ DOMAIN results = DOMAIN rows /\ \A k \in DOMAIN rows : results[k].row = k
          /\ results[i].match = "No" <=> \E j \in Own(setup, i) : setup[j].match = "No"
      BY <1>1, OneOfEach
    <2>2. (\E j \in Own(setup, i) : setup[j].match = "No")
             <=> (\E j \in DOMAIN setup : setup[j].row = i /\ setup[j].match = "No")
      BY DEF Own
    <2>3. results[i].match = "No" <=> (\E r \in Final : r.row = i /\ r.match = "No")
      BY <1>1, <2>1 DEF Final
    <2> QED
      BY <2>1, <2>2, <2>3
  <1>2. IInv => MismatchSurvives
    BY <1>1 DEF MismatchSurvives
  <1> QED
    BY <1>2, Invariance, PTL

\* What the showroom column says of the workshops that Soundcheck has answered
\* about is true: a healthy row has none that is said to be running or failed,
\* one that is said to be in order or, without an answer, a run that went well;
\* a failure is shown, and so is a service that answers nothing.  Workshops that
\* nothing is said of, as those beyond the limit, are not covered.
THEOREM ShowroomIsTrue == Spec => []ShowroomTrue
  <1>1. ASSUME IInv PROVE ShowroomTrue
    <2>1. ASSUME NEW r \in Final PROVE TruthShown(ItemOf(r), r.showroom)
      <3>1. CASE job.kind = "2"
        <4>1. r.showroom = "none"
          BY <1>1, <3>1, FinalIs
        <4>2. sound = NoSound
          BY <1>1, <3>1 DEF IInv, SoundInv
        <4>3. IdsOf(ItemOf(r)) = {}
          BY <4>2 DEF IdsOf, NoSound
        <4> QED
          BY <4>1, <4>3 DEF TruthShown
      <3>2. CASE job.kind # "2"
        <4>1. PICK j \in DOMAIN deployed : r.row = deployed[j].row /\ r.showroom = deployed[j].showroom
          BY <1>1, <3>2, FinalIs
        <4>2. ItemOf(r) = ItemOf(deployed[j]) /\ job.pc = "done"
          BY <1>1, <4>1, FinalIs DEF ItemOf
        <4> QED
          BY <1>1, <4>1, <4>2 DEF IInv, ShowroomInv
      <3> QED
        BY <3>1, <3>2
    <2>2. HealthyIsTrue
      BY <2>1 DEF HealthyIsTrue, TruthShown
    <2>3. FailureShown
      BY <2>1 DEF FailureShown, TruthShown
    <2>4. OutageShown
      BY <2>1 DEF OutageShown, TruthShown
    <2> QED
      BY <2>2, <2>3, <2>4 DEF ShowroomTrue
  <1> QED
    BY <1>1, Invariance, PTL


\* What is said to be destroyed was seen to be gone, if calls were answered, and
\* what is said to be overdue was there.
THEOREM DestroyedIsGone == Spec => []DestroyedWasGone
  <1>1. ASSUME IInv PROVE DestroyedWasGone
    <2>1. Done /\ job.kind = "destroy" => job.phase = "destroy"
      BY <1>1 DEF IInv, Base, PlaceInv
    <2> QED
      BY <1>1, <2>1 DEF IInv, DestroyInv, DestroyedWasGone, OwnOf
  <1> QED
    BY <1>1, Invariance, PTL
=============================================================================
