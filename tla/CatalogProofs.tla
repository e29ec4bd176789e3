--------------------------- MODULE CatalogProofs ---------------------------
(***************************************************************************)
(* Proofs about Catalog, for every map of aliases, all items, schedules of *)
(* any length and any number of changes and failed listings.  While the    *)
(* catalog stands still, whatever is in the index, in the cache or in the  *)
(* hands of a request is what the catalog would answer; what a request has *)
(* found so far is about the rows that it has looked at, and the verdict   *)
(* about all of them.  When the catalog does change, whatever a listing,   *)
(* the index or the cache says of a name was true not long before it was   *)
(* written down, or else that listing failed.                              *)
(***************************************************************************)
EXTENDS Catalog, FiniteSetTheorems, SequenceTheorems, TLAPS

\* The rows that the request has looked at, and those that it has begun with.
Looked == 1..(req.row - 1)
Met == {i \in DOMAIN rows : i <= req.row}

NamespaceOf(row) == CatalogNamespace(row.ci, row.ns)
Right(c, ns) == Resolve(c, CatalogNamespace(c, ns), published).exists
Limited(row) == TooMany(row, row.ci, HasLimit(row.ci, {}))
Misplaced(row) == WrongRegion(row, row.ci, HasSchema(row.ci, None, {}))
Nothing(answer) == answer.found = None /\ answer.suggested = None

\* What was said of a name is so, or the name has come or left since, or it was
\* missed because the listing failed: of a catalog that is like pub, whose names
\* changed and whose listings failed as ch and fl say.
Told(pub, ch, fl, c, e, yes, time) ==
    \/ yes <=> e \in pub[c]
    \/ ch[<<c, e>>] # None /\ time <= ch[<<c, e>>]
    \/ ~yes /\ fl[e] # None /\ time <= fl[e]

\* The same of the listings that are under way, of an index that is made of them
\* and of an answer that is made of the index.
ListedBy(w) == {Order[i] : i \in 1..(w.next - 1)}
WalkOk(pub, ch, fl, w) ==
    \A c \in Items, e \in Envs :
        IF e \in ListedBy(w) THEN Told(pub, ch, fl, c, e, e \in w.names[c], w.since)
        ELSE e \notin w.names[c]
IndexOk(pub, ch, fl, x) ==
    \A c \in Items, e \in Envs : Told(pub, ch, fl, c, e, e \in x.names[c], x.at - MaxWalk)
EntryOk(pub, ch, fl, c, e, x) ==
    Alias(c) \in {None, c} => Told(pub, ch, fl, c, e, x.answer.exists, x.at + 1 - TTL - MaxWalk)

ListInv == walk # None => WalkOk(published, changed, failed, walk)
IndexInv == index # None => IndexOk(published, changed, failed, index)
CacheInv ==
    \A c \in Items, e \in Envs :
        cache[<<c, e>>] # None => EntryOk(published, changed, failed, c, e, cache[<<c, e>>])

\* A catalog that stands still has left no traces.
SteadyInv ==
    /\ moves = 0 => \A c \in Items, e \in Envs : changed[<<c, e>>] = None
    /\ faults = 0 => \A e \in Envs : failed[e] = None

\* What is cached is what the catalog says.
CachedInv ==
    Steady => \A c \in Items, e \in Envs :
        cache[<<c, e>>] # None => cache[<<c, e>>].answer = Resolve(c, e, published)

\* What the request knows of an item is true, and comes from a row that it has
\* met.  A deployment may have corrected that row, but not if the answer was
\* that the item is there, or that there is nothing to be found.
AnswersInv ==
    Steady => \A c \in Items : req.answers[c] # None =>
        /\ \E e \in Envs : req.answers[c] = Resolve(c, e, published)
        /\ (req.kind # "deploy" \/ req.answers[c].exists \/ Nothing(req.answers[c])) =>
              \E f \in Met : /\ c \in Names(req.kind, rows[f])
                             /\ req.answers[c] = Resolve(c, CatalogNamespace(c, rows[f].ns), published)
LimitsInv ==
    Steady => \A c \in Items : req.limits[c] # None => req.limits[c] = HasLimit(c, {})
SchemasInv ==
    Steady => \A c \in Items : req.schemas[c] # None =>
        IF req.kind = "regions" THEN req.schemas[c] = HasSchema(c, None, {})
        ELSE \E f \in Looked : rows[f].ci = c /\ req.schemas[c] = HasSchema(c, rows[f].ns, {})

\* The only assets of a row are its own item and those it was uploaded with.
AssetsInv == \A i \in DOMAIN rows : rows[i].assets \subseteq {rows[i].ci} \cup Unasked(i)

\* What it means that a request has found nothing, or something, in these rows.
NamesFound(v, S) ==
    v = "clean" => \A i \in S : \E f \in S : Right(rows[i].ci, rows[f].ns)
UsersFound(v, S) == v = "clean" => \A i \in S : ~Limited(rows[i])
RegionsFound(v, S) == v = "clean" => \A i \in S : ~Misplaced(rows[i])
DeployAdmits(v, S) ==
    (v = "clean" /\ Canonical) =>
        \A i \in S : \E f \in S : rows[f].ci = rows[i].ci /\ IsPublished(rows[f])
DeployRefuses(v, S) ==
    (v = "bad" /\ \A i \in S : rows[i].ns = None) =>
        \E i \in S : ~Right(rows[i].ci, rows[i].ns) \/ Limited(rows[i]) \/ Misplaced(rows[i])
QAFound(v, S) == v = "bad" => \E i \in S : \E c \in Names("qa", rows[i]) : ~Right(c, rows[i].ns)

Found(kind, v, S) ==
    /\ kind = "names" => NamesFound(v, S)
    /\ kind = "users" => UsersFound(v, S)
    /\ kind = "regions" => RegionsFound(v, S)
    /\ kind = "deploy" => DeployAdmits(v, S) /\ DeployRefuses(v, S)
    /\ kind = "qa" => QAFound(v, S)

Word == IF req.bad THEN "bad" ELSE "clean"
WalkInv == Steady => Found(req.kind, Word, Looked)
VerdictInv == Steady => \A k \in Kinds : Found(k, verdict[k], DOMAIN rows)

\* What is said of the catalog, and what the request has learnt.
CatalogInv == SteadyInv /\ ListInv /\ IndexInv /\ CacheInv /\ CachedInv
RequestInv == AnswersInv /\ LimitsInv /\ SchemasInv /\ AssetsInv /\ WalkInv /\ VerdictInv

IInv == TypeOK /\ CatalogInv /\ RequestInv


-----------------------------------------------------------------------------
(* Names. *)

LEMMA FirstIn ==
  ASSUME NEW envs \in SUBSET Envs, envs # {}
  PROVE  First(envs) \in envs
<1> DEFINE Is(i) == Order[i] \in envs /\ \A j \in 1..(i - 1) : Order[j] \notin envs
<1>1. /\ Order[1] = "event" /\ Order[2] = "prod" /\ Order[3] = "dev" /\ Order[4] = "test"
      /\ 1..4 = {1, 2, 3, 4}
  BY DEF Order
<1>2. \E i \in 1..4 : Is(i)
  <2>1. CASE "event" \in envs
    BY <1>1, <2>1
  <2>2. CASE "event" \notin envs /\ "prod" \in envs
    BY <1>1, <2>2
  <2>3. CASE "event" \notin envs /\ "prod" \notin envs /\ "dev" \in envs
    <3>1. \A j \in 1..2 : j = 1 \/ j = 2
      OBVIOUS
    <3>2. Is(3)
      BY <1>1, <2>3, <3>1
    <3> QED
      BY <3>2, <1>1
  <2>4. CASE "event" \notin envs /\ "prod" \notin envs /\ "dev" \notin envs
    <3>1. "test" \in envs
      BY <2>4 DEF Envs
    <3>2. \A j \in 1..3 : j = 1 \/ j = 2 \/ j = 3
      OBVIOUS
    <3>3. Is(4)
      BY <1>1, <2>4, <3>1, <3>2
    <3> QED
      BY <3>3, <1>1
  <2> QED
    BY <2>1, <2>2, <2>3, <2>4
<1>3. Is(CHOOSE i \in 1..4 : Is(i))
  BY <1>2
<1> QED
  BY <1>3 DEF First

LEMMA NamespaceIn ==
  ASSUME NEW c \in Items, NEW ns \in Envs \cup {None}
  PROVE  CatalogNamespace(c, ns) \in Envs
BY DEF CatalogNamespace, Items, Envs

LEMMA EnvOf ==
  ASSUME NEW c \in Items, NEW e \in Envs \cup {"bare"}
  PROVE  [c EXCEPT !.env = e] \in Items
BY DEF Items

LEMMA AliasIn ==
  ASSUME NEW c \in Items
  PROVE  Alias(c) \in Items \cup {None}
<1> DEFINE known == {e \in {"event", "prod", "dev", "bare"} :
                        c.env # "test" /\ [c EXCEPT !.env = e] \in DOMAIN Aliases}
           env == IF known = {"bare"} THEN "bare" ELSE First(known \ {"bare"})
<1>1. CASE c \in DOMAIN Aliases \/ known = {}
  BY <1>1, AliasesAssumption DEF Alias
<1>2. CASE c \notin DOMAIN Aliases /\ known # {}
  <2>1. env \in known
    <3>1. CASE known = {"bare"}
      BY <3>1
    <3>2. CASE known # {"bare"}
      <4>1. known \ {"bare"} # {} /\ known \ {"bare"} \in SUBSET Envs
        BY <1>2, <3>2 DEF Envs
      <4> QED
        BY <3>2, <4>1, FirstIn
    <3> QED
      BY <3>1, <3>2
  <2>2. Alias(c) = Aliases[[c EXCEPT !.env = env]]
    BY <1>2 DEF Alias
  <2> QED
    BY <2>1, <2>2, AliasesAssumption
<1> QED
  BY <1>1, <1>2

\* What validate_catalog_item_exists answers is true of the names that it was
\* given; and a name that is where it is expected, and has no alias, is found.
LEMMA Resolved ==
  ASSUME NEW c \in Items, NEW e \in Envs, NEW names \in [Items -> SUBSET Envs]
  PROVE  LET a == Resolve(c, e, names) IN
         /\ a \in Answers
         /\ a.exists => e \in names[c]
         /\ ~a.exists /\ a.found # None => a.found \in names[c]
         /\ a.suggested # None => a.suggested \in Items /\ names[a.suggested] # {}
         /\ e \in names[c] /\ Alias(c) \in {None, c} => a.exists
<1> DEFINE alias == IF Alias(c) \in {None, c} THEN None ELSE Alias(c)
           name == IF alias = None THEN c ELSE alias
           options == Suffixes(name, names)
           first == alias # None /\ names[name] # {}
           several == Cardinality(options) = 1 \/ {"event", "prod"} \cap options # {}
           a == Resolve(c, e, names)
<1>1. alias \in Items \cup {None} /\ name \in Items
  BY AliasIn
<1>2. CASE first
  <2>1. a = Suggest(alias)
    BY <1>2 DEF Resolve
  <2> QED
    BY <1>1, <1>2, <2>1 DEF Suggest, Answers
<1>3. CASE ~first /\ e \in names[name]
  <2>1. a = Exists(e) /\ name = c
    BY <1>3 DEF Resolve
  <2> QED
    BY <1>3, <2>1 DEF Exists, Answers
<1>4. CASE ~first /\ e \notin names[name] /\ names[name] # {}
  <2>1. a = Elsewhere(First(names[name])) /\ name = c
    BY <1>4 DEF Resolve
  <2>2. First(names[c]) \in names[c] /\ names[c] \subseteq Envs
    BY <1>1, <1>4, <2>1, FirstIn
  <2> QED
    BY <1>4, <2>1, <2>2 DEF Elsewhere, Answers
<1>5. CASE ~first /\ names[name] = {} /\ several
  <2>1. a = Suggest([name EXCEPT !.env = First(options)])
    BY <1>5 DEF Resolve
  <2>2. options # {} /\ options \in SUBSET Envs
    <3>1. CASE {"event", "prod"} \cap options # {}
      BY <3>1 DEF Suffixes
    <3>2. CASE Cardinality(options) = 1
      <4>1. \A S : S = {} => Cardinality(S) # 1
        BY FS_EmptySet
      <4>2. options # {}
        BY <3>2, <4>1
      <4> QED
        BY <4>2 DEF Suffixes
    <3> QED
      BY <1>5, <3>1, <3>2
  <2>3. First(options) \in options
    BY <2>2, FirstIn
  <2>4. names[[name EXCEPT !.env = First(options)]] # {}
    BY <2>3 DEF Suffixes
  <2>5. [name EXCEPT !.env = First(options)] \in Items
    BY <1>1, <2>2, <2>3, EnvOf
  <2>6. e \in names[c] => Alias(c) \notin {None, c}
    BY <1>5
  <2> QED
    BY <2>1, <2>4, <2>5, <2>6 DEF Suggest, Answers
<1>6. CASE ~first /\ names[name] = {} /\ ~several
  <2>1. a = Suggest(None)
    BY <1>6 DEF Resolve
  <2>2. e \in names[c] => Alias(c) \notin {None, c}
    BY <1>6
  <2> QED
    BY <2>1, <2>2 DEF Suggest, Answers
<1> QED
  BY <1>2, <1>3, <1>4, <1>5, <1>6


-----------------------------------------------------------------------------
(* Listings, the index and the cache. *)

LEMMA OrderIs ==
  /\ 1..4 = {1, 2, 3, 4}
  /\ Order[1] = "event" /\ Order[2] = "prod" /\ Order[3] = "dev" /\ Order[4] = "test"
BY DEF Order

LEMMA ClockIn ==
  ASSUME TypeOK
  PROVE  /\ clock \in Nat /\ TTL \in Nat \ {0} /\ MaxWalk \in Nat /\ clock # None
         /\ \A c \in Items, e \in Envs : changed[<<c, e>>] # None => changed[<<c, e>>] \in Nat
         /\ \A e \in Envs : failed[e] # None => failed[e] \in Nat /\ failed[e] <= clock
<1>1. clock \in 0..MaxTime /\ MaxTime \in Nat
  BY BoundsAssumption DEF TypeOK
<1>2. clock \in Nat
  BY <1>1
<1>3. clock # None
  BY <1>2, NoneAssumption
<1>4. ASSUME NEW c \in Items, NEW e \in Envs, changed[<<c, e>>] # None
      PROVE  changed[<<c, e>>] \in Nat
  <2>1. changed[<<c, e>>] \in 0..clock \cup {None}
    BY DEF TypeOK
  <2> QED
    BY <1>2, <1>4, <2>1
<1>5. ASSUME NEW e \in Envs, failed[e] # None
      PROVE  failed[e] \in Nat /\ failed[e] <= clock
  <2>1. failed[e] \in 0..clock \cup {None}
    BY DEF TypeOK
  <2> QED
    BY <1>2, <1>5, <2>1
<1> QED
  BY <1>2, <1>3, <1>4, <1>5, BoundsAssumption

\* A read or a listing that fails.
LEMMA FailStep ==
  ASSUME TypeOK, NEW down \in Outages, NEW part \in SUBSET down, Fail(part)
  PROVE  /\ down \in SUBSET Envs
         /\ faults' \in 0..MaxFaults
         /\ faults' = 0 => faults = 0 /\ part = {}
         /\ failed' \in [Envs -> 0..clock \cup {None}]
         /\ \A e \in Envs : failed'[e] = IF e \in part THEN clock ELSE failed[e]
<1>1. down \in SUBSET Envs /\ (down # {} => faults < MaxFaults)
  BY FlakyAssumption DEF Outages
<1>2. faults \in 0..MaxFaults /\ MaxFaults \in Nat
  BY BoundsAssumption DEF TypeOK
<1>3. /\ faults' = IF part = {} THEN faults ELSE faults + 1
      /\ failed' = [e \in Envs |-> IF e \in part THEN clock ELSE failed[e]]
  BY DEF Fail
<1>4. faults' \in 0..MaxFaults /\ (faults' = 0 => faults = 0 /\ part = {})
  BY <1>1, <1>2, <1>3
<1>5. clock \in 0..clock
  BY ClockIn
<1>6. failed' \in [Envs -> 0..clock \cup {None}]
  BY <1>3, <1>5 DEF TypeOK
<1> QED
  BY <1>1, <1>3, <1>4, <1>6

\* The catalog and its failures at a time, and a step later: what changes, and
\* what fails, does so now.
Later(pub, ch, fl, pub2, ch2, fl2, now) ==
    /\ \A c \in Items, e \in Envs :
        /\ ch2[<<c, e>>] = now \/ (ch2[<<c, e>>] = ch[<<c, e>>] /\ (e \in pub2[c] <=> e \in pub[c]))
        /\ ch[<<c, e>>] # None => ch[<<c, e>>] \in Nat
    /\ \A e \in Envs :
        /\ fl2[e] = fl[e] \/ fl2[e] = now
        /\ fl[e] # None => fl[e] \in Nat /\ fl[e] <= now
    /\ now \in Nat /\ now # None

LEMMA ToldStays ==
  ASSUME NEW pub, NEW ch, NEW fl, NEW pub2, NEW ch2, NEW fl2, NEW now, Later(pub, ch, fl, pub2, ch2, fl2, now),
         NEW c \in Items, NEW e \in Envs, NEW yes \in BOOLEAN, NEW t \in Int, t <= now,
         Told(pub, ch, fl, c, e, yes, t)
  PROVE  Told(pub2, ch2, fl2, c, e, yes, t)
<1>1. /\ ch2[<<c, e>>] = now \/ (ch2[<<c, e>>] = ch[<<c, e>>] /\ (e \in pub2[c] <=> e \in pub[c]))
      /\ ch[<<c, e>>] # None => ch[<<c, e>>] \in Nat
      /\ fl2[e] = fl[e] \/ fl2[e] = now
      /\ fl[e] # None => fl[e] \in Nat /\ fl[e] <= now
      /\ now \in Nat /\ now # None
  BY DEF Later
<1>2. CASE ch2[<<c, e>>] = now
  BY <1>1, <1>2 DEF Told
<1>3. CASE ch2[<<c, e>>] # now
  <2>1. ch2[<<c, e>>] = ch[<<c, e>>] /\ (e \in pub2[c] <=> e \in pub[c])
    BY <1>1, <1>3
  <2>2. CASE yes <=> e \in pub[c]
    BY <2>1, <2>2 DEF Told
  <2>3. CASE ch[<<c, e>>] # None /\ t <= ch[<<c, e>>]
    BY <2>1, <2>3 DEF Told
  <2>4. CASE ~yes /\ fl[e] # None /\ t <= fl[e]
    <3>1. fl2[e] # None /\ t <= fl2[e]
      BY <1>1, <2>4
    <3> QED
      BY <2>4, <3>1 DEF Told
  <2> QED
    BY <2>2, <2>3, <2>4 DEF Told
<1> QED
  BY <1>2, <1>3

\* What was said before a time was said before any earlier one.
LEMMA ToldEarlier ==
  ASSUME NEW pub, NEW ch, NEW fl, NEW c \in Items, NEW e \in Envs, NEW yes \in BOOLEAN,
         NEW t \in Int, NEW u \in Int, u <= t, Told(pub, ch, fl, c, e, yes, t),
         ch[<<c, e>>] # None => ch[<<c, e>>] \in Nat, fl[e] # None => fl[e] \in Nat
  PROVE  Told(pub, ch, fl, c, e, yes, u)
<1>1. CASE yes <=> e \in pub[c]
  BY <1>1 DEF Told
<1>2. CASE ch[<<c, e>>] # None /\ t <= ch[<<c, e>>]
  <2>1. u <= ch[<<c, e>>]
    BY <1>2
  <2> QED
    BY <1>2, <2>1 DEF Told
<1>3. CASE ~yes /\ fl[e] # None /\ t <= fl[e]
  <2>1. u <= fl[e]
    BY <1>3
  <2> QED
    BY <1>3, <2>1 DEF Told
<1> QED
  BY <1>1, <1>2, <1>3 DEF Told

LEMMA WalkStays ==
  ASSUME NEW pub, NEW ch, NEW fl, NEW pub2, NEW ch2, NEW fl2, NEW now, Later(pub, ch, fl, pub2, ch2, fl2, now),
         NEW w \in Walks, w.since <= now, WalkOk(pub, ch, fl, w)
  PROVE  WalkOk(pub2, ch2, fl2, w)
<1> SUFFICES ASSUME NEW c \in Items, NEW e \in Envs, e \in ListedBy(w)
             PROVE  Told(pub2, ch2, fl2, c, e, e \in w.names[c], w.since)
  BY DEF WalkOk
<1> DEFINE yes == e \in w.names[c]
           t == w.since
<1>1. yes \in BOOLEAN /\ t \in Int /\ t <= now /\ Told(pub, ch, fl, c, e, yes, t)
  BY DEF WalkOk, Walks
<1> HIDE DEF yes, t
<1>2. Told(pub2, ch2, fl2, c, e, yes, t)
  BY <1>1, ToldStays
<1> QED
  BY <1>2 DEF yes, t

LEMMA IndexStays ==
  ASSUME NEW pub, NEW ch, NEW fl, NEW pub2, NEW ch2, NEW fl2, NEW now, Later(pub, ch, fl, pub2, ch2, fl2, now),
         NEW x \in Index, x.at <= now, IndexOk(pub, ch, fl, x)
  PROVE  IndexOk(pub2, ch2, fl2, x)
<1> SUFFICES ASSUME NEW c \in Items, NEW e \in Envs
             PROVE  Told(pub2, ch2, fl2, c, e, e \in x.names[c], x.at - MaxWalk)
  BY DEF IndexOk
<1> DEFINE yes == e \in x.names[c]
           t == x.at - MaxWalk
<1>1. now \in Nat /\ MaxWalk \in Nat /\ x.at \in Nat
  BY BoundsAssumption DEF Later, Index
<1>2. yes \in BOOLEAN /\ t \in Int /\ t <= now
  BY <1>1
<1>3. Told(pub, ch, fl, c, e, yes, t)
  BY DEF IndexOk
<1> HIDE DEF yes, t
<1>4. Told(pub2, ch2, fl2, c, e, yes, t)
  BY <1>2, <1>3, ToldStays
<1> QED
  BY <1>4 DEF yes, t

LEMMA EntryStays ==
  ASSUME NEW pub, NEW ch, NEW fl, NEW pub2, NEW ch2, NEW fl2, NEW now, Later(pub, ch, fl, pub2, ch2, fl2, now),
         NEW c \in Items, NEW e \in Envs, NEW x \in Cached, x.at <= now, EntryOk(pub, ch, fl, c, e, x)
  PROVE  EntryOk(pub2, ch2, fl2, c, e, x)
<1> SUFFICES ASSUME Alias(c) \in {None, c}
             PROVE  Told(pub2, ch2, fl2, c, e, x.answer.exists, x.at + 1 - TTL - MaxWalk)
  BY DEF EntryOk
<1> DEFINE yes == x.answer.exists
           t == x.at + 1 - TTL - MaxWalk
<1>1. now \in Nat /\ MaxWalk \in Nat /\ TTL \in Nat \ {0} /\ x.at \in Nat
  BY BoundsAssumption DEF Later, Cached
<1>2. yes \in BOOLEAN /\ t \in Int /\ t <= now
  BY <1>1 DEF Cached, Answers
<1>3. Told(pub, ch, fl, c, e, yes, t)
  BY DEF EntryOk
<1> HIDE DEF yes, t
<1>4. Told(pub2, ch2, fl2, c, e, yes, t)
  BY <1>2, <1>3, ToldStays
<1> QED
  BY <1>4 DEF yes, t

\* What changes in the catalog, or fails, now does not undo what has been said.
LEMMA SaidStands ==
  ASSUME TypeOK, ListInv, IndexInv, CacheInv, UNCHANGED <<index, cache, walk>>,
         Later(published, changed, failed, published', changed', failed', clock)
  PROVE  ListInv' /\ IndexInv' /\ CacheInv'
<1>1. ASSUME walk # None PROVE WalkOk(published', changed', failed', walk)
  <2>1. walk \in Walks /\ walk.since <= clock /\ WalkOk(published, changed, failed, walk)
    BY <1>1 DEF TypeOK, ListInv
  <2> QED
    BY <2>1, WalkStays
<1>2. ASSUME index # None PROVE IndexOk(published', changed', failed', index)
  <2>1. index \in Index /\ index.at <= clock /\ IndexOk(published, changed, failed, index)
    BY <1>2 DEF TypeOK, IndexInv
  <2> QED
    BY <2>1, IndexStays
<1>3. ASSUME NEW c \in Items, NEW e \in Envs, cache[<<c, e>>] # None
      PROVE  EntryOk(published', changed', failed', c, e, cache[<<c, e>>])
  <2> DEFINE x == cache[<<c, e>>]
  <2>1. x \in Cached /\ x.at <= clock /\ EntryOk(published, changed, failed, c, e, x)
    BY <1>3 DEF TypeOK, CacheInv
  <2> HIDE DEF x
  <2>2. EntryOk(published', changed', failed', c, e, x)
    BY <2>1, EntryStays
  <2> QED
    BY <2>2 DEF x
<1> QED
  BY <1>1, <1>2, <1>3 DEF ListInv, IndexInv, CacheInv

LEMMA FailsLater ==
  ASSUME TypeOK, UNCHANGED <<published, changed>>,
         \A e \in Envs : failed'[e] = failed[e] \/ failed'[e] = clock
  PROVE  Later(published, changed, failed, published', changed', failed', clock)
BY ClockIn DEF Later

\* A step that leaves the catalog and what is cached of it alone.
LEMMA CachesStand ==
  ASSUME TypeOK, CatalogInv, UNCHANGED <<published, changed, moves, index, cache, walk>>,
         \A e \in Envs : failed'[e] = failed[e] \/ failed'[e] = clock,
         faults' = 0 => faults = 0 /\ \A e \in Envs : failed'[e] = failed[e]
  PROVE  CatalogInv'
<1> USE DEF CatalogInv
<1>1. SteadyInv'
  BY DEF SteadyInv
<1>2. ListInv' /\ IndexInv' /\ CacheInv'
  BY FailsLater, SaidStands
<1>3. CachedInv'
  BY DEF CachedInv, Steady
<1> QED
  BY <1>1, <1>2, <1>3

\* The request, of which nothing changes while the catalog is listed.
LEMMA RequestStands ==
  ASSUME RequestInv, UNCHANGED <<published, rows, uploaded, req, verdict>>, Steady' => Steady
  PROVE  RequestInv'
<1> USE DEF RequestInv
<1>1. AnswersInv'
  BY DEF AnswersInv, Met, Names
<1>2. LimitsInv' /\ SchemasInv'
  BY DEF LimitsInv, SchemasInv, HasLimit, HasSchema, Readable, Looked
<1>3. AssetsInv'
  BY DEF AssetsInv, Unasked
<1>4. WalkInv' /\ VerdictInv'
  BY DEF WalkInv, VerdictInv, Word, Looked, Found, NamesFound, UsersFound, RegionsFound, DeployAdmits,
         DeployRefuses, QAFound, Names, Right, Limited, Misplaced, HasLimit, HasSchema, Readable, Canonical,
         IsPublished
<1> QED
  BY <1>1, <1>2, <1>3, <1>4

LEMMA ListedNext ==
  ASSUME NEW w \in Walks
  PROVE  /\ Order[w.next] \in Envs /\ Order[w.next] \notin ListedBy(w)
         /\ w.next # 4 => \A v \in Walks : v.next = w.next + 1 => ListedBy(v) = ListedBy(w) \cup {Order[w.next]}
         /\ w.next = 4 => Envs = ListedBy(w) \cup {Order[w.next]}
<1>1. w.next \in {1, 2, 3, 4}
  BY OrderIs DEF Walks
<1>2. /\ Order[1] = "event" /\ Order[2] = "prod" /\ Order[3] = "dev" /\ Order[4] = "test"
  BY OrderIs
<1>3. /\ 1..0 = {} /\ 1..1 = {1} /\ 1..2 = {1, 2} /\ 1..3 = {1, 2, 3}
  OBVIOUS
<1>4. CASE w.next = 1
  <2>1. ListedBy(w) = {}
    BY <1>3, <1>4 DEF ListedBy
  <2>2. \A v \in Walks : v.next = 2 => ListedBy(v) = {"event"}
    BY <1>2, <1>3 DEF ListedBy
  <2> QED
    BY <1>2, <1>4, <2>1, <2>2 DEF Envs
<1>5. CASE w.next = 2
  <2>1. ListedBy(w) = {"event"}
    BY <1>2, <1>3, <1>5 DEF ListedBy
  <2>2. \A v \in Walks : v.next = 3 => ListedBy(v) = {"event", "prod"}
    BY <1>2, <1>3 DEF ListedBy
  <2> QED
    BY <1>2, <1>5, <2>1, <2>2 DEF Envs
<1>6. CASE w.next = 3
  <2>1. ListedBy(w) = {"event", "prod"}
    BY <1>2, <1>3, <1>6 DEF ListedBy
  <2>2. \A v \in Walks : v.next = 4 => ListedBy(v) = {"event", "prod", "dev"}
    BY <1>2, <1>3 DEF ListedBy
  <2> QED
    BY <1>2, <1>6, <2>1, <2>2 DEF Envs
<1>7. CASE w.next = 4
  <2>1. ListedBy(w) = {"event", "prod", "dev"}
    BY <1>2, <1>3, <1>7 DEF ListedBy
  <2> QED
    BY <1>2, <1>7, <2>1 DEF Envs
<1> QED
  BY <1>1, <1>4, <1>5, <1>6, <1>7

\* The listings so far, of which there may be none.
LEMMA WalkFromIn ==
  ASSUME TypeOK, ListInv
  PROVE  /\ WalkFrom \in Walks /\ WalkFrom.since <= clock /\ clock <= WalkFrom.since + MaxWalk
         /\ WalkOk(published, changed, failed, WalkFrom)
<1>1. CASE walk = None
  <2> DEFINE w == [since |-> clock, next |-> 1, names |-> [c \in Items |-> {}]]
  <2>1. WalkFrom = w
    BY <1>1 DEF WalkFrom
  <2>2. clock \in Nat /\ MaxWalk \in Nat
    BY ClockIn
  <2>3. w \in Walks /\ w.since <= clock /\ clock <= w.since + MaxWalk
    BY <2>2 DEF Walks
  <2>4. 1..0 = {}
    OBVIOUS
  <2>5. ListedBy(w) = {}
    BY <2>4 DEF ListedBy
  <2>6. WalkOk(published, changed, failed, w)
    BY <2>5 DEF WalkOk
  <2> QED
    BY <2>1, <2>3, <2>6
<1>2. CASE walk # None
  BY <1>2 DEF WalkFrom, TypeOK, ListInv
<1> QED
  BY <1>1, <1>2

\* What is known of the names after the next listing.
NamesAfter(w, down) == [c \in Items |-> w.names[c] \cup ((published[c] \cap {Order[w.next]}) \ down)]

\* What a listing finds is so, if it does not fail.
LEMMA ListingIsOk ==
  ASSUME TypeOK, NEW w \in Walks, w.since <= clock, WalkOk(published, changed, failed, w),
         NEW down \in SUBSET Envs, NEW names \in [Items -> SUBSET Envs],
         names = NamesAfter(w, down),
         NEW fl, \A e \in Envs : fl[e] = IF e \in down \cap {Order[w.next]} THEN clock ELSE failed[e]
  PROVE  \A c \in Items, e \in Envs :
            IF e \in ListedBy(w) \cup {Order[w.next]} THEN Told(published, changed, fl, c, e, e \in names[c], w.since)
            ELSE e \notin names[c]
<1> SUFFICES ASSUME NEW c \in Items, NEW e \in Envs
             PROVE  IF e \in ListedBy(w) \cup {Order[w.next]}
                    THEN Told(published, changed, fl, c, e, e \in names[c], w.since)
                    ELSE e \notin names[c]
  OBVIOUS
<1> DEFINE env == Order[w.next]
<1>1. env \in Envs /\ env \notin ListedBy(w)
  BY ListedNext
<1>2. names[c] = w.names[c] \cup ((published[c] \cap {env}) \ down)
  BY DEF NamesAfter
<1>3. Later(published, changed, failed, published, changed, fl, clock)
  BY ClockIn DEF Later
<1> HIDE DEF env
<1>4. CASE e = env
  <2>1. e \notin w.names[c]
    BY <1>1, <1>4 DEF WalkOk
  <2>2. e \in names[c] <=> e \in published[c] /\ e \notin down
    BY <1>2, <1>4, <2>1
  <2>3. CASE e \notin down
    <3>1. Told(published, changed, fl, c, e, e \in names[c], w.since)
      BY <2>2, <2>3 DEF Told
    <3> QED
      BY <1>4, <3>1 DEF env
  <2>4. CASE e \in down
    <3>1. fl[e] = clock /\ clock # None
      BY <1>4, <2>4, ClockIn DEF env
    <3>2. Told(published, changed, fl, c, e, e \in names[c], w.since)
      BY <2>2, <2>4, <3>1 DEF Told
    <3> QED
      BY <1>4, <3>2 DEF env
  <2> QED
    BY <2>3, <2>4
<1>5. CASE e # env /\ e \in ListedBy(w)
  <2> DEFINE yes == e \in w.names[c]
             t == w.since
  <2>1. yes \in BOOLEAN /\ t \in Int /\ t <= clock
    BY DEF Walks
  <2>2. Told(published, changed, failed, c, e, yes, t)
    BY <1>5 DEF WalkOk
  <2> HIDE DEF yes, t
  <2>3. Told(published, changed, fl, c, e, yes, t)
    BY <1>3, <2>1, <2>2, ToldStays
  <2>4. Told(published, changed, fl, c, e, e \in w.names[c], w.since)
    BY <2>3 DEF yes, t
  <2>5. e \in names[c] <=> e \in w.names[c]
    BY <1>2, <1>5
  <2>6. Told(published, changed, fl, c, e, e \in names[c], w.since)
    BY <2>4, <2>5 DEF Told
  <2> QED
    BY <1>5, <2>6
<1>6. CASE e # env /\ e \notin ListedBy(w)
  <2>1. e \notin w.names[c]
    BY <1>6 DEF WalkOk
  <2> QED
    BY <1>2, <1>6, <2>1 DEF env
<1> QED
  BY <1>4, <1>5, <1>6

LEMMA ListStep ==
  ASSUME IInv, List
  PROVE  IInv'
<1> USE DEF IInv, CatalogInv
<1> DEFINE w == WalkFrom
           env == Order[w.next]
<1>1. PICK down \in Outages :
        /\ walk' = IF w.next = 4 THEN None ELSE [w EXCEPT !.next = @ + 1, !.names = NamesAfter(w, down)]
        /\ index' = IF w.next = 4 THEN [at |-> clock, names |-> NamesAfter(w, down)] ELSE index
        /\ Fail(down \cap {env})
  BY DEF List, IndexOf, NamesAfter
<1> DEFINE names == NamesAfter(w, down)
<1>2. UNCHANGED <<published, changed, moves, clients, clock, rows, uploaded, cache, req, verdict>>
  BY DEF List, world
<1>3. /\ w \in Walks /\ w.since <= clock /\ clock <= w.since + MaxWalk
      /\ WalkOk(published, changed, failed, w)
  BY WalkFromIn
<1> HIDE DEF w
<1>4. env \in Envs /\ down \cap {env} \in SUBSET down
  BY <1>3, ListedNext
<1>5. /\ down \in SUBSET Envs
      /\ faults' \in 0..MaxFaults
      /\ faults' = 0 => faults = 0 /\ down \cap {env} = {}
      /\ failed' \in [Envs -> 0..clock \cup {None}]
      /\ \A e \in Envs : failed'[e] = IF e \in down \cap {env} THEN clock ELSE failed[e]
  BY <1>1, <1>4, FailStep
<1>6. names \in [Items -> SUBSET Envs] /\ names = NamesAfter(w, down)
  BY <1>3, <1>5 DEF TypeOK, Walks, NamesAfter
<1> HIDE DEF names
<1>7. \A c \in Items, e \in Envs :
        IF e \in ListedBy(w) \cup {env} THEN Told(published, changed, failed', c, e, e \in names[c], w.since)
        ELSE e \notin names[c]
  BY <1>3, <1>5, <1>6, ListingIsOk DEF env
<1>8. clock \in Nat /\ MaxWalk \in Nat /\ w.since \in Nat /\ w.next \in 1..4
  BY <1>3, ClockIn DEF Walks
<1>9. /\ \A c \in Items, e \in Envs : changed[<<c, e>>] # None => changed[<<c, e>>] \in Nat
      /\ \A e \in Envs : failed'[e] # None => failed'[e] \in Nat
  <2>1. ASSUME NEW e \in Envs, failed'[e] # None PROVE failed'[e] \in Nat
    BY <1>5, <1>8, <2>1, ClockIn
  <2> QED
    BY <2>1, ClockIn
<1> HIDE DEF env
<1>10. Later(published, changed, failed, published', changed', failed', clock)
  BY <1>2, <1>5, FailsLater
<1>11. SteadyInv'
  BY <1>2, <1>5 DEF SteadyInv
<1>12. CachedInv' /\ CacheInv'
  <2>1. CachedInv'
    BY <1>2, <1>5 DEF CachedInv, Steady
  <2>2. ASSUME NEW c \in Items, NEW e \in Envs, cache[<<c, e>>] # None
        PROVE  EntryOk(published', changed', failed', c, e, cache[<<c, e>>])
    <3> DEFINE x == cache[<<c, e>>]
    <3>1. x \in Cached /\ x.at <= clock /\ EntryOk(published, changed, failed, c, e, x)
      BY <2>2 DEF TypeOK, CacheInv
    <3> HIDE DEF x
    <3>2. EntryOk(published', changed', failed', c, e, x)
      BY <1>10, <3>1, EntryStays
    <3> QED
      BY <3>2 DEF x
  <2>3. CacheInv'
    BY <1>2, <2>2 DEF CacheInv
  <2> QED
    BY <2>1, <2>3
<1>13. ASSUME w.next # 4 PROVE TypeOK' /\ ListInv' /\ IndexInv'
  <2> DEFINE v == [w EXCEPT !.next = @ + 1, !.names = names]
  <2>1. walk' = v /\ index' = index
    BY <1>1, <1>13 DEF names, env
  <2>2. v \in Walks /\ v.since = w.since /\ v.next = w.next + 1 /\ v.names = names
    <3>1. w.next + 1 \in 1..4
      BY <1>8, <1>13
    <3> QED
      BY <1>3, <1>6, <3>1 DEF Walks
  <2> HIDE DEF v
  <2>3. ListedBy(v) = ListedBy(w) \cup {env}
    BY <1>3, <1>13, <2>2, ListedNext DEF env
  <2>4. WalkOk(published', changed', failed', v)
    BY <1>2, <1>7, <2>2, <2>3 DEF WalkOk
  <2>5. ListInv'
    BY <2>1, <2>4 DEF ListInv
  <2>6. ASSUME index # None PROVE IndexOk(published', changed', failed', index)
    <3>1. index \in Index /\ index.at <= clock /\ IndexOk(published, changed, failed, index)
      BY <2>6 DEF TypeOK, IndexInv
    <3> QED
      BY <1>10, <3>1, IndexStays
  <2>7. IndexInv'
    BY <2>1, <2>6 DEF IndexInv
  <2>8. TypeOK'
    <3>1. walk' \in Walks /\ walk'.since <= clock /\ clock <= walk'.since + MaxWalk
      BY <1>3, <2>1, <2>2
    <3> QED
      BY <1>2, <1>5, <2>1, <3>1 DEF TypeOK, Requests
  <2> QED
    BY <2>5, <2>7, <2>8
<1>14. ASSUME w.next = 4 PROVE TypeOK' /\ ListInv' /\ IndexInv'
  <2> DEFINE x == [at |-> clock, names |-> names]
  <2>1. walk' = None /\ index' = x
    BY <1>1, <1>14 DEF names, env
  <2>2. x \in Index /\ x.at = clock /\ x.names = names /\ x # None
    <3>1. x \in Index
      BY <1>6, <1>8 DEF Index
    <3> QED
      BY <3>1, NoneAssumption
  <2> HIDE DEF x
  <2>3. Envs = ListedBy(w) \cup {env}
    BY <1>3, <1>14, ListedNext DEF env
  <2>4. ASSUME NEW c \in Items, NEW e \in Envs
        PROVE  Told(published, changed, failed', c, e, e \in x.names[c], x.at - MaxWalk)
    <3> DEFINE yes == e \in names[c]
               t == w.since
               u == clock - MaxWalk
    <3>1. Told(published, changed, failed', c, e, yes, t)
      BY <1>7, <2>3
    <3>2. yes \in BOOLEAN /\ t \in Int /\ u \in Int /\ u <= t
      BY <1>3, <1>8
    <3> HIDE DEF yes, t, u
    <3>3. Told(published, changed, failed', c, e, yes, u)
      BY <1>9, <3>1, <3>2, ToldEarlier
    <3> QED
      BY <2>2, <3>3 DEF yes, u
  <2>5. IndexOk(published', changed', failed', x)
    BY <1>2, <2>4 DEF IndexOk
  <2>6. IndexInv' /\ ListInv'
    BY <2>1, <2>5 DEF IndexInv, ListInv
  <2>7. TypeOK'
    <3>1. index' \in Index /\ index'.at <= clock
      BY <1>8, <2>1, <2>2
    <3> QED
      BY <1>2, <1>5, <2>1, <3>1 DEF TypeOK, Requests
  <2> QED
    BY <2>6, <2>7
<1>15. RequestInv'
  <2>1. Steady' => Steady
    BY <1>2, <1>5 DEF Steady
  <2> QED
    BY <1>2, <2>1, RequestStands
<1> QED
  BY <1>11, <1>12, <1>13, <1>14, <1>15


-----------------------------------------------------------------------------
(* Rows and requests. *)

LEMMA RowIn ==
  ASSUME TypeOK, NEW i \in DOMAIN rows
  PROVE  /\ rows[i] \in Row
         /\ rows[i].ci \in Items
         /\ rows[i].assets \in SUBSET Items
         /\ rows[i].ns \in Envs \cup {None}
         /\ rows[i].users \in Nat
         /\ \A kind \in Kinds : Names(kind, rows[i]) \subseteq Items
<1>1. rows[i] \in Row
  BY DEF TypeOK
<1>2. /\ rows[i].ci \in Items /\ rows[i].assets \in SUBSET Items
      /\ rows[i].ns \in Envs \cup {None} /\ rows[i].users \in Nat
  BY <1>1 DEF Row
<1> QED
  BY <1>1, <1>2 DEF Names

LEMMA ReqIn ==
  ASSUME TypeOK
  PROVE  /\ Len(rows) \in Nat /\ DOMAIN rows = 1..Len(rows)
         /\ req.kind \in Kinds \cup {"none"}
         /\ req.row \in Nat /\ 1 <= req.row /\ req.row <= Len(rows) + 1
         /\ req.answers \in [Items -> Answers \cup {None}]
         /\ req.limits \in [Items -> BOOLEAN \cup {None}]
         /\ req.schemas \in [Items -> BOOLEAN \cup {None}]
         /\ req.bad \in BOOLEAN
<1>1. rows \in Seq(Row) /\ req \in Requests
  BY DEF TypeOK
<1>2. Len(rows) \in Nat /\ DOMAIN rows = 1..Len(rows)
  BY <1>1
<1>3. req.row \in 1..(Len(rows) + 1)
  BY <1>1 DEF Requests
<1> QED
  BY <1>1, <1>2, <1>3 DEF Requests

LEMMA LookedIn ==
  ASSUME TypeOK
  PROVE  /\ Looked \subseteq DOMAIN rows /\ Looked \subseteq Met
         /\ req.row > Len(rows) => Looked = DOMAIN rows
         /\ req.row \notin Looked
         /\ req.row \in DOMAIN rows => req.row \in Met /\ Met = Looked \cup {req.row}
         /\ req'.row = req.row + 1 => Looked' = Looked \cup {req.row}
<1>1. Len(rows) \in Nat /\ DOMAIN rows = 1..Len(rows) /\ req.row \in Nat /\ 1 <= req.row /\ req.row <= Len(rows) + 1
  BY ReqIn
<1> QED
  BY <1>1 DEF Looked, Met

\* What the catalog answers, and what is concluded from it, depends on nothing
\* but the catalog and the rows.
LEMMA WalkStands ==
  ASSUME UNCHANGED <<published, rows>>, Steady' => Found(req'.kind, Word', Looked')
  PROVE  WalkInv'
BY DEF WalkInv, Found, NamesFound, UsersFound, RegionsFound, DeployAdmits, DeployRefuses, QAFound, Right, Limited,
       Misplaced, Names, HasLimit, HasSchema, Readable, Canonical, IsPublished

LEMMA VerdictsAfter ==
  ASSUME UNCHANGED <<published, rows>>, Steady' => \A k \in Kinds : Found(k, verdict'[k], DOMAIN rows)
  PROVE  VerdictInv'
BY DEF VerdictInv, Found, NamesFound, UsersFound, RegionsFound, DeployAdmits, DeployRefuses, QAFound, Right, Limited,
       Misplaced, Names, HasLimit, HasSchema, Readable, Canonical, IsPublished

LEMMA VerdictsStand ==
  ASSUME VerdictInv, UNCHANGED <<published, rows, verdict>>, Steady' => Steady
  PROVE  VerdictInv'
BY VerdictsAfter DEF VerdictInv

\* An answer is of this moment, or was cached not TTL ago.
LEMMA AnswerStep ==
  ASSUME TypeOK, CatalogInv, NEW c \in Items, NEW ns \in Envs, Fresh(index) \/ Fresh(cache[<<c, ns>>])
  PROVE  LET a == Answer(c, ns) IN
         /\ a \in Answers
         /\ Steady => a = Resolve(c, ns, published)
         /\ Alias(c) \in {None, c} =>
              Told(published, changed, failed, c, ns, a.exists, clock + 2 - 2 * TTL - MaxWalk)
         /\ Alias(c) \in {None, c} /\ ~Fresh(cache[<<c, ns>>]) =>
              Told(published, changed, failed, c, ns, a.exists, clock + 1 - TTL - MaxWalk)
<1> USE DEF CatalogInv
<1> DEFINE a == Answer(c, ns)
           late == clock + 2 - 2 * TTL - MaxWalk
           soon == clock + 1 - TTL - MaxWalk
<1>1. /\ clock \in Nat /\ TTL \in Nat \ {0} /\ MaxWalk \in Nat
      /\ changed[<<c, ns>>] # None => changed[<<c, ns>>] \in Nat
      /\ failed[ns] # None => failed[ns] \in Nat
  BY ClockIn
<1>2. CASE Fresh(cache[<<c, ns>>])
  <2> DEFINE x == cache[<<c, ns>>]
             time == x.at + 1 - TTL - MaxWalk
             yes == a.exists
  <2>1. a = x.answer /\ x # None /\ clock - x.at < TTL
    BY <1>2 DEF Answer, Fresh
  <2>2. x \in Cached
    BY <2>1 DEF TypeOK
  <2>3. x.at \in Nat /\ a \in Answers /\ yes \in BOOLEAN
    BY <2>1, <2>2 DEF Cached, Answers
  <2>4. ASSUME Steady PROVE a = Resolve(c, ns, published)
    BY <2>1, <2>4 DEF CachedInv
  <2>5. ASSUME Alias(c) \in {None, c} PROVE Told(published, changed, failed, c, ns, yes, time)
    BY <2>1, <2>5 DEF CacheInv, EntryOk
  <2>6. time \in Int /\ late \in Int /\ late <= time
    BY <1>1, <2>1, <2>3
  <2> HIDE DEF a, yes, time, late, x
  <2>7. ASSUME Alias(c) \in {None, c} PROVE Told(published, changed, failed, c, ns, yes, late)
    BY <1>1, <2>3, <2>5, <2>6, <2>7, ToldEarlier
  <2> QED
    BY <1>2, <2>3, <2>4, <2>7 DEF a, yes, late
<1>3. CASE ~Fresh(cache[<<c, ns>>])
  <2> DEFINE yes == ns \in index.names[c]
             time == index.at - MaxWalk
  <2>1. a = Resolve(c, ns, index.names) /\ index # None /\ clock - index.at < TTL
    BY <1>3 DEF Answer, Fresh
  <2>2. index \in Index
    BY <2>1 DEF TypeOK
  <2>3. index.at \in Nat /\ index.names \in [Items -> SUBSET Envs] /\ yes \in BOOLEAN
    BY <2>2 DEF Index
  <2>4. /\ a \in Answers /\ (a.exists => yes)
        /\ (yes /\ Alias(c) \in {None, c}) => a.exists
    BY <2>1, <2>3, Resolved
  <2>5. Told(published, changed, failed, c, ns, yes, time)
    BY <2>1 DEF IndexInv, IndexOk
  <2>6. ASSUME Steady PROVE index.names = published
    <3>1. ASSUME NEW d \in Items, NEW e \in Envs PROVE e \in index.names[d] <=> e \in published[d]
      <4>1. changed[<<d, e>>] = None /\ failed[e] = None
        BY <2>6 DEF SteadyInv, Steady
      <4>2. Told(published, changed, failed, d, e, e \in index.names[d], time)
        BY <2>1 DEF IndexInv, IndexOk
      <4> QED
        BY <4>1, <4>2 DEF Told
    <3>2. published \in [Items -> SUBSET Envs]
      BY DEF TypeOK
    <3>3. \A d \in Items : index.names[d] = published[d]
      BY <2>3, <3>1, <3>2
    <3> QED
      BY <2>3, <3>2, <3>3
  <2>7. time \in Int /\ late \in Int /\ soon \in Int /\ late <= time /\ soon <= time
    BY <1>1, <2>1, <2>3
  <2>8. Steady => a = Resolve(c, ns, published)
    BY <2>1, <2>6
  <2> HIDE DEF a, yes, time, late, soon
  <2>9. /\ Told(published, changed, failed, c, ns, yes, late)
        /\ Told(published, changed, failed, c, ns, yes, soon)
    <3>1. ASSUME NEW u \in Int, u <= time PROVE Told(published, changed, failed, c, ns, yes, u)
      BY <1>1, <2>3, <2>5, <2>7, <3>1, ToldEarlier
    <3> QED
      BY <2>7, <3>1
  <2>10. ASSUME Alias(c) \in {None, c}
         PROVE  /\ Told(published, changed, failed, c, ns, a.exists, late)
                /\ Told(published, changed, failed, c, ns, a.exists, soon)
    <3>1. a.exists \in BOOLEAN /\ (a.exists <=> yes)
      BY <2>4, <2>10 DEF Answers
    <3> QED
      BY <2>9, <3>1 DEF Told
  <2> QED
    BY <2>4, <2>8, <2>10 DEF a, late, soon
<1> QED
  BY <1>2, <1>3

-----------------------------------------------------------------------------
(* Looking up names. *)

\* What does not depend on what the request knows of the names.
LEMMA AnswersApart ==
  ASSUME RequestInv, UNCHANGED <<published, rows, uploaded, verdict>>, Steady' => Steady,
         req'.kind = req.kind, req'.row = req.row, req'.bad = req.bad,
         req'.limits = req.limits, req'.schemas = req.schemas
  PROVE  LimitsInv' /\ SchemasInv' /\ AssetsInv' /\ WalkInv' /\ VerdictInv'
<1> USE DEF RequestInv
<1>1. LimitsInv' /\ SchemasInv'
  BY DEF LimitsInv, SchemasInv, HasLimit, HasSchema, Readable, Looked
<1>2. AssetsInv'
  BY DEF AssetsInv, Unasked
<1>3. WalkInv'
  BY WalkStands DEF WalkInv, Word, Looked
<1>4. VerdictInv'
  BY VerdictsStand
<1> QED
  BY <1>1, <1>2, <1>3, <1>4

LEMMA LookUpStep ==
  ASSUME IInv, LookUp
  PROVE  IInv'
<1> USE DEF IInv, CatalogInv
<1> DEFINE row == rows[req.row]
<1>1. PICK c \in Unknown :
        /\ Fresh(index) \/ (~Prefetch /\ Fresh(cache[Key(c)]))
        /\ req' = [req EXCEPT !.answers[c] = Answer(c, Key(c)[2])]
        /\ cache' = CacheAfter(c, Key(c)[2], Answer(c, Key(c)[2]))
        /\ UNCHANGED <<world, clock, rows, uploaded, index, walk, verdict, failed, faults>>
  BY DEF LookUp
<1> DEFINE ns == CatalogNamespace(c, row.ns)
           a == Answer(c, ns)
<1>2. /\ req.row \in DOMAIN rows /\ req.kind \in {"names", "deploy", "qa"}
      /\ c \in Names(req.kind, row) /\ req.answers[c] = None
  BY <1>1, ReqIn DEF Unknown, Walking
<1>3. c \in Items /\ ns \in Envs
  <2>1. c \in Items
    BY <1>2, RowIn DEF Kinds
  <2> QED
    BY <1>2, <2>1, RowIn, NamespaceIn
<1>4. /\ Key(c) = <<c, ns>>
      /\ req' = [req EXCEPT !.answers[c] = a]
      /\ cache' = CacheAfter(c, ns, a)
      /\ UNCHANGED <<published, changed, moves, clients, clock, rows, uploaded, index, walk, verdict, failed, faults>>
  BY <1>1 DEF Key, world
<1>5. /\ a \in Answers
      /\ Steady => a = Resolve(c, ns, published)
      /\ Alias(c) \in {None, c} /\ ~Fresh(cache[<<c, ns>>]) =>
           Told(published, changed, failed, c, ns, a.exists, clock + 1 - TTL - MaxWalk)
  BY <1>1, <1>3, <1>4, AnswerStep
<1>6. a # None
  BY <1>5, NoneAssumption
<1> HIDE DEF a, ns
<1>7. /\ req'.kind = req.kind /\ req'.row = req.row /\ req'.bad = req.bad
      /\ req'.limits = req.limits /\ req'.schemas = req.schemas
      /\ req'.answers = [req.answers EXCEPT ![c] = a]
      /\ req' \in Requests'
  <2>1. req \in Requests
    BY DEF TypeOK
  <2> QED
    BY <1>3, <1>4, <1>5, <2>1 DEF Requests
<1>8. req'.answers[c] = a /\ \A d \in Items : d # c => req'.answers[d] = req.answers[d]
  BY <1>3, <1>7, ReqIn
<1>9. cache' \in [Items \X Envs -> Cached \cup {None}] /\ CachedInv' /\ CacheInv'
      /\ \A d \in Items, e \in Envs : cache'[<<d, e>>] # None => cache'[<<d, e>>].at <= clock
  <2>1. CASE Fresh(cache[<<c, ns>>])
    <3>1. cache' = cache
      BY <1>4, <2>1 DEF CacheAfter
    <3> QED
      BY <1>4, <3>1 DEF CachedInv, CacheInv, Steady, TypeOK
  <2>2. CASE ~Fresh(cache[<<c, ns>>])
    <3> DEFINE entry == [at |-> clock, answer |-> a]
    <3>1. cache' = [cache EXCEPT ![<<c, ns>>] = entry]
      BY <1>4, <2>2 DEF CacheAfter
    <3>2. entry \in Cached /\ entry.at = clock /\ entry.answer = a
      BY <1>5, ClockIn DEF Cached
    <3>3. EntryOk(published, changed, failed, c, ns, entry)
      BY <1>5, <2>2, <3>2 DEF EntryOk
    <3> HIDE DEF entry
    <3>4. cache \in [Items \X Envs -> Cached \cup {None}]
      BY DEF TypeOK
    <3>5. /\ cache' \in [Items \X Envs -> Cached \cup {None}]
          /\ \A d \in Items, e \in Envs : cache'[<<d, e>>] = IF d = c /\ e = ns THEN entry ELSE cache[<<d, e>>]
      BY <1>3, <3>1, <3>2, <3>4
    <3>6. ASSUME NEW d \in Items, NEW e \in Envs, cache'[<<d, e>>] # None
          PROVE  cache'[<<d, e>>].at <= clock /\ EntryOk(published, changed, failed, d, e, cache'[<<d, e>>])
      <4>1. CASE d = c /\ e = ns
        BY <3>2, <3>3, <3>5, <4>1, ClockIn
      <4>2. CASE ~(d = c /\ e = ns)
        BY <3>5, <3>6, <4>2 DEF TypeOK, CacheInv
      <4> QED
        BY <4>1, <4>2
    <3>7. CacheInv'
      BY <1>4, <3>6 DEF CacheInv
    <3>8. ASSUME Steady', NEW d \in Items, NEW e \in Envs, cache'[<<d, e>>] # None
          PROVE  cache'[<<d, e>>].answer = Resolve(d, e, published)
      <4>1. Steady
        BY <1>4, <3>8 DEF Steady
      <4>2. CASE d = c /\ e = ns
        BY <1>5, <3>2, <3>5, <4>1, <4>2
      <4>3. CASE ~(d = c /\ e = ns)
        BY <3>5, <3>8, <4>1, <4>3 DEF CachedInv
      <4> QED
        BY <4>2, <4>3
    <3>9. CachedInv'
      BY <1>4, <3>8 DEF CachedInv
    <3> QED
      BY <3>5, <3>6, <3>7, <3>9
  <2> QED
    BY <2>1, <2>2
<1>10. SteadyInv' /\ ListInv' /\ IndexInv'
  BY <1>4 DEF SteadyInv, ListInv, IndexInv
<1>11. TypeOK'
  BY <1>4, <1>7, <1>9 DEF TypeOK
<1>12. AnswersInv'
  <2> SUFFICES ASSUME Steady', NEW d \in Items, req'.answers[d] # None
               PROVE  /\ \E e \in Envs : req'.answers[d] = Resolve(d, e, published)
                      /\ (req.kind # "deploy" \/ req'.answers[d].exists \/ Nothing(req'.answers[d])) =>
                            \E f \in Met : /\ d \in Names(req.kind, rows[f])
                                           /\ req'.answers[d] = Resolve(d, CatalogNamespace(d, rows[f].ns), published)
    BY <1>4, <1>7 DEF AnswersInv, Met, Nothing, Names
  <2>1. Steady
    BY <1>4 DEF Steady
  <2>2. CASE d = c
    <3>1. req.row \in Met
      BY <1>2, LookedIn
    <3> QED
      BY <1>2, <1>3, <1>5, <1>8, <2>1, <2>2, <3>1 DEF ns
  <2>3. CASE d # c
    <3>1. req'.answers[d] = req.answers[d]
      BY <1>8, <2>3
    <3> QED
      BY <2>1, <3>1 DEF RequestInv, AnswersInv
  <2> QED
    BY <2>2, <2>3
<1>13. LimitsInv' /\ SchemasInv' /\ AssetsInv' /\ WalkInv' /\ VerdictInv'
  BY <1>4, <1>7, AnswersApart DEF Steady
<1> QED
  BY <1>9, <1>10, <1>11, <1>12, <1>13 DEF RequestInv

-----------------------------------------------------------------------------
(* Reports. *)

\* A step from one row to the next that looks no name up.
LEMMA QuietStep ==
  ASSUME IInv, req.row \in DOMAIN rows, req'.kind = req.kind, req'.answers = req.answers, req'.row = req.row + 1,
         UNCHANGED <<published, changed, moves, clients, clock, rows, uploaded, index, cache, walk, verdict>>,
         \A e \in Envs : failed'[e] = failed[e] \/ failed'[e] = clock,
         faults' = 0 => faults = 0 /\ \A e \in Envs : failed'[e] = failed[e]
  PROVE  /\ CatalogInv' /\ AnswersInv' /\ AssetsInv' /\ VerdictInv'
         /\ Steady' => Steady
         /\ Looked' = Looked \cup {req.row} /\ Looked' = Met
<1> USE DEF IInv, RequestInv
<1>1. CatalogInv'
  BY CachesStand
<1>2. Steady' => Steady
  BY DEF Steady
<1>3. Looked' = Looked \cup {req.row} /\ Looked' = Met /\ Met \subseteq Met'
  <2>1. Met \subseteq Met'
    BY ReqIn DEF Met
  <2> QED
    BY <2>1, LookedIn
<1>4. AnswersInv'
  <2> SUFFICES ASSUME Steady', NEW c \in Items, req.answers[c] # None
               PROVE  /\ \E e \in Envs : req.answers[c] = Resolve(c, e, published)
                      /\ (req.kind # "deploy" \/ req.answers[c].exists \/ Nothing(req.answers[c])) =>
                            \E f \in Met' : /\ c \in Names(req.kind, rows[f])
                                            /\ req.answers[c] = Resolve(c, CatalogNamespace(c, rows[f].ns), published)
    BY DEF AnswersInv, Nothing, Names
  <2> QED
    BY <1>2, <1>3 DEF AnswersInv
<1>5. AssetsInv'
  BY DEF AssetsInv, Unasked
<1>6. VerdictInv'
  BY <1>2, VerdictsStand
<1> QED
  BY <1>1, <1>2, <1>3, <1>4, <1>5, <1>6

\* The same if something may have failed.
LEMMA FailingStep ==
  ASSUME IInv, req.row \in DOMAIN rows, req'.kind = req.kind, req'.answers = req.answers, req'.row = req.row + 1,
         UNCHANGED <<published, changed, moves, clients, clock, rows, uploaded, index, cache, walk, verdict>>,
         NEW down \in Outages, Fail(down)
  PROVE  /\ CatalogInv' /\ AnswersInv' /\ AssetsInv' /\ VerdictInv'
         /\ Steady' => Steady /\ down = {}
         /\ Looked' = Looked \cup {req.row}
         /\ faults' \in 0..MaxFaults /\ failed' \in [Envs -> 0..clock \cup {None}]
<1>1. /\ faults' \in 0..MaxFaults
      /\ faults' = 0 => faults = 0 /\ down = {}
      /\ failed' \in [Envs -> 0..clock \cup {None}]
      /\ \A e \in Envs : failed'[e] = IF e \in down THEN clock ELSE failed[e]
  <2>1. down \in SUBSET down
    OBVIOUS
  <2> QED
    BY <2>1, FailStep DEF IInv
<1>2. /\ CatalogInv' /\ AnswersInv' /\ AssetsInv' /\ VerdictInv'
      /\ Steady' => Steady
      /\ Looked' = Looked \cup {req.row}
  BY <1>1, QuietStep
<1> QED
  BY <1>1, <1>2 DEF Steady

\* What is read of the limits of some items.
LEMMA LimitsStep ==
  ASSUME TypeOK, LimitsInv, NEW names \in SUBSET Items, NEW down, req'.limits = LimitsAfter(names, down),
         published' = published, Steady' => Steady /\ down = {}
  PROVE  /\ LimitsInv'
         /\ req'.limits \in [Items -> BOOLEAN \cup {None}]
         /\ Steady' => \A c \in names : req'.limits[c] = HasLimit(c, {})
<1>1. req.limits \in [Items -> BOOLEAN \cup {None}]
  BY ReqIn
<1>2. \A c \in Items : HasLimit(c, down) \in BOOLEAN
  BY DEF HasLimit, Readable
<1>3. /\ req'.limits \in [Items -> BOOLEAN \cup {None}]
      /\ \A c \in Items : req'.limits[c] = IF c \in names THEN Kept(req.limits[c], HasLimit(c, down)) ELSE req.limits[c]
  BY <1>1, <1>2 DEF LimitsAfter, Kept
<1>4. ASSUME Steady', NEW c \in names PROVE req'.limits[c] = HasLimit(c, {})
  BY <1>3, <1>4 DEF Kept, LimitsInv
<1>5. LimitsInv'
  <2> SUFFICES ASSUME Steady', NEW c \in Items, req'.limits[c] # None PROVE req'.limits[c] = HasLimit(c, {})
    BY DEF LimitsInv, HasLimit, Readable
  <2> QED
    BY <1>3, <1>4 DEF LimitsInv
<1> QED
  BY <1>3, <1>4, <1>5

LEMMA CheckNamesStep ==
  ASSUME IInv, CheckNames
  PROVE  IInv'
<1> USE DEF IInv
<1> DEFINE row == rows[req.row]
           wrong == \E c \in Names(req.kind, row) : ~req.answers[c].exists
<1>1. req.row \in DOMAIN rows /\ req.kind \in {"names", "qa"} /\ req \in Requests
  BY ReqIn DEF CheckNames, Walking, TypeOK
<1>2. /\ req' = [req EXCEPT !.row = @ + 1, !.bad = @ \/ wrong]
      /\ UNCHANGED <<published, changed, moves, clients, clock, rows, uploaded, index, cache, walk, verdict, failed, faults>>
  BY DEF CheckNames, world
<1>3. \A c \in Names(req.kind, row) : c \in Items /\ req.answers[c] # None
  BY <1>1, RowIn DEF CheckNames, Unknown, Kinds
<1>4. wrong \in BOOLEAN
  OBVIOUS
<1> HIDE DEF wrong
<1>5. /\ req'.kind = req.kind /\ req'.answers = req.answers /\ req'.limits = req.limits
      /\ req'.schemas = req.schemas /\ req'.row = req.row + 1 /\ req'.bad = (req.bad \/ wrong)
  BY <1>1, <1>2 DEF Requests
<1>6. /\ CatalogInv' /\ AnswersInv' /\ AssetsInv' /\ VerdictInv'
      /\ Steady' => Steady
      /\ Looked' = Looked \cup {req.row} /\ Looked' = Met
  BY <1>1, <1>2, <1>5, QuietStep
<1>7. TypeOK'
  <2>1. req'.row \in 1..(Len(rows') + 1) /\ req'.bad \in BOOLEAN
    <3>1. req'.row \in 1..(Len(rows') + 1)
      BY <1>1, <1>2, <1>5, ReqIn
    <3> QED
      BY <1>4, <1>5, <3>1, ReqIn
  <2>2. req' \in Requests'
    BY <1>1, <1>2, <2>1 DEF Requests
  <2> QED
    BY <1>2, <2>2 DEF TypeOK
<1>8. LimitsInv'
  BY <1>2, <1>5, <1>6 DEF RequestInv, LimitsInv, HasLimit, Readable
<1>9. SchemasInv'
  <2> SUFFICES ASSUME Steady', NEW c \in Items, req.schemas[c] # None
               PROVE  \E f \in Looked' : rows[f].ci = c /\ req.schemas[c] = HasSchema(c, rows[f].ns, {})
    BY <1>1, <1>2, <1>5 DEF SchemasInv, HasSchema, Readable
  <2> QED
    BY <1>1, <1>6 DEF RequestInv, SchemasInv
\* Each name of the row has the answer of a row that has been looked at.
<1>10. ASSUME Steady', NEW c \in Names(req.kind, row)
       PROVE  \E f \in Looked' : c \in Names(req.kind, rows[f]) /\ (req.answers[c].exists <=> Right(c, rows[f].ns))
  <2>1. PICK f \in Met : /\ c \in Names(req.kind, rows[f])
                         /\ req.answers[c] = Resolve(c, CatalogNamespace(c, rows[f].ns), published)
    BY <1>1, <1>3, <1>6, <1>10 DEF RequestInv, AnswersInv
  <2> QED
    BY <1>6, <2>1 DEF Right
<1>11. ASSUME Steady' PROVE Found(req.kind, Word', Looked')
  <2>1. Found(req.kind, Word, Looked)
    BY <1>6, <1>11 DEF RequestInv, WalkInv
  <2>2. CASE req.kind = "names"
    <3>1. NamesFound(Word', Looked')
      <4> SUFFICES ASSUME ~req'.bad, NEW i \in Looked'
                   PROVE  \E g \in Looked' : Right(rows[i].ci, rows[g].ns)
        BY DEF NamesFound, Word
      <4>1. ~req.bad /\ ~wrong
        BY <1>5
      <4>2. CASE i \in Looked
        BY <1>6, <2>1, <2>2, <4>1, <4>2 DEF Found, NamesFound, Word
      <4>3. CASE i = req.row
        <5>1. rows[i].ci \in Names(req.kind, row)
          BY <2>2, <4>3 DEF Names
        <5>2. req.answers[rows[i].ci].exists
          BY <4>1, <5>1 DEF wrong
        <5> QED
          BY <1>10, <1>11, <5>1, <5>2
      <4> QED
        BY <1>6, <4>2, <4>3
    <3> QED
      BY <2>2, <3>1 DEF Found
  <2>3. CASE req.kind = "qa"
    <3>1. QAFound(Word', Looked')
      <4> SUFFICES ASSUME req'.bad PROVE \E i \in Looked' : \E c \in Names("qa", rows[i]) : ~Right(c, rows[i].ns)
        BY DEF QAFound, Word
      <4>1. CASE req.bad
        BY <1>6, <2>1, <2>3, <4>1 DEF Found, QAFound, Word
      <4>2. CASE ~req.bad
        <5>1. PICK c \in Names(req.kind, row) : ~req.answers[c].exists
          BY <1>5, <4>2 DEF wrong
        <5> QED
          BY <1>10, <1>11, <2>3, <5>1
      <4> QED
        BY <4>1, <4>2
    <3> QED
      BY <2>3, <3>1 DEF Found
  <2> QED
    BY <1>1, <2>2, <2>3
<1>12. WalkInv'
  BY <1>2, <1>5, <1>11, WalkStands
<1> QED
  BY <1>6, <1>7, <1>8, <1>9, <1>12 DEF RequestInv

LEMMA UsersStep ==
  ASSUME IInv, CheckUsers
  PROVE  IInv'
<1> USE DEF IInv
<1> DEFINE row == rows[req.row]
           names == Names("users", row)
<1>1. req.row \in DOMAIN rows /\ req.kind = "users" /\ req \in Requests
  BY ReqIn DEF CheckUsers, Walking, TypeOK
<1>2. PICK down \in Outages :
        /\ req' = [req EXCEPT !.row = @ + 1, !.limits = LimitsAfter(names, down),
                              !.bad = @ \/ \E c \in names : TooMany(row, c, LimitsAfter(names, down)[c])]
        /\ Fail(down)
  BY DEF CheckUsers
<1> DEFINE wrong == \E c \in names : TooMany(row, c, req'.limits[c])
<1>3. names \in SUBSET Items /\ row.ci \in names
  BY <1>1, RowIn DEF Kinds, Names
<1>4. wrong \in BOOLEAN
  OBVIOUS
<1> HIDE DEF names
<1>5. /\ req'.kind = req.kind /\ req'.answers = req.answers /\ req'.schemas = req.schemas
      /\ req'.row = req.row + 1 /\ req'.limits = LimitsAfter(names, down)
      /\ req'.bad = (req.bad \/ wrong)
      /\ req' = [req EXCEPT !.row = req'.row, !.limits = req'.limits, !.bad = req'.bad]
  BY <1>1, <1>2 DEF Requests
<1> HIDE DEF wrong
<1>6. UNCHANGED <<published, changed, moves, clients, clock, rows, uploaded, index, cache, walk, verdict>>
  BY DEF CheckUsers, world
<1>7. /\ CatalogInv' /\ AnswersInv' /\ AssetsInv' /\ VerdictInv'
      /\ Steady' => Steady /\ down = {}
      /\ Looked' = Looked \cup {req.row}
      /\ faults' \in 0..MaxFaults /\ failed' \in [Envs -> 0..clock \cup {None}]
  BY <1>1, <1>2, <1>5, <1>6, FailingStep
<1>8. /\ LimitsInv' /\ req'.limits \in [Items -> BOOLEAN \cup {None}]
      /\ Steady' => \A c \in names : req'.limits[c] = HasLimit(c, {})
  BY <1>3, <1>5, <1>6, <1>7, LimitsStep DEF RequestInv
<1>9. TypeOK'
  <2>1. req'.row \in 1..(Len(rows') + 1)
    BY <1>1, <1>5, <1>6, ReqIn
  <2>2. req'.bad \in BOOLEAN
    BY <1>4, <1>5, ReqIn
  <2>3. req' \in Requests'
    BY <1>1, <1>5, <1>8, <2>1, <2>2 DEF Requests
  <2> QED
    BY <1>6, <1>7, <2>3 DEF TypeOK
<1>10. SchemasInv'
  <2> SUFFICES ASSUME Steady', NEW d \in Items, req.schemas[d] # None
               PROVE  \E f \in Looked' : rows[f].ci = d /\ req.schemas[d] = HasSchema(d, rows[f].ns, {})
    BY <1>1, <1>5, <1>6 DEF SchemasInv, HasSchema, Readable
  <2> QED
    BY <1>1, <1>7 DEF RequestInv, SchemasInv
<1>11. ASSUME Steady' PROVE Found(req'.kind, Word', Looked')
  <2>1. UsersFound(Word', Looked')
    <3> SUFFICES ASSUME ~req'.bad, NEW i \in Looked' PROVE ~Limited(rows[i])
      BY DEF UsersFound, Word
    <3>1. ~req.bad /\ ~wrong
      BY <1>5
    <3>2. UsersFound(Word, Looked)
      BY <1>1, <1>7, <1>11 DEF RequestInv, WalkInv, Found
    <3>3. CASE i \in Looked
      BY <3>1, <3>2, <3>3 DEF UsersFound, Word
    <3>4. CASE i = req.row
      <4>1. ~TooMany(row, row.ci, req'.limits[row.ci]) /\ req'.limits[row.ci] = HasLimit(row.ci, {})
        BY <1>3, <1>8, <1>11, <3>1 DEF wrong
      <4> QED
        BY <3>4, <4>1 DEF Limited
    <3> QED
      BY <1>7, <3>3, <3>4
  <2> QED
    BY <1>1, <1>5, <2>1 DEF Found
<1>12. WalkInv'
  BY <1>6, <1>11, WalkStands
<1> QED
  BY <1>7, <1>8, <1>9, <1>10, <1>12 DEF RequestInv

LEMMA RegionsStep ==
  ASSUME IInv, CheckRegions
  PROVE  IInv'
<1> USE DEF IInv
<1> DEFINE row == rows[req.row]
           names == Names("regions", row)
<1>1. req.row \in DOMAIN rows /\ req.kind = "regions" /\ req \in Requests
  BY ReqIn DEF CheckRegions, Walking, TypeOK
<1>2. PICK down \in Outages :
        /\ req' = [req EXCEPT !.row = @ + 1, !.schemas = SchemasAfter(names, None, down),
                              !.bad = @ \/ \E c \in names : WrongRegion(row, c, SchemasAfter(names, None, down)[c])]
        /\ Fail(down)
  BY DEF CheckRegions
<1> DEFINE wrong == \E c \in names : WrongRegion(row, c, req'.schemas[c])
<1>3. names \in SUBSET Items /\ row.ci \in names
  BY <1>1, RowIn DEF Kinds, Names
<1>4. wrong \in BOOLEAN
  OBVIOUS
<1> HIDE DEF names
<1>5. /\ req'.kind = req.kind /\ req'.answers = req.answers /\ req'.limits = req.limits
      /\ req'.row = req.row + 1 /\ req'.schemas = SchemasAfter(names, None, down)
      /\ req'.bad = (req.bad \/ wrong)
      /\ req' = [req EXCEPT !.row = req'.row, !.schemas = req'.schemas, !.bad = req'.bad]
  BY <1>1, <1>2 DEF Requests
<1> HIDE DEF wrong
<1>6. UNCHANGED <<published, changed, moves, clients, clock, rows, uploaded, index, cache, walk, verdict>>
  BY DEF CheckRegions, world
<1>7. /\ CatalogInv' /\ AnswersInv' /\ AssetsInv' /\ VerdictInv'
      /\ Steady' => Steady /\ down = {}
      /\ Looked' = Looked \cup {req.row}
      /\ faults' \in 0..MaxFaults /\ failed' \in [Envs -> 0..clock \cup {None}]
  BY <1>1, <1>2, <1>5, <1>6, FailingStep
<1>8. req.schemas \in [Items -> BOOLEAN \cup {None}] /\ \A c \in Items : HasSchema(c, None, down) \in BOOLEAN
  BY ReqIn DEF HasSchema, Readable
<1>9. /\ req'.schemas \in [Items -> BOOLEAN \cup {None}]
      /\ \A c \in Items : req'.schemas[c] = IF c \in names THEN Kept(req.schemas[c], HasSchema(c, None, down))
                                            ELSE req.schemas[c]
  BY <1>5, <1>8 DEF SchemasAfter, Kept
<1>10. ASSUME Steady', NEW c \in Items, req'.schemas[c] # None PROVE req'.schemas[c] = HasSchema(c, None, {})
  BY <1>1, <1>7, <1>9, <1>10 DEF Kept, RequestInv, SchemasInv
<1>11. SchemasInv'
  BY <1>1, <1>5, <1>6, <1>10 DEF SchemasInv, HasSchema, Readable
<1>12. LimitsInv'
  BY <1>5, <1>6, <1>7 DEF RequestInv, LimitsInv, HasLimit, Readable
<1>13. TypeOK'
  <2>1. req'.row \in 1..(Len(rows') + 1)
    BY <1>1, <1>5, <1>6, ReqIn
  <2>2. req'.bad \in BOOLEAN
    BY <1>4, <1>5, ReqIn
  <2>3. req' \in Requests'
    BY <1>1, <1>5, <1>9, <2>1, <2>2 DEF Requests
  <2> QED
    BY <1>6, <1>7, <2>3 DEF TypeOK
<1>14. ASSUME Steady' PROVE Found(req'.kind, Word', Looked')
  <2>1. RegionsFound(Word', Looked')
    <3> SUFFICES ASSUME ~req'.bad, NEW i \in Looked' PROVE ~Misplaced(rows[i])
      BY DEF RegionsFound, Word
    <3>1. ~req.bad /\ ~wrong
      BY <1>5
    <3>2. RegionsFound(Word, Looked)
      BY <1>1, <1>7, <1>14 DEF RequestInv, WalkInv, Found
    <3>3. CASE i \in Looked
      BY <3>1, <3>2, <3>3 DEF RegionsFound, Word
    <3>4. CASE i = req.row
      <4>1. ~WrongRegion(row, row.ci, req'.schemas[row.ci])
        BY <1>3, <3>1 DEF wrong
      <4>2. req'.schemas[row.ci] \in BOOLEAN
        BY <1>3, <1>8, <1>9 DEF Kept
      <4>3. req'.schemas[row.ci] = HasSchema(row.ci, None, {})
        BY <1>3, <1>10, <1>14, <4>2, NoneAssumption
      <4> QED
        BY <3>4, <4>1, <4>3 DEF Misplaced
    <3> QED
      BY <1>7, <3>3, <3>4
  <2> QED
    BY <1>1, <1>5, <2>1 DEF Found
<1>15. WalkInv'
  BY <1>6, <1>14, WalkStands
<1> QED
  BY <1>7, <1>11, <1>12, <1>13, <1>15 DEF RequestInv

-----------------------------------------------------------------------------
(* Retries and deployments. *)

\* The limit of an item is asked for if the row says how many users there are.
Asked(row) == IF row.users = 0 THEN {} ELSE {row.ci}
Described(row, down) == SchemasAfter({row.ci}, row.ns, down)
RowsAfter(row) == [rows EXCEPT ![req.row] = row]
Overfull(row) == row.users # 0 /\ TooMany(row, row.ci, req'.limits[row.ci])

LEMMA AskedStep ==
  ASSUME TypeOK, LimitsInv, NEW row \in Row, NEW down, req'.limits = LimitsAfter(Asked(row), down),
         published' = published, Steady' => Steady /\ down = {}
  PROVE  /\ LimitsInv'
         /\ req'.limits \in [Items -> BOOLEAN \cup {None}]
         /\ Steady' => (Overfull(row) <=> Limited(row))
<1>1. Asked(row) \in SUBSET Items /\ row.users \in Nat
  BY DEF Asked, Row
<1>2. /\ LimitsInv'
      /\ req'.limits \in [Items -> BOOLEAN \cup {None}]
      /\ Steady' => \A c \in Asked(row) : req'.limits[c] = HasLimit(c, {})
  BY <1>1, LimitsStep
<1>3. ASSUME Steady' PROVE Overfull(row) <=> Limited(row)
  <2>1. CASE row.users = 0
    BY <2>1 DEF Overfull, TooMany, Limited
  <2>2. CASE row.users # 0
    <3>1. req'.limits[row.ci] = HasLimit(row.ci, {})
      BY <1>2, <1>3, <2>2 DEF Asked
    <3> QED
      BY <2>2, <3>1 DEF Overfull, Limited
  <2> QED
    BY <2>1, <2>2
<1> QED
  BY <1>2, <1>3

\* SchemasInv at the end of the step, said of the rows as they are then.
LEMMA SchemasStep ==
  ASSUME TypeOK, SchemasInv, NEW row \in Row, NEW down, req.kind \in {"deploy", "retry"}, req'.kind = req.kind,
         req'.schemas = Described(row, down),
         req.row \in DOMAIN rows, req'.row = req.row + 1,
         rows' = RowsAfter(row),
         published' = published, Steady' => Steady /\ down = {}
  PROVE  /\ SchemasInv'
         /\ req'.schemas \in [Items -> BOOLEAN \cup {None}]
         /\ (Steady' /\ \A f \in Looked' : rows'[f].ns = None) =>
               WrongRegion(row, row.ci, req'.schemas[row.ci]) = Misplaced(row)
<1> DEFINE c == row.ci
           described == HasSchema(c, row.ns, down)
<1>1. c \in Items /\ req.schemas \in [Items -> BOOLEAN \cup {None}]
  BY ReqIn DEF Row
<1>2. described \in BOOLEAN
  BY <1>1 DEF HasSchema, Readable
<1>3. /\ req'.schemas[c] = Kept(req.schemas[c], described)
      /\ \A d \in Items : d # c => req'.schemas[d] = req.schemas[d]
      /\ req'.schemas \in [Items -> BOOLEAN \cup {None}]
  <2>1. req'.schemas = [d \in Items |-> IF d = c THEN Kept(req.schemas[d], described) ELSE req.schemas[d]]
    BY DEF Described, SchemasAfter
  <2>2. Kept(req.schemas[c], described) \in BOOLEAN \cup {None}
    BY <1>1, <1>2 DEF Kept
  <2> HIDE DEF described
  <2> QED
    BY <1>1, <2>1, <2>2
<1>4. req'.schemas[c] \in BOOLEAN
  BY <1>1, <1>2, <1>3 DEF Kept
<1>5. Looked \subseteq DOMAIN rows /\ req.row \notin Looked /\ Looked' = Looked \cup {req.row}
  BY LookedIn
<1>6. rows'[req.row] = row /\ \A f \in Looked : rows'[f] = rows[f]
  BY <1>5 DEF TypeOK, RowsAfter
<1>7. ASSUME Steady', NEW d \in Items, req'.schemas[d] # None
      PROVE  \E f \in Looked' : rows'[f].ci = d /\ req'.schemas[d] = HasSchema(d, rows'[f].ns, {})
  <2>1. CASE req.schemas[d] # None
    <3>1. PICK f \in Looked : rows[f].ci = d /\ req.schemas[d] = HasSchema(d, rows[f].ns, {})
      BY <1>7, <2>1 DEF SchemasInv
    <3>2. req'.schemas[d] = req.schemas[d]
      BY <1>3, <2>1 DEF Kept
    <3> QED
      BY <1>5, <1>6, <3>1, <3>2
  <2>2. CASE req.schemas[d] = None
    <3>1. d = c /\ req'.schemas[d] = HasSchema(c, row.ns, {})
      BY <1>3, <1>7, <2>2 DEF Kept
    <3> QED
      BY <1>5, <1>6, <3>1
  <2> QED
    BY <2>1, <2>2
<1> HIDE DEF c, described
<1>8. SchemasInv'
  <2> SUFFICES ASSUME Steady', NEW d \in Items, req'.schemas[d] # None
               PROVE  \E f \in Looked' : rows'[f].ci = d /\ req'.schemas[d] = HasSchema(d, rows'[f].ns, {})
    <3>1. req'.kind # "regions"
      OBVIOUS
    <3> QED
      BY <3>1, Zenon DEF SchemasInv, HasSchema, Readable
  <2> QED
    BY <1>7
<1>9. ASSUME Steady', \A f \in Looked' : rows'[f].ns = None
      PROVE  WrongRegion(row, c, req'.schemas[c]) = Misplaced(row)
  <2>1. req'.schemas[c] # None
    BY <1>4, NoneAssumption
  <2>2. PICK f \in Looked' : rows'[f].ci = c /\ req'.schemas[c] = HasSchema(c, rows'[f].ns, {})
    BY <1>1, <1>7, <1>9, <2>1
  <2> QED
    BY <1>9, <2>2 DEF Misplaced, c
<1> QED
  BY <1>3, <1>8, <1>9 DEF c

LEMMA RetryStep ==
  ASSUME IInv, CheckRetry
  PROVE  IInv'
<1> USE DEF IInv
<1> DEFINE row == rows[req.row]
           c == row.ci
<1>1. req.row \in DOMAIN rows /\ req.kind = "retry" /\ req \in Requests
  BY ReqIn DEF CheckRetry, Walking, TypeOK
<1>2. PICK down \in Outages :
        /\ req' = [req EXCEPT !.row = @ + 1, !.limits = LimitsAfter(Asked(row), down),
                              !.schemas = SchemasAfter({c}, row.ns, down),
                              !.bad = \/ @
                                      \/ row.users # 0 /\ TooMany(row, c, LimitsAfter(Asked(row), down)[c])
                                      \/ WrongRegion(row, c, SchemasAfter({c}, row.ns, down)[c])]
        /\ Fail(down)
  BY DEF CheckRetry, Asked
<1>3. row \in Row /\ rows \in Seq(Row)
  BY <1>1, RowIn DEF TypeOK
<1>4. /\ req'.kind = req.kind /\ req'.answers = req.answers
      /\ req'.row = req.row + 1
      /\ req'.limits = LimitsAfter(Asked(row), down)
      /\ req'.schemas = SchemasAfter({c}, row.ns, down)
      /\ req'.bad = (req.bad \/ (row.users # 0 /\ TooMany(row, c, LimitsAfter(Asked(row), down)[c]))
                             \/ WrongRegion(row, c, SchemasAfter({c}, row.ns, down)[c]))
      /\ req' = [req EXCEPT !.row = req'.row, !.limits = req'.limits, !.schemas = req'.schemas, !.bad = req'.bad]
  BY <1>1, <1>2 DEF Requests
<1>5. UNCHANGED <<published, changed, moves, clients, clock, rows, uploaded, index, cache, walk, verdict>>
  BY DEF CheckRetry, world
<1>6. /\ CatalogInv' /\ AnswersInv' /\ AssetsInv' /\ VerdictInv'
      /\ Steady' => Steady /\ down = {}
      /\ faults' \in 0..MaxFaults /\ failed' \in [Envs -> 0..clock \cup {None}]
  BY <1>1, <1>2, <1>4, <1>5, FailingStep
<1>7. LimitsInv' /\ req'.limits \in [Items -> BOOLEAN \cup {None}]
  BY <1>3, <1>4, <1>5, <1>6, AskedStep DEF RequestInv
<1>8. rows' = RowsAfter(row)
  BY <1>3, <1>5 DEF RowsAfter
<1>9. SchemasInv' /\ req'.schemas \in [Items -> BOOLEAN \cup {None}]
  <2>1. SchemasInv /\ req.kind \in {"deploy", "retry"}
    BY <1>1 DEF RequestInv
  <2>2. req'.kind = req.kind /\ req'.schemas = Described(row, down) /\ req'.row = req.row + 1
    BY <1>4 DEF Described
  <2> HIDE DEF row
  <2> QED
    BY <1>1, <1>3, <1>5, <1>6, <1>8, <2>1, <2>2, SchemasStep
<1>10. TypeOK'
  <2>1. req'.row \in 1..(Len(rows') + 1)
    BY <1>1, <1>4, <1>5, ReqIn
  <2>2. req'.bad \in BOOLEAN
    BY <1>4, ReqIn DEF TooMany, WrongRegion
  <2>3. req' \in Requests'
    BY <1>1, <1>4, <1>7, <1>9, <2>1, <2>2 DEF Requests
  <2> QED
    BY <1>5, <1>6, <2>3 DEF TypeOK
<1>11. WalkInv'
  <2>1. Found(req'.kind, Word', Looked')
    BY <1>1, <1>4 DEF Found
  <2> QED
    BY <1>5, <2>1, WalkStands
<1> QED
  BY <1>6, <1>7, <1>9, <1>10, <1>11 DEF RequestInv


\* What a correction does to a row.
LEMMA Correction ==
  ASSUME NEW row \in Row, NEW a \in Answers
  PROVE  LET fixed == Corrected(row, a) IN
         /\ fixed \in Row
         /\ fixed.assets \subseteq {fixed.ci} \cup (row.assets \ {row.ci})
         /\ a.exists \/ Nothing(a) => fixed = row
         /\ ~a.exists /\ a.found # None =>
              fixed.ci = row.ci /\ NamespaceOf(fixed) = a.found /\ (fixed = row \/ fixed.ns # None)
         /\ ~a.exists /\ a.found = None /\ a.suggested # None =>
              /\ fixed.ci = a.suggested /\ fixed.ns # None
              /\ NamespaceOf(fixed) = CatalogNamespace(a.suggested, None)
<1> DEFINE fixed == Corrected(row, a)
<1>1. /\ a.exists \in BOOLEAN /\ a.found \in Envs \cup {None} /\ a.suggested \in Items \cup {None}
      /\ None \notin Envs
  BY NoneAssumption DEF Answers
<1>2. CASE a.exists
  BY <1>2 DEF Corrected
<1>3. CASE ~a.exists /\ a.found # None
  <2>1. CASE a.found = CatalogNamespace(row.ci, row.ns)
    BY <1>3, <2>1 DEF Corrected, NamespaceOf, Nothing
  <2>2. CASE a.found # CatalogNamespace(row.ci, row.ns)
    <3>1. fixed = [row EXCEPT !.ns = a.found]
      BY <1>3, <2>2 DEF Corrected
    <3>2. fixed \in Row /\ fixed.ci = row.ci /\ fixed.ns = a.found /\ fixed.assets = row.assets
      BY <1>1, <1>3, <3>1 DEF Row
    <3>3. NamespaceOf(fixed) = a.found
      BY <1>3, <3>2 DEF NamespaceOf, CatalogNamespace
    <3> QED
      BY <1>3, <3>2, <3>3 DEF Nothing
  <2> QED
    BY <2>1, <2>2
<1>4. CASE ~a.exists /\ a.found = None /\ a.suggested # None
  <2> DEFINE ns == CatalogNamespace(a.suggested, None)
             assets == {IF c = row.ci THEN a.suggested ELSE c : c \in row.assets}
  <2>1. fixed = [row EXCEPT !.ci = a.suggested, !.ns = ns, !.assets = assets]
    BY <1>4 DEF Corrected
  <2>2. a.suggested \in Items /\ ns \in Envs /\ ns # None
    BY <1>1, <1>4, NamespaceIn
  <2>3. assets \in SUBSET Items /\ assets \subseteq {a.suggested} \cup (row.assets \ {row.ci})
    BY <2>2 DEF Row
  <2> HIDE DEF assets, ns
  <2>4. fixed \in Row /\ fixed.ci = a.suggested /\ fixed.ns = ns /\ fixed.assets = assets
    BY <2>1, <2>2, <2>3 DEF Row
  <2>5. NamespaceOf(fixed) = ns
    BY <2>2, <2>4 DEF NamespaceOf, CatalogNamespace
  <2> QED
    BY <1>4, <2>2, <2>3, <2>4, <2>5 DEF Nothing, ns
<1>5. CASE ~a.exists /\ Nothing(a)
  BY <1>5 DEF Corrected, Nothing
<1> QED
  BY <1>2, <1>3, <1>4, <1>5 DEF Nothing

LEMMA DeployStep ==
  ASSUME IInv, CheckDeploy
  PROVE  IInv'
<1> USE DEF IInv
<1> DEFINE row == rows[req.row]
           c == row.ci
           a == req.answers[c]
           fixed == Corrected(row, a)
<1>1. req.row \in DOMAIN rows /\ req.kind = "deploy" /\ req \in Requests
  <2>1. req.kind = "deploy" /\ req.row <= Len(rows)
    BY DEF CheckDeploy, Walking
  <2> QED
    BY <2>1, ReqIn DEF TypeOK
<1>2. row \in Row /\ c \in Items /\ a \in Answers
  <2>1. row \in Row /\ c \in Items
    BY <1>1, RowIn
  <2>2. a # None
    BY <1>1, <2>1 DEF CheckDeploy, Unknown, Names
  <2> QED
    BY <2>1, <2>2, ReqIn
<1>3. PICK down \in Outages :
        /\ rows' = RowsAfter(fixed)
        /\ verdict' = IF fixed = row THEN verdict ELSE NoVerdict
        /\ req' = [req EXCEPT !.row = @ + 1, !.limits = LimitsAfter(Asked(row), down),
                              !.schemas = SchemasAfter({fixed.ci}, fixed.ns, down),
                              !.bad = \/ @
                                      \/ row.users # 0 /\ TooMany(row, c, LimitsAfter(Asked(row), down)[c])
                                      \/ WrongRegion(fixed, fixed.ci, SchemasAfter({fixed.ci}, fixed.ns, down)[fixed.ci])
                                      \/ ~a.exists /\ a.found = None /\ a.suggested = None]
        /\ Fail(down)
  BY DEF CheckDeploy, Asked, RowsAfter
<1>4. UNCHANGED <<published, changed, moves, clients, clock, uploaded, index, cache, walk>>
  BY DEF CheckDeploy, world
<1>5. /\ fixed \in Row
      /\ fixed.assets \subseteq {fixed.ci} \cup (row.assets \ {row.ci})
      /\ a.exists \/ Nothing(a) => fixed = row
      /\ ~a.exists /\ a.found # None =>
           fixed.ci = c /\ NamespaceOf(fixed) = a.found /\ (fixed = row \/ fixed.ns # None)
      /\ ~a.exists /\ a.found = None /\ a.suggested # None =>
           /\ fixed.ci = a.suggested /\ fixed.ns # None
           /\ NamespaceOf(fixed) = CatalogNamespace(a.suggested, None)
  BY <1>2, Correction
<1> HIDE DEF fixed, a
<1>6. /\ req'.kind = "deploy" /\ req'.answers = req.answers
      /\ req'.row = req.row + 1
      /\ req'.limits = LimitsAfter(Asked(row), down)
      /\ req'.schemas = SchemasAfter({fixed.ci}, fixed.ns, down)
      /\ req' = [req EXCEPT !.row = req'.row, !.limits = req'.limits, !.schemas = req'.schemas, !.bad = req'.bad]
  BY <1>1, <1>3 DEF Requests
<1>7. req'.bad = \/ req.bad
                 \/ Overfull(row)
                 \/ WrongRegion(fixed, fixed.ci, req'.schemas[fixed.ci])
                 \/ ~a.exists /\ Nothing(a)
  BY <1>1, <1>3, <1>6 DEF Requests, Overfull, Nothing
<1>8. /\ Looked' = Looked \cup {req.row} /\ Looked \subseteq DOMAIN rows /\ req.row \notin Looked
      /\ Looked' = Met /\ Met \subseteq Met'
      /\ rows' \in Seq(Row) /\ Len(rows') = Len(rows) /\ DOMAIN rows' = DOMAIN rows
      /\ rows'[req.row] = fixed
      /\ \A f \in DOMAIN rows : f # req.row => rows'[f] = rows[f]
  <2>1. /\ Looked' = Looked \cup {req.row} /\ Looked \subseteq DOMAIN rows /\ req.row \notin Looked
        /\ Looked' = Met
    BY <1>1, <1>6, LookedIn
  <2>2. rows \in Seq(Row)
    BY DEF TypeOK
  <2>3. /\ rows' \in Seq(Row) /\ Len(rows') = Len(rows) /\ DOMAIN rows' = DOMAIN rows
        /\ rows'[req.row] = fixed
        /\ \A f \in DOMAIN rows : f # req.row => rows'[f] = rows[f]
    BY <1>1, <1>3, <1>5, <2>2 DEF RowsAfter
  <2>4. Met \subseteq Met'
    BY <1>6, <2>3, ReqIn DEF Met
  <2> QED
    BY <2>1, <2>3, <2>4
<1>9. \A f \in Looked : rows'[f] = rows[f]
  BY <1>8
<1>10. /\ faults' \in 0..MaxFaults
       /\ faults' = 0 => faults = 0 /\ down = {}
       /\ failed' \in [Envs -> 0..clock \cup {None}]
       /\ \A e \in Envs : failed'[e] = IF e \in down THEN clock ELSE failed[e]
  <2>1. down \in SUBSET down
    OBVIOUS
  <2> QED
    BY <1>3, <2>1, FailStep
<1>11. CatalogInv' /\ (Steady' => Steady /\ down = {})
  BY <1>4, <1>10, CachesStand DEF Steady
<1>12. /\ LimitsInv' /\ req'.limits \in [Items -> BOOLEAN \cup {None}]
       /\ Steady' => (Overfull(row) <=> Limited(row))
  BY <1>2, <1>4, <1>6, <1>11, AskedStep DEF RequestInv
<1>13. /\ SchemasInv' /\ req'.schemas \in [Items -> BOOLEAN \cup {None}]
       /\ (Steady' /\ \A f \in Looked' : rows'[f].ns = None) =>
             WrongRegion(fixed, fixed.ci, req'.schemas[fixed.ci]) = Misplaced(fixed)
  <2>1. SchemasInv /\ req'.kind = req.kind /\ req.kind \in {"deploy", "retry"}
    BY <1>1, <1>6 DEF RequestInv
  <2>2. published' = published /\ rows' = RowsAfter(fixed) /\ req'.schemas = Described(fixed, down)
    BY <1>3, <1>4, <1>6 DEF Described
  <2> HIDE DEF row
  <2> QED
    BY <1>1, <1>5, <1>6, <1>11, <2>1, <2>2, SchemasStep
<1>14. TypeOK'
  <2>1. req'.row \in 1..(Len(rows') + 1)
    BY <1>1, <1>6, <1>8, ReqIn
  <2>2. req'.bad \in BOOLEAN
    BY <1>7, ReqIn DEF Overfull, TooMany, WrongRegion
  <2>3. verdict \in [Kinds -> {"none", "clean", "bad"}]
    BY DEF TypeOK
  <2>4. req' \in Requests'
    BY <1>1, <1>6, <1>12, <1>13, <2>1, <2>2 DEF Requests
  <2>5. verdict' \in [Kinds -> {"none", "clean", "bad"}]
    BY <1>3, <2>3 DEF NoVerdict
  <2> QED
    BY <1>4, <1>8, <1>10, <2>4, <2>5 DEF TypeOK
<1>15. AssetsInv'
  <2> SUFFICES ASSUME NEW i \in DOMAIN rows
               PROVE  rows'[i].assets \subseteq {rows'[i].ci} \cup Unasked(i)
    BY <1>4, <1>8 DEF AssetsInv, Unasked
  <2>1. rows[i].assets \subseteq {rows[i].ci} \cup Unasked(i)
    BY DEF RequestInv, AssetsInv
  <2>2. CASE i = req.row
    BY <1>5, <1>8, <2>1, <2>2
  <2>3. CASE i # req.row
    BY <1>8, <2>1, <2>3
  <2> QED
    BY <2>2, <2>3
\* What is known of a name is what the catalog says, and if no row was corrected
\* for it, it is still the answer for one of the rows.
<1>16. ASSUME Steady', NEW d \in Items, req.answers[d] # None
       PROVE  /\ \E e \in Envs : req.answers[d] = Resolve(d, e, published)
              /\ (req.answers[d].exists \/ Nothing(req.answers[d])) =>
                    \E f \in Looked' : /\ rows'[f].ci = d
                                       /\ req.answers[d] = Resolve(d, CatalogNamespace(d, rows'[f].ns), published)
  <2>1. /\ \E e \in Envs : req.answers[d] = Resolve(d, e, published)
        /\ (req.answers[d].exists \/ Nothing(req.answers[d])) =>
              \E f \in Met : /\ rows[f].ci = d
                             /\ req.answers[d] = Resolve(d, CatalogNamespace(d, rows[f].ns), published)
    BY <1>1, <1>11, <1>16 DEF RequestInv, AnswersInv, Names
  <2>2. ASSUME req.answers[d].exists \/ Nothing(req.answers[d])
        PROVE  \E f \in Looked' : /\ rows'[f].ci = d
                                  /\ req.answers[d] = Resolve(d, CatalogNamespace(d, rows'[f].ns), published)
    <3>1. PICK f \in Met : /\ rows[f].ci = d
                           /\ req.answers[d] = Resolve(d, CatalogNamespace(d, rows[f].ns), published)
      BY <2>1, <2>2
    <3>2. rows'[f] = rows[f]
      <4>1. CASE f = req.row
        <5>1. d = c
          BY <3>1, <4>1
        <5>2. a.exists \/ Nothing(a)
          BY <2>2, <5>1 DEF a
        <5> QED
          BY <1>5, <1>8, <4>1, <5>2
      <4>2. CASE f # req.row
        BY <1>8, <4>2 DEF Met
      <4> QED
        BY <4>1, <4>2
    <3> QED
      BY <1>8, <3>1, <3>2
  <2> QED
    BY <2>1, <2>2
<1>17. AnswersInv'
  <2> SUFFICES ASSUME Steady', NEW d \in Items, req.answers[d] # None
               PROVE  /\ \E e \in Envs : req.answers[d] = Resolve(d, e, published)
                      /\ (req.answers[d].exists \/ Nothing(req.answers[d])) =>
                            \E f \in Met' :
                              /\ rows'[f].ci = d
                              /\ req.answers[d] = Resolve(d, CatalogNamespace(d, rows'[f].ns), published)
    BY <1>4, <1>6 DEF AnswersInv, Nothing, Names
  <2> QED
    BY <1>8, <1>16
<1>18. ASSUME Steady', Canonical, ~req'.bad, NEW i \in Looked'
       PROVE  \E f \in Looked' : rows'[f].ci = rows'[i].ci /\ IsPublished(rows'[f])
  <2>1. ~req.bad /\ ~(~a.exists /\ Nothing(a))
    BY <1>7, <1>18
  <2>2. Steady /\ published \in [Items -> SUBSET Envs]
    BY <1>11, <1>18 DEF TypeOK
  <2>3. CASE i \in Looked
    <3>1. Found("deploy", "clean", Looked)
      BY <1>1, <2>1, <2>2 DEF RequestInv, WalkInv, Word
    <3>2. \E f \in Looked : rows[f].ci = rows[i].ci /\ IsPublished(rows[f])
      BY <1>18, <2>3, <3>1 DEF Found, DeployAdmits
    <3> QED
      BY <1>8, <1>9, <2>3, <3>2
  <2>4. CASE i = req.row
    <3>1. a # None /\ a = req.answers[c]
      BY <1>2, NoneAssumption DEF a
    <3>2. PICK e \in Envs : a = Resolve(c, e, published)
      BY <1>2, <1>16, <1>18, <3>1
    <3>3. CASE a.exists
      <4>1. PICK f \in Looked' : rows'[f].ci = c /\ a = Resolve(c, CatalogNamespace(c, rows'[f].ns), published)
        BY <1>2, <1>16, <1>18, <3>1, <3>3
      <4>2. CatalogNamespace(c, rows'[f].ns) \in Envs
        <5>1. f \in DOMAIN rows'
          BY <1>1, <1>8
        <5>2. rows'[f] \in Row
          BY <1>8, <5>1
        <5>3. rows'[f].ns \in Envs \cup {None}
          BY <5>2 DEF Row
        <5> QED
          BY <1>2, <5>3, NamespaceIn
      <4>3. CatalogNamespace(c, rows'[f].ns) \in published[c]
        BY <1>2, <2>2, <3>3, <4>1, <4>2, Resolved
      <4>4. rows'[i].ci = c
        BY <1>5, <1>8, <2>4, <3>3
      <4> QED
        BY <4>1, <4>3, <4>4 DEF IsPublished
    <3>4. CASE ~a.exists /\ a.found # None
      <4>1. a.found \in published[c]
        BY <1>2, <2>2, <3>2, <3>4, Resolved
      <4>2. fixed.ci = c /\ NamespaceOf(fixed) = a.found
        BY <1>5, <3>4
      <4> QED
        BY <1>8, <1>18, <2>4, <4>1, <4>2 DEF IsPublished, NamespaceOf
    <3>5. CASE ~a.exists /\ a.found = None /\ a.suggested # None
      <4>1. a.suggested \in Items /\ published[a.suggested] # {}
        BY <1>2, <2>2, <3>2, <3>5, Resolved
      <4>2. CatalogNamespace(a.suggested, None) \in published[a.suggested]
        BY <1>18, <4>1 DEF Canonical
      <4>3. fixed.ci = a.suggested /\ NamespaceOf(fixed) = CatalogNamespace(a.suggested, None)
        BY <1>5, <3>5
      <4> QED
        BY <1>8, <1>18, <2>4, <4>2, <4>3 DEF IsPublished, NamespaceOf
    <3> QED
      BY <2>1, <3>3, <3>4, <3>5 DEF Nothing
  <2> QED
    BY <1>8, <2>3, <2>4
<1>19. ASSUME Steady', req'.bad, \A i \in Looked' : rows'[i].ns = None
       PROVE  \E i \in Looked' : ~Right(rows'[i].ci, rows'[i].ns) \/ Limited(rows'[i]) \/ Misplaced(rows'[i])
  <2>1. fixed = row
    <3>1. fixed.ns = None
      BY <1>8, <1>19
    <3> QED
      BY <1>5, <3>1 DEF Nothing
  <2>2. CASE req.bad
    <3>1. Found("deploy", "bad", Looked)
      BY <1>1, <1>11, <1>19, <2>2 DEF RequestInv, WalkInv, Word
    <3>2. \A i \in Looked : rows[i].ns = None
      BY <1>8, <1>9, <1>19
    <3>3. \E i \in Looked : ~Right(rows[i].ci, rows[i].ns) \/ Limited(rows[i]) \/ Misplaced(rows[i])
      BY <3>1, <3>2 DEF Found, DeployRefuses
    <3> QED
      BY <1>8, <1>9, <3>3
  <2>3. CASE Overfull(row)
    BY <1>8, <1>12, <1>19, <2>1, <2>3
  <2>4. CASE WrongRegion(fixed, fixed.ci, req'.schemas[fixed.ci])
    BY <1>8, <1>13, <1>19, <2>4
  <2>5. CASE ~a.exists /\ Nothing(a)
    <3>1. a # None /\ a = req.answers[c]
      BY <1>2, NoneAssumption DEF a
    <3>2. PICK f \in Looked' : rows'[f].ci = c /\ a = Resolve(c, CatalogNamespace(c, rows'[f].ns), published)
      BY <1>2, <1>16, <1>19, <2>5, <3>1
    <3> QED
      BY <2>5, <3>2 DEF Right
  <2> QED
    BY <1>7, <1>19, <2>2, <2>3, <2>4, <2>5
<1>20. WalkInv'
  <2>1. Steady' => DeployAdmits(Word, Looked)'
    BY <1>4, <1>18 DEF DeployAdmits, Word, Canonical, IsPublished
  <2>2. Steady' => DeployRefuses(Word, Looked)'
    BY <1>4, <1>19 DEF DeployRefuses, Word, Right, Limited, Misplaced, HasLimit, HasSchema, Readable
  <2> QED
    BY <1>6, <2>1, <2>2 DEF WalkInv, Found
<1>21. VerdictInv'
  <2>1. CASE fixed = row
    <3>1. rows' = rows
      <4>1. rows \in Seq(Row)
        BY DEF TypeOK
      <4> QED
        BY <1>3, <2>1, <4>1 DEF RowsAfter
    <3>2. verdict' = verdict
      BY <1>3, <2>1
    <3> QED
      BY <1>4, <1>11, <3>1, <3>2, VerdictsStand DEF RequestInv
  <2>2. CASE fixed # row
    <3>1. \A k \in Kinds : verdict'[k] = "none"
      BY <1>3, <2>2 DEF NoVerdict
    <3> QED
      BY <3>1 DEF VerdictInv, Found, NamesFound, UsersFound, RegionsFound, DeployAdmits, DeployRefuses, QAFound
  <2> QED
    BY <2>1, <2>2
<1> QED
  BY <1>11, <1>12, <1>13, <1>14, <1>15, <1>17, <1>20, <1>21 DEF RequestInv

-----------------------------------------------------------------------------
(* Requests begin and end; the catalog changes; time passes. *)

LEMMA InitIInv ==
  ASSUME Init
  PROVE  IInv
<1>1. rows \in Seq(Row) /\ uploaded = rows
  BY SheetsAssumption DEF Init
<1>2. Len(rows) \in Nat
  BY <1>1
<1>3. /\ published \in [Items -> SUBSET Envs] /\ clock = 0 /\ index = None /\ walk = None
      /\ cache = [key \in Items \X Envs |-> None] /\ changed = [key \in Items \X Envs |-> None]
      /\ failed = [e \in Envs |-> None]
      /\ req = NoRequest /\ verdict = NoVerdict /\ moves = 0 /\ faults = 0 /\ clients \in ClientSets
  BY CatalogsAssumption DEF Init
<1>4. TypeOK
  <2>1. req \in Requests
    BY <1>2, <1>3 DEF NoRequest, Requests
  <2> QED
    BY <1>1, <1>3, <2>1, BoundsAssumption DEF TypeOK, NoVerdict
<1>5. CatalogInv
  BY <1>3 DEF CatalogInv, SteadyInv, ListInv, IndexInv, CacheInv, CachedInv
<1>6. AnswersInv /\ LimitsInv /\ SchemasInv
  BY <1>3 DEF AnswersInv, LimitsInv, SchemasInv, NoRequest
<1>7. AssetsInv
  BY <1>1 DEF AssetsInv, Unasked
<1>8. WalkInv
  BY <1>3 DEF WalkInv, Found, NoRequest
<1>9. VerdictInv
  BY <1>3 DEF VerdictInv, NoVerdict, Found, NamesFound, UsersFound, RegionsFound, DeployAdmits, DeployRefuses, QAFound
<1> QED
  BY <1>4, <1>5, <1>6, <1>7, <1>8, <1>9 DEF IInv, RequestInv

\* A request that has looked at nothing knows nothing.
Blank(kind) == [kind |-> kind, row |-> 1, answers |-> [c \in Items |-> None],
                limits |-> [c \in Items |-> None], schemas |-> [c \in Items |-> None], bad |-> FALSE]

LEMMA FreshRequest ==
  ASSUME IInv, NEW kind \in Kinds \cup {"none"}, req' = Blank(kind),
         UNCHANGED <<published, changed, moves, clients, clock, rows, uploaded, index, cache, walk, failed, faults>>,
         verdict' \in [Kinds -> {"none", "clean", "bad"}], VerdictInv'
  PROVE  IInv'
<1> USE DEF IInv, RequestInv
<1>1. /\ req'.kind = kind /\ req'.row = 1 /\ ~req'.bad
      /\ \A c \in Items : req'.answers[c] = None /\ req'.limits[c] = None /\ req'.schemas[c] = None
  BY DEF Blank
<1>2. req' \in Requests'
  <2>1. 1 \in 1..(Len(rows') + 1)
    BY ReqIn
  <2>2. /\ [c \in Items |-> None] \in [Items -> Answers \cup {None}]
        /\ [c \in Items |-> None] \in [Items -> BOOLEAN \cup {None}]
    OBVIOUS
  <2> QED
    BY <2>1, <2>2 DEF Requests, Blank
<1>3. TypeOK'
  BY <1>2 DEF TypeOK
<1>4. Looked' = {}
  BY <1>1 DEF Looked
<1>5. Found(req'.kind, Word', Looked')
  BY <1>1, <1>4 DEF Found, NamesFound, UsersFound, RegionsFound, DeployAdmits, DeployRefuses, QAFound, Word
<1>6. WalkInv'
  BY <1>5, WalkStands
<1>7. AnswersInv' /\ LimitsInv' /\ SchemasInv'
  BY <1>1 DEF AnswersInv, LimitsInv, SchemasInv
<1>8. AssetsInv'
  BY DEF AssetsInv, Unasked
<1>9. CatalogInv'
  BY CachesStand
<1> QED
  BY <1>3, <1>6, <1>7, <1>8, <1>9

LEMMA BeginStep ==
  ASSUME IInv, NEW kind \in Kinds, Begin(kind)
  PROVE  IInv'
<1>1. UNCHANGED <<published, changed, moves, clients, clock, rows, uploaded, index, cache, walk, verdict, failed, faults>>
  BY DEF Begin, world
<1>2. VerdictInv'
  BY <1>1, VerdictsStand DEF IInv, RequestInv, Steady
<1>3. req' = Blank(kind)
  BY DEF Begin, Blank, NoRequest
<1> QED
  BY <1>1, <1>2, <1>3, FreshRequest DEF IInv, TypeOK

LEMMA FinishStep ==
  ASSUME IInv, Finish
  PROVE  IInv'
<1> USE DEF IInv, RequestInv
<1>1. req.kind \in Kinds /\ Looked = DOMAIN rows
  BY ReqIn, LookedIn DEF Finish
<1>2. /\ verdict' = [verdict EXCEPT ![req.kind] = Word]
      /\ UNCHANGED <<published, changed, moves, clients, clock, rows, uploaded, index, cache, walk, failed, faults>>
  BY DEF Finish, Word, world
<1>3. verdict \in [Kinds -> {"none", "clean", "bad"}] /\ Word \in {"none", "clean", "bad"}
  BY DEF TypeOK, Word
<1>4. VerdictInv'
  <2> SUFFICES ASSUME Steady', NEW k \in Kinds PROVE Found(k, verdict'[k], DOMAIN rows)
    BY <1>2, VerdictsAfter
  <2>1. CASE k = req.kind
    BY <1>1, <1>2, <1>3, <2>1 DEF WalkInv, Steady
  <2>2. CASE k # req.kind
    BY <1>2, <1>3, <2>2 DEF VerdictInv, Steady
  <2> QED
    BY <2>1, <2>2
<1>5. req' = Blank("none")
  BY DEF Finish, Blank, NoRequest
<1>6. verdict' \in [Kinds -> {"none", "clean", "bad"}]
  BY <1>1, <1>2, <1>3
<1> QED
  BY <1>2, <1>4, <1>5, <1>6, FreshRequest

\* What comes or leaves is written down as of now.
LEMMA MoveStep ==
  ASSUME IInv, Move
  PROVE  IInv'
<1> USE DEF IInv, CatalogInv, RequestInv
<1>1. PICK key \in Unsteady :
        /\ moves' = moves + 1 /\ moves < MaxMoves
        /\ published' = [published EXCEPT ![key[1]] = IF Published(key) THEN @ \ {key[2]} ELSE @ \cup {key[2]}]
        /\ changed' = [changed EXCEPT ![key] = clock]
  BY DEF Move
<1>2. UNCHANGED <<clock, rows, uploaded, index, cache, walk, req, verdict, failed, faults, clients>>
  BY DEF Move
<1>3. key \in Items \X Envs /\ key[1] \in Items /\ key[2] \in Envs /\ key = <<key[1], key[2]>>
  BY CatalogsAssumption
<1>4. clock \in Nat /\ moves \in Nat
  BY ClockIn, BoundsAssumption DEF TypeOK
<1>5. ~Steady' /\ moves' # 0
  BY <1>1, <1>4 DEF Steady
<1>6. TypeOK'
  <2>1. published' \in [Items -> SUBSET Envs]
    BY <1>1, <1>3 DEF TypeOK
  <2>2. changed' \in [Items \X Envs -> 0..clock \cup {None}]
    BY <1>1, <1>3, <1>4 DEF TypeOK
  <2>3. moves' \in 0..MaxMoves
    BY <1>1, <1>4, BoundsAssumption
  <2> QED
    BY <1>2, <2>1, <2>2, <2>3 DEF TypeOK, Requests
<1>7. ASSUME NEW c \in Items, NEW e \in Envs
      PROVE  changed'[<<c, e>>] = clock \/ (changed'[<<c, e>>] = changed[<<c, e>>] /\ (e \in published'[c] <=> e \in published[c]))
  <2>1. CASE key = <<c, e>>
    BY <1>1, <1>3, <2>1 DEF TypeOK
  <2>2. CASE key # <<c, e>>
    <3>1. changed'[<<c, e>>] = changed[<<c, e>>]
      BY <1>1, <1>3, <2>2 DEF TypeOK
    <3>2. e \in published'[c] <=> e \in published[c]
      <4>1. CASE key[1] = c
        <5>1. key[2] # e
          BY <1>3, <2>2, <4>1
        <5> QED
          BY <1>1, <1>3, <4>1, <5>1 DEF TypeOK
      <4>2. CASE key[1] # c
        BY <1>1, <1>3, <4>2 DEF TypeOK
      <4> QED
        BY <4>1, <4>2
    <3> QED
      BY <3>1, <3>2
  <2> QED
    BY <2>1, <2>2
<1>8. Later(published, changed, failed, published', changed', failed', clock)
  BY <1>2, <1>7, ClockIn DEF Later
<1>9. ListInv' /\ IndexInv' /\ CacheInv'
  BY <1>2, <1>8, SaidStands
<1>10. SteadyInv'
  BY <1>2, <1>5 DEF SteadyInv
<1>11. AssetsInv'
  BY <1>2 DEF AssetsInv, Unasked
<1> QED
  BY <1>5, <1>6, <1>9, <1>10, <1>11 DEF CachedInv, AnswersInv, LimitsInv, SchemasInv, WalkInv, VerdictInv

LEMMA TickStep ==
  ASSUME IInv, Tick
  PROVE  IInv'
<1> USE DEF IInv, CatalogInv
<1>1. /\ clock' = clock + 1 /\ clock < MaxTime
      /\ walk # None => clock < walk.since + MaxWalk
      /\ UNCHANGED <<published, changed, moves, clients, rows, uploaded, index, cache, walk, req, verdict, failed, faults>>
  BY DEF Tick, world
<1>2. clock \in Nat /\ MaxTime \in Nat /\ MaxWalk \in Nat
  BY ClockIn, BoundsAssumption
<1>3. 0..clock \subseteq 0..clock'
  BY <1>1, <1>2
<1>4. TypeOK'
  <2>1. clock' \in 0..MaxTime
    BY <1>1, <1>2
  <2>2. index' # None => index'.at <= clock'
    <3>1. index # None => index.at \in Nat
      BY DEF TypeOK, Index
    <3> QED
      BY <1>1, <1>2, <3>1 DEF TypeOK
  <2>3. \A c \in Items, e \in Envs : cache'[<<c, e>>] # None => cache'[<<c, e>>].at <= clock'
    <3> SUFFICES ASSUME NEW c \in Items, NEW e \in Envs, cache[<<c, e>>] # None
                 PROVE  cache[<<c, e>>].at <= clock'
      BY <1>1
    <3>1. cache[<<c, e>>] \in Cached /\ cache[<<c, e>>].at <= clock
      BY DEF TypeOK
    <3>2. cache[<<c, e>>].at \in Nat
      BY <3>1 DEF Cached
    <3> QED
      BY <1>1, <1>2, <3>1, <3>2
  <2>4. walk' # None => walk'.since <= clock' /\ clock' <= walk'.since + MaxWalk
    <3>1. walk # None => walk.since \in Nat
      BY DEF TypeOK, Walks
    <3> QED
      BY <1>1, <1>2, <3>1 DEF TypeOK
  <2>5. changed' \in [Items \X Envs -> 0..clock' \cup {None}]
    <3>1. changed \in [Items \X Envs -> 0..clock \cup {None}]
      BY DEF TypeOK
    <3> QED
      BY <1>1, <1>3, <3>1
  <2>6. failed' \in [Envs -> 0..clock' \cup {None}]
    <3>1. failed \in [Envs -> 0..clock \cup {None}]
      BY DEF TypeOK
    <3> QED
      BY <1>1, <1>3, <3>1
  <2> QED
    BY <1>1, <2>1, <2>2, <2>3, <2>4, <2>5, <2>6 DEF TypeOK, Requests
<1>5. CatalogInv'
  BY <1>1 DEF SteadyInv, ListInv, IndexInv, CacheInv, CachedInv, Steady
<1>6. RequestInv'
  BY <1>1, RequestStands DEF Steady
<1> QED
  BY <1>4, <1>5, <1>6

LEMMA StutterStep ==
  ASSUME IInv, UNCHANGED vars
  PROVE  IInv'
<1> USE DEF IInv, vars, world
<1>1. TypeOK'
  BY DEF TypeOK, Requests
<1>2. CatalogInv'
  BY DEF CatalogInv, SteadyInv, ListInv, IndexInv, CacheInv, CachedInv, Steady
<1>3. RequestInv'
  BY RequestStands DEF Steady
<1> QED
  BY <1>1, <1>2, <1>3

LEMMA NextIInv == IInv /\ [Next]_vars => IInv'
<1> SUFFICES ASSUME IInv, [Next]_vars PROVE IInv'
  OBVIOUS
<1>1. ASSUME NEW kind \in Kinds, Begin(kind) PROVE IInv'
  BY <1>1, BeginStep
<1>2. CASE List
  BY <1>2, ListStep
<1>3. CASE LookUp
  BY <1>3, LookUpStep
<1>4. CASE CheckNames
  BY <1>4, CheckNamesStep
<1>5. CASE CheckUsers
  BY <1>5, UsersStep
<1>6. CASE CheckRegions
  BY <1>6, RegionsStep
<1>7. CASE CheckDeploy
  BY <1>7, DeployStep
<1>8. CASE CheckRetry
  BY <1>8, RetryStep
<1>9. CASE Finish
  BY <1>9, FinishStep
<1>10. CASE Move
  BY <1>10, MoveStep
<1>11. CASE Tick
  BY <1>11, TickStep
<1>12. CASE UNCHANGED vars
  BY <1>12, StutterStep
<1> QED
  BY <1>1, <1>2, <1>3, <1>4, <1>5, <1>6, <1>7, <1>8, <1>9, <1>10, <1>11, <1>12 DEF Next

THEOREM Invariance == Spec => []IInv
BY InitIInv, NextIInv, PTL DEF Spec

-----------------------------------------------------------------------------
(* What follows. *)

\* Every variable has its type; the index and the cache are never of the future,
\* and no walk over the namespaces (_catalog_name_index) takes longer than MaxWalk.
THEOREM TypeCorrect == Spec => []TypeOK
<1>1. IInv => TypeOK
  BY DEF IInv
<1> QED
  BY <1>1, Invariance, PTL

\* A deployment that is let through (deploy's preflight) orders items that the
\* catalog has, from the namespaces where it has them, if the rows of one item
\* agree on its namespace and no item is outside its own namespace alone; so it
\* does for the assets that the check asks about, which is the row's own item.
\* If the rows have no other assets, and no name has an alias, QA's catalog
\* check agrees.
THEOREM AdmissionIsRight == Spec => []AdmittedIsPublished
<1>1. IInv => AdmittedIsPublished
  <2> SUFFICES ASSUME IInv, verdict["deploy"] = "clean", Steady, Canonical, Plain
               PROVE  /\ \A i \in DOMAIN rows : IsPublished(rows[i])
                      /\ \A i \in DOMAIN rows : \A c \in rows[i].assets \ Unasked(i) :
                            CatalogNamespace(c, None) \in published[c]
                      /\ (Settled /\ \A i \in DOMAIN rows : Unasked(i) = {}) => verdict["qa"] # "bad"
    BY DEF AdmittedIsPublished
  <2> USE DEF IInv, RequestInv
  <2>1. /\ Found("deploy", verdict["deploy"], DOMAIN rows)
        /\ Found("qa", verdict["qa"], DOMAIN rows)
    BY DEF VerdictInv, Kinds
  <2>2. ASSUME NEW i \in DOMAIN rows PROVE IsPublished(rows[i])
    <3>1. PICK f \in DOMAIN rows : rows[f].ci = rows[i].ci /\ IsPublished(rows[f])
      BY <2>1, <2>2 DEF Found, DeployAdmits
    <3>2. rows[f].ns = rows[i].ns
      BY <3>1 DEF Plain
    <3> QED
      BY <3>1, <3>2 DEF IsPublished
  <2>3. ASSUME NEW i \in DOMAIN rows, NEW c \in rows[i].assets \ Unasked(i)
        PROVE  c = rows[i].ci /\ CatalogNamespace(c, None) \in published[c]
    <3>1. c = rows[i].ci
      BY <2>3 DEF AssetsInv
    <3>2. c \in Items /\ published[c] # {}
      BY <2>2, <3>1, RowIn DEF IsPublished
    <3> QED
      BY <3>1, <3>2 DEF Canonical
  <2>4. ASSUME Settled, \A i \in DOMAIN rows : Unasked(i) = {}, verdict["qa"] = "bad" PROVE FALSE
    <3>1. PICK i \in DOMAIN rows : \E c \in Names("qa", rows[i]) : ~Right(c, rows[i].ns)
      BY <2>1, <2>4 DEF Found, QAFound
    <3>2. PICK c \in Names("qa", rows[i]) : ~Right(c, rows[i].ns)
      BY <3>1
    <3>3. c = rows[i].ci
      <4>1. rows[i].assets \subseteq {rows[i].ci}
        BY <2>4 DEF AssetsInv
      <4> QED
        BY <4>1 DEF Names
    <3>4. c \in Items /\ rows[i].ns \in Envs \cup {None} /\ published \in [Items -> SUBSET Envs]
      BY <3>3, RowIn DEF TypeOK
    <3>5. CatalogNamespace(c, rows[i].ns) \in published[c] /\ CatalogNamespace(c, rows[i].ns) \in Envs
      BY <2>2, <3>3, <3>4, NamespaceIn DEF IsPublished
    <3>6. Alias(c) \in {None, c}
      BY <2>4, <3>3 DEF Settled
    <3> QED
      BY <3>2, <3>4, <3>5, <3>6, Resolved DEF Right
  <2> QED
    BY <2>2, <2>3, <2>4
<1> QED
  BY <1>1, Invariance, PTL

\* The dashboard's three validations and deploy's preflight agree: what the
\* former have nothing to say about, the latter does not refuse, unless rows
\* name catalog namespaces.
THEOREM ReportsForetell == Spec => []ReportForetells
<1>1. IInv => ReportForetells
  <2> SUFFICES ASSUME IInv, Steady, \A i \in DOMAIN rows : rows[i].ns = None,
                      \A k \in {"names", "users", "regions"} : verdict[k] = "clean",
                      verdict["deploy"] = "bad"
               PROVE  FALSE
    BY DEF ReportForetells
  <2> USE DEF IInv, RequestInv
  <2>1. \A k \in {"names", "users", "regions", "deploy"} : Found(k, verdict[k], DOMAIN rows)
    BY DEF VerdictInv, Kinds
  <2>2. /\ NamesFound("clean", DOMAIN rows)
        /\ UsersFound("clean", DOMAIN rows)
        /\ RegionsFound("clean", DOMAIN rows)
        /\ DeployRefuses("bad", DOMAIN rows)
    BY <2>1 DEF Found
  <2>3. PICK i \in DOMAIN rows : ~Right(rows[i].ci, rows[i].ns) \/ Limited(rows[i]) \/ Misplaced(rows[i])
    BY <2>2 DEF DeployRefuses
  <2>4. ~Right(rows[i].ci, rows[i].ns)
    BY <2>2, <2>3 DEF UsersFound, RegionsFound
  <2>5. PICK f \in DOMAIN rows : Right(rows[i].ci, rows[f].ns)
    BY <2>2 DEF NamesFound
  <2> QED
    BY <2>4, <2>5
<1> QED
  BY <1>1, Invariance, PTL

\* What is answered of a name, that it is in a namespace or that it is not, was
\* so within two times TTL and the time of the listings, or its listing failed
\* then, however the index, its walk and the cache (validate_catalog_item_exists)
\* follow one another.
StaleStep ==
    \A ci \in Unknown :
        LET key == Key(ci)
            wrong == req'.answers[ci].exists # Published(key)
        IN  (req'.answers[ci] # None /\ Alias(ci) \in {None, ci} /\ wrong) =>
                Lately(changed[key]) \/ (Published(key) /\ Lately(failed[key[2]]))

LEMMA LookUpIsFresh ==
  ASSUME IInv, LookUp
  PROVE  StaleStep
<1> USE DEF IInv, CatalogInv
<1> SUFFICES ASSUME NEW c \in Unknown, req'.answers[c] # None, Alias(c) \in {None, c},
                    req'.answers[c].exists # Published(Key(c))
             PROVE  Lately(changed[Key(c)]) \/ (Published(Key(c)) /\ Lately(failed[Key(c)[2]]))
  BY DEF StaleStep
<1> DEFINE row == rows[req.row]
           ns == CatalogNamespace(c, row.ns)
           late == clock + 2 - 2 * TTL - MaxWalk
<1>1. PICK d \in Unknown :
        /\ Fresh(index) \/ (~Prefetch /\ Fresh(cache[Key(d)]))
        /\ req' = [req EXCEPT !.answers[d] = Answer(d, Key(d)[2])]
  BY DEF LookUp
<1>2. /\ req.row \in DOMAIN rows /\ req.kind \in {"names", "deploy", "qa"} /\ req \in Requests
      /\ c \in Names(req.kind, row) /\ req.answers[c] = None
      /\ d \in Names(req.kind, row)
  BY ReqIn DEF Unknown, Walking, TypeOK
<1>3. c \in Items /\ d \in Items /\ ns \in Envs /\ Key(c) = <<c, ns>>
  <2>1. c \in Items /\ d \in Items
    BY <1>2, RowIn DEF Kinds
  <2> QED
    BY <1>2, <2>1, RowIn, NamespaceIn DEF Key
<1>4. req'.answers = [req.answers EXCEPT ![d] = Answer(d, Key(d)[2])]
  BY <1>1, <1>2 DEF Requests
<1>5. d = c
  BY <1>2, <1>3, <1>4, ReqIn
<1>6. req'.answers[c] = Answer(c, ns)
  BY <1>3, <1>4, <1>5, ReqIn
<1>7. Fresh(index) \/ Fresh(cache[<<c, ns>>])
  BY <1>1, <1>3, <1>5
<1>8. /\ Answer(c, ns) \in Answers
      /\ Told(published, changed, failed, c, ns, Answer(c, ns).exists, late)
  BY <1>3, <1>7, AnswerStep
<1>9. /\ clock \in Nat /\ TTL \in Nat \ {0} /\ MaxWalk \in Nat
      /\ changed[<<c, ns>>] # None => changed[<<c, ns>>] \in Nat
      /\ failed[ns] # None => failed[ns] \in Nat
  BY <1>3, ClockIn
<1>10. Published(Key(c)) = (ns \in published[c]) /\ Key(c)[2] = ns
  BY <1>3 DEF Published
<1> DEFINE yes == Answer(c, ns).exists
<1>11. yes \in BOOLEAN /\ (yes # (ns \in published[c])) /\ Told(published, changed, failed, c, ns, yes, late)
  BY <1>6, <1>8, <1>10 DEF Answers
<1> HIDE DEF yes, ns
<1>12. \/ changed[<<c, ns>>] # None /\ late <= changed[<<c, ns>>]
       \/ ns \in published[c] /\ failed[ns] # None /\ late <= failed[ns]
  BY <1>11 DEF Told
<1>13. Lately(changed[<<c, ns>>]) \/ (ns \in published[c] /\ Lately(failed[ns]))
  BY <1>9, <1>12 DEF Lately
<1> QED
  BY <1>3, <1>10, <1>13

\* However the listings, the index and the cache follow one another, what a
\* request is told of a name that no alias changes (validate_catalog_item_exists)
\* was so not long ago: within two times TTL and the time of the listings it
\* came or left, or the listing that missed it failed.
THEOREM StaleForAShortTime == Spec => NotStaleForLong
<1>1. IInv /\ [Next]_vars => [StaleStep]_vars
  <2> SUFFICES ASSUME IInv, Next PROVE StaleStep
    OBVIOUS
  <2>1. ASSUME req.kind = "none" \/ req.row > Len(rows) PROVE StaleStep
    <3>1. Unknown = {}
      BY <2>1, ReqIn DEF Unknown, Walking, IInv
    <3> QED
      BY <3>1 DEF StaleStep
  <2>2. ASSUME req'.answers = req.answers PROVE StaleStep
    BY <2>2 DEF StaleStep, Unknown
  <2>3. req \in Requests
    BY DEF IInv, TypeOK
  <2>4. CASE (\E kind \in Kinds : Begin(kind)) \/ Finish
    BY <2>1, <2>4 DEF Begin, Finish
  <2>5. CASE List \/ Move \/ Tick
    BY <2>2, <2>5 DEF List, Move, Tick
  <2>6. CASE LookUp
    BY <2>6, LookUpIsFresh
  <2>7. CASE CheckNames \/ CheckUsers \/ CheckRegions \/ CheckDeploy \/ CheckRetry
    <3>1. req'.answers = req.answers
      BY <2>3, <2>7 DEF CheckNames, CheckUsers, CheckRegions, CheckDeploy, CheckRetry, Requests
    <3> QED
      BY <2>2, <3>1
  <2> QED
    BY <2>4, <2>5, <2>6, <2>7 DEF Next
<1> QED
  BY <1>1, Invariance, PTL DEF Spec, NotStaleForLong, StaleStep
=============================================================================
