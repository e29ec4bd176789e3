--------------------------- MODULE OperationsProofs ---------------------------
(* Proofs about Operations: whatever requests overlap and fail, no stop or       *)
(* destroy time falls below what it was, and no standing pool is resized; a      *)
(* request that nobody disturbs leaves its objects as one step would; and of     *)
(* the extensions that were made of an object, one at least counts.              *)
EXTENDS Operations, FiniteSetTheorems, TLAPS

\* A time that is set is at least what it was at the beginning.
AtLeastFirst(f, o, v) ==
    v = None \/ (v \in Nat /\ First[f][o] \in Nat /\ First[f][o] <= v)

Shapes ==
    /\ field = [f \in Fields |-> [o \in Objects |-> field[f][o]]]
    /\ seen = [p \in Requests |-> [o \in Objects |-> seen[p][o]]]
    /\ todo \in [Requests -> SUBSET Objects]
    /\ call \in [Requests -> Calls]

TimesKept == \A f \in Times, o \in Objects : AtLeastFirst(f, o, field[f][o])

\* What a request goes by is no older than the beginning either.
SeenTimesKept ==
    \A p \in Requests, o \in Objects :
        FieldOf(call[p].op) \in Times => AtLeastFirst(FieldOf(call[p].op), o, seen[p][o])

\* A request that is about to apply a pool has not seen a standing one missing.
SeenPoolsKept ==
    \A p \in Requests : \A o \in todo[p] :
        call[p].op = "create_pools" /\ First["pool"][o] # None => seen[p][o] # None

IInv == Shapes /\ TimesKept /\ SeenTimesKept /\ PoolsKept /\ SeenPoolsKept

USE DEF Times, Fields, Ops

\* The field an operation works on, and which operations work on the times.
LEMMA FieldOfOps ==
    ASSUME NEW op \in Ops
    PROVE  /\ FieldOf(op) \in Fields
           /\ FieldOf(op) \in Times <=> op \in {"extend_stop", "disable_autostop", "extend_destroy"}
           /\ FieldOf(op) = "pool" <=> op = "create_pools"
  BY DEF FieldOf

\* What the listing says of an object that is patched gives a value that keeps
\* the times and the standing pools.
LEMMA NewIsKept ==
    ASSUME NEW c \in Calls, NEW r, NEW o \in Objects, NEW v, ~Leaves(c, r, v)
    PROVE  /\ FieldOf(c.op) \in Times /\ AtLeastFirst(FieldOf(c.op), o, v)
                => AtLeastFirst(FieldOf(c.op), o, New(c, r, v))
           /\ c.op = "create_pools" => v = None
  <1>1. c.op \in Ops
    BY CallsAssumption
  <1>2. CASE c.op \in {"extend_stop", "extend_destroy"}
    <2>1. v # None /\ c.value \in Nat /\ New(c, r, v) = v + c.value
      BY <1>2, CallsAssumption DEF Leaves, New, Extended
    <2>2. ASSUME v \in Nat, First[FieldOf(c.op)][o] \in Nat, First[FieldOf(c.op)][o] <= v
          PROVE  v + c.value \in Nat /\ First[FieldOf(c.op)][o] <= v + c.value
      BY <2>1, <2>2
    <2> QED
      BY <1>2, <2>1, <2>2 DEF AtLeastFirst
  <1>3. CASE c.op = "disable_autostop"
    BY <1>3 DEF New, AtLeastFirst
  <1>4. CASE c.op = "create_pools"
    BY <1>4 DEF Leaves, FieldOf
  <1>5. CASE c.op \in {"lock", "unlock", "scale", "update_passwords"}
    BY <1>5 DEF FieldOf
  <1> QED
    BY <1>1, <1>2, <1>3, <1>4, <1>5

\* Writing such a value keeps the invariant of the cluster.
LEMMA WriteKeeps ==
    ASSUME IInv, NEW p \in Requests, NEW o \in todo[p],
           ~Leaves(call[p], RowOf(p), seen[p][o]),
           field' = [field EXCEPT ![FieldOf(call[p].op)][o] = New(call[p], RowOf(p), seen[p][o])]
    PROVE  /\ field' = [f \in Fields |-> [x \in Objects |-> field'[f][x]]]
           /\ TimesKept'
           /\ PoolsKept'
  <1> DEFINE fld == FieldOf(call[p].op)
             new == New(call[p], RowOf(p), seen[p][o])
  <1>1. call[p] \in Calls /\ o \in Objects /\ call[p].op \in Ops
    BY CallsAssumption DEF IInv, Shapes
  <1>2. fld \in Fields /\ (fld \in Times => AtLeastFirst(fld, o, new))
    BY <1>1, FieldOfOps, NewIsKept DEF IInv, SeenTimesKept
  <1>3. fld = "pool" => First["pool"][o] = None
    BY <1>1, FieldOfOps, NewIsKept DEF IInv, SeenPoolsKept
  <1>4. field' = [f \in Fields |-> [x \in Objects |->
                     IF f = fld /\ x = o THEN new ELSE field[f][x]]]
    <2> HIDE DEF fld, new
    <2>1. field' = [field EXCEPT ![fld][o] = new]
      BY DEF fld, new
    <2>2. field = [f \in Fields |-> [x \in Objects |-> field[f][x]]]
      BY DEF IInv, Shapes
    <2>3. DOMAIN field = Fields /\ \A f \in Fields : field[f] = [x \in Objects |-> field[f][x]]
      BY <2>2
    <2>4. field' = [f \in Fields |-> IF f = fld THEN [field[f] EXCEPT ![o] = new] ELSE field[f]]
      BY <1>2, <2>1, <2>2, <2>3
    <2>5. \A f \in Fields : [field[f] EXCEPT ![o] = new]
                              = [x \in Objects |-> IF x = o THEN new ELSE field[f][x]]
      BY <2>3, <1>1
    <2>6. ASSUME NEW f \in Fields
          PROVE  (IF f = fld THEN [field[f] EXCEPT ![o] = new] ELSE field[f])
                   = [x \in Objects |-> IF f = fld /\ x = o THEN new ELSE field[f][x]]
      <3>1. CASE f = fld
        BY <2>5, <3>1
      <3>2. CASE f # fld
        BY <2>3, <3>2
      <3> QED
        BY <3>1, <3>2
    <2>7. \A f \in Fields : field'[f] = [x \in Objects |-> IF f = fld /\ x = o THEN new ELSE field[f][x]]
      BY <2>4, <2>6
    <2>8. field' = [f \in Fields |-> field'[f]]
      BY <2>4
    <2> DEFINE G == [f \in Fields |-> [x \in Objects |-> IF f = fld /\ x = o THEN new ELSE field[f][x]]]
    <2>9. \A f \in Fields : field'[f] = G[f]
      BY <2>7
    <2> QED
      BY <2>8, <2>9
  <1> HIDE DEF fld, new
  <1>5. field' = [f \in Fields |-> [x \in Objects |-> field'[f][x]]]
    BY <1>4
  <1>6. \A f \in Fields, x \in Objects :
            field'[f][x] = IF f = fld /\ x = o THEN new ELSE field[f][x]
    BY <1>4
  <1>7. TimesKept'
    BY <1>2, <1>6 DEF IInv, TimesKept, AtLeastFirst
  <1>8. PoolsKept'
    BY <1>3, <1>6 DEF IInv, PoolsKept
  <1> QED
    BY <1>5, <1>7, <1>8

LEMMA InitIInv == Init => IInv
  <1> SUFFICES ASSUME Init PROVE IInv
    OBVIOUS
  <1>1. Shapes
    BY FirstAssumption DEF Init, Shapes
  <1>2. TimesKept
    BY FirstAssumption DEF Init, TimesKept, AtLeastFirst
  <1>3. SeenTimesKept
    BY DEF Init, SeenTimesKept, AtLeastFirst
  <1>4. PoolsKept /\ SeenPoolsKept
    BY DEF Init, PoolsKept, SeenPoolsKept
  <1> QED
    BY <1>1, <1>2, <1>3, <1>4 DEF IInv

\* A step that forgets what a request has listed, and writes no more than WriteKeeps.
LEMMA ForgetKeeps ==
    ASSUME IInv, NEW p \in Requests, NEW left \in SUBSET todo[p], UNCHANGED call,
           todo' = [todo EXCEPT ![p] = left],
           \/ UNCHANGED seen
           \/ seen' = [seen EXCEPT ![p] = [o \in Objects |-> None]] /\ left = {}
           \/ \E o \in Objects \ left : seen' = [seen EXCEPT ![p][o] = None],
           field' = [f \in Fields |-> [x \in Objects |-> field'[f][x]]],
           TimesKept', PoolsKept'
    PROVE  IInv'
  <1>1. /\ seen' = [q \in Requests |-> [x \in Objects |-> seen'[q][x]]]
        /\ \A q \in Requests, x \in Objects : seen'[q][x] \in {seen[q][x], None}
        /\ \A q \in Requests : \A x \in todo'[q] : seen'[q][x] = seen[q][x]
    <2>1. seen = [q \in Requests |-> [x \in Objects |-> seen[q][x]]]
      BY DEF IInv, Shapes
    <2>2. todo \in [Requests -> SUBSET Objects] /\ todo' \in [Requests -> SUBSET Objects]
      BY DEF IInv, Shapes
    <2>3. CASE UNCHANGED seen
      BY <2>1, <2>3
    <2>4. CASE seen' = [seen EXCEPT ![p] = [o \in Objects |-> None]] /\ left = {}
      <3>1. seen' = [q \in Requests |-> [x \in Objects |-> IF q = p THEN None ELSE seen[q][x]]]
        BY <2>1, <2>4
      <3>2. \A q \in Requests : \A x \in todo'[q] : q # p /\ x \in Objects
        BY <2>2, <2>4
      <3> QED
        BY <3>1, <3>2
    <2>5. ASSUME NEW o \in Objects \ left, seen' = [seen EXCEPT ![p][o] = None]
          PROVE  <1>1!:
      <3>1. seen' = [q \in Requests |-> [x \in Objects |->
                        IF q = p /\ x = o THEN None ELSE seen[q][x]]]
        BY <2>1, <2>5
      <3>2. \A q \in Requests : \A x \in todo'[q] : x \in Objects /\ (q = p => x # o)
        BY <2>2, <2>5
      <3> QED
        BY <3>1, <3>2
    <2> QED
      BY <2>3, <2>4, <2>5
  <1>2. \A q \in Requests : \A x \in todo'[q] : x \in todo[q]
    BY DEF IInv, Shapes
  <1>3. Shapes'
    BY <1>1 DEF IInv, Shapes
  <1>4. SeenTimesKept'
    BY <1>1 DEF IInv, SeenTimesKept, AtLeastFirst
  <1>5. SeenPoolsKept'
    BY <1>1, <1>2 DEF IInv, SeenPoolsKept
  <1> QED
    BY <1>3, <1>4, <1>5 DEF IInv

LEMMA NextIInv == IInv /\ [Next]_vars => IInv'
  <1> SUFFICES ASSUME IInv, [Next]_vars PROVE IInv'
    OBVIOUS
  <1> USE DEF IInv
  <1>1. ASSUME UNCHANGED <<field, call, todo, seen>> PROVE IInv'
    BY <1>1 DEF Shapes, TimesKept, SeenTimesKept, PoolsKept, SeenPoolsKept, AtLeastFirst
  <1>2. ASSUME NEW p \in Requests, Begin(p) \/ DryRow(p) \/ NextListing(p) \/ Reply(p) \/ ListFails(p)
        PROVE IInv'
    BY <1>1, <1>2 DEF Begin, DryRow, NextListing, Reply, ListFails, Advance
  <1>3. ASSUME NEW p \in Requests, List(p) PROVE IInv'
    <2> DEFINE mine == FieldOf(call[p].op)
    <2>0. call[p] \in Calls /\ call[p].op \in Ops /\ mine \in Fields
      BY CallsAssumption, FieldOfOps DEF Shapes
    <2>1. /\ UNCHANGED <<field, call>>
          /\ todo' \in [Requests -> SUBSET Objects]
          /\ seen' = [seen EXCEPT ![p] = [o \in Objects |->
                        IF o \in todo'[p] THEN field[mine][o] ELSE None]]
          /\ \A q \in Requests \ {p} : todo'[q] = todo[q]
      BY <1>3 DEF List, Listed, Shapes
    <2>2. Shapes'
      BY <2>1 DEF Shapes
    <2>3. TimesKept' /\ PoolsKept'
      BY <2>1 DEF TimesKept, PoolsKept, AtLeastFirst
    <2>4. SeenTimesKept'
      BY <2>1 DEF Shapes, SeenTimesKept, TimesKept, AtLeastFirst
    <2>5. SeenPoolsKept'
      BY <2>0, <2>1, FieldOfOps DEF Shapes, SeenPoolsKept, PoolsKept
    <2> QED
      BY <2>2, <2>3, <2>4, <2>5
  <1>4. ASSUME NEW p \in Requests, NEW o \in Objects, Patch(p, o) PROVE IInv'
    <2>1. /\ o \in todo[p]
          /\ todo' = [todo EXCEPT ![p] = @ \ {o}]
          /\ seen' = [seen EXCEPT ![p][o] = None]
          /\ UNCHANGED call
      BY <1>4 DEF Patch, AtObject
    <2>2. /\ field' = [f \in Fields |-> [x \in Objects |-> field'[f][x]]]
          /\ TimesKept'
          /\ PoolsKept'
      <3>1. CASE Leaves(call[p], RowOf(p), seen[p][o])
        BY <1>4, <3>1 DEF Patch, Shapes, TimesKept, PoolsKept, AtLeastFirst
      <3>2. CASE ~Leaves(call[p], RowOf(p), seen[p][o])
        BY <1>4, <2>1, <3>2, WriteKeeps DEF Patch
      <3> QED
        BY <3>1, <3>2
    <2> QED
      BY <2>1, <2>2, ForgetKeeps
  <1>5. ASSUME NEW p \in Requests, NEW o \in Objects, PatchFails(p, o) PROVE IInv'
    <2>1. field' = [f \in Fields |-> [x \in Objects |-> field'[f][x]]] /\ TimesKept' /\ PoolsKept'
      BY <1>5 DEF PatchFails, Shapes, TimesKept, PoolsKept, AtLeastFirst
    <2> QED
      BY <1>5, <2>1, ForgetKeeps DEF PatchFails, AtObject
  <1>6. ASSUME NEW p \in Requests, NEW o \in Objects, PatchTimesOut(p, o) PROVE IInv'
    <2>1. field' = [f \in Fields |-> [x \in Objects |-> field'[f][x]]] /\ TimesKept' /\ PoolsKept'
      <3>1. CASE UNCHANGED field
        BY <3>1 DEF Shapes, TimesKept, PoolsKept, AtLeastFirst
      <3>2. CASE field' = [field EXCEPT ![FieldOf(call[p].op)][o] = New(call[p], RowOf(p), seen[p][o])]
        BY <1>6, <3>2, WriteKeeps DEF PatchTimesOut, AtObject
      <3> QED
        BY <1>6, <3>1, <3>2 DEF PatchTimesOut
    <2> QED
      BY <1>6, <2>1, ForgetKeeps DEF PatchTimesOut, GiveUp
  <1>7. ASSUME NEW p \in Requests, ListTimesOut(p) PROVE IInv'
    <2>1. field' = [f \in Fields |-> [x \in Objects |-> field'[f][x]]] /\ TimesKept' /\ PoolsKept'
      BY <1>7 DEF ListTimesOut, Shapes, TimesKept, PoolsKept, AtLeastFirst
    <2> QED
      BY <1>7, <2>1, ForgetKeeps DEF ListTimesOut, GiveUp
  <1>8. ASSUME NEW o \in Objects, PoolAppears(o) PROVE IInv'
    <2>1. field' = [f \in Fields |-> [x \in Objects |->
                       IF f = "pool" /\ x = o THEN "others" ELSE field[f][x]]]
      BY <1>8 DEF PoolAppears, Shapes
    <2>2. UNCHANGED <<call, todo, seen>> /\ First["pool"][o] = None
      BY <1>8 DEF PoolAppears, PoolsKept
    <2>3. Shapes' /\ SeenTimesKept' /\ SeenPoolsKept'
      BY <2>1, <2>2 DEF Shapes, SeenTimesKept, SeenPoolsKept, AtLeastFirst
    <2>4. TimesKept'
      BY <2>1 DEF TimesKept, AtLeastFirst
    <2>5. PoolsKept'
      BY <2>1, <2>2 DEF PoolsKept
    <2> QED
      BY <2>3, <2>4, <2>5
  <1>9. CASE UNCHANGED vars
    BY <1>1, <1>9 DEF vars
  <1> QED
    BY <1>2, <1>3, <1>4, <1>5, <1>6, <1>7, <1>8, <1>9 DEF Next, Step, Fault

\* The inductive invariant holds throughout.
THEOREM Invariance == Spec => []IInv
  BY InitIInv, NextIInv, PTL DEF Spec

\* For any number of requests, objects and rows, no operation, overlap or failure
\* brings a stop or a destroy time below what it was, or sets one that was not.
THEOREM NeverShortenedHolds == Spec => []NeverShortened
  <1>1. IInv => NeverShortened
    BY NoneAssumption DEF IInv, TimesKept, NeverShortened, AtLeastFirst
  <1> QED
    BY <1>1, Invariance, PTL

\* Nor does any of them resize a pool that was there at the beginning.
THEOREM PoolsKeptHolds == Spec => []PoolsKept
  <1>1. IInv => PoolsKept
    BY DEF IInv
  <1> QED
    BY <1>1, Invariance, PTL

\* A request that patches is at one of its rows.
Position ==
    /\ pc \in [Requests -> {"idle", "list", "patch", "done", "failed"}]
    /\ row \in [Requests -> Nat \ {0}]
    /\ \A p \in Requests :
          /\ row[p] <= Len(call[p].rows) + 1
          /\ pc[p] = "patch" => row[p] <= Len(call[p].rows)
    /\ clean \in [Requests -> BOOLEAN]
    /\ faults \in 0..MaxFaults

LEMMA RowsCounted == \A c \in Calls : Len(c.rows) \in Nat
  BY CallsAssumption

\* The loop goes on within the rows of its call.
LEMMA AdvanceStays ==
    ASSUME Position, Shapes, NEW p \in Requests,
           Advance(p, TRUE) \/ Advance(p, FALSE),
           row[p] <= Len(call[p].rows), UNCHANGED call,
           clean' \in [Requests -> BOOLEAN], faults' \in 0..MaxFaults
    PROVE  Position'
  <1>1. \A q \in Requests : Len(call[q].rows) \in Nat
    BY RowsCounted DEF Shapes
  <1>2. /\ pc' = [pc EXCEPT ![p] = "list"]
        /\ \E n \in {row[p], row[p] + 1} : row' = [row EXCEPT ![p] = n]
    BY DEF Advance, Position
  <1> QED
    BY <1>1, <1>2 DEF Position

LEMMA NextPosition == Shapes /\ Position /\ [Next]_vars => Position'
  <1> SUFFICES ASSUME Shapes, Position, [Next]_vars PROVE Position'
    OBVIOUS
  <1>0. \A q \in Requests : Len(call[q].rows) \in Nat
    BY RowsCounted DEF Shapes
  <1>1. CASE UNCHANGED vars
    BY <1>1 DEF vars, Position
  <1>2. ASSUME NEW p \in Requests, Begin(p) PROVE Position'
    BY <1>2 DEF Begin, Position
  <1>3. ASSUME NEW p \in Requests, List(p) PROVE Position'
    BY <1>0, <1>3 DEF List, AtRow, Position
  <1>4. ASSUME NEW p \in Requests, DryRow(p) PROVE Position'
    <2>1. /\ Advance(p, TRUE) /\ row[p] <= Len(call[p].rows) /\ UNCHANGED call
          /\ clean' \in [Requests -> BOOLEAN] /\ faults' \in 0..MaxFaults
      BY <1>4 DEF DryRow, AtRow, Position
    <2> QED
      BY <2>1, AdvanceStays
  <1>5. ASSUME NEW p \in Requests, NextListing(p) PROVE Position'
    <2>1. /\ Advance(p, FALSE) /\ row[p] <= Len(call[p].rows) /\ UNCHANGED call
          /\ clean' \in [Requests -> BOOLEAN] /\ faults' \in 0..MaxFaults
      BY <1>5 DEF NextListing, Position
    <2> QED
      BY <2>1, AdvanceStays
  <1>6. ASSUME NEW p \in Requests, Reply(p) PROVE Position'
    BY <1>0, <1>6 DEF Reply, Position
  <1>7. ASSUME NEW p \in Requests, NEW o \in Objects, Patch(p, o) PROVE Position'
    BY <1>7 DEF Patch, Position
  <1>8. ASSUME NEW p \in Requests, NEW o \in Objects, PatchFails(p, o) PROVE Position'
    BY <1>8, MaxFaultsAssumption DEF PatchFails, Position
  <1>9. ASSUME NEW p \in Requests, ListFails(p) PROVE Position'
    <2>1. faults' \in 0..MaxFaults /\ clean' \in [Requests -> BOOLEAN]
      BY <1>9, MaxFaultsAssumption DEF ListFails, Position
    <2>2. Advance(p, TRUE) /\ row[p] <= Len(call[p].rows) /\ UNCHANGED call
      BY <1>9 DEF ListFails, AtRow
    <2> QED
      BY <2>1, <2>2, AdvanceStays
  <1>10. ASSUME NEW p \in Requests, GiveUp(p), row[p] <= Len(call[p].rows) PROVE Position'
    <2>1. faults' \in 0..MaxFaults /\ clean' \in [Requests -> BOOLEAN] /\ UNCHANGED call
      BY <1>10, MaxFaultsAssumption DEF GiveUp, Position
    <2>2. CASE call[p].op = "create_pools"
      <3>1. Advance(p, TRUE)
        BY <1>10, <2>2 DEF GiveUp
      <3> QED
        BY <1>10, <2>1, <3>1, AdvanceStays
    <2>3. CASE call[p].op # "create_pools"
      BY <1>0, <1>10, <2>1, <2>3 DEF GiveUp, Position
    <2> QED
      BY <2>2, <2>3
  <1>11. ASSUME NEW p \in Requests, NEW o \in Objects, PatchTimesOut(p, o) PROVE Position'
    BY <1>10, <1>11 DEF PatchTimesOut, AtObject, Position
  <1>12. ASSUME NEW p \in Requests, ListTimesOut(p) PROVE Position'
    BY <1>10, <1>12 DEF ListTimesOut, AtRow
  <1>13. ASSUME NEW o \in Objects, PoolAppears(o) PROVE Position'
    BY <1>13 DEF PoolAppears, Position
  <1> QED
    BY <1>1, <1>2, <1>3, <1>4, <1>5, <1>6, <1>7, <1>8, <1>9, <1>11, <1>12, <1>13 DEF Next, Step, Fault

\* Every variable of Operations keeps its type: no request works beyond the rows
\* of its call.
THEOREM TypeCorrect == Spec => []TypeOK
  <1>1. Init => Position
    BY RowsCounted, MaxFaultsAssumption DEF Init, Position
  <1>2. IInv /\ Position /\ [Next]_vars => Position'
    BY NextPosition DEF IInv
  <1>3. IInv /\ Position => TypeOK
    <2> SUFFICES ASSUME IInv, Position PROVE TypeOK
      OBVIOUS
    <2>1. \A f \in Fields : field[f] = [o \in Objects |-> field[f][o]]
      BY DEF IInv, Shapes
    <2>2. \A f \in Times : field[f] \in [Objects -> Nat \cup {None}]
      BY <2>1 DEF IInv, TimesKept, AtLeastFirst
    <2>3. DOMAIN field = Fields
      BY DEF IInv, Shapes
    <2> QED
      BY <2>2, <2>3 DEF IInv, Shapes, Position, TypeOK
  <1> QED
    BY <1>1, <1>2, <1>3, Invariance, PTL DEF Spec
-----------------------------------------------------------------------------
(* How far a request has come with each object. *)

\* The rows of its call for which a request is done with an object: those behind
\* it, and its present one from when the object is worked off.
Past(p, o) ==
    {i \in Naming(call[p], o) :
        \/ i < row[p]
        \/ /\ i = row[p]
           /\ \E n \in DOMAIN Phases(call[p].op) :
                 /\ Phases(call[p].op)[n] = Kind[o]
                 /\ n < phase[p] \/ (n = phase[p] /\ pc[p] = "patch" /\ o \notin todo[p])}

\* What a request works off is what it listed for its row and phase.
PlaceInv ==
    /\ phase \in [Requests -> Nat]
    /\ \A p \in Requests :
          /\ phase[p] \in DOMAIN Phases(call[p].op)
          /\ pc[p] = "idle" => row[p] = 1 /\ phase[p] = 1
          /\ pc[p] = "done" => row[p] > Len(call[p].rows)
          /\ pc[p] = "patch" =>
                /\ ~call[p].dry
                /\ todo[p] \subseteq Listed(Phases(call[p].op)[phase[p]], RowOf(p).item)

\* A request that is still clean is alone with its field.
SoleInv ==
    \A p, q \in Requests :
        p # q /\ clean[p] /\ Running(p) /\ Running(q)
            => FieldOf(call[p].op) # FieldOf(call[q].op)

\* What an object has after a call has dealt with it for the rows in S.
After(c, o, v, S) ==
    IF c.dry \/ S = {} THEN v
    ELSE CASE c.op \in {"extend_stop", "extend_destroy"} ->
                  IF v = None THEN None ELSE v + c.value * Cardinality(S)
           [] c.op \in {"lock", "unlock"} -> c.op = "lock"
           [] c.op = "disable_autostop" -> None
           [] c.op = "scale" -> c.value
           [] c.op = "update_passwords" ->
                  Rows[c.rows[CHOOSE i \in S : \A j \in S : j <= i]].password
           [] c.op = "create_pools" -> IF v = None THEN c.value ELSE v

\* A clean request has left its field as its call so far would in one step, and
\* what it has listed is what there is.
ValueInv ==
    \A p \in Requests : clean[p] /\ Running(p) =>
        \A o \in Objects :
            /\ field[FieldOf(call[p].op)][o] = After(call[p], o, at[p][o], Past(p, o))
            /\ pc[p] = "patch" /\ o \in todo[p] => seen[p][o] = field[FieldOf(call[p].op)][o]

\* Nothing failed, and nobody has begun to take the times of field f away.
Undisturbed(f) ==
    /\ faults = 0
    /\ \A p \in Requests : FieldOf(call[p].op) = f /\ call[p].op = "disable_autostop" => pc[p] = "idle"

\* The requests that extend object o in field f, and have begun.
Extending(f, o) == {p \in Requests : Extends(p, f) /\ ~call[p].dry /\ Naming(call[p], o) # {}}

Counted(f, o) == \E q \in Extending(f, o) : field[f][o] >= First[f][o] + call[q].value

\* From when one extension has been made, at least one counts, whichever was last.
CountInv ==
    \A f \in Times, o \in Objects : Undisturbed(f) /\ First[f][o] # None =>
        /\ field[f][o] # None
        /\ \A p \in Requests :
              FieldOf(call[p].op) = f /\ pc[p] = "patch" /\ o \in todo[p] => seen[p][o] # None
        /\ (\E p \in Extending(f, o) : Past(p, o) # {}) => Counted(f, o)

\* The phases of an operation are its kinds of object, each once.
LEMMA PhasesOfOps ==
    ASSUME NEW op \in Ops
    PROVE  /\ Len(Phases(op)) \in {1, 2}
           /\ DOMAIN Phases(op) = 1..Len(Phases(op))
           /\ \A m, n \in DOMAIN Phases(op) : Phases(op)[m] = Phases(op)[n] => m = n
           /\ \A kind : kind \in Reach(op) <=> \E n \in DOMAIN Phases(op) : Phases(op)[n] = kind
  <1>1. CASE op \in {"extend_destroy", "disable_autostop"}
    <2>1. Phases(op) = <<"workshop", "provision">> /\ Reach(op) = {"workshop", "provision"}
      BY <1>1 DEF Phases, Reach
    <2> QED
      BY <2>1
  <1>2. CASE op = "scale"
    <2>1. Phases(op) = <<"provision">> /\ Reach(op) = {"provision"}
      BY <1>2 DEF Phases, Reach
    <2> QED
      BY <2>1
  <1>3. CASE op = "create_pools"
    <2>1. Phases(op) = <<"pool">> /\ Reach(op) = {"pool"}
      BY <1>3 DEF Phases, Reach
    <2> QED
      BY <2>1
  <1>4. CASE op \in {"lock", "unlock", "extend_stop", "update_passwords"}
    <2>1. Phases(op) = <<"workshop">> /\ Reach(op) = {"workshop"}
      BY <1>4 DEF Phases, Reach
    <2> QED
      BY <2>1
  <1> QED
    BY <1>1, <1>2, <1>3, <1>4

\* A step that is p's alone.
OnlyOf(p) ==
    /\ UNCHANGED call
    /\ \A q \in Requests \ {p} :
          /\ pc'[q] = pc[q] /\ row'[q] = row[q] /\ phase'[q] = phase[q]
          /\ todo'[q] = todo[q] /\ seen'[q] = seen[q] /\ at'[q] = at[q]

\* Where a request is, as PlaceInv has it.
Placed(p) ==
    /\ phase[p] \in DOMAIN Phases(call[p].op)
    /\ pc[p] = "idle" => row[p] = 1 /\ phase[p] = 1
    /\ pc[p] = "done" => row[p] > Len(call[p].rows)
    /\ pc[p] = "patch" =>
          /\ ~call[p].dry
          /\ todo[p] \subseteq Listed(Phases(call[p].op)[phase[p]], RowOf(p).item)

LEMMA StepIsOnes ==
    ASSUME Shapes, Position, PlaceInv, NEW p \in Requests, Step(p) \/ Fault(p)
    PROVE  OnlyOf(p)
  <1> USE DEF OnlyOf, Shapes, Position, PlaceInv
  <1>1. ASSUME Advance(p, TRUE) \/ Advance(p, FALSE), UNCHANGED <<call, at>>,
               \A q \in Requests \ {p} : todo'[q] = todo[q] /\ seen'[q] = seen[q]
        PROVE  OnlyOf(p)
    BY <1>1 DEF Advance
  <1>2. CASE Begin(p)
    <2>1. \A q \in Requests \ {p} : at'[q] = at[q]
      BY <1>2 DEF Begin
    <2> QED
      BY <1>2, <2>1 DEF Begin
  <1>3. CASE List(p)
    <2>1. \A q \in Requests \ {p} : todo'[q] = todo[q] /\ seen'[q] = seen[q]
      BY <1>3 DEF List
    <2> QED
      BY <1>3, <2>1 DEF List
  <1>4. CASE DryRow(p)
    BY <1>1, <1>4 DEF DryRow
  <1>5. CASE NextListing(p)
    BY <1>1, <1>5 DEF NextListing
  <1>6. CASE Reply(p)
    BY <1>6 DEF Reply
  <1>7. ASSUME NEW o \in Objects, Patch(p, o) PROVE OnlyOf(p)
    BY <1>7 DEF Patch
  <1>8. CASE ListFails(p)
    BY <1>1, <1>8 DEF ListFails
  <1>9. CASE GiveUp(p)
    <2>1. \A q \in Requests \ {p} : todo'[q] = todo[q] /\ seen'[q] = seen[q]
      BY <1>9 DEF GiveUp
    <2>2. CASE call[p].op = "create_pools"
      BY <1>1, <1>9, <2>1, <2>2 DEF GiveUp
    <2>3. CASE call[p].op # "create_pools"
      BY <1>9, <2>1, <2>3 DEF GiveUp
    <2> QED
      BY <2>2, <2>3
  <1>10. ASSUME NEW o \in Objects, PatchFails(p, o) PROVE OnlyOf(p)
    BY <1>10 DEF PatchFails
  <1> QED
    BY <1>2, <1>3, <1>4, <1>5, <1>6, <1>7, <1>8, <1>9, <1>10
       DEF Step, Fault, ListTimesOut, PatchTimesOut

LEMMA PlacedStays ==
    ASSUME PlaceInv, NEW p \in Requests, OnlyOf(p), phase' \in [Requests -> Nat], Placed(p)'
    PROVE  PlaceInv'
  BY DEF PlaceInv, Placed, OnlyOf, RowOf

\* Going on to the next phase or the next row.
LEMMA AdvanceIsPlaced ==
    ASSUME Shapes, Position, PlaceInv, NEW p \in Requests, Advance(p, TRUE) \/ Advance(p, FALSE),
           UNCHANGED call
    PROVE  phase' \in [Requests -> Nat] /\ Placed(p)'
  <1>1. call[p].op \in Ops
    BY CallsAssumption DEF Shapes
  <1>2. /\ pc' = [pc EXCEPT ![p] = "list"]
        /\ \/ phase' = [phase EXCEPT ![p] = 1]
           \/ phase' = [phase EXCEPT ![p] = @ + 1] /\ phase[p] < Len(Phases(call[p].op))
    BY DEF Advance
  <1>3. /\ pc'[p] = "list" /\ phase' \in [Requests -> Nat] /\ phase'[p] \in DOMAIN Phases(call[p].op)
    <2> DEFINE n == Len(Phases(call[p].op))
    <2>1. n \in {1, 2} /\ DOMAIN Phases(call[p].op) = 1..n
      BY <1>1, PhasesOfOps
    <2>2. phase \in [Requests -> Nat] /\ phase[p] \in 1..n
      BY <2>1 DEF PlaceInv
    <2> HIDE DEF n
    <2>3. CASE phase' = [phase EXCEPT ![p] = 1]
      BY <1>2, <2>1, <2>2, <2>3 DEF Position
    <2>4. CASE phase' = [phase EXCEPT ![p] = @ + 1] /\ phase[p] < n
      BY <1>2, <2>1, <2>2, <2>4 DEF Position
    <2> QED
      BY <1>2, <2>3, <2>4 DEF n
  <1> QED
    BY <1>3 DEF Placed

LEMMA NextPlace == Shapes /\ Position /\ PlaceInv /\ [Next]_vars => PlaceInv'
  <1> SUFFICES ASSUME Shapes, Position, PlaceInv, [Next]_vars PROVE PlaceInv'
    OBVIOUS
  <1>0. \A p \in Requests : Placed(p) /\ phase[p] \in Nat
    BY DEF PlaceInv, Placed
  <1>1. CASE UNCHANGED <<pc, call, row, phase, todo>>
    BY <1>1 DEF PlaceInv, RowOf
  <1>2. ASSUME NEW p \in Requests, Step(p) \/ Fault(p), phase' \in [Requests -> Nat], Placed(p)'
        PROVE  PlaceInv'
    BY <1>2, StepIsOnes, PlacedStays
  <1>3. ASSUME NEW p \in Requests, Advance(p, TRUE) \/ Advance(p, FALSE), UNCHANGED call,
               Step(p) \/ Fault(p)
        PROVE  PlaceInv'
    BY <1>2, <1>3, AdvanceIsPlaced
  <1>4. ASSUME NEW p \in Requests, Begin(p) PROVE PlaceInv'
    <2>1. pc'[p] = "list" /\ UNCHANGED <<phase, call>>
      BY <1>4 DEF Begin, Position
    <2> QED
      BY <1>0, <1>2, <1>4, <2>1 DEF Placed, PlaceInv, Step
  <1>5. ASSUME NEW p \in Requests, List(p) PROVE PlaceInv'
    <2>1. /\ pc'[p] = "patch" /\ UNCHANGED <<phase, call, row>> /\ ~call[p].dry
          /\ todo'[p] = Listed(Phases(call[p].op)[phase[p]], RowOf(p).item)
      BY <1>5 DEF List, Position, Shapes
    <2> QED
      BY <1>0, <1>2, <1>5, <2>1 DEF Placed, PlaceInv, Step, RowOf
  <1>6. ASSUME NEW p \in Requests, DryRow(p) \/ NextListing(p) \/ ListFails(p) PROVE PlaceInv'
    BY <1>3, <1>6 DEF DryRow, NextListing, ListFails, Step, Fault
  <1>7. ASSUME NEW p \in Requests, Reply(p) PROVE PlaceInv'
    <2>1. pc'[p] = "done" /\ UNCHANGED <<phase, call, row>> /\ row[p] > Len(call[p].rows)
      BY <1>7 DEF Reply, Position
    <2> QED
      BY <1>0, <1>2, <1>7, <2>1 DEF Placed, PlaceInv, Step
  <1>8. ASSUME NEW p \in Requests, NEW o \in Objects, Patch(p, o) \/ PatchFails(p, o) PROVE PlaceInv'
    <2>1. /\ UNCHANGED <<pc, phase, call, row>> /\ todo'[p] \subseteq todo[p]
      BY <1>8 DEF Patch, PatchFails, Shapes
    <2> QED
      BY <1>0, <1>2, <1>8, <2>1 DEF Placed, PlaceInv, Step, Fault, RowOf
  <1>9. ASSUME NEW p \in Requests, GiveUp(p), Fault(p) PROVE PlaceInv'
    <2>1. CASE call[p].op = "create_pools"
      BY <1>3, <1>9, <2>1 DEF GiveUp
    <2>2. CASE call[p].op # "create_pools"
      <3>1. pc'[p] = "failed" /\ UNCHANGED <<phase, call, row>>
        BY <1>9, <2>2 DEF GiveUp, Position
      <3> QED
        BY <1>0, <1>2, <1>9, <3>1 DEF Placed, PlaceInv
    <2> QED
      BY <2>1, <2>2
  <1>10. ASSUME NEW p \in Requests, ListTimesOut(p) PROVE PlaceInv'
    BY <1>9, <1>10 DEF ListTimesOut, Fault
  <1>11. ASSUME NEW p \in Requests, NEW o \in Objects, PatchTimesOut(p, o) PROVE PlaceInv'
    BY <1>9, <1>11 DEF PatchTimesOut, Fault
  <1>12. ASSUME NEW o \in Objects, PoolAppears(o) PROVE PlaceInv'
    BY <1>1, <1>12 DEF PoolAppears
  <1>13. CASE UNCHANGED vars
    BY <1>1, <1>13 DEF vars
  <1> QED
    BY <1>4, <1>5, <1>6, <1>7, <1>8, <1>10, <1>11, <1>12, <1>13 DEF Next, Step, Fault
-----------------------------------------------------------------------------
(* What the steps do to Past. *)

LEMMA NamingIsFinite ==
    ASSUME NEW c \in Calls, NEW o
    PROVE  Naming(c, o) \subseteq 1..Len(c.rows) /\ Len(c.rows) \in Nat /\ IsFiniteSet(Naming(c, o))
  <1>1. Naming(c, o) \subseteq 1..Len(c.rows) /\ Len(c.rows) \in Nat
    BY CallsAssumption DEF Naming
  <1>2. IsFiniteSet(1..Len(c.rows))
    BY <1>1, FS_Interval
  <1> QED
    BY <1>1, <1>2, FS_Subset

LEMMA PastIsFinite ==
    ASSUME Shapes, NEW p \in Requests, NEW o
    PROVE  Past(p, o) \subseteq Naming(call[p], o) /\ IsFiniteSet(Past(p, o))
  <1>1. Past(p, o) \subseteq Naming(call[p], o)
    BY DEF Past
  <1> QED
    BY <1>1, NamingIsFinite, FS_Subset DEF Shapes

LEMMA PastOfOthers ==
    ASSUME NEW p \in Requests, OnlyOf(p), NEW q \in Requests \ {p}, NEW o
    PROVE  Past(q, o)' = Past(q, o)
  BY DEF OnlyOf, Past

\* A request that has just begun is done with nothing.
LEMMA PastOfBeginning ==
    ASSUME Shapes, Position, PlaceInv, NEW p \in Requests, Begin(p), NEW o
    PROVE  Past(p, o)' = {}
  <1>1. row'[p] = 1 /\ phase'[p] = 1 /\ pc'[p] = "list" /\ call' = call
    BY DEF Begin, Position, PlaceInv
  <1>2. call[p] \in Calls /\ call[p].op \in Ops
    BY CallsAssumption DEF Shapes
  <1>3. \A i \in Naming(call[p], o) : i \in Nat /\ ~(i < 1)
    BY <1>2, NamingIsFinite
  <1>4. \A n \in DOMAIN Phases(call[p].op) : ~(n < 1)
    BY <1>2, PhasesOfOps
  <1> QED
    BY <1>1, <1>3, <1>4 DEF Past

\* At the end of its rows, it is done with all they name.
LEMMA PastOfEnd ==
    ASSUME Shapes, Position, NEW p \in Requests, row[p] > Len(call[p].rows), NEW o
    PROVE  Past(p, o) = Naming(call[p], o)
  <1>1. \A i \in Naming(call[p], o) : i \in Nat /\ i <= Len(call[p].rows) /\ Len(call[p].rows) \in Nat
    BY NamingIsFinite DEF Shapes
  <1> QED
    BY <1>1 DEF Past, Position

\* A listing leaves to do what the row names and is of the phase's kind.
LEMMA PastOfListing ==
    ASSUME Shapes, Position, PlaceInv, NEW p \in Requests, List(p), NEW o \in Objects
    PROVE  Past(p, o)' = Past(p, o)
  <1> DEFINE op == call[p].op
  <1>1. /\ UNCHANGED <<call, row, phase>> /\ pc[p] = "list" /\ pc'[p] = "patch"
        /\ todo'[p] = Listed(Phases(op)[phase[p]], RowOf(p).item)
    BY DEF List, AtRow, Shapes, Position
  <1>2. ASSUME NEW i \in Naming(call[p], o), i = row[p], Phases(op)[phase[p]] = Kind[o]
        PROVE  o \in todo'[p]
    BY <1>1, <1>2 DEF Naming, Listed, RowOf
  <1> QED
    BY <1>1, <1>2 DEF Past

\* Past does not tell the end of one listing from the beginning of the next.
LEMMA PastOfNextListing ==
    ASSUME Shapes, Position, PlaceInv, NEW p \in Requests, NextListing(p), NEW o \in Objects
    PROVE  Past(p, o)' = Past(p, o)
  <1> DEFINE op == call[p].op
             ph == Phases(op)
  <1>0. call[p] \in Calls /\ op \in Ops
    BY CallsAssumption DEF Shapes
  <1>1. /\ UNCHANGED <<call, todo>> /\ pc[p] = "patch" /\ pc'[p] = "list" /\ todo[p] = {}
        /\ \/ phase[p] < Len(ph) /\ phase'[p] = phase[p] + 1 /\ row'[p] = row[p]
           \/ ~(phase[p] < Len(ph)) /\ phase'[p] = 1 /\ row'[p] = row[p] + 1
    BY DEF NextListing, Advance, Position, PlaceInv
  <1>2. /\ Len(ph) \in {1, 2} /\ DOMAIN ph = 1..Len(ph) /\ phase[p] \in 1..Len(ph) /\ row[p] \in Nat
        /\ \A kind : kind \in Reach(op) <=> \E n \in DOMAIN ph : ph[n] = kind
    <2>1. /\ Len(ph) \in {1, 2} /\ DOMAIN ph = 1..Len(ph)
          /\ \A kind : kind \in Reach(op) <=> \E n \in DOMAIN ph : ph[n] = kind
      BY <1>0, PhasesOfOps
    <2>2. phase[p] \in DOMAIN ph /\ row[p] \in Nat
      BY DEF PlaceInv, Position
    <2> QED
      BY <2>1, <2>2
  <1>3. \A i \in Naming(call[p], o) : i \in Nat /\ \E n \in DOMAIN ph : ph[n] = Kind[o]
    <2>1. \A i \in Naming(call[p], o) : i \in Nat
      BY <1>0, NamingIsFinite
    <2>2. \A i \in Naming(call[p], o) : Kind[o] \in Reach(op)
      BY DEF Naming
    <2> QED
      BY <1>2, <2>1, <2>2
  <1> HIDE DEF ph, op
  <1>4. CASE phase[p] < Len(ph) /\ phase'[p] = phase[p] + 1 /\ row'[p] = row[p]
    BY <1>1, <1>2, <1>4 DEF Past, op, ph
  <1>5. CASE ~(phase[p] < Len(ph)) /\ phase'[p] = 1 /\ row'[p] = row[p] + 1
    <2>1. Past(p, o) = {i \in Naming(call[p], o) : i < row[p] + 1}
      BY <1>1, <1>2, <1>3, <1>5 DEF Past, op, ph
    <2>2. Past(p, o)' = {i \in Naming(call[p], o) : i < row[p] + 1}
      BY <1>1, <1>2, <1>3, <1>5 DEF Past, op, ph
    <2> QED
      BY <2>1, <2>2
  <1> QED
    BY <1>1, <1>4, <1>5

\* Working an object off adds the present row to its past, as the last, and
\* leaves the pasts of the other objects.
LEMMA PastOfPatch ==
    ASSUME Shapes, Position, PlaceInv, NEW p \in Requests, NEW o \in Objects, Patch(p, o)
    PROVE  /\ Past(p, o)' = Past(p, o) \cup {row[p]}
           /\ row[p] \in Naming(call[p], o)
           /\ \A i \in Past(p, o) : i < row[p]
           /\ \A x \in Objects \ {o} : Past(p, x)' = Past(p, x)
  <1> DEFINE op == call[p].op
             ph == Phases(op)
  <1>0. call[p] \in Calls /\ op \in Ops
    BY CallsAssumption DEF Shapes
  <1>1. /\ UNCHANGED <<call, row, phase, pc>> /\ pc[p] = "patch" /\ o \in todo[p]
        /\ todo'[p] = todo[p] \ {o}
    BY DEF Patch, AtObject, Shapes
  <1>2. /\ DOMAIN ph = 1..Len(ph) /\ Len(ph) \in {1, 2} /\ phase[p] \in DOMAIN ph
        /\ \A m, n \in DOMAIN ph : ph[m] = ph[n] => m = n
        /\ \A kind : kind \in Reach(op) <=> \E n \in DOMAIN ph : ph[n] = kind
    BY <1>0, PhasesOfOps DEF PlaceInv
  <1>3. Kind[o] = ph[phase[p]] /\ Item[o] = RowOf(p).item
    BY <1>1 DEF PlaceInv, Listed
  <1>4. row[p] \in DOMAIN call[p].rows
    BY <1>0, <1>1, CallsAssumption DEF Position
  <1>5. row[p] \in Naming(call[p], o)
    BY <1>2, <1>3, <1>4 DEF Naming, RowOf
  <1>6. \A i \in Naming(call[p], o) : i \in Nat
    BY <1>0, NamingIsFinite
  <1> HIDE DEF ph, op
  <1>7. Past(p, o) = {i \in Naming(call[p], o) : i < row[p]}
    BY <1>1, <1>2, <1>3 DEF Past, op, ph
  <1>8. Past(p, o)' = {i \in Naming(call[p], o) : i < row[p] \/ i = row[p]}
    BY <1>1, <1>2, <1>3 DEF Past, op, ph
  <1>9. \A x \in Objects \ {o} : Past(p, x)' = Past(p, x)
    BY <1>1 DEF Past
  <1> QED
    BY <1>5, <1>7, <1>8, <1>9
-----------------------------------------------------------------------------
(* What a step of one request leaves to the others. *)

\* But for its beginning, a step is that of a request that is running; it makes
\* no request clean, and no other field than its own another.
LEMMA StepWithin ==
    ASSUME Shapes, Position, NEW p \in Requests, Step(p) \/ Fault(p), ~Begin(p)
    PROVE  /\ Running(p)
           /\ \A q \in Requests : clean'[q] => clean[q]
           /\ UNCHANGED at
           /\ \A f \in Fields \ {FieldOf(call[p].op)} : field'[f] = field[f]
  <1> USE DEF Running
  <1> DEFINE Within == /\ Running(p)
                       /\ \A q \in Requests : clean'[q] => clean[q]
                       /\ UNCHANGED at
                       /\ \A f \in Fields \ {FieldOf(call[p].op)} : field'[f] = field[f]
  <1>0. DOMAIN field = Fields /\ clean \in [Requests -> BOOLEAN]
    BY DEF Shapes, Position
  <1>1. CASE List(p) \/ DryRow(p) \/ NextListing(p) \/ Reply(p)
    BY <1>1 DEF List, DryRow, NextListing, Reply, AtRow
  <1>2. ASSUME NEW o \in Objects, Patch(p, o) PROVE Within
    <2>1. \/ UNCHANGED field
          \/ field' = [field EXCEPT ![FieldOf(call[p].op)][o] = New(call[p], RowOf(p), seen[p][o])]
      BY <1>2 DEF Patch
    <2>2. \A f \in Fields \ {FieldOf(call[p].op)} : field'[f] = field[f]
      BY <1>0, <2>1
    <2> QED
      BY <1>2, <2>2 DEF Patch, AtObject
  <1>3. CASE ListFails(p)
    BY <1>0, <1>3 DEF ListFails, AtRow
  <1>4. ASSUME NEW o \in Objects, PatchFails(p, o) PROVE Within
    BY <1>0, <1>4 DEF PatchFails, AtObject
  <1>5. CASE ListTimesOut(p)
    BY <1>0, <1>5 DEF ListTimesOut, AtRow, GiveUp
  <1>6. ASSUME NEW o \in Objects, PatchTimesOut(p, o) PROVE Within
    <2>1. \/ UNCHANGED field
          \/ field' = [field EXCEPT ![FieldOf(call[p].op)][o] = New(call[p], RowOf(p), seen[p][o])]
      BY <1>6 DEF PatchTimesOut
    <2>2. \A f \in Fields \ {FieldOf(call[p].op)} : field'[f] = field[f]
      BY <1>0, <2>1
    <2> QED
      BY <1>0, <1>6, <2>2 DEF PatchTimesOut, AtObject, GiveUp
  <1> QED
    BY <1>1, <1>2, <1>3, <1>4, <1>5, <1>6 DEF Step, Fault

LEMMA NextSole == Shapes /\ Position /\ PlaceInv /\ SoleInv /\ [Next]_vars => SoleInv'
  <1> SUFFICES ASSUME Shapes, Position, PlaceInv, SoleInv, [Next]_vars PROVE SoleInv'
    OBVIOUS
  <1>1. ASSUME UNCHANGED call, \A q \in Requests : (clean'[q] => clean[q]) /\ (Running(q)' => Running(q))
        PROVE  SoleInv'
    BY <1>1 DEF SoleInv
  <1>2. ASSUME NEW p \in Requests, Begin(p) PROVE SoleInv'
    <2> DEFINE others == OnField(FieldOf(call[p].op))
    <2>1. /\ UNCHANGED call /\ pc' = [pc EXCEPT ![p] = "list"]
          /\ clean' = [q \in Requests |-> IF q = p THEN others = {} ELSE clean[q] /\ q \notin others]
      BY <1>2 DEF Begin
    <2>2. /\ clean'[p] => others = {}
          /\ \A q \in Requests \ {p} : /\ clean'[q] => clean[q] /\ q \notin others
                                       /\ Running(q)' => Running(q)
      BY <2>1 DEF Position, Running
    <2> QED
      BY <2>1, <2>2 DEF SoleInv, OnField
  <1>3. ASSUME NEW p \in Requests, Step(p) \/ Fault(p), ~Begin(p) PROVE SoleInv'
    <2>1. OnlyOf(p) /\ Running(p) /\ \A q \in Requests : clean'[q] => clean[q]
      BY <1>3, StepIsOnes, StepWithin
    <2> QED
      BY <1>1, <2>1 DEF OnlyOf, Running
  <1>4. ASSUME NEW o \in Objects, PoolAppears(o) PROVE SoleInv'
    BY <1>1, <1>4 DEF PoolAppears, Running
  <1>5. CASE UNCHANGED vars
    BY <1>1, <1>5 DEF vars, Running
  <1> QED
    BY <1>2, <1>3, <1>4, <1>5 DEF Next

\* The times a request found when it began.
AtInv ==
    /\ at = [p \in Requests |-> at[p]]
    /\ \A p \in Requests, o \in Objects :
          FieldOf(call[p].op) \in Times => at[p][o] \in Nat \cup {None}

LEMMA NextAt == IInv /\ Position /\ PlaceInv /\ AtInv /\ [Next]_vars => AtInv'
  <1> SUFFICES ASSUME IInv, Position, PlaceInv, AtInv, [Next]_vars PROVE AtInv'
    OBVIOUS
  <1>1. CASE UNCHANGED <<at, call>>
    BY <1>1 DEF AtInv
  <1>2. ASSUME NEW p \in Requests, Begin(p) PROVE AtInv'
    <2>1. /\ at' = [q \in Requests |-> at'[q]]
          /\ UNCHANGED call /\ \A q \in Requests : at'[q] \in {at[q], field[FieldOf(call[q].op)]}
      BY <1>2 DEF Begin, AtInv
    <2>2. \A q \in Requests, o \in Objects :
              FieldOf(call[q].op) \in Times => field[FieldOf(call[q].op)][o] \in Nat \cup {None}
      BY DEF IInv, TimesKept, AtLeastFirst
    <2> QED
      BY <2>1, <2>2 DEF AtInv
  <1>3. ASSUME NEW p \in Requests, Step(p) \/ Fault(p), ~Begin(p) PROVE AtInv'
    <2>1. UNCHANGED <<at, call>>
      BY <1>3, StepIsOnes, StepWithin DEF OnlyOf, IInv
    <2> QED
      BY <1>1, <2>1
  <1>4. ASSUME NEW o \in Objects, PoolAppears(o) PROVE AtInv'
    BY <1>1, <1>4 DEF PoolAppears
  <1> QED
    BY <1>1, <1>2, <1>3, <1>4 DEF Next, vars
-----------------------------------------------------------------------------
(* A clean request does what its call would do in one step. *)

\* Dealing with an object for one more row is what the loop makes of it.
LEMMA AfterMore ==
    ASSUME NEW c \in Calls, ~c.dry, NEW o \in Objects, NEW a, NEW S, IsFiniteSet(S),
           NEW i \in Nat, \A j \in S : j \in Nat /\ j < i,
           FieldOf(c.op) \in Times => a \in Nat \cup {None}
    PROVE  LET v == After(c, o, a, S)
               r == Rows[c.rows[i]]
           IN  After(c, o, a, S \cup {i}) = IF Leaves(c, r, v) THEN v ELSE New(c, r, v)
  <1> DEFINE v == After(c, o, a, S)
             r == Rows[c.rows[i]]
             T == S \cup {i}
  <1>0. c.op \in Ops /\ T # {} /\ i \notin S
    BY CallsAssumption
  <1>1. Cardinality(T) = Cardinality(S) + 1 /\ Cardinality(S) \in Nat
    BY <1>0, FS_AddElement, FS_CardinalityType
  <1>2. (CHOOSE k \in T : \A j \in T : j <= k) = i
    <2>1. \A j \in T : j <= i
      OBVIOUS
    <2>2. \A k \in T : (\A j \in T : j <= k) => k = i
      OBVIOUS
    <2> QED
      BY <2>1, <2>2
  <1> HIDE DEF T, r
  <1>3. CASE c.op \in {"extend_stop", "extend_destroy"}
    <2>1. c.value \in Nat /\ a \in Nat \cup {None}
      BY <1>3, CallsAssumption DEF FieldOf
    <2>2. After(c, o, a, T) = IF a = None THEN None ELSE a + c.value * (Cardinality(S) + 1)
      BY <1>0, <1>1, <1>3 DEF After
    <2>3. CASE a = None
      <3>1. v = None /\ Leaves(c, r, v)
        BY <1>3, <2>3 DEF After, Leaves
      <3> QED
        BY <2>2, <2>3, <3>1 DEF T, r
    <2>4. CASE a # None
      <3>1. v = a + c.value * Cardinality(S)
        <4>1. CASE S = {}
          <5>1. Cardinality(S) = 0 /\ v = a
            BY <4>1, FS_EmptySet DEF After
          <5> QED
            BY <2>1, <2>4, <5>1
        <4>2. CASE S # {}
          BY <1>3, <2>4, <4>2 DEF After
        <4> QED
          BY <4>1, <4>2
      <3> HIDE DEF v
      <3>2. c.value * Cardinality(S) \in Nat
            /\ c.value * (Cardinality(S) + 1) = c.value * Cardinality(S) + c.value
        BY <1>1, <2>1
      <3>3. v \in Nat /\ v # None
        BY <2>1, <2>4, <3>1, <3>2, NoneAssumption
      <3>4. ~Leaves(c, r, v) /\ New(c, r, v) = v + c.value
        BY <1>3, <3>3 DEF Leaves, New, Extended
      <3>5. After(c, o, a, T) = v + c.value
        BY <2>1, <2>2, <2>4, <3>1, <3>2
      <3> QED
        BY <3>4, <3>5 DEF T, r, v
    <2> QED
      BY <2>3, <2>4
  <1>4. CASE c.op \in {"lock", "unlock"}
    <2>1. After(c, o, a, T) = (c.op = "lock")
      BY <1>0, <1>4 DEF After
    <2>2. ~Leaves(c, r, v) /\ New(c, r, v) = (c.op = "lock")
      BY <1>4 DEF Leaves, New
    <2> QED
      BY <2>1, <2>2 DEF T, r
  <1>5. CASE c.op = "disable_autostop"
    <2>1. After(c, o, a, T) = None /\ New(c, r, v) = None /\ (Leaves(c, r, v) => v = None)
      BY <1>0, <1>5 DEF After, New, Leaves
    <2> QED
      BY <2>1 DEF T, r
  <1>6. CASE c.op = "scale"
    <2>1. After(c, o, a, T) = c.value /\ New(c, r, v) = c.value /\ ~Leaves(c, r, v)
      BY <1>0, <1>6 DEF After, New, Leaves
    <2> QED
      BY <2>1 DEF T, r
  <1>7. CASE c.op = "update_passwords"
    <2>1. After(c, o, a, T) = r.password
      BY <1>0, <1>2, <1>7 DEF After, r
    <2>2. New(c, r, v) = r.password /\ (Leaves(c, r, v) => v = r.password)
      BY <1>7 DEF New, Leaves
    <2> QED
      BY <2>1, <2>2 DEF T, r
  <1>8. CASE c.op = "create_pools"
    <2>1. After(c, o, a, T) = IF a = None THEN c.value ELSE a
      BY <1>0, <1>8 DEF After
    <2>2. v = IF S # {} /\ a = None THEN c.value ELSE a
      BY <1>8 DEF After
    <2>3. New(c, r, v) = c.value /\ (Leaves(c, r, v) <=> v # None)
      BY <1>8 DEF New, Leaves
    <2> HIDE DEF v
    <2> QED
      BY <2>1, <2>2, <2>3 DEF T, r, v
  <1> QED
    BY <1>0, <1>3, <1>4, <1>5, <1>6, <1>7, <1>8

\* What ValueInv says of one request.
Valued(p) ==
    clean[p] /\ Running(p) =>
        \A o \in Objects :
            /\ field[FieldOf(call[p].op)][o] = After(call[p], o, at[p][o], Past(p, o))
            /\ pc[p] = "patch" /\ o \in todo[p] => seen[p][o] = field[FieldOf(call[p].op)][o]

\* A step of another request leaves a clean one its field, what it knows and what
\* it is done with.
LEMMA OthersStayValued ==
    ASSUME Shapes, Position, PlaceInv, SoleInv, NEW p \in Requests, Step(p) \/ Fault(p),
           NEW q \in Requests \ {p}, Valued(q)
    PROVE  Valued(q)'
  <1>0. call[q] \in Calls /\ FieldOf(call[q].op) \in Fields
    BY FieldOfOps, CallsAssumption DEF Shapes
  <1>1. OnlyOf(p)
    BY StepIsOnes
  <1>2. \A o : Past(q, o)' = Past(q, o)
    BY <1>1, PastOfOthers
  <1>3. ASSUME (clean[q] /\ Running(q))'
        PROVE  clean[q] /\ Running(q) /\ field'[FieldOf(call[q].op)] = field[FieldOf(call[q].op)]
    <2>1. Running(q)
      BY <1>1, <1>3 DEF OnlyOf, Running
    <2>2. CASE Begin(p)
      BY <1>3, <2>1, <2>2 DEF Begin
    <2>3. CASE ~Begin(p)
      <3>1. Running(p) /\ clean[q] /\ \A f \in Fields \ {FieldOf(call[p].op)} : field'[f] = field[f]
        BY <1>3, <2>3, StepWithin
      <3>2. FieldOf(call[q].op) # FieldOf(call[p].op)
        BY <2>1, <3>1 DEF SoleInv
      <3> QED
        BY <1>0, <2>1, <3>1, <3>2
    <2> QED
      BY <2>2, <2>3
  <1> QED
    BY <1>1, <1>2, <1>3 DEF Valued, OnlyOf

\* Its own step keeps a clean request's field as its call so far would leave it.
LEMMA StepStaysValued ==
    ASSUME IInv, Position, PlaceInv, AtInv, NEW p \in Requests, Step(p) \/ Fault(p), Valued(p)
    PROVE  Valued(p)'
  <1> DEFINE c == call[p]
             f == FieldOf(call[p].op)
  <1>0. /\ Shapes /\ c \in Calls /\ c.op \in Ops /\ f \in Fields /\ call' = call
        /\ DOMAIN field = Fields /\ clean \in [Requests -> BOOLEAN] /\ pc \in [Requests -> {"idle", "list", "patch", "done", "failed"}]
    BY StepIsOnes, FieldOfOps, CallsAssumption DEF IInv, Shapes, Position, OnlyOf
  <1>1. CASE Begin(p)
    <2>1. pc'[p] = "list" /\ at'[p] = field[f] /\ UNCHANGED field
      BY <1>0, <1>1 DEF Begin, AtInv
    <2>2. \A o \in Objects : Past(p, o)' = {}
      BY <1>0, <1>1, PastOfBeginning
    <2> QED
      BY <1>0, <2>1, <2>2 DEF Valued, After
  <1>2. CASE List(p)
    <2>1. /\ UNCHANGED <<field, at, clean>> /\ pc'[p] = "patch" /\ Running(p)
          /\ \A o \in todo'[p] : seen'[p][o] = field[f][o]
      BY <1>0, <1>2 DEF List, AtRow, Running, Shapes, Listed
    <2>2. \A o \in Objects : Past(p, o)' = Past(p, o)
      BY <1>0, <1>2, PastOfListing
    <2> QED
      BY <1>0, <2>1, <2>2 DEF Valued
  <1>3. CASE DryRow(p)
    <2>1. /\ UNCHANGED <<field, at, clean>> /\ pc'[p] = "list" /\ Running(p) /\ c.dry
      BY <1>0, <1>3 DEF DryRow, AtRow, Advance, Running
    <2> QED
      BY <1>0, <2>1 DEF Valued, After
  <1>4. CASE NextListing(p)
    <2>1. /\ UNCHANGED <<field, at, clean>> /\ pc'[p] = "list" /\ Running(p)
      BY <1>0, <1>4 DEF NextListing, Advance, Running
    <2>2. \A o \in Objects : Past(p, o)' = Past(p, o)
      BY <1>0, <1>4, PastOfNextListing
    <2> QED
      BY <1>0, <2>1, <2>2 DEF Valued
  <1>5. CASE Reply(p)
    BY <1>0, <1>5 DEF Reply, Valued, Running
  <1>6. ASSUME NEW o \in Objects, Patch(p, o), clean[p] PROVE Valued(p)'
    <2> DEFINE v == seen[p][o]
               r == RowOf(p)
    <2>1. /\ UNCHANGED <<at, clean, pc>> /\ pc[p] = "patch" /\ o \in todo[p] /\ Running(p)
          /\ todo'[p] = todo[p] \ {o}
          /\ \A x \in Objects \ {o} : seen'[p][x] = seen[p][x]
      BY <1>0, <1>6 DEF Patch, AtObject, Running, Shapes
    <2>2. /\ \A x \in Objects \ {o} : field'[f][x] = field[f][x]
          /\ field'[f][o] = IF Leaves(c, r, v) THEN field[f][o] ELSE New(c, r, v)
      <3>1. field[f] = [x \in Objects |-> field[f][x]]
        BY <1>0 DEF Shapes
      <3>2. CASE Leaves(c, r, v)
        BY <1>6, <3>2 DEF Patch
      <3>3. CASE ~Leaves(c, r, v)
        <4>1. field' = [field EXCEPT ![f][o] = New(c, r, v)]
          BY <1>6, <3>3 DEF Patch
        <4>2. field'[f] = [field[f] EXCEPT ![o] = New(c, r, v)]
          BY <1>0, <4>1
        <4> QED
          BY <3>1, <3>3, <4>2
      <3> QED
        BY <3>2, <3>3
    <2>3. v = field[f][o] /\ field[f][o] = After(c, o, at[p][o], Past(p, o))
      BY <1>6, <2>1 DEF Valued
    <2>4. /\ Past(p, o)' = Past(p, o) \cup {row[p]} /\ row[p] \in Nat
          /\ \A i \in Past(p, o) : i \in Nat /\ i < row[p]
          /\ \A x \in Objects \ {o} : Past(p, x)' = Past(p, x)
          /\ IsFiniteSet(Past(p, o))
      <3>1. Past(p, o) \subseteq Naming(c, o) /\ Naming(c, o) \subseteq 1..Len(c.rows)
        BY <1>0, PastIsFinite, NamingIsFinite
      <3> QED
        BY <1>0, <1>6, <3>1, PastOfPatch, PastIsFinite DEF Position
    <2>5. ~c.dry /\ (f \in Times => at[p][o] \in Nat \cup {None})
      BY <2>1 DEF PlaceInv, AtInv
    <2>6. After(c, o, at[p][o], Past(p, o) \cup {row[p]}) = IF Leaves(c, r, v) THEN v ELSE New(c, r, v)
      <3> HIDE DEF c
      <3>1. r = Rows[c.rows[row[p]]]
        BY DEF RowOf, c
      <3> QED
        BY <1>0, <2>3, <2>4, <2>5, <3>1, AfterMore DEF c
    <2>7. field'[f][o] = After(c, o, at[p][o], Past(p, o)')
      BY <2>2, <2>3, <2>4, <2>6
    <2> HIDE DEF v, r
    <2>8. ASSUME NEW x \in Objects
          PROVE  /\ field'[f][x] = After(c, x, at[p][x], Past(p, x)')
                 /\ x \in todo'[p] => seen'[p][x] = field'[f][x]
      <3>1. CASE x = o
        BY <2>1, <2>7, <3>1
      <3>2. CASE x # o
        <4>1. field[f][x] = After(c, x, at[p][x], Past(p, x)) /\ (x \in todo[p] => seen[p][x] = field[f][x])
          BY <1>6, <2>1 DEF Valued
        <4> QED
          BY <2>1, <2>2, <2>4, <3>2, <4>1
      <3> QED
        BY <3>1, <3>2
    <2> QED
      BY <1>0, <2>1, <2>8 DEF Valued
  <1>7. ASSUME NEW o \in Objects, Patch(p, o), ~clean[p] PROVE Valued(p)'
    BY <1>7 DEF Patch, Valued
  <1>8. CASE Fault(p)
    <2>1. ~clean'[p]
      BY <1>0, <1>8 DEF Fault, ListFails, ListTimesOut, GiveUp, PatchFails, PatchTimesOut
    <2> QED
      BY <2>1 DEF Valued
  <1> QED
    BY <1>1, <1>2, <1>3, <1>4, <1>5, <1>6, <1>7, <1>8 DEF Step

LEMMA NextValue ==
    IInv /\ Position /\ PlaceInv /\ SoleInv /\ AtInv /\ ValueInv /\ [Next]_vars => ValueInv'
  <1> SUFFICES ASSUME IInv, Position, PlaceInv, SoleInv, AtInv, ValueInv, [Next]_vars,
                      NEW q \in Requests
               PROVE  Valued(q)'
    BY DEF ValueInv, Valued
  <1>0. Valued(q) /\ Shapes
    BY DEF ValueInv, Valued, IInv
  <1>1. ASSUME NEW p \in Requests, Step(p) \/ Fault(p) PROVE Valued(q)'
    <2>1. CASE p = q
      BY <1>0, <1>1, <2>1, StepStaysValued
    <2>2. CASE p # q
      BY <1>0, <1>1, <2>2, OthersStayValued
    <2> QED
      BY <2>1, <2>2
  <1>2. ASSUME NEW o \in Objects, PoolAppears(o) PROVE Valued(q)'
    <2>1. /\ UNCHANGED <<pc, call, row, phase, todo, seen, at>>
          /\ field' = [field EXCEPT !["pool"][o] = "others"]
          /\ clean'[q] => clean[q] /\ q \notin OnField("pool")
      BY <1>2 DEF PoolAppears
    <2>2. \A x : Past(q, x)' = Past(q, x)
      BY <2>1 DEF Past
    <2>3. (clean[q] /\ Running(q))' => clean[q] /\ Running(q) /\ FieldOf(call[q].op) # "pool"
      BY <2>1 DEF OnField, Running
    <2>4. \A f \in Fields \ {"pool"} : field'[f] = field[f]
      BY <1>0, <2>1 DEF Shapes
    <2>5. FieldOf(call[q].op) \in Fields
      BY <1>0, FieldOfOps, CallsAssumption DEF Shapes
    <2> QED
      BY <1>0, <2>1, <2>2, <2>3, <2>4, <2>5 DEF Valued
  <1>3. CASE UNCHANGED vars
    BY <1>0, <1>3 DEF vars, Valued, Running, Past
  <1> QED
    BY <1>1, <1>2, <1>3 DEF Next

\* After all the rows that name an object, the call has done what it is for.
LEMMA AfterAll ==
    ASSUME NEW c, NEW o, NEW v
    PROVE  After(c, o, v, Naming(c, o)) = AtOnce(c, o, v)
  BY DEF After, AtOnce, LastNaming

\* What the requests have reached, from the beginning on.
Reached == IInv /\ Position /\ PlaceInv /\ SoleInv /\ AtInv /\ ValueInv

LEMMA InitReached == Init => Reached
  <1> SUFFICES ASSUME Init PROVE Reached
    OBVIOUS
  <1>1. IInv
    BY InitIInv
  <1>2. Position
    BY RowsCounted, MaxFaultsAssumption DEF Init, Position
  <1>3. PlaceInv
    <2>1. \A p \in Requests : 1 \in DOMAIN Phases(call[p].op)
      <3>1. \A p \in Requests : call[p].op \in Ops
        BY CallsAssumption DEF Init
      <3> QED
        BY <3>1, PhasesOfOps
    <2> QED
      BY <2>1 DEF Init, PlaceInv
  <1>4. SoleInv /\ AtInv /\ ValueInv
    BY DEF Init, SoleInv, AtInv, ValueInv, Running
  <1> QED
    BY <1>1, <1>2, <1>3, <1>4 DEF Reached

LEMMA NextReached == Reached /\ [Next]_vars => Reached'
  BY NextIInv, NextPosition, NextPlace, NextSole, NextAt, NextValue DEF Reached, IInv

\* For any number of requests, objects, rows and faults: a request that nothing
\* failed in, and beside which no other worked on its field, leaves that field
\* as one step over all the objects would.
THEOREM CleanIsAtOnceHolds == Spec => []CleanIsAtOnce
  <1>1. Reached => CleanIsAtOnce
    <2> SUFFICES ASSUME Reached, NEW p \in Requests,
                        pc[p] = "list", row[p] > Len(call[p].rows), clean[p]
                 PROVE  field[FieldOf(call[p].op)] = [o \in Objects |-> AtOnce(call[p], o, at[p][o])]
      BY DEF CleanIsAtOnce
    <2> DEFINE f == FieldOf(call[p].op)
    <2>1. f \in Fields
      BY FieldOfOps, CallsAssumption DEF Reached, IInv, Shapes
    <2>2. field[f] = [o \in Objects |-> field[f][o]]
      BY <2>1 DEF Reached, IInv, Shapes
    <2>3. \A o \in Objects : field[f][o] = AtOnce(call[p], o, at[p][o])
      BY PastOfEnd, AfterAll DEF Reached, IInv, ValueInv, Running
    <2> QED
      BY <2>2, <2>3
  <1> QED
    BY <1>1, InitReached, NextReached, PTL DEF Spec
-----------------------------------------------------------------------------
(* Extensions that are answered count. *)

\* What CountInv says of one object and one time.
CountsFor(f, o) ==
    /\ field[f][o] # None
    /\ \A p \in Requests :
          FieldOf(call[p].op) = f /\ pc[p] = "patch" /\ o \in todo[p] => seen[p][o] # None
    /\ (\E p \in Extending(f, o) : Past(p, o) # {}) => Counted(f, o)

\* No step undoes a fault, or a disabling of autostop that has begun.
LEMMA UndisturbedBefore ==
    ASSUME Shapes, Position, [Next]_vars, NEW f, Undisturbed(f)'
    PROVE  Undisturbed(f) /\ ~\E p \in Requests : Fault(p)
  <1>1. call' = call /\ \A q \in Requests : pc'[q] = "idle" => pc[q] = "idle"
    <2>1. ASSUME NEW p \in Requests, Step(p) \/ Fault(p)
          PROVE  call' = call /\ \E s \in {pc[p], "list", "patch", "done", "failed"} : pc' = [pc EXCEPT ![p] = s]
      <3>1. pc = [pc EXCEPT ![p] = pc[p]]
        BY DEF Position
      <3>2. CASE Step(p)
        BY <3>1, <3>2 DEF Step, Begin, List, DryRow, NextListing, Advance, Reply, Patch
      <3>3. CASE Fault(p)
        BY <3>1, <3>3 DEF Fault, ListFails, ListTimesOut, PatchFails, PatchTimesOut, GiveUp, Advance
      <3> QED
        BY <2>1, <3>2, <3>3
    <2>2. CASE \E p \in Requests : Step(p) \/ Fault(p)
      BY <2>1, <2>2 DEF Position
    <2>3. CASE (\E o \in Objects : PoolAppears(o)) \/ UNCHANGED vars
      BY <2>3 DEF PoolAppears, vars
    <2> QED
      BY <2>2, <2>3 DEF Next
  <1>2. faults \in Nat /\ faults' = 0
    BY MaxFaultsAssumption DEF Position, Undisturbed
  <1>3. ASSUME NEW p \in Requests, Fault(p) PROVE faults' = faults + 1
    BY <1>3 DEF Fault, ListFails, ListTimesOut, PatchFails, PatchTimesOut, GiveUp
  <1>4. ASSUME NEW p \in Requests, Step(p) PROVE faults' = faults
    BY <1>4 DEF Step, Begin, List, DryRow, NextListing, Reply, Patch
  <1>5. (\E o \in Objects : PoolAppears(o)) \/ UNCHANGED vars => faults' = faults
    BY DEF PoolAppears, vars
  <1>6. ~\E p \in Requests : Fault(p)
    BY <1>2, <1>3
  <1>7. faults = 0
    BY <1>2, <1>3, <1>4, <1>5 DEF Next
  <1> QED
    BY <1>1, <1>6, <1>7 DEF Undisturbed

\* A step that leaves the time alone, and adds nothing to what is past.
LEMMA CountStays ==
    ASSUME NEW f \in Times, NEW o \in Objects, CountsFor(f, o),
           field'[f][o] = field[f][o],
           \A p \in Requests :
              FieldOf(call'[p].op) = f /\ pc'[p] = "patch" /\ o \in todo'[p] => seen'[p][o] # None,
           Extending(f, o) \subseteq Extending(f, o)', UNCHANGED call,
           \A p \in Extending(f, o)' : Past(p, o)' # {} => p \in Extending(f, o) /\ Past(p, o) # {}
    PROVE  CountsFor(f, o)'
  BY DEF CountsFor, Counted

\* A request extends from when it has begun.
LEMMA ExtendingStays ==
    ASSUME Shapes, Position, PlaceInv, NEW p \in Requests, Step(p), NEW f, NEW o
    PROVE  /\ Extending(f, o) \subseteq Extending(f, o)'
           /\ ~Begin(p) => Extending(f, o)' = Extending(f, o)
  <1>1. OnlyOf(p)
    BY StepIsOnes
  <1>2. pc'[p] # "idle" /\ (~Begin(p) => pc[p] # "idle")
    BY DEF Step, Begin, List, DryRow, NextListing, AtRow, Advance, Reply, Patch, AtObject, Position
  <1> QED
    BY <1>1, <1>2 DEF Extending, Extends, OnlyOf

LEMMA PatchCounts ==
    ASSUME IInv, Position, PlaceInv, NEW p \in Requests, NEW x \in Objects, Patch(p, x),
           NEW f \in Times, NEW o \in Objects, CountsFor(f, o), First[f][o] # None,
           Undisturbed(f)
    PROVE  CountsFor(f, o)'
  <1> DEFINE c == call[p]
             v == seen[p][x]
             mine == FieldOf(call[p].op)
  <1>0. /\ Shapes /\ c \in Calls /\ c.op \in Ops /\ mine \in Fields /\ DOMAIN field = Fields
        /\ OnlyOf(p) /\ Step(p)
    BY StepIsOnes, FieldOfOps, CallsAssumption DEF IInv, Shapes, Step
  <1>1. /\ UNCHANGED <<call, pc>> /\ pc[p] = "patch" /\ x \in todo[p] /\ ~c.dry
        /\ todo'[p] = todo[p] \ {x}
        /\ \A y \in Objects \ {x} : seen'[p][y] = seen[p][y]
    BY <1>0 DEF Patch, AtObject, Shapes, PlaceInv
  <1>2. \A q \in Requests :
            FieldOf(call'[q].op) = f /\ pc'[q] = "patch" /\ o \in todo'[q] => seen'[q][o] # None
    <2>1. ASSUME NEW q \in Requests, q # p, FieldOf(call'[q].op) = f, pc'[q] = "patch", o \in todo'[q]
          PROVE  seen'[q][o] # None
      BY <1>0, <2>1 DEF OnlyOf, CountsFor
    <2>2. ASSUME FieldOf(call'[p].op) = f, pc'[p] = "patch", o \in todo'[p]
          PROVE  seen'[p][o] # None
      BY <1>1, <2>2 DEF CountsFor
    <2> QED
      BY <2>1, <2>2
  <1>3. Extending(f, o)' = Extending(f, o)
    BY <1>1 DEF Extending, Extends
  <1>4. \A q \in Requests \ {p} : Past(q, o)' = Past(q, o)
    BY <1>0, PastOfOthers
  <1>5. CASE f = mine /\ x = o
    <2>1. c.op \in {"extend_stop", "extend_destroy"}
      BY <1>0, <1>1, <1>5, FieldOfOps DEF Undisturbed
    <2>2. v # None /\ AtLeastFirst(f, o, v)
      BY <1>1, <1>5 DEF CountsFor, IInv, SeenTimesKept
    <2>3. ~Leaves(c, RowOf(p), v) /\ New(c, RowOf(p), v) = v + c.value /\ c.value \in Nat
      BY <1>0, <2>1, <2>2, CallsAssumption DEF Leaves, New, Extended
    <2>4. field'[f][o] = v + c.value
      <3>1. field' = [field EXCEPT ![f][o] = v + c.value]
        BY <1>5, <2>3 DEF Patch
      <3>2. field[f] = [y \in Objects |-> field[f][y]]
        BY <1>0 DEF Shapes
      <3> HIDE DEF v, c
      <3>3. field'[f] = [field[f] EXCEPT ![o] = v + c.value]
        BY <1>0, <3>1
      <3> QED
        BY <3>2, <3>3
    <2>5. v \in Nat /\ First[f][o] \in Nat /\ First[f][o] <= v
      BY <2>2 DEF AtLeastFirst
    <2>6. field'[f][o] # None /\ field'[f][o] >= First[f][o] + c.value
      BY <2>3, <2>4, <2>5, NoneAssumption
    <2>7. p \in Extending(f, o)'
      <3>1. Naming(c, o) # {}
        BY <1>0, <1>5, PastOfPatch
      <3> QED
        BY <1>1, <1>5, <2>1, <3>1 DEF Extending, Extends
    <2> QED
      BY <1>1, <1>2, <2>6, <2>7 DEF CountsFor, Counted
  <1>6. CASE f # mine
    <2>1. field'[f] = field[f]
      BY <1>0, <1>6, StepWithin DEF Patch, AtObject, Begin
    <2>2. p \notin Extending(f, o)
      BY <1>6 DEF Extending, Extends
    <2>3. \A q \in Extending(f, o)' : Past(q, o)' # {} => q \in Extending(f, o) /\ Past(q, o) # {}
      BY <1>3, <1>4, <2>2 DEF Extending
    <2> QED
      BY <1>1, <1>2, <1>3, <2>1, <2>3, CountStays
  <1>7. CASE x # o
    <2>1. field'[f][o] = field[f][o]
      <3>1. UNCHANGED field \/ field' = [field EXCEPT ![mine][x] = New(c, RowOf(p), v)]
        BY DEF Patch
      <3> QED
        BY <1>0, <1>7, <3>1 DEF Shapes
    <2>2. \A q \in Requests : Past(q, o)' = Past(q, o)
      BY <1>0, <1>4, <1>7, PastOfPatch
    <2>3. \A q \in Extending(f, o)' : Past(q, o)' # {} => q \in Extending(f, o) /\ Past(q, o) # {}
      BY <1>3, <2>2 DEF Extending
    <2> QED
      BY <1>1, <1>2, <1>3, <2>1, <2>3, CountStays
  <1> QED
    BY <1>5, <1>6, <1>7

\* The steps of the loop that patch nothing.
LEMMA LoopCounts ==
    ASSUME IInv, Position, PlaceInv, NEW p \in Requests,
           Begin(p) \/ List(p) \/ DryRow(p) \/ NextListing(p) \/ Reply(p),
           NEW f \in Times, NEW o \in Objects, CountsFor(f, o)
    PROVE  CountsFor(f, o)'
  <1>0. Shapes /\ OnlyOf(p) /\ Step(p) /\ call' = call
    BY StepIsOnes DEF IInv, Step, OnlyOf
  <1>1. field' = field
    BY DEF Begin, List, DryRow, NextListing, Reply
  <1>2. Extending(f, o) \subseteq Extending(f, o)' /\ (~Begin(p) => Extending(f, o)' = Extending(f, o))
    BY <1>0, ExtendingStays
  <1>3. \A q \in Requests :
            FieldOf(call'[q].op) = f /\ pc'[q] = "patch" /\ o \in todo'[q] => seen'[q][o] # None
    <2>1. ASSUME NEW q \in Requests, q # p, FieldOf(call'[q].op) = f, pc'[q] = "patch", o \in todo'[q]
          PROVE  seen'[q][o] # None
      BY <1>0, <2>1 DEF OnlyOf, CountsFor
    <2>2. ASSUME FieldOf(call'[p].op) = f, pc'[p] = "patch", o \in todo'[p]
          PROVE  seen'[p][o] # None
      <3>1. CASE List(p)
        <4>1. seen'[p][o] = field[f][o]
          BY <1>0, <2>2, <3>1 DEF List, Shapes
        <4> QED
          BY <4>1 DEF CountsFor
      <3>2. CASE ~List(p)
        BY <2>2, <3>2 DEF Begin, DryRow, NextListing, Advance, Reply, Position
      <3> QED
        BY <3>1, <3>2
    <2> QED
      BY <2>1, <2>2
  <1>4. \A q \in Extending(f, o)' : Past(q, o)' # {} => q \in Extending(f, o) /\ Past(q, o) # {}
    <2>1. \A q \in Requests \ {p} : Past(q, o)' = Past(q, o)
      BY <1>0, PastOfOthers
    <2>2. \A q \in Requests \ {p} : q \in Extending(f, o)' => q \in Extending(f, o)
      BY <1>0 DEF Extending, Extends, OnlyOf
    <2>3. CASE Begin(p)
      <3>1. Past(p, o)' = {}
        BY <1>0, <2>3, PastOfBeginning
      <3> QED
        BY <2>1, <2>2, <3>1 DEF Extending
    <2>4. CASE DryRow(p)
      <3>1. p \notin Extending(f, o)'
        BY <2>4 DEF DryRow, Extending
      <3> QED
        BY <2>1, <2>2, <3>1 DEF Extending
    <2>5. CASE List(p) \/ NextListing(p) \/ Reply(p)
      <3>1. Past(p, o)' = Past(p, o)
        <4>1. CASE Reply(p)
          <5>1. UNCHANGED <<call, row, phase, todo>> /\ pc[p] = "list" /\ pc'[p] = "done"
            BY <4>1 DEF Reply, Position
          <5> QED
            BY <5>1 DEF Past
        <4>2. CASE List(p) \/ NextListing(p)
          BY <1>0, <4>2, PastOfListing, PastOfNextListing
        <4> QED
          BY <2>5, <4>1, <4>2
      <3>2. ~Begin(p)
        BY <2>5 DEF List, NextListing, Reply, AtRow, Begin
      <3> QED
        BY <1>2, <2>1, <3>1, <3>2 DEF Extending
    <2> QED
      BY <2>3, <2>4, <2>5
  <1> QED
    BY <1>0, <1>1, <1>2, <1>3, <1>4, CountStays

LEMMA NextCount == IInv /\ Position /\ PlaceInv /\ CountInv /\ [Next]_vars => CountInv'
  <1> SUFFICES ASSUME IInv, Position, PlaceInv, CountInv, [Next]_vars,
                      NEW f \in Times, NEW o \in Objects, Undisturbed(f)', First[f][o] # None
               PROVE  CountsFor(f, o)'
    BY DEF CountInv, CountsFor
  <1>1. Shapes /\ Undisturbed(f) /\ ~\E p \in Requests : Fault(p)
    BY UndisturbedBefore DEF IInv
  <1>2. CountsFor(f, o)
    BY <1>1 DEF CountInv, CountsFor
  <1>3. ASSUME NEW p \in Requests, Step(p) PROVE CountsFor(f, o)'
    BY <1>1, <1>2, <1>3, LoopCounts, PatchCounts DEF Step
  <1>4. ASSUME UNCHANGED <<pc, call, row, phase, todo, seen>>, field'[f] = field[f]
        PROVE  CountsFor(f, o)'
    BY <1>2, <1>4 DEF CountsFor, Extending, Extends, Past, Counted
  <1>5. ASSUME NEW x \in Objects, PoolAppears(x) PROVE CountsFor(f, o)'
    <2>1. field'[f] = field[f]
      BY <1>1, <1>5 DEF PoolAppears, Shapes
    <2> QED
      BY <1>4, <1>5, <2>1 DEF PoolAppears
  <1>6. CASE UNCHANGED vars
    BY <1>4, <1>6 DEF vars
  <1> QED
    BY <1>1, <1>3, <1>5, <1>6 DEF Next

\* For any number of overlapping requests: when nothing failed and nobody disabled
\* the autostop, the answered extensions of an object have moved its time by at
\* least the smallest of them.
THEOREM ExtensionsCount == Spec => []ExtensionCounts
  <1>1. Init => CountInv
    BY DEF Init, CountInv, Extending, Extends
  <1>2. Reached /\ CountInv /\ [Next]_vars => CountInv'
    BY NextCount DEF Reached
  <1>3. Reached /\ CountInv => ExtensionCounts
    <2> SUFFICES ASSUME Reached, CountInv, NEW f \in Times, NEW o \in Objects,
                        faults = 0, NEW p \in Extending(f, o), First[f][o] # None,
                        \A q \in Requests : FieldOf(call[q].op) = f =>
                            pc[q] \in {"idle", "done"} /\ (call[q].op = "disable_autostop" => pc[q] = "idle")
                 PROVE  Counted(f, o)
      BY DEF ExtensionCounts, Extending, Counted
    <2>1. Undisturbed(f)
      BY DEF Undisturbed
    <2>2. p \in Requests /\ pc[p] = "done" /\ Naming(call[p], o) # {}
      BY DEF Extending, Extends
    <2>3. Past(p, o) # {}
      BY <2>2, PastOfEnd DEF Reached, IInv, PlaceInv
    <2> QED
      BY <2>1, <2>3 DEF CountInv
  <1> QED
    BY <1>1, <1>2, <1>3, InitReached, NextReached, PTL DEF Spec
=============================================================================
