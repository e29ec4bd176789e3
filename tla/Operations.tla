------------------------------ MODULE Operations ------------------------------
(* The operations on what is already deployed: lock and unlock, extending the  *)
(* stop and the destroy time, disabling autostop, scaling, updating passwords, *)
(* and the creation of the reference pools of tenant clusters.  All of them    *)
(* are the same loop: for each row, list the objects of its item, compute the  *)
(* new value of each from what the listing said, patch them one at a time.     *)
(* The handlers run in threads and take no lock, so between the listing of one *)
(* request and its patches any other request may patch the same objects.       *)
EXTENDS Integers, FiniteSets, Sequences

CONSTANTS
    Requests,       \* the requests in flight (threads of the server)
    Objects,        \* workshops, provisions and pools of the cluster, in the order of listings
    Kind,           \* [Objects -> "workshop" | "provision" | "pool"]
    Item,           \* [Objects -> the item and namespace it is labelled with]
    Rows,           \* the schedules, and the items pools are asked for: <<[item, password], ...>>
    Calls,          \* what clients ask: [op, value, rows, dry]
    First,          \* the cluster at the beginning: [Fields -> [Objects -> value]]
    MaxFaults,      \* bound: calls of oc that fail
    None            \* an unset field, a pool that does not exist

Fields == {"lock", "stop", "end", "count", "password", "pool"}
Times == {"stop", "end"}

ASSUME NoneAssumption == None \notin Nat
ASSUME ObjectsAssumption == Objects \subseteq Nat
Ops == {"lock", "unlock", "extend_stop", "extend_destroy", "disable_autostop", "scale",
        "update_passwords", "create_pools"}

ASSUME MaxFaultsAssumption == MaxFaults \in Nat

ASSUME FirstAssumption ==
    /\ First = [f \in Fields |-> [o \in Objects |-> First[f][o]]]
    /\ \A f \in Times, o \in Objects : First[f][o] \in Nat \cup {None}
ASSUME CallsAssumption ==
    \A c \in Calls :
        /\ c.op \in Ops
        /\ c.rows \in Seq(DOMAIN Rows)
        /\ c.op \in {"extend_stop", "extend_destroy"} => c.value \in Nat \ {0}

VARIABLES
    field,          \* the cluster: [Fields -> [Objects -> value]]
    pc,             \* idle, list, patch, done, failed
    call,           \* what each request asks
    row,            \* the row it is at, as an index of call.rows
    phase,          \* the kind of object it is at, as an index of Phases
    todo,           \* the objects listed and not patched yet
    seen,           \* their values when they were listed
    at,             \* the field when the request began
    clean,          \* nothing failed in it and no other request touched its field
    faults          \* calls that failed so far

vars == <<field, pc, call, row, phase, todo, seen, at, clean, faults>>
-----------------------------------------------------------------------------
(* What each operation reads and writes. *)

FieldOf(op) ==
    CASE op \in {"lock", "unlock"} -> "lock"
      [] op \in {"extend_stop", "disable_autostop"} -> "stop"
      [] op = "extend_destroy" -> "end"
      [] op = "scale" -> "count"
      [] op = "update_passwords" -> "password"
      [] op = "create_pools" -> "pool"

\* Variant: the provisions are left alone.
PhasesWorkshops(op) ==
    CASE op = "scale" -> <<"provision">>
      [] op = "create_pools" -> <<"pool">>
      [] OTHER -> <<"workshop">>

\* The kinds of object an operation lists, in the order it lists them.
Phases(op) ==
    CASE op \in {"extend_destroy", "disable_autostop"} -> <<"workshop", "provision">>
      [] op = "scale" -> <<"provision">>
      [] op = "create_pools" -> <<"pool">>
      [] OTHER -> <<"workshop">>

\* An object whose listed value is v is not patched.
Leaves(c, r, v) ==
    \/ c.op \in {"extend_stop", "extend_destroy", "disable_autostop"} /\ v = None
    \/ c.op = "update_passwords" /\ v = r.password
    \/ c.op = "create_pools" /\ v # None

\* Variant: only a whole unit is added.
ExtendedByOne(v, by) == v + 1

\* Variant: the time moves the other way.
ExtendedBack(v, by) == v - by

\* A time, moved on by the days and hours of the request.
Extended(v, by) == v + by

\* The value an object is patched to.
New(c, r, v) ==
    CASE c.op \in {"extend_stop", "extend_destroy"} -> Extended(v, c.value)
      [] c.op = "lock" -> TRUE
      [] c.op = "unlock" -> FALSE
      [] c.op = "disable_autostop" -> None
      [] c.op = "update_passwords" -> r.password
      [] OTHER -> c.value

RowOf(p) == Rows[call[p].rows[row[p]]]
\* The objects of a listing are worked off in its order.
AtObject(p, o) == pc[p] = "patch" /\ o \in todo[p] /\ \A x \in todo[p] : o <= x

Listed(kind, item) == {o \in Objects : Kind[o] = kind /\ Item[o] = item}
-----------------------------------------------------------------------------
Init ==
    /\ field = First
    /\ pc = [p \in Requests |-> "idle"]
    /\ call \in [Requests -> Calls]
    /\ row = [p \in Requests |-> 1]
    /\ phase = [p \in Requests |-> 1]
    /\ todo = [p \in Requests |-> {}]
    /\ seen = [p \in Requests |-> [o \in Objects |-> None]]
    /\ at = [p \in Requests |-> [o \in Objects |-> None]]
    /\ clean = [p \in Requests |-> TRUE]
    /\ faults = 0

Running(p) == pc[p] \in {"list", "patch"}
OnField(f) == {p \in Requests : Running(p) /\ FieldOf(call[p].op) = f}

\* A request begins: the rows are the ones the ci_filter leaves, copied.
Begin(p) ==
    LET mine == FieldOf(call[p].op)
        others == OnField(mine)
    IN  /\ pc[p] = "idle"
        /\ pc' = [pc EXCEPT ![p] = "list"]
        /\ at' = [at EXCEPT ![p] = field[mine]]
        /\ clean' = [q \in Requests |->
                        IF q = p THEN others = {} ELSE clean[q] /\ q \notin others]
        /\ UNCHANGED <<field, call, row, phase, todo, seen, faults>>

\* Where the loop goes when a listing is worked off (or, whole, when the row is).
Advance(p, whole) ==
    LET more == ~whole /\ phase[p] < Len(Phases(call[p].op))
    IN  /\ phase' = [phase EXCEPT ![p] = IF more THEN @ + 1 ELSE 1]
        /\ row' = [row EXCEPT ![p] = IF more THEN @ ELSE @ + 1]
        /\ pc' = [pc EXCEPT ![p] = "list"]

AtRow(p) == pc[p] = "list" /\ row[p] <= Len(call[p].rows)

\* oc get: the objects of the row's item and their values; in a dry run, nothing.
List(p) ==
    /\ AtRow(p)
    /\ ~call[p].dry
    /\ todo' = [todo EXCEPT ![p] = Listed(Phases(call[p].op)[phase[p]], RowOf(p).item)]
    /\ seen' = [seen EXCEPT ![p] = [o \in Objects |->
                    IF o \in todo'[p] THEN field[FieldOf(call[p].op)][o] ELSE None]]
    /\ pc' = [pc EXCEPT ![p] = "patch"]
    /\ UNCHANGED <<field, call, row, phase, at, clean, faults>>

DryRow(p) ==
    /\ AtRow(p)
    /\ call[p].dry
    /\ Advance(p, TRUE)
    /\ UNCHANGED <<field, call, todo, seen, at, clean, faults>>

\* The listing fails or does not parse: the rest of the row is skipped.
ListFails(p) ==
    /\ AtRow(p)
    /\ ~call[p].dry
    /\ faults < MaxFaults
    /\ faults' = faults + 1
    /\ clean' = [clean EXCEPT ![p] = FALSE]
    /\ Advance(p, TRUE)
    /\ UNCHANGED <<field, call, todo, seen, at>>

\* oc patch of one object, or not, from the value the listing had.
Patch(p, o) ==
    LET c == call[p]
        v == seen[p][o]
    IN  /\ AtObject(p, o)
        /\ todo' = [todo EXCEPT ![p] = @ \ {o}]
        /\ seen' = [seen EXCEPT ![p][o] = None]
        /\ IF Leaves(c, RowOf(p), v)
           THEN UNCHANGED field
           ELSE field' = [field EXCEPT ![FieldOf(c.op)][o] = New(c, RowOf(p), v)]
        /\ UNCHANGED <<pc, call, row, phase, at, clean, faults>>

\* A patch is refused, or the object is gone: logged, and the next one.
PatchFails(p, o) ==
    /\ AtObject(p, o)
    /\ ~Leaves(call[p], RowOf(p), seen[p][o])
    /\ faults < MaxFaults
    /\ faults' = faults + 1
    /\ clean' = [clean EXCEPT ![p] = FALSE]
    /\ todo' = [todo EXCEPT ![p] = @ \ {o}]
    /\ seen' = [seen EXCEPT ![p][o] = None]
    /\ UNCHANGED <<field, pc, call, row, phase, at>>

\* Variant: the listing of the row is asked for again.
GiveUpRelisting(p) ==
    /\ faults < MaxFaults
    /\ faults' = faults + 1
    /\ clean' = [clean EXCEPT ![p] = FALSE]
    /\ todo' = [todo EXCEPT ![p] = {}]
    /\ seen' = [seen EXCEPT ![p] = [o \in Objects |-> None]]
    /\ pc' = [pc EXCEPT ![p] = "list"]
    /\ UNCHANGED <<row, phase, call, at>>

\* A call of oc does not answer in time: the exception ends the operation,
\* except the creation of pools, which goes on with the next pool.
GiveUp(p) ==
    /\ faults < MaxFaults
    /\ faults' = faults + 1
    /\ clean' = [clean EXCEPT ![p] = FALSE]
    /\ todo' = [todo EXCEPT ![p] = {}]
    /\ seen' = [seen EXCEPT ![p] = [o \in Objects |-> None]]
    /\ IF call[p].op = "create_pools"
       THEN Advance(p, TRUE)
       ELSE pc' = [pc EXCEPT ![p] = "failed"] /\ UNCHANGED <<row, phase>>
    /\ UNCHANGED <<call, at>>

ListTimesOut(p) == AtRow(p) /\ ~call[p].dry /\ GiveUp(p) /\ UNCHANGED field

\* The patch that was cut off may have reached the cluster.
PatchTimesOut(p, o) ==
    /\ AtObject(p, o)
    /\ ~Leaves(call[p], RowOf(p), seen[p][o])
    /\ GiveUp(p)
    /\ \/ UNCHANGED field
       \/ field' = [field EXCEPT ![FieldOf(call[p].op)][o] = New(call[p], RowOf(p), seen[p][o])]

NextListing(p) ==
    /\ pc[p] = "patch"
    /\ todo[p] = {}
    /\ Advance(p, FALSE)
    /\ UNCHANGED <<field, call, todo, seen, at, clean, faults>>

\* The rows are worked off and the request is answered, with success (but for
\* disable_autostop, when it patched nothing).
Reply(p) ==
    /\ pc[p] = "list"
    /\ row[p] > Len(call[p].rows)
    /\ pc' = [pc EXCEPT ![p] = "done"]
    /\ UNCHANGED <<field, call, row, phase, todo, seen, at, clean, faults>>

\* Another client of the cluster creates a pool.
PoolAppears(o) ==
    /\ Kind[o] = "pool"
    /\ field["pool"][o] = None
    /\ field' = [field EXCEPT !["pool"][o] = "others"]
    /\ clean' = [q \in Requests |-> clean[q] /\ q \notin OnField("pool")]
    /\ UNCHANGED <<pc, call, row, phase, todo, seen, at, faults>>

Step(p) ==
    \/ Begin(p) \/ List(p) \/ DryRow(p) \/ NextListing(p) \/ Reply(p)
    \/ \E o \in Objects : Patch(p, o)

Fault(p) ==
    \/ ListFails(p) \/ ListTimesOut(p)
    \/ \E o \in Objects : PatchFails(p, o) \/ PatchTimesOut(p, o)

Next ==
    \/ \E p \in Requests : Step(p) \/ Fault(p)
    \/ \E o \in Objects : PoolAppears(o)

Spec == Init /\ [][Next]_vars
-----------------------------------------------------------------------------
(* Properties *)

\* Types of the variables.
TypeOK ==
    /\ DOMAIN field = Fields
    /\ \A f \in Times : field[f] \in [Objects -> Nat \cup {None}]
    /\ pc \in [Requests -> {"idle", "list", "patch", "done", "failed"}]
    /\ call \in [Requests -> Calls]
    /\ todo \in [Requests -> SUBSET Objects]
    /\ row \in [Requests -> Nat \ {0}]
    /\ \A p \in Requests : row[p] <= Len(call[p].rows) + 1
    /\ clean \in [Requests -> BOOLEAN]
    /\ faults \in 0..MaxFaults

\* The kinds of object an operation is for.
Reach(op) ==
    CASE op \in {"lock", "unlock", "extend_stop", "update_passwords"} -> {"workshop"}
      [] op \in {"extend_destroy", "disable_autostop"} -> {"workshop", "provision"}
      [] op = "scale" -> {"provision"}
      [] op = "create_pools" -> {"pool"}

\* The rows a call goes over that name an object.
Naming(c, o) ==
    {i \in DOMAIN c.rows : Rows[c.rows[i]].item = Item[o] /\ Kind[o] \in Reach(c.op)}

LastNaming(c, o) == Rows[c.rows[CHOOSE i \in Naming(c, o) : \A j \in Naming(c, o) : j <= i]]

\* What one object has after the whole of a call, done in one step.
AtOnce(c, o, v) ==
    IF c.dry \/ Naming(c, o) = {} THEN v
    ELSE CASE c.op \in {"extend_stop", "extend_destroy"} ->
                  IF v = None THEN None ELSE v + c.value * Cardinality(Naming(c, o))
           [] c.op \in {"lock", "unlock"} -> c.op = "lock"
           [] c.op = "disable_autostop" -> None
           [] c.op = "scale" -> c.value
           [] c.op = "update_passwords" -> LastNaming(c, o).password
           [] c.op = "create_pools" -> IF v = None THEN c.value ELSE v

\* A request in which nothing failed, and beside which no other request worked
\* on the same field, leaves that field as one step over all objects would:
\* a merge patch of another field never disturbs it, an item named by two rows is
\* extended twice, and workshops and provisions move together.
CleanIsAtOnce ==
    \A p \in Requests :
        (pc[p] = "list" /\ row[p] > Len(call[p].rows) /\ clean[p]) =>
            field[FieldOf(call[p].op)] = [o \in Objects |-> AtOnce(call[p], o, at[p][o])]

\* What one object may have when a call has been made of it in part.
InPart(c, o, v) ==
    IF c.dry \/ Naming(c, o) = {} THEN {v}
    ELSE CASE c.op \in {"extend_stop", "extend_destroy"} ->
                  IF v = None THEN {None} ELSE {v + c.value * n : n \in 0..Cardinality(Naming(c, o))}
           [] c.op = "update_passwords" -> {v} \cup {Rows[c.rows[i]].password : i \in Naming(c, o)}
           [] OTHER -> {v, AtOnce(c, o, v)}

\* Whatever fails or is cut off in a request, also when the cluster did what was
\* not answered, each object of its field is at any time as it was or as a part
\* of the rows that name it leaves it, if no other request on the field has begun
\* (other clients may make pools): it is extended no more often than it is named.
PartsAreWhole ==
    \A p \in Requests :
        (/\ pc[p] # "idle"
         /\ \A q \in Requests \ {p} : pc[q] # "idle" => FieldOf(call[q].op) # FieldOf(call[p].op))
        => \A o \in Objects :
               LET v == field[FieldOf(call[p].op)][o]
               IN  v \in InPart(call[p], o, at[p][o]) \/ (Kind[o] = "pool" /\ v = "others")

Extends(p, f) ==
    /\ call[p].op \in {"extend_stop", "extend_destroy"}
    /\ FieldOf(call[p].op) = f
    /\ pc[p] # "idle"

\* A time never falls below what it was at the beginning and is set nowhere it
\* was not, whatever requests overlap, fail or read before another's patch: the
\* worst an overlap does is to lose an extension, or to bring back a stop
\* another request has just disabled.
NeverShortened ==
    \A f \in Times, o \in Objects :
        field[f][o] # None => /\ First[f][o] # None
                              /\ field[f][o] >= First[f][o]

\* When nothing failed and nobody disabled the autostop, an extension that is
\* answered counts: the time has moved by at least the smallest of the extensions
\* that named the object, even where they overlapped.
ExtensionCounts ==
    \A f \in Times, o \in Objects :
        LET mine == {p \in Requests : Extends(p, f) /\ ~call[p].dry /\ Naming(call[p], o) # {}}
        IN  (/\ faults = 0
             /\ mine # {}
             /\ \A p \in Requests : FieldOf(call[p].op) = f =>
                    pc[p] \in {"idle", "done"} /\ (call[p].op = "disable_autostop" => pc[p] = "idle")
             /\ First[f][o] # None)
            => \E p \in mine : field[f][o] >= First[f][o] + call[p].value

\* A pool that existed at the beginning keeps its size, whatever requests to
\* create pools overlap or fail (the code's "do not activate or resize an existing
\* shared pool").
PoolsKept ==
    \A o \in Objects :
        First["pool"][o] # None => field["pool"][o] = First["pool"][o]
=============================================================================
