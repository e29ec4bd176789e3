---------------------------- MODULE ResultsStore ----------------------------
(***************************************************************************)
(* The deployment results of api/routes.py: _deployment_results in memory, *)
(* its snapshot on disk, the runs that publish results and the requests    *)
(* that delete or clear them.                                              *)
(*                                                                         *)
(* A run of POST /deploy replaces the results, one of /deploy/session adds *)
(* to them, one of /deploy/retry replaces those of the same name; all live *)
(* on the event loop.  /deploy/dry-run replaces them too, in a thread of   *)
(* its own.  All take _state_lock to publish, but only the session saves   *)
(* before it gives the lock back.  One file write is one step here; what   *)
(* it takes for that to be so is the subject of FlowState.                 *)
(*                                                                         *)
(* A result is shown under a name and a key, (ci, namespace): those of its *)
(* row, or, for rows deployed as one group, the group's name and the key   *)
(* of the first of them.                                                   *)
(***************************************************************************)
EXTENDS Integers

CONSTANTS
    Workshops,  \* how many schedule rows there are
    Alike,      \* the rows that share one ci_name
    Twins,      \* the rows that share one (ci, namespace)
    Together,   \* the rows of one multi_workshop_name
    Runs,       \* the runs ever started
    Kinds,      \* which of "deploy", "session", "retry" and "dry-run" they are
    Clients     \* the cases considered of what clients send: sets of "delete"
                \* and "clear"

ASSUME WorkshopsAssumption == Workshops \in Nat
ASSUME RowsAssumption ==
    Alike \subseteq 1..Workshops /\ Twins \subseteq 1..Workshops /\ Together \subseteq 1..Workshops
ASSUME KindsAssumption == Kinds \subseteq {"deploy", "session", "retry", "dry-run"}
ASSUME ClientsAssumption == Clients \subseteq SUBSET {"delete", "clear"}

\* Definitions introduced by "Variant" are not part of the model: each has a
\* plausible mistake in it, which the properties of this module must notice.

VARIABLES
    results,    \* _deployment_results
    disk,       \* last_results.json; no file and an empty list are the same
    pc,         \* where each run is
    kind,       \* what each run is
    requests,   \* what clients send
    rows,       \* the schedule rows each run works off
    snap,       \* the list a run that is saving hands to save_results
    top,        \* the first position after those of every list so far
    overtaken,  \* history: the runs that are saving and that another thread's
                \* publication, deletion or clear has come between
    spoilt      \* history: such a run was the last to write the snapshot

vars == <<results, disk, pc, kind, requests, rows, snap, top, overtaken, spoilt>>
setup == <<kind, requests>>

Rows == 1..Workshops
Numbers == 0..Workshops + 1
Results == [name : Numbers, key : Numbers, run : Runs]

\* A list is a function on the positions of its entries.  Only their order
\* counts, so what is removed may leave a gap.
Lists == UNION {[I -> Results] : I \in SUBSET Nat}
Empty == [i \in {} |-> 0]

TypeOK ==
    /\ results \in Lists
    /\ disk \in Lists
    /\ pc \in [Runs -> {"idle", "running", "published", "saving", "over", "dead"}]
    /\ kind \in [Runs -> Kinds]
    /\ requests \in Clients
    /\ rows \in [Runs -> SUBSET Rows]
    /\ snap \in [Runs -> Lists]
    /\ top \in Nat
    /\ overtaken \in SUBSET Runs
    /\ spoilt \in BOOLEAN

Init ==
    /\ results = Empty
    /\ disk = Empty
    /\ pc = [r \in Runs |-> "idle"]
    /\ kind \in [Runs -> Kinds]
    /\ requests \in Clients
    /\ rows = [r \in Runs |-> {}]
    /\ snap = [r \in Runs |-> Empty]
    /\ top = 0
    /\ overtaken = {}
    /\ spoilt = FALSE

-----------------------------------------------------------------------------
Shown(res) == {res[i] : i \in DOMAIN res}
KeysOf(res) == {x.key : x \in Shown(res)}
Names(res) == {x.name : x \in Shown(res)}

\* ci_name and (ci, namespace) of a schedule row
Name(k) == IF k \in Alike THEN Workshops + 1 ELSE k
Key(k) == IF k \in Twins THEN Workshops + 1 ELSE k

\* What a run deploys one after another: the group, numbered 0, and the other
\* rows.  A retry knows no groups.
Grouped(r) == IF kind[r] = "retry" THEN {} ELSE rows[r] \cap Together
Units(r) == (rows[r] \ Grouped(r)) \cup {u \in {0} : Grouped(r) # {}}

First(S) == CHOOSE k \in S : \A j \in S : k <= j

\* The units a run comes to before it is cancelled.
UpTo(r, us) == \A u \in us, v \in Units(r) : v <= u => v \in us

\* The result of a unit; that of the group has the group's name, 0, and the key
\* of its first row.
ResultOf(r, u) ==
    IF u = 0 THEN [name |-> 0, key |-> Key(First(Grouped(r))), run |-> r]
    ELSE [name |-> Name(u), key |-> Key(u), run |-> r]

\* The run's own list, after those that were published before.
Own(r, us) ==
    [i \in {top + u : u \in us} |-> ResultOf(r, i - top)]

\* old + new
Joined(old, new) ==
    [i \in DOMAIN old \cup DOMAIN new |-> IF i \in DOMAIN new THEN new[i] ELSE old[i]]

\* The last entry of a list that has a key, or a name.
LastOfKey(res, k) ==
    res[CHOOSE i \in DOMAIN res :
            res[i].key = k /\ \A j \in DOMAIN res : res[j].key = k => j <= i]
LastOfName(res, n) ==
    res[CHOOSE i \in DOMAIN res :
            res[i].name = n /\ \A j \in DOMAIN res : res[j].name = n => j <= i]

\* _deployment_results = results
Replace(new) == new

\* Variant: the results that were there win.
MergeBackwards(old, new) ==
    LET all == Joined(old, new) IN
    [i \in {j \in DOMAIN all : \A h \in DOMAIN all : h < j => all[h].key # all[j].key} |-> all[i]]

\* merged = {(r.ci, r.namespace): r ...}: the first of a key settles the place and
\* the last of it the value, also among what was there before.
Merge(old, new) ==
    LET all == Joined(old, new) IN
    [i \in {j \in DOMAIN all : \A h \in DOMAIN all : h < j => all[h].key # all[j].key}
        |-> LastOfKey(all, all[i].key)]

\* result_map = {r.ci_name: r ...}: each result whose name is in it is replaced by
\* the last new one of that name, and names that were not there are added.
Update(old, new) ==
    [i \in DOMAIN old \cup {j \in DOMAIN new : new[j].name \notin Names(old)} |->
        IF i \notin DOMAIN old THEN new[i]
        ELSE IF old[i].name \in Names(new) THEN LastOfName(new, old[i].name) ELSE old[i]]

Combine(r, old, new) ==
    CASE kind[r] = "session" -> Merge(old, new)
      [] kind[r] = "retry"   -> Update(old, new)
      [] OTHER               -> Replace(new)

-----------------------------------------------------------------------------
(* The runs.                                                               *)

\* The rows a retry matches are those with one of the names asked for.
Start(r, ks) ==
    /\ pc[r] = "idle"
    /\ ks # {}
    /\ kind[r] = "retry" =>
          \A k \in ks : {j \in Rows : Name(j) = Name(k)} \subseteq ks
    /\ pc' = [pc EXCEPT ![r] = "running"]
    /\ rows' = [rows EXCEPT ![r] = ks]
    /\ UNCHANGED <<results, disk, setup, snap, top, overtaken, spoilt>>

\* From publishing to having saved a run on the loop does not yield to another.
OnLoop(r) == kind[r] # "dry-run"

Saving(r) == pc[r] \in {"published", "saving"}

\* Variant: a run yields between publishing and saving.
AnyTime(r) == TRUE

LoopFree(r) == OnLoop(r) => \A q \in Runs \ {r} : OnLoop(q) => ~Saving(q)

\* The runs with a list to save that a change made by run r, in its thread, comes
\* between: none of those on the loop, if r is on it.
Overtakes(r) == {q \in Runs \ {r} : pc[q] = "saving" /\ ~(OnLoop(q) /\ OnLoop(r))}

\* The run's loop is over - a cancelled run left it early, with the results of
\* its first units - and it publishes them under _state_lock.  A deploy keeps
\* hold of its own list; a retry will look _deployment_results up again.
Publish(r, us) ==
    LET all == Combine(r, results, Own(r, us))
    IN  /\ pc[r] = "running"
        /\ LoopFree(r)
        /\ UpTo(r, us)
        /\ us # Units(r) => kind[r] \in {"deploy", "session"}
        /\ results' = all
        /\ disk' = IF kind[r] = "session" THEN all ELSE disk
        /\ spoilt' = (spoilt /\ kind[r] # "session")
        /\ snap' = [snap EXCEPT ![r] = all]
        /\ pc' = [pc EXCEPT ![r] = CASE kind[r] = "session" -> "over"
                                     [] kind[r] = "retry" -> "published"
                                     [] OTHER -> "saving"]
        /\ top' = top + Workshops + 1
        /\ overtaken' = overtaken \cup Overtakes(r)
        /\ UNCHANGED <<setup, rows>>

\* _save_results(_deployment_results), after the lock: first the list ...
Look(r) ==
    /\ pc[r] = "published"
    /\ snap' = [snap EXCEPT ![r] = results]
    /\ pc' = [pc EXCEPT ![r] = "saving"]
    /\ UNCHANGED <<results, disk, setup, rows, top, overtaken, spoilt>>

\* ... then the file.
Save(r) ==
    /\ pc[r] = "saving"
    /\ disk' = snap[r]
    /\ pc' = [pc EXCEPT ![r] = "over"]
    /\ spoilt' = (r \in overtaken)
    /\ UNCHANGED <<results, setup, rows, snap, top, overtaken>>

\* An exception leaves the results as they were.
Fail(r) ==
    /\ pc[r] = "running"
    /\ pc' = [pc EXCEPT ![r] = "over"]
    /\ UNCHANGED <<results, disk, setup, rows, snap, top, overtaken, spoilt>>

-----------------------------------------------------------------------------
(* Requests, in the threadpool, and the end of the process.                *)

Without(res, ks) == [i \in {j \in DOMAIN res : res[j].key \notin ks} |-> res[i]]

Delete(ks) ==
    /\ "delete" \in requests
    /\ results' = Without(results, ks)
    /\ disk' = results'
    /\ overtaken' = overtaken \cup {q \in Runs : pc[q] = "saving"}
    /\ spoilt' = FALSE
    /\ UNCHANGED <<pc, setup, rows, snap, top>>

ClearSession ==
    /\ "clear" \in requests
    /\ results' = Empty
    /\ disk' = Empty
    /\ overtaken' = overtaken \cup {q \in Runs : pc[q] = "saving"}
    /\ spoilt' = FALSE
    /\ UNCHANGED <<pc, setup, rows, snap, top>>

\* The pod restarts: its runs are gone and _restore_persisted_state reads the
\* snapshot.
Restart ==
    /\ results' = disk
    /\ pc' = [r \in Runs |-> IF pc[r] \in {"idle", "over"} THEN pc[r] ELSE "dead"]
    /\ spoilt' = FALSE
    /\ UNCHANGED <<disk, setup, rows, snap, top, overtaken>>

Next ==
    \/ \E r \in Runs :
          \/ \E ks \in SUBSET Rows : Start(r, ks)
          \/ \E us \in SUBSET Units(r) : Publish(r, us)
          \/ Look(r) \/ Save(r) \/ Fail(r)
    \/ \E ks \in SUBSET Numbers : Delete(ks)
    \/ ClearSession
    \/ Restart

Spec == Init /\ [][Next]_vars

-----------------------------------------------------------------------------
(* Properties.                                                             *)

\* The dashboard and the snapshot agree whenever no run is on its way to disk: a
\* restart then shows what was shown before, whichever runs, deletions and clears
\* there have been and however they overlapped; unless, between the lock and the
\* file write of the run that wrote last, another thread changed the results.
\* (deploy, deploy_retry and deploy_dry_run save outside the lock.)
DiskFollowsMemory ==
    (\A r \in Runs : ~Saving(r)) /\ ~spoilt => disk = results

\* Run r publishes; a run that failed publishes nothing.
Publishes(r) == pc[r] = "running" /\ pc'[r] # pc[r] /\ top' # top

\* POST /deploy/results/delete "Removes matching rows from the in-memory results
\* and the persisted snapshot": no save puts into the snapshot what neither the
\* dashboard shows any longer nor the snapshot held.  (It does not hold: README, section 5.)
DeletedStaysDeleted ==
    [][\A x \in Shown(disk') : x \in Shown(disk) \/ x \in Shown(results')]_vars

\* A session shows each workshop once, by its own result if it came to deploy it
\* and else by one that was there, and no workshop is lost ("ACCUMULATE rather
\* than replace").
SessionAccumulates(r) ==
    /\ \A x, y \in Shown(results') : x.key = y.key => x = y
    /\ \E us \in SUBSET Units(r) :
          LET found == {ResultOf(r, u).key : u \in us}
          IN  /\ UpTo(r, us)
              /\ KeysOf(results') = KeysOf(results) \cup found
              /\ \A x \in Shown(results') :
                    IF x.key \in found THEN x.run = r ELSE x \in Shown(results)

\* A retry shows its own results for the names it was asked for and nothing else
\* under them, loses none of them, and leaves all other names alone.  (By name: of
\* rows that share one it keeps the result of the last; a group's is not among
\* them.)
RetryReplaces(r) ==
    LET mine == {Name(k) : k \in rows[r]} IN
    /\ {x \in Shown(results') : x.name \notin mine} = {x \in Shown(results) : x.name \notin mine}
    /\ \A x \in Shown(results') : x.name \in mine => x.run = r
    /\ mine \subseteq Names(results')

\* A run changes the results of what it deployed and keeps the rest.
KeepsTheRest ==
    [][\A r \in Runs : Publishes(r) =>
          /\ kind[r] = "session" => SessionAccumulates(r)
          /\ kind[r] = "retry" => RetryReplaces(r)]_vars
=============================================================================
