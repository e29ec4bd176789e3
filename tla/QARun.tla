------------------------------- MODULE QARun -------------------------------
(***************************************************************************)
(* QA runs over the schedules of ScheduleList (qa_run and _run_qa_over of  *)
(* api/routes.py, services/qa_scope.py): the results on the dashboard, the *)
(* scope that says which rows they cover, and the saved results.           *)
(*                                                                         *)
(* A run is a coroutine on the event loop that hands the checks to a       *)
(* worker thread; runs may overlap.  From the computation of its coverage  *)
(* to the end of its save a run does not await: other runs and the loop's  *)
(* requests wait, requests in threads do not.  What a check finds out is   *)
(* the subject of QAChecks: here it is one result for the rows of one name *)
(* and namespace, and one for each catalog item.                           *)
(***************************************************************************)
EXTENDS ScheduleList

CONSTANTS
    Runs,       \* the runs, in the order in which they start
    Requests,   \* what clients ask for
    RunClears   \* bound: how many sessions are archived where there are runs

\* The QA types: catalog, setup, deployment, the last two, all three.
Types == {"1", "2", "3", "both", "all"}

\* No names and no spaces stand for all of them, no day for the full event.
ASSUME RequestsAssumption ==
    Requests \subseteq [names : SUBSET Names, spaces : SUBSET Spaces,
                        day : Days \cup {NoDay}, type : Types]
ASSUME RunsAssumption == Runs \subseteq Nat /\ NoDay \notin Days /\ RunClears \in Nat

Kinds == {"catalog", "workshop"}
Covered == [name : Names, ci : Items, ns : Spaces, day : Days \cup {NoDay}]

VARIABLES
    checks,   \* _qa_results; "run" is the run that a result comes from
    scope,    \* _qa_last_scope
    saved,    \* the file of save_qa_results
    runs,     \* the runs' coroutines
    spoilt    \* has something happened that makes the scope untrue?

qaVars == <<checks, scope, saved, runs, spoilt>>
vars == <<scheduleVars, qaVars>>

\* "item" is what a catalog result is about.  "of" is not in the code: the rows,
\* as coverage lists them, that were looked at for the result.
Result == [name : Names, ns : Spaces, kind : Kinds, item : Items \cup {None}, run : Runs,
           of : SUBSET Covered]
Scope == [names : SUBSET Names, covered : SUBSET Covered]
RunState == [pc : {"new", "asked", "checking", "covering", "publishing", "reading", "writing", "done"},
             request : Requests \cup {None}, spaces : SUBSET Spaces, left : SUBSET Spaces,
             found : SUBSET Result, coverage : Scope \cup {None}, cancelled : BOOLEAN,
             copy : SUBSET Result]

TypeOK ==
    /\ ScheduleTypeOK
    /\ checks \subseteq Result
    /\ scope \in Scope \cup {None}
    /\ saved \subseteq Result
    /\ runs \in [Runs -> RunState]
    /\ spoilt \in BOOLEAN

NotStarted == [pc |-> "new", request |-> None, spaces |-> {}, left |-> {}, found |-> {},
               coverage |-> None, cancelled |-> FALSE, copy |-> {}]
Ended == [NotStarted EXCEPT !.pc = "done"]

Init ==
    /\ ScheduleInit
    /\ checks = {}
    /\ scope = None
    /\ saved = {}
    /\ runs = [j \in Runs |-> NotStarted]
    /\ spoilt = FALSE

Underway(j) == runs[j].pc \notin {"new", "done"}
Holding(j) == runs[j].pc \in {"publishing", "reading", "writing"}
LoopFree == \A j \in Runs : ~Holding(j)

-----------------------------------------------------------------------------
(* Which rows a request is about.                                          *)

Rows == {Schedules[i] : i \in DOMAIN Schedules}

\* schedule_matches_scope.  A time band narrows as a day does.
InScope(row, q) ==
    /\ q.day = NoDay \/ row.day = q.day
    /\ q.names = {} \/ row.name \in q.names

\* filter_schedules_by_scope
Scoped(q) == {row \in Rows : InScope(row, q)}

\* What coverage says of a row (_covered_key).
Entry(row) == [name |-> row.name, ci |-> row.ci, ns |-> row.ns, day |-> row.day]
Entries(rows) == {Entry(row) : row \in rows}

\* Variant: the day is not looked at.
CoverageAllDays(q, spaces) ==
    [names |-> q.names,
     covered |-> Entries({row \in Rows : (q.names = {} \/ row.name \in q.names)
                                         /\ (spaces = {} \/ row.ns \in spaces)})]

\* build_qa_coverage: without namespaces, rows of all of them.
Coverage(q, spaces) ==
    [names |-> q.names,
     covered |-> Entries({row \in Scoped(q) : spaces = {} \/ row.ns \in spaces})]

\* merge_qa_coverage
Merged(prior, latest) ==
    IF prior = None \/ latest.names = {} THEN latest
    ELSE [names |-> IF prior.names = {} THEN {} ELSE prior.names \cup latest.names,
          covered |-> prior.covered \cup latest.covered]

\* The results of the checks on rows of one namespace, setup and deployment
\* merged.
Checked(q, ns, j) ==
    IF q.type = "1" THEN {}
    ELSE LET rows == {row \in Scoped(q) : row.ns = ns}
         IN  {[name |-> n, ns |-> ns, kind |-> "workshop", item |-> None, run |-> j,
               of |-> Entries({row \in rows : row.name = n})] : n \in {row.name : row \in rows}}

\* The items that the catalog is asked for on account of a row.  With rows of
\* several namespaces the columns with the assets are not passed on.
ItemsOf(row, rows) ==
    IF row.assets # {} /\ \A other \in rows : other.ns = row.ns THEN row.assets ELSE {row.ci}

\* qa3_verify_catalog_items_exist: one result for each item, which names the first
\* row that has it.
CatalogChecked(q, spaces, j) ==
    IF q.type \notin {"1", "all"} THEN {}
    ELSE LET rows == {row \in Scoped(q) : row.ns \in spaces}
             with(item) == {row \in rows : item \in ItemsOf(row, rows)}
             first(item) == Schedules[CHOOSE i \in DOMAIN Schedules :
                                        /\ Schedules[i] \in with(item)
                                        /\ \A k \in 1..(i - 1) : Schedules[k] \notin with(item)]
         IN  {[name |-> first(item).name, ns |-> first(item).ns, kind |-> "catalog", item |-> item,
               run |-> j, of |-> Entries(with(item))] :
                item \in UNION {ItemsOf(row, rows) : row \in rows}}

-----------------------------------------------------------------------------
(* A run.                                                                  *)

\* The endpoint looks whether there are schedules, and awaits.
Ask(j) ==
    /\ "qa" \in clients
    /\ runs[j].pc = "new"
    /\ \A i \in Runs : i < j => runs[i].pc # "new"
    /\ LoopFree
    /\ Schedules # <<>>
    /\ \E q \in Requests : runs' = [runs EXCEPT ![j].pc = "asked", ![j].request = q]
    /\ UNCHANGED <<scheduleVars, checks, scope, saved, spoilt>>

\* It settles the namespaces; names that match nothing are refused.
Resolve(j) ==
    /\ runs[j].pc = "asked"
    /\ LoopFree
    /\ LET q == runs[j].request
           wanted == IF q.spaces = {} THEN {row.ns : row \in Rows} ELSE q.spaces
           matching == {row.ns : row \in Scoped(q)}
           spaces == IF q.names = {} THEN wanted ELSE wanted \cap matching
       IN  runs' = [runs EXCEPT ![j] =
                        IF q.names # {} /\ spaces = {} THEN Ended
                        ELSE [@ EXCEPT !.pc = "checking", !.spaces = spaces, !.left = spaces]]
    /\ UNCHANGED <<scheduleVars, checks, scope, saved, spoilt>>

\* The rows of one namespace as they are at that moment.
CheckSpace(j) ==
    /\ runs[j].pc = "checking"
    /\ ~runs[j].cancelled
    /\ \E ns \in runs[j].left :
          runs' = [runs EXCEPT ![j].left = @ \ {ns},
                               ![j].found = @ \cup Checked(runs[j].request, ns, j)]
    /\ UNCHANGED <<scheduleVars, checks, scope, saved, spoilt>>

\* Once at the end, and not if the run is cancelled.
CheckCatalog(j) ==
    /\ runs[j].pc = "checking"
    /\ runs[j].cancelled \/ runs[j].left = {}
    /\ LET more == IF runs[j].cancelled THEN {}
                   ELSE CatalogChecked(runs[j].request, runs[j].spaces, j)
       IN  runs' = [runs EXCEPT ![j].pc = "covering", ![j].left = {}, ![j].found = @ \cup more]
    /\ UNCHANGED <<scheduleVars, checks, scope, saved, spoilt>>

\* A check raises: neither the results nor the scope change.
CheckFails(j) ==
    /\ runs[j].pc = "checking"
    /\ "failure" \in clients
    /\ runs' = [runs EXCEPT ![j] = Ended]
    /\ UNCHANGED <<scheduleVars, checks, scope, saved, spoilt>>

\* The coverage is made from the rows of this moment.
Cover(j) ==
    /\ runs[j].pc = "covering"
    /\ LoopFree
    /\ runs' = [runs EXCEPT ![j].pc = "publishing",
                            ![j].coverage = Coverage(runs[j].request, runs[j].spaces)]
    /\ UNCHANGED <<scheduleVars, checks, scope, saved, spoilt>>

\* The results that a run leaves alone.
Kept(j) ==
    LET names == runs[j].request.names
    IN  IF names = {} THEN {} ELSE {r \in checks : r.name \notin names}

\* Does the run replace a result that stands for rows which it has not checked:
\* of other namespaces or days, or, the catalog's, of another name's same item?
Overreaches(j) ==
    /\ runs[j].request.names # {}
    /\ \E r \in checks \ Kept(j) : ~(r.of \subseteq runs[j].coverage.covered)

\* Variant: the new results come on top.
PublishOnTop(j) ==
    /\ runs[j].pc = "publishing"
    /\ checks' = checks \cup runs[j].found
    /\ scope' = Merged(scope, runs[j].coverage)
    /\ spoilt' = (spoilt \/ Overreaches(j))
    /\ runs' = [runs EXCEPT ![j] = [NotStarted EXCEPT !.pc = "reading"]]
    /\ UNCHANGED <<scheduleVars, saved>>

\* The critical section at the end of qa_run's _run.
Publish(j) ==
    /\ runs[j].pc = "publishing"
    /\ checks' = Kept(j) \cup runs[j].found
    /\ scope' = Merged(scope, runs[j].coverage)
    /\ spoilt' = (spoilt \/ Overreaches(j))
    /\ runs' = [runs EXCEPT ![j] = [NotStarted EXCEPT !.pc = "reading"]]
    /\ UNCHANGED <<scheduleVars, saved>>

\* _save_qa_results runs outside the lock: it copies what is on the
\* dashboard, and writes the copy.
Read(j) ==
    /\ runs[j].pc = "reading"
    /\ runs' = [runs EXCEPT ![j].pc = "writing", ![j].copy = checks]
    /\ UNCHANGED <<scheduleVars, checks, scope, saved, spoilt>>

Write(j) ==
    /\ runs[j].pc = "writing"
    /\ saved' = runs[j].copy
    /\ runs' = [runs EXCEPT ![j] = Ended]
    /\ UNCHANGED <<scheduleVars, checks, scope, spoilt>>

Run(j) ==
    \/ Resolve(j) \/ CheckSpace(j) \/ CheckCatalog(j) \/ CheckFails(j)
    \/ Cover(j) \/ Publish(j) \/ Read(j) \/ Write(j)

-----------------------------------------------------------------------------
(* Other requests.                                                         *)

\* qa_cancel.  Nothing is lost if no results are missing.
Cancel(j) ==
    /\ "cancel" \in clients
    /\ runs[j].pc \in {"checking", "covering", "publishing"}
    /\ ~runs[j].cancelled
    /\ runs' = [runs EXCEPT ![j].cancelled = TRUE]
    /\ spoilt' = (spoilt \/ runs[j].pc = "checking")
    /\ UNCHANGED <<scheduleVars, checks, scope, saved>>

\* The rows change, maybe under a run.
ChangeSchedules ==
    /\ Change
    /\ spoilt' = (spoilt \/ \E j \in Runs : Underway(j))
    /\ UNCHANGED <<checks, scope, saved, runs>>

DeployRows == (Group \/ DeployRow \/ DeployEnd) /\ UNCHANGED qaVars

\* clear_session
ClearSession ==
    /\ "qa" \in clients => counter < RunClears
    /\ Emptied
    /\ sessions' = Archived(checks # {})
    /\ checks' = {}
    /\ scope' = None
    /\ saved' = {}
    /\ spoilt' = \E j \in Runs : Underway(j)
    /\ UNCHANGED runs

\* The scope is not saved.
RestartPod ==
    /\ Restart
    /\ checks' = saved
    /\ scope' = None
    /\ spoilt' = FALSE
    /\ runs' = [j \in Runs |-> IF Underway(j) THEN Ended ELSE runs[j]]
    /\ UNCHANGED saved

Next ==
    \/ \E j \in Runs : Ask(j) \/ Run(j) \/ Cancel(j)
    \/ ChangeSchedules \/ DeployRows \/ ClearSession \/ RestartPod

Spec == Init /\ [][Next]_vars

-----------------------------------------------------------------------------
(* Properties.                                                             *)

\* Each row that the scope claims to be covered has a result to show for it,
\* maybe under the name of another row of the same item.
Shows == \A c \in scope.covered : \E r \in checks : c \in r.of

\* It has, however many runs overlap, unless a run was cancelled, rows changed
\* under a run, or a run for some names replaced a result of rows it left out.
CoverageTrue == (scope # None /\ ~spoilt) => Shows

\* The coverage is what was actually checked, also when a run is cancelled.
\* (It is not: it is what the request asked for.)
CoverageIsWhatRan == scope # None => Shows

\* A run for some names keeps the results of all rows but those that it covers.
\* (It does not: it drops whatever is named like one of them.)
KeepsPriorPasses ==
    [][\A j \in Runs :
        (runs[j].pc = "publishing" /\ runs[j].request.names # {} /\ runs'[j].pc = "reading") =>
            \A r \in checks : r.of \cap runs[j].coverage.covered = {} => r \in checks']_vars

\* For a multi-asset row the catalog is asked for each of its assets.  (It is not
\* when the rows are of several namespaces.)
AssetsLookedUp ==
    \A j \in Runs :
        (runs[j].pc = "covering" /\ ~runs[j].cancelled /\ runs[j].request.type \in {"1", "all"}) =>
            \A row \in Scoped(runs[j].request) : row.ns \in runs[j].spaces =>
                \A asset \in row.assets : \E r \in runs[j].found : r.item = asset

\* The results of a row and a kind come from one run: a run that publishes
\* leaves nothing of what an earlier one said of the same row.  (The checks of
\* the deployments give a result per claim; they count as one here.)
OneResultEach ==
    \A r, s \in checks :
        (r.name = s.name /\ r.ns = s.ns /\ r.kind = s.kind /\ r.item = s.item) => r = s

\* Between the saves the file has the results that are on the dashboard, as
\* long as nobody clears the session while a run is saving.
SavedFollows ==
    ((\A j \in Runs : runs[j].pc \notin {"reading", "writing"}) /\ "clear" \notin clients)
        => saved = checks

\* Variables have their types, and what is stored is in order: one result for
\* each row and kind, and the newest sessions in the archive.
WellFormed == TypeOK /\ OneResultEach /\ ArchiveKeepsNewest

\* The files say what the dashboard says.
FilesFollow == SavedFollows /\ DiskFollowsSchedules
=============================================================================
