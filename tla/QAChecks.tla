------------------------------ MODULE QAChecks ------------------------------
(***************************************************************************)
(* What a QA run finds out about the rows of one namespace: the checks of  *)
(* the setup (qa1_verify_setup) and of the deployment (qa2_verify_         *)
(* deployment_status) of rhdp_flow.py with the batched Soundcheck that     *)
(* follows, and the check after the end (qa_destroy_check).                *)
(*                                                                         *)
(* A check is one call of oc or of the Soundcheck service after another,   *)
(* and each is a step: in between, objects of the cluster come, go and     *)
(* change.  A call may fail, which the checks do not tell from an empty    *)
(* answer.  Objects are numbers, in the order in which the cluster lists   *)
(* them.                                                                   *)
(***************************************************************************)
EXTENDS Naturals, Sequences, Functions, FiniteSetsExt

CONSTANTS
    Objects,    \* the objects that there may be in the namespace
    Kind,       \* claim, workshop, provision (of a workshop), or multi
    Item,       \* the catalog item of each
    Owner,      \* the workshop of a provision, the row of a multi-workshop
    Labelled,   \* the claims with the label of Flow
    Sheets,     \* the schedules considered
    Worlds,     \* the states considered in which a check finds the cluster
    Jobs,       \* what is asked for: a type of QA, or "destroy"
    Earlier,    \* the sets of workshops considered that Soundcheck has found in
                \* order before
    Polls,      \* how often the session is polled
    Limit,      \* how many workshops Soundcheck is asked about
    MaxMoves,   \* bound: how often an object changes
    MaxFaults,  \* bound: how many calls fail
    None

\* The state of an object that is there: its health, and whether it differs
\* from the row in nothing, in its seats or in its times.
State == [health : {"up", "coming", "down"}, differs : {"nothing", "seats", "times"}]

\* A row of the schedule.
Workshop == [item : STRING, ui : BOOLEAN, multi : BOOLEAN, begun : BOOLEAN, ended : BOOLEAN,
             showroom : BOOLEAN]

ASSUME ObjectsAssumption ==
    /\ Objects \subseteq Nat /\ IsFiniteSet(Objects)
    /\ Kind \in [Objects -> {"claim", "workshop", "provision", "multi"}]
ASSUME SheetsAssumption == Sheets \subseteq Seq(Workshop)
ASSUME NoneAssumption == None \notin Objects \cup State
ASSUME WorldsAssumption == Worlds \subseteq [Objects -> State \cup {None}]
ASSUME JobsAssumption == Jobs \subseteq {"2", "3", "both", "destroy"}
ASSUME BoundsAssumption == Polls \in Nat \ {0} /\ Limit \in Nat \ {0} /\ MaxMoves \in Nat /\ MaxFaults \in Nat

VARIABLES
    rows,      \* the rows, of which a check has its own copy
    cluster,   \* the objects
    job,       \* where the check is
    listed,    \* the claims as they were when they were listed
    setup,     \* the results of the setup check
    deployed,  \* the results of the deployment check
    results,   \* what is returned
    sound,     \* the Soundcheck session
    truth,     \* the status of a workshop that Soundcheck has, if it has one
    past,      \* which objects have been there, gone and up during the check
    moves, faults

vars == <<rows, cluster, job, listed, setup, deployed, results, sound, truth, past, moves, faults>>

\* A status that the code has no rank for is another one.
Statuses == {"running", "completed", "failed", "other"}
Result == [row : Nat, there : {"Yes", "No", "Deleted"}, health : {"up", "coming", "down", "none"},
           match : {"Yes", "No", "none"}, seats : {"Yes", "No", "none"}, about : Objects \cup {None},
           showroom : {"none", "healthy", "unhealthy", "pending", "other", "unreachable"}]
Verdict == [row : Nat, overall : {"destroyed", "not_deployed", "overdue", "active"}]
Places == {"listing", "looking", "readying", "workshops", "create", "run", "poll", "status", "merging", "done"}
Job == [kind : Jobs, phase : {"setup", "deployment", "destroy"}, row : Nat, pc : Places,
        tried : {"nothing", "multi", "workshop"}, subject : Objects \cup {None}, seen : State \cup {None},
        cancelled : BOOLEAN, asked : 0..3, missing : SUBSET {"workshop", "provision", "claim"}]
\* The workshops found, those that Soundcheck has taken into its run, and
\* those with an entry in the answer to check-status.
Sound == [ids : SUBSET Objects, taken : SUBSET Objects, heard : SUBSET Objects, kicked : BOOLEAN,
          polls : 0..Polls, session : Statuses \cup {"unknown"}, reached : BOOLEAN]
NoSound == [ids |-> {}, taken |-> {}, heard |-> {}, kicked |-> FALSE, polls |-> 0, session |-> "unknown",
            reached |-> FALSE]

TypeOK ==
    /\ cluster \in [Objects -> State \cup {None}]
    /\ job \in Job
    /\ listed \in [Objects -> State \cup {None}]
    /\ rows \in Seq(Workshop)
    /\ setup \in Seq(Result) /\ deployed \in Seq(Result)
    /\ \A i \in DOMAIN results : results[i] \in Result \cup Verdict
    /\ sound \in Sound
    /\ truth \in [Objects -> Statuses \cup {"none"}]
    /\ past \in [been : SUBSET Objects, gone : SUBSET Objects, up : SUBSET Objects]
    /\ moves \in 0..MaxMoves /\ faults \in 0..MaxFaults

There(o) == cluster[o] # None
Observed == [been |-> {o \in Objects : There(o)}, gone |-> {o \in Objects : ~There(o)},
             up |-> {o \in Objects : There(o) /\ cluster[o].health = "up"}]

Init ==
    /\ rows \in Sheets
    /\ cluster \in Worlds
    /\ \E k \in Jobs :
        job = [kind |-> k, row |-> 1, tried |-> "nothing", subject |-> None, seen |-> None,
               cancelled |-> FALSE, asked |-> 0, missing |-> {},
               phase |-> IF k = "destroy" THEN k ELSE IF k = "3" THEN "deployment" ELSE "setup",
               pc |-> IF k = "destroy" THEN "looking" ELSE "listing"]
    /\ listed = [o \in Objects |-> None]
    /\ setup = <<>> /\ deployed = <<>> /\ results = <<>>
    /\ sound = NoSound
    /\ \E known \in Earlier :
        truth = [o \in Objects |-> IF o \in known THEN "completed" ELSE "none"]
    /\ past = Observed
    /\ moves = 0 /\ faults = 0

-----------------------------------------------------------------------------
(* Calls.                                                                  *)

Calls == {ok \in BOOLEAN : ok \/ faults < MaxFaults}
Failed(ok) == IF ok THEN faults ELSE faults + 1

Of(kind, item) == {o \in Objects : Kind[o] = kind /\ Item[o] = item /\ There(o)}
Row == rows[job.row]
MoreRows == job.row <= Len(rows)

\* list_scheduled_resourceclaims, and the removal of duplicates: the claims
\* with the label and those of the row's item; what is known stays.
ListedWith(labelled, all) ==
    [o \in Objects |-> IF listed[o] # None \/ o \notin labelled \cup all THEN listed[o] ELSE cluster[o]]

\* One call may fail, or both.
List ==
    /\ job.pc = "listing" /\ MoreRows
    /\ \E ok1, ok2 \in Calls :
        /\ faults + (IF ok1 THEN 0 ELSE 1) + (IF ok2 THEN 0 ELSE 1) <= MaxFaults
        /\ listed' = ListedWith(IF ok1 THEN {o \in Labelled : There(o)} ELSE {},
                               IF ok2 THEN Of("claim", Row.item) ELSE {})
        /\ faults' = faults + (IF ok1 THEN 0 ELSE 1) + (IF ok2 THEN 0 ELSE 1)
    /\ job' = [job EXCEPT !.row = @ + 1]
    /\ UNCHANGED <<rows, cluster, setup, deployed, results, sound, truth, past, moves>>

Listed ==
    /\ job.pc = "listing" /\ ~MoreRows
    /\ job' = [job EXCEPT !.pc = "looking", !.row = 1]
    /\ UNCHANGED <<rows, cluster, listed, setup, deployed, results, sound, truth, past, moves, faults>>

-----------------------------------------------------------------------------
(* One row of the two checks.                                              *)

Claims == {o \in Objects : Kind[o] = "claim" /\ Item[o] = Row.item /\ listed[o] # None}
Looking == job.pc = "looking" /\ job.phase # "destroy" /\ MoreRows
NextRow == [job EXCEPT !.row = @ + 1, !.pc = "looking", !.tried = "nothing", !.subject = None, !.seen = None]
Plain(there) == [row |-> job.row, there |-> there, health |-> "none", match |-> "none", seats |-> "none",
                 about |-> None, showroom |-> "none"]
Agrees(b) == IF b THEN "Yes" ELSE "No"

\* The results of a row are added to those of its phase.
Added(phase, rs) == IF job.phase = phase THEN rs ELSE <<>>
Report(rs) ==
    /\ setup' = setup \o Added("setup", rs)
    /\ deployed' = deployed \o Added("deployment", rs)

\* Of the multi-workshops the first that has the name of the event, which all
\* have that Flow makes.
Multis == {o \in Objects : Kind[o] = "multi" /\ There(o)}

LookMulti ==
    /\ Looking /\ Row.multi /\ job.tried = "nothing"
    /\ \E ok \in Calls :
        LET found == IF ok THEN Multis ELSE {}
        IN  /\ job' = IF found = {} THEN [job EXCEPT !.tried = "multi"]
                      ELSE [job EXCEPT !.pc = "readying", !.subject = Min(found), !.seen = cluster[Min(found)]]
            /\ faults' = Failed(ok)
    /\ UNCHANGED <<rows, cluster, listed, setup, deployed, results, sound, truth, past, moves>>

NoMulti == ~Row.multi \/ job.tried # "nothing"

\* Without a claim, the first workshop of the item.
LookWorkshop ==
    /\ Looking /\ NoMulti /\ Claims = {} /\ Row.ui /\ job.tried # "workshop"
    /\ \E ok \in Calls :
        LET found == IF ok THEN Of("workshop", Row.item) ELSE {}
        IN  /\ job' = IF found = {} THEN [job EXCEPT !.tried = "workshop"]
                      ELSE [job EXCEPT !.pc = "readying", !.subject = Min(found), !.seen = cluster[Min(found)]]
            /\ faults' = Failed(ok)
    /\ UNCHANGED <<rows, cluster, listed, setup, deployed, results, sound, truth, past, moves>>

\* Variant: a provision that is there is taken to be ready.
ReadinessPresent(o, item) == IF Of("provision", item) = {} THEN "down" ELSE "up"

\* _get_workshop_provision_readiness: the first provision that belongs to the
\* workshop, or else the first of the item.
Readiness(o, item) ==
    LET all == Of("provision", item)
        own == {p \in all : Owner[p] = o}
    IN  IF all = {} THEN "down" ELSE cluster[Min(IF own = {} THEN all ELSE own)].health

\* The setup check compares the seats and times of a multi-workshop, the times
\* of a workshop, and the seats and times of a claim and the times of the
\* item's workshop; the deployment check compares seats.
MultiAgrees(seen) == seen.differs = "nothing"
WorkshopAgrees(seen) == seen.differs # "times"
ClaimAgrees(seen, late) == seen.differs = "nothing" /\ ~late
SeatsAgree(seen) == seen.differs # "seats"

\* What is reported of an object, which agrees with the row or does not.
About(o, seen, agrees) ==
    [Plain("Yes") EXCEPT
        !.health = seen.health, !.about = o,
        !.match = IF job.phase = "setup" THEN Agrees(agrees) ELSE "none",
        !.seats = IF job.phase = "setup" THEN "none" ELSE Agrees(SeatsAgree(seen))]

\* A workshop or multi-workshop has been found.
Ready ==
    /\ job.pc = "readying"
    /\ \E ok \in Calls :
        LET o == job.subject
            health == IF ok THEN Readiness(o, Row.item) ELSE "down"
            agrees == IF Kind[o] = "multi" THEN MultiAgrees(job.seen) ELSE WorkshopAgrees(job.seen)
        IN  /\ Report(<<[About(o, job.seen, agrees) EXCEPT !.health = health]>>)
            /\ faults' = Failed(ok)
    /\ job' = NextRow
    /\ UNCHANGED <<rows, cluster, listed, results, sound, truth, past, moves>>

\* One result for each claim, as it was when it was listed, in any order.
LookClaims ==
    /\ Looking /\ NoMulti /\ Claims # {}
    /\ \E ok \in IF job.phase = "setup" THEN Calls ELSE {TRUE} :
        LET late == ok /\ \E w \in Of("workshop", Row.item) : cluster[w].differs = "times"
            result(o) == About(o, listed[o], ClaimAgrees(listed[o], late))
        IN  /\ \E order \in Bijection(1..Cardinality(Claims), Claims) :
                  Report([i \in DOMAIN order |-> result(order[i])])
            /\ faults' = Failed(ok)
    /\ job' = NextRow
    /\ UNCHANGED <<rows, cluster, listed, results, sound, truth, past, moves>>

\* Nothing is found: the row is deleted or not yet deployed.
Absent(row) == IF row.begun THEN "Deleted" ELSE "No"

LookNothing ==
    /\ Looking /\ NoMulti /\ Claims = {} /\ (Row.ui => job.tried = "workshop")
    /\ Report(<<Plain(Absent(Row))>>)
    /\ job' = NextRow
    /\ UNCHANGED <<rows, cluster, listed, results, sound, truth, past, moves, faults>>

\* The end of a phase.  Soundcheck is left out if the run is cancelled.
EndPhase ==
    /\ job.pc = "looking" /\ job.phase # "destroy" /\ ~MoreRows
    /\ job' = IF job.phase = "setup" /\ job.kind = "both"
              THEN [job EXCEPT !.phase = "deployment", !.pc = "listing", !.row = 1]
              ELSE [job EXCEPT !.pc = IF job.phase = "setup" \/ job.cancelled \/ deployed = <<>>
                                      THEN "merging" ELSE "workshops"]
    /\ listed' = [o \in Objects |-> None]
    /\ UNCHANGED <<rows, cluster, setup, deployed, results, sound, truth, past, moves, faults>>

-----------------------------------------------------------------------------
(* Soundcheck.                                                             *)

RowItems == {rows[i].item : i \in DOMAIN rows}
IdsOf(item) == {w \in sound.ids : Item[w] = item}

\* In the order of the rows; the first ones are asked about.
Before(v, w) ==
    LET row(x) == Min({i \in DOMAIN rows : rows[i].item = Item[x]})
    IN  row(v) < row(w) \/ (row(v) = row(w) /\ v < w)
Asked == {w \in sound.ids : Cardinality({v \in sound.ids : Before(v, w)}) < Limit}

\* _collect_workshop_ids_for_schedules
CollectWorkshops ==
    /\ job.pc = "workshops"
    /\ \E ok \in Calls :
        LET ids == IF ok THEN {w \in Objects : Kind[w] = "workshop" /\ Item[w] \in RowItems /\ There(w)} ELSE {}
        IN  /\ sound' = [sound EXCEPT !.ids = ids]
            /\ job' = [job EXCEPT !.pc = IF ids = {} THEN "merging" ELSE "create"]
            /\ faults' = Failed(ok)
    /\ UNCHANGED <<rows, cluster, listed, setup, deployed, results, truth, past, moves>>

\* A group is made and run; if either fails there is no polling.
CreateGroup ==
    /\ job.pc = "create"
    /\ \E ok \in Calls :
        /\ job' = [job EXCEPT !.pc = IF ok THEN "run" ELSE "status"]
        /\ sound' = [sound EXCEPT !.reached = ok]
        /\ faults' = Failed(ok)
    /\ UNCHANGED <<rows, cluster, listed, setup, deployed, results, truth, past, moves>>

\* Soundcheck may take only some of the workshops into its run.
RunGroup ==
    /\ job.pc = "run"
    /\ \E ok \in Calls, taken \in SUBSET Asked :
        /\ ok \/ taken = {}
        /\ job' = [job EXCEPT !.pc = IF ok THEN "poll" ELSE "status"]
        /\ sound' = [sound EXCEPT !.kicked = ok, !.taken = taken]
        /\ truth' = [w \in Objects |-> IF w \in taken THEN "running" ELSE truth[w]]
        /\ faults' = Failed(ok)
    /\ UNCHANGED <<rows, cluster, listed, setup, deployed, results, past, moves>>

\* The session as the service sees it.
Session ==
    LET has == {truth[w] : w \in sound.taken}
    IN  CASE "failed" \in has -> "failed"
          [] "failed" \notin has /\ "running" \in has -> "running"
          [] has \subseteq {"completed"} -> "completed"
          [] OTHER -> "other"

\* Until the session ends, the run is cancelled, a poll fails or it was the
\* last one.
Poll ==
    /\ job.pc = "poll"
    /\ \E ok \in IF job.cancelled THEN {TRUE} ELSE Calls :
        LET stop == job.cancelled \/ ~ok
        IN  /\ job' = [job EXCEPT !.pc = IF \/ stop \/ Session \in {"completed", "failed"}
                                            \/ sound.polls + 1 >= Polls
                                         THEN "status" ELSE "poll"]
            /\ sound' = IF stop THEN sound ELSE [sound EXCEPT !.session = Session, !.polls = @ + 1]
            /\ faults' = Failed(ok)
    /\ UNCHANGED <<rows, cluster, listed, setup, deployed, results, truth, past, moves>>

\* Of several rows of an item the last one says whether it has a showroom.
HasShowroom(item) == rows[Max({i \in DOMAIN rows : rows[i].item = item})].showroom

\* What the answer says of the workshops of an item.
Said(item, heard) == {truth[w] : w \in IdsOf(item) \cap heard}

\* Without an answer about its workshops, an item shows the session's status.
OfSession(item) ==
    CASE sound.session = "completed" -> "healthy"
      [] sound.session = "failed" -> "unhealthy"
      [] sound.session = "running" -> "pending"
      [] sound.session = "other" -> "other"
      [] OTHER -> IF HasShowroom(item) THEN "pending" ELSE "none"

\* Variant: the best status counts.
ShownBest(item, heard, reached) ==
    LET said == Said(item, heard)
    IN  CASE IdsOf(item) = {} -> "none"
          [] IdsOf(item) # {} /\ ~reached -> "unreachable"
          [] IdsOf(item) # {} /\ reached /\ said = {} -> OfSession(item)
          [] OTHER -> IF "completed" \in said THEN "healthy"
                      ELSE IF "running" \in said THEN "pending"
                      ELSE IF "failed" \in said THEN "unhealthy" ELSE "other"

\* What an item's rows show: the worst that is said of its workshops, where
\* those that nothing is said of, not asked about or without an entry, do not
\* count, and a status without a rank only if there is no other.  An
\* unreachable service is shown as such.
Shown(item, heard, reached) ==
    LET said == Said(item, heard)
    IN  CASE IdsOf(item) = {} -> "none"
          [] IdsOf(item) # {} /\ ~reached -> "unreachable"
          [] IdsOf(item) # {} /\ reached /\ said = {} -> OfSession(item)
          [] OTHER -> IF "failed" \in said THEN "unhealthy"
                      ELSE IF "running" \in said THEN "pending"
                      ELSE IF "completed" \in said THEN "healthy" ELSE "other"

\* check-status, and the rows' showroom status.  The answer has entries of some
\* of the workshops that have a status.  A service that did not answer before
\* may go on so: that is one fault.
CheckStatus ==
    /\ job.pc = "status"
    /\ \E ok \in IF sound.reached THEN Calls ELSE BOOLEAN :
       \E heard \in SUBSET {w \in Asked : truth[w] # "none"} :
        /\ ok \/ heard = {}
        /\ deployed' = [i \in DOMAIN deployed |->
                          [deployed[i] EXCEPT !.showroom =
                              Shown(rows[deployed[i].row].item, heard, ok \/ sound.kicked)]]
        /\ sound' = [sound EXCEPT !.heard = heard, !.reached = @ \/ ok]
        /\ faults' = IF sound.reached THEN Failed(ok) ELSE faults
    /\ job' = [job EXCEPT !.pc = "merging"]
    /\ UNCHANGED <<rows, cluster, listed, setup, results, truth, past, moves>>

-----------------------------------------------------------------------------
(* What is returned.                                                       *)

Own(rs, i) == {j \in DOMAIN rs : rs[j].row = i}

\* Variant: the first result of a row is kept, and nothing of the others.
DedupFirst(rs, i) == rs[Min(Own(rs, i))]

\* _dedup_qa_results: the first, which does not match if any does not.
Dedup(rs, i) ==
    [rs[Min(Own(rs, i))] EXCEPT !.match = IF \E j \in Own(rs, i) : rs[j].match = "No" THEN "No" ELSE @]

\* _merge_qa1_qa2: the last result of the deployment check, and a mismatch of
\* the setup check; a match is not carried over.
Merged(i) ==
    [deployed[Max(Own(deployed, i))] EXCEPT
        !.match = IF \E j \in Own(setup, i) : setup[j].match = "No" THEN "No" ELSE @]

\* Variant: the setup results as they are.
MergeAll ==
    /\ job.pc = "merging"
    /\ results' = IF job.kind = "2" THEN setup ELSE IF job.kind = "3" THEN deployed
                  ELSE [i \in DOMAIN rows |-> Merged(i)]
    /\ job' = [job EXCEPT !.pc = "done"]
    /\ UNCHANGED <<rows, cluster, listed, setup, deployed, sound, truth, past, moves, faults>>

Merge ==
    /\ job.pc = "merging"
    /\ results' = IF job.kind = "2" THEN [i \in DOMAIN rows |-> Dedup(setup, i)]
                  ELSE IF job.kind = "3" THEN deployed
                  ELSE [i \in DOMAIN rows |-> Merged(i)]
    /\ job' = [job EXCEPT !.pc = "done"]
    /\ UNCHANGED <<rows, cluster, listed, setup, deployed, sound, truth, past, moves, faults>>

-----------------------------------------------------------------------------
(* qa_destroy_check: three calls for each row; multi-workshops are not     *)
(* looked for.                                                             *)

Asks == <<"workshop", "provision", "claim">>

LookFor(n) ==
    /\ job.pc = "looking" /\ job.phase = "destroy" /\ MoreRows
    /\ job.asked = n - 1
    /\ \E ok \in Calls :
        /\ job' = [job EXCEPT !.asked = n,
                              !.missing = IF ok /\ Of(Asks[n], Row.item) # {} THEN @ ELSE @ \cup {Asks[n]}]
        /\ faults' = Failed(ok)
    /\ UNCHANGED <<rows, cluster, listed, setup, deployed, results, sound, truth, past, moves>>

\* Variant: without a workshop there is nothing.
OverallWorkshop(missing, ended) ==
    IF "workshop" \in missing THEN IF ended THEN "destroyed" ELSE "not_deployed"
    ELSE IF ended THEN "overdue" ELSE "active"

Overall(missing, ended) ==
    IF missing = Range(Asks) THEN IF ended THEN "destroyed" ELSE "not_deployed"
    ELSE IF ended THEN "overdue" ELSE "active"

JudgeRow ==
    /\ job.pc = "looking" /\ job.phase = "destroy" /\ MoreRows /\ job.asked = 3
    /\ results' = Append(results, [row |-> job.row, overall |-> Overall(job.missing, Row.ended)])
    /\ job' = [NextRow EXCEPT !.asked = 0, !.missing = {}]
    /\ UNCHANGED <<rows, cluster, listed, setup, deployed, sound, truth, past, moves, faults>>

EndDestroy ==
    /\ job.pc = "looking" /\ job.phase = "destroy" /\ ~MoreRows
    /\ job' = [job EXCEPT !.pc = "done"]
    /\ UNCHANGED <<rows, cluster, listed, setup, deployed, results, sound, truth, past, moves, faults>>

-----------------------------------------------------------------------------
(* The surroundings.                                                       *)

\* An object comes, goes, gets ready, fails or is edited.
Successors(o) ==
    IF ~There(o) THEN {[health |-> "coming", differs |-> "nothing"]}
    ELSE {None} \cup {[cluster[o] EXCEPT !.differs = d] : d \in {"seats", "times"}}
           \cup {[cluster[o] EXCEPT !.health = h] :
                    h \in IF cluster[o].health = "coming" THEN {"up", "down"} ELSE {"down"}}

Move ==
    \E o \in Objects : \E s \in Successors(o) :
        /\ job.pc # "done"
        /\ moves < MaxMoves
        /\ cluster' = [cluster EXCEPT ![o] = s]
        /\ past' = [been |-> past.been \cup {x \in {o} : s # None},
                    gone |-> past.gone \cup {x \in {o} : s = None},
                    up |-> past.up \cup {x \in {o} : s # None /\ s.health = "up"}]
        /\ moves' = moves + 1
        /\ UNCHANGED <<rows, job, listed, setup, deployed, results, sound, truth, faults>>

\* Soundcheck gets on with its work.
Probe ==
    \E w \in Asked, s \in {"completed", "failed", "other"} :
        /\ job.pc \in {"poll", "status"}
        /\ truth[w] = "running"
        /\ truth' = [truth EXCEPT ![w] = s]
        /\ UNCHANGED <<rows, cluster, job, listed, setup, deployed, results, sound, past, moves, faults>>

Cancel ==
    /\ job.pc # "done" /\ job.kind # "destroy" /\ ~job.cancelled
    /\ job' = [job EXCEPT !.cancelled = TRUE]
    /\ UNCHANGED <<rows, cluster, listed, setup, deployed, results, sound, truth, past, moves, faults>>

Check ==
    \/ List \/ Listed \/ LookMulti \/ LookWorkshop \/ Ready \/ LookClaims \/ LookNothing \/ EndPhase
    \/ CollectWorkshops \/ CreateGroup \/ RunGroup \/ Poll \/ CheckStatus \/ Merge
    \/ (\E n \in 1..3 : LookFor(n)) \/ JudgeRow \/ EndDestroy

Next == Check \/ Move \/ Probe \/ Cancel

Spec == Init /\ [][Next]_vars

-----------------------------------------------------------------------------
(* Properties.                                                             *)

Done == job.pc = "done"
QA == Done /\ job.kind # "destroy"
Final == IF QA THEN {results[i] : i \in DOMAIN results} ELSE {}
ItemOf(r) == rows[r.row].item

\* Every row has a result, and only one if setup checks are asked for,
\* whatever fails and however many claims a row has.
EveryRowAnswered ==
    Done => \A i \in DOMAIN rows :
        LET own == {j \in DOMAIN results : results[j].row = i}
        IN  own # {} /\ (job.kind # "3" => Cardinality(own) = 1)

\* A row that is said to be deleted or not yet deployed had, as far as calls
\* were answered, none of its claims and workshops all the time.
AbsentWasGone ==
    faults = 0 => \A r \in Final : r.there # "Yes" =>
        \A o \in Objects :
            (Item[o] = ItemOf(r) /\ (Kind[o] = "claim" \/ (Kind[o] = "workshop" /\ rows[r.row].ui)))
                => o \in past.gone

\* What a row is said to be deployed for was in the cluster, and is its own, as
\* long as the multi-workshops of the rows' items are those of the row.
DeployedWasThereAlone ==
    (\A i \in DOMAIN rows, o \in past.been : (rows[i].multi /\ Kind[o] = "multi") => Owner[o] = i)
        => \A r \in Final : r.there = "Yes" =>
               /\ r.about \in past.been
               /\ IF Kind[r.about] = "multi" THEN rows[r.row].multi /\ Owner[r.about] = r.row
                  ELSE Kind[r.about] \in {"claim", "workshop"} /\ Item[r.about] = ItemOf(r)

\* The multi-workshop that a row is said to be deployed as is the row's.  (It
\* need not be: README, section 5.)
MultiIsTheRows ==
    \A r \in Final : (r.there = "Yes" /\ Kind[r.about] = "multi") => Owner[r.about] = r.row

\* What is said to be ready was: the claim that the result is about, or the
\* provision of its workshop, if no other has a provision of the item.
ReadyWasUp ==
    \A r \in Final : r.health = "up" =>
        IF Kind[r.about] = "claim" THEN r.about \in past.up
        ELSE (\A p \in Objects : (Kind[p] = "provision" /\ Item[p] = ItemOf(r)) => Owner[p] = r.about)
                => \E p \in past.up : Kind[p] = "provision" /\ Owner[p] = r.about

\* Nothing that the setup check finds different is lost when results are
\* merged, however many claims a row has.
MismatchSurvives ==
    (QA /\ job.kind # "3") =>
        \A i \in DOMAIN rows :
            (\E j \in DOMAIN setup : setup[j].row = i /\ setup[j].match = "No")
                <=> (\E r \in Final : r.row = i /\ r.match = "No")

\* A healthy showroom: of no workshop of the row does the answer say that it is
\* running or has failed.  Of one it says that it is in order; or it says nothing
\* of the row's, and all workshops that Soundcheck took into its run were in order.
HealthyIsTrue ==
    \A r \in Final : r.showroom = "healthy" =>
        LET own == IdsOf(ItemOf(r)) \cap sound.heard
        IN  /\ \A w \in own : truth[w] \in {"completed", "other"}
            /\ (\A w \in own : truth[w] = "other")
                  => own = {} /\ sound.kicked /\ \A w \in sound.taken : truth[w] = "completed"

\* A workshop that the answer says has failed is shown in each of its rows.
FailureShown ==
    \A r \in Final : (\E w \in IdsOf(ItemOf(r)) \cap sound.heard : truth[w] = "failed")
        => r.showroom = "unhealthy"

\* If Soundcheck answers nothing, no row with workshops looks fine.
OutageShown ==
    \A r \in Final : (~sound.reached /\ IdsOf(ItemOf(r)) # {}) => r.showroom = "unreachable"

\* If Soundcheck ran all that it was asked to, a row with a healthy showroom has
\* only workshops that it was asked about and found in order: no pass is silent.
\* (It does not hold: README, section 5.)
NoSilentPass ==
    (sound.kicked /\ sound.taken = Asked) => \A r \in Final : r.showroom = "healthy" =>
        \A w \in IdsOf(ItemOf(r)) : w \in Asked /\ truth[w] = "completed"

\* What is said to be destroyed was seen to be gone, if calls were answered,
\* and what is said to be overdue was there.
DestroyedWasGone ==
    (Done /\ job.kind = "destroy") =>
        \A i \in DOMAIN results :
            LET own == {o \in Objects : Kind[o] # "multi" /\ Item[o] = ItemOf(results[i])}
            IN  /\ (faults = 0 /\ results[i].overall = "destroyed") => own \subseteq past.gone
                /\ results[i].overall = "overdue" => own \cap past.been # {}

\* Variables have their types, and the results are complete.
WellFormed == TypeOK /\ EveryRowAnswered

\* Whatever a result says of its row, absent, deployed or ready, was true at some
\* moment of the check.
StatusTrue == AbsentWasGone /\ DeployedWasThereAlone /\ ReadyWasUp

\* What the showroom column says of the workshops that Soundcheck has answered
\* about is true, for any number of workshops, and an outage is not hidden.
ShowroomTrue == HealthyIsTrue /\ FailureShown /\ OutageShown
=============================================================================
