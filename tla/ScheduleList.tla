---------------------------- MODULE ScheduleList ----------------------------
(***************************************************************************)
(* The schedules on the dashboard (_schedules of api/routes.py) under the  *)
(* requests that change them, their two files on disk, the archive of      *)
(* cleared sessions, and a deployment of an uploaded CSV (deploy_session). *)
(*                                                                         *)
(* _schedules refers to a list object, and that to row objects.  Requests  *)
(* that replace the list make a new one with rows of its own; others take  *)
(* rows out of it or change them where they are, and with them what every  *)
(* other request has that refers to the list or to its rows.               *)
(*                                                                         *)
(* Requests run in threads and change the schedules under _state_lock: one *)
(* step each.  Three go on without it: deploy_session, whose rows are for  *)
(* a while those of the dashboard, auto_fix_cluster_tenant_timing, and the *)
(* check before a deployment, which corrects the rows it will deploy.      *)
(***************************************************************************)
EXTENDS Naturals, Sequences, SequencesExt

CONSTANTS
    Names, Spaces,  \* the CI names and the namespaces of rows
    Items,          \* the catalog items
    Days,           \* the floor days
    Files,          \* the uploaded files: [file names -> sequences of rows]
    Edits,          \* the sequences of rows that clients put in their place
    Corrected,      \* the items that the check may correct, and to which ones
    Lists,          \* Python's list objects
    MaxSessions,    \* MAX_SESSIONS
    MaxClears,      \* bound: how many sessions are archived
    ClientSets,     \* the cases considered: which requests come
    None

\* A row without a date has no floor day.  A row has assets if it is multi-asset.
NoDay == 0
Row == [name : Names, ci : Items, assets : SUBSET Items, ns : Spaces, day : Days \cup {NoDay}]

ASSUME FilesAssumption == \A f \in DOMAIN Files : Files[f] \in Seq(Row) \ {<<>>}
ASSUME EditsAssumption == Edits \subseteq Seq(Row)
ASSUME CorrectedAssumption == \A i \in DOMAIN Corrected : Corrected[i] \in Items
ASSUME SessionsAssumption == MaxSessions \in Nat \ {0} /\ MaxClears \in Nat
ASSUME ListsAssumption == Lists = 1..5 /\ None \notin Lists /\ None \notin DOMAIN Files

\* Definitions introduced by "Variant" are not part of the model: each has a
\* plausible mistake in it, which the properties of this module must notice.

VARIABLES
    lists,     \* the list objects: the rows they were made with, as they are
               \* now, and which of these they still have
    current,   \* the list that _schedules refers to
    filename,  \* _current_filename
    disk,      \* the files of save_schedules: the rows and their file's name
    results,   \* are there deployment results?
    sessions,  \* _sessions
    counter,   \* _session_counter
    deploy,    \* the request of deploy_session: its file, its list, the rows
               \* still to be deployed, and those that were, as they were then
    fix,       \* the request of auto_fix_cluster_tenant_timing
    check,     \* a deployment's check: its list, and the rows to look at
    clients    \* which requests come in this behaviour

scheduleVars == <<lists, current, filename, disk, results, sessions, counter, deploy, fix, check,
                  clients>>
archive == <<results, sessions, counter>>
requests == <<deploy, fix, check, clients>>

\* The rows of a list, and of the one on the dashboard.
Shown(l) == [i \in DOMAIN lists[l].has |-> lists[l].objects[lists[l].has[i]]]
Schedules == Shown(current)

\* A list as it is made.
ListOf(rows) == [objects |-> rows, has |-> [i \in DOMAIN rows |-> i]]

NoDeploy == [pc |-> "none", file |-> None, list |-> None, todo |-> {}, done |-> {}]
NoFix == [pc |-> "none", list |-> None, rows |-> <<>>]
NoCheck == [list |-> None, todo |-> <<>>]
Blank == [rows |-> <<>>, filename |-> None]

ScheduleTypeOK ==
    /\ lists \in [Lists -> [objects : Seq(Row), has : Seq(Nat)]]
    /\ \A l \in Lists : \A i \in DOMAIN lists[l].has : lists[l].has[i] \in DOMAIN lists[l].objects
    /\ current \in Lists
    /\ filename \in DOMAIN Files \cup {None}
    /\ disk \in [rows : Seq(Row), filename : DOMAIN Files \cup {None}]
    /\ results \in BOOLEAN
    /\ sessions \in Seq([id : Nat, checked : BOOLEAN])
    /\ counter \in 0..MaxClears
    /\ deploy \in [pc : {"none", "mirrored", "grouped"}, file : DOMAIN Files \cup {None},
                   list : Lists \cup {None}, todo : SUBSET Nat, done : SUBSET [at : Nat, row : Row]]
    /\ fix \in [pc : {"none", "fixing", "saving", "writing"}, list : Lists \cup {None},
                rows : Seq(Row)]
    /\ check \in [list : Lists \cup {None}, todo : Seq(Nat)]
    /\ clients \in ClientSets

ScheduleInit ==
    /\ lists = [l \in Lists |-> ListOf(<<>>)]
    /\ current = 1
    /\ filename = None
    /\ disk = Blank
    /\ results = FALSE
    /\ sessions = <<>>
    /\ counter = 0
    /\ deploy = NoDeploy
    /\ fix = NoFix
    /\ check = NoCheck
    /\ clients \in ClientSets

-----------------------------------------------------------------------------
(* Requests that take the lock.                                            *)

\* The lists that requests refer to.
Held == {deploy.list, fix.list, check.list}

\* A new list object, and the objects once it is the one on the dashboard: the
\* one that was is free unless a request still refers to it.
Fresh == CHOOSE l \in Lists : l \notin Held /\ (current \in Held \/ l = current)
WithNew(rows) ==
    [l \in Lists |-> IF l = Fresh THEN ListOf(rows)
                     ELSE IF l \in Held THEN lists[l] ELSE ListOf(<<>>)]

\* What a save writes for these rows.
Saved(rows) == [rows |-> rows, filename |-> filename]

\* _ingest_schedule_csv_text: an upload, an import or an example.
Upload ==
    \E f \in DOMAIN Files :
        /\ "upload" \in clients \/ filename \in {None, f}
        /\ lists' = WithNew(Files[f])
        /\ current' = Fresh
        /\ filename' = f
        /\ disk' = [rows |-> Files[f], filename |-> f]
        /\ UNCHANGED <<archive, requests>>

\* update_schedules takes whatever rows the client sends.
Update ==
    \E rows \in Edits :
        /\ "put" \in clients
        /\ rows # <<>> \/ "empty" \in clients
        /\ lists' = WithNew(rows)
        /\ current' = Fresh
        /\ disk' = Saved(rows)
        /\ UNCHANGED <<filename, archive, requests>>

\* Variant: the row stays on disk.
DeleteFromMemory ==
    \E i \in DOMAIN Schedules :
        /\ "delete" \in clients
        /\ lists' = [lists EXCEPT ![current].has = RemoveAt(@, i)]
        /\ UNCHANGED <<current, filename, disk, archive, requests>>

\* delete_schedule takes the row out of the list object.
Delete ==
    \E i \in DOMAIN Schedules :
        /\ "delete" \in clients
        /\ lists' = [lists EXCEPT ![current].has = RemoveAt(@, i)]
        /\ disk' = Saved(RemoveAt(Schedules, i))
        /\ UNCHANGED <<current, filename, archive, requests>>

\* fill_missing_dates changes the rows where they are.
FillDates ==
    \E d \in Days :
        LET filled(row) == [row EXCEPT !.day = IF @ = NoDay THEN d ELSE @]
            shown == Range(lists[current].has)
        IN  /\ "fill" \in clients
            /\ \E i \in DOMAIN Schedules : Schedules[i].day = NoDay
            /\ lists' = [lists EXCEPT ![current].objects =
                            [i \in DOMAIN @ |-> IF i \in shown THEN filled(@[i]) ELSE @[i]]]
            /\ disk' = Saved([i \in DOMAIN Schedules |-> filled(Schedules[i])])
            /\ UNCHANGED <<current, filename, archive, requests>>

-----------------------------------------------------------------------------
(* deploy_session.                                                         *)

\* The parsed list becomes the one on the dashboard, under the name of the
\* file that was there before.
Mirror ==
    \E f \in DOMAIN Files :
        /\ "session" \in clients
        /\ deploy.pc = "none"
        /\ lists' = WithNew(Files[f])
        /\ current' = Fresh
        /\ disk' = Saved(Files[f])
        /\ deploy' = [NoDeploy EXCEPT !.pc = "mirrored", !.file = f, !.list = Fresh]
        /\ UNCHANGED <<filename, archive, fix, check, clients>>

\* Variant: the run works from the dashboard.
GroupCurrent ==
    /\ deploy.pc = "mirrored"
    /\ deploy' = [deploy EXCEPT !.pc = "grouped", !.list = current, !.todo = Range(lists[current].has)]
    /\ UNCHANGED <<lists, current, filename, disk, archive, fix, check, clients>>

\* _run_deploy_over puts the rows that the list has by now into lists of its own.
Group ==
    /\ deploy.pc = "mirrored"
    /\ deploy' = [deploy EXCEPT !.pc = "grouped", !.todo = Range(lists[deploy.list].has)]
    /\ UNCHANGED <<lists, current, filename, disk, archive, fix, check, clients>>

\* A row is deployed as it is when its turn comes; groups have theirs first.
DeployRow ==
    \E i \in deploy.todo :
        /\ deploy' = [deploy EXCEPT !.todo = @ \ {i},
                                    !.done = @ \cup {[at |-> i, row |-> lists[deploy.list].objects[i]]}]
        /\ UNCHANGED <<lists, current, filename, disk, archive, fix, check, clients>>

\* The last row has been deployed, the job is cancelled, or there is no job
\* because the request was refused after all.
DeployEnd ==
    /\ deploy.pc # "none"
    /\ deploy' = NoDeploy
    /\ results' = (results \/ deploy.done # {})
    /\ UNCHANGED <<lists, current, filename, disk, sessions, counter, fix, check, clients>>

-----------------------------------------------------------------------------
(* auto_fix_cluster_tenant_timing: it changes dates in place (which of     *)
(* them, ClusterTenant models), makes its list the current one again and   *)
(* saves.                                                                  *)

FixBegin ==
    /\ "fix" \in clients
    /\ fix.pc = "none"
    /\ Schedules # <<>>
    /\ fix' = [NoFix EXCEPT !.pc = "fixing", !.list = current]
    /\ UNCHANGED <<lists, current, filename, disk, archive, deploy, check, clients>>

FixRow ==
    \E i \in DOMAIN lists[fix.list].has, d \in Days :
        LET at == lists[fix.list].has[i]
        IN  /\ fix.pc = "fixing"
            /\ lists[fix.list].objects[at].day # NoDay
            /\ lists' = [lists EXCEPT ![fix.list].objects[at].day = d]
            /\ UNCHANGED <<current, filename, disk, archive, requests>>

FixStore ==
    /\ fix.pc = "fixing"
    /\ current' = fix.list
    /\ fix' = [fix EXCEPT !.pc = "saving", !.list = None]
    /\ UNCHANGED <<lists, filename, disk, archive, deploy, check, clients>>

FixRead ==
    /\ fix.pc = "saving"
    /\ fix' = [fix EXCEPT !.pc = "writing", !.rows = Schedules]
    /\ UNCHANGED <<lists, current, filename, disk, archive, deploy, check, clients>>

FixWrite ==
    /\ fix.pc = "writing"
    /\ disk' = Saved(fix.rows)
    /\ fix' = NoFix
    /\ UNCHANGED <<lists, current, filename, archive, deploy, check, clients>>

Fix == FixBegin \/ (fix.list # None /\ FixRow) \/ FixStore \/ FixRead \/ FixWrite

-----------------------------------------------------------------------------
(* The check before a deployment (deploy's preflight) corrects the items   *)
(* of the rows that were on the dashboard when it was asked for, where     *)
(* they are, and does not save them.  What it refuses, Catalog models.     *)

CheckBegin ==
    /\ "check" \in clients
    /\ check.list = None
    /\ Schedules # <<>>
    /\ check' = [list |-> current, todo |-> lists[current].has]
    /\ UNCHANGED <<lists, current, filename, disk, archive, deploy, fix, clients>>

\* The item of a row and, in its assets, the same item.
Correct(row) ==
    [row EXCEPT !.ci = Corrected[@],
                !.assets = {IF a = row.ci THEN Corrected[a] ELSE a : a \in @}]

CheckRow ==
    /\ check.todo # <<>>
    /\ LET i == Head(check.todo)
           row == lists[check.list].objects[i]
       IN  \/ UNCHANGED lists
           \/ /\ row.ci \in DOMAIN Corrected
              /\ lists' = [lists EXCEPT ![check.list].objects[i] = Correct(row)]
    /\ check' = IF Len(check.todo) = 1 THEN NoCheck ELSE [check EXCEPT !.todo = Tail(@)]
    /\ UNCHANGED <<current, filename, disk, archive, deploy, fix, clients>>

Check == CheckBegin \/ CheckRow

-----------------------------------------------------------------------------
(* clear_session and the restart of the pod.                               *)

Newest(s, n) == IF Len(s) > n THEN SubSeq(s, Len(s) - n + 1, Len(s)) ELSE s

\* Variant: what was never deployed is not archived.
NothingDeployed == ~results

\* There is nothing to archive.
NothingShown == Schedules = <<>> /\ ~results

\* _archive_current_session.  Of the copies that go into a session the model
\* keeps whether there are QA results among them.
Archived(checked) ==
    IF NothingShown THEN sessions
    ELSE Newest(Append(sessions, [id |-> counter + 1, checked |-> checked]),
              MaxSessions)

\* The dashboard is emptied.
Emptied ==
    /\ "clear" \in clients
    /\ counter < MaxClears
    /\ counter' = IF NothingShown THEN counter ELSE counter + 1
    /\ lists' = WithNew(<<>>)
    /\ current' = Fresh
    /\ filename' = None
    /\ disk' = Blank
    /\ results' = FALSE
    /\ UNCHANGED requests

Clear == Emptied /\ sessions' = Archived(FALSE)

\* The rows that are on disk when the pod stops: those saved last, or those of
\* an upload whose save got as far as the first of the two files.
Found == {disk.rows} \cup (IF "torn" \in clients THEN {Files[f] : f \in DOMAIN Files} ELSE {})

\* _restore_persisted_state.
Restart ==
    \E rows \in Found :
        /\ "restart" \in clients
        /\ lists' = [l \in Lists |-> IF l = 1 THEN ListOf(rows) ELSE ListOf(<<>>)]
        /\ current' = 1
        /\ filename' = IF rows = <<>> THEN None ELSE disk.filename
        /\ disk' = [disk EXCEPT !.rows = rows]
        /\ sessions' = <<>>
        /\ counter' = 0
        /\ deploy' = NoDeploy
        /\ fix' = NoFix
        /\ check' = NoCheck
        /\ UNCHANGED <<results, clients>>

\* The requests that concern nothing but the schedules.
Change == Upload \/ Update \/ Delete \/ FillDates \/ Mirror \/ Fix \/ Check

-----------------------------------------------------------------------------
(* Properties.                                                             *)

\* What a session has deployed are the rows of its CSV as they were uploaded.
OwnRows == \A u \in deploy.done : u.row = Files[deploy.file][u.at]

\* No row of the CSV is left out.
AllRows ==
    deploy.pc = "grouped" =>
        {u.at : u \in deploy.done} \cup deploy.todo = DOMAIN Files[deploy.file]

\* deploy_session deploys the rows of the CSV it was given, whatever other
\* requests come.  (It does not: they may delete and change its rows.)
DeploysItsOwn == OwnRows /\ AllRows

\* What holds of it: whatever becomes of the dashboard, a session deploys nobody
\* else's rows; all of its own if none is deleted before they are grouped; and as
\* they were uploaded if no request changes rows where they are.
DeploysItsOwnUndisturbed ==
    /\ \A u \in deploy.done :
          /\ u.at \in DOMAIN Files[deploy.file]
          /\ u.row.name = Files[deploy.file][u.at].name
          /\ u.row.ns = Files[deploy.file][u.at].ns
    /\ "delete" \notin clients => AllRows
    /\ {"fill", "fix", "check"} \cap clients = {} => OwnRows

\* An auto-fix does not bring back a list that an upload has replaced, as it would
\* not if it took the lock.  (It takes none.)
FixKeepsList ==
    [][fix.pc = "fixing" /\ fix'.pc = "saving" => current' = current]_scheduleVars

\* What of a row only a client changes, a fill or a fix; corrections leave it.
Bare(rows) ==
    [i \in DOMAIN rows |-> [name |-> rows[i].name, ns |-> rows[i].ns, day |-> rows[i].day]]

\* Requests that take the lock leave on disk what is on the dashboard; what a
\* check corrects stays off the disk until something else is saved.
DiskFollowsSchedules ==
    "fix" \notin clients =>
        /\ Bare(disk.rows) = Bare(Schedules)
        /\ "check" \notin clients => disk.rows = Schedules
        /\ Schedules # <<>> => disk.filename = filename

\* The archive holds the newest sessions, none missing and none twice.
ArchiveKeepsNewest ==
    /\ Len(sessions) <= MaxSessions
    /\ \A i \in DOMAIN sessions : sessions[i].id = counter - Len(sessions) + i
    /\ Len(sessions) < MaxSessions => Len(sessions) = counter

\* The dashboard as a register of sheets.  Rows that are not there have no name.
SheetOf(rows, name) == [rows |-> Bare(rows), filename |-> IF rows = <<>> THEN None ELSE name]

Register == INSTANCE SheetRegister WITH
    Sheets <- [rows : Seq([name : Names, ns : Spaces, day : Days \cup {NoDay}]),
               filename : DOMAIN Files \cup {None}],
    Given <- {SheetOf(rows, n) : rows \in (Edits \ {<<>>}) \cup {Files[f] : f \in DOMAIN Files},
                                 n \in DOMAIN Files \cup {None}},
    Empty <- Blank, Limit <- MaxSessions,
    sheet <- SheetOf(Schedules, filename),
    archive <- {sessions[i].id : i \in DOMAIN sessions}, count <- counter

\* Every step of every request, awaits and shared rows included, is one of the
\* register or nothing to it: only a whole sheet from a client replaces the sheet,
\* else at most one row goes at a time; what a client sees is what it gets after
\* a restart; and nothing is cleared that is not archived.  An auto-fix, which
\* takes no lock, a save that is cut off, and a client that puts an empty list in
\* place of the sheet break that.
KeepsRegister ==
    /\ Register!Init
    /\ [][{"fix", "torn", "empty"} \cap clients = {} => Register!Next]_(Register!vars)
=============================================================================
