# RHDP-Flow in TLA+

RHDP-Flow deploys workshops to a Babylon/OpenShift cluster from a schedule: a
CSV file in which a row names a catalog item, a namespace, dates, users. This
directory models the parts of it that keep state, run concurrently or decide
about a sheet of rows, checks them with TLC on small instances, and proves the
most important results with TLAPS for instances of any size. Paths below are
relative to the repository; `src/` in PROJECT.json stands for its root.

## 1. Inventory

| Part | Code | State it keeps | Operations |
|---|---|---|---|
| Job control | `api/jobs.py` 104-225, runs in `api/routes.py` 1776-2155, 2521-2646 | `Job.status`, `_cancel_requested`, `_pause_event` | create, pause, resume, cancel, `wait_if_paused`, `update_job` |
| Job store | `api/jobs.py` 53-101, 228-259 | `_jobs`, `_jobs_truncated` | `create_job`, `_cleanup_old_jobs`, `update_job`, `get_job` |
| Job events | `api/jobs.py` 96-160, 262-285, `api/routes.py` 2348-2428 | the job's `_events` queue, the shutdown event | `_emit_event`, SSE stream, websocket |
| Persistence | `lib/flow_state.py` | JSON files on a volume | `save_*`, `load_*`, `clear_persisted_state` |
| Deployment results | `api/routes.py` 153-208, 1993-2019, 2119-2130, 2230-2235, 2460-2475, 2609-2617 | `_deployment_results` and its snapshot | publish (deploy, session, retry, dry-run), delete, clear, restart |
| Workshop deployment | `rhdp_flow.py` 1867-2374, 3941-3987, 4096-4330, 6291-6545, `lib/oc_retry.py` | Workshops, ResourceClaims and WorkshopProvisions in the cluster | `process_schedule` and what it calls |
| Multi-asset deployment | `rhdp_flow.py` 3420-3938 | Workshops and MultiWorkshops in the cluster | `create_multi_workshop` and its cleanup |
| Schedule list, sessions | `api/routes.py` 633-896, 1657-1684, 2062-2104 | `_schedules`, `_current_filename`, `_sessions` | upload, edit, delete, fill dates, deploy session, auto-fix, clear, restart |
| QA runs | `api/routes.py` 2878-3290, `api/services/qa_scope.py` | `_qa_results`, `_qa_last_scope` and the saved results | run over a scope, cancel, merge, clear |
| QA checks | `rhdp_flow.py` 4453-6141 | none of their own; they read a cluster that changes | setup, deployment, Soundcheck and destroy checks |
| Cluster/tenant timing | `rhdp_flow.py` 253-850, `lib/cluster_tenant_validation.py` | the dates and bindings of the rows | detect, validate, auto-fix, auto-provision, remove |
| Catalog | `rhdp_flow.py` 2525-3332, preflights in `api/routes.py` 1374-1633, 1875-1947, 2523-2577 | the index of names and the cache of answers | resolve, report, correct, refuse |
| Operations | `rhdp_flow.py` 6551-7545, `api/routes.py` 2649-2830, 3600-3711 | none; patches of objects in the cluster | lock, extend, disable autostop, scale, passwords, pools |
| Pool capacity | `lib/tenant_cluster_*.py`, `api/pool_utils.py` | none (functions of the schedule and the pools) | count, refer |
| CSV, manifests | `rhdp_flow.py` 1005-1866, 2376-2560 | none | read, build |
| API shell | `api/server.py`, `auth.py`, `identity.py`, `cluster_targets.py`, `limiter.py`, `audit.py`, `log_capture.py` | temporary kubeconfigs, log handlers | |
| Showroom | `rhdp_flow.py` | none | Helm and `oc` calls for one namespace |
| Labagator import | `api/services/labagator_*.py` | none | HTTP client, conversion to rows |
| Command line | `rhdp_flow.py`, `scripts/rhdp_flow_wizard.py` | none | the same operations, one after another |
| Web interface | `frontend/src` | React state | client of the API |

How they interact. FastAPI runs `async def` endpoints on one event loop and `def`
endpoints in a pool of threads. A deployment endpoint creates a job and an asyncio
task for its run; the run goes from row to row on the loop and hands each row's
work to a worker thread (`asyncio.to_thread`), which calls `oc`. Pause, resume and
cancel come from the pool (HTTP) or from the loop (websocket) and change the job
under `_jobs_lock`; whatever touches an asyncio object from a thread goes through
`call_soon_threadsafe`. Progress goes through `update_job` into the job's queue
and from there to the streams. When the run is over it publishes its results in a
module global under `_state_lock` and saves them to a file, some of them outside
the lock; the file is read back when the pod restarts. A QA run has the same shape
over the schedule list; its checks, the preflights and the operations are loops of
`oc` calls over rows, in threads, without a lock.

What is hard about it: requests from threads against callbacks and coroutines on
the loop; a status and an asyncio event that are two pieces of one state; a
queue with several readers; a list object that a request and the dashboard
share; saves inside and outside the lock; a crash between two steps; `oc` calls
whose answers are lost; a controller that rewrites the same objects at its own
pace; loops that go by a list, a time or a cached answer read earlier; results
of a part merged into results of the whole. PROJECT.json lists each hazard at
its line.

What makes each part correct, and how far the code has it; section 5 lists what
it does not keep, and section 3 the condition of each property that has one:

- job control: the status shown is the state of the run; a cancelled deployment
  starts at most the workshop it had been let through for; a finished job is
  final; a job that nobody leaves paused ends;
- job store: no live job is forgotten; eviction goes by age and takes no more
  than it must;
- job events: every client that stays learns of the end, and never sees a
  finished job reopen;
- persistence: a restart finds the last snapshot that was put in place, whole.
  The code has this for saves that have the `.tmp` to themselves, so always for
  the file of the QA results; saves of the other files can overlap, and then the
  file may not even parse;
- results: what one run deployed replaces what it ought to and nothing else;
  memory and disk agree, unless a thread comes between the lock and the write of
  the last run to save, when what was deleted can come back;
- workshop deployment: what is reported as deployed is the deployment's own and
  has a provision; what is reported as failed has left nothing, if answers arrive
  and Showroom does not raise;
- multi-asset deployment: a live MultiWorkshop that can be read, and is not taken
  for refused, is never broken; a run takes back the shells it knows of;
- schedule list: a session deploys nobody else's rows, and its own as they were
  uploaded unless a request changes rows where they are; disk, dashboard and
  archive agree, but for auto-fixes and for corrections before a deployment;
- QA runs: each row that the coverage lists has a result which looked at it,
  unless a run was cancelled, met changes or dropped results it did not cover;
- QA checks: what is said of a row was true of it at some moment of the check;
- cluster and tenant timing: what validates is served, repairs repair, and they
  touch no row they are not about;
- catalog: the items of the rows that a deployment admits can be ordered,
  reports foretell what it decides, and no answer is believed for ever;
- operations: alone, one is as good as atomic, or does a part of each object's
  rows if calls fail; together, they lose at worst one another's extension, never
  the time that was there.

## 2. Modules

| Module | Models | Kind |
|---|---|---|
| `JobControl` | one job, its run and its control requests | detailed |
| `JobLifecycle` | what a job promises: its statuses, the count of units, the meaning of the outcome | abstract, implemented by `JobControl` |
| `JobStatus` | the statuses of a job, and which of them are final | operators |
| `JobStore` | `_jobs` with `create_job` in its two critical sections | detailed |
| `JobEvents` | one job's queue, SSE streams and websockets | detailed |
| `FlowState` | one file of `lib/flow_state.py`, down to inodes | detailed |
| `Snapshot` | a file whose saves are done or not done | abstract, implemented by `FlowState` where saves cannot overlap |
| `ResultsStore` | `_deployment_results`, its snapshot, runs and requests | detailed; takes a file write as one step, which `FlowState` justifies for saves that do not overlap |
| `WorkshopDeploy` | `process_schedule`, several deployments of any rows, against a cluster | detailed |
| `MultiWorkshop` | `create_multi_workshop` against the Babylon controller | detailed |
| `ClusterTenant` | detection, validation and repair of cluster and tenant rows | operators over sheets of rows, and the requests that apply them |
| `ScheduleList` | `_schedules`, its files, the archive, `deploy_session`, auto-fix | component |
| `SheetRegister` | what the dashboard promises of the schedules: one sheet that is put whole, edited, cleared into an archive and kept over a restart | abstract, implemented by `ScheduleList` |
| `QARun` | QA runs | composes with `ScheduleList` (EXTENDS it, and adds its variables to every step) |
| `Catalog` | resolution of names, caches, reports and preflights | detailed |
| `QAChecks` | the checks of one namespace, call by call | detailed |
| `Operations` | bulk operations, call by call | detailed |
| `MC*` | instances of the modules they are named after | constants for TLC |
| `WorkshopDeployProofs`, `OperationsProofs`, `CatalogProofs`, `QAChecksProofs` | theorems about the module they are named after | proofs |
| `PlacementProofs` | theorems about `ClusterTenant` and `MultiWorkshop` | proofs |
| `JobProofs` | theorems about `JobStore`, `JobControl` and `JobEvents` | proofs |
| `PersistenceProofs` | theorems about `FlowState` and `ResultsStore` | proofs |
| `QARunProofs` | theorems about `QARun`, and so about `ScheduleList` with it | proofs |

In a module, a definition introduced by "Variant" is not part of the model. It
is one of its actions or operators with a plausible mistake; PROJECT.json pairs
it with the property that must notice the mistake.

### JobControl

`status`, `cancel` and `event` are the fields of `Job`; `ready` is the part of
the event loop's queue that concerns the job's pause event; `pc` is the place of
the run's coroutine. The places are the points where other code can run: at an
`await`, and for requests from threads also where the run looks at the cancel
flag without the lock and acts on it later. There are two of these: between the
look at the gate ("admitted") and the start of the worker, and between the last
look ("finishing") and the final `update_job` ("closing"). `LoopFree` says that
in these places nothing else runs on the loop. `late` counts the workshops that
were started after a cancel was accepted. `ApplyOp` is asyncio's rule that
`Event.set` wakes a waiting coroutine for good: a `clear` before it gets its turn
does not put it back.

A unit is a row or a group of rows. `groups` says how many of the units a deploy
takes in its first loop; a cancel leaves that loop for the gate of the second
(`left`). A retry has one loop without gate. What happens within a unit is one
step here and the subject of `WorkshopDeploy` and `MultiWorkshop`.

`channels` is chosen at the start: do control requests come from the pool, from
the loop, or from both? Requests of a kind are taken in the order in which they
get `_jobs_lock`; a callback may be late by any number of steps of the run, which
covers every schedule of the loop and some that it does not have.

### JobStore

`create_job` cleans up under the lock, leaves it, and inserts under the lock
again: `Cleanup` and `Insert` are two actions. Endpoints call it on the event
loop without awaiting, so one creation is under way at a time; what comes between
its two halves are changes of other jobs' statuses (`SetStatus`), by requests from
the pool and by runs. Age is the order of insertion. `EvictionRight` is three
statements about each cleanup: by age, enough, not too much.

### JobEvents

An event is the status it carries. `handed` are events on their way through
`call_soon_threadsafe`. A stream is at the head of its loop ("check"), waits for
an event, or sends one; `Timeout` is the 30-second limit of `wait_for`, which
here needs an empty queue. A client may leave in every state and come back.

### FlowState and Snapshot

`Begin` opens the `.tmp` and thereby truncates it, `Write` fills the inode that
was opened, `Rename` puts the `.tmp`'s name onto the file. A thread writes to the
inode it opened, wherever its name has gone. `WriteFails` is a write that raises,
`Unlink` is `clear_persisted_state`, and `Crash` ends the process between any two
of these; what was written stays (the failure of a machine with unflushed data
is not modelled). `Locked` are the threads that hold `_state_lock` while they
save, any of `Threads`. Two variables are history: `sharing`, whether the saves
under way have not had the `.tmp` alone, and `last`, what the save that put the
file there was to write, if it had.

`Snapshot` is what one would like of a file: a save is asked for (`Ask`), and then
what was asked is there (`Save`), or nothing has changed (`GiveUp`). `FlowState`
implements it where saves cannot overlap (`Exclusive`).

### ResultsStore

A result has the run it comes from, and a name and a key, the pair of catalog
item and namespace. For a row these are its own; rows that were deployed as one
group have one result, under the group's name and the first row's key, while a
retry of the same rows stores results under their own. A list of results is a
function on positions: only their order counts. `Alike` are the rows of one
`ci_name`, `Twins` those of one key, `Together` those of one group.

`Publish` is the critical section at the end of a run, with the lists that each
kind of run makes; a session saves in it, a deploy saves the list it holds
(`snap`), a retry looks the global up again (`Look`), a dry-run runs in a thread.
`LoopFree` says that runs on the loop do not interleave between publication and
save. `overtaken` and `spoilt` are history: which runs are saving that another
thread's change has come between, and whether such a run wrote last.

### WorkshopDeploy

A deployment is of a row of any shape - a Workshop, a Workshop with one provision
for each region, or a claim - and any number of deployments may be of one row, as
a retry takes every row with the name whatever became of it, and even while it
is still being deployed. All are of one catalog item in one namespace: the case
in which they can be taken for each other. `made` is the order in which the
cluster made Workshops and claims, `live` what of it exists. A deployment goes
from "creating" (with `run_oc_with_retries`, one `CreateTransient` per lost or
refused attempt) by "looking" (when oc's answer does not tell the name) and
"provisioning" to "verifying". `faults` says what may go wrong in a behaviour,
an exception from the set-up of Showroom after the creation among them.
`DeploymentResult.status` is `status`.

### MultiWorkshop

A shell is the Workshop that the run creates for an asset, with
`create_workshop_with_ui`: up to `Attempts` calls of `oc create` per shell, each
of which may be refused for good or for a while, be lost after it took effect
(`CreateLost`), say that the name exists, or name nothing (`CreateUnnamed`): the
newest Workshop of the namespace is then taken for the shell (`TakeNewest`).
`Strangers` are Workshops of other jobs in the namespace, `shell` is what the run
takes for each asset's shell. An own Workshop is one that the controller puts in a
shell's place. `Rewrite` and `Adopt` are the controller, external code, modelled
from what the comments and the cleanup of `rhdp_flow.py` 3451-3563 expect of it. A
MultiWorkshop of the same name may be left over from earlier. Its own `oc create`
(`Submit`, `SubmitFails`, `SubmitTimesOut`) may fail after it took effect; any
failure but the time limit is followed by the undoing of the shells.

### ClusterTenant

The code here is functions from sheets of rows to sheets of rows, so the module
is mostly operators (`Analyzed`, `Finding`, `Verdict`, `Fixed`, `Provided`), each
translated from one function. Where the code loops over rows that it changes
(`Provided`), or builds a list of some of them (`Those`), the operator is a
recursive function of the number of rows done, which can be proved about. A
tenant at risk is looked up among the rows there were at first (`Last`), as the
code's `by_ci` is built before its loop. The actions are the requests that apply
them, in any order, while `Tick` moves the clock, which the fix compares dates
with. Dates are minutes; `NoDate` is one that is empty or does not parse. Pools,
claims and the catalog's answers come from outside and are chosen (`PoolSets`,
`ClaimSets`, `Answers`).

### ScheduleList and QARun

`lists` are Python's list objects, each with the row objects it was made of
(`objects`) and which of these it still has (`has`); `current` is the list that
`_schedules` refers to. Whether a request makes a new list (`Upload`, `Update`,
which is `PUT /schedules` with any rows, `Mirror`), takes rows out of the one there
is (`Delete`) or changes its rows where they are (`FillDates`, the auto-fix, a
deployment's check) decides who else sees the change. Requests that take the lock
are one step. `deploy_session` awaits between its mirror and its grouping
(`Group`), and then deploys row after row, each as it is when its turn comes
(`DeployRow`). The auto-fix takes no lock: it begins, changes dates row by row,
stores, reads and writes. The check before a deployment corrects the items of
the rows that were on the dashboard when it began, and does not save them.
`disk` is the pair of files of `save_schedules`; with "torn" among the clients a
restart may find the first of them newer than the second.

`SheetRegister` knows nothing of list objects, files or requests: one sheet is
shown; a client puts a whole sheet of its own there; any other edit changes rows
or takes at most one away; and a clear puts it into the archive. `KeepsRegister`
maps the rows of the current list object (names, namespaces and dates) and their
file's name to the sheet, and the numbers of the archived sessions to the
archive. Rows that are not there have no name: a restart forgets the name of an
empty sheet. The register keeps its sheet over a restart because the files follow
the dashboard. With an auto-fix, which saves without the lock, a save that is cut
off, or an empty list from a client, which leaves the name of a file, this is not
so, and the property leaves these out.

`QARun` adds the QA runs. A run asks, settles its namespaces, checks one
namespace after another from the rows as they are then, asks the catalog, computes
its coverage, publishes and saves; from the coverage to the save it does not await
(`LoopFree`), but requests in threads come between publication, copy and write. A
result has the name and namespace it is shown under, its kind and the run it
comes from; `of`, which the code does not have, are the rows that were looked at
for it. For the checks of workshops these are the rows of one name and namespace.
For the catalog there is one result per item, in the name of the first row that
has it, and a row's assets are items of their own only while all rows are of one
namespace (`ItemsOf`). `scope` is `_qa_last_scope`; `spoilt` remembers whether
something happened after which the code's scope is not to be believed (section
5), and `CoverageTrue` is about all other cases. The requests of `ScheduleList` are
actions here, with what they do to the QA results.

### Catalog

An item is a name and a suffix. `published` is where each is, and changes
(`Move`); `index` and `cache` are the two caches with their times; `clock` is what
they expire by. The index is made by a walk over the namespaces (`walk`), one
listing in each step, any of which may fail, and gets the time of its end.
`Resolve` is `validate_catalog_item_exists` with aliases, the fallbacks over
suffixes and the suggestion. A request is a loop over the rows, one row in each
step (`req`), one request at a time, so that the catalog changes and listings fail
in the middle. A row has its item, the assets of a multi-asset row, a namespace,
users and a region. `CheckDeploy` corrects rows, with the same item among their
assets, and refuses; the other checks report. `changed` and `failed` (when an item
last came or went, when a listing last failed) and `uploaded` (the rows as they
were) serve the properties only.

### QAChecks

Each call of `oc` or of the Soundcheck service is a step, and between any two the
cluster moves (`Move`, `Probe`). A call that fails is taken for an empty answer,
as in the code. `listed` are the claims as they were when they were listed,
`setup` and `deployed` the results of the two checks, which `Merge` folds and
joins (the claims of a row are reported in any order, as a listing promises none).
`sound` is the Soundcheck session: the service is asked about `Limit` workshops
(forty in the code; `Asked`), takes some of them into its run (`taken`), is polled
`Polls` times, and then answers about some of those it was asked about (`heard`);
`truth` is what it has found, a status that the code does not rank ("other")
among them. `past` remembers what has been there, gone and up during the check:
the properties compare each answer with it. Objects have a state with a health
and what of them differs from the row.

### Operations

All operations are one loop: for each row, list the item's objects of each kind
(`Phases`), compute the new value from the listed one (`Leaves`, `New`), patch one
object after another. `field` is the cluster, `todo` and `seen` what a request has
listed. Another request may patch the same objects at any point in between. A
listing or patch fails (skipped), or does not answer in time, maybe after it took
effect (the exception ends the request, but the creation of pools goes on). `at`
and `clean` remember what a request began with and whether it was disturbed.

## 3. Runs

Each run checks what holds of one module. What the code's own texts say of it and
TLC refutes is listed in section 5.

| Run | Instance | Shows |
|---|---|---|
| `JobControl` | 3 units, deploy and retry, all requests from the pool or all from the loop, 3 operations under way | status and event agree, a cancelled deployment starts at most one workshop, the job ends, `JobLifecycle` (true and final outcomes) is implemented |
| `JobStore` | 5 jobs, limit 2 | eviction is safe, by age, sufficient and necessary |
| `JobEvents` | an SSE stream and a websocket, 3 changes | every client hears of the end and none sees the job reopen |
| `FlowState` | the loop and a dry-run's thread without the lock, a thread of the pool with it, 2 contents, 4 inodes: the results file | a restart finds the last snapshot that was put in place, unless its save shared the `.tmp` |
| `ResultsStore` | 2 runs of all kinds, 3 rows: two of one name, two of one key, two of one group; with and without delete and clear | runs replace what they ought to and keep the rest; disk follows memory unless a thread came in between |
| `WorkshopDeploy` | 2 deployments of all 3 shapes, 2 regions, 2 attempts, 3 sets of faults, 1 object destroyed | reports are true, failed deployments leave nothing as long as answers arrive, deployments end |
| `MultiWorkshop` | 2 assets, 2 attempts, 2 polls, a Workshop of another job, 5 sets of faults | a live MultiWorkshop that can be read is not broken, what the run knows of is taken back, the run ends |
| `ClusterTenant` | 9 kinds of sheets of up to 3 rows, 4 items, pools that are missing, empty or not | what validates is served, repairs work and keep the user's rows |
| `QARun` | 2 names, 2 namespaces, 2 days, 3 items, 2 files, 4 edits, up to 2 runs, 14 mixes of requests | sessions deploy nobody else's rows, files and dashboard agree, coverage is true, the dashboard is a `SheetRegister` |
| `Catalog` | 2 base names with 5 suffixes, 9 sheets of up to 2 rows, two of them with assets, 7 catalogs; caches good for 2 units of time, listings that take up to 1; 1 change, 1 failing listing | what is admitted is published, reports foretell, nothing is stale for long |
| `QAChecks` | 2 rows, 9 objects of all kinds, 1 change, 1 failing call, Soundcheck limited to 2 workshops and polled twice | every row is answered, and truly |
| `Operations` | 2 requests out of 12, 6 objects, 2 failing calls | undisturbed requests are atomic, disturbed ones do whole parts, times never fall, extensions count |

Bounds. Three units let a request fall before, between and after units, with
groups and rows. Three operations under way are enough to have one overtaken and
two pending; the proofs do not need the bound. Five jobs with a limit of two
evict more than once. Two streams are the least that can take each other's
events. In `FlowState` two threads can share the `.tmp` while a third keeps the
lock; one inode for the file, one for the `.tmp` and two that threads still write
to are the most that are in use, and two contents tell one snapshot from
another. Two runs make every overlap of two
publications and saves; of three rows each shares its name, its key or its group
with each other one, so a retry meets the result of a group, of its namesake and
of its twin. Two attempts distinguish retrying from giving up; two deployments
are the least that can be taken for each other, and may be of one row. Two assets
leave one shell listed and one replaced, or one with an id and one without; with
two attempts each there are shells that the run does not know of. The sheets of
`ClusterTenant` have tenants that share a cluster, rows of one cluster at two
times, tenants with a pool, with a claim and with neither, labels that contradict
names, and missing dates; its `Buffer` is larger than its `Lead`, as four hours
are larger than thirty minutes.

In `QARun` there are a row without a date, one with assets, two of one item, and
one name in both files and in both namespaces; clients put a list with a row
renamed, one with a row twice, a longer one and an empty one. The schedule list
alone meets up to five kinds of requests, a session with each kind that reaches
its rows. A QA run meets cancels, failures, uploads, deletions, clears and
restarts, and two runs meet each other; runs together with edits of the whole
list, auto-fixes and checks are too many states for TLC and are covered by the
theorems only. Five list objects are one on the dashboard, one for each of the
three requests that may hold one, and a new one. `Catalog` has an item that is an
alias, a sheet with a row that is corrected to it, and rows of one item with
different namespaces; its clock reaches twice the lifetime of the caches, so an
answer can be drawn from an index as old as the code allows. `QAChecks` has a row
with several claims, a multi-asset row, and one workshop more than Soundcheck is
asked about; one change and one failure fall between any two of the calls. In
`Operations` two rows name one item, and two requests are the least that can come
between each other's listing and patch. The bounds that cut behaviours off are
named in the modules: `MaxReady`, `MaxChanges`, `Created`, `MaxDestroyed`,
`Inodes`, `Polls`, `Strangers`, `MaxClears`, `RunClears`, `Horizon`, `MaxTime`,
`MaxMoves`, `MaxFaults`.

`CHECK_DEADLOCK FALSE` is given where the system may stop: all clients have left
(`JobEvents`), all jobs were created (`JobStore`), the run of `MultiWorkshop`
returned, all deployments of `WorkshopDeploy` are over, a check or the requests
of `Operations` are done, or the clients of `Catalog` have asked for all
there is to ask.

Properties with a condition. Some hold in part of the cases that a run
considers, and say in which:

- `CancelStopsNewUnits` is about deployments. With requests from the pool it
  allows the one workshop that was let through before the cancel came;
- `PauseAgrees` needs requests on one kind of channel (`Clients`);
- `LastSaveKept` leaves out snapshots whose save shared the `.tmp`;
- `DiskFollowsMemory` leaves out a snapshot that was written after another
  thread had come in between (`spoilt`); `KeepsTheRest` goes by keys for sessions
  and by names for retries, as the code does;
- `DeployedIsOwn` needs answers that name what was made, `RetryIsSafe` needs
  answers that arrive and name it, looks that succeed and a Showroom that does
  not raise, `DeployedIsProvisioned` provisions that are not refused, and is
  content with one;
- `NeverBreakLive` needs assets that can be read, and leaves out a run that takes
  its MultiWorkshop for refused when the cluster has made it; other jobs'
  Workshops are safe if oc names what it makes. `NothingLeftOver` is about the
  shells that the run knows of, all of them if answers arrive and name them,
  without failing deletions, inspections and the time limit;
- `RepairsWork` is about a second fix at the same time, and buffers above zero;
- `CoverageTrue` is about scopes that nothing has spoilt: no cancelled run, no
  change under a run, no run for some names that drops a result of rows which it
  does not cover;
- `DeploysItsOwnUndisturbed` says that all rows are there without deletions, and
  as uploaded without requests that change rows where they are;
- `FilesFollow` leaves out auto-fixes, the items that a check has corrected, and
  clears under a saving QA run; `KeepsRegister` also saves that are cut off and
  empty lists from clients;
- `AdmittedIsPublished` and `ReportForetells` are about a catalog that stands
  still. The first asks that rows of one item agree on their namespace and that
  no item is outside its own namespace alone, and is about the row's own item;
  the second is about rows without a namespace of their own. `NotStaleForLong` is
  about names without an alias;
- the parts of `StatusTrue` need calls that are answered, MultiWorkshops that are
  the rows' and workshops that have the item's provisions to themselves, and say
  nothing of the readiness of MultiWorkshops;
  `ShowroomTrue` is about workshops that Soundcheck has answered about;
- `CleanIsAtOnce` and `PartsAreWhole` are about requests whose field no other
  request works on, the first without failures; `ExtensionCounts` is about
  requests that do not fail.

Each condition leaves out something that the code does; section 5 lists it.

Fairness. The loop runs its callbacks and coroutines (`WF` of `RunCallback`,
`Run`, `Deliver`), since asyncio's ready queue is served in order and no
coroutine here blocks the loop. Every `oc` call has a time limit, so a worker
thread returns (`WF` of `Step(d)` and of `MultiWorkshop`'s `Run`). A `get` on the
queue has a time limit of 30 seconds (`WF` of `Stream(s)`). Clients, the
controller and the cluster owe nothing, and `EventuallyEnds` says so: it asks for
an end only of a job that is not left paused. The other modules state safety
only: what ends in them ends because a loop over finitely many rows does.

## 4. Proofs

All theorems are about the specification without its fairness (or hold for it as
well) and are proved for every value of the constants under the modules'
assumptions, which say no more than what kind of value a constant is.

`JobProofs`, first part (`JobStore`). The inductive invariant relates the stored
jobs, those evicted and those under creation; the theorems cover both properties
of the run (with the three parts of `EvictionRight` one by one) and
`NothingLost`: stored and truncated jobs add up. The cardinality arguments use
the library's facts about finite sets.

`JobProofs`, second part (`JobControl`). `IInv` = `TypeOK` /\ `RunInv` /\
`OutcomeTrue`. `OutcomeTrue` is not inductive: to see that the final `update_job`
writes a true outcome one must know what the coroutine's place says about the
status, the count and the outcome it has chosen, which is `RunInv`. From
`Invariance` follow `TypeCorrect`, `OutcomeIsTrue`, `TerminalStays` (a finished
job's run is at its end, so nothing writes the status) and `Refinement` (every
step is a step of `JobLifecycle` or leaves its variables alone). `CancelIsHeeded`
needs `LateInv`: how many workshops were started late depends on whether the run
had been let through when the cancel came, and without threads of the pool it
cannot have been. `PauseAgreement` needs `PauseInv`: the agreement of the status
with the value the event will have once the queued operations have run
(`Settled`), with the fact that a request on the loop never meets a queued
operation. It assumes that no case in `Clients` has both channels; the assumption
is needed, see section 5. Its lemmas are about sequences: taking the head off the
queue does not change its last element (`TailKeepsLast`).

`JobProofs`, third part (`JobEvents`). `EventsInv` = `EventsTypeOK` /\
`OutcomeKnown` /\ `ClosedKnowsOutcome`. `OutcomeKnown` says that a final status in
the queue, in a stream's hands or before a client's eyes is the job's status, that
what is still being handed over never is final, and that a stream which has shown
the end neither waits for another event nor holds one. `NoReopening` is an action
property that follows from the last.

`PersistenceProofs`, first part (`FlowState`), for any threads, with the lock or
without it. `FileInv` = `FileTypeOK` /\ (`~sharing => Alone`) /\ `Kept`. `Alone`:
while no saves share the `.tmp`, one thread is saving, to the inode named `.tmp`,
and that is complete once it is written. `Kept`: the file is apart from the
`.tmp`, and if the save that put it there had the `.tmp` to itself, it has what
that save was to write and no thread has it open. `LastIsKept` follows.
`Atomicity` adds that exclusive saves never share (`StepUnshared`), and follows
each step into `Snapshot`: so the file of QA results, which the loop alone saves,
is an atomic register (`AtomicSaves`, which TLC has checked with that one thread).

`PersistenceProofs`, second part (`ResultsStore`). `IInv` = `TypeOK` /\ `AllBelow`
/\ `SavesOrdered`. New results get positions after those of all lists there are
(`AllBelow`: memory, disk, and what runs hold). `SavesOrdered` says that what a
run is about to save is what the dashboard shows, unless it was overtaken;
`DiskIsMemory` follows. `RestIsKept` is about one publication: what the merges of
a session (`MergeIs`) and of a retry (`UpdateIs`) show of each key and of each
name.

`PlacementProofs`, first part (`ClusterTenant`). `PlacementInv` = `TypeOK` /\
`Separate` /\ `ValidMeansServed`: no row is both a cluster and a tenant, which
detection sees to and every other request keeps. `ValidIsServed` rests on
`VerdictIs`, about one validation: an item without a reference has no row that
Workshop Manager looks after, so its tenants are among those that are looked at.
The theorems about repairs are about what loops over the rows of a schedule
compute, for schedules of any length. `Induct` has induction from the existence
of a least counterexample, `Iterated` the existence of what a loop computes;
`ThoseIs` and `ProvidedIs` unfold the two recursive functions once with them, and
everything else cites these two. `RepairsDoWork` has three parts. `StableFix`: the
second fix finds the same rows to move, and each with the date of the same
tenant, since a tenant is no cluster and so not moved. `CuringFix`: a tenant
alone on its cluster is the one that decides. `ServingProvision` follows one
tenant through the loop: until its turn it has its date and no row has its
cluster (`Pending`), afterwards one of the added rows does and is ahead of it
(`Served`). `RepairsKeepTheRows` follows from what a repair does to each row
(`FixedIs`, `Grown`), and from the fact that rows chosen alike from two sequences
correspond (`ThoseLinked`).

`PlacementProofs`, second part (`MultiWorkshop`). `MultiInv` = `MultiTypeOK` /\
`RunInv` /\ `NeverBreakLive` /\ `KnowsItsShells`. `RunInv` says what the place of
the run implies: its ready shells exist while it submits them; none of them is
listed before, nor while the run takes them back unless an answer was lost; every
shell that is listed during the cleanup is in the copy that the cleanup goes by,
for the controller never lists a shell again; and without nameless answers no
Workshop of another job is taken for a shell. `NothingIsLeftOver` needs to look
into the two loops: a shell that still exists is one that the undoing has yet to
come to (`UndoneInv`), or that the cleanup has yet to come to unless it was
adopted or is in the copy (`CleanedInv`).

`WorkshopDeployProofs`. `IInv` = `Types` /\ `CountInv` /\ `OwnInv` /\
`DeployedIsOver`. `CountInv` strengthens `AttemptsBounded` by the attempts a
deployment has left, `OwnInv` gives it its own object from the creation on, not
only once it is reported. `TypeCorrect` needs two more invariants: nothing refers
to an object that was never made (`MadeTypes`), and a deployment that is at its
provisions has some left to create (`TodoInv`), so the region it computes is one
of its regions. `RetriesAreSafe` needs `CleanInv`: while answers arrive and name
what was made, the only living object of a deployment is the one it goes by, and
one that may still create, or has failed, has none. `DeployedGetProvisions` needs
`FilledInv`: from the time its provisions were created on, the name of a living
Workshop's provision is taken.

`OperationsProofs`. `IInv` = `Shapes` /\ `TimesKept` /\ `SeenTimesKept` /\
`PoolsKept` /\ `SeenPoolsKept`. That no time falls is not inductive: a patch
writes what was listed earlier, so the invariant must speak of the values that
requests carry as well as of those in the cluster; the same for a pool that was
seen missing. `TypeCorrect` adds that a request that patches is at one of its rows
(`Position`). `CleanIsAtOnceHolds` follows a request from object to object:
`Past(p, o)` are the rows for which it has dealt with object `o`, and `ValueInv`
says that, as long as it is clean, each object's value is what its call makes of
the value at its beginning for these rows (`After`), and that what it has listed
is what is there. It rests on `SoleInv` (a clean request is alone with its field)
and on `PlaceInv` (what it works off is what it listed). `ExtensionsCount` needs
`CountInv`: from the first patch on, one of the extensions that have begun is
contained in the value, whichever request wrote last, because whoever writes adds
its own extension to a time that is no earlier than the first one.

`QARunProofs`. The types of the schedule list need `ClientsInv` (a request that is
under way holds one of the list objects, and positions of its rows), those of the
runs `FoundInv` (what a run has found is about its names). `FilesAlwaysFollow` and
`DeploysTheUpload` are about `ScheduleList` within the composition. For the second
one has to know what becomes of a list that a request holds, whoever else has it:
it is no new list's (`FreshIs`), it ages (`Ages`: rows are taken out of it, or
changed where they are in their dates and items, by clients of these kinds), and
so does each step of every request leave it (`Moved`, `StepMoves`); `MirrorInv`
says so of the deployment's list since the mirror. `StaysWellFormed` adds that at
most one result of a kind and an item is kept for a row, in memory, in the copies
of runs and on disk (`StoredInv`), and that one run at a time is between its
coverage and its save (`HoldingInv`). `ScopeIsTrue` needs `ShownInv`, the
invariant of the run's loop: rows whose namespaces are done have a result that
looked at them, and the catalog has one for each row, maybe in another row's name
(`CatalogIs`). `KeepsTheRegister` (every step is a step of `SheetRegister` or
leaves its variables alone) takes the restart from `FilesAlwaysFollow`'s
invariant, and the clear from that of the archive: numbers that count up to the
latest, of which the newest stay (`NumbersAre`, `ArchivingIs`).

`CatalogProofs`. A request is a loop over the rows that rewrites them as it goes,
with three caches behind it, and the index behind these is itself the work of a
loop over namespaces. For a catalog that changes, `Told` says how long ago a claim
about an item was right, or its listing failed; `ListInv` says so of the walk so
far, `IndexInv` of the index and `CacheInv` of the cached answers, each with the age
it may add, and `StaleForAShortTime` follows. `SteadyInv` and `CachedInv` say that,
while the catalog stands still, all three are right; `AnswersInv`, `LimitsInv` and
`SchemasInv` that what the request keeps is right and comes from a row it has looked
at, which a correction must not invalidate; `AssetsInv` that a row's assets are its
own item and those nobody asks about; `WalkInv` what the request's findings so far
say about the rows so far, and `VerdictInv` what its verdict says about all of them.
`AdmissionIsRight` and `ReportsForetell` compare verdicts. The lemmas about names
(`FirstIn`, `AliasIn`, `Resolved`, `Correction`) hold for every map of aliases.

`QAChecksProofs`. A check is a loop over rows whose every step talks to a cluster
that has moved since the step before, so a result can only be true of a moment in
the past, and the invariant ties what a check carries to what `past` remembers.
`PlaceInv` says what the place of the check implies about its phase, its row and
the object it is looking at; `AnsweredInv` that exactly the rows passed so far
have results, `ResultsInv` what is returned as a function of them. `PastInv`
relates cluster, listing and subject to `past`. What is said of presence rests on
`TrueInv`; a "Deleted" is true only because a search that found nothing has, if
calls were answered, seen each object of the row to be gone, for which `ClaimsInv`
and `WorkshopsInv` collect the evidence as the search goes on (a workshop looked
for in vain at the first look has to be forgotten with the row). `MissingInv` and
`DestroyInv` do the same for the destroy check. `SoundInv` says that a run of
Soundcheck is started only if the service was reached, and that a completed
session has completed all workshops that were taken into it; `ShowroomInv` follows
when the column is filled in, as what is shown of an answer is true of it,
whichever workshops it has entries for (`ShownTrue`). `MismatchIsKept` needs
lemmas about `Dedup` and `Merged`, and these need that a set of positions has a
least and a greatest element (`MinIn`, `MaxIn`).

What is proved and not in a run: the type invariants of `JobControl`, `JobStore`,
`JobEvents`, `FlowState`, `ResultsStore`, `MultiWorkshop`, `WorkshopDeploy`,
`ClusterTenant` and `Operations`; `OutcomeTrue` and `TerminalIsFinal` (which
`KeepsLifecycle` contains), `AtomicSaves`, `NothingLost`, `ClosedKnowsOutcome`,
`AttemptsBounded`, `PoolsKept`. TLC has checked them on these instances while the
proofs were made; the runs leave them out, as the proofs say more.

Only model-checked: liveness (`EventuallyEnds`, `EveryClientHears`, `RunEnds`,
`DeploymentsEnd`), which is out of the prover's reach, and `PartsAreWhole`.
Everything else that a run checks is the statement of a theorem.

## 5. Where the code and its statements disagree

Each of these is what the code does: what the conditions of section 3 leave out, or
what a constant would let in that the runs do not use. Where the code's texts say
otherwise, the statement is often written down in the module, in no run, and is
named here: added to the cfg of the module's run, which needs no other change, TLC
finds it violated.

Job control and events

- A pause after a cancel clears the event that the cancel set, and the run parks
  though `wait_if_paused` blocks "until the job is unpaused (or cancelled)"
  (`api/jobs.py` 194, 221; `CancelUnparks`).
- The job of a retry accepts cancel and pause ("Cancel a running deployment.",
  `api/routes.py` 2433), and its loop looks at neither (2596;
  `CancelStopsRetry`).
- A cancel from the pool that comes between the look at the flag (1805, 1840) and
  the start of the worker lets one more workshop start.
- With requests from both the pool and the loop (`Clients = {{"pool", "loop"}}`) a
  pause on its way is overtaken by a resume: the job is shown as running and its
  run is parked (`api/jobs.py` 124).

Files and results

- Saves outside `_state_lock` (`deploy`, `deploy_retry`, `deploy_dry_run`, the
  auto-fix) share a `.tmp` with others, and the file may not parse
  (`lib/flow_state.py` 55; `Readable`).
- `deploy` saves after it released the lock (`api/routes.py` 2001): a deletion in
  between, which "removes matching rows from the in-memory results and the
  persisted snapshot" (2464), is back after a restart (`DeletedStaysDeleted`).
  A dry-run does the same (2234); a retry looks the global up again (2617), but
  outside the lock.
- A retry gives all results of one `ci_name` the result of its last row (2611).
- Rows that were deployed as one group have a result under the group's name; a
  retry adds one under the row's own, so the row has two (1814, 2609). A session
  that deploys the first of them again, or another row of its catalog item and
  namespace, drops the group's.

Workshops and multi-assets

- `create_multi_region_workshop` makes "multiple WorkshopProvisions, one per AWS
  region" (`rhdp_flow.py` 3946) under one name (1836): the cluster refuses all but
  the first, and nobody looks (3976).
- A lost answer of `oc create` makes a second Workshop. A failing look makes a live
  Workshop a failed row (4282; `FailureIsHonest`). With an answer that
  names nothing the newest Workshop is taken, whoever's it is (2222;
  `FindsTheOneCreated`), and a name that is taken counts as success without one.
- An exception from the set-up of Showroom after the creation (6497-6545) reports
  an error for a row whose Workshop exists; a retry makes a second one.
- A retry deploys all rows with the name, also those that are deployed or still
  being deployed (`api/routes.py` 2528): each deployment makes a Workshop.
- "Never break a live MW" (`rhdp_flow.py` 3538): a failed read of the assets looks
  like an empty list (3471), and the cleanup deletes shells that are still listed
  (`CleanupSparesListed`).
- When the `oc create` of the MultiWorkshop fails after it took effect (an EOF, a
  gateway's time limit), the undoing deletes shells that the MultiWorkshop lists
  (3889-3926). With the time limit of Flow's own it is skipped, and the shells stay
  (3936).
- A shell whose answer was lost is made again and left lying about; for one that
  was not named the newest Workshop of the namespace is taken, and later maybe
  deleted, whoever's it is.

Cluster and tenant timing

- The last of several tenants of a cluster decides when it starts, which may be
  after another tenant (`lib/cluster_tenant_validation.py` 106-127): the clamp to
  thirty minutes from now can move it there too.
- Validation looks at the last row of a cluster, the fix moves the first.
- The fix takes any `buffer_hours`, and says it is for "ensuring clusters deploy
  BEFORE tenants" (`api/routes.py` 1657-1659). With a buffer of zero it leaves a
  cluster at the very time of its tenant, which the validation refuses.
  `FixCures` is about buffers above zero.
- `auto_provision_missing_clusters` looks a tenant up by its item alone
  (`rhdp_flow.py` 506): a later row of the item decides, though it may be labelled
  a workshop or name another cluster, and the tenant stays without one.
- The detection of pools within the fix imports a module by a name it does not
  have, and is never active.
- The gap after `auto_provision_missing_clusters` is "always at least
  buffer_hours" (`rhdp_flow.py` 469) for one of two tenants of an item only, and
  removing the added rows does not move back a tenant that was pushed, though the
  rows are "fully reversible" (473).
- The module moves start dates only; the stop and destroy times that are pushed
  with a tenant have no part in what it says.

Schedule list and QA runs

- `deploy_session` deploys "never off the shared `_schedules` global"
  (`api/routes.py` 2054), but its list is the global's object until it is grouped,
  and its rows are the dashboard's until they are deployed: a deletion (851) takes
  a row away, and `fill_missing_dates`, an auto-fix and a deployment's check change
  its rows (`DeploysItsOwn`).
- The auto-fix stores and saves without the lock (1674) and overwrites an upload
  that came after it began (`FixKeepsList`). Its dates are on the dashboard before
  they are on disk.
- The check before a deployment corrects rows of the dashboard and does not save
  them (1900-1910): after a restart the items are the uploaded ones.
- `save_schedules` writes two files (`lib/flow_state.py` 88): cut off in between,
  it pairs new rows with the old file's name. `deploy_session` shows its rows
  under the name of the file that was there before; `PUT /schedules` with an empty
  list leaves that name on the dashboard until a restart.
- Groups are keyed by `multi_workshop_name` alone (1794): rows of one name in two
  namespaces are deployed as one group.
- The catalog is asked once per item, and the answer carries the name and
  namespace of the first row that has it (`rhdp_flow.py` 5680-5690): other rows of
  the item are covered and have no result of their own name. A run for the first
  one's name replaces it for all.
- With rows of several namespaces the check's CSV has no columns for assets, so
  they are not looked up (`api/routes.py` 3014; `AssetsLookedUp`).
- After a cancelled run (`CoverageIsWhatRan`), or one whose rows changed under it,
  the coverage claims more than was checked (3143). A run for names within a
  namespace or a day drops the results of these names elsewhere
  (`KeepsPriorPasses`). A merged scope keeps the prior one's floor and day.
- A clear between a QA run's copy and its write brings the results back; a clear
  with an empty list drops QA results without archiving them. The scope is lost
  at a restart.

Catalog

- Answers are kept by name only within a request, so of two rows of an item with
  different namespaces the second gets the first's answer (`EveryRowIsRedirected`);
  a suggested name gets its canonical namespace even if it is published only
  elsewhere.
- Of a multi-asset row the check before a deployment asks for the row's own item:
  other assets are ordered without having been looked up (`rhdp_flow.py` 3590,
  3662), and with more users than they take (`AssetsAreLimited`).
- An alias is followed once (`rhdp_flow.py` 3113-3131). A row whose suffix is
  corrected to a name that is itself an alias, or the second of a chain of
  aliases, is let through by the deployment and complained of by QA's catalog
  check; `AdmittedIsPublished` speaks of QA only where no row has an alias left.
- Users are checked under the old name (`RowsAreLimited`), regions under the
  corrected one; the report on parameters does not know a row's own namespace.
- The retry's preflight does not look at names (2523).
- A failed listing counts as "not there" for five minutes (`rhdp_flow.py` 3155), and
  may rewrite a name for good. The index gets the time of the end of its walk
  (3172), so what it says may be older than its lifetime by the time the listings
  took. The preflight changes rows without lock or save, also those of a sheet it
  refuses.
- Two requests may walk the namespaces at the same time; the module has one
  request at a time.

QA checks

- Any MultiWorkshop whose `spec.name` is "automation" matches any multi-asset row
  (4731; `MultiIsTheRows`).
- "QA requires all requested instances to be active" (4573): the code looks at the
  first provision of the item.
- A row is shown as healthy by the entries there are: workshops beyond the
  fortieth are not asked about (5500), and one without an entry in the answer, or
  with a status that has no rank, is passed over (5607-5615); a row without any
  entry is shown as the session is (5617-5634; `NoSilentPass`).
- A lookup that fails counts as nothing found: a row may be shown as deleted or
  destroyed for it. The destroy check does not look for MultiWorkshops.
- Of several claims of a row one is kept, and merged rows never say that they
  match (6101).

Operations

- Two rows of one item extend its objects twice (6618). Of two overlapping
  extensions one may be lost, and an extension may bring back a stop that was
  just disabled.
- A call that is cut off leaves part of the objects changed, and an operation
  reports success whatever failed (`api/routes.py` 2649-2722).
- A pool made between the look and the apply, by another request or another
  client, is overwritten (`api/routes.py` 3676).

## 6. Not modelled

Wall-clock time is modelled where code compares it (`ClusterTenant`, `Catalog`);
elsewhere a delay is a step that happens later, a time limit a choice. Text,
manifests, URLs, logs and counts of progress are left out.

- Manifest builders and most CSV columns: transformations of dictionaries and
  text without state.
- Pool capacity: arithmetic on the data of one request; the reference tiers and
  the creation of pools are in `ClusterTenant` and `Operations`.
- Showroom, the Labagator client, the command line: sequences of calls without
  shared state. `QAChecks` models what checks see of a showroom, `WorkshopDeploy`
  that its set-up may raise.
- `cluster_targets.py`, `identity.py`, `auth.py`: a header check and a temporary
  file per request, which no other request refers to. Its cache of whether
  targets are configured is read and replaced whole.
- `server.py`, `log_capture.py`, `audit.py`, `limiter.py`, `models.py`: wiring and
  data classes.
- The web interface is a client of what is modelled.
- The migration of files of earlier versions, operator overrides of single
  fields, the CSV files of QA.

Two hazards are known and in no model: a count of zero users becomes one
(`rhdp_flow.py` 2288), so a multi-region row with fewer users than regions asks
for more seats than it was given; and a finished job can be evicted before the
client that started it has asked for its outcome (`api/jobs.py` 64), which
`JobStore` allows and says nothing against.

## 7. Plan

Done: seventeen modules of the system, twelve runs, eight modules of proofs. What
would come next, in this order:

1. The counting of seats and of pool capacity as operators, against a reference
   that adds up what each row asks for.
2. The web interface's polling, against `JobEvents` and eviction.
