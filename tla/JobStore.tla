------------------------------ MODULE JobStore ------------------------------
(***************************************************************************)
(* The in-memory store of jobs in api/jobs.py: create_job, which first     *)
(* evicts old finished jobs, and update_job, which the runs call.          *)
(*                                                                         *)
(* Jobs are numbered in the order of their creation, which is the order of *)
(* their created_at.  Handlers create jobs on the event loop and none of   *)
(* them awaits inside create_job, so one creation is under way at a time;  *)
(* it takes the lock twice, and a pause or resume from the threadpool may  *)
(* come in between.                                                        *)
(***************************************************************************)
EXTENDS Integers, FiniteSets, JobStatus

CONSTANTS
    MaxJobs,    \* MAX_JOBS
    Created     \* bound: how many jobs are ever created

ASSUME MaxJobsAssumption == MaxJobs \in Nat
ASSUME CreatedAssumption == Created \in Nat

\* Definitions introduced by "Variant" are not part of the model: each has a
\* plausible mistake in it, which the properties of this module must notice.

VARIABLES
    next,       \* the number of the next job
    store,      \* _jobs: the jobs that can be looked up
    statuses,   \* the status of every job created
    truncated,  \* _jobs_truncated
    creating    \* create_job is between its two critical sections

storeVars == <<next, store, statuses, truncated, creating>>

Jobs == 1..Created

StoreTypeOK ==
    /\ next \in 1..(Created + 1)
    /\ store \subseteq 1..(next - 1)
    /\ statuses \in [Jobs -> Active \cup Terminal]
    /\ truncated \in Nat
    /\ creating \in BOOLEAN

StoreInit ==
    /\ next = 1
    /\ store = {}
    /\ statuses = [j \in Jobs |-> "pending"]
    /\ truncated = 0
    /\ creating = FALSE

-----------------------------------------------------------------------------
\* Variant: the status filter is missing.
FinishedOrNot == store

Finished == {j \in store : statuses[j] \in Terminal}

\* Variant: the sort is the wrong way round.
Younger(j) == {k \in Finished : k > j}

Older(j) == {k \in Finished : k < j}

\* What _cleanup_old_jobs deletes: finished jobs, oldest first, as many as the
\* store has too many.
Evicted == {j \in Finished : Cardinality(Older(j)) < Cardinality(store) - MaxJobs}

Cleanup ==
    /\ ~creating
    /\ next \in Jobs
    /\ store' = store \ Evicted
    /\ truncated' = truncated + Cardinality(Evicted)
    /\ creating' = TRUE
    /\ UNCHANGED <<next, statuses>>

Insert ==
    /\ creating
    /\ store' = store \cup {next}
    /\ next' = next + 1
    /\ creating' = FALSE
    /\ UNCHANGED <<statuses, truncated>>

\* update_job(status=...) by the job's run: it finds the job or does nothing.
\* The run's coroutine needs the loop, which a creation keeps busy.
SetStatus(j, s) ==
    /\ ~creating
    /\ statuses[j] \in Active
    /\ statuses' = IF j \in store THEN [statuses EXCEPT ![j] = s] ELSE statuses
    /\ UNCHANGED <<next, store, truncated, creating>>

\* request_pause and request_resume, from any thread.
ControlJob(j, from, to) ==
    /\ j \in store
    /\ statuses[j] = from
    /\ statuses' = [statuses EXCEPT ![j] = to]
    /\ UNCHANGED <<next, store, truncated, creating>>

StoreNext ==
    \/ Cleanup
    \/ Insert
    \/ \E j \in 1..(next - 1) :
          \/ \E s \in {"running"} \cup Terminal : SetStatus(j, s)
          \/ ControlJob(j, "running", "paused")
          \/ ControlJob(j, "paused", "running")

StoreSpec == StoreInit /\ [][StoreNext]_storeVars

-----------------------------------------------------------------------------
(* Properties.                                                             *)

\* A job whose run has not ended can be looked up: its client never gets a
\* 404, and none of the run's updates is dropped.  (The status filter of
\* _cleanup_old_jobs, under the lock that pause and resume take.)
LiveJobsStored == \A j \in 1..(next - 1) : statuses[j] \in Active => j \in store

\* Every job created is stored or counted as truncated, never both and never
\* neither: the figures of get_stats add up.
NothingLost == next - 1 = Cardinality(store) + truncated

\* Eviction is fair to age: a finished job that stays is younger than all those
\* that go.
OldestFirst ==
    [][\A gone \in store \ store', kept \in Finished \cap store' : gone < kept]_storeVars

\* Eviction restores the limit whenever it can: what is left above MAX_JOBS is
\* live.
CleanupRestoresLimit ==
    [][(creating' /\ ~creating) =>
          \/ Cardinality(store') <= MaxJobs
          \/ \A j \in store' : statuses[j] \in Active]_storeVars

\* ... and takes no more than it must: no store below the limit loses a job.
NoNeedlessEviction ==
    [][store \ store' # {} => Cardinality(store') >= MaxJobs]_storeVars

\* The three together: _cleanup_old_jobs evicts the right jobs.
EvictionRight == OldestFirst /\ CleanupRestoresLimit /\ NoNeedlessEviction
=============================================================================
