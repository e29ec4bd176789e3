------------------------------ MODULE JobControl ------------------------------
(***************************************************************************)
(* One background deployment job of api/jobs.py together with the run that *)
(* works it off (_run_deploy_over, deploy_retry) and the clients that      *)
(* pause, resume and cancel it.                                            *)
(*                                                                         *)
(* A control request runs either in FastAPI's threadpool (the HTTP         *)
(* endpoints, channel "pool") or on the event loop (the websocket, channel *)
(* "loop").  Both take _jobs_lock, so a request is one step; but only a    *)
(* request on the loop touches the job's asyncio.Event at once.  One in    *)
(* the pool hands the operation to the loop with call_soon_threadsafe, and *)
(* it takes effect when the loop gets to it.                               *)
(***************************************************************************)
EXTENDS Naturals, Sequences, JobStatus

CONSTANTS
    Units,      \* how many workshops (or groups of them) the run deploys
    Kinds,      \* the runs considered: "deploy" honours control, "retry" does not
    Clients,    \* the cases considered of where control requests execute: sets
                \* of channels, "pool" or "loop" or both
    MaxReady    \* bound: operations handed to the loop and not yet run

ASSUME UnitsAssumption == Units \in Nat \ {0}
ASSUME KindsAssumption == Kinds \subseteq {"deploy", "retry"}
ASSUME ClientsAssumption == Clients \subseteq SUBSET {"pool", "loop"}
ASSUME MaxReadyAssumption == MaxReady \in Nat \ {0}

\* Definitions introduced by "Variant" are not part of the model: each is an
\* action or operator with a plausible mistake in it, which the properties of
\* this module must notice when it takes the place of the one it precedes.

VARIABLES
    kind,       \* which endpoint started the run
    channels,   \* where the job's control requests execute
    groups,     \* how many of the units are groups, which a deploy takes first
    status,     \* Job.status
    cancel,     \* Job._cancel_requested
    event,      \* Job._pause_event: "set" lets the run pass, "clear" parks it
    ready,      \* operations on event queued on the loop, in order
    pc,         \* where the run is
    done,       \* workshops processed so far
    left,       \* the run has left the loop over groups before its end
    outcome,    \* the status the run is about to report
    late        \* history: workshops started since a cancel was accepted

vars == <<kind, channels, groups, status, cancel, event, ready, pc, done, left,
          outcome, late>>

\* What is settled when the job is created.
setup == <<kind, channels, groups>>

Ops == {"set", "clear"}
Places == {"scheduled", "gate", "parked", "woken", "admitted", "working",
           "finishing", "closing", "ended"}

TypeOK ==
    /\ kind \in Kinds
    /\ channels \in Clients
    /\ groups \in 0..Units
    /\ status \in Active \cup Terminal
    /\ cancel \in BOOLEAN
    /\ event \in Ops
    /\ ready \in Seq(Ops)
    /\ pc \in Places
    /\ done \in 0..Units
    /\ left \in BOOLEAN
    /\ outcome \in Terminal
    /\ late \in Nat

Init ==
    /\ kind \in Kinds
    /\ channels \in Clients
    /\ groups \in IF kind = "deploy" THEN 0..Units ELSE {0}
    /\ status = "pending"
    /\ cancel = FALSE
    /\ event = "set"
    /\ ready = <<>>
    /\ pc = "scheduled"
    /\ done = 0
    /\ left = FALSE
    /\ outcome = "failed"
    /\ late = 0

-----------------------------------------------------------------------------
(* Control requests.                                                       *)

\* From its look at the cancel flag to the start of the worker thread, and from
\* the last workshop to the final update_job, the run's coroutine does not
\* yield, so nothing else runs on the loop.  Threads of the pool do.
LoopFree == pc \notin {"admitted", "finishing", "closing"}

\* asyncio.Event.set resolves the future a parked run waits on; a later clear
\* does not take that back.  clear only stops runs that have yet to arrive.
ApplyOp(op) ==
    /\ event' = op
    /\ pc' = IF op = "set" /\ pc = "parked" THEN "woken" ELSE pc

PauseEventOp(ch, op) ==
    \/ /\ ch = "loop"
       /\ LoopFree
       /\ ApplyOp(op)
       /\ UNCHANGED ready
    \/ /\ ch = "pool"
       /\ Len(ready) < MaxReady
       /\ ready' = Append(ready, op)
       /\ UNCHANGED <<event, pc>>

RequestCancel(ch) ==
    /\ status \in Active
    /\ cancel' = TRUE
    /\ PauseEventOp(ch, "set")
    /\ UNCHANGED <<setup, status, done, left, outcome, late>>

\* Variant: pausing forgets the event.
PauseStatusOnly(ch) ==
    /\ status = "running"
    /\ status' = "paused"
    /\ UNCHANGED <<setup, cancel, event, ready, pc, done, left, outcome, late>>

RequestPause(ch) ==
    /\ status = "running"
    /\ status' = "paused"
    /\ PauseEventOp(ch, "clear")
    /\ UNCHANGED <<setup, cancel, done, left, outcome, late>>

\* Variant: resuming forgets the event.
ResumeStatusOnly(ch) ==
    /\ status = "paused"
    /\ status' = "running"
    /\ UNCHANGED <<setup, cancel, event, ready, pc, done, left, outcome, late>>

RequestResume(ch) ==
    /\ status = "paused"
    /\ status' = "running"
    /\ PauseEventOp(ch, "set")
    /\ UNCHANGED <<setup, cancel, done, left, outcome, late>>

\* The loop runs the oldest operation handed to it.
RunCallback ==
    /\ ready # <<>>
    /\ LoopFree
    /\ ApplyOp(Head(ready))
    /\ ready' = Tail(ready)
    /\ UNCHANGED <<setup, status, cancel, done, left, outcome, late>>

-----------------------------------------------------------------------------
(* The run.                                                                *)

Start ==
    /\ pc = "scheduled"
    /\ status' = "running"
    /\ pc' = "gate"
    /\ UNCHANGED <<setup, cancel, event, ready, done, left, outcome, late>>

\* Building the target's configuration, or a workshop, raised.
Fail ==
    /\ pc \in {"scheduled", "working"}
    /\ status' = "failed"
    /\ pc' = "ended"
    /\ UNCHANGED <<setup, cancel, event, ready, done, left, outcome, late>>

\* await wait_if_paused, with the event cleared.
Park ==
    /\ kind = "deploy"
    /\ pc = "gate"
    /\ event = "clear"
    /\ pc' = "parked"
    /\ UNCHANGED <<setup, status, cancel, event, ready, done, left, outcome, late>>

\* The run is in its first loop, over the groups.
InGroups == done < groups /\ ~left

\* Variant: the cancel flag is not consulted.
PassGateRegardless ==
    /\ kind = "deploy"
    /\ \/ pc = "gate" /\ event = "set"
       \/ pc = "woken"
    /\ pc' = "admitted"
    /\ UNCHANGED <<setup, status, cancel, event, ready, done, left, outcome, late>>

\* wait_if_paused returned; is_cancel_requested, read without the lock, decides
\* between the next workshop and leaving the loop.  Out of the loop over the
\* groups the run comes to the loop over the other rows, and to its gate.
PassGate ==
    /\ kind = "deploy"
    /\ \/ pc = "gate" /\ event = "set"
       \/ pc = "woken"
    /\ pc' = IF ~cancel THEN "admitted"
              ELSE IF InGroups /\ groups < Units THEN "gate" ELSE "finishing"
    /\ left' = (left \/ cancel)
    /\ UNCHANGED <<setup, status, cancel, event, ready, done, outcome, late>>

CountStart == late' = IF cancel THEN late + 1 ELSE late

\* asyncio.to_thread hands the workshop to a worker, whatever a thread of the
\* pool has made of the flag since it was looked at.
StartUnit ==
    /\ pc = "admitted"
    /\ pc' = "working"
    /\ CountStart
    /\ UNCHANGED <<setup, status, cancel, event, ready, done, left, outcome>>

\* deploy_retry's loop consults neither the pause event nor the cancel flag.
RetryNext ==
    /\ kind = "retry"
    /\ pc = "gate"
    /\ pc' = "working"
    /\ CountStart
    /\ UNCHANGED <<setup, status, cancel, event, ready, done, left, outcome>>

\* The worker thread returned one workshop's result.
UnitDone ==
    /\ pc = "working"
    /\ done' = done + 1
    /\ pc' = IF done' = Units THEN "finishing" ELSE "gate"
    /\ UNCHANGED <<setup, status, cancel, event, ready, left, outcome, late>>

\* Variant: a cancelled run reports that it completed.
ChooseCompleted ==
    /\ pc = "finishing"
    /\ outcome' = "completed"
    /\ pc' = "closing"
    /\ UNCHANGED <<setup, status, cancel, event, ready, done, left, late>>

\* is_cancel_requested, read without the lock, picks the status to report...
ChooseOutcome ==
    /\ pc = "finishing"
    /\ outcome' = IF kind = "deploy" /\ cancel THEN "cancelled" ELSE "completed"
    /\ pc' = "closing"
    /\ UNCHANGED <<setup, status, cancel, event, ready, done, left, late>>

\* ... and update_job writes it, whatever the status is by then.
Close ==
    /\ pc = "closing"
    /\ status' = outcome
    /\ pc' = "ended"
    /\ UNCHANGED <<setup, cancel, event, ready, done, left, outcome, late>>

\* Nothing is left to happen to the job.
Ended ==
    /\ pc = "ended"
    /\ ready = <<>>
    /\ UNCHANGED vars

Run == \/ Start \/ Fail \/ Park \/ PassGate \/ StartUnit \/ RetryNext
       \/ UnitDone \/ ChooseOutcome \/ Close

Next ==
    \/ \E ch \in channels : \/ RequestCancel(ch)
                            \/ RequestPause(ch)
                            \/ RequestResume(ch)
    \/ RunCallback
    \/ Run
    \/ Ended

\* The loop keeps running its callbacks and the run's coroutine, and every
\* workshop's worker thread returns: each wait in it has a time limit.
\* Clients owe nothing.
Fairness == WF_vars(RunCallback) /\ WF_vars(Run)

Spec == Init /\ [][Next]_vars /\ Fairness
SafeSpec == Init /\ [][Next]_vars

-----------------------------------------------------------------------------
(* Properties.                                                             *)

\* The value the pause event has once the loop has run what is queued.
Settled == IF ready = <<>> THEN event ELSE ready[Len(ready)]

\* The status clients are shown and the event that really holds the run agree:
\* a running job's event ends up set, and a paused one's ends up cleared,
\* unless a cancel has been asked for since.  (request_pause, request_resume
\* and request_cancel change both under one lock, but the event possibly
\* later.)
PauseAgrees ==
    /\ status = "running" => Settled = "set"
    /\ status = "paused" /\ ~cancel => Settled = "clear"

\* A job reported as completed deployed every workshop; one that left its loop
\* early is reported as cancelled, and only when somebody asked for that.
\* (_run's two reads of is_cancel_requested and the last update_job.)
OutcomeTrue ==
    /\ status = "completed" => done = Units
    /\ status = "cancelled" => cancel

\* A finished job is never reopened: no late pause, resume or start gives it
\* another status.  (The status guards of request_pause and request_resume.)
TerminalIsFinal == [][(status \in Terminal) => (status' = status)]_vars

\* A cancel is heeded: from the moment it is accepted a deployment starts at
\* most the one workshop it had already been let through for, whatever pauses,
\* resumes and late callbacks follow; and none at all when no request comes from
\* the pool, whose threads alone can get between the look at the flag and the
\* start of the worker.  (_run_deploy_over asks is_cancel_requested once for
\* each workshop, without the lock.)
CancelStopsNewUnits ==
    kind = "deploy" =>
        /\ late <= 1
        /\ "pool" \notin channels => late = 0

\* wait_if_paused blocks "until the job is unpaused (or cancelled)": once the
\* loop has run what requests handed to it, no cancelled run is parked.
\* (It does not hold: README, section 5.)
CancelUnparks == cancel /\ ready = <<>> => pc # "parked"

\* "Cancel a running deployment.": a cancelled job starts at most the workshop it
\* was at, also when it is the job of a retry.  (It does not hold: README, section 5.)
CancelStopsRetry == late <= 1

\* A job that clients do not leave paused ends.
EventuallyEnds == <>[](status # "paused") => <>(pc = "ended")

\* The job keeps every promise of JobLifecycle.
Lifecycle == INSTANCE JobLifecycle
KeepsLifecycle == Lifecycle!Spec
=============================================================================
