------------------------------ MODULE JobEvents ------------------------------
(***************************************************************************)
(* How the clients of one job learn of its progress: every change of the   *)
(* job puts an event into its queue, and each client's stream - an SSE     *)
(* stream (event_generator) or the websocket (_send_updates) - takes       *)
(* events from that one queue, so an event reaches a single stream.        *)
(*                                                                         *)
(* An event or a sent update is abstracted to the status it carries.  The  *)
(* requests that pause and resume the job run in the threadpool and hand   *)
(* their event to the loop with call_soon_threadsafe.                      *)
(***************************************************************************)
EXTENDS Naturals, Sequences, JobStatus

CONSTANTS
    Streams,    \* the streams clients open
    Sockets,    \* those of them that are websockets
    MaxChanges  \* bound: how often the job reports progress, pauses or resumes

ASSUME StreamsAssumption == Sockets \subseteq Streams
ASSUME MaxChangesAssumption == MaxChanges \in Nat

\* Definitions introduced by "Variant" are not part of the model: each has a
\* plausible mistake in it, which the properties of this module must notice.

VARIABLES
    jobStatus,  \* Job.status
    changes,    \* changes so far
    handed,     \* events handed to the loop and not yet in the queue
    queue,      \* Job._events
    place,      \* where each stream is
    taken,      \* the event a stream has taken from the queue and not yet sent
    shown,      \* the status each client was last sent
    down        \* the server is shutting down

eventsVars == <<jobStatus, changes, handed, queue, place, taken, shown, down>>

Statuses == Active \cup Terminal

EventsTypeOK ==
    /\ jobStatus \in Statuses
    /\ changes \in 0..MaxChanges
    /\ handed \in Seq(Statuses)
    /\ queue \in Seq(Statuses)
    /\ place \in [Streams -> {"closed", "check", "waiting", "sending", "over"}]
    /\ taken \in [Streams -> Statuses \cup {"nothing"}]
    /\ shown \in [Streams -> Statuses \cup {"nothing"}]
    /\ down \in BOOLEAN

EventsInit ==
    /\ jobStatus = "pending"
    /\ changes = 0
    /\ handed = <<>>
    /\ queue = <<>>
    /\ place = [s \in Streams |-> "closed"]
    /\ taken = [s \in Streams |-> "nothing"]
    /\ shown = [s \in Streams |-> "nothing"]
    /\ down = FALSE

-----------------------------------------------------------------------------
(* The job.                                                                *)

\* update_job, on the loop: the event enters the queue at once.
Emit(st) ==
    /\ jobStatus' = st
    /\ queue' = Append(queue, st)
    /\ UNCHANGED <<handed, place, taken, shown, down>>

StartRun == jobStatus = "pending" /\ Emit("running") /\ UNCHANGED changes

\* A progress report repeats the status.
Progress ==
    /\ jobStatus \in {"running", "paused"}
    /\ changes < MaxChanges
    /\ changes' = changes + 1
    /\ Emit(jobStatus)

Finish(st) ==
    /\ jobStatus \in Active
    /\ jobStatus = "pending" => st = "failed"
    /\ Emit(st)
    /\ UNCHANGED changes

\* request_pause and request_resume: the status changes under the lock, the
\* event is handed over.
Control(from, to) ==
    /\ jobStatus = from
    /\ changes < MaxChanges
    /\ changes' = changes + 1
    /\ jobStatus' = to
    /\ handed' = Append(handed, to)
    /\ UNCHANGED <<queue, place, taken, shown, down>>

Deliver ==
    /\ handed # <<>>
    /\ queue' = Append(queue, Head(handed))
    /\ handed' = Tail(handed)
    /\ UNCHANGED <<jobStatus, changes, place, taken, shown, down>>

ShutDown == ~down /\ down' = TRUE
            /\ UNCHANGED <<jobStatus, changes, handed, queue, place, taken, shown>>

-----------------------------------------------------------------------------
(* A stream.                                                               *)

Goto(s, l) == place' = [place EXCEPT ![s] = l]
Show(s, st) == shown' = [shown EXCEPT ![s] = st]

\* The client connects and is sent the current state.
Open(s) ==
    /\ place[s] = "closed"
    /\ Goto(s, "check")
    /\ Show(s, jobStatus)
    /\ UNCHANGED <<jobStatus, changes, handed, queue, taken, down>>

\* Variant: the stream looks for a shutdown and not at the job.
CheckShutdownOnly(s) ==
    /\ place[s] = "check"
    /\ Goto(s, IF down /\ s \notin Sockets THEN "over" ELSE "waiting")
    /\ UNCHANGED <<jobStatus, changes, handed, queue, taken, shown, down>>

\* The head of the while loop.  Once the job has ended the stream sends its
\* final state; an SSE stream also ends when the server shuts down.
Check(s) ==
    /\ place[s] = "check"
    /\ \/ jobStatus \in Terminal /\ Goto(s, "over") /\ Show(s, jobStatus)
       \/ /\ jobStatus \in Active /\ UNCHANGED shown
          /\ Goto(s, IF down /\ s \notin Sockets THEN "over" ELSE "waiting")
    /\ UNCHANGED <<jobStatus, changes, handed, queue, taken, down>>

\* wait_for(queue.get()) returns an event...
Take(s) ==
    /\ place[s] = "waiting"
    /\ queue # <<>>
    /\ taken' = [taken EXCEPT ![s] = Head(queue)]
    /\ queue' = Tail(queue)
    /\ Goto(s, "sending")
    /\ UNCHANGED <<jobStatus, changes, handed, shown, down>>

\* ... or nothing for 30 seconds: a keepalive is sent.
Timeout(s) ==
    /\ place[s] = "waiting"
    /\ queue = <<>>
    /\ Goto(s, "check")
    /\ UNCHANGED <<jobStatus, changes, handed, queue, taken, shown, down>>

\* The statuses after which a stream does not look at the job again.
Last(s) == IF s \in Sockets THEN Terminal ELSE {"completed", "failed"}

Send(s) ==
    /\ place[s] = "sending"
    /\ Show(s, taken[s])
    /\ taken' = [taken EXCEPT ![s] = "nothing"]
    /\ Goto(s, IF taken[s] \in Last(s) THEN "over" ELSE "check")
    /\ UNCHANGED <<jobStatus, changes, handed, queue, down>>

\* The client goes away, with whatever its stream had taken; it may come back.
Leave(s) ==
    /\ place[s] # "closed"
    /\ Goto(s, "closed")
    /\ taken' = [taken EXCEPT ![s] = "nothing"]
    /\ UNCHANGED <<jobStatus, changes, handed, queue, shown, down>>

Stream(s) == Check(s) \/ Take(s) \/ Timeout(s) \/ Send(s)

EventsNext ==
    \/ StartRun \/ Progress \/ Deliver \/ ShutDown
    \/ \E st \in Terminal : Finish(st)
    \/ Control("running", "paused") \/ Control("paused", "running")
    \/ \E s \in Streams : Open(s) \/ Stream(s) \/ Leave(s)

\* The loop runs what it is handed and serves every stream; a get without an
\* event runs into its time limit.  Neither jobs nor clients owe anything.
EventsSpec == EventsInit /\ [][EventsNext]_eventsVars /\ WF_eventsVars(Deliver)
             /\ \A s \in Streams : WF_eventsVars(Stream(s))

-----------------------------------------------------------------------------
(* Properties.                                                             *)

\* A stream that is over has sent how the job ended, whichever stream took
\* the event that said so; only a shutdown ends a stream before that.
ClosedKnowsOutcome ==
    \A s \in Streams :
        place[s] = "over" =>
            \/ jobStatus \in Terminal /\ shown[s] = jobStatus
            \/ down /\ s \notin Sockets

\* No client is shown a job as going on after it was shown as ended, although
\* events of earlier changes may still be in the queue.
NoReopening ==
    [][\A s \in Streams : shown[s] \in Terminal => shown'[s] = shown[s]]_eventsVars

\* Every client that stays until the job ends learns of it: an event taken by another
\* stream delays the news by one timeout.
EveryClientHears ==
    \A s \in Streams :
        (place[s] # "closed" /\ jobStatus \in Terminal) ~>
            (shown[s] = jobStatus \/ place[s] = "closed" \/ down)
=============================================================================
