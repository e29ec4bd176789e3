----------------------------- MODULE JobLifecycle -----------------------------
(***************************************************************************)
(* What a deployment job of api/jobs.py promises the client that polls it, *)
(* without the event loop, the pause event or the threads: a status that   *)
(* starts pending, alternates between running and paused while workshops   *)
(* are counted off, and ends once, in a status that tells the truth.       *)
(***************************************************************************)
EXTENDS Naturals

CONSTANT Units      \* how many workshops the job is to deploy

VARIABLES
    status,     \* what GET /deploy/status shows
    cancel,     \* a cancel request has been accepted
    done        \* workshops processed

vars == <<status, cancel, done>>

Open == {"pending", "running", "paused"}

Init == status = "pending" /\ cancel = FALSE /\ done = 0

Begin == status = "pending" /\ status' = "running" /\ UNCHANGED <<cancel, done>>

Suspend == status = "running" /\ status' = "paused" /\ UNCHANGED <<cancel, done>>

Continue == status = "paused" /\ status' = "running" /\ UNCHANGED <<cancel, done>>

AcceptCancel == status \in Open /\ cancel' = TRUE /\ UNCHANGED <<status, done>>

\* The workshop in flight when a job is paused still completes.
CountUnit ==
    /\ status \in {"running", "paused"}
    /\ done < Units
    /\ done' = done + 1
    /\ UNCHANGED <<status, cancel>>

Finish(s) ==
    /\ status \in Open
    /\ s = "completed" => done = Units
    /\ s = "cancelled" => cancel
    /\ status' = s
    /\ UNCHANGED <<cancel, done>>

Next ==
    \/ Begin \/ Suspend \/ Continue \/ AcceptCancel \/ CountUnit
    \/ \E s \in {"completed", "failed", "cancelled"} : Finish(s)

Spec == Init /\ [][Next]_vars
=============================================================================
