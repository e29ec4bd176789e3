---------------------------- MODULE WorkshopDeploy ----------------------------
(***************************************************************************)
(* What rhdp_flow.py does for one schedule row (process_schedule), with    *)
(* several deployments at the same time in one namespace, by the worker    *)
(* threads of several jobs.  A deployment is of one row; deploy_retry      *)
(* deploys every row with a name again, whatever became of it and even     *)
(* while it is being deployed, so any of them may be of the same row.      *)
(*                                                                         *)
(* A row is deployed as a Workshop with a WorkshopProvision, as a Workshop *)
(* with one provision per AWS region, or as a ResourceClaim.  Workshops    *)
(* and claims are made with `oc create` and a generateName, through        *)
(* run_oc_with_retries; the cluster is not part of the repository.  What   *)
(* it made is numbered in the order it was made.  The rows share a catalog *)
(* item, so they share the prefix of their names.  Multi-asset rows are    *)
(* the subject of MultiWorkshop.  Of Showroom there is only what it does   *)
(* to a deployment: when its set-up raises, the deployment is an error.    *)
(***************************************************************************)
EXTENDS Naturals, Sequences, FiniteSets, Functions

CONSTANTS
    Deployments,    \* the deployments, each of a schedule row
    Shapes,     \* how rows may be deployed: "workshop", "regions" or "claim"
    Regions,    \* how many regions a row of shape "regions" names
    Attempts,   \* config.retry_attempts
    MaxDestroyed,   \* bound: how many Workshops and claims the cluster removes
    FaultSets   \* the cases considered of what may go wrong with oc

ASSUME ShapesAssumption == Shapes \subseteq {"workshop", "regions", "claim"}
ASSUME RegionsAssumption == Regions \in Nat \ {0, 1}
ASSUME AttemptsAssumption == Attempts \in Nat \ {0}
ASSUME MaxDestroyedAssumption == MaxDestroyed \in Nat
\* "lost":      oc create takes effect, and its answer is lost
\* "unnamed":   oc create succeeds, and its output does not name what it made
\* "exists":    oc create is refused because the name is taken
\* "provision": creating a WorkshopProvision fails
\* "get":       oc get fails
\* "showroom":  deploy_showroom raises before it gets to its own error handling
ASSUME FaultSetsAssumption ==
    FaultSets \subseteq SUBSET {"lost", "unnamed", "exists", "provision", "get", "showroom"}

\* Definitions introduced by "Variant" are not part of the model: each has a
\* plausible mistake in it, which the properties of this module must notice.

VARIABLES
    faults,     \* what may go wrong
    shape,      \* how the row of each deployment is deployed
    pc,         \* where each deployment is
    attempt,    \* which attempt at oc create it is at
    todo,       \* how many provisions it has still to create
    guid,       \* what it takes for its own; 0 stands for a name nothing has
    status,     \* DeploymentResult.status
    made,       \* the deployments that made the Workshops and claims, in order
    live,       \* those of them that exist
    provisions  \* the WorkshopProvisions: for which Workshop, and which region

vars == <<faults, shape, pc, attempt, todo, guid, status, made, live,
          provisions>>
setup == <<faults, shape>>
cluster == <<made, live, provisions>>

Places == {"idle", "creating", "looking", "provisioning", "verifying", "over"}
Failed == {"failed", "error"}
Deployed == {"deployed_unverified", "verified"}

TypeOK ==
    /\ faults \in FaultSets
    /\ shape \in [Deployments -> Shapes]
    /\ pc \in [Deployments -> Places]
    /\ attempt \in [Deployments -> 1..Attempts]
    /\ todo \in [Deployments -> 0..Regions]
    /\ guid \in [Deployments -> 0..Len(made)]
    /\ status \in [Deployments -> Failed \cup Deployed \cup {"none"}]
    /\ made \in Seq(Deployments)
    /\ live \subseteq 1..Len(made)
    /\ provisions \subseteq [workshop : 1..Len(made), region : 1..Regions]

Init ==
    /\ faults \in FaultSets
    /\ shape \in [Deployments -> Shapes]
    /\ pc = [d \in Deployments |-> "idle"]
    /\ attempt = [d \in Deployments |-> 1]
    /\ todo = [d \in Deployments |-> 0]
    /\ guid = [d \in Deployments |-> 0]
    /\ status = [d \in Deployments |-> "none"]
    /\ made = <<>>
    /\ live = {}
    /\ provisions = {}

-----------------------------------------------------------------------------
(* The beginning and the end of a deployment.                              *)

GoTo(d, place) == pc' = [pc EXCEPT ![d] = place]

Report(d, s) ==
    /\ GoTo(d, "over")
    /\ status' = [status EXCEPT ![d] = s]

\* How many provisions a deployment is to make.
Parts(d) == CASE shape[d] = "workshop" -> 1
              [] shape[d] = "regions"  -> Regions
              [] OTHER                 -> 0

Deploy(d) ==
    /\ pc[d] = "idle"
    /\ GoTo(d, "creating")
    /\ todo' = [todo EXCEPT ![d] = Parts(d)]
    /\ UNCHANGED <<setup, attempt, guid, status, cluster>>

\* The row asks for more users than the catalog allows, or its payload cannot
\* be built.
Reject(d) ==
    /\ pc[d] = "idle"
    /\ \E s \in Failed : Report(d, s)
    /\ UNCHANGED <<setup, attempt, todo, guid, cluster>>

-----------------------------------------------------------------------------
(* create_workshop_with_ui and create_resource_claim_via_oc.               *)

IsWorkshop(i) == shape[made[i]] # "claim"

\* Variant: a claim's way to go on is everybody's.
StraightToVerify(d) == "verifying"

AfterCreate(d) == IF shape[d] = "claim" THEN "verifying" ELSE "provisioning"

\* The cluster makes the Workshop or the claim.
Make(d) ==
    /\ made' = Append(made, d)
    /\ live' = live \cup {Len(made')}
    /\ UNCHANGED provisions

\* Variant: the name in oc's answer is not used.
CreateAsUnnamed(d) ==
    /\ pc[d] = "creating"
    /\ Make(d)
    /\ GoTo(d, "looking")
    /\ UNCHANGED <<setup, attempt, todo, guid, status>>

Create(d) ==
    /\ pc[d] = "creating"
    /\ Make(d)
    /\ guid' = [guid EXCEPT ![d] = Len(made')]
    /\ GoTo(d, AfterCreate(d))
    /\ UNCHANGED <<setup, attempt, todo, status>>

CreateUnnamed(d) ==
    /\ "unnamed" \in faults
    /\ pc[d] = "creating"
    /\ Make(d)
    /\ GoTo(d, "looking")
    /\ UNCHANGED <<setup, attempt, todo, guid, status>>

\* run_oc_with_retries after a timeout or a transient error.
TryAgain(d) ==
    IF attempt[d] < Attempts
    THEN /\ attempt' = [attempt EXCEPT ![d] = @ + 1]
         /\ UNCHANGED <<pc, status>>
    ELSE Report(d, "failed") /\ UNCHANGED attempt

CreateTransient(d) ==
    /\ pc[d] = "creating"
    /\ TryAgain(d)
    /\ \/ UNCHANGED cluster
       \/ "lost" \in faults /\ Make(d)
    /\ UNCHANGED <<setup, todo, guid>>

CreateRefused(d) ==
    /\ pc[d] = "creating"
    /\ Report(d, "failed")
    /\ UNCHANGED <<setup, attempt, todo, guid, cluster>>

\* "already exists" counts as success, under the name that was asked for:
\* with a generateName, the prefix.
CreateExists(d) ==
    /\ "exists" \in faults
    /\ pc[d] = "creating"
    /\ shape[d] # "claim"
    /\ GoTo(d, "provisioning")
    /\ UNCHANGED <<setup, attempt, todo, guid, status, cluster>>

\* The Workshop taken for the one just created is the newest in the namespace.
LookForWorkshop(d) ==
    /\ pc[d] = "looking"
    /\ shape[d] # "claim"
    /\ \E i \in live :
          /\ IsWorkshop(i)
          /\ \A j \in live : IsWorkshop(j) => j <= i
          /\ guid' = [guid EXCEPT ![d] = i]
    /\ GoTo(d, "provisioning")
    /\ UNCHANGED <<setup, attempt, todo, status, cluster>>

\* There is none, or the look fails: the deployment counts as failed.
LookInVain(d) ==
    /\ pc[d] = "looking"
    /\ shape[d] # "claim"
    /\ "get" \in faults \/ ~\E i \in live : IsWorkshop(i)
    /\ Report(d, "failed")
    /\ UNCHANGED <<setup, attempt, todo, guid, cluster>>

\* get_resourceclaim_name_from_cluster takes the first claim whose name begins
\* with the prefix; without one the name is made up.
LookForClaim(d) ==
    /\ pc[d] = "looking"
    /\ shape[d] = "claim"
    /\ LET claims == {i \in live : ~IsWorkshop(i)}
       IN  \E i \in claims \cup IF claims = {} \/ "get" \in faults THEN {0} ELSE {} :
              guid' = [guid EXCEPT ![d] = i]
    /\ GoTo(d, "verifying")
    /\ UNCHANGED <<setup, attempt, todo, status, cluster>>

-----------------------------------------------------------------------------
(* create_workshop_provision and verify_deployment.                        *)

\* A WorkshopProvision has the name of its Workshop, whatever its region.
NameTaken(w) == \E p \in provisions : p.workshop = w

\* oc create is tried once, and what comes of it is not looked at.
Provision(d) ==
    /\ pc[d] = "provisioning"
    /\ LET new == [workshop |-> guid[d], region |-> 1 + Parts(d) - todo[d]]
       IN  \/ guid[d] # 0 /\ ~NameTaken(guid[d]) /\ provisions' = provisions \cup {new}
           \/ /\ guid[d] = 0 \/ NameTaken(guid[d]) \/ "provision" \in faults
              /\ UNCHANGED provisions
    /\ todo' = [todo EXCEPT ![d] = @ - 1]
    /\ IF todo'[d] = 0 /\ shape[d] = "regions"
       THEN Report(d, "deployed_unverified")
       ELSE /\ GoTo(d, IF todo'[d] = 0 THEN "verifying" ELSE "provisioning")
            /\ UNCHANGED status
    /\ UNCHANGED <<setup, attempt, guid, made, live>>

\* Variant: only a claim counts.
FindingsOfClaims(d) ==
    IF guid[d] \in live /\ shape[d] = "claim" THEN Deployed ELSE {"failed"}

\* Variant: the look is taken again until there is something to find.
FindingsAwaited(d) == IF guid[d] \in live THEN Deployed ELSE {}

\* A claim may be healthy or not yet; a Workshop is only looked for.  When a
\* look fails its error counts as "not found", its time limit as "found".
Findings(d) ==
    (CASE guid[d] \notin live                    -> {"failed"}
       [] guid[d] \in live /\ shape[d] = "claim" -> Deployed
       [] OTHER                                  -> {"deployed_unverified"})
    \cup IF "get" \in faults THEN {"failed", "deployed_unverified"} ELSE {}

Verify(d) ==
    /\ pc[d] = "verifying"
    /\ \E s \in Findings(d) : Report(d, s)
    /\ UNCHANGED <<setup, attempt, todo, guid, cluster>>

\* Showroom comes after the verification.  Its own failures are only noted; but
\* what it raises before it gets that far makes an error of the deployment,
\* whatever was found, and of the name of what it made.
ShowroomFails(d) ==
    /\ "showroom" \in faults
    /\ pc[d] = "verifying"
    /\ Report(d, "error")
    /\ guid' = [guid EXCEPT ![d] = 0]
    /\ UNCHANGED <<setup, attempt, todo, cluster>>

-----------------------------------------------------------------------------
\* The cluster removes what is due for auto-destroy or deleted by its owner.
Destroy(i) ==
    /\ Len(made) - Cardinality(live) < MaxDestroyed
    /\ live' = live \ {i}
    /\ provisions' = {p \in provisions : p.workshop # i}
    /\ UNCHANGED <<setup, pc, attempt, todo, guid, status, made>>

Step(d) ==
    \/ Create(d) \/ CreateUnnamed(d) \/ CreateTransient(d) \/ CreateRefused(d)
    \/ CreateExists(d) \/ LookForWorkshop(d) \/ LookInVain(d) \/ LookForClaim(d)
    \/ Provision(d) \/ Verify(d) \/ ShowroomFails(d)

Next ==
    \/ \E d \in Deployments : Deploy(d) \/ Reject(d) \/ Step(d)
    \/ \E i \in live : Destroy(i)

\* Every oc call has a time limit, so a worker thread goes on.
Spec == Init /\ [][Next]_vars /\ \A d \in Deployments : WF_vars(Step(d))

-----------------------------------------------------------------------------
(* Properties.                                                             *)

Of(d) == {i \in 1..Len(made) : made[i] = d}

\* None of the given faults can happen.
Without(fs) == faults \cap fs = {}

\* What a deployment is reported to be was made by it, whichever other deployments,
\* of the same row or others, go on in the namespace at the time.
DeployedIsOwn ==
    Without({"unnamed", "exists"}) =>
        \A d \in Deployments : status[d] \in Deployed => guid[d] \in Of(d)

\* A failed deployment has left nothing in the cluster, so that its row can be
\* retried without being deployed twice over; and no deployment, with all its
\* attempts, has two objects there: if no answer is lost, the look at the cluster
\* does not fail, and Showroom does not raise.
RetryIsSafe ==
    Without({"lost", "unnamed", "get", "showroom"}) =>
        \A d \in Deployments : /\ status[d] \in Failed => Of(d) \cap live = {}
                              /\ Cardinality(Of(d) \cap live) <= 1

\* Whatever goes wrong, a deployment makes at most retry_attempts Workshops or
\* claims.
AttemptsBounded == \A d \in Deployments : Cardinality(Of(d)) <= Attempts

\* A Workshop that is reported as deployed and still exists has a provision to
\* fill it, if creating provisions does not fail.
DeployedIsProvisioned ==
    Without({"provision"}) =>
        \A d \in Deployments :
            (status[d] \in Deployed /\ shape[d] # "claim" /\ guid[d] \in live) =>
                \E p \in provisions : p.workshop = guid[d]

\* The Workshop that is looked for, as oc has not named it, is the one the
\* deployment just created.  (It does not hold: README, section 5.)
FindsTheOneCreated ==
    \A d \in Deployments :
        (pc[d] = "provisioning" /\ guid[d] # 0) => guid[d] \in Of(d)

\* A deployment that is reported as failed since nothing was found after the
\* creation did not persist.  (It does not hold: README, section 5.)
FailureIsHonest ==
    \A d \in Deployments : status[d] = "failed" => guid[d] \notin live

\* Each deployment comes to an end.
DeploymentsEnd == \A d \in Deployments : (pc[d] = "creating") ~> (pc[d] = "over")
=============================================================================
