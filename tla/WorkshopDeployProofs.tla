------------------------- MODULE WorkshopDeployProofs -------------------------
(* Proofs about WorkshopDeploy: for any number of deployments, regions and       *)
(* attempts, a deployment makes at most so many objects as it has attempts, and  *)
(* what it is reported to be was made by it.                                     *)
EXTENDS WorkshopDeploy, FiniteSetTheorems, TLAPS

Types ==
    /\ faults \in FaultSets
    /\ shape \in [Deployments -> Shapes]
    /\ pc \in [Deployments -> Places]
    /\ attempt \in [Deployments -> 1..Attempts]
    /\ guid \in [Deployments -> Nat]
    /\ status \in [Deployments -> Failed \cup Deployed \cup {"none"}]
    /\ made \in Seq(Deployments)
    /\ live \subseteq Nat

\* The attempts that a deployment has left, the present one included.
Left(r) == CASE pc[r] = "idle"     -> Attempts
             [] pc[r] = "creating" -> Attempts - attempt[r] + 1
             [] OTHER              -> 0

\* Every object has taken an attempt, and none is taken before the beginning.
CountInv ==
    \A r \in Deployments : /\ pc[r] = "idle" => attempt[r] = 1
                          /\ Cardinality(Of(r)) <= Attempts - Left(r)

\* A deployment that has got beyond the creation goes by an object of its own.
OwnInv ==
    Without({"unnamed", "exists"}) =>
        \A r \in Deployments :
            /\ pc[r] # "looking"
            /\ pc[r] \in {"provisioning", "verifying"} \/ status[r] \in Deployed
                 => guid[r] \in Of(r)

DeployedIsOver == \A r \in Deployments : status[r] \in Deployed => pc[r] = "over"

IInv == Types /\ CountInv /\ OwnInv /\ DeployedIsOver

USE DEF Places, Failed, Deployed, setup, cluster, GoTo
-----------------------------------------------------------------------------
(* What a deployment has made. *)

LEMMA OfIsFinite ==
    ASSUME made \in Seq(Deployments), NEW r \in Deployments
    PROVE  IsFiniteSet(Of(r)) /\ Cardinality(Of(r)) \in Nat
  <1>1. Of(r) \subseteq 1..Len(made) /\ Len(made) \in Nat
    BY DEF Of
  <1>2. IsFiniteSet(1..Len(made))
    BY <1>1, FS_Interval
  <1>3. IsFiniteSet(Of(r))
    BY <1>1, <1>2, FS_Subset
  <1> QED
    BY <1>3, FS_CardinalityType

\* Making one more object adds it to those of its deployment, and to no other's.
LEMMA OfAfterMake ==
    ASSUME made \in Seq(Deployments), NEW r \in Deployments, made' = Append(made, r)
    PROVE  /\ Of(r)' = Of(r) \cup {Len(made')}
           /\ Cardinality(Of(r)') = Cardinality(Of(r)) + 1
           /\ \A q \in Deployments \ {r} : Of(q)' = Of(q)
  <1>1. /\ Len(made') = Len(made) + 1 /\ Len(made) \in Nat
        /\ made'[Len(made) + 1] = r
        /\ \A i \in 1..Len(made) : made'[i] = made[i]
    OBVIOUS
  <1>2. Of(r)' = Of(r) \cup {Len(made')}
    BY <1>1 DEF Of
  <1>3. Len(made') \notin Of(r)
    BY <1>1 DEF Of
  <1>4. \A q \in Deployments \ {r} : Of(q)' = Of(q)
    BY <1>1 DEF Of
  <1> QED
    BY <1>2, <1>3, <1>4, OfIsFinite, FS_AddElement

LEMMA MakeTypes ==
    ASSUME made \in Seq(Deployments), live \subseteq Nat, NEW r \in Deployments, Make(r)
    PROVE  made' \in Seq(Deployments) /\ live' \subseteq Nat
  <1>1. made' = Append(made, r) /\ live' = live \cup {Len(made')}
    BY DEF Make
  <1>2. made' \in Seq(Deployments) /\ Len(made') \in Nat
    BY <1>1
  <1> QED
    BY <1>1, <1>2

\* A step that makes nothing keeps the count if no attempts come back, and one that
\* makes an object does if it takes an attempt.
LEMMA CountKept ==
    ASSUME IInv, Types', NEW r \in Deployments, pc'[r] # "idle",
           \A q \in Deployments \ {r} : Left(q)' = Left(q) /\ pc'[q] = pc[q] /\ attempt'[q] = attempt[q],
           \/ UNCHANGED made /\ Left(r)' <= Left(r)
           \/ made' = Append(made, r) /\ Left(r)' + 1 <= Left(r)
    PROVE  CountInv'
  <1> USE DEF IInv
  <1>0. /\ \A q \in Deployments : Cardinality(Of(q)) \in Nat /\ Left(q) \in Int
        /\ Left(r)' \in Int /\ Attempts \in Nat
    BY OfIsFinite, AttemptsAssumption DEF Types, Left
  <1>1. CASE UNCHANGED made /\ Left(r)' <= Left(r)
    <2>1. \A q \in Deployments : Of(q)' = Of(q)
      BY <1>1 DEF Of
    <2> QED
      BY <1>0, <1>1, <2>1 DEF CountInv
  <1>2. CASE made' = Append(made, r) /\ Left(r)' + 1 <= Left(r)
    <2>1. /\ Cardinality(Of(r)') = Cardinality(Of(r)) + 1
          /\ \A q \in Deployments \ {r} : Of(q)' = Of(q)
      BY <1>2, OfAfterMake DEF Types
    <2> QED
      BY <1>0, <1>2, <2>1 DEF CountInv
  <1> QED
    BY <1>1, <1>2

\* What a deployment has made stays so.
LEMMA OfGrows ==
    ASSUME Types, NEW r \in Deployments, made' \in {made, Append(made, r)}, NEW q \in Deployments
    PROVE  Of(q) \subseteq Of(q)'
  <1>1. CASE made' = made
    BY <1>1 DEF Of
  <1>2. CASE made' = Append(made, r)
    BY <1>2, OfAfterMake DEF Types
  <1> QED
    BY <1>1, <1>2
-----------------------------------------------------------------------------
LEMMA InitIInv == Init => IInv
  <1> SUFFICES ASSUME Init PROVE IInv
    OBVIOUS
  <1>1. Types
    BY AttemptsAssumption DEF Init, Types
  <1>2. \A r \in Deployments : Of(r) = {}
    BY DEF Init, Of
  <1>3. \A r \in Deployments : Cardinality(Of(r)) = 0
    BY <1>2, FS_EmptySet
  <1>4. \A r \in Deployments : Left(r) = Attempts /\ attempt[r] = 1
    BY AttemptsAssumption DEF Init, Left
  <1>5. CountInv
    BY <1>3, <1>4, AttemptsAssumption DEF CountInv
  <1>6. OwnInv /\ DeployedIsOver
    BY DEF Init, OwnInv, DeployedIsOver
  <1> QED
    BY <1>1, <1>5, <1>6 DEF IInv

\* What a step of r may change: nothing of the other deployments.
OnlyOf(r) ==
    /\ faults' = faults
    /\ \A q \in Deployments \ {r} :
          /\ pc'[q] = pc[q]
          /\ attempt'[q] = attempt[q]
          /\ guid'[q] = guid[q]
          /\ status'[q] = status[q]

\* A step of r makes nothing, or one object with an attempt that is thereby used up.
MakesAllowed(r) ==
    \/ made' = made /\ Left(r)' <= Left(r)
    \/ made' = Append(made, r) /\ Left(r)' + 1 <= Left(r)

\* Deployment r comes to go by an object of its own, or by none yet.
KeepsOwn(r) ==
    /\ status'[r] \in Deployed => pc'[r] = "over"
    /\ Without({"unnamed", "exists"}) =>
          /\ pc'[r] # "looking"
          /\ pc'[r] \in {"provisioning", "verifying"} \/ status'[r] \in Deployed
               => guid'[r] \in Of(r)'

LEMMA StepKeeps ==
    ASSUME IInv, NEW r \in Deployments, Types', OnlyOf(r), MakesAllowed(r), KeepsOwn(r),
           pc'[r] # "idle"
    PROVE  IInv'
  <1> USE DEF IInv, OnlyOf, MakesAllowed, KeepsOwn
  <1>1. \A q \in Deployments \ {r} : Left(q)' = Left(q)
    BY DEF Left
  <1>2. CountInv'
    BY <1>1, CountKept
  <1>3. \A q \in Deployments : Of(q) \subseteq Of(q)'
    BY OfGrows
  <1>4. OwnInv'
    BY <1>3 DEF OwnInv, Without
  <1>5. DeployedIsOver'
    BY DEF DeployedIsOver
  <1> QED
    BY <1>2, <1>4, <1>5

LEMMA DeployKeeps == ASSUME IInv, NEW r \in Deployments, Deploy(r) \/ Reject(r) PROVE IInv'
  <1> USE AttemptsAssumption DEF IInv, Types, Deploy, Reject, Report
  <1>1. Types' /\ pc'[r] \in {"creating", "over"} /\ status'[r] \notin Deployed
    BY DEF DeployedIsOver
  <1>2. OnlyOf(r)
    BY DEF OnlyOf
  <1>3. KeepsOwn(r)
    BY <1>1 DEF KeepsOwn
  <1>4. made' = made /\ Left(r)' <= Left(r)
    BY <1>1 DEF Left, CountInv
  <1> HIDE DEF IInv, Types, Deploy, Reject
  <1> QED
    BY <1>1, <1>2, <1>3, <1>4, StepKeeps DEF MakesAllowed

LEMMA StepInvariant == ASSUME IInv, NEW r \in Deployments, Step(r) PROVE IInv'
  <1> USE AttemptsAssumption DEF IInv, Types, Left, Report
  <1> USE DEF MakesAllowed
  <1>0. faults' = faults /\ pc'[r] # "idle"
    BY DEF Step, Create, CreateUnnamed, CreateTransient, CreateRefused, CreateExists, TryAgain,
           AfterCreate, LookForWorkshop, LookInVain, LookForClaim, Provision, Verify, ShowroomFails
  <1>1. CASE Create(r)
    <2>1. Len(made') \in Nat /\ Len(made') \in Of(r)'
      BY <1>1, OfAfterMake DEF Create, Make
    <2>2. made' \in Seq(Deployments) /\ live' \subseteq Nat
      BY <1>1, MakeTypes DEF Create
    <2>5. Types' /\ OnlyOf(r)
      BY <1>0, <1>1, <2>1, <2>2 DEF Create, AfterCreate, OnlyOf
    <2>3. KeepsOwn(r)
      BY <1>1, <2>1 DEF Create, AfterCreate, KeepsOwn, DeployedIsOver
    <2>4. made' = Append(made, r) /\ Left(r)' + 1 <= Left(r)
      BY <1>1 DEF Create, Make, AfterCreate
    <2> QED
      BY <1>0, <2>3, <2>4, <2>5, StepKeeps
  <1>2. CASE CreateUnnamed(r)
    <2>0. made' \in Seq(Deployments) /\ live' \subseteq Nat
      BY <1>2, MakeTypes DEF CreateUnnamed
    <2>1. Types' /\ OnlyOf(r)
      BY <1>0, <1>2, <2>0 DEF CreateUnnamed, OnlyOf
    <2>2. KeepsOwn(r)
      BY <1>2 DEF CreateUnnamed, KeepsOwn, Without, DeployedIsOver
    <2>3. made' = Append(made, r) /\ Left(r)' + 1 <= Left(r)
      BY <1>2 DEF CreateUnnamed, Make
    <2> QED
      BY <1>0, <2>1, <2>2, <2>3, StepKeeps
  <1>3. CASE CreateTransient(r)
    <2>0. /\ attempt' \in [Deployments -> 1..Attempts]
          /\ pc' \in [Deployments -> Places]
          /\ status' \in [Deployments -> Failed \cup Deployed \cup {"none"}]
          /\ OnlyOf(r)
      <3>1. CASE attempt[r] < Attempts
        <4>1. attempt[r] + 1 \in 1..Attempts
          BY <3>1
        <4>2. attempt' = [attempt EXCEPT ![r] = attempt[r] + 1] /\ pc' = pc /\ status' = status
          BY <1>3, <3>1 DEF CreateTransient, TryAgain
        <4> QED
          BY <1>0, <1>3, <4>1, <4>2 DEF CreateTransient, OnlyOf
      <3>2. CASE ~(attempt[r] < Attempts)
        BY <1>0, <1>3, <3>2 DEF CreateTransient, TryAgain, OnlyOf
      <3> QED
        BY <3>1, <3>2
    <2>1. Types'
      <3>1. made' \in Seq(Deployments) /\ live' \subseteq Nat
        BY <1>3, MakeTypes DEF CreateTransient
      <3> QED
        BY <1>0, <1>3, <2>0, <3>1 DEF CreateTransient
    <2>2. pc[r] = "creating" /\ pc'[r] \in {"creating", "over"} /\ status'[r] \notin Deployed
      BY <1>3 DEF CreateTransient, TryAgain, DeployedIsOver
    <2>3. KeepsOwn(r)
      BY <2>2 DEF KeepsOwn
    <2>4. Left(r)' + 1 <= Left(r) /\ Left(r)' <= Left(r)
      BY <1>3, <2>0 DEF CreateTransient, TryAgain
    <2>5. made' \in {made, Append(made, r)}
      BY <1>3 DEF CreateTransient, Make
    <2> HIDE DEF IInv, Types, Left
    <2> QED
      BY <1>0, <2>0, <2>1, <2>3, <2>4, <2>5, StepKeeps
  <1>4. CASE CreateRefused(r)
    <2>1. Types' /\ OnlyOf(r) /\ KeepsOwn(r)
      BY <1>0, <1>4 DEF CreateRefused, OnlyOf, KeepsOwn
    <2>2. made' = made /\ Left(r)' <= Left(r)
      BY <1>4 DEF CreateRefused
    <2> QED
      BY <1>0, <2>1, <2>2, StepKeeps
  <1>5. CASE CreateExists(r)
    <2>1. Types' /\ OnlyOf(r) /\ KeepsOwn(r)
      BY <1>0, <1>5 DEF CreateExists, OnlyOf, KeepsOwn, Without, DeployedIsOver
    <2>2. made' = made /\ Left(r)' <= Left(r)
      BY <1>5 DEF CreateExists
    <2> QED
      BY <1>0, <2>1, <2>2, StepKeeps
  <1>6. CASE LookForWorkshop(r)
    <2>1. Types' /\ OnlyOf(r)
      BY <1>0, <1>6 DEF LookForWorkshop, OnlyOf
    <2>2. KeepsOwn(r)
      BY <1>6 DEF LookForWorkshop, KeepsOwn, OwnInv, Without, DeployedIsOver
    <2>3. made' = made /\ Left(r)' <= Left(r)
      BY <1>6 DEF LookForWorkshop
    <2> QED
      BY <1>0, <2>1, <2>2, <2>3, StepKeeps
  <1>7. CASE LookInVain(r)
    <2>1. Types' /\ OnlyOf(r) /\ KeepsOwn(r)
      BY <1>0, <1>7 DEF LookInVain, OnlyOf, KeepsOwn
    <2>2. made' = made /\ Left(r)' <= Left(r)
      BY <1>7 DEF LookInVain
    <2> QED
      BY <1>0, <2>1, <2>2, StepKeeps
  <1>8. CASE LookForClaim(r)
    <2>1. Types' /\ OnlyOf(r)
      BY <1>0, <1>8 DEF LookForClaim, OnlyOf
    <2>2. KeepsOwn(r)
      BY <1>8 DEF LookForClaim, KeepsOwn, OwnInv, Without, DeployedIsOver
    <2>3. made' = made /\ Left(r)' <= Left(r)
      BY <1>8 DEF LookForClaim
    <2> QED
      BY <1>0, <2>1, <2>2, <2>3, StepKeeps
  <1>9. CASE Provision(r)
    <2>1. Types' /\ OnlyOf(r)
      BY <1>0, <1>9 DEF Provision, OnlyOf
    <2>2. made' = made /\ Left(r)' <= Left(r) /\ guid' = guid /\ Of(r)' = Of(r)
      BY <1>9 DEF Provision, Of
    <2>3. /\ pc[r] = "provisioning" /\ pc'[r] \in {"provisioning", "verifying", "over"}
          /\ status'[r] \in Deployed => pc'[r] = "over"
      BY <1>9 DEF Provision, DeployedIsOver
    <2>4. KeepsOwn(r)
      BY <1>0, <2>2, <2>3 DEF KeepsOwn, OwnInv, Without
    <2> QED
      BY <1>0, <2>1, <2>2, <2>4, StepKeeps
  <1>10. CASE Verify(r)
    <2>1. PICK s \in Failed \cup Deployed : Report(r, s)
      BY <1>10 DEF Verify, Findings
    <2>2. Types' /\ OnlyOf(r)
      BY <1>0, <1>10, <2>1 DEF Verify, OnlyOf
    <2>3. made' = made /\ Left(r)' <= Left(r) /\ guid' = guid /\ Of(r)' = Of(r)
      BY <1>10, <2>1 DEF Verify, Of
    <2>4. KeepsOwn(r)
      BY <1>10, <2>1, <2>3 DEF Verify, KeepsOwn, OwnInv, Without
    <2> QED
      BY <1>0, <2>2, <2>3, <2>4, StepKeeps
  <1>11. CASE ShowroomFails(r)
    <2>1. Types' /\ OnlyOf(r) /\ KeepsOwn(r)
      BY <1>0, <1>11 DEF ShowroomFails, OnlyOf, KeepsOwn
    <2>2. made' = made /\ Left(r)' <= Left(r)
      BY <1>11 DEF ShowroomFails
    <2> QED
      BY <1>0, <2>1, <2>2, StepKeeps
  <1> QED
    BY <1>1, <1>2, <1>3, <1>4, <1>5, <1>6, <1>7, <1>8, <1>9, <1>10, <1>11 DEF Step

LEMMA NextIInv == IInv /\ [Next]_vars => IInv'
  <1> SUFFICES ASSUME IInv, [Next]_vars PROVE IInv'
    OBVIOUS
  <1>1. ASSUME NEW i \in live, Destroy(i) PROVE IInv'
    BY <1>1 DEF Destroy, IInv, Types, CountInv, Left, OwnInv, Without, DeployedIsOver, Of
  <1>2. CASE UNCHANGED vars
    BY <1>2 DEF vars, IInv, Types, CountInv, Left, OwnInv, Without, DeployedIsOver, Of
  <1> QED
    BY <1>1, <1>2, DeployKeeps, StepInvariant DEF Next

\* The inductive invariant holds throughout.
THEOREM Invariance == Spec => []IInv
  BY InitIInv, NextIInv, PTL DEF Spec

\* Whatever answers are lost, a deployment has at most retry_attempts objects.
THEOREM AttemptsAreBounded == Spec => []AttemptsBounded
  <1>1. IInv => AttemptsBounded
    <2> SUFFICES ASSUME IInv, NEW r \in Deployments PROVE Cardinality(Of(r)) <= Attempts
      BY DEF AttemptsBounded
    <2>1. Cardinality(Of(r)) \in Nat /\ Left(r) \in Nat
      BY OfIsFinite, AttemptsAssumption DEF IInv, Types, Left
    <2>2. Cardinality(Of(r)) <= Attempts - Left(r)
      BY DEF IInv, CountInv
    <2> QED
      BY <2>1, <2>2, AttemptsAssumption
  <1> QED
    BY <1>1, Invariance, PTL

\* If oc's answers name what was made, a deployment is reported for an object it
\* has made and no other has, with any number of them in the namespace.
THEOREM DeployedIsItsOwn == Spec => []DeployedIsOwn
  <1>1. IInv => DeployedIsOwn
    BY DEF IInv, OwnInv, DeployedIsOwn
  <1> QED
    BY <1>1, Invariance, PTL
-----------------------------------------------------------------------------
(* The types that refer to what has been made, and to the provisions a           *)
(* deployment has still to make: it has some left as long as it is at them.      *)

MadeTypes ==
    /\ \A r \in Deployments : guid[r] <= Len(made)
    /\ live \subseteq 1..Len(made)
    /\ provisions \subseteq [workshop : 1..Len(made), region : 1..Regions]

TodoInv ==
    /\ todo \in [Deployments -> Nat]
    /\ \A r \in Deployments :
          /\ todo[r] <= Parts(r)
          /\ pc[r] \in {"creating", "looking"} => todo[r] = Parts(r)
          /\ pc[r] = "provisioning" => todo[r] # 0

LEMMA PartsBounded ==
    ASSUME Types, NEW r \in Deployments
    PROVE  /\ Parts(r) \in 0..Regions
           /\ Parts(r) = 0 <=> shape[r] = "claim"
  <1>1. shape[r] \in {"workshop", "regions", "claim"}
    BY ShapesAssumption DEF Types
  <1> QED
    BY <1>1, RegionsAssumption DEF Parts

LEMMA NextTodo == Types /\ TodoInv /\ [Next]_vars => TodoInv'
  <1> SUFFICES ASSUME Types, TodoInv, [Next]_vars PROVE TodoInv'
    OBVIOUS
  <1> DEFINE Good(q, n, at) == /\ n \in Nat /\ n <= Parts(q)
                               /\ at \in {"creating", "looking"} => n = Parts(q)
                               /\ at = "provisioning" => n # 0
  <1>0. /\ shape' = shape /\ \A q \in Deployments : Parts(q)' = Parts(q)
        /\ \A q \in Deployments : Parts(q) \in Nat /\ (Parts(q) = 0 <=> shape[q] = "claim")
    <2>1. shape' = shape
      BY DEF Next, Step, vars, Deploy, Reject, Create, CreateUnnamed, CreateTransient, CreateRefused,
         CreateExists, LookForWorkshop, LookInVain, LookForClaim, Provision, Verify, ShowroomFails, Destroy
    <2>2. \A q \in Deployments : Parts(q) \in Nat /\ (Parts(q) = 0 <=> shape[q] = "claim")
      BY PartsBounded, RegionsAssumption
    <2> QED
      BY <2>1, <2>2 DEF Parts
  <1>1. ASSUME NEW r \in Deployments, NEW n \in Nat, NEW at \in Places,
               todo' = [todo EXCEPT ![r] = n], pc' = [pc EXCEPT ![r] = at],
               Good(r, n, at)
        PROVE  TodoInv'
    <2>1. /\ todo' = [q \in Deployments |-> IF q = r THEN n ELSE todo[q]]
          /\ pc' = [q \in Deployments |-> IF q = r THEN at ELSE pc[q]]
      BY <1>1 DEF Types, TodoInv
    <2> HIDE DEF Types
    <2> QED
      BY <1>0, <1>1, <2>1 DEF TodoInv
  <1>2. ASSUME NEW r \in Deployments PROVE todo = [todo EXCEPT ![r] = todo[r]] /\ pc = [pc EXCEPT ![r] = pc[r]]
                                     /\ todo[r] \in Nat /\ Good(r, todo[r], pc[r]) /\ pc[r] \in Places
    BY DEF Types, TodoInv
  <1>3. ASSUME NEW r \in Deployments, Deploy(r) PROVE TodoInv'
    <2>1. todo' = [todo EXCEPT ![r] = Parts(r)] /\ pc' = [pc EXCEPT ![r] = "creating"]
      BY <1>3 DEF Deploy
    <2>2. Good(r, Parts(r), "creating") /\ Parts(r) \in Nat
      BY <1>0
    <2> QED
      BY <1>1, <2>1, <2>2
  <1>4. ASSUME NEW r \in Deployments, NEW at \in Places, UNCHANGED todo, pc' = [pc EXCEPT ![r] = at],
               Good(r, todo[r], at)
        PROVE  TodoInv'
    BY <1>1, <1>2, <1>4
  <1>5. ASSUME NEW r \in Deployments, Reject(r) \/ CreateRefused(r) \/ LookInVain(r) PROVE TodoInv'
    <2>1. UNCHANGED todo /\ pc' = [pc EXCEPT ![r] = "over"]
      BY <1>5 DEF Reject, CreateRefused, LookInVain, Report
    <2> QED
      BY <1>2, <1>4, <2>1
  <1>6. ASSUME NEW r \in Deployments, Create(r) PROVE TodoInv'
    <2>1. UNCHANGED todo /\ pc' = [pc EXCEPT ![r] = AfterCreate(r)] /\ pc[r] = "creating"
      BY <1>6 DEF Create
    <2>2. Good(r, todo[r], AfterCreate(r)) /\ AfterCreate(r) \in Places
      BY <1>0, <1>2, <2>1 DEF AfterCreate
    <2> QED
      BY <1>4, <2>1, <2>2
  <1>7. ASSUME NEW r \in Deployments, CreateUnnamed(r) \/ CreateExists(r) \/ LookForWorkshop(r) \/ LookForClaim(r)
        PROVE  TodoInv'
    <2>1. /\ UNCHANGED todo /\ pc[r] \in {"creating", "looking"}
          /\ \/ pc' = [pc EXCEPT ![r] = "looking"]
             \/ pc' = [pc EXCEPT ![r] = "verifying"]
             \/ pc' = [pc EXCEPT ![r] = "provisioning"] /\ shape[r] # "claim"
      BY <1>7 DEF CreateUnnamed, CreateExists, LookForWorkshop, LookForClaim
    <2>2. /\ Good(r, todo[r], "looking") /\ Good(r, todo[r], "verifying")
          /\ shape[r] # "claim" => Good(r, todo[r], "provisioning")
      BY <1>0, <1>2, <2>1
    <2> QED
      BY <1>4, <2>1, <2>2
  <1>8. ASSUME NEW r \in Deployments, CreateTransient(r) PROVE TodoInv'
    <2>1. UNCHANGED todo /\ (UNCHANGED pc \/ pc' = [pc EXCEPT ![r] = "over"])
      BY <1>8 DEF CreateTransient, TryAgain, Report
    <2> QED
      BY <1>2, <1>4, <2>1
  <1>9. ASSUME NEW r \in Deployments, Provision(r) PROVE TodoInv'
    <2>1. pc[r] = "provisioning" /\ todo' = [todo EXCEPT ![r] = todo[r] - 1]
      BY <1>9 DEF Provision
    <2>2. todo[r] \in Nat /\ todo[r] # 0 /\ todo[r] - 1 \in Nat /\ todo[r] <= Parts(r)
      BY <1>2, <2>1
    <2>3. todo'[r] = todo[r] - 1
      BY <2>1 DEF TodoInv
    <2>4. \E at \in {"over", "verifying", "provisioning"} :
              pc' = [pc EXCEPT ![r] = at] /\ (at = "provisioning" => todo[r] - 1 # 0)
      BY <1>9, <2>3 DEF Provision, Report
    <2>5. Good(r, todo[r] - 1, "over") /\ Good(r, todo[r] - 1, "verifying")
          /\ (todo[r] - 1 # 0 => Good(r, todo[r] - 1, "provisioning"))
      BY <1>0, <2>2
    <2> QED
      BY <1>1, <2>1, <2>2, <2>4, <2>5
  <1>10. ASSUME NEW r \in Deployments, Verify(r) \/ ShowroomFails(r) PROVE TodoInv'
    <2>1. UNCHANGED todo /\ pc' = [pc EXCEPT ![r] = "over"]
      BY <1>10 DEF Verify, ShowroomFails, Report
    <2> QED
      BY <1>2, <1>4, <2>1
  <1>11. CASE UNCHANGED <<todo, pc>>
    BY <1>0, <1>11 DEF TodoInv
  <1>12. ASSUME NEW i \in live, Destroy(i) PROVE TodoInv'
    BY <1>11, <1>12 DEF Destroy
  <1>13. CASE UNCHANGED vars
    BY <1>11, <1>13 DEF vars
  <1> QED
    BY <1>3, <1>5, <1>6, <1>7, <1>8, <1>9, <1>10, <1>12, <1>13 DEF Next, Step

LEMMA NextMadeTypes == Types /\ TodoInv /\ MadeTypes /\ [Next]_vars => MadeTypes'
  <1> SUFFICES ASSUME Types, TodoInv, MadeTypes, [Next]_vars PROVE MadeTypes'
    OBVIOUS
  <1> DEFINE n == Len(made)
  <1>0. n \in Nat /\ guid \in [Deployments -> Nat] /\ live \subseteq 1..n
        /\ provisions \subseteq [workshop : 1..n, region : 1..Regions]
        /\ \A q \in Deployments : guid[q] \in 0..n
    BY DEF Types, MadeTypes
  <1> HIDE DEF n
  <1>1. ASSUME UNCHANGED made, \A q \in Deployments : guid'[q] \in 0..n,
               live' \subseteq live, provisions' \subseteq [workshop : 1..n, region : 1..Regions]
        PROVE  MadeTypes'
    BY <1>0, <1>1 DEF MadeTypes, n
  <1>2. ASSUME NEW r \in Deployments, Make(r), \A q \in Deployments : guid'[q] \in 0..Len(made')
        PROVE  MadeTypes'
    <2>1. Len(made') = n + 1 /\ live' = live \cup {n + 1} /\ provisions' = provisions
      BY <1>2 DEF Make, Types, n
    <2>2. 1..n \subseteq 1..(n + 1) /\ n + 1 \in 1..(n + 1)
      BY <1>0
    <2>3. [workshop : 1..n, region : 1..Regions] \subseteq [workshop : 1..(n + 1), region : 1..Regions]
      BY <2>2
    <2>4. \A q \in Deployments : guid'[q] <= Len(made')
      BY <1>0, <1>2, <2>1
    <2> QED
      BY <1>0, <2>1, <2>2, <2>3, <2>4 DEF MadeTypes
  <1>3. ASSUME NEW r \in Deployments, ShowroomFails(r) PROVE MadeTypes'
    <2>1. guid' = [guid EXCEPT ![r] = 0] /\ UNCHANGED cluster
      BY <1>3 DEF ShowroomFails
    <2>2. \A q \in Deployments : guid'[q] \in 0..n
      BY <1>0, <2>1
    <2> QED
      BY <1>0, <1>1, <2>1, <2>2
  <1>4. ASSUME NEW r \in Deployments, Create(r) \/ CreateUnnamed(r) PROVE MadeTypes'
    <2>1. Make(r) /\ (guid' = [guid EXCEPT ![r] = Len(made')] \/ guid' = guid)
      BY <1>4 DEF Create, CreateUnnamed
    <2>2. Len(made') = n + 1
      BY <2>1 DEF Make, Types, n
    <2>3. \A q \in Deployments : guid'[q] \in 0..(n + 1)
      BY <1>0, <2>1, <2>2
    <2> QED
      BY <1>2, <2>1, <2>2, <2>3
  <1>5. ASSUME NEW r \in Deployments, CreateTransient(r) PROVE MadeTypes'
    <2>1. guid' = guid /\ (UNCHANGED cluster \/ Make(r))
      BY <1>5 DEF CreateTransient
    <2>2. CASE UNCHANGED cluster
      BY <1>0, <1>1, <2>1, <2>2
    <2>3. CASE Make(r)
      <3>1. Len(made') = n + 1
        BY <2>3 DEF Make, Types, n
      <3>2. \A q \in Deployments : guid'[q] \in 0..(n + 1)
        BY <1>0, <2>1
      <3> QED
        BY <1>2, <2>3, <3>1, <3>2
    <2> QED
      BY <2>1, <2>2, <2>3
  <1>6. ASSUME NEW r \in Deployments, Deploy(r) \/ Reject(r) \/ CreateRefused(r) \/ CreateExists(r)
                                \/ LookInVain(r) \/ Verify(r)
        PROVE  MadeTypes'
    <2>1. guid' = guid /\ UNCHANGED cluster
      BY <1>6 DEF Deploy, Reject, CreateRefused, CreateExists, LookInVain, Verify
    <2> QED
      BY <1>0, <1>1, <2>1
  <1>7. ASSUME NEW r \in Deployments, LookForWorkshop(r) \/ LookForClaim(r) PROVE MadeTypes'
    <2>1. (\E i \in live \cup {0} : guid' = [guid EXCEPT ![r] = i]) /\ UNCHANGED cluster
      BY <1>7 DEF LookForWorkshop, LookForClaim
    <2>2. \A q \in Deployments : guid'[q] \in 0..n
      BY <1>0, <2>1
    <2> QED
      BY <1>0, <1>1, <2>1, <2>2
  <1>8. ASSUME NEW r \in Deployments, Provision(r) PROVE MadeTypes'
    <2>1. UNCHANGED <<guid, made, live>> /\ pc[r] = "provisioning"
      BY <1>8 DEF Provision
    <2>2. todo[r] \in Nat /\ todo[r] # 0 /\ todo[r] <= Parts(r) /\ Parts(r) \in 0..Regions
      BY <2>1, PartsBounded DEF TodoInv
    <2>3. 1 + Parts(r) - todo[r] \in 1..Regions
      BY <2>2, RegionsAssumption
    <2>4. \/ provisions' = provisions
          \/ /\ guid[r] # 0
             /\ provisions' = provisions \cup {[workshop |-> guid[r], region |-> 1 + Parts(r) - todo[r]]}
      BY <1>8 DEF Provision
    <2>5. provisions' \subseteq [workshop : 1..n, region : 1..Regions]
      BY <1>0, <2>3, <2>4
    <2> QED
      BY <1>0, <1>1, <2>1, <2>5
  <1>9. ASSUME NEW i \in live, Destroy(i) PROVE MadeTypes'
    <2>1. UNCHANGED <<guid, made>> /\ live' \subseteq live /\ provisions' \subseteq provisions
      BY <1>9 DEF Destroy
    <2> QED
      BY <1>0, <1>1, <2>1
  <1>10. CASE UNCHANGED vars
    BY <1>0, <1>1, <1>10 DEF vars
  <1> QED
    BY <1>3, <1>4, <1>5, <1>6, <1>7, <1>8, <1>9, <1>10 DEF Next, Step

LEMMA InitMore == Init => TodoInv /\ MadeTypes
  <1> SUFFICES ASSUME Init PROVE TodoInv /\ MadeTypes
    OBVIOUS
  <1>1. Types
    BY InitIInv DEF IInv
  <1>2. \A r \in Deployments : Parts(r) \in Nat
    BY <1>1, PartsBounded, RegionsAssumption
  <1> QED
    BY <1>2 DEF Init, TodoInv, MadeTypes

\* Every variable keeps its type: nothing goes by an object that was never made, and
\* no provision is for one.
THEOREM TypeCorrect == Spec => []TypeOK
  <1>1. IInv /\ TodoInv /\ MadeTypes /\ [Next]_vars => TodoInv' /\ MadeTypes'
    BY NextTodo, NextMadeTypes DEF IInv
  <1>2. IInv /\ TodoInv /\ MadeTypes => TypeOK
    <2> SUFFICES ASSUME IInv, TodoInv, MadeTypes PROVE TypeOK
      OBVIOUS
    <2>1. \A r \in Deployments : todo[r] \in 0..Regions /\ guid[r] \in 0..Len(made)
      BY PartsBounded, RegionsAssumption DEF IInv, Types, TodoInv, MadeTypes
    <2> QED
      BY <2>1 DEF IInv, Types, TodoInv, MadeTypes, TypeOK
  <1> QED
    BY <1>1, <1>2, InitMore, Invariance, PTL DEF Spec
-----------------------------------------------------------------------------
(* Retries. As long as answers come and name what was made, all that exists of  *)
(* a deployment is what it goes by, and while it may still create, nothing does. *)

CleanInv ==
    Without({"lost", "unnamed", "get", "showroom"}) =>
        \A r \in Deployments :
            /\ pc[r] # "looking"
            /\ pc[r] = "over" <=> status[r] # "none"
            /\ Of(r) \cap live \subseteq {guid[r]}
            /\ pc[r] \in {"idle", "creating"} \/ status[r] \in Failed => Of(r) \cap live = {}

\* A Workshop whose provisions have been created, and that still exists, has one.
FilledInv ==
    Without({"provision"}) =>
        \A r \in Deployments :
            (pc[r] = "verifying" \/ status[r] \in Deployed) /\ shape[r] # "claim" /\ guid[r] \in live
                => NameTaken(guid[r])

\* What is made by a step of r is not yet known to, or made for, anybody else.
LEMMA MakeIsNew ==
    ASSUME Types, MadeTypes, NEW r \in Deployments, Make(r)
    PROVE  /\ Len(made') \notin live /\ live' = live \cup {Len(made')}
           /\ \A q \in Deployments : guid[q] # Len(made') /\ Len(made') \notin Of(q)
           /\ Of(r)' = Of(r) \cup {Len(made')}
           /\ \A q \in Deployments \ {r} : Of(q)' = Of(q)
           /\ Len(made') # 0
  <1>1. /\ made' = Append(made, r) /\ live' = live \cup {Len(made')}
        /\ Len(made) \in Nat /\ Len(made') = Len(made) + 1
    BY DEF Make, Types
  <1>2. Of(r)' = Of(r) \cup {Len(made')} /\ \A q \in Deployments \ {r} : Of(q)' = Of(q)
    BY <1>1, OfAfterMake DEF Types
  <1>3. \A q \in Deployments : guid[q] \in Nat /\ guid[q] <= Len(made)
    BY DEF Types, MadeTypes
  <1> QED
    BY <1>1, <1>2, <1>3 DEF MadeTypes, Of

\* A step of r keeps CleanInv if r itself is as it should be and nothing has been
\* made by the others.
LEMMA CleanStays ==
    ASSUME CleanInv, Without({"lost", "unnamed", "get", "showroom"}), NEW r \in Deployments,
           OnlyOf(r), \A q \in Deployments \ {r} : (Of(q) \cap live)' \subseteq Of(q) \cap live,
           pc'[r] # "looking",
           pc'[r] = "over" <=> status'[r] # "none",
           (Of(r) \cap live)' \subseteq {guid'[r]},
           pc'[r] \in {"idle", "creating"} \/ status'[r] \in Failed => (Of(r) \cap live)' = {}
    PROVE  CleanInv'
  BY DEF OnlyOf, CleanInv

LEMMA NextClean == IInv /\ MadeTypes /\ CleanInv /\ [Next]_vars => CleanInv'
  <1> SUFFICES ASSUME IInv, MadeTypes, CleanInv, [Next]_vars, Without({"lost", "unnamed", "get", "showroom"})'
               PROVE  CleanInv'
    BY DEF CleanInv
  <1>0. Types
    BY DEF IInv
  <1>1. /\ faults' = faults /\ Without({"lost", "unnamed", "get", "showroom"})
        /\ "lost" \notin faults /\ "unnamed" \notin faults /\ "get" \notin faults
        /\ "showroom" \notin faults
    <2>1. faults' = faults
      BY DEF Next, Step, vars, Deploy, Reject, Create, CreateUnnamed, CreateTransient, CreateRefused,
         CreateExists, LookForWorkshop, LookInVain, LookForClaim, Provision, Verify, ShowroomFails, Destroy
    <2> QED
      BY <2>1 DEF Without
  <1>2. ASSUME NEW q \in Deployments
        PROVE  /\ pc[q] # "looking" /\ Of(q) \cap live \subseteq {guid[q]}
               /\ pc[q] = "over" <=> status[q] # "none"
               /\ pc[q] \in {"idle", "creating"} \/ status[q] \in Failed => Of(q) \cap live = {}
    BY <1>1 DEF CleanInv
  \* Steps that make nothing.
  <1>3. ASSUME NEW r \in Deployments, UNCHANGED <<made, live>>, OnlyOf(r),
               pc'[r] # "looking", pc'[r] = "over" <=> status'[r] # "none",
               guid'[r] = guid[r] \/ Of(r) \cap live = {},
               pc'[r] \in {"idle", "creating"} \/ status'[r] \in Failed => Of(r) \cap live = {}
        PROVE  CleanInv'
    <2>1. \A q \in Deployments : (Of(q) \cap live)' = Of(q) \cap live
      BY <1>3 DEF Of
    <2> QED
      BY <1>1, <1>2, <1>3, <2>1, CleanStays
  <1>4. ASSUME NEW r \in Deployments, Deploy(r) \/ Reject(r) PROVE CleanInv'
    <2>1. pc[r] = "idle" /\ status[r] = "none" /\ Of(r) \cap live = {}
      BY <1>0, <1>2, <1>4 DEF Deploy, Reject, Types
    <2>2. UNCHANGED cluster /\ OnlyOf(r) /\ guid' = guid
          /\ \/ pc'[r] = "creating" /\ status'[r] = status[r]
             \/ pc'[r] = "over" /\ status'[r] \in Failed
      BY <1>0, <1>4 DEF Deploy, Reject, Report, OnlyOf, Types
    <2> QED
      BY <1>3, <2>1, <2>2
  <1>5. ASSUME NEW r \in Deployments, Create(r) PROVE CleanInv'
    <2>1. /\ live' = live \cup {Len(made')} /\ Of(r)' = Of(r) \cup {Len(made')}
          /\ \A q \in Deployments : Len(made') \notin Of(q)
          /\ \A q \in Deployments \ {r} : Of(q)' = Of(q)
      BY <1>0, <1>5, MakeIsNew DEF Create
    <2>2. Of(r) \cap live = {} /\ status[r] = "none" /\ pc[r] = "creating"
      BY <1>0, <1>2, <1>5 DEF Create, Types
    <2>3. (Of(r) \cap live)' = {Len(made')} /\ \A q \in Deployments \ {r} : (Of(q) \cap live)' = Of(q) \cap live
      <3>1. Len(made') \notin live
        BY <1>0, <1>5, MakeIsNew DEF Create
      <3> QED
        BY <2>1, <2>2, <3>1
    <2>4. /\ OnlyOf(r) /\ guid'[r] = Len(made') /\ status'[r] = "none"
          /\ pc'[r] \in {"provisioning", "verifying"}
      BY <1>0, <1>5, <2>2 DEF Create, AfterCreate, OnlyOf, Types
    <2> QED
      BY <1>1, <2>3, <2>4, CleanStays
  <1>6. ASSUME NEW r \in Deployments, CreateTransient(r) PROVE CleanInv'
    <2>1. /\ UNCHANGED cluster /\ OnlyOf(r) /\ guid' = guid /\ pc[r] = "creating"
          /\ \/ pc'[r] = pc[r] /\ status'[r] = status[r]
             \/ pc'[r] = "over" /\ status'[r] = "failed"
      BY <1>0, <1>1, <1>6 DEF CreateTransient, TryAgain, Report, OnlyOf, Types
    <2> QED
      BY <1>2, <1>3, <2>1
  <1>7. ASSUME NEW r \in Deployments, CreateRefused(r) PROVE CleanInv'
    <2>1. UNCHANGED cluster /\ OnlyOf(r) /\ guid' = guid /\ pc[r] = "creating"
          /\ pc'[r] = "over" /\ status'[r] = "failed"
      BY <1>0, <1>7 DEF CreateRefused, Report, OnlyOf, Types
    <2> QED
      BY <1>2, <1>3, <2>1
  <1>8. ASSUME NEW r \in Deployments, CreateExists(r) PROVE CleanInv'
    <2>1. UNCHANGED cluster /\ OnlyOf(r) /\ guid' = guid /\ pc[r] = "creating"
          /\ pc'[r] = "provisioning" /\ status'[r] = status[r]
      BY <1>0, <1>8 DEF CreateExists, OnlyOf, Types
    <2> QED
      BY <1>2, <1>3, <2>1
  <1>9. ASSUME NEW r \in Deployments PROVE ~(CreateUnnamed(r) \/ LookForWorkshop(r) \/ LookInVain(r)
                                               \/ LookForClaim(r) \/ ShowroomFails(r))
    BY <1>1, <1>2 DEF CreateUnnamed, ShowroomFails, LookForWorkshop, LookInVain, LookForClaim
  <1>10. ASSUME NEW r \in Deployments, Provision(r) PROVE CleanInv'
    <2>1. UNCHANGED <<made, live>> /\ OnlyOf(r) /\ guid' = guid /\ pc[r] = "provisioning"
          /\ \/ pc'[r] = "over" /\ status'[r] = "deployed_unverified"
             \/ pc'[r] \in {"provisioning", "verifying"} /\ status'[r] = status[r]
      BY <1>0, <1>10 DEF Provision, Report, OnlyOf, Types
    <2> QED
      BY <1>2, <1>3, <2>1
  <1>11. ASSUME NEW r \in Deployments, Verify(r) PROVE CleanInv'
    <2>1. /\ UNCHANGED cluster /\ OnlyOf(r) /\ guid' = guid /\ pc[r] = "verifying" /\ pc'[r] = "over"
          /\ status'[r] \in Findings(r)
      BY <1>0, <1>11 DEF Verify, Report, OnlyOf, Types
    <2>2. status'[r] # "none" /\ (status'[r] \in Failed => guid[r] \notin live)
      BY <1>1, <2>1 DEF Findings
    <2> QED
      BY <1>2, <1>3, <2>1, <2>2
  <1>12. ASSUME NEW i \in live, Destroy(i) PROVE CleanInv'
    <2>1. UNCHANGED <<made, pc, status, guid>> /\ live' = live \ {i}
      BY <1>12 DEF Destroy
    <2>2. \A q \in Deployments : (Of(q) \cap live)' \subseteq Of(q) \cap live
      BY <2>1 DEF Of
    <2> QED
      BY <1>2, <2>1, <2>2 DEF CleanInv
  <1>13. CASE UNCHANGED vars
    BY <1>13 DEF vars, CleanInv, Without, Of
  <1> QED
    BY <1>4, <1>5, <1>6, <1>7, <1>8, <1>9, <1>10, <1>11, <1>12, <1>13 DEF Next, Step

LEMMA NextFilled == IInv /\ MadeTypes /\ FilledInv /\ [Next]_vars => FilledInv'
  <1> SUFFICES ASSUME IInv, MadeTypes, FilledInv, [Next]_vars, Without({"provision"})'
               PROVE  FilledInv'
    BY DEF FilledInv
  <1> DEFINE Filled(q) == (pc[q] = "verifying" \/ status[q] \in Deployed) /\ shape[q] # "claim"
                            /\ guid[q] \in live => NameTaken(guid[q])
  <1>0. Types /\ DeployedIsOver
    BY DEF IInv
  <1>1. faults' = faults /\ shape' = shape /\ "provision" \notin faults /\ \A q \in Deployments : Filled(q)
    <2>1. faults' = faults /\ shape' = shape
      BY DEF Next, Step, vars, Deploy, Reject, Create, CreateUnnamed, CreateTransient, CreateRefused,
         CreateExists, LookForWorkshop, LookInVain, LookForClaim, Provision, Verify, ShowroomFails, Destroy
    <2> QED
      BY <2>1 DEF Without, FilledInv
  \* For the others it is enough that no provision goes and no object of theirs comes.
  <1>2. ASSUME NEW r \in Deployments, OnlyOf(r), provisions \subseteq provisions',
               \A q \in Deployments \ {r} : guid[q] \in live' => guid[q] \in live, Filled(r)'
        PROVE  FilledInv'
    <2>1. ASSUME NEW q \in Deployments \ {r} PROVE Filled(q)'
      BY <1>1, <1>2 DEF OnlyOf, NameTaken
    <2> QED
      BY <1>2, <2>1 DEF FilledInv
  <1>3. ASSUME NEW r \in Deployments, UNCHANGED cluster, OnlyOf(r),
               status'[r] \notin Deployed, pc'[r] # "verifying" \/ shape[r] = "claim"
        PROVE  FilledInv'
    BY <1>1, <1>2, <1>3
  <1>4. ASSUME NEW r \in Deployments, Make(r), OnlyOf(r),
               status'[r] \notin Deployed, pc'[r] # "verifying" \/ shape[r] = "claim"
        PROVE  FilledInv'
    <2>1. \A q \in Deployments : guid[q] \in live' => guid[q] \in live
      BY <1>0, <1>4, MakeIsNew
    <2> QED
      BY <1>1, <1>2, <1>4, <2>1 DEF Make
  <1>5. ASSUME NEW r \in Deployments, Deploy(r) \/ Reject(r) \/ ShowroomFails(r) PROVE FilledInv'
    <2>1. UNCHANGED cluster /\ OnlyOf(r) /\ pc'[r] # "verifying" /\ status'[r] \notin Deployed
      BY <1>0, <1>5 DEF Deploy, Reject, ShowroomFails, Report, OnlyOf, Types, DeployedIsOver
    <2> QED
      BY <1>3, <2>1
  <1>6. ASSUME NEW r \in Deployments, Create(r) \/ CreateUnnamed(r) PROVE FilledInv'
    <2>1. /\ Make(r) /\ OnlyOf(r) /\ status'[r] \notin Deployed
          /\ pc'[r] # "verifying" \/ shape[r] = "claim"
      BY <1>0, <1>6 DEF Create, CreateUnnamed, AfterCreate, OnlyOf, Types, DeployedIsOver
    <2> QED
      BY <1>4, <2>1
  <1>7. ASSUME NEW r \in Deployments, CreateTransient(r) PROVE FilledInv'
    <2>1. /\ OnlyOf(r) /\ pc'[r] # "verifying" /\ status'[r] \notin Deployed
          /\ UNCHANGED cluster \/ Make(r)
      BY <1>0, <1>7 DEF CreateTransient, TryAgain, Report, OnlyOf, Types, DeployedIsOver
    <2> QED
      BY <1>3, <1>4, <2>1
  <1>8. ASSUME NEW r \in Deployments, CreateRefused(r) \/ CreateExists(r) \/ LookForWorkshop(r)
                                \/ LookInVain(r) \/ LookForClaim(r)
        PROVE  FilledInv'
    <2>1. /\ UNCHANGED cluster /\ OnlyOf(r) /\ status'[r] \notin Deployed
          /\ pc'[r] # "verifying" \/ shape[r] = "claim"
      BY <1>0, <1>8 DEF CreateRefused, CreateExists, LookForWorkshop, LookInVain, LookForClaim,
         Report, OnlyOf, Types, DeployedIsOver
    <2> QED
      BY <1>3, <2>1
  <1>9. ASSUME NEW r \in Deployments, Provision(r) PROVE FilledInv'
    <2>1. OnlyOf(r) /\ UNCHANGED <<made, live, guid>>
      BY <1>0, <1>9 DEF Provision, Report, OnlyOf, Types
    <2>2. provisions \subseteq provisions' /\ (guid[r] # 0 => NameTaken(guid[r])')
      <3>1. \/ provisions' = provisions \cup {[workshop |-> guid[r], region |-> 1 + Parts(r) - todo[r]]}
            \/ provisions' = provisions /\ (guid[r] = 0 \/ NameTaken(guid[r]))
        BY <1>1, <1>9 DEF Provision
      <3>2. CASE provisions' = provisions /\ (guid[r] = 0 \/ NameTaken(guid[r]))
        BY <2>1, <3>2 DEF NameTaken
      <3>3. CASE provisions' = provisions \cup {[workshop |-> guid[r], region |-> 1 + Parts(r) - todo[r]]}
        <4>1. [workshop |-> guid[r], region |-> 1 + Parts(r) - todo[r]].workshop = guid'[r]
          BY <2>1
        <4> QED
          BY <3>3, <4>1 DEF NameTaken
      <3> QED
        BY <3>1, <3>2, <3>3
    <2>3. 0 \notin live
      BY DEF MadeTypes
    <2> QED
      BY <1>2, <2>1, <2>2, <2>3
  <1>10. ASSUME NEW r \in Deployments, Verify(r) PROVE FilledInv'
    <2>1. OnlyOf(r) /\ UNCHANGED <<cluster, guid>> /\ pc[r] = "verifying"
      BY <1>0, <1>10 DEF Verify, Report, OnlyOf, Types
    <2>2. Filled(r)'
      BY <1>1, <2>1 DEF NameTaken
    <2> QED
      BY <1>2, <2>1, <2>2
  <1>11. ASSUME NEW i \in live, Destroy(i) PROVE FilledInv'
    <2>1. /\ UNCHANGED <<pc, guid, status, shape>> /\ live' = live \ {i}
          /\ provisions' = {p \in provisions : p.workshop # i}
      BY <1>11 DEF Destroy, setup
    <2> QED
      BY <1>1, <2>1 DEF FilledInv, NameTaken
  <1>12. CASE UNCHANGED vars
    BY <1>1, <1>12 DEF vars, FilledInv, NameTaken
  <1> QED
    BY <1>5, <1>6, <1>7, <1>8, <1>9, <1>10, <1>11, <1>12 DEF Next, Step

\* The invariants of this module hold together throughout.
LEMMA RowsStaySound == Spec => [](IInv /\ MadeTypes /\ CleanInv /\ FilledInv)
  <1>1. Init => TodoInv /\ MadeTypes /\ CleanInv /\ FilledInv
    <2> SUFFICES ASSUME Init PROVE TodoInv /\ MadeTypes /\ CleanInv /\ FilledInv
      OBVIOUS
    <2>1. CleanInv /\ FilledInv
      BY DEF Init, CleanInv, FilledInv
    <2> QED
      BY <2>1, InitMore
  <1>2. /\ IInv /\ TodoInv /\ MadeTypes /\ CleanInv /\ FilledInv /\ [Next]_vars
           => TodoInv' /\ MadeTypes' /\ CleanInv' /\ FilledInv'
    BY NextTodo, NextMadeTypes, NextClean, NextFilled DEF IInv
  <1> QED
    BY <1>1, <1>2, Invariance, PTL DEF Spec

\* A failed deployment has left nothing in the cluster, and none has two objects
\* there, however many there are and in whatever order they go on, as long as no
\* answer of oc is lost or nameless, no look at the cluster fails and Showroom does
\* not raise.
THEOREM RetriesAreSafe == Spec => []RetryIsSafe
  <1>1. IInv /\ CleanInv => RetryIsSafe
    <2> SUFFICES ASSUME IInv, CleanInv, Without({"lost", "unnamed", "get", "showroom"}), NEW r \in Deployments
                 PROVE  /\ status[r] \in Failed => Of(r) \cap live = {}
                        /\ Cardinality(Of(r) \cap live) <= 1
      BY DEF RetryIsSafe
    <2>1. Of(r) \cap live = {} \/ Of(r) \cap live = {guid[r]}
      BY DEF CleanInv
    <2>2. Cardinality(Of(r) \cap live) \in {0, 1}
      BY <2>1, FS_EmptySet, FS_Singleton
    <2> QED
      BY <2>2 DEF CleanInv
  <1> QED
    BY <1>1, RowsStaySound, PTL

\* If creating provisions does not fail, a Workshop that is reported as deployed and
\* still exists has a provision, with any number of regions, whatever is lost or
\* destroyed and whichever Workshop the deployment goes by.
THEOREM DeployedGetProvisions == Spec => []DeployedIsProvisioned
  <1>1. FilledInv => DeployedIsProvisioned
    BY DEF FilledInv, DeployedIsProvisioned, NameTaken
  <1> QED
    BY <1>1, RowsStaySound, PTL
=============================================================================
