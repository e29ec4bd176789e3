----------------------------- MODULE JobProofs -----------------------------
(***************************************************************************)
(* Proofs about JobStore, JobControl and JobEvents.                        *)
(*                                                                         *)
(* JobStore, for every limit and every number of jobs.  What eviction does *)
(* is a matter of counting: the lemmas about Evicted compare the           *)
(* cardinalities of the sets Older(j), which grow with j.                  *)
(*                                                                         *)
(* JobControl, for any number of workshops, any bound on the queued        *)
(* operations and, where it matters, one channel of requests.              *)
(*                                                                         *)
(* JobEvents, for any number of streams and changes: a stream that is over *)
(* has told its client the outcome, and no client sees a finished job      *)
(* reopen.                                                                 *)
(***************************************************************************)
EXTENDS JobStore, JobControl, JobEvents, FiniteSetTheorems, SequenceTheorems, WellFoundedInduction, TLAPS

-----------------------------------------------------------------------------
(* JobStore. *)

\* Every set of natural numbers that is not empty has a least element: the
\* interval below it is the smallest.
LEMMA Least ==
  ASSUME NEW S \in SUBSET Nat, S # {}
  PROVE  \E x \in S : \A y \in S : x <= y
<1> DEFINE R == StrictSubsetOrdering(Nat)
           T == {0..x : x \in S}
<1>1. T \subseteq FiniteSubsetsOf(Nat)
  <2> SUFFICES ASSUME NEW x \in S PROVE 0..x \in FiniteSubsetsOf(Nat)
    OBVIOUS
  <2> QED BY FS_Interval DEF FiniteSubsetsOf
<1>2. PICK t \in T : \A u \in T : ~(<<u, t>> \in R)
  <2>1. T # {}
    OBVIOUS
  <2> HIDE DEF T, R
  <2>2. IsWellFoundedOn(R, FiniteSubsetsOf(Nat))
    BY FS_StrictSubsetOrderingWellFounded DEF R
  <2> QED BY <1>1, <2>1, <2>2, WFMin
<1>3. PICK x \in S : t = 0..x
  OBVIOUS
<1>4. ASSUME NEW y \in S, y < x PROVE FALSE
  <2>1. 0..y \in SUBSET Nat /\ 0..x \in SUBSET Nat /\ 0..y \subseteq 0..x
    BY <1>4
  <2>2. x \in 0..x /\ x \notin 0..y
    BY <1>4
  <2>3. <<0..y, 0..x>> \in R
    BY <2>1, <2>2, Zenon DEF StrictSubsetOrdering
  <2>4. 0..y \in T
    OBVIOUS
  <2> QED
    BY <1>2, <1>3, <2>3, <2>4
<1> QED
  BY <1>4

LEMMA Greatest ==
  ASSUME NEW n \in Nat, NEW S \in SUBSET (1..n), S # {}
  PROVE  \E x \in S : \A y \in S : y <= x
<1> DEFINE D == {n - x : x \in S}
<1>1. D \in SUBSET Nat /\ D # {}
  <2>1. ASSUME NEW x \in S PROVE n - x \in Nat
    <3>1. x \in 1..n
      OBVIOUS
    <3> QED BY <3>1
  <2> QED BY <2>1
<1>2. PICK d \in D : \A e \in D : d <= e
  <2> HIDE DEF D
  <2> QED BY <1>1, Least
<1>3. PICK x \in S : d = n - x
  OBVIOUS
<1>4. ASSUME NEW y \in S PROVE y <= x
  <2>1. n - x <= n - y
    BY <1>2, <1>3
  <2> QED
    BY <2>1
<1> QED
  BY <1>4

-----------------------------------------------------------------------------
(* Eviction.                                                               *)

LEMMA Finite ==
  ASSUME StoreTypeOK
  PROVE  /\ IsFiniteSet(store) /\ Cardinality(store) \in Nat
         /\ store \subseteq Jobs
         /\ IsFiniteSet(Finished) /\ Cardinality(Finished) \in Nat
         /\ \A j : IsFiniteSet(Older(j)) /\ Cardinality(Older(j)) \in Nat
         /\ IsFiniteSet(Evicted) /\ Cardinality(Evicted) \in Nat
         /\ Evicted \subseteq Finished /\ Finished \subseteq store
<1>1. next \in Int /\ next - 1 \in Int /\ store \subseteq 1..(next - 1) /\ store \subseteq Jobs
  BY CreatedAssumption DEF StoreTypeOK, Jobs
<1>2. IsFiniteSet(store)
  <2>1. IsFiniteSet(1..(next - 1))
    BY <1>1, FS_Interval
  <2> QED BY <1>1, <2>1, FS_Subset
<1>3. Finished \subseteq store /\ Evicted \subseteq Finished /\ \A j : Older(j) \subseteq Finished
  BY DEF Finished, Evicted, Older
<1>4. IsFiniteSet(Finished) /\ IsFiniteSet(Evicted) /\ \A j : IsFiniteSet(Older(j))
  BY <1>2, <1>3, FS_Subset
<1> QED
  BY <1>1, <1>2, <1>3, <1>4, FS_CardinalityType

\* The sets of older jobs grow with the job.
LEMMA OlderGrows ==
  ASSUME StoreTypeOK, NEW j \in Finished, NEW k \in Finished, k <= j
  PROVE  Cardinality(Older(k)) <= Cardinality(Older(j))
<1>1. j \in Int /\ k \in Int /\ Finished \subseteq Int
  BY Finite, CreatedAssumption DEF Jobs
<1>2. ASSUME NEW i \in Older(k) PROVE i \in Older(j)
  <2>1. i \in Finished /\ i \in Int /\ i < k
    BY <1>1, <1>2 DEF Older
  <2> QED BY <1>1, <2>1 DEF Older
<1>3. Older(k) \in SUBSET Older(j)
  BY <1>2
<1> QED
  BY <1>3, Finite, FS_Subset

\* Whatever is evicted is older than any finished job that stays.
LEMMA EvictedAreOldest ==
  ASSUME StoreTypeOK, NEW gone \in Evicted, NEW kept \in Finished \ Evicted
  PROVE  gone < kept
<1>1. gone \in Finished /\ gone \in Int /\ kept \in Int
  BY Finite, CreatedAssumption DEF Jobs
<1>2. SUFFICES ASSUME kept <= gone PROVE FALSE
  BY <1>1
<1>3. Cardinality(Older(kept)) <= Cardinality(Older(gone))
  BY <1>1, <1>2, OlderGrows
<1>4. Cardinality(Older(gone)) < Cardinality(store) - MaxJobs
  BY DEF Evicted
<1>5. Cardinality(Older(kept)) < Cardinality(store) - MaxJobs
  BY <1>3, <1>4, Finite, MaxJobsAssumption
<1> QED
  BY <1>5 DEF Evicted

\* No more jobs are evicted than the store has too many.
LEMMA EvictedAreNeeded ==
  ASSUME StoreTypeOK, Evicted # {}
  PROVE  Cardinality(Evicted) <= Cardinality(store) - MaxJobs
<1>1. Evicted \in SUBSET (1..Created)
  BY Finite DEF Jobs
<1>2. PICK last \in Evicted : \A j \in Evicted : j <= last
  BY <1>1, Greatest, CreatedAssumption
<1>3. ASSUME NEW j \in Evicted \ {last} PROVE j \in Older(last)
  <2>1. j \in Finished /\ j \in Int /\ last \in Int /\ j <= last /\ j # last
    BY <1>1, <1>2, Finite, CreatedAssumption
  <2> QED BY <2>1 DEF Older
<1>4. Cardinality(Evicted \ {last}) <= Cardinality(Older(last))
  BY <1>3, Finite, FS_Subset, Evicted \ {last} \in SUBSET Older(last)
<1>5. Cardinality(Evicted \ {last}) = Cardinality(Evicted) - 1
  BY Finite, FS_RemoveElement
<1>6. Cardinality(Older(last)) < Cardinality(store) - MaxJobs
  BY DEF Evicted
<1> QED
  BY <1>4, <1>5, <1>6, Finite, MaxJobsAssumption

\* Unless every finished job is evicted, as many are as the store has too many.
LEMMA EvictedAreEnough ==
  ASSUME StoreTypeOK, Finished \ Evicted # {}
  PROVE  Cardinality(Evicted) >= Cardinality(store) - MaxJobs
<1>1. Finished \ Evicted \in SUBSET Nat
  BY Finite, CreatedAssumption DEF Jobs
<1>2. PICK first \in Finished \ Evicted : \A j \in Finished \ Evicted : first <= j
  BY <1>1, Least
<1>3. Older(first) \subseteq Evicted
  BY <1>1, <1>2, Finite, CreatedAssumption DEF Older, Jobs
<1>4. Cardinality(Older(first)) <= Cardinality(Evicted)
  BY <1>3, Finite, FS_Subset
<1>5. ~(Cardinality(Older(first)) < Cardinality(store) - MaxJobs)
  BY DEF Evicted
<1> QED
  BY <1>4, <1>5, Finite, MaxJobsAssumption

\* The size of the store once they are gone.
LEMMA EvictedLeave ==
  ASSUME StoreTypeOK
  PROVE  Cardinality(store \ Evicted) = Cardinality(store) - Cardinality(Evicted)
<1>1. store \cap Evicted = Evicted
  BY Finite
<1> QED
  BY <1>1, Finite, FS_Difference

-----------------------------------------------------------------------------
(* The invariants.                                                         *)

\* A creation under way has a number left for its job.
StoreInv ==
    /\ StoreTypeOK
    /\ creating => next \in Jobs
    /\ LiveJobsStored
    /\ NothingLost

LEMMA InitStoreInv == StoreInit => StoreInv
<1> SUFFICES ASSUME StoreInit PROVE StoreInv
  OBVIOUS
<1>1. StoreTypeOK
  <2>1. next \in 1..(Created + 1) /\ store \subseteq 1..(next - 1) /\ truncated \in Nat
    BY CreatedAssumption DEF StoreInit
  <2>2. statuses \in [Jobs -> Active \cup Terminal] /\ creating \in BOOLEAN
    BY DEF StoreInit, Active
  <2> QED
    BY <2>1, <2>2 DEF StoreTypeOK
<1>2. LiveJobsStored
  BY DEF StoreInit, LiveJobsStored
<1>3. NothingLost
  BY FS_EmptySet DEF StoreInit, NothingLost
<1> QED
  BY <1>1, <1>2, <1>3 DEF StoreInit, StoreInv

LEMMA CleanupStoreInv ==
  ASSUME StoreInv, Cleanup
  PROVE  StoreInv'
<1>1. StoreTypeOK /\ LiveJobsStored /\ NothingLost
  BY DEF StoreInv
<1>2. /\ store' = store \ Evicted /\ next' = next /\ statuses' = statuses
      /\ truncated' = truncated + Cardinality(Evicted)
      /\ creating' /\ next \in Jobs
  BY DEF Cleanup
<1>3. StoreTypeOK'
  <2>1. truncated' \in Nat
    BY <1>1, <1>2, Finite DEF StoreTypeOK
  <2> QED
    BY <1>1, <1>2, <2>1 DEF StoreTypeOK
<1>4. LiveJobsStored'
  <2>1. \A j \in Evicted : statuses[j] \notin Active
    BY DEF Evicted, Finished, Active, Terminal
  <2> QED
    BY <1>1, <1>2, <2>1 DEF LiveJobsStored
<1>5. NothingLost'
  BY <1>1, <1>2, Finite, EvictedLeave DEF NothingLost, StoreTypeOK
<1> QED
  BY <1>2, <1>3, <1>4, <1>5 DEF StoreInv

LEMMA InsertStoreInv ==
  ASSUME StoreInv, Insert
  PROVE  StoreInv'
<1>1. StoreTypeOK /\ LiveJobsStored /\ NothingLost /\ next \in Jobs
  BY DEF StoreInv, Insert
<1>2. /\ store' = store \cup {next} /\ next' = next + 1 /\ statuses' = statuses
      /\ truncated' = truncated /\ creating' = FALSE
  BY DEF Insert
<1>3. next \in Int /\ 1 <= next /\ next <= Created
  BY <1>1, CreatedAssumption DEF Jobs
<1>4. StoreTypeOK'
  <2>1. store' \subseteq 1..(next' - 1)
    BY <1>1, <1>2, <1>3 DEF StoreTypeOK
  <2>2. next' \in 1..(Created + 1)
    BY <1>2, <1>3, CreatedAssumption
  <2> QED
    BY <1>1, <1>2, <2>1, <2>2 DEF StoreTypeOK
<1>5. LiveJobsStored'
  <2> SUFFICES ASSUME NEW j \in 1..next, statuses[j] \in Active
               PROVE  j \in store \cup {next}
    BY <1>2, <1>3 DEF LiveJobsStored
  <2>1. j = next \/ j \in 1..(next - 1)
    BY <1>3
  <2> QED
    BY <1>1, <2>1 DEF LiveJobsStored
<1>6. NothingLost'
  <2>1. next \notin store
    BY <1>1, <1>3 DEF StoreTypeOK
  <2>2. Cardinality(store') = Cardinality(store) + 1
    BY <1>1, <1>2, <2>1, Finite, FS_AddElement
  <2> QED
    BY <1>1, <1>2, <1>3, <2>2, Finite DEF NothingLost, StoreTypeOK
<1> QED
  BY <1>2, <1>4, <1>5, <1>6 DEF StoreInv

\* What a run or a client does to a job concerns its status only.
LEMMA StatusStoreInv ==
  ASSUME StoreInv, NEW j \in 1..(next - 1), NEW s \in Active \cup Terminal, j \in store,
         statuses' = [statuses EXCEPT ![j] = s],
         UNCHANGED <<next, store, truncated, creating>>
  PROVE  StoreInv'
<1>1. StoreTypeOK /\ LiveJobsStored /\ NothingLost
  BY DEF StoreInv
<1>2. StoreTypeOK'
  BY <1>1 DEF StoreTypeOK
<1>3. LiveJobsStored'
  <2> SUFFICES ASSUME NEW k \in 1..(next - 1), statuses'[k] \in Active PROVE k \in store
    BY DEF LiveJobsStored
  <2>1. CASE k = j
    BY <2>1
  <2>2. CASE k # j
    <3>1. statuses'[k] = statuses[k]
      BY <2>2, <1>1 DEF StoreTypeOK
    <3> QED BY <1>1, <3>1 DEF LiveJobsStored
  <2> QED
    BY <2>1, <2>2
<1>4. NothingLost'
  BY <1>1 DEF NothingLost
<1> QED
  BY <1>2, <1>3, <1>4 DEF StoreInv

LEMMA StutterStoreInv == StoreInv /\ UNCHANGED storeVars => StoreInv'
  BY DEF StoreInv, storeVars, StoreTypeOK, LiveJobsStored, NothingLost

LEMMA NextStoreInv == StoreInv /\ [StoreNext]_storeVars => StoreInv'
<1> SUFFICES ASSUME StoreInv, [StoreNext]_storeVars PROVE StoreInv'
  OBVIOUS
<1>1. CASE Cleanup
  BY <1>1, CleanupStoreInv
<1>2. CASE Insert
  BY <1>2, InsertStoreInv
<1>3. ASSUME NEW j \in 1..(next - 1), NEW s \in {"running"} \cup Terminal, SetStatus(j, s)
      PROVE  StoreInv'
  <2>1. j \in store
    BY <1>3 DEF StoreInv, LiveJobsStored, SetStatus
  <2>2. s \in Active \cup Terminal
    BY DEF Active
  <2> QED
    BY <1>3, <2>1, <2>2, StatusStoreInv DEF SetStatus
<1>4. ASSUME NEW j \in 1..(next - 1),
             ControlJob(j, "running", "paused") \/ ControlJob(j, "paused", "running")
      PROVE  StoreInv'
  <2>1. "paused" \in Active \cup Terminal /\ "running" \in Active \cup Terminal
    BY DEF Active
  <2> QED
    BY <1>4, <2>1, StatusStoreInv DEF ControlJob
<1>5. CASE UNCHANGED storeVars
  BY <1>5, StutterStoreInv
<1> QED
  BY <1>1, <1>2, <1>3, <1>4, <1>5 DEF StoreNext

\* The inductive invariant holds whatever runs, clients and creations do.
THEOREM StoreInvariance == StoreSpec => []StoreInv
  BY InitStoreInv, NextStoreInv, PTL DEF StoreSpec

\* The store's variables keep their types: create_job never stores a job under
\* a number it has not given out.
THEOREM StoreTypeCorrect == StoreSpec => []StoreTypeOK
<1>1. StoreInv => StoreTypeOK
  BY DEF StoreInv
<1> QED
  BY <1>1, StoreInvariance, PTL

\* No job whose run has not ended is evicted by _cleanup_old_jobs, whatever
\* MAX_JOBS is and however many jobs are live.
THEOREM LiveStored == StoreSpec => []LiveJobsStored
<1>1. StoreInv => LiveJobsStored
  BY DEF StoreInv
<1> QED
  BY <1>1, StoreInvariance, PTL

\* The figures of get_stats account for every job that was ever created.
THEOREM NoneLost == StoreSpec => []NothingLost
<1>1. StoreInv => NothingLost
  BY DEF StoreInv
<1> QED
  BY <1>1, StoreInvariance, PTL

-----------------------------------------------------------------------------
(* What a single eviction does.                                            *)

\* Only a cleanup takes jobs out of the store.
LEMMA OnlyCleanup ==
  ASSUME [StoreNext]_storeVars
  PROVE  \/ Cleanup
         \/ store \subseteq store' /\ (creating' => creating)
  BY DEF StoreNext, Cleanup, Insert, SetStatus, ControlJob, storeVars

OldestFirstStep ==
    \A gone \in store \ store', kept \in Finished \cap store' : gone < kept

CleanupRestoresLimitStep ==
    (creating' /\ ~creating) =>
        \/ Cardinality(store') <= MaxJobs
        \/ \A j \in store' : statuses[j] \in Active

NoNeedlessEvictionStep ==
    store \ store' # {} => Cardinality(store') >= MaxJobs

LEMMA EvictionStep ==
  ASSUME StoreTypeOK, [StoreNext]_storeVars
  PROVE  OldestFirstStep /\ CleanupRestoresLimitStep /\ NoNeedlessEvictionStep
<1>1. CASE Cleanup
  <2>1. store' = store \ Evicted /\ store \ store' = Evicted
    BY <1>1, Finite DEF Cleanup
  <2>2. OldestFirstStep
    BY <2>1, EvictedAreOldest DEF OldestFirstStep
  <2>3. NoNeedlessEvictionStep
    BY <2>1, EvictedAreNeeded, EvictedLeave, Finite, MaxJobsAssumption
    DEF NoNeedlessEvictionStep
  <2>4. CleanupRestoresLimitStep
    <3>1. CASE Finished \ Evicted # {}
      BY <2>1, <3>1, EvictedAreEnough, EvictedLeave, Finite, MaxJobsAssumption
      DEF CleanupRestoresLimitStep
    <3>2. CASE Finished \ Evicted = {}
      <4> SUFFICES ASSUME NEW j \in store \ Evicted PROVE statuses[j] \in Active
        BY <2>1 DEF CleanupRestoresLimitStep
      <4>1. j \notin Finished /\ j \in Jobs
        BY <3>2, Finite
      <4> QED
        BY <4>1 DEF Finished, StoreTypeOK
    <3> QED
      BY <3>1, <3>2
  <2> QED
    BY <2>2, <2>3, <2>4
<1>2. CASE store \subseteq store' /\ (creating' => creating)
  BY <1>2 DEF OldestFirstStep, CleanupRestoresLimitStep, NoNeedlessEvictionStep
<1> QED
  BY <1>1, <1>2, OnlyCleanup

\* _cleanup_old_jobs evicts by age: no finished job outlives a younger one.
THEOREM EvictionByAge == StoreSpec => OldestFirst
<1>1. StoreTypeOK /\ [StoreNext]_storeVars => [OldestFirstStep]_storeVars
  BY EvictionStep
<1> QED
  BY <1>1, StoreTypeCorrect, PTL DEF StoreSpec, OldestFirst, OldestFirstStep

\* After a cleanup the store is within MAX_JOBS, unless live jobs alone exceed
\* it.
THEOREM LimitRestored == StoreSpec => CleanupRestoresLimit
<1>1. StoreTypeOK /\ [StoreNext]_storeVars => [CleanupRestoresLimitStep]_storeVars
  BY EvictionStep
<1> QED
  BY <1>1, StoreTypeCorrect, PTL DEF StoreSpec, CleanupRestoresLimit, CleanupRestoresLimitStep

\* A cleanup never takes the store below MAX_JOBS.
THEOREM EvictionNeeded == StoreSpec => NoNeedlessEviction
<1>1. StoreTypeOK /\ [StoreNext]_storeVars => [NoNeedlessEvictionStep]_storeVars
  BY EvictionStep
<1> QED
  BY <1>1, StoreTypeCorrect, PTL DEF StoreSpec, NoNeedlessEviction, NoNeedlessEvictionStep

\* So a cleanup evicts by age, as many as it must and no more.
THEOREM EvictionIsRight == StoreSpec => EvictionRight
  BY EvictionByAge, LimitRestored, EvictionNeeded DEF EvictionRight

-----------------------------------------------------------------------------
(* JobControl. *)

USE DEF setup

\* Where the run is says what its status is, how far it has got, and what it
\* is about to report.
RunInv ==
    /\ pc = "scheduled" => status = "pending"
    /\ pc \in {"gate", "parked", "woken", "admitted", "working", "finishing", "closing"}
          => status \in {"running", "paused"}
    /\ pc = "ended" => status \in Terminal
    /\ pc \in {"scheduled", "gate", "parked", "woken", "admitted", "working"}
          => done < Units
    /\ pc \in {"parked", "woken", "admitted"} => kind = "deploy"
    /\ pc = "finishing" => done = Units \/ (kind = "deploy" /\ cancel)
    /\ pc = "closing" =>
          /\ outcome \in {"completed", "cancelled"}
          /\ outcome = "completed" => done = Units
          /\ outcome = "cancelled" => cancel

\* The inductive invariant behind TypeOK and OutcomeTrue.
IInv == TypeOK /\ RunInv /\ OutcomeTrue

LEMMA InitIInv == Init => IInv
<1> SUFFICES ASSUME Init PROVE IInv
  OBVIOUS
<1>1. TypeOK
  <2>1. ready \in Seq(Ops)
    BY DEF Init
  <2>2. /\ status \in Active \cup Terminal /\ event \in Ops /\ pc \in Places
        /\ outcome \in Terminal /\ kind \in Kinds
        /\ cancel \in BOOLEAN /\ left \in BOOLEAN /\ late \in Nat
    BY DEF Init, Active, Terminal, Ops, Places
  <2>3. done \in 0..Units /\ channels \in Clients /\ groups \in 0..Units
    BY UnitsAssumption DEF Init
  <2> QED
    BY <2>1, <2>2, <2>3 DEF TypeOK
<1>2. RunInv /\ OutcomeTrue
  BY UnitsAssumption DEF Init, RunInv, OutcomeTrue
<1> QED
  BY <1>1, <1>2 DEF IInv

\* What a request, or the loop, does to the pause event keeps its type, and
\* moves the run at most from parked to woken.
LEMMA OpTyping ==
  ASSUME TypeOK, NEW op \in Ops, ApplyOp(op)
  PROVE  /\ event' \in Ops
         /\ pc' \in Places
         /\ pc' = pc \/ (pc = "parked" /\ pc' = "woken")
  BY DEF TypeOK, ApplyOp, Ops, Places

LEMMA RequestTyping ==
  ASSUME TypeOK, NEW op \in Ops, NEW ch \in channels, PauseEventOp(ch, op)
  PROVE  /\ event' \in Ops
         /\ ready' \in Seq(Ops)
         /\ pc' \in Places
         /\ pc' = pc \/ (pc = "parked" /\ pc' = "woken")
  BY OpTyping DEF PauseEventOp, TypeOK

LEMMA StepIInv == IInv /\ [Next]_vars => IInv'
<1> SUFFICES ASSUME IInv, [Next]_vars PROVE IInv'
  OBVIOUS
<1> USE UnitsAssumption DEF IInv, RunInv, OutcomeTrue, Active, Terminal
<1>1. ASSUME NEW ch \in channels, RequestCancel(ch) PROVE IInv'
  <2>1. /\ event' \in Ops /\ ready' \in Seq(Ops) /\ pc' \in Places
        /\ pc' = pc \/ (pc = "parked" /\ pc' = "woken")
    BY <1>1, RequestTyping DEF RequestCancel, Ops
  <2>2. TypeOK'
    BY <1>1, <2>1 DEF RequestCancel, TypeOK
  <2> QED
    BY <1>1, <2>1, <2>2 DEF RequestCancel, TypeOK, Places
<1>2. ASSUME NEW ch \in channels, RequestPause(ch) PROVE IInv'
  <2>1. /\ event' \in Ops /\ ready' \in Seq(Ops) /\ pc' \in Places
        /\ pc' = pc \/ (pc = "parked" /\ pc' = "woken")
    BY <1>2, RequestTyping DEF RequestPause, Ops
  <2>2. TypeOK'
    BY <1>2, <2>1 DEF RequestPause, TypeOK
  <2> QED
    BY <1>2, <2>1, <2>2 DEF RequestPause, TypeOK, Places
<1>3. ASSUME NEW ch \in channels, RequestResume(ch) PROVE IInv'
  <2>1. /\ event' \in Ops /\ ready' \in Seq(Ops) /\ pc' \in Places
        /\ pc' = pc \/ (pc = "parked" /\ pc' = "woken")
    BY <1>3, RequestTyping DEF RequestResume, Ops
  <2>2. TypeOK'
    BY <1>3, <2>1 DEF RequestResume, TypeOK
  <2> QED
    BY <1>3, <2>1, <2>2 DEF RequestResume, TypeOK, Places
<1>4. ASSUME RunCallback PROVE IInv'
  <2>1. Head(ready) \in Ops /\ ready' \in Seq(Ops)
    BY <1>4 DEF RunCallback, TypeOK
  <2>2. /\ event' \in Ops /\ pc' \in Places
        /\ pc' = pc \/ (pc = "parked" /\ pc' = "woken")
    BY <1>4, <2>1, OpTyping DEF RunCallback
  <2>3. TypeOK'
    BY <1>4, <2>1, <2>2 DEF RunCallback, TypeOK
  <2> QED
    BY <1>4, <2>2, <2>3 DEF RunCallback, TypeOK, Places
<1>5. ASSUME Start PROVE IInv'
  BY <1>5 DEF Start, TypeOK, Places
<1>6. ASSUME Fail PROVE IInv'
  BY <1>6 DEF Fail, TypeOK, Places
<1>7. ASSUME Park PROVE IInv'
  BY <1>7 DEF Park, TypeOK, Places
<1>8. ASSUME PassGate PROVE IInv'
  BY <1>8 DEF PassGate, TypeOK, Places
<1>9. ASSUME StartUnit \/ RetryNext PROVE IInv'
  <2>1. late' \in Nat
    BY <1>9 DEF StartUnit, RetryNext, CountStart, TypeOK
  <2> QED
    BY <1>9, <2>1 DEF StartUnit, RetryNext, TypeOK, Places
<1>10. ASSUME UnitDone PROVE IInv'
  BY <1>10 DEF UnitDone, TypeOK, Places
<1>11. ASSUME ChooseOutcome PROVE IInv'
  BY <1>11 DEF ChooseOutcome, TypeOK, Places
<1>12. ASSUME Close PROVE IInv'
  BY <1>12 DEF Close, TypeOK, Places
<1>13. CASE UNCHANGED vars
  BY <1>13 DEF vars, TypeOK
<1> QED
  BY <1>1, <1>2, <1>3, <1>4, <1>5, <1>6, <1>7, <1>8, <1>9, <1>10, <1>11,
     <1>12, <1>13 DEF Next, Run, Ended

\* The inductive invariant holds in every state of every interleaving.
THEOREM Invariance == SafeSpec => []IInv
  BY InitIInv, StepIInv, PTL DEF SafeSpec

\* Every variable keeps its type.
THEOREM TypeCorrect == SafeSpec => []TypeOK
  BY Invariance, PTL DEF IInv

\* A job reported as completed deployed everything, and one reported as
\* cancelled was cancelled by a client, however requests and run interleave
\* and on whichever channels the requests come.
THEOREM OutcomeIsTrue == SafeSpec => []OutcomeTrue
  BY Invariance, PTL DEF IInv

-----------------------------------------------------------------------------
(* Status and pause event agree when all requests come on one channel.     *)

\* Taking the first element of a sequence leaves its last one where it was.
LEMMA TailKeepsLast ==
  ASSUME NEW S, NEW s \in Seq(S), s # <<>>
  PROVE  \/ Tail(s) = <<>> /\ Head(s) = s[Len(s)]
         \/ Tail(s) # <<>> /\ Tail(s)[Len(Tail(s))] = s[Len(s)]
<1>1. PICK n \in Nat : n = Len(s) /\ n # 0
  OBVIOUS
<1>2. CASE n = 1
  <2>1. Tail(s) \in Seq(S) /\ Len(Tail(s)) = Len(s) - 1
    BY HeadTailProperties
  <2>2. Len(Tail(s)) = 0
    <3>1. Len(Tail(s)) = n - 1
      BY <1>1, <2>1
    <3>2. n - 1 = 0
      BY <1>2
    <3> QED
      BY <3>1, <3>2
  <2>3. Tail(s) = <<>>
    BY <2>1, <2>2, EmptySeq
  <2>4. Head(s) = s[Len(s)]
    BY <1>1, <1>2
  <2> QED
    BY <2>3, <2>4
<1>3. CASE n # 1
  <2>1. Len(Tail(s)) = n - 1 /\ n - 1 \in 1..Len(Tail(s))
    BY <1>1, <1>3
  <2>2. Tail(s)[n - 1] = s[n]
    BY <1>1, <1>3, <2>1
  <2>3. Tail(s) # <<>>
    BY <1>1, <1>3, <2>1
  <2> QED
    BY <1>1, <2>1, <2>2, <2>3
<1> QED
  BY <1>2, <1>3

\* Operations reach the event in the order the requests took the lock, so the
\* loop running one of them does not change what the event will end up as.
LEMMA CallbackKeepsSettled ==
  ASSUME TypeOK, RunCallback
  PROVE  Settled' = Settled
<1>1. /\ ready \in Seq(Ops) /\ ready # <<>>
      /\ event' = Head(ready) /\ ready' = Tail(ready)
  BY DEF TypeOK, RunCallback, ApplyOp
<1>2. Len(ready) \in Nat
  BY <1>1
<1>3. \/ Tail(ready) = <<>> /\ Head(ready) = ready[Len(ready)]
      \/ Tail(ready) # <<>> /\ Tail(ready)[Len(Tail(ready))] = ready[Len(ready)]
  BY <1>1, <1>2, TailKeepsLast
<1> QED
  BY <1>1, <1>3 DEF Settled

\* A request's operation is the last word on the event, unless it overtakes
\* what another thread has queued.
LEMMA RequestSettles ==
  ASSUME TypeOK, NEW op \in Ops, NEW ch, PauseEventOp(ch, op),
         ch = "loop" => ready = <<>>
  PROVE  Settled' = op
<1>1. CASE ch = "loop"
  BY <1>1 DEF PauseEventOp, ApplyOp, Settled
<1>2. CASE ch = "pool"
  <2>1. ready \in Seq(Ops) /\ ready' = Append(ready, op)
    BY <1>2 DEF PauseEventOp, TypeOK
  <2>2. ready' # <<>> /\ ready'[Len(ready')] = op
    BY <2>1
  <2> QED
    BY <2>2 DEF Settled
<1> QED
  BY <1>1, <1>2 DEF PauseEventOp

\* PauseAgrees made inductive: a job that has not started ends up with its
\* event set, and requests on the loop never meet queued operations.
PauseInv ==
    /\ PauseAgrees
    /\ status = "pending" => Settled = "set"
    /\ "loop" \in channels => ready = <<>>

LEMMA StepPauseInv ==
  ASSUME \A c \in Clients : ~({"pool", "loop"} \subseteq c)
  PROVE  IInv /\ PauseInv /\ [Next]_vars => PauseInv'
<1> SUFFICES ASSUME IInv, PauseInv, [Next]_vars PROVE PauseInv'
  OBVIOUS
<1>0. TypeOK /\ RunInv
  BY DEF IInv
<1>1. ASSUME NEW ch \in channels, NEW op \in Ops, PauseEventOp(ch, op)
      PROVE  Settled' = op /\ ("loop" \in channels => ready' = <<>>)
  <2>1. ch = "loop" => ready = <<>>
    BY DEF PauseInv
  <2>2. Settled' = op
    BY <1>0, <1>1, <2>1, RequestSettles
  <2>3. "loop" \in channels => ch = "loop"
    BY <1>0, <1>1 DEF PauseEventOp, TypeOK
  <2> QED
    BY <1>1, <2>2, <2>3 DEF PauseEventOp, PauseInv
<1>2. ASSUME UNCHANGED <<event, ready>>
      PROVE  Settled' = Settled /\ ready' = ready
  BY <1>2 DEF Settled
<1>3. ASSUME NEW ch \in channels, RequestCancel(ch) PROVE PauseInv'
  <2>1. Settled' = "set" /\ ("loop" \in channels => ready' = <<>>)
    BY <1>1, <1>3 DEF RequestCancel, Ops
  <2> QED
    BY <1>3, <2>1 DEF RequestCancel, PauseInv, PauseAgrees
<1>4. ASSUME NEW ch \in channels, RequestPause(ch) PROVE PauseInv'
  <2>1. Settled' = "clear" /\ ("loop" \in channels => ready' = <<>>)
    BY <1>1, <1>4 DEF RequestPause, Ops
  <2> QED
    BY <1>4, <2>1 DEF RequestPause, PauseInv, PauseAgrees
<1>5. ASSUME NEW ch \in channels, RequestResume(ch) PROVE PauseInv'
  <2>1. Settled' = "set" /\ ("loop" \in channels => ready' = <<>>)
    BY <1>1, <1>5 DEF RequestResume, Ops
  <2> QED
    BY <1>5, <2>1 DEF RequestResume, PauseInv, PauseAgrees
<1>6. ASSUME RunCallback PROVE PauseInv'
  <2>1. Settled' = Settled
    BY <1>0, <1>6, CallbackKeepsSettled
  <2> QED
    BY <1>6, <2>1 DEF RunCallback, PauseInv, PauseAgrees
<1>7. ASSUME Start PROVE PauseInv'
  BY <1>0, <1>2, <1>7 DEF Start, RunInv, PauseInv, PauseAgrees
<1>8. ASSUME Fail PROVE PauseInv'
  BY <1>2, <1>8 DEF Fail, PauseInv, PauseAgrees
<1>9. ASSUME Close PROVE PauseInv'
  <2>1. outcome \in Terminal
    BY <1>0 DEF TypeOK
  <2> QED
    BY <1>2, <1>9, <2>1 DEF Close, PauseInv, PauseAgrees, Terminal
<1>10. ASSUME Park \/ PassGate \/ StartUnit \/ RetryNext \/ UnitDone \/ ChooseOutcome
       PROVE  PauseInv'
  <2>1. UNCHANGED <<event, ready>> /\ UNCHANGED <<channels, status, cancel>>
    BY <1>10 DEF Park, PassGate, StartUnit, RetryNext, UnitDone, ChooseOutcome
  <2> QED
    BY <1>2, <2>1 DEF PauseInv, PauseAgrees
<1>11. CASE UNCHANGED vars
  BY <1>2, <1>11 DEF vars, PauseInv, PauseAgrees
<1> QED
  BY <1>3, <1>4, <1>5, <1>6, <1>7, <1>8, <1>9, <1>10, <1>11
  DEF Next, Run, Ended

\* The status clients see and the event that holds the run agree, as long as
\* all control requests come on one channel.  With the HTTP endpoints and the
\* websocket both in use they need not: a resume may overtake a pause.
THEOREM PauseAgreement ==
  ASSUME \A c \in Clients : ~({"pool", "loop"} \subseteq c)
  PROVE  SafeSpec => []PauseAgrees
<1>1. Init => PauseInv
  BY DEF Init, PauseInv, PauseAgrees, Settled
<1> QED
  BY <1>1, StepPauseInv, Invariance, PTL DEF SafeSpec, PauseInv

-----------------------------------------------------------------------------
(* What no step may do.                                                    *)

\* A finished job keeps its status, whichever requests still arrive.
THEOREM TerminalStays == SafeSpec => TerminalIsFinal
<1>1. IInv /\ [Next]_vars => [(status \in Terminal) => (status' = status)]_vars
  <2> SUFFICES ASSUME IInv, Next, status \in Terminal PROVE status' = status
    OBVIOUS
  <2>1. pc = "ended"
    BY DEF IInv, TypeOK, RunInv, Terminal, Places
  <2> QED
    BY <2>1 DEF Next, Run, RequestCancel, RequestPause, RequestResume,
       RunCallback, Start, Fail, Park, PassGate, StartUnit, RetryNext, UnitDone,
       ChooseOutcome, Close, Ended, vars, Active, Terminal
<1> QED
  BY <1>1, Invariance, PTL DEF SafeSpec, TerminalIsFinal

\* CancelStopsNewUnits made inductive: nothing has been started late as long as
\* a run is let through, and a run that is let through, and could not have been
\* overtaken by a thread, has not been cancelled.
LateInv ==
    kind = "deploy" =>
        /\ late <= 1
        /\ ~cancel \/ pc = "admitted" => late = 0
        /\ "pool" \notin channels => late = 0 /\ (pc = "admitted" => ~cancel)

LEMMA StepLateInv == IInv /\ LateInv /\ [Next]_vars => LateInv'
<1> SUFFICES ASSUME IInv, LateInv, [Next]_vars, kind = "deploy" PROVE LateInv'
  BY DEF LateInv, Next, Run, RequestCancel, RequestPause, RequestResume,
     RunCallback, Start, Fail, Park, PassGate, StartUnit, RetryNext, UnitDone,
     ChooseOutcome, Close, Ended, vars
<1> USE DEF LateInv
<1>0. channels \in Clients /\ channels \subseteq {"pool", "loop"} /\ cancel \in BOOLEAN
      /\ late \in Nat
  BY ClientsAssumption DEF IInv, TypeOK
<1>1. ASSUME NEW op, NEW ch, PauseEventOp(ch, op)
      PROVE  /\ pc' = pc \/ pc' = "woken"
             /\ pc = "admitted" => ch = "pool"
  BY <1>1 DEF PauseEventOp, ApplyOp, LoopFree
<1>2. ASSUME NEW ch \in channels, RequestCancel(ch) PROVE LateInv'
  <2>1. PauseEventOp(ch, "set") /\ UNCHANGED <<kind, channels, late>> /\ cancel' = TRUE
    BY <1>2 DEF RequestCancel
  <2> QED
    BY <1>0, <1>1, <2>1
<1>3. ASSUME NEW ch \in channels, RequestPause(ch) \/ RequestResume(ch) PROVE LateInv'
  <2>1. \E op : PauseEventOp(ch, op)
    BY <1>3 DEF RequestPause, RequestResume
  <2>2. UNCHANGED <<kind, channels, cancel, late>>
    BY <1>3 DEF RequestPause, RequestResume
  <2> QED
    BY <1>1, <2>1, <2>2
<1>4. ASSUME RunCallback PROVE LateInv'
  BY <1>4 DEF RunCallback, ApplyOp
<1>5. ASSUME Start \/ Fail \/ Park \/ UnitDone \/ ChooseOutcome \/ Close PROVE LateInv'
  BY <1>5 DEF Start, Fail, Park, UnitDone, ChooseOutcome, Close
<1>6. ASSUME PassGate PROVE LateInv'
  BY <1>0, <1>6 DEF PassGate
<1>7. ASSUME StartUnit PROVE LateInv'
  BY <1>0, <1>7 DEF StartUnit, CountStart
<1>8. ~RetryNext
  BY DEF RetryNext
<1>9. CASE UNCHANGED vars
  BY <1>9 DEF vars
<1> QED
  BY <1>2, <1>3, <1>4, <1>5, <1>6, <1>7, <1>8, <1>9 DEF Next, Run, Ended

\* A deployment whose cancel has been accepted starts at most the workshop it had
\* been let through for, on whichever channels requests come; and none at all if
\* they come on the loop only.
THEOREM CancelIsHeeded == SafeSpec => []CancelStopsNewUnits
<1>1. Init => LateInv
  BY DEF Init, LateInv
<1>2. LateInv => CancelStopsNewUnits
  BY DEF LateInv, CancelStopsNewUnits
<1> QED
  BY <1>1, <1>2, StepLateInv, Invariance, PTL DEF SafeSpec

\* The job implements JobLifecycle: every step of the run, of a request or of
\* the loop is one step of the lifecycle or leaves it as it is.
THEOREM Refinement == SafeSpec => KeepsLifecycle
<1>1. Init => Lifecycle!Init
  BY DEF Init, Lifecycle!Init
<1>2. IInv /\ [Next]_vars => [Lifecycle!Next]_(Lifecycle!vars)
  <2> SUFFICES ASSUME IInv, [Next]_vars
               PROVE  Lifecycle!Next \/ UNCHANGED <<status, cancel, done>>
    BY DEF Lifecycle!vars
  <2> USE DEF Lifecycle!Next
  <2>1. ASSUME NEW ch \in channels, RequestCancel(ch) PROVE Lifecycle!AcceptCancel
    BY <2>1 DEF RequestCancel, Active, Lifecycle!AcceptCancel, Lifecycle!Open
  <2>2. ASSUME NEW ch \in channels, RequestPause(ch) PROVE Lifecycle!Suspend
    BY <2>2 DEF RequestPause, Lifecycle!Suspend
  <2>3. ASSUME NEW ch \in channels, RequestResume(ch) PROVE Lifecycle!Continue
    BY <2>3 DEF RequestResume, Lifecycle!Continue
  <2>4. ASSUME Start PROVE Lifecycle!Begin
    BY <2>4 DEF Start, IInv, RunInv, Lifecycle!Begin
  <2>5. ASSUME Fail PROVE Lifecycle!Finish("failed")
    BY <2>5 DEF Fail, IInv, RunInv, Lifecycle!Finish, Lifecycle!Open
  <2>6. ASSUME UnitDone PROVE Lifecycle!CountUnit
    BY <2>6 DEF UnitDone, IInv, RunInv, Lifecycle!CountUnit
  <2>7. ASSUME Close PROVE Lifecycle!Finish(outcome)
    BY <2>7 DEF Close, IInv, RunInv, Lifecycle!Finish, Lifecycle!Open
  <2>8. ASSUME Close PROVE outcome \in {"completed", "failed", "cancelled"}
    BY <2>8 DEF IInv, TypeOK, Terminal
  <2>9. ASSUME RunCallback \/ Park \/ PassGate \/ StartUnit \/ RetryNext \/ ChooseOutcome
               \/ Ended \/ UNCHANGED vars
        PROVE  UNCHANGED <<status, cancel, done>>
    BY <2>9 DEF RunCallback, Park, PassGate, StartUnit, RetryNext, ChooseOutcome, Ended,
       vars
  <2> QED
    BY <2>1, <2>2, <2>3, <2>4, <2>5, <2>6, <2>7, <2>8, <2>9 DEF Next, Run
<1> QED
  BY <1>1, <1>2, Invariance, PTL DEF SafeSpec, KeepsLifecycle, Lifecycle!Spec

-----------------------------------------------------------------------------
(* JobEvents. *)

\* What the streams hold of the outcome is the outcome; and a stream whose client
\* has been shown it neither waits for another event nor holds one.
OutcomeKnown ==
    /\ \A i \in 1..Len(handed) : handed[i] \in Active
    /\ \A i \in 1..Len(queue) : queue[i] \in Terminal => queue[i] = jobStatus
    /\ \A s \in Streams : taken[s] \in Terminal => taken[s] = jobStatus
    /\ \A s \in Streams :
          shown[s] \in Terminal => shown[s] = jobStatus /\ place[s] \in {"check", "over", "closed"}

EventsInv == EventsTypeOK /\ OutcomeKnown /\ ClosedKnowsOutcome

USE DEF Statuses, Active, Terminal

\* Taking the head off a queue leaves elements of the queue.
LEMMA TailElements ==
    ASSUME NEW q \in Seq(Statuses), q # <<>>
    PROVE  /\ Tail(q) \in Seq(Statuses)
           /\ Head(q) \in Statuses
           /\ Head(q) = q[1] /\ 1 \in 1..Len(q)
           /\ \A i \in 1..Len(Tail(q)) : i + 1 \in 1..Len(q) /\ Tail(q)[i] = q[i + 1]
  OBVIOUS

\* Putting an event at the end of a queue adds no other.
LEMMA AppendElements ==
    ASSUME NEW q \in Seq(Statuses), NEW st \in Statuses
    PROVE  /\ Append(q, st) \in Seq(Statuses)
           /\ \A i \in 1..Len(Append(q, st)) :
                 Append(q, st)[i] = st \/ (i \in 1..Len(q) /\ Append(q, st)[i] = q[i])
  OBVIOUS

LEMMA InitEventsInv == EventsInit => EventsInv
  <1> SUFFICES ASSUME EventsInit PROVE EventsInv
    OBVIOUS
  <1>1. EventsTypeOK
    <2>1. handed \in Seq(Statuses) /\ queue \in Seq(Statuses)
      BY DEF EventsInit
    <2>2. changes \in 0..MaxChanges
      BY MaxChangesAssumption DEF EventsInit
    <2> QED
      BY <2>1, <2>2 DEF EventsInit, EventsTypeOK
  <1>2. OutcomeKnown
    <2>1. Len(handed) = 0 /\ Len(queue) = 0
      BY DEF EventsInit
    <2> QED
      BY <2>1 DEF EventsInit, OutcomeKnown
  <1>3. ClosedKnowsOutcome
    BY DEF EventsInit, ClosedKnowsOutcome
  <1> QED
    BY <1>1, <1>2, <1>3 DEF EventsInv

\* A change of the job's status that may come while it has not ended.
LEMMA EmitKeeps ==
    ASSUME EventsInv, NEW st \in Statuses, Emit(st), jobStatus \in Active,
           changes' \in 0..MaxChanges
    PROVE  EventsInv'
  <1>1. EventsTypeOK'
    BY AppendElements DEF EventsInv, EventsTypeOK, Emit
  <1>2. \A i \in 1..Len(queue') : queue'[i] \in Terminal => queue'[i] = st
    <2>1. queue \in Seq(Statuses) /\ queue' = Append(queue, st)
      BY DEF EventsInv, EventsTypeOK, Emit
    <2>2. \A i \in 1..Len(queue') :
              queue'[i] = st \/ (i \in 1..Len(queue) /\ queue'[i] = queue[i])
      BY <2>1, AppendElements
    <2>3. \A i \in 1..Len(queue) : queue[i] \notin Terminal
      BY DEF EventsInv, OutcomeKnown, Active, Terminal
    <2> QED
      BY <2>2, <2>3
  <1>3. OutcomeKnown'
    BY <1>2 DEF EventsInv, OutcomeKnown, Emit
  <1>4. ClosedKnowsOutcome'
    BY DEF EventsInv, ClosedKnowsOutcome, Emit
  <1> QED
    BY <1>1, <1>3, <1>4 DEF EventsInv

LEMMA NextEventsInv == EventsInv /\ [EventsNext]_eventsVars => EventsInv'
  <1> SUFFICES ASSUME EventsInv, [EventsNext]_eventsVars PROVE EventsInv'
    OBVIOUS
  <1> USE DEF EventsInv, EventsTypeOK, Goto, Show
  <1>1. CASE StartRun
    BY <1>1, EmitKeeps DEF StartRun
  <1>2. CASE Progress
    <2>1. jobStatus \in Active /\ jobStatus \in Statuses /\ Emit(jobStatus) /\ changes' \in 0..MaxChanges
      BY <1>2, MaxChangesAssumption DEF Progress
    <2> QED
      BY <2>1, EmitKeeps
  <1>3. ASSUME NEW st \in Terminal, Finish(st) PROVE EventsInv'
    BY <1>3, EmitKeeps DEF Finish
  <1>4. ASSUME NEW from \in {"running", "paused"}, NEW to \in {"running", "paused"},
               Control(from, to)
        PROVE EventsInv'
    <2>0. handed' = Append(handed, to) /\ to \in Active /\ to \in Statuses /\ handed \in Seq(Statuses)
      BY <1>4 DEF Control
    <2>1. handed' \in Seq(Statuses) /\ \A i \in 1..Len(handed') : handed'[i] \in Active
      BY <2>0, AppendElements DEF OutcomeKnown
    <2>4. EventsTypeOK'
      BY <1>4, <2>1, MaxChangesAssumption DEF Control
    <2>2. OutcomeKnown'
      BY <1>4, <2>1 DEF Control, OutcomeKnown
    <2>3. ClosedKnowsOutcome'
      BY <1>4 DEF Control, ClosedKnowsOutcome
    <2> QED
      BY <2>2, <2>3, <2>4
  <1>5. CASE Deliver
    <2>1. Head(handed) \in Active
      BY <1>5, TailElements DEF Deliver, OutcomeKnown
    <2>2. EventsTypeOK'
      BY <1>5, <2>1, TailElements, AppendElements DEF Deliver
    <2>3. \A i \in 1..Len(queue') : queue'[i] \in Terminal => queue'[i] = jobStatus
      BY <1>5, <2>1, AppendElements DEF Deliver, OutcomeKnown
    <2>4. \A i \in 1..Len(handed') : handed'[i] \in Active
      BY <1>5, TailElements DEF Deliver, OutcomeKnown
    <2>5. OutcomeKnown'
      BY <1>5, <2>3, <2>4 DEF Deliver, OutcomeKnown
    <2>6. ClosedKnowsOutcome'
      BY <1>5 DEF Deliver, ClosedKnowsOutcome
    <2> QED
      BY <2>2, <2>5, <2>6
  <1>6. CASE ShutDown
    BY <1>6 DEF ShutDown, OutcomeKnown, ClosedKnowsOutcome
  <1>7. ASSUME NEW s \in Streams, Open(s) PROVE EventsInv'
    BY <1>7 DEF Open, OutcomeKnown, ClosedKnowsOutcome
  <1>8. ASSUME NEW s \in Streams, Check(s) PROVE EventsInv'
    <2>1. CASE jobStatus \in Terminal /\ Goto(s, "over") /\ Show(s, jobStatus)
      <3>1. EventsTypeOK'
        BY <1>8, <2>1 DEF Check
      <3>2. OutcomeKnown'
        BY <1>8, <2>1 DEF Check, OutcomeKnown
      <3>3. jobStatus' = jobStatus /\ down' = down /\ shown'[s] = jobStatus
        BY <1>8, <2>1 DEF Check
      <3>4. \A t \in Streams \ {s} : place'[t] = place[t] /\ shown'[t] = shown[t]
        BY <2>1
      <3>5. ClosedKnowsOutcome'
        <4> SUFFICES ASSUME NEW t \in Streams, place'[t] = "over"
                     PROVE  \/ jobStatus \in Terminal /\ shown'[t] = jobStatus
                            \/ down /\ t \notin Sockets
          BY <3>3 DEF ClosedKnowsOutcome
        <4> QED
          BY <2>1, <3>3, <3>4 DEF ClosedKnowsOutcome
      <3> QED
        BY <3>1, <3>2, <3>5
    <2>2. CASE jobStatus \in Active /\ UNCHANGED shown
      BY <1>8, <2>2 DEF Check, OutcomeKnown, ClosedKnowsOutcome
    <2> QED
      BY <1>8, <2>1, <2>2 DEF Check
  <1>9. ASSUME NEW s \in Streams, Take(s) PROVE EventsInv'
    <2>1. Head(queue) \in Statuses /\ (Head(queue) \in Terminal => Head(queue) = jobStatus)
      BY <1>9, TailElements DEF Take, OutcomeKnown
    <2>2. EventsTypeOK'
      BY <1>9, <2>1, TailElements DEF Take
    <2>3. \A i \in 1..Len(queue') : queue'[i] \in Terminal => queue'[i] = jobStatus
      BY <1>9, TailElements DEF Take, OutcomeKnown
    <2>4. OutcomeKnown'
      BY <1>9, <2>1, <2>3 DEF Take, OutcomeKnown
    <2>5. ClosedKnowsOutcome'
      BY <1>9 DEF Take, ClosedKnowsOutcome
    <2> QED
      BY <2>2, <2>4, <2>5
  <1>10. ASSUME NEW s \in Streams, Timeout(s) PROVE EventsInv'
    BY <1>10 DEF Timeout, OutcomeKnown, ClosedKnowsOutcome
  <1>11. ASSUME NEW s \in Streams, Send(s) PROVE EventsInv'
    <2>1. EventsTypeOK'
      BY <1>11 DEF Send
    <2>2. UNCHANGED <<jobStatus, handed, queue, down>>
      BY <1>11 DEF Send
    <2>3. taken[s] \in Terminal => taken[s] = jobStatus
      BY DEF OutcomeKnown
    <2>4. place[s] = "sending" /\ shown[s] \notin Terminal
      BY <1>11 DEF Send, OutcomeKnown
    <2>5. /\ place'[s] = IF taken[s] \in Last(s) THEN "over" ELSE "check"
          /\ shown'[s] = taken[s] /\ taken'[s] = "nothing"
      BY <1>11 DEF Send
    <2>6. \A t \in Streams \ {s} :
             place'[t] = place[t] /\ shown'[t] = shown[t] /\ taken'[t] = taken[t]
      BY <1>11 DEF Send
    <2>7. OutcomeKnown'
      BY <2>2, <2>3, <2>5, <2>6 DEF OutcomeKnown
    <2>8. ClosedKnowsOutcome'
      <3> SUFFICES ASSUME NEW t \in Streams, place'[t] = "over"
                   PROVE  \/ jobStatus \in Terminal /\ shown'[t] = jobStatus
                          \/ down /\ t \notin Sockets
        BY <2>2 DEF ClosedKnowsOutcome
      <3>1. CASE t = s
        BY <2>3, <2>5, <3>1 DEF Last
      <3>2. CASE t # s
        BY <2>6, <3>2 DEF ClosedKnowsOutcome
      <3> QED
        BY <3>1, <3>2
    <2> QED
      BY <2>1, <2>7, <2>8
  <1>12. ASSUME NEW s \in Streams, Leave(s) PROVE EventsInv'
    BY <1>12 DEF Leave, OutcomeKnown, ClosedKnowsOutcome
  <1>13. CASE UNCHANGED eventsVars
    BY <1>13 DEF eventsVars, OutcomeKnown, ClosedKnowsOutcome
  <1> QED
    BY <1>1, <1>2, <1>3, <1>4, <1>5, <1>6, <1>7, <1>8, <1>9, <1>10, <1>11, <1>12, <1>13
    DEF EventsNext, Stream

\* The inductive invariant holds throughout.
THEOREM EventsInvariance == EventsSpec => []EventsInv
  BY InitEventsInv, NextEventsInv, PTL DEF EventsSpec

\* The variables keep their types.
THEOREM EventsTypeCorrect == EventsSpec => []EventsTypeOK
  <1>1. EventsInv => EventsTypeOK
    BY DEF EventsInv
  <1> QED
    BY <1>1, EventsInvariance, PTL

\* For any number of streams on one queue, a stream that is over has sent how the
\* job ended, or the server is shutting down.
THEOREM ClosedStreamsKnow == EventsSpec => []ClosedKnowsOutcome
  <1>1. EventsInv => ClosedKnowsOutcome
    BY DEF EventsInv
  <1> QED
    BY <1>1, EventsInvariance, PTL

\* A step changes nothing that a client was shown of the outcome.
LEMMA OutcomeStays ==
    EventsInv /\ [EventsNext]_eventsVars => \A s \in Streams : shown[s] \in Terminal => shown'[s] = shown[s]
  <1> SUFFICES ASSUME EventsInv, [EventsNext]_eventsVars, NEW s \in Streams, shown[s] \in Terminal
               PROVE  shown'[s] = shown[s]
    OBVIOUS
  <1> USE DEF EventsInv, EventsTypeOK, OutcomeKnown, Goto, Show
  <1>1. ASSUME NEW t \in Streams, Open(t) \/ Check(t) PROVE shown'[s] = shown[s]
    BY <1>1 DEF Open, Check
  <1>2. ASSUME NEW t \in Streams, Send(t) PROVE shown'[s] = shown[s]
    BY <1>2 DEF Send
  <1>3. CASE UNCHANGED shown
    BY <1>3
  <1> QED
    BY <1>1, <1>2, <1>3
    DEF EventsNext, Stream, eventsVars, StartRun, Progress, Finish, Emit, Control, Deliver, ShutDown, Take,
        Timeout, Leave

\* No client is shown a job as going on after it was shown as ended.
THEOREM NeverReopened == EventsSpec => NoReopening
  <1>1. EventsInv /\ [EventsNext]_eventsVars
          => [\A s \in Streams : shown[s] \in Terminal => shown'[s] = shown[s]]_eventsVars
    BY OutcomeStays
  <1> QED
    BY <1>1, EventsInvariance, PTL DEF EventsSpec, NoReopening
=============================================================================
