---------------------------- MODULE MultiWorkshop ----------------------------
(***************************************************************************)
(* create_multi_workshop of rhdp_flow.py: it creates a Workshop (a shell)  *)
(* for every asset of a group with create_workshop_with_ui, waits for      *)
(* their ids, creates a MultiWorkshop that lists them, waits for the       *)
(* controller to replace them by Workshops of its own, and deletes the     *)
(* shells that are no longer listed.                                       *)
(*                                                                         *)
(* The Babylon controller is not part of the repository: what it does is   *)
(* what the comments here say of it.  It runs at its own pace, and it may  *)
(* adopt a shell by labelling it.  Threads of other jobs create Workshops  *)
(* in the namespace too.  oc calls can go wrong in the ways named by       *)
(* faults.                                                                 *)
(***************************************************************************)
EXTENDS Naturals, FiniteSets

CONSTANTS
    Assets,     \* the catalog items of the group
    Attempts,   \* config.retry_attempts
    Polls,      \* how often the run looks whether the controller is done
    Strangers,  \* the Workshops of other jobs
    FaultSets   \* the cases considered of which oc calls may go wrong

ASSUME PollsAssumption == Polls \in Nat \ {0}
ASSUME AttemptsAssumption == Attempts \in Nat \ {0}
\* "lost":    oc create takes effect, and its answer is lost: it looks refused,
\*            or for a while only, or runs into its time limit
\* "unnamed": oc create succeeds, and its output does not name what it made
\* "read":    reading the MultiWorkshop's assets fails
\* "inspect": reading a Workshop's labels and owners, or the newest one, fails
\* "delete":  deleting a Workshop fails
\* "timeout": creating the MultiWorkshop takes longer than the time limit
ASSUME FaultSetsAssumption ==
    FaultSets \subseteq SUBSET {"lost", "unnamed", "read", "inspect", "delete", "timeout"}

\* Definitions introduced by "Variant" are not part of the model: each has a
\* plausible mistake in it, which the properties of this module must notice.

VARIABLES
    faults,     \* which oc calls may go wrong
    pc,         \* where the run is
    todo,       \* the assets its current loop has still to deal with
    tries,      \* how often oc create has been tried for each asset's shell
    looking,    \* the assets whose shell was made and not named
    shell,      \* created_workshops: the Workshop taken for each asset's shell
    ready,      \* the assets whose shells have got an id
    polls,      \* how often it has polled
    names,      \* the Workshops it read from the MultiWorkshop before cleaning up
    exists,     \* the Workshops in the namespace
    newest,     \* the one that was created last, while shells are created
    others,     \* history: the Workshops other jobs have created
    live,       \* the MultiWorkshop exists
    listed,     \* the Workshops its spec.assets names
    adopted     \* the Workshops the controller has labelled as its own

progress == <<faults, tries, looking, shell, ready, polls, names>>
workshops == <<exists, newest, others>>
multi == <<live, listed, adopted>>
multiVars == <<pc, todo, progress, workshops, multi>>

Shell(a, n) == <<"shell", a, n>>
Own(a) == <<"own", a, 0>>
Shells == {Shell(a, n) : a \in Assets, n \in 1..Attempts}
Owns == {Own(a) : a \in Assets}
Workshops == Shells \cup Owns \cup Strangers

NoShell == <<"none">>
\* "already exists" under a generateName: the prefix, a name nothing has.
Prefix == <<"prefix">>

\* Strangers are no Workshops of this run, and every name means something else.
ASSUME StrangersAssumption ==
    /\ Strangers \cap (Shells \cup Owns) = {}
    /\ NoShell \notin Workshops /\ Prefix \notin Workshops

MultiTypeOK ==
    /\ faults \in FaultSets
    /\ pc \in {"creating", "waiting", "submitting", "polling", "cleaning",
               "deleting", "undoing", "done", "failed"}
    /\ todo \subseteq Assets
    /\ tries \in [Assets -> 0..Attempts]
    /\ looking \subseteq todo
    /\ shell \in [Assets -> Shells \cup Strangers \cup {NoShell, Prefix}]
    /\ ready \subseteq Assets
    /\ polls \in 0..Polls
    /\ names \subseteq Workshops
    /\ exists \subseteq Workshops
    /\ newest \in Shells \cup Strangers \cup {NoShell}
    /\ others \subseteq Strangers
    /\ live \in BOOLEAN
    /\ listed \subseteq Workshops
    /\ adopted \subseteq Workshops

\* A MultiWorkshop of that name may be left from an earlier attempt, with the
\* controller's Workshops for some of the assets.
MultiInit ==
    /\ faults \in FaultSets
    /\ pc = "creating"
    /\ todo = Assets
    /\ tries = [a \in Assets |-> 0]
    /\ looking = {}
    /\ shell = [a \in Assets |-> NoShell]
    /\ ready = {}
    /\ polls = 0
    /\ names = {}
    /\ others = {}
    /\ newest = NoShell
    /\ \E before \in SUBSET Assets :
          /\ live = (before # {})
          /\ listed = {Own(a) : a \in before}
          /\ exists = listed
    /\ adopted = {}

-----------------------------------------------------------------------------
(* The run creates shells.                                                 *)

\* One asset after the other.
Current(a) == a \in todo /\ \A b \in todo \ {a} : tries[b] = 0

\* oc create of a Workshop for an asset, with a generateName.
Creates(a) ==
    /\ pc = "creating"
    /\ Current(a)
    /\ a \notin looking
    /\ tries' = [tries EXCEPT ![a] = @ + 1]

Made(a) ==
    /\ exists' = exists \cup {Shell(a, tries'[a])}
    /\ newest' = Shell(a, tries'[a])
    /\ UNCHANGED others

\* With a name or without one the run goes on to the next asset.
GoesOn(a) == todo' = todo \ {a}

CreateShell(a) ==
    /\ Creates(a)
    /\ Made(a)
    /\ shell' = [shell EXCEPT ![a] = Shell(a, tries'[a])]
    /\ GoesOn(a)
    /\ UNCHANGED <<faults, pc, looking, ready, polls, names, multi>>

\* It is refused; or the generated name was taken, and that counts as success.
CreateRefused(a) ==
    /\ Creates(a)
    /\ \E w \in {NoShell, Prefix} : shell' = [shell EXCEPT ![a] = w]
    /\ GoesOn(a)
    /\ UNCHANGED <<faults, pc, looking, ready, polls, names, workshops, multi>>

\* A time limit or a failure that may pass is tried again; the last one is final.
CreateTransient(a) ==
    /\ Creates(a)
    /\ IF tries'[a] = Attempts THEN GoesOn(a) ELSE UNCHANGED todo
    /\ \/ UNCHANGED workshops
       \/ "lost" \in faults /\ Made(a)
    /\ UNCHANGED <<faults, pc, looking, shell, ready, polls, names, multi>>

\* Any other failure is final, also when the Workshop was made.
CreateLost(a) ==
    /\ Creates(a)
    /\ "lost" \in faults
    /\ Made(a)
    /\ GoesOn(a)
    /\ UNCHANGED <<faults, pc, looking, shell, ready, polls, names, multi>>

\* The answer does not name the Workshop: two seconds later ...
CreateUnnamed(a) ==
    /\ Creates(a)
    /\ "unnamed" \in faults
    /\ Made(a)
    /\ looking' = looking \cup {a}
    /\ UNCHANGED <<faults, pc, todo, shell, ready, polls, names, multi>>

\* ... the newest one in the namespace is taken for it, if the look succeeds.
TakeNewest(a) ==
    /\ pc = "creating"
    /\ a \in looking
    /\ looking' = looking \ {a}
    /\ \/ shell' = [shell EXCEPT ![a] = newest]
       \/ "inspect" \in faults /\ UNCHANGED shell
    /\ GoesOn(a)
    /\ UNCHANGED <<faults, pc, tries, ready, polls, names, workshops, multi>>

\* The assets that have a Workshop to their name.
Created == {a \in Assets : shell[a] # NoShell}

AllCreated ==
    /\ pc = "creating"
    /\ todo = {}
    /\ pc' = IF Created = {} THEN "failed" ELSE "waiting"
    /\ todo' = Created
    /\ UNCHANGED <<progress, workshops, multi>>

\* Another job creates a Workshop; only while shells are created does it matter.
Stranger(w) ==
    /\ pc = "creating"
    /\ w \notin others
    /\ others' = others \cup {w}
    /\ exists' = exists \cup {w}
    /\ newest' = w
    /\ UNCHANGED <<pc, todo, progress, multi>>

-----------------------------------------------------------------------------
(* It makes the MultiWorkshop.                                             *)

\* wait_for_workshop_id: the id comes in time, or the asset is skipped.
AwaitId(a) ==
    /\ pc = "waiting"
    /\ a \in todo
    /\ todo' = todo \ {a}
    /\ ready' \in {ready} \cup IF shell[a] \in exists THEN {ready \cup {a}} ELSE {}
    /\ UNCHANGED <<faults, pc, tries, looking, shell, polls, names, workshops, multi>>

\* Variant: the run gives up without taking its shells back.
AllAwaitedOrQuit ==
    /\ pc = "waiting"
    /\ todo = {}
    /\ pc' = IF ready = {} THEN "failed" ELSE "submitting"
    /\ UNCHANGED <<todo, progress, workshops, multi>>

AllAwaited ==
    /\ pc = "waiting"
    /\ todo = {}
    /\ IF ready = {} THEN pc' = "undoing" /\ todo' = Created
                     ELSE pc' = "submitting" /\ UNCHANGED todo
    /\ UNCHANGED <<progress, workshops, multi>>

\* The cluster makes the MultiWorkshop, unless there is one of that name.
MakesMulti ==
    /\ ~live
    /\ live' = TRUE
    /\ listed' = {shell[a] : a \in ready}
    /\ UNCHANGED adopted

\* oc create of the MultiWorkshop.  That it exists already counts as success.
Submit ==
    /\ pc = "submitting"
    /\ MakesMulti \/ (live /\ UNCHANGED multi)
    /\ pc' = "polling"
    /\ UNCHANGED <<todo, progress, workshops>>

\* Whatever else oc create exits with counts as failure, also when the cluster has
\* made it: the run deletes its shells.
SubmitFails ==
    /\ pc = "submitting"
    /\ UNCHANGED multi \/ ("lost" \in faults /\ MakesMulti)
    /\ pc' = "undoing"
    /\ todo' = Created
    /\ UNCHANGED <<progress, workshops>>

\* TimeoutExpired, with or without the MultiWorkshop created, ends the run
\* where it is: its shells stay.
SubmitTimesOut ==
    /\ pc = "submitting"
    /\ "timeout" \in faults
    /\ UNCHANGED multi \/ MakesMulti
    /\ pc' = "failed"
    /\ UNCHANGED <<todo, progress, workshops>>

-----------------------------------------------------------------------------
(* It cleans up.                                                           *)

\* _multiworkshop_asset_names: a read that fails looks like an empty list.
Reads == {listed} \cup IF "read" \in faults THEN {{}} ELSE {}

\* Has the controller dropped a shell?
Replaced(seen) == seen # {} /\ ~({shell[a] : a \in Created} \subseteq seen)

\* Variant: the attempts are not counted.
PollUncounted ==
    /\ pc = "polling"
    /\ \E seen \in Reads : pc' = IF Replaced(seen) THEN "cleaning" ELSE "polling"
    /\ UNCHANGED <<todo, progress, workshops, multi>>

\* One look at the MultiWorkshop.
Poll ==
    /\ pc = "polling"
    /\ polls' = polls + 1
    /\ \E seen \in Reads :
          pc' = IF polls' = Polls \/ Replaced(seen) THEN "cleaning" ELSE "polling"
    /\ UNCHANGED <<faults, todo, tries, looking, shell, ready, names, workshops, multi>>

\* Variant: only_if_replaced is not given.
BeginCleanupAnyway ==
    /\ pc = "cleaning"
    /\ names' = {}
    /\ todo' = Created
    /\ pc' = "deleting"
    /\ UNCHANGED <<faults, tries, looking, shell, ready, polls, workshops, multi>>

\* cleanup_multi_asset_shell_workshops reads the list again ...
BeginCleanup ==
    /\ pc = "cleaning"
    /\ names' \in Reads
    /\ todo' = Created
    /\ pc' = "deleting"
    /\ UNCHANGED <<faults, tries, looking, shell, ready, polls, workshops, multi>>

\* _workshop_protected_by_multiworkshop: what cannot be read is protected.
Protected(w) == w \in adopted \/ w \notin exists

\* ... and takes each shell in turn: one that is listed or protected stays.
KeepShell(a) ==
    /\ pc = "deleting"
    /\ a \in todo
    /\ shell[a] \in names \/ Protected(shell[a]) \/ "inspect" \in faults
    /\ todo' = todo \ {a}
    /\ UNCHANGED <<pc, progress, workshops, multi>>

\* oc delete is tried once.
Deletes(a) ==
    /\ exists' \in {exists \ {shell[a]}} \cup IF "delete" \in faults THEN {exists} ELSE {}
    /\ UNCHANGED <<newest, others>>

DeleteShell(a) ==
    /\ pc = "deleting"
    /\ a \in todo
    /\ shell[a] \notin names
    /\ ~Protected(shell[a])
    /\ todo' = todo \ {a}
    /\ Deletes(a)
    /\ UNCHANGED <<pc, progress, multi>>

\* After a failure every shell goes, without a look at what it is used for.
UndoShell(a) ==
    /\ pc = "undoing"
    /\ a \in todo
    /\ todo' = todo \ {a}
    /\ Deletes(a)
    /\ UNCHANGED <<pc, progress, multi>>

Return ==
    /\ pc \in {"deleting", "undoing"}
    /\ todo = {}
    /\ pc' = IF pc = "deleting" THEN "done" ELSE "failed"
    /\ UNCHANGED <<todo, progress, workshops, multi>>

Run ==
    \/ \E a \in Assets : \/ CreateShell(a) \/ CreateRefused(a) \/ CreateTransient(a)
                         \/ CreateLost(a) \/ CreateUnnamed(a) \/ TakeNewest(a)
                         \/ AwaitId(a) \/ KeepShell(a) \/ DeleteShell(a) \/ UndoShell(a)
    \/ AllCreated \/ AllAwaited \/ Submit \/ SubmitFails \/ SubmitTimesOut \/ Poll
    \/ BeginCleanup \/ Return

-----------------------------------------------------------------------------
(* The controller.                                                         *)

Rewrite(a) ==
    /\ live
    /\ shell[a] \in listed
    /\ listed' = (listed \ {shell[a]}) \cup {Own(a)}
    /\ exists' = exists \cup {Own(a)}
    /\ UNCHANGED <<pc, todo, progress, newest, others, live, adopted>>

Adopt ==
    /\ live
    /\ \E w \in (listed \cap exists) \ (adopted \cup Owns) : adopted' = adopted \cup {w}
    /\ UNCHANGED <<pc, todo, progress, workshops, live, listed>>

Controller == Adopt \/ \E a \in Assets : Rewrite(a)

MultiNext == Run \/ Controller \/ \E w \in Strangers : Stranger(w)

\* Every oc call has a time limit, so the run keeps going; the controller owes
\* nothing.
MultiSpec == MultiInit /\ [][MultiNext]_multiVars /\ WF_multiVars(Run)

-----------------------------------------------------------------------------
(* Properties.                                                             *)

\* None of the given faults can happen.
Spared(fs) == faults \cap fs = {}

\* "Never break a live MW": every Workshop a MultiWorkshop lists exists, however
\* the cleanup and the controller interleave and whatever else fails, if its
\* assets can be read and the run does not take the MultiWorkshop for refused
\* that was made.  No Workshop of another job is deleted either, if oc names what
\* it makes.
NeverBreakLive ==
    /\ live /\ Spared({"read"}) /\ (pc \in {"undoing", "failed"} => Spared({"lost"})) =>
          listed \subseteq exists
    /\ Spared({"unnamed"}) => others \subseteq exists

\* A run that reports failure has taken back all shells it knows of, unless the
\* time limit or a failed deletion kept it from doing so.
FailureLeavesNoShell ==
    (pc = "failed" /\ Spared({"timeout", "delete"})) => \A a \in Assets : shell[a] \notin exists

\* A run that reports success has deleted each of its shells that was neither
\* listed nor adopted when it cleaned up, if it could look and delete.
SuccessLeavesNoOrphan ==
    (pc = "done" /\ Spared({"inspect", "delete"})) =>
        \A a \in Created : shell[a] \in exists => shell[a] \in adopted \cup names

\* It knows all it has made, if answers arrive and say what was made.
KnowsItsShells ==
    Spared({"lost", "unnamed"}) => Shells \cap exists \subseteq {shell[a] : a \in Assets}

\* So nothing of the run is left lying about.
NothingLeftOver == FailureLeavesNoShell /\ SuccessLeavesNoOrphan /\ KnowsItsShells

\* The run ends, however slow the controller is.
RunEnds == <>(pc \in {"done", "failed"})

\* "only delete shells no longer listed on MW.spec.assets": the cleanup deletes no
\* Workshop the MultiWorkshop still lists.  (It does not hold: README, section 5.)
CleanupSparesListed == [][pc = "deleting" => listed \cap exists \subseteq exists']_multiVars
=============================================================================
