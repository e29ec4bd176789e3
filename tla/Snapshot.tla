------------------------------ MODULE Snapshot ------------------------------
(***************************************************************************)
(* What lib/flow_state.py promises for each file it keeps: one save at a   *)
(* time is asked for; the file holds what the last save that went through  *)
(* was asked to put there, complete, or does not exist; a save that fails  *)
(* or is cut off by a crash changes nothing.                               *)
(***************************************************************************)
CONSTANTS
    Snapshots,  \* what can be saved
    NoFile

VARIABLES
    disk,       \* what a restart would find
    asked       \* what the save under way is to put there, if there is one

vars == <<disk, asked>>

Init == disk = NoFile /\ asked = {}

Ask(v) == asked = {} /\ asked' = {v} /\ UNCHANGED disk

Save == asked # {} /\ disk' \in asked /\ asked' = {}

GiveUp == asked' = {} /\ UNCHANGED disk

Clear == disk' = NoFile /\ UNCHANGED asked

Next == Save \/ GiveUp \/ Clear \/ \E v \in Snapshots : Ask(v)

Spec == Init /\ [][Next]_vars
=============================================================================
