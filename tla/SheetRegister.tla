--------------------------- MODULE SheetRegister ---------------------------
(***************************************************************************)
(* What the dashboard promises of the schedules: there is one sheet, which *)
(* clients put there whole, edit or clear.  Other edits than putting a new *)
(* sheet change rows or take one away, and a sheet that is cleared is in   *)
(* the archive, which numbers the sheets as they come and keeps the newest *)
(* ones.  When the server restarts the sheet is as it was; the archive     *)
(* begins again.  ScheduleList is shown to implement this.                 *)
(***************************************************************************)
EXTENDS Naturals, Sequences

CONSTANTS
    Sheets,  \* what can be shown: rows under a file name
    Given,   \* the sheets among them that clients put
    Empty,   \* what is shown at the beginning
    Limit    \* how many sheets the archive keeps

VARIABLES
    sheet,    \* what is shown
    archive,  \* the numbers of the sheets that are archived
    count     \* the number that was given last

vars == <<sheet, archive, count>>

Init == sheet = Empty /\ archive = {} /\ count = 0

Put ==
    /\ sheet' \in Given
    /\ UNCHANGED <<archive, count>>

Edit ==
    /\ sheet' \in Sheets
    /\ Len(sheet'.rows) \in {Len(sheet.rows), Len(sheet.rows) - 1}
    /\ sheet' = Empty \/ sheet'.filename = sheet.filename
    /\ UNCHANGED <<archive, count>>

\* With nothing on the dashboard there may be nothing to archive.
Clear ==
    /\ sheet' = Empty
    /\ \/ /\ count' = count + 1
          /\ archive' = {n \in archive \cup {count'} : n + Limit > count'}
       \/ /\ sheet = Empty
          /\ UNCHANGED <<archive, count>>

Restart ==
    /\ archive' = {} /\ count' = 0
    /\ UNCHANGED sheet

Next == Put \/ Edit \/ Clear \/ Restart

Spec == Init /\ [][Next]_vars
=============================================================================
