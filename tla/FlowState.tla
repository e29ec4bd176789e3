------------------------------ MODULE FlowState ------------------------------
(***************************************************************************)
(* One of the files of lib/flow_state.py, written by several threads.      *)
(* _write_json opens <file>.tmp, which truncates a .tmp that is there,     *)
(* writes the text and renames the .tmp over the file.  The name of the    *)
(* .tmp is the same for every save, so two saves that overlap share it.    *)
(* Saves are made in threads of the pool and on the event loop, which is   *)
(* one thread here, as a save does not yield.                              *)
(*                                                                         *)
(* The file system is modelled by what a rename and an open file do: a     *)
(* name refers to an inode, and a thread keeps writing to the inode it     *)
(* opened wherever its name has gone.  A crash ends the process, not the   *)
(* machine: what was written stays.                                        *)
(***************************************************************************)
EXTENDS Naturals, FiniteSets

CONSTANTS
    Threads,    \* the threads that save the file
    Locked,     \* those that always hold _state_lock meanwhile
    Snapshots,  \* what they save
    Inodes,     \* bound: as many as can be named or open at once
    NoFile,     \* no inode, no snapshot
    Partial,    \* content of an inode that has been truncated and not written
    Torn,       \* content of an inode two threads have written over each other
    Unknown     \* what is to be expected after saves that overlapped

ASSUME LockedAssumption == Locked \subseteq Threads
ASSUME NoSnapshotAssumption == {NoFile, Partial, Torn} \cap Snapshots = {}
ASSUME NoInodeAssumption == NoFile \notin Inodes
ASSUME NoFileAssumption == NoFile \notin {Partial, Torn}
ASSUME UnknownAssumption == Unknown \notin Snapshots \cup {NoFile}

\* Definitions introduced by "Variant" are not part of the model: each has a
\* plausible mistake in it, which the properties of this module must notice.

VARIABLES
    file,       \* the inode the file's name refers to
    tmp,        \* the inode the .tmp's name refers to
    content,    \* what every inode holds
    saving,     \* the snapshot each thread is saving
    fd,         \* the inode each thread has open
    sharing,    \* history: the saves under way have not had the .tmp alone
    last        \* history: what the last rename or unlink was to put on disk

fileVars == <<file, tmp, content, saving, fd, sharing, last>>

Idle(t) == saving[t] = NoFile
Open(t) == ~Idle(t) /\ fd[t] # NoFile

FileTypeOK ==
    /\ file \in Inodes \cup {NoFile}
    /\ tmp \in Inodes \cup {NoFile}
    /\ content \in [Inodes -> Snapshots \cup {Partial, Torn}]
    /\ saving \in [Threads -> Snapshots \cup {NoFile}]
    /\ fd \in [Threads -> Inodes \cup {NoFile}]
    /\ \A t \in Threads : fd[t] # NoFile => ~Idle(t)
    /\ sharing \in BOOLEAN
    /\ last \in Snapshots \cup {NoFile, Unknown}

FileInit ==
    /\ file = NoFile
    /\ tmp = NoFile
    /\ content = [i \in Inodes |-> Partial]
    /\ saving = [t \in Threads |-> NoFile]
    /\ fd = [t \in Threads |-> NoFile]
    /\ sharing = FALSE
    /\ last = NoFile

-----------------------------------------------------------------------------
HoldsLock(t) == t \in Locked /\ ~Idle(t)

InUse == {file, tmp} \cup {fd[t] : t \in Threads}

\* tmp.write_text opens the file: the inode the .tmp names, or a new one.
OpenTmp(t) ==
    \E i \in IF tmp = NoFile THEN Inodes \ InUse ELSE {tmp} :
        /\ tmp' = i
        /\ fd' = [fd EXCEPT ![t] = i]
        /\ content' = [content EXCEPT ![i] = Partial]

Begin(t, v) ==
    /\ Idle(t)
    /\ t \in Locked => \A u \in Threads : ~HoldsLock(u)
    /\ saving' = [saving EXCEPT ![t] = v]
    /\ OpenTmp(t)
    /\ sharing' = \E u \in Threads : ~Idle(u)
    /\ UNCHANGED <<file, last>>

\* The text goes into the inode, from its start.  Over another thread's text
\* it is complete only if it is at least as long.
Write(t) ==
    /\ Open(t)
    /\ LET i == fd[t] IN
          \E c \in IF content[i] \in {Partial, saving[t]}
                   THEN {saving[t]} ELSE {saving[t], Torn} :
              content' = [content EXCEPT ![i] = c]
    /\ fd' = [fd EXCEPT ![t] = NoFile]
    /\ UNCHANGED <<file, tmp, saving, sharing, last>>

\* Variant: the failure is not noticed, and the save goes on.
WriteFailsUnnoticed(t) ==
    /\ Open(t)
    /\ fd' = [fd EXCEPT ![t] = NoFile]
    /\ UNCHANGED <<file, tmp, content, saving, sharing, last>>

\* The volume is full or read-only: save_results logs it and gives up, with as
\* much written as there was room for.
WriteFails(t) ==
    /\ Open(t)
    /\ LET i == fd[t] IN
          \E c \in IF content[i] = Partial THEN {Partial} ELSE {content[i], Torn} :
              content' = [content EXCEPT ![i] = c]
    /\ fd' = [fd EXCEPT ![t] = NoFile]
    /\ saving' = [saving EXCEPT ![t] = NoFile]
    /\ UNCHANGED <<file, tmp, sharing, last>>

\* tmp.replace(path); without a .tmp it raises, and the save gives up.
Rename(t) ==
    /\ ~Idle(t)
    /\ fd[t] = NoFile
    /\ file' = IF tmp = NoFile THEN file ELSE tmp
    /\ last' = IF tmp = NoFile THEN last ELSE IF sharing THEN Unknown ELSE saving[t]
    /\ tmp' = NoFile
    /\ saving' = [saving EXCEPT ![t] = NoFile]
    /\ UNCHANGED <<content, fd, sharing>>

\* clear_persisted_state, whose caller holds the lock.
Unlink ==
    /\ \A t \in Threads : ~HoldsLock(t)
    /\ file' = NoFile
    /\ last' = NoFile
    /\ UNCHANGED <<tmp, content, saving, fd, sharing>>

\* The pod goes down and comes up again.
Crash ==
    /\ saving' = [t \in Threads |-> NoFile]
    /\ fd' = [t \in Threads |-> NoFile]
    /\ UNCHANGED <<file, tmp, content, sharing, last>>

FileNext ==
    \/ \E t \in Threads :
          \/ \E v \in Snapshots : Begin(t, v)
          \/ Write(t)
          \/ WriteFails(t)
          \/ Rename(t)
    \/ Unlink
    \/ Crash

FileSpec == FileInit /\ [][FileNext]_fileVars

-----------------------------------------------------------------------------
(* Properties.                                                             *)

\* What a restart would read.
OnDisk == IF file = NoFile THEN NoFile ELSE content[file]

\* "Persist Flow schedules + deploy results across pod restarts": whenever the
\* process may be killed, the next one can parse the file.  (It does not hold for
\* saves that overlap: README, section 5.)
Readable == OnDisk \notin {Partial, Torn}

\* A restart finds the last snapshot that was put in place, whole, or nothing
\* where the file was cleared since, whatever saves have failed or are under
\* way, overlap or were cut off by a crash; unless the save that put it there
\* had shared its .tmp with another.  (_write_json's truncation and rename.)
LastSaveKept == last # Unknown => OnDisk = last

\* No two saves of the file can overlap: they are all made by one thread, or all
\* under the lock.
Exclusive == \A t, u \in Threads : t # u => t \in Locked /\ u \in Locked

\* Then the file is an atomic register: a save that is cut off at any moment has
\* put its snapshot in place, or has done nothing.
Register == INSTANCE Snapshot
    WITH disk <- OnDisk, asked <- {saving[t] : t \in Threads} \ {NoFile}
AtomicSaves == Register!Spec
=============================================================================
