-------------------------- MODULE PersistenceProofs --------------------------
(***************************************************************************)
(* Proofs about what is kept of the deployment results.  FlowState, for    *)
(* any number of threads, snapshots and inodes: a restart finds the last   *)
(* snapshot that was put in place by a save that shared its .tmp with no   *)
(* other, and a file whose saves cannot overlap is an atomic register.     *)
(* ResultsStore, for any number of rows and runs: where a lock or the loop *)
(* orders the saves the snapshot says what memory says.                    *)
(***************************************************************************)
EXTENDS FlowState, ResultsStore, FiniteSetTheorems, WellFoundedInduction, TLAPS

-----------------------------------------------------------------------------
(* FlowState. *)

\* A save that has the .tmp to itself: no other is under way, and the .tmp holds
\* what the save has written, nothing at first and then its snapshot.
Alone ==
    /\ \A t, u \in Threads : ~Idle(t) /\ ~Idle(u) => t = u
    /\ \A t \in Threads : Open(t) => fd[t] = tmp /\ content[tmp] = Partial
    /\ \A t \in Threads :
          ~Idle(t) /\ fd[t] = NoFile => tmp # NoFile /\ content[tmp] = saving[t]

\* The file is apart from the .tmp; and nobody writes into it, if the save that
\* put it there had the .tmp to itself.
Kept ==
    /\ file # NoFile => file # tmp
    /\ last # Unknown =>
          /\ OnDisk = last
          /\ file # NoFile => \A t \in Threads : fd[t] # file

FileInv == FileTypeOK /\ (~sharing => Alone) /\ Kept

LEMMA InitFileInv == FileInit => FileInv
  BY DEF FileInit, FileInv, FileTypeOK, Idle, Open, Alone, Kept, OnDisk

\* A save opens an inode that is not the file's.
LEMMA BeginApart ==
  ASSUME FileInv, NEW t \in Threads, NEW v \in Snapshots, Begin(t, v)
  PROVE  /\ tmp' \in Inodes /\ tmp' # file /\ tmp' # NoFile /\ file' = file /\ last' = last
         /\ saving' = [saving EXCEPT ![t] = v]
         /\ fd' = [fd EXCEPT ![t] = tmp']
         /\ content' = [content EXCEPT ![tmp'] = Partial]
  BY NoInodeAssumption DEF Begin, OpenTmp, FileInv, FileTypeOK, Kept, InUse

LEMMA BeginFileInv ==
  ASSUME FileInv, NEW t \in Threads, NEW v \in Snapshots, Begin(t, v)
  PROVE  FileInv'
<1>1. FileTypeOK'
  <2>1. sharing' \in BOOLEAN
    BY DEF Begin
  <2>2. /\ file' \in Inodes \cup {NoFile} /\ tmp' \in Inodes \cup {NoFile}
        /\ content' \in [Inodes -> Snapshots \cup {Partial, Torn}]
        /\ saving' \in [Threads -> Snapshots \cup {NoFile}]
        /\ fd' \in [Threads -> Inodes \cup {NoFile}]
        /\ last' \in Snapshots \cup {NoFile, Unknown}
    BY BeginApart DEF FileInv, FileTypeOK
  <2>3. \A u \in Threads : fd'[u] # NoFile => saving'[u] # NoFile
    BY BeginApart, NoSnapshotAssumption DEF FileInv, FileTypeOK, Idle
  <2> QED
    BY <2>1, <2>2, <2>3 DEF FileTypeOK, Idle
<1>2. ASSUME ~sharing' PROVE Alone'
  <2>1. \A u \in Threads : Idle(u) /\ fd[u] = NoFile
    BY <1>2 DEF FileInv, FileTypeOK, Begin
  <2>2. \A u \in Threads : u # t => saving'[u] = NoFile /\ fd'[u] = NoFile
    BY <2>1, BeginApart DEF FileInv, FileTypeOK, Idle
  <2>3. fd'[t] = tmp' /\ content'[tmp'] = Partial /\ tmp' # NoFile
    BY BeginApart DEF FileInv, FileTypeOK
  <2> QED
    BY <2>2, <2>3 DEF Alone, Idle, Open
<1>3. Kept'
  <2>1. file # NoFile => content'[file] = content[file]
    BY BeginApart DEF FileInv, FileTypeOK
  <2>2. \A u \in Threads : fd'[u] = fd[u] \/ fd'[u] = tmp'
    BY BeginApart DEF FileInv, FileTypeOK
  <2> QED
    BY <2>1, <2>2, BeginApart DEF FileInv, Kept, OnDisk
<1> QED
  BY <1>1, <1>2, <1>3 DEF FileInv

LEMMA WriteFileInv ==
  ASSUME FileInv, NEW t \in Threads, Write(t)
  PROVE  FileInv'
<1>1. /\ fd' = [fd EXCEPT ![t] = NoFile] /\ UNCHANGED <<file, tmp, saving, sharing, last>>
      /\ fd[t] \in Inodes /\ saving[t] \in Snapshots
  BY DEF Write, Open, FileInv, FileTypeOK, Idle
<1>2. PICK c \in {saving[t], Torn} :
        /\ content' = [content EXCEPT ![fd[t]] = c]
        /\ content[fd[t]] = Partial => c = saving[t]
  BY DEF Write
<1>3. FileTypeOK'
  BY <1>1, <1>2 DEF FileInv, FileTypeOK, Idle
<1>4. ASSUME ~sharing PROVE Alone'
  <2>1. /\ fd[t] = tmp /\ content[tmp] = Partial
        /\ \A u \in Threads : u # t => Idle(u) /\ fd[u] = NoFile
    BY <1>4 DEF FileInv, Alone, FileTypeOK, Write, Open
  <2>2. content'[tmp] = saving[t] /\ tmp # NoFile
    BY <1>1, <1>2, <2>1, NoInodeAssumption DEF FileInv, FileTypeOK
  <2>3. \A u \in Threads : fd'[u] = NoFile
    BY <1>1, <2>1 DEF FileInv, FileTypeOK
  <2> QED
    BY <1>1, <2>1, <2>2, <2>3 DEF Alone, Idle, Open
<1>5. Kept'
  <2>1. ASSUME last # Unknown, file # NoFile PROVE content'[file] = content[file]
    BY <1>1, <1>2, <2>1 DEF FileInv, Kept, FileTypeOK
  <2>2. \A u \in Threads : fd'[u] = fd[u] \/ fd'[u] = NoFile
    BY <1>1 DEF FileInv, FileTypeOK
  <2> QED
    BY <1>1, <2>1, <2>2 DEF FileInv, Kept, OnDisk
<1> QED
  BY <1>1, <1>3, <1>4, <1>5 DEF FileInv

\* A failed write leaves a .tmp behind that the save no longer has open.
LEMMA WriteFailsFileInv ==
  ASSUME FileInv, NEW t \in Threads, WriteFails(t)
  PROVE  FileInv'
<1>1. /\ fd' = [fd EXCEPT ![t] = NoFile] /\ saving' = [saving EXCEPT ![t] = NoFile]
      /\ UNCHANGED <<file, tmp, sharing, last>> /\ fd[t] \in Inodes /\ ~Idle(t)
  BY DEF WriteFails, Open, FileInv, FileTypeOK
<1>2. PICK c \in {Partial, Torn, content[fd[t]]} :
        content' = [content EXCEPT ![fd[t]] = c]
  BY DEF WriteFails
<1>3. FileTypeOK'
  BY <1>1, <1>2 DEF FileInv, FileTypeOK, Idle
<1>4. ASSUME ~sharing PROVE Alone'
  <2>1. \A u \in Threads : u # t => Idle(u)
    BY <1>1, <1>4 DEF FileInv, Alone
  <2>2. \A u \in Threads : Idle(u)'
    BY <1>1, <2>1 DEF FileInv, FileTypeOK, Idle
  <2> QED
    BY <2>2 DEF Alone, Open
<1>5. Kept'
  <2>1. ASSUME last # Unknown, file # NoFile PROVE content'[file] = content[file]
    BY <1>1, <1>2, <2>1 DEF FileInv, Kept, FileTypeOK
  <2>2. \A u \in Threads : fd'[u] = fd[u] \/ fd'[u] = NoFile
    BY <1>1 DEF FileInv, FileTypeOK
  <2> QED
    BY <1>1, <2>1, <2>2 DEF FileInv, Kept, OnDisk
<1> QED
  BY <1>1, <1>3, <1>4, <1>5 DEF FileInv

LEMMA RenameFileInv ==
  ASSUME FileInv, NEW t \in Threads, Rename(t)
  PROVE  FileInv'
<1>1. /\ saving' = [saving EXCEPT ![t] = NoFile] /\ tmp' = NoFile
      /\ UNCHANGED <<content, fd, sharing>> /\ ~Idle(t) /\ fd[t] = NoFile
      /\ saving[t] \in Snapshots
  BY DEF Rename, FileInv, FileTypeOK, Idle
<1>2. FileTypeOK'
  BY <1>1 DEF Rename, FileInv, FileTypeOK, Idle
<1>3. ASSUME ~sharing PROVE Alone'
  <2>1. \A u \in Threads : u # t => Idle(u)
    BY <1>1, <1>3 DEF FileInv, Alone
  <2>2. \A u \in Threads : Idle(u)'
    BY <1>1, <2>1 DEF FileInv, FileTypeOK, Idle
  <2> QED
    BY <2>2 DEF Alone, Open
<1>4. Kept'
  <2>1. CASE tmp = NoFile
    BY <1>1, <2>1 DEF Rename, FileInv, Kept, OnDisk
  <2>2. CASE tmp # NoFile /\ sharing
    BY <1>1, <2>2 DEF Rename, FileInv, Kept
  <2>3. CASE tmp # NoFile /\ ~sharing
    <3>1. file' = tmp /\ last' = saving[t] /\ content[tmp] = saving[t]
      BY <1>1, <2>3 DEF Rename, FileInv, Alone
    <3>2. \A u \in Threads : fd[u] = NoFile
      BY <1>1, <2>3 DEF FileInv, Alone, FileTypeOK
    <3> QED
      BY <1>1, <2>3, <3>1, <3>2 DEF Kept, OnDisk
  <2> QED
    BY <2>1, <2>2, <2>3
<1> QED
  BY <1>1, <1>2, <1>3, <1>4 DEF FileInv

LEMMA UnlinkFileInv ==
  ASSUME FileInv, Unlink
  PROVE  FileInv'
<1>1. FileTypeOK'
  BY DEF FileInv, Unlink, FileTypeOK, Idle
<1>2. ~sharing => Alone'
  BY DEF FileInv, Unlink, Alone, Idle, Open
<1> QED
  BY <1>1, <1>2 DEF FileInv, Unlink, Kept, OnDisk

LEMMA CrashFileInv ==
  ASSUME FileInv, Crash
  PROVE  FileInv'
<1>1. \A t \in Threads : saving'[t] = NoFile /\ fd'[t] = NoFile
  BY DEF Crash
<1>2. FileTypeOK'
  BY DEF FileInv, Crash, FileTypeOK, Idle
<1>3. Alone'
  BY <1>1 DEF Alone, Idle, Open
<1>4. Kept'
  BY <1>1 DEF FileInv, Crash, Kept, OnDisk
<1> QED
  BY <1>2, <1>3, <1>4 DEF FileInv

LEMMA NextFileInv == FileInv /\ [FileNext]_fileVars => FileInv'
<1> SUFFICES ASSUME FileInv, [FileNext]_fileVars PROVE FileInv'
  OBVIOUS
<1>1. ASSUME NEW t \in Threads, NEW v \in Snapshots, Begin(t, v) PROVE FileInv'
  BY <1>1, BeginFileInv
<1>2. ASSUME NEW t \in Threads, Write(t) PROVE FileInv'
  BY <1>2, WriteFileInv
<1>3. ASSUME NEW t \in Threads, WriteFails(t) PROVE FileInv'
  BY <1>3, WriteFailsFileInv
<1>4. ASSUME NEW t \in Threads, Rename(t) PROVE FileInv'
  BY <1>4, RenameFileInv
<1>5. CASE Unlink
  BY <1>5, UnlinkFileInv
<1>6. CASE Crash
  BY <1>6, CrashFileInv
<1>7. CASE UNCHANGED fileVars
  BY <1>7 DEF fileVars, FileInv, FileTypeOK, Alone, Kept, OnDisk, Idle, Open
<1> QED
  BY <1>1, <1>2, <1>3, <1>4, <1>5, <1>6, <1>7 DEF FileNext

THEOREM FileInvariance == FileSpec => []FileInv
  BY InitFileInv, NextFileInv, PTL DEF FileSpec

\* The variables keep their types, whichever threads hold the lock.
THEOREM FileTypeCorrect == FileSpec => []FileTypeOK
  BY FileInvariance, PTL DEF FileInv

\* Whichever threads save with the lock and whichever without, a restart finds
\* the last snapshot that was put in place, unless its save shared the .tmp.
THEOREM LastIsKept == FileSpec => []LastSaveKept
<1>1. FileInv => LastSaveKept
  BY DEF FileInv, Kept, LastSaveKept
<1> QED
  BY <1>1, FileInvariance, PTL

-----------------------------------------------------------------------------
(* A file whose saves cannot overlap is an atomic register.                *)

\* A thread begins only when no other is saving.
LEMMA BeginAlone ==
  ASSUME Exclusive, NEW t \in Threads, NEW v \in Snapshots, Begin(t, v)
  PROVE  \A u \in Threads : Idle(u)
  BY DEF Begin, HoldsLock, Idle, Exclusive

Unshared == FileInv /\ ~sharing

LEMMA StepUnshared == Exclusive /\ Unshared /\ [FileNext]_fileVars => Unshared'
<1> SUFFICES ASSUME Exclusive, Unshared, [FileNext]_fileVars PROVE ~sharing'
  BY NextFileInv DEF Unshared
<1>1. ASSUME NEW t \in Threads, NEW v \in Snapshots, Begin(t, v) PROVE ~sharing'
  BY <1>1, BeginAlone DEF Begin
<1> QED
  BY <1>1 DEF Unshared, FileNext, Write, WriteFails, Rename, Unlink, Crash, fileVars

\* What the save under way was asked to put on disk.
Asked == {saving[t] : t \in Threads} \ {NoFile}

LEMMA AskedIs ==
  ASSUME Unshared, NEW t \in Threads, ~Idle(t)
  PROVE  Asked = {saving[t]}
  BY DEF Unshared, FileInv, Alone, Asked, Idle

\* Each step leaves the register as it is, asks for a save, puts what was asked
\* for on disk, gives the save up, or clears the file.
LEMMA StepRefines ==
  ASSUME Exclusive, Unshared, [FileNext]_fileVars
  PROVE  Register!Next \/ UNCHANGED <<OnDisk, Asked>>
<1> USE DEF Register!Next
<1>0. FileTypeOK /\ Alone /\ Kept
  BY DEF Unshared, FileInv
<1>1. ASSUME NEW t \in Threads, NEW v \in Snapshots, Begin(t, v) PROVE Register!Ask(v)
  <2>1. OnDisk' = OnDisk
    BY <1>0, <1>1, BeginApart DEF Unshared, OnDisk, FileTypeOK
  <2>2. Asked = {}
    BY <1>1, BeginAlone DEF Asked, Idle
  <2>3. saving'[t] = v /\ v # NoFile /\ \A u \in Threads : u # t => saving'[u] = NoFile
    BY <1>0, <1>1, BeginAlone, NoSnapshotAssumption DEF Begin, Idle, FileTypeOK
  <2>4. Asked' = {v}
    BY <2>3 DEF Asked
  <2> QED
    BY <2>1, <2>2, <2>4 DEF Register!Ask, Asked
<1>2. ASSUME NEW t \in Threads, Write(t) PROVE UNCHANGED <<OnDisk, Asked>>
  <2>1. fd[t] = tmp /\ file' = file /\ saving' = saving
    BY <1>0, <1>2 DEF Alone, Write
  <2>2. file # NoFile => content'[file] = content[file]
    BY <1>0, <1>2, <2>1 DEF Kept, FileTypeOK, Write
  <2> QED
    BY <2>1, <2>2 DEF OnDisk, Asked
<1>3. ASSUME NEW t \in Threads, WriteFails(t) PROVE Register!GiveUp
  <2>1. fd[t] = tmp /\ file' = file /\ ~Idle(t) /\ saving' = [saving EXCEPT ![t] = NoFile]
    BY <1>0, <1>3 DEF Alone, WriteFails, Open
  <2>2. file # NoFile => content'[file] = content[file]
    BY <1>0, <1>3, <2>1 DEF Kept, FileTypeOK, WriteFails
  <2>3. \A u \in Threads : saving'[u] = NoFile
    BY <1>0, <2>1 DEF Alone, Idle, FileTypeOK
  <2>4. Asked' = {}
    BY <2>3 DEF Asked
  <2> QED
    BY <2>1, <2>2, <2>4 DEF Register!GiveUp, OnDisk, Asked
<1>4. ASSUME NEW t \in Threads, Rename(t) PROVE Register!Save
  <2>1. ~Idle(t) /\ fd[t] = NoFile /\ saving' = [saving EXCEPT ![t] = NoFile]
        /\ content' = content
    BY <1>4 DEF Rename
  <2>2. Asked = {saving[t]}
    BY <2>1, AskedIs
  <2>3. file' = tmp /\ tmp # NoFile /\ content[tmp] = saving[t]
    BY <1>0, <1>4, <2>1 DEF Alone, Rename
  <2>4. \A u \in Threads : saving'[u] = NoFile
    BY <1>0, <2>1 DEF Alone, Idle, FileTypeOK
  <2>5. Asked' = {}
    BY <2>4 DEF Asked
  <2> QED
    BY <2>1, <2>2, <2>3, <2>5 DEF Register!Save, OnDisk, Asked
<1>5. ASSUME Unlink PROVE Register!Clear
  BY <1>5 DEF Unlink, Register!Clear, OnDisk, Asked
<1>6. ASSUME Crash PROVE Register!GiveUp
  <2>1. \A u \in Threads : saving'[u] = NoFile
    BY <1>6 DEF Crash
  <2>2. Asked' = {}
    BY <2>1 DEF Asked
  <2> QED
    BY <1>6, <2>2 DEF Crash, Register!GiveUp, OnDisk, Asked
<1>7. CASE UNCHANGED fileVars
  BY <1>7 DEF fileVars, OnDisk, Asked
<1> QED
  BY <1>1, <1>2, <1>3, <1>4, <1>5, <1>6, <1>7 DEF FileNext

\* A file that one thread saves, as the loop does that of the QA results, or
\* that is always saved under the lock, is an atomic register.
THEOREM Atomicity ==
  ASSUME Exclusive
  PROVE  FileSpec => AtomicSaves
<1>1. FileInit => Register!Init
  BY DEF FileInit, Register!Init, OnDisk
<1>2. FileInit => Unshared
  BY InitFileInv DEF FileInit, Unshared
<1>3. Unshared /\ [FileNext]_fileVars => [Register!Next]_(Register!vars)
  BY StepRefines DEF Register!vars, Asked
<1>4. Unshared /\ [FileNext]_fileVars => Unshared'
  BY StepUnshared
<1> QED
  BY <1>1, <1>2, <1>3, <1>4, PTL DEF FileSpec, AtomicSaves, Register!Spec

-----------------------------------------------------------------------------
(* ResultsStore. *)

USE DEF setup

\* The positions of a list that come before n.
Below(res, n) == \A i \in DOMAIN res : i < n

\* Every list there is ends before the position at which the next one begins.
AllBelow ==
    /\ Below(results, top) /\ Below(disk, top)
    /\ \A r \in Runs : Below(snap[r], top)

\* What a run that nobody has overtaken is about to save is what memory has.
SavesOrdered ==
    /\ \A r \in Runs : pc[r] = "saving" /\ r \notin overtaken => snap[r] = results
    /\ DiskFollowsMemory

IInv == TypeOK /\ AllBelow /\ SavesOrdered

-----------------------------------------------------------------------------
(* First and last among numbers.                                           *)

\* Of numbers below a bound there is a greatest: the interval above it is the
\* smallest.
LEMMA GreatestIn ==
    ASSUME NEW n \in Nat, NEW S \in SUBSET (0..n), S # {}
    PROVE  \E x \in S : \A y \in S : y <= x
  <1> DEFINE R == StrictSubsetOrdering(0..n)
             T == {x..n : x \in S}
  <1>1. T \subseteq FiniteSubsetsOf(0..n) /\ T # {}
    <2>1. ASSUME NEW x \in S PROVE x..n \in FiniteSubsetsOf(0..n)
      BY FS_Interval DEF FiniteSubsetsOf
    <2> QED
      BY <2>1
  <1>2. PICK t \in T : \A u \in T : ~(<<u, t>> \in R)
    <2> HIDE DEF T, R
    <2>1. IsFiniteSet(0..n)
      BY FS_Interval
    <2>2. IsWellFoundedOn(R, FiniteSubsetsOf(0..n))
      BY FS_StrictSubsetOrderingWellFounded, <2>1 DEF R
    <2> QED
      BY <1>1, <2>2, WFMin
  <1>3. PICK x \in S : t = x..n
    OBVIOUS
  <1>4. ASSUME NEW y \in S, x < y PROVE FALSE
    <2>1. /\ y..n \in SUBSET (0..n) /\ x..n \in SUBSET (0..n)
          /\ y..n \subseteq x..n
      BY <1>4
    <2>2. x \in x..n /\ x \notin y..n
      BY <1>4
    <2>3. <<y..n, x..n>> \in R
      BY <2>1, <2>2, Zenon DEF StrictSubsetOrdering
    <2> QED
      BY <1>2, <1>3, <2>3
  <1> QED
    BY <1>4

\* And of any numbers a least.
LEMMA LeastIn ==
    ASSUME NEW S \in SUBSET Nat, S # {}
    PROVE  \E x \in S : \A y \in S : x <= y
  <1>1. PICK n \in S : TRUE
    OBVIOUS
  <1>2. {n - y : y \in {z \in S : z <= n}} \in SUBSET (0..n)
    OBVIOUS
  <1> DEFINE T == {n - y : y \in {z \in S : z <= n}}
  <1>3. n - n \in T
    OBVIOUS
  <1>4. PICK t \in T : \A u \in T : u <= t
    <2> HIDE DEF T
    <2> QED
      BY <1>2, <1>3, GreatestIn DEF T
  <1>5. PICK x \in S : x <= n /\ t = n - x
    BY <1>4
  <1>6. ASSUME NEW y \in S PROVE x <= y
    <2>1. CASE y <= n
      <3>1. n - y \in T
        BY <2>1
      <3>2. n - y <= n - x
        BY <1>4, <1>5, <3>1
      <3>3. n \in Nat /\ x \in Nat /\ y \in Nat
        OBVIOUS
      <3> QED
        BY <3>2, <3>3
    <2>2. CASE y > n
      BY <1>5, <2>2
    <2> QED
      BY <2>1, <2>2
  <1> QED
    BY <1>6

-----------------------------------------------------------------------------
(* Lists.                                                                  *)

LEMMA ListIs ==
    ASSUME NEW res \in Lists
    PROVE  /\ DOMAIN res \in SUBSET Nat
           /\ res = [i \in DOMAIN res |-> res[i]]
           /\ \A i \in DOMAIN res : res[i] \in Results
  BY DEF Lists

\* A function that takes numbers to results is a list.
LEMMA IsList ==
    ASSUME NEW I \in SUBSET Nat, NEW f, DOMAIN f = I, f = [i \in I |-> f[i]],
           \A i \in I : f[i] \in Results
    PROVE  f \in Lists
  BY DEF Lists

LEMMA ShownAre ==
    ASSUME NEW res \in Lists
    PROVE  /\ Shown(res) \subseteq Results
           /\ \A x \in Shown(res) : x.key \in KeysOf(res) /\ x.name \in Names(res)
           /\ \A k \in KeysOf(res) : \E i \in DOMAIN res : res[i].key = k
           /\ \A n \in Names(res) : \E i \in DOMAIN res : res[i].name = n
  BY ListIs DEF Shown, KeysOf, Names

\* Of the entries with one key there is a last one, and so of those with one name.
LEMMA LastOfKeyIs ==
    ASSUME NEW res \in Lists, NEW n \in Nat, Below(res, n), NEW h \in DOMAIN res
    PROVE  \E i \in DOMAIN res :
              /\ LastOfKey(res, res[h].key) = res[i]
              /\ res[i].key = res[h].key
              /\ \A j \in DOMAIN res : res[j].key = res[h].key => j <= i
  <1> DEFINE k == res[h].key
             S == {i \in DOMAIN res : res[i].key = k}
  <1>1. S \in SUBSET (0..n) /\ S # {}
    BY ListIs DEF Below
  <1>2. \E i \in S : \A j \in S : j <= i
    <2> HIDE DEF S
    <2> QED
      BY <1>1, GreatestIn
  <1>3. \E i \in DOMAIN res :
           res[i].key = k /\ \A j \in DOMAIN res : res[j].key = k => j <= i
    BY <1>2
  <1> HIDE DEF S, k
  <1> QED
    BY <1>3 DEF LastOfKey, k

LEMMA LastOfNameIs ==
    ASSUME NEW res \in Lists, NEW n \in Nat, Below(res, n), NEW h \in DOMAIN res
    PROVE  \E i \in DOMAIN res :
              /\ LastOfName(res, res[h].name) = res[i]
              /\ res[i].name = res[h].name
  <1> DEFINE k == res[h].name
             S == {i \in DOMAIN res : res[i].name = k}
  <1>1. S \in SUBSET (0..n) /\ S # {}
    BY ListIs DEF Below
  <1>2. \E i \in S : \A j \in S : j <= i
    <2> HIDE DEF S
    <2> QED
      BY <1>1, GreatestIn
  <1>3. \E i \in DOMAIN res :
           res[i].name = k /\ \A j \in DOMAIN res : res[j].name = k => j <= i
    BY <1>2
  <1> HIDE DEF S, k
  <1> QED
    BY <1>3 DEF LastOfName, k

\* What a run has found is a list that begins where the others end.
LEMMA UnitsAre ==
    ASSUME TypeOK, NEW r \in Runs, NEW u \in Units(r)
    PROVE  /\ u \in 0..Workshops
           /\ ResultOf(r, u) \in Results
           /\ ResultOf(r, u).run = r
           /\ kind[r] = "retry" => ResultOf(r, u).name = Name(u) /\ u \in rows[r]
  <1> USE WorkshopsAssumption DEF Rows, Numbers
  <1>1. rows[r] \in SUBSET (1..Workshops)
    BY DEF TypeOK
  <1>2. CASE u = 0
    <2>1. Grouped(r) \in SUBSET (1..Workshops) /\ Grouped(r) # {} /\ kind[r] # "retry"
      BY <1>1, <1>2 DEF Units, Grouped
    <2>2. \E x \in Grouped(r) : \A y \in Grouped(r) : x <= y
      BY <2>1, LeastIn
    <2>3. First(Grouped(r)) \in 1..Workshops
      BY <2>1, <2>2 DEF First
    <2>4. Key(First(Grouped(r))) \in Numbers
      BY <2>3 DEF Key
    <2> QED
      BY <1>2, <2>1, <2>4 DEF ResultOf, Results
  <1>3. CASE u # 0
    <2>1. u \in 1..Workshops /\ u \in rows[r]
      BY <1>1, <1>3 DEF Units
    <2>2. Name(u) \in Numbers /\ Key(u) \in Numbers
      BY <2>1 DEF Name, Key
    <2> QED
      BY <1>3, <2>1, <2>2 DEF ResultOf, Results
  <1> QED
    BY <1>2, <1>3

LEMMA OwnIs ==
    ASSUME TypeOK, NEW r \in Runs, NEW us \in SUBSET Units(r)
    PROVE  /\ Own(r, us) \in Lists
           /\ DOMAIN Own(r, us) = {top + u : u \in us}
           /\ \A u \in us : Own(r, us)[top + u] = ResultOf(r, u)
           /\ \A i \in DOMAIN Own(r, us) : /\ top <= i /\ i < top + Workshops + 1
                                           /\ i - top \in us
                                           /\ Own(r, us)[i] = ResultOf(r, i - top)
                                           /\ Own(r, us)[i].run = r
  <1> DEFINE I == {top + u : u \in us}
  <1>1. top \in Nat /\ Workshops \in Nat /\ \A u \in us : u \in 0..Workshops /\ u \in Units(r)
    BY UnitsAre, WorkshopsAssumption DEF TypeOK
  <1>2. I \in SUBSET Nat /\ \A i \in I : i - top \in us /\ top <= i /\ i < top + Workshops + 1
    BY <1>1
  <1>3. \A u \in us : top + u \in I /\ (top + u) - top = u
    BY <1>1
  <1>4. \A u \in us : ResultOf(r, u) \in Results /\ ResultOf(r, u).run = r
    BY UnitsAre
  <1>5. Own(r, us) = [i \in I |-> ResultOf(r, i - top)]
    BY DEF Own
  <1> HIDE DEF I
  <1>6. \A i \in I : Own(r, us)[i] = ResultOf(r, i - top) /\ ResultOf(r, i - top) \in Results
    BY <1>2, <1>4, <1>5
  <1>7. Own(r, us) \in Lists
    BY <1>2, <1>5, <1>6, IsList
  <1>8. DOMAIN Own(r, us) = {top + u : u \in us}
    BY <1>5 DEF I
  <1> QED
    BY <1>2, <1>3, <1>4, <1>5, <1>6, <1>7, <1>8

\* Two lists of which one ends where the other begins.
Follows(old, new, n) ==
    /\ old \in Lists /\ new \in Lists
    /\ Below(old, n)
    /\ \A i \in DOMAIN new : n <= i

LEMMA JoinedIs ==
    ASSUME NEW old, NEW new, NEW n \in Nat, NEW m \in Nat, Follows(old, new, n), Below(new, m),
           n <= m
    PROVE  /\ Joined(old, new) \in Lists
           /\ Below(Joined(old, new), m)
           /\ DOMAIN Joined(old, new) = DOMAIN old \cup DOMAIN new
           /\ \A i \in DOMAIN old : i \notin DOMAIN new /\ Joined(old, new)[i] = old[i]
           /\ \A i \in DOMAIN new : Joined(old, new)[i] = new[i]
  <1>1. /\ DOMAIN old \in SUBSET Nat /\ DOMAIN new \in SUBSET Nat
        /\ \A i \in DOMAIN old : old[i] \in Results
        /\ \A i \in DOMAIN new : new[i] \in Results
    BY ListIs DEF Follows
  <1>2. \A i \in DOMAIN old : i \notin DOMAIN new /\ i < m
    BY <1>1 DEF Follows, Below
  <1>3. /\ DOMAIN Joined(old, new) = DOMAIN old \cup DOMAIN new
        /\ \A i \in DOMAIN old : Joined(old, new)[i] = old[i]
        /\ \A i \in DOMAIN new : Joined(old, new)[i] = new[i]
    BY <1>2 DEF Joined
  <1>4. Joined(old, new) = [i \in DOMAIN old \cup DOMAIN new |-> Joined(old, new)[i]]
    BY DEF Joined
  <1>5. Joined(old, new) \in Lists
    <2>1. DOMAIN old \cup DOMAIN new \in SUBSET Nat
      BY <1>1
    <2>2. \A i \in DOMAIN old \cup DOMAIN new : Joined(old, new)[i] \in Results
      BY <1>1, <1>3
    <2> QED
      BY <1>3, <1>4, <2>1, <2>2, IsList
  <1>6. Below(Joined(old, new), m)
    BY <1>2, <1>3 DEF Below
  <1> QED
    BY <1>2, <1>3, <1>5, <1>6

\* A merge keeps, of each key that was there or is new, one entry: the last of the
\* two lists together.
LEMMA MergeIs ==
    ASSUME NEW old, NEW new, NEW n \in Nat, NEW m \in Nat, Follows(old, new, n), Below(new, m),
           n <= m
    PROVE  /\ Merge(old, new) \in Lists
           /\ Below(Merge(old, new), m)
           /\ KeysOf(Merge(old, new)) = KeysOf(old) \cup KeysOf(new)
           /\ \A x, y \in Shown(Merge(old, new)) : x.key = y.key => x = y
           /\ \A x \in Shown(Merge(old, new)) :
                 IF x.key \in KeysOf(new) THEN x \in Shown(new) ELSE x \in Shown(old)
  <1> DEFINE all == Joined(old, new)
             F == {j \in DOMAIN all : \A h \in DOMAIN all : h < j => all[h].key # all[j].key}
             M == Merge(old, new)
  <1>1. /\ all \in Lists /\ Below(all, m) /\ DOMAIN all = DOMAIN old \cup DOMAIN new
        /\ \A i \in DOMAIN old : i \notin DOMAIN new /\ all[i] = old[i]
        /\ \A i \in DOMAIN new : all[i] = new[i]
    BY JoinedIs
  <1>2. M = [i \in F |-> LastOfKey(all, all[i].key)] /\ DOMAIN M = F /\ F \subseteq DOMAIN all
    BY DEF Merge
  <1> HIDE DEF all, M
  <1>3. DOMAIN all \in SUBSET Nat /\ \A i \in DOMAIN all : all[i] \in Results
    BY <1>1, ListIs
  <1>4. ASSUME NEW i \in F
        PROVE  \E h \in DOMAIN all : /\ M[i] = all[h] /\ all[h].key = all[i].key
                                     /\ \A j \in DOMAIN all : all[j].key = all[i].key => j <= h
    BY <1>1, <1>2, LastOfKeyIs
  <1>5. ASSUME NEW j \in DOMAIN all PROVE \E i \in F : all[i].key = all[j].key
    <2> DEFINE S == {h \in DOMAIN all : all[h].key = all[j].key}
    <2>1. S \in SUBSET Nat /\ S # {}
      BY <1>3
    <2>2. PICK i \in S : \A h \in S : i <= h
      <3> HIDE DEF S
      <3> QED
        BY <2>1, LeastIn
    <2>3. i \in F
      BY <1>3, <2>2
    <2> QED
      BY <2>2, <2>3
  <1>6. M \in Lists /\ Below(M, m)
    <2>1. \A i \in F : M[i] \in Results
      BY <1>3, <1>4
    <2>2. F \in SUBSET Nat
      BY <1>2, <1>3
    <2> HIDE DEF F
    <2>3. M = [i \in F |-> M[i]]
      BY <1>2
    <2> QED
      BY <1>1, <1>2, <2>1, <2>2, <2>3, IsList DEF Below
  <1>7. ASSUME NEW i \in F, NEW j \in F, all[i].key = all[j].key PROVE i = j
    BY <1>3, <1>7
  <1>8. ASSUME NEW x \in Shown(M), NEW y \in Shown(M), x.key = y.key PROVE x = y
    <2>1. PICK i \in F, j \in F : x = M[i] /\ y = M[j]
      BY <1>2 DEF Shown
    <2>2. M[i].key = all[i].key /\ M[j].key = all[j].key
      BY <1>4
    <2> QED
      BY <1>7, <1>8, <2>1, <2>2
  <1>9. ASSUME NEW x \in Shown(M)
        PROVE  IF x.key \in KeysOf(new) THEN x \in Shown(new) ELSE x \in Shown(old)
    <2>1. PICK i \in F : x = M[i]
      BY <1>2 DEF Shown
    <2>2. PICK h \in DOMAIN all : /\ x = all[h] /\ all[h].key = all[i].key
                                  /\ \A j \in DOMAIN all : all[j].key = all[i].key => j <= h
      BY <1>4, <2>1
    <2>3. CASE x.key \in KeysOf(new)
      <3>1. PICK j \in DOMAIN new : new[j].key = x.key
        BY <2>3 DEF KeysOf, Shown
      <3>2. j <= h /\ n <= j /\ j \in Nat /\ h \in Nat
        BY <1>1, <1>3, <2>2, <3>1 DEF Follows
      <3>3. h \notin DOMAIN old
        BY <3>2 DEF Follows, Below
      <3> QED
        BY <1>1, <2>2, <2>3, <3>3 DEF Shown
    <2>4. CASE x.key \notin KeysOf(new)
      <3>1. h \notin DOMAIN new
        BY <1>1, <2>2, <2>4 DEF KeysOf, Shown
      <3> QED
        BY <1>1, <2>2, <2>4, <3>1 DEF Shown
    <2> QED
      BY <2>3, <2>4
  <1>10. KeysOf(M) = KeysOf(old) \cup KeysOf(new)
    <2>1. ASSUME NEW k \in KeysOf(M) PROVE k \in KeysOf(old) \cup KeysOf(new)
      <3>1. PICK x \in Shown(M) : x.key = k
        BY DEF KeysOf
      <3> QED
        BY <1>9, <3>1 DEF KeysOf
    <2>2. ASSUME NEW k \in KeysOf(old) \cup KeysOf(new) PROVE k \in KeysOf(M)
      <3>1. PICK j \in DOMAIN all : all[j].key = k
        BY <1>1 DEF KeysOf, Shown
      <3>2. PICK i \in F : all[i].key = k
        BY <1>5, <3>1
      <3>3. M[i].key = k
        BY <1>4, <3>2
      <3> HIDE DEF F
      <3> QED
        BY <1>2, <3>3 DEF KeysOf, Shown
    <2> QED
      BY <2>1, <2>2
  <1> QED
    BY <1>6, <1>8, <1>9, <1>10 DEF M

\* An update replaces the results of the names that are new, adds such names, and
\* leaves the others.
LEMMA UpdateIs ==
    ASSUME NEW old, NEW new, NEW n \in Nat, NEW m \in Nat, Follows(old, new, n), Below(new, m),
           n <= m
    PROVE  /\ Update(old, new) \in Lists
           /\ Below(Update(old, new), m)
           /\ \A x \in Shown(Update(old, new)) :
                 IF x.name \in Names(new) THEN x \in Shown(new) ELSE x \in Shown(old)
           /\ \A x \in Shown(old) : x.name \notin Names(new) => x \in Shown(Update(old, new))
           /\ Names(new) \subseteq Names(Update(old, new))
  <1> DEFINE U == Update(old, new)
             D == DOMAIN old \cup {j \in DOMAIN new : new[j].name \notin Names(old)}
  <1>1. /\ DOMAIN old \in SUBSET Nat /\ DOMAIN new \in SUBSET Nat
        /\ \A i \in DOMAIN old : old[i] \in Results
        /\ \A i \in DOMAIN new : new[i] \in Results
        /\ \A i \in DOMAIN old : i \notin DOMAIN new
    BY ListIs DEF Follows, Below
  <1>2. U = [i \in D |-> IF i \notin DOMAIN old THEN new[i]
                         ELSE IF old[i].name \in Names(new) THEN LastOfName(new, old[i].name)
                         ELSE old[i]]
    BY DEF Update
  <1>3. DOMAIN U = D /\ U = [i \in D |-> U[i]]
    BY <1>2
  <1>4. /\ \A i \in DOMAIN old : U[i] = IF old[i].name \in Names(new)
                                        THEN LastOfName(new, old[i].name) ELSE old[i]
        /\ \A i \in DOMAIN new : new[i].name \notin Names(old) => i \in D /\ U[i] = new[i]
    BY <1>1, <1>2
  <1> HIDE DEF U
  <1>5. ASSUME NEW k \in Names(new) PROVE \E h \in DOMAIN new : LastOfName(new, k) = new[h] /\ new[h].name = k
    <2>1. PICK j \in DOMAIN new : new[j].name = k
      BY DEF Names, Shown
    <2> QED
      BY <2>1, LastOfNameIs DEF Follows
  <1>6. ASSUME NEW i \in D
        PROVE  /\ U[i] \in Results
               /\ IF U[i].name \in Names(new) THEN U[i] \in Shown(new) ELSE U[i] \in Shown(old)
    <2>1. CASE i \in DOMAIN old /\ old[i].name \in Names(new)
      BY <1>1, <1>4, <1>5, <2>1 DEF Shown
    <2>2. CASE i \in DOMAIN old /\ old[i].name \notin Names(new)
      BY <1>1, <1>4, <2>2 DEF Shown
    <2>3. CASE i \notin DOMAIN old
      BY <1>1, <1>4, <2>3 DEF Names, Shown
    <2> QED
      BY <2>1, <2>2, <2>3
  <1>7. D \in SUBSET Nat /\ \A i \in D : i < m
    BY <1>1 DEF Follows, Below
  <1>8. ASSUME NEW x \in Shown(old), x.name \notin Names(new) PROVE x \in Shown(U)
    BY <1>3, <1>4, <1>8 DEF Shown
  <1>9. ASSUME NEW k \in Names(new) PROVE k \in Names(U)
    <2>1. CASE k \in Names(old)
      <3>1. PICK i \in DOMAIN old : old[i].name = k
        BY <2>1 DEF Names, Shown
      <3>2. U[i].name = k /\ i \in DOMAIN U
        BY <1>3, <1>4, <1>5, <3>1
      <3> QED
        BY <3>2 DEF Names, Shown
    <2>2. CASE k \notin Names(old)
      <3>1. PICK i \in DOMAIN new : new[i].name = k
        BY DEF Names, Shown
      <3>2. U[i].name = k /\ i \in DOMAIN U
        BY <1>3, <1>4, <2>2, <3>1
      <3> QED
        BY <3>2 DEF Names, Shown
    <2> QED
      BY <2>1, <2>2
  <1> HIDE DEF D
  <1>10. U \in Lists /\ Below(U, m)
    BY <1>3, <1>6, <1>7, IsList DEF Below
  <1>11. \A x \in Shown(U) :
            IF x.name \in Names(new) THEN x \in Shown(new) ELSE x \in Shown(old)
    BY <1>3, <1>6 DEF Shown
  <1> QED
    BY <1>8, <1>9, <1>10, <1>11 DEF U
-----------------------------------------------------------------------------
(* The invariant.                                                          *)

LEMMA EmptyIs == Empty \in Lists /\ \A n : Below(Empty, n)
  <1>1. DOMAIN Empty = {} /\ Empty = [i \in {} |-> Empty[i]]
    BY DEF Empty
  <1> QED
    BY <1>1, IsList DEF Below

LEMMA InitIInv == Init => IInv
  <1> SUFFICES ASSUME Init PROVE IInv
    OBVIOUS
  <1>1. TypeOK
    BY EmptyIs DEF Init, TypeOK
  <1>2. AllBelow
    BY EmptyIs DEF Init, AllBelow
  <1>3. SavesOrdered
    BY DEF Init, SavesOrdered, DiskFollowsMemory
  <1> QED
    BY <1>1, <1>2, <1>3 DEF IInv

\* A shorter list is a list.
LEMMA WithoutIs ==
    ASSUME NEW res \in Lists, NEW n, Below(res, n), NEW ks
    PROVE  Without(res, ks) \in Lists /\ Below(Without(res, ks), n)
  <1>1. /\ DOMAIN Without(res, ks) \in SUBSET DOMAIN res
        /\ \A i \in DOMAIN Without(res, ks) : Without(res, ks)[i] = res[i]
        /\ Without(res, ks) = [i \in DOMAIN Without(res, ks) |-> Without(res, ks)[i]]
    BY DEF Without
  <1> QED
    BY <1>1, ListIs, IsList DEF Below

\* What a run publishes.
LEMMA PublicationIs ==
    ASSUME IInv, NEW r \in Runs, NEW us \in SUBSET Units(r), Publish(r, us)
    PROVE  /\ Follows(results, Own(r, us), top)
           /\ Below(Own(r, us), top')
           /\ top \in Nat /\ top' \in Nat /\ top <= top' /\ top' # top
           /\ results' = Combine(r, results, Own(r, us))
           /\ results' \in Lists
           /\ Below(results', top')
  <1>1. top \in Nat /\ top' = top + Workshops + 1 /\ results \in Lists /\ Below(results, top)
    BY DEF IInv, TypeOK, AllBelow, Publish
  <1>2. top' \in Nat /\ top <= top' /\ top' # top
    BY <1>1, WorkshopsAssumption
  <1>3. Follows(results, Own(r, us), top) /\ Below(Own(r, us), top')
    BY <1>1, OwnIs DEF Follows, Below, IInv
  <1>4. results' = Combine(r, results, Own(r, us))
    BY DEF Publish
  <1>5. Own(r, us) \in Lists
    BY <1>3 DEF Follows
  <1>6. results' \in Lists /\ Below(results', top')
    <2>1. /\ Merge(results, Own(r, us)) \in Lists /\ Below(Merge(results, Own(r, us)), top')
          /\ Update(results, Own(r, us)) \in Lists /\ Below(Update(results, Own(r, us)), top')
      BY <1>1, <1>2, <1>3, MergeIs, UpdateIs
    <2> QED
      BY <1>3, <1>4, <1>5, <2>1 DEF Combine, Replace
  <1> QED
    BY <1>1, <1>2, <1>3, <1>4, <1>6

LEMMA PublishIInv ==
    ASSUME IInv, NEW r \in Runs, NEW us \in SUBSET Units(r), Publish(r, us)
    PROVE  IInv'
  <1>1. /\ results' \in Lists /\ Below(results', top') /\ top' \in Nat /\ top \in Nat /\ top <= top'
    BY PublicationIs
  <1>2. /\ disk' = IF kind[r] = "session" THEN results' ELSE disk
        /\ snap' = [snap EXCEPT ![r] = results']
        /\ pc' = [pc EXCEPT ![r] = CASE kind[r] = "session" -> "over"
                                     [] kind[r] = "retry" -> "published"
                                     [] OTHER -> "saving"]
        /\ overtaken' = overtaken \cup Overtakes(r)
        /\ UNCHANGED <<kind, requests, rows>>
        /\ spoilt' = (spoilt /\ kind[r] # "session")
    BY DEF Publish
  <1>3. pc'[r] \in {"over", "published", "saving"} /\ \A q \in Runs : q # r => pc'[q] = pc[q]
    BY <1>2 DEF IInv, TypeOK
  <1>4. TypeOK'
    <2>1. spoilt' \in BOOLEAN
      BY <1>2 DEF IInv, TypeOK
    <2>2. overtaken' \in SUBSET Runs
      BY <1>2 DEF IInv, TypeOK, Overtakes
    <2>3. pc' \in [Runs -> {"idle", "running", "published", "saving", "over", "dead"}]
      BY <1>2 DEF IInv, TypeOK
    <2>4. disk' \in Lists /\ snap' \in [Runs -> Lists]
      BY <1>1, <1>2 DEF IInv, TypeOK
    <2> QED
      BY <1>1, <1>2, <2>1, <2>2, <2>3, <2>4 DEF IInv, TypeOK
  <1>5. AllBelow'
    <2>1. ASSUME NEW l \in Lists, Below(l, top) PROVE Below(l, top')
      BY <1>1, <2>1, ListIs DEF Below
    <2>2. \A q \in Runs : snap'[q] = snap[q] \/ snap'[q] = results'
      BY <1>2 DEF IInv, TypeOK
    <2>3. disk \in Lists /\ \A q \in Runs : snap[q] \in Lists
      BY DEF IInv, TypeOK
    <2> QED
      BY <1>1, <1>2, <2>1, <2>2, <2>3 DEF IInv, AllBelow
  <1>6. ASSUME NEW q \in Runs, pc'[q] = "saving", q \notin overtaken' PROVE snap'[q] = results'
    <2>1. CASE q = r
      BY <1>2, <2>1 DEF IInv, TypeOK
    <2>2. CASE q # r
      <3>1. pc[q] = "saving"
        BY <1>3, <1>6, <2>2
      <3>2. OnLoop(q) /\ OnLoop(r)
        BY <1>2, <1>6, <2>2, <3>1 DEF Overtakes
      <3> QED
        BY <2>2, <3>1, <3>2 DEF Publish, LoopFree, Saving
    <2> QED
      BY <2>1, <2>2
  <1>7. DiskFollowsMemory'
    <2> SUFFICES ASSUME \A q \in Runs : ~Saving(q)' PROVE disk' = results'
      BY DEF DiskFollowsMemory
    <2>1. kind[r] = "session"
      <3>1. pc'[r] = "over"
        BY <1>3 DEF Saving
      <3> QED
        BY <1>2, <3>1 DEF IInv, TypeOK
    <2> QED
      BY <1>2, <2>1
  <1> QED
    BY <1>4, <1>5, <1>6, <1>7 DEF IInv, SavesOrdered

LEMMA NextIInv == IInv /\ [Next]_vars => IInv'
  <1> SUFFICES ASSUME IInv, [Next]_vars PROVE IInv'
    OBVIOUS
  <1> USE DEF IInv, TypeOK, AllBelow, SavesOrdered, DiskFollowsMemory, Saving
  <1>1. ASSUME NEW r \in Runs, NEW ks \in SUBSET Rows, Start(r, ks) PROVE IInv'
    BY <1>1 DEF Start
  <1>2. ASSUME NEW r \in Runs, NEW us \in SUBSET Units(r), Publish(r, us) PROVE IInv'
    BY <1>2, PublishIInv
  <1>3. ASSUME NEW r \in Runs, Look(r) PROVE IInv'
    BY <1>3 DEF Look
  <1>4. ASSUME NEW r \in Runs, Save(r) PROVE IInv'
    <2>1. TypeOK'
      <3>1. spoilt' = (r \in overtaken)
        BY <1>4, Zenon DEF Save
      <3>2. (r \in overtaken) \in BOOLEAN
        OBVIOUS
      <3>3. spoilt' \in BOOLEAN
        BY <3>1, <3>2, Zenon
      <3> QED
        BY <1>4, <3>3 DEF Save
    <2>2. AllBelow'
      BY <1>4 DEF Save
    <2>3. \A q \in Runs : pc'[q] = "saving" /\ q \notin overtaken' => snap'[q] = results'
      BY <1>4 DEF Save
    <2>4. DiskFollowsMemory'
      <3> SUFFICES ASSUME ~spoilt' PROVE disk' = results'
        OBVIOUS
      <3>1. r \notin overtaken
        BY <1>4, Zenon DEF Save
      <3>2. snap[r] = results
        BY <1>4, <3>1 DEF Save
      <3> QED
        BY <1>4, <3>2 DEF Save
    <2> QED
      BY <2>1, <2>2, <2>3, <2>4
  <1>5. ASSUME NEW r \in Runs, Fail(r) PROVE IInv'
    BY <1>5 DEF Fail
  <1>6. ASSUME NEW ks \in SUBSET Numbers, Delete(ks) PROVE IInv'
    <2>1. results' \in Lists /\ Below(results', top)
      BY <1>6, WithoutIs DEF Delete
    <2> QED
      BY <1>6, <2>1 DEF Delete
  <1>7. CASE ClearSession
    BY <1>7, EmptyIs DEF ClearSession
  <1>8. CASE Restart
    BY <1>8 DEF Restart
  <1>9. CASE UNCHANGED vars
    BY <1>9 DEF vars
  <1> QED
    BY <1>1, <1>2, <1>3, <1>4, <1>5, <1>6, <1>7, <1>8, <1>9 DEF Next

\* The inductive invariant holds throughout.
THEOREM Invariance == Spec => []IInv
  BY InitIInv, NextIInv, PTL DEF Spec

\* The variables keep their types.
THEOREM TypeCorrect == Spec => []TypeOK
  <1>1. IInv => TypeOK
    BY DEF IInv
  <1> QED
    BY <1>1, Invariance, PTL

\* Whatever runs, deletions, clears and restarts there have been, the snapshot is
\* what the dashboard shows whenever no run is about to save, unless another
\* thread had come between the lock and the file write of the last run to save.
THEOREM DiskIsMemory == Spec => []DiskFollowsMemory
  <1>1. IInv => DiskFollowsMemory
    BY DEF IInv, SavesOrdered
  <1> QED
    BY <1>1, Invariance, PTL

-----------------------------------------------------------------------------
(* What a publication leaves alone. *)

\* A session keeps what it did not deploy.
LEMMA SessionKeeps ==
    ASSUME IInv, NEW r \in Runs, NEW us \in SUBSET Units(r), Publish(r, us), kind[r] = "session"
    PROVE  SessionAccumulates(r)
  <1> DEFINE new == Own(r, us)
  <1>1. /\ results' = Merge(results, new)
        /\ Follows(results, new, top) /\ Below(new, top')
        /\ top \in Nat /\ top' \in Nat /\ top <= top'
    BY PublicationIs DEF Combine
  <1>2. /\ KeysOf(results') = KeysOf(results) \cup KeysOf(new)
        /\ \A x, y \in Shown(results') : x.key = y.key => x = y
        /\ \A x \in Shown(results') :
              IF x.key \in KeysOf(new) THEN x \in Shown(new) ELSE x \in Shown(results)
    BY <1>1, MergeIs
  <1>3. /\ \A x \in Shown(new) : x.run = r
        /\ KeysOf(new) = {ResultOf(r, u).key : u \in us}
    <2>1. /\ DOMAIN new = {top + u : u \in us}
          /\ \A u \in us : new[top + u] = ResultOf(r, u)
          /\ \A i \in DOMAIN new : i - top \in us /\ new[i] = ResultOf(r, i - top) /\ new[i].run = r
      BY OwnIs DEF IInv
    <2>2. Shown(new) = {ResultOf(r, u) : u \in us}
      BY <2>1 DEF Shown
    <2> HIDE DEF new
    <2> QED
      BY <2>1, <2>2 DEF Shown, KeysOf
  <1>4. UpTo(r, us)
    BY DEF Publish
  <1> QED
    BY <1>2, <1>3, <1>4 DEF SessionAccumulates

\* A retry keeps what has another name; it has one unit for each of its rows.
LEMMA RetryKeeps ==
    ASSUME IInv, NEW r \in Runs, NEW us \in SUBSET Units(r), Publish(r, us), kind[r] = "retry"
    PROVE  RetryReplaces(r)
  <1> DEFINE new == Own(r, us)
             mine == {Name(k) : k \in rows[r]}
  <1>1. /\ results' = Update(results, new)
        /\ Follows(results, new, top) /\ Below(new, top')
        /\ top \in Nat /\ top' \in Nat /\ top <= top'
    BY PublicationIs DEF Combine
  <1>2. /\ \A x \in Shown(results') :
              IF x.name \in Names(new) THEN x \in Shown(new) ELSE x \in Shown(results)
        /\ \A x \in Shown(results) : x.name \notin Names(new) => x \in Shown(results')
        /\ Names(new) \subseteq Names(results')
    BY <1>1, UpdateIs
  <1>3. us = rows[r]
    BY DEF Publish, Units, Grouped
  <1>4. (\A x \in Shown(new) : x.run = r) /\ Names(new) = mine
    <2>1. /\ DOMAIN new = {top + u : u \in us}
          /\ \A u \in us : new[top + u] = ResultOf(r, u)
          /\ \A i \in DOMAIN new : i - top \in us /\ new[i] = ResultOf(r, i - top) /\ new[i].run = r
      BY OwnIs DEF IInv
    <2>2. Shown(new) = {ResultOf(r, u) : u \in us}
      BY <2>1 DEF Shown
    <2>3. \A u \in us : ResultOf(r, u).name = Name(u)
      BY UnitsAre DEF IInv
    <2> HIDE DEF new
    <2> QED
      BY <1>3, <2>1, <2>2, <2>3 DEF Shown, Names
  <1> HIDE DEF new
  <1> QED
    BY <1>2, <1>4 DEF RetryReplaces

\* It is that run's publication, if one publishes.
LEMMA PublishesBy ==
    ASSUME IInv, [Next]_vars, NEW r \in Runs, Publishes(r)
    PROVE  \E us \in SUBSET Units(r) : Publish(r, us)
  <1> USE DEF Publishes
  <1>1. ASSUME NEW q \in Runs, NEW ks \in SUBSET Rows, Start(q, ks) PROVE FALSE
    BY <1>1 DEF Start
  <1>2. ASSUME NEW q \in Runs, NEW us \in SUBSET Units(q), Publish(q, us)
        PROVE  \E ws \in SUBSET Units(r) : Publish(r, ws)
    BY <1>2 DEF Publish, IInv, TypeOK
  <1>3. ASSUME NEW q \in Runs, Look(q) \/ Save(q) \/ Fail(q) PROVE FALSE
    BY <1>3 DEF Look, Save, Fail
  <1>4. ASSUME NEW ks \in SUBSET Numbers, Delete(ks) PROVE FALSE
    BY <1>4 DEF Delete
  <1>5. CASE ClearSession \/ Restart \/ UNCHANGED vars
    BY <1>5 DEF ClearSession, Restart, vars
  <1> QED
    BY <1>1, <1>2, <1>3, <1>4, <1>5 DEF Next

\* For any rows, of whatever names, keys and groups: a session or a retry changes
\* the results of what it deployed and keeps the rest.
THEOREM RestIsKept == Spec => KeepsTheRest
  <1>1. ASSUME IInv, [Next]_vars, NEW r \in Runs, Publishes(r)
        PROVE  /\ kind[r] = "session" => SessionAccumulates(r)
               /\ kind[r] = "retry" => RetryReplaces(r)
    BY <1>1, PublishesBy, SessionKeeps, RetryKeeps
  <1>2. IInv /\ [Next]_vars =>
           [\A r \in Runs : Publishes(r) =>
               /\ kind[r] = "session" => SessionAccumulates(r)
               /\ kind[r] = "retry" => RetryReplaces(r)]_vars
    BY <1>1
  <1> QED
    BY <1>2, Invariance, PTL DEF Spec, KeepsTheRest
=============================================================================
