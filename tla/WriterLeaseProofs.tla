-------------------------- MODULE WriterLeaseProofs --------------------------
(***************************************************************************)
(* For any number of processes and index files: a writable connection is   *)
(* open only under the lock of its file, the processes around an index     *)
(* implement OneWriter, and writer.json names a process that holds the     *)
(* lock, is written by no other, and is not taken from one by a purge.     *)
(***************************************************************************)
EXTENDS WriterLease, TLAPS

\* A process that is past taking a lease still has the OS lock it took.
HoldsItsLock == \A p \in Proc : pc[p] \in LeasePC => lock[held[p]] = p

\* A writable connection is open only between taking the lease and letting it
\* go, and only on the file the lease locks.
WritesUnderLease ==
    \A p \in Proc :
        rw[p] => pc[p] \in {"leased", "writing", "kept"} /\ conn[p] = held[p]

\* A process that resolves the path once has resolved it before it uses it.
TargetResolved ==
    \A p \in Proc :
        goal[p] \in {"migrate", "purge"} \/ pc[p] \in {"open", "reopen", "purgingUnlocked"}
            => target[p] \in File

\* Purge deletes the file it locked.
PurgesWhatItLocked ==
    \A p \in Proc : pc[p] \in {"purging", "purged"} => held[p] = target[p]

\* The inductive invariant: WriterHoldsLock alone is not one, since MakeWritable
\* relies on the lock of the file the lease names (HoldsItsLock).
IInv == /\ TypeOK
        /\ HoldsItsLock
        /\ WritesUnderLease
        /\ TargetResolved
        /\ PurgesWhatItLocked

LEMMA InitIInv == Init => IInv
BY NoProcAssumption, NoFileAssumption
   DEF Init, IInv, TypeOK, Goal, PC, Form, LeasePC, HoldsItsLock,
       WritesUnderLease, TargetResolved, PurgesWhatItLocked

LEMMA StepIInv == IInv /\ [Next]_vars => IInv'
<1> SUFFICES ASSUME IInv, [Next]_vars PROVE IInv'
  OBVIOUS
<1> USE NoProcAssumption, NoFileAssumption
<1> USE DEF IInv, TypeOK, HoldsItsLock, WritesUnderLease, TargetResolved,
           PurgesWhatItLocked, Goal, PC, Form, LeasePC, GoTo
<1>1. ASSUME NEW p \in Proc, Acquire(p) PROVE IInv'
  BY <1>1 DEF Acquire, LockFree, Asked
<1>2. ASSUME NEW p \in Proc, SeeBusy(p) PROVE IInv'
  BY <1>2 DEF SeeBusy, LockFree
<1>3. ASSUME NEW p \in Proc, GiveUp(p) PROVE IInv'
  BY <1>3 DEF GiveUp, LockFree, AfterBusy
<1>4. ASSUME NEW p \in Proc, LockError(p) PROVE IInv'
  BY <1>4 DEF LockError, AfterLockError
<1>5. ASSUME NEW p \in Proc, Publish(p) PROVE IInv'
  BY <1>5 DEF Publish
<1>6. ASSUME NEW p \in Proc, OpenWriter(p) PROVE IInv'
  BY <1>6 DEF OpenWriter
<1>7. ASSUME NEW p \in Proc, MakeWritable(p) PROVE IInv'
  BY <1>7 DEF MakeWritable, IsOn
<1>8. ASSUME NEW p \in Proc, Abandon(p) PROVE IInv'
  BY <1>8 DEF Abandon, AfterFailure
<1>9. ASSUME NEW p \in Proc, RecordMeta(p) PROVE IInv'
  BY <1>9 DEF RecordMeta
<1>10. ASSUME NEW p \in Proc, StopWriting(p) PROVE IInv'
  BY <1>10 DEF StopWriting, AfterFailure
<1>11. ASSUME NEW p \in Proc, KeepLease(p) PROVE IInv'
  BY <1>11 DEF KeepLease, AfterFailure
<1>12. ASSUME NEW p \in Proc, ClaimKept(p) PROVE IInv'
  BY <1>12 DEF ClaimKept
<1>13. ASSUME NEW p \in Proc, DropFirst(p) PROVE IInv'
  <2>1. RemoveInfo(p)
    BY <1>13 DEF DropFirst, DropStep, DropOrder
  <2>2. held[p] \in File
    BY <1>13 DEF DropFirst
  <2>3. json' \in [File -> Proc \cup {NoProc}]
    <3>1. CASE json' = [json EXCEPT ![held[p]] = NoProc]
      BY <3>1
    <3>2. CASE UNCHANGED json
      BY <3>2
    <3> QED
      BY <2>1, <3>1, <3>2 DEF RemoveInfo
  <2>4. leftover' \in [Proc -> BOOLEAN]
    <3>1. CASE leftover' = [leftover EXCEPT ![p] = TRUE]
      BY <3>1
    <3>2. CASE UNCHANGED leftover
      BY <3>2
    <3> QED
      BY <2>1, <3>1, <3>2 DEF RemoveInfo
  <2>5. UNCHANGED lock
    BY <2>1 DEF RemoveInfo
  <2>6. /\ pc[p] = "dropping"
        /\ pc' = [pc EXCEPT ![p] = "dropped"]
        /\ UNCHANGED <<link, form, goal, target, held, conn, rw, sawBusy>>
    BY <1>13 DEF DropFirst
  <2> QED
    BY <2>3, <2>4, <2>5, <2>6
<1>14. ASSUME NEW p \in Proc, DropSecond(p) PROVE IInv'
  <2>1. Unlock(p)
    BY <1>14 DEF DropSecond, DropStep, DropOrder
  <2> QED
    BY <1>14, <2>1 DEF DropSecond, Unlock, AfterRelease
<1>15. ASSUME NEW p \in Proc, StartIndex(p) PROVE IInv'
  BY <1>15 DEF StartIndex
<1>16. ASSUME NEW p \in Proc, StartReader(p) PROVE IInv'
  BY <1>16 DEF StartReader
<1>17. ASSUME NEW p \in Proc, OpenReadOnly(p) PROVE IInv'
  BY <1>17 DEF OpenReadOnly
<1>18. ASSUME NEW p \in Proc, NeedMigration(p) PROVE IInv'
  BY <1>18 DEF NeedMigration
<1>19. ASSUME NEW p \in Proc, MetaPresent(p) PROVE IInv'
  BY <1>19 DEF MetaPresent
<1>20. ASSUME NEW p \in Proc, MetaMissing(p) PROVE IInv'
  BY <1>20 DEF MetaMissing
<1>21. ASSUME NEW p \in Proc, ClaimAtStart(p) PROVE IInv'
  BY <1>21 DEF ClaimAtStart
<1>22. ASSUME NEW p \in Proc, ClaimForRebuild(p) PROVE IInv'
  BY <1>22 DEF ClaimForRebuild
<1>23. ASSUME NEW p \in Proc, StartPurge(p) PROVE IInv'
  BY <1>23 DEF StartPurge
<1>24. ASSUME NEW p \in Proc, PurgeFiles(p) PROVE IInv'
  <2>1. target[p] \in File
    BY <1>24 DEF PurgeFiles
  <2>2. form' \in [File -> Form]
    BY <1>24, <2>1 DEF PurgeFiles
  <2>3. pc' \in [Proc -> PC]
    BY <1>24 DEF PurgeFiles
  <2> QED
    BY <1>24, <2>2, <2>3 DEF PurgeFiles
<1>25. ASSUME NEW p \in Proc, PurgeUnlock(p) PROVE IInv'
  BY <1>25 DEF PurgeUnlock
<1>26. ASSUME NEW p \in Proc, Exit(p) PROVE IInv'
  BY <1>26 DEF Exit
<1>27. CASE Repoint
  BY <1>27 DEF Repoint
<1>28. CASE UNCHANGED vars
  BY <1>28 DEF vars
<1> QED
  BY <1>1, <1>2, <1>3, <1>4, <1>5, <1>6, <1>7, <1>8, <1>9, <1>10, <1>11, <1>12, <1>13, <1>14, <1>15, <1>16, <1>17, <1>18, <1>19, <1>20, <1>21, <1>22, <1>23, <1>24, <1>25, <1>26, <1>27, <1>28
     DEF Next, TakeLock, WriteUnderLease, Reader, Purge

\* Whatever the path is repointed to, whoever crashes and however the claims
\* of the processes interleave, a connection is writable only while its own
\* process holds the OS lock on the very file it has open.
THEOREM WriterHoldsLockTheorem == Spec => []WriterHoldsLock
<1>1. IInv => WriterHoldsLock
  BY NoFileAssumption
     DEF IInv, TypeOK, HoldsItsLock, WritesUnderLease, WriterHoldsLock, LeasePC
<1> QED
  BY <1>1, InitIInv, StepIInv, PTL DEF Spec

\* The variables keep their types, and no process believes it holds a lease
\* after a try that found the lock held or failed.
THEOREM TypeCorrect == Spec => []TypeOK
<1>1. IInv => TypeOK
  BY DEF IInv
<1> QED
  BY <1>1, InitIInv, StepIInv, PTL DEF Spec

\* A process deletes the index under the lock only while it holds it.
THEOREM PurgeHoldsLockTheorem == Spec => []PurgeHoldsLock
<1>1. IInv => PurgeHoldsLock
  BY DEF IInv, HoldsItsLock, PurgesWhatItLocked, PurgeHoldsLock, LeasePC
<1> QED
  BY <1>1, InitIInv, StepIInv, PTL DEF Spec

(***************************************************************************)
(* What writer.json says of its holder                                     *)
(***************************************************************************)

\* Between the two steps of a release the file does not name the process that
\* releases, unless it could not be removed.
RemovedFirst == \A p \in Proc : pc[p] = "dropped" => json[held[p]] # p \/ leftover[p]

\* InfoNamesHolder alone is not inductive: an unlock would leave a record that
\* nobody holds, were it not removed first.
InfoInv == IInv /\ InfoNamesHolder /\ RemovedFirst /\ PurgeWaitsForSeenHolder

\* A step of p that touches no record and no lock, and neither starts nor
\* resumes a release or a purge without the lock.
Quiet(p) ==
    /\ UNCHANGED <<lock, json, leftover, held, sawBusy>>
    /\ \A q \in Proc \ {p} : pc'[q] = pc[q]
    /\ pc[p] # "done"
    /\ pc'[p] \notin {"dropped", "purgingUnlocked"}

LEMMA QuietKeepsInfo ==
    ASSUME InfoInv, IInv', NEW p \in Proc, Quiet(p)
    PROVE  InfoInv'
BY DEF InfoInv, IInv, TypeOK, Quiet, InfoNamesHolder, RemovedFirst, PurgeWaitsForSeenHolder

\* Most steps are quiet.
LEMMA QuietSteps ==
    ASSUME TypeOK, NEW p \in Proc,
           \/ GiveUp(p) \/ OpenWriter(p) \/ MakeWritable(p) \/ Abandon(p) \/ RecordMeta(p)
           \/ StopWriting(p) \/ KeepLease(p) \/ ClaimKept(p) \/ StartIndex(p) \/ Reader(p)
           \/ StartPurge(p) \/ PurgeFiles(p)
    PROVE  Quiet(p)
<1> USE DEF TypeOK, GoTo, Quiet
<1>1. CASE GiveUp(p)
  BY <1>1 DEF GiveUp, AfterBusy
<1>2. CASE OpenWriter(p) \/ MakeWritable(p) \/ Abandon(p) \/ RecordMeta(p)
  BY <1>2 DEF OpenWriter, MakeWritable, Abandon, RecordMeta
<1>3. CASE StopWriting(p) \/ KeepLease(p) \/ ClaimKept(p) \/ StartIndex(p)
  BY <1>3 DEF StopWriting, KeepLease, ClaimKept, StartIndex
<1>4. CASE Reader(p)
  BY <1>4 DEF Reader, StartReader, OpenReadOnly, NeedMigration, MetaPresent, MetaMissing,
              ClaimAtStart, ClaimForRebuild
<1>5. CASE StartPurge(p)
  BY <1>5 DEF StartPurge
<1>6. CASE PurgeFiles(p)
  BY <1>6 DEF PurgeFiles
<1> QED
  BY <1>1, <1>2, <1>3, <1>4, <1>5, <1>6

LEMMA StepInfo == InfoInv /\ IInv' /\ [Next]_vars => InfoInv'
<1> SUFFICES ASSUME InfoInv, IInv', [Next]_vars PROVE InfoInv'
  OBVIOUS
<1> USE NoProcAssumption, NoFileAssumption
<1> USE DEF InfoInv, IInv, TypeOK, HoldsItsLock, LeasePC, InfoNamesHolder, RemovedFirst,
           PurgeWaitsForSeenHolder, GoTo
<1>1. ASSUME NEW p \in Proc, Acquire(p) PROVE InfoInv'
  BY <1>1 DEF Acquire, LockFree, Asked
<1>2. ASSUME NEW p \in Proc, SeeBusy(p) PROVE InfoInv'
  BY <1>2 DEF SeeBusy
<1>3. ASSUME NEW p \in Proc, LockError(p) PROVE InfoInv'
  BY <1>3 DEF LockError, AfterLockError
<1>4. ASSUME NEW p \in Proc, Publish(p) PROVE InfoInv'
  <2>1. PICK pid \in {p, NoProc, json[held[p]]} : json' = [json EXCEPT ![held[p]] = pid]
    BY <1>4 DEF Publish
  <2>2. lock[held[p]] = p /\ held[p] \in File
    BY <1>4 DEF Publish
  <2> QED
    BY <1>4, <2>1, <2>2 DEF Publish
<1>5. ASSUME NEW p \in Proc, DropFirst(p) PROVE InfoInv'
  <2>1. RemoveInfo(p)
    BY <1>5 DEF DropFirst, DropStep, DropOrder
  <2>2. CASE json' = [json EXCEPT ![held[p]] = NoProc] /\ UNCHANGED leftover
    BY <1>5, <2>1, <2>2 DEF DropFirst, RemoveInfo
  <2>3. CASE leftover' = [leftover EXCEPT ![p] = TRUE] /\ UNCHANGED json
    BY <1>5, <2>1, <2>3 DEF DropFirst, RemoveInfo
  <2> QED
    BY <2>1, <2>2, <2>3 DEF RemoveInfo
<1>6. ASSUME NEW p \in Proc, DropSecond(p) PROVE InfoInv'
  <2>1. Unlock(p)
    BY <1>6 DEF DropSecond, DropStep, DropOrder
  <2> QED
    BY <1>6, <2>1 DEF DropSecond, Unlock, AfterRelease
<1>7. ASSUME NEW p \in Proc, PurgeUnlock(p) PROVE InfoInv'
  BY <1>7 DEF PurgeUnlock
<1>8. ASSUME NEW p \in Proc, Exit(p) PROVE InfoInv'
  BY <1>8 DEF Exit
<1>9. CASE Repoint \/ UNCHANGED vars
  BY <1>9 DEF Repoint, vars
<1> QED
  BY <1>1, <1>2, <1>3, <1>4, <1>5, <1>6, <1>7, <1>8, <1>9, QuietSteps, QuietKeepsInfo
     DEF Next, TakeLock, WriteUnderLease, Purge

LEMMA InfoInvAlways == Spec => []InfoInv
<1>1. Init => InfoInv
  <2>1. Init => InfoNamesHolder /\ RemovedFirst /\ PurgeWaitsForSeenHolder
    BY DEF Init, InfoNamesHolder, RemovedFirst, PurgeWaitsForSeenHolder
  <2> QED
    BY <2>1, InitIInv DEF InfoInv
<1>2. InfoInv => IInv
  BY DEF InfoInv
<1> QED
  BY <1>1, <1>2, StepIInv, StepInfo, PTL DEF Spec

\* Whoever is killed and whatever write or removal of the file fails, a live
\* process that writer.json names holds the lock, or could not remove the file.
THEOREM InfoNamesHolderTheorem == Spec => []InfoNamesHolder
<1>1. InfoInv => InfoNamesHolder
  BY DEF InfoInv
<1> QED
  BY <1>1, InfoInvAlways, PTL

\* A purge that saw a holder deletes nothing without the lock, however its
\* tries and the errors of the lock file alternate.
THEOREM PurgeWaitsTheorem == Spec => []PurgeWaitsForSeenHolder
<1>1. InfoInv => PurgeWaitsForSeenHolder
  BY DEF InfoInv
<1> QED
  BY <1>1, InfoInvAlways, PTL

\* writer.json changes only by the process that holds the lock of its file, and
\* then names that process or nobody: no release removes the next holder's.
THEOREM OnlyHolderTheorem == Spec => OnlyHolderTouchesInfo
<1>1. ASSUME IInv, [Next]_vars, NEW f \in File, json'[f] # json[f]
      PROVE  lock[f] # NoProc /\ json'[f] \in {lock[f], NoProc}
  <2>1. \E p \in Proc : Publish(p) \/ DropFirst(p) \/ DropSecond(p)
    BY <1>1 DEF Next, vars, TakeLock, WriteUnderLease, Reader, Purge, Acquire, SeeBusy, GiveUp,
        LockError, OpenWriter, MakeWritable, Abandon, RecordMeta, StopWriting, KeepLease, ClaimKept,
        StartIndex, StartReader, OpenReadOnly, NeedMigration, MetaPresent, MetaMissing, ClaimAtStart,
        ClaimForRebuild, StartPurge, PurgeFiles, PurgeUnlock, Exit, Repoint
  <2>2. ASSUME NEW p \in Proc, Publish(p) \/ DropFirst(p)
        PROVE  lock[f] # NoProc /\ json'[f] \in {lock[f], NoProc}
    <3>1. pc[p] \in LeasePC /\ held[p] \in File
      BY <1>1, <2>2 DEF Publish, DropFirst, LeasePC, IInv, TypeOK
    <3>2. \E pid \in {p, NoProc, json[held[p]]} : json' = [json EXCEPT ![held[p]] = pid]
      BY <1>1, <2>2 DEF Publish, DropFirst, DropStep, DropOrder, RemoveInfo, IInv, TypeOK
    <3>3. lock[held[p]] = p
      BY <1>1, <3>1 DEF IInv, HoldsItsLock
    <3> QED
      BY <1>1, <3>1, <3>2, <3>3, NoProcAssumption DEF IInv, TypeOK
  <2>3. ASSUME NEW p \in Proc, DropSecond(p) PROVE FALSE
    BY <1>1, <2>3 DEF DropSecond, DropStep, DropOrder, Unlock
  <2> QED
    BY <2>1, <2>2, <2>3
<1>2. IInv /\ [Next]_vars => [\A f \in File : json'[f] # json[f] =>
                                /\ lock[f] # NoProc
                                /\ json'[f] \in {lock[f], NoProc}]_vars
  BY <1>1
<1> QED
  BY <1>2, InitIInv, StepIInv, PTL DEF Spec, OnlyHolderTouchesInfo

(***************************************************************************)
(* The lease implements OneWriter.  A process changes only the file it     *)
(* holds, and a step concerns one process, which keeps its file, or starts *)
(* or stops having one.                                                    *)
(***************************************************************************)
LEMMA ChangesWhatItHolds ==
    ASSUME IInv, NEW p \in Proc, NEW f \in File, Changes(p, f)
    PROVE  held[p] = f /\ lock[f] = p
BY DEF IInv, HoldsItsLock, WritesUnderLease, PurgesWhatItLocked, Changes, LeasePC

OthersStay(p) ==
    \A q \in Proc \ {p} : /\ rw'[q] = rw[q]
                          /\ conn'[q] = conn[q]
                          /\ pc'[q] = pc[q]
                          /\ target'[q] = target[q]

StepOf(p) ==
    /\ OthersStay(p)
    /\ \/ held'[p] = held[p]
       \/ pc[p] = "asking"
       \/ ~rw'[p] /\ pc'[p] \notin {"purging", "purged"}

LEMMA OneProcessSteps ==
    ASSUME IInv, Next
    PROVE  (\E p \in Proc : StepOf(p)) \/ UNCHANGED <<rw, conn, pc, target, held>>
<1> USE DEF IInv, TypeOK, WritesUnderLease, GoTo, StepOf, OthersStay
<1>1. ASSUME NEW p \in Proc, Acquire(p) PROVE StepOf(p)
  BY <1>1 DEF Acquire
<1>2. ASSUME NEW p \in Proc, SeeBusy(p) PROVE StepOf(p)
  BY <1>2 DEF SeeBusy
<1>3. ASSUME NEW p \in Proc, GiveUp(p) PROVE StepOf(p)
  BY <1>3 DEF GiveUp
<1>4. ASSUME NEW p \in Proc, LockError(p) PROVE StepOf(p)
  BY <1>4 DEF LockError
<1>5. ASSUME NEW p \in Proc, Publish(p) PROVE StepOf(p)
  BY <1>5 DEF Publish
<1>6. ASSUME NEW p \in Proc, OpenWriter(p) PROVE StepOf(p)
  BY <1>6 DEF OpenWriter
<1>7. ASSUME NEW p \in Proc, MakeWritable(p) PROVE StepOf(p)
  BY <1>7 DEF MakeWritable
<1>8. ASSUME NEW p \in Proc, Abandon(p) PROVE StepOf(p)
  BY <1>8 DEF Abandon
<1>9. ASSUME NEW p \in Proc, RecordMeta(p) PROVE StepOf(p)
  BY <1>9 DEF RecordMeta
<1>10. ASSUME NEW p \in Proc, StopWriting(p) PROVE StepOf(p)
  BY <1>10 DEF StopWriting
<1>11. ASSUME NEW p \in Proc, KeepLease(p) PROVE StepOf(p)
  BY <1>11 DEF KeepLease
<1>12. ASSUME NEW p \in Proc, ClaimKept(p) PROVE StepOf(p)
  BY <1>12 DEF ClaimKept
<1>13. ASSUME NEW p \in Proc, DropFirst(p) PROVE StepOf(p)
  BY <1>13 DEF DropFirst
<1>14. ASSUME NEW p \in Proc, DropSecond(p) PROVE StepOf(p)
  BY <1>14 DEF DropSecond, AfterRelease
<1>15. ASSUME NEW p \in Proc, StartIndex(p) PROVE StepOf(p)
  BY <1>15 DEF StartIndex
<1>16. ASSUME NEW p \in Proc, StartReader(p) PROVE StepOf(p)
  BY <1>16 DEF StartReader
<1>17. ASSUME NEW p \in Proc, OpenReadOnly(p) PROVE StepOf(p)
  BY <1>17 DEF OpenReadOnly
<1>18. ASSUME NEW p \in Proc, NeedMigration(p) PROVE StepOf(p)
  BY <1>18 DEF NeedMigration
<1>19. ASSUME NEW p \in Proc, MetaPresent(p) PROVE StepOf(p)
  BY <1>19 DEF MetaPresent
<1>20. ASSUME NEW p \in Proc, MetaMissing(p) PROVE StepOf(p)
  BY <1>20 DEF MetaMissing
<1>21. ASSUME NEW p \in Proc, ClaimAtStart(p) PROVE StepOf(p)
  BY <1>21 DEF ClaimAtStart
<1>22. ASSUME NEW p \in Proc, ClaimForRebuild(p) PROVE StepOf(p)
  BY <1>22 DEF ClaimForRebuild
<1>23. ASSUME NEW p \in Proc, StartPurge(p) PROVE StepOf(p)
  BY <1>23 DEF StartPurge
<1>24. ASSUME NEW p \in Proc, PurgeFiles(p) PROVE StepOf(p)
  BY <1>24 DEF PurgeFiles
<1>25. ASSUME NEW p \in Proc, PurgeUnlock(p) PROVE StepOf(p)
  BY <1>25 DEF PurgeUnlock
<1>26. ASSUME NEW p \in Proc, Exit(p) PROVE StepOf(p)
  BY <1>26 DEF Exit
<1>27. CASE Repoint
  BY <1>27 DEF Repoint
<1> QED
  BY <1>1, <1>2, <1>3, <1>4, <1>5, <1>6, <1>7, <1>8, <1>9, <1>10, <1>11, <1>12, <1>13, <1>14, <1>15, <1>16, <1>17, <1>18, <1>19, <1>20, <1>21, <1>22, <1>23, <1>24, <1>25, <1>26, <1>27
     DEF Next, TakeLock, WriteUnderLease, Reader, Purge

LEMMA WritersOf ==
    ASSUME NEW p \in Proc, NEW f \in File
    PROVE  /\ <<p, f>> \in Writers <=> Changes(p, f)
           /\ <<p, f>> \in Writers' <=> Changes(p, f)'
BY DEF Writers, Changes

\* A step of one process begins one write, ends one, or does neither.
LEMMA StepImplements ==
    ASSUME IInv, IInv', NEW p \in Proc, StepOf(p)
    PROVE  W!Next \/ UNCHANGED Writers
<1>1. Writers \subseteq Proc \X File /\ Writers' \subseteq Proc \X File
  BY DEF Writers
<1>2. ASSUME NEW q \in Proc, q # p, NEW f \in File
      PROVE  Changes(q, f)' <=> Changes(q, f)
  BY <1>2 DEF StepOf, OthersStay, Changes
<1>3. ASSUME NEW q \in Proc, NEW f \in File, Changes(q, f)'
      PROVE  held'[q] = f /\ lock'[f] = q
  BY <1>3 DEF IInv, HoldsItsLock, WritesUnderLease, PurgesWhatItLocked, Changes,
              LeasePC
<1>4. ASSUME NEW f \in File, NEW g \in File, Changes(p, f), Changes(p, g)'
      PROVE  f = g
  <2>1. held[p] = f /\ held'[p] = g
    BY <1>3, <1>4, ChangesWhatItHolds
  <2>2. pc[p] # "asking"
    BY <1>4 DEF Changes, IInv, WritesUnderLease
  <2>3. rw'[p] \/ pc'[p] \in {"purging", "purged"}
    BY <1>4 DEF Changes
  <2> QED
    BY <2>1, <2>2, <2>3 DEF StepOf
<1>5. ASSUME NEW f \in File, ~Changes(p, f), Changes(p, f)' PROVE W!Next
  <2>1. ASSUME NEW q \in Proc PROVE <<q, f>> \notin Writers
    <3>1. CASE q = p
      BY <3>1, <1>5, WritersOf
    <3>2. CASE q # p /\ Changes(q, f)
      BY <3>2, <1>2, <1>3, <1>5
    <3> QED
      BY <3>1, <3>2, WritersOf
  <2>2. ASSUME NEW q \in Proc, NEW g \in File, <<q, g>> # <<p, f>>
        PROVE  <<q, g>> \in Writers' <=> <<q, g>> \in Writers
    <3>1. CASE q # p
      BY <3>1, <1>2, WritersOf
    <3>2. CASE q = p /\ g # f
      <4>1. ~Changes(p, g)'
        BY <3>2, <1>3, <1>5
      <4>2. ~Changes(p, g)
        BY <3>2, <1>4, <1>5
      <4> QED
        BY <3>2, <4>1, <4>2, WritersOf
    <3> QED
      BY <2>2, <3>1, <3>2
  <2>3. <<p, f>> \in Writers'
    BY <1>5, WritersOf
  <2>4. Writers' = Writers \cup {<<p, f>>}
    BY <1>1, <2>2, <2>3
  <2>5. W!Begin(p, f)
    BY <2>1, <2>4 DEF W!Begin
  <2> QED
    BY <2>5 DEF W!Next
<1>6. ASSUME NEW f \in File, Changes(p, f), ~Changes(p, f)' PROVE W!Next
  <2>1. ASSUME NEW q \in Proc, NEW g \in File, <<q, g>> # <<p, f>>
        PROVE  <<q, g>> \in Writers' <=> <<q, g>> \in Writers
    <3>1. CASE q # p
      BY <3>1, <1>2, WritersOf
    <3>2. CASE q = p /\ g # f
      <4>1. ~Changes(p, g)'
        BY <3>2, <1>4, <1>6
      <4>2. ~Changes(p, g)
        BY <3>2, <1>6, ChangesWhatItHolds
      <4> QED
        BY <3>2, <4>1, <4>2, WritersOf
    <3> QED
      BY <2>1, <3>1, <3>2
  <2>2. <<p, f>> \in Writers /\ <<p, f>> \notin Writers'
    BY <1>6, WritersOf
  <2>3. Writers' = Writers \ {<<p, f>>}
    BY <1>1, <2>1, <2>2
  <2>4. W!End(p, f)
    BY <2>2, <2>3 DEF W!End
  <2> QED
    BY <2>4 DEF W!Next
<1>7. ASSUME \A f \in File : Changes(p, f)' <=> Changes(p, f)
      PROVE  UNCHANGED Writers
  <2>1. ASSUME NEW q \in Proc, NEW g \in File
        PROVE  <<q, g>> \in Writers' <=> <<q, g>> \in Writers
    BY <1>2, <1>7, WritersOf
  <2> QED
    BY <1>1, <2>1
<1> QED
  BY <1>5, <1>6, <1>7

\* At most one process changes an index file at a time: the processes and the
\* lease they take implement OneWriter, for any number of either.
THEOREM ImplementsOneWriterTheorem == Spec => ImplementsOneWriter
<1>1. Init => W!Init
  BY DEF Init, W!Init, Writers, Changes
<1>2. IInv /\ IInv' /\ [Next]_vars => [W!Next]_Writers
  <2>1. CASE UNCHANGED <<rw, conn, pc, target, held>>
    BY <2>1 DEF Writers, Changes
  <2>2. CASE UNCHANGED vars
    BY <2>1, <2>2 DEF vars
  <2> QED
    BY <2>1, <2>2, OneProcessSteps, StepImplements
<1> QED
  BY <1>1, <1>2, InitIInv, StepIInv, PTL DEF Spec, W!Spec, ImplementsOneWriter
==============================================================================
