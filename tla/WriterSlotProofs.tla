--------------------------- MODULE WriterSlotProofs ---------------------------
(***************************************************************************)
(* For any number of rebuild_index requests and claims, and any of the     *)
(* failures:                                                               *)
(*   - the shared connection is writable only while the server holds the   *)
(*     writer lease (IInv);                                                *)
(*   - a rebuild and a batch of the watcher keep the lease, the mark and   *)
(*     the writable connection they started with; no mark is left behind;  *)
(*     and writer.json and the notice of a stopped watcher follow the      *)
(*     watcher's claim (SlotInv).                                          *)
(***************************************************************************)
EXTENDS WriterSlot, TLAPS

\* The database mutex has one holder, and each thread that acts under it is it.
DbHeld ==
    /\ \A t \in Claims : pc[t] \in DbPC => dbGuard = t
    /\ settler \in {"locked", "settled"} => dbGuard = "settler"
    /\ main \in {"locked", "shut"} => dbGuard = "main"

\* Between its look at the slot and its switch of query_only, a thread relies on
\* the lease staying: only a holder of the database mutex drops it.
SqlHasLease == \A t \in Claims : pc[t] \in {"sql", "sqlMeta"} => lease # "none"

\* query_only stays on between the two steps of abandon.
UndoneReadOnly == \A t \in Claims : pc[t] = "undone" => queryOnly

\* The inductive invariant.  WritableNeedsLease alone is not one: another thread
\* could drop the lease just before a thread turns query_only off.
IInv == /\ TypeOK
        /\ DbHeld
        /\ SqlHasLease
        /\ UndoneReadOnly
        /\ WritableNeedsLease

(***************************************************************************)
(* What the parts of a critical section do                                 *)
(***************************************************************************)

LEMMA RecordType ==
    ASSUME TypeOK
    PROVE  /\ UNCHANGED jsonVars => json' \in Json /\ overdue' \in BOOLEAN
           /\ Remove => json' \in Json /\ overdue' \in BOOLEAN
           /\ \A record \in Json : Written(record) => json' \in Json /\ overdue' \in BOOLEAN
<1>1. json \in Json /\ overdue \in BOOLEAN
  BY DEF TypeOK
<1>2. NoJson \in Json
  BY DEF Json
<1>3. \A record \in Json : Written(record) => json' \in Json /\ overdue' \in BOOLEAN
  BY DEF Written
<1> QED
  BY <1>1, <1>2, <1>3 DEF Remove, jsonVars

LEMMA PublishType ==
    ASSUME TypeOK, NEW role \in Role, NEW watching \in Watching, Publish(role, watching)
    PROVE  json' \in Json /\ overdue' \in BOOLEAN
<1>1. [role |-> role, watching |-> watching] \in Json
  BY DEF Json
<1> QED
  BY <1>1, RecordType DEF Publish

LEMMA RoleOfType == ASSUME NEW m PROVE RoleOf(m) \in Role
BY DEF RoleOf, Role

LEMMA SyncRoleEffect ==
    ASSUME TypeOK, SyncRole
    PROVE  /\ lease' \in Role \cup {"none"}
           /\ lease' = "none" <=> lease = "none"
           /\ json' \in Json /\ overdue' \in BOOLEAN
<1>1. CASE UNCHANGED <<lease, jsonVars>>
  BY <1>1 DEF TypeOK, jsonVars
<1>2. CASE /\ lease # "none"
           /\ lease' = RoleOf(mark')
           /\ Publish(RoleOf(mark'), said)
  BY <1>2, RoleOfType, PublishType DEF TypeOK, Role
<1> QED
  BY <1>1, <1>2 DEF SyncRole

LEMMA LowerType ==
    ASSUME TypeOK, NEW claims, Lower(claims)
    PROVE  /\ mark' \in [Claimant -> 0..MaxClaims]
           /\ stopped' \in {"no", "error", "noError"}
           /\ watcherExit' \in 0..MaxClaims
<1> DEFINE lowered == {c \in Claimant : <<c, mark[c]>> \in claims}
<1>1. mark' = [c \in Claimant |-> IF c \in lowered THEN 0 ELSE mark[c]]
  BY DEF Lower
<1>2. mark' \in [Claimant -> 0..MaxClaims]
  BY <1>1, MaxClaimsAssumption DEF TypeOK
<1>3. CASE RecordsStop(lowered)
  BY <1>2, <1>3, MaxClaimsAssumption DEF Lower
<1>4. CASE ~RecordsStop(lowered)
  BY <1>2, <1>4 DEF Lower, TypeOK
<1> QED
  BY <1>3, <1>4

\* The lease goes only with query_only on.
LEMMA ReleaseIfUnmarkedEffect ==
    ASSUME TypeOK, WritableNeedsLease, ReleaseIfUnmarked
    PROVE  /\ lease' \in Role \cup {"none"}
           /\ json' \in Json /\ overdue' \in BOOLEAN
           /\ queryOnly' \in BOOLEAN
           /\ kept' \in BOOLEAN
           /\ WritableNeedsLease'
           /\ queryOnly => queryOnly'
<1>1. CASE SyncRole /\ UNCHANGED <<queryOnly, kept>>
  BY <1>1, SyncRoleEffect DEF TypeOK, WritableNeedsLease
<1>2. CASE TurnOnAndDrop
  BY <1>2, RecordType DEF TypeOK, WritableNeedsLease, TurnOnAndDrop, DropLease, KeepLease
<1> QED
  BY <1>1, <1>2 DEF ReleaseIfUnmarked

LEMMA ReleaseClaimsEffect ==
    ASSUME TypeOK, WritableNeedsLease, NEW claims, ReleaseClaims(claims)
    PROVE  /\ lease' \in Role \cup {"none"}
           /\ json' \in Json /\ overdue' \in BOOLEAN
           /\ queryOnly' \in BOOLEAN
           /\ kept' \in BOOLEAN
           /\ mark' \in [Claimant -> 0..MaxClaims]
           /\ stopped' \in {"no", "error", "noError"}
           /\ watcherExit' \in 0..MaxClaims
           /\ held' = (lease' # "none")
           /\ WritableNeedsLease'
           /\ queryOnly => queryOnly'
           /\ UNCHANGED <<said, nextGen, metaUnchecked, closed, reader, watchError,
                          watchReported>>
<1>1. Lower(claims) /\ SyncHeld
  BY DEF ReleaseClaims
<1>2. CASE mark' # mark
  BY <1>1, <1>2, LowerType, ReleaseIfUnmarkedEffect DEF ReleaseClaims, SyncHeld
<1>3. CASE mark' = mark
  BY <1>1, <1>3, LowerType DEF ReleaseClaims, SyncHeld, TypeOK, WritableNeedsLease, jsonVars
<1> QED
  BY <1>2, <1>3

LEMMA TakeClaimEffect ==
    ASSUME TypeOK, WritableNeedsLease, NEW t \in Claims, TakeClaim(t)
    PROVE  TypeOK' /\ WritableNeedsLease' /\ (lease # "none" => lease' # "none")
<1>1. /\ lease' \in Role \cup {"none"}
      /\ lease' # "none"
      /\ json' \in Json /\ overdue' \in BOOLEAN
      /\ said' \in Watching
      /\ metaUnchecked' \in BOOLEAN
  <2>1. CASE lease = "none"
    BY <2>1, RoleOfType, PublishType DEF TakeClaim, LeaseForClaim, Role, Watching
  <2>2. CASE lease # "none"
    BY <2>2, SyncRoleEffect DEF TakeClaim, LeaseForClaim, TypeOK
  <2> QED
    BY <2>1, <2>2
<1>2. /\ nextGen' \in 0..MaxClaims
      /\ mark' \in [Claimant -> 0..MaxClaims]
      /\ gen' \in [Claims -> 0..MaxClaims]
  BY MaxClaimsAssumption DEF TakeClaim, TypeOK, Who, Claimant
<1>3. pc' \in [Claims -> PC]
  BY DEF TakeClaim, TypeOK, GoTo, PC
<1> QED
  BY <1>1, <1>2, <1>3
     DEF TakeClaim, TypeOK, SyncHeld, dbVars, WritableNeedsLease

LEMMA TouchType ==
    ASSUME TypeOK, lease # "none", NEW watching \in Watching, TouchHeartbeat(watching)
    PROVE  json' \in Json /\ overdue' \in BOOLEAN /\ said' \in Watching
<1>1. [role |-> lease, watching |-> watching] \in Json
  BY DEF TypeOK, Json
<1> QED
  BY <1>1, RecordType DEF TouchHeartbeat

LEMMA WatchingNowType ==
    ASSUME NEW reported, NEW error PROVE WatchingNow(reported, error) \in Watching
BY DEF WatchingNow, Watching

LEMMA ReleaseEffect ==
    ASSUME IInv, NEW t \in Claims, pc[t] \in DbPC, Release(t)
    PROVE  IInv'
<1>1. dbGuard = t
  BY DEF IInv, DbHeld
<1>2. ReleaseClaims({Claim(t)})
  BY DEF Release
<1>3. TypeOK'
  BY <1>2, ReleaseClaimsEffect DEF IInv, Release, TypeOK, GoTo, PC
<1>4. DbHeld'
  BY <1>1 DEF IInv, Release, TypeOK, GoTo, DbHeld, DbPC
<1>5. SqlHasLease' /\ UndoneReadOnly'
  BY <1>1, ThreadAssumption DEF IInv, Release, TypeOK, GoTo, DbHeld, DbPC, SqlHasLease,
              UndoneReadOnly
<1>6. WritableNeedsLease'
  BY <1>2, ReleaseClaimsEffect DEF IInv
<1> QED
  BY <1>3, <1>4, <1>5, <1>6 DEF IInv

(***************************************************************************)
(* Every step keeps the invariant                                          *)
(***************************************************************************)

LEMMA InitIInv == Init => IInv
<1> SUFFICES ASSUME Init PROVE IInv
  OBVIOUS
<1>1. 0 \in 0..MaxClaims
  BY MaxClaimsAssumption
<1>2. TypeOK
  BY <1>1 DEF Init, TypeOK, Watching, Json, PC, Main
<1>3. DbHeld /\ SqlHasLease /\ UndoneReadOnly /\ WritableNeedsLease
  BY DEF Init, DbHeld, SqlHasLease, UndoneReadOnly, WritableNeedsLease, DbPC
<1> QED
  BY <1>2, <1>3 DEF IInv

LEMMA MakeWritableKeeps ==
    ASSUME IInv, NEW t \in Claims, MakeWritable(t)
    PROVE  IInv'
<1> USE MaxClaimsAssumption, ThreadAssumption
<1> USE DEF IInv, TypeOK, DbHeld, SqlHasLease, UndoneReadOnly, WritableNeedsLease,
           innerVars, jsonVars, dbVars, threadVars, GoTo, PC, DbPC, Main
<1>1. CASE LockDb(t)
  BY <1>1 DEF LockDb
<1>2. CASE Check(t)
  BY <1>2 DEF Check, AfterCheck
<1>3. CASE TurnOff(t)
  <2>1. dbGuard = t /\ lease # "none" /\ pc[t] \in {"sql", "sqlMeta"}
    BY <1>3 DEF TurnOff
  <2>2. \E label \in {"meta", "writing", "context"} : GoTo(t, label)
    BY <1>3 DEF TurnOff, AfterWritable
  <2>3. queryOnly' \in BOOLEAN
    BY <1>3 DEF TurnOff, TurnsOff
  <2>4. UNCHANGED <<innerVars, jsonVars, foreign, dbGuard, gen, slotTaken, settler, main,
                   ended, kept>>
    BY <1>3 DEF TurnOff
  <2> QED
    BY <2>1, <2>2, <2>3, <2>4
<1>4. CASE CannotTurnOff(t)
  BY <1>4 DEF CannotTurnOff
<1>5. CASE MetaMatches(t)
  <2>1. pc[t] = "meta" /\ metaUnchecked' \in BOOLEAN
    BY <1>5 DEF MetaMatches
  <2>2. \E label \in {"writing", "context"} : GoTo(t, label)
    BY <1>5 DEF MetaMatches, AfterWritable
  <2>3. UNCHANGED <<lease, said, mark, nextGen, pending, closed, reader, watchError,
                   watchReported, watcherExit, stopped, held, jsonVars, foreign, dbVars,
                   gen, slotTaken, settler, main, ended, kept>>
    BY <1>5 DEF MetaMatches
  <2> QED
    BY <2>1, <2>2, <2>3
<1>6. CASE MetaDiffers(t)
  BY <1>6 DEF MetaDiffers
<1>7. CASE Undo(t)
  <2>1. dbGuard = t /\ pc[t] = "undo"
    BY <1>7 DEF Undo
  <2>2. UNCHANGED <<innerVars, jsonVars, foreign, dbGuard, gen, slotTaken, settler, main,
                   ended, kept>>
    BY <1>7 DEF Undo
  <2>3. CASE queryOnly' = TRUE /\ GoTo(t, "undone")
    BY <2>1, <2>2, <2>3
  <2>4. CASE UNCHANGED queryOnly /\ GoTo(t, "notUndone")
    BY <2>1, <2>2, <2>4
  <2> QED
    BY <1>7, <2>3, <2>4 DEF Undo
<1>8. CASE Abandon(t)
  <2>1. dbGuard = t
    BY <1>8 DEF Abandon
  <2>2. /\ mark' \in [Claimant -> 0..MaxClaims]
        /\ stopped' \in {"no", "error", "noError"}
        /\ watcherExit' \in 0..MaxClaims
    BY <1>8, LowerType DEF Abandon
  <2>3. /\ lease' \in Role \cup {"none"}
        /\ json' \in Json /\ overdue' \in BOOLEAN
        /\ kept' \in BOOLEAN
        /\ lease' # "none" \/ queryOnly \/ lease = "none"
    <3>1. CASE DropLease /\ pc[t] = "undone"
      BY <3>1, RecordType DEF DropLease
    <3>2. CASE KeepLease
      BY <3>2 DEF KeepLease
    <3>3. CASE SyncRole /\ UNCHANGED kept
      BY <3>3, SyncRoleEffect
    <3> QED
      BY <1>8, <3>1, <3>2, <3>3 DEF Abandon
  <2>4. held' = (lease' # "none")
    BY <1>8 DEF Abandon, SyncHeld
  <2> QED
    BY <1>8, <2>1, <2>2, <2>3, <2>4 DEF Abandon
<1> QED
  BY <1>1, <1>2, <1>3, <1>4, <1>5, <1>6, <1>7, <1>8 DEF MakeWritable

LEMMA GuardKeeps ==
    ASSUME IInv, NEW t \in Claims, UnlockDb(t) \/ Unwind(t) \/ QueueClaim(t)
    PROVE  IInv'
<1> USE MaxClaimsAssumption, ThreadAssumption
<1> USE DEF IInv, TypeOK, DbHeld, SqlHasLease, UndoneReadOnly, WritableNeedsLease,
           innerVars, jsonVars, dbVars, threadVars, GoTo, PC, DbPC, Main
<1>1. CASE UnlockDb(t)
  BY <1>1 DEF UnlockDb
<1>2. CASE Unwind(t)
  BY <1>2 DEF Unwind
<1>3. CASE QueueClaim(t)
  <2>1. Claim(t) \in Claimant \X (0..MaxClaims)
    BY DEF Claim, Who, Claimant
  <2>2. pending' \subseteq Claimant \X (0..MaxClaims)
    BY <1>3, <2>1 DEF QueueClaim, QueuedBy
  <2> QED
    BY <1>3, <2>2 DEF QueueClaim
<1> QED
  BY <1>1, <1>2, <1>3 DEF Claims

LEMMA RebuildKeeps ==
    ASSUME IInv, NEW t \in Rebuilder, Rebuild(t)
    PROVE  IInv'
<1> USE MaxClaimsAssumption, ThreadAssumption
<1> USE DEF IInv, TypeOK, DbHeld, SqlHasLease, UndoneReadOnly, WritableNeedsLease,
           innerVars, jsonVars, dbVars, threadVars, GoTo, PC, DbPC, Main
<1>1. CASE RequestRebuild(t)
  BY <1>1 DEF RequestRebuild, Claims
<1>2. CASE ClaimForRebuild(t)
  <2>1. TakeClaim(t)
    BY <1>2 DEF ClaimForRebuild
  <2>2. TypeOK' /\ WritableNeedsLease' /\ (lease # "none" => lease' # "none")
    BY <2>1, TakeClaimEffect DEF Claims
  <2> QED
    BY <2>1, <2>2 DEF TakeClaim
<1>3. CASE RefuseRebuild(t)
  BY <1>3 DEF RefuseRebuild, Claims
<1>4. CASE MakeWritable(t)
  BY <1>4, MakeWritableKeeps DEF Claims
<1>5. CASE EndRebuild(t)
  BY <1>5, ReleaseEffect DEF EndRebuild, Claims
<1>6. CASE PanicInRebuild(t)
  BY <1>6 DEF PanicInRebuild, MakingWritable, Claims
<1>7. CASE FreeSlot(t)
  <2>1. pc' = [pc EXCEPT ![t] = "idle"]
    BY <1>7 DEF FreeSlot
  <2>2. slotTaken' \in BOOLEAN
    BY <1>7 DEF FreeSlot
  <2>3. UNCHANGED <<innerVars, jsonVars, foreign, dbVars, gen, settler, main, ended, kept>>
    BY <1>7 DEF FreeSlot
  <2> QED
    BY <2>1, <2>2, <2>3 DEF Claims
<1>8. CASE UnlockDb(t)
  BY <1>8, GuardKeeps DEF Claims
<1>9. CASE Unwind(t)
  BY <1>9, GuardKeeps DEF Claims
<1>10. CASE QueueClaim(t)
  BY <1>10, GuardKeeps DEF Claims
<1> QED
  BY <1>1, <1>2, <1>3, <1>4, <1>5, <1>6, <1>7, <1>8, <1>9, <1>10 DEF Rebuild

LEMMA StartKeeps ==
    ASSUME IInv, Start
    PROVE  IInv'
<1> USE MaxClaimsAssumption, ThreadAssumption
<1> USE DEF IInv, TypeOK, DbHeld, SqlHasLease, UndoneReadOnly, WritableNeedsLease,
           innerVars, jsonVars, dbVars, threadVars, GoTo, PC, DbPC, Main
<1>1. CASE ClaimAtStart
  <2>1. TakeClaim(Watcher)
    BY <1>1 DEF ClaimAtStart
  <2>2. TypeOK' /\ WritableNeedsLease' /\ (lease # "none" => lease' # "none")
    BY <2>1, TakeClaimEffect DEF Claims
  <2> QED
    BY <2>1, <2>2 DEF TakeClaim, Claims
<1>2. CASE BecomeReader
  BY <1>2 DEF BecomeReader
<1>3. CASE StartWithoutWatch
  BY <1>3 DEF StartWithoutWatch
<1>4. CASE MakeWritable(Watcher)
  BY <1>4, MakeWritableKeeps DEF Claims
<1>5. CASE ResolveContext
  BY <1>5 DEF ResolveContext, Claims
<1>6. CASE ContextFails
  BY <1>6, ReleaseEffect DEF ContextFails, Claims
<1>7. CASE StartServing
  BY <1>7 DEF StartServing, Claims
<1> QED
  BY <1>1, <1>2, <1>3, <1>4, <1>5, <1>6, <1>7 DEF Start

LEMMA WatcherKeeps ==
    ASSUME IInv, WatcherTask
    PROVE  IInv'
<1> USE MaxClaimsAssumption, ThreadAssumption
<1> USE DEF IInv, TypeOK, DbHeld, SqlHasLease, UndoneReadOnly, WritableNeedsLease,
           innerVars, jsonVars, dbVars, threadVars, GoTo, PC, DbPC, Main
<1>1. CASE BeginBatch
  BY <1>1 DEF BeginBatch, WatcherGoes, Claims
<1>2. CASE LockForBatch
  BY <1>2 DEF LockForBatch, WatcherGoes, Claims
<1>3. CASE UnlockInBatch
  BY <1>3 DEF UnlockInBatch, WatcherGoes, Claims
<1>4. CASE EndBatch
  BY <1>4 DEF EndBatch, WatcherGoes, Claims
<1>5. CASE PanicInBatch
  BY <1>5 DEF PanicInBatch, WatcherGoes, Claims
<1>6. CASE LeaveLoop
  BY <1>6 DEF LeaveLoop, WatcherGoes, Claims
<1>7. CASE PanicInTask
  BY <1>7 DEF PanicInTask, WatcherGoes, Claims
<1>8. CASE LockToEnd
  BY <1>8 DEF LockToEnd, WatcherGoes, Claims
<1>9. CASE PanicInEnd
  BY <1>9 DEF PanicInEnd, WatcherGoes, Claims
<1>10. CASE RecordExit
  BY <1>10 DEF RecordExit, Claims
<1>11. CASE EndWatcher
  BY <1>11, ReleaseEffect DEF EndWatcher, Claims
<1>12. CASE UnlockDb(Watcher)
  BY <1>12, GuardKeeps DEF Claims
<1>13. CASE Unwind(Watcher)
  BY <1>13, GuardKeeps DEF Claims
<1>14. CASE QueueClaim(Watcher)
  BY <1>14, GuardKeeps DEF Claims
<1> QED
  BY <1>1, <1>2, <1>3, <1>4, <1>5, <1>6, <1>7, <1>8, <1>9, <1>10, <1>11, <1>12, <1>13, <1>14 DEF WatcherTask

LEMMA JanitorKeeps ==
    ASSUME IInv, (\E error \in BOOLEAN : SetWatchError(error)) \/ Heartbeat \/ Settle
    PROVE  IInv'
<1> USE MaxClaimsAssumption, ThreadAssumption
<1> USE DEF IInv, TypeOK, DbHeld, SqlHasLease, UndoneReadOnly, WritableNeedsLease,
           innerVars, jsonVars, dbVars, threadVars, GoTo, PC, DbPC, Main
<1>1. CASE \E error \in BOOLEAN : SetWatchError(error)
  <2>1. PICK error \in BOOLEAN : SetWatchError(error)
    BY <1>1
  <2>2. json' \in Json /\ overdue' \in BOOLEAN /\ said' \in Watching
    <3> DEFINE now == WatchingNow(watchReported', error)
    <3>1. CASE lease # "none" /\ TouchHeartbeat(now)
      BY <3>1, TouchType, WatchingNowType
    <3>2. CASE UNCHANGED <<said, jsonVars>>
      BY <3>2
    <3> QED
      BY <2>1, <3>1, <3>2 DEF SetWatchError
  <2>3. watchReported' \in BOOLEAN /\ watchError' \in BOOLEAN
    BY <2>1 DEF SetWatchError
  <2>4. UNCHANGED <<lease, mark, nextGen, metaUnchecked, pending, closed, reader,
                   watcherExit, stopped, held, foreign, dbVars, threadVars, kept>>
    BY <2>1 DEF SetWatchError
  <2> QED
    BY <2>2, <2>3, <2>4
<1>2. CASE Heartbeat
  <2>1. json' \in Json /\ overdue' \in BOOLEAN /\ said' \in Watching
    BY <1>2, TouchType, WatchingNowType DEF Heartbeat
  <2> QED
    BY <1>2, <2>1 DEF Heartbeat
<1>3. CASE StartSettle
  BY <1>3 DEF StartSettle, SettlerGoes
<1>4. CASE LockToSettle
  BY <1>4 DEF LockToSettle, SettlerGoes
<1>5. CASE SettlePending
  <2>1. dbGuard = "settler"
    BY <1>5 DEF SettlePending, SettlerGoes
  <2>2. ReleaseClaims(pending)
    BY <1>5 DEF SettlePending
  <2>3. TypeOK'
    BY <1>5, <2>2, ReleaseClaimsEffect DEF SettlePending, SettlerGoes
  <2>4. WritableNeedsLease'
    BY <2>2, ReleaseClaimsEffect
  <2>5. DbHeld' /\ SqlHasLease' /\ UndoneReadOnly'
    BY <1>5, <2>1 DEF SettlePending, SettlerGoes
  <2> QED
    BY <2>3, <2>4, <2>5
<1>6. CASE EndSettle
  BY <1>6 DEF EndSettle, SettlerGoes
<1> QED
  BY <1>1, <1>2, <1>3, <1>4, <1>5, <1>6 DEF Settle

LEMMA ShutDownKeeps ==
    ASSUME IInv, ShutDown
    PROVE  IInv'
<1> USE MaxClaimsAssumption, ThreadAssumption
<1> USE DEF IInv, TypeOK, DbHeld, SqlHasLease, UndoneReadOnly, WritableNeedsLease,
           innerVars, jsonVars, dbVars, threadVars, GoTo, PC, DbPC, Main
<1>1. CASE BeginShutdown
  BY <1>1 DEF BeginShutdown
<1>2. CASE StopTasks
  BY <1>2 DEF StopTasks, MainGoes
<1>3. CASE AwaitWatcher
  BY <1>3 DEF AwaitWatcher, MainGoes
<1>4. CASE LockToShutDown
  BY <1>4 DEF LockToShutDown, MainGoes
<1>5. CASE Shutdown
  <2>1. dbGuard = "main"
    BY <1>5 DEF Shutdown, MainGoes
  <2>2. mark' \in [Claimant -> 0..MaxClaims]
    BY <1>5 DEF Shutdown
  <2>3. /\ lease' \in Role \cup {"none"}
        /\ json' \in Json /\ overdue' \in BOOLEAN
        /\ queryOnly' \in BOOLEAN
        /\ kept' \in BOOLEAN
        /\ WritableNeedsLease'
    BY <1>5, ReleaseIfUnmarkedEffect DEF Shutdown
  <2>4. TypeOK'
    BY <1>5, <2>2, <2>3 DEF Shutdown, MainGoes, SyncHeld
  <2>5. DbHeld' /\ SqlHasLease' /\ UndoneReadOnly'
    BY <1>5, <2>1 DEF Shutdown, MainGoes
  <2> QED
    BY <2>3, <2>4, <2>5
<1>6. CASE EndShutdown
  BY <1>6 DEF EndShutdown, MainGoes, Claims
<1> QED
  BY <1>1, <1>2, <1>3, <1>4, <1>5, <1>6 DEF ShutDown

LEMMA StepIInv == IInv /\ [Next]_vars => IInv'
<1> SUFFICES ASSUME IInv, [Next]_vars PROVE IInv'
  OBVIOUS
<1>1. CASE Foreign
  <2>1. json' \in Json /\ overdue' \in BOOLEAN
    BY <1>1, RecordType DEF Foreign, IInv, Json
  <2> QED
    BY <1>1, <2>1 DEF Foreign, IInv, TypeOK, DbHeld, SqlHasLease, UndoneReadOnly,
              WritableNeedsLease, innerVars, jsonVars, dbVars, threadVars
<1>2. CASE UNCHANGED vars
  BY <1>2 DEF vars, IInv, TypeOK, DbHeld, SqlHasLease, UndoneReadOnly,
              WritableNeedsLease, innerVars, jsonVars, dbVars, threadVars
<1> QED
  BY <1>1, <1>2, RebuildKeeps, StartKeeps, WatcherKeeps, JanitorKeeps, ShutDownKeeps
     DEF Next

\* The variables keep their types, and the status copy of the lease is right.
THEOREM TypeCorrect == Spec => []TypeOK
<1>1. IInv => TypeOK
  BY DEF IInv
<1> QED
  BY <1>1, InitIInv, StepIInv, PTL DEF Spec

\* However many rebuilds, panics, settles and failures meet, and whenever the
\* server shuts down, the connection is never writable without the lease.
THEOREM WritableNeedsLeaseTheorem == Spec => []WritableNeedsLease
<1>1. IInv => WritableNeedsLease
  BY DEF IInv
<1> QED
  BY <1>1, InitIInv, StepIInv, PTL DEF Spec

(***************************************************************************)
(* Claims, marks and the rebuild slot                                      *)
(***************************************************************************)

\* One rebuild runs at a time, under the rebuild slot.
OneRebuild ==
    /\ \A t \in Rebuilder : pc[t] # "idle" => slotTaken
    /\ \A s, t \in Rebuilder : pc[s] # "idle" /\ pc[t] # "idle" => s = t

Closing == {"begun", "stopping", "joined", "locked", "shut", "done"}

\* The watcher's thread in its start, and with its claim at work in the task.
Starting == {"claimed", "checking", "sql", "sqlMeta", "meta", "undo", "undone", "notUndone", "context"}
Working == {"watching", "batch", "batchDb", "ending", "endDb", "endRelease", "unwinding", "queueing"}

\* Shutdown is over the slot from its beginning, and over the watcher's task
\* before it takes the database.
MainInOrder ==
    /\ closed <=> main \in Closing
    /\ pc[Watcher] \in Starting => main = "claiming"
    /\ ~WatcherOver => main \notin {"joined", "locked", "shut", "done"}

\* A claim has a number.
GuardsNumbered == \A t \in Claims : HoldsGuard(t) => gen[t] # 0

\* What make_writable looked at and did stays so until the mutex is let go.
MadeWritable ==
    \A t \in Claims :
        /\ pc[t] \in {"sql", "sqlMeta", "meta", "writing", "context"} =>
              lease # "none" /\ mark[Who(t)] = gen[t]
        /\ pc[t] \in {"meta", "writing", "context"} => ~queryOnly
        /\ pc[t] \in {"sql", "writing", "context"} => ~metaUnchecked

\* The watcher's claim is up from its start to the end of its task.
WatcherClaims ==
    pc[Watcher] \in Working \/ (pc[Watcher] = "loading" /\ main \notin {"shut", "done"}) =>
        lease # "none" /\ mark["watcher"] = gen[Watcher]

\* A queued claim of the watcher is that of a task that panicked.
QueuedIsOver ==
    \A g \in 0..MaxClaims :
        <<"watcher", g>> \in pending => g # 0 /\ pc[Watcher] = "gone" /\ ended = "panic"

\* How the watcher's task ended is known until its claim is released.
EndKnown ==
    /\ pc[Watcher] \in {"unwinding", "queueing"} => ended = "panic"
    /\ pc[Watcher] \in {"ending", "endDb", "endRelease"} => ended \in {"ok", "error"}
    /\ pc[Watcher] \in Starting \cup {"idle", "loading", "watching", "batch", "batchDb"} => ended = "no"
    /\ ~closed => watcherExit = IF pc[Watcher] = "endRelease" /\ ended = "error" THEN gen[Watcher] ELSE 0

\* ... and recorded when it is.
StopKnown ==
    ~closed /\ pc[Watcher] \in {"released", "gone"} /\ ended # "no" /\ mark["watcher"] = 0 =>
        stopped = IF ended = "error" THEN "error" ELSE "noError"

\* The inductive invariant of the claims: IInv says who may act at the database,
\* SlotInv what each thread knows of its claim there.
ThreadsInOrder == OneRebuild /\ MainInOrder /\ GuardsNumbered
ClaimsInOrder == MadeWritable /\ MarksOwned
WatcherInOrder == WatcherClaims /\ QueuedIsOver /\ EndKnown /\ StopKnown
LeaseInOrder == LeaseHasReason /\ JsonFollowsWatcher

SlotInv == IInv /\ ThreadsInOrder /\ ClaimsInOrder /\ WatcherInOrder /\ LeaseInOrder

(***************************************************************************)
(* The lease and its record follow the marks                               *)
(***************************************************************************)

LEMMA RoleOfMarks ==
    ASSUME NEW m \in [Claimant -> 0..MaxClaims]
    PROVE  RoleOf(m) = "serve" => m["watcher"] # 0
BY DEF RoleOf

\* Some mark is still up, or the lease has gone, or is kept for its pragma.
LEMMA SyncKeepsOrder ==
    ASSUME TypeOK, LeaseInOrder, SyncRole, UNCHANGED kept,
           mark' \in [Claimant -> 0..MaxClaims], NoMarks(mark') => lease = "none"
    PROVE  LeaseInOrder' /\ (lease' = "none" <=> lease = "none")
<1>1. CASE UNCHANGED <<lease, jsonVars>> /\ lease # "none"
  <2>1. lease = RoleOf(mark') /\ ~NoMarks(mark')
    <3>1. ~NoMarks(mark')
      BY <1>1
    <3>2. lease' # RoleOf(mark') => ~(lease' = RoleOf(mark'))
      OBVIOUS
    <3> QED
      BY <1>1, <3>1 DEF SyncRole
  <2> QED
    BY <1>1, <2>1, RoleOfMarks DEF LeaseInOrder, LeaseHasReason, JsonFollowsWatcher, jsonVars
<1>2. CASE UNCHANGED <<lease, jsonVars>> /\ lease = "none"
  BY <1>2 DEF LeaseInOrder, LeaseHasReason, JsonFollowsWatcher, jsonVars, TypeOK, Json, NoJson, Role
<1>3. CASE lease # "none" /\ ~NoMarks(mark') /\ lease' = RoleOf(mark') /\ Publish(RoleOf(mark'), said)
  <2>1. RoleOf(mark') \in Role /\ (RoleOf(mark') = "serve" => mark'["watcher"] # 0)
    BY RoleOfType, RoleOfMarks
  <2>2. overdue' \/ json' = NoJson \/ json' = [role |-> RoleOf(mark'), watching |-> said]
    BY <1>3 DEF Publish, Remove, Written
  <2> QED
    BY <1>3, <2>1, <2>2 DEF LeaseInOrder, LeaseHasReason, JsonFollowsWatcher, jsonVars, NoJson, Role
<1> QED
  BY <1>1, <1>2, <1>3 DEF SyncRole

LEMMA DropKeepsOrder ==
    ASSUME DropLease PROVE LeaseInOrder' /\ lease' = "none"
BY DEF DropLease, Remove, Written, NoJson, LeaseInOrder, LeaseHasReason, JsonFollowsWatcher, jsonVars

LEMMA KeepKeepsOrder ==
    ASSUME LeaseInOrder, KeepLease PROVE LeaseInOrder' /\ lease' = lease
BY DEF KeepLease, LeaseInOrder, LeaseHasReason, JsonFollowsWatcher, jsonVars

\* The lease goes only with the last mark.
LEMMA ReleaseKeepsOrder ==
    ASSUME TypeOK, LeaseInOrder, ReleaseIfUnmarked, mark' \in [Claimant -> 0..MaxClaims]
    PROVE  LeaseInOrder' /\ (lease # "none" /\ lease' = "none" => NoMarks(mark'))
<1>1. CASE NoMarks(mark') /\ lease # "none"
  BY <1>1, DropKeepsOrder, KeepKeepsOrder DEF ReleaseIfUnmarked, TurnOnAndDrop
<1>2. CASE ~(NoMarks(mark') /\ lease # "none")
  BY <1>2, SyncKeepsOrder DEF ReleaseIfUnmarked
<1> QED
  BY <1>1, <1>2

\* Which marks a release lowers, and what it records of the watcher.
LEMMA LowerEffect ==
    ASSUME TypeOK, NEW claims, Lower(claims)
    PROVE  /\ mark' \in [Claimant -> 0..MaxClaims]
           /\ \A c \in Claimant : mark'[c] = IF <<c, mark[c]>> \in claims THEN 0 ELSE mark[c]
           /\ IF <<"watcher", mark["watcher"]>> \in claims /\ ~closed
              THEN /\ stopped' = IF watcherExit = mark["watcher"] THEN "error" ELSE "noError"
                   /\ watcherExit' = 0
              ELSE UNCHANGED <<stopped, watcherExit>>
<1> DEFINE lowered == {c \in Claimant : <<c, mark[c]>> \in claims}
<1>1. mark' = [c \in Claimant |-> IF c \in lowered THEN 0 ELSE mark[c]]
  BY DEF Lower
<1>2. RecordsStop(lowered) <=> <<"watcher", mark["watcher"]>> \in claims /\ ~closed
  BY DEF RecordsStop, Claimant
<1>3. IF RecordsStop(lowered)
      THEN /\ stopped' = IF watcherExit = mark["watcher"] THEN "error" ELSE "noError"
           /\ watcherExit' = 0
      ELSE UNCHANGED <<stopped, watcherExit>>
  BY DEF Lower
<1>4. mark' \in [Claimant -> 0..MaxClaims]
  BY LowerType
<1> QED
  BY <1>1, <1>2, <1>3, <1>4

LEMMA ReleaseClaimsKeepsOrder ==
    ASSUME TypeOK, LeaseInOrder, NEW claims, ReleaseClaims(claims)
    PROVE  LeaseInOrder' /\ (lease # "none" /\ lease' = "none" => NoMarks(mark'))
<1>1. Lower(claims) /\ mark' \in [Claimant -> 0..MaxClaims]
  BY LowerType DEF ReleaseClaims
<1>2. CASE mark' # mark
  BY <1>1, <1>2, ReleaseKeepsOrder DEF ReleaseClaims
<1>3. CASE mark' = mark
  BY <1>1, <1>3 DEF ReleaseClaims, LeaseInOrder, LeaseHasReason, JsonFollowsWatcher, jsonVars
<1> QED
  BY <1>2, <1>3

LEMMA AbandonKeepsOrder ==
    ASSUME TypeOK, LeaseInOrder, NEW t \in Claims, Abandon(t)
    PROVE  LeaseInOrder' /\ (lease # "none" /\ lease' = "none" => NoMarks(mark'))
<1>1. mark' \in [Claimant -> 0..MaxClaims]
  BY LowerType DEF Abandon
<1>2. CASE NoMarks(mark') /\ lease # "none"
  BY <1>2, DropKeepsOrder, KeepKeepsOrder DEF Abandon
<1>3. CASE ~(NoMarks(mark') /\ lease # "none")
  BY <1>1, <1>3, SyncKeepsOrder DEF Abandon
<1> QED
  BY <1>2, <1>3

LEMMA TakeClaimKeepsOrder ==
    ASSUME TypeOK, LeaseInOrder, NEW t \in Claims, TakeClaim(t)
    PROVE  LeaseInOrder' /\ lease' # "none"
<1>1. /\ mark' = [mark EXCEPT ![Who(t)] = nextGen + 1] /\ nextGen + 1 \in 1..MaxClaims
      /\ LeaseForClaim /\ kept' = kept
  BY MaxClaimsAssumption DEF TakeClaim, TypeOK
<1>2. mark' \in [Claimant -> 0..MaxClaims] /\ ~NoMarks(mark')
  BY <1>1 DEF TypeOK, Who, Claimant, NoMarks
<1>3. CASE lease # "none"
  BY <1>1, <1>2, <1>3, SyncKeepsOrder DEF LeaseForClaim
<1>4. CASE lease = "none"
  <2>1. overdue' \/ json' = NoJson \/ json' = [role |-> RoleOf(mark'), watching |-> "unsaid"]
    BY <1>1, <1>4 DEF LeaseForClaim, Publish, Remove, Written
  <2>2. lease' = RoleOf(mark') /\ RoleOf(mark') \in Role
    BY <1>1, <1>4, RoleOfType DEF LeaseForClaim
  <2> QED
    BY <1>2, <2>1, <2>2 DEF LeaseInOrder, LeaseHasReason, JsonFollowsWatcher, jsonVars, NoJson, Role
<1> QED
  BY <1>3, <1>4

LEMMA TouchKeepsOrder ==
    ASSUME TypeOK, LeaseInOrder, NEW reported, NEW error, lease # "none",
           TouchHeartbeat(WatchingNow(reported, error)), UNCHANGED <<lease, mark, kept>>
    PROVE  LeaseInOrder'
<1>1. WatchingNow(reported, error) = "yes" => mark["watcher"] # 0
  BY DEF WatchingNow
<1>2. \/ json' = [role |-> lease, watching |-> WatchingNow(reported, error)]
      \/ UNCHANGED jsonVars
  BY DEF TouchHeartbeat, Written
<1> QED
  BY <1>1, <1>2 DEF LeaseInOrder, LeaseHasReason, JsonFollowsWatcher, jsonVars


(***************************************************************************)
(* The places of the threads                                               *)
(***************************************************************************)

\* The places of make_writable.
Making == Starting \ {"context"}

LEMMA MakeWritablePlace ==
    ASSUME NEW t \in Claims, MakeWritable(t)
    PROVE  /\ pc[t] \in Making
           /\ \E label \in Starting \cup {"writing", "released"} :
                 /\ GoTo(t, label)
                 /\ label = "writing" => t # Watcher
                 /\ label = "context" => t = Watcher
           /\ UNCHANGED <<gen, nextGen, pending, closed, reader, foreign, slotTaken, settler, main,
                          ended>>
<1> USE DEF Making, Starting, innerVars, jsonVars, dbVars
<1>1. CASE LockDb(t)
  BY <1>1 DEF LockDb
<1>2. CASE Check(t)
  <2>1. AfterCheck(t) \in {"released", "undo", "sqlMeta", "sql"}
    BY DEF AfterCheck
  <2> QED
    BY <1>2, <2>1 DEF Check
<1>3. CASE TurnOff(t)
  BY <1>3 DEF TurnOff, AfterWritable
<1>4. CASE CannotTurnOff(t)
  BY <1>4 DEF CannotTurnOff
<1>5. CASE MetaMatches(t)
  BY <1>5 DEF MetaMatches, AfterWritable
<1>6. CASE MetaDiffers(t)
  BY <1>6 DEF MetaDiffers
<1>7. CASE Undo(t)
  BY <1>7 DEF Undo
<1>8. CASE Abandon(t)
  BY <1>8 DEF Abandon
<1> QED
  BY <1>1, <1>2, <1>3, <1>4, <1>5, <1>6, <1>7, <1>8 DEF MakeWritable

\* A thread on its way from a claim to its end.
LEMMA MoveKeepsThreads ==
    ASSUME TypeOK, ThreadsInOrder, NEW t \in Claims, NEW label, GoTo(t, label),
           UNCHANGED <<gen, slotTaken, main, closed>>,
           pc[t] # "idle", label # "idle", HoldsGuard(t)' => HoldsGuard(t),
           t = Watcher => /\ label \in Starting => pc[t] \in Starting
                          /\ WatcherOver => WatcherOver'
    PROVE  ThreadsInOrder'
<1>1. pc' = [pc EXCEPT ![t] = label] /\ Watcher \in Claims /\ Rebuilder \subseteq Claims
  BY DEF GoTo, Claims
<1>2. OneRebuild'
  BY <1>1 DEF OneRebuild, ThreadsInOrder, TypeOK
<1>3. MainInOrder'
  <2>1. pc'[Watcher] \in Starting => pc[Watcher] \in Starting
    BY <1>1 DEF TypeOK
  <2>2. WatcherOver => WatcherOver'
    BY <1>1 DEF TypeOK, WatcherOver
  <2> QED
    BY <2>1, <2>2 DEF MainInOrder, ThreadsInOrder
<1>4. GuardsNumbered'
  BY <1>1 DEF GuardsNumbered, ThreadsInOrder, TypeOK, HoldsGuard
<1> QED
  BY <1>2, <1>3, <1>4 DEF ThreadsInOrder

\* Nothing but the settle, the status and the database changes.
LEMMA StillThreads ==
    ASSUME ThreadsInOrder, UNCHANGED <<pc, gen, slotTaken, main, closed>>
    PROVE  ThreadsInOrder'
BY DEF ThreadsInOrder, OneRebuild, MainInOrder, GuardsNumbered, HoldsGuard, WatcherOver

LEMMA MakeWritableThreads ==
    ASSUME TypeOK, ThreadsInOrder, NEW t \in Claims, MakeWritable(t)
    PROVE  ThreadsInOrder'
<1>1. PICK label \in Starting \cup {"writing", "released"} :
         /\ GoTo(t, label)
         /\ label = "writing" => t # Watcher
         /\ label = "context" => t = Watcher
  BY MakeWritablePlace
<1>2. pc[t] \in Starting /\ HoldsGuard(t) /\ label # "idle" /\ pc[t] # "idle"
  BY MakeWritablePlace DEF Making, Starting, HoldsGuard
<1>3. t = Watcher => ~WatcherOver
  BY <1>2 DEF WatcherOver, Starting
<1> QED
  BY <1>1, <1>2, <1>3, MakeWritablePlace, MoveKeepsThreads

LEMMA GuardThreads ==
    ASSUME TypeOK, ThreadsInOrder, NEW t \in Claims, UnlockDb(t) \/ Unwind(t) \/ QueueClaim(t)
    PROVE  ThreadsInOrder'
<1> USE DEF GoTo, TypeOK, WatcherOver, HoldsGuard, Starting
<1>1. CASE Unwind(t)
  BY <1>1, MoveKeepsThreads DEF Unwind, innerVars, jsonVars
<1>2. CASE QueueClaim(t)
  BY <1>2, MoveKeepsThreads DEF QueueClaim
<1>3. CASE UnlockDb(t) /\ main' = main
  BY <1>3, MoveKeepsThreads DEF UnlockDb, innerVars, jsonVars
<1>4. CASE UnlockDb(t) /\ main' # main
  <2>1. /\ t = Watcher /\ main' = "failed" /\ main = "claiming"
        /\ pc' = [pc EXCEPT ![Watcher] = "gone"]
        /\ UNCHANGED <<gen, slotTaken, closed>>
        /\ Watcher \in Claims /\ Rebuilder \subseteq Claims
    BY <1>4 DEF UnlockDb, innerVars, jsonVars, Claims
  <2>2. OneRebuild'
    BY <2>1, ThreadAssumption DEF ThreadsInOrder, OneRebuild
  <2>3. MainInOrder'
    BY <2>1 DEF ThreadsInOrder, MainInOrder, Closing
  <2>4. GuardsNumbered'
    BY <2>1 DEF ThreadsInOrder, GuardsNumbered
  <2> QED
    BY <2>2, <2>3, <2>4 DEF ThreadsInOrder
<1> QED
  BY <1>1, <1>2, <1>3, <1>4

LEMMA RebuildThreads ==
    ASSUME TypeOK, ThreadsInOrder, NEW t \in Rebuilder, Rebuild(t)
    PROVE  ThreadsInOrder'
<1>0. t \in Claims /\ t # Watcher /\ Watcher \in Claims /\ Rebuilder \subseteq Claims
  BY ThreadAssumption DEF Claims
<1>1. CASE \/ RequestRebuild(t) \/ ClaimForRebuild(t) \/ FreeSlot(t)
  <2>1. \E label : /\ GoTo(t, label)
                   /\ UNCHANGED <<main, closed>>
                   /\ label # "idle" => slotTaken'
                   /\ pc[t] = "idle" => ~slotTaken
                   /\ pc[t] # "idle" => label = "idle" \/ UNCHANGED slotTaken
    <3>1. CASE RequestRebuild(t)
      BY <3>1 DEF RequestRebuild, innerVars, jsonVars
    <3>2. CASE ClaimForRebuild(t)
      BY <3>2 DEF ClaimForRebuild, TakeClaim, ThreadsInOrder, OneRebuild
    <3>3. CASE FreeSlot(t)
      BY <3>3 DEF FreeSlot, innerVars, jsonVars
    <3> QED
      BY <1>1, <3>1, <3>2, <3>3
  <2>2. PICK label : /\ GoTo(t, label)
                     /\ UNCHANGED <<main, closed>>
                     /\ label # "idle" => slotTaken'
                     /\ pc[t] = "idle" => ~slotTaken
                     /\ pc[t] # "idle" => label = "idle" \/ UNCHANGED slotTaken
    BY <2>1
  <2>3. OneRebuild'
    BY <1>0, <2>2 DEF ThreadsInOrder, OneRebuild, GoTo, TypeOK
  <2>4. MainInOrder'
    BY <1>0, <2>2 DEF ThreadsInOrder, MainInOrder, WatcherOver, GoTo, TypeOK
  <2>5. GuardsNumbered'
    <3>1. CASE ClaimForRebuild(t)
      <4>1. gen' = [gen EXCEPT ![t] = nextGen + 1] /\ nextGen + 1 # 0 /\ pc' = [pc EXCEPT ![t] = "claimed"]
        BY <3>1 DEF ClaimForRebuild, TakeClaim, TypeOK, GoTo
      <4> QED
        BY <4>1 DEF ThreadsInOrder, GuardsNumbered, HoldsGuard, TypeOK
    <3>2. CASE RequestRebuild(t) \/ FreeSlot(t)
      <4>1. gen' = gen /\ \E place \in {"slotted", "idle"} : pc' = [pc EXCEPT ![t] = place]
        BY <3>2 DEF RequestRebuild, FreeSlot, GoTo
      <4> QED
        BY <4>1 DEF ThreadsInOrder, GuardsNumbered, HoldsGuard, TypeOK
    <3> QED
      BY <1>1, <3>1, <3>2
  <2> QED
    BY <2>3, <2>4, <2>5 DEF ThreadsInOrder
<1>2. CASE RefuseRebuild(t) \/ EndRebuild(t) \/ PanicInRebuild(t)
  <2>1. /\ pc[t] \in {"slotted", "claimed", "writing"} \cup MakingWritable
        /\ \E label \in {"freeing", "released", "unwinding", "queueing"} :
              GoTo(t, label) /\ (label \in {"unwinding", "queueing"} => pc[t] # "slotted")
        /\ UNCHANGED <<gen, slotTaken, main, closed>>
    BY <1>2 DEF RefuseRebuild, EndRebuild, PanicInRebuild, MakingWritable, Release, ReleaseClaims, innerVars
  <2> QED
    BY <1>0, <2>1, MoveKeepsThreads DEF HoldsGuard, MakingWritable, GoTo, TypeOK
<1>3. CASE MakeWritable(t)
  BY <1>0, <1>3, MakeWritableThreads
<1>4. CASE UnlockDb(t) \/ Unwind(t) \/ QueueClaim(t)
  BY <1>0, <1>4, GuardThreads
<1> QED
  BY <1>1, <1>2, <1>3, <1>4 DEF Rebuild

LEMMA StartThreads ==
    ASSUME TypeOK, ThreadsInOrder, Start
    PROVE  ThreadsInOrder'
<1>0. Watcher \in Claims /\ Rebuilder \subseteq Claims /\ Watcher \notin Rebuilder
  BY ThreadAssumption DEF Claims
<1>1. CASE ClaimAtStart
  <2>1. /\ main = "claiming"
        /\ pc' = [pc EXCEPT ![Watcher] = "claimed"]
        /\ gen' = [gen EXCEPT ![Watcher] = nextGen + 1] /\ nextGen + 1 # 0
        /\ UNCHANGED <<slotTaken, main, closed>>
    BY <1>1 DEF ClaimAtStart, TakeClaim, GoTo, TypeOK
  <2>2. OneRebuild'
    BY <1>0, <2>1 DEF ThreadsInOrder, OneRebuild
  <2>3. MainInOrder'
    BY <2>1 DEF ThreadsInOrder, MainInOrder
  <2>4. GuardsNumbered'
    BY <2>1 DEF ThreadsInOrder, GuardsNumbered, HoldsGuard, TypeOK
  <2> QED
    BY <2>2, <2>3, <2>4 DEF ThreadsInOrder
<1>2. CASE BecomeReader \/ StartWithoutWatch
  <2>1. /\ main = "claiming" /\ main' = "loading" /\ pc[Watcher] = "idle"
        /\ UNCHANGED <<pc, gen, slotTaken, closed>>
    BY <1>2 DEF BecomeReader, StartWithoutWatch, innerVars, jsonVars
  <2> QED
    BY <2>1 DEF ThreadsInOrder, OneRebuild, MainInOrder, GuardsNumbered, HoldsGuard, WatcherOver,
                Closing, Starting
<1>3. CASE MakeWritable(Watcher)
  BY <1>0, <1>3, MakeWritableThreads
<1>4. CASE ResolveContext \/ StartServing
  <2>1. /\ \/ pc[Watcher] = "context" /\ main' = "loading" /\ pc' = [pc EXCEPT ![Watcher] = "loading"]
           \/ /\ main = "loading" /\ main' = "serving"
              /\ pc' = [pc EXCEPT ![Watcher] = IF @ = "loading" THEN "watching" ELSE @]
        /\ UNCHANGED <<gen, slotTaken, closed>>
    BY <1>4 DEF ResolveContext, StartServing, GoTo, innerVars, jsonVars
  <2>2. main \in {"claiming", "loading"} /\ main' \in {"loading", "serving"}
    BY <2>1 DEF ThreadsInOrder, MainInOrder, Starting
  <2>3. /\ \A t \in Rebuilder : pc'[t] = pc[t]
        /\ pc'[Watcher] \notin Starting
        /\ \A t \in Claims : HoldsGuard(t)' => HoldsGuard(t)
    BY <1>0, <2>1 DEF ThreadsInOrder, MainInOrder, Starting, HoldsGuard, TypeOK
  <2> QED
    BY <2>1, <2>2, <2>3 DEF ThreadsInOrder, OneRebuild, MainInOrder, GuardsNumbered, Closing
<1>5. CASE ContextFails
  <2>1. /\ pc[Watcher] = "context" /\ GoTo(Watcher, "released")
        /\ UNCHANGED <<gen, slotTaken, main, closed>>
    BY <1>5 DEF ContextFails, Release, ReleaseClaims
  <2>2. HoldsGuard(Watcher) /\ ~WatcherOver
    BY <2>1 DEF HoldsGuard, WatcherOver
  <2> QED
    BY <1>0, <2>1, <2>2, MoveKeepsThreads DEF Starting
<1> QED
  BY <1>1, <1>2, <1>3, <1>4, <1>5 DEF Start

\* Where a step of the watcher's task takes it.
LEMMA WatcherTaskPlace ==
    ASSUME TypeOK, WatcherTask, ~UnlockDb(Watcher), ~QueueClaim(Watcher)
    PROVE  /\ pc[Watcher] \in Working
           /\ \E label \in Working \cup {"released"} : GoTo(Watcher, label)
           /\ UNCHANGED <<gen, nextGen, slotTaken, main, closed, pending, metaUnchecked>>
<1> USE DEF Working, innerVars, jsonVars, dbVars
<1>1. CASE BeginBatch \/ LockForBatch \/ UnlockInBatch \/ EndBatch
  BY <1>1 DEF BeginBatch, LockForBatch, UnlockInBatch, EndBatch, WatcherGoes
<1>2. CASE PanicInBatch \/ LeaveLoop \/ PanicInTask \/ LockToEnd \/ PanicInEnd
  BY <1>2 DEF PanicInBatch, LeaveLoop, PanicInTask, LockToEnd, PanicInEnd, WatcherGoes
<1>3. CASE RecordExit \/ EndWatcher \/ Unwind(Watcher)
  BY <1>3 DEF RecordExit, EndWatcher, Release, ReleaseClaims, Unwind
<1> QED
  BY <1>1, <1>2, <1>3 DEF WatcherTask

LEMMA WatcherThreads ==
    ASSUME TypeOK, ThreadsInOrder, WatcherTask
    PROVE  ThreadsInOrder'
<1>0. Watcher \in Claims
  BY DEF Claims
<1>1. CASE UnlockDb(Watcher) \/ QueueClaim(Watcher)
  BY <1>0, <1>1, GuardThreads
<1>2. CASE ~UnlockDb(Watcher) /\ ~QueueClaim(Watcher)
  <2>1. PICK label \in Working \cup {"released"} : GoTo(Watcher, label)
    BY <1>2, WatcherTaskPlace
  <2>2. HoldsGuard(Watcher) /\ ~WatcherOver /\ label # "idle" /\ pc[Watcher] # "idle"
        /\ label \notin Starting
    BY <1>2, WatcherTaskPlace DEF HoldsGuard, WatcherOver, Working, Starting
  <2>3. UNCHANGED <<gen, slotTaken, main, closed>>
    BY <1>2, WatcherTaskPlace
  <2> QED
    BY <1>0, <2>1, <2>2, <2>3, MoveKeepsThreads
<1> QED
  BY <1>1, <1>2

LEMMA ShutDownThreads ==
    ASSUME TypeOK, ThreadsInOrder, ShutDown
    PROVE  ThreadsInOrder'
<1>0. Watcher \in Claims /\ Watcher \notin Rebuilder
  BY ThreadAssumption DEF Claims
<1>1. /\ pc' = pc \/ (main' = "done" /\ pc' = [pc EXCEPT ![Watcher] = IF @ = "loading" THEN "gone" ELSE @])
      /\ UNCHANGED <<gen, slotTaken>>
      /\ closed' /\ main' \in Closing
      /\ main \in {"serving", "loading"} \/ (main \in Closing /\ closed)
      /\ main' \in {"joined", "locked", "shut", "done"} =>
            main \in {"joined", "locked", "shut", "done"} \/ WatcherOver
  BY DEF ShutDown, BeginShutdown, StopTasks, AwaitWatcher, LockToShutDown, Shutdown, EndShutdown,
         MainGoes, innerVars, jsonVars, dbVars, Closing, ThreadsInOrder, MainInOrder
<1>2. pc[Watcher] \notin Starting
  BY <1>1 DEF ThreadsInOrder, MainInOrder, Closing
<1>3. \A t \in Claims : pc'[t] = pc[t] \/ (t = Watcher /\ pc[t] = "loading" /\ pc'[t] = "gone")
  BY <1>0, <1>1 DEF TypeOK
<1>4. /\ \A t \in Rebuilder : pc'[t] = pc[t]
      /\ pc'[Watcher] \notin Starting
      /\ \A t \in Claims : HoldsGuard(t)' => HoldsGuard(t)
      /\ WatcherOver => WatcherOver'
  BY <1>0, <1>2, <1>3 DEF Claims, Starting, HoldsGuard, WatcherOver
<1>5. OneRebuild' /\ GuardsNumbered'
  BY <1>1, <1>4 DEF ThreadsInOrder, OneRebuild, GuardsNumbered
<1>6. MainInOrder'
  BY <1>1, <1>4 DEF ThreadsInOrder, MainInOrder, Closing
<1> QED
  BY <1>5, <1>6 DEF ThreadsInOrder

\* What neither the claims' threads nor the server's start and shutdown do.
Aside == (\E error \in BOOLEAN : SetWatchError(error)) \/ Heartbeat \/ Settle \/ Foreign

LEMMA AsideIsStill ==
    ASSUME Aside \/ UNCHANGED vars
    PROVE  UNCHANGED <<pc, gen, nextGen, slotTaken, main, closed, ended, metaUnchecked>>
<1> USE DEF innerVars, jsonVars, dbVars, threadVars
<1>1. CASE \E error \in BOOLEAN : SetWatchError(error)
  BY <1>1 DEF SetWatchError
<1>2. CASE Heartbeat \/ Foreign \/ UNCHANGED vars
  BY <1>2 DEF Heartbeat, Foreign, vars
<1>3. CASE Settle
  BY <1>3 DEF Settle, StartSettle, LockToSettle, SettlePending, EndSettle, SettlerGoes, ReleaseClaims
<1> QED
  BY <1>1, <1>2, <1>3 DEF Aside

LEMMA StepThreads == TypeOK /\ ThreadsInOrder /\ [Next]_vars => ThreadsInOrder'
<1> SUFFICES ASSUME TypeOK, ThreadsInOrder, [Next]_vars PROVE ThreadsInOrder'
  OBVIOUS
<1>1. CASE Aside \/ UNCHANGED vars
  BY <1>1, AsideIsStill, StillThreads
<1> QED
  BY <1>1, RebuildThreads, StartThreads, WatcherThreads, ShutDownThreads DEF Next, Aside

(***************************************************************************)
(* Every mark has a guard, or waits for the janitor                        *)
(***************************************************************************)

LEMMA WhoType == ASSUME NEW t \in Claims PROVE Who(t) \in Claimant
BY DEF Who, Claimant

\* A guard that goes away leaves its claim queued, unless the claim is not live.
LEMMA MoveKeepsOwners ==
    ASSUME TypeOK, MarksOwned, NEW t \in Claims, NEW label, GoTo(t, label),
           UNCHANGED <<mark, gen>>, pending \subseteq pending', closed => closed',
           HoldsGuard(t) => HoldsGuard(t)' \/ mark[Who(t)] # gen[t] \/ closed \/ Claim(t) \in pending'
    PROVE  MarksOwned'
<1> SUFFICES ASSUME ~closed, ~closed', NEW c \in Claimant, mark'[c] # 0, <<c, mark'[c]>> \notin pending'
             PROVE  \E s \in Claims : Claim(s)' = <<c, mark'[c]>> /\ HoldsGuard(s)'
  BY DEF MarksOwned
<1>1. PICK s \in Claims : Claim(s) = <<c, mark[c]>> /\ HoldsGuard(s)
  BY DEF MarksOwned
<1>2. Claim(s)' = <<c, mark'[c]>>
  BY <1>1 DEF Claim, Who
<1>3. CASE s = t
  <2>1. mark[Who(t)] = gen[t]
    BY <1>1, <1>3 DEF Claim
  <2> QED
    BY <1>1, <1>2, <1>3, <2>1
<1>4. CASE s # t
  BY <1>1, <1>2, <1>4 DEF GoTo, HoldsGuard, TypeOK
<1> QED
  BY <1>3, <1>4

LEMMA StillOwners ==
    ASSUME MarksOwned, UNCHANGED <<pc, gen, mark>>, pending \subseteq pending', closed => closed'
    PROVE  MarksOwned'
BY DEF MarksOwned, Claim, HoldsGuard

LEMMA TakeKeepsOwners ==
    ASSUME TypeOK, MarksOwned, NEW t \in Claims, TakeClaim(t)
    PROVE  MarksOwned'
<1>1. /\ mark' = [mark EXCEPT ![Who(t)] = nextGen + 1]
      /\ gen' = [gen EXCEPT ![t] = nextGen + 1]
      /\ pc' = [pc EXCEPT ![t] = "claimed"]
      /\ UNCHANGED <<pending, closed>>
  BY DEF TakeClaim, GoTo
<1> SUFFICES ASSUME ~closed, NEW c \in Claimant, mark'[c] # 0, <<c, mark'[c]>> \notin pending
             PROVE  \E s \in Claims : Claim(s)' = <<c, mark'[c]>> /\ HoldsGuard(s)'
  BY <1>1 DEF MarksOwned
<1>2. CASE c = Who(t)
  BY <1>1, <1>2 DEF Claim, HoldsGuard, TypeOK
<1>3. CASE c # Who(t)
  <2>1. PICK s \in Claims : Claim(s) = <<c, mark[c]>> /\ HoldsGuard(s)
    BY <1>1, <1>3 DEF MarksOwned, TypeOK
  <2>2. s # t
    BY <1>3, <2>1 DEF Claim
  <2> QED
    BY <1>1, <1>3, <2>1, <2>2 DEF Claim, HoldsGuard, TypeOK
<1> QED
  BY <1>2, <1>3

\* A claim is lowered with its guard.
LEMMA LowerKeepsOwners ==
    ASSUME TypeOK, MarksOwned, NEW t \in Claims, Lower({Claim(t)}), NEW label, GoTo(t, label),
           UNCHANGED <<gen, closed, pending>>
    PROVE  MarksOwned'
<1>1. \A c \in Claimant : mark'[c] = IF <<c, mark[c]>> \in {Claim(t)} THEN 0 ELSE mark[c]
  BY LowerEffect
<1> SUFFICES ASSUME ~closed, NEW c \in Claimant, mark'[c] # 0, <<c, mark'[c]>> \notin pending
             PROVE  \E s \in Claims : Claim(s)' = <<c, mark'[c]>> /\ HoldsGuard(s)'
  BY DEF MarksOwned
<1>2. mark'[c] = mark[c] /\ <<c, mark[c]>> # Claim(t)
  BY <1>1
<1>3. PICK s \in Claims : Claim(s) = <<c, mark[c]>> /\ HoldsGuard(s)
  BY <1>2 DEF MarksOwned
<1>4. s # t
  BY <1>2, <1>3
<1>5. Claim(s)' = Claim(s) /\ HoldsGuard(s)'
  BY <1>3, <1>4 DEF Claim, Who, GoTo, HoldsGuard, TypeOK
<1> QED
  BY <1>2, <1>3, <1>5

\* The queue is emptied, and each of its claims is lowered if it is live.
LEMMA SettleKeepsOwners ==
    ASSUME TypeOK, MarksOwned, Lower(pending), UNCHANGED <<pc, gen, closed>>
    PROVE  MarksOwned'
<1>1. \A c \in Claimant : mark'[c] = IF <<c, mark[c]>> \in pending THEN 0 ELSE mark[c]
  BY LowerEffect
<1> SUFFICES ASSUME ~closed, NEW c \in Claimant, mark'[c] # 0
             PROVE  \E s \in Claims : Claim(s)' = <<c, mark'[c]>> /\ HoldsGuard(s)'
  BY DEF MarksOwned
<1>2. mark'[c] = mark[c] /\ <<c, mark[c]>> \notin pending
  BY <1>1
<1>3. PICK s \in Claims : Claim(s) = <<c, mark[c]>> /\ HoldsGuard(s)
  BY <1>2 DEF MarksOwned
<1>4. Claim(s)' = Claim(s) /\ HoldsGuard(s)'
  BY <1>3 DEF Claim, Who, HoldsGuard
<1> QED
  BY <1>2, <1>3, <1>4

LEMMA MakeWritableOwners ==
    ASSUME TypeOK, MarksOwned, NEW t \in Claims, MakeWritable(t)
    PROVE  MarksOwned'
<1>0. UNCHANGED <<gen, pending, closed>>
  BY MakeWritablePlace
<1>1. CASE Check(t)
  <2>1. pc[t] = "checking" /\ GoTo(t, AfterCheck(t)) /\ UNCHANGED mark
    BY <1>1 DEF Check, innerVars, jsonVars
  <2>2. AfterCheck(t) \in {"undo", "sql", "sqlMeta"} \/ closed \/ mark[Who(t)] # gen[t]
    BY DEF AfterCheck
  <2>3. AfterCheck(t) \in {"undo", "sql", "sqlMeta"} => HoldsGuard(t)'
    BY <2>1 DEF GoTo, HoldsGuard, TypeOK
  <2> QED
    BY <1>0, <2>1, <2>2, <2>3, MoveKeepsOwners
<1>2. CASE Abandon(t)
  BY <1>0, <1>2, LowerKeepsOwners DEF Abandon
<1>3. CASE ~Check(t) /\ ~Abandon(t)
  <2>1. /\ UNCHANGED mark
        /\ \E label \in {"checking", "meta", "writing", "context", "undo", "undone", "notUndone"} :
              GoTo(t, label)
    BY <1>3 DEF MakeWritable, LockDb, TurnOff, CannotTurnOff, MetaMatches, MetaDiffers, Undo,
                AfterWritable, innerVars, jsonVars
  <2>2. PICK label \in {"checking", "meta", "writing", "context", "undo", "undone", "notUndone"} :
           GoTo(t, label)
    BY <2>1
  <2>3. HoldsGuard(t)'
    BY <2>2 DEF GoTo, HoldsGuard, TypeOK
  <2> QED
    BY <1>0, <2>1, <2>2, <2>3, MoveKeepsOwners
<1> QED
  BY <1>1, <1>2, <1>3

LEMMA GuardOwners ==
    ASSUME TypeOK, MarksOwned, NEW t \in Claims, UnlockDb(t) \/ Unwind(t) \/ QueueClaim(t)
    PROVE  MarksOwned'
<1>1. CASE UnlockDb(t)
  BY <1>1, MoveKeepsOwners DEF UnlockDb, innerVars, jsonVars, HoldsGuard
<1>2. CASE Unwind(t)
  <2>1. GoTo(t, "queueing") /\ UNCHANGED <<mark, gen, pending, closed>>
    BY <1>2 DEF Unwind, innerVars, jsonVars
  <2>2. HoldsGuard(t)'
    BY <2>1 DEF GoTo, HoldsGuard, TypeOK
  <2> QED
    BY <2>1, <2>2, MoveKeepsOwners
<1>3. CASE QueueClaim(t)
  <2>1. \E label : GoTo(t, label)
    BY <1>3 DEF QueueClaim
  <2>2. PICK label : GoTo(t, label)
    BY <2>1
  <2>3. UNCHANGED <<mark, gen, closed>> /\ pending \subseteq pending' /\ (closed \/ Claim(t) \in pending')
    BY <1>3 DEF QueueClaim, QueuedBy
  <2> QED
    BY <2>2, <2>3, MoveKeepsOwners
<1> QED
  BY <1>1, <1>2, <1>3

LEMMA RebuildOwners ==
    ASSUME TypeOK, MarksOwned, NEW t \in Rebuilder, Rebuild(t)
    PROVE  MarksOwned'
<1>0. t \in Claims
  BY DEF Claims
<1>1. CASE RequestRebuild(t) \/ RefuseRebuild(t) \/ FreeSlot(t)
  <2>1. /\ pc[t] \in {"idle", "slotted", "freeing"} /\ UNCHANGED <<mark, gen, pending, closed>>
        /\ \E label \in {"slotted", "freeing", "idle"} : GoTo(t, label)
    BY <1>1 DEF RequestRebuild, RefuseRebuild, FreeSlot, innerVars, jsonVars
  <2> QED
    BY <1>0, <2>1, MoveKeepsOwners DEF HoldsGuard
<1>2. CASE ClaimForRebuild(t)
  BY <1>0, <1>2, TakeKeepsOwners DEF ClaimForRebuild
<1>3. CASE EndRebuild(t)
  BY <1>0, <1>3, LowerKeepsOwners DEF EndRebuild, Release, ReleaseClaims
<1>4. CASE PanicInRebuild(t)
  <2>1. /\ \E label \in {"unwinding", "queueing"} : GoTo(t, label)
        /\ UNCHANGED <<mark, gen, pending, closed>>
    BY <1>4 DEF PanicInRebuild, innerVars, jsonVars
  <2>2. HoldsGuard(t)'
    BY <1>0, <2>1 DEF GoTo, HoldsGuard, TypeOK
  <2> QED
    BY <1>0, <2>1, <2>2, MoveKeepsOwners
<1> QED
  BY <1>0, <1>1, <1>2, <1>3, <1>4, MakeWritableOwners, GuardOwners DEF Rebuild

LEMMA StartOwners ==
    ASSUME TypeOK, MarksOwned, Start
    PROVE  MarksOwned'
<1>0. Watcher \in Claims
  BY DEF Claims
<1>1. CASE ClaimAtStart
  BY <1>0, <1>1, TakeKeepsOwners DEF ClaimAtStart
<1>2. CASE BecomeReader \/ StartWithoutWatch
  BY <1>2, StillOwners DEF BecomeReader, StartWithoutWatch, innerVars, jsonVars
<1>3. CASE ResolveContext \/ (StartServing /\ pc[Watcher] = "loading")
  <2>1. /\ UNCHANGED <<mark, gen, pending, closed>>
        /\ \E label \in {"loading", "watching"} : GoTo(Watcher, label)
    BY <1>3 DEF ResolveContext, StartServing, GoTo, innerVars, jsonVars
  <2>2. HoldsGuard(Watcher)'
    BY <1>0, <2>1 DEF GoTo, HoldsGuard, TypeOK
  <2> QED
    BY <1>0, <2>1, <2>2, MoveKeepsOwners
<1>4. CASE StartServing /\ pc[Watcher] # "loading"
  <2>1. UNCHANGED <<mark, gen, pending, closed>> /\ pc' = pc
    BY <1>4 DEF StartServing, innerVars, jsonVars, TypeOK
  <2> QED
    BY <2>1, StillOwners
<1>5. CASE ContextFails
  BY <1>0, <1>5, LowerKeepsOwners DEF ContextFails, Release, ReleaseClaims
<1> QED
  BY <1>0, <1>1, <1>2, <1>3, <1>4, <1>5, MakeWritableOwners DEF Start

LEMMA WatcherOwners ==
    ASSUME TypeOK, MarksOwned, WatcherTask
    PROVE  MarksOwned'
<1>0. Watcher \in Claims
  BY DEF Claims
<1>1. CASE UnlockDb(Watcher) \/ QueueClaim(Watcher)
  BY <1>0, <1>1, GuardOwners
<1>2. CASE EndWatcher
  BY <1>0, <1>2, LowerKeepsOwners DEF EndWatcher, Release, ReleaseClaims
<1>3. CASE ~UnlockDb(Watcher) /\ ~QueueClaim(Watcher) /\ ~EndWatcher
  <2>1. UNCHANGED <<mark, gen, pending, closed>>
    BY <1>3 DEF WatcherTask, BeginBatch, LockForBatch, UnlockInBatch, EndBatch, PanicInBatch,
                LeaveLoop, PanicInTask, LockToEnd, PanicInEnd, RecordExit, Unwind, WatcherGoes,
                innerVars, jsonVars
  <2>2. \E label \in Working : GoTo(Watcher, label)
    BY <1>3 DEF WatcherTask, BeginBatch, LockForBatch, UnlockInBatch, EndBatch, PanicInBatch,
                LeaveLoop, PanicInTask, LockToEnd, PanicInEnd, RecordExit, Unwind, WatcherGoes,
                Working
  <2>3. HoldsGuard(Watcher)'
    BY <1>0, <2>2 DEF GoTo, HoldsGuard, TypeOK, Working
  <2> QED
    BY <1>0, <2>1, <2>2, <2>3, MoveKeepsOwners
<1> QED
  BY <1>1, <1>2, <1>3

LEMMA ShutDownOwners ==
    ASSUME TypeOK, ThreadsInOrder, ShutDown
    PROVE  MarksOwned'
<1>1. closed'
  BY DEF ShutDown, BeginShutdown, StopTasks, AwaitWatcher, LockToShutDown, Shutdown, EndShutdown,
         MainGoes, innerVars, jsonVars, Closing, ThreadsInOrder, MainInOrder
<1> QED
  BY <1>1 DEF MarksOwned

LEMMA AsideOwners ==
    ASSUME TypeOK, MarksOwned, Aside \/ UNCHANGED vars
    PROVE  MarksOwned'
<1>0. UNCHANGED <<pc, gen, closed>>
  BY AsideIsStill
<1>1. CASE SettlePending
  BY <1>0, <1>1, SettleKeepsOwners DEF SettlePending, ReleaseClaims
<1>2. CASE ~SettlePending
  <2>1. UNCHANGED <<mark, pending>>
    BY <1>2 DEF Aside, SetWatchError, Heartbeat, Settle, StartSettle, LockToSettle, EndSettle,
                Foreign, vars, innerVars, jsonVars
  <2> QED
    BY <1>0, <2>1, StillOwners
<1> QED
  BY <1>1, <1>2

LEMMA StepOwners == TypeOK /\ ThreadsInOrder /\ MarksOwned /\ [Next]_vars => MarksOwned'
<1> SUFFICES ASSUME TypeOK, ThreadsInOrder, MarksOwned, [Next]_vars PROVE MarksOwned'
  OBVIOUS
<1>1. CASE Aside \/ UNCHANGED vars
  BY <1>1, AsideOwners
<1> QED
  BY <1>1, RebuildOwners, StartOwners, WatcherOwners, ShutDownOwners DEF Next, Aside

(***************************************************************************)
(* What make_writable did stays so                                         *)
(***************************************************************************)

\* The places that rely on it: all under the database mutex.
Relies == {"sql", "sqlMeta", "meta", "writing", "context"}

LEMMA OnlyGuardRelies ==
    ASSUME DbHeld, NEW t \in Claims, pc[t] \in Relies
    PROVE  dbGuard = t
BY DEF DbHeld, Relies, DbPC

\* A thread goes on with the slot and query_only left alone.
LEMMA MoveKeepsWritable ==
    ASSUME TypeOK, MadeWritable, NEW t \in Claims, NEW label, GoTo(t, label),
           UNCHANGED <<lease, mark, gen, queryOnly, metaUnchecked>>,
           label \notin Relies
    PROVE  MadeWritable'
<1> SUFFICES ASSUME NEW s \in Claims, pc'[s] \in Relies
             PROVE  /\ pc'[s] \in {"sql", "sqlMeta", "meta", "writing", "context"} =>
                          lease' # "none" /\ mark'[Who(s)] = gen'[s]
                    /\ pc'[s] \in {"meta", "writing", "context"} => ~queryOnly'
                    /\ pc'[s] \in {"sql", "writing", "context"} => ~metaUnchecked'
  BY DEF MadeWritable, Relies, Who
<1>1. s # t /\ pc'[s] = pc[s]
  BY DEF GoTo, TypeOK
<1> QED
  BY <1>1 DEF MadeWritable

LEMMA StillWritable ==
    ASSUME MadeWritable, UNCHANGED <<pc, lease, mark, gen, queryOnly, metaUnchecked>>
    PROVE  MadeWritable'
BY DEF MadeWritable, Who

\* The holder of the mutex changes what it will; no other thread relies on it.
LEMMA HolderKeepsWritable ==
    ASSUME TypeOK, DbHeld, MadeWritable, NEW t \in Claims, dbGuard = t, NEW label, GoTo(t, label),
           /\ label \in Relies => lease' # "none" /\ mark'[Who(t)] = gen'[t]
           /\ label \in {"meta", "writing", "context"} => ~queryOnly'
           /\ label \in {"sql", "writing", "context"} => ~metaUnchecked'
    PROVE  MadeWritable'
<1> SUFFICES ASSUME NEW s \in Claims, pc'[s] \in Relies
             PROVE  /\ lease' # "none" /\ mark'[Who(s)] = gen'[s]
                    /\ pc'[s] \in {"meta", "writing", "context"} => ~queryOnly'
                    /\ pc'[s] \in {"sql", "writing", "context"} => ~metaUnchecked'
  BY DEF MadeWritable, Relies, Who
<1>1. s = t
  <2>1. s # t => pc'[s] = pc[s]
    BY DEF GoTo, TypeOK
  <2> QED
    BY <2>1, OnlyGuardRelies
<1>2. pc'[t] = label
  BY DEF GoTo, TypeOK
<1> QED
  BY <1>1, <1>2

\* Nobody at all relies on it while the settle or the shutdown has the mutex.
LEMMA OtherKeepsWritable ==
    ASSUME DbHeld, dbGuard \notin Claims, UNCHANGED pc
    PROVE  MadeWritable'
BY OnlyGuardRelies DEF MadeWritable, Relies

\* A new claim takes nothing from the claim that relies on the lease.
LEMMA TakeKeepsWritable ==
    ASSUME TypeOK, OneRebuild, MadeWritable, NEW t \in Claims, TakeClaim(t),
           t \in Rebuilder => pc[t] = "slotted"
    PROVE  MadeWritable'
<1>1. /\ mark' = [mark EXCEPT ![Who(t)] = nextGen + 1]
      /\ gen' = [gen EXCEPT ![t] = nextGen + 1]
      /\ pc' = [pc EXCEPT ![t] = "claimed"]
      /\ queryOnly' = queryOnly
  BY DEF TakeClaim, GoTo, dbVars
<1>2. lease # "none" => lease' # "none" /\ metaUnchecked' = metaUnchecked
  BY SyncRoleEffect DEF TakeClaim, LeaseForClaim
<1> SUFFICES ASSUME NEW s \in Claims, pc'[s] \in Relies
             PROVE  /\ lease' # "none" /\ mark'[Who(s)] = gen'[s]
                    /\ pc'[s] \in {"meta", "writing", "context"} => ~queryOnly'
                    /\ pc'[s] \in {"sql", "writing", "context"} => ~metaUnchecked'
  BY DEF MadeWritable, Relies, Who
<1>3. s # t /\ pc'[s] = pc[s] /\ gen'[s] = gen[s]
  BY <1>1 DEF TypeOK, Relies
<1>4. Who(s) # Who(t)
  BY <1>3, ThreadAssumption DEF Who, Claims, OneRebuild, Relies
<1>5. mark'[Who(s)] = mark[Who(s)]
  BY <1>1, <1>4, WhoType DEF TypeOK
<1> QED
  BY <1>1, <1>2, <1>3, <1>5 DEF MadeWritable, Relies

LEMMA MakeWritableWritable ==
    ASSUME IInv, MadeWritable, NEW t \in Claims, MakeWritable(t)
    PROVE  MadeWritable'
<1> USE DEF IInv
<1>1. CASE LockDb(t)
  BY <1>1, MoveKeepsWritable DEF LockDb, innerVars, jsonVars, Relies
<1>2. CASE Check(t)
  <2>1. /\ dbGuard = t /\ GoTo(t, AfterCheck(t))
        /\ UNCHANGED <<lease, mark, gen, queryOnly, metaUnchecked>>
    BY <1>2 DEF Check, innerVars, jsonVars, dbVars, DbHeld, DbPC
  <2>2. Who(t)' = Who(t)
    BY DEF Who
  <2>3. /\ AfterCheck(t) \in {"released", "undo", "sqlMeta", "sql"}
        /\ AfterCheck(t) \in {"sqlMeta", "sql"} => lease # "none" /\ mark[Who(t)] = gen[t]
        /\ AfterCheck(t) = "sql" => ~metaUnchecked
    BY DEF AfterCheck
  <2> QED
    BY <2>1, <2>2, <2>3, HolderKeepsWritable DEF Relies
<1>3. CASE TurnOff(t)
  <2>1. /\ dbGuard = t /\ lease # "none" /\ mark[Who(t)] = gen[t]
        /\ pc[t] = "sql" => ~metaUnchecked
        /\ UNCHANGED <<lease, mark, gen, metaUnchecked>>
        /\ ~queryOnly'
    BY <1>3 DEF TurnOff, TurnsOff, innerVars, jsonVars, DbHeld, DbPC, MadeWritable
  <2>2. PICK label \in {"meta", "writing", "context"} :
           GoTo(t, label) /\ (label # "meta" => pc[t] = "sql")
    BY <1>3 DEF TurnOff, AfterWritable
  <2> QED
    BY <2>1, <2>2, HolderKeepsWritable DEF Relies
<1>4. CASE CannotTurnOff(t) \/ MetaDiffers(t)
  BY <1>4, MoveKeepsWritable DEF CannotTurnOff, MetaDiffers, innerVars, jsonVars, dbVars, Relies
<1>5. CASE MetaMatches(t)
  <2>1. /\ dbGuard = t /\ lease # "none" /\ mark[Who(t)] = gen[t] /\ ~queryOnly
        /\ UNCHANGED <<lease, mark, gen, queryOnly>>
        /\ ~metaUnchecked'
    BY <1>5 DEF MetaMatches, dbVars, DbHeld, DbPC, MadeWritable
  <2>2. PICK label \in {"writing", "context"} : GoTo(t, label)
    BY <1>5 DEF MetaMatches, AfterWritable
  <2> QED
    BY <2>1, <2>2, HolderKeepsWritable DEF Relies
<1>6. CASE Undo(t) \/ Abandon(t)
  <2>1. dbGuard = t /\ \E label \in {"undone", "notUndone", "released"} : GoTo(t, label)
    BY <1>6 DEF Undo, Abandon, DbHeld, DbPC
  <2> QED
    BY <2>1, HolderKeepsWritable DEF Relies
<1> QED
  BY <1>1, <1>2, <1>3, <1>4, <1>5, <1>6 DEF MakeWritable

LEMMA GuardWritable ==
    ASSUME IInv, MadeWritable, NEW t \in Claims, UnlockDb(t) \/ Unwind(t) \/ QueueClaim(t)
    PROVE  MadeWritable'
<1>1. UNCHANGED <<lease, mark, gen, queryOnly, metaUnchecked>>
      /\ \E label \in {"gone", "freeing", "queueing"} : GoTo(t, label)
  BY DEF UnlockDb, Unwind, QueueClaim, innerVars, jsonVars, dbVars
<1> QED
  BY <1>1, MoveKeepsWritable DEF IInv, Relies

\* The end of a claim, under the mutex.
LEMMA ReleaseWritable ==
    ASSUME IInv, MadeWritable, NEW t \in Claims, pc[t] \in DbPC, Release(t)
    PROVE  MadeWritable'
<1>1. dbGuard = t /\ GoTo(t, "released")
  BY DEF IInv, DbHeld, Release
<1> QED
  BY <1>1, HolderKeepsWritable DEF IInv, Relies

LEMMA RebuildWritable ==
    ASSUME IInv, ThreadsInOrder, MadeWritable, NEW t \in Rebuilder, Rebuild(t)
    PROVE  MadeWritable'
<1>0. t \in Claims
  BY DEF Claims
<1>1. CASE RequestRebuild(t) \/ RefuseRebuild(t) \/ FreeSlot(t) \/ PanicInRebuild(t)
  <2>1. UNCHANGED <<lease, mark, gen, queryOnly, metaUnchecked>>
        /\ \E label \in {"slotted", "freeing", "idle", "unwinding", "queueing"} : GoTo(t, label)
    BY <1>1 DEF RequestRebuild, RefuseRebuild, FreeSlot, PanicInRebuild, innerVars, jsonVars, dbVars
  <2> QED
    BY <1>0, <2>1, MoveKeepsWritable DEF IInv, Relies
<1>2. CASE ClaimForRebuild(t)
  BY <1>0, <1>2, TakeKeepsWritable DEF ClaimForRebuild, IInv, ThreadsInOrder
<1>3. CASE EndRebuild(t)
  BY <1>0, <1>3, ReleaseWritable DEF EndRebuild, DbPC
<1> QED
  BY <1>0, <1>1, <1>2, <1>3, MakeWritableWritable, GuardWritable DEF Rebuild

LEMMA StartWritable ==
    ASSUME IInv, ThreadsInOrder, MadeWritable, Start
    PROVE  MadeWritable'
<1>0. Watcher \in Claims /\ Watcher \notin Rebuilder
  BY ThreadAssumption DEF Claims
<1>1. CASE ClaimAtStart
  BY <1>0, <1>1, TakeKeepsWritable DEF ClaimAtStart, IInv, ThreadsInOrder
<1>2. CASE BecomeReader \/ StartWithoutWatch
  BY <1>2, StillWritable DEF BecomeReader, StartWithoutWatch, innerVars, jsonVars, dbVars
<1>3. CASE ResolveContext \/ (StartServing /\ pc[Watcher] = "loading")
  <2>1. UNCHANGED <<lease, mark, gen, queryOnly, metaUnchecked>>
        /\ \E label \in {"loading", "watching"} : GoTo(Watcher, label)
    BY <1>3 DEF ResolveContext, StartServing, GoTo, innerVars, jsonVars, dbVars
  <2> QED
    BY <1>0, <2>1, MoveKeepsWritable DEF IInv, Relies
<1>4. CASE StartServing /\ pc[Watcher] # "loading"
  <2>1. UNCHANGED <<lease, mark, gen, queryOnly, metaUnchecked>> /\ pc' = pc
    BY <1>4 DEF StartServing, innerVars, jsonVars, dbVars, IInv, TypeOK
  <2> QED
    BY <2>1, StillWritable
<1>5. CASE ContextFails
  BY <1>0, <1>5, ReleaseWritable DEF ContextFails, DbPC
<1> QED
  BY <1>0, <1>1, <1>2, <1>3, <1>4, <1>5, MakeWritableWritable DEF Start

LEMMA WatcherWritable ==
    ASSUME IInv, MadeWritable, WatcherTask
    PROVE  MadeWritable'
<1>0. Watcher \in Claims
  BY DEF Claims
<1>1. CASE EndWatcher
  BY <1>0, <1>1, ReleaseWritable DEF EndWatcher, DbPC
<1>2. CASE UnlockDb(Watcher) \/ Unwind(Watcher) \/ QueueClaim(Watcher)
  BY <1>0, <1>2, GuardWritable
<1>3. CASE ~EndWatcher /\ ~UnlockDb(Watcher) /\ ~Unwind(Watcher) /\ ~QueueClaim(Watcher)
  <2>1. UNCHANGED <<lease, mark, gen, queryOnly, metaUnchecked>>
    BY <1>3 DEF WatcherTask, BeginBatch, LockForBatch, UnlockInBatch, EndBatch, PanicInBatch,
                LeaveLoop, PanicInTask, LockToEnd, PanicInEnd, RecordExit, WatcherGoes,
                innerVars, jsonVars, dbVars
  <2>2. \E label \in Working : GoTo(Watcher, label)
    BY <1>3 DEF WatcherTask, BeginBatch, LockForBatch, UnlockInBatch, EndBatch, PanicInBatch,
                LeaveLoop, PanicInTask, LockToEnd, PanicInEnd, RecordExit, WatcherGoes, Working
  <2> QED
    BY <1>0, <2>1, <2>2, MoveKeepsWritable DEF IInv, Relies, Working
<1> QED
  BY <1>1, <1>2, <1>3

LEMMA ShutDownWritable ==
    ASSUME IInv, MadeWritable, ShutDown
    PROVE  MadeWritable'
<1>0. Watcher \in Claims
  BY DEF Claims
<1>1. CASE BeginShutdown \/ StopTasks \/ AwaitWatcher \/ LockToShutDown
  BY <1>1, StillWritable
     DEF BeginShutdown, StopTasks, AwaitWatcher, LockToShutDown, MainGoes, innerVars, jsonVars, dbVars
<1>2. CASE Shutdown
  <2>1. dbGuard = "main" /\ dbGuard \notin Claims /\ UNCHANGED pc
    BY <1>2, ThreadAssumption DEF Shutdown, MainGoes, IInv, DbHeld
  <2> QED
    BY <2>1, OtherKeepsWritable DEF IInv
<1>3. CASE EndShutdown
  <2>1. UNCHANGED <<lease, mark, gen, queryOnly, metaUnchecked>>
        /\ (UNCHANGED pc \/ GoTo(Watcher, "gone"))
    BY <1>3 DEF EndShutdown, MainGoes, innerVars, jsonVars, GoTo, IInv, TypeOK
  <2> QED
    BY <1>0, <2>1, StillWritable, MoveKeepsWritable DEF IInv, Relies
<1> QED
  BY <1>1, <1>2, <1>3 DEF ShutDown

LEMMA AsideWritable ==
    ASSUME IInv, MadeWritable, Aside \/ UNCHANGED vars
    PROVE  MadeWritable'
<1>0. UNCHANGED <<pc, gen, metaUnchecked>>
  BY AsideIsStill
<1>1. CASE SettlePending
  <2>1. dbGuard \notin Claims
    BY <1>1, ThreadAssumption DEF SettlePending, SettlerGoes, IInv, DbHeld
  <2> QED
    BY <1>0, <2>1, OtherKeepsWritable DEF IInv
<1>2. CASE ~SettlePending
  <2>1. UNCHANGED <<lease, mark, queryOnly>>
    BY <1>2 DEF Aside, SetWatchError, Heartbeat, Settle, StartSettle, LockToSettle, EndSettle,
                Foreign, vars, innerVars, jsonVars, dbVars
  <2> QED
    BY <1>0, <2>1, StillWritable
<1> QED
  BY <1>1, <1>2

LEMMA StepWritable ==
    IInv /\ ThreadsInOrder /\ MadeWritable /\ [Next]_vars => MadeWritable'
<1> SUFFICES ASSUME IInv, ThreadsInOrder, MadeWritable, [Next]_vars PROVE MadeWritable'
  OBVIOUS
<1>1. CASE Aside \/ UNCHANGED vars
  BY <1>1, AsideWritable
<1> QED
  BY <1>1, RebuildWritable, StartWritable, WatcherWritable, ShutDownWritable DEF Next, Aside

(***************************************************************************)
(* The watcher's claim, and how its task ends                              *)
(***************************************************************************)

\* What the watcher's claim is to the rest of the server.
SameWatcher ==
    /\ UNCHANGED <<main, closed, ended, watcherExit, stopped>>
    /\ pc'[Watcher] = pc[Watcher] /\ gen'[Watcher] = gen[Watcher]
    /\ mark'["watcher"] = mark["watcher"]
    /\ \A g : <<"watcher", g>> \in pending' => <<"watcher", g>> \in pending
    /\ lease # "none" /\ mark["watcher"] # 0 => lease' # "none"

LEMMA SameWatcherKeeps ==
    ASSUME ThreadsInOrder, WatcherInOrder, SameWatcher
    PROVE  WatcherInOrder'
<1> USE DEF SameWatcher, ThreadsInOrder, WatcherInOrder
<1>1. WatcherClaims'
  <2>1. pc[Watcher] \in Working \cup {"loading"} => gen[Watcher] # 0
    BY DEF GuardsNumbered, HoldsGuard, Working, Claims
  <2> QED
    BY <2>1 DEF WatcherClaims
<1>2. QueuedIsOver'
  BY DEF QueuedIsOver
<1>3. EndKnown'
  BY DEF EndKnown
<1>4. StopKnown'
  BY DEF StopKnown
<1> QED
  BY <1>1, <1>2, <1>3, <1>4

\* A rebuild's claim is none of the watcher's.
LEMMA RebuildersClaim ==
    ASSUME NEW t \in Rebuilder
    PROVE  t # Watcher /\ Who(t) = "rebuild" /\ Claim(t) # <<"watcher", mark["watcher"]>>
           /\ Claim(t)[1] = "rebuild"
BY ThreadAssumption DEF Who, Claim

\* A rebuild's claim is lowered, and the watcher's keeps the lease.
LEMMA LowerRebuild ==
    ASSUME TypeOK, NEW t \in Rebuilder, Lower({Claim(t)}),
           lease # "none" /\ lease' = "none" => NoMarks(mark')
    PROVE  /\ UNCHANGED <<watcherExit, stopped>>
           /\ mark'["watcher"] = mark["watcher"]
           /\ lease # "none" /\ mark["watcher"] # 0 => lease' # "none"
<1>1. <<"watcher", mark["watcher"]>> \notin {Claim(t)}
  BY RebuildersClaim
<1>2. UNCHANGED <<watcherExit, stopped>> /\ mark'["watcher"] = mark["watcher"]
  BY <1>1, LowerEffect DEF Claimant
<1> QED
  BY <1>2 DEF NoMarks, Claimant

LEMMA RebuildSameWatcher ==
    ASSUME TypeOK, LeaseInOrder, NEW t \in Rebuilder, Rebuild(t)
    PROVE  SameWatcher
<1>0. t \in Claims /\ t # Watcher /\ Watcher \in Claims /\ Who(t) = "rebuild"
  BY RebuildersClaim DEF Claims
<1>1. CASE ClaimForRebuild(t)
  <2>1. TakeClaim(t)
    BY <1>1 DEF ClaimForRebuild
  <2>2. lease' # "none"
    BY <1>0, <2>1, TakeClaimKeepsOrder
  <2>3. mark'["watcher"] = mark["watcher"]
    BY <1>0, <2>1 DEF TakeClaim, TypeOK, Claimant
  <2>4. pc'[Watcher] = pc[Watcher] /\ gen'[Watcher] = gen[Watcher]
    BY <1>0, <2>1 DEF TakeClaim, GoTo, TypeOK
  <2> QED
    BY <2>1, <2>2, <2>3, <2>4 DEF SameWatcher, TakeClaim
<1>2. CASE EndRebuild(t)
  <2>1. Release(t)
    BY <1>2 DEF EndRebuild
  <2>2. Lower({Claim(t)}) /\ (lease # "none" /\ lease' = "none" => NoMarks(mark'))
    BY <2>1, ReleaseClaimsKeepsOrder DEF Release, ReleaseClaims
  <2>3. pc'[Watcher] = pc[Watcher] /\ UNCHANGED <<main, closed, ended, gen, pending>>
    BY <1>0, <2>1 DEF Release, ReleaseClaims, GoTo, TypeOK
  <2> QED
    BY <2>2, <2>3, LowerRebuild DEF SameWatcher
<1>3. CASE Abandon(t)
  <2>1. Lower({Claim(t)}) /\ (lease # "none" /\ lease' = "none" => NoMarks(mark'))
    BY <1>0, <1>3, AbandonKeepsOrder DEF Abandon
  <2>2. pc'[Watcher] = pc[Watcher] /\ UNCHANGED <<main, closed, ended, gen, pending>>
    BY <1>0, <1>3 DEF Abandon, GoTo, TypeOK
  <2> QED
    BY <2>1, <2>2, LowerRebuild DEF SameWatcher
<1>4. CASE QueueClaim(t)
  <2>1. pending' = pending \/ pending' = pending \cup {Claim(t)}
    BY <1>4 DEF QueueClaim, QueuedBy
  <2>2. \A g : <<"watcher", g>> \in pending' => <<"watcher", g>> \in pending
    BY <1>0, <2>1 DEF Claim
  <2>3. pc'[Watcher] = pc[Watcher]
    BY <1>0, <1>4 DEF QueueClaim, GoTo, TypeOK
  <2> QED
    BY <1>4, <2>2, <2>3 DEF SameWatcher, QueueClaim
<1>5. CASE MakeWritable(t) /\ ~Abandon(t)
  <2>1. UNCHANGED <<lease, mark, watcherExit, stopped>>
    BY <1>5 DEF MakeWritable, LockDb, Check, TurnOff, CannotTurnOff, MetaMatches, MetaDiffers, Undo,
                innerVars, jsonVars
  <2>2. \E label : GoTo(t, label)
    BY <1>0, <1>5, MakeWritablePlace
  <2>3. pc'[Watcher] = pc[Watcher]
    BY <1>0, <2>2 DEF GoTo, TypeOK
  <2> QED
    BY <1>0, <1>5, <2>1, <2>3, MakeWritablePlace DEF SameWatcher
<1>6. CASE RequestRebuild(t) \/ RefuseRebuild(t) \/ FreeSlot(t) \/ PanicInRebuild(t) \/ UnlockDb(t)
           \/ Unwind(t)
  <2>1. /\ UNCHANGED <<lease, mark, watcherExit, stopped, main, closed, ended, gen, pending>>
        /\ \E label : GoTo(t, label)
    BY <1>0, <1>6 DEF RequestRebuild, RefuseRebuild, FreeSlot, PanicInRebuild, UnlockDb, Unwind,
                      innerVars, jsonVars
  <2>2. pc'[Watcher] = pc[Watcher]
    BY <1>0, <2>1 DEF GoTo, TypeOK
  <2> QED
    BY <2>1, <2>2 DEF SameWatcher
<1> QED
  BY <1>1, <1>2, <1>3, <1>4, <1>5, <1>6 DEF Rebuild

\* The start: the watcher has no task yet, and no stop to record.
LEMMA StartWatcher ==
    ASSUME SlotInv, Start
    PROVE  WatcherInOrder'
<1> USE DEF SlotInv, IInv
<1>0. Watcher \in Claims /\ Who(Watcher) = "watcher" /\ Claim(Watcher) = <<"watcher", gen[Watcher]>>
  BY DEF Claims, Who, Claim
<1>1. CASE BecomeReader \/ StartWithoutWatch
  <2>1. /\ UNCHANGED <<closed, ended, watcherExit, stopped, pc, gen, mark, pending, lease>>
        /\ pc[Watcher] = "idle"
    BY <1>1 DEF BecomeReader, StartWithoutWatch, innerVars, jsonVars
  <2> QED
    BY <2>1 DEF WatcherInOrder, WatcherClaims, QueuedIsOver, EndKnown, StopKnown, Working
<1>2. CASE ClaimAtStart \/ MakeWritable(Watcher) \/ ContextFails
  <2>1. /\ pc[Watcher] \in Starting \cup {"idle"}
        /\ pc'[Watcher] \in Starting \cup {"released"}
        /\ UNCHANGED <<closed, ended, pending>>
    <3>1. CASE ClaimAtStart
      BY <1>0, <3>1 DEF ClaimAtStart, TakeClaim, GoTo, TypeOK, Starting
    <3>2. CASE MakeWritable(Watcher)
      BY <1>0, <3>2, MakeWritablePlace DEF GoTo, TypeOK, Making
    <3>3. CASE ContextFails
      BY <1>0, <3>3 DEF ContextFails, Release, ReleaseClaims, GoTo, TypeOK, Starting
    <3> QED
      BY <1>2, <3>1, <3>2, <3>3
  <2>2. ended = "no" /\ (~closed => watcherExit = 0)
        /\ \A g \in 0..MaxClaims : <<"watcher", g>> \notin pending
    BY <2>1 DEF WatcherInOrder, EndKnown, QueuedIsOver, Starting
  <2>3. watcherExit' \in {0, watcherExit}
    <3>1. CASE ClaimAtStart
      BY <3>1 DEF ClaimAtStart, TakeClaim
    <3>2. CASE Abandon(Watcher) \/ ContextFails
      <4>1. Lower({Claim(Watcher)})
        BY <3>2 DEF Abandon, ContextFails, Release, ReleaseClaims
      <4> QED
        BY <4>1, LowerEffect
    <3>3. CASE MakeWritable(Watcher) /\ ~Abandon(Watcher)
      BY <3>3 DEF MakeWritable, LockDb, Check, TurnOff, CannotTurnOff, MetaMatches, MetaDiffers, Undo,
                  innerVars, jsonVars
    <3> QED
      BY <1>2, <3>1, <3>2, <3>3
  <2> QED
    BY <2>1, <2>2, <2>3 DEF WatcherInOrder, WatcherClaims, QueuedIsOver, EndKnown, StopKnown, Working,
                            Starting
<1>3. CASE ResolveContext \/ StartServing
  <2>1. UNCHANGED <<lease, mark, watcherExit, stopped, closed, ended, gen, pending>>
    BY <1>3 DEF ResolveContext, StartServing, innerVars, jsonVars
  <2>2. \/ pc[Watcher] = "context" /\ pc'[Watcher] = "loading"
        \/ pc[Watcher] = "loading" /\ pc'[Watcher] = "watching" /\ main = "loading"
        \/ pc[Watcher] # "loading" /\ pc'[Watcher] = pc[Watcher]
    BY <1>0, <1>3 DEF ResolveContext, StartServing, GoTo, TypeOK
  <2>3. pc[Watcher] = "context" => lease # "none" /\ mark["watcher"] = gen[Watcher]
    BY <1>0 DEF ClaimsInOrder, MadeWritable
  <2>4. WatcherClaims'
    BY <2>1, <2>2, <2>3 DEF WatcherInOrder, WatcherClaims, Working
  <2>5. QueuedIsOver'
    BY <2>1, <2>2 DEF WatcherInOrder, QueuedIsOver
  <2>6. EndKnown'
    BY <2>1, <2>2 DEF WatcherInOrder, EndKnown, Starting
  <2>7. StopKnown'
    BY <2>1, <2>2 DEF WatcherInOrder, StopKnown
  <2> QED
    BY <2>4, <2>5, <2>6, <2>7 DEF WatcherInOrder
<1> QED
  BY <1>1, <1>2, <1>3 DEF Start

LEMMA WatcherWatcher ==
    ASSUME SlotInv, WatcherTask
    PROVE  WatcherInOrder'
<1> USE DEF SlotInv, IInv
<1>0. Watcher \in Claims /\ Who(Watcher) = "watcher" /\ Claim(Watcher) = <<"watcher", gen[Watcher]>>
  BY DEF Claims, Who, Claim
<1>1. CASE UnlockDb(Watcher)
  <2>1. /\ pc[Watcher] = "released" /\ pc'[Watcher] = "gone"
        /\ UNCHANGED <<closed, ended, watcherExit, stopped, gen, mark, pending>>
    BY <1>0, <1>1 DEF UnlockDb, GoTo, TypeOK, innerVars, jsonVars
  <2> QED
    BY <2>1 DEF WatcherInOrder, WatcherClaims, QueuedIsOver, EndKnown, StopKnown, Working, Starting
<1>2. CASE QueueClaim(Watcher)
  <2>1. /\ pc[Watcher] = "queueing" /\ pc'[Watcher] = "gone"
        /\ UNCHANGED <<closed, ended, watcherExit, stopped, gen, mark>>
        /\ pending' \subseteq pending \cup {<<"watcher", gen[Watcher]>>}
    BY <1>0, <1>2 DEF QueueClaim, QueuedBy, GoTo, TypeOK
  <2>2. ended = "panic" /\ mark["watcher"] = gen[Watcher] /\ gen[Watcher] # 0
    BY <1>0, <2>1 DEF WatcherInOrder, WatcherClaims, EndKnown, Working, ThreadsInOrder, GuardsNumbered,
                      HoldsGuard
  <2>3. QueuedIsOver'
    BY <2>1, <2>2 DEF WatcherInOrder, QueuedIsOver
  <2> QED
    BY <2>1, <2>2, <2>3 DEF WatcherInOrder, WatcherClaims, EndKnown, StopKnown, Working, Starting
<1>3. CASE EndWatcher
  <2>1. /\ pc[Watcher] = "endRelease" /\ pc'[Watcher] = "released"
        /\ UNCHANGED <<closed, ended, gen, pending>>
        /\ Lower({Claim(Watcher)})
    BY <1>0, <1>3 DEF EndWatcher, Release, ReleaseClaims, GoTo, TypeOK
  <2>2. mark["watcher"] = gen[Watcher] /\ gen[Watcher] # 0 /\ ended \in {"ok", "error"}
        /\ (~closed => watcherExit = IF ended = "error" THEN gen[Watcher] ELSE 0)
    BY <1>0, <2>1 DEF WatcherInOrder, WatcherClaims, EndKnown, Working, ThreadsInOrder, GuardsNumbered,
                      HoldsGuard
  <2>3. ~closed => /\ stopped' = IF watcherExit = mark["watcher"] THEN "error" ELSE "noError"
                   /\ watcherExit' = 0
    BY <1>0, <2>1, <2>2, LowerEffect
  <2>4. QueuedIsOver'
    BY <2>1 DEF WatcherInOrder, QueuedIsOver
  <2>5. EndKnown' /\ StopKnown'
    BY <2>1, <2>2, <2>3 DEF EndKnown, StopKnown, Starting
  <2> QED
    BY <2>1, <2>4, <2>5 DEF WatcherInOrder, WatcherClaims, Working
<1>4. CASE ~UnlockDb(Watcher) /\ ~QueueClaim(Watcher) /\ ~EndWatcher
  <2>1. /\ pc[Watcher] \in Working /\ pc'[Watcher] \in Working
        /\ UNCHANGED <<lease, mark, gen, pending, closed, stopped>>
    <3>1. \E label \in Working : GoTo(Watcher, label)
      BY <1>4 DEF WatcherTask, BeginBatch, LockForBatch, UnlockInBatch, EndBatch, PanicInBatch,
                LeaveLoop, PanicInTask, LockToEnd, PanicInEnd, RecordExit, Unwind, WatcherGoes,
                Working
    <3>2. pc'[Watcher] \in Working
      BY <1>0, <3>1 DEF GoTo, TypeOK
    <3>3. UNCHANGED <<lease, mark, gen, pending, closed, stopped>>
      BY <1>4 DEF WatcherTask, BeginBatch, LockForBatch, UnlockInBatch, EndBatch, PanicInBatch,
                LeaveLoop, PanicInTask, LockToEnd, PanicInEnd, RecordExit, Unwind, WatcherGoes,
                innerVars, jsonVars
    <3> QED
      BY <1>4, <3>2, <3>3, WatcherTaskPlace
  <2>2. lease # "none" /\ mark["watcher"] = gen[Watcher]
    BY <2>1 DEF WatcherInOrder, WatcherClaims
  <2>3. WatcherClaims' /\ QueuedIsOver' /\ StopKnown'
    BY <2>1, <2>2 DEF WatcherInOrder, WatcherClaims, QueuedIsOver, StopKnown, Working
  <2>4. EndKnown'
    <3>1. CASE RecordExit
      <4>1. /\ pc[Watcher] = "endDb" /\ pc'[Watcher] = "endRelease" /\ UNCHANGED <<ended, closed, gen>>
            /\ watcherExit' = IF ended = "error" THEN gen[Watcher] ELSE watcherExit
        BY <1>0, <2>2, <3>1 DEF RecordExit, ExitRecorded, GoTo, TypeOK
      <4> QED
        BY <4>1 DEF WatcherInOrder, EndKnown, Starting
    <3>2. CASE BeginBatch \/ LockForBatch \/ UnlockInBatch \/ EndBatch
      <4>1. /\ pc[Watcher] \in {"watching", "batch", "batchDb"} /\ pc'[Watcher] \in {"watching", "batch", "batchDb"}
            /\ UNCHANGED <<ended, closed, watcherExit>>
        BY <1>0, <3>2 DEF BeginBatch, LockForBatch, UnlockInBatch, EndBatch, WatcherGoes, GoTo, TypeOK,
                          innerVars, jsonVars
      <4> QED
        BY <4>1 DEF WatcherInOrder, EndKnown, Starting
    <3>3. CASE PanicInBatch \/ LeaveLoop
      <4>1. /\ pc[Watcher] # "endRelease" /\ pc'[Watcher] = "ending" /\ ended' \in {"ok", "error"}
            /\ UNCHANGED <<closed, watcherExit>>
        BY <1>0, <3>3 DEF PanicInBatch, LeaveLoop, WatcherGoes, GoTo, TypeOK, innerVars, jsonVars
      <4> QED
        BY <4>1 DEF WatcherInOrder, EndKnown, Starting
    <3>4. CASE PanicInTask \/ PanicInEnd \/ Unwind(Watcher)
      <4>1. /\ pc[Watcher] # "endRelease" /\ pc'[Watcher] \in {"unwinding", "queueing"}
            /\ ended' = "panic"
            /\ UNCHANGED <<closed, watcherExit>>
        BY <1>0, <3>4 DEF PanicInTask, PanicInEnd, Unwind, WatcherGoes, GoTo, TypeOK, innerVars, jsonVars,
                          WatcherInOrder, EndKnown
      <4> QED
        BY <4>1 DEF WatcherInOrder, EndKnown, Starting
    <3>5. CASE LockToEnd
      <4>1. /\ pc[Watcher] = "ending" /\ pc'[Watcher] = "endDb"
            /\ UNCHANGED <<ended, closed, watcherExit>>
        BY <1>0, <3>5 DEF LockToEnd, WatcherGoes, GoTo, TypeOK, innerVars, jsonVars
      <4> QED
        BY <4>1 DEF WatcherInOrder, EndKnown, Starting
    <3> QED
      BY <1>4, <3>1, <3>2, <3>3, <3>4, <3>5 DEF WatcherTask
  <2> QED
    BY <2>3, <2>4 DEF WatcherInOrder
<1> QED
  BY <1>1, <1>2, <1>3, <1>4

LEMMA ShutDownWatcher ==
    ASSUME SlotInv, ShutDown
    PROVE  WatcherInOrder'
<1> USE DEF SlotInv, IInv
<1>0. Watcher \in Claims
  BY DEF Claims
<1>1. /\ closed' /\ UNCHANGED <<gen, ended>> /\ pending' \subseteq pending
      /\ pc'[Watcher] = pc[Watcher] \/ (pc[Watcher] = "loading" /\ pc'[Watcher] = "gone")
      /\ main' \in {"shut", "done"} \/ UNCHANGED <<lease, mark>>
      /\ main' \in {"shut", "done"} => main \in {"locked", "shut"}
      /\ main' \notin {"shut", "done"} => main \notin {"shut", "done"}
  BY <1>0 DEF ShutDown, BeginShutdown, StopTasks, AwaitWatcher, LockToShutDown, Shutdown, EndShutdown,
         MainGoes, innerVars, jsonVars, dbVars, Closing, ThreadsInOrder, MainInOrder, TypeOK
<1>2. QueuedIsOver'
  BY <1>1 DEF WatcherInOrder, QueuedIsOver
<1>3. WatcherClaims'
  <2>1. CASE main' \in {"shut", "done"}
    BY <1>1, <2>1 DEF ThreadsInOrder, MainInOrder, WatcherOver, WatcherClaims, Working
  <2>2. CASE main' \notin {"shut", "done"}
    BY <1>1, <2>2 DEF WatcherInOrder, WatcherClaims, Working
  <2> QED
    BY <2>1, <2>2
<1>4. EndKnown' /\ StopKnown'
  BY <1>1 DEF WatcherInOrder, EndKnown, StopKnown, Starting
<1> QED
  BY <1>2, <1>3, <1>4 DEF WatcherInOrder

\* Only a settle touches the watcher's claim, and then its task is over.
LEMMA AsideWatcher ==
    ASSUME SlotInv, Aside \/ UNCHANGED vars
    PROVE  WatcherInOrder'
<1> USE DEF SlotInv, IInv
<1>0. UNCHANGED <<pc, gen, main, closed, ended>>
  BY AsideIsStill
<1>1. CASE SettlePending
  <2>1. pending' = {} /\ ReleaseClaims(pending) /\ Lower(pending)
    BY <1>1 DEF SettlePending, ReleaseClaims
  <2>2. CASE <<"watcher", mark["watcher"]>> \in pending
    <3>1. mark["watcher"] # 0 /\ pc[Watcher] = "gone" /\ ended = "panic"
      BY <2>2 DEF WatcherInOrder, QueuedIsOver, TypeOK, Claimant
    <3>2. ~closed => watcherExit = 0 /\ watcherExit' = 0 /\ stopped' = "noError"
      BY <2>1, <2>2, <3>1, LowerEffect DEF WatcherInOrder, EndKnown
    <3> QED
      BY <1>0, <2>1, <3>1, <3>2
         DEF WatcherInOrder, WatcherClaims, QueuedIsOver, EndKnown, StopKnown, Working, Starting
  <2>3. CASE <<"watcher", mark["watcher"]>> \notin pending
    <3>1. UNCHANGED <<stopped, watcherExit>> /\ mark'["watcher"] = mark["watcher"]
      BY <2>1, <2>3, LowerEffect DEF Claimant
    <3>2. lease # "none" /\ lease' = "none" => NoMarks(mark')
      BY <2>1, ReleaseClaimsKeepsOrder
    <3>3. SameWatcher
      BY <1>0, <2>1, <3>1, <3>2 DEF SameWatcher, NoMarks, Claimant
    <3> QED
      BY <3>3, SameWatcherKeeps
  <2> QED
    BY <2>2, <2>3
<1>2. CASE ~SettlePending
  <2>1. UNCHANGED <<lease, mark, pending, stopped, watcherExit>>
    BY <1>2 DEF Aside, SetWatchError, Heartbeat, Settle, StartSettle, LockToSettle, EndSettle,
                Foreign, vars, innerVars, jsonVars
  <2> QED
    BY <1>0, <2>1, SameWatcherKeeps DEF SameWatcher
<1> QED
  BY <1>1, <1>2

LEMMA StepWatcher == SlotInv /\ [Next]_vars => WatcherInOrder'
<1> SUFFICES ASSUME SlotInv, [Next]_vars PROVE WatcherInOrder'
  OBVIOUS
<1>1. CASE Aside \/ UNCHANGED vars
  BY <1>1, AsideWatcher
<1>2. CASE \E t \in Rebuilder : Rebuild(t)
  BY <1>2, RebuildSameWatcher, SameWatcherKeeps DEF SlotInv, IInv
<1> QED
  BY <1>1, <1>2, StartWatcher, WatcherWatcher, ShutDownWatcher DEF Next, Aside

(***************************************************************************)
(* The lease and writer.json                                               *)
(***************************************************************************)

LEMMA StillLease ==
    ASSUME LeaseInOrder, UNCHANGED <<lease, mark, jsonVars, kept>>
    PROVE  LeaseInOrder'
BY DEF LeaseInOrder, LeaseHasReason, JsonFollowsWatcher, jsonVars

LEMMA MakeWritableLease ==
    ASSUME TypeOK, LeaseInOrder, NEW t \in Claims, MakeWritable(t)
    PROVE  LeaseInOrder'
<1>1. CASE Abandon(t)
  BY <1>1, AbandonKeepsOrder
<1>2. CASE ~Abandon(t)
  <2>1. UNCHANGED <<lease, mark, jsonVars, kept>>
    BY <1>2 DEF MakeWritable, LockDb, Check, TurnOff, CannotTurnOff, MetaMatches, MetaDiffers, Undo,
                innerVars, jsonVars
  <2> QED
    BY <2>1, StillLease
<1> QED
  BY <1>1, <1>2

LEMMA RebuildLease ==
    ASSUME TypeOK, LeaseInOrder, NEW t \in Rebuilder, Rebuild(t)
    PROVE  LeaseInOrder'
<1>0. t \in Claims
  BY DEF Claims
<1>1. CASE ClaimForRebuild(t)
  BY <1>0, <1>1, TakeClaimKeepsOrder DEF ClaimForRebuild
<1>2. CASE EndRebuild(t)
  BY <1>2, ReleaseClaimsKeepsOrder DEF EndRebuild, Release
<1>3. CASE MakeWritable(t)
  BY <1>0, <1>3, MakeWritableLease
<1>4. CASE RequestRebuild(t) \/ RefuseRebuild(t) \/ PanicInRebuild(t) \/ UnlockDb(t) \/ Unwind(t)
           \/ QueueClaim(t) \/ FreeSlot(t)
  <2>1. UNCHANGED <<lease, mark, jsonVars, kept>>
    BY <1>4 DEF RequestRebuild, RefuseRebuild, PanicInRebuild, UnlockDb, Unwind, QueueClaim,
                FreeSlot, innerVars, jsonVars
  <2> QED
    BY <2>1, StillLease
<1> QED
  BY <1>1, <1>2, <1>3, <1>4 DEF Rebuild

LEMMA StartLease ==
    ASSUME TypeOK, LeaseInOrder, Start
    PROVE  LeaseInOrder'
<1>0. Watcher \in Claims
  BY DEF Claims
<1>1. CASE ClaimAtStart
  BY <1>0, <1>1, TakeClaimKeepsOrder DEF ClaimAtStart
<1>2. CASE ContextFails
  BY <1>2, ReleaseClaimsKeepsOrder DEF ContextFails, Release
<1>3. CASE MakeWritable(Watcher)
  BY <1>0, <1>3, MakeWritableLease
<1>4. CASE BecomeReader \/ StartWithoutWatch \/ ResolveContext \/ StartServing
  <2>1. UNCHANGED <<lease, mark, jsonVars, kept>>
    BY <1>4 DEF BecomeReader, StartWithoutWatch, ResolveContext, StartServing, innerVars, jsonVars
  <2> QED
    BY <2>1, StillLease
<1> QED
  BY <1>1, <1>2, <1>3, <1>4 DEF Start

LEMMA WatcherLease ==
    ASSUME TypeOK, LeaseInOrder, WatcherTask
    PROVE  LeaseInOrder'
<1>1. CASE EndWatcher
  BY <1>1, ReleaseClaimsKeepsOrder DEF EndWatcher, Release
<1>2. CASE ~EndWatcher
  <2>1. UNCHANGED <<lease, mark, jsonVars, kept>>
    BY <1>2 DEF WatcherTask, BeginBatch, LockForBatch, UnlockInBatch, EndBatch, PanicInBatch,
                LeaveLoop, PanicInTask, LockToEnd, PanicInEnd, RecordExit, UnlockDb, Unwind,
                QueueClaim, WatcherGoes, innerVars, jsonVars
  <2> QED
    BY <2>1, StillLease
<1> QED
  BY <1>1, <1>2

LEMMA ShutDownLease ==
    ASSUME TypeOK, LeaseInOrder, ShutDown
    PROVE  LeaseInOrder'
<1>1. CASE Shutdown
  <2>1. mark' = [c \in Claimant |-> 0] /\ ReleaseIfUnmarked
    BY <1>1 DEF Shutdown
  <2> QED
    BY <2>1, ReleaseKeepsOrder, MaxClaimsAssumption
<1>2. CASE ~Shutdown
  <2>1. UNCHANGED <<lease, mark, jsonVars, kept>>
    BY <1>2 DEF ShutDown, BeginShutdown, StopTasks, AwaitWatcher, LockToShutDown, EndShutdown,
                innerVars, jsonVars
  <2> QED
    BY <2>1, StillLease
<1> QED
  BY <1>1, <1>2

LEMMA AsideLease ==
    ASSUME TypeOK, LeaseInOrder, Aside \/ UNCHANGED vars
    PROVE  LeaseInOrder'
<1>1. CASE \E error \in BOOLEAN : SetWatchError(error)
  <2>1. PICK error \in BOOLEAN : SetWatchError(error)
    BY <1>1
  <2>2. PICK reported : reported = watchReported'
    OBVIOUS
  <2>3. UNCHANGED <<lease, mark, kept>>
    BY <2>1 DEF SetWatchError
  <2>4. CASE lease # "none" /\ TouchHeartbeat(WatchingNow(reported, error))
    BY <2>3, <2>4, TouchKeepsOrder
  <2>5. CASE UNCHANGED jsonVars
    BY <2>3, <2>5, StillLease
  <2> QED
    BY <2>1, <2>2, <2>4, <2>5 DEF SetWatchError
<1>2. CASE Heartbeat
  <2>1. /\ lease # "none" /\ TouchHeartbeat(WatchingNow(watchReported, watchError))
        /\ UNCHANGED <<lease, mark, kept>>
    BY <1>2 DEF Heartbeat
  <2> QED
    BY <2>1, TouchKeepsOrder
<1>3. CASE SettlePending
  BY <1>3, ReleaseClaimsKeepsOrder DEF SettlePending
<1>4. CASE StartSettle \/ LockToSettle \/ EndSettle \/ UNCHANGED vars
  <2>1. UNCHANGED <<lease, mark, jsonVars, kept>>
    BY <1>4 DEF StartSettle, LockToSettle, EndSettle, vars, innerVars, jsonVars
  <2> QED
    BY <2>1, StillLease
<1>5. CASE Foreign
  <2>1. UNCHANGED <<lease, mark, kept>> /\ (json' = NoJson \/ UNCHANGED jsonVars)
    BY <1>5 DEF Foreign, Written, innerVars
  <2> QED
    BY <2>1 DEF LeaseInOrder, LeaseHasReason, JsonFollowsWatcher, NoJson, jsonVars
<1> QED
  BY <1>1, <1>2, <1>3, <1>4, <1>5 DEF Aside, Settle

LEMMA StepLease == TypeOK /\ LeaseInOrder /\ [Next]_vars => LeaseInOrder'
<1> SUFFICES ASSUME TypeOK, LeaseInOrder, [Next]_vars PROVE LeaseInOrder'
  OBVIOUS
<1>1. CASE Aside \/ UNCHANGED vars
  BY <1>1, AsideLease
<1> QED
  BY <1>1, RebuildLease, StartLease, WatcherLease, ShutDownLease DEF Next, Aside

(***************************************************************************)
(* The claims' invariant, and what follows from it                         *)
(***************************************************************************)

LEMMA InitSlotInv == Init => SlotInv
<1> SUFFICES ASSUME Init PROVE SlotInv
  OBVIOUS
<1>1. IInv
  BY InitIInv
<1>2. \A t \in Claims : pc[t] = "idle"
  BY DEF Init
<1>3. pc[Watcher] = "idle"
  BY <1>2 DEF Claims
<1>4. ThreadsInOrder
  BY <1>2, <1>3 DEF Init, ThreadsInOrder, OneRebuild, MainInOrder, GuardsNumbered, HoldsGuard, WatcherOver,
                    Starting, Closing, Claims
<1>5. ClaimsInOrder
  BY <1>2 DEF Init, ClaimsInOrder, MadeWritable, MarksOwned
<1>6. WatcherInOrder
  BY <1>3 DEF Init, WatcherInOrder, WatcherClaims, QueuedIsOver, EndKnown, StopKnown, Working, Starting
<1>7. LeaseInOrder
  BY DEF Init, LeaseInOrder, LeaseHasReason, JsonFollowsWatcher, jsonVars, NoJson
<1> QED
  BY <1>1, <1>4, <1>5, <1>6, <1>7 DEF SlotInv

LEMMA StepSlotInv == SlotInv /\ [Next]_vars => SlotInv'
<1> SUFFICES ASSUME SlotInv, [Next]_vars PROVE SlotInv'
  OBVIOUS
<1>1. IInv /\ TypeOK /\ ThreadsInOrder /\ MadeWritable /\ MarksOwned /\ LeaseInOrder
  BY DEF SlotInv, IInv, ClaimsInOrder
<1>2. IInv' /\ ThreadsInOrder' /\ WatcherInOrder' /\ LeaseInOrder'
  BY <1>1, StepIInv, StepThreads, StepWatcher, StepLease
<1>3. ClaimsInOrder'
  BY <1>1, StepOwners, StepWritable DEF ClaimsInOrder
<1> QED
  BY <1>2, <1>3 DEF SlotInv

\* However a claim's thread ends (a release, a failed start, a refused rebuild,
\* a panic), its mark is lowered or queued: no mark keeps the lease for good.
THEOREM MarksOwnedTheorem == Spec => []MarksOwned
<1>1. SlotInv => MarksOwned
  BY DEF SlotInv, ClaimsInOrder
<1> QED
  BY <1>1, InitSlotInv, StepSlotInv, PTL DEF Spec

\* A lease without a claim is one whose query_only could not be turned on.
THEOREM LeaseHasReasonTheorem == Spec => []LeaseHasReason
<1>1. SlotInv => LeaseHasReason
  BY DEF SlotInv, LeaseInOrder
<1> QED
  BY <1>1, InitSlotInv, StepSlotInv, PTL DEF Spec

\* Once make_writable has let a rebuild write, no release, settle, shutdown or
\* other claim takes from it what it looked at there.
THEOREM RebuildCanWriteTheorem == Spec => []RebuildCanWrite
<1>1. SlotInv => RebuildCanWrite
  <2> SUFFICES ASSUME SlotInv, NEW t \in Rebuilder, pc[t] = "writing"
               PROVE  /\ ~queryOnly /\ lease # "none" /\ ~metaUnchecked
                      /\ Claim(t) = <<"rebuild", mark["rebuild"]>> /\ dbGuard = t
    BY DEF RebuildCanWrite
  <2>1. t \in Claims /\ Who(t) = "rebuild"
    BY RebuildersClaim DEF Claims
  <2>2. dbGuard = t
    BY <2>1 DEF SlotInv, IInv, DbHeld, DbPC
  <2>3. ~queryOnly /\ lease # "none" /\ ~metaUnchecked /\ mark["rebuild"] = gen[t]
    BY <2>1 DEF SlotInv, ClaimsInOrder, MadeWritable
  <2> QED
    BY <2>1, <2>2, <2>3 DEF Claim
<1> QED
  BY <1>1, InitSlotInv, StepSlotInv, PTL DEF Spec

\* The lease and the watcher's claim last through each of its batches, which
\* take the database mutex again and again.
THEOREM BatchKeepsLeaseTheorem == Spec => []BatchKeepsLease
<1>1. SlotInv => BatchKeepsLease
  BY DEF SlotInv, WatcherInOrder, WatcherClaims, BatchKeepsLease, Working, Claim, Who
<1> QED
  BY <1>1, InitSlotInv, StepSlotInv, PTL DEF Spec

\* The debug_assert of WriterSlot::claim: the rebuild slot keeps a second rebuild
\* out until the first one's guard is gone.
THEOREM NoSecondLiveClaimTheorem == Spec => []NoSecondLiveClaim
<1>1. SlotInv => NoSecondLiveClaim
  <2> SUFFICES ASSUME SlotInv, NEW t \in Rebuilder, pc[t] = "slotted", ~closed, mark["rebuild"] # 0,
                      <<"rebuild", mark["rebuild"]>> \notin pending
               PROVE  FALSE
    BY DEF NoSecondLiveClaim
  <2>1. PICK s \in Claims : Claim(s) = <<"rebuild", mark["rebuild"]>> /\ HoldsGuard(s)
    BY DEF SlotInv, ClaimsInOrder, MarksOwned, Claimant
  <2>2. s \in Rebuilder /\ pc[s] # "idle" /\ pc[s] # "slotted"
    BY <2>1 DEF Claim, Who, Claims, HoldsGuard
  <2>3. s = t
    BY <2>2 DEF SlotInv, ThreadsInOrder, OneRebuild
  <2> QED
    BY <2>2, <2>3
<1> QED
  BY <1>1, InitSlotInv, StepSlotInv, PTL DEF Spec

\* A watcher that ended while the server goes on is reported as stopped, with its
\* error if it had one, by whichever of its release and a settle came to it.
THEOREM StopRecordedTheorem == Spec => []StopRecorded
<1>1. SlotInv => StopRecorded
  BY DEF SlotInv, WatcherInOrder, StopKnown, StopRecorded
<1> QED
  BY <1>1, InitSlotInv, StepSlotInv, PTL DEF Spec

\* writer.json speaks of the lease there is, and stops saying that a server watches in the step
\* that lowers the watcher's mark, whoever keeps the lease after it.  What is left behind is the
\* work of a failed removal, or of a lease kept because query_only could not be turned on, and
\* the next write or removal that succeeds ends it.
THEOREM JsonFollowsWatcherTheorem == Spec => []JsonFollowsWatcher
<1>1. SlotInv => JsonFollowsWatcher
  BY DEF SlotInv, LeaseInOrder
<1> QED
  BY <1>1, InitSlotInv, StepSlotInv, PTL DEF Spec

\* Only a lowered claim records a stop.
LEMMA LowersOrKeepsStop ==
    ASSUME Next
    PROVE  UNCHANGED stopped \/ \E claims : Lower(claims)
<1>0. ASSUME NEW t \in Claims, MakeWritable(t) \/ UnlockDb(t) \/ Unwind(t) \/ QueueClaim(t)
      PROVE  UNCHANGED stopped \/ \E claims : Lower(claims)
  BY <1>0 DEF MakeWritable, LockDb, Check, TurnOff, CannotTurnOff, MetaMatches, MetaDiffers, Undo,
              Abandon, UnlockDb, Unwind, QueueClaim, innerVars, jsonVars
<1>1. CASE \E t \in Rebuilder : Rebuild(t)
  BY <1>0, <1>1 DEF Rebuild, RequestRebuild, ClaimForRebuild, TakeClaim, RefuseRebuild, EndRebuild, PanicInRebuild,
              FreeSlot, Release, ReleaseClaims, innerVars, jsonVars, Claims
<1>2. CASE Start
  BY <1>0, <1>2 DEF Start, ClaimAtStart, TakeClaim, BecomeReader, StartWithoutWatch, ResolveContext,
              ContextFails, StartServing, Release, ReleaseClaims, innerVars, jsonVars, Claims
<1>3. CASE WatcherTask
  BY <1>0, <1>3 DEF WatcherTask, BeginBatch, LockForBatch, UnlockInBatch, EndBatch, PanicInBatch, LeaveLoop,
              PanicInTask, LockToEnd, PanicInEnd, RecordExit, EndWatcher, WatcherGoes, Release,
              ReleaseClaims, innerVars, jsonVars, Claims
<1>4. CASE Aside
  BY <1>4 DEF Aside, SetWatchError, Heartbeat, Settle, StartSettle, LockToSettle, SettlePending,
              EndSettle, Foreign, ReleaseClaims, innerVars, jsonVars
<1>5. CASE ShutDown
  BY <1>5 DEF ShutDown, BeginShutdown, StopTasks, AwaitWatcher, LockToShutDown, Shutdown, EndShutdown,
              innerVars, jsonVars
<1> QED
  BY <1>1, <1>2, <1>3, <1>4, <1>5 DEF Next, Aside

\* Once shutdown has begun, a release or a settle that comes late does not report
\* the watcher as stopped.
THEOREM NoStopOnceClosedTheorem == Spec => NoStopOnceClosed
<1>1. TypeOK /\ [Next]_vars => [closed => stopped' = stopped]_vars
  <2> SUFFICES ASSUME TypeOK, Next, closed PROVE stopped' = stopped
    OBVIOUS
  <2>1. ASSUME NEW claims, Lower(claims) PROVE stopped' = stopped
    BY <2>1, LowerEffect
  <2> QED
    BY <2>1, LowersOrKeepsStop
<1> QED
  BY <1>1, TypeCorrect, PTL DEF Spec, NoStopOnceClosed
===============================================================================
