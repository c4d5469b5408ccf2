------------------------------ MODULE WriterSlot ------------------------------
(***************************************************************************)
(* The writer slot of one `groove serve` (server/writer_slot.rs and        *)
(* server/writer_role.rs): the claims that hold the writer lease inside    *)
(* the server (the watcher's, and one of each rebuild_index call), and the *)
(* query_only switch of the one shared connection.                         *)
(*                                                                         *)
(* The threads are the watcher (whose claim is taken while the server      *)
(* starts), the rebuild_index requests, the janitor with the settle it     *)
(* starts, the watcher's bridge thread and the server's own start and      *)
(* shutdown.  They share the database mutex (dbGuard) and the slot's inner *)
(* mutex; a critical section of the inner mutex is one action, which is    *)
(* why that mutex is not a variable.  Taking the database mutex, and every *)
(* step made while it is held, is an action of its own.                    *)
(*                                                                         *)
(* What can fail is named by Faults, so that a run can say which failures  *)
(* it considers.                                                           *)
(***************************************************************************)
EXTENDS Naturals

CONSTANTS Watcher,      \* the watcher's claim and its task
          Rebuilder,    \* rebuild_index requests; each may come again
          MaxClaims,    \* bound on the claims ever made
          Faults        \* the failures considered, out of FaultKind

FaultKind == {
    "on",       \* PRAGMA query_only = on fails
    "off",      \* PRAGMA query_only = off fails
    "moved",    \* the connection is not on the leased file (any more)
    "meta",     \* the embedding meta does not match
    "context",  \* the context mode cannot be resolved
    "models",   \* the models do not load
    "io",       \* the lock file cannot be opened or locked
    "json",     \* writer.json cannot be written, or cannot be removed
    "panic"}    \* a thread panics

Claims == {Watcher} \cup Rebuilder

ASSUME ThreadAssumption == /\ Watcher \notin Rebuilder
                           /\ Claims \cap {"settler", "main", "nobody"} = {}
ASSUME MaxClaimsAssumption == MaxClaims \in Nat
ASSUME FaultsAssumption == Faults \subseteq FaultKind

VARIABLES
    \* What the inner mutex guards (SlotInner).
    lease,          \* the role the lease is held for, or "none"
    said,           \* HolderInfo.watching as this process last set it
    mark,           \* the generation of each claimant's live claim, 0 if none
    nextGen,        \* the last generation given out
    metaUnchecked,  \* the lease is new and the embedding meta not yet checked
    pending,        \* claims <<claimant, generation>> a panic left queued
    closed,         \* shutdown has begun
    reader,         \* the first claim failed: a reader until restarted
    watchError,     \* the watch could not be registered
    watchReported,  \* the watcher has reported its watch registered
    watcherExit,    \* the generation whose task ended with an error, 0 if none
    stopped,        \* watcher_stopped: "no", "error" or "noError"
    held,           \* the atomic copy of lease # "none" that status reads
    \* Files and connection.
    json,           \* what writer.json says of this server
    foreign,        \* another process holds the OS lock
    queryOnly,      \* PRAGMA query_only of the shared connection
    dbGuard,        \* who holds the database mutex
    \* Threads.
    pc,             \* where each claim's thread is
    gen,            \* the generation of the claim it holds or held
    slotTaken,      \* indexing_state: a rebuild runs
    settler,        \* where the janitor's settle is
    main,           \* where the server's start and shutdown are
    \* History.
    ended,          \* how the watcher's task ended
    kept,           \* query_only could not be turned on: the lease was kept
    overdue         \* writer.json was left as it was when it should have changed

innerVars == <<lease, said, mark, nextGen, metaUnchecked, pending, closed, reader,
               watchError, watchReported, watcherExit, stopped, held>>
dbVars == <<queryOnly, dbGuard>>
threadVars == <<pc, gen, slotTaken, settler, main, ended>>
jsonVars == <<json, overdue>>
vars == <<innerVars, jsonVars, foreign, dbVars, threadVars, kept>>

Claimant == {"watcher", "rebuild"}
Who(t) == IF t = Watcher THEN "watcher" ELSE "rebuild"

Role == {"serve", "rebuild"}
Watching == {"unsaid", "yes", "no"}
NoJson == [role |-> "absent", watching |-> "unsaid"]
Json == {NoJson} \cup [role : Role, watching : Watching]

PC == {"idle", "slotted", "claimed",            \* before the database mutex
       "checking", "sql", "sqlMeta", "meta",    \* make_writable
       "undo", "undone", "notUndone",           \* abandon
       "writing", "released",                   \* a rebuild, under the mutex
       "unwinding", "queueing", "freeing",      \* after a panic, and the reply
       "context", "loading",                    \* the server's start
       "watching", "batch", "batchDb",          \* the watcher's loop
       "ending", "endDb", "endRelease", "gone"} \* the end of its task

\* A thread that holds the database mutex in these places.
DbPC == {"checking", "sql", "sqlMeta", "meta", "undo", "undone", "notUndone",
         "writing", "released", "unwinding", "context", "batchDb", "endDb",
         "endRelease"}

Main == {"claiming", "loading", "serving", "begun", "stopping", "joined",
         "locked", "shut", "done", "failed"}

\* The types of the variables; the status copy of the lease is up to date
\* whenever the inner mutex is free, and the mutex holder is where it says.
TypeOK ==
    /\ lease \in Role \cup {"none"}
    /\ said \in Watching
    /\ mark \in [Claimant -> 0..MaxClaims]
    /\ nextGen \in 0..MaxClaims
    /\ metaUnchecked \in BOOLEAN
    /\ pending \subseteq Claimant \X (0..MaxClaims)
    /\ closed \in BOOLEAN
    /\ reader \in BOOLEAN
    /\ watchError \in BOOLEAN
    /\ watchReported \in BOOLEAN
    /\ watcherExit \in 0..MaxClaims
    /\ stopped \in {"no", "error", "noError"}
    /\ held = (lease # "none")
    /\ json \in Json
    /\ foreign \in BOOLEAN
    /\ queryOnly \in BOOLEAN
    /\ dbGuard \in Claims \cup {"settler", "main", "nobody"}
    /\ pc \in [Claims -> PC]
    /\ gen \in [Claims -> 0..MaxClaims]
    /\ slotTaken \in BOOLEAN
    /\ settler \in {"idle", "queued", "locked", "settled"}
    /\ main \in Main
    /\ ended \in {"no", "ok", "error", "panic"}
    /\ kept \in BOOLEAN
    /\ overdue \in BOOLEAN

Init ==
    /\ lease = "none"
    /\ said = "unsaid"
    /\ mark = [c \in Claimant |-> 0]
    /\ nextGen = 0
    /\ metaUnchecked = FALSE
    /\ pending = {}
    /\ closed = FALSE
    /\ reader = FALSE
    /\ watchError = FALSE
    /\ watchReported = FALSE
    /\ watcherExit = 0
    /\ stopped = "no"
    /\ held = FALSE
    /\ json = NoJson
    /\ foreign \in BOOLEAN
    /\ queryOnly = TRUE
    /\ dbGuard = "nobody"
    /\ pc = [t \in Claims |-> "idle"]
    /\ gen = [t \in Claims |-> 0]
    /\ slotTaken = FALSE
    /\ settler = "idle"
    /\ main = "claiming"
    /\ ended = "no"
    /\ kept = FALSE
    /\ overdue = FALSE

Fault(kind) == kind \in Faults

GoTo(t, label) == pc' = [pc EXCEPT ![t] = label]

(***************************************************************************)
(* The parts the slot's operations are made of.  Each of them describes a  *)
(* piece of a critical section of the inner mutex.                         *)
(***************************************************************************)

Written(record) == json' = record /\ overdue' = FALSE

\* A removal that fails is not looked at, and leaves what is there.
Remove ==
    \/ Written(NoJson)
    \/ Fault("json") /\ UNCHANGED json /\ overdue' = TRUE

\* writer.json is replaced; a failed write removes the previous one.
Publish(role, watching) ==
    \/ Written([role |-> role, watching |-> watching])
    \/ Fault("json") /\ Remove

\* The heartbeat rewrites it; a failed write leaves the previous one.
TouchHeartbeat(watching) ==
    /\ said' = watching
    /\ \/ Written([role |-> lease, watching |-> watching])
       \/ Fault("json") /\ UNCHANGED jsonVars

NoMarks(m) == \A c \in Claimant : m[c] = 0

RoleOf(m) == IF m["watcher"] # 0 THEN "serve" ELSE "rebuild"

\* Mutant: writer.json keeps the role the lease was taken for.
SyncRole_Skipped == UNCHANGED <<lease, jsonVars>>

\* With some mark up, writer.json follows the role the marks call for.
SyncRole ==
    IF lease # "none" /\ ~NoMarks(mark') /\ lease # RoleOf(mark')
    THEN lease' = RoleOf(mark') /\ Publish(RoleOf(mark'), said)
    ELSE UNCHANGED <<lease, jsonVars>>

\* Mutant: a write to the status copy is forgotten.
SyncHeld_Skipped == UNCHANGED held

SyncHeld == held' = (lease' # "none")

\* The lease goes, and writer.json with it.
DropLease ==
    /\ lease' = "none"
    /\ Remove
    /\ kept' = FALSE

\* Mutant: the lease goes even if query_only could not be turned on.
KeepLease_Dropped == DropLease

\* query_only could not be turned on: the lease stays, and writer.json until the heartbeat.
KeepLease ==
    /\ kept' = TRUE
    /\ overdue' = TRUE
    /\ UNCHANGED <<lease, json>>

\* query_only on, then the lease goes.
TurnOnAndDrop ==
    \/ queryOnly' = TRUE /\ DropLease
    \/ Fault("on") /\ KeepLease /\ UNCHANGED queryOnly

\* Mutant: whoever released the claim, the lease stays for the next one.
ReleaseIfUnmarked_NeverDrops == SyncRole /\ UNCHANGED <<queryOnly, kept>>

\* With no mark left, the lease is given up; otherwise only the role follows.
ReleaseIfUnmarked ==
    IF NoMarks(mark') /\ lease # "none"
    THEN TurnOnAndDrop
    ELSE SyncRole /\ UNCHANGED <<queryOnly, kept>>

\* Mutant: a claim lowered during shutdown records a stop, too.
RecordsStop_Always(lowered) == "watcher" \in lowered

\* A lowered watcher's mark outside shutdown records the stop.
RecordsStop(lowered) == "watcher" \in lowered /\ ~closed

\* Lower the marks that still hold the generation of one of these claims.
Lower(claims) ==
    LET lowered == {c \in Claimant : <<c, mark[c]>> \in claims}
    IN  /\ mark' = [c \in Claimant |-> IF c \in lowered THEN 0 ELSE mark[c]]
        /\ IF RecordsStop(lowered)
           THEN /\ stopped' = IF watcherExit = mark["watcher"] THEN "error"
                                                               ELSE "noError"
                /\ watcherExit' = 0
           ELSE UNCHANGED <<stopped, watcherExit>>

Claim(t) == <<Who(t), gen[t]>>

\* What SlotInner::watching says, for HolderInfo.watching.
WatchingNow(reported, error) ==
    CASE \/ mark["watcher"] = 0
         \/ <<"watcher", mark["watcher"]>> \in pending
         \/ stopped # "no"
         \/ error          -> "no"
      [] OTHER             -> IF reported THEN "yes" ELSE "unsaid"

(***************************************************************************)
(* WriterSlot::claim                                                       *)
(***************************************************************************)

\* The lease is there already, or is taken from the operating system.
LeaseForClaim ==
    IF lease = "none"
    THEN /\ ~foreign
         /\ lease' = RoleOf(mark')
         /\ Publish(RoleOf(mark'), "unsaid")
         /\ said' = "unsaid"
         /\ metaUnchecked' = TRUE
    ELSE SyncRole /\ UNCHANGED <<said, metaUnchecked>>

TakeClaim(t) ==
    /\ ~closed
    /\ ~reader
    /\ nextGen < MaxClaims
    /\ nextGen' = nextGen + 1
    /\ mark' = [mark EXCEPT ![Who(t)] = nextGen + 1]
    /\ gen' = [gen EXCEPT ![t] = nextGen + 1]
    /\ watchReported' = (watchReported /\ t # Watcher)
    /\ LeaseForClaim
    /\ SyncHeld
    /\ GoTo(t, "claimed")
    /\ UNCHANGED <<pending, closed, reader, watchError, watcherExit, stopped,
                   foreign, dbVars, slotTaken, settler, main, ended, kept>>

\* The lock of the operating system is held elsewhere, or fails.
CannotAcquire == lease = "none" /\ (foreign \/ Fault("io"))

(***************************************************************************)
(* WriterSlot::make_writable, under the database mutex                     *)
(***************************************************************************)

\* Where a claim made writable goes on.
AfterWritable(t) == IF t = Watcher THEN "context" ELSE "writing"

LockDb(t) ==
    /\ pc[t] = "claimed"
    /\ dbGuard = "nobody"
    /\ dbGuard' = t
    /\ GoTo(t, "checking")
    /\ UNCHANGED <<innerVars, jsonVars, foreign, queryOnly, gen, slotTaken, settler,
                   main, ended, kept>>

\* What it does next, from one look at the slot: a guard that outlived
\* shutdown or its mark leaves everything alone.
AfterCheck(t) ==
    CASE closed \/ mark[Who(t)] # gen[t] -> "released"
      [] lease = "none"                  -> "undo"
      [] OTHER                           -> IF metaUnchecked THEN "sqlMeta" ELSE "sql"

Check(t) ==
    /\ pc[t] = "checking"
    /\ GoTo(t, AfterCheck(t))
    /\ UNCHANGED <<innerVars, jsonVars, foreign, dbVars, gen, slotTaken, settler, main,
                   ended, kept>>

\* Mutant: a lease that was there before the claim is taken for writable.
TurnsOff_NewLeaseOnly(t) == IF pc[t] = "sqlMeta" THEN FALSE ELSE queryOnly

\* What a successful switch makes of query_only.
TurnsOff(t) == FALSE

TurnOff(t) ==
    /\ pc[t] \in {"sql", "sqlMeta"}
    /\ queryOnly' = TurnsOff(t)
    /\ GoTo(t, IF pc[t] = "sqlMeta" THEN "meta" ELSE AfterWritable(t))
    /\ UNCHANGED <<innerVars, jsonVars, foreign, dbGuard, gen, slotTaken, settler, main,
                   ended, kept>>

\* The connection is not on the leased file, or the pragma fails.
CannotTurnOff(t) ==
    /\ pc[t] \in {"sql", "sqlMeta"}
    /\ Fault("moved") \/ Fault("off")
    /\ GoTo(t, "undo")
    /\ UNCHANGED <<innerVars, jsonVars, foreign, dbVars, gen, slotTaken, settler, main,
                   ended, kept>>

MetaMatches(t) ==
    /\ pc[t] = "meta"
    /\ metaUnchecked' = FALSE
    /\ GoTo(t, AfterWritable(t))
    /\ UNCHANGED <<lease, said, mark, nextGen, pending, closed, reader, watchError,
                   watchReported, watcherExit, stopped, held, jsonVars, foreign, dbVars,
                   gen, slotTaken, settler, main, ended, kept>>

MetaDiffers(t) ==
    /\ pc[t] = "meta"
    /\ Fault("meta")
    /\ GoTo(t, "undo")
    /\ UNCHANGED <<innerVars, jsonVars, foreign, dbVars, gen, slotTaken, settler, main,
                   ended, kept>>

\* Where make_writable is in it, between the critical sections of the inner mutex.
MakingWritable == {"checking", "sql", "sqlMeta", "meta", "undo", "undone", "notUndone"}

\* WriterSlot::abandon: query_only on, whoever else has a claim, ...
Undo(t) ==
    /\ pc[t] = "undo"
    /\ \/ queryOnly' = TRUE /\ GoTo(t, "undone")
       \/ Fault("on") /\ UNCHANGED queryOnly /\ GoTo(t, "notUndone")
    /\ UNCHANGED <<innerVars, jsonVars, foreign, dbGuard, gen, slotTaken, settler, main,
                   ended, kept>>

\* ... then the mark lowered, and the lease dropped with the last one.
Abandon(t) ==
    /\ pc[t] \in {"undone", "notUndone"}
    /\ Lower({Claim(t)})
    /\ IF NoMarks(mark') /\ lease # "none"
       THEN IF pc[t] = "undone" THEN DropLease ELSE KeepLease
       ELSE SyncRole /\ UNCHANGED kept
    /\ SyncHeld
    /\ GoTo(t, "released")
    /\ UNCHANGED <<said, nextGen, metaUnchecked, pending, closed, reader, watchError,
                   watchReported, foreign, dbVars, gen, slotTaken, settler, main,
                   ended>>

MakeWritable(t) == LockDb(t) \/ Check(t) \/ TurnOff(t) \/ CannotTurnOff(t)
                   \/ MetaMatches(t) \/ MetaDiffers(t) \/ Undo(t) \/ Abandon(t)

(***************************************************************************)
(* WriterSlot::release, and a guard dropped without it                     *)
(***************************************************************************)

\* The claims that are still live go down, and the lease with the last one.
ReleaseClaims(claims) ==
    /\ Lower(claims)
    /\ IF mark' # mark
       THEN ReleaseIfUnmarked
       ELSE UNCHANGED <<lease, jsonVars, queryOnly, kept>>
    /\ SyncHeld
    /\ UNCHANGED <<said, nextGen, metaUnchecked, closed, reader, watchError,
                   watchReported>>

\* A claim is released under the database mutex.
Release(t) ==
    /\ ReleaseClaims({Claim(t)})
    /\ GoTo(t, "released")
    /\ UNCHANGED <<pending, foreign, dbGuard, gen, slotTaken, settler, main, ended>>

\* The mutex is let go after the claim.  A start that failed ends the server.
UnlockDb(t) ==
    /\ pc[t] = "released"
    /\ dbGuard' = "nobody"
    /\ GoTo(t, IF t = Watcher THEN "gone" ELSE "freeing")
    /\ main' = IF t = Watcher /\ main = "claiming" THEN "failed" ELSE main
    /\ UNCHANGED <<innerVars, jsonVars, foreign, queryOnly, gen, slotTaken, settler,
                   ended, kept>>

\* Mutant: the rebuild slot is dropped before the claim's guard.
Unwind_SlotFirst(t) ==
    /\ pc[t] = "unwinding"
    /\ dbGuard' = "nobody"
    /\ slotTaken' = FALSE
    /\ GoTo(t, "queueing")
    /\ UNCHANGED <<innerVars, jsonVars, foreign, queryOnly, gen, settler, main, ended,
                   kept>>

\* A panic lets go of the mutex first, ...
Unwind(t) ==
    /\ pc[t] = "unwinding"
    /\ dbGuard' = "nobody"
    /\ GoTo(t, "queueing")
    /\ UNCHANGED <<innerVars, jsonVars, foreign, queryOnly, gen, slotTaken, settler,
                   main, ended, kept>>

\* Mutant: the claim is queued only once shutdown has begun.
QueuedBy_Inverted(t) == IF closed THEN {Claim(t)} ELSE {}

\* After shutdown nothing settles the queue.
QueuedBy(t) == IF closed THEN {} ELSE {Claim(t)}

\* ... then drops the claim's guard, which queues the claim for the janitor.
QueueClaim(t) ==
    /\ pc[t] = "queueing"
    /\ pending' = pending \cup QueuedBy(t)
    /\ GoTo(t, IF t = Watcher THEN "gone" ELSE "freeing")
    /\ UNCHANGED <<lease, said, mark, nextGen, metaUnchecked, closed, reader,
                   watchError, watchReported, watcherExit, stopped, held, jsonVars,
                   foreign, dbVars, gen, slotTaken, settler, main, ended, kept>>

(***************************************************************************)
(* A rebuild_index request                                                 *)
(***************************************************************************)

\* One rebuild at a time: a second request is refused while one has the slot.
RequestRebuild(t) ==
    /\ main = "serving"
    /\ pc[t] = "idle"
    /\ ~slotTaken
    /\ nextGen < MaxClaims
    /\ slotTaken' = TRUE
    /\ GoTo(t, "slotted")
    /\ UNCHANGED <<innerVars, jsonVars, foreign, dbVars, gen, settler, main, ended, kept>>

ClaimForRebuild(t) ==
    /\ pc[t] = "slotted"
    /\ TakeClaim(t)

RefuseRebuild(t) ==
    /\ pc[t] = "slotted"
    /\ closed \/ reader \/ CannotAcquire
    /\ GoTo(t, "freeing")
    /\ UNCHANGED <<innerVars, jsonVars, foreign, dbVars, gen, slotTaken, settler, main,
                   ended, kept>>

\* Whichever way the rebuild went, its claim is released before the reply.
EndRebuild(t) ==
    /\ pc[t] = "writing"
    /\ Release(t)

\* Before the mutex of the database there is only the claim's guard to drop.
PanicInRebuild(t) ==
    /\ pc[t] \in {"claimed", "writing"} \cup MakingWritable
    /\ Fault("panic")
    /\ GoTo(t, IF pc[t] = "claimed" THEN "queueing" ELSE "unwinding")
    /\ UNCHANGED <<innerVars, jsonVars, foreign, dbVars, gen, slotTaken, settler, main,
                   ended, kept>>

\* Mutant: the slot is not freed.
FreeSlot_Skipped(t) ==
    /\ pc[t] = "freeing"
    /\ GoTo(t, "idle")
    /\ UNCHANGED <<innerVars, jsonVars, foreign, dbVars, gen, slotTaken, settler, main,
                   ended, kept>>

FreeSlot(t) ==
    /\ pc[t] = "freeing"
    /\ slotTaken' = FALSE
    /\ GoTo(t, "idle")
    /\ UNCHANGED <<innerVars, jsonVars, foreign, dbVars, gen, settler, main, ended, kept>>

Rebuild(t) == RequestRebuild(t) \/ ClaimForRebuild(t) \/ RefuseRebuild(t)
              \/ MakeWritable(t) \/ EndRebuild(t) \/ PanicInRebuild(t)
              \/ UnlockDb(t) \/ Unwind(t) \/ QueueClaim(t) \/ FreeSlot(t)

(***************************************************************************)
(* The server's start: claim_writer_role, then the models                  *)
(***************************************************************************)

\* With the watch on, the watcher's claim comes first.
ClaimAtStart ==
    /\ main = "claiming"
    /\ pc[Watcher] = "idle"
    /\ TakeClaim(Watcher)

\* The lock is held elsewhere or fails: searches only, until restarted.
BecomeReader ==
    /\ main = "claiming"
    /\ pc[Watcher] = "idle"
    /\ CannotAcquire
    /\ reader' = TRUE
    /\ main' = "loading"
    /\ UNCHANGED <<lease, said, mark, nextGen, metaUnchecked, pending, closed,
                   watchError, watchReported, watcherExit, stopped, held, jsonVars,
                   foreign, dbVars, pc, gen, slotTaken, settler, ended, kept>>

\* --no-watch: no claim at start.
StartWithoutWatch ==
    /\ main = "claiming"
    /\ pc[Watcher] = "idle"
    /\ main' = "loading"
    /\ UNCHANGED <<innerVars, jsonVars, foreign, dbVars, pc, gen, slotTaken, settler,
                   ended, kept>>

\* The context mode is resolved under the same hold of the database mutex.
ResolveContext ==
    /\ pc[Watcher] = "context"
    /\ dbGuard' = "nobody"
    /\ GoTo(Watcher, "loading")
    /\ main' = "loading"
    /\ UNCHANGED <<innerVars, jsonVars, foreign, queryOnly, gen, slotTaken, settler,
                   ended, kept>>

ContextFails ==
    /\ pc[Watcher] = "context"
    /\ Fault("context")
    /\ Release(Watcher)

\* The models are loaded; a writer's watcher starts with its claim.
StartServing ==
    /\ main = "loading"
    /\ main' = "serving"
    /\ pc' = [pc EXCEPT ![Watcher] = IF @ = "loading" THEN "watching" ELSE @]
    /\ UNCHANGED <<innerVars, jsonVars, foreign, dbVars, gen, slotTaken, settler, ended,
                   kept>>

Start == ClaimAtStart \/ BecomeReader \/ StartWithoutWatch \/ MakeWritable(Watcher)
         \/ ResolveContext \/ ContextFails \/ StartServing

(***************************************************************************)
(* The watcher's task                                                      *)
(***************************************************************************)

StopSignal == main \in {"stopping", "joined", "locked", "shut", "done"}

\* Only the watcher's place changes.
WatcherGoes(from, to) ==
    /\ pc[Watcher] \in from
    /\ GoTo(Watcher, to)
    /\ UNCHANGED <<innerVars, jsonVars, foreign, queryOnly, gen, slotTaken, settler,
                   main, kept>>

\* The stop signal is looked at before each batch, not within one.
BeginBatch ==
    /\ ~StopSignal
    /\ WatcherGoes({"watching"}, "batch")
    /\ UNCHANGED <<dbGuard, ended>>

\* A batch takes the database mutex again and again.
LockForBatch ==
    /\ dbGuard = "nobody"
    /\ dbGuard' = Watcher
    /\ WatcherGoes({"batch"}, "batchDb")
    /\ UNCHANGED ended

UnlockInBatch ==
    /\ dbGuard' = "nobody"
    /\ WatcherGoes({"batchDb"}, "batch")
    /\ UNCHANGED ended

EndBatch ==
    /\ WatcherGoes({"batch"}, "watching")
    /\ UNCHANGED <<dbGuard, ended>>

\* A panic in a batch ends the loop with an error.
PanicInBatch ==
    /\ Fault("panic")
    /\ WatcherGoes({"batch", "batchDb"}, "ending")
    /\ dbGuard' = IF pc[Watcher] = "batchDb" THEN "nobody" ELSE dbGuard
    /\ ended' = "error"

\* The loop returns Ok on the stop signal, or when its channel closes because
\* the bridge thread panicked.
LeaveLoop ==
    /\ StopSignal \/ Fault("panic")
    /\ WatcherGoes({"watching"}, "ending")
    /\ ended' = "ok"
    /\ UNCHANGED dbGuard

\* The task itself panics and drops its claim's guard.
PanicInTask ==
    /\ Fault("panic")
    /\ WatcherGoes({"watching", "ending"}, "queueing")
    /\ ended' = "panic"
    /\ UNCHANGED dbGuard

LockToEnd ==
    /\ dbGuard = "nobody"
    /\ dbGuard' = Watcher
    /\ WatcherGoes({"ending"}, "endDb")
    /\ UNCHANGED ended

PanicInEnd ==
    /\ Fault("panic")
    /\ WatcherGoes({"endDb"}, "unwinding")
    /\ ended' = "panic"
    /\ UNCHANGED dbGuard

\* Mutant: the error is not recorded for the notice.
ExitRecorded_Never == FALSE

\* An error is recorded under the watcher's own generation only.
ExitRecorded == ended = "error" /\ mark["watcher"] = gen[Watcher]

\* set_watcher_exit comes before the release, so that the stop carries it.
RecordExit ==
    /\ pc[Watcher] = "endDb"
    /\ watcherExit' = IF ExitRecorded THEN gen[Watcher] ELSE watcherExit
    /\ GoTo(Watcher, "endRelease")
    /\ UNCHANGED <<lease, said, mark, nextGen, metaUnchecked, pending, closed, reader,
                   watchError, watchReported, stopped, held, jsonVars, foreign, dbVars,
                   gen, slotTaken, settler, main, ended, kept>>

EndWatcher ==
    /\ pc[Watcher] = "endRelease"
    /\ Release(Watcher)

WatcherTask == BeginBatch \/ LockForBatch \/ UnlockInBatch \/ EndBatch \/ PanicInBatch
               \/ LeaveLoop \/ PanicInTask \/ LockToEnd \/ PanicInEnd \/ RecordExit
               \/ EndWatcher \/ UnlockDb(Watcher) \/ Unwind(Watcher)
               \/ QueueClaim(Watcher)

\* The bridge thread outlives the watcher's task.
BridgeRuns == /\ gen[Watcher] # 0
              /\ main \notin {"claiming", "loading", "failed"}
              /\ pc[Watcher] # "loading"

\* It reports a watch error or that the watch is registered; a report of a
\* claim that is gone, or that a panic left queued, is dropped.
SetWatchError(error) ==
    /\ BridgeRuns
    /\ mark["watcher"] = gen[Watcher]
    /\ Claim(Watcher) \notin pending
    /\ watchReported' = (watchReported \/ ~error)
    /\ watchError' = error
    /\ LET now == WatchingNow(watchReported', error)
       IN  IF /\ now # WatchingNow(watchReported, watchError)
              /\ ~closed
              /\ lease # "none"
           THEN TouchHeartbeat(now)
           ELSE UNCHANGED <<said, jsonVars>>
    /\ UNCHANGED <<lease, mark, nextGen, metaUnchecked, pending, closed, reader,
                   watcherExit, stopped, held, foreign, dbVars, threadVars, kept>>

(***************************************************************************)
(* The janitor                                                             *)
(***************************************************************************)

\* Mutant: the janitor runs while the models load, not later.
JanitorRuns_LoadingOnly == main = "loading"

JanitorRuns == main \in {"loading", "serving", "begun"}

Heartbeat ==
    /\ JanitorRuns
    /\ ~closed
    /\ lease # "none"
    /\ TouchHeartbeat(WatchingNow(watchReported, watchError))
    /\ UNCHANGED <<lease, mark, nextGen, metaUnchecked, pending, closed, reader,
                   watchError, watchReported, watcherExit, stopped, held, foreign,
                   dbVars, threadVars, kept>>

SettlerGoes(from, to) ==
    /\ settler = from
    /\ settler' = to
    /\ UNCHANGED <<foreign, pc, gen, slotTaken, main, ended>>

\* A settle is started when some claim waits and the last settle is over.
StartSettle ==
    /\ JanitorRuns
    /\ pending # {}
    /\ SettlerGoes("idle", "queued")
    /\ UNCHANGED <<innerVars, jsonVars, dbVars, kept>>

LockToSettle ==
    /\ dbGuard = "nobody"
    /\ dbGuard' = "settler"
    /\ SettlerGoes("queued", "locked")
    /\ UNCHANGED <<innerVars, jsonVars, queryOnly, kept>>

\* settle_pending: the queue is emptied; a claim whose mark has a newer
\* generation is only discarded.
SettlePending ==
    /\ SettlerGoes("locked", "settled")
    /\ pending' = {}
    /\ ReleaseClaims(pending)
    /\ UNCHANGED dbGuard

EndSettle ==
    /\ SettlerGoes("settled", "idle")
    /\ dbGuard' = "nobody"
    /\ UNCHANGED <<innerVars, jsonVars, queryOnly, kept>>

Settle == StartSettle \/ LockToSettle \/ SettlePending \/ EndSettle

(***************************************************************************)
(* shutdown_writer_role                                                    *)
(***************************************************************************)

\* The transport ended, or the models did not load.
BeginShutdown ==
    /\ main = "serving" \/ (main = "loading" /\ Fault("models"))
    /\ main' = "begun"
    /\ closed' = TRUE
    /\ UNCHANGED <<lease, said, mark, nextGen, metaUnchecked, pending, reader,
                   watchError, watchReported, watcherExit, stopped, held, jsonVars,
                   foreign, dbVars, pc, gen, slotTaken, settler, ended, kept>>

MainGoes(from, to) ==
    /\ main = from
    /\ main' = to
    /\ UNCHANGED <<foreign, gen, slotTaken, settler, ended>>

\* The janitor is aborted (a settle it started goes on), the watcher told to stop.
StopTasks ==
    /\ MainGoes("begun", "stopping")
    /\ UNCHANGED <<innerVars, jsonVars, dbVars, pc, kept>>

\* Mutant: the watcher is not awaited.
WatcherOver_NotAwaited == TRUE

\* Mutant: a watcher that was never started is awaited, too.
WatcherOver_NeverStarted == pc[Watcher] = "gone"

\* The watcher's task is over, or was never started.
WatcherOver == pc[Watcher] \in {"idle", "loading", "gone"}

AwaitWatcher ==
    /\ WatcherOver
    /\ MainGoes("stopping", "joined")
    /\ UNCHANGED <<innerVars, jsonVars, dbVars, pc, kept>>

LockToShutDown ==
    /\ dbGuard = "nobody"
    /\ dbGuard' = "main"
    /\ MainGoes("joined", "locked")
    /\ UNCHANGED <<innerVars, jsonVars, queryOnly, pc, kept>>

\* WriterSlot::shutdown: every mark and queued claim is discarded.
Shutdown ==
    /\ MainGoes("locked", "shut")
    /\ closed' = TRUE
    /\ mark' = [c \in Claimant |-> 0]
    /\ pending' = {}
    /\ ReleaseIfUnmarked
    /\ SyncHeld
    /\ UNCHANGED <<said, nextGen, metaUnchecked, reader, watchError, watchReported,
                   watcherExit, stopped, dbGuard, pc>>

\* A claim that never went to the watcher is dropped last, and queues nothing.
EndShutdown ==
    /\ MainGoes("shut", "done")
    /\ dbGuard' = "nobody"
    /\ pc' = [pc EXCEPT ![Watcher] = IF @ = "loading" THEN "gone" ELSE @]
    /\ UNCHANGED <<innerVars, jsonVars, queryOnly, kept>>

ShutDown == BeginShutdown \/ StopTasks \/ AwaitWatcher \/ LockToShutDown \/ Shutdown
            \/ EndShutdown

\* Another groove process takes the OS lock while this server has not got it, or lets go of
\* it.  It may put its own record over one this server could not remove, or remove that.
Foreign ==
    /\ foreign \/ lease = "none"
    /\ foreign' = ~foreign
    /\ Written(NoJson) \/ UNCHANGED jsonVars
    /\ UNCHANGED <<innerVars, dbVars, threadVars, kept>>

Next ==
    \/ \E t \in Rebuilder : Rebuild(t)
    \/ Start
    \/ WatcherTask
    \/ \E error \in BOOLEAN : SetWatchError(error)
    \/ Heartbeat
    \/ Settle
    \/ ShutDown
    \/ Foreign

Spec == Init /\ [][Next]_vars

(***************************************************************************)
(* Fairness: a thread that can go on does; a thread that waits for the     *)
(* database mutex gets it if it is free again and again; a batch has       *)
(* finitely many events.  Nothing obliges a request to arrive, a fault to  *)
(* happen, the transport to end, a batch to come or the OS lock to move.   *)
(***************************************************************************)

RebuildGoesOn(t) == ClaimForRebuild(t) \/ RefuseRebuild(t) \/ MakeWritable(t)
                    \/ EndRebuild(t) \/ UnlockDb(t) \/ Unwind(t) \/ QueueClaim(t)
                    \/ FreeSlot(t)

WatcherGoesOn == (StopSignal /\ LeaveLoop) \/ UnlockInBatch \/ RecordExit \/ EndWatcher
                 \/ UnlockDb(Watcher) \/ Unwind(Watcher) \/ QueueClaim(Watcher)

ShutDownGoesOn == StopTasks \/ AwaitWatcher \/ Shutdown \/ EndShutdown

Fairness ==
    /\ \A t \in Rebuilder : WF_vars(RebuildGoesOn(t)) /\ SF_vars(LockDb(t))
    /\ WF_vars(Start)
    /\ WF_vars(WatcherGoesOn) /\ SF_vars(EndBatch) /\ SF_vars(LockToEnd)
    /\ WF_vars(Settle) /\ SF_vars(LockToSettle)
    /\ WF_vars(ShutDownGoesOn) /\ SF_vars(LockToShutDown)

FairSpec == Spec /\ Fairness

(***************************************************************************)
(* Properties                                                              *)
(***************************************************************************)

\* The connection is writable only while this process holds the writer lease
\* (ADR-0031: "Nothing writes without the lock"), whichever claims come, go,
\* fail or panic meanwhile.
WritableNeedsLease == ~queryOnly => lease # "none"

\* Where a thread has a claim's guard that will lower the mark or queue it.
HoldsGuard(t) == pc[t] \notin {"idle", "slotted", "released", "freeing", "gone"}

\* No mark is left behind: until shutdown, whatever a claim's thread went
\* through, its mark has a guard that will release it or waits for the janitor.
\* A mark without either would keep the lease for good.
MarksOwned ==
    ~closed =>
        \A c \in Claimant : mark[c] # 0 =>
            \/ <<c, mark[c]>> \in pending
            \/ \E t \in Claims : Claim(t) = <<c, mark[c]>> /\ HoldsGuard(t)

\* The lease is held for a claim, or because query_only could not be turned on.
LeaseHasReason == lease # "none" /\ NoMarks(mark) => kept

\* A rebuild writes on a writable connection, under the lease, with its own
\* mark up, alone at the database, and with the embedding meta checked for
\* this lease: no release, settle or shutdown takes any of it away halfway.
RebuildCanWrite ==
    \A t \in Rebuilder :
        pc[t] = "writing" => /\ ~queryOnly
                             /\ lease # "none"
                             /\ ~metaUnchecked
                             /\ Claim(t) = <<"rebuild", mark["rebuild"]>>
                             /\ dbGuard = t

\* The watcher's claim covers its whole batch: shutdown waits for the batch,
\* and no other claim's end takes the lease from under it.
BatchKeepsLease ==
    pc[Watcher] \in {"batch", "batchDb"} =>
        lease # "none" /\ Claim(Watcher) = <<"watcher", mark["watcher"]>>

\* A rebuild that claims finds no live rebuild claim, only one a panic left
\* queued (the debug_assert of WriterSlot::claim): an unwinding rebuild drops
\* its claim's guard before its rebuild slot.
NoSecondLiveClaim ==
    \A t \in Rebuilder :
        pc[t] = "slotted" /\ ~closed /\ ~reader /\ mark["rebuild"] # 0 =>
            <<"rebuild", mark["rebuild"]>> \in pending

\* A watcher whose task ended while the server goes on, and whose claim was
\* released or settled, is reported as stopped, with its error if it had one.
StopRecorded ==
    ~closed /\ pc[Watcher] = "gone" /\ ended # "no" /\ mark["watcher"] = 0 =>
        stopped = IF ended = "error" THEN "error" ELSE "noError"

\* Shutdown is not a stop: once it has begun no stop is recorded.
NoStopOnceClosed == [][closed => stopped' = stopped]_vars

\* writer.json speaks of the lease there is, in its role, and does not say that a server watches
\* once the watcher's claim is gone, also while a rebuild keeps the lease.  A failed removal, or
\* a lease kept after a failed pragma, leaves it behind, and only until its next write or
\* removal succeeds (a reader then goes by the age of its heartbeat).
JsonFollowsWatcher ==
    \/ overdue
    \/ /\ json.role \in {"absent", lease}
       /\ json.role = "serve" /\ json.watching = "yes" => mark["watcher"] # 0

\* A claim a panic left queued is settled, by the janitor or by shutdown.
PendingSettled == pending # {} ~> pending = {}

\* No rebuild claim holds the lease for good.
ClaimReleased ==
    \A g \in 1..MaxClaims : mark["rebuild"] = g ~> mark["rebuild"] # g

\* The rebuild slot is freed whichever way a rebuild ends, so that the next one
\* is not refused for a rebuild that does not run.
RebuildEnds == slotTaken ~> ~slotTaken

\* A shutdown that has begun comes to its end: it waits for the watcher's batch
\* and for the database, never for good.
ShutdownCompletes == closed ~> main = "done"

\* What a reader of writer.json concludes (HolderInfo::keeps_current): a server
\* that reports its watcher running keeps the index current.  With no thread at
\* the database, its connection lets the watcher write.
WatchingMeansWritable ==
    /\ json.role = "serve" /\ json.watching = "yes"
    /\ Claim(Watcher) = <<"watcher", mark["watcher"]>> /\ Claim(Watcher) \notin pending
    /\ dbGuard = "nobody" /\ ~closed
    => ~queryOnly
==============================================================================
