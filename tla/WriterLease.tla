----------------------------- MODULE WriterLease -----------------------------
(***************************************************************************)
(* The groove processes around one index, and the operating-system lock    *)
(* that lets one of them at a time write it: `groove index`, a server or a *)
(* read-only command (a reader, with its one-time writes under the role    *)
(* "migration" and, for a server, its claims), and `groove service         *)
(* uninstall --purge`.  A process may be killed at any point.              *)
(*                                                                         *)
(* Every process names the index by the same path, a symlink that may be   *)
(* repointed at any time; the lock, the holder file and the connection are *)
(* all per resolved file.                                                  *)
(*                                                                         *)
(* Abstractions: the rows are not modelled, only how far an index file is  *)
(* initialised; a wait with a deadline is a try that may be given up while *)
(* the lock is seen taken; file names stand for inodes.                    *)
(***************************************************************************)
CONSTANTS Proc,     \* groove processes, each run once
          File,     \* index files
          NoProc,   \* no process
          NoFile    \* no file

ASSUME NoProcAssumption == NoProc \notin Proc
ASSUME NoFileAssumption == NoFile \notin File

VARIABLES
    link,       \* the file the index path resolves to now
    lock,       \* lock[f]: the process holding the OS lock on f.writer-lock
    json,       \* json[f]: the pid f.writer.json names, NoProc if absent
    form,       \* form[f]: how far the index file is initialised
    pc,         \* where each process is
    goal,       \* what it takes, or took, the lease for
    target,     \* the path it resolved once and keeps using, as a file
    held,       \* the file its lease locks
    conn,       \* the file its connection has open
    rw,         \* whether that connection is writable
    sawBusy,    \* purge: a try already found the lock held
    leftover    \* removing writer.json on release failed

vars == <<link, lock, json, form, pc, goal, target, held, conn, rw, sawBusy,
          leftover>>

(***************************************************************************)
(* The goals.  "migrate" and "meta" are a reader's one-time writes,        *)
(* "serve" the watcher's claim at start, "rebuild" a claim of the MCP tool *)
(* rebuild_index.                                                          *)
(***************************************************************************)
Goal == {"index", "migrate", "meta", "serve", "rebuild", "purge", "failed"}

PC == {"new", "asking", "publish", "leased", "writing", "dropping", "dropped",
       "open", "reopen", "meta", "recheck", "up", "idle", "reader", "kept",
       "purging", "purged", "purgingUnlocked", "done"}

\* Where a process has the OS lock on held[p].
LeasePC == {"publish", "leased", "writing", "dropping", "dropped", "kept",
            "purging", "purged"}

\* "absent": no file; "bare": a schema without the embedding meta.
Form == {"absent", "bare", "ready"}

\* The types of the variables; a process names the file it has locked exactly
\* while it holds a lease (a busy or failed try is not one).
TypeOK ==
    /\ link \in File
    /\ lock \in [File -> Proc \cup {NoProc}]
    /\ json \in [File -> Proc \cup {NoProc}]
    /\ form \in [File -> Form]
    /\ pc \in [Proc -> PC]
    /\ goal \in [Proc -> Goal]
    /\ target \in [Proc -> File \cup {NoFile}]
    /\ held \in [Proc -> File \cup {NoFile}]
    /\ conn \in [Proc -> File \cup {NoFile}]
    /\ rw \in [Proc -> BOOLEAN]
    /\ sawBusy \in [Proc -> BOOLEAN]
    /\ leftover \in [Proc -> BOOLEAN]
    /\ \A p \in Proc : held[p] \in File <=> pc[p] \in LeasePC

Init ==
    /\ link \in File
    /\ lock = [f \in File |-> NoProc]
    /\ json = [f \in File |-> NoProc]
    /\ form \in [File -> Form]
    /\ pc = [p \in Proc |-> "new"]
    /\ goal = [p \in Proc |-> "index"]
    /\ target = [p \in Proc |-> NoFile]
    /\ held = [p \in Proc |-> NoFile]
    /\ conn = [p \in Proc |-> NoFile]
    /\ rw = [p \in Proc |-> FALSE]
    /\ sawBusy = [p \in Proc |-> FALSE]
    /\ leftover = [p \in Proc |-> FALSE]

GoTo(p, label) == pc' = [pc EXCEPT ![p] = label]

(***************************************************************************)
(* Taking the lock                                                         *)
(***************************************************************************)

\* Mutant: purge resolves the path anew on every try.
Asked_PurgeReresolves(p) == IF goal[p] = "migrate" THEN target[p] ELSE link

\* The file a try locks: the index path resolved now, but for a process that
\* resolved it once (a schema upgrade, purge).
Asked(p) == IF goal[p] \in {"migrate", "purge"} THEN target[p] ELSE link

\* Mutant: the lock is taken shared.
LockFree_Shared(p) == TRUE

LockFree(p) == lock[Asked(p)] = NoProc

\* The lock is free: it is taken on the file just resolved.
Acquire(p) ==
    /\ pc[p] = "asking"
    /\ LockFree(p)
    /\ lock' = [lock EXCEPT ![Asked(p)] = p]
    /\ held' = [held EXCEPT ![p] = Asked(p)]
    /\ GoTo(p, IF goal[p] = "purge" THEN "purging" ELSE "publish")
    /\ UNCHANGED <<link, json, form, goal, target, conn, rw, sawBusy, leftover>>

\* A purge that finds the lock held waits for the holder to let go.
SeeBusy(p) ==
    /\ pc[p] = "asking"
    /\ goal[p] = "purge"
    /\ ~LockFree(p)
    /\ sawBusy' = [sawBusy EXCEPT ![p] = TRUE]
    /\ UNCHANGED <<link, lock, json, form, pc, goal, target, held, conn, rw,
                   leftover>>

\* Mutant: a claim at start that finds the lock held goes on as if it had it.
AfterBusy_Proceeds(p) == IF goal[p] = "serve" THEN "leased" ELSE "done"

\* Where a process goes whose last try found the lock held: `groove index`
\* exits 3 and purge fails; a reader reads once more; a starting server
\* becomes a reader; a rebuild is refused.
AfterBusy(p) ==
    CASE goal[p] = "migrate" -> "reopen"
      [] goal[p] = "meta"    -> "recheck"
      [] goal[p] = "serve"   -> "reader"
      [] goal[p] = "rebuild" -> "idle"
      [] OTHER               -> "done"

GiveUp(p) ==
    /\ pc[p] = "asking"
    /\ ~LockFree(p)
    /\ GoTo(p, AfterBusy(p))
    /\ UNCHANGED <<link, lock, json, form, goal, target, held, conn, rw,
                   sawBusy, leftover>>

\* Mutant: what an earlier try saw is forgotten.
AfterLockError_Forgets(p) == IF goal[p] = "purge" THEN "purgingUnlocked" ELSE "done"

\* Where a process goes when the lock file cannot be opened or locked at all.
\* Purge goes on without the lock, but only if no try found it held.
AfterLockError(p) ==
    CASE goal[p] = "purge" /\ ~sawBusy[p] -> "purgingUnlocked"
      [] goal[p] = "serve"                -> "reader"
      [] goal[p] = "rebuild"              -> "idle"
      [] OTHER                            -> "done"

LockError(p) ==
    /\ pc[p] = "asking"
    /\ GoTo(p, AfterLockError(p))
    /\ conn' = [conn EXCEPT ![p] = IF AfterLockError(p) = "done" THEN NoFile ELSE @]
    /\ UNCHANGED <<link, lock, json, form, goal, target, held, rw, sawBusy,
                   leftover>>

\* The holder's details are written after the lock is taken; a failed write
\* removes the previous holder's, unless that fails too.
Publish(p) ==
    /\ pc[p] = "publish"
    /\ \E pid \in {p, NoProc, json[held[p]]} : json' = [json EXCEPT ![held[p]] = pid]
    /\ GoTo(p, "leased")
    /\ UNCHANGED <<link, lock, form, goal, target, held, conn, rw, sawBusy,
                   leftover>>

(***************************************************************************)
(* Writing under the lease                                                 *)
(***************************************************************************)

\* `groove index` and a schema upgrade open a writer on the file the lease
\* locks, never on the path resolved again.
OpenWriter(p) ==
    /\ pc[p] = "leased"
    /\ goal[p] \in {"index", "migrate"}
    /\ conn' = [conn EXCEPT ![p] = held[p]]
    /\ rw' = [rw EXCEPT ![p] = TRUE]
    /\ form' = [form EXCEPT ![held[p]] = IF @ = "absent" THEN "bare" ELSE @]
    /\ GoTo(p, "writing")
    /\ UNCHANGED <<link, lock, json, goal, target, held, sawBusy, leftover>>

\* Mutant: any open connection will do.
IsOn_AnyFile(p, f) == conn[p] # NoFile

\* Whether p's connection, opened earlier, is on the file f.
IsOn(p, f) == conn[p] = f /\ form[f] # "absent"

\* Every other writer turns query_only off on the connection it already has,
\* after looking that the connection is on the leased file.
MakeWritable(p) ==
    /\ pc[p] = "leased"
    /\ goal[p] \in {"meta", "serve", "rebuild"}
    /\ IsOn(p, held[p])
    /\ rw' = [rw EXCEPT ![p] = TRUE]
    /\ GoTo(p, "writing")
    /\ UNCHANGED <<link, lock, json, form, goal, target, held, conn, sawBusy,
                   leftover>>

\* What a write that failed leaves: an error reply from a rebuild, and a
\* process that ends otherwise.
AfterFailure(p) == IF goal[p] = "rebuild" THEN "rebuild" ELSE "failed"

\* The writer could not be opened, the connection is on another file, or the
\* pragma failed: nothing is written and the lease goes.
Abandon(p) ==
    /\ pc[p] = "leased"
    /\ rw' = [rw EXCEPT ![p] = FALSE]
    /\ goal' = [goal EXCEPT ![p] = AfterFailure(p)]
    /\ GoTo(p, "dropping")
    /\ UNCHANGED <<link, lock, json, form, target, held, conn, sawBusy, leftover>>

\* The embedding meta is recorded by any writer but a schema upgrade.
RecordMeta(p) ==
    /\ pc[p] = "writing"
    /\ goal[p] # "migrate"
    /\ form' = [form EXCEPT ![held[p]] = "ready"]
    /\ UNCHANGED <<link, lock, json, pc, goal, target, held, conn, rw, sawBusy,
                   leftover>>

\* The connection is closed, or back to query_only, before the lease goes,
\* also when the write under it failed.
StopWriting(p) ==
    /\ pc[p] = "writing"
    /\ rw' = [rw EXCEPT ![p] = FALSE]
    /\ conn' = [conn EXCEPT ![p] = IF goal[p] \in {"index", "migrate"}
                                   THEN NoFile ELSE @]
    /\ \E g \in {goal[p], AfterFailure(p)} : goal' = [goal EXCEPT ![p] = g]
    /\ GoTo(p, "dropping")
    /\ UNCHANGED <<link, lock, json, form, target, held, sawBusy, leftover>>

\* query_only could not be turned back on: the lease is kept until the
\* process ends, so that no writable connection outlives it ...
KeepLease(p) ==
    /\ pc[p] \in {"leased", "writing"}
    /\ goal[p] \in {"meta", "serve", "rebuild"}
    /\ goal' = [goal EXCEPT ![p] = IF pc[p] = "writing" /\ @ = "serve"
                                   THEN @ ELSE AfterFailure(p)]
    /\ GoTo(p, "kept")
    /\ UNCHANGED <<link, lock, json, form, target, held, conn, rw, sawBusy,
                   leftover>>

\* ... or, in a server that goes on, until a later rebuild claims it again.
ClaimKept(p) ==
    /\ pc[p] = "kept"
    /\ goal[p] \in {"serve", "rebuild"}
    /\ goal' = [goal EXCEPT ![p] = "rebuild"]
    /\ GoTo(p, "leased")
    /\ UNCHANGED <<link, lock, json, form, target, held, conn, rw, sawBusy,
                   leftover>>

\* Mutant: the file stays.
RemoveInfo_Skipped(p) == UNCHANGED <<json, leftover, lock>>

\* Dropping the lease removes writer.json, on a best-effort basis, ...
RemoveInfo(p) ==
    /\ \/ /\ json' = [json EXCEPT ![held[p]] = NoProc]
          /\ UNCHANGED leftover
       \/ /\ leftover' = [leftover EXCEPT ![p] = TRUE]
          /\ UNCHANGED json
    /\ UNCHANGED lock

\* ... and releases the lock, ...
Unlock(p) ==
    /\ lock' = [lock EXCEPT ![held[p]] = NoProc]
    /\ UNCHANGED <<json, leftover>>

\* Mutant: the lock goes first.
DropOrder_LockFirst == <<"lock", "info">>

\* ... in this order.
DropOrder == <<"info", "lock">>

DropStep(p, i) == IF DropOrder[i] = "info" THEN RemoveInfo(p) ELSE Unlock(p)

DropFirst(p) ==
    /\ pc[p] = "dropping"
    /\ DropStep(p, 1)
    /\ GoTo(p, "dropped")
    /\ UNCHANGED <<link, form, goal, target, held, conn, rw, sawBusy>>

\* Where a process goes once its lease is gone.  A server whose claim ended
\* goes on serving, and its rebuilds may claim again.
AfterRelease(p) ==
    CASE goal[p] = "migrate"            -> "reopen"
      [] goal[p] = "meta"               -> "up"
      [] goal[p] \in {"serve", "rebuild"} -> "idle"
      [] OTHER                          -> "done"

DropSecond(p) ==
    /\ pc[p] = "dropped"
    /\ DropStep(p, 2)
    /\ held' = [held EXCEPT ![p] = NoFile]
    /\ GoTo(p, AfterRelease(p))
    /\ conn' = [conn EXCEPT ![p] = IF AfterRelease(p) = "done" THEN NoFile ELSE @]
    /\ UNCHANGED <<link, form, goal, target, rw, sawBusy>>

(***************************************************************************)
(* What the processes do                                                   *)
(***************************************************************************)

\* `groove index` asks for the lease before it touches the database.
StartIndex(p) ==
    /\ pc[p] = "new"
    /\ GoTo(p, "asking")
    /\ goal' = [goal EXCEPT ![p] = "index"]
    /\ UNCHANGED <<link, lock, json, form, target, held, conn, rw, sawBusy,
                   leftover>>

\* A reader (a server, `groove search`, ...) resolves the path once.
StartReader(p) ==
    /\ pc[p] = "new"
    /\ GoTo(p, "open")
    /\ target' = [target EXCEPT ![p] = link]
    /\ UNCHANGED <<link, lock, json, form, goal, held, conn, rw, sawBusy,
                   leftover>>

\* It opens an existing, initialised index with query_only on ...
OpenReadOnly(p) ==
    /\ pc[p] \in {"open", "reopen"}
    /\ form[target[p]] # "absent"
    /\ conn' = [conn EXCEPT ![p] = target[p]]
    /\ GoTo(p, "meta")
    /\ UNCHANGED <<link, lock, json, form, goal, target, held, rw, sawBusy,
                   leftover>>

\* ... or asks for the lease to create or upgrade it.
NeedMigration(p) ==
    /\ pc[p] = "open"
    /\ GoTo(p, "asking")
    /\ goal' = [goal EXCEPT ![p] = "migrate"]
    /\ UNCHANGED <<link, lock, json, form, target, held, conn, rw, sawBusy,
                   leftover>>

\* The embedding meta is there (a connection on a deleted file still reads
\* what was in it).
MetaPresent(p) ==
    /\ pc[p] \in {"meta", "recheck"}
    /\ form[conn[p]] # "bare"
    /\ GoTo(p, "up")
    /\ UNCHANGED <<link, lock, json, form, goal, target, held, conn, rw,
                   sawBusy, leftover>>

MetaMissing(p) ==
    /\ pc[p] = "meta"
    /\ form[conn[p]] # "ready"
    /\ GoTo(p, "asking")
    /\ goal' = [goal EXCEPT ![p] = "meta"]
    /\ UNCHANGED <<link, lock, json, form, target, held, conn, rw, sawBusy,
                   leftover>>

\* A server with its watcher on claims the lease at start; one with
\* --no-watch, or whose claim ended, claims it for each rebuild.
ClaimAtStart(p) ==
    /\ pc[p] = "up"
    /\ GoTo(p, "asking")
    /\ goal' = [goal EXCEPT ![p] = "serve"]
    /\ UNCHANGED <<link, lock, json, form, target, held, conn, rw, sawBusy,
                   leftover>>

ClaimForRebuild(p) ==
    /\ pc[p] \in {"up", "idle"}
    /\ GoTo(p, "asking")
    /\ goal' = [goal EXCEPT ![p] = "rebuild"]
    /\ UNCHANGED <<link, lock, json, form, target, held, conn, rw, sawBusy,
                   leftover>>

\* Purge resolves the database once and locks it without a writer.json.
StartPurge(p) ==
    /\ pc[p] = "new"
    /\ GoTo(p, "asking")
    /\ goal' = [goal EXCEPT ![p] = "purge"]
    /\ target' = [target EXCEPT ![p] = link]
    /\ UNCHANGED <<link, lock, json, form, held, conn, rw, sawBusy, leftover>>

PurgeFiles(p) ==
    /\ pc[p] \in {"purging", "purgingUnlocked"}
    /\ form' = [form EXCEPT ![target[p]] = "absent"]
    /\ GoTo(p, IF pc[p] = "purging" THEN "purged" ELSE "done")
    /\ UNCHANGED <<link, lock, json, goal, target, held, conn, rw, sawBusy,
                   leftover>>

\* The lock is let go only after the config home is gone too.
PurgeUnlock(p) ==
    /\ pc[p] = "purged"
    /\ lock' = [lock EXCEPT ![held[p]] = NoProc]
    /\ held' = [held EXCEPT ![p] = NoFile]
    /\ GoTo(p, "done")
    /\ UNCHANGED <<link, json, form, goal, target, conn, rw, sawBusy, leftover>>

\* A process exits or is killed: the OS drops its lock and closes its files;
\* writer.json stays.
Exit(p) ==
    /\ pc[p] \notin {"new", "done"}
    /\ lock' = [f \in File |-> IF lock[f] = p THEN NoProc ELSE lock[f]]
    /\ held' = [held EXCEPT ![p] = NoFile]
    /\ conn' = [conn EXCEPT ![p] = NoFile]
    /\ rw' = [rw EXCEPT ![p] = FALSE]
    /\ GoTo(p, "done")
    /\ UNCHANGED <<link, json, form, goal, target, sawBusy, leftover>>

\* Somebody points the index path at another file.
Repoint ==
    /\ link' \in File \ {link}
    /\ UNCHANGED <<lock, json, form, pc, goal, target, held, conn, rw, sawBusy,
                   leftover>>

TakeLock(p) == Acquire(p) \/ SeeBusy(p) \/ GiveUp(p) \/ LockError(p) \/ Publish(p)

WriteUnderLease(p) ==
    OpenWriter(p) \/ MakeWritable(p) \/ Abandon(p) \/ RecordMeta(p)
    \/ StopWriting(p) \/ KeepLease(p) \/ ClaimKept(p) \/ DropFirst(p)
    \/ DropSecond(p)

Reader(p) ==
    StartReader(p) \/ OpenReadOnly(p) \/ NeedMigration(p) \/ MetaPresent(p)
    \/ MetaMissing(p) \/ ClaimAtStart(p) \/ ClaimForRebuild(p)

Purge(p) == StartPurge(p) \/ PurgeFiles(p) \/ PurgeUnlock(p)

Next ==
    \/ \E p \in Proc : \/ StartIndex(p)
                       \/ TakeLock(p)
                       \/ WriteUnderLease(p)
                       \/ Reader(p)
                       \/ Purge(p)
                       \/ Exit(p)
    \/ Repoint

Spec == Init /\ [][Next]_vars

(***************************************************************************)
(* Properties                                                              *)
(***************************************************************************)

\* A writable connection is open only on a file whose lock its process holds,
\* whichever way the index path was repointed since (ADR-0031, "Nothing
\* writes without the lock").
WriterHoldsLock ==
    \A p \in Proc : rw[p] => conn[p] \in File /\ lock[conn[p]] = p

\* A process deleting the index under the lock holds it.
PurgeHoldsLock ==
    \A p \in Proc : pc[p] \in {"purging", "purged"} => lock[target[p]] = p

\* writer.json never names a process that released the lease in order and
\* could remove the file: a live process it names is the one holding the lock
\* (WriterLease::drop removes the file before it unlocks, so it cannot
\* remove, or outlive, the next holder's).
InfoNamesHolder ==
    \A f \in File :
        json[f] # NoProc =>
            \/ lock[f] = json[f]
            \/ pc[json[f]] = "done"
            \/ leftover[json[f]]

\* The next holder's record survives the previous holder's release: a process
\* that published and still holds the lease is named by its file, unless its
\* own write failed.  Only the holder touches writer.json.
OnlyHolderTouchesInfo ==
    [][\A f \in File : json'[f] # json[f] => /\ lock[f] # NoProc
                                             /\ json'[f] \in {lock[f], NoProc}]_vars

\* A purge that once saw the lock held deletes nothing without it: a lock
\* error during its wait is still "busy" (retry_while_busy).
PurgeWaitsForSeenHolder ==
    \A p \in Proc : pc[p] = "purgingUnlocked" => ~sawBusy[p]

\* Who changes which file now.
Changes(p, f) ==
    \/ rw[p] /\ conn[p] = f
    \/ pc[p] \in {"purging", "purged"} /\ target[p] = f

Writers == {e \in Proc \X File : Changes(e[1], e[2])}

W == INSTANCE OneWriter WITH writers <- Writers

\* The lease implements the promise: at most one process changes an index
\* file at a time.
ImplementsOneWriter == W!Spec
==============================================================================
