# grooveseek: specifications and proofs

TLA+ modules for the parts of grooveseek whose correctness depends on the order
in which processes, threads and transactions happen to run, the TLC
configurations that check them on small instances, and proofs of the results
that hold for every size. Sources are named relative to `grooveseek/src/`.

## The system

grooveseek indexes a directory of documents (the knowledge base) into one SQLite
file, `.groove.db`, and answers searches over it, from the command line, as an
MCP server over stdio or HTTP, and as a service. Several `groove` processes may
use one index at the same time; ADR-0031 (`docs/decisions`) makes one of them at
a time the writer.

| Component | State | Operations | Hard behaviour | What makes it correct |
|---|---|---|---|---|
| Writer lease (`writer_lease.rs`, `db/lease.rs`, purge in `service/uninstall.rs`) | OS lock on `<db>.writer-lock`, `<db>.writer.json`, one connection per process | acquire, publish, open, one-time writes of a reader, claims, release, purge | several processes, kills, a symlink repointed meanwhile, waits with a deadline | nobody writes or deletes a file without its lock; the holder file never names a process that let go |
| Writer slot and role (`server/writer_slot.rs`, `server/writer_role.rs`) | marks and generations of the claims, the lease, `query_only` of the shared connection, queued releases | claim, make_writable, release, abandon, settle_pending, shutdown, heartbeat, watch reports | threads around two mutexes, panics at any point, pragmas that fail, shutdown in the middle of a batch | writable only under the lease; no claim leaks it or takes it from another; everything ends |
| Declared-field pass (`indexer.rs`, `db/meta.rs`) | rows with their fields, `declared_fields`, `declared_fields_pass`, `declared_fields_dirty` | observe, begin, refresh each row, prune, finish, cancel; watcher writes | runs that fail, are killed, overlap and take each other over; a schema that changes and comes back | a recorded set describes every row; a dead pass stops nobody |
| Full rebuild (`indexer.rs`, `indexer/`) | rows, hashes, policy keys, the awaiting-reparse mark | reset, scan, rename, read, prune, record policies | crash between any two transactions, rename chains and swaps, files and rows changed since the snapshot | a row's text is that of its hash; whatever crashed before, one undisturbed run leaves the index in step with the files |
| Watcher dispatch (`watcher.rs`, `indexer/single_file.rs`) | event channel, the disk, rows | remove, reindex, rename, directory rename | the disk changes between the look and the write; events dropped when the channel is full; lock order | a quiet disk is followed by equal rows, but for what was dropped or failed; a file that stays put keeps its row |
| MCP tools (`server.rs`, `server/`) | rebuild slot | search, documents, rebuild_index | tools run on a blocking pool and may panic | one rebuild at a time; the slot comes back |
| Transport (`transport/`) | sessions, admissions in flight, refusal log | admit, become live, end, cancel | requests race and are dropped at any await | never more sessions than the limit; no seat is lost |
| Index database (`db.rs`, `db/`) | SQLite | transactions, replace a corrupt file | replace interrupted | an old WAL is never beside a new database |
| Embedder (`embedder.rs`) | model or HTTP client | embed, retry with backoff | Retry-After, partial refusals | bounded waits, the right error at the end |
| Retrieval, graph, eval, tune, parsers, config, doctor, prompts and resources | none, or files written once | pure functions, rendering | none concurrent | unit and property tests of the repository |
| Services, groove-svc, groove-tray, grammar crates | a record of the running server | install, stop, poll | pid reuse, a launch during a stop | only the recorded process is stopped |

How they interact: `groove index` takes the lease, opens a writer and runs the
rebuild. `groove serve` opens a query_only connection, its *slot* takes the lease
for the watcher when it starts and for each `rebuild_index` call, and turns
query_only off on the one connection every tool shares through a mutex. The
watcher's batches and the rebuild write rows and the `index_meta` keys; a
transaction is the unit they interleave by. Readers never write, except once, to
create or upgrade the schema and to record the embedding model, each under the
lease. `status`, `doctor` and the refusal messages read `writer.json`.

## Modules

| Module | Models | EXTENDS / composes |
|---|---|---|
| `OneWriter` | the promise of ADR-0031: at most one process changes a given index file at a time | abstract specification |
| `WriterLease` | the processes around one index path | `INSTANCE OneWriter` under `writers <- Writers` |
| `WriterLeaseProofs` | its theorems | `WriterLease`, `TLAPS` |
| `WriterSlot` | the threads of one server around its slot | - |
| `WriterSlotProofs` | its theorems | `WriterSlot`, `TLAPS` |
| `DeclaredPass` | rebuilds and watchers around the declared-field keys | - |
| `DeclaredPassProofs` | its theorems | `DeclaredPass`, `TLAPS` |
| `IndexRun` | whole rebuilds, one after another, over rows, files and policy keys | - |
| `IndexRunProofs` | its invariants, proved | `IndexRun`, `NaturalsInduction`, `WellFoundedInduction`, `TLAPS` |
| `IndexRunStepProofs` | what a step of it may not do, proved | `IndexRunProofs` |
| `WatchDispatch` | the watcher's worker with its batches, the two locks and a rebuild that competes for them | - |
| `WatchDispatchProofs` | what the watcher may do to a row, proved | `WatchDispatch`, `FiniteSetTheorems`, `TLAPS` |
| `WatchConvergeProofs` | that the index follows the disk, proved | `WatchDispatchProofs` |
| `SessionGate` | the gate in front of `/mcp`: places for sessions, and the refusal log | - |
| `SessionGateProofs` | its theorems | `SessionGate`, `FiniteSetTheorems`, `TLAPS` |
| `MCWriterLease`, `MCWriterSlot`, `MCDeclaredPass`, `MCIndexRun`, `MCWatchDispatch`, `MCSessionGate` | values and symmetry for TLC | the module of the name |

### WriterLease

`lock`, `json` and `form` are per resolved file: who holds the OS lock of
`<db>.writer-lock`, which pid `<db>.writer.json` names, and whether the index is
absent, has a schema, or has its embedding meta as well. `link` is the file the
index path resolves to *now*; `Repoint` changes it at any time. A process has a
place (`pc`), what it takes the lease for (`goal`), the path it resolved once
(`target`), the file its lease locks (`held`) and its connection (`conn`, `rw`).

Each try of `try_acquire_with`, of the retry loops and of purge's `hold_writer_lock`
is one of `Acquire`, `SeeBusy`, `GiveUp`, `LockError`; `Publish` is the holder file;
`OpenWriter` and `MakeWritable` are the two ways to a writable connection (open on
the leased file, or switch the one already open after `is_on`); `DropFirst` and
`DropSecond` are the two steps of `Drop for WriterLease`. `Exit` is an orderly
exit or a kill at any step: the OS drops the lock, `writer.json` stays. A wait
with a deadline is a try that may be given up while the lock is seen held, and
file names stand for inodes (a purge that deletes and a run that creates the same
path use the same name).

### WriterSlot

The slot's inner mutex is never held over a wait, so each of its critical
sections is one action and the mutex is not a variable. The database mutex is
(`dbGuard`): taking it, and each step under it, is an action of its own, since
that is where make_writable, abandon, release and settle run statements between
looks at the slot. A claim is `<<claimant, generation>>`; `mark` has the live
generation of each claimant and `pending` the claims a panic left queued.
`settler` is the task the janitor spawns, `main` the server's start and shutdown,
`json` is what `writer.json` says of the role and of watching, `said` what the lease says. The
code does not look at a failed removal of `writer.json` (`writer_lease.rs:413`, `811`), so
`Remove` may leave the old record; `overdue` remembers that, and that a lease was kept after a
failed pragma, until the file is next written or removed, by this server or by another process
that takes the OS lock. `JsonFollowsWatcher` speaks of the time in which it is not. What can go
wrong is a set, `Faults`: either direction of the pragma, a connection that is no
longer on the leased file, a meta mismatch, models that do not load, a lock file
that cannot be opened, a holder file that cannot be written or removed, and a panic, which
unwinds in the order Rust drops what the frame owns. A rebuild may panic once it has claimed, at
each step of make_writable (`MakingWritable`) and while it writes; the watcher in a batch, in
its task and at its end. Not modelled: a panic inside a critical section of the inner mutex
(release, settle, shutdown), and one while the server starts, which ends the process.

A server that is killed is in `WriterLease` (`Exit`), not here: nothing of the
slot outlives its process.

### DeclaredPass

A document's content is the set of keys its frontmatter has; a row carries the
content it was written from and the fields it holds. A run's places follow
`rebuild_index`: reset under force, the observation of the recorded set, the
decision with the empty-set shortcut, `begin_declared_fields_pass`, the scan, the
loop, the prune, `finish_declared_fields_pass`, and `stop_cancelled_run` at the
cancel points. Reading a file and writing its row are two actions, since only the
write is a transaction. `Leased` runs exclude each other; `Free` runs and the
watchers of their processes stand for writers that do not take the lease (an older
binary, a program that links the library), for whom the token and the dirty mark
exist. Runs are reusable names: a name stands for a run after another, so that any
number of runs is covered by a few names. A renamed document keeps its row.

Scanning, renaming and the check for unreadable documents are merged into one step
(`Scan`), which is sound here because only the rows' survival and content matter to
the keys. All documents are Markdown (others carry no fields).

### IndexRun

A row is the hash of the bytes it was written from, the text of its chunks, the file name
its breadcrumb was taken from, and whether the rules of now wrote it (`rule`; an index of an
older version has rows of formats that are to be read again once, `Reread`, whose `rule` is
false). What a parser makes of some bytes is a constant (`TextOf`), so that a text under the
wrong hash is visible. `recorded` is the set of formats whose policy keys are at their value.

A run's places (`pc`) follow `rebuild_index`: `Reset` (forced), `Snapshot` (keys, then every
row's id and hash), `Walk` and `ScanFile` (two phases, one file at a time), `Rename`
(`detect_renames` and the one transaction that moves all pairs another writer has not
touched), `ChooseRereads`, then one document after another, the moved ones first
(`NextDoc`): the fast path, the second read of the file with its outcomes, and the write it
calls for, whole, metadata only, or only what the older rules lacked (`WriteFor`). A row that
crossed to another parser is settled after its read (`Settle`), and read once more at the end
if its file changed under the first (`Retry`, `RetrySettle`). `PruneBatch` deletes only what is
as the snapshot saw it; `Record` marks what the run cannot speak for in the transaction that
records the keys. `Stop` stands for a check point that finds the token set, an error and a
kill: they leave the same rows. Between any two steps a file may be written, removed or
renamed, or a process without the lease may write, drop or move a row.

A row's id is the path where the snapshot saw it, or `NoPath` when it was given later; that is
all the checks of ids compare. Merged or left out: the columns that a fast path refreshes
without a read, progress output, reuse of embeddings by text, batching of the prune (one path
to a batch is the finest).

Known limits of the check by id and hash, excepted in `OthersKept`. When the run has moved a
row away (`run.moved`) and a writer without the lease moves it back, the prune takes it for its
own old row and deletes it (`docs/behavior.md` says that the prune keeps rows the other writer
changed). And two writes of such writers may bring a row back to the id and the hash the snapshot
saw, with another row there in between; so the property speaks of one (`others <= 1`).

### WatchDispatch

`work` is the worker: the tasks left of its batch, and the step, mode and outcome of the one
at hand. An event is a task; what it expands to (a directory to its files, a removal that
found something there to a read) are tasks as well. Each look at the disk, each read and each
transaction is an action, since the disk changes in between: `Environment` has files written,
deleted, moved in, renamed over each other, directories removed and renamed, hard links
(`Linked`) that the write gate refuses. `embedder` and `db` are the two mutexes in the order
the code takes them (`NeedsBoth`, `NeedsDatabase`); a removal that finds its file back gives
the database back and takes both (`LookAgain`). `channel` is the bounded channel; a batch that
finds it full is dropped, which only `missed` remembers. `Ask`, `AskDatabase` and `Rebuild` are
a `rebuild_index` request of the same process that holds both mutexes for a whole run; what
the run does in between is `IndexRun`, here it is one step (`RowsOfDisk`).

Events are delivered with the change they report, since the time in the debouncer is as the
time in the channel; but the report of a new file may be held (`pending`) and what becomes of
that file meanwhile is folded into it. A look at the size and the first read of a file are
one step. One look, read or write per behaviour may fail (`Fault`), after which `Converges` says
nothing: the code reports a failure and does not retry. What it does instead is followed:

- A deletion that fails leaves the row (`RemoveRows`, `DropBothFails`, `DropMovedFails`).
- A directory's destination that could not be looked at is taken for no directory when the event
  is dispatched (`RenamedDirUnknown`); later its rows are moved there (`ListDirUnknown`) and it is
  scanned (`ArrivedUnknown`) all the same.
- A listing that fails names no rows (`ListDirFails`, `ListGoneFails`, `BehindFails`).
- A plan that fails leaves both rows (`PlanFails`); one that had cleared the destination, or was
  about to, settles it (`ClearFails`).
- A rename that fails before its move settles a destination that was cleared for it
  (`RenameFailed`); one that fails after its move across parsers leaves a marked row, which is
  read once more (`MovedUnread`, `Settle` with `awaiting`).

Known limits. A file created, or renamed over another, and deleted inside one debounce window
leaves no event (`notify-debouncer-full` 0.6.0, the comment at `watcher.rs:457`): its row stays
until the next full run; `folded` excepts it. Two renames across parsers take two transactions
each. A row moved unread is renamed and then marked (`watcher.rs:3637`, `3684`); a row whose file
is gone under its new name is renamed and then deleted (`indexer/rename.rs:530`). A kill between
leaves it unmarked under the other parser, and so does a deletion that fails; `TextOfItsHash`
excepts the step between (`HalfMoved`) and what follows such a failure (`unmarked`). That a look
and then the writing of the mark both fail takes two faults, which the model does not reach. The
second read that the static context takes of a renamed file (`indexer/rename.rs:676`) is in the
plan.

### SessionGate

A request at the gate (`pc`) asks for a place, is handled by rmcp, and gives its seat
back, or is refused and recorded. `in_flight` and its mutex are `inFlight` and
`gateLock`; the two reads of `try_reserve` are two actions (`ReadLive`, `Decide`) that
only the mutex keeps together, so that the model could show what happens without it.
rmcp's map of sessions is `live`; while a session goes in (`inserting`) or out (`ending`)
the count cannot be read and the attempt is one of `MapBusy`. A request can be dropped
wherever it awaits (`Cancel`), and what its frame owns, the seat, goes back through
`ReturnSeat`. `RefusalLog::record` takes no lock: the clock, the load, the exchange and
the swap or the addition are actions of their own. `refused` and `told` are history
variables: what was refused, and what the lines written so far account for. A request that
is let through without the gate (no `initialize`, a session id, `max_sessions = 0`) touches
none of this state and is left out.

## Runs

| Run | Instance | Distinct states | Shows |
|---|---|---|---|
| `lease_safety` | 2 processes, 2 files, symmetric | 494 thousand | the seven properties of `WriterLease`, the refinement of `OneWriter` among them |
| `slot_safety` | watcher, 2 requests, 4 claims, every fault | 6.4 million | the ten safety properties of `WriterSlot` |
| `slot_live` | watcher, 1 request, 3 claims, panics and models that do not load | 77 thousand | queued claims are settled, rebuild claims and the rebuild slot come back, shutdown ends |
| `slot_watching` | violation | | finding 1 |
| `fields_lease` | 3 documents, 2 keys, leased runs one after the other, forced or not | 144 thousand | recorded means current; ended passes are closed; a pass always records |
| `fields_overlap` | 1 document, 1 leased and 2 free runs, watchers | 2.7 million | recorded means current when runs overlap and take each other over |
| `index_run` | 3 paths, 2 formats, plain and forced runs, stopped anywhere; in a run one change or one unreadable file; one write without the lease | 4.0 million | the five properties of `IndexRun` |
| `index_crumb` | violation | | finding 4 |
| `watch_dispatch` | 3 paths in 2 directories, 2 formats, a channel of 2, 3 changes or requests, one fault | 2.0 million | the text of a row is that of its hash; a quiet disk is followed; a steady file keeps its row; the worker always catches up |
| `session_gate` | 3 requests at a time, 2 places, 4 refusals, 4 seconds | 344 thousand | the five properties of `SessionGate` |
| `fields_leftover` | violation | | finding 2 |
| `fields_no_text` | violation | | finding 3 |

Bounds, and why they are enough for what is asked:

- *Two processes and two files.* Each property of the lease relates one holder to one
  other process, and one file to the one the path was repointed to. The proofs cover
  the rest.
- *Two requests and four claims.* The rebuild slot lets one request through at a
  time; a second is needed to claim while the first is unwinding, and a claim after
  a queued one of its kind needs the watcher's and three more. `MaxClaims` bounds the
  generation counter only.
- *One request and three claims for liveness*, with the faults that queue a claim or
  end a start: the others add ways to fail, not ways to wait.
- *Two keys, sets of at most one.* A set can change, come back and be emptied; a
  document has neither key, one or both.
- *Three documents* for the loop, the prune and the scan of runs that exclude each
  other; *one document and three overlapping runs* for the token protocol, whose keys
  do not depend on which row was written. With three runs, one can begin over another
  that took over a third.
- In `fields_overlap` no set is empty, no run is forced and contents are fixed. ADR-0031
  leaves some look-then-write steps of overlapping runs unprotected (a fields-only refresh
  of bytes that were replaced meanwhile; the empty-set shortcut looking at the key and at
  the rows in two steps; a forced replacement), and with them allowed the model finds just
  those. They are listed as hazards with that note; the run checks what is promised.
- `fields_lease`, `fields_overlap` have `NewRules = FALSE`: the headings that are left out
  do not change. `fields_no_text` lets them.

- *Three paths and two formats* for `index_run`: two paths within a format and one across
  are enough for a chain, a swap, a rename over another file and one that crosses; with two
  contents two files can have equal bytes, so that renames are ambiguous. Runs follow each
  other without end, so that what one leaves meets the next. `Bounded` looks at a file that
  changes and at one that cannot be read in turn, and gives the writer without the lease two
  paths; the proofs have no such bound. A second change matters only to a file that changed
  under its second read, which the retry meets with one.
- *Three changes and a channel of two* for `watch_dispatch`: a rename, a change of its source
  and one of its destination; two batches wait while one is handled, and a third is dropped.
  `MaxChanges` bounds changes and requests together.
- *Three requests, two places*, names used again: two requests race for the last place
  while a third gives its seat back. `RESERVE_ATTEMPTS` is 2 and the log's window 2 seconds,
  with time for a second line; `MaxRefused` and `MaxClock` end the run. The proofs
  cover the rest.

A server may stop for good, a process ends and a run may not come again, so no run
checks for deadlock; liveness says what must not wait for ever.

Every property has a mutant: a definition of the model replaced by one a plausible bug
would give (a dropped guard, a mark kept, an order swapped), which the run must reject.
They stand beside the definitions they replace, as `Name_HowItIsWrong`.

### Fairness

`slot_live` assumes that a thread that can go on does (weak fairness per thread), that
a thread waiting for the database mutex gets it if it is free again and again (strong
fairness of the locking actions: `std::sync::Mutex` promises no order, but does not
starve one waiter under the finite load here), and that a batch ends (strong fairness
of `EndBatch`: `handle_events` walks a finite list). Nothing obliges a request to come, the
transport to end, a fault to happen, a batch to start or another process to let the OS
lock go. The settle may be started at every tick while claims wait (`WF(Settle)`).

`watch_dispatch` assumes weak fairness of the worker, of the request that has the embedder and
waits for the database, of its run, and of the debouncer's timer for a held report. The
changes of the disk are finitely many and a request has no obligation to come. Nobody is
assumed to win a mutex over and over: a request asks once, so one that is free goes to the one
that waits.

## Proofs

All theorems are for any sets of processes, files, requests, any bound on claims
and any set of faults (and any paths, parsers and bytes); the assumptions are those the modules name (model values for
"none" are outside the sets they are added to and differ from each other; the bounds are natural numbers; the
requests at the gate at one time are finitely many).

- **WriterHoldsLock, PurgeHoldsLock, TypeOK** of `WriterLease`. None is inductive: a
  process that is about to write must be known to hold the lock of `held`, and its
  connection to be on that file. `IInv` adds `HoldsItsLock` (where `pc` says a lease
  is held, the lock of `held[p]` is p's), `WritesUnderLease` (a writable connection is on
  `held[p]`, at a place with a lease), `TargetResolved` and `PurgesWhatItLocked`.
  It does not mention `link`: that is the proof that repointing the path cannot matter.
- **ImplementsOneWriter**: initial states have no writers; every step changes the places,
  connections and targets of one process only (`OneProcessSteps`), and then begins or ends
  at most one pair of `Writers` (`StepImplements`); a pair begins only if nobody else has
  the file, since both would hold its lock.
- **InfoNamesHolder, PurgeWaitsForSeenHolder, OnlyHolderTouchesInfo** of `WriterLease`. The
  release removes the holder file and then drops the lock, in two steps between which it may be
  killed: `RemovedFirst` says that the file is gone, or could not be removed, when only the lock
  is left to drop. The third follows from the lock that `IInv` gives to whoever is at a place
  that touches the file.
- **WritableNeedsLease, TypeOK** of `WriterSlot`. A statement and the look at the slot
  that justified it are separate steps, so `IInv` says who holds the database mutex where
  (`DbHeld`), that a thread about to turn query_only off still has a lease
  (`SqlHasLease`: a lease goes only under the database mutex), and that one that turned it
  on again finds it so (`UndoneReadOnly`).
- **MarksOwned, LeaseHasReason, RebuildCanWrite, BatchKeepsLease, NoSecondLiveClaim,
  StopRecorded, JsonFollowsWatcher, NoStopOnceClosed** of `WriterSlot`, from one invariant,
  `SlotInv`, since each of them is what another thread relies on. `ThreadsInOrder` puts the
  threads in order (one rebuild at a time has a guard, the watcher runs between the start and the
  shutdown of the server, a guard has a generation); `ClaimsInOrder` says where a claim's mark is
  its own and, from its look at the slot on, what it still finds there (`MadeWritable`);
  `WatcherInOrder` relates the watcher's place to its mark, its queued claim and what is known
  of its end, so that a queued claim of the watcher is over and can be settled; `LeaseInOrder`
  relates the lease and `writer.json`, unless that is `overdue`, to the marks. A claim that panics leaves its mark to the
  queue: that its generation is not given again is what lets a settle lower no later claim's.

- **SessionLimit, SeatsCounted, TypeOK** of `SessionGate`, for any `max_sessions`. A
  request between its two reads has an old count, so `IInv` says that the old count and
  the seats together still cover every session that is there or coming (`ReadCovers`): a
  session that appears had a seat, the seat cannot go back while the mutex is held, and
  all else only makes room. Counts of requests change by one move at a time (`SeatMoves`).
- **RecordedSettled, TextAlwaysOfItsHash, TypeCorrect** of `IndexRun`, for any paths, bytes,
  parsers, changes and number of runs, as long as every writer takes the lease. A row of the
  older rules whose format the run is to record (`Unsafe`) must never get lost between the
  phases: `ProgressInv` says that from the snapshot to the scan it is in the snapshot, in the
  loop still to be looked at or unsettled, and in the prune among what the last transaction
  marks. `JobInv` says that a write by comparison was compared with the row that is there,
  `ForceInv` that a forced run has no old rows at all, `ResultInv` that a crossed row counted
  as settled is. No step makes a row worse (`BetterRows`: as it was, gone, marked, or written
  by the rules of now from the bytes of its hash), but the move, which is shown apart. The
  proof of types also shows that the run always has its document (`WhereInv`), which rests on
  a smallest path in any set of them (`FirstIn`, from well-founded induction).
- **OthersKept, StableStays, OneRunIsEnough** of `IndexRun`, for any paths, bytes, parsers,
  changes and number of runs. They are properties of steps, and rest on what the run knows when
  it takes them. `PlanInv` orders its sets (what is to do was scanned, what is to be pruned was
  seen and not scanned; what was put off is not to do). `AloneInv` says that while nobody else
  writes, a row without a file is the one of the snapshot until the prune takes it, and
  `OthersInv` that one write of another makes a row differ from it. `StillInv` says what the walk
  and the scan know of files that do not change, `CrossedInv` that a row that crossed between
  parsers awaits its read until it is settled: the only rows that are dropped in the loop are
  such rows and those of files without text. For a run that nothing disturbs, `PlannedInv` says
  that what is to be read again was chosen right and still is, and `CleanInv` that whatever the
  loop is done with has the hash and the text of its file and is not to be marked; with
  `SettledInv` a row the fast path keeps has its text.
- **TextAlwaysOfItsHash, SteadyRowsKept, TypeCorrect** of `WatchDispatch`, for any tree, any
  channel and any number of changes. A row's text can only go wrong by a move across
  parsers, so the invariant says that a row is marked before it makes that move with its read
  still to come, but for the two moves named above (`MarkInv`), and who holds the database
  where (`LockInv`). That a steady file
  keeps its row needs what a look under the lock found to hold later: `GoneInv` says that
  what is about to be dropped was gone when looked at, and is in `touched` if it is there
  again; `TreeInv` that a file is in a directory that is there.
- **AlwaysConverges** of `WatchDispatch`, in the same generality. `Outstanding` follows each path:
  its row is right, or the step at hand makes it so (`Working`), or a held report, a batch of the
  channel or a later task covers it (`Follows`). `Covers` says what a task does for a path, given
  what is there when its turn comes; a walk covers no file that was settled before. That is not
  inductive. A drop takes what is there by then, so a file that came back under it must be
  covered by an event that waits (`DropsCovered`); the same is said beforehand of every task that moves a
  row away, in the batch at hand and in the channel (`TodoCovered`, `ChannelCovered`). `Tidy`
  keeps the tasks of a batch in an order in which no walk has settled a file that a task before
  it moves away, `EventsInv` says which events there are, and `ModesInv` where a run without a
  fault can be: above all that a marked row still has its read to come. Each action is shown to
  keep this (`DispatchHandled`, `ReadFileHandled`, `MoveFileHandled`, `EnvironmentHandled`, ...);
  The invariant also says
  that without a fault nothing is left unmarked. TLC found it kept on the bounds of
  `watch_dispatch` first. Once a batch, a look or a
  read is missed nothing is claimed, as in the property.
- **LeasedRecordedMeansCurrent, LeasedPassRecords, PassClosed, TypeCorrect** of
  `DeclaredPass`, for any documents, keys, contents and schemas. The last two hold with writers
  that take no lease as well. The first two are about writers that all take it, and say so
  (`Free = {}`); they also fix the rules for what is left out (`~NewRules`), since the third
  finding refutes the first without that. `LeaseInv` says that at most one run is at work;
  that before it begins it knows what is recorded (`BeforeInv`); and that from its scan on
  (`WorkInv`) it has a pass of its own that nobody marks, or records nothing new, and that
  each row is as its schema says (`Good`) or still in front of it: to be visited, about to
  be written, gone or pending (`Ahead`). At the end nothing but pending is left, and a
  pending run records nothing (`ReadAllIsGood`).
- **RefusalsAccounted, LinesApart** of `SessionGate`, from the types: each step of the log
  moves a refusal from one of the three places it is counted in to another; a line is
  written only over the time its writer compared with.

Only model-checked: liveness (`slot_live`, `CaughtUp`: fairness and ENABLED are beyond the
prover), and, for writers that do not take the lease, `RecordedMeansCurrent` (`fields_overlap`
checks it for contents and schemas it holds for). `AlwaysConverges` and `CaughtUp` complement
each other: the second says that the watcher gets to the end, the first what is true there.

## Findings

1. `slot_watching` — `WriterSlot::abandon` turns query_only on whatever other claim is
   live. When a rebuild's make_writable fails, a live watcher goes on with a connection
   that refuses every write, while `writer.json` says it watches. The comment in
   make_writable says that query_only stays as it is for a live claim.
2. `fields_leftover` — a run that dies inside its pass, when nothing is declared and no
   row has a field, leaves a token that no later plain run clears: they all take the
   empty-set shortcut, begin no pass, and are refused as superseded. doctor's remedy for the
   state ("one run records the set") does not work.
3. `fields_no_text` — a renamed document that has no text under new heading rules keeps its
   row with the fields of the old set, is not counted as pending, and the new set is recorded.
4. `index_crumb` — under the static context, a run that ends between the transaction that moves
   the rows of renamed files and their second read leaves rows whose hash matches and whose
   breadcrumb names the old file. Only renames across parsers are marked in that transaction;
   the others keep the old breadcrumb until `--force`.

Met on the way, not checked by a run: the comment at `server.rs:1551` still says that a
command-line rebuild overlaps a served one, which ADR-0031 ended.

## Plan

Done: the lease and its refinement, the slot, the declared-field pass, the session gate, the
full rebuild, the watcher's dispatch, and the theorems above. Next, in this order:

1. `ServeStop`, the record of a service's server, its section lock and pid reuse.
2. The static context and the spellings of a path in `WatchDispatch`, which move chunks between rows.

## Not modelled

Text extraction, chunking, embedding, scoring, SQL, rendering, argument and
configuration handling, service files: data in, data out, without state that two
actors share, and covered by the repository's own tests. Where a model needs their outcome it
takes any of the possible ones (`Found`, `NoText`, `TextOf`, `Faults`). They are most of the
repository's lines, the tests in the same files a large part of the rest. The history file of `eval`
has no lock and no promise to check. The stale replace lock of `db.rs` is documented as
needing a person. `PROJECT.json` lists each component with its reason, and the hazards
no property covers yet.
