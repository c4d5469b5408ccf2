----------------------------- MODULE WatchDispatch -----------------------------
(***************************************************************************)
(* What the watcher does with the events it is given (handle_events and    *)
(* the dispatchers of watcher.rs, with the indexer's single-file reads).   *)
(*                                                                         *)
(* The debouncer hands over batches through a bounded channel; one worker  *)
(* takes them one at a time.  An event is old news: the file it names may  *)
(* have changed, moved, come back or become a hard link since, and may do  *)
(* so again between any two looks of the worker.  So the worker looks at   *)
(* the disk before it acts, decides removals under the lock of the         *)
(* database, reads under that lock and the embedder's, and looks again     *)
(* when a read did not settle the row.                                     *)
(*                                                                         *)
(* A path is a directory and a name; a path outside Path is one the index  *)
(* does not cover (excluded, or of a type no parser takes).  A batch is    *)
(* delivered with the change it reports: time spent in the debouncer is    *)
(* the same as time spent in the channel, except that the debouncer may    *)
(* hold the report of a new file, and folds what becomes of the file       *)
(* meanwhile into it.  Every look at the disk is a step of its own.        *)
(***************************************************************************)
EXTENDS Integers, Sequences, SequencesExt

CONSTANTS Dir, Path, Content, Text, Parser,
          ParserOf,     \* the parser of the files at a path
          TextOf,       \* TextOf[parser][bytes]: the chunks, NoText or Broken
          Starts,       \* what may be on the disk when the watcher starts
          Capacity,     \* batches the channel holds
          MaxChanges,   \* bound: changes of the disk and rebuild_index requests
          Gone, Linked, Awaiting, NoRow, NoText, Broken, Outside

ASSUME TreeAssumption == IsFiniteSet(Path) /\ \A p \in Path : p[1] \in Dir
ASSUME ParseAssumption ==
    /\ ParserOf \in [Path -> Parser]
    /\ TextOf \in [Parser -> [Content -> Text \cup {NoText, Broken}]]
    /\ Starts \subseteq [Path -> Content \cup {Gone}]
ASSUME NamesAssumption ==
    /\ NoText \notin Text /\ Broken \notin Text /\ NoText # Broken
    /\ Gone \notin Content /\ Linked \notin Content /\ Gone # Linked
    /\ Awaiting \notin Content /\ Outside \notin Path
ASSUME BoundAssumption == Capacity \in Nat /\ MaxChanges \in Nat

VARIABLES
    disk,       \* the bytes at each path, Linked (a hard link) or Gone
    dirs,       \* the directories there are
    row,        \* the row of each path, or NoRow
    pending,    \* new files whose report the debouncer still holds
    channel,    \* the batches waiting
    work,       \* what the worker is doing
    embedder,   \* who holds the lock of the embedder
    db,         \* who holds the lock of the database
    other,      \* a rebuild_index request of the same process
    missed,     \* a batch was dropped, or a look, a read or a write failed
    folded,     \* files that came and went without a report, their row in place
    unmarked,   \* a row moved to another parser unmarked, and its removal failed
    touched,    \* the files that changed since the worker has the database
    changes     \* changes of the disk and rebuild_index requests so far

tree == <<disk, dirs>>
locks == <<embedder, db>>
history == <<missed, folded, unmarked>>
vars == <<tree, row, pending, channel, work, locks, other, history, touched, changes>>

Row == [hash : Content \cup {Awaiting}, text : Text]
ASSUME RowAssumption == NoRow \notin Row
HasRow(p) == row[p] # NoRow
Awaits(p) == HasRow(p) /\ row[p].hash = Awaiting
Parsed(p, content) == TextOf[ParserOf[p]][content]
RowOf(p, content) == [hash |-> content, text |-> Parsed(p, content)]
Crosses(p, q) == ParserOf[p] # ParserOf[q]

In(d) == {p \in Path : p[1] = d}
RowsUnder(d) == {p \in In(d) : HasRow(p)}

\* What a full run makes of the disk: it keeps the row of a file it cannot parse.
RowsOfDisk ==
    [p \in Path |->
        IF disk[p] \notin Content \/ Parsed(p, disk[p]) = NoText THEN NoRow
        ELSE IF Parsed(p, disk[p]) = Broken THEN row[p]
        ELSE RowOf(p, disk[p])]

(***************************************************************************)
(* A task is an event of a batch or what is left to do of one.             *)
(*   write, removed, rename, arrive, removeDir, renameDir    events        *)
(*   linkEnd       a rename ended where the write gate refuses a link      *)
(*   reindex       read a file that was written                            *)
(*   away          drop the row of a file that was renamed away            *)
(*   after         a removal that found something there                    *)
(*   move          a renamed file: move its row                            *)
(*   walk, behind  look into a directory; then see to what it held         *)
(*   listDir, listGone, sweepSource     a renamed directory                *)
(***************************************************************************)
Task(kind, at, to) == [kind |-> kind, at |-> at, to |-> to, paths |-> {}]
TaskOver(kind, at, paths) == [kind |-> kind, at |-> at, to |-> Outside, paths |-> paths]
ForEach(kind, paths) == LET order == SetToSeq(paths) IN
                        [i \in 1..Len(order) |-> Task(kind, order[i], Outside)]

NeedsDatabase == {"removed", "away", "arrive", "behind", "removeDir", "listDir", "listGone", "sweepSource"}
NeedsBoth == {"reindex", "after", "move"}

Kind == NeedsDatabase \cup NeedsBoth \cup {"write", "rename", "linkEnd", "renameDir", "walk"}
Place == Path \cup Dir \cup {Outside}
TaskType ==
    {task \in [kind : Kind, at : Place, to : Place, paths : SUBSET Path] :
        task.kind = "move" => {task.at, task.to} \subseteq Path}

(***************************************************************************)
(*   todo      the tasks left of the batch; the first is at work           *)
(*   step      where it is in that task                                    *)
(*   mode      what asked for the read (see Settle)                        *)
(*   seen      the bytes the first of two reads found                      *)
(*   result    what became of the read, or the row a rename kept           *)
(*   cleared   the rename dropped the row of the file it overwrote         *)
(*   settled   destinations of a directory rename that need no second read *)
(***************************************************************************)
Idle == [todo |-> <<>>, step |-> "next", mode |-> "none", seen |-> Gone, result |-> "none",
         cleared |-> FALSE, settled |-> {}]

Now == Head(work.todo)
At == Now.at
To == Now.to
\* The file that is read.
File == IF Now.kind = "move" THEN To ELSE At

Ready(kinds) == work.todo # <<>> /\ work.step = "next" /\ Now.kind \in kinds
AtStep(step) == work.todo # <<>> /\ work.step = step
Locked(kinds) == AtStep("locked") /\ Now.kind \in kinds

Then(tasks) ==
    LET rest == tasks \o Tail(work.todo) IN
    [Idle EXCEPT !.todo = rest, !.settled = IF rest = <<>> THEN {} ELSE work.settled]
Release ==
    /\ embedder' = IF embedder = "watcher" THEN "free" ELSE embedder
    /\ db' = "free" /\ touched' = {}
Done(tasks) == Release /\ work' = Then(tasks)
Goto(step) == work' = [work EXCEPT !.step = step] /\ UNCHANGED <<locks, touched>>
GotoAfter(step, result) ==
    work' = [work EXCEPT !.step = step, !.result = result] /\ UNCHANGED <<locks, touched>>
Read(mode) == work' = [work EXCEPT !.step = "read", !.mode = mode] /\ UNCHANGED <<locks, touched>>

\* A look, a read or a write that fails: the run then says nothing of what the index misses.
Fault == ~missed /\ missed' = TRUE
NoFault == UNCHANGED missed

Surroundings == <<tree, pending, channel, folded, other, changes>>
Outer == <<Surroundings, unmarked>>

\* The index is in step when the watcher starts.
Init ==
    /\ disk \in Starts
    /\ dirs = {p[1] : p \in {q \in Path : disk[q] # Gone}}
    /\ row = [p \in Path |-> IF disk[p] \in Content /\ Parsed(p, disk[p]) \in Text
                             THEN RowOf(p, disk[p]) ELSE NoRow]
    /\ pending = {} /\ channel = <<>> /\ work = Idle
    /\ embedder = "free" /\ db = "free"
    /\ other = "idle"
    /\ missed = FALSE /\ folded = {} /\ unmarked = FALSE /\ touched = {} /\ changes = 0

(***************************************************************************)
(* The disk, and the events the file system reports.                       *)
(***************************************************************************)
\* The callback of the debouncer cannot wait: a batch that finds the channel full is lost.
Deliver(events) ==
    IF Len(channel) < Capacity
    THEN channel' = Append(channel, events) /\ UNCHANGED missed
    ELSE missed' = TRUE /\ UNCHANGED channel

Change(files) ==
    /\ changes < MaxChanges
    /\ changes' = changes + 1
    /\ touched' = IF db = "watcher" THEN touched \cup files ELSE touched
    /\ UNCHANGED <<row, work, locks, other, unmarked>>

Silent == UNCHANGED <<channel, missed>>

\* The files of a directory made a moment ago may send no event of their own.
Write(p) ==
    /\ Change({p})
    /\ \E there \in Content \cup {Linked} :
          there # disk[p] /\ disk' = [disk EXCEPT ![p] = there]
    /\ dirs' = dirs \cup {p[1]}
    /\ \/ /\ p[1] \notin dirs /\ UNCHANGED pending
          /\ \E later \in {<<>>, <<Task("write", p, Outside)>>} :
                Deliver(<<Task("arrive", p[1], Outside)>> \o later)
       \/ /\ p[1] \in dirs /\ p \notin pending /\ UNCHANGED pending
          /\ Deliver(<<Task("write", p, Outside)>>)
       \/ /\ p[1] \in dirs /\ (disk[p] = Gone \/ p \in pending)
          /\ pending' = pending \cup {p} /\ Silent
    /\ UNCHANGED folded

Flush(p) ==
    /\ p \in pending
    /\ pending' = pending \ {p}
    /\ Deliver(<<Task("write", p, Outside)>>)
    /\ UNCHANGED <<tree, row, work, locks, other, folded, unmarked, touched, changes>>

\* The worker is at a read of the file that it looks at again when the read fails.
LooksAgain(p) ==
    work.mode \in {"write", "removal"} /\ work.step \in {"read", "parse", "relook"} /\ File = p

\* A file that goes while its report is held leaves no event at all.
Delete(p) ==
    /\ disk[p] # Gone
    /\ Change({p})
    /\ disk' = [disk EXCEPT ![p] = Gone]
    /\ IF p \in pending
       THEN /\ pending' = pending \ {p} /\ Silent
            /\ folded' = IF HasRow(p) /\ ~LooksAgain(p) THEN folded \cup {p} ELSE folded
       ELSE /\ \E event \in {Task("removed", p, Outside), Task("rename", p, Outside)} : Deliver(<<event>>)
            /\ UNCHANGED <<pending, folded>>
    /\ UNCHANGED dirs

MoveIn(q) ==
    /\ disk[q] = Gone /\ q[1] \in dirs
    /\ Change({q})
    /\ \E there \in Content \cup {Linked} : disk' = [disk EXCEPT ![q] = there]
    /\ Deliver(<<Task("rename", Outside, q)>>)
    /\ UNCHANGED <<dirs, pending, folded>>

\* A rename over what is there.  Its two ends are reported together or apart; that of a new
\* file is folded into its report.
Move(p, q) ==
    /\ p # q /\ disk[p] # Gone /\ q[1] \in dirs
    /\ Change({p, q})
    /\ disk' = [disk EXCEPT ![q] = disk[p], ![p] = Gone]
    /\ IF p \in pending
       THEN pending' = (pending \ {p}) \cup {q} /\ Silent
       ELSE /\ pending' = pending \ {q}
            /\ \E events \in {<<Task("rename", p, q)>>,
                              <<Task("removed", p, Outside), Task("write", q, Outside)>>} : Deliver(events)
    /\ folded' = IF p \in pending /\ HasRow(p) THEN folded \cup {p} ELSE folded
    /\ UNCHANGED dirs

\* The events of the files are folded into that of the directory.
RemoveDir(d) ==
    /\ d \in dirs
    /\ Change(In(d))
    /\ disk' = [p \in Path |-> IF p[1] = d THEN Gone ELSE disk[p]]
    /\ dirs' = dirs \ {d}
    /\ pending' = pending \ In(d)
    /\ Deliver(<<Task("removeDir", d, Outside)>>)
    /\ UNCHANGED folded

MoveDir(d, e) ==
    /\ d \in dirs /\ e \notin dirs
    /\ Change(In(d) \cup In(e))
    /\ disk' = [p \in Path |->
                   IF p[1] = e /\ <<d, p[2]>> \in Path THEN disk[<<d, p[2]>>]
                   ELSE IF p[1] \in {d, e} THEN Gone ELSE disk[p]]
    /\ dirs' = (dirs \ {d}) \cup {e}
    /\ \E events \in {<<Task("renameDir", d, e)>>,
                      <<Task("removeDir", d, Outside), Task("arrive", e, Outside)>>} : Deliver(events)
    /\ UNCHANGED <<pending, folded>>

(***************************************************************************)
(* The other thread that takes both locks: an MCP rebuild_index request.   *)
(***************************************************************************)
Ask ==
    /\ other = "idle" /\ changes < MaxChanges /\ embedder = "free"
    /\ other' = "embedder" /\ embedder' = "request" /\ changes' = changes + 1
    /\ UNCHANGED <<tree, row, pending, channel, work, db, history, touched>>

AskDatabase ==
    /\ other = "embedder" /\ db = "free"
    /\ other' = "both" /\ db' = "request"
    /\ UNCHANGED <<tree, row, pending, channel, work, embedder, history, touched, changes>>

Rebuild ==
    /\ other = "both"
    /\ row' = RowsOfDisk
    /\ other' = "idle" /\ embedder' = "free" /\ db' = "free"
    /\ UNCHANGED <<tree, pending, channel, work, history, touched, changes>>

(***************************************************************************)
(* The worker: events, before any lock.                                    *)
(***************************************************************************)
TakeBatch ==
    /\ work.todo = <<>> /\ channel # <<>>
    /\ work' = [Idle EXCEPT !.todo = Head(channel)]
    /\ channel' = Tail(channel)
    /\ UNCHANGED <<tree, row, pending, locks, other, history, touched, changes>>

\* A link the write gate refuses goes the way of a removal.
Written ==
    /\ Ready({"write"})
    /\ work' = Then(<<Task(IF disk[At] = Linked THEN "removed" ELSE "reindex", At, Outside)>>)

\* Both ends decide; the gate passes a path with nothing at it.
RenameSteps(p, q) ==
    LET taken == q \in Path /\ disk[q] # Linked
        link == IF q \in Path /\ ~taken THEN <<Task("linkEnd", q, Outside)>> ELSE <<>>
    IN  IF p \in Path /\ taken THEN <<Task("move", p, q)>>
        ELSE IF p \in Path THEN <<Task("away", p, Outside)>> \o link
        ELSE IF taken THEN <<Task("reindex", q, Outside)>> ELSE link
Renamed ==
    /\ Ready({"rename"})
    /\ work' = Then(RenameSteps(At, To))
LinkEnd ==
    /\ Ready({"linkEnd"})
    /\ work' = Then(IF disk[At] = Linked THEN <<Task("removed", At, Outside)>> ELSE <<>>)

RenamedDir ==
    /\ Ready({"renameDir"})
    /\ work' = [Then(<<Task(IF To \in dirs THEN "listDir" ELSE "listGone", At, To)>>)
                  EXCEPT !.settled = {}]

\* A destination that could not be looked at leaves the event to the file rename, which takes
\* no directory.
RenamedDirUnknown ==
    /\ Ready({"renameDir"})
    /\ work' = Then(<<>>)

\* A failed walk is given up; a walk collects no links.
Walk ==
    /\ Ready({"walk"})
    /\ work' = Then(IF At \in dirs
                    THEN <<TaskOver("behind", At, {p \in In(At) : disk[p] \in Content})>>
                    ELSE <<>>)
WalkFails ==
    /\ Ready({"walk"})
    /\ work' = Then(<<>>)

Dispatch ==
    /\ \/ (Written \/ Renamed \/ LinkEnd \/ RenamedDir \/ Walk) /\ NoFault
       \/ (RenamedDirUnknown \/ WalkFails) /\ Fault
    /\ UNCHANGED <<row, locks, touched, Outer>>

(***************************************************************************)
(* The locks: the embedder's first, by everyone who needs both.            *)
(***************************************************************************)
TakeEmbedder ==
    /\ Ready(NeedsBoth)
    /\ embedder = "free" /\ embedder' = "watcher"
    /\ work' = [work EXCEPT !.step = "embedder"]
    /\ UNCHANGED <<row, db, missed, touched, Outer>>
TakeDatabase ==
    /\ Ready(NeedsDatabase) \/ AtStep("embedder")
    /\ db = "free" /\ db' = "watcher"
    /\ work' = [work EXCEPT !.step = "locked"]
    /\ UNCHANGED <<row, embedder, missed, touched, Outer>>

(***************************************************************************)
(* Removals and directories, under the lock of the database alone.         *)
(***************************************************************************)
\* Mutant: the database stays locked while the embedder's lock is waited for.
LookAgain_KeepsDatabase ==
    work' = Then(<<Task("after", At, Outside)>>) /\ UNCHANGED <<locks, touched>>

\* What to do when something is there needs the embedder: let go of the database first.
LookAgain == Done(<<Task("after", At, Outside)>>)
RemovalLook ==
    /\ Locked({"removed", "away"})
    /\ IF Now.kind = "away" /\ ~HasRow(At) THEN Done(<<>>)
       ELSE IF disk[At] = Gone THEN Goto("drop")
       ELSE LookAgain
RemovalUnknown ==
    /\ Locked({"removed", "away"})
    /\ LookAgain

\* Of a directory that is there again, only the rows of the listed files are decided.
SweepLook ==
    /\ Locked({"removeDir", "sweepSource"})
    /\ IF At \notin dirs THEN Goto("sweep")
       ELSE Done(IF Now.kind = "removeDir" THEN ForEach("removed", RowsUnder(At))
                 ELSE ForEach("away", Now.paths))
SweepUnknown ==
    /\ Locked({"removeDir", "sweepSource"})
    /\ Done(IF Now.kind = "removeDir" THEN <<>> ELSE ForEach("away", Now.paths))

Arrived ==
    /\ Locked({"arrive"})
    /\ work' = [Then(IF At \in dirs THEN <<Task("walk", At, Outside)>> ELSE <<>>)
                  EXCEPT !.settled = {}]
    /\ Release
\* A look that could not tell scans it anyway.
ArrivedUnknown ==
    /\ Locked({"arrive"})
    /\ work' = [Then(<<Task("walk", At, Outside)>>) EXCEPT !.settled = {}]
    /\ Release

\* Rows the walk did not come across are looked at one by one.
Behind ==
    /\ Locked({"behind"})
    /\ Done(ForEach("removed", RowsUnder(At) \ Now.paths)
              \o ForEach("reindex", Now.paths \ work.settled))
BehindFails ==
    /\ Locked({"behind"})
    /\ Done(ForEach("reindex", Now.paths \ work.settled))

\* The rows of a renamed directory follow its files; a look at each old path comes after.
DirStep(p) ==
    LET q == <<To, p[2]>> IN
    IF q \in Path /\ disk[q] # Linked THEN Task("move", p, q) ELSE Task("away", p, Outside)
DirTasks(rows, follows) ==
    LET order == SetToSeq(rows) IN
    (IF follows THEN [i \in 1..Len(order) |-> DirStep(order[i])] ELSE <<>>)
       \o ForEach("away", rows)
       \o <<TaskOver("sweepSource", At, {})>>
       \o (IF follows THEN <<Task("walk", To, Outside)>> ELSE <<>>)
ListDir ==
    /\ Locked({"listDir"})
    /\ Done(DirTasks(RowsUnder(At), To \in dirs))
\* A look that could not tell moves them as well.
ListDirUnknown ==
    /\ Locked({"listDir"})
    /\ Done(DirTasks(RowsUnder(At), TRUE))
ListDirFails ==
    /\ Locked({"listDir"})
    /\ Done(DirTasks({}, To \in dirs))
ListGone ==
    /\ Locked({"listGone"})
    /\ Done(IF RowsUnder(At) = {} THEN <<>> ELSE <<TaskOver("sweepSource", At, RowsUnder(At))>>)
ListGoneFails ==
    /\ Locked({"listGone"})
    /\ Done(<<>>)

UnderDatabase ==
    /\ \/ /\ RemovalLook \/ RemovalUnknown \/ SweepLook \/ Arrived \/ ArrivedUnknown \/ Behind
             \/ ListDir \/ ListDirUnknown \/ ListGone
          /\ NoFault
       \/ (SweepUnknown \/ BehindFails \/ ListDirFails \/ ListGoneFails) /\ Fault
    /\ UNCHANGED <<row, Outer>>

Without(rows, paths) == [p \in Path |-> IF p \in paths THEN NoRow ELSE rows[p]]
\* A delete that fails is reported, and the rows stay.
RemoveRows(paths) ==
    \/ row' = Without(row, paths) /\ NoFault
    \/ UNCHANGED row /\ Fault
Drop ==
    /\ AtStep("drop")
    /\ RemoveRows({File})
    /\ Done(<<>>)
    /\ UNCHANGED Outer
Sweep ==
    /\ AtStep("sweep")
    /\ RemoveRows(In(At))
    /\ Done(<<>>)
    /\ UNCHANGED Outer

(***************************************************************************)
(* A read of one file, under both locks.                                   *)
(***************************************************************************)
AfterLook ==
    /\ Locked({"after"})
    /\ IF disk[At] \in Content THEN Read("removal") ELSE Goto("drop")
\* Mutant: a look that failed counts as gone.
AfterUnknown_Drops ==
    /\ Locked({"after"})
    /\ Goto("drop")
AfterUnknown ==
    /\ Locked({"after"})
    /\ Done(<<>>)
ReindexLook ==
    /\ Locked({"reindex"})
    /\ IF disk[At] = Gone THEN Goto("drop") ELSE Read("write")
ReindexUnknown ==
    /\ Locked({"reindex"})
    /\ Read("write")

Kept(result) == result \notin {"updated", "nothing", "unchanged"}

\* A read on behalf of a rename across parsers: what it established drops the
\* row, which holds the other parser's text; what it could not, leaves it marked.
Dropping == {"nothing", "refused", "parseFailed", "rejected", "gone", "tooLarge"}
Marked(rows, p) ==
    IF rows[p] = NoRow THEN rows ELSE [rows EXCEPT ![p].hash = Awaiting]
SettleCrossed(rows, p, result) ==
    IF result = "updated" THEN rows
    ELSE IF result \in Dropping THEN Without(rows, {p}) ELSE Marked(rows, p)

(***************************************************************************)
(* What a read is for, and what follows it:                                *)
(*   write, removal   an event; an unsettled row is looked at again        *)
(*   missing          a renamed file that had no row                       *)
(*   again            the second read of a renamed row that was kept       *)
(*   awaiting, unread the same, of a row of another parser                 *)
(*   cleared          the rename failed after it dropped the row there     *)
(***************************************************************************)
Checked == work.mode \in {"awaiting", "unread"}
Settle(result, rows) ==
    /\ row' = IF Checked THEN SettleCrossed(rows, File, result) ELSE rows
    /\ IF work.mode \in {"write", "removal"}
       THEN IF Kept(result) THEN GotoAfter("relook", result) ELSE Done(<<>>)
       ELSE IF work.mode = "missing" /\ result \in {"refused", "rejected", "error"}
       THEN GotoAfter("relookMove",
                      IF result = "error" /\ Crosses(At, To) /\ Awaits(To) THEN "awaiting" ELSE "none")
       ELSE Goto(IF work.mode = "cleared" THEN "settleOld" ELSE "linkCheck")

\* The first read gives the hash: a row that has it is not looked into.
FirstRead ==
    /\ AtStep("read")
    /\ LET there == disk[File] IN
       IF there = Gone THEN Settle("gone", row)
       ELSE IF there = Linked THEN Settle("refused", row)
       ELSE IF HasRow(File) /\ row[File].hash = there THEN Settle("unchanged", row)
       ELSE /\ work' = [work EXCEPT !.step = "parse", !.seen = there]
            /\ UNCHANGED <<row, locks, touched>>
FirstReadFails ==
    /\ AtStep("read")
    /\ \E result \in {"error", "tooLarge"} : Settle(result, row)

\* The second gives the text, which must be of the bytes of the first.
SecondRead ==
    /\ AtStep("parse")
    /\ LET there == disk[File]
           text == Parsed(File, there)
       IN  IF there = Gone THEN Settle("readFailed", row)
           ELSE IF there = Linked THEN Settle("refused", row)
           ELSE IF Checked /\ there # work.seen THEN Settle("changed", row)
           ELSE IF text = Broken THEN Settle("parseFailed", row)
           ELSE IF there # work.seen THEN Settle("changed", row)
           ELSE IF text = NoText THEN Settle("nothing", Without(row, {File}))
           ELSE Settle("updated", [row EXCEPT ![File] = RowOf(File, there)])
SecondReadFails ==
    /\ AtStep("parse")
    /\ \E result \in {"readFailed", "rejected", "error"} : Settle(result, row)

\* Mutant: a read that failed leaves the row.
Relook_Skipped ==
    /\ AtStep("relook")
    /\ Done(<<>>)

\* The file may have gone, or become a link, during the read.
Relook ==
    /\ AtStep("relook")
    /\ IF disk[At] = Gone \/ (work.mode = "write" /\ work.result = "refused" /\ disk[At] = Linked)
       THEN Goto("drop") ELSE Done(<<>>)
RelookUnknown ==
    /\ AtStep("relook")
    /\ Done(<<>>)

ReadFile ==
    \/ (AfterLook \/ ReindexLook \/ ReindexUnknown \/ Relook) /\ NoFault /\ UNCHANGED <<row, Outer>>
    \/ (FirstRead \/ SecondRead) /\ NoFault /\ UNCHANGED Outer
    \/ (AfterUnknown \/ RelookUnknown) /\ Fault /\ UNCHANGED <<row, Outer>>
    \/ (FirstReadFails \/ SecondReadFails) /\ Fault /\ UNCHANGED Outer

(***************************************************************************)
(* A renamed file, under both locks: its row moves and is settled there.   *)
(***************************************************************************)
Carried(rows, p, q) == [rows EXCEPT ![q] = rows[p], ![p] = NoRow]
\* A directory rename scans the destination afterwards, without these.
SettledAt(q) ==
    work' = [work EXCEPT !.step = "linkCheck",
                         !.settled = IF Len(work.todo) > 1 THEN @ \cup {q} ELSE @]
Settled(q) == SettledAt(q) /\ UNCHANGED <<locks, touched>>

MoveLook ==
    /\ Locked({"move"})
    /\ IF disk[To] = Gone THEN Goto("dropBoth") /\ UNCHANGED row
       ELSE IF ~HasRow(At) THEN Read("missing") /\ UNCHANGED row
       ELSE /\ row' = Without(row, {To})
            /\ work' = [work EXCEPT !.step = "stat", !.cleared = HasRow(To)]
            /\ UNCHANGED <<locks, touched>>

\* Nothing is known of the destination: a row that can move goes there unread.
MoveUnknown ==
    /\ Locked({"move"})
    /\ IF HasRow(At) /\ ~HasRow(To)
       THEN /\ row' = Carried(row, At, To)
            /\ Goto(IF Crosses(At, To) THEN "mark" ELSE "linkCheck")
       ELSE UNCHANGED row /\ Goto("linkCheck")
\* The rows of the two ends could not be read, or that of the destination not be cleared.
PlanFails ==
    /\ Locked({"move"}) /\ disk[To] # Gone
    /\ UNCHANGED row
    /\ Done(<<>>)
ClearFails ==
    /\ Locked({"move"}) /\ disk[To] # Gone
    /\ HasRow(At) /\ HasRow(To)
    /\ row' \in {row, Without(row, {To})}
    /\ Goto("settleNew")
MarkUnread ==
    /\ AtStep("mark")
    /\ row' = Marked(row, To)
    /\ Read("unread")

DropBoth ==
    /\ AtStep("dropBoth")
    /\ row' = Without(row, {At, To})
    /\ Goto("linkCheck")
DropBothFails ==
    /\ AtStep("dropBoth")
    /\ row' \in {row, Without(row, {At})}
    /\ Goto("linkCheck")

\* Mutant: the row keeps its hash until the other parser has read the file.
Stat_Unmarked ==
    /\ AtStep("stat")
    /\ IF disk[To] = Gone THEN row' = Carried(row, At, To) /\ Goto("dropMoved")
       ELSE UNCHANGED row /\ Goto("renameRead")

\* The row of another parser is marked before it moves, but not to where no file is left.
Stat ==
    /\ AtStep("stat")
    /\ IF disk[To] = Gone THEN row' = Carried(row, At, To) /\ Goto("dropMoved")
       ELSE /\ row' = IF Crosses(At, To) THEN Marked(row, At) ELSE row
            /\ Goto("renameRead")
DropMoved ==
    /\ AtStep("dropMoved")
    /\ row' = Without(row, {To}) /\ Settled(To)
DropMovedFails ==
    /\ AtStep("dropMoved")
    /\ UNCHANGED row /\ GotoAfter("relookMove", "none")
    /\ unmarked' = (unmarked \/ Crosses(At, To))

\* The rename failed before it moved the row.
RenameFailed ==
    UNCHANGED row /\ IF work.cleared THEN Goto("settleNew") ELSE GotoAfter("relookMove", "none")
StatFails ==
    /\ AtStep("stat")
    /\ RenameFailed

\* A row that moved and was not read: of another parser it stays marked.
MovedUnread ==
    /\ row' = Carried(row, At, To)
    /\ GotoAfter("relookMove", IF Crosses(At, To) THEN "awaiting" ELSE "none")
DroppedAt(q) == row' = Without(Carried(row, At, q), {q}) /\ Settled(q)

RenameRead ==
    /\ AtStep("renameRead")
    /\ LET there == disk[To] IN
       IF there = Linked /\ Crosses(At, To) THEN DroppedAt(To)
       ELSE IF there \notin Content THEN MovedUnread
       ELSE /\ row' = Carried(row, At, To)
            /\ IF row[At].hash = there /\ ~Crosses(At, To) THEN Settled(To)
               ELSE /\ work' = [work EXCEPT !.step = "reparse", !.seen = there]
                    /\ UNCHANGED <<locks, touched>>
RenameReadFails ==
    /\ AtStep("renameRead")
    /\ \/ RenameFailed
       \/ MovedUnread
       \/ IF Crosses(At, To) THEN DroppedAt(To)
          ELSE row' = Carried(row, At, To) /\ Settled(To)

\* Within a parser a row that cannot be rewritten keeps its text and its hash.
Reparse ==
    /\ AtStep("reparse")
    /\ LET there == disk[To]
           changed == Crosses(At, To) /\ there # work.seen
       IN  IF there \in Content /\ ~changed /\ Parsed(To, there) \in Text
           THEN row' = [row EXCEPT ![To] = RowOf(To, there)] /\ Settled(To)
           ELSE IF Crosses(At, To) /\ there \in Content /\ changed
           THEN row' = Marked(row, To) /\ GotoAfter("relookMove", "awaiting")
           ELSE IF Crosses(At, To) THEN row' = Without(row, {To}) /\ Settled(To)
           ELSE UNCHANGED row
                /\ GotoAfter("relookMove", IF there = Linked THEN "none" ELSE "notReindexed")
ReparseFails ==
    /\ AtStep("reparse")
    /\ \/ UNCHANGED row /\ GotoAfter("relookMove", IF Crosses(At, To) THEN "awaiting" ELSE "none")
       \/ IF Crosses(At, To) THEN row' = Without(row, {To}) /\ Settled(To)
          ELSE UNCHANGED row /\ GotoAfter("relookMove", "notReindexed")

\* The destination is looked at again; a row that was kept gets one more read.
RelookMove ==
    /\ AtStep("relookMove")
    /\ IF disk[To] = Gone THEN row' = Without(row, {To}) /\ Goto("linkCheck")
       ELSE /\ UNCHANGED row
            /\ IF work.result = "none" THEN Goto("linkCheck")
               ELSE Read(IF work.result = "awaiting" THEN "awaiting" ELSE "again")
RelookMoveFails ==
    /\ AtStep("relookMove") /\ disk[To] = Gone
    /\ UNCHANGED row /\ Goto("linkCheck")
RelookMoveUnknown ==
    /\ AtStep("relookMove")
    /\ UNCHANGED row
    /\ IF work.result = "awaiting" THEN Read("awaiting") ELSE Goto("linkCheck")

\* The rename failed before it moved the row, after it dropped, or should have dropped, the one
\* it replaces.  Where that one is still in place nothing is done.
AfterSettling ==
    IF work.cleared THEN GotoAfter("relookMove", "none") ELSE Goto("linkCheck")
SettleNew ==
    /\ AtStep("settleNew")
    /\ UNCHANGED row
    /\ IF HasRow(To) THEN AfterSettling
       ELSE IF disk[To] = Gone THEN Goto("settleOld") ELSE Read("cleared")
SettleOld ==
    /\ AtStep("settleOld")
    /\ row' = IF disk[At] = Gone THEN Without(row, {At}) ELSE row
    /\ AfterSettling

LinkCheck ==
    /\ AtStep("linkCheck")
    /\ UNCHANGED row
    /\ IF disk[To] = Linked THEN Goto("drop") ELSE Done(<<>>)

MoveFile ==
    /\ \/ /\ MoveLook \/ MarkUnread \/ DropBoth \/ Stat \/ DropMoved \/ RenameRead \/ Reparse
             \/ RelookMove \/ SettleNew \/ SettleOld \/ LinkCheck
          /\ UNCHANGED unmarked /\ NoFault
       \/ /\ MoveUnknown \/ PlanFails \/ ClearFails \/ DropBothFails \/ StatFails \/ RenameReadFails
             \/ ReparseFails \/ RelookMoveFails \/ RelookMoveUnknown
          /\ UNCHANGED unmarked /\ Fault
       \/ DropMovedFails /\ Fault
    /\ UNCHANGED Surroundings

Worker ==
    \/ TakeBatch \/ Dispatch \/ TakeEmbedder \/ TakeDatabase \/ UnderDatabase
    \/ Drop \/ Sweep \/ ReadFile \/ MoveFile

Environment ==
    \/ \E p \in Path : Write(p) \/ Delete(p) \/ MoveIn(p) \/ Flush(p)
    \/ \E p, q \in Path : Move(p, q)
    \/ \E d \in Dir : RemoveDir(d)
    \/ \E d, e \in Dir : MoveDir(d, e)

Next == Worker \/ Environment \/ Ask \/ AskDatabase \/ Rebuild

Spec == Init /\ [][Next]_vars

\* A thread that can take a step does, and a mutex that is free is given to one that waits.
FairSpec == Spec /\ WF_vars(Worker) /\ WF_vars(AskDatabase) /\ WF_vars(Rebuild)
            /\ \A p \in Path : WF_vars(Flush(p))

(***************************************************************************)
(* Properties.                                                             *)
(***************************************************************************)
TypeOK ==
    /\ disk \in [Path -> Content \cup {Gone, Linked}]
    /\ dirs \subseteq Dir
    /\ row \in [Path -> Row \cup {NoRow}]
    /\ pending \subseteq Path
    /\ channel \in Seq(Seq(TaskType)) /\ Len(channel) <= Capacity
    /\ DOMAIN work = DOMAIN Idle /\ work.todo \in Seq(TaskType) /\ work.settled \subseteq Path
    /\ embedder \in {"free", "watcher", "request"}
    /\ db \in {"free", "watcher", "request"}
    /\ other \in {"idle", "embedder", "both"}
    /\ missed \in BOOLEAN /\ unmarked \in BOOLEAN /\ folded \subseteq Path /\ touched \subseteq Path
    /\ changes \in 0..MaxChanges

\* What a row says of its file is what its parser makes of the bytes the hash names, at every
\* step, so a watcher that is killed anywhere leaves no row that a later run takes for current
\* and that holds the text of another parser or of other bytes.  One step is excepted, between
\* two transactions: a row that moves to another parser unread, where its destination could not
\* be looked at (apply_rename_plan_before, await_reparse_after_unread_move) or has just gone
\* (rename_single_file), is marked or dropped in the second; where that drop fails, nothing is
\* said from then on.
HalfMoved(p) == (AtStep("mark") \/ AtStep("dropMoved")) /\ Crosses(At, To) /\ p = To
TextOfItsHash ==
    \A p \in Path :
        HasRow(p) /\ ~HalfMoved(p) /\ ~unmarked
            => row[p].hash = Awaiting \/ row[p].text = Parsed(p, row[p].hash)

InStep(p) ==
    IF disk[p] \notin Content THEN row[p] = NoRow
    ELSE IF Parsed(p, disk[p]) = NoText THEN row[p] = NoRow
    ELSE IF Parsed(p, disk[p]) = Broken THEN TRUE
    ELSE row[p] = RowOf(p, disk[p])

\* When no event is left to handle, every path has the row a full run would give it, however the
\* files moved between the looks of the worker: unless a batch was dropped or a look or read
\* failed, which the code only reports.
Quiet == pending = {} /\ channel = <<>> /\ work.todo = <<>>
Converges == Quiet /\ ~missed => \A p \in Path \ folded : InStep(p)

\* A file that stays as it is while the worker holds the database, and whose row is right, keeps
\* that row, whatever old event the worker is handling and whatever look or read fails: only a
\* rename, which moves the row of the file that left, may take it.
SteadyKept ==
    [][db # "watcher" \/ Now.kind = "move" \/
       \A p \in Path \ touched :
           disk[p] \in Content /\ row[p] = RowOf(p, disk[p]) => row'[p] = row[p]]_vars

\* The worker always gets to the end of what it was given: it never waits for a lock whose
\* holder waits for it.
CaughtUp == <>[]Quiet
=============================================================================
