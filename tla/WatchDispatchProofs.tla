------------------------- MODULE WatchDispatchProofs -------------------------
(***************************************************************************)
(* For any tree of files, any parsers and any number of changes: what a    *)
(* row says is always what its parser makes of the bytes its hash names,   *)
(* and a file that stays as it is while it is looked at keeps its row.     *)
(***************************************************************************)
EXTENDS WatchDispatch, FiniteSetTheorems, TLAPS

\* The steps of a rename, and those with the lock of the database.
MoveSteps == {"mark", "dropBoth", "stat", "dropMoved", "renameRead", "reparse", "relookMove",
              "settleNew", "settleOld", "linkCheck"}
Steps == MoveSteps \cup {"next", "embedder", "locked", "drop", "sweep", "read", "parse", "relook"}

\* Where the worker is in the task at hand.
WhereInv ==
    /\ work.step \in Steps
    /\ work.step # "next" => work.todo # <<>>
    /\ work.step \in MoveSteps => Now.kind = "move"
    /\ work.step \in {"read", "parse"} /\ work.mode \notin {"write", "removal"} => Now.kind = "move"

\* The rows are the worker's while it acts on them.
LockInv ==
    /\ work.step \notin {"next", "embedder"} => db = "watcher"
    /\ other = "both" => db = "request"

\* A row on its way to another parser is marked before it moves.
MarkInv ==
    work.step = "renameRead" /\ Crosses(At, To) /\ HasRow(At) => row[At].hash = Awaiting

TextInv == TypeOK /\ WhereInv /\ LockInv /\ MarkInv /\ TextOfItsHash

(***************************************************************************)
(* Sequences of tasks                                                      *)
(***************************************************************************)

LEMMA SeqOfSet ==
    ASSUME NEW S, IsFiniteSet(S)
    PROVE  SetToSeq(S) \in [1..Cardinality(S) -> S] /\ Cardinality(S) \in Nat
<1>1. Cardinality(S) \in Nat
  BY FS_CardinalityType
<1>2. PICK f : f \in Bijection(1..Cardinality(S), S)
  BY FS_CardinalityType DEF ExistsBijection
<1>3. f \in [1..Cardinality(S) -> S] /\ IsInjective(f)
  BY <1>2 DEF Bijection, Injection, Surjection, IsInjective
<1> QED
  BY <1>1, <1>3 DEF SetToSeq

LEMMA ForEachTyped ==
    ASSUME NEW kind \in Kind, NEW paths \in SUBSET Path, kind # "move"
    PROVE  ForEach(kind, paths) \in Seq(TaskType)
<1>1. IsFiniteSet(paths)
  BY TreeAssumption, FS_Subset
<1>2. SetToSeq(paths) \in Seq(paths) /\ SetToSeq(paths) \in [1..Len(SetToSeq(paths)) -> paths]
  BY <1>1, SeqOfSet
<1>3. \A p \in paths : Task(kind, p, Outside) \in TaskType
  BY DEF Task, TaskType, Place
<1> QED
  BY <1>2, <1>3 DEF ForEach

\* What follows a task.
AtNext ==
    /\ DOMAIN work' = DOMAIN Idle
    /\ work'.todo \in Seq(TaskType) /\ work'.settled \subseteq Path
    /\ work'.step = "next"

LEMMA ThenTyped ==
    ASSUME TypeOK, work.todo # <<>>, NEW tasks \in Seq(TaskType),
           work' = Then(tasks) \/ work' = [Then(tasks) EXCEPT !.settled = {}]
    PROVE  AtNext
<1>1. tasks \o Tail(work.todo) \in Seq(TaskType)
  BY DEF TypeOK
<1> QED
  BY <1>1 DEF TypeOK, Then, Idle, AtNext

\* A task that goes on.
GoesOn ==
    /\ DOMAIN work' = DOMAIN Idle
    /\ work'.todo = work.todo /\ work'.settled = work.settled

LEMMA StepTyped ==
    ASSUME TypeOK, NEW step
    PROVE  /\ Goto(step) => GoesOn /\ work'.step = step /\ work'.mode = work.mode
           /\ \A result : GotoAfter(step, result) => GoesOn /\ work'.step = step /\ work'.mode = work.mode
           /\ \A mode : Read(mode) => GoesOn /\ work'.step = "read" /\ work'.mode = mode
BY DEF TypeOK, Goto, GotoAfter, Read, GoesOn, Idle

(***************************************************************************)
(* Rows                                                                    *)
(***************************************************************************)

RowMap == [Path -> Row \cup {NoRow}]

RowOK(p, r) == r # NoRow => r.hash = Awaiting \/ r.text = Parsed(p, r.hash)
RowsOK(rows) == unmarked \/ \A p \in Path : RowOK(p, rows[p])

LEMMA WithoutOK ==
    ASSUME NEW rows \in RowMap, RowsOK(rows), NEW paths
    PROVE  Without(rows, paths) \in RowMap /\ RowsOK(Without(rows, paths))
BY DEF Without, RowMap, RowsOK, RowOK

LEMMA MarkedOK ==
    ASSUME NEW rows \in RowMap, RowsOK(rows), NEW p \in Path
    PROVE  /\ Marked(rows, p) \in RowMap /\ RowsOK(Marked(rows, p))
           /\ Marked(rows, p)[p] # NoRow => Marked(rows, p)[p].hash = Awaiting
BY DEF Marked, RowMap, RowsOK, RowOK, Row

LEMMA CarriedTyped ==
    ASSUME NEW rows \in RowMap, NEW p \in Path, NEW q \in Path
    PROVE  Carried(rows, p, q) \in RowMap
BY DEF Carried, RowMap

LEMMA CarriedOK ==
    ASSUME NEW rows \in RowMap, RowsOK(rows), NEW p \in Path, NEW q \in Path,
           ~Crosses(p, q) \/ rows[p] = NoRow \/ rows[p].hash = Awaiting
    PROVE  RowsOK(Carried(rows, p, q))
BY DEF Carried, RowMap, RowsOK, RowOK, Crosses, Parsed

\* Only the path a row is carried to can be wrong.
LEMMA CarriedOthers ==
    ASSUME NEW rows \in RowMap, RowsOK(rows), NEW p \in Path, NEW q \in Path
    PROVE  unmarked \/ \A other_path \in Path \ {q} : RowOK(other_path, Carried(rows, p, q)[other_path])
BY DEF Carried, RowMap, RowsOK, RowOK

LEMMA WrittenOK ==
    ASSUME NEW rows \in RowMap, RowsOK(rows), NEW p \in Path, NEW content \in Content,
           Parsed(p, content) \in Text
    PROVE  /\ [rows EXCEPT ![p] = RowOf(p, content)] \in RowMap
           /\ RowsOK([rows EXCEPT ![p] = RowOf(p, content)])
BY DEF RowMap, RowsOK, RowOK, RowOf, Row

LEMMA SettledOK ==
    ASSUME NEW rows \in RowMap, RowsOK(rows), NEW p \in Path, NEW result
    PROVE  SettleCrossed(rows, p, result) \in RowMap /\ RowsOK(SettleCrossed(rows, p, result))
BY WithoutOK, MarkedOK DEF SettleCrossed

LEMMA ParsedTyped ==
    ASSUME NEW p \in Path, NEW content \in Content
    PROVE  Parsed(p, content) \in Text \cup {NoText, Broken}
BY ParseAssumption DEF Parsed

LEMMA RebuildOK ==
    ASSUME TypeOK, RowsOK(row)
    PROVE  RowsOfDisk \in RowMap /\ RowsOK(RowsOfDisk)
BY ParsedTyped DEF TypeOK, RowsOfDisk, RowMap, RowsOK, RowOK, RowOf, Row

\* A row that is moved to another parser by the first of two transactions.
Half == work.step \in {"mark", "dropMoved"} /\ Crosses(At, To)

\* What TextOfItsHash says when no row was moved unread.
LEMMA TextIsRowsOK ==
    /\ TextOfItsHash /\ ~Half => RowsOK(row)
    /\ RowsOK(row) => TextOfItsHash
    /\ RowsOK(row') /\ (unmarked => unmarked') => TextOfItsHash'
BY DEF TextOfItsHash, HalfMoved, Half, RowsOK, RowOK, AtStep, HasRow

(***************************************************************************)
(* What a step of the worker has to show.                                  *)
(***************************************************************************)

Frame ==
    /\ UNCHANGED Surroundings /\ unmarked' \in BOOLEAN /\ (unmarked => unmarked')
    /\ missed' \in BOOLEAN
    /\ embedder' \in {"free", "watcher", "request"} /\ touched' \subseteq Path

LEMMA ToNext ==
    ASSUME TextInv, Frame, AtNext, row' \in RowMap, RowsOK(row'),
           db' = db \/ (db' = "free" /\ work.step \notin {"next", "embedder"})
    PROVE  TextInv'
<1>1. TypeOK'
  BY DEF TextInv, TypeOK, Frame, Outer, Surroundings, tree, AtNext, RowMap, Idle
<1>2. WhereInv' /\ LockInv' /\ MarkInv'
  BY DEF TextInv, WhereInv, LockInv, MarkInv, Frame, Outer, Surroundings, AtNext, Steps, MoveSteps
<1> QED
  BY <1>1, <1>2, TextIsRowsOK DEF TextInv, Frame

LEMMA ToStep ==
    ASSUME TextInv, Frame, GoesOn, db' = db, row' \in RowMap,
           RowsOK(row') \/ TextOfItsHash',
           work.step \notin {"next", "embedder"},
           work'.step \in Steps,
           work'.step \in MoveSteps => Now.kind = "move",
           work'.step \in {"read", "parse"} /\ work'.mode \notin {"write", "removal"} => Now.kind = "move",
           work'.step = "renameRead" /\ Crosses(At, To) /\ row'[At] # NoRow => row'[At].hash = Awaiting
    PROVE  TextInv'
<1>1. TypeOK'
  BY DEF TextInv, TypeOK, Frame, Outer, Surroundings, tree, GoesOn, RowMap, Idle
<1>2. Now' = Now /\ At' = At /\ To' = To
  BY DEF GoesOn, Now, At, To
<1>3. WhereInv'
  BY <1>2 DEF TextInv, WhereInv, GoesOn
<1>4. LockInv'
  BY DEF TextInv, LockInv, Frame, Outer, Surroundings
<1>5. MarkInv'
  BY <1>2 DEF MarkInv, HasRow, Crosses
<1> QED
  BY <1>1, <1>3, <1>4, <1>5, TextIsRowsOK DEF TextInv, Frame

\* The task at hand.
LEMMA TaskTyped ==
    ASSUME TypeOK, work.todo # <<>>
    PROVE  /\ Now \in TaskType /\ At \in Place /\ To \in Place
           /\ Now.kind = "move" => At \in Path /\ To \in Path
BY DEF TypeOK, Now, At, To, TaskType

LEMMA RowsNow == TextInv => row \in RowMap /\ (~Half => RowsOK(row))
BY TextIsRowsOK DEF TextInv, TypeOK, RowMap

LEMMA PlainTask ==
    ASSUME NEW kind \in Kind, NEW at \in Place, NEW to \in Place,
           kind = "move" => at \in Path /\ to \in Path
    PROVE  Task(kind, at, to) \in TaskType /\ <<Task(kind, at, to)>> \in Seq(TaskType)
BY DEF Task, TaskType

LEMMA OverTask ==
    ASSUME NEW kind \in Kind, NEW at \in Place, NEW paths \in SUBSET Path, kind # "move"
    PROVE  TaskOver(kind, at, paths) \in TaskType
BY DEF TaskOver, TaskType, Place

(***************************************************************************)
(* Events, before any lock                                                 *)
(***************************************************************************)

LEMMA DispatchInv == TextInv /\ Dispatch => TextInv'
<1> SUFFICES ASSUME TextInv, Dispatch PROVE TextInv'
  OBVIOUS
<1> USE TaskTyped, PlainTask DEF Kind, NeedsDatabase, NeedsBoth, Place
<1>1. work.todo # <<>> /\ work.step = "next" /\ TypeOK
  BY DEF TextInv, Dispatch, Written, Renamed, LinkEnd, RenamedDir, RenamedDirUnknown,
         Walk, WalkFails, Ready
<1>2. Frame /\ row' = row /\ db' = db
  BY <1>1 DEF Dispatch, Frame, Outer, Surroundings, locks, NoFault, Fault, TypeOK
<1>3. AtNext
  <2>1. CASE Written
    <3>1. At \in Place /\ Outside \in Place
      BY <1>1
    <3>2. <<Task(IF disk[At] = Linked THEN "removed" ELSE "reindex", At, Outside)>> \in Seq(TaskType)
      BY <3>1
    <3> QED
      BY <1>1, <2>1, <3>2, ThenTyped DEF Written
  <2>2. CASE Renamed
    <3>1. RenameSteps(At, To) \in Seq(TaskType)
      BY <1>1 DEF RenameSteps
    <3> QED
      BY <1>1, <2>2, <3>1, ThenTyped DEF Renamed
  <2>3. CASE LinkEnd
    <3> DEFINE removed == <<Task("removed", At, Outside)>>
               tasks == IF disk[At] = Linked THEN removed ELSE <<>>
    <3>1. At \in Place /\ Outside \in Place
      BY <1>1
    <3>2. removed \in Seq(TaskType) /\ <<>> \in Seq(TaskType)
      BY <3>1
    <3>3. work' = Then(tasks)
      BY <2>3 DEF LinkEnd
    <3> HIDE DEF removed
    <3>4. tasks \in Seq(TaskType)
      BY <3>2
    <3> HIDE DEF tasks
    <3> QED
      BY <1>1, <3>3, <3>4, ThenTyped
  <2>4. CASE RenamedDir
    <3>1. <<Task(IF To \in dirs THEN "listDir" ELSE "listGone", At, To)>> \in Seq(TaskType)
      BY <1>1
    <3> QED
      BY <1>1, <2>4, <3>1, ThenTyped DEF RenamedDir
  <2>5. CASE Walk
    <3> DEFINE found == {p \in In(At) : disk[p] \in Content}
    <3>1. TaskOver("behind", At, found) \in TaskType
      BY <1>1, OverTask DEF In
    <3>2. (IF At \in dirs THEN <<TaskOver("behind", At, found)>> ELSE <<>>) \in Seq(TaskType)
      BY <3>1
    <3> QED
      BY <1>1, <2>5, <3>2, ThenTyped DEF Walk
  <2>6. CASE WalkFails \/ RenamedDirUnknown
    <3>1. <<>> \in Seq(TaskType)
      OBVIOUS
    <3> QED
      BY <1>1, <2>6, <3>1, ThenTyped DEF WalkFails, RenamedDirUnknown
  <2> QED
    BY <2>1, <2>2, <2>3, <2>4, <2>5, <2>6 DEF Dispatch
<1>4. row' \in RowMap /\ RowsOK(row')
  BY <1>1, <1>2, RowsNow DEF Half
<1> QED
  BY <1>2, <1>3, <1>4, ToNext

(***************************************************************************)
(* Under the lock of the database                                          *)
(***************************************************************************)

\* A task is done, and the locks are let go.
LEMMA DoneInv ==
    ASSUME TextInv, NEW tasks \in Seq(TaskType), work.todo # <<>>,
           work.step \notin {"next", "embedder"},
           work' = Then(tasks) \/ work' = [Then(tasks) EXCEPT !.settled = {}], Release,
           UNCHANGED Outer, missed' \in BOOLEAN, row' \in RowMap, RowsOK(row')
    PROVE  TextInv'
<1>1. AtNext
  BY ThenTyped DEF TextInv
<1>2. Frame /\ db' = "free"
  BY DEF Release, Frame, Outer, TextInv, TypeOK
<1> QED
  BY <1>1, <1>2, ToNext

LEMMA DirTasksTyped ==
    ASSUME TypeOK, At \in Place, To \in Place, NEW rows \in SUBSET Path, NEW follows \in BOOLEAN
    PROVE  DirTasks(rows, follows) \in Seq(TaskType)
<1> USE DEF Kind, NeedsDatabase, NeedsBoth, Place
<1> DEFINE order == SetToSeq(rows)
           moves == IF follows THEN [i \in 1..Len(order) |-> DirStep(order[i])] ELSE <<>>
           walk == IF follows THEN <<Task("walk", To, Outside)>> ELSE <<>>
<1>1. \A p \in Path : DirStep(p) \in TaskType
  BY PlainTask DEF DirStep
<1>2. order \in Seq(Path)
  BY SeqOfSet, TreeAssumption, FS_Subset
<1>3. moves \in Seq(TaskType)
  BY <1>1, <1>2
<1>4. walk \in Seq(TaskType)
  BY PlainTask
<1>5. <<TaskOver("sweepSource", At, {})>> \in Seq(TaskType)
  BY OverTask
<1>6. ForEach("away", rows) \in Seq(TaskType)
  BY ForEachTyped
<1>7. moves \o ForEach("away", rows) \o <<TaskOver("sweepSource", At, {})>> \o walk \in Seq(TaskType)
  BY <1>3, <1>4, <1>5, <1>6
<1> QED
  BY <1>7 DEF DirTasks

LEMMA UnderDatabaseInv == TextInv /\ UnderDatabase => TextInv'
<1> SUFFICES ASSUME TextInv, UnderDatabase PROVE TextInv'
  OBVIOUS
<1> USE DEF Kind, NeedsDatabase, NeedsBoth, Place
<1>1. work.todo # <<>> /\ work.step = "locked" /\ TypeOK
  BY DEF TextInv, UnderDatabase, RemovalLook, RemovalUnknown, SweepLook, SweepUnknown, Arrived,
         ArrivedUnknown, Behind, BehindFails, ListDir, ListDirUnknown, ListDirFails, ListGone,
         ListGoneFails, Locked, AtStep
<1>2. UNCHANGED Outer /\ row' = row /\ missed' \in BOOLEAN
  BY <1>1 DEF UnderDatabase, NoFault, Fault, TypeOK
<1>3. row' \in RowMap /\ RowsOK(row')
  BY <1>1, <1>2, RowsNow DEF Half
<1>4. At \in Place /\ To \in Place /\ Now.paths \in SUBSET Path /\ RowsUnder(At) \in SUBSET Path
  BY <1>1, TaskTyped DEF TaskType, RowsUnder, In
<1>5. ASSUME NEW tasks \in Seq(TaskType), Done(tasks) PROVE TextInv'
  BY <1>1, <1>2, <1>3, <1>5, DoneInv DEF Done
<1>6. ASSUME NEW step \in {"drop", "sweep"}, Goto(step) PROVE TextInv'
  <2>1. GoesOn /\ work'.step = step
    BY <1>1, <1>6, StepTyped
  <2>2. Frame /\ db' = db
    BY <1>1, <1>2, <1>6 DEF Goto, locks, Frame, Outer, TypeOK
  <2> QED
    BY <1>1, <1>3, <2>1, <2>2, ToStep DEF Steps, MoveSteps
<1>7. <<>> \in Seq(TaskType)
  OBVIOUS
<1>8. \A paths \in SUBSET Path : /\ ForEach("removed", paths) \in Seq(TaskType)
                               /\ ForEach("away", paths) \in Seq(TaskType)
                               /\ ForEach("reindex", paths) \in Seq(TaskType)
  BY ForEachTyped
<1>9. <<Task("after", At, Outside)>> \in Seq(TaskType)
  BY <1>4, PlainTask
<1>10. CASE RemovalLook \/ RemovalUnknown
  BY <1>5, <1>6, <1>7, <1>9, <1>10 DEF RemovalLook, RemovalUnknown, LookAgain
<1>11. CASE SweepLook \/ SweepUnknown
  <2>1. /\ ForEach("removed", RowsUnder(At)) \in Seq(TaskType)
        /\ ForEach("away", Now.paths) \in Seq(TaskType)
    BY <1>4, <1>8
  <2> QED
    BY <1>5, <1>6, <1>7, <1>11, <2>1 DEF SweepLook, SweepUnknown
<1>12. CASE Arrived \/ ArrivedUnknown
  <2>1. /\ (IF At \in dirs THEN <<Task("walk", At, Outside)>> ELSE <<>>) \in Seq(TaskType)
        /\ <<Task("walk", At, Outside)>> \in Seq(TaskType)
    BY <1>4, PlainTask
  <2> QED
    BY <1>1, <1>2, <1>3, <1>5, <1>7, <1>12, <2>1, DoneInv DEF Arrived, ArrivedUnknown
<1>13. CASE Behind \/ BehindFails
  <2>1. /\ ForEach("removed", RowsUnder(At) \ Now.paths) \in Seq(TaskType)
        /\ ForEach("reindex", Now.paths \ work.settled) \in Seq(TaskType)
    BY <1>4, <1>8
  <2>2. ForEach("removed", RowsUnder(At) \ Now.paths) \o ForEach("reindex", Now.paths \ work.settled)
          \in Seq(TaskType)
    BY <2>1
  <2> QED
    BY <1>5, <1>13, <2>1, <2>2 DEF Behind, BehindFails
<1>14. CASE ListDir \/ ListDirUnknown \/ ListDirFails
  <2>1. {} \in SUBSET Path
    OBVIOUS
  <2>2. \A rows \in SUBSET Path, follows \in BOOLEAN : DirTasks(rows, follows) \in Seq(TaskType)
    BY <1>1, <1>4, DirTasksTyped
  <2> QED
    BY <1>4, <1>5, <1>14, <2>1, <2>2, (To \in dirs) \in BOOLEAN DEF ListDir, ListDirUnknown, ListDirFails
<1>15. CASE ListGone \/ ListGoneFails
  <2>1. <<TaskOver("sweepSource", At, RowsUnder(At))>> \in Seq(TaskType)
    BY <1>4, OverTask
  <2> QED
    BY <1>5, <1>7, <1>15, <2>1 DEF ListGone, ListGoneFails
<1> QED
  BY <1>10, <1>11, <1>12, <1>13, <1>14, <1>15 DEF UnderDatabase

LEMMA DropInv == TextInv /\ (Drop \/ Sweep) => TextInv'
<1> SUFFICES ASSUME TextInv, Drop \/ Sweep PROVE TextInv'
  OBVIOUS
<1>1. work.todo # <<>> /\ work.step \in {"drop", "sweep"} /\ TypeOK
  BY DEF TextInv, Drop, Sweep, AtStep
<1>2. row' \in RowMap /\ RowsOK(row')
  BY <1>1, RowsNow, WithoutOK DEF Drop, Sweep, RemoveRows, Half
<1>3. <<>> \in Seq(TaskType)
  OBVIOUS
<1>4. missed' \in BOOLEAN
  BY <1>1 DEF Drop, Sweep, RemoveRows, NoFault, Fault, TypeOK
<1> QED
  BY <1>1, <1>2, <1>3, <1>4, DoneInv DEF Drop, Sweep, Done

(***************************************************************************)
(* Reads, under both locks                                                 *)
(***************************************************************************)

\* What a read leads to, given that the rows it leaves are right.
LEMMA SettleInv ==
    ASSUME TextInv, work.todo # <<>>, work.step \in {"read", "parse"}, NEW result, NEW rows,
           rows \in RowMap, RowsOK(rows), Settle(result, rows),
           UNCHANGED Outer, missed' \in BOOLEAN
    PROVE  TextInv'
<1>1. TypeOK /\ (work.mode \notin {"write", "removal"} => Now.kind = "move")
  BY DEF TextInv, WhereInv
<1>2. row' \in RowMap /\ RowsOK(row')
  <2>1. CASE Checked
    <3>1. File \in Path
      BY <1>1, <2>1, TaskTyped DEF Checked, File
    <3> QED
      BY <2>1, <3>1, SettledOK DEF Settle
  <2> QED
    BY <2>1 DEF Settle
<1>3. CASE Done(<<>>)
  <2>1. <<>> \in Seq(TaskType)
    OBVIOUS
  <2> QED
    BY <1>2, <1>3, <2>1, DoneInv DEF Done
<1>4. CASE ~Done(<<>>)
  <2>1. /\ GoesOn /\ work'.mode = work.mode
        /\ \/ work'.step = "relook"
           \/ work'.step \in {"relookMove", "settleOld", "linkCheck"} /\ work.mode \notin {"write", "removal"}
    BY <1>1, <1>4, StepTyped DEF Settle
  <2>2. Frame /\ db' = db
    BY <1>1, <1>4 DEF Settle, Goto, GotoAfter, locks, Frame, Outer, TypeOK
  <2> QED
    BY <1>1, <1>2, <2>1, <2>2, ToStep DEF Steps, MoveSteps
<1> QED
  BY <1>3, <1>4

LEMMA FirstReadInv ==
    ASSUME TextInv, FirstRead \/ FirstReadFails, UNCHANGED Outer, missed' \in BOOLEAN
    PROVE  TextInv'
<1>1. work.todo # <<>> /\ work.step = "read" /\ TypeOK
  BY DEF FirstRead, FirstReadFails, AtStep, TextInv
<1>2. row \in RowMap /\ RowsOK(row)
  BY <1>1, RowsNow DEF Half
<1>3. ASSUME NEW result, Settle(result, row) PROVE TextInv'
  BY <1>1, <1>2, <1>3, SettleInv
<1>4. ASSUME work' = [work EXCEPT !.step = "parse", !.seen = disk[File]],
             UNCHANGED <<row, locks, touched>>
      PROVE  TextInv'
  <2>1. GoesOn /\ work'.step = "parse" /\ work'.mode = work.mode
    BY <1>1, <1>4 DEF TypeOK, Idle, GoesOn
  <2>2. Frame /\ db' = db
    BY <1>1, <1>4 DEF locks, Frame, Outer, TypeOK
  <2>3. work.mode \notin {"write", "removal"} => Now.kind = "move"
    BY <1>1 DEF TextInv, WhereInv
  <2> QED
    BY <1>1, <1>2, <1>4, <2>1, <2>2, <2>3, ToStep DEF Steps, MoveSteps
<1> QED
  BY <1>3, <1>4 DEF FirstRead, FirstReadFails

LEMMA SecondReadInv ==
    ASSUME TextInv, SecondRead \/ SecondReadFails, UNCHANGED Outer, missed' \in BOOLEAN
    PROVE  TextInv'
<1>1. work.todo # <<>> /\ work.step = "parse" /\ TypeOK
  BY DEF SecondRead, SecondReadFails, AtStep, TextInv
<1>2. row \in RowMap /\ RowsOK(row)
  BY <1>1, RowsNow DEF Half
<1>3. ASSUME NEW result, Settle(result, row) PROVE TextInv'
  BY <1>1, <1>2, <1>3, SettleInv
<1>4. ASSUME NEW result, Settle(result, Without(row, {File})) PROVE TextInv'
  BY <1>1, <1>2, <1>4, SettleInv, WithoutOK
<1>5. ASSUME disk[File] \notin {Gone, Linked}, Parsed(File, disk[File]) \notin {NoText, Broken},
             Settle("updated", [row EXCEPT ![File] = RowOf(File, disk[File])])
      PROVE  TextInv'
  <2> DEFINE rows == [row EXCEPT ![File] = RowOf(File, disk[File])]
  <2>1. rows \in RowMap /\ RowsOK(rows)
    <3>1. CASE File \in Path
      BY <1>1, <1>2, <1>5, <3>1, ParsedTyped, WrittenOK DEF TypeOK
    <3>2. CASE File \notin Path
      <4>1. rows = row
        BY <1>2, <3>2 DEF RowMap
      <4> QED
        BY <1>2, <4>1
    <3> QED
      BY <3>1, <3>2
  <2> HIDE DEF rows
  <2> QED
    BY <1>1, <1>5, <2>1, SettleInv DEF rows
<1> QED
  BY <1>3, <1>4, <1>5 DEF SecondRead, SecondReadFails

LEMMA ReadFileInv == TextInv /\ ReadFile => TextInv'
<1> SUFFICES ASSUME TextInv, ReadFile PROVE TextInv'
  OBVIOUS
<1>1. UNCHANGED Outer /\ missed' \in BOOLEAN /\ TypeOK
  BY DEF ReadFile, TextInv, TypeOK, NoFault, Fault
<1>2. CASE FirstRead \/ FirstReadFails
  BY <1>1, <1>2, FirstReadInv
<1>3. CASE SecondRead \/ SecondReadFails
  BY <1>1, <1>3, SecondReadInv
<1>4. CASE (AfterLook \/ AfterUnknown \/ ReindexLook \/ ReindexUnknown \/ Relook \/ RelookUnknown)
           /\ UNCHANGED row
  <2>1. work.todo # <<>> /\ work.step \in {"locked", "relook"}
    BY <1>4 DEF AfterLook, AfterUnknown, ReindexLook, ReindexUnknown, Relook, RelookUnknown, Locked, AtStep
  <2>2. row' \in RowMap /\ RowsOK(row')
    BY <1>4, <2>1, RowsNow DEF Half
  <2>3. CASE Done(<<>>)
    <3>1. <<>> \in Seq(TaskType)
      OBVIOUS
    <3> QED
      BY <1>1, <2>1, <2>2, <2>3, <3>1, DoneInv DEF Done
  <2>4. CASE ~Done(<<>>)
    <3>1. \/ Goto("drop") \/ Read("removal") \/ Read("write")
      BY <1>4, <2>4 DEF AfterLook, AfterUnknown, ReindexLook, ReindexUnknown, Relook, RelookUnknown
    <3>2. GoesOn /\ (work'.step = "drop" \/ (work'.step = "read" /\ work'.mode \in {"write", "removal"}))
      <4>1. CASE Goto("drop")
        BY <1>1, <4>1 DEF Goto, GoesOn, TypeOK, Idle
      <4>2. CASE Read("removal") \/ Read("write")
        BY <1>1, <4>2, StepTyped
      <4> QED
        BY <3>1, <4>1, <4>2
    <3>3. Frame /\ db' = db
      BY <1>1, <3>1 DEF Goto, Read, locks, Frame, Outer, TypeOK
    <3> QED
      BY <2>1, <2>2, <3>2, <3>3, ToStep DEF Steps, MoveSteps
  <2> QED
    BY <2>3, <2>4
<1> QED
  BY <1>2, <1>3, <1>4 DEF ReadFile

(***************************************************************************)
(* Renames, under both locks                                               *)
(***************************************************************************)

\* A step of a rename, that leaves the rows right.
LEMMA MoveInv ==
    ASSUME TextInv, work.todo # <<>>, Now.kind = "move", work.step \notin {"next", "embedder"},
           UNCHANGED Surroundings, unmarked' \in BOOLEAN, unmarked => unmarked', missed' \in BOOLEAN,
           row' \in RowMap, RowsOK(row') \/ TextOfItsHash',
           \/ GoesOn
           \/ SettledAt(To),
           UNCHANGED <<locks, touched>>,
           work'.step \in Steps,
           work'.step = "renameRead" /\ Crosses(At, To) /\ row'[At] # NoRow => row'[At].hash = Awaiting
    PROVE  TextInv'
<1>1. TypeOK /\ To \in Path
  BY TaskTyped DEF TextInv
<1>2. Frame /\ db' = db
  BY <1>1 DEF locks, Frame, Outer, TypeOK
<1>3. DOMAIN work' = DOMAIN Idle /\ work'.todo = work.todo /\ work'.settled \subseteq Path
  <2>1. DOMAIN work = DOMAIN Idle /\ work.settled \subseteq Path
    BY <1>1 DEF TypeOK
  <2>2. CASE GoesOn
    BY <2>1, <2>2 DEF GoesOn
  <2>3. CASE SettledAt(To)
    BY <1>1, <2>1, <2>3 DEF SettledAt, Idle
  <2> QED
    BY <2>2, <2>3
<1>4. TypeOK'
  BY <1>1, <1>2, <1>3 DEF TypeOK, Frame, Outer, Surroundings, tree, RowMap, Idle
<1>5. Now' = Now /\ At' = At /\ To' = To
  BY <1>3 DEF Now, At, To
<1>6. WhereInv' /\ LockInv' /\ MarkInv'
  BY <1>2, <1>3, <1>5 DEF TextInv, WhereInv, LockInv, MarkInv, HasRow, Crosses, Frame, Surroundings
<1> QED
  BY <1>4, <1>6, TextIsRowsOK DEF TextInv

LEMMA MoveTask ==
    ASSUME TextInv,
           \/ MoveLook \/ MoveUnknown \/ PlanFails \/ ClearFails \/ MarkUnread \/ DropBoth
           \/ DropBothFails \/ Stat \/ StatFails \/ DropMoved \/ DropMovedFails \/ RenameRead
           \/ RenameReadFails \/ Reparse \/ ReparseFails \/ RelookMove \/ RelookMoveFails
           \/ RelookMoveUnknown \/ SettleNew \/ SettleOld \/ LinkCheck
    PROVE  /\ work.todo # <<>> /\ Now.kind = "move" /\ work.step \notin {"next", "embedder"}
           /\ At \in Path /\ To \in Path /\ TypeOK /\ row \in RowMap
           /\ ~Half => RowsOK(row)
<1>1. work.todo # <<>> /\ Now.kind = "move" /\ work.step \in MoveSteps \cup {"locked"}
  BY DEF TextInv, WhereInv, MoveLook, MoveUnknown, PlanFails, ClearFails, MarkUnread, DropBoth, DropBothFails, Stat,
         StatFails, DropMoved, DropMovedFails, RenameRead, RenameReadFails, Reparse, ReparseFails,
         RelookMove, RelookMoveFails, RelookMoveUnknown, SettleNew, SettleOld, LinkCheck, Locked, AtStep, MoveSteps
<1> QED
  BY <1>1, TaskTyped, RowsNow DEF TextInv, MoveSteps

\* Where a rename may go on to.
LEMMA MoveGoto ==
    ASSUME TypeOK, NEW step \in Steps
    PROVE  /\ Goto(step) => GoesOn /\ work'.step = step /\ UNCHANGED <<locks, touched>>
           /\ \A result : GotoAfter(step, result)
                  => GoesOn /\ work'.step = step /\ UNCHANGED <<locks, touched>>
           /\ \A mode : Read(mode) => GoesOn /\ work'.step = "read" /\ UNCHANGED <<locks, touched>>
           /\ \A q : Settled(q) => SettledAt(q) /\ work'.step = "linkCheck" /\ UNCHANGED <<locks, touched>>
BY DEF TypeOK, Goto, GotoAfter, Read, Settled, SettledAt, GoesOn, Idle

LEMMA MoveFileInv == TextInv /\ MoveFile => TextInv'
<1> SUFFICES ASSUME TextInv, MoveFile PROVE TextInv'
  OBVIOUS
<1>1. /\ work.todo # <<>> /\ Now.kind = "move" /\ work.step \notin {"next", "embedder"}
      /\ At \in Path /\ To \in Path /\ TypeOK /\ row \in RowMap
      /\ ~Half => RowsOK(row)
  <2>1. work.step = "locked" \/ work.step \in MoveSteps
    BY DEF MoveFile, MoveLook, MoveUnknown, PlanFails, ClearFails, MarkUnread, DropBoth, DropBothFails, Stat,
           StatFails, DropMoved, DropMovedFails, RenameRead, RenameReadFails, Reparse, ReparseFails,
           RelookMove, RelookMoveFails, RelookMoveUnknown, SettleNew, SettleOld, LinkCheck, Locked, AtStep, MoveSteps
  <2> QED
    BY <2>1, MoveTask DEF MoveFile, MoveSteps
<1>2. /\ UNCHANGED Surroundings /\ missed' \in BOOLEAN
      /\ unmarked' \in BOOLEAN /\ (unmarked => unmarked')
  BY <1>1 DEF MoveFile, DropMovedFails, NoFault, Fault, TypeOK
<1> DEFINE Goes == (GoesOn \/ SettledAt(To)) /\ UNCHANGED <<locks, touched>>
<1>3. ASSUME row' \in RowMap, RowsOK(row') \/ TextOfItsHash', Goes,
             work'.step \in Steps \ {"renameRead"}
      PROVE  TextInv'
  BY <1>1, <1>2, <1>3, MoveInv
<1>4. ASSUME row' \in RowMap, RowsOK(row'), NEW step \in Steps \ {"renameRead"},
             \/ Goto(step)
             \/ \E result : GotoAfter(step, result)
      PROVE  TextInv'
  BY <1>1, <1>3, <1>4, MoveGoto
<1>5. ASSUME row' \in RowMap, RowsOK(row'), NEW mode, Read(mode)
      PROVE  TextInv'
  BY <1>1, <1>3, <1>5, MoveGoto DEF Steps
<1>6. ASSUME row' \in RowMap, RowsOK(row'), Settled(To)
      PROVE  TextInv'
  BY <1>1, <1>3, <1>6, MoveGoto DEF Steps, MoveSteps
<1> HIDE DEF Goes
<1>7. ASSUME Done(<<>>), UNCHANGED <<row, unmarked>>, ~Half PROVE TextInv'
  <2>1. <<>> \in Seq(TaskType)
    OBVIOUS
  <2> QED
    BY <1>1, <1>2, <1>7, <2>1, DoneInv DEF Done, Outer
<1>8. CASE MoveLook
  <2>1. RowsOK(row) /\ Without(row, {To}) \in RowMap /\ RowsOK(Without(row, {To}))
    BY <1>1, <1>8, WithoutOK DEF MoveLook, Locked, AtStep, Half
  <2>2. CASE disk[To] = Gone
    BY <1>1, <1>4, <1>8, <2>1, <2>2 DEF MoveLook, Steps, MoveSteps
  <2>3. CASE disk[To] # Gone /\ ~HasRow(At)
    BY <1>1, <1>5, <1>8, <2>1, <2>3 DEF MoveLook
  <2>4. CASE disk[To] # Gone /\ HasRow(At)
    <3>1. GoesOn /\ work'.step = "stat" /\ UNCHANGED <<locks, touched>>
      BY <1>1, <1>8, <2>4 DEF MoveLook, GoesOn, TypeOK, Idle
    <3> QED
      BY <1>3, <1>8, <2>1, <2>4, <3>1 DEF MoveLook, Goes, Steps, MoveSteps
  <2> QED
    BY <2>2, <2>3, <2>4
<1>9. CASE MoveUnknown
  <2>1. RowsOK(row)
    BY <1>1, <1>9 DEF MoveUnknown, Locked, AtStep, Half
  <2>2. CASE ~(HasRow(At) /\ ~HasRow(To))
    BY <1>1, <1>4, <1>9, <2>1, <2>2 DEF MoveUnknown, Steps, MoveSteps
  <2>3. CASE HasRow(At) /\ ~HasRow(To) /\ ~Crosses(At, To)
    <3>1. Carried(row, At, To) \in RowMap /\ RowsOK(Carried(row, At, To))
      BY <1>1, <2>1, <2>3, CarriedTyped, CarriedOK
    <3> QED
      BY <1>4, <1>9, <2>3, <3>1 DEF MoveUnknown, Steps, MoveSteps
  <2>4. CASE HasRow(At) /\ ~HasRow(To) /\ Crosses(At, To)
    <3>1. row' = Carried(row, At, To) /\ row' \in RowMap
      BY <1>1, <1>9, <2>4, CarriedTyped DEF MoveUnknown
    <3>2. GoesOn /\ work'.step = "mark" /\ UNCHANGED <<locks, touched>>
      BY <1>1, <1>9, <2>4, MoveGoto DEF MoveUnknown, Steps, MoveSteps
    <3>3. unmarked \/ \A p \in Path \ {To} : RowOK(p, row'[p])
      BY <1>1, <2>1, <3>1, CarriedOthers
    <3>4. To' = To /\ work'.todo # <<>>
      BY <1>1, <3>2 DEF To, Now, GoesOn
    <3>5. TextOfItsHash'
      BY <1>1, <1>2, <2>4, <3>2, <3>3, <3>4
         DEF TextOfItsHash, HalfMoved, HasRow, RowOK, AtStep, Parsed, At, To, Now, GoesOn, Crosses
    <3> QED
      BY <1>3, <3>1, <3>2, <3>5 DEF Goes, Steps, MoveSteps
  <2> QED
    BY <2>2, <2>3, <2>4
<1>10. CASE MarkUnread
  <2>1. unmarked \/ \A p \in Path \ {To} : RowOK(p, row[p])
    BY DEF TextInv, TextOfItsHash, HalfMoved, HasRow, RowOK
  <2>2. Marked(row, To) \in RowMap /\ RowsOK(Marked(row, To))
    BY <1>1, <2>1 DEF Marked, RowMap, RowsOK, RowOK, Row
  <2> QED
    BY <1>5, <1>10, <2>2 DEF MarkUnread
<1>11. CASE DropBoth \/ DropBothFails
  <2>1. row' \in RowMap /\ RowsOK(row')
    BY <1>1, <1>11, WithoutOK DEF DropBoth, DropBothFails, AtStep, Half
  <2> QED
    BY <1>4, <1>11, <2>1 DEF DropBoth, DropBothFails, Steps, MoveSteps
<1>12. CASE Stat
  <2>1. RowsOK(row)
    BY <1>1, <1>12 DEF Stat, AtStep, Half
  <2>2. CASE disk[To] = Gone
    <3>1. row' = Carried(row, At, To) /\ row' \in RowMap
      BY <1>1, <1>12, <2>2, CarriedTyped DEF Stat
    <3>2. GoesOn /\ work'.step = "dropMoved" /\ UNCHANGED <<locks, touched>>
      BY <1>1, <1>12, <2>2, MoveGoto DEF Stat, Steps, MoveSteps
    <3>3. work'.step \in Steps /\ work'.step # "renameRead"
      BY <3>2 DEF Steps, MoveSteps
    <3>4. CASE ~Crosses(At, To)
      <4>1. RowsOK(row')
        BY <1>1, <2>1, <3>1, <3>4, CarriedOK
      <4> QED
        BY <1>3, <3>1, <3>2, <3>3, <4>1 DEF Goes
    <3>5. CASE Crosses(At, To)
      <4>1. unmarked \/ \A p \in Path \ {To} : RowOK(p, row'[p])
        BY <1>1, <2>1, <3>1, CarriedOthers
      <4>2. Now' = Now /\ To' = To /\ At' = At /\ work'.todo # <<>>
        BY <1>1, <3>2 DEF At, To, Now, GoesOn
      <4>3. TextOfItsHash'
        BY <1>1, <1>2, <3>2, <3>5, <4>1, <4>2
           DEF TextOfItsHash, HalfMoved, HasRow, RowOK, AtStep, Parsed, Crosses
      <4> QED
        BY <1>3, <3>1, <3>2, <3>3, <4>3 DEF Goes
    <3> QED
      BY <3>4, <3>5
  <2>3. CASE disk[To] # Gone
    <3>1. row' \in RowMap /\ RowsOK(row')
      BY <1>1, <1>12, <2>1, <2>3, MarkedOK DEF Stat
    <3>2. Crosses(At, To) /\ row'[At] # NoRow => row'[At].hash = Awaiting
      BY <1>1, <1>12, <2>1, <2>3, MarkedOK DEF Stat
    <3>3. GoesOn /\ work'.step = "renameRead" /\ UNCHANGED <<locks, touched>>
      BY <1>1, <1>12, <2>3, MoveGoto DEF Stat, Steps, MoveSteps
    <3>4. work'.step \in Steps
      BY <3>3 DEF Steps, MoveSteps
    <3> QED
      BY <1>1, <1>2, <3>1, <3>2, <3>3, <3>4, MoveInv
  <2> QED
    BY <2>2, <2>3
<1>13. CASE StatFails
  <2>1. RowsOK(row)
    BY <1>1, <1>13 DEF StatFails, AtStep, Half
  <2> QED
    BY <1>1, <1>4, <1>13, <2>1 DEF StatFails, RenameFailed, Steps, MoveSteps
<1>14. CASE RenameRead \/ RenameReadFails
  <2>1. RowsOK(row) /\ (Crosses(At, To) /\ row[At] # NoRow => row[At].hash = Awaiting)
    BY <1>1, <1>14 DEF RenameRead, RenameReadFails, AtStep, Half, TextInv, MarkInv, HasRow
  <2> DEFINE carried == Carried(row, At, To)
  <2>2. carried \in RowMap /\ RowsOK(carried)
    BY <1>1, <2>1, CarriedTyped, CarriedOK
  <2>3. Without(carried, {To}) \in RowMap /\ RowsOK(Without(carried, {To}))
    BY <2>2, WithoutOK
  <2>4. CASE row' = carried /\ work' = [work EXCEPT !.step = "reparse", !.seen = disk[To]]
             /\ UNCHANGED <<locks, touched>>
    <3>1. GoesOn /\ work'.step = "reparse"
      BY <1>1, <2>4 DEF GoesOn, TypeOK, Idle
    <3> QED
      BY <1>3, <2>2, <2>4, <3>1 DEF Goes, Steps, MoveSteps
  <2>5. CASE MovedUnread
    BY <1>4, <2>2, <2>5 DEF MovedUnread, Steps, MoveSteps
  <2>6. CASE DroppedAt(To)
    BY <1>6, <2>3, <2>6 DEF DroppedAt
  <2>7. CASE row' = carried /\ Settled(To)
    BY <1>6, <2>2, <2>7
  <2>8. CASE RenameFailed
    BY <1>1, <1>4, <2>1, <2>8 DEF RenameFailed, Steps, MoveSteps
  <2> QED
    BY <1>14, <2>4, <2>5, <2>6, <2>7, <2>8 DEF RenameRead, RenameReadFails
<1>15. CASE Reparse \/ ReparseFails
  <2>1. RowsOK(row)
    BY <1>1, <1>15 DEF Reparse, ReparseFails, AtStep, Half
  <2>2. CASE disk[To] \in Content /\ Parsed(To, disk[To]) \in Text
             /\ row' = [row EXCEPT ![To] = RowOf(To, disk[To])] /\ Settled(To)
    BY <1>1, <1>6, <2>1, <2>2, WrittenOK
  <2>3. CASE row' = Marked(row, To) /\ GotoAfter("relookMove", "awaiting")
    BY <1>1, <1>4, <2>1, <2>3, MarkedOK DEF Steps, MoveSteps
  <2>4. CASE row' = Without(row, {To}) /\ Settled(To)
    BY <1>1, <1>6, <2>1, <2>4, WithoutOK
  <2>5. ASSUME UNCHANGED row, NEW result, GotoAfter("relookMove", result) PROVE TextInv'
    BY <1>1, <1>4, <2>1, <2>5 DEF Steps, MoveSteps
  <2> QED
    BY <1>15, <2>2, <2>3, <2>4, <2>5 DEF Reparse, ReparseFails
<1>16. CASE RelookMove \/ RelookMoveFails \/ RelookMoveUnknown
  <2>1. RowsOK(row) /\ Without(row, {To}) \in RowMap /\ RowsOK(Without(row, {To}))
    BY <1>1, <1>16, WithoutOK DEF RelookMove, RelookMoveFails, RelookMoveUnknown, AtStep, Half
  <2>2. CASE row' = Without(row, {To}) /\ Goto("linkCheck")
    BY <1>4, <2>1, <2>2 DEF Steps, MoveSteps
  <2>3. CASE UNCHANGED row /\ Goto("linkCheck")
    BY <1>1, <1>4, <2>1, <2>3 DEF Steps, MoveSteps
  <2>4. ASSUME UNCHANGED row, NEW mode, Read(mode) PROVE TextInv'
    BY <1>1, <1>5, <2>1, <2>4
  <2> QED
    BY <1>16, <2>2, <2>3, <2>4 DEF RelookMove, RelookMoveFails, RelookMoveUnknown
<1>17. CASE SettleNew \/ SettleOld
  <2>1. RowsOK(row) /\ Without(row, {At}) \in RowMap /\ RowsOK(Without(row, {At}))
    BY <1>1, <1>17, WithoutOK DEF SettleNew, SettleOld, AtStep, Half
  <2>2. CASE SettleNew
    BY <1>1, <1>4, <1>5, <2>1, <2>2 DEF SettleNew, AfterSettling, Steps, MoveSteps
  <2>3. CASE SettleOld
    BY <1>1, <1>4, <2>1, <2>3 DEF SettleOld, AfterSettling, Steps, MoveSteps
  <2> QED
    BY <1>17, <2>2, <2>3
<1>18. CASE LinkCheck
  <2>1. RowsOK(row) /\ ~Half
    BY <1>1, <1>18 DEF LinkCheck, AtStep, Half
  <2>2. CASE Goto("drop")
    BY <1>1, <1>4, <1>18, <2>1, <2>2 DEF LinkCheck, Steps, MoveSteps
  <2>3. CASE Done(<<>>)
    <3>1. unmarked' = unmarked
      BY <1>18, <2>1 DEF MoveFile, DropMovedFails, LinkCheck, AtStep
    <3> QED
      BY <1>7, <1>18, <2>1, <2>3, <3>1 DEF LinkCheck
  <2> QED
    BY <1>18, <2>2, <2>3 DEF LinkCheck
<1>19. CASE DropMoved
  <2>1. Without(row, {To}) \in RowMap /\ RowsOK(Without(row, {To}))
    <3>1. unmarked \/ \A p \in Path \ {To} : RowOK(p, row[p])
      BY DEF TextInv, TextOfItsHash, HalfMoved, HasRow, RowOK
    <3> QED
      BY <1>1, <3>1 DEF Without, RowMap, RowsOK, RowOK
  <2> QED
    BY <1>6, <1>19, <2>1 DEF DropMoved
<1>20. CASE DropMovedFails
  <2>1. row' \in RowMap /\ (Crosses(At, To) \/ RowsOK(row'))
    BY <1>1, <1>20 DEF DropMovedFails, Half
  <2>2. RowsOK(row') \/ TextOfItsHash'
    BY <1>20, <2>1 DEF DropMovedFails, TextOfItsHash
  <2>3. GoesOn /\ work'.step = "relookMove" /\ UNCHANGED <<locks, touched>>
    BY <1>1, <1>20, MoveGoto DEF DropMovedFails, Steps, MoveSteps
  <2> QED
    BY <1>3, <2>1, <2>2, <2>3 DEF Goes, Steps, MoveSteps
<1>21. CASE PlanFails
  <2>1. RowsOK(row) /\ ~Half /\ unmarked' = unmarked
    BY <1>1, <1>21 DEF PlanFails, MoveFile, DropMovedFails, Locked, AtStep, Half
  <2> QED
    BY <1>7, <1>21, <2>1 DEF PlanFails
<1>22. CASE ClearFails
  <2>1. row' \in RowMap /\ RowsOK(row')
    BY <1>1, <1>22, WithoutOK DEF ClearFails, Locked, AtStep, Half
  <2> QED
    BY <1>4, <1>22, <2>1 DEF ClearFails, Steps, MoveSteps
<1> QED
  BY <1>8, <1>9, <1>10, <1>11, <1>12, <1>13, <1>14, <1>15, <1>16, <1>17, <1>18, <1>19, <1>20, <1>21,
     <1>22 DEF MoveFile

(***************************************************************************)
(* The locks and the channel                                               *)
(***************************************************************************)

LEMMA TakeInv == TextInv /\ (TakeEmbedder \/ TakeDatabase) => TextInv'
<1> SUFFICES ASSUME TextInv, TakeEmbedder \/ TakeDatabase PROVE TextInv'
  OBVIOUS
<1>1. /\ UNCHANGED <<row, touched, missed, Outer>> /\ TypeOK /\ work.step \in {"next", "embedder"}
      /\ work.todo # <<>>
  BY DEF TextInv, TakeEmbedder, TakeDatabase, Ready, AtStep
<1>2. GoesOn /\ work'.step \in {"embedder", "locked"} /\ (work'.step = "locked" => db' = "watcher")
  BY <1>1 DEF TakeEmbedder, TakeDatabase, GoesOn, TypeOK, Idle
<1>3. /\ embedder' \in {"free", "watcher", "request"}
      /\ db' = db \/ (db = "free" /\ db' = "watcher")
  BY <1>1 DEF TakeEmbedder, TakeDatabase, TypeOK
<1>4. TypeOK'
  BY <1>1, <1>2, <1>3 DEF TypeOK, Outer, Surroundings, tree, GoesOn, Idle
<1>5. RowsOK(row')
  BY <1>1, RowsNow DEF Half
<1>6. WhereInv' /\ LockInv' /\ MarkInv'
  BY <1>1, <1>2, <1>3 DEF TextInv, WhereInv, LockInv, MarkInv, GoesOn, Outer, Surroundings, Steps, MoveSteps
<1> QED
  BY <1>1, <1>4, <1>5, <1>6, TextIsRowsOK DEF TextInv, Outer

LEMMA TakeBatchInv == TextInv /\ TakeBatch => TextInv'
<1> SUFFICES ASSUME TextInv, TakeBatch PROVE TextInv'
  OBVIOUS
<1>1. TypeOK /\ channel \in Seq(Seq(TaskType)) /\ channel # <<>> /\ Capacity \in Nat
  BY BoundAssumption DEF TextInv, TakeBatch, TypeOK
<1>2. /\ Head(channel) \in Seq(TaskType) /\ Tail(channel) \in Seq(Seq(TaskType))
      /\ Len(Tail(channel)) <= Len(channel)
  BY <1>1
<1>3. work.step = "next"
  BY DEF TextInv, WhereInv, TakeBatch
<1>4. /\ DOMAIN work' = DOMAIN Idle /\ work'.todo = Head(channel) /\ work'.settled = {}
      /\ work'.step = "next"
  BY DEF TakeBatch, Idle
<1>5. TypeOK'
  <2>1. channel' \in Seq(Seq(TaskType)) /\ Len(channel') <= Capacity
    <3>1. Len(channel) <= Capacity /\ Len(channel) \in Nat
      BY <1>1 DEF TypeOK
    <3>2. channel' = Tail(channel) /\ Len(Tail(channel)) \in Nat
      BY <1>2 DEF TakeBatch
    <3> QED
      BY <1>1, <1>2, <3>1, <3>2
  <2> QED
    BY <1>1, <1>2, <1>4, <2>1 DEF TypeOK, TakeBatch, tree, locks, history, Idle
<1>6. RowsOK(row')
  BY <1>3, RowsNow DEF TakeBatch, Half
<1>7. WhereInv' /\ LockInv' /\ MarkInv'
  BY <1>3, <1>4 DEF TextInv, WhereInv, LockInv, MarkInv, TakeBatch, locks, Steps, MoveSteps
<1> QED
  BY <1>5, <1>6, <1>7, TextIsRowsOK DEF TextInv, TakeBatch, history

(***************************************************************************)
(* The disk, its events, and the rebuild requests                          *)
(***************************************************************************)

\* What a step of another has to show.
LEMMA OtherInv ==
    ASSUME TextInv, TypeOK', UNCHANGED work, RowsOK(row') \/ UNCHANGED row,
           UNCHANGED row \/ work.step \in {"next", "embedder"},
           LockInv', unmarked' = unmarked
    PROVE  TextInv'
<1>1. WhereInv'
  BY DEF TextInv, WhereInv, Now
<1>2. MarkInv'
  BY DEF TextInv, MarkInv, HasRow, At, To, Now, Crosses
<1>3. TextOfItsHash'
  BY TextIsRowsOK DEF TextInv, TextOfItsHash, HalfMoved, HasRow, AtStep, At, To, Now, Crosses
<1> QED
  BY <1>1, <1>2, <1>3 DEF TextInv

LEMMA DeliverTyped ==
    ASSUME TypeOK, NEW events \in Seq(TaskType), Deliver(events)
    PROVE  channel' \in Seq(Seq(TaskType)) /\ Len(channel') <= Capacity /\ missed' \in BOOLEAN
<1>1. Len(channel) \in Nat /\ Capacity \in Nat /\ Len(channel) <= Capacity
  BY BoundAssumption DEF TypeOK
<1>2. CASE Len(channel) < Capacity
  <2>1. channel' = Append(channel, events) /\ missed' = missed
    BY <1>2 DEF Deliver
  <2>2. channel' \in Seq(Seq(TaskType)) /\ Len(channel') = Len(channel) + 1
    BY <2>1 DEF TypeOK
  <2> QED
    BY <1>1, <1>2, <2>1, <2>2 DEF TypeOK
<1>3. CASE ~(Len(channel) < Capacity)
  BY <1>1, <1>3 DEF Deliver, TypeOK
<1> QED
  BY <1>2, <1>3

\* A change leaves the worker, its rows and its locks alone.
LEMMA ChangeInv ==
    ASSUME TextInv, NEW files \in SUBSET Path, Change(files),
           disk' \in [Path -> Content \cup {Gone, Linked}], dirs' \subseteq Dir,
           pending' \subseteq Path, folded' \subseteq Path,
           Silent \/ \E events \in Seq(TaskType) : Deliver(events)
    PROVE  TextInv'
<1>1. TypeOK
  BY DEF TextInv
<1>2. channel' \in Seq(Seq(TaskType)) /\ Len(channel') <= Capacity /\ missed' \in BOOLEAN
  BY <1>1, DeliverTyped DEF Silent, TypeOK
<1>3. changes' \in 0..MaxChanges /\ touched' \subseteq Path
  BY <1>1, BoundAssumption DEF Change, TypeOK
<1>4. TypeOK'
  BY <1>1, <1>2, <1>3 DEF Change, TypeOK, locks, Idle
<1>5. LockInv'
  BY DEF TextInv, LockInv, Change, locks
<1> QED
  BY <1>4, <1>5, OtherInv DEF Change

LEMMA EnvironmentInv == TextInv /\ Environment => TextInv'
<1> SUFFICES ASSUME TextInv, Environment PROVE TextInv'
  OBVIOUS
<1> USE DEF Kind, NeedsDatabase, NeedsBoth, Place
<1>1. TypeOK
  BY DEF TextInv
<1>2. \A p \in Path : p[1] \in Dir
  BY TreeAssumption
<1>3. \A p \in Path : <<Task("write", p, Outside)>> \in Seq(TaskType)
  BY PlainTask
<1>4. ASSUME NEW p \in Path, Write(p) PROVE TextInv'
  <2>1. disk' \in [Path -> Content \cup {Gone, Linked}]
    BY <1>1, <1>4 DEF Write, TypeOK
  <2>2. dirs' \subseteq Dir /\ pending' \subseteq Path /\ folded' \subseteq Path
    BY <1>1, <1>2, <1>4 DEF Write, TypeOK
  <2>3. <<Task("arrive", p[1], Outside)>> \in Seq(TaskType) /\ <<>> \in Seq(TaskType)
    BY <1>2, PlainTask
  <2>4. /\ <<Task("arrive", p[1], Outside)>> \o <<>> \in Seq(TaskType)
        /\ <<Task("arrive", p[1], Outside)>> \o <<Task("write", p, Outside)>> \in Seq(TaskType)
    BY <1>3, <2>3
  <2>5. Silent \/ \E events \in Seq(TaskType) : Deliver(events)
    BY <1>3, <1>4, <2>4 DEF Write
  <2> QED
    BY <1>4, <2>1, <2>2, <2>5, ChangeInv DEF Write
<1>5. ASSUME NEW p \in Path, Delete(p) PROVE TextInv'
  <2>1. disk' \in [Path -> Content \cup {Gone, Linked}]
    BY <1>1, <1>5 DEF Delete, TypeOK
  <2>2. dirs' \subseteq Dir /\ pending' \subseteq Path /\ folded' \subseteq Path
    BY <1>1, <1>5 DEF Delete, TypeOK
  <2>3. \A event \in {Task("removed", p, Outside), Task("rename", p, Outside)} :
            <<event>> \in Seq(TaskType)
    BY PlainTask
  <2>4. Silent \/ \E events \in Seq(TaskType) : Deliver(events)
    BY <1>5, <2>3 DEF Delete
  <2> QED
    BY <1>5, <2>1, <2>2, <2>4, ChangeInv DEF Delete
<1>6. ASSUME NEW q \in Path, MoveIn(q) PROVE TextInv'
  <2>1. disk' \in [Path -> Content \cup {Gone, Linked}]
    BY <1>1, <1>6 DEF MoveIn, TypeOK
  <2>2. <<Task("rename", Outside, q)>> \in Seq(TaskType)
    BY PlainTask
  <2>3. dirs' \subseteq Dir /\ pending' \subseteq Path /\ folded' \subseteq Path
    BY <1>1, <1>6 DEF MoveIn, TypeOK
  <2> QED
    BY <1>6, <2>1, <2>2, <2>3, ChangeInv DEF MoveIn
<1>7. ASSUME NEW p \in Path, Flush(p) PROVE TextInv'
  <2>1. channel' \in Seq(Seq(TaskType)) /\ Len(channel') <= Capacity /\ missed' \in BOOLEAN
    BY <1>1, <1>3, <1>7, DeliverTyped DEF Flush
  <2>2. TypeOK'
    BY <1>1, <1>7, <2>1 DEF Flush, TypeOK, tree, locks, Idle
  <2>3. LockInv'
    BY <1>7 DEF TextInv, LockInv, Flush, locks
  <2> QED
    BY <1>7, <2>2, <2>3, OtherInv DEF Flush
<1>8. ASSUME NEW p \in Path, NEW q \in Path, Move(p, q) PROVE TextInv'
  <2>1. disk' \in [Path -> Content \cup {Gone, Linked}]
    BY <1>1, <1>8 DEF Move, TypeOK
  <2>2. dirs' \subseteq Dir /\ pending' \subseteq Path /\ folded' \subseteq Path
    BY <1>1, <1>8 DEF Move, TypeOK
  <2>3. /\ <<Task("rename", p, q)>> \in Seq(TaskType)
        /\ <<Task("removed", p, Outside), Task("write", q, Outside)>> \in Seq(TaskType)
    <3>1. /\ Task("rename", p, q) \in TaskType /\ Task("removed", p, Outside) \in TaskType
          /\ Task("write", q, Outside) \in TaskType
      BY PlainTask
    <3> QED
      BY <3>1
  <2>4. Silent \/ \E events \in Seq(TaskType) : Deliver(events)
    BY <1>8, <2>3 DEF Move
  <2> QED
    BY <1>8, <2>1, <2>2, <2>4, ChangeInv DEF Move
<1>9. ASSUME NEW d \in Dir, RemoveDir(d) PROVE TextInv'
  <2>1. disk' \in [Path -> Content \cup {Gone, Linked}]
    BY <1>1, <1>9 DEF RemoveDir, TypeOK
  <2>2. <<Task("removeDir", d, Outside)>> \in Seq(TaskType)
    BY PlainTask
  <2>3. dirs' \subseteq Dir /\ pending' \subseteq Path /\ folded' \subseteq Path /\ In(d) \in SUBSET Path
    BY <1>1, <1>9 DEF RemoveDir, TypeOK, In
  <2> QED
    BY <1>9, <2>1, <2>2, <2>3, ChangeInv DEF RemoveDir
<1>10. ASSUME NEW d \in Dir, NEW e \in Dir, MoveDir(d, e) PROVE TextInv'
  <2>1. disk' \in [Path -> Content \cup {Gone, Linked}]
    BY <1>1, <1>10 DEF MoveDir, TypeOK
  <2>2. /\ <<Task("renameDir", d, e)>> \in Seq(TaskType)
        /\ <<Task("removeDir", d, Outside), Task("arrive", e, Outside)>> \in Seq(TaskType)
    <3>1. /\ Task("renameDir", d, e) \in TaskType /\ Task("removeDir", d, Outside) \in TaskType
          /\ Task("arrive", e, Outside) \in TaskType
      BY PlainTask
    <3> QED
      BY <3>1
  <2>3. /\ dirs' \subseteq Dir /\ pending' \subseteq Path /\ folded' \subseteq Path
        /\ In(d) \cup In(e) \in SUBSET Path
    BY <1>1, <1>10 DEF MoveDir, TypeOK, In
  <2>4. \E events \in Seq(TaskType) : Deliver(events)
    BY <1>10, <2>2 DEF MoveDir
  <2> QED
    BY <1>10, <2>1, <2>3, <2>4, ChangeInv DEF MoveDir
<1> QED
  BY <1>4, <1>5, <1>6, <1>7, <1>8, <1>9, <1>10 DEF Environment

LEMMA RequestInv == TextInv /\ (Ask \/ AskDatabase \/ Rebuild) => TextInv'
<1> SUFFICES ASSUME TextInv, Ask \/ AskDatabase \/ Rebuild PROVE TextInv'
  OBVIOUS
<1>1. TypeOK /\ row \in RowMap
  BY RowsNow DEF TextInv
<1>2. CASE Ask
  <2>1. TypeOK'
    BY <1>1, <1>2, BoundAssumption DEF Ask, TypeOK, tree, history, Idle
  <2>2. LockInv'
    BY <1>2 DEF TextInv, LockInv, Ask
  <2> QED
    BY <1>2, <2>1, <2>2, OtherInv DEF Ask, history
<1>3. CASE AskDatabase
  <2>1. TypeOK'
    BY <1>1, <1>3 DEF AskDatabase, TypeOK, tree, history, Idle
  <2>2. LockInv'
    BY <1>3 DEF TextInv, LockInv, AskDatabase
  <2> QED
    BY <1>3, <2>1, <2>2, OtherInv DEF AskDatabase, history
<1>4. CASE Rebuild
  <2>1. work.step \in {"next", "embedder"}
    BY <1>4 DEF TextInv, LockInv, Rebuild
  <2>2. row' \in RowMap /\ RowsOK(row')
    BY <1>1, <1>4, <2>1, RowsNow, RebuildOK DEF Rebuild, Half
  <2>3. TypeOK'
    BY <1>1, <1>4, <2>2 DEF Rebuild, TypeOK, tree, history, Idle, RowMap
  <2>4. LockInv'
    BY <1>4, <2>1 DEF LockInv, Rebuild
  <2> QED
    BY <1>4, <2>1, <2>2, <2>3, <2>4, OtherInv DEF Rebuild, history
<1> QED
  BY <1>2, <1>3, <1>4

(***************************************************************************)
(* The theorems                                                            *)
(***************************************************************************)

LEMMA TextInvInit == Init => TextInv
<1> SUFFICES ASSUME Init PROVE TextInv
  OBVIOUS
<1>1. disk \in [Path -> Content \cup {Gone}] /\ dirs \subseteq Dir
  BY ParseAssumption, TreeAssumption DEF Init
<1>2. row \in RowMap /\ RowsOK(row)
  BY <1>1, ParsedTyped DEF Init, RowMap, RowsOK, RowOK, RowOf, Row
<1>3. <<>> \in Seq(TaskType) /\ <<>> \in Seq(Seq(TaskType)) /\ Len(<<>>) = 0
  OBVIOUS
<1>4. /\ DOMAIN work = DOMAIN Idle /\ work.todo = <<>> /\ work.settled = {}
      /\ work.step = "next"
  BY DEF Init, Idle
<1>5. /\ disk \in [Path -> Content \cup {Gone, Linked}]
      /\ channel \in Seq(Seq(TaskType)) /\ Len(channel) <= Capacity
      /\ work.todo \in Seq(TaskType)
  <2>1. channel \in Seq(Seq(TaskType)) /\ Len(channel) = 0
    BY <1>3 DEF Init
  <2>2. work.todo \in Seq(TaskType)
    BY <1>3, <1>4
  <2> QED
    BY <1>1, <2>1, <2>2, BoundAssumption
<1>6. TypeOK
  <2>1. /\ embedder = "free" /\ db = "free" /\ other = "idle" /\ missed = FALSE
        /\ unmarked = FALSE /\ pending = {} /\ folded = {} /\ touched = {} /\ changes \in 0..MaxChanges
    BY BoundAssumption DEF Init
  <2>2. row \in [Path -> Row \cup {NoRow}]
    BY <1>2 DEF RowMap
  <2>3. work.settled \subseteq Path
    BY <1>4
  <2> QED
    BY <1>1, <1>4, <1>5, <2>1, <2>2, <2>3 DEF TypeOK
<1>7. WhereInv /\ LockInv /\ MarkInv
  BY <1>4 DEF Init, WhereInv, LockInv, MarkInv, Steps, MoveSteps
<1> QED
  BY <1>2, <1>6, <1>7, TextIsRowsOK DEF TextInv

LEMMA TextInvNext == TextInv /\ [Next]_vars => TextInv'
<1> SUFFICES ASSUME TextInv, [Next]_vars PROVE TextInv'
  OBVIOUS
<1>1. CASE Worker
  BY <1>1, TakeBatchInv, DispatchInv, TakeInv, UnderDatabaseInv, DropInv, ReadFileInv, MoveFileInv DEF Worker
<1>2. CASE Environment
  BY <1>2, EnvironmentInv
<1>3. CASE Ask \/ AskDatabase \/ Rebuild
  BY <1>3, RequestInv
<1>4. CASE UNCHANGED vars
  <2>1. TypeOK'
    BY <1>4 DEF TextInv, TypeOK, vars, tree, locks, history, Idle
  <2>2. LockInv'
    BY <1>4 DEF TextInv, LockInv, vars, locks
  <2> QED
    BY <1>4, <2>1, <2>2, OtherInv DEF vars, history
<1> QED
  BY <1>1, <1>2, <1>3, <1>4 DEF Next

LEMMA TextInvAlways == Spec => []TextInv
  BY TextInvInit, TextInvNext, PTL DEF Spec

\* Every task in the channel and in the hands of the worker is one the code has, a row is moved
\* between two paths the index covers, and the channel never holds more than its capacity.
THEOREM TypeCorrect == Spec => []TypeOK
<1>1. TextInv => TypeOK
  BY DEF TextInv
<1> QED
  BY <1>1, TextInvAlways, PTL

\* Whatever the files do between the looks of the watcher, whatever look or read fails and
\* wherever the watcher is killed, the text of a row is what the parser of its path makes of the
\* bytes its hash names.  Two renames across parsers take two transactions, and in the step between
\* them nothing is said of the destination: a row moved unread before it is marked, and one moved
\* to a file just gone before it is dropped, or ever after if that drop fails.
THEOREM TextAlwaysOfItsHash == Spec => []TextOfItsHash
<1>1. TextInv => TextOfItsHash
  BY DEF TextInv
<1> QED
  BY <1>1, TextInvAlways, PTL

(***************************************************************************)
(* A file that stays as it is keeps its row                                *)
(***************************************************************************)

\* A file is in a directory that is there.
TreeInv == \A p \in Path : disk[p] # Gone => p[1] \in dirs

\* What is about to be dropped was not there when the worker looked, and changed since if it is.
GoneInv ==
    Now.kind # "move" =>
        \A p \in Path :
            (work.step = "drop" /\ p = At) \/ (work.step = "sweep" /\ p \in In(At))
                => p \in touched \/ disk[p] \notin Content

KeptInv == TextInv /\ TreeInv /\ GoneInv

\* A change of the disk reaches only the files it says, and leaves a tree.
LEMMA ChangedFiles ==
    ASSUME TextInv, TreeInv, Environment
    PROVE  /\ TreeInv' /\ UNCHANGED <<row, work, db>>
           /\ db = "watcher" => \A p \in Path : p \in touched' \/ (p \notin touched /\ disk'[p] = disk[p])
<1>1. TypeOK
  BY DEF TextInv
<1>2. ASSUME NEW p \in Path, Write(p) \/ Delete(p) \/ MoveIn(p) \/ Flush(p)
      PROVE  /\ TreeInv' /\ UNCHANGED <<row, work, db>>
             /\ db = "watcher" => \A q \in Path : q \in touched' \/ (q \notin touched /\ disk'[q] = disk[q])
  <2>1. CASE Write(p)
    BY <1>1, <2>1, TreeAssumption DEF Write, Change, TreeInv, TypeOK, locks
  <2>2. CASE Delete(p)
    BY <1>1, <2>2 DEF Delete, Change, TreeInv, TypeOK, locks
  <2>3. CASE MoveIn(p)
    BY <1>1, <2>3 DEF MoveIn, Change, TreeInv, TypeOK, locks
  <2>4. CASE Flush(p)
    BY <2>4 DEF Flush, TreeInv, tree, locks
  <2> QED
    BY <1>2, <2>1, <2>2, <2>3, <2>4
<1>3. ASSUME NEW p \in Path, NEW q \in Path, Move(p, q)
      PROVE  /\ TreeInv' /\ UNCHANGED <<row, work, db>>
             /\ db = "watcher" => \A f \in Path : f \in touched' \/ (f \notin touched /\ disk'[f] = disk[f])
  BY <1>1, <1>3 DEF Move, Change, TreeInv, TypeOK, locks
<1>4. ASSUME NEW d \in Dir, RemoveDir(d)
      PROVE  /\ TreeInv' /\ UNCHANGED <<row, work, db>>
             /\ db = "watcher" => \A p \in Path : p \in touched' \/ (p \notin touched /\ disk'[p] = disk[p])
  BY <1>1, <1>4 DEF RemoveDir, Change, TreeInv, TypeOK, locks, In
<1>5. ASSUME NEW d \in Dir, NEW e \in Dir, MoveDir(d, e)
      PROVE  /\ TreeInv' /\ UNCHANGED <<row, work, db>>
             /\ db = "watcher" => \A p \in Path : p \in touched' \/ (p \notin touched /\ disk'[p] = disk[p])
  BY <1>1, <1>5 DEF MoveDir, Change, TreeInv, TypeOK, locks, In
<1> QED
  BY <1>2, <1>3, <1>4, <1>5 DEF Environment

\* A task that ends, and one that goes on.
LEMMA NextStep ==
    /\ \A tasks : Done(tasks) => work'.step = "next"
    /\ \A tasks : work' = Then(tasks) => work'.step = "next"
    /\ \A tasks : work' = [Then(tasks) EXCEPT !.settled = {}] => work'.step = "next"
BY DEF Done, Then, Idle

\* A look that finds nothing is the only way to a drop.
LEMMA WorkerGone ==
    ASSUME TextInv, TreeInv, Worker
    PROVE  UNCHANGED tree /\ GoneInv'
<1>1. TypeOK
  BY DEF TextInv
<1>2. UNCHANGED tree
  BY DEF Worker, TakeBatch, Dispatch, TakeEmbedder, TakeDatabase, UnderDatabase, Drop, Sweep,
         ReadFile, MoveFile, Outer, Surroundings
<1>3. ASSUME work'.step \notin {"drop", "sweep"} PROVE GoneInv'
  BY <1>3 DEF GoneInv
<1>4. CASE TakeBatch \/ Dispatch \/ TakeEmbedder \/ TakeDatabase \/ Drop \/ Sweep
  <2>1. CASE TakeBatch
    BY <1>2, <1>3, <2>1 DEF TakeBatch, Idle
  <2>2. CASE Dispatch
    BY <1>2, <1>3, <2>2, NextStep DEF Dispatch, Written, Renamed, LinkEnd, RenamedDir,
         RenamedDirUnknown, Walk, WalkFails
  <2>3. CASE TakeEmbedder \/ TakeDatabase
    BY <1>1, <1>2, <1>3, <2>3 DEF TakeEmbedder, TakeDatabase, TypeOK, Idle
  <2>4. CASE Drop \/ Sweep
    BY <1>2, <1>3, <2>4, NextStep DEF Drop, Sweep
  <2> QED
    BY <1>4, <2>1, <2>2, <2>3, <2>4
<1>5. CASE MoveFile
  <2>1. work.todo # <<>> /\ Now.kind = "move"
    BY <1>5, MoveTask DEF MoveFile
  <2>2. work'.todo = work.todo \/ work'.step = "next"
    BY <1>1, <1>5, NextStep
       DEF MoveFile, MoveLook, MoveUnknown, PlanFails, ClearFails, MarkUnread, DropBoth, DropBothFails, Stat,
           StatFails, DropMoved, DropMovedFails, RenameRead, RenameReadFails, Reparse, ReparseFails,
           RelookMove, RelookMoveFails, RelookMoveUnknown, SettleNew, SettleOld, LinkCheck,
           AfterSettling, RenameFailed, MovedUnread, DroppedAt, Settled, SettledAt, Goto, GotoAfter,
           Read, TypeOK, Idle
  <2> QED
    BY <1>2, <1>3, <2>1, <2>2 DEF GoneInv, Now
<1>6. ASSUME Goto("drop"), disk[At] \notin Content PROVE GoneInv'
  <2>1. work'.todo = work.todo /\ work'.step = "drop"
    BY <1>1, <1>6 DEF Goto, TypeOK, Idle
  <2> QED
    BY <1>2, <1>6, <2>1 DEF GoneInv, Now, At, tree
<1>7. Gone \notin Content /\ Linked \notin Content
  BY NamesAssumption
<1>8. CASE UnderDatabase
  <2>1. CASE RemovalLook
    BY <1>2, <1>3, <1>6, <1>7, <2>1, NextStep DEF RemovalLook, LookAgain
  <2>2. CASE SweepLook
    <3>1. CASE At \notin dirs
      <4>1. work'.todo = work.todo /\ work'.step = "sweep"
        BY <1>1, <2>2, <3>1 DEF SweepLook, Goto, TypeOK, Idle
      <4>2. \A p \in In(At) : disk[p] = Gone
        BY <3>1 DEF TreeInv, In
      <4> QED
        BY <1>2, <1>7, <4>1, <4>2 DEF GoneInv, Now, At, tree
    <3>2. CASE At \in dirs
      BY <1>2, <1>3, <2>2, <3>2, NextStep DEF SweepLook
    <3> QED
      BY <3>1, <3>2
  <2>3. CASE \/ RemovalUnknown \/ SweepUnknown \/ Arrived \/ ArrivedUnknown \/ Behind \/ BehindFails
             \/ ListDir \/ ListDirUnknown \/ ListDirFails \/ ListGone \/ ListGoneFails
    BY <1>2, <1>3, <2>3, NextStep
       DEF RemovalUnknown, SweepUnknown, Arrived, ArrivedUnknown, Behind, BehindFails, ListDir,
           ListDirUnknown, ListDirFails, ListGone, ListGoneFails, LookAgain
  <2> QED
    BY <1>8, <2>1, <2>2, <2>3 DEF UnderDatabase
<1>9. CASE ReadFile
  <2>1. ASSUME NEW result, NEW rows, Settle(result, rows) PROVE GoneInv'
    <3>1. work'.step \notin {"drop", "sweep"}
      BY <1>1, <2>1, NextStep DEF Settle, Goto, GotoAfter, TypeOK, Idle
    <3> QED
      BY <1>2, <1>3, <3>1
  <2>2. CASE FirstRead \/ FirstReadFails
    <3>1. CASE work' = [work EXCEPT !.step = "parse", !.seen = disk[File]]
      BY <1>1, <1>2, <1>3, <3>1 DEF TypeOK, Idle
    <3> QED
      BY <1>2, <2>1, <2>2, <3>1 DEF FirstRead, FirstReadFails
  <2>3. CASE SecondRead \/ SecondReadFails
    BY <1>2, <2>1, <2>3 DEF SecondRead, SecondReadFails
  <2>4. ASSUME NEW mode, Read(mode) PROVE GoneInv'
    BY <1>1, <1>2, <1>3, <2>4 DEF Read, TypeOK, Idle
  <2>5. CASE AfterLook \/ AfterUnknown \/ ReindexLook \/ ReindexUnknown \/ Relook \/ RelookUnknown
    BY <1>2, <1>3, <1>6, <1>7, <2>4, <2>5, NextStep
       DEF AfterLook, AfterUnknown, ReindexLook, ReindexUnknown, Relook, RelookUnknown
  <2> QED
    BY <1>9, <2>2, <2>3, <2>5 DEF ReadFile
<1> QED
  BY <1>2, <1>4, <1>5, <1>8, <1>9 DEF Worker

LEMMA KeptInvNext == KeptInv /\ [Next]_vars => KeptInv'
<1> SUFFICES ASSUME KeptInv, [Next]_vars PROVE TreeInv' /\ GoneInv'
  BY TextInvNext DEF KeptInv
<1> USE DEF KeptInv
<1>1. CASE Worker
  BY <1>1, WorkerGone DEF TreeInv, tree
<1>2. CASE Environment
  <2>1. work.step \in {"drop", "sweep"} => db = "watcher"
    BY DEF TextInv, LockInv
  <2> QED
    BY <1>2, <2>1, ChangedFiles DEF GoneInv, Now, At
<1>3. CASE Ask \/ AskDatabase \/ Rebuild \/ UNCHANGED vars
  BY <1>3 DEF Ask, AskDatabase, Rebuild, vars, TreeInv, GoneInv, Now, At, tree
<1> QED
  BY <1>1, <1>2, <1>3 DEF Next

LEMMA KeptInvAlways == Spec => []KeptInv
<1>1. Init => KeptInv
  BY TextInvInit DEF KeptInv, Init, TreeInv, GoneInv, Idle
<1> QED
  BY <1>1, KeptInvNext, PTL DEF Spec

\* Whatever old event the watcher handles, whatever look or read fails and whatever other files do
\* meanwhile: a file that stays as it is while the watcher holds the database, and whose row is
\* right, keeps that row; only the settlement of a rename may take it.
THEOREM SteadyRowsKept == Spec => SteadyKept
<1> DEFINE Keeps ==
        db # "watcher" \/ Now.kind = "move" \/
            \A p \in Path \ touched :
                disk[p] \in Content /\ row[p] = RowOf(p, disk[p]) => row'[p] = row[p]
<1>1. KeptInv /\ [Next]_vars => Keeps \/ UNCHANGED vars
  <2> SUFFICES ASSUME KeptInv, [Next]_vars, db = "watcher", Now.kind # "move",
                      NEW p \in Path \ touched, disk[p] \in Content, row[p] = RowOf(p, disk[p])
               PROVE  row'[p] = row[p]
    OBVIOUS
  <2>1. TypeOK /\ GoneInv /\ WhereInv /\ LockInv
    BY DEF KeptInv, TextInv
  <2>2. CASE Drop
    BY <2>1, <2>2 DEF Drop, RemoveRows, AtStep, GoneInv, Without, File, TypeOK
  <2>3. CASE Sweep
    BY <2>1, <2>3 DEF Sweep, RemoveRows, AtStep, GoneInv, Without, TypeOK
  <2>4. CASE ReadFile
    <3>1. CASE UNCHANGED row
      BY <3>1
    <3>2. ASSUME AtStep("read") \/ AtStep("parse") PROVE ~Checked
      BY <2>1, <3>2 DEF WhereInv, AtStep, Checked
    <3>3. CASE FirstRead \/ FirstReadFails
      BY <3>2, <3>3 DEF FirstRead, FirstReadFails, Settle
    <3>4. CASE SecondRead \/ SecondReadFails
      <4>1. CASE UNCHANGED row
        BY <4>1
      <4>2. CASE row' = Without(row, {File}) /\ Parsed(File, disk[File]) = NoText
        <5>1. CASE p # File
          BY <4>2, <5>1 DEF Without
        <5>2. CASE p = File
          <6>1. row[p] \notin Row
            BY <4>2, <5>2, NamesAssumption DEF RowOf, Row
          <6>2. row[p] = NoRow
            BY <2>1, <6>1 DEF TypeOK
          <6> QED
            BY <4>2, <5>2, <6>2 DEF Without
        <5> QED
          BY <5>1, <5>2
      <4>3. CASE row' = [row EXCEPT ![File] = RowOf(File, disk[File])]
        BY <2>1, <4>3 DEF TypeOK
      <4> QED
        BY <3>2, <3>4, <4>1, <4>2, <4>3 DEF SecondRead, SecondReadFails, Settle
    <3> QED
      BY <2>4, <3>1, <3>3, <3>4 DEF ReadFile
  <2>5. CASE MoveFile
    BY <2>5, MoveTask DEF KeptInv, MoveFile
  <2>6. CASE TakeBatch \/ Dispatch \/ TakeEmbedder \/ TakeDatabase \/ UnderDatabase
    BY <2>6 DEF TakeBatch, Dispatch, TakeEmbedder, TakeDatabase, UnderDatabase
  <2>7. CASE Environment
    BY <2>7, ChangedFiles DEF KeptInv
  <2>8. CASE Ask \/ AskDatabase \/ UNCHANGED vars
    BY <2>8 DEF Ask, AskDatabase, vars
  <2>9. CASE Rebuild
    BY <2>1, <2>9 DEF Rebuild, LockInv
  <2> QED
    BY <2>2, <2>3, <2>4, <2>5, <2>6, <2>7, <2>8, <2>9 DEF Next, Worker
<1> QED
  BY <1>1, KeptInvAlways, PTL DEF Spec, SteadyKept
=============================================================================
