------------------------- MODULE WatchConvergeProofs -------------------------
(***************************************************************************)
(* For any tree of files, any parsers, any capacity of the channel and any *)
(* number of changes: once nothing is left to handle, every path has the   *)
(* row a full run would give it.  The argument follows each path: its row  *)
(* is right, or the worker is about to make it so, or an event or a task   *)
(* that does is still in front of the worker.                              *)
(***************************************************************************)
EXTENDS WatchDispatchProofs

\* Handling the task makes the row of p right, if `there` is what is at p by then.
Covers(task, p, there, settled) ==
    \/ task.kind \in {"write", "removed", "after", "reindex"} /\ p = task.at
    \/ task.kind = "rename" /\ (p = task.to \/ (p = task.at /\ there = Gone))
    \/ task.kind = "move" /\ (p = task.to \/ (p = task.at /\ there \notin Content))
    \/ task.kind = "away" /\ p = task.at /\ there = Gone
    \/ task.kind = "linkEnd" /\ p = task.at /\ there = Linked
    \/ task.kind = "removeDir" /\ p \in In(task.at) /\ there \notin Content
    \/ task.kind = "arrive" /\ p \in In(task.at) /\ there # Gone
    \/ task.kind = "walk" /\ p \in In(task.at) \ settled /\ there # Gone
    \/ /\ task.kind = "behind" /\ p \in In(task.at) \ settled
       /\ p \in task.paths \/ there \notin Content
    \/ /\ task.kind \in {"renameDir", "listDir"}
       /\ \/ p \in In(task.at) /\ there = Gone
          \/ p \in In(task.to) /\ there # Gone
    \/ task.kind = "listGone" /\ p \in In(task.at) /\ there = Gone
    \/ task.kind = "sweepSource" /\ p \in task.paths /\ there = Gone

\* The paths whose row the task moves away, whatever is there by then.
Takes(task) ==
    IF task.kind \in {"rename", "move"} THEN {task.at} \cap Path
    ELSE IF task.kind \in {"renameDir", "listDir"} THEN In(task.at) ELSE {}

\* The step the worker is at makes the row of p right: a read of one file, a rename, the others.
FileOf(w) == IF Head(w.todo).kind = "move" THEN Head(w.todo).to ELSE Head(w.todo).at
ReadWork(w, p, there) ==
    /\ p = FileOf(w)
    /\ \/ /\ w.step = "read"
          /\ \/ there \in Content \/ w.mode \in {"write", "awaiting"}
             \/ w.mode = "removal" /\ there = Gone
             \/ w.mode \in {"missing", "again"} /\ there = Linked
       \/ /\ w.step = "parse"
          /\ \/ there \in Content /\ there = w.seen
             \/ w.mode \in {"write", "removal"} /\ there = Gone
             \/ w.mode # "removal" /\ there = Linked
       \/ /\ w.step = "relook"
          /\ there = Gone \/ (w.mode = "write" /\ w.result = "refused" /\ there = Linked)
MoveWork(w, p, there) ==
    LET task == Head(w.todo) IN
    \/ w.step = "dropBoth" /\ p \in {task.at, task.to} /\ there \notin Content
    \/ w.step \in {"stat", "renameRead"} /\ (p = task.to \/ (p = task.at /\ there \notin Content))
    \/ w.step = "dropMoved" /\ p = task.to /\ there \notin Content
    \/ w.step = "reparse" /\ p = task.to
    \/ w.step = "relookMove" /\ p = task.to /\ (w.result # "none" \/ there \notin Content)
    \/ w.step = "linkCheck" /\ p = task.to /\ there = Linked
Working(w, p, there) ==
    /\ w.todo # <<>>
    /\ \/ /\ w.step \in {"next", "embedder", "locked"}
          /\ Covers(Head(w.todo), p, there, w.settled)
       \/ w.step = "drop" /\ p = FileOf(w) /\ there \notin Content
       \/ w.step = "sweep" /\ p \in In(Head(w.todo).at) /\ there \notin Content
       \/ ReadWork(w, p, there)
       \/ MoveWork(w, p, there)

\* The paths the step at hand drops the row of, whatever is there by now.
AtRisk(w) ==
    IF w.step = "drop" THEN {FileOf(w)}
    ELSE IF w.step \in {"dropBoth", "dropMoved"} THEN {Head(w.todo).to}
    ELSE IF w.step = "sweep" THEN In(Head(w.todo).at) ELSE {}

\* An event the worker has not taken yet, and any of those or a task after the n-th, covers p.
Waiting(p) ==
    \/ p \in pending
    \/ \E k \in DOMAIN channel : \E i \in DOMAIN channel[k] :
          Covers(channel[k][i], p, disk[p], {})
CoveredAfter(todo, n, p, there, settled) ==
    \E i \in DOMAIN todo : i > n /\ Covers(todo[i], p, there, settled)
Later(n, p) == Waiting(p) \/ CoveredAfter(work.todo, n, p, disk[p], work.settled)
Follows(p) == Later(1, p)

\* No path is forgotten.
Outstanding ==
    \A p \in Path \ folded : InStep(p) \/ Working(work, p, disk[p]) \/ Follows(p)

\* A file whose row is dropped from under it has an event that covers it, one whose row is moved
\* away an event or a task.
DropsCovered == \A p \in AtRisk(work) : p \in Path /\ disk[p] \in Content => Waiting(p)
TodoCovered ==
    \A i \in DOMAIN work.todo : \A p \in Takes(work.todo[i]) :
        disk[p] \in Content => Later(i, p)
ChannelCovered ==
    \A k \in DOMAIN channel : \A i \in DOMAIN channel[k] : \A p \in Takes(channel[k][i]) :
        disk[p] \in Content =>
            \/ p \in pending
            \/ \E l \in DOMAIN channel : \E j \in DOMAIN channel[l] :
                  /\ l > k \/ (l = k /\ j > i)
                  /\ Covers(channel[l][j], p, disk[p], {})

\* The tasks there are: what the channel holds, and what the worker makes of it.
Proper(task) ==
    /\ task.kind \in {"rename", "move", "renameDir", "listDir"} => task.at # task.to
    /\ task.kind = "sweepSource" => task.paths \subseteq In(task.at)
Events == {"write", "removed", "rename", "arrive", "removeDir", "renameDir"}
EventsInv ==
    \A k \in DOMAIN channel : \A i \in DOMAIN channel[k] :
        channel[k][i].kind \in Events /\ Proper(channel[k][i])
Tidy(todo, settled) ==
    /\ \A i \in DOMAIN todo : Proper(todo[i])
    /\ \A i, j \in DOMAIN todo :
          i < j /\ todo[j].kind \in {"walk", "behind"} => Takes(todo[i]) \cap In(todo[j].at) = {}
    /\ \A i \in DOMAIN todo : todo[i].kind = "listDir" => i = 1 /\ settled = {}

\* The row at the destination was marked, and has not been read since.
AwaitsRead ==
    \/ work.step \in {"read", "parse"} /\ work.mode = "awaiting"
    \/ work.step = "relookMove" /\ work.result = "awaiting"

\* Where a run without a fault is in its task.
ModesInv ==
    /\ work.step \notin {"mark", "settleNew", "settleOld"}
    /\ work.step \in {"read", "parse"} =>
          work.mode \in (IF Now.kind = "move" THEN {"missing", "again", "awaiting"}
                         ELSE {"write", "removal"})
    /\ work.step = "relook" => Now.kind # "move" /\ work.mode \in {"write", "removal"}
    /\ work.step \in {"stat", "renameRead"} => HasRow(At)
    /\ work.step = "stat" => ~HasRow(To)
    /\ AwaitsRead /\ HasRow(To) => row[To].hash = Awaiting

HandledInv ==
    /\ ~unmarked
    /\ Outstanding /\ DropsCovered /\ TodoCovered /\ ChannelCovered
    /\ EventsInv /\ Tidy(work.todo, work.settled) /\ ModesInv

ConvergeInv == KeptInv /\ (missed \/ HandledInv)

(***************************************************************************)
(* Tasks and sequences of them                                             *)
(***************************************************************************)

\* The files a walk has settled need not be covered by it: fewer settled, more covered.
LEMMA CoversLess ==
    ASSUME NEW task, NEW p, NEW there, NEW settled, NEW less \in SUBSET settled,
           Covers(task, p, there, settled)
    PROVE  Covers(task, p, there, less)
BY DEF Covers

\* What the worker does at each of its steps.
LEMMA WorkingAt ==
    ASSUME NEW w, w.todo # <<>>, NEW p, NEW there
    PROVE  /\ w.step \in {"next", "embedder", "locked"} =>
                  (Working(w, p, there) <=> Covers(Head(w.todo), p, there, w.settled))
           /\ w.step = "drop" => (Working(w, p, there) <=> p = FileOf(w) /\ there \notin Content)
           /\ w.step = "sweep" =>
                  (Working(w, p, there) <=> p \in In(Head(w.todo).at) /\ there \notin Content)
           /\ w.step \in {"read", "parse", "relook"} =>
                  (Working(w, p, there) <=> ReadWork(w, p, there))
           /\ w.step \in MoveSteps =>
                  (Working(w, p, there) <=> MoveWork(w, p, there))
BY DEF Working, ReadWork, MoveWork, MoveSteps

\* The tasks left when the first of todo is done and leaves some to do.
Replaces(rest, tasks, todo) ==
    /\ \A i \in DOMAIN tasks : i \in DOMAIN rest /\ i <= Len(tasks) /\ rest[i] = tasks[i]
    /\ \A i \in DOMAIN todo : i > 1 =>
          i - 1 + Len(tasks) \in DOMAIN rest /\ rest[i - 1 + Len(tasks)] = todo[i]
    /\ \A j \in DOMAIN rest :
          \/ j \in DOMAIN tasks /\ rest[j] = tasks[j]
          \/ /\ j > Len(tasks) /\ j - Len(tasks) + 1 \in DOMAIN todo
             /\ j - Len(tasks) + 1 > 1 /\ rest[j] = todo[j - Len(tasks) + 1]

\* The tasks that take the place of the one at the head, and where the others go.
LEMMA Replaced ==
    ASSUME NEW tasks \in Seq(TaskType), NEW todo \in Seq(TaskType), todo # <<>>,
           NEW rest, rest = tasks \o Tail(todo)
    PROVE  rest \in Seq(TaskType) /\ Replaces(rest, tasks, todo)
<1>1. /\ Tail(todo) \in Seq(TaskType) /\ Len(Tail(todo)) = Len(todo) - 1
      /\ \A i \in 1..Len(Tail(todo)) : Tail(todo)[i] = todo[i + 1]
      /\ Len(todo) \in Nat /\ Len(tasks) \in Nat
  OBVIOUS
<1>2. /\ rest \in Seq(TaskType) /\ Len(rest) = Len(tasks) + Len(todo) - 1
      /\ DOMAIN rest = 1..Len(rest) /\ DOMAIN tasks = 1..Len(tasks) /\ DOMAIN todo = 1..Len(todo)
      /\ \A i \in 1..Len(rest) :
            rest[i] = IF i <= Len(tasks) THEN tasks[i] ELSE Tail(todo)[i - Len(tasks)]
  BY <1>1
<1>3. \A i \in DOMAIN tasks : i \in DOMAIN rest /\ i <= Len(tasks) /\ rest[i] = tasks[i]
  BY <1>1, <1>2
<1>4. ASSUME NEW i \in DOMAIN todo, i > 1
      PROVE  i - 1 + Len(tasks) \in DOMAIN rest /\ rest[i - 1 + Len(tasks)] = todo[i]
  BY <1>1, <1>2, <1>4
<1>5. ASSUME NEW j \in DOMAIN rest
      PROVE  \/ j \in DOMAIN tasks /\ rest[j] = tasks[j]
             \/ /\ j > Len(tasks) /\ j - Len(tasks) + 1 \in DOMAIN todo
                /\ j - Len(tasks) + 1 > 1 /\ rest[j] = todo[j - Len(tasks) + 1]
  BY <1>1, <1>2
<1>6. rest \in Seq(TaskType)
  BY <1>2
<1> QED
  BY <1>3, <1>4, <1>5, <1>6 DEF Replaces

\* A task may be replaced by tasks that are tidy and take no more rows than it did.
LEMMA TidyReplaced ==
    ASSUME NEW tasks \in Seq(TaskType), NEW todo \in Seq(TaskType), todo # <<>>,
           NEW rest \in Seq(TaskType), Replaces(rest, tasks, todo),
           NEW settled, NEW less \in SUBSET settled, Tidy(todo, settled), Tidy(tasks, less),
           \A i \in DOMAIN tasks : Takes(tasks[i]) \subseteq Takes(Head(todo))
    PROVE  Tidy(rest, less)
<1>1. \A j \in DOMAIN rest : Proper(rest[j])
  BY DEF Replaces, Tidy
<1>2. ASSUME NEW i \in DOMAIN rest, NEW j \in DOMAIN rest, i < j,
             rest[j].kind \in {"walk", "behind"}
      PROVE  Takes(rest[i]) \cap In(rest[j].at) = {}
  <2>1. 1 \in DOMAIN todo /\ Head(todo) = todo[1] /\ Len(tasks) \in Nat
    OBVIOUS
  <2>2. CASE j \in DOMAIN tasks
    <3>1. i \in DOMAIN tasks /\ rest[i] = tasks[i] /\ rest[j] = tasks[j]
      BY <1>2, <2>2 DEF Replaces
    <3> QED
      BY <1>2, <2>2, <3>1 DEF Tidy
  <2>3. CASE j \notin DOMAIN tasks
    <3>1. PICK l \in DOMAIN todo : l > 1 /\ l = j - Len(tasks) + 1 /\ rest[j] = todo[l]
      BY <2>3 DEF Replaces
    <3>2. CASE i \in DOMAIN tasks
      <4>1. rest[i] = tasks[i] /\ Takes(tasks[i]) \subseteq Takes(todo[1])
        BY <2>1, <3>2 DEF Replaces
      <4>2. Takes(todo[1]) \cap In(todo[l].at) = {}
        BY <1>2, <2>1, <3>1 DEF Tidy
      <4> QED
        BY <3>1, <4>1, <4>2
    <3>3. CASE i \notin DOMAIN tasks
      <4>1. PICK k \in DOMAIN todo : k = i - Len(tasks) + 1 /\ rest[i] = todo[k]
        BY <3>3 DEF Replaces
      <4>2. k < l
        BY <1>2, <2>1, <3>1, <4>1
      <4> QED
        BY <1>2, <3>1, <4>1, <4>2 DEF Tidy
    <3> QED
      BY <3>2, <3>3
  <2> QED
    BY <2>2, <2>3
<1>3. ASSUME NEW j \in DOMAIN rest, rest[j].kind = "listDir" PROVE j = 1 /\ less = {}
  <2>1. CASE j \in DOMAIN tasks /\ rest[j] = tasks[j]
    BY <1>3, <2>1 DEF Tidy
  <2>2. CASE j \notin DOMAIN tasks
    <3>1. PICK l \in DOMAIN todo : l > 1 /\ l = j - Len(tasks) + 1 /\ rest[j] = todo[l]
      BY <2>2 DEF Replaces
    <3> QED
      BY <1>3, <3>1 DEF Tidy
  <2> QED
    BY <2>1, <2>2 DEF Replaces
<1> QED
  BY <1>1, <1>2, <1>3 DEF Tidy

(***************************************************************************)
(* What a step of the worker has to show.                                  *)
(***************************************************************************)

\* The disk and what is reported of it are not the worker's.
Still == UNCHANGED <<disk, pending, channel, folded, unmarked>>

\* A step of the worker on its task leaves what waits in front of it as it is.
LEMMA StillWaiting ==
    ASSUME Still
    PROVE  /\ EventsInv => EventsInv'
           /\ ChannelCovered => ChannelCovered'
           /\ ~unmarked => ~unmarked'
           /\ \A p : Waiting(p)' <=> Waiting(p)
BY DEF Still, EventsInv, ChannelCovered, Waiting

\* A task that goes on.
LEMMA GoesOnHandled ==
    ASSUME HandledInv, Still, work'.todo = work.todo, work'.settled = work.settled,
           \A p \in Path \ folded : InStep(p) \/ Working(work, p, disk[p]) =>
               InStep(p)' \/ Working(work', p, disk[p]) \/ Follows(p),
           \A p \in AtRisk(work') : p \in Path => disk[p] \notin Content,
           ModesInv'
    PROVE  HandledInv'
<1>1. /\ \A n, p : Later(n, p)' <=> Later(n, p)
      /\ \A p : Follows(p)' <=> Follows(p)
  BY StillWaiting DEF Follows, Later, Still
<1>2. Outstanding'
  BY <1>1 DEF HandledInv, Outstanding, Still
<1>3. DropsCovered' /\ TodoCovered'
  BY <1>1, StillWaiting DEF HandledInv, DropsCovered, TodoCovered, Still
<1>4. Tidy(work.todo, work.settled)'
  BY DEF HandledInv
<1> QED
  BY <1>2, <1>3, <1>4, StillWaiting DEF HandledInv

\* A renamed file whose row is right needs no second read.
LEMMA SettledHandled ==
    ASSUME HandledInv, Still, work.todo # <<>>, work.todo \in Seq(TaskType), Now.kind = "move",
           DOMAIN work = DOMAIN Idle, SettledAt(To),
           \A p \in Path \ folded : p = To => InStep(p)' \/ Waiting(p),
           \A p \in Path \ folded : p # To => (InStep(p) \/ Working(work, p, disk[p]) =>
               InStep(p)' \/ Follows(p)),
           ModesInv'
    PROVE  HandledInv'
<1>1. /\ work'.todo = work.todo /\ work'.step = "linkCheck"
      /\ work'.settled \subseteq work.settled \cup {To}
  BY DEF SettledAt, Idle
<1>2. \A task, p : Covers(task, p, disk[p], work.settled) =>
          \/ Covers(task, p, disk[p], work'.settled)
          \/ p = To /\ task.kind \in {"walk", "behind"} /\ p \in In(task.at)
  BY <1>1 DEF Covers
<1>3. ASSUME NEW n, NEW p, p # To, Later(n, p) PROVE Later(n, p)'
  <2>1. CASE Waiting(p)
    BY <2>1, StillWaiting DEF Later
  <2>2. ASSUME NEW i \in DOMAIN work.todo, i > n, Covers(work.todo[i], p, disk[p], work.settled)
        PROVE  Later(n, p)'
    <3>1. Covers(work.todo[i], p, disk[p], work'.settled)
      BY <1>2, <1>3, <2>2
    <3> QED
      BY <1>1, <2>2, <3>1 DEF Later, CoveredAfter, Still
  <2> QED
    BY <1>3, <2>1, <2>2 DEF Later, CoveredAfter
<1>4. Outstanding'
  <2>1. ASSUME NEW p, p # To, Follows(p) PROVE Follows(p)'
    BY <1>3, <2>1 DEF Follows
  <2>2. ASSUME NEW p, Waiting(p) PROVE Follows(p)'
    BY <2>2, StillWaiting DEF Follows, Later
  <2> QED
    BY <2>1, <2>2 DEF HandledInv, Outstanding, Still
<1>5. TodoCovered'
  <2> SUFFICES ASSUME NEW i \in DOMAIN work.todo, NEW p \in Takes(work.todo[i]), disk[p] \in Content
               PROVE  Later(i, p)'
    BY <1>1 DEF TodoCovered, Still
  <2>1. Later(i, p)
    BY DEF HandledInv, TodoCovered
  <2>2. CASE Waiting(p)
    BY <2>2, StillWaiting DEF Later
  <2>3. ASSUME NEW j \in DOMAIN work.todo, j > i,
               Covers(work.todo[j], p, disk[p], work.settled)
        PROVE  Later(i, p)'
    <3>1. ~(work.todo[j].kind \in {"walk", "behind"} /\ p \in In(work.todo[j].at))
      BY <2>3 DEF HandledInv, Tidy
    <3>2. Covers(work.todo[j], p, disk[p], work'.settled)
      BY <1>2, <2>3, <3>1
    <3> QED
      BY <1>1, <2>3, <3>2 DEF Later, CoveredAfter, Still
  <2> QED
    BY <2>1, <2>2, <2>3 DEF Later, CoveredAfter
<1>6. DropsCovered'
  BY <1>1 DEF DropsCovered, AtRisk
<1>7. Tidy(work.todo, work.settled)'
  <2>1. \A i \in DOMAIN work.todo : work.todo[i].kind # "listDir"
    BY DEF HandledInv, Tidy, Now
  <2> QED
    BY <1>1, <2>1 DEF HandledInv, Tidy
<1> QED
  BY <1>4, <1>5, <1>6, <1>7, StillWaiting DEF HandledInv

\* A task that is done, with what it leaves to do.
LEMMA RestHandled ==
    ASSUME HandledInv, Still, NEW tasks \in Seq(TaskType),
           work.todo # <<>>, work.todo \in Seq(TaskType), work'.todo \in Seq(TaskType),
           Replaces(work'.todo, tasks, work.todo), work'.step = "next",
           work'.settled \subseteq work.settled,
           Tidy(tasks, work'.settled),
           \A i \in DOMAIN tasks : Takes(tasks[i]) \subseteq Takes(Now),
           \A p \in Path \ folded : InStep(p) \/ Working(work, p, disk[p]) =>
               \/ InStep(p)' \/ Follows(p)
               \/ \E i \in DOMAIN tasks : Covers(tasks[i], p, disk[p], work'.settled)
    PROVE  HandledInv'
<1> DEFINE rest == work'.todo
<1>1. /\ Len(tasks) \in Nat /\ DOMAIN tasks = 1..Len(tasks)
      /\ DOMAIN rest \subseteq Nat \ {0} /\ (DOMAIN rest # {} => rest # <<>> /\ Head(rest) = rest[1])
  OBVIOUS
<1>2. 1 \in DOMAIN work.todo /\ work.todo[1] = Now /\ DOMAIN work.todo \subseteq Nat \ {0}
  BY DEF Now
<1>3. /\ \A i \in DOMAIN tasks : i \in DOMAIN rest /\ i <= Len(tasks) /\ rest[i] = tasks[i]
      /\ \A i \in DOMAIN work.todo : i > 1 =>
            i - 1 + Len(tasks) \in DOMAIN rest /\ rest[i - 1 + Len(tasks)] = work.todo[i]
      /\ \A j \in DOMAIN rest :
            \/ j \in DOMAIN tasks /\ rest[j] = tasks[j]
            \/ /\ j > Len(tasks) /\ j - Len(tasks) + 1 \in DOMAIN work.todo
               /\ j - Len(tasks) + 1 > 1 /\ rest[j] = work.todo[j - Len(tasks) + 1]
  BY DEF Replaces
<1>4. /\ HandledInv /\ work'.step = "next" /\ work'.settled \subseteq work.settled
      /\ \A p : Waiting(p)' <=> Waiting(p)
      /\ disk' = disk /\ folded' = folded
  BY StillWaiting DEF Still
<1> DEFINE After(n, p) == CoveredAfter(rest, n, p, disk[p], work'.settled)
<1> HIDE DEF rest, After
<1>5. ASSUME NEW n \in DOMAIN work.todo, NEW m, m = n - 1 + Len(tasks), NEW p,
             CoveredAfter(work.todo, n, p, disk[p], work.settled)
      PROVE  After(m, p)
  <2>1. PICK i \in DOMAIN work.todo : i > n /\ Covers(work.todo[i], p, disk[p], work.settled)
    BY <1>5 DEF CoveredAfter
  <2>2. /\ i - 1 + Len(tasks) \in DOMAIN rest /\ i - 1 + Len(tasks) > m
        /\ rest[i - 1 + Len(tasks)] = work.todo[i]
    BY <1>1, <1>2, <1>3, <1>5, <2>1
  <2>3. Covers(work.todo[i], p, disk[p], work'.settled)
    BY <1>4, <2>1, CoversLess
  <2> QED
    BY <2>2, <2>3 DEF CoveredAfter, After
<1>6. ASSUME NEW p, Follows(p) PROVE Waiting(p) \/ After(Len(tasks), p)
  <2>1. Len(tasks) = 1 - 1 + Len(tasks)
    BY <1>1
  <2> QED
    BY <1>2, <1>5, <1>6, <2>1 DEF Follows, Later
<1>7. /\ \A n, p : Later(n, p)' <=> Waiting(p) \/ After(n, p)
      /\ \A p : Follows(p)' <=> Waiting(p) \/ After(1, p)
  BY <1>4 DEF Follows, Later, After, rest
<1>8. ASSUME NEW p, NEW j \in DOMAIN rest, Covers(rest[j], p, disk[p], work'.settled)
      PROVE  Working(work', p, disk[p]) \/ Follows(p)'
  <2>1. j \in Nat /\ j >= 1 /\ rest # <<>> /\ Head(rest) = rest[1]
    BY <1>1
  <2>2. CASE j = 1
    BY <1>4, <1>8, <2>1, <2>2, WorkingAt DEF rest
  <2>3. CASE j > 1
    BY <1>7, <1>8, <2>3 DEF CoveredAfter, After
  <2> QED
    BY <2>1, <2>2, <2>3
<1>9. ASSUME NEW p \in Path \ folded PROVE InStep(p)' \/ Working(work', p, disk[p]) \/ Follows(p)'
  <2>1. CASE Follows(p)
    <3>1. Waiting(p) \/ \E j \in DOMAIN rest : Covers(rest[j], p, disk[p], work'.settled)
      BY <1>6, <2>1 DEF CoveredAfter, After
    <3> QED
      BY <1>7, <1>8, <3>1
  <2>2. ASSUME NEW i \in DOMAIN tasks, Covers(tasks[i], p, disk[p], work'.settled)
        PROVE  Working(work', p, disk[p]) \/ Follows(p)'
    BY <1>3, <1>8, <2>2
  <2>3. InStep(p) \/ Working(work, p, disk[p]) \/ Follows(p)
    BY <1>4 DEF HandledInv, Outstanding
  <2> QED
    BY <2>1, <2>2, <2>3
<1>10. ASSUME NEW j \in DOMAIN rest, NEW p \in Takes(rest[j]), disk[p] \in Content
       PROVE  Waiting(p) \/ After(j, p)
  <2>1. CASE j \in DOMAIN tasks /\ rest[j] = tasks[j]
    <3>1. Follows(p)
      BY <1>2, <1>4, <1>10, <2>1 DEF HandledInv, TodoCovered, Follows
    <3>2. Waiting(p) \/ After(Len(tasks), p)
      BY <1>6, <3>1
    <3>3. \A i \in DOMAIN rest : i > Len(tasks) => i > j
      BY <1>1, <2>1
    <3> QED
      BY <3>2, <3>3 DEF CoveredAfter, After
  <2>2. CASE ~(j \in DOMAIN tasks /\ rest[j] = tasks[j])
    <3>1. PICK i \in DOMAIN work.todo : i = j - Len(tasks) + 1 /\ rest[j] = work.todo[i]
      BY <1>3, <2>2
    <3>2. Later(i, p)
      BY <1>4, <1>10, <3>1 DEF HandledInv, TodoCovered
    <3>3. j = i - 1 + Len(tasks)
      BY <1>1, <3>1
    <3> QED
      BY <1>5, <3>2, <3>3 DEF Later
  <2> QED
    BY <2>1, <2>2
<1>11. Outstanding' /\ TodoCovered' /\ DropsCovered'
  BY <1>4, <1>7, <1>9, <1>10 DEF Outstanding, TodoCovered, DropsCovered, AtRisk, rest
<1>12. Tidy(work.todo, work.settled)'
  <2>1. /\ Tidy(work.todo, work.settled) /\ work'.settled \in SUBSET work.settled
        /\ \A i \in DOMAIN tasks : Takes(tasks[i]) \subseteq Takes(Head(work.todo))
    BY <1>4 DEF HandledInv, Now
  <2> QED
    BY <2>1, TidyReplaced
<1>13. ModesInv'
  BY <1>4 DEF ModesInv, AwaitsRead
<1> QED
  BY <1>4, <1>11, <1>12, <1>13, StillWaiting DEF HandledInv

\* The ends of a task: with any tasks to do, none, one, some of them, one for each path.
LEMMA EndsHandled ==
    ASSUME HandledInv, Still, work.todo # <<>>, work.todo \in Seq(TaskType),
           NEW tasks \in Seq(TaskType),
           work' = Then(tasks) \/ work' = [Then(tasks) EXCEPT !.settled = {}],
           Tidy(tasks, work'.settled),
           \A i \in DOMAIN tasks : Takes(tasks[i]) \subseteq Takes(Now),
           \A p \in Path \ folded : InStep(p) \/ Working(work, p, disk[p]) =>
               \/ InStep(p)' \/ Follows(p)
               \/ \E i \in DOMAIN tasks : Covers(tasks[i], p, disk[p], work'.settled)
    PROVE  HandledInv'
<1>1. /\ work'.todo = tasks \o Tail(work.todo) /\ work'.step = "next"
      /\ work'.settled \subseteq work.settled
  BY DEF Then, Idle
<1>2. work'.todo \in Seq(TaskType) /\ Replaces(work'.todo, tasks, work.todo)
  BY <1>1, Replaced
<1> QED
  BY <1>1, <1>2, RestHandled

\* The same for a task that leaves nothing to do, or one task.
LEMMA EndsNone ==
    ASSUME HandledInv, Still, work.todo # <<>>, work.todo \in Seq(TaskType), work' = Then(<<>>),
           \A p \in Path \ folded : InStep(p) \/ Working(work, p, disk[p]) =>
               InStep(p)' \/ Follows(p)
    PROVE  HandledInv'
<1>1. <<>> \in Seq(TaskType) /\ DOMAIN <<>> = {}
  OBVIOUS
<1>2. Tidy(<<>>, work'.settled)
  BY <1>1 DEF Tidy
<1> QED
  BY <1>1, <1>2, EndsHandled

LEMMA EndsOne ==
    ASSUME HandledInv, Still, work.todo # <<>>, work.todo \in Seq(TaskType), NEW task \in TaskType,
           work' = Then(<<task>>) \/ work' = [Then(<<task>>) EXCEPT !.settled = {}],
           Proper(task), task.kind = "listDir" => work'.settled = {},
           Takes(task) \subseteq Takes(Now),
           \A p \in Path \ folded : InStep(p) \/ Working(work, p, disk[p]) =>
               InStep(p)' \/ Follows(p) \/ Covers(task, p, disk[p], work'.settled)
    PROVE  HandledInv'
<1> DEFINE tasks == <<task>>
<1>1. tasks \in Seq(TaskType) /\ DOMAIN tasks = {1} /\ tasks[1] = task
  OBVIOUS
<1>2. work' = Then(tasks) \/ work' = [Then(tasks) EXCEPT !.settled = {}]
  OBVIOUS
<1> HIDE DEF tasks
<1>3. Tidy(tasks, work'.settled)
  BY <1>1 DEF Tidy
<1> QED
  BY <1>1, <1>2, <1>3, EndsHandled

\* The elements of sequences that are joined, and of short ones.
LEMMA RangeJoined ==
    ASSUME NEW S, NEW first \in Seq(S), NEW second \in Seq(S)
    PROVE  /\ first \o second \in Seq(S)
           /\ Range(first \o second) = Range(first) \cup Range(second)
<1> DEFINE both == first \o second
<1>1. /\ both \in Seq(S) /\ Len(both) = Len(first) + Len(second)
      /\ Len(first) \in Nat /\ Len(second) \in Nat
      /\ DOMAIN both = 1..Len(both) /\ DOMAIN first = 1..Len(first) /\ DOMAIN second = 1..Len(second)
      /\ \A i \in DOMAIN first : both[i] = first[i]
      /\ \A i \in DOMAIN second : both[i + Len(first)] = second[i]
      /\ \A i \in DOMAIN both : both[i] = IF i <= Len(first) THEN first[i] ELSE second[i - Len(first)]
  OBVIOUS
<1> HIDE DEF both
<1>2. \A i \in DOMAIN first : i \in DOMAIN both
  BY <1>1
<1>3. \A i \in DOMAIN second : i + Len(first) \in DOMAIN both
  BY <1>1
<1>4. \A i \in DOMAIN both : i \in DOMAIN first \/ i - Len(first) \in DOMAIN second
  BY <1>1
<1>5. \A i \in DOMAIN both : both[i] \in Range(first) \cup Range(second)
  <2>1. \A i \in DOMAIN both : i <= Len(first) => i \in DOMAIN first
    BY <1>1
  <2>2. \A i \in DOMAIN both : ~(i <= Len(first)) => i - Len(first) \in DOMAIN second
    BY <1>1
  <2> QED
    BY <1>1, <2>1, <2>2 DEF Range
<1>6. \A x \in Range(first) : x \in Range(both)
  BY <1>1, <1>2 DEF Range
<1>7. \A x \in Range(second) : x \in Range(both)
  BY <1>1, <1>3 DEF Range
<1>8. Range(both) \subseteq Range(first) \cup Range(second)
  BY <1>5 DEF Range
<1> QED
  BY <1>1, <1>6, <1>7, <1>8 DEF both

LEMMA RangeOne ==
    ASSUME NEW S, NEW x \in S
    PROVE  <<x>> \in Seq(S) /\ Range(<<x>>) = {x}
<1>1. <<x>> \in Seq(S) /\ DOMAIN <<x>> = {1} /\ <<x>>[1] = x
  OBVIOUS
<1> QED
  BY <1>1, Zenon DEF Range

LEMMA RangePair ==
    ASSUME NEW S, NEW first \in S, NEW second \in S
    PROVE  <<first>> \o <<second>> \in Seq(S) /\ Range(<<first>> \o <<second>>) = {first, second}
<1> DEFINE one == <<first>>
           two == <<second>>
<1>1. one \in Seq(S) /\ Range(one) = {first} /\ two \in Seq(S) /\ Range(two) = {second}
  BY RangeOne
<1> HIDE DEF one, two
<1>2. one \o two \in Seq(S) /\ Range(one \o two) = {first, second}
  BY <1>1, RangeJoined
<1> QED
  BY <1>2 DEF one, two

\* The same for several tasks, none of which looks into a directory a row is taken from.
LEMMA EndsMany ==
    ASSUME HandledInv, Still, work.todo # <<>>, work.todo \in Seq(TaskType),
           NEW tasks \in Seq(TaskType), work' = Then(tasks),
           \A task \in Range(tasks) :
               /\ Proper(task) /\ Takes(task) \subseteq Takes(Now)
               /\ task.kind \notin {"behind", "listDir"}
               /\ task.kind = "walk" => Takes(Now) \cap In(task.at) = {},
           \A p \in Path \ folded : InStep(p) \/ Working(work, p, disk[p]) =>
               \/ InStep(p)' \/ Follows(p)
               \/ \E task \in Range(tasks) : Covers(task, p, disk[p], work'.settled)
    PROVE  HandledInv'
<1>1. \A i \in DOMAIN tasks : tasks[i] \in Range(tasks)
  BY DEF Range
<1>2. Tidy(tasks, work'.settled) /\ \A i \in DOMAIN tasks : Takes(tasks[i]) \subseteq Takes(Now)
  BY <1>1 DEF Tidy
<1>3. ASSUME NEW p \in Path \ folded, InStep(p) \/ Working(work, p, disk[p])
      PROVE  \/ InStep(p)' \/ Follows(p)
             \/ \E i \in DOMAIN tasks : Covers(tasks[i], p, disk[p], work'.settled)
  BY <1>3 DEF Range
<1> QED
  BY <1>2, <1>3, EndsHandled

\* Tasks that take no row and look into no directory.
Plain == {"removed", "reindex", "away", "linkEnd", "after", "listGone"}

\* ForEach makes one such task for each of the paths.
LEMMA PlainTakesNone ==
    ASSUME NEW task, task.kind \in Plain
    PROVE  Proper(task) /\ Takes(task) = {}
BY DEF Proper, Takes, Plain

LEMMA ForEachCovers ==
    ASSUME NEW kind \in Plain, NEW paths \in SUBSET Path
    PROVE  /\ ForEach(kind, paths) \in Seq(TaskType)
           /\ \A task \in Range(ForEach(kind, paths)) : task.kind = kind
           /\ \A p \in paths : Task(kind, p, Outside) \in Range(ForEach(kind, paths))
<1>1. IsFiniteSet(paths)
  BY TreeAssumption, FS_Subset
<1>2. PICK f : f \in Bijection(1..Cardinality(paths), paths)
  BY <1>1, FS_CardinalityType DEF ExistsBijection
<1> DEFINE order == SetToSeq(paths)
<1>3. order \in [1..Cardinality(paths) -> paths] /\ Cardinality(paths) \in Nat /\ IsInjective(order)
  <2>1. f \in [1..Cardinality(paths) -> paths] /\ IsInjective(f)
    BY <1>2 DEF Bijection, Injection, Surjection, IsInjective
  <2> QED
    BY <1>1, <2>1, FS_CardinalityType DEF SetToSeq
<1>4. order \in Surjection(1..Cardinality(paths), paths)
  <2>1. order \in Injection(1..Cardinality(paths), paths)
    BY <1>3 DEF Injection, IsInjective
  <2>2. Cardinality(1..Cardinality(paths)) = Cardinality(paths)
    BY <1>3, FS_Interval
  <2> QED
    BY <1>1, <2>1, <2>2, FS_Injection
<1>5. /\ Len(order) = Cardinality(paths) /\ DOMAIN order = 1..Len(order)
      /\ \A i \in 1..Len(order) : order[i] \in paths
      /\ \A p \in paths : \E i \in 1..Len(order) : order[i] = p
  BY <1>3, <1>4 DEF Surjection
<1>6. ForEach(kind, paths) = [i \in 1..Len(order) |-> Task(kind, order[i], Outside)]
  BY DEF ForEach
<1> HIDE DEF order
<1>7. ForEach(kind, paths) \in Seq(TaskType)
  BY ForEachTyped DEF Plain, Kind, NeedsDatabase, NeedsBoth
<1>8. \A i \in 1..Len(order) : Task(kind, order[i], Outside).kind = kind
  BY DEF Task
<1> QED
  BY <1>5, <1>6, <1>7, <1>8 DEF Range

LEMMA EndsEach ==
    ASSUME HandledInv, Still, work.todo # <<>>, work.todo \in Seq(TaskType),
           NEW kind \in Plain, NEW paths \in SUBSET Path, work' = Then(ForEach(kind, paths)),
           \A p \in Path \ folded : InStep(p) \/ Working(work, p, disk[p]) =>
               \/ InStep(p)' \/ Follows(p)
               \/ p \in paths /\ Covers(Task(kind, p, Outside), p, disk[p], work'.settled)
    PROVE  HandledInv'
<1> DEFINE tasks == ForEach(kind, paths)
<1>1. /\ tasks \in Seq(TaskType) /\ \A task \in Range(tasks) : task.kind \in Plain
      /\ \A p \in paths : Task(kind, p, Outside) \in Range(tasks)
  BY ForEachCovers
<1>2. work' = Then(tasks)
  OBVIOUS
<1> HIDE DEF tasks
<1>3. \A task \in Range(tasks) :
          Proper(task) /\ Takes(task) = {} /\ task.kind \notin {"behind", "listDir", "walk"}
  BY <1>1, PlainTakesNone DEF Plain
<1> QED
  BY <1>1, <1>2, <1>3, EndsMany

\* A row that is not touched stays as right as it was.
LEMMA SameInStep ==
    ASSUME Still, NEW p, row'[p] = row[p]
    PROVE  InStep(p)' <=> InStep(p)
BY DEF Still, InStep, Parsed, RowOf

(***************************************************************************)
(* Events, before any lock                                                 *)
(***************************************************************************)

\* The gate a written path passes, the two ends of a rename, a link, a directory, a walk.
LEMMA DispatchHandled == KeptInv /\ HandledInv /\ Dispatch /\ ~missed' => HandledInv'
<1> SUFFICES ASSUME KeptInv, HandledInv, Dispatch, ~missed' PROVE HandledInv'
  OBVIOUS
<1>1. /\ work.todo # <<>> /\ work.step = "next" /\ TypeOK /\ TreeInv
      /\ work.todo \in Seq(TaskType) /\ Now \in TaskType /\ At \in Place /\ To \in Place
  BY TaskTyped
     DEF KeptInv, TextInv, TypeOK, Dispatch, Written, Renamed, LinkEnd, RenamedDir,
         RenamedDirUnknown, Walk, WalkFails, Ready
<1>2. Still /\ row' = row
  BY DEF Dispatch, Outer, Surroundings, tree, Still
<1>3. \A p : InStep(p)' <=> InStep(p)
  BY <1>2, SameInStep
<1>4. \A p : Working(work, p, disk[p]) <=> Covers(Now, p, disk[p], work.settled)
  BY <1>1, WorkingAt DEF Now
<1>5. Proper(Now)
  BY <1>1 DEF HandledInv, Tidy, Now
<1>6. ASSUME NEW task \in TaskType,
             work' = Then(<<task>>) \/ work' = [Then(<<task>>) EXCEPT !.settled = {}],
             Proper(task), task.kind = "listDir" => work'.settled = {},
             Takes(task) \subseteq Takes(Now),
             \A p \in Path : Covers(Now, p, disk[p], work.settled) =>
                                 Covers(task, p, disk[p], work'.settled)
      PROVE  HandledInv'
  BY <1>1, <1>2, <1>3, <1>4, <1>6, EndsOne
<1>7. \A tasks : work' = Then(tasks) \/ work' = [Then(tasks) EXCEPT !.settled = {}] =>
          work'.settled \subseteq work.settled
  BY DEF Then, Idle
<1> USE PlainTask DEF Kind, NeedsDatabase, NeedsBoth, Place
<1>8. CASE Written
  <2> DEFINE task == Task(IF disk[At] = Linked THEN "removed" ELSE "reindex", At, Outside)
  <2>1. task \in TaskType /\ task.kind \in {"removed", "reindex"} /\ task.at = At
    BY <1>1 DEF Task
  <2>2. work' = Then(<<task>>) /\ Now.kind = "write"
    BY <1>8 DEF Written, Ready
  <2> HIDE DEF task
  <2>3. Proper(task) /\ Takes(task) = {}
    BY <2>1 DEF Proper, Takes
  <2>4. \A p \in Path : Covers(Now, p, disk[p], work.settled) =>
            Covers(task, p, disk[p], work'.settled)
    BY <2>1, <2>2 DEF Covers, At
  <2> QED
    BY <1>6, <2>1, <2>2, <2>3, <2>4
<1>9. CASE LinkEnd
  <2>1. Now.kind = "linkEnd"
    BY <1>9 DEF LinkEnd, Ready
  <2>2. CASE disk[At] = Linked
    <3> DEFINE task == Task("removed", At, Outside)
    <3>1. task \in TaskType /\ task.kind = "removed" /\ task.at = At
      BY <1>1 DEF Task
    <3>2. work' = Then(<<task>>)
      BY <1>9, <2>2 DEF LinkEnd
    <3> HIDE DEF task
    <3>3. Proper(task) /\ Takes(task) = {}
      BY <3>1 DEF Proper, Takes
    <3>4. \A p \in Path : Covers(Now, p, disk[p], work.settled) =>
              Covers(task, p, disk[p], work'.settled)
      BY <2>1, <3>1 DEF Covers, At
    <3> QED
      BY <1>6, <3>1, <3>2, <3>3, <3>4
  <2>3. CASE disk[At] # Linked
    <3>1. work' = Then(<<>>)
      BY <1>9, <2>3 DEF LinkEnd
    <3>2. \A p : ~Covers(Now, p, disk[p], work.settled)
      BY <2>1, <2>3 DEF Covers, At
    <3> QED
      BY <1>1, <1>2, <1>3, <1>4, <3>1, <3>2, EndsNone
  <2> QED
    BY <2>2, <2>3
<1>10. CASE RenamedDir
  <2> DEFINE task == Task(IF To \in dirs THEN "listDir" ELSE "listGone", At, To)
  <2>1. /\ task \in TaskType /\ task.kind = (IF To \in dirs THEN "listDir" ELSE "listGone")
        /\ task.at = At /\ task.to = To
    BY <1>1 DEF Task
  <2>2. work' = [Then(<<task>>) EXCEPT !.settled = {}] /\ Now.kind = "renameDir"
    BY <1>10 DEF RenamedDir, Ready
  <2> HIDE DEF task
  <2>3. work'.settled = {}
    BY <2>2 DEF Then, Idle
  <2>4. Proper(task) /\ Takes(task) \subseteq Takes(Now)
    BY <1>5, <2>1, <2>2 DEF Proper, Takes, At, To
  <2>5. \A p \in In(To) : disk[p] # Gone => To \in dirs
    BY <1>1 DEF TreeInv, In
  <2>6. \A p \in Path : Covers(Now, p, disk[p], work.settled) =>
            Covers(task, p, disk[p], work'.settled)
    BY <2>1, <2>2, <2>5 DEF Covers, At, To
  <2> QED
    BY <1>6, <2>1, <2>2, <2>3, <2>4, <2>6
<1>11. CASE Walk
  <2>1. Now.kind = "walk"
    BY <1>11 DEF Walk, Ready
  <2>2. CASE At \in dirs
    <3> DEFINE found == {p \in In(At) : disk[p] \in Content}
               task == TaskOver("behind", At, found)
    <3>1. task \in TaskType /\ task.kind = "behind" /\ task.at = At /\ task.paths = found
      BY <1>1, OverTask DEF In, TaskOver
    <3>2. work' = Then(<<task>>)
      BY <1>11, <2>2 DEF Walk
    <3> HIDE DEF task
    <3>3. Proper(task) /\ Takes(task) = {}
      BY <3>1 DEF Proper, Takes
    <3>4. \A p \in Path : Covers(Now, p, disk[p], work.settled) =>
              Covers(task, p, disk[p], work.settled)
      BY <2>1, <3>1 DEF Covers, At
    <3>5. \A p \in Path : Covers(Now, p, disk[p], work.settled) =>
              Covers(task, p, disk[p], work'.settled)
      BY <1>7, <3>2, <3>4, CoversLess
    <3> QED
      BY <1>6, <3>1, <3>2, <3>3, <3>5
  <2>3. CASE At \notin dirs
    <3>1. work' = Then(<<>>)
      BY <1>11, <2>3 DEF Walk
    <3>2. \A p : ~Covers(Now, p, disk[p], work.settled)
      BY <1>1, <2>1, <2>3 DEF Covers, At, TreeInv, In
    <3> QED
      BY <1>1, <1>2, <1>3, <1>4, <3>1, <3>2, EndsNone
  <2> QED
    BY <2>2, <2>3
<1>12. CASE Renamed
  <2>1. Now.kind = "rename" /\ work' = Then(RenameSteps(At, To))
    BY <1>12 DEF Renamed, Ready
  <2> DEFINE taken == To \in Path /\ disk[To] # Linked
             ended == To \in Path /\ ~taken
  <2>2. \A p \in Path : Covers(Now, p, disk[p], work.settled) => p = To \/ (p = At /\ disk[p] = Gone)
    BY <2>1 DEF Covers, At, To
  <2>3. At # To
    BY <1>5, <2>1 DEF Proper, At, To
  <2>4. ASSUME NEW task \in TaskType, work' = Then(<<task>>), Proper(task), task.kind # "listDir",
               Takes(task) \subseteq Takes(Now),
               \A p \in Path : p = To \/ (p = At /\ disk[p] = Gone) =>
                   Covers(task, p, disk[p], work'.settled)
        PROVE  HandledInv'
    BY <1>6, <2>2, <2>4
  <2>5. CASE At \in Path /\ taken
    <3> DEFINE task == Task("move", At, To)
    <3>1. task \in TaskType /\ task.kind = "move" /\ task.at = At /\ task.to = To
      BY <1>1, <2>5 DEF Task
    <3>2. work' = Then(<<task>>)
      BY <2>1, <2>5 DEF RenameSteps
    <3> HIDE DEF task
    <3>3. Proper(task) /\ Takes(task) \subseteq Takes(Now)
      BY <2>1, <2>3, <3>1 DEF Proper, Takes, At
    <3>4. \A p \in Path : p = To \/ (p = At /\ disk[p] = Gone) =>
              Covers(task, p, disk[p], work'.settled)
      BY <3>1, NamesAssumption DEF Covers
    <3> QED
      BY <2>4, <3>1, <3>2, <3>3, <3>4
  <2>6. CASE At \in Path /\ To \notin Path
    <3> DEFINE task == Task("away", At, Outside)
    <3>1. task \in TaskType /\ task.kind = "away" /\ task.at = At
      BY <1>1 DEF Task
    <3>2. work' = Then(<<task>>)
      <4>1. RenameSteps(At, To) = <<Task("away", At, Outside)>> \o <<>>
        BY <2>6 DEF RenameSteps
      <4>2. <<Task("away", At, Outside)>> \o <<>> = <<task>>
        BY <3>1
      <4> QED
        BY <2>1, <4>1, <4>2
    <3> HIDE DEF task
    <3>3. Proper(task) /\ Takes(task) = {}
      BY <3>1 DEF Proper, Takes
    <3>4. \A p \in Path : p = To \/ (p = At /\ disk[p] = Gone) =>
              Covers(task, p, disk[p], work'.settled)
      BY <2>6, <3>1 DEF Covers
    <3> QED
      BY <2>4, <3>1, <3>2, <3>3, <3>4
  <2>7. CASE At \in Path /\ ended
    <3> DEFINE away == Task("away", At, Outside)
               link == Task("linkEnd", To, Outside)
               tasks == <<away>> \o <<link>>
    <3>1. /\ away \in TaskType /\ away.kind = "away" /\ away.at = At
          /\ link \in TaskType /\ link.kind = "linkEnd" /\ link.at = To
      BY <1>1 DEF Task
    <3>2. work' = Then(tasks)
      <4>1. At \in Path /\ To \in Path /\ disk[To] = Linked
        BY <2>7
      <4>2. RenameSteps(At, To) = tasks
        BY <4>1 DEF RenameSteps
      <4> QED
        BY <2>1, <4>2
    <3> HIDE DEF away, link
    <3>3. tasks \in Seq(TaskType) /\ Range(tasks) = {away, link}
      BY <3>1, RangePair
    <3> HIDE DEF tasks
    <3>4. \A task \in Range(tasks) :
              Proper(task) /\ Takes(task) = {} /\ task.kind \notin {"behind", "listDir", "walk"}
      BY <3>1, <3>3, PlainTakesNone DEF Plain
    <3>5. ASSUME NEW p \in Path, Covers(Now, p, disk[p], work.settled)
          PROVE  \E task \in Range(tasks) : Covers(task, p, disk[p], work'.settled)
      <4>1. CASE p = To
        BY <2>7, <3>1, <3>3, <4>1 DEF Covers
      <4>2. CASE p = At /\ disk[p] = Gone
        BY <3>1, <3>3, <4>2 DEF Covers
      <4> QED
        BY <2>2, <3>5, <4>1, <4>2
    <3> QED
      BY <1>1, <1>2, <1>3, <1>4, <3>2, <3>3, <3>4, <3>5, EndsMany
  <2>8. CASE At \notin Path /\ To \in Path
    <3> DEFINE task == Task(IF taken THEN "reindex" ELSE "linkEnd", To, Outside)
    <3>1. task \in TaskType /\ task.kind = (IF taken THEN "reindex" ELSE "linkEnd") /\ task.at = To
      BY <1>1 DEF Task
    <3>2. work' = Then(<<task>>)
      BY <2>1, <2>8 DEF RenameSteps
    <3> HIDE DEF task
    <3>3. Proper(task) /\ Takes(task) = {}
      BY <3>1 DEF Proper, Takes
    <3>4. \A p \in Path : p = To \/ (p = At /\ disk[p] = Gone) =>
              Covers(task, p, disk[p], work'.settled)
      BY <2>8, <3>1 DEF Covers
    <3> QED
      BY <2>4, <3>1, <3>2, <3>3, <3>4
  <2>9. CASE At \notin Path /\ To \notin Path
    <3>1. work' = Then(<<>>)
      BY <2>1, <2>9 DEF RenameSteps
    <3> QED
      BY <1>1, <1>2, <1>3, <1>4, <2>2, <2>9, <3>1, EndsNone
  <2> QED
    BY <2>5, <2>6, <2>7, <2>8, <2>9
<1> QED
  BY <1>1, <1>8, <1>9, <1>10, <1>11, <1>12 DEF Dispatch, Fault

(***************************************************************************)
(* The locks, and removals and directories under that of the database      *)
(***************************************************************************)

\* Steps that only say where the worker is in its task.
LEMMA TakeHandled == KeptInv /\ HandledInv /\ (TakeEmbedder \/ TakeDatabase) => HandledInv'
<1> SUFFICES ASSUME KeptInv, HandledInv, TakeEmbedder \/ TakeDatabase PROVE HandledInv'
  OBVIOUS
<1>1. work.todo # <<>> /\ work.step \in {"next", "embedder"} /\ TypeOK
  BY DEF KeptInv, TextInv, TakeEmbedder, TakeDatabase, Ready, AtStep
<1>2. Still /\ row' = row
  BY DEF TakeEmbedder, TakeDatabase, Outer, Surroundings, tree, Still
<1>3. /\ work'.todo = work.todo /\ work'.settled = work.settled
      /\ work'.step \in {"embedder", "locked"}
  BY <1>1 DEF TakeEmbedder, TakeDatabase, TypeOK, Idle
<1>4. \A p : Working(work', p, disk[p]) <=> Working(work, p, disk[p])
  BY <1>1, <1>3, WorkingAt
<1>5. AtRisk(work') = {} /\ ModesInv'
  BY <1>3 DEF AtRisk, ModesInv, AwaitsRead
<1> QED
  BY <1>2, <1>3, <1>4, <1>5, SameInStep, GoesOnHandled

\* Where the worker is after it saw that a row is to be dropped.
LEMMA ToDrop ==
    ASSUME KeptInv, HandledInv, Still, row' = row, work.todo # <<>>, NEW step \in {"drop", "sweep"},
           Goto(step), step = "sweep" => Now.kind \in {"removeDir", "sweepSource"},
           \A p \in Path : Working(work, p, disk[p]) =>
               \/ InStep(p)
               \/ p \in (IF step = "drop" THEN {File} ELSE In(At)),
           \A p \in (IF step = "drop" THEN {File} ELSE In(At)) : p \in Path => disk[p] \notin Content
    PROVE  HandledInv'
<1>1. /\ work'.todo = work.todo /\ work'.settled = work.settled /\ work'.step = step
  BY DEF KeptInv, TextInv, TypeOK, Goto, Idle
<1>2. /\ FileOf(work') = File /\ Head(work'.todo).at = At
  BY <1>1 DEF FileOf, File, At, To, Now
<1>3. AtRisk(work') = IF step = "drop" THEN {File} ELSE In(At)
  BY <1>1, <1>2 DEF AtRisk
<1>4. \A p \in Path : p \in AtRisk(work') => Working(work', p, disk[p])
  BY <1>1, <1>2, <1>3, WorkingAt
<1>5. ModesInv'
  BY <1>1 DEF ModesInv, AwaitsRead
<1> QED
  BY <1>1, <1>3, <1>4, <1>5, SameInStep, GoesOnHandled

\* The looks of a removal and of a directory, and the lists of tasks they leave.
LEMMA UnderDatabaseHandled == KeptInv /\ HandledInv /\ UnderDatabase /\ ~missed /\ ~missed' => HandledInv'
<1> SUFFICES ASSUME KeptInv, HandledInv, UnderDatabase, ~missed' PROVE HandledInv'
  OBVIOUS
<1>1. /\ work.todo # <<>> /\ work.step = "locked" /\ TypeOK /\ TreeInv
      /\ work.todo \in Seq(TaskType) /\ Now \in TaskType /\ At \in Place /\ To \in Place
  BY TaskTyped
     DEF KeptInv, TextInv, TypeOK, UnderDatabase, RemovalLook, RemovalUnknown, SweepLook, SweepUnknown,
         Arrived, ArrivedUnknown, Behind, BehindFails, ListDir, ListDirUnknown, ListDirFails,
         ListGone, ListGoneFails, Locked, AtStep
<1>2. Still /\ row' = row
  BY DEF UnderDatabase, Outer, Surroundings, tree, Still
<1>3. \A p : InStep(p)' <=> InStep(p)
  BY <1>2, SameInStep
<1>4. \A p : Working(work, p, disk[p]) <=> Covers(Now, p, disk[p], work.settled)
  BY <1>1, WorkingAt DEF Now
<1>5. Proper(Now) /\ (Now.kind = "listDir" => work.settled = {})
  BY <1>1 DEF HandledInv, Tidy, Now
<1>6. Gone \notin Content /\ Linked \notin Content
  BY NamesAssumption
<1>7. \A p \in Path : ~HasRow(p) /\ disk[p] \notin Content => InStep(p)
  BY DEF HasRow, InStep
<1>8. \A p \in Path : p \in RowsUnder(At) <=> p \in In(At) /\ HasRow(p)
  BY DEF RowsUnder, In
<1>9. Now.paths \in SUBSET Path /\ RowsUnder(At) \in SUBSET Path
  BY <1>1 DEF TaskType, RowsUnder, In
<1>10. \A p \in In(At) : p \in Path /\ (disk[p] # Gone => At \in dirs)
  BY <1>1 DEF TreeInv, In
<1>11. ASSUME Done(<<>>),
              \A p \in Path : Covers(Now, p, disk[p], work.settled) => InStep(p)
       PROVE  HandledInv'
  BY <1>1, <1>2, <1>3, <1>4, <1>11, EndsNone DEF Done
<1>12. ASSUME NEW kind \in Plain, NEW paths \in SUBSET Path, Done(ForEach(kind, paths)),
              \A p \in Path : Covers(Now, p, disk[p], work.settled) =>
                  InStep(p) \/ (p \in paths /\ Covers(Task(kind, p, Outside), p, disk[p], work'.settled))
       PROVE  HandledInv'
  BY <1>1, <1>2, <1>3, <1>4, <1>12, EndsEach DEF Done
<1> USE DEF Kind, NeedsDatabase, NeedsBoth, Place
<1>13. CASE RemovalLook \/ RemovalUnknown
  <2>1. Now.kind \in {"removed", "away"}
    BY <1>13 DEF RemovalLook, RemovalUnknown, Locked
  <2>2. \A p : Covers(Now, p, disk[p], work.settled) => p = At /\ (Now.kind = "away" => disk[p] = Gone)
    BY <2>1 DEF Covers, At
  <2>3. CASE RemovalLook /\ Now.kind = "away" /\ ~HasRow(At)
    BY <1>6, <1>7, <1>11, <2>2, <2>3 DEF RemovalLook
  <2>4. CASE Goto("drop") /\ disk[At] = Gone
    <3>1. File = At
      BY <2>1 DEF File
    <3> QED
      BY <1>1, <1>2, <1>4, <1>6, <2>2, <2>4, <3>1, ToDrop
  <2>5. CASE LookAgain
    <3> DEFINE task == Task("after", At, Outside)
    <3>1. task \in TaskType /\ task.kind = "after" /\ task.at = At
      BY <1>1, PlainTask DEF Task
    <3>2. work' = Then(<<task>>)
      BY <2>5 DEF LookAgain, Done
    <3> HIDE DEF task
    <3>3. Proper(task) /\ Takes(task) = {}
      BY <3>1 DEF Proper, Takes
    <3>4. \A p \in Path : Covers(Now, p, disk[p], work.settled) =>
              Covers(task, p, disk[p], work'.settled)
      BY <2>2, <3>1 DEF Covers
    <3> QED
      BY <1>1, <1>2, <1>3, <1>4, <3>1, <3>2, <3>3, <3>4, EndsOne
  <2> QED
    BY <1>13, <2>3, <2>4, <2>5 DEF RemovalLook, RemovalUnknown
<1>14. CASE SweepLook
  <2>1. Now.kind \in {"removeDir", "sweepSource"}
    BY <1>14 DEF SweepLook, Locked
  <2>2. \A p \in Path : Covers(Now, p, disk[p], work.settled) =>
            /\ p \in In(At) /\ disk[p] \notin Content
            /\ Now.kind = "sweepSource" => p \in Now.paths /\ disk[p] = Gone
    BY <1>5, <1>6, <2>1 DEF Covers, Proper, At
  <2>3. CASE At \notin dirs
    <3>1. Goto("sweep")
      BY <1>14, <2>3 DEF SweepLook
    <3>2. \A p \in In(At) : disk[p] \notin Content
      BY <1>6, <1>10, <2>3
    <3> QED
      BY <1>1, <1>2, <1>4, <2>1, <2>2, <3>1, <3>2, ToDrop
  <2>4. CASE At \in dirs /\ Now.kind = "removeDir"
    <3>1. Done(ForEach("removed", RowsUnder(At)))
      BY <1>14, <2>4 DEF SweepLook
    <3>2. \A p \in Path : Covers(Task("removed", p, Outside), p, disk[p], work'.settled)
      BY DEF Covers, Task
    <3> QED
      BY <1>7, <1>8, <1>9, <1>12, <2>2, <3>1, <3>2 DEF Plain
  <2>5. CASE At \in dirs /\ Now.kind = "sweepSource"
    <3>1. Done(ForEach("away", Now.paths))
      BY <1>14, <2>5 DEF SweepLook
    <3>2. \A p \in Path : disk[p] = Gone => Covers(Task("away", p, Outside), p, disk[p], work'.settled)
      BY DEF Covers, Task
    <3> QED
      BY <1>9, <1>12, <2>2, <2>5, <3>1, <3>2 DEF Plain
  <2> QED
    BY <2>1, <2>3, <2>4, <2>5
<1>15. CASE Arrived \/ ArrivedUnknown
  <2>1. Now.kind = "arrive"
    BY <1>15 DEF Arrived, ArrivedUnknown, Locked
  <2>2. \A p \in Path : Covers(Now, p, disk[p], work.settled) => p \in In(At) /\ disk[p] # Gone
    BY <2>1 DEF Covers, At
  <2>3. CASE At \in dirs \/ ArrivedUnknown
    <3> DEFINE task == Task("walk", At, Outside)
    <3>1. task \in TaskType /\ task.kind = "walk" /\ task.at = At
      BY <1>1, PlainTask DEF Task
    <3>2. work' = [Then(<<task>>) EXCEPT !.settled = {}]
      BY <1>15, <2>3 DEF Arrived, ArrivedUnknown
    <3> HIDE DEF task
    <3>3. work'.settled = {}
      BY <3>2 DEF Then, Idle
    <3>4. Proper(task) /\ Takes(task) = {}
      BY <3>1 DEF Proper, Takes
    <3>5. \A p \in Path : Covers(Now, p, disk[p], work.settled) =>
              Covers(task, p, disk[p], work'.settled)
      BY <2>2, <3>1, <3>3 DEF Covers
    <3> QED
      BY <1>1, <1>2, <1>3, <1>4, <3>1, <3>2, <3>4, <3>5, EndsOne
  <2>4. CASE At \notin dirs /\ Arrived
    <3> DEFINE none == <<>>
    <3>1. work' = [Then(none) EXCEPT !.settled = {}]
      BY <1>15, <2>4 DEF Arrived
    <3>2. none \in Seq(TaskType) /\ DOMAIN none = {} /\ Tidy(none, work'.settled)
      BY DEF Tidy
    <3> HIDE DEF none
    <3>3. \A p \in Path : ~Covers(Now, p, disk[p], work.settled)
      BY <1>10, <2>2, <2>4
    <3> QED
      BY <1>1, <1>2, <1>3, <1>4, <3>1, <3>2, <3>3, EndsHandled
  <2> QED
    BY <1>15, <2>3, <2>4
<1>16. CASE Behind
  <2>1. Now.kind = "behind"
    BY <1>16 DEF Behind, Locked
  <2> DEFINE gone == RowsUnder(At) \ Now.paths
             found == Now.paths \ work.settled
             removed == ForEach("removed", gone)
             reindex == ForEach("reindex", found)
             tasks == removed \o reindex
  <2>2. gone \in SUBSET Path /\ found \in SUBSET Path /\ "removed" \in Plain /\ "reindex" \in Plain
    BY <1>9 DEF Plain
  <2>3. \A p : /\ p \in gone <=> p \in RowsUnder(At) /\ p \notin Now.paths
               /\ p \in found <=> p \in Now.paths /\ p \notin work.settled
    OBVIOUS
  <2>4. work' = Then(tasks)
    BY <1>16 DEF Behind, Done
  <2> HIDE DEF gone, found
  <2>5. /\ removed \in Seq(TaskType) /\ \A task \in Range(removed) : task.kind = "removed"
        /\ \A p \in gone : Task("removed", p, Outside) \in Range(removed)
    BY <2>2, ForEachCovers
  <2>6. /\ reindex \in Seq(TaskType) /\ \A task \in Range(reindex) : task.kind = "reindex"
        /\ \A p \in found : Task("reindex", p, Outside) \in Range(reindex)
    BY <2>2, ForEachCovers
  <2> HIDE DEF removed, reindex
  <2>7. tasks \in Seq(TaskType) /\ Range(tasks) = Range(removed) \cup Range(reindex)
    BY <2>5, <2>6, RangeJoined
  <2> HIDE DEF tasks
  <2>8. \A task \in Range(tasks) :
            Proper(task) /\ Takes(task) = {} /\ task.kind \notin {"behind", "listDir", "walk"}
    BY <2>5, <2>6, <2>7, PlainTakesNone DEF Plain
  <2>9. ASSUME NEW p \in Path, Covers(Now, p, disk[p], work.settled)
        PROVE  InStep(p) \/ \E task \in Range(tasks) : Covers(task, p, disk[p], work'.settled)
    <3>1. /\ Covers(Task("removed", p, Outside), p, disk[p], work'.settled)
          /\ Covers(Task("reindex", p, Outside), p, disk[p], work'.settled)
      BY DEF Covers, Task
    <3>2. p \in In(At) \ work.settled /\ (p \in Now.paths \/ disk[p] \notin Content)
      BY <2>1, <2>9 DEF Covers, At
    <3>3. CASE p \in found
      BY <2>6, <2>7, <3>1, <3>3
    <3>4. CASE p \in gone
      BY <2>5, <2>7, <3>1, <3>4
    <3>5. CASE p \notin Now.paths /\ ~HasRow(p)
      BY <1>7, <3>2, <3>5
    <3> QED
      BY <1>8, <2>3, <3>2, <3>3, <3>4, <3>5
  <2> QED
    BY <1>1, <1>2, <1>3, <1>4, <2>4, <2>7, <2>8, <2>9, EndsMany
<1>17. CASE ListGone
  <2>1. Now.kind = "listGone"
    BY <1>17 DEF ListGone, Locked
  <2>2. \A p \in Path : Covers(Now, p, disk[p], work.settled) => p \in In(At) /\ disk[p] = Gone
    BY <2>1 DEF Covers, At
  <2>3. CASE RowsUnder(At) = {}
    <3>1. Done(<<>>)
      BY <1>17, <2>3 DEF ListGone
    <3> QED
      BY <1>6, <1>7, <1>8, <1>11, <2>2, <2>3, <3>1
  <2>4. CASE RowsUnder(At) # {}
    <3> DEFINE task == TaskOver("sweepSource", At, RowsUnder(At))
    <3>1. /\ task \in TaskType /\ task.kind = "sweepSource" /\ task.at = At
          /\ task.paths = RowsUnder(At)
      BY <1>1, <1>9, OverTask DEF TaskOver
    <3>2. work' = Then(<<task>>)
      BY <1>17, <2>4 DEF ListGone, Done
    <3> HIDE DEF task
    <3>3. Proper(task) /\ Takes(task) = {}
      BY <3>1 DEF Proper, Takes, RowsUnder
    <3>4. \A p \in Path : Covers(Now, p, disk[p], work.settled) =>
              InStep(p) \/ Covers(task, p, disk[p], work'.settled)
      BY <1>6, <1>7, <1>8, <2>2, <3>1 DEF Covers
    <3> QED
      BY <1>1, <1>2, <1>3, <1>4, <3>1, <3>2, <3>3, <3>4, EndsOne
  <2> QED
    BY <2>3, <2>4
<1>18. ASSUME NEW follows \in BOOLEAN, To \in dirs => follows, Locked({"listDir"}),
              Done(DirTasks(RowsUnder(At), follows))
       PROVE  HandledInv'
  <2> DEFINE order == SetToSeq(RowsUnder(At))
             moves == IF follows THEN [i \in 1..Len(order) |-> DirStep(order[i])] ELSE <<>>
             away == ForEach("away", RowsUnder(At))
             sweep == TaskOver("sweepSource", At, {})
             walk == Task("walk", To, Outside)
             last == IF follows THEN <<walk>> ELSE <<>>
             one == <<sweep>>
             rows == moves \o away
             old == rows \o one
             tasks == old \o last
  <2>1. Now.kind = "listDir" /\ At # To /\ work.settled = {}
    BY <1>5, <1>18 DEF Locked, Proper, At, To
  <2>2. work' = Then(tasks)
    BY <1>18 DEF DirTasks, Done
  <2>3. /\ moves \in Seq(TaskType)
        /\ \A task \in Range(moves) : \E p \in RowsUnder(At) : task = DirStep(p)
    <3>1. \A p \in Path : DirStep(p) \in TaskType
      BY PlainTask DEF DirStep
    <3>2. order \in Seq(RowsUnder(At)) /\ \A i \in 1..Len(order) : order[i] \in RowsUnder(At)
      BY <1>9, SeqOfSet, TreeAssumption, FS_Subset
    <3> HIDE DEF order
    <3>3. CASE follows
      <4> DEFINE steps == [i \in 1..Len(order) |-> DirStep(order[i])]
      <4>1. steps \in Seq(TaskType) /\ DOMAIN steps = 1..Len(order)
        BY <1>9, <3>1, <3>2
      <4>2. \A i \in 1..Len(order) : steps[i] = DirStep(order[i])
        OBVIOUS
      <4>3. moves = steps
        BY <3>3
      <4> HIDE DEF moves, steps
      <4> QED
        BY <3>2, <4>1, <4>2, <4>3 DEF Range
    <3>4. CASE ~follows
      <4>1. moves = <<>>
        BY <3>4
      <4>2. <<>> \in Seq(TaskType) /\ DOMAIN <<>> = {}
        OBVIOUS
      <4> HIDE DEF moves
      <4> QED
        BY <4>1, <4>2 DEF Range
    <3> QED
      BY <3>3, <3>4
  <2>4. /\ away \in Seq(TaskType) /\ \A task \in Range(away) : task.kind = "away"
        /\ \A p \in RowsUnder(At) : Task("away", p, Outside) \in Range(away)
    BY <1>9, ForEachCovers DEF Plain
  <2>5. /\ sweep \in TaskType /\ sweep.kind = "sweepSource" /\ sweep.paths = {}
    BY <1>1, OverTask DEF TaskOver
  <2>6. walk \in TaskType /\ walk.kind = "walk" /\ walk.at = To
    BY <1>1, PlainTask DEF Task
  <2> HIDE DEF order, moves, away, sweep, walk
  <2>7. one \in Seq(TaskType) /\ Range(one) = {sweep}
    BY <2>5, RangeOne
  <2>8. last \in Seq(TaskType) /\ Range(last) = (IF follows THEN {walk} ELSE {})
    <3>1. <<walk>> \in Seq(TaskType) /\ Range(<<walk>>) = {walk}
      BY <2>6, RangeOne
    <3>2. <<>> \in Seq(TaskType) /\ Range(<<>>) = {}
      BY DEF Range
    <3> QED
      BY <3>1, <3>2
  <2> HIDE DEF one, last
  <2>9. rows \in Seq(TaskType) /\ Range(rows) = Range(moves) \cup Range(away)
    BY <2>3, <2>4, RangeJoined
  <2> HIDE DEF rows
  <2>10. old \in Seq(TaskType) /\ Range(old) = Range(rows) \cup {sweep}
    BY <2>7, <2>9, RangeJoined
  <2> HIDE DEF old
  <2>11. tasks \in Seq(TaskType) /\ Range(tasks) = Range(old) \cup Range(last)
    BY <2>8, <2>10, RangeJoined
  <2> HIDE DEF tasks
  <2>12. Takes(Now) = In(At) /\ In(At) \cap In(To) = {}
    BY <2>1 DEF Takes, In, At
  <2>13. ASSUME NEW task \in Range(tasks)
         PROVE  /\ Proper(task) /\ Takes(task) \subseteq Takes(Now)
                /\ task.kind \notin {"behind", "listDir"}
                /\ task.kind = "walk" => Takes(Now) \cap In(task.at) = {}
    <3>1. CASE task \in Range(moves)
      <4>1. PICK p \in RowsUnder(At) : task = DirStep(p)
        BY <2>3, <3>1
      <4>2. p \in In(At) /\ p[1] = At /\ p # <<To, p[2]>>
        BY <2>1, <4>1 DEF RowsUnder, In
      <4>3. /\ task.kind \in {"move", "away"} /\ task.at = p
            /\ task.kind = "move" => task.to = <<To, p[2]>>
        BY <4>1 DEF DirStep, Task
      <4> QED
        BY <2>12, <4>2, <4>3 DEF Proper, Takes
    <3>2. CASE task \in Range(away)
      BY <2>4, <3>2, PlainTakesNone DEF Plain
    <3>3. CASE task = sweep
      BY <2>5, <3>3 DEF Proper, Takes
    <3>4. CASE task = walk
      BY <2>6, <2>12, <3>4 DEF Proper, Takes
    <3> QED
      BY <2>8, <2>11, <2>9, <2>10, <3>1, <3>2, <3>3, <3>4
  <2>14. ASSUME NEW p \in Path, Covers(Now, p, disk[p], work.settled)
         PROVE  InStep(p) \/ \E task \in Range(tasks) : Covers(task, p, disk[p], work'.settled)
    <3>1. (p \in In(At) /\ disk[p] = Gone) \/ (p \in In(To) /\ disk[p] # Gone)
      BY <2>1, <2>14 DEF Covers, At, To
    <3>2. CASE p \in In(At) /\ disk[p] = Gone /\ HasRow(p)
      <4>1. Task("away", p, Outside) \in Range(tasks)
        BY <1>8, <2>4, <2>11, <2>9, <2>10, <3>2
      <4>2. Covers(Task("away", p, Outside), p, disk[p], work'.settled)
        BY <3>2 DEF Covers, Task
      <4> QED
        BY <4>1, <4>2
    <3>3. CASE p \in In(At) /\ disk[p] = Gone /\ ~HasRow(p)
      BY <1>6, <1>7, <3>3
    <3>4. CASE p \in In(To) /\ disk[p] # Gone
      <4>1. walk \in Range(tasks)
        <5>1. follows
          BY <1>1, <1>18, <3>4 DEF TreeInv, In
        <5> QED
          BY <2>8, <2>11, <5>1
      <4>2. work'.settled = {}
        BY <2>1, <2>2 DEF Then, Idle
      <4>3. Covers(walk, p, disk[p], work'.settled)
        BY <2>6, <3>4, <4>2 DEF Covers
      <4> QED
        BY <4>1, <4>3
    <3> QED
      BY <3>1, <3>2, <3>3, <3>4
  <2> QED
    BY <1>1, <1>2, <1>3, <1>4, <2>2, <2>11, <2>13, <2>14, EndsMany
<1>19. ASSUME ListDir \/ ListDirUnknown PROVE HandledInv'
  <2>1. Locked({"listDir"})
    BY <1>19 DEF ListDir, ListDirUnknown
  <2>2. CASE ListDir
    <3> DEFINE follows == To \in dirs
    <3>1. follows \in BOOLEAN /\ (To \in dirs => follows) /\ Done(DirTasks(RowsUnder(At), follows))
      BY <2>2 DEF ListDir
    <3> HIDE DEF follows
    <3> QED
      BY <1>18, <2>1, <3>1
  <2>3. CASE ListDirUnknown
    <3>1. Done(DirTasks(RowsUnder(At), TRUE))
      BY <2>3 DEF ListDirUnknown
    <3> QED
      BY <1>18, <2>1, <3>1
  <2> QED
    BY <1>19, <2>2, <2>3
<1> QED
  BY <1>13, <1>14, <1>15, <1>16, <1>17, <1>19 DEF UnderDatabase, Fault

\* A row that is dropped from under a file is covered by what follows (DropsCovered).
LEMMA DropHandled == KeptInv /\ HandledInv /\ (Drop \/ Sweep) /\ ~missed' => HandledInv'
<1> SUFFICES ASSUME KeptInv, HandledInv, Drop \/ Sweep, ~missed' PROVE HandledInv'
  OBVIOUS
<1> DEFINE paths == IF work.step = "drop" THEN {File} ELSE In(At)
<1>1. /\ work.todo # <<>> /\ work.step \in {"drop", "sweep"} /\ TypeOK
      /\ work.todo \in Seq(TaskType) /\ work' = Then(<<>>)
      /\ row' = Without(row, paths)
  BY DEF KeptInv, TextInv, TypeOK, Drop, Sweep, RemoveRows, Fault, AtStep, Done
<1>2. Still
  BY DEF Drop, Sweep, Outer, Surroundings, tree, Still
<1>3. FileOf(work) = File /\ Head(work.todo).at = At
  BY DEF FileOf, File, Now, At, To
<1>4. AtRisk(work) = paths
  BY <1>1, <1>3 DEF AtRisk
<1>5. \A p : Working(work, p, disk[p]) => p \in paths /\ disk[p] \notin Content
  BY <1>1, <1>3, WorkingAt
<1> HIDE DEF paths
<1>6. ASSUME NEW p \in Path, p \in paths, disk[p] \notin Content PROVE InStep(p)'
  BY <1>1, <1>2, <1>6 DEF Without, InStep, Still
<1>7. ASSUME NEW p \in Path, p \in paths, disk[p] \in Content PROVE Follows(p)
  BY <1>4, <1>7 DEF HandledInv, DropsCovered, Follows, Later
<1>8. ASSUME NEW p \in Path, p \notin paths, InStep(p) PROVE InStep(p)'
  <2>1. row'[p] = row[p]
    BY <1>1, <1>8 DEF Without
  <2> QED
    BY <1>2, <1>8, <2>1, SameInStep
<1> QED
  BY <1>1, <1>2, <1>5, <1>6, <1>7, <1>8, EndsNone

(***************************************************************************)
(* The read of a file                                                      *)
(***************************************************************************)

\* What a read that ends has to show of the file it read.
LEMMA SettleHandled ==
    ASSUME KeptInv, HandledInv, Still, work.todo # <<>>, work.step \in {"read", "parse"},
           NEW result, NEW rows, Settle(result, rows), result # "error",
           \A p \in Path : p # File => row'[p] = row[p],
           \A p \in Path \ folded : p = File /\ (InStep(p) \/ Working(work, p, disk[p])) =>
               \/ InStep(p)'
               \/ Kept(result) /\ work.mode \in {"write", "removal"} /\ disk[p] = Gone
               \/ work.mode = "write" /\ result = "refused" /\ disk[p] = Linked
               \/ work.mode \notin {"write", "removal"} /\ disk[p] = Linked
    PROVE  HandledInv'
<1>1. /\ TypeOK /\ work.todo \in Seq(TaskType) /\ DOMAIN work = DOMAIN Idle
      /\ work.mode \in (IF Now.kind = "move" THEN {"missing", "again", "awaiting"}
                        ELSE {"write", "removal"})
  BY DEF KeptInv, TextInv, TypeOK, HandledInv, ModesInv
<1>2. FileOf(work) = File /\ (Now.kind = "move" => File = To)
  BY DEF FileOf, File, Now, At, To
<1>3. \A p : Working(work, p, disk[p]) => p = File
  BY <1>2, WorkingAt DEF ReadWork
<1>4. Linked \notin Content /\ Gone \notin Content
  BY NamesAssumption
<1>5. ASSUME NEW p \in Path, p # File, InStep(p) PROVE InStep(p)'
  BY <1>5, SameInStep
<1>6. CASE work.mode \in {"write", "removal"}
  <2>1. CASE Kept(result)
    <3>1. GotoAfter("relook", result)
      BY <1>6, <2>1 DEF Settle
    <3>2. /\ work'.todo = work.todo /\ work'.settled = work.settled /\ work'.step = "relook"
          /\ work'.mode = work.mode /\ work'.result = result
      BY <1>1, <3>1 DEF GotoAfter, Idle
    <3>3. FileOf(work') = File /\ Now' = Now
      BY <1>2, <3>2 DEF FileOf, Now
    <3>4. AtRisk(work') = {} /\ ModesInv'
      BY <1>1, <1>6, <3>2, <3>3 DEF AtRisk, ModesInv, AwaitsRead
    <3>5. ASSUME NEW p \in Path, p = File,
                 disk[p] = Gone \/ (work.mode = "write" /\ result = "refused" /\ disk[p] = Linked)
          PROVE  Working(work', p, disk[p])
      BY <3>2, <3>3, <3>5, WorkingAt DEF ReadWork
    <3>6. \A p \in Path \ folded : InStep(p) \/ Working(work, p, disk[p]) =>
               InStep(p)' \/ Working(work', p, disk[p])
      BY <1>3, <1>5, <1>6, <3>5
    <3> QED
      BY <3>2, <3>4, <3>6, GoesOnHandled
  <2>2. CASE ~Kept(result)
    <3>1. work' = Then(<<>>) /\ result # "refused"
      BY <1>6, <2>2 DEF Settle, Done, Kept
    <3> QED
      BY <1>1, <1>3, <1>5, <1>6, <2>2, <3>1, EndsNone
  <2> QED
    BY <2>1, <2>2
<1>7. CASE work.mode \in {"missing", "again", "awaiting"}
  <2>1. GotoAfter("relookMove", "none") \/ Goto("linkCheck")
    BY <1>7 DEF Settle
  <2>2. /\ work'.todo = work.todo /\ work'.settled = work.settled
        /\ \/ work'.step = "relookMove" /\ work'.result = "none"
           \/ work'.step = "linkCheck"
    BY <1>1, <2>1 DEF GotoAfter, Goto, Idle
  <2>3. File = To /\ Head(work'.todo).to = To
    BY <1>1, <1>2, <1>7, <2>2 DEF Now, To
  <2>4. AtRisk(work') = {} /\ ModesInv'
    BY <2>2 DEF AtRisk, ModesInv, AwaitsRead
  <2>5. ASSUME NEW p \in Path, p = File, disk[p] = Linked PROVE Working(work', p, disk[p])
    BY <1>4, <2>2, <2>3, <2>5, WorkingAt DEF MoveWork, MoveSteps
  <2>6. \A p \in Path \ folded : InStep(p) \/ Working(work, p, disk[p]) =>
               InStep(p)' \/ Working(work', p, disk[p])
    BY <1>3, <1>5, <1>7, <2>5
  <2> QED
    BY <2>2, <2>4, <2>6, GoesOnHandled
<1> QED
  BY <1>1, <1>6, <1>7

\* A read that settles one file leaves the rows of the others.
LEMMA CrossedOthers ==
    ASSUME NEW rows \in RowMap, NEW p \in Path, NEW q, p # q, NEW result
    PROVE  SettleCrossed(rows, q, result)[p] = rows[p]
BY DEF SettleCrossed, Without, Marked, RowMap

\* A row that has the hash of its file is the one its parser makes of it.
LEMMA HashInStep ==
    ASSUME KeptInv, HandledInv, ~Half, NEW p \in Path, disk[p] \in Content,
           HasRow(p), row[p].hash = disk[p]
    PROVE  InStep(p)
<1>1. row[p] \in Row /\ (row[p].hash = Awaiting \/ row[p].text = Parsed(p, row[p].hash))
  BY RowsNow DEF KeptInv, HandledInv, RowMap, RowsOK, RowOK, HasRow
<1>2. row[p].text = Parsed(p, disk[p]) /\ Parsed(p, disk[p]) \in Text
  BY <1>1, NamesAssumption DEF Row
<1>3. row[p] = RowOf(p, disk[p])
  BY <1>1, <1>2 DEF Row, RowOf
<1> QED
  BY <1>2, <1>3, NamesAssumption DEF InStep

\* A row that awaits a read is not that of any bytes.
LEMMA MarkedInStep ==
    ASSUME KeptInv, HandledInv, AwaitsRead, To \in Path, InStep(To), disk[To] \in Content
    PROVE  Parsed(To, disk[To]) = Broken \/ row[To] = NoRow
<1>1. HasRow(To) => row[To].hash = Awaiting
  BY DEF HandledInv, ModesInv
<1>2. RowOf(To, disk[To]).hash # Awaiting
  BY NamesAssumption DEF RowOf
<1> QED
  BY <1>1, <1>2 DEF InStep, HasRow

\* The first read takes the hash of the file, or has its row for right.
LEMMA FirstReadHandled == KeptInv /\ HandledInv /\ FirstRead /\ Still => HandledInv'
<1> SUFFICES ASSUME KeptInv, HandledInv, FirstRead, Still PROVE HandledInv'
  OBVIOUS
<1>1. /\ work.todo # <<>> /\ work.step = "read" /\ TypeOK /\ row \in RowMap
      /\ DOMAIN work = DOMAIN Idle
      /\ work.mode \in (IF Now.kind = "move" THEN {"missing", "again", "awaiting"}
                        ELSE {"write", "removal"})
  BY RowsNow DEF KeptInv, TextInv, TypeOK, FirstRead, AtStep, HandledInv, ModesInv
<1>2. FileOf(work) = File /\ (Now.kind = "move" => File = To)
  BY DEF FileOf, File, Now, At, To
<1>3. Gone \notin Content /\ Linked \notin Content /\ Gone # Linked
  BY NamesAssumption
<1>4. ASSUME NEW result, Settle(result, row)
      PROVE  /\ \A p \in Path : p # File => row'[p] = row[p]
             /\ work.mode # "awaiting" => row' = row
             /\ work.mode = "awaiting" => row' = SettleCrossed(row, File, result)
  <2>1. row' = IF work.mode = "awaiting" THEN SettleCrossed(row, File, result) ELSE row
    BY <1>1, <1>4 DEF Settle, Checked
  <2> QED
    BY <1>1, <2>1, CrossedOthers
<1>5. ASSUME NEW p, p = File, work.mode # "awaiting", row' = row, InStep(p) PROVE InStep(p)'
  BY <1>5, SameInStep
<1>6. \A p : Working(work, p, disk[p]) <=>
          /\ p = File
          /\ \/ disk[p] \in Content \/ work.mode \in {"write", "awaiting"}
             \/ work.mode = "removal" /\ disk[p] = Gone
             \/ work.mode \in {"missing", "again"} /\ disk[p] = Linked
  BY <1>1, <1>2, WorkingAt DEF ReadWork
<1>7. CASE disk[File] = Gone
  <2>1. Settle("gone", row)
    BY <1>7 DEF FirstRead
  <2>2. ASSUME NEW p \in Path, p = File, work.mode = "awaiting" PROVE InStep(p)'
    <3>1. row' = Without(row, {File})
      BY <1>4, <2>1, <2>2 DEF SettleCrossed, Dropping
    <3> QED
      BY <1>3, <1>7, <2>2, <3>1 DEF Without, InStep, Still
  <2>3. ASSUME NEW p \in Path \ folded, p = File, InStep(p) \/ Working(work, p, disk[p])
        PROVE  InStep(p)' \/ (work.mode \in {"write", "removal"} /\ disk[p] = Gone)
    BY <1>1, <1>3, <1>4, <1>5, <1>6, <1>7, <2>1, <2>2, <2>3
  <2> QED
    BY <1>1, <1>4, <2>1, <2>3, SettleHandled DEF Kept
<1>8. CASE disk[File] = Linked
  <2>1. Settle("refused", row)
    BY <1>3, <1>8 DEF FirstRead
  <2>2. ASSUME NEW p \in Path \ folded, p = File, InStep(p) \/ Working(work, p, disk[p])
        PROVE  InStep(p)' \/ work.mode \notin {"removal"}
    BY <1>1, <1>3, <1>4, <1>5, <1>6, <1>8, <2>1, <2>2
  <2> QED
    BY <1>1, <1>4, <1>8, <2>1, <2>2, SettleHandled
<1>9. CASE disk[File] \notin {Gone, Linked} /\ HasRow(File) /\ row[File].hash = disk[File]
  <2>1. Settle("unchanged", row)
    BY <1>9 DEF FirstRead
  <2>2. ASSUME NEW p \in Path, p = File PROVE InStep(p)'
    <3>1. disk[File] \in Content
      BY <1>1, <1>9, <2>2 DEF TypeOK
    <3>2. work.mode # "awaiting"
      <4>1. work.mode = "awaiting" => AwaitsRead /\ File = To
        BY <1>1, <1>2 DEF AwaitsRead
      <4>2. AwaitsRead /\ HasRow(To) => row[To].hash = Awaiting
        BY DEF HandledInv, ModesInv
      <4> QED
        BY <1>9, <3>1, <4>1, <4>2, NamesAssumption
    <3>3. InStep(p)
      BY <1>1, <1>9, <2>2, <3>1, HashInStep DEF Half
    <3> QED
      BY <1>4, <1>5, <2>1, <2>2, <3>2, <3>3
  <2> QED
    BY <1>1, <1>4, <2>1, <2>2, SettleHandled
<1>10. CASE /\ work' = [work EXCEPT !.step = "parse", !.seen = disk[File]] /\ row' = row
            /\ disk[File] \notin {Gone, Linked}
  <2>1. /\ work'.todo = work.todo /\ work'.settled = work.settled /\ work'.step = "parse"
        /\ work'.mode = work.mode /\ work'.seen = disk[File]
    BY <1>1, <1>10 DEF Idle
  <2>2. FileOf(work') = File /\ Now' = Now /\ To' = To
    BY <1>2, <2>1 DEF FileOf, Now, To
  <2>3. AtRisk(work') = {}
    BY <2>1 DEF AtRisk
  <2>4. ModesInv'
    <3>1. AwaitsRead' => AwaitsRead
      BY <1>1, <2>1 DEF AwaitsRead
    <3>2. HasRow(To)' => HasRow(To) /\ row'[To] = row[To]
      BY <1>10, <2>2 DEF HasRow
    <3> QED
      BY <1>1, <1>10, <2>1, <2>2, <3>1, <3>2 DEF HandledInv, ModesInv
  <2>5. ASSUME NEW p \in Path, p = File PROVE Working(work', p, disk[p])
    <3>1. disk[p] \in Content
      BY <1>1, <1>10, <2>5 DEF TypeOK
    <3> QED
      BY <1>1, <2>1, <2>2, <2>5, <3>1, WorkingAt DEF ReadWork
  <2>6. \A p \in Path : p # File /\ InStep(p) => InStep(p)'
    BY <1>10, SameInStep
  <2> QED
    BY <1>6, <2>1, <2>3, <2>4, <2>5, <2>6, GoesOnHandled
<1> QED
  BY <1>7, <1>8, <1>9, <1>10 DEF FirstRead

\* The second read gives the file the row of its bytes, if they are those of the first.
LEMMA SecondReadHandled == KeptInv /\ HandledInv /\ SecondRead /\ Still => HandledInv'
<1> SUFFICES ASSUME KeptInv, HandledInv, SecondRead, Still PROVE HandledInv'
  OBVIOUS
<1>1. /\ work.todo # <<>> /\ work.step = "parse" /\ TypeOK /\ row \in RowMap
      /\ DOMAIN work = DOMAIN Idle
      /\ work.mode \in (IF Now.kind = "move" THEN {"missing", "again", "awaiting"}
                        ELSE {"write", "removal"})
  BY RowsNow DEF KeptInv, TextInv, TypeOK, SecondRead, AtStep, HandledInv, ModesInv
<1>2. FileOf(work) = File /\ (Now.kind = "move" => File = To)
  BY DEF FileOf, File, Now, At, To
<1>3. Gone \notin Content /\ Linked \notin Content /\ Gone # Linked
  BY NamesAssumption
<1>4. ASSUME NEW result, NEW rows \in RowMap, Settle(result, rows)
      PROVE  /\ \A p \in Path : p # File => row'[p] = rows[p]
             /\ work.mode # "awaiting" => row' = rows
             /\ work.mode = "awaiting" => row' = SettleCrossed(rows, File, result)
  <2>1. row' = IF work.mode = "awaiting" THEN SettleCrossed(rows, File, result) ELSE rows
    BY <1>1, <1>4 DEF Settle, Checked
  <2> QED
    BY <1>1, <1>4, <2>1, CrossedOthers
<1>5. ASSUME NEW p, p = File, row'[p] = row[p], InStep(p) PROVE InStep(p)'
  BY <1>5, SameInStep
<1>6. \A p : Working(work, p, disk[p]) <=>
          /\ p = File
          /\ \/ disk[p] \in Content /\ disk[p] = work.seen
             \/ work.mode \in {"write", "removal"} /\ disk[p] = Gone
             \/ work.mode # "removal" /\ disk[p] = Linked
  BY <1>1, <1>2, WorkingAt DEF ReadWork
<1>7. work.mode = "awaiting" => AwaitsRead /\ File = To
  BY <1>1, <1>2 DEF AwaitsRead
\* A row that awaits a read and is right is not there, or is of a file that cannot be parsed.
<1>8. ASSUME NEW p \in Path, p = File, InStep(p), work.mode = "awaiting",
             NEW result, result \notin Dropping \cup {"updated"}, Settle(result, row)
      PROVE  InStep(p)'
  <2>1. row' = Marked(row, File)
    BY <1>1, <1>4, <1>8 DEF SettleCrossed
  <2>2. CASE row[File] = NoRow
    BY <1>5, <1>8, <2>1, <2>2 DEF Marked
  <2>3. CASE row[File] # NoRow
    <3>1. disk[p] \in Content /\ Parsed(p, disk[p]) = Broken
      BY <1>7, <1>8, <2>3, MarkedInStep DEF InStep
    <3> QED
      BY <3>1, NamesAssumption DEF InStep, Still, Parsed
  <2> QED
    BY <2>2, <2>3
<1> DEFINE there == disk[File]
           text == Parsed(File, there)
<1>9. CASE there = Gone
  <2>1. Settle("readFailed", row)
    BY <1>9 DEF SecondRead
  <2>2. ASSUME NEW p \in Path \ folded, p = File, InStep(p) \/ Working(work, p, disk[p])
        PROVE  InStep(p)' \/ (work.mode \in {"write", "removal"} /\ disk[p] = Gone)
    <3>1. CASE work.mode = "awaiting"
      <4>1. InStep(p)
        BY <1>3, <1>6, <1>9, <2>2, <3>1
      <4> QED
        BY <1>8, <2>1, <2>2, <3>1, <4>1 DEF Dropping
    <3>2. CASE work.mode # "awaiting"
      BY <1>1, <1>3, <1>4, <1>5, <1>6, <1>9, <2>1, <2>2, <3>2
    <3> QED
      BY <3>1, <3>2
  <2> QED
    BY <1>1, <1>4, <2>1, <2>2, SettleHandled DEF Kept
<1>10. CASE there = Linked
  <2>1. Settle("refused", row)
    BY <1>3, <1>10 DEF SecondRead
  <2>2. ASSUME NEW p \in Path \ folded, p = File, InStep(p) \/ Working(work, p, disk[p])
        PROVE  InStep(p)' \/ work.mode # "removal"
    BY <1>1, <1>3, <1>4, <1>5, <1>6, <1>10, <2>1, <2>2
  <2> QED
    BY <1>1, <1>4, <1>10, <2>1, <2>2, SettleHandled
<1>11. CASE there \notin {Gone, Linked} /\ text # Broken /\ there # work.seen
  <2>1. Settle("changed", row)
    BY <1>11 DEF SecondRead
  <2>2. ASSUME NEW p \in Path \ folded, p = File, InStep(p) \/ Working(work, p, disk[p])
        PROVE  InStep(p)'
    <3>1. InStep(p)
      BY <1>6, <1>11, <2>2
    <3>2. CASE work.mode = "awaiting"
      BY <1>8, <2>1, <2>2, <3>1, <3>2 DEF Dropping
    <3>3. CASE work.mode # "awaiting"
      BY <1>1, <1>4, <1>5, <2>1, <2>2, <3>1, <3>3
    <3> QED
      BY <3>2, <3>3
  <2> QED
    BY <1>1, <1>4, <2>1, <2>2, SettleHandled
<1>12. CASE there \notin {Gone, Linked} /\ text = Broken
  <2>1. Settle("parseFailed", row) \/ Settle("changed", row)
    BY <1>12 DEF SecondRead
  <2>2. ASSUME NEW p \in Path, p = File PROVE InStep(p)'
    <3>1. disk[p] \in Content
      BY <1>1, <1>12, <2>2 DEF TypeOK
    <3> QED
      BY <1>12, <2>2, <3>1, NamesAssumption DEF InStep, Still, Parsed
  <2> QED
    BY <1>1, <1>4, <2>1, <2>2, SettleHandled
<1>13. CASE there \notin {Gone, Linked} /\ text = NoText /\ there = work.seen
  <2> DEFINE rows == Without(row, {File})
  <2>1. Settle("nothing", rows)
    BY <1>13, NamesAssumption DEF SecondRead
  <2>2. rows \in RowMap /\ \A p \in Path : rows[p] = IF p = File THEN NoRow ELSE row[p]
    BY <1>1 DEF Without, RowMap
  <2>3. SettleCrossed(rows, File, "nothing") = Without(rows, {File})
    BY DEF SettleCrossed, Dropping
  <2> HIDE DEF rows
  <2>4. \A p \in Path : p = File => row'[p] = NoRow
    BY <1>4, <2>1, <2>2, <2>3 DEF Without
  <2>5. ASSUME NEW p \in Path, p = File PROVE InStep(p)'
    <3>1. disk[p] \in Content
      BY <1>1, <1>13, <2>5 DEF TypeOK
    <3> QED
      BY <1>13, <2>4, <2>5, <3>1 DEF InStep, Still, Parsed
  <2>6. \A p \in Path : p # File => row'[p] = row[p]
    BY <1>4, <2>1, <2>2
  <2> QED
    BY <1>1, <2>1, <2>5, <2>6, SettleHandled
<1>14. CASE there \notin {Gone, Linked} /\ text \notin {Broken, NoText} /\ there = work.seen
  <2> DEFINE rows == [row EXCEPT ![File] = RowOf(File, there)]
  <2>1. Settle("updated", rows)
    BY <1>14 DEF SecondRead
  <2>2. row' = rows
    BY <1>1, <2>1 DEF Settle, SettleCrossed
  <2>3. \A p \in Path : rows[p] = IF p = File THEN RowOf(File, there) ELSE row[p]
    BY <1>1 DEF RowMap
  <2> HIDE DEF rows
  <2>4. ASSUME NEW p \in Path, p = File PROVE InStep(p)'
    <3>1. disk[p] \in Content
      BY <1>1, <1>14, <2>4 DEF TypeOK
    <3> QED
      BY <1>14, <2>2, <2>3, <2>4, <3>1 DEF InStep, Still, Parsed, RowOf
  <2>5. \A p \in Path : p # File => row'[p] = row[p]
    BY <2>2, <2>3
  <2> QED
    BY <1>1, <2>1, <2>4, <2>5, SettleHandled
<1> QED
  BY <1>9, <1>10, <1>11, <1>12, <1>13, <1>14

\* A read of one file, with the looks around it, whatever the file does between them.
LEMMA ReadFileHandled == KeptInv /\ HandledInv /\ ReadFile /\ ~missed' => HandledInv'
<1> SUFFICES ASSUME KeptInv, HandledInv, ReadFile, ~missed' PROVE HandledInv'
  OBVIOUS
<1>1. Still
  BY DEF ReadFile, Outer, Surroundings, tree, Still
<1>2. TypeOK /\ work.todo \in Seq(TaskType) /\ DOMAIN work = DOMAIN Idle
  BY DEF KeptInv, TextInv, TypeOK
<1>3. Gone \notin Content /\ Linked \notin Content
  BY NamesAssumption
<1>4. CASE FirstRead \/ SecondRead
  BY <1>1, <1>4, FirstReadHandled, SecondReadHandled
<1>5. ASSUME AfterLook \/ ReindexLook \/ ReindexUnknown, row' = row PROVE HandledInv'
  <2>1. /\ work.todo # <<>> /\ work.step = "locked" /\ Now.kind \in {"after", "reindex"}
        /\ File = At
    BY <1>5 DEF AfterLook, ReindexLook, ReindexUnknown, Locked, AtStep, File
  <2>2. \A p : Working(work, p, disk[p]) <=> p = At
    BY <2>1, WorkingAt DEF Covers, Now, At
  <2>3. CASE Goto("drop") /\ disk[At] \notin Content
    BY <1>1, <1>5, <2>1, <2>2, <2>3, ToDrop
  <2>4. CASE \/ Now.kind = "after" /\ disk[At] \in Content /\ Read("removal")
             \/ Now.kind = "reindex" /\ Read("write")
    <3>1. /\ work'.todo = work.todo /\ work'.settled = work.settled /\ work'.step = "read"
          /\ \/ work'.mode = "removal" /\ disk[At] \in Content
             \/ work'.mode = "write"
      BY <1>2, <2>4 DEF Read, Idle
    <3>2. FileOf(work') = At /\ Now' = Now
      BY <2>1, <3>1 DEF FileOf, Now, At
    <3>3. AtRisk(work') = {} /\ ModesInv'
      BY <2>1, <3>1, <3>2 DEF AtRisk, ModesInv, AwaitsRead
    <3>4. \A p : p = At => Working(work', p, disk[p])
      BY <2>1, <3>1, <3>2, WorkingAt DEF ReadWork
    <3> QED
      BY <1>1, <1>5, <2>2, <3>1, <3>3, <3>4, SameInStep, GoesOnHandled
  <2> QED
    BY <1>3, <1>5, <2>3, <2>4 DEF AfterLook, ReindexLook, ReindexUnknown, Locked
<1>6. ASSUME Relook, row' = row PROVE HandledInv'
  <2>1. work.todo # <<>> /\ work.step = "relook" /\ Now.kind # "move" /\ File = At
    BY <1>6 DEF Relook, AtStep, File, HandledInv, ModesInv
  <2> DEFINE dropped == \/ disk[At] = Gone
                        \/ work.mode = "write" /\ work.result = "refused" /\ disk[At] = Linked
  <2>2. \A p : Working(work, p, disk[p]) <=> p = At /\ dropped
    <3>1. FileOf(work) = At
      BY <2>1 DEF FileOf, Now, At
    <3> QED
      BY <2>1, <3>1, WorkingAt DEF ReadWork
  <2>3. CASE dropped
    <3>1. Goto("drop")
      BY <1>6, <2>3 DEF Relook
    <3> QED
      BY <1>1, <1>3, <1>6, <2>1, <2>2, <2>3, <3>1, ToDrop
  <2>4. CASE ~dropped
    <3>1. work' = Then(<<>>)
      BY <1>6, <2>4 DEF Relook, Done
    <3> QED
      BY <1>1, <1>2, <1>6, <2>1, <2>2, <2>4, <3>1, SameInStep, EndsNone
  <2> QED
    BY <2>3, <2>4
<1> QED
  BY <1>4, <1>5, <1>6 DEF ReadFile, Fault

(***************************************************************************)
(* A renamed file                                                          *)
(***************************************************************************)

\* Where a rename stands: two paths, and the one it takes the row of is covered by what follows.
LEMMA MoveFacts ==
    ASSUME KeptInv, HandledInv, work.todo # <<>>, Now.kind = "move",
           work.step = "locked" \/ work.step \in MoveSteps
    PROVE  /\ TypeOK /\ row \in RowMap /\ work.todo \in Seq(TaskType)
           /\ At \in Path /\ To \in Path /\ At # To
           /\ disk[At] \in Content => Follows(At)
           /\ \A p : Working(work, p, disk[p]) => p \in {At, To}
           /\ \A p \in Path : disk[p] \in Content \cup {Gone, Linked}
           /\ Gone \notin Content /\ Linked \notin Content /\ Gone # Linked
<1>1. /\ TypeOK /\ row \in RowMap /\ work.todo \in Seq(TaskType)
      /\ \A p \in Path : disk[p] \in Content \cup {Gone, Linked}
  BY RowsNow DEF KeptInv, TextInv, TypeOK
<1>2. At \in Path /\ To \in Path
  BY <1>1, TaskTyped
<1>3. 1 \in DOMAIN work.todo /\ work.todo[1] = Now
  BY <1>1 DEF Now
<1>4. At # To
  BY <1>3 DEF HandledInv, Tidy, Proper, At, To
<1>5. disk[At] \in Content => Follows(At)
  BY <1>2, <1>3 DEF HandledInv, TodoCovered, Takes, Follows, At
<1>6. ASSUME NEW p, Working(work, p, disk[p]) PROVE p \in {At, To}
  <2>1. CASE work.step = "locked"
    BY <1>6, <2>1, WorkingAt DEF Covers, Now, At, To
  <2>2. CASE work.step \in MoveSteps
    BY <1>6, <2>2, WorkingAt DEF MoveWork, Now, At, To
  <2> QED
    BY <2>1, <2>2
<1> QED
  BY <1>1, <1>2, <1>4, <1>5, <1>6, NamesAssumption

\* A rename that goes on.
LEMMA MoveGoes ==
    ASSUME KeptInv, HandledInv, Still, work.todo # <<>>, Now.kind = "move",
           work.step = "locked" \/ work.step \in MoveSteps,
           work'.todo = work.todo, work'.settled = work.settled,
           \A p \in Path : p \notin {At, To} => row'[p] = row[p],
           \A p \in Path : p = To /\ (InStep(p) \/ Working(work, p, disk[p])) =>
               InStep(p)' \/ Working(work', p, disk[p]) \/ Follows(p),
           \A p \in Path : p = At /\ disk[p] \notin Content /\ (InStep(p) \/ Working(work, p, disk[p])) =>
               InStep(p)' \/ Working(work', p, disk[p]),
           \A p \in AtRisk(work') : p = To /\ disk[p] \notin Content,
           ModesInv'
    PROVE  HandledInv'
<1>1. ASSUME NEW p \in Path \ folded, InStep(p) \/ Working(work, p, disk[p])
      PROVE  InStep(p)' \/ Working(work', p, disk[p]) \/ Follows(p)
  <2>1. CASE p \notin {At, To}
    <3>1. InStep(p)
      BY <1>1, <2>1, MoveFacts
    <3> QED
      BY <2>1, <3>1, SameInStep
  <2>2. CASE p = At
    BY <1>1, <2>2, MoveFacts
  <2>3. CASE p = To
    BY <1>1, <2>3
  <2> QED
    BY <2>1, <2>2, <2>3
<1> QED
  BY <1>1, GoesOnHandled

\* A row that was settled at the destination.
LEMMA MoveSettles ==
    ASSUME KeptInv, HandledInv, Still, work.todo # <<>>, Now.kind = "move", work.step \in MoveSteps,
           Settled(To),
           \A p \in Path : p \notin {At, To} => row'[p] = row[p],
           \A p \in Path : p = To => InStep(p)' \/ Waiting(p),
           \A p \in Path : p = At /\ disk[p] \notin Content /\ (InStep(p) \/ Working(work, p, disk[p])) =>
               InStep(p)'
    PROVE  HandledInv'
<1>1. ASSUME NEW p \in Path \ folded, p # To, InStep(p) \/ Working(work, p, disk[p])
      PROVE  InStep(p)' \/ Follows(p)
  <2>1. CASE p # At
    <3>1. InStep(p)
      BY <1>1, <2>1, MoveFacts
    <3> QED
      BY <1>1, <2>1, <3>1, SameInStep
  <2>2. CASE p = At
    BY <1>1, <2>2, MoveFacts
  <2> QED
    BY <2>1, <2>2
<1>2. SettledAt(To) /\ DOMAIN work = DOMAIN Idle /\ work.todo \in Seq(TaskType)
  BY MoveFacts DEF Settled, TypeOK
<1>3. work'.step = "linkCheck"
  BY <1>2 DEF SettledAt, Idle
<1>4. ModesInv'
  BY <1>3 DEF ModesInv, AwaitsRead
<1> QED
  BY <1>1, <1>2, <1>4, SettledHandled

\* The rows of the two ends of a rename, and those of all other paths.
LEMMA RowsAt ==
    ASSUME NEW rows \in RowMap, NEW p \in Path, NEW q \in Path, p # q
    PROVE  /\ Carried(rows, p, q)[q] = rows[p] /\ Carried(rows, p, q)[p] = NoRow
           /\ Marked(rows, p)[p] # NoRow <=> rows[p] # NoRow
           /\ rows[p] # NoRow => Marked(rows, p)[p].hash = Awaiting
           /\ \A paths : /\ Without(rows, paths)[p] = (IF p \in paths THEN NoRow ELSE rows[p])
                         /\ Without(rows, paths)[q] = (IF q \in paths THEN NoRow ELSE rows[q])
           /\ \A r \in Path : r \notin {p, q} =>
                  /\ Carried(rows, p, q)[r] = rows[r]
                  /\ \A paths \in SUBSET {p, q} : Without(rows, paths)[r] = rows[r]
           /\ \A r \in Path : r # p => Marked(rows, p)[r] = rows[r]
<1>1. /\ Carried(rows, p, q)[q] = rows[p] /\ Carried(rows, p, q)[p] = NoRow
      /\ \A r \in Path : r \notin {p, q} => Carried(rows, p, q)[r] = rows[r]
  BY DEF Carried, RowMap
<1>2. /\ Marked(rows, p)[p] # NoRow <=> rows[p] # NoRow
      /\ rows[p] # NoRow => Marked(rows, p)[p].hash = Awaiting
      /\ \A r \in Path : r # p => Marked(rows, p)[r] = rows[r]
  BY RowAssumption DEF Marked, RowMap, Row
<1>3. /\ \A paths : /\ Without(rows, paths)[p] = (IF p \in paths THEN NoRow ELSE rows[p])
                    /\ Without(rows, paths)[q] = (IF q \in paths THEN NoRow ELSE rows[q])
      /\ \A r \in Path : r \notin {p, q} =>
             \A paths \in SUBSET {p, q} : Without(rows, paths)[r] = rows[r]
  BY DEF Without
<1> QED
  BY <1>1, <1>2, <1>3

\* A path with no file needs no row.
LEMMA NotThere ==
    ASSUME Still, NEW p, disk[p] \notin Content, row'[p] = NoRow
    PROVE  InStep(p)'
BY DEF Still, InStep

\* A rename of one file, whatever its two ends do between the looks.
LEMMA MoveFileHandled == KeptInv /\ HandledInv /\ MoveFile /\ ~missed' => HandledInv'
<1> SUFFICES ASSUME KeptInv, HandledInv, MoveFile, ~missed' PROVE HandledInv'
  OBVIOUS
<1>1. /\ Still /\ work.todo # <<>> /\ Now.kind = "move"
      /\ work.step = "locked" \/ work.step \in MoveSteps
  BY DEF MoveFile, MoveLook, MarkUnread, DropBoth, Stat, DropMoved, RenameRead, Reparse, RelookMove,
         SettleNew, SettleOld, LinkCheck, Fault, Locked, AtStep, KeptInv, TextInv, WhereInv, MoveSteps,
         Surroundings, tree, Still
<1>2. /\ TypeOK /\ row \in RowMap /\ work.todo \in Seq(TaskType) /\ At \in Path /\ To \in Path /\ At # To
      /\ DOMAIN work = DOMAIN Idle
      /\ \A p \in Path : disk[p] \in Content \cup {Gone, Linked}
      /\ Gone \notin Content /\ Linked \notin Content /\ Gone # Linked
  BY <1>1, MoveFacts DEF TypeOK
<1>3. /\ ModesInv /\ ~unmarked /\ (work.step # "dropMoved" => RowsOK(row))
      /\ \A p : work.step = "locked" =>
            (Working(work, p, disk[p]) <=> p = To \/ (p = At /\ disk[p] \notin Content))
      /\ \A p : work.step \in MoveSteps => (Working(work, p, disk[p]) <=> MoveWork(work, p, disk[p]))
  <2>1. work.step # "dropMoved" => RowsOK(row)
    BY RowsNow DEF HandledInv, ModesInv, KeptInv, Half
  <2>2. \A p : work.step = "locked" =>
            (Working(work, p, disk[p]) <=> p = To \/ (p = At /\ disk[p] \notin Content))
    BY <1>1, WorkingAt DEF Covers, Now, At, To
  <2>3. \A p : work.step \in MoveSteps => (Working(work, p, disk[p]) <=> MoveWork(work, p, disk[p]))
    BY <1>1, WorkingAt
  <2> QED
    BY <2>1, <2>2, <2>3 DEF HandledInv
\* The next step, and what it works at.
<1>4. /\ \A step : Goto(step) =>
            work'.todo = work.todo /\ work'.settled = work.settled /\ work'.step = step
      /\ \A step, result : GotoAfter(step, result) =>
            /\ work'.todo = work.todo /\ work'.settled = work.settled /\ work'.step = step
            /\ work'.result = result
      /\ \A mode : Read(mode) =>
            /\ work'.todo = work.todo /\ work'.settled = work.settled /\ work'.step = "read"
            /\ work'.mode = mode
      /\ work'.todo = work.todo =>
            /\ Now' = Now /\ At' = At /\ To' = To /\ FileOf(work') = To
            /\ work'.step \in {"dropBoth", "dropMoved"} => AtRisk(work') = {To}
            /\ work'.step \notin {"drop", "dropBoth", "dropMoved", "sweep"} => AtRisk(work') = {}
            /\ work'.step \in MoveSteps =>
                  \A p : Working(work', p, disk[p]) <=> MoveWork(work', p, disk[p])
            /\ work'.step = "read" =>
                  \A p : Working(work', p, disk[p]) <=> ReadWork(work', p, disk[p])
  <2>1. /\ \A step : Goto(step) =>
              work'.todo = work.todo /\ work'.settled = work.settled /\ work'.step = step
        /\ \A step, result : GotoAfter(step, result) =>
              /\ work'.todo = work.todo /\ work'.settled = work.settled /\ work'.step = step
              /\ work'.result = result
        /\ \A mode : Read(mode) =>
              /\ work'.todo = work.todo /\ work'.settled = work.settled /\ work'.step = "read"
              /\ work'.mode = mode
    BY <1>2 DEF Goto, GotoAfter, Read, Idle
  <2>2. work'.todo = work.todo => Now' = Now /\ At' = At /\ To' = To /\ FileOf(work') = To
    BY <1>1 DEF Now, At, To, FileOf
  <2>3. work'.todo = work.todo /\ work'.step \in {"dropBoth", "dropMoved"} => AtRisk(work') = {To}
    BY DEF AtRisk, Now, To
  <2>4. work'.step \notin {"drop", "dropBoth", "dropMoved", "sweep"} => AtRisk(work') = {}
    BY DEF AtRisk
  <2>5. work'.todo = work.todo /\ work'.step \in MoveSteps =>
            \A p : Working(work', p, disk[p]) <=> MoveWork(work', p, disk[p])
    BY <1>1, WorkingAt
  <2>6. work'.todo = work.todo /\ work'.step = "read" =>
            \A p : Working(work', p, disk[p]) <=> ReadWork(work', p, disk[p])
    BY <1>1, WorkingAt
  <2> QED
    BY <2>1, <2>2, <2>3, <2>4, <2>5, <2>6
<1>5. /\ work' = [work EXCEPT !.step = "stat", !.cleared = HasRow(To)] =>
            work'.todo = work.todo /\ work'.settled = work.settled /\ work'.step = "stat"
      /\ work' = [work EXCEPT !.step = "reparse", !.seen = disk[To]] =>
            work'.todo = work.todo /\ work'.settled = work.settled /\ work'.step = "reparse"
  BY <1>2 DEF Idle
<1>6. CASE MoveLook
  <2>1. work.step = "locked"
    BY <1>6 DEF MoveLook, Locked, AtStep
  <2>2. CASE disk[To] = Gone
    <3>1. Goto("dropBoth") /\ row' = row
      BY <1>6, <2>2 DEF MoveLook
    <3>2. /\ work'.todo = work.todo /\ work'.settled = work.settled /\ work'.step = "dropBoth"
          /\ AtRisk(work') = {To} /\ Now' = Now
          /\ \A p : Working(work', p, disk[p]) <=> MoveWork(work', p, disk[p])
      BY <1>4, <3>1 DEF MoveSteps
    <3>3. \A p \in {At, To} : disk[p] \notin Content => Working(work', p, disk[p])
      BY <3>2 DEF MoveWork, Now, At, To
    <3>4. ModesInv'
      BY <3>2 DEF ModesInv, AwaitsRead
    <3> QED
      BY <1>1, <1>2, <2>2, <3>1, <3>2, <3>3, <3>4, MoveGoes
  <2>3. CASE disk[To] # Gone /\ ~HasRow(At)
    <3>1. Read("missing") /\ row' = row
      BY <1>6, <2>3 DEF MoveLook
    <3>2. /\ work'.todo = work.todo /\ work'.settled = work.settled /\ work'.step = "read"
          /\ work'.mode = "missing" /\ AtRisk(work') = {} /\ Now' = Now /\ FileOf(work') = To
          /\ \A p : Working(work', p, disk[p]) <=> ReadWork(work', p, disk[p])
      BY <1>4, <3>1
    <3>3. Working(work', To, disk[To])
      BY <1>2, <2>3, <3>2 DEF ReadWork
    <3>4. ModesInv'
      BY <1>1, <3>2 DEF ModesInv, AwaitsRead
    <3>5. disk[At] \notin Content => InStep(At)
      BY <2>3 DEF HasRow, InStep
    <3>6. \A p \in Path : InStep(p) => InStep(p)'
      BY <1>1, <3>1, SameInStep
    <3> QED
      BY <1>1, <1>2, <3>1, <3>2, <3>3, <3>4, <3>5, <3>6, MoveGoes
  <2>4. CASE disk[To] # Gone /\ HasRow(At)
    <3>1. /\ row' = Without(row, {To}) /\ work' = [work EXCEPT !.step = "stat", !.cleared = HasRow(To)]
      BY <1>6, <2>4 DEF MoveLook
    <3>2. /\ work'.todo = work.todo /\ work'.settled = work.settled /\ work'.step = "stat"
          /\ AtRisk(work') = {} /\ Now' = Now /\ At' = At /\ To' = To
          /\ \A p : Working(work', p, disk[p]) <=> MoveWork(work', p, disk[p])
      BY <1>4, <1>5, <3>1 DEF MoveSteps
    <3>3. \A p : p = To \/ (p = At /\ disk[p] \notin Content) => Working(work', p, disk[p])
      BY <3>2 DEF MoveWork, Now, At, To
    <3>4. row'[To] = NoRow /\ row'[At] = row[At] /\ \A p \in Path : p \notin {At, To} => row'[p] = row[p]
      BY <1>2, <3>1, RowsAt
    <3>5. ModesInv'
      BY <2>4, <3>2, <3>4 DEF ModesInv, AwaitsRead, HasRow
    <3> QED
      BY <1>1, <1>2, <3>2, <3>3, <3>4, <3>5, MoveGoes
  <2> QED
    BY <2>2, <2>3, <2>4
<1>7. CASE DropBoth
  <2>1. work.step = "dropBoth" /\ row' = Without(row, {At, To}) /\ Goto("linkCheck")
    BY <1>7 DEF DropBoth, AtStep
  <2>2. /\ work'.todo = work.todo /\ work'.settled = work.settled /\ work'.step = "linkCheck"
        /\ AtRisk(work') = {}
    BY <1>4, <2>1
  <2>3. \A p \in {At, To} : row'[p] = NoRow
    BY <1>2, <2>1 DEF Without
  <2>4. disk[To] \in Content => Follows(To)
    BY <1>2, <2>1 DEF HandledInv, DropsCovered, AtRisk, Now, To, Follows, Later
  <2>5. ModesInv'
    BY <2>2 DEF ModesInv, AwaitsRead
  <2>6. \A p \in Path : p \notin {At, To} => row'[p] = row[p]
    BY <1>2, <2>1 DEF Without
  <2> QED
    BY <1>1, <1>2, <2>2, <2>3, <2>4, <2>5, <2>6, NotThere, MoveGoes
<1>8. CASE Stat
  <2>1. work.step = "stat" /\ HasRow(At) /\ ~HasRow(To)
    BY <1>3, <1>8 DEF Stat, AtStep, ModesInv
  <2>2. CASE disk[To] = Gone
    <3>1. row' = Carried(row, At, To) /\ Goto("dropMoved")
      BY <1>8, <2>2 DEF Stat
    <3>2. /\ work'.todo = work.todo /\ work'.settled = work.settled /\ work'.step = "dropMoved"
          /\ AtRisk(work') = {To} /\ Now' = Now
          /\ \A p : Working(work', p, disk[p]) <=> MoveWork(work', p, disk[p])
      BY <1>4, <3>1 DEF MoveSteps
    <3>3. Working(work', To, disk[To]) /\ ModesInv'
      BY <1>2, <2>2, <3>2 DEF MoveWork, Now, To, ModesInv, AwaitsRead
    <3>4. row'[At] = NoRow /\ \A p \in Path : p \notin {At, To} => row'[p] = row[p]
      BY <1>2, <3>1, RowsAt
    <3> QED
      BY <1>1, <1>2, <2>2, <3>2, <3>3, <3>4, NotThere, MoveGoes
  <2>3. CASE disk[To] # Gone
    <3>1. Goto("renameRead") /\ row' = IF Crosses(At, To) THEN Marked(row, At) ELSE row
      BY <1>8, <2>3 DEF Stat
    <3>2. /\ work'.todo = work.todo /\ work'.settled = work.settled /\ work'.step = "renameRead"
          /\ AtRisk(work') = {} /\ Now' = Now /\ At' = At /\ To' = To
          /\ \A p : Working(work', p, disk[p]) <=> MoveWork(work', p, disk[p])
      BY <1>4, <3>1 DEF MoveSteps
    <3>3. \A p : p = To \/ (p = At /\ disk[p] \notin Content) => Working(work', p, disk[p])
      BY <3>2 DEF MoveWork, Now, At, To
    <3>4. row'[At] # NoRow /\ \A p \in Path : p \notin {At, To} => row'[p] = row[p]
      BY <1>2, <2>1, <3>1, RowsAt DEF HasRow
    <3>5. ModesInv'
      BY <3>2, <3>4 DEF ModesInv, AwaitsRead, HasRow
    <3> QED
      BY <1>1, <1>2, <3>2, <3>3, <3>4, <3>5, MoveGoes
  <2> QED
    BY <2>2, <2>3
<1>9. CASE RenameRead
  <2>1. work.step = "renameRead" /\ HasRow(At)
    BY <1>3, <1>9 DEF RenameRead, AtStep, ModesInv
  <2>2. /\ Carried(row, At, To)[To] = row[At] /\ Carried(row, At, To)[At] = NoRow
        /\ Carried(row, At, To) \in RowMap
        /\ \A p \in Path : p \notin {At, To} => Carried(row, At, To)[p] = row[p]
    BY <1>2, RowsAt, CarriedTyped
  <2>3. CASE disk[To] = Linked /\ Crosses(At, To)
    <3>1. row' = Without(Carried(row, At, To), {To}) /\ Settled(To)
      BY <1>9, <2>3 DEF RenameRead, DroppedAt
    <3>2. row'[At] = NoRow /\ row'[To] = NoRow /\ \A p \in Path : p \notin {At, To} => row'[p] = row[p]
      BY <1>2, <2>2, <3>1 DEF Without
    <3> QED
      BY <1>1, <1>2, <2>1, <2>3, <3>1, <3>2, NotThere, MoveSettles DEF MoveSteps
  <2>4. CASE disk[To] \notin Content /\ ~(disk[To] = Linked /\ Crosses(At, To))
    <3> DEFINE result == IF Crosses(At, To) THEN "awaiting" ELSE "none"
    <3>1. row' = Carried(row, At, To) /\ GotoAfter("relookMove", result)
      BY <1>9, <2>4 DEF RenameRead, MovedUnread
    <3>2. /\ work'.todo = work.todo /\ work'.settled = work.settled /\ work'.step = "relookMove"
          /\ work'.result = result
          /\ AtRisk(work') = {} /\ Now' = Now /\ At' = At /\ To' = To
          /\ \A p : Working(work', p, disk[p]) <=> MoveWork(work', p, disk[p])
      BY <1>4, <3>1 DEF MoveSteps
    <3>3. Working(work', To, disk[To])
      BY <2>4, <3>2 DEF MoveWork, Now, To
    <3>4. Crosses(At, To) => row[At].hash = Awaiting
      BY <2>1 DEF KeptInv, TextInv, MarkInv
    <3>5. ModesInv'
      BY <2>2, <3>1, <3>2, <3>4 DEF ModesInv, AwaitsRead, HasRow
    <3> QED
      BY <1>1, <1>2, <2>2, <3>1, <3>2, <3>3, <3>5, NotThere, MoveGoes
  <2>5. CASE disk[To] \in Content /\ row[At].hash = disk[To] /\ ~Crosses(At, To)
    <3>1. row' = Carried(row, At, To) /\ Settled(To)
      BY <1>2, <1>9, <2>5 DEF RenameRead
    <3>2. row[At] = RowOf(To, disk[To]) /\ Parsed(To, disk[To]) \in Text
      <4>1. row[At] \in Row /\ row[At].text = Parsed(At, row[At].hash)
        BY <1>2, <1>3, <2>1, <2>5, NamesAssumption DEF RowMap, RowsOK, RowOK, HasRow
      <4>2. Parsed(At, disk[To]) = Parsed(To, disk[To])
        BY <2>5 DEF Parsed, Crosses
      <4>3. row[At].text \in Text
        BY <4>1 DEF Row
      <4> QED
        BY <2>5, <4>1, <4>2, <4>3 DEF Row, RowOf
    <3>3. \A p \in Path : p = To => InStep(p)'
      <4>1. row'[To] = RowOf(To, disk[To])
        BY <2>2, <3>1, <3>2
      <4> QED
        BY <1>1, <2>5, <3>2, <4>1, NamesAssumption DEF InStep, Still, Parsed, RowOf
    <3> QED
      BY <1>1, <1>2, <2>1, <2>2, <3>1, <3>3, NotThere, MoveSettles DEF MoveSteps
  <2>6. CASE disk[To] \in Content /\ ~(row[At].hash = disk[To] /\ ~Crosses(At, To))
    <3>1. row' = Carried(row, At, To) /\ work' = [work EXCEPT !.step = "reparse", !.seen = disk[To]]
      BY <1>2, <1>9, <2>6 DEF RenameRead
    <3>2. /\ work'.todo = work.todo /\ work'.settled = work.settled /\ work'.step = "reparse"
          /\ AtRisk(work') = {} /\ Now' = Now
          /\ \A p : Working(work', p, disk[p]) <=> MoveWork(work', p, disk[p])
      BY <1>4, <1>5, <3>1 DEF MoveSteps
    <3>3. Working(work', To, disk[To]) /\ ModesInv'
      BY <3>2 DEF MoveWork, Now, To, ModesInv, AwaitsRead
    <3> QED
      BY <1>1, <1>2, <2>2, <3>1, <3>2, <3>3, NotThere, MoveGoes
  <2> QED
    BY <2>3, <2>4, <2>5, <2>6
<1>10. CASE Reparse
  <2>1. work.step = "reparse"
    BY <1>10 DEF Reparse, AtStep
  <2>2. \A p : Working(work, p, disk[p]) => p = To
    BY <1>3, <2>1 DEF MoveWork, MoveSteps, Now, To
  <2> DEFINE there == disk[To]
             changed == Crosses(At, To) /\ there # work.seen
  <2>3. ASSUME NEW result, GotoAfter("relookMove", result), there \notin Content \/ result # "none",
               result = "awaiting" /\ row'[To] # NoRow => row'[To].hash = Awaiting,
               \A p \in Path : p # To => row'[p] = row[p]
        PROVE  HandledInv'
    <3>1. /\ work'.todo = work.todo /\ work'.settled = work.settled /\ work'.step = "relookMove"
          /\ work'.result = result
          /\ AtRisk(work') = {} /\ Now' = Now /\ At' = At /\ To' = To
          /\ \A p : Working(work', p, disk[p]) <=> MoveWork(work', p, disk[p])
      BY <1>4, <2>3 DEF MoveSteps
    <3>2. Working(work', To, disk[To])
      BY <2>3, <3>1 DEF MoveWork, Now, To
    <3>3. ModesInv'
      BY <2>3, <3>1 DEF ModesInv, AwaitsRead, HasRow
    <3>4. \A p \in Path : p # To /\ InStep(p) => InStep(p)'
      BY <1>1, <2>3, SameInStep
    <3> QED
      BY <1>1, <1>2, <2>2, <2>3, <3>1, <3>2, <3>3, <3>4, MoveGoes
  <2>4. ASSUME Settled(To), \A p \in Path : p = To => InStep(p)',
               \A p \in Path : p # To => row'[p] = row[p]
        PROVE  HandledInv'
    <3>1. \A p \in Path : p # To /\ InStep(p) => InStep(p)'
      BY <1>1, <2>4, SameInStep
    <3> QED
      BY <1>1, <1>2, <2>1, <2>2, <2>4, <3>1, MoveSettles DEF MoveSteps
  <2>5. CASE there \in Content /\ ~changed /\ Parsed(To, there) \in Text
    <3>1. row' = [row EXCEPT ![To] = RowOf(To, there)] /\ Settled(To)
      BY <1>10, <2>5 DEF Reparse
    <3>2. row'[To] = RowOf(To, disk[To]) /\ \A p \in Path : p # To => row'[p] = row[p]
      BY <1>2, <3>1 DEF RowMap
    <3>3. \A p \in Path : p = To => InStep(p)'
      BY <1>1, <2>5, <3>2, NamesAssumption DEF InStep, Still, Parsed, RowOf
    <3> QED
      BY <2>4, <3>1, <3>2, <3>3
  <2>6. CASE there \in Content /\ changed
    <3>1. row' = Marked(row, To) /\ GotoAfter("relookMove", "awaiting")
      BY <1>10, <2>6 DEF Reparse
    <3>2. /\ row'[To] # NoRow => row'[To].hash = Awaiting
          /\ \A p \in Path : p # To => row'[p] = row[p]
      BY <1>2, <3>1, RowsAt
    <3> QED
      BY <2>3, <3>1, <3>2
  <2>7. CASE Crosses(At, To) /\ ~changed /\ ~(there \in Content /\ Parsed(To, there) \in Text)
    <3>1. row' = Without(row, {To}) /\ Settled(To)
      BY <1>10, <2>7 DEF Reparse
    <3>2. row'[To] = NoRow /\ \A p \in Path : p # To => row'[p] = row[p]
      BY <1>2, <3>1 DEF Without
    <3>3. \A p \in Path : p = To => InStep(p)'
      <4>1. there \in Content => Parsed(To, there) \in {NoText, Broken}
        BY <1>2, <2>7, ParsedTyped
      <4> QED
        BY <1>1, <3>2, <4>1 DEF InStep, Still, Parsed
    <3> QED
      BY <2>4, <3>1, <3>2, <3>3
  <2>8. CASE Crosses(At, To) /\ changed /\ there \notin Content
    <3>1. row' = Without(row, {To}) /\ Settled(To)
      BY <1>10, <2>8 DEF Reparse
    <3>2. row'[To] = NoRow /\ \A p \in Path : p # To => row'[p] = row[p]
      BY <1>2, <3>1 DEF Without
    <3>3. \A p \in Path : p = To => InStep(p)'
      BY <1>1, <2>8, <3>2, NotThere
    <3> QED
      BY <2>4, <3>1, <3>2, <3>3
  <2>9. CASE ~Crosses(At, To) /\ ~(there \in Content /\ Parsed(To, there) \in Text)
    <3> DEFINE result == IF there = Linked THEN "none" ELSE "notReindexed"
    <3>1. row' = row /\ GotoAfter("relookMove", result)
      BY <1>10, <2>9 DEF Reparse
    <3>2. (there \notin Content \/ result # "none") /\ result # "awaiting"
      BY <1>2
    <3> QED
      BY <2>3, <3>1, <3>2
  <2> QED
    BY <2>5, <2>6, <2>7, <2>8, <2>9
<1>11. CASE RelookMove
  <2>1. work.step = "relookMove"
    BY <1>11 DEF RelookMove, AtStep
  <2>2. \A p : Working(work, p, disk[p]) =>
            p = To /\ (work.result # "none" \/ disk[To] \notin Content)
    BY <1>3, <2>1 DEF MoveWork, MoveSteps, Now, To
  <2>3. CASE disk[To] = Gone
    <3>1. row' = Without(row, {To}) /\ Goto("linkCheck")
      BY <1>11, <2>3 DEF RelookMove
    <3>2. /\ work'.todo = work.todo /\ work'.settled = work.settled /\ work'.step = "linkCheck"
          /\ AtRisk(work') = {}
      BY <1>4, <3>1
    <3>3. row'[To] = NoRow /\ \A p \in Path : p # To => row'[p] = row[p]
      BY <1>2, <3>1 DEF Without
    <3>4. ModesInv' /\ \A p \in Path : p # To /\ InStep(p) => InStep(p)'
      BY <1>1, <3>2, <3>3, SameInStep DEF ModesInv, AwaitsRead
    <3> QED
      BY <1>1, <1>2, <2>2, <2>3, <3>2, <3>3, <3>4, NotThere, MoveGoes
  <2>4. CASE disk[To] # Gone /\ work.result = "none"
    <3>1. row' = row /\ Goto("linkCheck")
      BY <1>11, <2>4 DEF RelookMove
    <3>2. /\ work'.todo = work.todo /\ work'.settled = work.settled /\ work'.step = "linkCheck"
          /\ AtRisk(work') = {} /\ Now' = Now
          /\ \A p : Working(work', p, disk[p]) <=> MoveWork(work', p, disk[p])
      BY <1>4, <3>1 DEF MoveSteps
    <3>3. disk[To] = Linked => Working(work', To, disk[To])
      BY <3>2 DEF MoveWork, Now, To
    <3>4. ModesInv' /\ \A p \in Path : InStep(p) => InStep(p)'
      BY <1>1, <3>1, <3>2, SameInStep DEF ModesInv, AwaitsRead
    <3> QED
      BY <1>1, <1>2, <2>2, <2>4, <3>1, <3>2, <3>3, <3>4, MoveGoes
  <2>5. CASE disk[To] # Gone /\ work.result # "none"
    <3> DEFINE mode == IF work.result = "awaiting" THEN "awaiting" ELSE "again"
    <3>1. row' = row /\ Read(mode)
      BY <1>11, <2>5 DEF RelookMove
    <3>2. /\ work'.todo = work.todo /\ work'.settled = work.settled /\ work'.step = "read"
          /\ work'.mode = mode /\ AtRisk(work') = {} /\ Now' = Now /\ To' = To /\ FileOf(work') = To
          /\ \A p : Working(work', p, disk[p]) <=> ReadWork(work', p, disk[p])
      BY <1>4, <3>1
    <3>3. Working(work', To, disk[To])
      BY <1>2, <2>5, <3>2 DEF ReadWork
    <3>4. mode = "awaiting" => AwaitsRead
      BY <2>1 DEF AwaitsRead
    <3>5. ModesInv'
      BY <1>1, <1>3, <3>1, <3>2, <3>4 DEF ModesInv, AwaitsRead, HasRow
    <3>6. \A p \in Path : InStep(p) => InStep(p)'
      BY <1>1, <3>1, SameInStep
    <3> QED
      BY <1>1, <1>2, <2>2, <3>1, <3>2, <3>3, <3>5, <3>6, MoveGoes
  <2> QED
    BY <2>3, <2>4, <2>5
<1>12. CASE LinkCheck
  <2>1. work.step = "linkCheck" /\ row' = row /\ File = To
    BY <1>1, <1>12 DEF LinkCheck, AtStep, File
  <2>2. \A p : Working(work, p, disk[p]) => p = To /\ disk[p] = Linked
    BY <1>3, <2>1 DEF MoveWork, MoveSteps, Now, To
  <2>3. CASE disk[To] = Linked
    <3>1. Goto("drop")
      BY <1>12, <2>3 DEF LinkCheck
    <3> QED
      BY <1>1, <1>2, <2>1, <2>2, <2>3, <3>1, ToDrop
  <2>4. CASE disk[To] # Linked
    <3>1. work' = Then(<<>>)
      BY <1>12, <2>4 DEF LinkCheck, Done
    <3> QED
      BY <1>1, <1>2, <2>1, <2>2, <2>4, <3>1, SameInStep, EndsNone
  <2> QED
    BY <2>3, <2>4
<1>13. CASE DropMoved
  <2>1. work.step = "dropMoved" /\ row' = Without(row, {To}) /\ Settled(To)
    BY <1>13 DEF DropMoved, AtStep
  <2>2. disk[To] \in Content => Waiting(To)
    BY <1>2, <2>1 DEF HandledInv, DropsCovered, AtRisk, Now, To
  <2>3. row'[To] = NoRow /\ \A p \in Path : p # To => row'[p] = row[p]
    BY <1>2, <2>1 DEF Without
  <2>4. \A p : Working(work, p, disk[p]) => p = To
    BY <1>3, <2>1 DEF MoveWork, MoveSteps, Now, To
  <2>5. \A p \in Path : p # To /\ InStep(p) => InStep(p)'
    BY <1>1, <2>3, SameInStep
  <2> QED
    BY <1>1, <1>2, <2>1, <2>2, <2>3, <2>4, <2>5, NotThere, MoveSettles DEF MoveSteps
\* A run without a fault moves no row unread, and its renames do not fail.
<1>14. ~(MarkUnread \/ SettleNew \/ SettleOld)
  BY <1>3 DEF MarkUnread, SettleNew, SettleOld, AtStep, ModesInv
<1> QED
  BY <1>6, <1>7, <1>8, <1>9, <1>10, <1>11, <1>12, <1>13, <1>14 DEF MoveFile, Fault

(***************************************************************************)
(* A batch is taken, and the rebuild requests                              *)
(***************************************************************************)

\* A batch that is taken covers what it covered in the channel.
LEMMA TakeBatchHandled == KeptInv /\ HandledInv /\ TakeBatch => HandledInv'
<1> SUFFICES ASSUME KeptInv, HandledInv, TakeBatch PROVE HandledInv'
  OBVIOUS
<1> DEFINE batch == Head(channel)
<1>1. /\ channel \in Seq(Seq(TaskType)) /\ channel # <<>> /\ channel' = Tail(channel)
      /\ UNCHANGED <<disk, row, pending, folded, unmarked>> /\ work.todo = <<>>
  BY DEF KeptInv, TextInv, TypeOK, TakeBatch, tree, history
<1>2. /\ work'.todo = batch /\ work'.step = "next" /\ work'.settled = {}
  BY DEF TakeBatch, Idle
<1>3. /\ 1 \in DOMAIN channel /\ channel[1] = batch /\ batch \in Seq(TaskType)
      /\ \A k \in DOMAIN channel : k \in Nat
      /\ \A k \in DOMAIN channel' : k \in Nat /\ k >= 1
      /\ \A k \in DOMAIN channel' : k + 1 \in DOMAIN channel /\ channel'[k] = channel[k + 1]
      /\ \A k \in DOMAIN channel : k > 1 => k - 1 \in DOMAIN channel' /\ channel'[k - 1] = channel[k]
      /\ \A k \in DOMAIN channel : k = 1 \/ k > 1
  <2>1. /\ DOMAIN channel = 1..Len(channel) /\ Len(channel) \in Nat /\ Len(channel) >= 1
        /\ batch = channel[1] /\ batch \in Seq(TaskType)
        /\ Tail(channel) \in Seq(Seq(TaskType)) /\ Len(Tail(channel)) = Len(channel) - 1
        /\ DOMAIN Tail(channel) = 1..(Len(channel) - 1)
        /\ \A k \in 1..(Len(channel) - 1) : Tail(channel)[k] = channel[k + 1]
    BY <1>1
  <2> HIDE DEF batch
  <2>2. \A k \in DOMAIN channel : k > 1 =>
            k - 1 \in DOMAIN Tail(channel) /\ Tail(channel)[k - 1] = channel[k]
    BY <2>1
  <2>3. \A k \in DOMAIN Tail(channel) : k + 1 \in DOMAIN channel /\ Tail(channel)[k] = channel[k + 1]
    BY <2>1
  <2>4. 1 \in DOMAIN channel /\ \A k \in DOMAIN channel : k \in Nat /\ (k = 1 \/ k > 1)
    BY <2>1
  <2>5. \A k \in DOMAIN Tail(channel) : k \in Nat /\ k >= 1
    BY <2>1
  <2> QED
    BY <1>1, <2>1, <2>2, <2>3, <2>4, <2>5
<1> HIDE DEF batch
<1>4. ASSUME NEW p, NEW l \in DOMAIN channel, l > 1, NEW j \in DOMAIN channel[l],
             Covers(channel[l][j], p, disk[p], {})
      PROVE  Waiting(p)'
  <2>1. l - 1 \in DOMAIN channel' /\ channel'[l - 1] = channel[l]
    BY <1>3, <1>4
  <2> QED
    BY <1>1, <1>4, <2>1 DEF Waiting
<1>5. ASSUME NEW p, NEW i \in DOMAIN batch, Covers(batch[i], p, disk[p], {})
      PROVE  Working(work', p, disk[p]) \/ Follows(p)'
  <2>1. i \in Nat /\ (i = 1 \/ i > 1) /\ batch # <<>> /\ Head(batch) = batch[1]
    BY <1>3
  <2>2. CASE i = 1
    BY <1>2, <1>5, <2>1, <2>2, WorkingAt
  <2>3. CASE i > 1
    BY <1>1, <1>2, <1>5, <2>3 DEF Follows, Later, CoveredAfter
  <2> QED
    BY <2>1, <2>2, <2>3
<1>6. Outstanding'
  <2> SUFFICES ASSUME NEW p \in Path \ folded
               PROVE  InStep(p)' \/ Working(work', p, disk[p]) \/ Follows(p)'
    BY <1>1 DEF Outstanding
  <2>1. InStep(p) => InStep(p)'
    BY <1>1 DEF InStep, Parsed, RowOf
  <2>2. ~Working(work, p, disk[p]) /\ (Follows(p) => Waiting(p))
    BY <1>1 DEF Working, Follows, Later, CoveredAfter
  <2>3. CASE p \in pending
    BY <1>1, <2>3 DEF Follows, Later, Waiting
  <2>4. ASSUME NEW k \in DOMAIN channel, NEW i \in DOMAIN channel[k],
               Covers(channel[k][i], p, disk[p], {})
        PROVE  Working(work', p, disk[p]) \/ Follows(p)'
    BY <1>3, <1>4, <1>5, <2>4 DEF Follows, Later
  <2>5. InStep(p) \/ Working(work, p, disk[p]) \/ Follows(p)
    BY DEF HandledInv, Outstanding
  <2> QED
    BY <2>1, <2>2, <2>3, <2>4, <2>5 DEF Waiting
<1>7. TodoCovered'
  <2> SUFFICES ASSUME NEW i \in DOMAIN batch, NEW p \in Takes(batch[i]), disk[p] \in Content
               PROVE  Later(i, p)'
    BY <1>1, <1>2 DEF TodoCovered
  <2>1. \/ p \in pending
        \/ \E l \in DOMAIN channel : \E j \in DOMAIN channel[l] :
              /\ l > 1 \/ (l = 1 /\ j > i)
              /\ Covers(channel[l][j], p, disk[p], {})
    BY <1>3 DEF HandledInv, ChannelCovered
  <2>2. CASE p \in pending
    BY <1>1, <2>2 DEF Later, Waiting
  <2>3. ASSUME NEW l \in DOMAIN channel, NEW j \in DOMAIN channel[l], l > 1,
               Covers(channel[l][j], p, disk[p], {})
        PROVE  Later(i, p)'
    BY <1>4, <2>3 DEF Later
  <2>4. ASSUME NEW j \in DOMAIN batch, j > i, Covers(batch[j], p, disk[p], {})
        PROVE  Later(i, p)'
    BY <1>1, <1>2, <2>4 DEF Later, CoveredAfter
  <2> QED
    BY <1>3, <2>1, <2>2, <2>3, <2>4
<1>8. ChannelCovered'
  <2> SUFFICES ASSUME NEW k \in DOMAIN channel', NEW i \in DOMAIN channel'[k], NEW p \in Takes(channel'[k][i]),
                      disk[p] \in Content, p \notin pending
               PROVE  \E l \in DOMAIN channel' : \E j \in DOMAIN channel'[l] :
                          /\ l > k \/ (l = k /\ j > i)
                          /\ Covers(channel'[l][j], p, disk[p], {})
    BY <1>1 DEF ChannelCovered
  <2>1. k + 1 \in DOMAIN channel /\ channel'[k] = channel[k + 1] /\ k \in Nat /\ k >= 1
    BY <1>3
  <2>2. PICK l \in DOMAIN channel : \E j \in DOMAIN channel[l] :
            /\ l > k + 1 \/ (l = k + 1 /\ j > i)
            /\ Covers(channel[l][j], p, disk[p], {})
    BY <2>1 DEF HandledInv, ChannelCovered
  <2>3. l \in Nat /\ l > 1 /\ l - 1 \in DOMAIN channel' /\ channel'[l - 1] = channel[l]
    BY <1>3, <2>1, <2>2
  <2>4. PICK j \in DOMAIN channel'[l - 1] :
            /\ l > k + 1 \/ (l = k + 1 /\ j > i)
            /\ Covers(channel'[l - 1][j], p, disk[p], {})
    BY <2>2, <2>3
  <2>5. l - 1 > k \/ (l - 1 = k /\ j > i)
    BY <2>1, <2>3, <2>4
  <2> QED
    BY <2>3, <2>4, <2>5
<1>9. EventsInv' /\ \A i \in DOMAIN batch : batch[i].kind \in Events /\ Proper(batch[i])
  <2>1. \A k \in DOMAIN channel' : \A i \in DOMAIN channel'[k] :
            channel'[k][i].kind \in Events /\ Proper(channel'[k][i])
    BY <1>3 DEF HandledInv, EventsInv
  <2>2. \A i \in DOMAIN batch : batch[i].kind \in Events /\ Proper(batch[i])
    BY <1>3 DEF HandledInv, EventsInv
  <2> QED
    BY <2>1, <2>2 DEF EventsInv
<1>10. Tidy(work.todo, work.settled)'
  BY <1>2, <1>9 DEF Tidy, Events
<1>11. DropsCovered' /\ ModesInv'
  BY <1>2 DEF DropsCovered, AtRisk, ModesInv, AwaitsRead
<1> QED
  BY <1>1, <1>6, <1>7, <1>8, <1>9, <1>10, <1>11 DEF HandledInv

\* A rebuild gives every path the row a full run would.
LEMMA RequestHandled == KeptInv /\ HandledInv /\ (Ask \/ AskDatabase \/ Rebuild) => HandledInv'
<1> SUFFICES ASSUME KeptInv, HandledInv, Ask \/ AskDatabase \/ Rebuild PROVE HandledInv'
  OBVIOUS
<1>1. Still /\ work' = work /\ (row' = row \/ Rebuild)
  BY DEF Ask, AskDatabase, Rebuild, tree, history, Still
<1>2. \A p \in Path : InStep(p) => InStep(p)'
  <2>1. CASE row' = row
    BY <1>1, <2>1, SameInStep
  <2>2. CASE Rebuild
    BY <1>1, <2>2 DEF Rebuild, RowsOfDisk, InStep, Still, Parsed, RowOf
  <2> QED
    BY <1>1, <2>1, <2>2
<1>3. /\ \A n, p : Later(n, p)' <=> Later(n, p)
      /\ \A p : Follows(p)' <=> Follows(p)
  BY <1>1, StillWaiting DEF Follows, Later, Still
<1>4. ModesInv'
  <2>1. CASE row' = row
    BY <1>1, <2>1 DEF HandledInv, ModesInv, AwaitsRead, HasRow, At, To, Now
  <2>2. CASE Rebuild
    <3>1. work.step \in {"next", "embedder"}
      BY <2>2 DEF Rebuild, KeptInv, TextInv, LockInv
    <3> QED
      BY <1>1, <3>1 DEF ModesInv, AwaitsRead
  <2> QED
    BY <1>1, <2>1, <2>2
<1>5. Outstanding' /\ DropsCovered' /\ TodoCovered' /\ Tidy(work.todo, work.settled)'
  BY <1>1, <1>2, <1>3, StillWaiting DEF HandledInv, Outstanding, DropsCovered, TodoCovered, Still
<1> QED
  BY <1>1, <1>4, <1>5, StillWaiting DEF HandledInv

(***************************************************************************)
(* The disk and its events                                                 *)
(***************************************************************************)

\* The channel holds what it held, and at most one more batch, of these events.
Grown(events) ==
    /\ \A k \in DOMAIN channel : k \in DOMAIN channel' /\ channel'[k] = channel[k]
    /\ \A k \in DOMAIN channel' : k \notin DOMAIN channel =>
          channel'[k] = events /\ \A l \in DOMAIN channel : l < k

\* The change is reported, or will be.
Fresh(p) ==
    \/ p \in pending'
    \/ \E k \in DOMAIN channel' : k \notin DOMAIN channel /\
          \E i \in DOMAIN channel'[k] : Covers(channel'[k][i], p, disk'[p], {})

\* A batch that found room is one more in the channel, and covers what it names.
LEMMA Delivered ==
    ASSUME KeptInv, NEW events, Deliver(events), ~missed'
    PROVE  /\ Grown(events)
           /\ \A p : (\E event \in Range(events) : Covers(event, p, disk'[p], {})) => Fresh(p)
<1>1. channel' = Append(channel, events) /\ channel \in Seq(Seq(TaskType)) /\ Len(channel) \in Nat
  BY DEF Deliver, KeptInv, TextInv, TypeOK
<1>2. /\ DOMAIN channel = 1..Len(channel) /\ DOMAIN channel' = 1..(Len(channel) + 1)
      /\ \A k \in 1..Len(channel) : channel'[k] = channel[k]
      /\ channel'[Len(channel) + 1] = events
  BY <1>1
<1>3. /\ \A k \in DOMAIN channel : k \in DOMAIN channel' /\ channel'[k] = channel[k]
      /\ \A k \in DOMAIN channel' : k \notin DOMAIN channel =>
            k = Len(channel) + 1 /\ \A l \in DOMAIN channel : l < k
      /\ Len(channel) + 1 \in DOMAIN channel' /\ Len(channel) + 1 \notin DOMAIN channel
  BY <1>1, <1>2
<1>4. Grown(events)
  BY <1>2, <1>3 DEF Grown
<1>5. ASSUME NEW p, NEW event \in Range(events), Covers(event, p, disk'[p], {})
      PROVE  Fresh(p)
  <2>1. PICK i \in DOMAIN events : event = events[i]
    BY DEF Range
  <2>2. PICK k \in DOMAIN channel' : k \notin DOMAIN channel /\ channel'[k] = events
    BY <1>2, <1>3
  <2> QED
    BY <1>5, <2>1, <2>2 DEF Fresh
<1> QED
  BY <1>4, <1>5

\* A change that sends nothing.
LEMMA NotDelivered ==
    ASSUME Silent, NEW events
    PROVE  Grown(events)
BY DEF Silent, Grown

\* What a change of the disk has to show.
LEMMA ChangeHandled ==
    ASSUME HandledInv, row' = row, work' = work, unmarked' = unmarked, folded \subseteq folded',
           NEW events, Grown(events),
           \A event \in Range(events) :
               /\ event.kind \in Events /\ Proper(event)
               /\ \A p \in Takes(event) : disk'[p] \notin Content,
           \A p \in Path :
               \/ Fresh(p)
               \/ disk'[p] = disk[p] /\ p \notin pending
               \/ disk'[p] = Gone /\ (p \in folded' \/ row[p] = NoRow \/ Working(work, p, Gone))
    PROVE  HandledInv'
<1>1. ASSUME NEW p \in Path, Fresh(p) PROVE Waiting(p)'
  BY <1>1 DEF Fresh, Waiting
<1>2. ASSUME NEW p \in Path, Waiting(p), disk'[p] = disk[p], p \notin pending PROVE Waiting(p)'
  BY <1>2 DEF Waiting, Grown
<1>3. ASSUME NEW p \in Path, NEW n, Later(n, p), disk'[p] = disk[p], p \notin pending
      PROVE  Later(n, p)'
  BY <1>2, <1>3 DEF Later, CoveredAfter
<1>4. ASSUME NEW p \in Path, Follows(p), disk'[p] = disk[p], p \notin pending PROVE Follows(p)'
  BY <1>2, <1>4 DEF Follows, Later, CoveredAfter
<1>5. Gone \notin Content
  BY NamesAssumption
<1>6. Outstanding'
  <2> SUFFICES ASSUME NEW p \in Path, p \notin folded'
               PROVE  InStep(p)' \/ Working(work', p, disk'[p]) \/ Follows(p)'
    BY DEF Outstanding
  <2>1. CASE Fresh(p)
    BY <1>1, <2>1 DEF Follows, Later
  <2>2. CASE disk'[p] = disk[p] /\ p \notin pending
    <3>1. InStep(p) => InStep(p)'
      BY <2>2 DEF InStep, Parsed, RowOf
    <3>2. InStep(p) \/ Working(work, p, disk[p]) \/ Follows(p)
      BY DEF HandledInv, Outstanding
    <3> QED
      BY <1>4, <2>2, <3>1, <3>2
  <2>3. CASE disk'[p] = Gone /\ (row[p] = NoRow \/ Working(work, p, Gone))
    BY <1>5, <2>3 DEF InStep
  <2> QED
    BY <2>1, <2>2, <2>3
<1>7. DropsCovered'
  <2> SUFFICES ASSUME NEW p \in AtRisk(work), p \in Path, disk'[p] \in Content PROVE Waiting(p)'
    BY DEF DropsCovered
  <2>1. CASE Fresh(p)
    BY <1>1, <2>1
  <2>2. CASE disk'[p] = disk[p] /\ p \notin pending
    BY <1>2, <2>2 DEF HandledInv, DropsCovered
  <2> QED
    BY <1>5, <2>1, <2>2
<1>8. \A task : Takes(task) \subseteq Path
  BY DEF Takes, In
<1>9. TodoCovered'
  <2> SUFFICES ASSUME NEW i \in DOMAIN work.todo, NEW p \in Takes(work.todo[i]), disk'[p] \in Content
               PROVE  Later(i, p)'
    BY DEF TodoCovered
  <2>1. p \in Path
    BY <1>8
  <2>2. CASE Fresh(p)
    BY <1>1, <2>1, <2>2 DEF Later
  <2>3. CASE disk'[p] = disk[p] /\ p \notin pending
    <3>1. Later(i, p)
      BY <2>3 DEF HandledInv, TodoCovered
    <3> QED
      BY <1>3, <2>1, <2>3, <3>1
  <2> QED
    BY <1>5, <2>1, <2>2, <2>3
<1>10. \A k \in DOMAIN channel' :
           \/ k \in DOMAIN channel /\ channel'[k] = channel[k]
           \/ /\ channel'[k] = events /\ \A l \in DOMAIN channel : l < k
              /\ \A i \in DOMAIN channel'[k] : channel'[k][i] \in Range(events)
  BY DEF Grown, Range
<1>11. ChannelCovered'
  <2> SUFFICES ASSUME NEW k \in DOMAIN channel', NEW i \in DOMAIN channel'[k],
                      NEW p \in Takes(channel'[k][i]), disk'[p] \in Content, p \notin pending'
               PROVE  \E l \in DOMAIN channel' : \E j \in DOMAIN channel'[l] :
                          /\ l > k \/ (l = k /\ j > i)
                          /\ Covers(channel'[l][j], p, disk'[p], {})
    BY DEF ChannelCovered
  <2>1. p \in Path /\ k \in DOMAIN channel /\ channel'[k] = channel[k]
    BY <1>8, <1>10
  <2>2. CASE Fresh(p)
    <3>1. PICK l \in DOMAIN channel' : l \notin DOMAIN channel /\
              \E j \in DOMAIN channel'[l] : Covers(channel'[l][j], p, disk'[p], {})
      BY <2>2 DEF Fresh
    <3>2. l > k
      BY <1>10, <2>1, <3>1
    <3> QED
      BY <3>1, <3>2
  <2>3. CASE disk'[p] = disk[p] /\ p \notin pending
    <3>1. PICK l \in DOMAIN channel : \E j \in DOMAIN channel[l] :
              /\ l > k \/ (l = k /\ j > i)
              /\ Covers(channel[l][j], p, disk[p], {})
      BY <2>1, <2>3 DEF HandledInv, ChannelCovered
    <3>2. l \in DOMAIN channel' /\ channel'[l] = channel[l]
      BY DEF Grown
    <3> QED
      BY <2>3, <3>1, <3>2
  <2> QED
    BY <1>5, <2>1, <2>2, <2>3
<1>12. EventsInv'
  BY <1>10 DEF HandledInv, EventsInv
<1>13. Tidy(work.todo, work.settled)' /\ ModesInv'
  BY DEF HandledInv, ModesInv, AwaitsRead, HasRow, At, To, Now
<1> QED
  BY <1>6, <1>7, <1>9, <1>11, <1>12, <1>13 DEF HandledInv

\* The elements of the batches a change sends.
LEMMA RangeFew ==
    ASSUME NEW x, NEW y
    PROVE  /\ Range(<<x>>) = {x} /\ Range(<<x, y>>) = {x, y} /\ Range(<<>>) = {}
           /\ Range(<<x>> \o <<>>) = {x} /\ Range(<<x>> \o <<y>>) = {x, y}
<1>1. x \in {x, y} /\ y \in {x, y}
  OBVIOUS
<1>2. Range(<<x>>) = {x}
  BY <1>1, RangeOne
<1>3. Range(<<x>> \o <<y>>) = {x, y}
  BY <1>1, RangePair
<1>4. DOMAIN <<x, y>> = {1, 2} /\ <<x, y>>[1] = x /\ <<x, y>>[2] = y
  OBVIOUS
<1>5. Range(<<x, y>>) = {x, y}
  BY <1>4, Zenon DEF Range
<1>6. Range(<<>>) = {} /\ <<>> \in Seq({x, y}) /\ <<x>> \in Seq({x, y})
  BY DEF Range
<1>7. Range(<<x>> \o <<>>) = {x}
  BY <1>2, <1>6, RangeJoined
<1> QED
  BY <1>2, <1>3, <1>5, <1>6, <1>7

\* Events that take no row.
LEMMA QuietEvents ==
    ASSUME NEW kind \in {"write", "removed", "arrive", "removeDir"}, NEW at
    PROVE  /\ Task(kind, at, Outside).kind = kind /\ Task(kind, at, Outside).at = at
           /\ Task(kind, at, Outside).kind \in Events /\ Proper(Task(kind, at, Outside))
           /\ Takes(Task(kind, at, Outside)) = {}
BY DEF Task, Events, Proper, Takes

\* Every change of the disk is reported, held back to be reported, or folded away.
LEMMA EnvironmentHandled == KeptInv /\ HandledInv /\ Environment /\ ~missed' => HandledInv'
<1> SUFFICES ASSUME KeptInv, HandledInv, Environment, ~missed' PROVE HandledInv'
  OBVIOUS
<1>1. /\ TypeOK /\ TreeInv /\ row' = row /\ work' = work /\ unmarked' = unmarked
      /\ pending \subseteq Path
      /\ disk \in [Path -> Content \cup {Gone, Linked}]
  BY DEF KeptInv, TextInv, TypeOK, Environment, Write, Delete, MoveIn, Flush, Move, RemoveDir, MoveDir, Change
<1>2. Gone \notin Content /\ Linked \notin Content /\ Gone # Linked /\ Outside \notin Path
  BY NamesAssumption
<1>3. ASSUME NEW events, Deliver(events) \/ Silent, folded \subseteq folded',
             \A event \in Range(events) :
                 /\ event.kind \in Events /\ Proper(event)
                 /\ \A p \in Takes(event) : disk'[p] \notin Content,
             \A p \in Path :
                 \/ p \in pending'
                 \/ Deliver(events) /\ \E event \in Range(events) : Covers(event, p, disk'[p], {})
                 \/ disk'[p] = disk[p] /\ p \notin pending
                 \/ disk'[p] = Gone /\ (p \in folded' \/ row[p] = NoRow \/ Working(work, p, Gone))
      PROVE  HandledInv'
  <2>1. Grown(events)
    BY <1>3, Delivered, NotDelivered
  <2>2. \A p : p \in pending' => Fresh(p)
    BY DEF Fresh
  <2>3. \A p : Deliver(events) /\ (\E event \in Range(events) : Covers(event, p, disk'[p], {})) => Fresh(p)
    BY Delivered
  <2> QED
    BY <1>1, <1>3, <2>1, <2>2, <2>3, ChangeHandled
<1>4. ASSUME NEW p \in Path, Write(p) PROVE HandledInv'
  <2>1. /\ \A q \in Path : q # p => disk'[q] = disk[q]
        /\ disk'[p] # Gone /\ folded' = folded
    BY <1>1, <1>2, <1>4 DEF Write
  <2>2. ASSUME NEW later, Deliver(<<Task("arrive", p[1], Outside)>> \o later),
               later \in {<<>>, <<Task("write", p, Outside)>>}, pending' = pending
        PROVE  HandledInv'
    <3> DEFINE arrive == Task("arrive", p[1], Outside)
               write == Task("write", p, Outside)
               events == <<arrive>> \o later
    <3>1. arrive \in Range(events) /\ Range(events) \subseteq {arrive, write}
      <4>1. later = <<>> \/ later = <<write>>
        BY <2>2
      <4> HIDE DEF arrive, write
      <4>2. Range(<<arrive>> \o <<>>) = {arrive} /\ Range(<<arrive>> \o <<write>>) = {arrive, write}
        BY RangeFew
      <4> HIDE DEF events
      <4>3. events = <<arrive>> \o <<>> \/ events = <<arrive>> \o <<write>>
        BY <4>1 DEF events
      <4> QED
        BY <4>2, <4>3
    <3>2. \A event \in {arrive, write} : event.kind \in Events /\ Proper(event) /\ Takes(event) = {}
      BY QuietEvents
    <3>3. Covers(arrive, p, disk'[p], {})
      BY <2>1, QuietEvents DEF Covers, In
    <3>4. Deliver(events)
      BY <2>2
    <3> HIDE DEF arrive, write, events
    <3> QED
      BY <1>3, <2>1, <2>2, <3>1, <3>2, <3>3, <3>4
  <2>3. ASSUME Deliver(<<Task("write", p, Outside)>>), pending' = pending PROVE HandledInv'
    <3> DEFINE write == Task("write", p, Outside)
               events == <<write>>
    <3>1. Range(events) = {write} /\ Deliver(events)
      BY <2>3, RangeFew
    <3>2. write.kind \in Events /\ Proper(write) /\ Takes(write) = {} /\ Covers(write, p, disk'[p], {})
      BY QuietEvents DEF Covers
    <3> HIDE DEF write, events
    <3> QED
      BY <1>3, <2>1, <2>3, <3>1, <3>2
  <2>4. ASSUME Silent, pending' = pending \cup {p} PROVE HandledInv'
    <3> DEFINE events == <<>>
    <3>1. Range(events) = {}
      BY RangeFew
    <3> HIDE DEF events
    <3> QED
      BY <1>3, <2>1, <2>4, <3>1
  <2> QED
    BY <1>4, <2>2, <2>3, <2>4 DEF Write
<1>5. ASSUME NEW p \in Path, Flush(p) PROVE HandledInv'
  <2> DEFINE write == Task("write", p, Outside)
             events == <<write>>
  <2>1. Range(events) = {write} /\ Deliver(events)
    BY <1>5, RangeFew DEF Flush
  <2>2. write.kind \in Events /\ Proper(write) /\ Takes(write) = {} /\ Covers(write, p, disk'[p], {})
    BY QuietEvents DEF Covers
  <2>3. disk' = disk /\ folded' = folded /\ pending' = pending \ {p}
    BY <1>5 DEF Flush, tree
  <2> HIDE DEF write, events
  <2> QED
    BY <1>3, <2>1, <2>2, <2>3
<1>6. ASSUME NEW p \in Path, Delete(p) PROVE HandledInv'
  <2>1. disk'[p] = Gone /\ \A q \in Path : q # p => disk'[q] = disk[q]
    BY <1>1, <1>6 DEF Delete
  <2>2. CASE p \in pending
    <3> DEFINE events == <<>>
    <3>1. Range(events) = {}
      BY RangeFew
    <3>2. /\ pending' = pending \ {p} /\ Silent
          /\ folded' = IF HasRow(p) /\ ~LooksAgain(p) THEN folded \cup {p} ELSE folded
      BY <1>6, <2>2 DEF Delete
    <3>3. LooksAgain(p) => Working(work, p, Gone)
      <4>1. LooksAgain(p) => work.todo # <<>> /\ FileOf(work) = p
        BY DEF KeptInv, TextInv, WhereInv, LooksAgain, FileOf, File, Now, At, To
      <4> QED
        BY <4>1 DEF LooksAgain, Working, ReadWork
    <3> HIDE DEF events
    <3> QED
      BY <1>3, <2>1, <3>1, <3>2, <3>3 DEF HasRow
  <2>3. CASE p \notin pending
    <3> DEFINE removed == Task("removed", p, Outside)
               rename == Task("rename", p, Outside)
    <3>1. PICK event \in {removed, rename} : Deliver(<<event>>)
      BY <1>6, <2>3 DEF Delete
    <3>2. pending' = pending /\ folded' = folded
      BY <1>6, <2>3 DEF Delete
    <3>3. removed.kind \in Events /\ Proper(removed) /\ Takes(removed) = {} /\ Covers(removed, p, disk'[p], {})
      BY QuietEvents DEF Covers
    <3>4. /\ rename.kind \in Events /\ Proper(rename) /\ Takes(rename) = {p}
          /\ Covers(rename, p, disk'[p], {})
      BY <1>2, <2>1 DEF Covers, Events, Proper, Takes, Task
    <3> DEFINE events == <<event>>
    <3>5. Range(events) = {event} /\ Deliver(events)
      BY <3>1, RangeFew
    <3> HIDE DEF removed, rename, events
    <3>6. event.kind \in Events /\ Proper(event) /\ Takes(event) \subseteq {p} /\ Covers(event, p, disk'[p], {})
      BY <3>1, <3>3, <3>4
    <3> QED
      BY <1>2, <1>3, <2>1, <3>2, <3>5, <3>6
  <2> QED
    BY <2>2, <2>3
<1>7. ASSUME NEW q \in Path, MoveIn(q) PROVE HandledInv'
  <2> DEFINE rename == Task("rename", Outside, q)
             events == <<rename>>
  <2>1. \A p \in Path : p # q => disk'[p] = disk[p]
    BY <1>1, <1>7 DEF MoveIn
  <2>2. pending' = pending /\ folded' = folded
    BY <1>7 DEF MoveIn
  <2>3. Range(events) = {rename} /\ Deliver(events)
    BY <1>7, RangeFew DEF MoveIn
  <2>4. /\ rename.kind \in Events /\ Proper(rename) /\ Takes(rename) = {}
        /\ Covers(rename, q, disk'[q], {})
    BY <1>2 DEF Covers, Events, Proper, Takes, Task
  <2> HIDE DEF rename, events
  <2> QED
    BY <1>3, <2>1, <2>2, <2>3, <2>4
<1>8. ASSUME NEW p \in Path, NEW q \in Path, Move(p, q) PROVE HandledInv'
  <2>1. /\ disk'[p] = Gone /\ p # q
        /\ \A r \in Path : r \notin {p, q} => disk'[r] = disk[r]
    BY <1>1, <1>8 DEF Move
  <2>2. CASE p \in pending
    <3> DEFINE events == <<>>
    <3>1. Range(events) = {}
      BY RangeFew
    <3>2. /\ pending' = (pending \ {p}) \cup {q} /\ Silent
          /\ folded' = IF HasRow(p) THEN folded \cup {p} ELSE folded
      BY <1>8, <2>2 DEF Move
    <3> HIDE DEF events
    <3> QED
      BY <1>3, <2>1, <3>1, <3>2 DEF HasRow
  <2>3. CASE p \notin pending
    <3>1. pending' = pending \ {q} /\ folded' = folded
      BY <1>8, <2>3 DEF Move
    <3>2. CASE Deliver(<<Task("rename", p, q)>>)
      <4> DEFINE rename == Task("rename", p, q)
                 events == <<rename>>
      <4>1. Range(events) = {rename} /\ Deliver(events)
        BY <3>2, RangeFew
      <4>2. /\ rename.kind \in Events /\ Proper(rename) /\ Takes(rename) = {p}
            /\ Covers(rename, p, disk'[p], {}) /\ Covers(rename, q, disk'[q], {})
        BY <2>1 DEF Covers, Events, Proper, Takes, Task
      <4> HIDE DEF rename, events
      <4> QED
        BY <1>2, <1>3, <2>1, <3>1, <4>1, <4>2
    <3>3. CASE Deliver(<<Task("removed", p, Outside), Task("write", q, Outside)>>)
      <4> DEFINE removed == Task("removed", p, Outside)
                 write == Task("write", q, Outside)
                 events == <<removed, write>>
      <4>1. Range(events) = {removed, write} /\ Deliver(events)
        BY <3>3, RangeFew
      <4>2. /\ removed.kind \in Events /\ Proper(removed) /\ Takes(removed) = {}
            /\ write.kind \in Events /\ Proper(write) /\ Takes(write) = {}
            /\ Covers(removed, p, disk'[p], {}) /\ Covers(write, q, disk'[q], {})
        BY QuietEvents DEF Covers
      <4> HIDE DEF removed, write, events
      <4> QED
        BY <1>3, <2>1, <3>1, <4>1, <4>2
    <3> QED
      BY <1>8, <2>3, <3>2, <3>3 DEF Move
  <2> QED
    BY <2>2, <2>3
<1>9. ASSUME NEW d \in Dir, RemoveDir(d) PROVE HandledInv'
  <2> DEFINE removeDir == Task("removeDir", d, Outside)
             events == <<removeDir>>
  <2>1. \A p \in Path : disk'[p] = IF p \in In(d) THEN Gone ELSE disk[p]
    BY <1>9 DEF RemoveDir, In
  <2>2. pending' = pending \ In(d) /\ folded' = folded
    BY <1>9 DEF RemoveDir
  <2>3. Range(events) = {removeDir} /\ Deliver(events)
    BY <1>9, RangeFew DEF RemoveDir
  <2>4. /\ removeDir.kind \in Events /\ Proper(removeDir) /\ Takes(removeDir) = {}
        /\ \A p \in Path : p \in In(d) => Covers(removeDir, p, disk'[p], {})
    BY <1>2, <2>1, QuietEvents DEF Covers
  <2> HIDE DEF removeDir, events
  <2> QED
    BY <1>3, <2>1, <2>2, <2>3, <2>4
<1>10. ASSUME NEW d \in Dir, NEW e \in Dir, MoveDir(d, e) PROVE HandledInv'
  <2>1. d # e /\ e \notin dirs
    BY <1>10 DEF MoveDir
  <2>2. \A p \in Path : /\ p \in In(d) => disk'[p] = Gone
                        /\ p \notin In(d) \cup In(e) => disk'[p] = disk[p]
    BY <1>10, <2>1 DEF MoveDir, In
  <2>3. \A p \in In(e) : p \in Path /\ disk[p] = Gone
    BY <1>1, <2>1 DEF TreeInv, In
  <2>4. pending' = pending /\ folded' = folded
    BY <1>10 DEF MoveDir
  <2>5. CASE Deliver(<<Task("renameDir", d, e)>>)
    <3> DEFINE renameDir == Task("renameDir", d, e)
               events == <<renameDir>>
    <3>1. Range(events) = {renameDir} /\ Deliver(events)
      BY <2>5, RangeFew
    <3>2. /\ renameDir.kind \in Events /\ Proper(renameDir) /\ Takes(renameDir) = In(d)
          /\ \A p \in In(d) : disk'[p] = Gone => Covers(renameDir, p, disk'[p], {})
          /\ \A p \in In(e) : disk'[p] # Gone => Covers(renameDir, p, disk'[p], {})
      BY <2>1 DEF Covers, Events, Proper, Takes, Task
    <3> HIDE DEF renameDir, events
    <3>3. \A p \in In(d) : p \in Path
      BY DEF In
    <3> QED
      BY <1>2, <1>3, <2>2, <2>3, <2>4, <3>1, <3>2, <3>3
  <2>6. CASE Deliver(<<Task("removeDir", d, Outside), Task("arrive", e, Outside)>>)
    <3> DEFINE removeDir == Task("removeDir", d, Outside)
               arrive == Task("arrive", e, Outside)
               events == <<removeDir, arrive>>
    <3>1. Range(events) = {removeDir, arrive} /\ Deliver(events)
      BY <2>6, RangeFew
    <3>2. /\ removeDir.kind \in Events /\ Proper(removeDir) /\ Takes(removeDir) = {}
          /\ arrive.kind \in Events /\ Proper(arrive) /\ Takes(arrive) = {}
          /\ \A p \in In(d) : disk'[p] = Gone => Covers(removeDir, p, disk'[p], {})
          /\ \A p \in In(e) : disk'[p] # Gone => Covers(arrive, p, disk'[p], {})
      BY <1>2, QuietEvents DEF Covers
    <3> HIDE DEF removeDir, arrive, events
    <3> QED
      BY <1>3, <2>2, <2>3, <2>4, <3>1, <3>2
  <2> QED
    BY <1>10, <2>5, <2>6 DEF MoveDir
<1> QED
  BY <1>4, <1>5, <1>6, <1>7, <1>8, <1>9, <1>10 DEF Environment

(***************************************************************************)
(* The index converges                                                     *)
(***************************************************************************)

\* A watcher starts on an index that a full run has brought up to the disk.
LEMMA HandledInit == Init => HandledInv
<1> SUFFICES ASSUME Init PROVE HandledInv
  OBVIOUS
<1>1. /\ disk \in [Path -> Content \cup {Gone}] /\ channel = <<>> /\ work.todo = <<>>
      /\ work.step = "next" /\ ~unmarked
  BY ParseAssumption DEF Init, Idle
<1>2. \A p \in Path : InStep(p)
  BY ParsedTyped, NamesAssumption DEF Init, InStep, RowOf
<1>3. DOMAIN work.todo = {} /\ DOMAIN channel = {}
  BY <1>1
<1>4. Outstanding /\ TodoCovered /\ ChannelCovered /\ EventsInv /\ Tidy(work.todo, work.settled)
  BY <1>2, <1>3 DEF Outstanding, TodoCovered, ChannelCovered, EventsInv, Tidy
<1>5. DropsCovered /\ ModesInv
  BY <1>1 DEF DropsCovered, AtRisk, ModesInv, AwaitsRead
<1> QED
  BY <1>1, <1>4, <1>5 DEF HandledInv

\* A step of nothing.
LEMMA HandledStutter == HandledInv /\ UNCHANGED vars => HandledInv'
<1> SUFFICES ASSUME HandledInv, UNCHANGED vars PROVE HandledInv'
  OBVIOUS
<1>1. Still /\ work' = work /\ row' = row
  BY DEF vars, tree, history, Still
<1>2. \A p \in Path : InStep(p) => InStep(p)'
  BY <1>1, SameInStep
<1>3. /\ \A n, p : Later(n, p)' <=> Later(n, p)
      /\ \A p : Follows(p)' <=> Follows(p)
  BY <1>1, StillWaiting DEF Follows, Later, Still
<1>4. ModesInv'
  BY <1>1 DEF HandledInv, ModesInv, AwaitsRead, HasRow, At, To, Now
<1>5. Outstanding' /\ DropsCovered' /\ TodoCovered' /\ Tidy(work.todo, work.settled)'
  BY <1>1, <1>2, <1>3, StillWaiting DEF HandledInv, Outstanding, DropsCovered, TodoCovered, Still
<1> QED
  BY <1>1, <1>4, <1>5, StillWaiting DEF HandledInv

\* A lost batch, or a look or read that failed, is never forgotten.
LEMMA MissedStays == missed /\ [Next]_vars => missed'
<1> SUFFICES ASSUME missed, [Next]_vars PROVE missed'
  OBVIOUS
<1>1. CASE TakeBatch \/ TakeEmbedder \/ TakeDatabase
  BY <1>1 DEF TakeBatch, TakeEmbedder, TakeDatabase, history
<1>2. CASE Dispatch \/ UnderDatabase \/ Drop \/ Sweep \/ ReadFile \/ MoveFile
  BY <1>2 DEF Dispatch, UnderDatabase, Drop, Sweep, RemoveRows, ReadFile, MoveFile, NoFault, Fault
<1>3. CASE Environment
  BY <1>3 DEF Environment, Write, Delete, MoveIn, Flush, Move, RemoveDir, MoveDir, Deliver, Silent
<1>4. CASE Ask \/ AskDatabase \/ Rebuild \/ UNCHANGED vars
  BY <1>4 DEF Ask, AskDatabase, Rebuild, vars, history
<1> QED
  BY <1>1, <1>2, <1>3, <1>4 DEF Next, Worker

\* Every step keeps the argument; nothing is claimed once a batch, a look or a read was missed.
LEMMA ConvergeInvNext == ConvergeInv /\ [Next]_vars => ConvergeInv'
<1> SUFFICES ASSUME ConvergeInv, [Next]_vars PROVE ConvergeInv'
  OBVIOUS
<1>1. KeptInv /\ KeptInv'
  BY KeptInvNext DEF ConvergeInv
<1>2. CASE missed'
  BY <1>1, <1>2 DEF ConvergeInv
<1>3. CASE ~missed'
  <2>1. ~missed
    BY <1>3, MissedStays
  <2>2. HandledInv
    BY <2>1 DEF ConvergeInv
  <2>3. HandledInv'
    BY <1>1, <1>3, <2>1, <2>2, TakeBatchHandled, DispatchHandled, TakeHandled, UnderDatabaseHandled, DropHandled,
       ReadFileHandled, MoveFileHandled, EnvironmentHandled, RequestHandled, HandledStutter
       DEF Next, Worker
  <2> QED
    BY <1>1, <2>3 DEF ConvergeInv
<1> QED
  BY <1>2, <1>3

\* So it holds in every behaviour.
LEMMA ConvergeInvAlways == Spec => []ConvergeInv
<1>1. Init => ConvergeInv
  <2>1. Init => KeptInv
    BY TextInvInit DEF KeptInv, Init, TreeInv, GoneInv, Idle
  <2> QED
    BY <2>1, HandledInit DEF ConvergeInv
<1> QED
  BY <1>1, ConvergeInvNext, PTL DEF Spec

\* When the watcher has nothing left to handle (no report held by the debouncer, no batch in the
\* channel, no task of one), no batch was lost and no look or read failed, every path has the row a
\* full run would give it: however the files were written, renamed over each other, moved with
\* their directories or removed between the looks of the worker.  A file is excepted that came
\* and went without a report (see Converges of WatchDispatch).
THEOREM AlwaysConverges == Spec => []Converges
<1>1. ConvergeInv => Converges
  <2> SUFFICES ASSUME ConvergeInv, Quiet, ~missed, NEW p \in Path \ folded PROVE InStep(p)
    BY DEF Converges
  <2>1. InStep(p) \/ Working(work, p, disk[p]) \/ Follows(p)
    BY DEF ConvergeInv, HandledInv, Outstanding
  <2>2. ~Working(work, p, disk[p]) /\ ~Follows(p)
    BY DEF Quiet, Working, Follows, Later, Waiting, CoveredAfter
  <2> QED
    BY <2>1, <2>2
<1> QED
  BY <1>1, ConvergeInvAlways, PTL
==============================================================================
