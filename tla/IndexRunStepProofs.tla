--------------------------- MODULE IndexRunStepProofs ---------------------------
(***************************************************************************)
(* What a step of a run may never do, for any paths, bytes, parsers and    *)
(* number of runs: take the row of a file that stays, take a row another   *)
(* process wrote, or end an undisturbed run with the index out of step     *)
(* with the files.                                                         *)
(***************************************************************************)
EXTENDS IndexRunProofs

\* The steps up to the renames, those with a snapshot, and those after the scan.
Begun == {"reset", "snapshot", "walk", "scan", "rename"}
Seen == {"walk", "scan", "rename", "choose", "prune"} \cup Looping
Past == {"rename", "choose", "prune"} \cup Looping

\* What the run knows at each of its steps: nothing before it has looked, and in the loop only
\* files the scan hashed, each in one place.
PlanInv ==
    /\ pc = "idle" => changes = 0
    /\ clean => changes = 0
    /\ pc \notin Seen => written = {}
    /\ pc = "reset" => run.force
    /\ pc \in {"reset", "snapshot"} => run.found = {}
    /\ pc \in {"reset", "snapshot", "walk"} => Scanned = {} /\ run.skipped = {}
    /\ pc \in Begun => run.moved = {}
    /\ pc \in Begun \cup {"choose"} => run.again = {} /\ run.unsettled = {}
    /\ pc \in Begun \cup {"choose"} \cup Looping => run.kept = {}
    /\ pc \in {"choose"} \cup Looping => run.crossed \subseteq run.renamed
    /\ pc \in Looping =>
          /\ run.todo \subseteq Scanned /\ run.again \subseteq Scanned
          /\ run.todo \cap (run.again \cup run.unsettled) = {}
          /\ run.reread \cap run.renamed = {}
    /\ pc = "settle" => NextDoc \in run.crossed
    /\ pc = "prune" => run.todo \cup run.kept \subseteq ToPrune

(***************************************************************************)
(* What each step changes                                                  *)
(***************************************************************************)

LEMMA StartEffect ==
    ASSUME NEW force \in BOOLEAN, Start(force)
    PROVE  /\ pc = "idle" /\ pc' = IF force THEN "reset" ELSE "snapshot"
           /\ run'.force = force /\ DOMAIN run'.entry = {}
           /\ run'.found = {} /\ run'.skipped = {} /\ run'.moved = {} /\ run'.again = {}
           /\ run'.unsettled = {} /\ run'.kept = {}
           /\ clean' = TRUE /\ UNCHANGED <<disk, row, recorded, changes, others, written>>
<1>1. run' = [NotStarted EXCEPT !.force = force]
  BY DEF Start
<1>2. /\ pc = "idle" /\ pc' = IF force THEN "reset" ELSE "snapshot"
      /\ clean' = TRUE /\ UNCHANGED <<disk, row, recorded, changes, others, written>>
  BY DEF Start, Running, index
<1>3. /\ run'.force = force /\ run'.entry = [p \in {} |-> 0]
      /\ run'.found = {} /\ run'.skipped = {} /\ run'.moved = {} /\ run'.again = {}
      /\ run'.unsettled = {} /\ run'.kept = {}
  BY <1>1 DEF NotStarted
<1> QED
  BY <1>2, <1>3

LEMMA SnapshotEffect ==
    ASSUME TypeInv, Snapshot
    PROVE  /\ AllBut({"stale", "snap", "todo"}) /\ run'.todo = Path
           /\ run'.stale = IF run.force THEN {} ELSE Reread \ recorded
           /\ DOMAIN run'.snap = {p \in Path : HasRow(p)}
           /\ pc = "snapshot" /\ pc' = "walk"
           /\ \A p \in Path : /\ HasRow(p)' <=> HasRow(p)
                              /\ HasRow(p) => AsSeen(p)'
           /\ UNCHANGED <<disk, recorded, history>>
<1>1. RunOK(run) /\ row \in RowMap
  BY DEF TypeInv, TypeOK, RowMap
<1>2. /\ AllBut({"stale", "snap", "todo"}) /\ run'.todo = Path
      /\ run'.stale = IF run.force THEN {} ELSE Reread \ recorded
      /\ run'.snap = [p \in {q \in Path : HasRow(q)} |-> row[p].hash]
      /\ pc = "snapshot" /\ pc' = "walk" /\ UNCHANGED <<disk, recorded, history>>
  BY <1>1, FieldsOfRun DEF Snapshot, RunOK, AllBut, Fields
<1>3. ASSUME NEW p \in Path
      PROVE  (HasRow(p)' <=> HasRow(p)) /\ (HasRow(p) => AsSeen(p)')
  <2>1. row'[p] = IF HasRow(p) THEN [row[p] EXCEPT !.id = p] ELSE NoRow
    BY DEF Snapshot
  <2>2. CASE HasRow(p)
    <3>1. row[p] \in Row /\ row'[p] = [row[p] EXCEPT !.id = p]
      BY <1>1, <2>1, <2>2 DEF RowMap, HasRow
    <3>2. row'[p] \in Row /\ row'[p].id = p /\ row'[p].hash = row[p].hash
      BY <3>1 DEF Row
    <3>3. run'.snap[p] = row[p].hash
      BY <1>2, <2>2
    <3> QED
      BY <2>2, <3>2, <3>3, RowAssumption DEF HasRow, AsSeen
  <2> QED
    BY <2>1, <2>2 DEF HasRow
<1> QED
  BY <1>2, <1>3

LEMMA WalkEffect ==
    ASSUME TypeInv, Walk
    PROVE  /\ AllBut({"todo", "found"}) /\ pc = "walk" /\ UNCHANGED <<disk, row, recorded, history>>
           /\ \E p \in run.todo :
                 LET found == run.found \cup (IF disk[p] # Gone THEN {p} ELSE {})
                 IN  \/ /\ run'.todo = run.todo \ {p} /\ run'.found = found /\ pc' = "walk"
                     \/ /\ run.todo = {p} /\ run'.todo = found /\ pc' \in {"scan", "rename"}
                        /\ pc' = "rename" => found = {}
<1>1. RunOK(run) /\ run.todo # {}
  BY DEF TypeInv, TypeOK, WhereInv, Walk
<1>2. PICK p \in run.todo : p = First(run.todo)
  BY <1>1, FirstIn DEF RunOK
<1>3. PICK found : found = run.found \cup (IF disk[p] # Gone THEN {p} ELSE {})
  OBVIOUS
<1>4. \/ run' = [run EXCEPT !.todo = run.todo \ {p}, !.found = found] /\ pc' = "walk"
      \/ /\ run.todo \ {p} = {} /\ run' = [run EXCEPT !.todo = found, !.found = {}]
         /\ pc' = IF found = {} THEN "rename" ELSE "scan"
  BY <1>2, <1>3 DEF Walk
<1>5. /\ AllBut({"todo", "found"})
      /\ \/ run'.todo = run.todo \ {p} /\ run'.found = found /\ pc' = "walk"
         \/ /\ run.todo = {p} /\ run'.todo = found
            /\ pc' = IF found = {} THEN "rename" ELSE "scan"
  <2>1. CASE run' = [run EXCEPT !.todo = run.todo \ {p}, !.found = found] /\ pc' = "walk"
    BY <1>1, <2>1, FieldsOfRun DEF RunOK, AllBut, Fields
  <2>2. CASE /\ run.todo \ {p} = {} /\ run' = [run EXCEPT !.todo = found, !.found = {}]
             /\ pc' = IF found = {} THEN "rename" ELSE "scan"
    <3>1. AllBut({"todo", "found"}) /\ run'.todo = found
      BY <1>1, <2>2, FieldsOfRun DEF RunOK, AllBut, Fields
    <3>2. run.todo = {p}
      BY <2>2
    <3> QED
      BY <2>2, <3>1, <3>2
  <2> QED
    BY <1>4, <2>1, <2>2
<1>6. pc = "walk" /\ UNCHANGED <<disk, row, recorded, history>>
  BY DEF Walk, index
<1>7. \/ run'.todo = run.todo \ {p} /\ run'.found = found /\ pc' = "walk"
      \/ /\ run.todo = {p} /\ run'.todo = found /\ pc' \in {"scan", "rename"}
         /\ pc' = "rename" => found = {}
  BY <1>5
<1> QED
  BY <1>3, <1>5, <1>6, <1>7

LEMMA ScanEffect ==
    ASSUME TypeInv, ScanFile
    PROVE  /\ AllBut({"todo", "entry", "skipped"}) /\ pc = "scan"
           /\ UNCHANGED <<disk, row, recorded, changes, others, written>>
           /\ \E p \in run.todo :
                 /\ p \in Path /\ run'.todo = run.todo \ {p}
                 /\ pc' = IF run'.todo = {} THEN "rename" ELSE "scan"
                 /\ \/ /\ Scanned' = Scanned \cup {p} /\ run'.entry[p] = disk[p] /\ disk[p] # Gone
                       /\ \A q \in Scanned \ {p} : run'.entry[q] = run.entry[q]
                       /\ run'.skipped = run.skipped /\ clean' = clean
                    \/ /\ run'.entry = run.entry /\ run'.skipped = run.skipped \cup {p} /\ clean' = FALSE
<1>1. RunOK(run) /\ run.todo # {}
  BY DEF TypeInv, TypeOK, WhereInv, ScanFile
<1>2. PICK p \in run.todo : p = First(run.todo)
  BY <1>1, FirstIn DEF RunOK
<1>3. PICK entry : entry = [q \in Scanned \cup {p} |-> IF q = p THEN disk[p] ELSE run.entry[q]]
  OBVIOUS
<1>4. \/ /\ run' = [run EXCEPT !.todo = run.todo \ {p}, !.entry = entry]
         /\ disk[p] # Gone /\ clean' = clean
      \/ run' = [run EXCEPT !.todo = run.todo \ {p}, !.skipped = run.skipped \cup {p}] /\ clean' = FALSE
  BY <1>2, <1>3 DEF ScanFile, Scanned
<1>5. /\ AllBut({"todo", "entry", "skipped"}) /\ run'.todo = run.todo \ {p}
      /\ \/ run'.entry = entry /\ run'.skipped = run.skipped /\ disk[p] # Gone /\ clean' = clean
         \/ run'.entry = run.entry /\ run'.skipped = run.skipped \cup {p} /\ clean' = FALSE
  BY <1>1, <1>4, FieldsOfRun DEF RunOK, AllBut, Fields
<1>6. /\ pc = "scan" /\ UNCHANGED <<disk, row, recorded, changes, others, written>>
      /\ pc' = IF run'.todo = {} THEN "rename" ELSE "scan"
  <2>1. pc' = IF run.todo \ {p} = {} THEN "rename" ELSE "scan"
    BY <1>2 DEF ScanFile
  <2> QED
    BY <1>5, <2>1 DEF ScanFile, index
<1>7. p \in Path
  BY <1>1 DEF RunOK
<1>8. CASE run'.entry = entry /\ run'.skipped = run.skipped /\ disk[p] # Gone /\ clean' = clean
  <2>1. Scanned' = Scanned \cup {p}
    BY <1>3, <1>8 DEF Scanned
  <2>2. run'.entry[p] = disk[p] /\ \A q \in Scanned \ {p} : run'.entry[q] = run.entry[q]
    BY <1>3, <1>8
  <2> QED
    BY <1>5, <1>6, <1>7, <1>8, <2>1, <2>2
<1>9. CASE run'.entry = run.entry /\ run'.skipped = run.skipped \cup {p} /\ clean' = FALSE
  BY <1>5, <1>6, <1>7, <1>9
<1> QED
  BY <1>5, <1>8, <1>9

\* A row moves from a path the scan did not come across to one that had no row.
LEMMA RenameEffect ==
    ASSUME TypeInv, Rename
    PROVE  /\ AllBut({"moved", "crossed", "renamed"}) /\ pc = "rename" /\ pc' = "choose"
           /\ UNCHANGED <<disk, recorded, history>>
           /\ run'.moved \subseteq ToPrune /\ run'.crossed \subseteq run'.renamed
           /\ \A p \in run'.moved : AsSeen(p) /\ row'[p] = NoRow
           /\ \A p \in Path \ run'.moved : row'[p] # row[p] => ~HasRow(p) /\ p \in Scanned
           /\ \A p \in run'.crossed : row'[p].hash = Awaiting
<1>1. RunOK(run) /\ row \in RowMap
  BY DEF TypeInv, TypeOK, RowMap
<1> DEFINE pairs == IF run.force THEN {} ELSE {pair \in Renames : Applicable(pair)}
           olds == {pair[1] : pair \in pairs}
           news == {pair[2] : pair \in pairs}
           from == [new \in news |-> CHOOSE old \in olds : <<old, new>> \in pairs]
           crossed == {new \in news : Crosses(from[new], new)}
<1>2. \A pair \in pairs : /\ pair[1] \in ToPrune /\ pair[2] \in Scanned /\ AsSeen(pair[1])
                          /\ ~HasRow(pair[2]) /\ pair = <<pair[1], pair[2]>>
  BY <1>1 DEF Renames, Orphans, Arrivals, Scanned, ToPrune, Applicable
<1> HIDE DEF pairs
<1>3. \A new \in news : /\ new \in Scanned /\ new \in Path /\ ~HasRow(new)
                        /\ from[new] \in Path /\ HasRow(from[new])
  <2> SUFFICES ASSUME NEW new \in news
               PROVE  /\ new \in Scanned /\ new \in Path /\ ~HasRow(new)
                      /\ from[new] \in Path /\ HasRow(from[new])
    OBVIOUS
  <2>1. PICK pair \in pairs : pair[2] = new
    OBVIOUS
  <2>2. pair[1] \in olds /\ <<pair[1], new>> \in pairs
    BY <1>2, <2>1
  <2>3. <<from[new], new>> \in pairs
    BY <2>2
  <2> QED
    BY <1>1, <1>2, <2>1, <2>3 DEF AsSeen, ToPrune, Scanned, RunOK
<1>4. olds \subseteq ToPrune /\ olds \cap news = {} /\ \A old \in olds : AsSeen(old) /\ old \in Path
  BY <1>1, <1>2 DEF ToPrune, RunOK
<1>5. /\ row' = [p \in Path |-> IF p \in news THEN Moved(from[p], p)
                                ELSE IF p \in olds THEN NoRow ELSE row[p]]
      /\ run' = [run EXCEPT !.moved = olds, !.crossed = crossed,
                           !.renamed = IF Static THEN news ELSE crossed]
      /\ pc = "rename" /\ pc' = "choose" /\ UNCHANGED <<disk, recorded, history>>
  BY DEF Rename, pairs
<1>6. crossed \subseteq news /\ \A new \in crossed : Crosses(from[new], new)
  OBVIOUS
<1> HIDE DEF olds, news, from, crossed
<1>7. /\ AllBut({"moved", "crossed", "renamed"})
      /\ run'.moved = olds /\ run'.crossed = crossed
      /\ run'.renamed = IF Static THEN news ELSE crossed
  BY <1>1, <1>5, FieldsOfRun DEF RunOK, AllBut, Fields
<1>8. ASSUME NEW p \in crossed PROVE row'[p].hash = Awaiting
  <2>1. row'[p] = [row[from[p]] EXCEPT !.hash = Awaiting]
    BY <1>3, <1>5, <1>6 DEF Moved
  <2>2. row[from[p]] \in Row
    BY <1>1, <1>3, <1>6 DEF RowMap, HasRow
  <2> QED
    BY <2>1, <2>2 DEF Row
<1>9. \A p \in olds : row'[p] = NoRow
  BY <1>4, <1>5
<1>10. \A p \in Path \ olds : row'[p] # row[p] => ~HasRow(p) /\ p \in Scanned
  BY <1>3, <1>5
<1> QED
  BY <1>4, <1>5, <1>6, <1>7, <1>8, <1>9, <1>10

LEMMA ChooseEffect ==
    ASSUME TypeInv, ChooseRereads
    PROVE  /\ AllBut({"reread", "todo"}) /\ run'.todo = Scanned
           /\ run'.reread = {p \in Scanned \ run.renamed :
                                StaleRow(row, p) /\ row[p].hash = run.entry[p]}
           /\ pc = "choose" /\ pc' = "loop" /\ UNCHANGED <<disk, row, recorded, history>>
BY FieldsOfRun DEF TypeInv, TypeOK, ChooseRereads, RunOK, AllBut, Fields, index

\* What becomes of a document, at once or when its rename is settled.
LEMMA OutcomeEffect ==
    ASSUME TypeInv, run.todo # {}, NEW result, NEW rows, Outcome(NextDoc, result, rows)
    PROVE  /\ row' = rows
           /\ \/ /\ NextDoc \in run.crossed /\ pc' = "settle"
                 /\ AllBut({"job", "result"}) /\ run'.result = result
              \/ /\ NextDoc \notin run.crossed /\ pc' = "loop"
                 /\ AllBut({"todo", "job", "result", "unsettled"})
                 /\ run'.todo = run.todo \ {NextDoc}
                 /\ run'.unsettled = IF ~Settled(NextDoc, result) /\ StaleRow(rows, NextDoc)
                                     THEN run.unsettled \cup {NextDoc} ELSE run.unsettled
<1>1. RunOK(run)
  BY DEF TypeInv, TypeOK
<1>2. CASE NextDoc \in run.crossed
  BY <1>1, <1>2, FieldsOfRun DEF Outcome, RunOK, AllBut, Fields
<1>3. CASE NextDoc \notin run.crossed
  BY <1>1, <1>3, FieldsOfRun DEF Outcome, Done, RunOK, AllBut, Fields
<1> QED
  BY <1>2, <1>3

\* A fast path, and what a read or a write of a document comes to.
LoopStep ==
    \/ KeepUnchanged \/ CannotRead \/ ReadFile
    \/ WriteMeta \/ WriteRows \/ WriteWhole \/ EmbedRejected

LEMMA LoopStepCases ==
    ASSUME TypeInv, PlanInv, LoopStep
    PROVE  /\ pc \in {"loop", "write"} /\ NextDoc \in run.todo /\ NextDoc \in Path
           /\ UNCHANGED <<disk, recorded, changes, others, written>> /\ (clean' => clean)
           /\ \/ \E result \in Results : Outcome(NextDoc, result, row')
              \/ pc' = "write" /\ row' = row /\ AllBut({"job"})
           /\ \A p \in Path \ {NextDoc} : row'[p] = row[p]
<1>1. /\ pc \in {"loop", "write"} /\ run.todo # {} /\ RunOK(run) /\ row \in RowMap /\ clean \in BOOLEAN
  BY DEF TypeInv, TypeOK, RowMap, WhereInv, LoopStep, KeepUnchanged, CannotRead, ReadFile, Looking,
         WriteMeta, WriteRows, WriteWhole, EmbedRejected
<1>2. NextDoc \in run.todo /\ NextDoc \in Path
  BY <1>1, NextDocIn DEF TypeInv
<1>3. UNCHANGED <<disk, recorded, changes, others, written>> /\ (clean' => clean)
  BY <1>1 DEF LoopStep, KeepUnchanged, CannotRead, ReadFile, WriteMeta, WriteRows, WriteWhole,
              EmbedRejected, history
<1> DEFINE Goal == /\ \/ \E result \in Results : Outcome(NextDoc, result, row')
                      \/ pc' = "write" /\ row' = row /\ AllBut({"job"})
                   /\ \A p \in Path \ {NextDoc} : row'[p] = row[p]
<1>4. ASSUME NEW result \in Results, NEW rows, Outcome(NextDoc, result, rows),
             \A p \in Path \ {NextDoc} : rows[p] = row[p]
      PROVE  Goal
  <2>1. Outcome(NextDoc, result, row') /\ row' = rows
    BY <1>1, <1>4, OutcomeEffect
  <2> QED
    BY <1>4, <2>1
<1>5. ASSUME NEW result \in Results, Outcome(NextDoc, result, row)
      PROVE  Goal
  BY <1>4, <1>5
<1>6. ASSUME NEW result \in Results, NEW to, Outcome(NextDoc, result, [row EXCEPT ![NextDoc] = to])
      PROVE  Goal
  <2>1. \A p \in Path \ {NextDoc} : [row EXCEPT ![NextDoc] = to][p] = row[p]
    BY <1>1 DEF RowMap
  <2> QED
    BY <1>4, <1>6, <2>1
<1>7. ASSUME run' = [run EXCEPT !.job = run'.job], pc' = "write", row' = row
      PROVE  Goal
  BY <1>1, <1>7, FieldsOfRun DEF RunOK, AllBut, Fields
<1> HIDE DEF Goal
<1>8. Goal
  <2>1. CASE KeepUnchanged
    <3>1. NextDoc \notin run.crossed /\ Done(NextDoc, "unchanged", row)
      BY <1>1, <2>1 DEF KeepUnchanged, FastPath, PlanInv, Looping, Looking
    <3>2. Outcome(NextDoc, "unchanged", row)
      BY <3>1 DEF Outcome
    <3> QED
      BY <1>5, <3>2 DEF Results
  <2>2. CASE CannotRead
    BY <1>5, <2>2 DEF CannotRead, Results
  <2>3. CASE ReadFile
    <3>1. PICK content : content = disk[NextDoc]
      OBVIOUS
    <3>2. \/ Outcome(NextDoc, "changed", row) \/ Outcome(NextDoc, "failed", row)
          \/ Outcome(NextDoc, "unchanged", row)
          \/ Outcome(NextDoc, "noText", [row EXCEPT ![NextDoc] = NoRow])
          \/ Outcome(NextDoc, "noText", row)
          \/ run' = [run EXCEPT !.job = JobFor(NextDoc, content)] /\ pc' = "write" /\ row' = row
      <4>1. CASE NextDoc \in run.reread
        BY <2>3, <3>1, <4>1 DEF ReadFile
      <4>2. CASE NextDoc \notin run.reread
        BY <2>3, <3>1, <4>2 DEF ReadFile
      <4> QED
        BY <4>1, <4>2
    <3>3. ASSUME run' = [run EXCEPT !.job = JobFor(NextDoc, content)]
          PROVE  run' = [run EXCEPT !.job = run'.job]
      BY <1>1, <3>3 DEF RunOK, NotStarted
    <3> QED
      BY <1>5, <1>6, <1>7, <3>2, <3>3 DEF Results
  <2>4. CASE WriteMeta
    <3>1. CASE HasRow(NextDoc)
      BY <1>6, <2>4, <3>1 DEF WriteMeta, Results
    <3>2. CASE ~HasRow(NextDoc)
      <4>1. run' = [run EXCEPT !.job.kind = "whole"] /\ pc' = "write" /\ row' = row
        BY <2>4, <3>2 DEF WriteMeta
      <4>2. run' = [run EXCEPT !.job = run'.job]
        BY <1>1, <4>1 DEF RunOK, NotStarted
      <4> QED
        BY <1>7, <4>1, <4>2
    <3> QED
      BY <3>1, <3>2
  <2>5. CASE WriteRows
    <3>1. \/ Outcome(NextDoc, "changed", row)
          \/ Outcome(NextDoc, "unchanged", [row EXCEPT ![NextDoc].rule = TRUE])
      BY <2>5 DEF WriteRows
    <3>2. [row EXCEPT ![NextDoc].rule = TRUE] = [row EXCEPT ![NextDoc] = [row[NextDoc] EXCEPT !.rule = TRUE]]
      OBVIOUS
    <3> QED
      BY <1>5, <1>6, <3>1, <3>2 DEF Results
  <2>6. CASE WriteWhole
    BY <1>6, <2>6 DEF WriteWhole, Results
  <2>7. CASE EmbedRejected
    BY <1>5, <2>7 DEF EmbedRejected, Results
  <2> QED
    BY <2>1, <2>2, <2>3, <2>4, <2>5, <2>6, <2>7 DEF LoopStep
<1> QED
  BY <1>1, <1>2, <1>3, <1>8 DEF Goal

LEMMA SettleEffect ==
    ASSUME TypeInv, Settle
    PROVE  /\ pc = "settle" /\ pc' = "loop" /\ NextDoc \in run.todo /\ NextDoc \in Path
           /\ AllBut({"todo", "result", "again", "unsettled"}) /\ run'.todo = run.todo \ {NextDoc}
           /\ run'.again = IF run.result = "changed" THEN run.again \cup {NextDoc} ELSE run.again
           /\ run'.unsettled \in {run.unsettled, run.unsettled \cup {NextDoc}}
           /\ run.result = "updated" => row' = row /\ run'.unsettled = run.unsettled
           /\ run.result = "changed" => row' = Marked(NextDoc)
           /\ run.result \notin {"updated", "changed"} => row' = [row EXCEPT ![NextDoc] = NoRow]
           /\ \A p \in Path \ {NextDoc} : row'[p] = row[p]
           /\ UNCHANGED <<disk, recorded, changes, others, written, clean>>
<1>1. RunOK(run) /\ run.todo # {} /\ row \in RowMap
  BY DEF TypeInv, TypeOK, RowMap, WhereInv, Settle
<1>2. NextDoc \in run.todo /\ NextDoc \in Path
  BY <1>1, NextDocIn DEF TypeInv
<1>3. PICK rows : /\ rows = IF run.result = "updated" THEN row
                            ELSE IF run.result = "changed" THEN Marked(NextDoc)
                            ELSE [row EXCEPT ![NextDoc] = NoRow]
                  /\ row' = rows
  BY DEF Settle
<1>4. run' = [run EXCEPT
                 !.todo = @ \ {NextDoc}, !.result = "none",
                 !.again = IF run.result = "changed" THEN @ \cup {NextDoc} ELSE @,
                 !.unsettled = IF run.result # "updated" /\ StaleRow(rows, NextDoc)
                               THEN @ \cup {NextDoc} ELSE @]
  BY <1>3 DEF Settle
<1>5. /\ AllBut({"todo", "result", "again", "unsettled"}) /\ run'.todo = run.todo \ {NextDoc}
      /\ run'.again = IF run.result = "changed" THEN run.again \cup {NextDoc} ELSE run.again
      /\ run'.unsettled = IF run.result # "updated" /\ StaleRow(rows, NextDoc)
                          THEN run.unsettled \cup {NextDoc} ELSE run.unsettled
  BY <1>1, <1>4, FieldsOfRun DEF RunOK, AllBut, Fields
<1>6. \A p \in Path \ {NextDoc} : row'[p] = row[p]
  BY <1>1, <1>2, <1>3 DEF RowMap, Marked
<1>7. pc = "settle" /\ pc' = "loop" /\ UNCHANGED <<disk, recorded, changes, others, written, clean>>
  BY DEF Settle, history
<1> QED
  BY <1>2, <1>3, <1>5, <1>6, <1>7

\* A document is looked at, or done with: its row is the only one that changes.
LEMMA LoopEffect ==
    ASSUME TypeInv, PlanInv, LoopStep \/ Settle
    PROVE  /\ pc \in Looping /\ NextDoc \in run.todo /\ NextDoc \in Path
           /\ AllBut({"todo", "job", "result", "again", "unsettled"})
           /\ UNCHANGED <<disk, recorded, changes, others, written>> /\ (clean' => clean)
           /\ \A p \in Path \ {NextDoc} : row'[p] = row[p]
           /\ \/ /\ pc' \in {"write", "settle"}
                 /\ run'.todo = run.todo /\ run'.again = run.again /\ run'.unsettled = run.unsettled
                 /\ NextDoc' = NextDoc
                 /\ NextDoc \in run.crossed \/ (row' = row /\ pc' = "write")
              \/ /\ pc' = "loop" /\ run'.todo = run.todo \ {NextDoc}
                 /\ run'.again \in {run.again, run.again \cup {NextDoc}}
                 /\ run'.unsettled \in {run.unsettled, run.unsettled \cup {NextDoc}}
<1>1. CASE Settle
  BY <1>1, SettleEffect DEF AllBut, Looping
<1>2. CASE LoopStep
  <2>1. run.todo # {}
    BY <1>2, LoopStepCases
  <2>2. ASSUME run'.todo = run.todo, run'.renamed = run.renamed
        PROVE  NextDoc' = NextDoc
    BY <2>2 DEF NextDoc
  <2>3. CASE pc' = "write" /\ row' = row /\ AllBut({"job"})
    BY <1>2, <2>2, <2>3, LoopStepCases DEF AllBut, Fields, Looping
  <2>4. ASSUME NEW result \in Results, Outcome(NextDoc, result, row')
        PROVE  /\ AllBut({"todo", "job", "result", "again", "unsettled"})
               /\ \/ /\ pc' = "settle" /\ NextDoc \in run.crossed
                     /\ run'.todo = run.todo /\ run'.again = run.again
                     /\ run'.unsettled = run.unsettled /\ NextDoc' = NextDoc
                  \/ /\ pc' = "loop" /\ run'.todo = run.todo \ {NextDoc} /\ run'.again = run.again
                     /\ run'.unsettled \in {run.unsettled, run.unsettled \cup {NextDoc}}
    <3>1. CASE NextDoc \in run.crossed
      BY <2>1, <2>2, <2>4, <3>1, OutcomeEffect DEF AllBut, Fields
    <3>2. CASE NextDoc \notin run.crossed
      BY <2>1, <2>4, <3>2, OutcomeEffect DEF AllBut, Fields
    <3> QED
      BY <3>1, <3>2
  <2>5. CASE \E result \in Results : Outcome(NextDoc, result, row')
    BY <1>2, <2>4, <2>5, LoopStepCases DEF Looping
  <2> QED
    BY <1>2, <2>3, <2>5, LoopStepCases
<1> QED
  BY <1>1, <1>2

RetryStep == RetryUnread \/ Retry \/ RetryWrite \/ RetrySettle

\* A crossed rename is read again: its row is the only one that changes.
LEMMA RetryEffect ==
    ASSUME TypeInv, RetryStep
    PROVE  /\ pc \in Looping /\ Retried \in run.again /\ Retried \in Path
           /\ AllBut({"job", "result", "again", "unsettled"})
           /\ UNCHANGED <<disk, recorded, changes, others, written>> /\ (clean' => clean)
           /\ \A p \in Path \ {Retried} : row'[p] = row[p]
           /\ \/ /\ pc' \in {"again", "againSettle"} /\ pc \in {"loop", "again"}
                 /\ run'.again = run.again /\ run'.unsettled = run.unsettled
                 /\ Retried' = Retried
                 /\ \/ row' = row /\ (pc' = "againSettle" => run'.result # "updated")
                    \/ pc' = "againSettle" /\ row'[Retried] = NoRow
                    \/ pc' = "againSettle" /\ run'.result = "updated"
              \/ /\ pc = "againSettle" /\ pc' = "loop" /\ run'.again = run.again \ {Retried}
                 /\ run'.unsettled \subseteq run.unsettled
<1>1. RunOK(run) /\ row \in RowMap /\ run.again # {} /\ clean \in BOOLEAN
  BY DEF TypeInv, TypeOK, RowMap, RetryStep, RetryUnread, Retry, RetryWrite, RetrySettle, WhereInv, Retrying
<1>2. Retried \in run.again /\ Retried \in Path
  BY <1>1, RetriedIn DEF TypeInv
<1>3. pc \in Looping /\ UNCHANGED <<disk, recorded, changes, others, written>> /\ (clean' => clean)
  BY <1>1 DEF RetryStep, RetryUnread, Retry, RetryWrite, RetrySettle, Retrying, Looping, history, index
<1>4. ASSUME run'.again = run.again PROVE Retried' = Retried
  BY <1>4 DEF Retried
<1>5. CASE RetryUnread
  <2>1. PICK result \in {"failed", "changed"} : run' = [run EXCEPT !.result = result]
    BY <1>5 DEF RetryUnread
  <2>2. AllBut({"result"}) /\ run'.result = result /\ run'.again = run.again /\ run'.unsettled = run.unsettled
    BY <1>1, <2>1, FieldsOfRun DEF RunOK, AllBut, Fields
  <2>3. row' = row /\ pc = "loop" /\ pc' = "againSettle"
    BY <1>5 DEF RetryUnread, index, Retrying
  <2> QED
    BY <1>2, <1>3, <1>4, <2>2, <2>3 DEF AllBut
<1>6. CASE Retry
  <2>1. PICK job, result :
           /\ run' = [run EXCEPT !.job = job, !.result = result]
           /\ pc = "loop" /\ pc' \in {"again", "againSettle"}
           /\ pc' = "againSettle" => result # "updated"
           /\ row' = row \/ (row' = [row EXCEPT ![Retried] = NoRow] /\ pc' = "againSettle")
    <3>1. CASE \E job : run' = [run EXCEPT !.job = job] /\ pc' = "again" /\ row' = row
      <4>1. PICK job : run' = [run EXCEPT !.job = job] /\ pc' = "again" /\ row' = row
        BY <3>1
      <4>2. run' = [run EXCEPT !.job = job, !.result = run.result]
        BY <1>1, <4>1 DEF RunOK
      <4> QED
        BY <1>6, <4>1, <4>2 DEF Retry, Retrying
    <3>2. CASE \E result \in {"failed", "noText"} :
                  /\ run' = [run EXCEPT !.result = result] /\ pc' = "againSettle"
                  /\ row' \in {row, [row EXCEPT ![Retried] = NoRow]}
      <4>1. PICK result \in {"failed", "noText"} :
                  /\ run' = [run EXCEPT !.result = result] /\ pc' = "againSettle"
                  /\ row' \in {row, [row EXCEPT ![Retried] = NoRow]}
        BY <3>2
      <4>2. run' = [run EXCEPT !.job = run.job, !.result = result]
        BY <1>1, <4>1 DEF RunOK
      <4> QED
        BY <1>6, <4>1, <4>2 DEF Retry, Retrying
    <3> QED
      BY <1>6, <3>1, <3>2 DEF Retry
  <2>2. AllBut({"job", "result"}) /\ run'.result = result /\ run'.again = run.again /\ run'.unsettled = run.unsettled
    BY <1>1, <2>1, FieldsOfRun DEF RunOK, AllBut, Fields
  <2>3. /\ \A p \in Path \ {Retried} : row'[p] = row[p]
        /\ row' = row \/ (row'[Retried] = NoRow /\ pc' = "againSettle")
    BY <1>1, <1>2, <2>1 DEF RowMap
  <2> QED
    BY <1>2, <1>3, <1>4, <2>1, <2>2, <2>3 DEF AllBut
<1>7. CASE RetryWrite
  <2>1. PICK result \in {"updated", "failed"} :
           /\ run' = [run EXCEPT !.job = NoJob, !.result = result] /\ pc = "again" /\ pc' = "againSettle"
           /\ result = "failed" => row' = row
           /\ row' \in {row, [row EXCEPT ![Retried] = RowOf(Retried, run.job.content)]}
    BY <1>7 DEF RetryWrite
  <2>2. AllBut({"job", "result"}) /\ run'.result = result /\ run'.again = run.again /\ run'.unsettled = run.unsettled
    BY <1>1, <2>1, FieldsOfRun DEF RunOK, AllBut, Fields
  <2>3. \A p \in Path \ {Retried} : row'[p] = row[p]
    BY <1>1, <2>1 DEF RowMap
  <2> QED
    BY <1>2, <1>3, <1>4, <2>1, <2>2, <2>3 DEF AllBut
<1>8. CASE RetrySettle
  <2>1. /\ AllBut({"again", "result", "unsettled"}) /\ run'.again = run.again \ {Retried}
        /\ run'.unsettled \subseteq run.unsettled /\ pc = "againSettle" /\ pc' = "loop"
    BY <1>1, <1>8, FieldsOfRun DEF RetrySettle, RunOK, AllBut, Fields
  <2>2. \A p \in Path \ {Retried} : row'[p] = row[p]
    BY <1>1, <1>2, <1>8 DEF RetrySettle, RowMap, Marked
  <2> QED
    BY <1>2, <1>3, <2>1, <2>2 DEF AllBut
<1> QED
  BY <1>5, <1>6, <1>7, <1>8 DEF RetryStep

LEMMA BeginPruneEffect ==
    ASSUME TypeInv, BeginPrune
    PROVE  /\ AllBut({"todo"}) /\ run'.todo = ToPrune /\ run.todo = {} /\ run.again = {}
           /\ pc = "loop" /\ pc' = "prune" /\ UNCHANGED <<disk, row, recorded, history>>
BY FieldsOfRun DEF TypeInv, TypeOK, BeginPrune, RunOK, AllBut, Fields, index

LEMMA PruneEffect ==
    ASSUME TypeInv, PruneBatch
    PROVE  /\ AllBut({"todo", "kept"}) /\ pc = "prune" /\ UNCHANGED <<disk, recorded, pc, history>>
           /\ \E p \in run.todo :
                 /\ p \in Path /\ run'.todo = run.todo \ {p}
                 /\ run'.kept \in {run.kept, run.kept \cup {p}}
                 /\ AsSeen(p) => row'[p] = NoRow
                 /\ HasRow(p) /\ ~AsSeen(p) => row'[p] \in {row[p], Marked(p)[p]}
                 /\ ~HasRow(p) => ~HasRow(p)'
                 /\ \A q \in Path \ {p} : row'[q] = row[q]
<1>1. RunOK(run) /\ run.todo # {} /\ row \in RowMap
  BY DEF TypeInv, TypeOK, RowMap, PruneBatch
<1>2. PICK p \in run.todo : p = First(run.todo) /\ p \in Path
  BY <1>1, FirstIn DEF RunOK
<1>3. /\ AllBut({"todo", "kept"}) /\ run'.todo = run.todo \ {p}
      /\ run'.kept \in {run.kept, run.kept \cup {p}}
  BY <1>1, <1>2, FieldsOfRun DEF PruneBatch, RunOK, AllBut, Fields
<1>4. /\ pc = "prune" /\ UNCHANGED <<disk, recorded, pc, history>>
      /\ row' = IF HasRow(p) /\ AsSeen(p) THEN [row EXCEPT ![p] = NoRow]
                ELSE IF HasRow(p) /\ ~AsSeen(p) /\ run.force THEN Marked(p) ELSE row
  <2>1. row' = IF HasRow(p) /\ ~(HasRow(p) /\ ~AsSeen(p)) THEN [row EXCEPT ![p] = NoRow]
                ELSE IF HasRow(p) /\ ~AsSeen(p) /\ run.force THEN Marked(p) ELSE row
    BY <1>2 DEF PruneBatch, MayDelete
  <2> QED
    BY <2>1 DEF PruneBatch
<1>5. AsSeen(p) => HasRow(p)
  BY DEF AsSeen
<1>6. \A q \in Path \ {p} : row'[q] = row[q]
  BY <1>1, <1>2, <1>4 DEF RowMap, Marked
<1>7. AsSeen(p) => row'[p] = NoRow
  BY <1>1, <1>2, <1>4, <1>5 DEF RowMap
<1>8. HasRow(p) /\ ~AsSeen(p) => row'[p] \in {row[p], Marked(p)[p]}
  BY <1>4
<1>9. ~HasRow(p) => ~HasRow(p)'
  BY <1>4, <1>5 DEF HasRow
<1> QED
  BY <1>2, <1>3, <1>4, <1>6, <1>7, <1>8, <1>9

LEMMA EndEffect ==
    ASSUME Record \/ Stop
    PROVE  /\ pc' = "idle" /\ changes' = 0 /\ written' = {} /\ clean' = FALSE
           /\ UNCHANGED <<disk, others>>
BY DEF Record, Stop, End

LEMMA ChangedEffect ==
    ASSUME Edit \/ Move
    PROVE  /\ UNCHANGED <<row, recorded, pc, run, others, written>> /\ clean' = FALSE
           /\ changes' = IF pc = "idle" THEN changes ELSE changes + 1
<1>1. PICK new : Changed(new)
  BY DEF Edit, Move
<1> QED
  BY <1>1 DEF Changed, index, Running

\* Another process writes: it indexes, drops or moves the row of a path.
LEMMA OtherEffect ==
    ASSUME OtherWrites \/ OtherDrops \/ OtherMoves
    PROVE  /\ UNCHANGED <<disk, recorded, pc, run, changes>> /\ clean' = FALSE
           /\ others' = others + 1 /\ pc # "idle"
           /\ pc \in {"reset", "snapshot"} => written' = {}
<1>1. PICK paths, rows : Other(paths, rows)
  BY DEF OtherWrites, OtherDrops, OtherMoves
<1> QED
  BY <1>1 DEF Other, Running

(***************************************************************************)
(* What the run knows                                                      *)
(***************************************************************************)

LEMMA InitPlan == Init => PlanInv
BY DEF Init, PlanInv, Seen, Begun, Looping

LEMMA BeginPlan ==
    ASSUME TypeInv, PlanInv, (\E force \in BOOLEAN : Start(force)) \/ Reset \/ Snapshot \/ Walk \/ ScanFile
    PROVE  PlanInv'
<1>1. CASE \E force \in BOOLEAN : Start(force)
  <2>1. PICK force \in BOOLEAN : Start(force)
    BY <1>1
  <2>2. changes' = 0 /\ written' = {}
    BY <2>1, StartEffect DEF PlanInv, Seen, Looping
  <2> QED
    BY <2>1, <2>2, StartEffect DEF PlanInv, Seen, Begun, Looping, Scanned
<1>2. CASE Reset
  BY <1>2 DEF Reset, PlanInv, Seen, Begun, Looping, Scanned, history
<1>3. CASE Snapshot
  BY <1>3, SnapshotEffect DEF PlanInv, Seen, Begun, Looping, Scanned, AllBut, Fields, history
<1>4. CASE Walk
  <2>1. AllBut({"todo", "found"}) /\ pc = "walk" /\ pc' \in {"walk", "scan", "rename"}
        /\ UNCHANGED history
    BY <1>4, WalkEffect
  <2> QED
    BY <2>1 DEF PlanInv, Seen, Begun, Looping, Scanned, AllBut, Fields, history
<1>5. CASE ScanFile
  <2>1. AllBut({"todo", "entry", "skipped"}) /\ pc = "scan" /\ pc' \in {"scan", "rename"}
        /\ UNCHANGED <<changes, written>> /\ (clean' => clean)
    <3>1. clean' = clean \/ clean' = FALSE
      BY <1>5, ScanEffect
    <3>2. clean' => clean
      BY <3>1
    <3>3. AllBut({"todo", "entry", "skipped"}) /\ pc = "scan" /\ pc' \in {"scan", "rename"}
          /\ UNCHANGED <<changes, written>>
      BY <1>5, ScanEffect
    <3> QED
      BY <3>2, <3>3
  <2> QED
    BY <2>1 DEF PlanInv, Seen, Begun, Looping, AllBut, Fields
<1> QED
  BY <1>1, <1>2, <1>3, <1>4, <1>5

LEMMA ChoosePlan ==
    ASSUME TypeInv, PlanInv, Rename \/ ChooseRereads
    PROVE  PlanInv'
<1>1. CASE Rename
  BY <1>1, RenameEffect DEF PlanInv, Seen, Begun, Looping, AllBut, Fields, history
<1>2. CASE ChooseRereads
  <2>1. run'.reread \cap run'.renamed = {}
    BY <1>2, ChooseEffect DEF AllBut, Fields
  <2> QED
    BY <1>2, <2>1, ChooseEffect DEF PlanInv, Seen, Begun, Looping, Scanned, AllBut, Fields, history
<1> QED
  BY <1>1, <1>2

LEMMA LoopPlan ==
    ASSUME TypeInv, PlanInv, LoopStep \/ Settle \/ RetryStep
    PROVE  PlanInv'
<1>1. CASE LoopStep \/ Settle
  <2>1. /\ pc \in Looping /\ pc' \in {"write", "settle", "loop"} /\ UNCHANGED <<changes, written>>
        /\ (clean' => clean) /\ AllBut({"todo", "job", "result", "again", "unsettled"})
    BY <1>1, LoopEffect
  <2>2. /\ run'.todo \subseteq run.todo /\ run'.again \subseteq run.again \cup {NextDoc}
        /\ run'.todo \cap (run'.again \cup run'.unsettled) = {} /\ NextDoc \in Scanned
    BY <1>1, LoopEffect DEF PlanInv
  <2>3. pc' = "settle" => NextDoc' \in run.crossed
    BY <1>1, LoopEffect
  <2> QED
    BY <2>1, <2>2, <2>3 DEF PlanInv, Seen, Begun, Looping, Scanned, AllBut, Fields
<1>2. CASE RetryStep
  <2>1. /\ pc \in Looping /\ pc' \in {"again", "againSettle", "loop"} /\ UNCHANGED <<changes, written>>
        /\ (clean' => clean) /\ AllBut({"job", "result", "again", "unsettled"})
        /\ run'.again \subseteq run.again /\ run'.unsettled \subseteq run.unsettled
    BY <1>2, RetryEffect
  <2> QED
    BY <2>1 DEF PlanInv, Seen, Begun, Looping, Scanned, AllBut, Fields
<1> QED
  BY <1>1, <1>2

LEMMA EndPlan ==
    ASSUME TypeInv, PlanInv, BeginPrune \/ PruneBatch \/ Record \/ Stop
    PROVE  PlanInv'
<1>1. CASE BeginPrune
  <2>1. run'.kept = {} /\ ToPrune' = ToPrune
    BY <1>1, BeginPruneEffect DEF PlanInv, Looping, AllBut, Fields, ToPrune, Scanned
  <2> QED
    BY <1>1, <2>1, BeginPruneEffect DEF PlanInv, Seen, Begun, Looping, history
<1>2. CASE PruneBatch
  <2>1. ToPrune' = ToPrune
    BY <1>2, PruneEffect DEF AllBut, Fields, ToPrune, Scanned
  <2>2. run'.todo \cup run'.kept \subseteq run.todo \cup run.kept
    BY <1>2, PruneEffect
  <2> QED
    BY <1>2, <2>1, <2>2, PruneEffect DEF PlanInv, Seen, Begun, Looping, history
<1>3. CASE Record \/ Stop
  BY <1>3, EndEffect DEF PlanInv, Seen, Begun, Looping
<1> QED
  BY <1>1, <1>2, <1>3

LEMMA OutsidePlan ==
    ASSUME TypeInv, PlanInv, Edit \/ Move \/ OtherWrites \/ OtherDrops \/ OtherMoves
    PROVE  PlanInv'
<1>1. /\ UNCHANGED <<pc, run>> /\ clean' = FALSE
      /\ pc = "idle" => changes' = changes
      /\ pc \notin Seen => written' = {}
  <2>1. CASE Edit \/ Move
    BY <2>1, ChangedEffect DEF PlanInv
  <2>2. CASE OtherWrites \/ OtherDrops \/ OtherMoves
    BY <2>2, OtherEffect DEF TypeInv, TypeOK, PC, Seen, Looping
  <2> QED
    BY <2>1, <2>2
<1>2. NextDoc' = NextDoc /\ Scanned' = Scanned /\ ToPrune' = ToPrune
  BY <1>1 DEF NextDoc, Scanned, ToPrune
<1> QED
  BY <1>1, <1>2 DEF PlanInv

LEMMA PlanInvNext == TypeInv /\ PlanInv /\ [Next]_vars => PlanInv'
<1> SUFFICES ASSUME TypeInv, PlanInv, [Next]_vars PROVE PlanInv'
  OBVIOUS
<1>1. CASE UNCHANGED vars
  BY <1>1 DEF PlanInv, vars, index, history, Scanned, ToPrune, NextDoc, First
<1>2. CASE Next
  BY <1>2, BeginPlan, ChoosePlan, LoopPlan, EndPlan, OutsidePlan DEF Next, Step, LoopStep, RetryStep
<1> QED
  BY <1>1, <1>2

(***************************************************************************)
(* Rows of files the scan did not come across                              *)
(***************************************************************************)

\* While no other process writes: a row without a file is the one the snapshot saw, until the
\* prune takes it, and there is no row but of a scanned file or one the snapshot saw.
AloneInv ==
    others = 0 =>
        /\ written = {}
        /\ pc \in Seen =>
              \A p \in ToPrune \ run.moved :
                  IF pc = "prune" /\ p \notin run.todo THEN ~HasRow(p) ELSE AsSeen(p)
        /\ pc \in Seen =>
              \A p \in Path : HasRow(p) => \/ pc \in Past /\ p \in Scanned
                                           \/ p \in DOMAIN run.snap \ run.moved

\* After one write of another process: a row it wrote, of a file the scan did not come across,
\* is not the one the snapshot saw.
OthersInv ==
    others <= 1 /\ pc \in Seen =>
        \A p \in (written \cap ToPrune) \ run.moved :
            (pc = "prune" => p \in run.todo) => ~AsSeen(p)

\* What a step has to show that touches no row of a file the scan did not come across.
LEMMA SameOrphans ==
    ASSUME TypeInv, PlanInv, AloneInv, OthersInv, pc \in Seen, pc' \in Seen \ {"prune"}, pc # "prune",
           UNCHANGED <<others, written>>, pc \in Past => pc' \in Past,
           run'.snap = run.snap, run.moved \subseteq run'.moved,
           Scanned \subseteq Scanned', run.skipped \subseteq run'.skipped,
           \A p \in Path : row'[p] = row[p] \/ ~HasRow(p)' \/ (p \in Scanned /\ pc' \in Past),
           \A p \in ToPrune \ run'.moved : row'[p] = row[p],
           \A p \in run'.moved \ run.moved : ~HasRow(p)'
    PROVE  AloneInv' /\ OthersInv'
<1>1. ToPrune' \subseteq ToPrune
  BY DEF ToPrune
<1>2. ASSUME NEW p \in ToPrune \ run'.moved PROVE AsSeen(p)' <=> AsSeen(p)
  BY <1>2 DEF AsSeen, HasRow
<1>3. ASSUME others = 0, NEW p \in ToPrune' \ run'.moved PROVE AsSeen(p)'
  BY <1>1, <1>2, <1>3 DEF AloneInv
<1>4. ASSUME others = 0, NEW p \in Path, HasRow(p)'
      PROVE  (pc' \in Past /\ p \in Scanned') \/ p \in DOMAIN run'.snap \ run'.moved
  BY <1>4 DEF AloneInv, HasRow
<1>5. AloneInv'
  BY <1>3, <1>4 DEF AloneInv
<1>6. OthersInv'
  BY <1>1, <1>2 DEF OthersInv
<1> QED
  BY <1>5, <1>6

LEMMA InitAlone == Init => AloneInv /\ OthersInv
BY DEF Init, AloneInv, OthersInv, Seen, Looping

LEMMA BeginAlone ==
    ASSUME TypeInv, PlanInv, AloneInv, OthersInv,
           (\E force \in BOOLEAN : Start(force)) \/ Reset \/ Snapshot \/ Walk \/ ScanFile
    PROVE  AloneInv' /\ OthersInv'
<1>1. CASE (\E force \in BOOLEAN : Start(force)) \/ Reset
  <2>1. pc' \notin Seen /\ UNCHANGED <<others, written>>
    <3>1. CASE Reset
      BY <3>1 DEF Reset, history, Seen, Looping
    <3>2. ASSUME NEW force \in BOOLEAN, Start(force) PROVE <2>1
      BY <3>2, StartEffect DEF Seen, Looping
    <3> QED
      BY <1>1, <3>1, <3>2
  <2> QED
    BY <2>1 DEF AloneInv, OthersInv
<1>2. CASE Snapshot
  <2>1. pc = "snapshot" /\ pc' = "walk" /\ UNCHANGED <<others, written>> /\ written = {}
        /\ run'.moved = run.moved /\ run.moved = {}
    BY <1>2, SnapshotEffect DEF AllBut, Fields, history, PlanInv, Begun, Seen, Looping
  <2>2. \A p \in DOMAIN run'.snap : AsSeen(p)' /\ p \in Path
    BY <1>2, SnapshotEffect
  <2>3. \A p \in Path : HasRow(p)' => p \in DOMAIN run'.snap
    BY <1>2, SnapshotEffect
  <2>4. ToPrune' \subseteq DOMAIN run'.snap
    BY DEF ToPrune
  <2> QED
    BY <2>1, <2>2, <2>3, <2>4 DEF AloneInv, OthersInv
<1>3. CASE Walk
  <2>1. /\ AllBut({"todo", "found"}) /\ pc = "walk" /\ pc' \in {"walk", "scan", "rename"}
        /\ UNCHANGED <<row, others, written>>
    BY <1>3, WalkEffect DEF history
  <2>2. /\ run'.snap = run.snap /\ run'.moved = run.moved /\ run'.skipped = run.skipped
        /\ Scanned' = Scanned
    BY <2>1 DEF Scanned, AllBut, Fields
  <2> QED
    BY <2>1, <2>2, SameOrphans DEF Seen, Past, Looping
<1>4. CASE ScanFile
  <2>1. /\ AllBut({"todo", "entry", "skipped"}) /\ pc = "scan" /\ pc' \in {"scan", "rename"}
        /\ UNCHANGED <<row, others, written>>
    BY <1>4, ScanEffect
  <2>2. Scanned \subseteq Scanned' /\ run.skipped \subseteq run'.skipped
    <3>1. PICK p \in run.todo :
             \/ Scanned' = Scanned \cup {p} /\ run'.skipped = run.skipped
             \/ run'.entry = run.entry /\ run'.skipped = run.skipped \cup {p}
      BY <1>4, ScanEffect
    <3> QED
      BY <3>1 DEF Scanned
  <2> QED
    BY <2>1, <2>2, SameOrphans DEF AllBut, Fields, Seen, Past
<1> QED
  BY <1>1, <1>2, <1>3, <1>4

LEMMA LoopAlone ==
    ASSUME TypeInv, PlanInv, AloneInv, OthersInv,
           Rename \/ ChooseRereads \/ LoopStep \/ Settle \/ RetryStep
    PROVE  AloneInv' /\ OthersInv'
<1>1. CASE Rename
  <2>1. /\ AllBut({"moved", "crossed", "renamed"}) /\ pc = "rename" /\ pc' = "choose"
        /\ UNCHANGED <<others, written>> /\ run.moved = {}
    BY <1>1, RenameEffect DEF history, PlanInv, Begun
  <2>2. \A p \in Path \ run'.moved : row'[p] # row[p] => p \in Scanned
    BY <1>1, RenameEffect
  <2>3. \A p \in run'.moved : ~HasRow(p)'
    BY <1>1, RenameEffect DEF HasRow
  <2>4. \A p \in ToPrune : p \notin Scanned /\ p \in Path
    BY DEF ToPrune, TypeInv, TypeOK, RunOK
  <2> QED
    BY <2>1, <2>2, <2>3, <2>4, SameOrphans DEF Scanned, AllBut, Fields, Seen, Past
<1>2. CASE ChooseRereads
  BY <1>2, ChooseEffect, SameOrphans DEF Scanned, AllBut, Fields, Seen, Past, Looping, history
<1>3. ASSUME NEW p \in Scanned, \A q \in Path \ {p} : row'[q] = row[q],
             pc \in Looping, pc' \in Looping, UNCHANGED <<others, written>>,
             AllBut({"todo", "job", "result", "again", "unsettled"})
      PROVE  AloneInv' /\ OthersInv'
  <2>1. \A q \in ToPrune : q # p /\ q \in Path
    BY DEF ToPrune, TypeInv, TypeOK, RunOK
  <2>2. run'.snap = run.snap /\ run'.moved = run.moved /\ run'.skipped = run.skipped /\ run'.entry = run.entry
    BY <1>3 DEF AllBut, Fields
  <2> QED
    BY <1>3, <2>1, <2>2, SameOrphans DEF Scanned, Seen, Past, Looping
<1>4. CASE LoopStep \/ Settle
  <2>1. NextDoc \in Scanned
    BY <1>4, LoopEffect DEF PlanInv
  <2>2. pc' \in Looping
    BY <1>4, LoopEffect DEF Looping
  <2> QED
    BY <1>3, <1>4, <2>1, <2>2, LoopEffect
<1>5. CASE RetryStep
  <2>1. Retried \in Scanned
    BY <1>5, RetryEffect DEF PlanInv
  <2>2. pc' \in Looping
    BY <1>5, RetryEffect DEF Looping
  <2>3. AllBut({"todo", "job", "result", "again", "unsettled"})
    BY <1>5, RetryEffect DEF AllBut
  <2> QED
    BY <1>3, <1>5, <2>1, <2>2, <2>3, RetryEffect
<1> QED
  BY <1>1, <1>2, <1>4, <1>5

LEMMA EndAlone ==
    ASSUME TypeInv, PlanInv, AloneInv, OthersInv, BeginPrune \/ PruneBatch \/ Record \/ Stop
    PROVE  AloneInv' /\ OthersInv'
<1>1. CASE BeginPrune
  <2>1. /\ AllBut({"todo"}) /\ run'.todo = ToPrune /\ pc = "loop" /\ pc' = "prune"
        /\ UNCHANGED <<row, others, written>>
    BY <1>1, BeginPruneEffect DEF history
  <2>2. ToPrune' = ToPrune /\ Scanned' = Scanned /\ run'.moved = run.moved /\ run'.snap = run.snap
    BY <2>1 DEF ToPrune, Scanned, AllBut, Fields
  <2>3. \A p \in Path : (AsSeen(p)' <=> AsSeen(p)) /\ (HasRow(p)' <=> HasRow(p))
    BY <2>1, <2>2 DEF AsSeen, HasRow
  <2>4. \A p \in ToPrune : p \in Path
    BY DEF ToPrune, TypeInv, TypeOK, RunOK
  <2>5. pc \in Seen /\ pc \in Past /\ pc' \in Past
    BY <2>1 DEF Seen, Past, Looping
  <2>6. AloneInv'
    BY <2>1, <2>2, <2>3, <2>4, <2>5 DEF AloneInv
  <2>7. OthersInv'
    BY <2>1, <2>2, <2>3, <2>4, <2>5 DEF OthersInv
  <2> QED
    BY <2>6, <2>7
<1>2. CASE PruneBatch
  <2>1. /\ AllBut({"todo", "kept"}) /\ pc = "prune" /\ pc' = "prune" /\ UNCHANGED <<others, written>>
    BY <1>2, PruneEffect DEF history
  <2>2. PICK p \in run.todo :
           /\ p \in Path /\ run'.todo = run.todo \ {p}
           /\ AsSeen(p) => row'[p] = NoRow
           /\ ~HasRow(p) => ~HasRow(p)'
           /\ \A q \in Path \ {p} : row'[q] = row[q]
    BY <1>2, PruneEffect
  <2>3. ToPrune' = ToPrune /\ Scanned' = Scanned /\ run'.moved = run.moved /\ run'.snap = run.snap
    BY <2>1 DEF ToPrune, Scanned, AllBut, Fields
  <2>4. \A q \in Path \ {p} : (AsSeen(q)' <=> AsSeen(q)) /\ (HasRow(q)' <=> HasRow(q))
    BY <2>2, <2>3 DEF AsSeen, HasRow
  <2>5. \A q \in ToPrune : q \in Path
    BY DEF ToPrune, TypeInv, TypeOK, RunOK
  <2>6. pc \in Seen /\ pc \in Past
    BY <2>1 DEF Seen, Past
  <2>7. HasRow(p)' => HasRow(p)
    BY <2>2
  <2>8. ASSUME others = 0, p \in ToPrune \ run.moved PROVE ~HasRow(p)'
    BY <2>1, <2>2, <2>6, <2>8 DEF AloneInv, HasRow
  <2>9. AloneInv'
    BY <2>1, <2>2, <2>3, <2>4, <2>5, <2>6, <2>7, <2>8 DEF AloneInv
  <2>10. OthersInv'
    BY <2>1, <2>2, <2>3, <2>4, <2>5, <2>6 DEF OthersInv
  <2> QED
    BY <2>9, <2>10
<1>3. CASE Record \/ Stop
  BY <1>3, EndEffect DEF AloneInv, OthersInv, Seen, Looping
<1> QED
  BY <1>1, <1>2, <1>3

\* The first write of another process: it gives the row another hash, drops it, or moves it.
LEMMA OutsideAlone ==
    ASSUME TypeInv, PlanInv, AloneInv, OthersInv,
           Edit \/ Move \/ OtherWrites \/ OtherDrops \/ OtherMoves
    PROVE  AloneInv' /\ OthersInv'
<1>1. CASE Edit \/ Move
  <2>1. UNCHANGED <<row, pc, run, others, written>>
    BY <1>1, ChangedEffect
  <2> QED
    BY <2>1 DEF AloneInv, OthersInv, AsSeen, HasRow, Scanned, ToPrune
<1>2. CASE OtherWrites \/ OtherDrops \/ OtherMoves
  <2>1. UNCHANGED <<pc, run>> /\ others' = others + 1 /\ others \in Nat
    <3>1. others \in Nat
      BY BoundAssumption DEF TypeInv, TypeOK
    <3> QED
      BY <1>2, <3>1, OtherEffect
  <2>2. AloneInv'
    BY <2>1 DEF AloneInv
  <2>3. CASE others # 0 \/ pc \notin Seen
    <3>1. others # 0 => ~(others' <= 1)
      BY <2>1
    <3>2. pc' = pc
      BY <2>1
    <3> QED
      BY <2>2, <2>3, <3>1, <3>2 DEF OthersInv
  <2>4. CASE others = 0 /\ pc \in Seen
    <3>1. written = {} /\ pc \notin {"reset", "snapshot"} /\ row \in RowMap
      BY <2>4 DEF AloneInv, Seen, Looping, TypeInv, TypeOK, RowMap
    <3>2. PICK paths, rows : /\ written' = paths /\ row' = rows
                             /\ \A p \in paths \ run.moved :
                                   p \in ToPrune /\ (pc = "prune" => p \in run.todo) => ~AsSeen(p)'
      <4>1. CASE OtherWrites
        <5>1. PICK p \in Path : /\ HashAt(p) # disk[p] /\ disk[p] # Gone
                                /\ Other({p}, [row EXCEPT ![p] = RowOf(p, disk[p])])
          BY <4>1 DEF OtherWrites
        <5>2. written' = {p} /\ row' = [row EXCEPT ![p] = RowOf(p, disk[p])]
          BY <3>1, <5>1 DEF Other
        <5>3. row'[p].hash = disk[p]
          BY <3>1, <5>2 DEF RowOf, RowMap
        <5>4. ASSUME p \in ToPrune \ run.moved, pc = "prune" => p \in run.todo PROVE ~AsSeen(p)'
          <6>1. AsSeen(p)
            BY <2>4, <5>4 DEF AloneInv
          <6>2. run.snap[p] # disk[p]
            BY <5>1, <6>1 DEF AsSeen, HashAt
          <6> QED
            BY <2>1, <5>3, <6>2 DEF AsSeen
        <5> QED
          BY <5>2, <5>4
      <4>2. CASE OtherDrops
        <5>1. PICK p \in Path : Other({p}, [row EXCEPT ![p] = NoRow])
          BY <4>2 DEF OtherDrops
        <5>2. written' = {p} /\ row' = [row EXCEPT ![p] = NoRow]
          BY <3>1, <5>1 DEF Other
        <5>3. ~AsSeen(p)'
          BY <3>1, <5>2 DEF AsSeen, HasRow, RowMap
        <5> QED
          BY <5>2, <5>3
      <4>3. CASE OtherMoves
        <5>1. PICK p \in Path, q \in Path :
                 /\ HasRow(p) /\ ~HasRow(q)
                 /\ Other({p, q}, [row EXCEPT ![p] = NoRow, ![q] = row[p]])
          BY <4>3 DEF OtherMoves
        <5>2. written' = {p, q} /\ row' = [row EXCEPT ![p] = NoRow, ![q] = row[p]]
          BY <3>1, <5>1 DEF Other
        <5>3. ~AsSeen(p)'
          BY <3>1, <5>1, <5>2 DEF AsSeen, HasRow, RowMap
        <5>4. ASSUME q \in ToPrune \ run.moved, pc = "prune" => q \in run.todo PROVE FALSE
          <6>1. AsSeen(q)
            BY <2>4, <5>4 DEF AloneInv
          <6> QED
            BY <5>1, <6>1 DEF AsSeen
        <5> QED
          BY <5>2, <5>3, <5>4
      <4> QED
        BY <1>2, <4>1, <4>2, <4>3
    <3>3. ToPrune' = ToPrune
      BY <2>1 DEF ToPrune, Scanned
    <3> QED
      BY <2>1, <2>2, <3>2, <3>3 DEF OthersInv
  <2> QED
    BY <2>2, <2>3, <2>4
<1> QED
  BY <1>1, <1>2

RowsInv == PlanInv /\ AloneInv /\ OthersInv

LEMMA RowsInvNext == TypeInv /\ RowsInv /\ [Next]_vars => RowsInv'
<1> SUFFICES ASSUME TypeInv, PlanInv, AloneInv, OthersInv, [Next]_vars PROVE RowsInv'
  BY DEF RowsInv
<1>1. PlanInv'
  BY PlanInvNext
<1>2. CASE UNCHANGED vars
  <2>1. AloneInv' /\ OthersInv'
    BY <1>2 DEF AloneInv, OthersInv, AsSeen, HasRow, Scanned, ToPrune, vars, index, history
  <2> QED
    BY <1>1, <2>1 DEF RowsInv
<1>3. CASE Next
  <2>1. AloneInv' /\ OthersInv'
    BY <1>3, BeginAlone, LoopAlone, EndAlone, OutsideAlone DEF Next, Step, LoopStep, RetryStep
  <2> QED
    BY <1>1, <2>1 DEF RowsInv
<1> QED
  BY <1>2, <1>3

LEMMA RowsInvAlways == Spec => [](TypeInv /\ RowsInv)
<1>1. Init => RowsInv
  BY InitPlan, InitAlone DEF RowsInv
<1>2. Spec => []RowsInv
  BY <1>1, RowsInvNext, TypeInvAlways, PTL DEF Spec
<1> QED
  BY <1>2, TypeInvAlways, PTL

\* What another process wrote under a path since the snapshot is not taken by the renames or the
\* prune, which compare the id and the hash they saw: with one such write, however many files
\* changed and wherever earlier runs were cut short.
THEOREM OthersKeptTheorem == Spec => OthersKept
<1>1. ASSUME TypeInv, RowsInv, [Next]_vars, others <= 1, others' = others, pc \in {"rename", "prune"},
             NEW p \in written \ run.moved, HasRow(p)
      PROVE  row'[p] \in {row[p], Marked(p)[p]}
  <2>1. /\ p \in Path /\ pc \in Seen /\ AloneInv /\ OthersInv /\ PlanInv
    BY <1>1 DEF TypeInv, TypeOK, Seen, RowsInv
  <2>2. CASE row' = row
    BY <2>2
  <2>3. CASE Rename
    <3>1. pc = "rename" /\ run'.moved \subseteq ToPrune
      BY <2>3, RenameEffect, <1>1
    <3>2. p \notin run'.moved
      <4> SUFFICES ASSUME p \in run'.moved PROVE FALSE
        OBVIOUS
      <4>1. AsSeen(p)
        BY <1>1, <2>3, RenameEffect
      <4>2. p \in ToPrune
        BY <3>1
      <4> QED
        BY <1>1, <2>1, <3>1, <4>1, <4>2 DEF OthersInv
    <3> QED
      BY <1>1, <2>1, <2>3, <3>2, RenameEffect
  <2>4. CASE PruneBatch
    <3>1. PICK q \in run.todo :
             /\ HasRow(q) /\ ~AsSeen(q) => row'[q] \in {row[q], Marked(q)[q]}
             /\ \A other \in Path \ {q} : row'[other] = row[other]
      BY <1>1, <2>4, PruneEffect
    <3>2. pc = "prune" /\ q \in ToPrune
      BY <2>1, <2>4 DEF PruneBatch, PlanInv
    <3>3. p = q => ~AsSeen(p)
      BY <1>1, <2>1, <3>2 DEF OthersInv
    <3> QED
      BY <1>1, <2>1, <3>1, <3>3
  <2>5. CASE Record
    <3>1. row'[p] = row[p] \/ row'[p] = [row[p] EXCEPT !.hash = Awaiting]
      BY <2>1, <2>5 DEF Record
    <3>2. Marked(p)[p] = [row[p] EXCEPT !.hash = Awaiting]
      BY <1>1, <2>1 DEF Marked, TypeInv, TypeOK
    <3> QED
      BY <3>1, <3>2
  <2>6. CASE Stop \/ Edit \/ Move
    BY <2>2, <2>6, ChangedEffect DEF Stop, index
  <2>7. CASE OtherWrites \/ OtherDrops \/ OtherMoves
    <3>1. others \in Nat
      BY <1>1, BoundAssumption DEF TypeInv, TypeOK
    <3>2. others' = others + 1
      BY <2>7, OtherEffect
    <3> QED
      BY <1>1, <3>1, <3>2
  <2>8. ASSUME \/ \E force \in BOOLEAN : Start(force)
               \/ Reset \/ Snapshot \/ Walk \/ ScanFile \/ ChooseRereads \/ LoopStep \/ Settle \/ RetryStep
               \/ BeginPrune
        PROVE  FALSE
    BY <1>1, <2>1, <2>8, StartEffect, LoopEffect, RetryEffect
       DEF Reset, Snapshot, Walk, ScanFile, ChooseRereads, BeginPrune, Looping
  <2> QED
    BY <1>1, <2>2, <2>3, <2>4, <2>5, <2>6, <2>7, <2>8
       DEF Next, Step, LoopStep, RetryStep, vars, index
<1>2. TypeInv /\ RowsInv /\ [Next]_vars =>
         [others <= 1 /\ others' = others /\ pc \in {"rename", "prune"} =>
             \A p \in written \ run.moved :
                 HasRow(p) => row'[p] \in {row[p], Marked(p)[p]}]_vars
  BY <1>1
<1> QED
  BY <1>2, RowsInvAlways, PTL DEF Spec, OthersKept

(***************************************************************************)
(* Files that stay as they are                                             *)
(***************************************************************************)

\* While no file changes: the scan comes across what is there, and hashes what it will read.
StillInv ==
    changes = 0 =>
        /\ pc = "walk" => \A p \in Path : (p \in run.found => disk[p] # Gone)
                                          /\ (disk[p] # Gone => p \in run.todo \cup run.found)
        /\ pc = "scan" => \A p \in Path : disk[p] # Gone <=> p \in run.todo \cup Scanned \cup run.skipped
        /\ pc \in Past => \A p \in Path : disk[p] # Gone <=> p \in Scanned \cup run.skipped
        /\ pc \in Seen => \A p \in Scanned : run.entry[p] = disk[p]

\* A row, if there is one, that no fast path trusts.
Waits(entry) == entry # NoRow => entry.hash = Awaiting

\* While no other process writes: a row that crossed between parsers awaits its read until it is
\* written whole.
CrossedInv ==
    others = 0 =>
        /\ pc = "choose" => \A p \in run.crossed : Waits(row[p])
        /\ pc \in Looping =>
              /\ \A p \in run.crossed \cap run.todo :
                    Waits(row[p]) \/ (pc = "settle" /\ run.result = "updated" /\ p = NextDoc)
              /\ \A p \in run.again :
                    Waits(row[p]) \/ (pc = "againSettle" /\ run.result = "updated" /\ p = Retried)

LEMMA InitStill == Init => StillInv /\ CrossedInv
BY DEF Init, StillInv, CrossedInv, Seen, Past, Looping

\* What the scan found says the same while the files and the scan do.
LEMMA SameScan ==
    ASSUME StillInv, pc \in Past, (pc' \in Past \/ pc' \notin Seen \cup Past), UNCHANGED <<disk, changes>>,
           run'.entry = run.entry, run'.skipped = run.skipped
    PROVE  StillInv'
<1>1. Scanned' = Scanned
  BY DEF Scanned
<1>2. pc \in Seen /\ (pc' \in Seen => pc' \in Past) /\ (pc' \notin {"walk", "scan"} \/ pc' \notin Seen \cup Past)
  BY DEF Seen, Past, Looping
<1>3. pc' \in {"walk", "scan"} => pc' \in Seen
  BY DEF Seen
<1>4. pc \in Seen
  BY DEF Seen, Past
<1> QED
  BY <1>1, <1>2, <1>3, <1>4 DEF StillInv

LEMMA BeginStill ==
    ASSUME TypeInv, PlanInv, StillInv,
           (\E force \in BOOLEAN : Start(force)) \/ Reset \/ Snapshot \/ Walk \/ ScanFile
    PROVE  StillInv'
<1>1. CASE (\E force \in BOOLEAN : Start(force)) \/ Reset
  <2>1. pc' \in {"reset", "snapshot"}
    <3>1. CASE Reset
      BY <3>1 DEF Reset
    <3>2. ASSUME NEW force \in BOOLEAN, Start(force) PROVE <2>1
      BY <3>2, StartEffect
    <3> QED
      BY <1>1, <3>1, <3>2
  <2> QED
    BY <2>1 DEF StillInv, Seen, Past, Looping
<1>2. CASE Snapshot
  <2>1. /\ pc' = "walk" /\ run'.todo = Path /\ run'.found = {} /\ Scanned' = {}
        /\ UNCHANGED <<disk, changes>>
    BY <1>2, SnapshotEffect DEF PlanInv, Scanned, AllBut, Fields, history
  <2> QED
    BY <2>1 DEF StillInv, Seen, Past, Looping
<1>3. CASE Walk
  <2>1. /\ AllBut({"todo", "found"}) /\ pc = "walk" /\ UNCHANGED <<disk, changes>>
        /\ Scanned = {} /\ run.skipped = {}
    BY <1>3, WalkEffect DEF history, PlanInv
  <2>2. PICK p \in run.todo : \E found :
           /\ found = run.found \cup (IF disk[p] # Gone THEN {p} ELSE {})
           /\ \/ run'.todo = run.todo \ {p} /\ run'.found = found /\ pc' = "walk"
              \/ /\ run.todo = {p} /\ run'.todo = found /\ pc' \in {"scan", "rename"}
                 /\ pc' = "rename" => found = {}
    BY <1>3, WalkEffect
  <2>3. PICK found :
           /\ found = run.found \cup (IF disk[p] # Gone THEN {p} ELSE {})
           /\ \/ run'.todo = run.todo \ {p} /\ run'.found = found /\ pc' = "walk"
              \/ /\ run.todo = {p} /\ run'.todo = found /\ pc' \in {"scan", "rename"}
                 /\ pc' = "rename" => found = {}
    BY <2>2
  <2>4. Scanned' = {} /\ run'.skipped = {}
    BY <2>1 DEF Scanned, AllBut, Fields
  <2>5. changes = 0 => \A q \in Path : (q \in found => disk[q] # Gone)
                                        /\ (disk[q] # Gone => q \in (run.todo \ {p}) \cup found)
    <3> SUFFICES ASSUME changes = 0, NEW q \in Path
                 PROVE  /\ q \in found => disk[q] # Gone
                        /\ disk[q] # Gone => q \in (run.todo \ {p}) \cup found
      OBVIOUS
    <3>1. (q \in run.found => disk[q] # Gone) /\ (disk[q] # Gone => q \in run.todo \cup run.found)
      BY <2>1 DEF StillInv
    <3>2. q \in found <=> q \in run.found \/ (q = p /\ disk[p] # Gone)
      <4>1. found = run.found \cup (IF disk[p] # Gone THEN {p} ELSE {})
        BY <2>3
      <4> QED
        BY <4>1
    <3> QED
      BY <3>1, <3>2
  <2>6. CASE run'.todo = run.todo \ {p} /\ run'.found = found /\ pc' = "walk"
    <3>1. \A q \in Scanned' : run'.entry[q] = disk'[q]
      BY <2>4
    <3>2. changes = 0 => \A q \in Path : (q \in run'.found => disk'[q] # Gone)
                                          /\ (disk'[q] # Gone => q \in run'.todo \cup run'.found)
      BY <2>1, <2>5, <2>6
    <3> QED
      BY <2>1, <2>6, <3>1, <3>2 DEF StillInv, Past, Looping
  <2>7. CASE /\ run.todo = {p} /\ run'.todo = found /\ pc' \in {"scan", "rename"}
             /\ pc' = "rename" => found = {}
    <3>1. changes = 0 => \A q \in Path : disk[q] # Gone <=> q \in found
      BY <2>5, <2>7
    <3> QED
      BY <2>1, <2>4, <2>7, <3>1 DEF StillInv, Past, Looping
  <2> QED
    BY <2>3, <2>6, <2>7
<1>4. CASE ScanFile
  <2>1. AllBut({"todo", "entry", "skipped"}) /\ pc = "scan" /\ UNCHANGED <<disk, changes>> /\ pc \in Seen
    BY <1>4, ScanEffect DEF Seen
  <2>2. PICK p \in run.todo :
           /\ p \in Path /\ run'.todo = run.todo \ {p}
           /\ pc' = IF run'.todo = {} THEN "rename" ELSE "scan"
           /\ \/ /\ Scanned' = Scanned \cup {p} /\ run'.entry[p] = disk[p]
                 /\ \A q \in Scanned \ {p} : run'.entry[q] = run.entry[q]
                 /\ run'.skipped = run.skipped
              \/ run'.entry = run.entry /\ run'.skipped = run.skipped \cup {p}
    BY <1>4, ScanEffect
  <2>3. /\ changes = 0 => \A q \in Scanned' : run'.entry[q] = disk[q]
        /\ run'.todo \cup Scanned' \cup run'.skipped = run.todo \cup Scanned \cup run.skipped
    <3>1. CASE /\ Scanned' = Scanned \cup {p} /\ run'.entry[p] = disk[p]
               /\ \A q \in Scanned \ {p} : run'.entry[q] = run.entry[q]
               /\ run'.skipped = run.skipped
      BY <2>1, <2>2, <3>1 DEF StillInv
    <3>2. CASE run'.entry = run.entry /\ run'.skipped = run.skipped \cup {p}
      BY <2>1, <2>2, <3>2 DEF StillInv, Scanned
    <3> QED
      BY <2>2, <3>1, <3>2
  <2>4. changes = 0 => \A q \in Path : disk[q] # Gone <=> q \in run'.todo \cup Scanned' \cup run'.skipped
    BY <2>1, <2>3 DEF StillInv
  <2>5. pc' = "rename" => run'.todo = {}
    BY <2>2
  <2>6. pc' \in {"rename", "scan"}
    BY <2>2
  <2> QED
    BY <2>1, <2>3, <2>4, <2>5, <2>6 DEF StillInv, Past, Looping
<1> QED
  BY <1>1, <1>2, <1>3, <1>4

LEMMA StillInvNext == TypeInv /\ PlanInv /\ StillInv /\ [Next]_vars => StillInv'
<1> SUFFICES ASSUME TypeInv, PlanInv, StillInv, [Next]_vars PROVE StillInv'
  OBVIOUS
<1>1. CASE (\E force \in BOOLEAN : Start(force)) \/ Reset \/ Snapshot \/ Walk \/ ScanFile
  BY <1>1, BeginStill
<1>2. CASE Rename
  BY <1>2, RenameEffect, SameScan DEF Past, AllBut, Fields, history
<1>3. CASE ChooseRereads
  BY <1>3, ChooseEffect, SameScan DEF Past, Looping, AllBut, Fields, history
<1>4. CASE LoopStep \/ Settle
  <2>1. pc \in Past /\ pc' \in Past /\ UNCHANGED <<disk, changes>>
    BY <1>4, LoopEffect DEF Past, Looping
  <2>2. run'.entry = run.entry /\ run'.skipped = run.skipped
    BY <1>4, LoopEffect DEF AllBut, Fields
  <2> QED
    BY <2>1, <2>2, SameScan
<1>5. CASE RetryStep
  <2>1. pc \in Past /\ pc' \in Past /\ UNCHANGED <<disk, changes>>
    BY <1>5, RetryEffect DEF Past, Looping
  <2>2. run'.entry = run.entry /\ run'.skipped = run.skipped
    BY <1>5, RetryEffect DEF AllBut, Fields
  <2> QED
    BY <2>1, <2>2, SameScan
<1>6. CASE BeginPrune
  BY <1>6, BeginPruneEffect, SameScan DEF Past, Looping, AllBut, Fields, history
<1>7. CASE PruneBatch
  BY <1>7, PruneEffect, SameScan DEF Past, AllBut, Fields, history
<1>8. CASE Record \/ Stop
  BY <1>8, EndEffect DEF StillInv, Seen, Past, Looping
<1>9. CASE Edit \/ Move
  <2>1. changes \in Nat
    BY BoundAssumption DEF TypeInv, TypeOK
  <2>2. pc' = pc /\ changes' = IF pc = "idle" THEN changes ELSE changes + 1
    BY <1>9, ChangedEffect
  <2>3. CASE pc = "idle"
    BY <2>2, <2>3 DEF StillInv, Seen, Past, Looping
  <2>4. CASE pc # "idle"
    <3>1. changes' # 0
      BY <2>1, <2>2, <2>4
    <3> QED
      BY <3>1 DEF StillInv
  <2> QED
    BY <2>3, <2>4
<1>10. CASE OtherWrites \/ OtherDrops \/ OtherMoves \/ UNCHANGED vars
  <2>1. UNCHANGED <<disk, pc, run, changes>>
    BY <1>10, OtherEffect DEF vars, history
  <2> QED
    BY <2>1 DEF StillInv, Scanned
<1> QED
  BY <1>1, <1>2, <1>3, <1>4, <1>5, <1>6, <1>7, <1>8, <1>9, <1>10 DEF Next, Step, LoopStep, RetryStep

\* A row that is there.
LEMMA RowThere ==
    ASSUME TypeInv, NEW p \in Path, HasRow(p)
    PROVE  /\ row[p] \in Row /\ [row[p] EXCEPT !.hash = Awaiting] # NoRow
           /\ Marked(p)[p] # NoRow /\ Marked(p)[p].hash = Awaiting
<1>1. row[p] \in Row /\ row \in RowMap
  BY DEF TypeInv, TypeOK, RowMap, HasRow
<1>2. [row[p] EXCEPT !.hash = Awaiting] \in Row
  BY <1>1 DEF Row
<1>3. Marked(p)[p] = [row[p] EXCEPT !.hash = Awaiting] /\ Marked(p)[p].hash = Awaiting
  BY <1>1 DEF Marked, RowMap, Row
<1> QED
  BY <1>1, <1>2, <1>3, RowAssumption

\* The loop drops a row only for bytes without text, and gives it another hash only when it is
\* updated.
LEMMA LoopRow ==
    ASSUME TypeInv, PlanInv, LoopStep
    PROVE  /\ HasRow(NextDoc) /\ row'[NextDoc] = NoRow => Parsed(NextDoc, disk[NextDoc]) = NoText
           /\ pc' = "settle" => \/ run'.result = "updated"
                                \/ row'[NextDoc] = NoRow
                                \/ HasRow(NextDoc) /\ row'[NextDoc].hash = row[NextDoc].hash
<1>1. TypeOK /\ run.todo # {} /\ NextDoc \in Path /\ row \in RowMap
  BY LoopStepCases DEF TypeInv, TypeOK, RowMap
<1>2. ASSUME row' = row
      PROVE  /\ HasRow(NextDoc) => row'[NextDoc] # NoRow
             /\ row'[NextDoc] = NoRow \/ (HasRow(NextDoc) /\ row'[NextDoc].hash = row[NextDoc].hash)
  BY <1>2 DEF HasRow
<1>3. ASSUME NEW result, NEW rows, Outcome(NextDoc, result, rows)
      PROVE  row' = rows /\ (pc' = "settle" => run'.result = result)
  BY <1>1, <1>3, OutcomeEffect
<1>4. CASE KeepUnchanged
  <2>1. row' = row /\ pc' = "loop"
    BY <1>4 DEF KeepUnchanged, Done
  <2> QED
    BY <1>2, <2>1 DEF HasRow
<1>5. CASE CannotRead \/ EmbedRejected
  <2>1. row' = row
    BY <1>3, <1>5 DEF CannotRead, EmbedRejected
  <2> QED
    BY <1>2, <2>1
<1>6. CASE ReadFile
  <2>1. \/ row' = row
        \/ Parsed(NextDoc, disk[NextDoc]) = NoText /\ row' = [row EXCEPT ![NextDoc] = NoRow]
    <3>1. \/ Outcome(NextDoc, "changed", row) \/ Outcome(NextDoc, "failed", row)
          \/ Outcome(NextDoc, "unchanged", row)
          \/ /\ Parsed(NextDoc, disk[NextDoc]) = NoText
             /\ \/ Outcome(NextDoc, "noText", [row EXCEPT ![NextDoc] = NoRow])
                \/ Outcome(NextDoc, "noText", row)
          \/ row' = row
      <4>1. CASE NextDoc \in run.reread
        BY <1>6, <4>1 DEF ReadFile
      <4>2. CASE NextDoc \notin run.reread
        BY <1>6, <4>2 DEF ReadFile
      <4> QED
        BY <4>1, <4>2
    <3> QED
      BY <1>3, <3>1
  <2>2. row' = [row EXCEPT ![NextDoc] = NoRow] => row'[NextDoc] = NoRow
    BY <1>1 DEF HasRow, RowMap
  <2> QED
    BY <1>2, <2>1, <2>2
<1>7. CASE WriteMeta \/ WriteWhole
  <2>1. \/ row' = row
        \/ /\ pc' = "settle" => run'.result = "updated"
           /\ HasRow(NextDoc) => row'[NextDoc] # NoRow
    <3>1. CASE WriteMeta /\ HasRow(NextDoc)
      <4>1. Outcome(NextDoc, "updated", [row EXCEPT ![NextDoc] = MetaRow(NextDoc)])
        BY <3>1 DEF WriteMeta
      <4>2. row'[NextDoc] = MetaRow(NextDoc) /\ row[NextDoc] \in Row
        <5>1. row' = [row EXCEPT ![NextDoc] = MetaRow(NextDoc)]
          BY <1>3, <4>1
        <5> QED
          BY <1>1, <3>1, <5>1 DEF RowMap, HasRow
      <4>3. MetaRow(NextDoc) # NoRow
        <5>1. run.job.content \in Content
          BY <3>1 DEF TypeInv, TypeOK, RunOK, WriteMeta
        <5>2. (ParserOf[NextDoc] \notin Reread \/ AsCompared(NextDoc)) \in BOOLEAN
          BY DEF AsCompared
        <5>3. MetaRow(NextDoc) \in Row
          BY <4>2, <5>1, <5>2 DEF MetaRow, Row
        <5> QED
          BY <5>3, RowAssumption
      <4> QED
        BY <1>3, <4>1, <4>2, <4>3 DEF HasRow
    <3>2. CASE WriteMeta /\ ~HasRow(NextDoc)
      BY <3>2 DEF WriteMeta
    <3>3. CASE WriteWhole
      <4>1. Outcome(NextDoc, "updated", [row EXCEPT ![NextDoc] = RowOf(NextDoc, run.job.content)])
        BY <3>3 DEF WriteWhole
      <4>2. row'[NextDoc] = RowOf(NextDoc, run.job.content)
        <5>1. row' = [row EXCEPT ![NextDoc] = RowOf(NextDoc, run.job.content)]
          BY <1>3, <4>1
        <5> QED
          BY <1>1, <5>1 DEF RowMap
      <4>3. run.job.content \in Content /\ Parsed(NextDoc, run.job.content) \in Text
        BY <3>3 DEF TypeInv, TypeOK, RunOK, WhereInv, WriteWhole
      <4>4. RowOf(NextDoc, run.job.content) # NoRow
        BY <1>1, <4>3, RowOfTyped, RowAssumption
      <4> QED
        BY <1>3, <4>1, <4>2, <4>4 DEF HasRow
    <3> QED
      BY <1>7, <3>1, <3>2, <3>3
  <2> QED
    BY <1>2, <2>1
<1>8. CASE WriteRows
  <2>1. \/ row' = row
        \/ HasRow(NextDoc) /\ row' = [row EXCEPT ![NextDoc].rule = TRUE]
    <3>1. \/ Outcome(NextDoc, "changed", row)
          \/ HasRow(NextDoc) /\ Outcome(NextDoc, "unchanged", [row EXCEPT ![NextDoc].rule = TRUE])
      BY <1>8 DEF WriteRows, AsCompared, ChunksMatch
    <3> QED
      BY <1>3, <3>1
  <2>2. CASE HasRow(NextDoc) /\ row' = [row EXCEPT ![NextDoc].rule = TRUE]
    <3>1. row[NextDoc] \in Row /\ row'[NextDoc] = [row[NextDoc] EXCEPT !.rule = TRUE]
      BY <1>1, <2>2 DEF RowMap, HasRow
    <3>2. row'[NextDoc] \in Row /\ row'[NextDoc].hash = row[NextDoc].hash
      BY <3>1 DEF Row
    <3> QED
      BY <2>2, <3>2, RowAssumption DEF HasRow
  <2> QED
    BY <1>2, <2>1, <2>2
<1> QED
  BY <1>4, <1>5, <1>6, <1>7, <1>8 DEF LoopStep

LEMMA CrossedInvNext == TypeInv /\ PlanInv /\ CrossedInv /\ [Next]_vars => CrossedInv'
<1> SUFFICES ASSUME TypeInv, PlanInv, CrossedInv, [Next]_vars PROVE CrossedInv'
  OBVIOUS
<1>1. CASE pc' \notin {"choose"} \cup Looping
  BY <1>1 DEF CrossedInv
<1>2. ASSUME NEW p \in Path, row'[p] = row[p], Waits(row[p]) PROVE Waits(row'[p])
  BY <1>2 DEF Waits, HasRow
<1>3. CASE Rename
  <2>1. pc' = "choose" /\ \A p \in run'.crossed : row'[p].hash = Awaiting
    BY <1>3, RenameEffect
  <2> QED
    BY <2>1 DEF CrossedInv, Waits, Looping
<1>4. CASE ChooseRereads
  <2>1. /\ pc = "choose" /\ pc' = "loop" /\ run'.crossed = run.crossed /\ run'.again = {}
        /\ UNCHANGED <<row, others>>
    BY <1>4, ChooseEffect DEF PlanInv, AllBut, Fields, history
  <2> QED
    BY <2>1 DEF CrossedInv, Waits, HasRow
<1>5. CASE LoopStep \/ Settle
  <2>1. /\ pc \in Looping /\ pc' \in Looping /\ pc' \notin {"choose", "againSettle"}
        /\ UNCHANGED others /\ run'.crossed = run.crossed
        /\ NextDoc \in run.todo /\ NextDoc \in Path
    BY <1>5, LoopEffect DEF AllBut, Fields, Looping
  <2>2. pc \in {"loop", "write", "settle"}
    BY <1>5, LoopStepCases, SettleEffect
  <2>3. run.todo \subseteq Path /\ run.again \subseteq Path /\ run.todo \cap run.again = {}
    BY <2>1 DEF PlanInv, TypeInv, TypeOK, RunOK
  <2>4. ASSUME others = 0, NEW p \in (run.crossed \cap run.todo) \cup run.again, p # NextDoc
        PROVE  Waits(row'[p])
    <3>1. Waits(row[p])
      BY <2>1, <2>2, <2>4 DEF CrossedInv
    <3>2. row'[p] = row[p]
      BY <1>5, <2>3, <2>4, LoopEffect
    <3> QED
      BY <1>2, <2>3, <2>4, <3>1, <3>2
  <2>5. CASE LoopStep /\ pc' \in {"write", "settle"}
    <3>1. run'.todo = run.todo /\ run'.again = run.again /\ NextDoc' = NextDoc
      BY <2>5, LoopEffect
    <3>2. ASSUME others = 0, NextDoc \in run.crossed
          PROVE  Waits(row'[NextDoc]) \/ (pc' = "settle" /\ run'.result = "updated")
      <4>1. Waits(row[NextDoc])
        BY <2>1, <2>5, <3>2, LoopStepCases DEF CrossedInv
      <4>2. CASE pc' = "settle"
        BY <2>5, <4>1, <4>2, LoopRow DEF Waits, HasRow
      <4>3. CASE pc' = "write"
        <5>1. row' = row
          <6>1. \A result : ~Outcome(NextDoc, result, row')
            BY <4>3 DEF Outcome, Done
          <6> QED
            BY <2>5, <6>1, LoopStepCases
        <5> QED
          BY <4>1, <5>1 DEF Waits, HasRow
      <4> QED
        BY <2>5, <4>2, <4>3
    <3> QED
      BY <2>1, <2>3, <2>4, <3>1, <3>2 DEF CrossedInv
  <2>6. CASE LoopStep /\ pc' = "loop"
    <3>1. run'.todo = run.todo \ {NextDoc} /\ run'.again = run.again
      <4>1. \E result \in Results : Outcome(NextDoc, result, row')
        BY <2>6, LoopStepCases
      <4> QED
        BY <2>1, <2>6, <4>1, OutcomeEffect DEF AllBut, Fields
    <3> QED
      BY <2>1, <2>3, <2>4, <3>1 DEF CrossedInv
  <2>7. CASE Settle
    <3>1. /\ run'.todo = run.todo \ {NextDoc}
          /\ run'.again = IF run.result = "changed" THEN run.again \cup {NextDoc} ELSE run.again
          /\ run.result = "changed" => row' = Marked(NextDoc)
      BY <2>7, SettleEffect
    <3>2. run.result = "changed" => Waits(row'[NextDoc])
      <4>1. HasRow(NextDoc) => Marked(NextDoc)[NextDoc].hash = Awaiting
        BY <2>1, RowThere
      <4>2. ~HasRow(NextDoc) => Marked(NextDoc) = row
        BY DEF Marked
      <4> QED
        BY <3>1, <4>1, <4>2 DEF Waits, HasRow
    <3> QED
      BY <2>1, <2>3, <2>4, <3>1, <3>2 DEF CrossedInv
  <2>8. pc' \in {"loop", "write", "settle"}
    BY <1>5, LoopEffect
  <2> QED
    BY <1>5, <2>5, <2>6, <2>7, <2>8
<1>6. CASE RetryStep
  <2>1. /\ pc \in Looping /\ UNCHANGED others /\ run'.crossed = run.crossed /\ run'.todo = run.todo
        /\ Retried \in run.again /\ Retried \in Path
        /\ \A p \in Path \ {Retried} : row'[p] = row[p]
    BY <1>6, RetryEffect DEF AllBut, Fields
  <2>2. pc \in {"loop", "again", "againSettle"} /\ pc' \in {"loop", "again", "againSettle"}
    BY <1>6, RetryEffect
  <2>3. run.todo \subseteq Path /\ run.again \subseteq Path /\ run.todo \cap run.again = {}
    BY <2>1 DEF PlanInv, TypeInv, TypeOK, RunOK
  <2>4. ASSUME others = 0, NEW p \in (run.crossed \cap run.todo) \cup run.again, p # Retried
        PROVE  Waits(row'[p])
    <3>1. Waits(row[p])
      BY <2>1, <2>2, <2>4 DEF CrossedInv
    <3> QED
      BY <1>2, <2>1, <2>3, <2>4, <3>1
  <2>5. CASE pc' = "loop"
    <3>1. run'.again = run.again \ {Retried}
      BY <1>6, <2>5, RetryEffect
    <3> QED
      BY <2>1, <2>3, <2>4, <2>5, <3>1 DEF CrossedInv
  <2>6. CASE pc' # "loop"
    <3>1. /\ run'.again = run.again /\ Retried' = Retried /\ pc \in {"loop", "again"}
          /\ row' = row \/ row'[Retried] = NoRow \/ (pc' = "againSettle" /\ run'.result = "updated")
      BY <1>6, <2>6, RetryEffect
    <3>2. others = 0 => Waits(row[Retried])
      BY <2>1, <3>1 DEF CrossedInv
    <3>3. others = 0 => Waits(row'[Retried]) \/ (pc' = "againSettle" /\ run'.result = "updated")
      BY <3>1, <3>2 DEF Waits, HasRow
    <3> QED
      BY <2>1, <2>2, <2>3, <2>4, <2>6, <3>1, <3>3 DEF CrossedInv
  <2> QED
    BY <2>5, <2>6
<1>7. CASE Edit \/ Move \/ UNCHANGED vars
  <2>1. UNCHANGED <<row, pc, run, others>>
    BY <1>7, ChangedEffect DEF vars, index, history
  <2>2. NextDoc' = NextDoc /\ Retried' = Retried
    BY <2>1 DEF NextDoc, Retried
  <2> QED
    BY <2>1, <2>2 DEF CrossedInv, Waits, HasRow
<1>8. CASE OtherWrites \/ OtherDrops \/ OtherMoves
  <2>1. others \in Nat
    BY BoundAssumption DEF TypeInv, TypeOK
  <2>2. others' = others + 1
    BY <1>8, OtherEffect
  <2>3. others' # 0
    BY <2>1, <2>2
  <2> QED
    BY <2>3 DEF CrossedInv
<1>9. ASSUME \/ \E force \in BOOLEAN : Start(force)
             \/ Reset \/ Snapshot \/ Walk \/ ScanFile \/ BeginPrune \/ PruneBatch \/ Record \/ Stop
      PROVE  pc' \notin {"choose"} \cup Looping
  <2>1. pc' \in {"idle", "reset", "snapshot", "walk", "scan", "rename", "prune"}
    BY <1>9, StartEffect, WalkEffect, ScanEffect, EndEffect
       DEF Reset, Snapshot, BeginPrune, PruneBatch
  <2> QED
    BY <2>1 DEF Looping
<1> QED
  BY <1>1, <1>3, <1>4, <1>5, <1>6, <1>7, <1>8, <1>9 DEF Next, Step, LoopStep, RetryStep

\* A row read again goes for bytes without text, or when it still awaited its read.
LEMMA RetryRow ==
    ASSUME TypeInv, RetryStep, HasRow(Retried), row'[Retried] = NoRow
    PROVE  \/ Parsed(Retried, disk[Retried]) = NoText
           \/ pc = "againSettle" /\ run.result # "updated"
<1>1. Retried \in Path /\ row \in RowMap
  BY RetryEffect DEF TypeInv, TypeOK, RowMap
<1>2. row' # row
  BY DEF HasRow
<1>3. CASE RetryWrite
  <2>1. row' = [row EXCEPT ![Retried] = RowOf(Retried, run.job.content)]
    BY <1>2, <1>3 DEF RetryWrite
  <2>2. run.job.content \in Content /\ Parsed(Retried, run.job.content) \in Text
    BY <1>3 DEF RetryWrite, TypeInv, TypeOK, RunOK, WhereInv
  <2>3. RowOf(Retried, run.job.content) # NoRow
    BY <1>1, <2>2, RowOfTyped, RowAssumption DEF TypeInv
  <2>4. row'[Retried] = RowOf(Retried, run.job.content)
    BY <1>1, <2>1 DEF RowMap
  <2> QED
    BY <2>3, <2>4
<1>4. CASE RetryUnread \/ Retry \/ RetrySettle
  BY <1>2, <1>4 DEF RetryUnread, index, Retry, RetrySettle
<1> QED
  BY <1>3, <1>4 DEF RetryStep

StableInv == RowsInv /\ StillInv /\ CrossedInv

LEMMA StableInvAlways == Spec => [](TypeInv /\ StableInv)
<1>1. Init => StableInv
  BY InitPlan, InitAlone, InitStill DEF StableInv, RowsInv
<1>2. TypeInv /\ StableInv /\ [Next]_vars => StableInv'
  BY RowsInvNext, StillInvNext, CrossedInvNext DEF StableInv, RowsInv
<1>3. Spec => []StableInv
  BY <1>1, <1>2, TypeInvAlways, PTL DEF Spec
<1> QED
  BY <1>3, TypeInvAlways, PTL

\* A run that is not forced takes no row of a file that stays, unchanged and with text: not by a
\* rename of what the scan did not come across, not by the prune, and not by a read that fails,
\* since only a row still marked is dropped for one.
THEOREM StableStaysTheorem == Spec => StableStays
<1>1. ASSUME TypeInv, StableInv, [Next]_vars, Running, ~run.force, changes = 0, others = 0,
             NEW p \in Path, Kept(p), disk[p] # Gone, Parsed(p, disk[p]) \in Text
      PROVE  row'[p] # NoRow
  <2>1. PlanInv /\ StillInv /\ CrossedInv /\ pc # "idle"
    BY <1>1 DEF StableInv, RowsInv, Running
  <2>2. HasRow(p) /\ row[p].hash # Awaiting /\ Parsed(p, disk[p]) # NoText /\ row \in RowMap
    BY <1>1, ValueAssumption DEF Kept, TypeInv, TypeOK, RowMap
  <2>3. CASE row'[p] = row[p]
    BY <2>2, <2>3 DEF HasRow
  <2>4. pc \in Past => p \notin ToPrune
    BY <1>1, <2>1 DEF StillInv, ToPrune
  <2>5. CASE (\E force \in BOOLEAN : Start(force)) \/ Reset
    BY <1>1, <2>1, <2>5, StartEffect DEF Reset, PlanInv
  <2>6. CASE Snapshot
    BY <1>1, <2>2, <2>6, SnapshotEffect DEF HasRow
  <2>7. CASE Walk \/ ScanFile \/ ChooseRereads \/ BeginPrune \/ Stop \/ Edit \/ Move \/ UNCHANGED vars
    BY <2>3, <2>7, ChangedEffect DEF Walk, ScanFile, ChooseRereads, BeginPrune, Stop, index, vars
  <2>8. CASE Rename
    <3>1. p \notin run'.moved
      BY <1>1, <2>4, <2>8, RenameEffect DEF Past
    <3> QED
      BY <1>1, <2>2, <2>3, <2>8, <3>1, RenameEffect
  <2>9. CASE LoopStep
    BY <1>1, <2>1, <2>2, <2>3, <2>9, LoopStepCases, LoopRow
  <2>10. CASE Settle
    <3>1. CASE p # NextDoc
      BY <1>1, <2>3, <2>10, <3>1, SettleEffect
    <3>2. CASE p = NextDoc
      <4>1. NextDoc \in run.crossed \cap run.todo /\ pc = "settle" /\ pc \in Looping
        BY <1>1, <2>1, <2>10, SettleEffect DEF PlanInv, Looping
      <4>2. run.result = "updated"
        BY <1>1, <2>1, <2>2, <3>2, <4>1 DEF CrossedInv, Waits, HasRow
      <4>3. row' = row
        BY <1>1, <2>10, <4>2, SettleEffect
      <4> QED
        BY <2>3, <4>3
    <3> QED
      BY <3>1, <3>2
  <2>11. CASE RetryStep
    <3>1. CASE p # Retried
      BY <1>1, <2>3, <2>11, <3>1, RetryEffect
    <3>2. CASE p = Retried
      <4>1. Retried \in run.again /\ pc \in Looping
        BY <1>1, <2>11, RetryEffect
      <4>2. pc = "againSettle" /\ run.result = "updated"
        BY <1>1, <2>1, <2>2, <3>2, <4>1 DEF CrossedInv, Waits, HasRow
      <4> QED
        BY <1>1, <2>2, <2>11, <3>2, <4>2, RetryRow
    <3> QED
      BY <3>1, <3>2
  <2>12. CASE PruneBatch
    <3>1. PICK q \in run.todo : \A other \in Path \ {q} : row'[other] = row[other]
      BY <1>1, <2>12, PruneEffect
    <3>2. pc = "prune" /\ q \in ToPrune
      BY <2>1, <2>12 DEF PruneBatch, PlanInv
    <3> QED
      BY <2>3, <2>4, <3>1, <3>2 DEF Past
  <2>13. CASE Record
    <3>1. row'[p] = row[p] \/ row'[p] = [row[p] EXCEPT !.hash = Awaiting]
      BY <2>13 DEF Record
    <3> QED
      BY <1>1, <2>2, <2>3, <3>1, RowThere
  <2>14. CASE OtherWrites
    <3>1. PICK q \in Path : /\ disk[q] # Gone /\ Parsed(q, disk[q]) \in Text
                            /\ Other({q}, [row EXCEPT ![q] = RowOf(q, disk[q])])
      BY <2>14 DEF OtherWrites
    <3>2. RowOf(q, disk[q]) # NoRow
      BY <1>1, <3>1, RowOfTyped, RowAssumption DEF TypeInv, TypeOK
    <3>3. row' = [row EXCEPT ![q] = RowOf(q, disk[q])]
      BY <3>1 DEF Other
    <3> QED
      BY <2>2, <2>3, <3>2, <3>3 DEF RowMap
  <2>15. CASE OtherDrops
    BY <1>1, <2>2, <2>3, <2>15 DEF OtherDrops, Other, RowMap
  <2>16. CASE OtherMoves
    <3>1. PICK from \in Path, to \in Path :
             /\ disk[from] = Gone /\ ~HasRow(to)
             /\ Other({from, to}, [row EXCEPT ![from] = NoRow, ![to] = row[from]])
      BY <2>16 DEF OtherMoves
    <3>2. row' = [row EXCEPT ![from] = NoRow, ![to] = row[from]] /\ p # from /\ p # to
      BY <1>1, <2>2, <3>1 DEF Other
    <3> QED
      BY <2>2, <2>3, <3>2 DEF RowMap
  <2> QED
    BY <1>1, <2>5, <2>6, <2>7, <2>8, <2>9, <2>10, <2>11, <2>12, <2>13, <2>14, <2>15, <2>16
       DEF Next, Step, LoopStep, RetryStep
<1>2. TypeInv /\ StableInv /\ [Next]_vars =>
         [Running /\ ~run.force /\ changes = 0 /\ others = 0 =>
             \A p \in Path :
                 Kept(p) /\ disk[p] # Gone /\ Parsed(p, disk[p]) \in Text =>
                     row'[p] # NoRow]_vars
  BY <1>1
<1> QED
  BY <1>2, StableInvAlways, PTL DEF Spec, StableStays

(***************************************************************************)
(* A run that nothing disturbs                                             *)
(***************************************************************************)

\* While no other process writes: of the documents the loop has not come to, those of a stale
\* format whose row has the hash of their bytes are the ones to be read again.
PlannedInv ==
    others = 0 =>
        /\ pc \in Seen /\ ~run.force => run.stale = Reread \ recorded
        /\ pc \in Looping =>
              \A p \in run.todo \ run.renamed :
                  p \in run.reread <=> StaleRow(row, p) /\ row[p].hash = run.entry[p]

\* A row with the hash and the text of the bytes the scan hashed.
InLine(entry, p) ==
    entry # NoRow /\ entry.hash = run.entry[p] /\ entry.text = Parsed(p, run.entry[p])

HasText(p) == Parsed(p, run.entry[p]) \in Text

\* In an undisturbed run: nothing is skipped or put off, and every document the loop is done with
\* is in line with its file, and not among those the last transaction marks.
CleanInv ==
    clean /\ others = 0 =>
        /\ run.skipped = {} /\ run.again = {}
        /\ pc = "write" =>
              /\ run.job.content = run.entry[NextDoc]
              /\ run.job.kind = "rows" => run.job.hash = run.entry[NextDoc] /\ AsCompared(NextDoc)
        /\ pc = "settle" =>
              /\ run.result # "changed"
              /\ HasText(NextDoc) => run.result = "updated" /\ InLine(row[NextDoc], NextDoc)
        /\ pc \in Looping \cup {"prune"} =>
              \A p \in Scanned \ run.todo :
                  HasText(p) => InLine(row[p], p) /\ p \notin run.unsettled

LEMMA InitClean == Init => PlannedInv /\ CleanInv
BY DEF Init, PlannedInv, CleanInv, Seen, Looping

LEMMA PlannedInvNext == TypeInv /\ PlanInv /\ PlannedInv /\ [Next]_vars => PlannedInv'
<1> SUFFICES ASSUME TypeInv, PlanInv, PlannedInv, [Next]_vars PROVE PlannedInv'
  OBVIOUS
<1>1. CASE (\E force \in BOOLEAN : Start(force)) \/ Reset \/ Record \/ Stop
  <2>1. pc' \in {"idle", "reset", "snapshot"}
    BY <1>1, StartEffect, EndEffect DEF Reset
  <2> QED
    BY <2>1 DEF PlannedInv, Seen, Looping
<1>2. CASE Snapshot
  <2>1. /\ pc' = "walk" /\ run'.force = run.force /\ recorded' = recorded
        /\ run'.stale = IF run.force THEN {} ELSE Reread \ recorded
    BY <1>2, SnapshotEffect DEF AllBut, Fields
  <2> QED
    BY <2>1 DEF PlannedInv, Looping
<1>3. ASSUME pc \in Seen, run'.force = run.force, run'.stale = run.stale, UNCHANGED <<recorded, others>>
      PROVE  others' = 0 => (pc' \in Seen /\ ~run'.force => run'.stale = Reread \ recorded')
  BY <1>3 DEF PlannedInv
<1>4. CASE Walk \/ ScanFile \/ Rename \/ BeginPrune \/ PruneBatch
  <2>1. /\ pc \in Seen /\ pc' \notin Looping /\ UNCHANGED <<recorded, others>>
        /\ run'.force = run.force /\ run'.stale = run.stale
    <3>1. CASE Walk
      BY <3>1, WalkEffect DEF AllBut, Fields, Seen, Looping, history
    <3>2. CASE ScanFile
      BY <3>2, ScanEffect DEF AllBut, Fields, Seen, Looping
    <3>3. CASE Rename
      BY <3>3, RenameEffect DEF AllBut, Fields, Seen, Looping, history
    <3>4. CASE BeginPrune
      BY <3>4, BeginPruneEffect DEF AllBut, Fields, Seen, Looping, history
    <3>5. CASE PruneBatch
      BY <3>5, PruneEffect DEF AllBut, Fields, Seen, Looping, history
    <3> QED
      BY <1>4, <3>1, <3>2, <3>3, <3>4, <3>5
  <2> QED
    BY <1>3, <2>1 DEF PlannedInv
<1>5. CASE ChooseRereads
  <2>1. /\ pc \in Seen /\ pc' = "loop" /\ UNCHANGED <<row, recorded, others>>
        /\ run'.force = run.force /\ run'.stale = run.stale /\ run'.renamed = run.renamed
        /\ run'.entry = run.entry /\ run'.todo = Scanned
        /\ run'.reread = {p \in Scanned \ run.renamed : StaleRow(row, p) /\ row[p].hash = run.entry[p]}
    BY <1>5, ChooseEffect DEF AllBut, Fields, Seen, history
  <2>2. others' = 0 => (pc' \in Seen /\ ~run'.force => run'.stale = Reread \ recorded')
    BY <1>3, <2>1
  <2>3. \A p \in run'.todo \ run'.renamed :
           p \in run'.reread <=> row'[p] # NoRow /\ ParserOf[p] \in run'.stale /\ row'[p].hash = run'.entry[p]
    BY <2>1 DEF StaleRow
  <2> QED
    BY <2>2, <2>3 DEF PlannedInv, StaleRow
<1>6. ASSUME pc \in Looping, UNCHANGED <<recorded, others>>, run'.todo \subseteq run.todo,
             AllBut({"todo", "job", "result", "again", "unsettled"}),
             \A p \in run'.todo \ run.renamed : row'[p] = row[p]
      PROVE  PlannedInv'
  <2>1. /\ run'.force = run.force /\ run'.stale = run.stale /\ run'.renamed = run.renamed
        /\ run'.entry = run.entry /\ run'.reread = run.reread /\ pc \in Seen
    BY <1>6 DEF AllBut, Fields, Seen
  <2>2. others' = 0 => (pc' \in Seen /\ ~run'.force => run'.stale = Reread \ recorded')
    BY <1>3, <1>6, <2>1
  <2>3. others = 0 => \A p \in run.todo \ run.renamed :
           p \in run.reread <=> row[p] # NoRow /\ ParserOf[p] \in run.stale /\ row[p].hash = run.entry[p]
    BY <1>6 DEF PlannedInv, StaleRow
  <2>4. others = 0 => \A p \in run'.todo \ run'.renamed :
           p \in run'.reread <=> row'[p] # NoRow /\ ParserOf[p] \in run'.stale /\ row'[p].hash = run'.entry[p]
    BY <1>6, <2>1, <2>3
  <2> QED
    BY <1>6, <2>2, <2>4 DEF PlannedInv, StaleRow
<1>7. CASE LoopStep \/ Settle
  <2>1. run'.todo \subseteq run.todo /\ run.todo \subseteq Path /\ run.crossed \subseteq run.renamed
    BY <1>7, LoopEffect DEF TypeInv, TypeOK, RunOK, PlanInv
  <2>2. ASSUME NEW p \in run'.todo \ run.renamed PROVE row'[p] = row[p]
    <3>1. p = NextDoc => row' = row
      BY <1>7, <2>1, <2>2, LoopEffect
    <3> QED
      BY <1>7, <2>1, <2>2, <3>1, LoopEffect
  <2>3. pc \in Looping /\ UNCHANGED <<recorded, others>>
        /\ AllBut({"todo", "job", "result", "again", "unsettled"})
    BY <1>7, LoopEffect
  <2> QED
    BY <1>6, <2>1, <2>2, <2>3
<1>8. CASE RetryStep
  <2>1. /\ run'.todo = run.todo /\ run.todo \subseteq Path /\ Retried \notin run.todo
        /\ AllBut({"todo", "job", "result", "again", "unsettled"})
    BY <1>8, RetryEffect DEF TypeInv, TypeOK, RunOK, PlanInv, AllBut, Fields
  <2>2. /\ pc \in Looping /\ UNCHANGED <<recorded, others>>
        /\ \A p \in Path \ {Retried} : row'[p] = row[p]
    BY <1>8, RetryEffect
  <2> QED
    BY <1>6, <2>1, <2>2
<1>9. CASE Edit \/ Move \/ UNCHANGED vars
  <2>1. UNCHANGED <<row, recorded, pc, run, others>>
    BY <1>9, ChangedEffect DEF vars, index, history
  <2> QED
    BY <2>1 DEF PlannedInv, StaleRow
<1>10. CASE OtherWrites \/ OtherDrops \/ OtherMoves
  <2>1. others \in Nat
    BY BoundAssumption DEF TypeInv, TypeOK
  <2>2. others' = others + 1
    BY <1>10, OtherEffect
  <2>3. others' # 0
    BY <2>1, <2>2
  <2> QED
    BY <2>3 DEF PlannedInv
<1> QED
  BY <1>1, <1>2, <1>4, <1>5, <1>7, <1>8, <1>9, <1>10 DEF Next, Step, LoopStep, RetryStep

\* What the outcome of a document has to show: it counts as changed only in a run that was
\* disturbed, and one with text is in line and not marked.
LEMMA CleanOutcome ==
    ASSUME TypeInv, PlanInv, CleanInv, clean, others = 0, LoopStep, NEW result \in Results,
           Outcome(NextDoc, result, row'), result # "changed",
           HasText(NextDoc) =>
               /\ InLine(row'[NextDoc], NextDoc)
               /\ \/ result = "updated"
                  \/ /\ NextDoc \notin run.crossed
                     /\ Settled(NextDoc, result) \/ ~StaleRow(row', NextDoc)
    PROVE  CleanInv'
<1>1. /\ pc \in Looping /\ NextDoc \in run.todo /\ NextDoc \in Path /\ run.todo # {}
      /\ \A p \in Path \ {NextDoc} : row'[p] = row[p]
  BY LoopStepCases, LoopEffect
<1>2. Scanned \subseteq Path /\ run.todo \cap run.unsettled = {} /\ run.again = {} /\ run.skipped = {}
  BY <1>1 DEF PlanInv, TypeInv, TypeOK, RunOK, Scanned, CleanInv
<1>3. ASSUME NEW p \in Scanned \ run.todo, HasText(p)
      PROVE  InLine(row'[p], p) /\ p \notin run.unsettled
  BY <1>1, <1>2, <1>3 DEF CleanInv
<1>4. CASE NextDoc \in run.crossed
  <2>1. pc' = "settle" /\ AllBut({"job", "result"}) /\ run'.result = result
    BY <1>1, <1>4, OutcomeEffect
  <2>2. /\ run'.todo = run.todo /\ run'.renamed = run.renamed /\ run'.again = {} /\ run'.skipped = {}
        /\ run'.unsettled = run.unsettled /\ run'.entry = run.entry
    BY <1>2, <2>1 DEF AllBut, Fields
  <2>3. NextDoc' = NextDoc /\ Scanned' = Scanned
    BY <2>2 DEF NextDoc, Scanned
  <2>4. HasText(NextDoc) => result = "updated" /\ InLine(row'[NextDoc], NextDoc)
    BY <1>4
  <2> QED
    BY <1>3, <2>1, <2>2, <2>3, <2>4 DEF CleanInv, HasText, InLine, Parsed, Looping
<1>5. CASE NextDoc \notin run.crossed
  <2>1. /\ pc' = "loop" /\ AllBut({"todo", "job", "result", "unsettled"})
        /\ run'.todo = run.todo \ {NextDoc}
        /\ run'.unsettled = IF ~Settled(NextDoc, result) /\ StaleRow(row', NextDoc)
                            THEN run.unsettled \cup {NextDoc} ELSE run.unsettled
    BY <1>1, <1>5, OutcomeEffect
  <2>2. run'.again = {} /\ run'.skipped = {} /\ run'.entry = run.entry
    BY <1>2, <2>1 DEF AllBut, Fields
  <2>3. HasText(NextDoc) => InLine(row'[NextDoc], NextDoc) /\ run'.unsettled = run.unsettled
    BY <2>1 DEF Settled
  <2>4. ASSUME NEW p \in Scanned \ run'.todo, HasText(p)
        PROVE  InLine(row'[p], p) /\ p \notin run'.unsettled
    <3>1. CASE p = NextDoc
      BY <1>1, <1>2, <2>3, <2>4, <3>1
    <3>2. CASE p # NextDoc
      <4>1. p \in Scanned \ run.todo
        BY <2>1, <2>4, <3>2
      <4>2. run'.unsettled \subseteq run.unsettled \cup {NextDoc}
        BY <2>1
      <4> QED
        BY <1>3, <2>4, <3>2, <4>1, <4>2
    <3> QED
      BY <3>1, <3>2
  <2>5. Scanned' = Scanned
    BY <2>2 DEF Scanned
  <2> QED
    BY <2>1, <2>2, <2>4, <2>5 DEF CleanInv, HasText, InLine, Parsed
<1> QED
  BY <1>4, <1>5

LEMMA LoopClean ==
    ASSUME TypeInv, PlanInv, StillInv, Sound, PlannedInv, CleanInv, clean, clean', others = 0, LoopStep
    PROVE  CleanInv'
<1>1. /\ pc \in {"loop", "write"} /\ pc \in Looping /\ pc \in Seen /\ NextDoc \in run.todo /\ NextDoc \in Path
      /\ run.todo # {} /\ NextDoc \in Scanned /\ row \in RowMap /\ changes = 0
  BY LoopStepCases DEF PlanInv, TypeInv, TypeOK, RowMap, Looping, Seen
<1>2. /\ run.entry[NextDoc] = disk[NextDoc] /\ run.entry[NextDoc] \in Content
      /\ run.entry[NextDoc] \notin {Gone, Awaiting}
  BY <1>1, ValueAssumption DEF StillInv, TypeInv, TypeOK, RunOK, Scanned
<1>3. run.crossed \subseteq run.renamed /\ run.reread \cap run.renamed = {}
  BY <1>1 DEF PlanInv
<1>4. ASSUME NEW result, NEW rows, Outcome(NextDoc, result, rows)
      PROVE  row' = rows /\ Outcome(NextDoc, result, row')
  BY <1>1, <1>4, OutcomeEffect
<1>5. NextDoc \in run.reread => HasRow(NextDoc) /\ row[NextDoc].hash = run.entry[NextDoc]
  BY <1>1, <1>3 DEF PlannedInv, StaleRow, HasRow
<1>6. CASE KeepUnchanged
  <2>1. /\ ~run.force /\ NextDoc \notin run.renamed \cup run.reread /\ HashAt(NextDoc) = run.entry[NextDoc]
        /\ Done(NextDoc, "unchanged", row)
    BY <1>6 DEF KeepUnchanged, FastPath
  <2>2. HasRow(NextDoc) /\ row[NextDoc].hash = run.entry[NextDoc] /\ Kept(NextDoc)
    BY <1>2, <2>1 DEF HashAt, Kept
  <2>3. Outcome(NextDoc, "unchanged", row) /\ row' = row
    BY <1>3, <2>1 DEF Outcome, Done
  <2>4. ~StaleRow(row, NextDoc)
    BY <1>1, <2>1, <2>2 DEF PlannedInv
  <2>5. run.stale = Reread \ recorded
    BY <1>1, <2>1 DEF PlannedInv
  <2>6. row[NextDoc].text = Parsed(NextDoc, row[NextDoc].hash)
    BY <1>1, <2>2, <2>4, <2>5 DEF Sound, RowInv, StaleRow, HasRow
  <2>7. InLine(row'[NextDoc], NextDoc) /\ ~StaleRow(row', NextDoc) /\ NextDoc \notin run.crossed
    BY <1>3, <2>1, <2>2, <2>3, <2>4, <2>6 DEF InLine, HasRow
  <2> QED
    BY <2>3, <2>7, CleanOutcome DEF Results
<1>7. CASE CannotRead \/ EmbedRejected
  BY <1>7 DEF CannotRead, EmbedRejected
<1>8. CASE ReadFile
  <2>1. PICK content \in Content : content = run.entry[NextDoc]
    BY <1>2
  <2>2. disk[NextDoc] = content /\ ~ChangedUnder(NextDoc)
    BY <1>2, <2>1 DEF ChangedUnder
  <2>3. CASE Outcome(NextDoc, "failed", row) /\ Parsed(NextDoc, content) = Broken
    <3>1. ~HasText(NextDoc)
      BY <2>1, <2>3, ValueAssumption DEF HasText
    <3> QED
      BY <1>4, <2>3, <3>1, CleanOutcome DEF Results
  <2>4. CASE \E rows : Outcome(NextDoc, "noText", rows) /\ Parsed(NextDoc, content) = NoText
    <3>1. PICK rows : Outcome(NextDoc, "noText", rows) /\ Parsed(NextDoc, content) = NoText
      BY <2>4
    <3>2. ~HasText(NextDoc)
      BY <2>1, <3>1, ValueAssumption DEF HasText
    <3> QED
      BY <1>4, <3>1, <3>2, CleanOutcome DEF Results
  <2>5. CASE RowsCurrent(NextDoc, content) /\ Outcome(NextDoc, "unchanged", row)
    <3>1. /\ NextDoc \in run.reread /\ HasRow(NextDoc) /\ row[NextDoc].text = Parsed(NextDoc, content)
          /\ row' = row /\ Outcome(NextDoc, "unchanged", row')
      BY <1>4, <2>5 DEF RowsCurrent, ChunksMatch
    <3>2. InLine(row'[NextDoc], NextDoc)
      BY <1>5, <2>1, <3>1 DEF InLine, HasRow
    <3>3. NextDoc \notin run.crossed /\ Settled(NextDoc, "unchanged")
      BY <1>3, <3>1 DEF Settled
    <3> QED
      BY <3>1, <3>2, <3>3, CleanOutcome DEF Results
  <2>6. CASE /\ run' = [run EXCEPT !.job = JobFor(NextDoc, content)] /\ pc' = "write" /\ UNCHANGED row
             /\ Parsed(NextDoc, content) \in Text
    <3>1. UNCHANGED <<disk, recorded, history>>
      BY <1>8 DEF ReadFile
    <3>2. /\ AllBut({"job"}) /\ NextDoc' = NextDoc
          /\ run'.job.kind = WriteFor(NextDoc, content)
          /\ run'.job.content = content /\ run'.job.hash = HashAt(NextDoc)
      BY <1>1, <1>2, <2>1, <2>2, <2>6, <3>1, JobTyped
    <3>3. /\ run'.todo = run.todo /\ run'.again = run.again /\ run'.skipped = run.skipped
          /\ run'.unsettled = run.unsettled /\ run'.entry = run.entry
      BY <3>2 DEF AllBut, Fields
    <3>4. ASSUME run'.job.kind = "rows"
          PROVE  run'.job.hash = run.entry[NextDoc] /\ AsCompared(NextDoc)'
      <4>1. NextDoc \in run.reread /\ ChunksMatch(NextDoc, content)
        BY <3>2, <3>4 DEF WriteFor
      <4>2. HashAt(NextDoc) = run.entry[NextDoc]
        BY <1>5, <4>1 DEF HashAt
      <4>3. HashAt(NextDoc)' = HashAt(NextDoc) /\ ChunksMatch(NextDoc, run.job.content)'
        BY <2>6, <3>2, <4>1 DEF HashAt, ChunksMatch, HasRow, Parsed, NameOf
      <4> QED
        BY <3>2, <4>2, <4>3 DEF AsCompared
    <3>5. Scanned' = Scanned
      BY <3>3 DEF Scanned
    <3> QED
      BY <1>1, <2>1, <2>6, <3>2, <3>3, <3>4, <3>5 DEF CleanInv, HasText, InLine, Parsed
  <2> QED
    <3>1. CASE NextDoc \in run.reread
      BY <1>8, <2>2, <2>3, <2>4, <2>5, <2>6, <3>1 DEF ReadFile
    <3>2. CASE NextDoc \notin run.reread
      BY <1>8, <2>2, <2>3, <2>4, <2>5, <2>6, <3>2 DEF ReadFile
    <3> QED
      BY <3>1, <3>2
<1>9. CASE WriteMeta
  <2>1. /\ pc = "write" /\ run.job.kind = "meta" /\ run.job.content = run.entry[NextDoc]
        /\ ChunksMatch(NextDoc, run.job.content)
    BY <1>9 DEF WriteMeta, CleanInv, Sound, JobInv
  <2>2. HasRow(NextDoc) /\ row[NextDoc].text = Parsed(NextDoc, run.entry[NextDoc])
    BY <2>1 DEF ChunksMatch
  <2>3. Outcome(NextDoc, "updated", [row EXCEPT ![NextDoc] = MetaRow(NextDoc)])
    BY <1>9, <2>2 DEF WriteMeta
  <2>4. row' = [row EXCEPT ![NextDoc] = MetaRow(NextDoc)] /\ Outcome(NextDoc, "updated", row')
    BY <1>4, <2>3
  <2>5. row'[NextDoc] = MetaRow(NextDoc) /\ row[NextDoc] \in Row
    BY <1>1, <2>2, <2>4 DEF RowMap, HasRow
  <2>6. /\ MetaRow(NextDoc) \in Row /\ MetaRow(NextDoc).hash = run.job.content
        /\ MetaRow(NextDoc).text = row[NextDoc].text
    <3>1. (ParserOf[NextDoc] \notin Reread \/ AsCompared(NextDoc)) \in BOOLEAN
      BY DEF AsCompared
    <3> QED
      BY <1>2, <2>1, <2>5, <3>1 DEF MetaRow, Row
  <2>7. InLine(row'[NextDoc], NextDoc)
    BY <2>1, <2>2, <2>5, <2>6, RowAssumption DEF InLine
  <2> QED
    BY <2>4, <2>7, CleanOutcome DEF Results
<1>10. CASE WriteRows
  <2>1. /\ pc = "write" /\ run.job.kind = "rows" /\ run.job.content = run.entry[NextDoc]
        /\ run.job.hash = run.entry[NextDoc] /\ AsCompared(NextDoc) /\ NextDoc \in run.reread
    BY <1>10 DEF WriteRows, CleanInv, Sound, JobInv
  <2>2. /\ HasRow(NextDoc) /\ row[NextDoc].text = Parsed(NextDoc, run.entry[NextDoc])
        /\ row[NextDoc].hash = run.entry[NextDoc]
    BY <2>1 DEF AsCompared, ChunksMatch, HashAt
  <2>3. Outcome(NextDoc, "unchanged", [row EXCEPT ![NextDoc].rule = TRUE])
    BY <1>10, <2>1 DEF WriteRows
  <2>4. row' = [row EXCEPT ![NextDoc].rule = TRUE] /\ Outcome(NextDoc, "unchanged", row')
    BY <1>4, <2>3
  <2>5. row[NextDoc] \in Row /\ row'[NextDoc] = [row[NextDoc] EXCEPT !.rule = TRUE]
    BY <1>1, <2>2, <2>4 DEF RowMap, HasRow
  <2>6. /\ row'[NextDoc] \in Row /\ row'[NextDoc].hash = row[NextDoc].hash
        /\ row'[NextDoc].text = row[NextDoc].text
    BY <2>5 DEF Row
  <2>7. InLine(row'[NextDoc], NextDoc)
    BY <2>2, <2>6, RowAssumption DEF InLine
  <2>8. NextDoc \notin run.crossed /\ Settled(NextDoc, "unchanged")
    BY <1>3, <2>1 DEF Settled
  <2> QED
    BY <2>4, <2>7, <2>8, CleanOutcome DEF Results
<1>11. CASE WriteWhole
  <2>1. pc = "write" /\ run.job.content = run.entry[NextDoc] /\ Parsed(NextDoc, run.job.content) \in Text
    BY <1>11 DEF WriteWhole, CleanInv, TypeInv, WhereInv
  <2>2. Outcome(NextDoc, "updated", [row EXCEPT ![NextDoc] = RowOf(NextDoc, run.job.content)])
    BY <1>11 DEF WriteWhole
  <2>3. /\ row' = [row EXCEPT ![NextDoc] = RowOf(NextDoc, run.job.content)]
        /\ Outcome(NextDoc, "updated", row')
    BY <1>4, <2>2
  <2>4. row'[NextDoc] = RowOf(NextDoc, run.job.content) /\ row'[NextDoc] # NoRow
    BY <1>1, <1>2, <2>1, <2>3, RowOfTyped, RowAssumption DEF RowMap, TypeInv
  <2>5. InLine(row'[NextDoc], NextDoc)
    BY <2>1, <2>4 DEF InLine, RowOf
  <2> QED
    BY <2>3, <2>5, CleanOutcome DEF Results
<1> QED
  BY <1>6, <1>7, <1>8, <1>9, <1>10, <1>11 DEF LoopStep

LEMMA BeginClean ==
    ASSUME TypeInv, CleanInv, clean', others' = 0, NEW force \in BOOLEAN,
           Start(force) \/ Reset \/ Snapshot \/ Walk \/ ScanFile \/ Rename \/ ChooseRereads
    PROVE  CleanInv'
<1>1. ASSUME pc' \notin {"write", "settle", "prune"} \cup Looping, run'.skipped = {}, run'.again = {}
      PROVE  CleanInv'
  BY <1>1 DEF CleanInv
<1>2. CASE Start(force)
  BY <1>1, <1>2, StartEffect DEF Looping
<1>3. ASSUME pc' \notin {"write", "settle", "prune"} \cup Looping, clean, others = 0,
             run'.skipped = run.skipped, run'.again = run.again
      PROVE  CleanInv'
  BY <1>1, <1>3 DEF CleanInv
<1>4. CASE Reset
  BY <1>3, <1>4 DEF Reset, Looping, history
<1>5. CASE Snapshot
  BY <1>3, <1>5, SnapshotEffect DEF AllBut, Fields, Looping, history
<1>6. CASE Walk
  <2>1. pc' \in {"walk", "scan", "rename"} /\ AllBut({"todo", "found"}) /\ UNCHANGED history
    BY <1>6, WalkEffect
  <2> QED
    BY <1>3, <2>1 DEF AllBut, Fields, Looping, history
<1>7. CASE ScanFile
  <2>1. /\ pc' \in {"scan", "rename"} /\ AllBut({"todo", "entry", "skipped"}) /\ UNCHANGED others
        /\ run'.skipped = run.skipped /\ clean
    BY <1>7, ScanEffect
  <2> QED
    BY <1>3, <2>1 DEF AllBut, Fields, Looping
<1>8. CASE Rename
  BY <1>3, <1>8, RenameEffect DEF AllBut, Fields, Looping, history
<1>9. CASE ChooseRereads
  <2>1. /\ pc' = "loop" /\ AllBut({"reread", "todo"}) /\ run'.todo = Scanned /\ UNCHANGED history
    BY <1>9, ChooseEffect
  <2>2. /\ run'.skipped = {} /\ run'.again = {} /\ run'.entry = run.entry
    BY <2>1 DEF AllBut, Fields, CleanInv, history
  <2>3. Scanned' = run'.todo
    BY <2>1, <2>2 DEF Scanned
  <2> QED
    BY <2>1, <2>2, <2>3 DEF CleanInv
<1> QED
  BY <1>2, <1>4, <1>5, <1>6, <1>7, <1>8, <1>9

LEMMA SettleClean ==
    ASSUME TypeInv, PlanInv, CleanInv, clean, others = 0, Settle
    PROVE  CleanInv'
<1>1. /\ run.skipped = {} /\ run.again = {} /\ run.result # "changed" /\ pc \in Looping
      /\ HasText(NextDoc) => run.result = "updated" /\ InLine(row[NextDoc], NextDoc)
  BY SettleEffect DEF CleanInv, Looping
<1>2. /\ pc' = "loop" /\ NextDoc \in run.todo /\ AllBut({"todo", "result", "again", "unsettled"})
      /\ run'.todo = run.todo \ {NextDoc} /\ run'.again = {}
      /\ run'.unsettled \subseteq run.unsettled \cup {NextDoc}
      /\ run.result = "updated" => row' = row /\ run'.unsettled = run.unsettled
      /\ \A p \in Path \ {NextDoc} : row'[p] = row[p]
  BY <1>1, SettleEffect
<1>3. run'.skipped = {} /\ run'.entry = run.entry /\ NextDoc \notin run.unsettled /\ Scanned \subseteq Path
  BY <1>1, <1>2 DEF AllBut, Fields, PlanInv, TypeInv, TypeOK, RunOK, Scanned
<1>4. ASSUME NEW p \in Scanned \ run'.todo, HasText(p)
      PROVE  InLine(row'[p], p) /\ p \notin run'.unsettled
  <2>1. CASE p = NextDoc
    BY <1>1, <1>2, <1>3, <1>4, <2>1
  <2>2. CASE p # NextDoc
    <3>1. p \in Scanned \ run.todo
      BY <1>2, <1>4, <2>2
    <3>2. InLine(row[p], p) /\ p \notin run.unsettled
      BY <1>1, <1>4, <3>1 DEF CleanInv
    <3> QED
      BY <1>2, <1>3, <1>4, <2>2, <3>2
  <2> QED
    BY <2>1, <2>2
<1>5. Scanned' = Scanned
  BY <1>3 DEF Scanned
<1> QED
  BY <1>2, <1>3, <1>4, <1>5 DEF CleanInv, HasText, InLine, Parsed

LEMMA PruneClean ==
    ASSUME TypeInv, PlanInv, CleanInv, clean, others = 0, BeginPrune \/ PruneBatch
    PROVE  CleanInv'
<1>1. /\ pc' = "prune" /\ AllBut({"todo", "kept"}) /\ pc \in Looping \cup {"prune"}
  BY BeginPruneEffect, PruneEffect DEF AllBut, Looping
<1>2. /\ run'.skipped = {} /\ run'.again = {} /\ run'.entry = run.entry /\ run'.unsettled = run.unsettled
  BY <1>1 DEF AllBut, Fields, CleanInv
<1>3. Scanned \cap run.todo = {} /\ Scanned \subseteq Path
  BY BeginPruneEffect, PruneEffect DEF PlanInv, ToPrune, TypeInv, TypeOK, RunOK, Scanned
<1>4. ASSUME NEW p \in Scanned PROVE row'[p] = row[p]
  <2>1. CASE BeginPrune
    BY <2>1, BeginPruneEffect
  <2>2. CASE PruneBatch
    <3>1. PICK q \in run.todo : \A other \in Path \ {q} : row'[other] = row[other]
      BY <2>2, PruneEffect
    <3> QED
      BY <1>3, <1>4, <3>1
  <2> QED
    BY <2>1, <2>2
<1>5. Scanned' = Scanned
  BY <1>2 DEF Scanned
<1>6. \A p \in Scanned : HasText(p) => InLine(row'[p], p) /\ p \notin run.unsettled
  BY <1>1, <1>3, <1>4 DEF CleanInv
<1> QED
  BY <1>1, <1>2, <1>5, <1>6 DEF CleanInv, HasText, InLine, Parsed, Looping

LEMMA CleanInvNext ==
    TypeInv /\ PlanInv /\ StillInv /\ SettledInv /\ PlannedInv /\ CleanInv /\ [Next]_vars => CleanInv'
<1> SUFFICES ASSUME TypeInv, PlanInv, StillInv, SettledInv, PlannedInv, CleanInv, [Next]_vars,
                    clean', others' = 0
             PROVE  CleanInv'
  BY DEF CleanInv
<1>1. CASE \/ \E force \in BOOLEAN : Start(force)
           \/ Reset \/ Snapshot \/ Walk \/ ScanFile \/ Rename \/ ChooseRereads
  BY <1>1, BeginClean
<1>2. CASE LoopStep
  <2>1. clean /\ others = 0
    BY <1>2, LoopStepCases
  <2> QED
    BY <1>2, <2>1, LoopClean DEF SettledInv
<1>3. CASE Settle
  BY <1>3, SettleClean, SettleEffect
<1>4. CASE RetryStep
  <2>1. run.again # {} /\ clean /\ others = 0
    BY <1>4, RetryEffect
  <2> QED
    BY <2>1 DEF CleanInv
<1>5. CASE BeginPrune \/ PruneBatch
  BY <1>5, PruneClean, BeginPruneEffect, PruneEffect DEF history
<1>6. CASE \/ Record \/ Stop \/ Edit \/ Move \/ OtherWrites \/ OtherDrops \/ OtherMoves
  BY <1>6, EndEffect, ChangedEffect, OtherEffect
<1>7. CASE UNCHANGED vars
  BY <1>7 DEF CleanInv, vars, index, history, NextDoc, HasText, InLine, Parsed, Scanned, AsCompared, HashAt,
              HasRow, ChunksMatch, NameOf
<1> QED
  BY <1>1, <1>2, <1>3, <1>4, <1>5, <1>6, <1>7 DEF Next, Step, LoopStep, RetryStep

LEMMA CleanInvAlways == Spec => [](TypeInv /\ StableInv /\ CleanInv)
<1>1. Init => PlannedInv /\ CleanInv
  BY InitClean
<1>2. StableInv => PlanInv /\ StillInv
  BY DEF StableInv, RowsInv
<1>3. Spec => []PlannedInv
  BY <1>1, <1>2, PlannedInvNext, StableInvAlways, PTL DEF Spec
<1> QED
  BY <1>1, <1>2, <1>3, CleanInvNext, StableInvAlways, SettledInvAlways, PTL DEF Spec

\* A run that nothing disturbs ends with the index in step with the files, whatever earlier runs
\* left in it, wherever they ended, as long as every writer takes the lease: each file with text
\* has a row with its bytes' hash and their text, not marked, and no row is left of a file that is
\* gone.
THEOREM OneRunIsEnoughTheorem == Spec => OneRunIsEnough
<1>1. ASSUME TypeInv, StableInv, CleanInv, Record, clean, others = 0
      PROVE  InStep'
  <2>1. /\ PlanInv /\ AloneInv /\ StillInv /\ changes = 0 /\ pc = "prune" /\ run.todo = {} /\ disk' = disk
        /\ pc \in Past /\ pc \in Seen /\ row \in RowMap /\ Scanned \subseteq Path /\ run.skipped = {}
    BY <1>1, EndEffect DEF StableInv, RowsInv, PlanInv, CleanInv, Record, Past, Seen, TypeInv, TypeOK,
                           RowMap, RunOK, Scanned
  <2>2. \A p \in Path : disk[p] # Gone <=> p \in Scanned
    BY <2>1 DEF StillInv
  <2>3. \A p \in Path : row'[p] = IF p \in ToMark /\ HasRow(p)
                                   THEN [row[p] EXCEPT !.hash = Awaiting] ELSE row[p]
    BY <1>1 DEF Record
  <2>4. ASSUME NEW p \in Path, disk[p] = Gone PROVE ~HasRow(p)'
    <3>1. p \notin Scanned
      BY <2>2, <2>4
    <3>2. ~HasRow(p)
      BY <1>1, <2>1, <3>1 DEF AloneInv, ToPrune
    <3> QED
      BY <2>3, <3>2 DEF HasRow
  <2>5. ASSUME NEW p \in Path, disk[p] # Gone, Parsed(p, disk[p]) \in Text
        PROVE  row'[p] # NoRow /\ row'[p].hash = disk[p] /\ row'[p].text = Parsed(p, disk[p])
    <3>1. p \in Scanned /\ run.entry[p] = disk[p]
      BY <2>1, <2>2, <2>5 DEF StillInv
    <3>2. InLine(row[p], p) /\ p \notin run.unsettled
      BY <1>1, <2>1, <2>5, <3>1 DEF CleanInv, HasText
    <3>3. p \notin ToMark
      BY <2>1, <3>1, <3>2 DEF ToMark, PlanInv, ToPrune
    <3> QED
      BY <2>3, <3>1, <3>2, <3>3 DEF InLine
  <2>6. ASSUME NEW p \in Path
        PROVE  IF disk'[p] = Gone THEN ~HasRow(p)'
               ELSE Parsed(p, disk'[p]) \in Text =>
                       HasRow(p)' /\ row'[p].hash = disk'[p] /\ row'[p].text = Parsed(p, disk'[p])
    BY <2>1, <2>4, <2>5 DEF HasRow
  <2> QED
    BY <2>6 DEF InStep, Parsed
<1>2. TypeInv /\ StableInv /\ CleanInv /\ [Next]_vars => [Record /\ clean /\ others = 0 => InStep']_vars
  BY <1>1
<1> QED
  BY <1>2, CleanInvAlways, PTL DEF Spec, OneRunIsEnough
=============================================================================
