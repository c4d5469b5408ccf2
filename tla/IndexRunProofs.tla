---------------------------- MODULE IndexRunProofs ----------------------------
(***************************************************************************)
(* For any paths, bytes, parsers and number of runs, wherever a run is cut *)
(* short: the text of a row is what its parser makes of the bytes its hash *)
(* names, and no key of a format is recorded over a row that was not       *)
(* brought in line with it.                                                *)
(***************************************************************************)
EXTENDS IndexRun, NaturalsInduction, WellFoundedInduction, TLAPS

\* Where the run is: there is a document at hand, and a parse to write.
WhereInv ==
    /\ pc \in {"walk", "scan", "write", "settle"} => run.todo # {}
    /\ pc \in {"again", "againSettle"} => run.again # {}
    /\ DOMAIN run.job = DOMAIN NoJob
    /\ pc = "write" => run.job.kind # "none" /\ Parsed(NextDoc, run.job.content) \in Text
    /\ pc = "again" => run.job.kind # "none" /\ Parsed(Retried, run.job.content) \in Text

TypeInv == TypeOK /\ WhereInv

\* A row the older rules wrote has a format whose key is not recorded; the others hold their text.
RowInv ==
    \A p \in Path : Kept(p) =>
        IF row[p].rule THEN row[p].text = Parsed(p, row[p].hash)
        ELSE ParserOf[p] \in Reread \ recorded

\* What is about to be written was compared with the row that is there.
JobInv ==
    pc = "write" =>
        /\ run.job.kind = "meta" => HashAt(NextDoc) = run.job.hash /\ ChunksMatch(NextDoc, run.job.content)
        /\ run.job.kind = "rows" => NextDoc \in run.reread /\ run.job.content = run.entry[NextDoc]

\* A row of the older rules, of a format this run is to record.
Unsafe(p) == Kept(p) /\ ~row[p].rule /\ ParserOf[p] \in run.stale

\* A forced run begins with no rows, and writes none of the older rules.
ForceInv ==
    run.force =>
        /\ run.stale = {}
        /\ pc # "reset" => \A p \in Path : HasRow(p) => row[p].rule

Looping == {"loop", "write", "settle", "again", "againSettle"}

\* Such a row is still to be looked at, or among those the last transaction marks.
ProgressInv ==
    \A p \in Path : Unsafe(p) =>
        /\ pc \notin {"idle", "reset", "snapshot"}
        /\ pc \in {"walk", "scan", "rename"} => p \in DOMAIN run.snap
        /\ pc \in {"choose"} \cup Looping => p \in DOMAIN run.snap \cup Scanned
        /\ pc \in Looping /\ p \in Scanned => p \in run.todo \cup run.unsettled
        /\ pc = "prune" => p \in run.unsettled \cup run.skipped \cup run.kept \cup run.todo

\* What was settled is not one of them.
ResultInv ==
    /\ pc = "settle" /\ run.result = "updated" => ~Unsafe(NextDoc)
    /\ pc = "againSettle" /\ run.result = "updated" => ~Unsafe(Retried)

Sound == RowInv /\ JobInv /\ ForceInv /\ ProgressInv /\ ResultInv

SettledInv == others = 0 => Sound

\* All that the run knows but these is as it was.
Fields == {"force", "stale", "snap", "found", "entry", "skipped", "todo", "moved", "renamed",
           "crossed", "reread", "again", "unsettled", "kept", "job", "result"}
AllBut(changed) ==
    DOMAIN run' = Fields /\ \A field \in Fields \ changed : run'[field] = run[field]

LEMMA FieldsOfRun == DOMAIN NotStarted = Fields
BY DEF NotStarted, Fields

(***************************************************************************)
(* The first of some paths                                                 *)
(***************************************************************************)

LEMMA FirstIn ==
    ASSUME NEW S \in SUBSET Path, S # {}
    PROVE  First(S) \in S
<1> DEFINE R == {pair \in Nat \X Nat : pair[1] < pair[2]}
<1>1. IsWellFoundedOn(R, Nat)
  BY NatLessThanWellFounded DEF OpToRel
<1>2. S \subseteq Nat
  BY PathAssumption
<1> HIDE DEF R
<1>3. PICK p \in S : \A q \in S : <<q, p>> \notin R
  BY <1>1, <1>2, WFMin
<1>4. ASSUME NEW q \in S PROVE p <= q
  <2>1. p \in Nat /\ q \in Nat
    BY <1>2
  <2>2. ~(q < p)
    BY <1>3, <2>1 DEF R
  <2> QED
    BY <2>1, <2>2
<1> QED
  BY <1>4 DEF First

\* The document at hand is one of those to look at.
LEMMA NextDocIn ==
    ASSUME TypeOK, run.todo # {}
    PROVE  NextDoc \in run.todo /\ NextDoc \in Path
<1>1. run.todo \in SUBSET Path /\ run.todo \cap run.renamed \in SUBSET Path
  BY DEF TypeOK, RunOK
<1>2. CASE run.todo \cap run.renamed # {}
  BY <1>1, <1>2, FirstIn DEF NextDoc
<1>3. CASE run.todo \cap run.renamed = {}
  BY <1>1, <1>3, FirstIn DEF NextDoc
<1> QED
  BY <1>2, <1>3

LEMMA RetriedIn ==
    ASSUME TypeOK, run.again # {}
    PROVE  Retried \in run.again /\ Retried \in Path
BY FirstIn DEF TypeOK, RunOK, Retried

(***************************************************************************)
(* Rows                                                                    *)
(***************************************************************************)

RowMap == [Path -> Row \cup {NoRow}]

LEMMA ParsedTyped ==
    ASSUME NEW p \in Path, NEW content \in Content
    PROVE  Parsed(p, content) \in Text \cup {NoText, Broken}
BY ParserAssumption DEF Parsed

LEMMA DroppedTyped ==
    ASSUME TypeOK, NEW p
    PROVE  [row EXCEPT ![p] = NoRow] \in RowMap
BY DEF TypeOK, RowMap

LEMMA MarkedTyped ==
    ASSUME TypeOK, NEW p \in Path
    PROVE  Marked(p) \in RowMap
BY DEF TypeOK, RowMap, Marked, HasRow, Row

LEMMA RowOfTyped ==
    ASSUME TypeOK, NEW p \in Path, NEW content \in Content, Parsed(p, content) \in Text
    PROVE  RowOf(p, content) \in Row /\ [row EXCEPT ![p] = RowOf(p, content)] \in RowMap
<1>1. (IF HasRow(p) THEN row[p].id ELSE NoPath) \in Path \cup {NoPath}
  BY DEF TypeOK, HasRow, Row
<1>2. NameOf(p, content) \in Path \cup {NoPath}
  BY DEF NameOf
<1>3. RowOf(p, content) \in Row
  BY <1>1, <1>2 DEF RowOf, Row
<1> QED
  BY <1>3 DEF TypeOK, RowMap

LEMMA HashTyped ==
    ASSUME TypeOK, NEW p \in Path
    PROVE  HashAt(p) \in Content \cup {Awaiting, Gone}
BY DEF TypeOK, HashAt, HasRow, Row

(***************************************************************************)
(* Types, and where the run is                                             *)
(***************************************************************************)

\* What a step of the run has to show.
LEMMA StepTyped ==
    ASSUME TypeInv, disk' = disk, recorded' \subseteq Reread, row' \in RowMap, pc' \in PC,
           RunOK(run'), UNCHANGED <<changes, others, written>>, clean' \in BOOLEAN
    PROVE  TypeOK'
BY DEF TypeInv, TypeOK, RowMap

LEMMA NotStartedTyped == RunOK(NotStarted) /\ NotStarted.job = NoJob
<1>1. RunOK(NotStarted)
  BY DEF RunOK, NotStarted, NoJob
<1>2. NotStarted.job = NoJob
  BY DEF NotStarted
<1> QED
  BY <1>1, <1>2

LEMMA EndTyped ==
    ASSUME End
    PROVE  /\ pc' \in PC /\ RunOK(run') /\ changes' \in 0..MaxChanges
           /\ written' \subseteq Path /\ clean' \in BOOLEAN /\ WhereInv'
<1>1. RunOK(NotStarted)
  BY NotStartedTyped
<1>2. pc' = "idle" /\ run' = NotStarted /\ changes' = 0
  BY DEF End
<1>3. RunOK(run') /\ run'.job = NoJob
  <2>1. run' = NotStarted
    BY <1>2
  <2>2. RunOK(run')
    BY <1>1, <2>1
  <2>3. run'.job = NoJob
    BY <2>1, NotStartedTyped
  <2> QED
    BY <2>2, <2>3
<1>4. WhereInv'
  BY <1>2, <1>3 DEF WhereInv
<1>5. /\ pc' \in PC /\ changes' \in 0..MaxChanges /\ written' \subseteq Path /\ clean' \in BOOLEAN
  <2>1. changes' \in 0..MaxChanges
    BY <1>2, BoundAssumption
  <2>2. pc' \in PC /\ written' = {} /\ clean' = FALSE
    BY <1>2 DEF End, PC
  <2> QED
    BY <2>1, <2>2
<1> QED
  BY <1>3, <1>4, <1>5

LEMMA StartTyped ==
    ASSUME TypeInv, NEW force \in BOOLEAN, Start(force)
    PROVE  TypeInv'
<1>1. RunOK(NotStarted) /\ NotStarted.job = NoJob /\ run' = [NotStarted EXCEPT !.force = force]
  BY NotStartedTyped DEF Start
<1>2. RunOK(run') /\ run'.job = NoJob
  BY <1>1, FieldsOfRun DEF RunOK, Fields
<1>3. pc' \in {"reset", "snapshot"}
  BY DEF Start
<1>4. TypeOK'
  BY <1>2, <1>3 DEF TypeInv, TypeOK, Start, PC, index
<1>5. WhereInv'
  BY <1>2, <1>3 DEF WhereInv
<1> QED
  BY <1>4, <1>5 DEF TypeInv

LEMMA BeginningTyped ==
    ASSUME TypeInv, Reset \/ Snapshot \/ Walk \/ ScanFile
    PROVE  TypeInv'
<1>1. TypeOK /\ RunOK(run) /\ WhereInv
  BY DEF TypeInv, TypeOK
<1>2. CASE Reset
  <2>1. TypeOK'
    BY <1>1, <1>2 DEF Reset, TypeOK, PC, history
  <2> QED
    BY <1>1, <1>2, <2>1 DEF TypeInv, WhereInv, Reset
<1>3. CASE Snapshot
  <2>1. row' \in RowMap
    BY <1>1, <1>3 DEF Snapshot, TypeOK, RowMap, HasRow, Row
  <2>2. RunOK(run')
    BY <1>1, <1>3 DEF Snapshot, TypeOK, RunOK, HasRow, Row, NotStarted
  <2>3. TypeOK'
    BY <1>1, <1>3, <2>1, <2>2 DEF Snapshot, TypeOK, PC, history, RowMap
  <2>4. WhereInv'
    BY <1>1, <1>3, PathAssumption DEF Snapshot, WhereInv, RunOK, NotStarted
  <2> QED
    BY <2>3, <2>4 DEF TypeInv
<1>4. CASE Walk
  <2> DEFINE p == First(run.todo)
             rest == run.todo \ {p}
             found == run.found \cup (IF disk[p] # Gone THEN {p} ELSE {})
  <2>1. p \in Path
    BY <1>1, <1>4, FirstIn DEF Walk, WhereInv, RunOK
  <2>2. found \subseteq Path /\ rest \subseteq Path
    BY <1>1, <2>1 DEF RunOK
  <2> HIDE DEF p, rest, found
  <2>3. \/ rest # {} /\ run' = [run EXCEPT !.todo = rest, !.found = found] /\ pc' = "walk"
        \/ /\ run' = [run EXCEPT !.todo = found, !.found = {}]
           /\ pc' = IF found = {} THEN "rename" ELSE "scan"
    BY <1>4 DEF Walk, p, rest, found
  <2>4. RunOK(run') /\ run'.job = run.job /\ (pc' \in {"walk", "scan"} => run'.todo # {})
    <3>1. /\ AllBut({"todo", "found"})
          /\ \/ rest # {} /\ run'.todo = rest /\ run'.found = found /\ pc' = "walk"
             \/ run'.todo = found /\ run'.found = {} /\ pc' = IF found = {} THEN "rename" ELSE "scan"
      BY <1>1, <2>3, FieldsOfRun DEF RunOK, AllBut, Fields
    <3> QED
      BY <1>1, <2>2, <3>1, FieldsOfRun DEF RunOK, AllBut, Fields
  <2>5. pc' \in {"walk", "scan", "rename"}
    BY <2>3
  <2>6. TypeOK'
    BY <1>1, <1>4, <2>4, <2>5 DEF Walk, TypeOK, PC, index, history
  <2> QED
    BY <1>1, <2>4, <2>5, <2>6 DEF TypeInv, WhereInv
<1>5. CASE ScanFile
  <2> DEFINE p == First(run.todo)
             rest == run.todo \ {p}
  <2>1. p \in Path
    BY <1>1, <1>5, FirstIn DEF ScanFile, WhereInv, RunOK
  <2>2. rest \subseteq Path /\ DOMAIN run.entry \subseteq Path
    BY <1>1 DEF RunOK
  <2>3. disk[p] # Gone => disk[p] \in Content
    BY <1>1, <2>1 DEF TypeOK
  <2> HIDE DEF p, rest
  <2>4. /\ pc' = IF rest = {} THEN "rename" ELSE "scan"
        /\ clean' \in BOOLEAN
        /\ \/ /\ disk[p] # Gone
              /\ run' = [run EXCEPT !.todo = rest,
                                   !.entry = [q \in DOMAIN run.entry \cup {p} |->
                                                 IF q = p THEN disk[p] ELSE run.entry[q]]]
           \/ run' = [run EXCEPT !.todo = rest, !.skipped = run.skipped \cup {p}]
    BY <1>1, <1>5 DEF ScanFile, p, rest, TypeOK
  <2>5. RunOK(run') /\ run'.job = run.job /\ run'.todo = rest
    <3>1. CASE run' = [run EXCEPT !.todo = rest, !.skipped = run.skipped \cup {p}]
      <4>1. AllBut({"todo", "skipped"}) /\ run'.todo = rest /\ run'.skipped = run.skipped \cup {p}
        BY <1>1, <3>1, FieldsOfRun DEF RunOK, AllBut, Fields
      <4> QED
        BY <1>1, <2>1, <2>2, <4>1, FieldsOfRun DEF RunOK, AllBut, Fields
    <3>2. CASE ~(run' = [run EXCEPT !.todo = rest, !.skipped = run.skipped \cup {p}])
      <4> DEFINE entry == [q \in DOMAIN run.entry \cup {p} |-> IF q = p THEN disk[p] ELSE run.entry[q]]
      <4>1. DOMAIN entry \subseteq Path /\ \A q \in DOMAIN entry : entry[q] \in Content
        BY <1>1, <2>1, <2>2, <2>3, <2>4, <3>2 DEF RunOK
      <4>2. run' = [run EXCEPT !.todo = rest, !.entry = entry]
        BY <2>4, <3>2
      <4> HIDE DEF entry
      <4>3. AllBut({"todo", "entry"}) /\ run'.todo = rest /\ run'.entry = entry
        BY <1>1, <4>2, FieldsOfRun DEF RunOK, AllBut, Fields
      <4> QED
        BY <1>1, <2>2, <4>1, <4>3, FieldsOfRun DEF RunOK, AllBut, Fields
    <3> QED
      BY <3>1, <3>2
  <2>6. TypeOK'
    BY <1>1, <1>5, <2>4, <2>5 DEF ScanFile, TypeOK, PC, index
  <2> QED
    BY <1>1, <2>4, <2>5, <2>6 DEF TypeInv, WhereInv
<1> QED
  BY <1>2, <1>3, <1>4, <1>5

LEMMA RenameTyped ==
    ASSUME TypeInv, Rename \/ ChooseRereads
    PROVE  TypeInv'
<1>1. TypeOK /\ RunOK(run) /\ WhereInv
  BY DEF TypeInv, TypeOK
<1>2. CASE Rename
  <2> DEFINE pairs == IF run.force THEN {} ELSE {pair \in Renames : Applicable(pair)}
             olds == {pair[1] : pair \in pairs}
             news == {pair[2] : pair \in pairs}
             from == [new \in news |-> CHOOSE old \in olds : <<old, new>> \in pairs]
             crossed == {new \in news : Crosses(from[new], new)}
  <2>1. \A pair \in pairs : /\ pair[1] \in Path /\ pair[2] \in Path /\ HasRow(pair[1])
                           /\ pair = <<pair[1], pair[2]>>
    BY <1>1 DEF Renames, Orphans, Arrivals, Scanned, Applicable, AsSeen, RunOK
  <2> HIDE DEF pairs
  <2>2. olds \subseteq Path /\ news \subseteq Path /\ crossed \subseteq Path
    BY <2>1
  <2>3. \A new \in news : from[new] \in Path /\ HasRow(from[new])
    <3> SUFFICES ASSUME NEW new \in news PROVE from[new] \in Path /\ HasRow(from[new])
      OBVIOUS
    <3>1. PICK pair \in pairs : pair[2] = new
      OBVIOUS
    <3>2. pair[1] \in olds /\ <<pair[1], new>> \in pairs
      BY <2>1, <3>1
    <3>3. <<from[new], new>> \in pairs
      BY <3>2
    <3> QED
      BY <2>1, <3>3
  <2>4. /\ row' = [p \in Path |-> IF p \in news THEN Moved(from[p], p)
                                  ELSE IF p \in olds THEN NoRow ELSE row[p]]
        /\ run' = [run EXCEPT !.moved = olds, !.crossed = crossed,
                             !.renamed = IF Static THEN news ELSE crossed]
        /\ pc' = "choose"
        /\ UNCHANGED <<disk, recorded, history>>
    BY <1>2 DEF Rename, pairs
  <2> HIDE DEF olds, news, from, crossed
  <2>5. row' \in RowMap
    <3>1. \A new \in news : Moved(from[new], new) \in Row
      BY <1>1, <2>3 DEF Moved, TypeOK, HasRow, Row
    <3> QED
      BY <1>1, <2>4, <3>1 DEF RowMap, TypeOK
  <2>6. RunOK(run') /\ run'.job = run.job
    <3>1. /\ AllBut({"moved", "crossed", "renamed"}) /\ run'.moved = olds /\ run'.crossed = crossed
          /\ run'.renamed = IF Static THEN news ELSE crossed
      BY <1>1, <2>4, FieldsOfRun DEF RunOK, AllBut, Fields
    <3> QED
      BY <1>1, <2>2, <3>1, FieldsOfRun DEF RunOK, AllBut, Fields
  <2>7. TypeOK'
    BY <1>1, <2>4, <2>5, <2>6 DEF TypeOK, PC, history, RowMap
  <2> QED
    BY <1>1, <2>4, <2>6, <2>7 DEF TypeInv, WhereInv
<1>3. CASE ChooseRereads
  <2> DEFINE reread == {p \in Scanned \ run.renamed : StaleRow(row, p) /\ row[p].hash = run.entry[p]}
  <2>1. reread \subseteq Path /\ Scanned \subseteq Path
    BY <1>1 DEF Scanned, RunOK
  <2>2. run' = [run EXCEPT !.reread = reread, !.todo = Scanned] /\ pc' = "loop"
    BY <1>3 DEF ChooseRereads
  <2> HIDE DEF reread
  <2>3. RunOK(run') /\ run'.job = run.job
    <3>1. AllBut({"reread", "todo"}) /\ run'.reread = reread /\ run'.todo = Scanned
      BY <1>1, <2>2, FieldsOfRun DEF RunOK, AllBut, Fields
    <3> QED
      BY <1>1, <2>1, <3>1, FieldsOfRun DEF RunOK, AllBut, Fields
  <2>4. TypeOK'
    BY <1>1, <1>3, <2>2, <2>3 DEF ChooseRereads, TypeOK, PC, index, history
  <2> QED
    BY <1>1, <2>2, <2>3, <2>4 DEF TypeInv, WhereInv
<1> QED
  BY <1>2, <1>3

(***************************************************************************)
(* The loop                                                                *)
(***************************************************************************)

Results == {"updated", "unchanged", "changed", "noText", "failed"}

\* What a document's outcome has to show.
LEMMA DoneTyped ==
    ASSUME TypeInv, run.todo # {}, NEW result \in Results, NEW rows \in RowMap,
           Done(NextDoc, result, rows),
           disk' = disk, UNCHANGED <<recorded, changes, others, written>>, clean' \in BOOLEAN
    PROVE  /\ TypeInv' /\ pc' = "loop"
           /\ AllBut({"todo", "job", "result", "unsettled"}) /\ run'.todo = run.todo \ {NextDoc}
           /\ run'.unsettled = IF ~Settled(NextDoc, result) /\ StaleRow(rows, NextDoc)
                               THEN run.unsettled \cup {NextDoc} ELSE run.unsettled
<1>1. TypeOK /\ RunOK(run) /\ WhereInv
  BY DEF TypeInv, TypeOK
<1>2. NextDoc \in Path
  BY <1>1, NextDocIn
<1>3. /\ AllBut({"todo", "job", "result", "unsettled"}) /\ run'.todo = run.todo \ {NextDoc}
      /\ run'.job = NoJob /\ run'.result = "none"
      /\ run'.unsettled = IF ~Settled(NextDoc, result) /\ StaleRow(rows, NextDoc)
                          THEN run.unsettled \cup {NextDoc} ELSE run.unsettled
  BY <1>1, FieldsOfRun DEF Done, RunOK, AllBut, Fields
<1>4. RunOK(run')
  BY <1>1, <1>2, <1>3, FieldsOfRun DEF RunOK, AllBut, Fields, NoJob
<1>5. row' \in RowMap /\ pc' = "loop"
  BY DEF Done
<1>6. TypeOK'
  BY <1>1, <1>4, <1>5 DEF TypeOK, RowMap, PC
<1>7. WhereInv'
  BY <1>3, <1>5 DEF WhereInv
<1> QED
  BY <1>3, <1>5, <1>6, <1>7 DEF TypeInv

LEMMA OutcomeTyped ==
    ASSUME TypeInv, run.todo # {}, NEW result \in Results, NEW rows \in RowMap,
           Outcome(NextDoc, result, rows),
           disk' = disk, UNCHANGED <<recorded, changes, others, written>>, clean' \in BOOLEAN
    PROVE  TypeInv'
<1>1. TypeOK /\ RunOK(run) /\ WhereInv
  BY DEF TypeInv, TypeOK
<1>2. CASE NextDoc \in run.crossed
  <2>1. AllBut({"job", "result"}) /\ run'.job = NoJob /\ run'.result = result /\ pc' = "settle" /\ row' = rows
    BY <1>1, <1>2, FieldsOfRun DEF Outcome, RunOK, AllBut, Fields
  <2>2. RunOK(run')
    BY <1>1, <2>1, FieldsOfRun DEF RunOK, AllBut, Fields, NoJob, Results
  <2>3. TypeOK'
    BY <1>1, <2>1, <2>2 DEF TypeOK, RowMap, PC
  <2>4. WhereInv'
    BY <2>1 DEF WhereInv, AllBut, Fields
  <2> QED
    BY <2>3, <2>4 DEF TypeInv
<1>3. CASE NextDoc \notin run.crossed
  BY <1>3, DoneTyped DEF Outcome
<1> QED
  BY <1>2, <1>3

\* What a parse to be written has to show.
LEMMA JobTyped ==
    ASSUME TypeInv, run.todo # {}, disk[NextDoc] # Gone, Parsed(NextDoc, disk[NextDoc]) \in Text,
           run' = [run EXCEPT !.job = JobFor(NextDoc, disk[NextDoc])], pc' = "write", UNCHANGED row,
           UNCHANGED <<disk, recorded, history>>
    PROVE  /\ TypeInv' /\ AllBut({"job"}) /\ NextDoc' = NextDoc
           /\ run'.job.kind = WriteFor(NextDoc, disk[NextDoc])
           /\ run'.job.content = disk[NextDoc] /\ run'.job.hash = HashAt(NextDoc)
<1>1. TypeOK /\ RunOK(run) /\ WhereInv
  BY DEF TypeInv, TypeOK
<1>2. NextDoc \in Path /\ disk[NextDoc] \in Content /\ HashAt(NextDoc) \in Content \cup {Awaiting, Gone}
  BY <1>1, NextDocIn, HashTyped DEF TypeOK
<1>3. AllBut({"job"}) /\ run'.job = JobFor(NextDoc, disk[NextDoc])
  BY <1>1, FieldsOfRun DEF RunOK, AllBut, Fields
<1>4. /\ run'.job.kind = WriteFor(NextDoc, disk[NextDoc]) /\ run'.job.kind \in {"rows", "meta", "whole"}
      /\ run'.job.content = disk[NextDoc] /\ run'.job.hash = HashAt(NextDoc)
      /\ DOMAIN run'.job = DOMAIN NoJob
  BY <1>3 DEF JobFor, WriteFor, NoJob
<1>5. NextDoc' = NextDoc
  BY <1>3 DEF NextDoc, AllBut, Fields, First
<1>6. RunOK(run')
  BY <1>1, <1>2, <1>3, <1>4, FieldsOfRun DEF RunOK, AllBut, Fields
<1>7. TypeOK'
  BY <1>1, <1>6 DEF TypeOK, history, PC
<1>8. WhereInv'
  BY <1>3, <1>4, <1>5 DEF WhereInv, AllBut, Fields, Parsed
<1> QED
  BY <1>3, <1>4, <1>5, <1>7, <1>8 DEF TypeInv

LEMMA LoopTyped ==
    ASSUME TypeInv, KeepUnchanged \/ CannotRead \/ ReadFile
    PROVE  TypeInv'
<1>1. TypeOK /\ run.todo # {} /\ pc = "loop"
  BY DEF TypeInv, KeepUnchanged, CannotRead, ReadFile, Looking
<1>2. NextDoc \in Path /\ row \in RowMap /\ [row EXCEPT ![NextDoc] = NoRow] \in RowMap
  BY <1>1, NextDocIn, DroppedTyped DEF TypeOK, RowMap
<1>3. CASE KeepUnchanged
  <2>1. clean' \in BOOLEAN
    BY <1>1, <1>3 DEF KeepUnchanged, history, TypeOK
  <2> QED
    BY <1>1, <1>2, <1>3, <2>1, DoneTyped DEF KeepUnchanged, history, Results
<1>4. CASE CannotRead
  BY <1>1, <1>2, <1>4, OutcomeTyped DEF CannotRead, Results
<1>5. CASE ReadFile
  <2>1. UNCHANGED <<disk, recorded, history>> /\ clean' \in BOOLEAN
    BY <1>1, <1>5 DEF ReadFile, history, TypeOK
  <2>2. ASSUME NEW result \in Results, NEW rows \in RowMap, Outcome(NextDoc, result, rows)
        PROVE  TypeInv'
    BY <1>1, <2>1, <2>2, OutcomeTyped DEF history
  <2>3. (IF NextDoc \in run.reread THEN [row EXCEPT ![NextDoc] = NoRow] ELSE row) \in RowMap
    BY <1>2
  <2>4. CASE run' = [run EXCEPT !.job = JobFor(NextDoc, disk[NextDoc])] /\ pc' = "write" /\ UNCHANGED row
             /\ Parsed(NextDoc, disk[NextDoc]) \in Text
    BY <1>1, <1>5, <2>1, <2>4, JobTyped DEF ReadFile
  <2> QED
    BY <1>2, <1>5, <2>2, <2>3, <2>4 DEF ReadFile, Results
<1> QED
  BY <1>3, <1>4, <1>5

LEMMA WriteTyped ==
    ASSUME TypeInv, WriteMeta \/ WriteRows \/ WriteWhole \/ EmbedRejected
    PROVE  TypeInv'
<1>1. TypeOK /\ RunOK(run) /\ run.todo # {} /\ pc = "write" /\ run.job.kind # "none"
      /\ Parsed(NextDoc, run.job.content) \in Text
  BY DEF TypeInv, TypeOK, WriteMeta, WriteRows, WriteWhole, EmbedRejected, WhereInv
<1>2. NextDoc \in Path /\ row \in RowMap /\ run.job.content \in Content
  BY <1>1, NextDocIn DEF TypeOK, RowMap, RunOK
<1>3. disk' = disk /\ UNCHANGED <<recorded, changes, others, written>> /\ clean' \in BOOLEAN
  BY <1>1 DEF WriteMeta, WriteRows, WriteWhole, EmbedRejected, history, TypeOK
<1>4. ASSUME NEW result \in Results, NEW rows \in RowMap, Outcome(NextDoc, result, rows)
      PROVE  TypeInv'
  BY <1>1, <1>3, <1>4, OutcomeTyped
<1>5. CASE WriteMeta
  <2>1. CASE HasRow(NextDoc)
    <3>1. MetaRow(NextDoc) \in Row
      <4>1. row[NextDoc] \in Row
        BY <1>1, <1>2, <2>1 DEF TypeOK, HasRow
      <4>2. (ParserOf[NextDoc] \notin Reread \/ AsCompared(NextDoc)) \in BOOLEAN
        BY DEF AsCompared
      <4> QED
        BY <1>2, <4>1, <4>2 DEF MetaRow, Row
    <3>2. [row EXCEPT ![NextDoc] = MetaRow(NextDoc)] \in RowMap
      BY <1>2, <3>1 DEF RowMap
    <3> QED
      BY <1>4, <1>5, <2>1, <3>2 DEF WriteMeta, Results
  <2>2. CASE ~HasRow(NextDoc)
    <3>1. run' = [run EXCEPT !.job.kind = "whole"] /\ UNCHANGED <<row, pc>>
      BY <1>5, <2>2 DEF WriteMeta
    <3>2. AllBut({"job"}) /\ run'.job = [run.job EXCEPT !.kind = "whole"]
      BY <1>1, <3>1, FieldsOfRun DEF RunOK, AllBut, Fields
    <3>3. DOMAIN run.job = {"kind", "content", "hash"}
      BY DEF TypeInv, WhereInv, NoJob
    <3>4. /\ run'.job.kind = "whole" /\ run'.job.content = run.job.content
          /\ run'.job.hash = run.job.hash /\ DOMAIN run'.job = DOMAIN NoJob
      BY <3>2, <3>3 DEF NoJob
    <3>5. RunOK(run')
      BY <1>1, <3>2, <3>4, FieldsOfRun DEF RunOK, AllBut, Fields
    <3>6. NextDoc' = NextDoc
      <4>1. run'.todo = run.todo /\ run'.renamed = run.renamed
        BY <3>2 DEF AllBut, Fields
      <4> QED
        BY <4>1 DEF NextDoc
    <3>7. WhereInv'
      BY <1>1, <3>1, <3>2, <3>4, <3>6 DEF WhereInv, AllBut, Fields, Parsed
    <3>8. TypeOK'
      BY <1>1, <1>3, <3>1, <3>5 DEF TypeOK
    <3> QED
      BY <3>7, <3>8 DEF TypeInv
  <2> QED
    BY <2>1, <2>2
<1>6. CASE WriteRows
  <2>1. CASE HasRow(NextDoc)
    <3>1. [row EXCEPT ![NextDoc].rule = TRUE] \in RowMap
      BY <1>2, <2>1 DEF RowMap, HasRow, Row
    <3> QED
      BY <1>2, <1>4, <1>6, <3>1 DEF WriteRows, Results
  <2>2. CASE ~HasRow(NextDoc)
    BY <1>2, <1>4, <1>6, <2>2 DEF WriteRows, Results, AsCompared, ChunksMatch
  <2> QED
    BY <2>1, <2>2
<1>7. CASE WriteWhole
  <2>1. [row EXCEPT ![NextDoc] = RowOf(NextDoc, run.job.content)] \in RowMap
    BY <1>1, <1>2, RowOfTyped
  <2> QED
    BY <1>4, <1>7, <2>1 DEF WriteWhole, Results
<1>8. CASE EmbedRejected
  BY <1>2, <1>4, <1>8 DEF EmbedRejected, Results
<1> QED
  BY <1>5, <1>6, <1>7, <1>8

LEMMA SettleTyped ==
    ASSUME TypeInv, Settle
    PROVE  TypeInv'
<1>1. TypeOK /\ RunOK(run) /\ run.todo # {}
  BY DEF TypeInv, TypeOK, Settle, WhereInv
<1>2. NextDoc \in Path
  BY <1>1, NextDocIn
<1>3. row' \in RowMap /\ pc' = "loop" /\ disk' = disk /\ UNCHANGED <<recorded, history>>
  BY <1>1, <1>2, DroppedTyped, MarkedTyped DEF Settle, TypeOK, RowMap
<1>4. /\ AllBut({"todo", "result", "again", "unsettled"}) /\ run'.todo = run.todo \ {NextDoc}
      /\ run'.result = "none"
      /\ run'.again \in {run.again \cup {NextDoc}, run.again}
      /\ run'.unsettled \in {run.unsettled \cup {NextDoc}, run.unsettled}
  BY <1>1, FieldsOfRun DEF Settle, RunOK, AllBut, Fields
<1>5. RunOK(run')
  BY <1>1, <1>2, <1>4, FieldsOfRun DEF RunOK, AllBut, Fields
<1>6. TypeOK'
  BY <1>1, <1>3, <1>5 DEF TypeOK, RowMap, history, PC
<1>7. WhereInv'
  BY <1>3, <1>4 DEF TypeInv, WhereInv, AllBut, Fields
<1> QED
  BY <1>6, <1>7 DEF TypeInv

LEMMA RetryTyped ==
    ASSUME TypeInv, RetryUnread \/ Retry \/ RetryWrite \/ RetrySettle
    PROVE  TypeInv'
<1>1. TypeOK /\ RunOK(run) /\ run.again # {}
  BY DEF TypeInv, TypeOK, RetryUnread, Retry, RetryWrite, RetrySettle, WhereInv, Retrying
<1>2. Retried \in Path
  BY <1>1, RetriedIn
<1>3. disk' = disk /\ UNCHANGED <<recorded, changes, others, written>> /\ clean' \in BOOLEAN
  <2>1. clean \in BOOLEAN
    BY <1>1 DEF TypeOK
  <2>2. CASE RetryUnread
    BY <2>2 DEF RetryUnread, index
  <2>3. CASE Retry
    BY <2>1, <2>3 DEF Retry, history
  <2>4. CASE RetryWrite
    BY <2>1, <2>4 DEF RetryWrite
  <2>5. CASE RetrySettle
    BY <2>1, <2>5 DEF RetrySettle, history
  <2> QED
    BY <2>2, <2>3, <2>4, <2>5
<1>4. row \in RowMap /\ [row EXCEPT ![Retried] = NoRow] \in RowMap /\ Marked(Retried) \in RowMap
  BY <1>1, <1>2, DroppedTyped, MarkedTyped DEF TypeOK, RowMap
<1>5. ASSUME row' \in RowMap, pc' = "againSettle", NEW result \in Results,
             \/ run' = [run EXCEPT !.result = result]
             \/ run' = [run EXCEPT !.job = NoJob, !.result = result]
      PROVE  TypeInv'
  <2>1. AllBut({"job", "result"}) /\ run'.result = result /\ run'.job \in {NoJob, run.job}
    BY <1>1, <1>5, FieldsOfRun DEF RunOK, AllBut, Fields
  <2>2. RunOK(run')
    BY <1>1, <2>1, FieldsOfRun DEF RunOK, AllBut, Fields, Results, NoJob
  <2>3. TypeOK'
    BY <1>1, <1>3, <1>5, <2>2 DEF TypeOK, RowMap, PC
  <2>4. WhereInv'
    BY <1>1, <1>5, <2>1 DEF TypeInv, WhereInv, AllBut, Fields
  <2> QED
    BY <2>3, <2>4 DEF TypeInv
<1>6. CASE RetryUnread
  BY <1>4, <1>5, <1>6 DEF RetryUnread, index, Results
<1>7. CASE Retry
  <2>1. CASE Parsed(Retried, disk[Retried]) \in Text
             /\ run' = [run EXCEPT !.job = [kind |-> "whole", content |-> disk[Retried], hash |-> HashAt(Retried)]]
             /\ pc' = "again" /\ UNCHANGED row
    <3>1. disk[Retried] \in Content /\ HashAt(Retried) \in Content \cup {Awaiting, Gone}
      BY <1>1, <1>2, <1>7, HashTyped DEF Retry, TypeOK
    <3>2. /\ AllBut({"job"}) /\ run'.job.kind = "whole" /\ run'.job.content = disk[Retried]
          /\ run'.job.hash = HashAt(Retried) /\ DOMAIN run'.job = DOMAIN NoJob
      BY <1>1, <2>1, FieldsOfRun DEF RunOK, AllBut, Fields, NoJob
    <3>3. RunOK(run')
      BY <1>1, <3>1, <3>2, FieldsOfRun DEF RunOK, AllBut, Fields
    <3>4. TypeOK'
      BY <1>1, <1>3, <2>1, <3>3 DEF TypeOK, PC
    <3>5. Retried' = Retried
      BY <3>2 DEF Retried, AllBut, Fields, First
    <3>6. WhereInv'
      BY <1>1, <2>1, <3>2, <3>5 DEF WhereInv, AllBut, Fields, Parsed
    <3> QED
      BY <3>4, <3>6 DEF TypeInv
  <2> QED
    BY <1>4, <1>5, <1>7, <2>1 DEF Retry, Results
<1>8. CASE RetryWrite
  <2>1. run.job.content \in Content /\ Parsed(Retried, run.job.content) \in Text
    BY <1>1, <1>8 DEF RetryWrite, TypeInv, WhereInv, RunOK
  <2>2. [row EXCEPT ![Retried] = RowOf(Retried, run.job.content)] \in RowMap
    BY <1>1, <1>2, <2>1, RowOfTyped
  <2> QED
    BY <1>4, <1>5, <1>8, <2>2 DEF RetryWrite, Results
<1>9. CASE RetrySettle
  <2>1. row' \in RowMap /\ pc' = "loop"
    BY <1>4, <1>9 DEF RetrySettle
  <2>2. /\ AllBut({"again", "result", "unsettled"}) /\ run'.result = "none"
        /\ run'.again = run.again \ {Retried}
        /\ run'.unsettled \in {run.unsettled, run.unsettled \ {Retried}}
    BY <1>1, <1>9, FieldsOfRun DEF RetrySettle, RunOK, AllBut, Fields
  <2>3. RunOK(run')
    BY <1>1, <2>2, FieldsOfRun DEF RunOK, AllBut, Fields
  <2>4. TypeOK'
    BY <1>1, <1>3, <2>1, <2>3 DEF TypeOK, RowMap, PC
  <2>5. WhereInv'
    BY <2>1, <2>2 DEF TypeInv, WhereInv, AllBut, Fields
  <2> QED
    BY <2>4, <2>5 DEF TypeInv
<1> QED
  BY <1>6, <1>7, <1>8, <1>9

LEMMA EndingTyped ==
    ASSUME TypeInv, BeginPrune \/ PruneBatch \/ Record \/ Stop
    PROVE  TypeInv'
<1>1. TypeOK /\ RunOK(run)
  BY DEF TypeInv, TypeOK
<1>2. CASE BeginPrune
  <2>1. AllBut({"todo"}) /\ run'.todo = ToPrune /\ pc' = "prune"
    BY <1>1, <1>2, FieldsOfRun DEF BeginPrune, RunOK, AllBut, Fields
  <2>2. RunOK(run')
    BY <1>1, <2>1, FieldsOfRun DEF RunOK, AllBut, Fields, ToPrune
  <2>3. TypeOK'
    BY <1>1, <1>2, <2>1, <2>2 DEF BeginPrune, TypeOK, PC, index, history
  <2>4. WhereInv'
    BY <2>1 DEF TypeInv, WhereInv, AllBut, Fields
  <2> QED
    BY <2>3, <2>4 DEF TypeInv
<1>3. CASE PruneBatch
  <2> DEFINE p == First(run.todo)
  <2>1. p \in Path
    BY <1>1, <1>3, FirstIn DEF PruneBatch, RunOK
  <2>2. row \in RowMap /\ [row EXCEPT ![p] = NoRow] \in RowMap /\ Marked(p) \in RowMap
    BY <1>1, <2>1, DroppedTyped, MarkedTyped DEF TypeOK, RowMap
  <2>3. row' \in RowMap /\ pc' = "prune"
    BY <1>3, <2>2 DEF PruneBatch
  <2>4. /\ AllBut({"todo", "kept"}) /\ run'.todo = run.todo \ {p}
        /\ run'.kept \in {run.kept, run.kept \cup {p}}
    BY <1>1, <1>3, FieldsOfRun DEF PruneBatch, RunOK, AllBut, Fields
  <2>5. RunOK(run')
    BY <1>1, <2>1, <2>4, FieldsOfRun DEF RunOK, AllBut, Fields
  <2>6. TypeOK'
    BY <1>1, <1>3, <2>3, <2>5 DEF PruneBatch, TypeOK, RowMap, PC, history
  <2>7. WhereInv'
    BY <2>3, <2>4 DEF TypeInv, WhereInv, AllBut, Fields
  <2> QED
    BY <2>6, <2>7 DEF TypeInv
<1>4. CASE Record \/ Stop
  <2>1. row' \in RowMap /\ recorded' \subseteq Reread /\ End /\ disk' = disk /\ others' = others
    BY <1>1, <1>4 DEF Record, Stop, TypeOK, RowMap, HasRow, Row, RunOK, index
  <2>2. TypeOK' /\ WhereInv'
    BY <1>1, <2>1, EndTyped DEF TypeOK, RowMap
  <2> QED
    BY <2>2 DEF TypeInv
<1> QED
  BY <1>2, <1>3, <1>4

(***************************************************************************)
(* The files, and the writers without the lease                            *)
(***************************************************************************)

LEMMA ChangedTyped ==
    ASSUME TypeInv, Edit \/ Move
    PROVE  TypeInv'
<1>1. TypeOK
  BY DEF TypeInv
<1>2. PICK new \in [Path -> Content \cup {Gone}] : Changed(new)
  <2>1. CASE Edit
    BY <1>1, <2>1 DEF Edit, TypeOK
  <2>2. CASE Move
    BY <1>1, <2>2 DEF Move, TypeOK
  <2> QED
    BY <2>1, <2>2
<1>3. changes' \in 0..MaxChanges
  BY <1>1, <1>2, BoundAssumption DEF Changed, TypeOK
<1>4. TypeOK'
  BY <1>1, <1>2, <1>3 DEF Changed, TypeOK, index
<1>5. WhereInv'
  BY <1>2 DEF TypeInv, WhereInv, Changed, NextDoc, Retried, First, Parsed
<1> QED
  BY <1>4, <1>5 DEF TypeInv

LEMMA OtherTyped ==
    ASSUME TypeInv, OtherWrites \/ OtherDrops \/ OtherMoves
    PROVE  TypeInv' /\ others' > 0
<1>1. TypeOK /\ row \in RowMap
  BY DEF TypeInv, TypeOK, RowMap
<1>2. PICK paths \in SUBSET Path, rows \in RowMap : Other(paths, rows)
  <2>1. CASE OtherWrites
    <3>1. PICK p \in Path : disk[p] # Gone /\ Parsed(p, disk[p]) \in Text
                            /\ Other({p}, [row EXCEPT ![p] = RowOf(p, disk[p])])
      BY <2>1 DEF OtherWrites
    <3>2. [row EXCEPT ![p] = RowOf(p, disk[p])] \in RowMap
      BY <1>1, <3>1, RowOfTyped DEF TypeOK
    <3> QED
      BY <3>1, <3>2
  <2>2. CASE OtherDrops
    BY <1>1, <2>2 DEF OtherDrops, RowMap
  <2>3. CASE OtherMoves
    BY <1>1, <2>3 DEF OtherMoves, RowMap
  <2> QED
    BY <2>1, <2>2, <2>3
<1>3. others' \in 0..MaxOthers /\ others' > 0 /\ written' \subseteq Path
  BY <1>1, <1>2, BoundAssumption DEF Other, TypeOK
<1>4. TypeOK'
  BY <1>1, <1>2, <1>3 DEF Other, TypeOK, RowMap
<1>5. WhereInv'
  BY <1>2 DEF TypeInv, WhereInv, Other, NextDoc, Retried, First, Parsed
<1> QED
  BY <1>3, <1>4, <1>5 DEF TypeInv

LEMMA InitTyped == Init => TypeInv
<1> SUFFICES ASSUME Init PROVE TypeInv
  OBVIOUS
<1>1. row \in RowMap
  <2>1. CASE row = [p \in Path |-> NoRow]
    BY <2>1 DEF RowMap
  <2>2. ASSUME NEW same \in SUBSET Path, row = OldRows(same) PROVE row \in RowMap
    <3>1. ASSUME NEW p \in Path, disk[p] # Gone, Parsed(p, disk[p]) \in Text
          PROVE  OldRows(same)[p] \in Row
      <4>1. disk[p] \in Content /\ NameOf(p, disk[p]) \in Path \cup {NoPath}
        BY <3>1 DEF Init, NameOf
      <4>2. OldRows(same)[p] = [id |-> NoPath, hash |-> disk[p],
                                text |-> IF ParserOf[p] \in Reread /\ p \notin same THEN OldText
                                         ELSE Parsed(p, disk[p]),
                                name |-> NameOf(p, disk[p]), rule |-> ParserOf[p] \notin Reread]
        BY <3>1 DEF OldRows
      <4> QED
        BY <3>1, <4>1, <4>2 DEF Row
    <3>2. ASSUME NEW p \in Path, disk[p] = Gone \/ Parsed(p, disk[p]) \notin Text
          PROVE  OldRows(same)[p] = NoRow
      BY <3>2 DEF OldRows
    <3>3. OldRows(same) = [p \in Path |-> OldRows(same)[p]]
      BY DEF OldRows
    <3> QED
      BY <2>2, <3>1, <3>2, <3>3 DEF RowMap
  <2> QED
    BY <2>1, <2>2 DEF Init
<1>2. RunOK(run) /\ run.job = NoJob /\ pc = "idle"
  BY NotStartedTyped DEF Init
<1>3. TypeOK
  <2>1. changes \in 0..MaxChanges /\ others \in 0..MaxOthers
    BY BoundAssumption DEF Init
  <2>2. /\ disk \in [Path -> Content \cup {Gone}] /\ recorded \subseteq Reread
        /\ pc \in PC /\ written \subseteq Path /\ clean \in BOOLEAN
    BY DEF Init, PC
  <2> QED
    BY <1>1, <1>2, <2>1, <2>2 DEF TypeOK, RowMap
<1>4. WhereInv
  BY <1>2 DEF WhereInv
<1> QED
  BY <1>3, <1>4 DEF TypeInv

LEMMA TypeInvNext == TypeInv /\ [Next]_vars => TypeInv'
<1> SUFFICES ASSUME TypeInv, [Next]_vars PROVE TypeInv'
  OBVIOUS
<1>1. CASE \E force \in BOOLEAN : Start(force)
  BY <1>1, StartTyped
<1>2. CASE Step \/ Stop
  BY <1>2, BeginningTyped, RenameTyped, LoopTyped, WriteTyped, SettleTyped, RetryTyped, EndingTyped DEF Step
<1>3. CASE Edit \/ Move \/ OtherWrites \/ OtherDrops \/ OtherMoves
  BY <1>3, ChangedTyped, OtherTyped
<1>4. CASE UNCHANGED vars
  BY <1>4 DEF TypeInv, TypeOK, WhereInv, vars, index, history, NextDoc, Retried, First, Parsed
<1> QED
  BY <1>1, <1>2, <1>3, <1>4 DEF Next

LEMMA TypeInvAlways == Spec => []TypeInv
  BY InitTyped, TypeInvNext, PTL DEF Spec

\* What a run knows of rows, files and the document at hand keeps its shape, through every way a
\* run can end: what is written was parsed to text, and a job, a retry or a settlement always has
\* its document.
THEOREM TypeCorrect == Spec => []TypeOK
<1>1. TypeInv => TypeOK
  BY DEF TypeInv
<1> QED
  BY <1>1, TypeInvAlways, PTL

(***************************************************************************)
(* Rows and what they were written from                                    *)
(***************************************************************************)

\* What a step may make of a row: nothing, none, a marked one, or one written by the rules of now.
Better(p) ==
    \/ row'[p] = row[p]
    \/ row'[p] = NoRow
    \/ HasRow(p) /\ row'[p].hash = Awaiting /\ row'[p].rule = row[p].rule
    \/ row'[p].rule /\ row'[p].text = Parsed(p, row'[p].hash)

LEMMA BetterRows ==
    ASSUME TypeInv, Sound, \A p \in Path : Better(p), recorded' = recorded,
           pc # "reset", run'.force = run.force, run'.stale = run.stale
    PROVE  /\ RowInv' /\ ForceInv'
           /\ \A p \in Path : Unsafe(p)' => Unsafe(p) /\ row'[p] = row[p]
<1>1. RowInv /\ ForceInv
  BY DEF Sound
<1>2. RowInv'
  <2> SUFFICES ASSUME NEW p \in Path, Kept(p)'
               PROVE  IF row'[p].rule THEN row'[p].text = Parsed(p, row'[p].hash)
                      ELSE ParserOf[p] \in Reread \ recorded
    BY DEF RowInv, Parsed
  <2>1. Better(p) /\ row'[p] # NoRow /\ row'[p].hash # Awaiting
    BY DEF Kept, HasRow
  <2>2. CASE row'[p] = row[p]
    BY <1>1, <2>1, <2>2 DEF RowInv, Kept, HasRow
  <2>3. CASE row'[p].rule /\ row'[p].text = Parsed(p, row'[p].hash)
    BY <2>3
  <2> QED
    BY <2>1, <2>2, <2>3 DEF Better
<1>3. ForceInv'
  <2> SUFFICES ASSUME run.force, NEW p \in Path, row'[p] # NoRow PROVE row'[p].rule
    BY <1>1 DEF ForceInv, HasRow
  <2>1. Better(p) /\ (HasRow(p) => row[p].rule)
    BY <1>1 DEF ForceInv
  <2> QED
    BY <2>1 DEF Better, HasRow
<1>4. ASSUME NEW p \in Path, Unsafe(p)' PROVE Unsafe(p) /\ row'[p] = row[p]
  <2>1. Better(p) /\ row'[p] # NoRow /\ row'[p].hash # Awaiting /\ ~row'[p].rule /\ ParserOf[p] \in run.stale
    BY <1>4 DEF Unsafe, Kept, HasRow
  <2>2. row'[p] = row[p]
    BY <2>1 DEF Better
  <2> QED
    BY <2>1, <2>2 DEF Unsafe, Kept, HasRow
<1> QED
  BY <1>2, <1>3, <1>4

LEMMA SameRowsBetter ==
    ASSUME row' = row
    PROVE  \A p \in Path : Better(p)
BY DEF Better

LEMMA MarkedBetter ==
    ASSUME TypeInv, NEW p \in Path, row' = Marked(p)
    PROVE  (\A q \in Path : Better(q)) /\ ~Unsafe(p)'
<1>1. row \in RowMap
  BY DEF TypeInv, TypeOK, RowMap
<1>2. CASE HasRow(p)
  <2>1. row' = [row EXCEPT ![p].hash = Awaiting] /\ row[p] \in Row
    BY <1>1, <1>2 DEF Marked, RowMap, HasRow
  <2>2. row'[p].hash = Awaiting /\ row'[p].rule = row[p].rule /\ \A q \in Path \ {p} : row'[q] = row[q]
    BY <1>1, <2>1 DEF RowMap, Row
  <2> QED
    BY <1>2, <2>2 DEF Better, Unsafe, Kept
<1>3. CASE ~HasRow(p)
  BY <1>3 DEF Better, Marked, Unsafe, Kept, HasRow
<1> QED
  BY <1>2, <1>3

LEMMA DroppedBetter ==
    ASSUME TypeInv, NEW p \in Path, row' = [row EXCEPT ![p] = NoRow]
    PROVE  (\A q \in Path : Better(q)) /\ ~Unsafe(p)'
<1>1. row'[p] = NoRow /\ \A q \in Path \ {p} : row'[q] = row[q]
  BY DEF TypeInv, TypeOK
<1> QED
  BY <1>1 DEF Better, Unsafe, Kept, HasRow

LEMMA WrittenBetter ==
    ASSUME TypeInv, NEW p \in Path, NEW content, row' = [row EXCEPT ![p] = RowOf(p, content)]
    PROVE  (\A q \in Path : Better(q)) /\ ~Unsafe(p)'
<1>1. row'[p] = RowOf(p, content) /\ \A q \in Path \ {p} : row'[q] = row[q]
  BY DEF TypeInv, TypeOK
<1>2. row'[p].rule /\ row'[p].text = Parsed(p, row'[p].hash)
  BY <1>1 DEF RowOf
<1> QED
  BY <1>1, <1>2 DEF Better, Unsafe, Kept

(***************************************************************************)
(* Each step keeps the rows sound                                          *)
(***************************************************************************)

\* The start of a run, and its end, know of no format that is being settled.
LEMMA NothingKnown ==
    ASSUME run'.stale = {}, pc' \notin {"write", "settle", "againSettle"}
    PROVE  JobInv' /\ ProgressInv' /\ ResultInv'
BY DEF JobInv, ProgressInv, ResultInv, Unsafe

LEMMA StartSound ==
    ASSUME TypeInv, Sound, (\E force \in BOOLEAN : Start(force)) \/ Reset
    PROVE  Sound'
<1>1. CASE \E force \in BOOLEAN : Start(force)
  <2>1. PICK force \in BOOLEAN : Start(force)
    BY <1>1
  <2>2. /\ run' = [NotStarted EXCEPT !.force = force] /\ pc' = IF force THEN "reset" ELSE "snapshot"
        /\ UNCHANGED index
    BY <2>1 DEF Start
  <2>3. run'.stale = {} /\ run'.force = force
    BY <2>2 DEF NotStarted
  <2>4. JobInv' /\ ProgressInv' /\ ResultInv'
    BY <2>2, <2>3, NothingKnown
  <2>5. RowInv'
    BY <2>2 DEF Sound, RowInv, Kept, HasRow, Parsed, index
  <2>6. ForceInv'
    BY <2>2, <2>3 DEF ForceInv
  <2> QED
    BY <2>4, <2>5, <2>6 DEF Sound
<1>2. CASE Reset
  <2>1. \A p \in Path : ~HasRow(p)'
    BY <1>2 DEF Reset, HasRow
  <2>2. RowInv' /\ ProgressInv' /\ ResultInv' /\ JobInv'
    BY <1>2, <2>1 DEF RowInv, ProgressInv, ResultInv, JobInv, Unsafe, Kept, Reset
  <2>3. ForceInv'
    BY <1>2, <2>1 DEF ForceInv, Reset, Sound
  <2> QED
    BY <2>2, <2>3 DEF Sound
<1> QED
  BY <1>1, <1>2

LEMMA SnapshotSound ==
    ASSUME TypeInv, Sound, Snapshot
    PROVE  Sound'
<1>1. TypeOK /\ RunOK(run) /\ row \in RowMap
  BY DEF TypeInv, TypeOK, RowMap
<1>2. /\ AllBut({"stale", "snap", "todo"})
      /\ run'.stale = IF run.force THEN {} ELSE Reread \ recorded
      /\ run'.snap = [p \in {q \in Path : HasRow(q)} |-> row[p].hash]
      /\ pc' = "walk" /\ recorded' = recorded
  BY <1>1, FieldsOfRun DEF Snapshot, RunOK, AllBut, Fields
<1>3. ASSUME NEW p \in Path
      PROVE  /\ HasRow(p)' <=> HasRow(p)
             /\ HasRow(p) => /\ row'[p].hash = row[p].hash /\ row'[p].text = row[p].text
                             /\ row'[p].rule = row[p].rule
  <2>1. row'[p] = IF HasRow(p) THEN [row[p] EXCEPT !.id = p] ELSE NoRow
    BY DEF Snapshot
  <2>2. CASE HasRow(p)
    <3>1. row[p] \in Row /\ row'[p] = [row[p] EXCEPT !.id = p]
      BY <1>1, <2>1, <2>2 DEF RowMap, HasRow
    <3>2. row'[p] \in Row
      BY <3>1 DEF Row
    <3> QED
      BY <2>2, <3>1, <3>2, RowAssumption DEF HasRow, Row
  <2> QED
    BY <2>1, <2>2 DEF HasRow
<1>4. RowInv'
  BY <1>2, <1>3 DEF Sound, RowInv, Kept, Parsed
<1>5. ForceInv'
  BY <1>2, <1>3 DEF Sound, ForceInv, Snapshot, AllBut, Fields
<1>6. ProgressInv'
  BY <1>2 DEF ProgressInv, Unsafe, Kept, HasRow, Looping, Snapshot
<1>7. JobInv' /\ ResultInv'
  BY <1>2 DEF JobInv, ResultInv
<1> QED
  BY <1>4, <1>5, <1>6, <1>7 DEF Sound

\* Walk and scan change no row; the document at hand does not come before the loop.
LEMMA ScanSound ==
    ASSUME TypeInv, Sound, Walk \/ ScanFile
    PROVE  Sound'
<1>1. TypeOK /\ RunOK(run)
  BY DEF TypeInv, TypeOK
<1>2. /\ pc \in {"walk", "scan"} /\ pc' \in {"walk", "scan", "rename"}
      /\ row' = row /\ recorded' = recorded
  BY DEF Walk, ScanFile, index
<1>3. run'.force = run.force /\ run'.stale = run.stale /\ run'.snap = run.snap
  <2>1. CASE Walk
    BY <1>1, <2>1, FieldsOfRun DEF Walk, RunOK, Fields
  <2>2. CASE ScanFile
    BY <1>1, <2>2, FieldsOfRun DEF ScanFile, RunOK, Fields
  <2> QED
    BY <2>1, <2>2
<1>4. RowInv' /\ ForceInv' /\ \A p \in Path : Unsafe(p)' => Unsafe(p)
  BY <1>2, <1>3, SameRowsBetter, BetterRows
<1>5. ProgressInv'
  BY <1>2, <1>3, <1>4 DEF Sound, ProgressInv, Looping
<1>6. JobInv' /\ ResultInv'
  BY <1>2 DEF JobInv, ResultInv
<1> QED
  BY <1>4, <1>5, <1>6 DEF Sound

\* A row moves with what it was written from within a parser, and is marked when it crosses.
LEMMA RenameSound ==
    ASSUME TypeInv, Sound, Rename
    PROVE  Sound'
<1>1. TypeOK /\ RunOK(run) /\ row \in RowMap
  BY DEF TypeInv, TypeOK, RowMap
<1> DEFINE pairs == IF run.force THEN {} ELSE {pair \in Renames : Applicable(pair)}
           olds == {pair[1] : pair \in pairs}
           news == {pair[2] : pair \in pairs}
           from == [new \in news |-> CHOOSE old \in olds : <<old, new>> \in pairs]
           crossed == {new \in news : Crosses(from[new], new)}
<1>2. \A pair \in pairs : /\ pair[1] \in Path /\ pair[2] \in Scanned /\ HasRow(pair[1])
                         /\ pair = <<pair[1], pair[2]>>
  BY <1>1 DEF Renames, Orphans, Arrivals, Scanned, Applicable, AsSeen, RunOK
<1> HIDE DEF pairs
<1>3. \A new \in news : new \in Scanned /\ from[new] \in Path /\ HasRow(from[new])
  <2> SUFFICES ASSUME NEW new \in news PROVE new \in Scanned /\ from[new] \in Path /\ HasRow(from[new])
    OBVIOUS
  <2>1. PICK pair \in pairs : pair[2] = new
    OBVIOUS
  <2>2. pair[1] \in olds /\ <<pair[1], new>> \in pairs
    BY <1>2, <2>1
  <2>3. <<from[new], new>> \in pairs
    BY <2>2
  <2> QED
    BY <1>2, <2>1, <2>3
<1>4. /\ row' = [p \in Path |-> IF p \in news THEN Moved(from[p], p)
                                ELSE IF p \in olds THEN NoRow ELSE row[p]]
      /\ run' = [run EXCEPT !.moved = olds, !.crossed = crossed,
                           !.renamed = IF Static THEN news ELSE crossed]
      /\ pc = "rename" /\ pc' = "choose" /\ recorded' = recorded
  BY DEF Rename, pairs
<1> HIDE DEF olds, news, from, crossed
<1>5. AllBut({"moved", "crossed", "renamed"})
  BY <1>1, <1>4, FieldsOfRun DEF RunOK, AllBut, Fields
<1>6. run'.force = run.force /\ run'.stale = run.stale /\ run'.snap = run.snap /\ run'.entry = run.entry
  BY <1>5 DEF AllBut, Fields
<1>7. ASSUME NEW p \in Path, p \in news
      PROVE  /\ row'[p].rule = row[from[p]].rule
             /\ Kept(p)' => /\ Kept(from[p]) /\ ParserOf[p] = ParserOf[from[p]]
                            /\ row'[p].text = row[from[p]].text /\ row'[p].hash = row[from[p]].hash
  <2>1. row[from[p]] \in Row /\ row'[p] = Moved(from[p], p)
    BY <1>1, <1>3, <1>4, <1>7 DEF RowMap, HasRow
  <2>2. CASE Crosses(from[p], p)
    <3>1. row'[p] = [row[from[p]] EXCEPT !.hash = Awaiting]
      BY <2>1, <2>2 DEF Moved
    <3> QED
      BY <2>1, <3>1 DEF Row, Kept
  <2>3. CASE ~Crosses(from[p], p)
    <3>1. row'[p] = row[from[p]]
      BY <2>1, <2>3 DEF Moved
    <3> QED
      BY <2>3, <3>1 DEF Crosses, Kept, HasRow
  <2> QED
    BY <2>2, <2>3
<1>8. ASSUME NEW p \in Path, p \notin news, HasRow(p)'
      PROVE  row'[p] = row[p]
  BY <1>4, <1>8 DEF HasRow
<1>9. RowInv'
  <2> SUFFICES ASSUME NEW p \in Path, Kept(p)'
               PROVE  IF row'[p].rule THEN row'[p].text = Parsed(p, row'[p].hash)
                      ELSE ParserOf[p] \in Reread \ recorded
    BY <1>4 DEF RowInv, Parsed
  <2>1. CASE p \in news
    <3>1. from[p] \in Path /\ Kept(from[p]) /\ row'[p].rule = row[from[p]].rule
          /\ row'[p].text = row[from[p]].text /\ row'[p].hash = row[from[p]].hash
          /\ ParserOf[p] = ParserOf[from[p]]
      BY <1>3, <1>7, <2>1
    <3>2. Parsed(p, row'[p].hash) = Parsed(from[p], row[from[p]].hash)
      BY <3>1 DEF Parsed
    <3>3. IF row[from[p]].rule THEN row[from[p]].text = Parsed(from[p], row[from[p]].hash)
          ELSE ParserOf[from[p]] \in Reread \ recorded
      BY <3>1 DEF Sound, RowInv
    <3> QED
      BY <3>1, <3>2, <3>3
  <2>2. CASE p \notin news
    BY <1>8, <2>2 DEF Sound, RowInv, Kept, HasRow
  <2> QED
    BY <2>1, <2>2
<1>10. ForceInv'
  <2> SUFFICES ASSUME run.force, NEW p \in Path, HasRow(p)' PROVE row'[p].rule
    BY <1>6 DEF Sound, ForceInv
  <2>1. \A q \in Path : HasRow(q) => row[q].rule
    BY <1>4 DEF Sound, ForceInv
  <2>2. CASE p \in news
    BY <1>3, <1>7, <2>1, <2>2
  <2>3. CASE p \notin news
    BY <1>8, <2>1, <2>3 DEF HasRow
  <2> QED
    BY <2>2, <2>3
<1>11. ProgressInv'
  <2> SUFFICES ASSUME NEW p \in Path, Unsafe(p)' PROVE p \in DOMAIN run.snap \cup Scanned
    BY <1>4, <1>6 DEF ProgressInv, Looping, Scanned
  <2>1. CASE p \in news
    BY <1>3, <2>1
  <2>2. CASE p \notin news
    <3>1. row'[p] = row[p]
      BY <1>8, <2>2 DEF Unsafe, Kept
    <3>2. Unsafe(p)
      BY <1>6, <3>1 DEF Unsafe, Kept, HasRow
    <3> QED
      BY <1>4, <3>2 DEF Sound, ProgressInv
  <2> QED
    BY <2>1, <2>2
<1>12. JobInv' /\ ResultInv'
  BY <1>4 DEF JobInv, ResultInv
<1> QED
  BY <1>9, <1>10, <1>11, <1>12 DEF Sound

LEMMA ChooseSound ==
    ASSUME TypeInv, Sound, ChooseRereads
    PROVE  Sound'
<1>1. /\ AllBut({"reread", "todo"}) /\ run'.todo = Scanned
      /\ pc = "choose" /\ pc' = "loop" /\ row' = row /\ recorded' = recorded
  BY FieldsOfRun DEF TypeInv, TypeOK, ChooseRereads, RunOK, AllBut, Fields, index
<1>2. run'.force = run.force /\ run'.stale = run.stale /\ run'.snap = run.snap /\ run'.entry = run.entry
  BY <1>1 DEF AllBut, Fields
<1>3. RowInv' /\ ForceInv' /\ \A p \in Path : Unsafe(p)' => Unsafe(p)
  BY <1>1, <1>2, SameRowsBetter, BetterRows
<1>4. ProgressInv'
  BY <1>1, <1>2, <1>3 DEF Sound, ProgressInv, Looping, Scanned
<1>5. JobInv' /\ ResultInv'
  BY <1>1 DEF JobInv, ResultInv
<1> QED
  BY <1>3, <1>4, <1>5 DEF Sound

\* A row of the older rules that a fast path trusts.
Older(entry) == entry # NoRow /\ entry.hash # Awaiting /\ ~entry.rule

\* What the outcome of a document has to show: rows that are no worse, and of one that
\* counts as settled that it is.
LEMMA DoneSound ==
    ASSUME TypeInv, Sound, pc \in {"loop", "write"}, run.todo # {}, NEW result \in Results, NEW rows,
           Done(NextDoc, result, rows), recorded' = recorded, \A p \in Path : Better(p),
           Settled(NextDoc, result) => ~Older(rows[NextDoc])
    PROVE  Sound'
<1>1. TypeOK /\ RunOK(run) /\ NextDoc \in Path
  BY NextDocIn DEF TypeInv, TypeOK
<1>2. row' = rows
  BY DEF Done
<1>3. /\ AllBut({"todo", "job", "result", "unsettled"}) /\ run'.todo = run.todo \ {NextDoc}
      /\ run'.unsettled = IF ~Settled(NextDoc, result) /\ StaleRow(rows, NextDoc)
                          THEN run.unsettled \cup {NextDoc} ELSE run.unsettled
      /\ pc' = "loop"
  BY <1>1, FieldsOfRun DEF Done, RunOK, AllBut, Fields
<1>4. /\ run'.force = run.force /\ run'.stale = run.stale /\ run'.snap = run.snap
      /\ run'.entry = run.entry
  BY <1>3 DEF AllBut, Fields
<1>5. RowInv' /\ ForceInv' /\ \A p \in Path : Unsafe(p)' => Unsafe(p)
  BY <1>4, BetterRows
<1>6. ASSUME NEW p \in Path, p = NextDoc, Unsafe(p)'
      PROVE  p \in run'.unsettled
  <2>1. row'[p] # NoRow /\ row'[p].hash # Awaiting /\ ~row'[p].rule /\ ParserOf[p] \in run.stale
    BY <1>4, <1>6 DEF Unsafe, Kept, HasRow
  <2>2. ~Settled(NextDoc, result) /\ StaleRow(rows, NextDoc)
    BY <1>2, <1>6, <2>1 DEF StaleRow, Older
  <2> QED
    BY <1>3, <1>6, <2>2
<1>7. ProgressInv'
  <2> SUFFICES ASSUME NEW p \in Path, Unsafe(p)'
               PROVE  /\ p \in DOMAIN run.snap \cup Scanned
                      /\ p \in Scanned => p \in run'.todo \cup run'.unsettled
    BY <1>3, <1>4 DEF ProgressInv, Looping, Scanned
  <2>1. p \in DOMAIN run.snap \cup Scanned /\ (p \in Scanned => p \in run.todo \cup run.unsettled)
    BY <1>5 DEF Sound, ProgressInv, Looping
  <2> QED
    BY <1>3, <1>6, <2>1
<1>8. JobInv' /\ ResultInv'
  BY <1>3 DEF JobInv, ResultInv
<1> QED
  BY <1>5, <1>7, <1>8 DEF Sound

LEMMA OutcomeSound ==
    ASSUME TypeInv, Sound, pc \in {"loop", "write"}, run.todo # {}, NEW result \in Results, NEW rows,
           Outcome(NextDoc, result, rows), recorded' = recorded, \A p \in Path : Better(p),
           Settled(NextDoc, result) => ~Older(rows[NextDoc])
    PROVE  Sound'
<1>1. TypeOK /\ RunOK(run) /\ NextDoc \in Path
  BY NextDocIn DEF TypeInv, TypeOK
<1>2. CASE NextDoc \in run.crossed
  <2>1. AllBut({"job", "result"}) /\ run'.result = result /\ pc' = "settle" /\ row' = rows
    BY <1>1, <1>2, FieldsOfRun DEF Outcome, RunOK, AllBut, Fields
  <2>2. /\ run'.force = run.force /\ run'.stale = run.stale /\ run'.snap = run.snap /\ run'.entry = run.entry
        /\ run'.todo = run.todo /\ run'.unsettled = run.unsettled /\ run'.renamed = run.renamed
    BY <2>1 DEF AllBut, Fields
  <2>3. RowInv' /\ ForceInv' /\ \A p \in Path : Unsafe(p)' => Unsafe(p)
    BY <2>2, BetterRows
  <2>4. ProgressInv'
    BY <2>1, <2>2, <2>3 DEF Sound, ProgressInv, Looping, Scanned
  <2>5. NextDoc' = NextDoc
    BY <2>2 DEF NextDoc
  <2>6. ResultInv'
    BY <2>1, <2>5 DEF ResultInv, Unsafe, Kept, HasRow, Settled, Older
  <2>7. JobInv'
    BY <2>1 DEF JobInv
  <2> QED
    BY <2>3, <2>4, <2>6, <2>7 DEF Sound
<1>3. CASE NextDoc \notin run.crossed
  BY <1>3, DoneSound DEF Outcome
<1> QED
  BY <1>2, <1>3

LEMMA LoopSound ==
    ASSUME TypeInv, Sound, KeepUnchanged \/ CannotRead \/ ReadFile
    PROVE  Sound'
<1>1. TypeOK /\ run.todo # {} /\ pc = "loop" /\ NextDoc \in Path
  BY NextDocIn DEF TypeInv, TypeOK, KeepUnchanged, CannotRead, ReadFile, Looking
<1>2. recorded' = recorded
  BY DEF KeepUnchanged, CannotRead, ReadFile
<1>3. ASSUME NEW result \in Results, Outcome(NextDoc, result, row),
             Settled(NextDoc, result) => ~Older(row[NextDoc])
      PROVE  Sound'
  <2>1. row' = row
    BY <1>3 DEF Outcome, Done
  <2> QED
    BY <1>1, <1>2, <1>3, <2>1, SameRowsBetter, OutcomeSound
<1>4. CASE KeepUnchanged
  <2>1. ~Settled(NextDoc, "unchanged")
    BY <1>4 DEF KeepUnchanged, FastPath, Settled
  <2>2. row' = row /\ Done(NextDoc, "unchanged", row)
    BY <1>4 DEF KeepUnchanged, Done
  <2> QED
    BY <1>1, <1>2, <2>1, <2>2, DoneSound, SameRowsBetter DEF Results
<1>5. CASE CannotRead
  <2>1. ~Settled(NextDoc, "failed")
    BY DEF Settled
  <2> QED
    BY <1>3, <1>5, <2>1 DEF CannotRead, Results
<1>6. CASE ReadFile
  <2>1. ASSUME Outcome(NextDoc, "changed", row) \/ Outcome(NextDoc, "failed", row)
        PROVE  Sound'
    BY <1>3, <2>1 DEF Settled, Results
  <2>2. ASSUME Outcome(NextDoc, "noText", IF NextDoc \in run.reread THEN [row EXCEPT ![NextDoc] = NoRow] ELSE row)
        PROVE  Sound'
    <3>1. CASE NextDoc \in run.reread
      <4>1. row' = [row EXCEPT ![NextDoc] = NoRow] /\ Outcome(NextDoc, "noText", row')
        BY <2>2, <3>1 DEF Outcome, Done
      <4>2. \A p \in Path : Better(p)
        BY <1>1, <4>1, DroppedBetter
      <4>3. ~Older([row EXCEPT ![NextDoc] = NoRow][NextDoc])
        BY <1>1 DEF Older, TypeOK
      <4> QED
        BY <1>1, <1>2, <2>2, <3>1, <4>2, <4>3, OutcomeSound DEF Results
    <3>2. CASE NextDoc \notin run.reread
      BY <1>3, <2>2, <3>2 DEF Settled, Results
    <3> QED
      BY <3>1, <3>2
  <2>3. ASSUME RowsCurrent(NextDoc, disk[NextDoc]), Outcome(NextDoc, "unchanged", row)
        PROVE  Sound'
    BY <1>3, <2>3 DEF RowsCurrent, Older, Results
  <2>4. ASSUME ~ChangedUnder(NextDoc), disk[NextDoc] # Gone, Parsed(NextDoc, disk[NextDoc]) \in Text,
               run' = [run EXCEPT !.job = JobFor(NextDoc, disk[NextDoc])], pc' = "write", UNCHANGED row
        PROVE  Sound'
    <3>1. /\ AllBut({"job"}) /\ NextDoc' = NextDoc
          /\ run'.job.kind = WriteFor(NextDoc, disk[NextDoc])
          /\ run'.job.content = disk[NextDoc] /\ run'.job.hash = HashAt(NextDoc)
      BY <1>1, <1>6, <2>4, JobTyped DEF ReadFile
    <3>2. /\ run'.force = run.force /\ run'.stale = run.stale /\ run'.snap = run.snap
          /\ run'.entry = run.entry /\ run'.todo = run.todo /\ run'.unsettled = run.unsettled
          /\ run'.reread = run.reread
      BY <3>1 DEF AllBut, Fields
    <3>3. RowInv' /\ ForceInv' /\ \A p \in Path : Unsafe(p)' => Unsafe(p)
      BY <1>1, <1>2, <2>4, <3>2, SameRowsBetter, BetterRows
    <3>4. ProgressInv'
      BY <1>1, <2>4, <3>2, <3>3 DEF Sound, ProgressInv, Looping, Scanned
    <3>5. ASSUME run'.job.kind = "meta"
          PROVE  HashAt(NextDoc)' = run'.job.hash /\ ChunksMatch(NextDoc, run.job.content)'
      <4>1. ChunksMatch(NextDoc, disk[NextDoc])
        BY <3>1, <3>5 DEF WriteFor
      <4> QED
        BY <2>4, <3>1, <4>1 DEF HashAt, ChunksMatch, HasRow, Parsed, NameOf
    <3>6. ASSUME run'.job.kind = "rows"
          PROVE  NextDoc \in run.reread /\ disk[NextDoc] = run.entry[NextDoc]
      <4>1. NextDoc \in run.reread
        BY <3>1, <3>6 DEF WriteFor
      <4> QED
        BY <2>4, <4>1 DEF ChangedUnder
    <3>7. JobInv'
      BY <3>1, <3>2, <3>5, <3>6 DEF JobInv
    <3>8. ResultInv'
      BY <2>4 DEF ResultInv
    <3> QED
      BY <3>3, <3>4, <3>7, <3>8 DEF Sound
  <2> QED
    BY <1>6, <2>1, <2>2, <2>3, <2>4 DEF ReadFile
<1> QED
  BY <1>4, <1>5, <1>6

LEMMA WriteSound ==
    ASSUME TypeInv, Sound, WriteMeta \/ WriteRows \/ WriteWhole \/ EmbedRejected
    PROVE  Sound'
<1>1. TypeOK /\ RunOK(run) /\ run.todo # {} /\ pc = "write" /\ NextDoc \in Path /\ recorded' = recorded
      /\ row \in RowMap
  BY NextDocIn DEF TypeInv, TypeOK, RowMap, WhereInv, WriteMeta, WriteRows, WriteWhole, EmbedRejected
<1>2. ASSUME NEW result \in Results, NEW entry, entry.rule, entry.text = Parsed(NextDoc, entry.hash),
             Outcome(NextDoc, result, [row EXCEPT ![NextDoc] = entry])
      PROVE  Sound'
  <2> DEFINE rows == [row EXCEPT ![NextDoc] = entry]
  <2>1. rows[NextDoc] = entry /\ \A p \in Path \ {NextDoc} : rows[p] = row[p]
    BY <1>1 DEF RowMap
  <2>2. row' = rows /\ Outcome(NextDoc, result, rows)
    BY <1>2 DEF Outcome, Done
  <2> HIDE DEF rows
  <2>3. \A p \in Path : Better(p)
    BY <1>2, <2>1, <2>2 DEF Better
  <2>4. ~Older(rows[NextDoc])
    BY <1>2, <2>1 DEF Older
  <2> QED
    BY <1>1, <2>2, <2>3, <2>4, OutcomeSound
<1>3. ASSUME NEW result \in {"changed", "failed"}, Outcome(NextDoc, result, row)
      PROVE  Sound'
  <2>1. ~Settled(NextDoc, result) /\ result \in Results
    BY DEF Settled, Results
  <2>2. row' = row
    BY <1>3 DEF Outcome, Done
  <2> QED
    BY <1>1, <1>3, <2>1, <2>2, SameRowsBetter, OutcomeSound
<1>4. CASE WriteMeta
  <2>1. CASE HasRow(NextDoc)
    <3>1. HashAt(NextDoc) = run.job.hash /\ ChunksMatch(NextDoc, run.job.content)
      BY <1>1, <1>4 DEF Sound, JobInv, WriteMeta
    <3>2. MetaRow(NextDoc) = [row[NextDoc] EXCEPT !.hash = run.job.content, !.rule = TRUE]
      BY <3>1 DEF MetaRow, AsCompared
    <3>3. row[NextDoc] \in Row
      BY <1>1, <2>1 DEF RowMap, HasRow
    <3>4. /\ MetaRow(NextDoc).rule /\ MetaRow(NextDoc).text = row[NextDoc].text
          /\ MetaRow(NextDoc).hash = run.job.content
      BY <3>2, <3>3 DEF Row
    <3>5. MetaRow(NextDoc).text = Parsed(NextDoc, MetaRow(NextDoc).hash)
      BY <3>1, <3>4 DEF ChunksMatch
    <3>6. Outcome(NextDoc, "updated", [row EXCEPT ![NextDoc] = MetaRow(NextDoc)])
      BY <1>4, <2>1 DEF WriteMeta
    <3> QED
      BY <1>2, <3>4, <3>5, <3>6 DEF Results
  <2>2. CASE ~HasRow(NextDoc)
    <3>1. run' = [run EXCEPT !.job.kind = "whole"] /\ UNCHANGED <<row, pc>>
      BY <1>4, <2>2 DEF WriteMeta
    <3>2. AllBut({"job"}) /\ run'.job = [run.job EXCEPT !.kind = "whole"]
      BY <1>1, <3>1, FieldsOfRun DEF RunOK, AllBut, Fields
    <3>3. DOMAIN run.job = {"kind", "content", "hash"}
      BY DEF TypeInv, WhereInv, NoJob
    <3>4. run'.job.kind = "whole"
      BY <3>2, <3>3
    <3>5. /\ run'.force = run.force /\ run'.stale = run.stale /\ run'.snap = run.snap
          /\ run'.entry = run.entry /\ run'.todo = run.todo /\ run'.unsettled = run.unsettled
      BY <3>2 DEF AllBut, Fields
    <3>6. RowInv' /\ ForceInv' /\ \A p \in Path : Unsafe(p)' => Unsafe(p)
      BY <1>1, <3>1, <3>5, SameRowsBetter, BetterRows
    <3>7. ProgressInv'
      BY <1>1, <3>1, <3>5, <3>6 DEF Sound, ProgressInv, Looping, Scanned
    <3>8. JobInv' /\ ResultInv'
      BY <1>1, <3>1, <3>4 DEF JobInv, ResultInv
    <3> QED
      BY <3>6, <3>7, <3>8 DEF Sound
  <2> QED
    BY <2>1, <2>2
<1>5. CASE WriteRows
  <2>1. CASE run.job.hash = run.entry[NextDoc] /\ AsCompared(NextDoc)
    <3>1. HashAt(NextDoc) = run.job.hash /\ ChunksMatch(NextDoc, run.job.content)
          /\ run.job.content = run.entry[NextDoc]
      BY <1>1, <1>5, <2>1 DEF Sound, JobInv, WriteRows, AsCompared
    <3>2. row[NextDoc] \in Row /\ row[NextDoc].hash = run.job.content
      BY <1>1, <2>1, <3>1 DEF RowMap, ChunksMatch, HasRow, HashAt
    <3> DEFINE entry == [row[NextDoc] EXCEPT !.rule = TRUE]
    <3>3. entry.rule /\ entry.text = row[NextDoc].text /\ entry.hash = run.job.content
      BY <3>2 DEF Row
    <3>4. entry.text = Parsed(NextDoc, entry.hash)
      BY <3>1, <3>3 DEF ChunksMatch
    <3>5. Outcome(NextDoc, "unchanged", [row EXCEPT ![NextDoc] = entry])
      BY <1>5, <2>1 DEF WriteRows
    <3> HIDE DEF entry
    <3> QED
      BY <1>2, <3>3, <3>4, <3>5 DEF Results
  <2>2. CASE ~(run.job.hash = run.entry[NextDoc] /\ AsCompared(NextDoc))
    BY <1>3, <1>5, <2>2 DEF WriteRows
  <2> QED
    BY <2>1, <2>2
<1>6. CASE WriteWhole
  <2> DEFINE entry == RowOf(NextDoc, run.job.content)
  <2>1. entry.rule /\ entry.text = Parsed(NextDoc, entry.hash)
    BY DEF RowOf
  <2>2. Outcome(NextDoc, "updated", [row EXCEPT ![NextDoc] = entry])
    BY <1>6 DEF WriteWhole
  <2> HIDE DEF entry
  <2> QED
    BY <1>2, <2>1, <2>2 DEF Results
<1>7. CASE EmbedRejected
  BY <1>3, <1>7 DEF EmbedRejected
<1> QED
  BY <1>4, <1>5, <1>6, <1>7

LEMMA SettleSound ==
    ASSUME TypeInv, Sound, Settle
    PROVE  Sound'
<1>1. TypeOK /\ RunOK(run) /\ run.todo # {} /\ pc = "settle" /\ pc' = "loop" /\ NextDoc \in Path
      /\ recorded' = recorded
  BY NextDocIn DEF TypeInv, TypeOK, Settle, WhereInv
<1>2. /\ AllBut({"todo", "result", "again", "unsettled"}) /\ run'.todo = run.todo \ {NextDoc}
      /\ run'.unsettled = IF run.result # "updated" /\ StaleRow(row', NextDoc)
                          THEN run.unsettled \cup {NextDoc} ELSE run.unsettled
  BY <1>1, FieldsOfRun DEF Settle, RunOK, AllBut, Fields
<1>3. /\ run'.force = run.force /\ run'.stale = run.stale /\ run'.snap = run.snap
      /\ run'.entry = run.entry
  BY <1>2 DEF AllBut, Fields
<1>4. \A p \in Path : Better(p)
  <2>1. \/ row' = row \/ row' = Marked(NextDoc)
        \/ row' = [row EXCEPT ![NextDoc] = NoRow]
    BY DEF Settle
  <2> QED
    BY <1>1, <2>1, SameRowsBetter, MarkedBetter, DroppedBetter
<1>5. RowInv' /\ ForceInv' /\ \A p \in Path : Unsafe(p)' => Unsafe(p)
  BY <1>1, <1>3, <1>4, BetterRows
<1>6. ASSUME NEW p \in Path, p = NextDoc, Unsafe(p)'
      PROVE  p \in run'.unsettled
  <2>1. run.result # "updated"
    BY <1>1, <1>5, <1>6 DEF Sound, ResultInv
  <2>2. StaleRow(row', NextDoc)
    BY <1>3, <1>6 DEF StaleRow, Unsafe, Kept, HasRow
  <2> QED
    BY <1>2, <1>6, <2>1, <2>2
<1>7. ProgressInv'
  <2> SUFFICES ASSUME NEW p \in Path, Unsafe(p)'
               PROVE  /\ p \in DOMAIN run.snap \cup Scanned
                      /\ p \in Scanned => p \in run'.todo \cup run'.unsettled
    BY <1>1, <1>3 DEF ProgressInv, Looping, Scanned
  <2>1. p \in DOMAIN run.snap \cup Scanned /\ (p \in Scanned => p \in run.todo \cup run.unsettled)
    BY <1>1, <1>5 DEF Sound, ProgressInv, Looping
  <2> QED
    BY <1>2, <1>6, <2>1
<1>8. JobInv' /\ ResultInv'
  BY <1>1 DEF JobInv, ResultInv
<1> QED
  BY <1>5, <1>7, <1>8 DEF Sound

LEMMA RetrySound ==
    ASSUME TypeInv, Sound, RetryUnread \/ Retry \/ RetryWrite \/ RetrySettle
    PROVE  Sound'
<1>1. TypeOK /\ RunOK(run) /\ run.again # {} /\ recorded' = recorded
  BY DEF TypeInv, TypeOK, WhereInv, Retrying, RetryUnread, Retry, RetryWrite, RetrySettle, index
<1>2. Retried \in Path /\ pc \in Looping
  BY <1>1, RetriedIn DEF Looping, Retrying, RetryUnread, Retry, RetryWrite, RetrySettle
<1>3. ASSUME AllBut({"job", "result"}), pc' = "againSettle", \A p \in Path : Better(p),
             run'.result = "updated" => \A p : p = Retried => ~Unsafe(p)'
      PROVE  Sound'
  <2>1. /\ run'.force = run.force /\ run'.stale = run.stale /\ run'.snap = run.snap /\ run'.entry = run.entry
        /\ run'.todo = run.todo /\ run'.unsettled = run.unsettled /\ run'.again = run.again
    BY <1>3 DEF AllBut, Fields
  <2>2. RowInv' /\ ForceInv' /\ \A p \in Path : Unsafe(p)' => Unsafe(p)
    BY <1>1, <1>2, <1>3, <2>1, BetterRows DEF Looping
  <2>3. ProgressInv'
    BY <1>2, <1>3, <2>1, <2>2 DEF Sound, ProgressInv, Looping, Scanned
  <2>4. JobInv'
    BY <1>3 DEF JobInv
  <2>5. Retried' = Retried
    BY <2>1 DEF Retried
  <2>6. ResultInv'
    BY <1>3, <2>5 DEF ResultInv
  <2> QED
    BY <2>2, <2>3, <2>4, <2>6 DEF Sound
<1>4. CASE RetryUnread
  <2>1. PICK result \in {"failed", "changed"} : run' = [run EXCEPT !.result = result]
    BY <1>4 DEF RetryUnread
  <2>2. AllBut({"job", "result"}) /\ run'.result # "updated"
    BY <1>1, <2>1, FieldsOfRun DEF RunOK, AllBut, Fields
  <2>3. row' = row /\ pc' = "againSettle"
    BY <1>4 DEF RetryUnread, index
  <2> QED
    BY <1>3, <2>2, <2>3, SameRowsBetter
<1>5. CASE Retry
  <2>1. CASE pc' = "again" /\ row' = row
             /\ run' = [run EXCEPT !.job = [kind |-> "whole", content |-> disk[Retried], hash |-> HashAt(Retried)]]
    <3>1. AllBut({"job"})
      BY <1>1, <2>1, FieldsOfRun DEF RunOK, AllBut, Fields
    <3>2. /\ run'.force = run.force /\ run'.stale = run.stale /\ run'.snap = run.snap
          /\ run'.entry = run.entry /\ run'.todo = run.todo /\ run'.unsettled = run.unsettled
      BY <3>1 DEF AllBut, Fields
    <3>3. RowInv' /\ ForceInv' /\ \A p \in Path : Unsafe(p)' => Unsafe(p)
      BY <1>1, <1>2, <2>1, <3>2, SameRowsBetter, BetterRows DEF Looping
    <3>4. ProgressInv'
      BY <1>2, <2>1, <3>2, <3>3 DEF Sound, ProgressInv, Looping, Scanned
    <3>5. JobInv' /\ ResultInv'
      BY <2>1 DEF JobInv, ResultInv
    <3> QED
      BY <3>3, <3>4, <3>5 DEF Sound
  <2>2. CASE pc' = "againSettle"
    <3>1. /\ \/ row' = row \/ row' = [row EXCEPT ![Retried] = NoRow]
          /\ run' = [run EXCEPT !.result = "failed"] \/ run' = [run EXCEPT !.result = "noText"]
      BY <1>5, <2>2 DEF Retry
    <3>2. \A p \in Path : Better(p)
      BY <1>2, <3>1, SameRowsBetter, DroppedBetter
    <3>3. AllBut({"job", "result"}) /\ run'.result # "updated"
      BY <1>1, <3>1, FieldsOfRun DEF RunOK, AllBut, Fields
    <3> QED
      BY <1>3, <2>2, <3>2, <3>3
  <2> QED
    BY <1>5, <2>1, <2>2 DEF Retry
<1>6. CASE RetryWrite
  <2>1. pc' = "againSettle"
    BY <1>6 DEF RetryWrite
  <2>2. CASE /\ row' = [row EXCEPT ![Retried] = RowOf(Retried, run.job.content)]
             /\ run' = [run EXCEPT !.job = NoJob, !.result = "updated"]
    <3>1. AllBut({"job", "result"})
      BY <1>1, <2>2, FieldsOfRun DEF RunOK, AllBut, Fields
    <3>2. (\A p \in Path : Better(p)) /\ \A p : p = Retried => ~Unsafe(p)'
      <4>1. ASSUME NEW p \in Path, p = Retried
            PROVE  (\A q \in Path : Better(q)) /\ ~Unsafe(p)'
        BY <2>2, <4>1, WrittenBetter
      <4> QED
        BY <1>2, <4>1
    <3> QED
      BY <1>3, <2>1, <3>1, <3>2
  <2>3. CASE row' = row /\ run' = [run EXCEPT !.job = NoJob, !.result = "failed"]
    <3>1. AllBut({"job", "result"}) /\ run'.result # "updated"
      BY <1>1, <2>3, FieldsOfRun DEF RunOK, AllBut, Fields
    <3> QED
      BY <1>3, <2>1, <2>3, <3>1, SameRowsBetter
  <2> QED
    BY <1>6, <2>2, <2>3 DEF RetryWrite
<1>7. CASE RetrySettle
  <2>1. /\ AllBut({"again", "result", "unsettled"})
        /\ run'.unsettled = IF run.result = "changed" THEN run.unsettled ELSE run.unsettled \ {Retried}
        /\ pc = "againSettle" /\ pc' = "loop"
    BY <1>1, <1>7, FieldsOfRun DEF RetrySettle, RunOK, AllBut, Fields
  <2>2. /\ run'.force = run.force /\ run'.stale = run.stale /\ run'.snap = run.snap
        /\ run'.entry = run.entry /\ run'.todo = run.todo
    BY <2>1 DEF AllBut, Fields
  <2>3. \/ run.result = "updated" /\ row' = row
        \/ run.result = "changed" /\ row' = Marked(Retried)
        \/ run.result \notin {"updated", "changed"} /\ row' = [row EXCEPT ![Retried] = NoRow]
    BY <1>7 DEF RetrySettle
  <2>4. \A p \in Path : Better(p)
    BY <1>2, <2>3, SameRowsBetter, MarkedBetter, DroppedBetter
  <2>5. RowInv' /\ ForceInv' /\ \A p \in Path : Unsafe(p)' => Unsafe(p)
    BY <1>1, <2>1, <2>2, <2>4, BetterRows
  <2>6. ASSUME NEW p \in Path, p = Retried, Unsafe(p)'
        PROVE  FALSE
    <3>1. CASE run.result = "updated" /\ row' = row
      BY <2>1, <2>5, <2>6, <3>1 DEF Sound, ResultInv
    <3>2. CASE row' = Marked(Retried)
      BY <2>6, <3>2, MarkedBetter
    <3>3. CASE row' = [row EXCEPT ![Retried] = NoRow]
      BY <2>6, <3>3, DroppedBetter
    <3> QED
      BY <2>3, <3>1, <3>2, <3>3
  <2>7. ProgressInv'
    <3> SUFFICES ASSUME NEW p \in Path, Unsafe(p)'
                 PROVE  /\ p \in DOMAIN run.snap \cup Scanned
                        /\ p \in Scanned => p \in run.todo \cup run'.unsettled
      BY <2>1, <2>2 DEF ProgressInv, Looping, Scanned
    <3>1. p \in DOMAIN run.snap \cup Scanned /\ (p \in Scanned => p \in run.todo \cup run.unsettled)
      BY <2>1, <2>5 DEF Sound, ProgressInv, Looping
    <3> QED
      BY <2>1, <2>6, <3>1
  <2>8. JobInv' /\ ResultInv'
    BY <2>1 DEF JobInv, ResultInv
  <2> QED
    BY <2>5, <2>7, <2>8 DEF Sound
<1> QED
  BY <1>4, <1>5, <1>6, <1>7

LEMMA PruneSound ==
    ASSUME TypeInv, Sound, BeginPrune \/ PruneBatch
    PROVE  Sound'
<1>1. TypeOK /\ RunOK(run)
  BY DEF TypeInv, TypeOK
<1>2. CASE BeginPrune
  <2>1. AllBut({"todo"}) /\ run'.todo = ToPrune /\ run.todo = {} /\ pc = "loop" /\ pc' = "prune"
        /\ row' = row /\ recorded' = recorded
    BY <1>1, <1>2, FieldsOfRun DEF BeginPrune, RunOK, AllBut, Fields, index
  <2>2. /\ run'.force = run.force /\ run'.stale = run.stale /\ run'.unsettled = run.unsettled
        /\ run'.skipped = run.skipped /\ run'.kept = run.kept
    BY <2>1 DEF AllBut, Fields
  <2>3. RowInv' /\ ForceInv' /\ \A p \in Path : Unsafe(p)' => Unsafe(p)
    BY <2>1, <2>2, SameRowsBetter, BetterRows
  <2>4. ASSUME NEW p \in Path, Unsafe(p)
        PROVE  p \in run.unsettled \cup run.skipped \cup ToPrune
    BY <2>1, <2>4 DEF Sound, ProgressInv, Looping, ToPrune
  <2>5. ProgressInv'
    BY <2>1, <2>2, <2>3, <2>4 DEF ProgressInv, Looping
  <2>6. JobInv' /\ ResultInv'
    BY <2>1 DEF JobInv, ResultInv
  <2> QED
    BY <2>3, <2>5, <2>6 DEF Sound
<1>3. CASE PruneBatch
  <2> DEFINE doc == First(run.todo)
             keep == HasRow(doc) /\ ~MayDelete(doc)
  <2>1. doc \in Path
    BY <1>1, <1>3, FirstIn DEF PruneBatch, RunOK
  <2>2. /\ AllBut({"todo", "kept"}) /\ run'.todo = run.todo \ {doc}
        /\ run'.kept = IF keep THEN run.kept \cup {doc} ELSE run.kept
    BY <1>1, <1>3, FieldsOfRun DEF PruneBatch, RunOK, AllBut, Fields
  <2>3. /\ row' = IF HasRow(doc) /\ ~keep THEN [row EXCEPT ![doc] = NoRow]
                  ELSE IF keep /\ run.force THEN Marked(doc) ELSE row
        /\ pc = "prune" /\ pc' = "prune" /\ recorded' = recorded
    BY <1>3 DEF PruneBatch
  <2>4. /\ run'.force = run.force /\ run'.stale = run.stale /\ run'.unsettled = run.unsettled
        /\ run'.skipped = run.skipped
    BY <2>2 DEF AllBut, Fields
  <2> HIDE DEF doc, keep
  <2>5. \A p \in Path : Better(p)
    BY <2>1, <2>3, SameRowsBetter, MarkedBetter, DroppedBetter
  <2>6. RowInv' /\ ForceInv' /\ \A p \in Path : Unsafe(p)' => Unsafe(p)
    BY <2>3, <2>4, <2>5, BetterRows
  <2>7. ASSUME NEW p \in Path, p = doc, Unsafe(p)'
        PROVE  p \in run'.kept
    <3>1. Unsafe(p) /\ HasRow(doc)
      BY <2>6, <2>7 DEF Unsafe, Kept
    <3>2. ~(HasRow(doc) /\ ~keep)
      BY <2>3, <2>7, DroppedBetter
    <3> QED
      BY <2>2, <2>7, <3>1, <3>2
  <2>8. ProgressInv'
    <3> SUFFICES ASSUME NEW p \in Path, Unsafe(p)'
                 PROVE  p \in run.unsettled \cup run.skipped \cup run'.kept \cup run'.todo
      BY <2>3, <2>4 DEF ProgressInv, Looping
    <3>1. p \in run.unsettled \cup run.skipped \cup run.kept \cup run.todo
      BY <2>3, <2>6 DEF Sound, ProgressInv
    <3> QED
      BY <2>2, <2>7, <3>1
  <2>9. JobInv' /\ ResultInv'
    BY <2>3 DEF JobInv, ResultInv
  <2> QED
    BY <2>6, <2>8, <2>9 DEF Sound
<1> QED
  BY <1>2, <1>3

\* What the last transaction does not mark was brought in line; a run that is cut short records nothing.
LEMMA EndSound ==
    ASSUME TypeInv, Sound, Record \/ Stop
    PROVE  Sound'
<1>1. pc' = "idle" /\ run' = NotStarted
  BY DEF Record, Stop, End
<1>2. run'.stale = {} /\ run'.force = FALSE
  BY <1>1 DEF NotStarted
<1>3. JobInv' /\ ProgressInv' /\ ResultInv' /\ ForceInv'
  <2>1. JobInv' /\ ProgressInv' /\ ResultInv'
    BY <1>1, <1>2, NothingKnown
  <2> QED
    BY <1>2, <2>1 DEF ForceInv
<1>4. CASE Stop
  <2>1. RowInv'
    BY <1>4 DEF Stop, Sound, RowInv, Kept, HasRow, Parsed, index
  <2> QED
    BY <1>3, <2>1 DEF Sound
<1>5. CASE Record
  <2>1. ASSUME NEW p \in Path, Kept(p)'
        PROVE  ~(p \in ToMark /\ HasRow(p)) /\ row'[p] = row[p]
    <3>1. row'[p] = IF p \in ToMark /\ HasRow(p) THEN [row[p] EXCEPT !.hash = Awaiting] ELSE row[p]
      BY <1>5 DEF Record
    <3>2. HasRow(p) => [row[p] EXCEPT !.hash = Awaiting].hash = Awaiting
      BY DEF TypeInv, TypeOK, HasRow, Row
    <3> QED
      BY <2>1, <3>1, <3>2 DEF Kept
  <2>2. RowInv'
    <3> SUFFICES ASSUME NEW p \in Path, Kept(p)'
                 PROVE  IF row'[p].rule THEN row'[p].text = Parsed(p, row'[p].hash)
                        ELSE ParserOf[p] \in Reread \ recorded'
      BY DEF RowInv, Parsed
    <3>1. row'[p] = row[p] /\ Kept(p) /\ p \notin ToMark
      BY <2>1 DEF Kept, HasRow
    <3>2. IF row[p].rule THEN row[p].text = Parsed(p, row[p].hash) ELSE ParserOf[p] \in Reread \ recorded
      BY <3>1 DEF Sound, RowInv
    <3>3. ASSUME ~row[p].rule PROVE ParserOf[p] \notin recorded'
      <4>1. ~run.force
        BY <1>5, <3>1, <3>3 DEF Sound, ForceInv, Record, Kept
      <4>2. recorded' = recorded \cup run.stale
        BY <1>5, <4>1 DEF Record
      <4>3. ASSUME ParserOf[p] \in run.stale PROVE FALSE
        <5>1. Unsafe(p) /\ StaleRow(row, p)
          BY <3>1, <3>3, <4>3 DEF Unsafe, StaleRow, Kept, HasRow
        <5>2. p \in run.unsettled \cup run.skipped \cup run.kept
          BY <1>5, <5>1 DEF Sound, ProgressInv, Record
        <5> QED
          BY <3>1, <5>1, <5>2 DEF ToMark
      <4> QED
        BY <3>2, <3>3, <4>2, <4>3
    <3> QED
      BY <3>1, <3>2, <3>3
  <2> QED
    BY <1>3, <2>2 DEF Sound
<1> QED
  BY <1>4, <1>5

LEMMA InitSound == Init => SettledInv
<1> SUFFICES ASSUME Init PROVE Sound
  BY DEF SettledInv
<1>1. run.stale = {} /\ run.force = FALSE /\ pc = "idle" /\ recorded = {}
  BY DEF Init, NotStarted
<1>2. JobInv /\ ForceInv /\ ProgressInv /\ ResultInv
  BY <1>1 DEF JobInv, ForceInv, ProgressInv, ResultInv, Unsafe
<1>3. RowInv
  <2> SUFFICES ASSUME NEW p \in Path, Kept(p)
               PROVE  IF row[p].rule THEN row[p].text = Parsed(p, row[p].hash) ELSE ParserOf[p] \in Reread
    BY <1>1 DEF RowInv
  <2>1. PICK same \in SUBSET Path : row = OldRows(same)
    BY DEF Init, Kept, HasRow
  <2>2. /\ row[p].hash = disk[p] /\ row[p].rule = (ParserOf[p] \notin Reread)
        /\ ParserOf[p] \notin Reread => row[p].text = Parsed(p, disk[p])
    BY <2>1 DEF OldRows, Kept, HasRow
  <2> QED
    BY <2>2
<1> QED
  BY <1>2, <1>3 DEF Sound

LEMMA SettledInvNext == TypeInv /\ SettledInv /\ [Next]_vars => SettledInv'
<1> SUFFICES ASSUME TypeInv, SettledInv, [Next]_vars, others' = 0 PROVE Sound'
  BY DEF SettledInv
<1>1. others \in Nat /\ MaxOthers \in Nat
  BY BoundAssumption DEF TypeInv, TypeOK
<1>2. ASSUME NEW paths, NEW rows, Other(paths, rows)
      PROVE  FALSE
  BY <1>1, <1>2 DEF Other
<1>3. CASE Step \/ Stop \/ \E force \in BOOLEAN : Start(force)
  <2>1. others' = others
    BY <1>3 DEF Step, Start, Stop, Reset, Snapshot, Walk, ScanFile, Rename, ChooseRereads, KeepUnchanged,
                CannotRead, ReadFile, WriteMeta, WriteRows, WriteWhole, EmbedRejected, Settle,
                RetryUnread, Retry, RetryWrite, RetrySettle, BeginPrune, PruneBatch, Record, history
  <2>2. Sound
    BY <2>1 DEF SettledInv
  <2> QED
    BY <1>3, <2>2, StartSound, SnapshotSound, ScanSound, RenameSound, ChooseSound, LoopSound, WriteSound,
       SettleSound, RetrySound, PruneSound, EndSound DEF Step
<1>4. CASE Edit \/ Move \/ UNCHANGED vars
  <2>1. UNCHANGED <<row, recorded, pc, run, others>>
    BY <1>4 DEF Edit, Move, Changed, vars, index, history
  <2>2. Sound
    BY <2>1 DEF SettledInv
  <2> QED
    BY <2>1, <2>2 DEF Sound, RowInv, JobInv, ForceInv, ProgressInv, ResultInv, Unsafe, Kept, HasRow, HashAt,
                      ChunksMatch, Parsed, NameOf, NextDoc, Retried, Scanned
<1>5. CASE OtherWrites \/ OtherDrops \/ OtherMoves
  BY <1>2, <1>5 DEF OtherWrites, OtherDrops, OtherMoves
<1> QED
  BY <1>3, <1>4, <1>5 DEF Next

LEMMA SettledInvAlways == Spec => []SettledInv
  BY TypeInvAlways, InitSound, SettledInvNext, PTL DEF Spec

\* However runs and edits fall, and wherever a run is cut short, a row a fast path may keep holds
\* what its parser makes of the bytes its hash names; only a row that still waits for its format
\* to be settled may not.
THEOREM TextAlwaysOfItsHash == Spec => []TextOfItsHash
<1>1. SettledInv => TextOfItsHash
  BY DEF SettledInv, Sound, RowInv, TextOfItsHash
<1> QED
  BY <1>1, SettledInvAlways, PTL

\* No format is recorded as settled over a row that the rules before it wrote and a fast path
\* may keep: what a run could not bring in line is marked when the key is recorded, and a run
\* that is cut short records no key.
THEOREM RecordedSettled == Spec => []RecordedMeansSettled
<1>1. SettledInv => RecordedMeansSettled
  BY DEF SettledInv, Sound, RowInv, RecordedMeansSettled
<1> QED
  BY <1>1, SettledInvAlways, PTL
===============================================================================
