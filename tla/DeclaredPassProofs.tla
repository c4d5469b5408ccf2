-------------------------- MODULE DeclaredPassProofs --------------------------
(***************************************************************************)
(* For any documents, keys, contents and schemas, and any number of runs   *)
(* that fail, are killed or are cancelled anywhere: where every writer     *)
(* takes the lease, a recorded set describes every row, and a pass that    *)
(* read what it had to is recorded.  The types, and that a run that ends   *)
(* in order closes its pass, hold with writers that take no lease as well. *)
(***************************************************************************)
EXTENDS DeclaredPass, TLAPS

(***************************************************************************)
(* Types                                                                   *)
(***************************************************************************)

Fields == {"declared", "force", "observed", "began", "refresh", "gone", "visit", "pending", "job"}

LEMMA FieldsOfRun == DOMAIN NotStarted = Fields
BY DEF NotStarted, Fields

\* All that run r knows but these is as it was, and all that the other runs know.
AllBut(r, changed) ==
    /\ DOMAIN run' = Run /\ DOMAIN run'[r] = Fields
    /\ \A field \in Fields \ changed : run'[r][field] = run[r][field]
    /\ \A s \in Run \ {r} : run'[s] = run[s]

LEMMA NotStartedTyped == RunOK(NotStarted) /\ NotStarted.job = NoJob
<1>1. NotStarted.job = NoJob
  BY DEF NotStarted
<1>2. RunOK(NotStarted)
  BY DEF RunOK, NotStarted, Content, Optional
<1> QED
  BY <1>1, <1>2

\* What a step of run r has to show.
LEMMA StepTyped ==
    ASSUME TypeOK, NEW r \in Run, NEW label \in PC,
           pc' = [pc EXCEPT ![r] = label],
           DOMAIN run' = Run, RunOK(run'[r]), \A s \in Run \ {r} : run'[s] = run[s],
           run'[r].job # NoJob => label = "loop",
           DOMAIN row' = Doc, \A d \in Doc : Optional(row'[d], Row),
           Optional(recorded', Content), pass' \in Run \cup {NoRun}, dirty' \in {NoRun, pass'}
    PROVE  TypeOK'
<1>1. pc' \in [Run -> PC] /\ pc'[r] = label /\ \A s \in Run \ {r} : pc'[s] = pc[s]
  BY DEF TypeOK
<1>2. \A s \in Run : RunOK(run'[s])
  BY DEF TypeOK
<1>3. \A s \in Run : run'[s].job # NoJob => pc'[s] = "loop"
  BY <1>1 DEF TypeOK
<1>4. \A s \in Run : RunOK(run[s])'
  BY <1>2 DEF RunOK, Optional
<1>5. \A d \in Doc : Optional(row[d], Row)'
  BY DEF Optional
<1>6. Optional(recorded, Content)'
  BY DEF Optional
<1> QED
  BY <1>1, <1>3, <1>4, <1>5, <1>6 DEF TypeOK

\* A step that ends the run.
LEMMA EndTyped ==
    ASSUME TypeOK, NEW r \in Run, NEW label \in PC, End(r, label)
    PROVE  /\ pc' = [pc EXCEPT ![r] = label] /\ DOMAIN run' = Run /\ run'[r] = NotStarted
           /\ RunOK(run'[r]) /\ run'[r].job = NoJob /\ \A s \in Run \ {r} : run'[s] = run[s]
<1>1. pc' = [pc EXCEPT ![r] = label] /\ run' = [run EXCEPT ![r] = NotStarted]
  BY DEF End, GoTo
<1>2. DOMAIN run' = Run /\ run'[r] = NotStarted /\ \A s \in Run \ {r} : run'[s] = run[s]
  BY <1>1 DEF TypeOK
<1>3. RunOK(run'[r]) /\ run'[r].job = NoJob
  <2>1. RunOK(NotStarted) /\ NotStarted.job = NoJob
    BY NotStartedTyped
  <2> QED
    BY <1>2, <2>1
<1> QED
  BY <1>1, <1>2, <1>3

\* The rest of what a step has to show when it changes no row and no key.
LEMMA SameDb ==
    ASSUME TypeOK, UNCHANGED db
    PROVE  /\ DOMAIN row' = Doc /\ \A d \in Doc : Optional(row'[d], Row)
           /\ Optional(recorded', Content) /\ pass' \in Run \cup {NoRun} /\ dirty' \in {NoRun, pass'}
BY DEF TypeOK, db

LEMMA CloseTyped ==
    ASSUME TypeOK, NEW r \in Run, NEW record, ClosePass(r, record)
    PROVE  Optional(recorded', Content) /\ pass' \in Run \cup {NoRun} /\ dirty' \in {NoRun, pass'}
<1>1. run[r].declared \in Content
  BY DEF TypeOK, RunOK
<1>2. \/ UNCHANGED <<recorded, pass, dirty>>
      \/ pass' = NoRun /\ dirty' = NoRun /\ recorded' \in {run[r].declared, recorded}
  BY DEF ClosePass, MarkAfterPass
<1> QED
  BY <1>1, <1>2 DEF TypeOK, Optional

LEMMA RebuildTyped ==
    ASSUME TypeOK, NEW r \in Run, Rebuild(r)
    PROVE  TypeOK'
<1>1. RunOK(run[r]) /\ DOMAIN run = Run /\ pc[r] \in PC
  BY DEF TypeOK
<1>2. CASE Start(r)
  <2>1. PICK set \in Sets, force \in Forcing :
          /\ run' = [run EXCEPT ![r].declared = set, ![r].force = force]
          /\ pc' = [pc EXCEPT ![r] = IF force THEN "reset" ELSE "look"]
    BY <1>2 DEF Start, GoTo
  <2>2. set \in Content /\ force \in BOOLEAN
    BY SetsAssumption DEF Content
  <2>3. AllBut(r, {"declared", "force"}) /\ run'[r].declared = set /\ run'[r].force = force
    BY <1>1, <2>1, FieldsOfRun DEF RunOK, AllBut, Fields
  <2>4. run[r].job = NoJob
    BY <1>2 DEF Start, Active, TypeOK
  <2>5. RunOK(run'[r]) /\ run'[r].job = NoJob
    BY <1>1, <2>2, <2>3, <2>4, FieldsOfRun DEF RunOK, AllBut, Fields
  <2>6. UNCHANGED db
    BY <1>2 DEF Start
  <2>7. (IF force THEN "reset" ELSE "look") \in PC
    BY DEF PC
  <2> QED
    BY <2>1, <2>3, <2>5, <2>6, <2>7, StepTyped, SameDb DEF AllBut
<1>3. CASE Reset(r)
  <2>1. /\ pc' = [pc EXCEPT ![r] = "look"] /\ run' = run /\ recorded' = Absent
        /\ row' = [d \in Doc |-> Absent] /\ UNCHANGED <<pass, dirty>>
    BY <1>3 DEF Reset, GoTo
  <2>2. run[r].job = NoJob
    BY <1>3 DEF Reset, TypeOK
  <2> QED
    BY <1>1, <2>1, <2>2, StepTyped DEF TypeOK, Optional, PC
<1>4. CASE Look(r)
  <2>1. run' = [run EXCEPT ![r].observed = recorded] /\ pc' = [pc EXCEPT ![r] = "decide"] /\ UNCHANGED db
    BY <1>4 DEF Look, GoTo
  <2>2. AllBut(r, {"observed"}) /\ run'[r].observed = recorded
    BY <1>1, <2>1, FieldsOfRun DEF RunOK, AllBut, Fields
  <2>3. run[r].job = NoJob /\ Optional(recorded, Content)
    BY <1>4 DEF Look, TypeOK
  <2>4. RunOK(run'[r]) /\ run'[r].job = NoJob
    BY <1>1, <2>2, <2>3, FieldsOfRun DEF RunOK, AllBut, Fields
  <2> QED
    BY <2>1, <2>2, <2>4, StepTyped, SameDb DEF AllBut, PC
<1>5. CASE Decide(r)
  <2>1. PICK again \in BOOLEAN :
          /\ run' = [run EXCEPT ![r].refresh = again] /\ UNCHANGED db
          /\ pc' = [pc EXCEPT ![r] = IF again \/ run[r].force THEN "begin" ELSE "scan"]
    <3> DEFINE again == ~run[r].force /\ run[r].observed # run[r].declared /\ ~NothingToClear(r)
    <3>1. again \in BOOLEAN
      OBVIOUS
    <3> QED
      BY <1>5, <3>1 DEF Decide, GoTo
  <2>2. AllBut(r, {"refresh"}) /\ run'[r].refresh = again
    BY <1>1, <2>1, FieldsOfRun DEF RunOK, AllBut, Fields
  <2>3. run[r].job = NoJob
    BY <1>5 DEF Decide, TypeOK
  <2>4. RunOK(run'[r]) /\ run'[r].job = NoJob
    BY <1>1, <2>2, <2>3, FieldsOfRun DEF RunOK, AllBut, Fields
  <2>5. (IF again \/ run[r].force THEN "begin" ELSE "scan") \in PC
    BY DEF PC
  <2> QED
    BY <2>1, <2>2, <2>4, <2>5, StepTyped, SameDb DEF AllBut
<1>6. CASE Begin(r)
  <2>1. /\ run' = [run EXCEPT ![r].began = TRUE] /\ pc' = [pc EXCEPT ![r] = "scan"]
        /\ row' = row /\ recorded' = Absent /\ pass' = r /\ dirty' = NoRun
    BY <1>6 DEF Begin, GoTo, MarkAtBegin
  <2>2. AllBut(r, {"began"}) /\ run'[r].began = TRUE
    BY <1>1, <2>1, FieldsOfRun DEF RunOK, AllBut, Fields
  <2>3. run[r].job = NoJob
    BY <1>6 DEF Begin, TypeOK
  <2>4. RunOK(run'[r]) /\ run'[r].job = NoJob
    BY <1>1, <2>2, <2>3, FieldsOfRun DEF RunOK, AllBut, Fields
  <2> QED
    BY <2>1, <2>2, <2>4, StepTyped DEF AllBut, PC, TypeOK, Optional
<1>7. CASE Scan(r)
  <2>1. PICK found \in SUBSET Doc, skipped \in SUBSET Doc :
          run' = [run EXCEPT
                    ![r].gone = [d \in {e \in Doc \ (found \cup skipped) : HasRow(e)} |-> row[d].content],
                    ![r].visit = found,
                    ![r].pending = run[r].refresh /\ \E d \in skipped : HasRow(d)]
    BY <1>7 DEF Scan
  <2> DEFINE gone == {d \in Doc \ (found \cup skipped) : HasRow(d)}
             contents == [d \in gone |-> row[d].content]
             pending == run[r].refresh /\ \E d \in skipped : HasRow(d)
  <2>2. run' = [run EXCEPT ![r].gone = contents, ![r].visit = found, ![r].pending = pending]
    BY <2>1
  <2>3. /\ DOMAIN contents \subseteq Doc /\ found \cap DOMAIN contents = {}
        /\ \A d \in DOMAIN contents : contents[d] \in Content
    BY DEF TypeOK, HasRow, Optional, Row
  <2>4. pending \in BOOLEAN
    BY <1>1 DEF RunOK
  <2> HIDE DEF contents, pending
  <2>5. AllBut(r, {"gone", "visit", "pending"}) /\ run'[r].gone = contents /\ run'[r].visit = found
        /\ run'[r].pending = pending
    BY <1>1, <2>2, FieldsOfRun DEF RunOK, AllBut, Fields
  <2>6. pc' = [pc EXCEPT ![r] = "loop"] /\ UNCHANGED db
    BY <1>7 DEF Scan, GoTo
  <2>7. RunOK(run'[r])
    BY <1>1, <2>3, <2>4, <2>5, FieldsOfRun DEF RunOK, AllBut, Fields
  <2> QED
    BY <2>5, <2>6, <2>7, StepTyped, SameDb DEF AllBut, PC
<1>8. ASSUME NEW d \in Doc, Read(r, d)
      PROVE  TypeOK'
  <2>1. PICK job :
          /\ \/ job = NoJob
             \/ \E content \in Found, whole \in BOOLEAN :
                   job = [doc |-> d, content |-> content, whole |-> whole]
          /\ run' = [run EXCEPT ![r].visit = run[r].visit \ {d}, ![r].job = job]
    <3>1. PICK content \in Found, renamed \in BOOLEAN :
            LET same == ~renamed /\ Unchanged(r, d, content)
                job == [doc |-> d, content |-> content, whole |-> ~same]
            IN  run' = [run EXCEPT ![r].visit = @ \ {d},
                          ![r].job = IF same /\ ~run[r].refresh THEN NoJob ELSE job]
      BY <1>8 DEF Read
    <3> DEFINE whole == ~(~renamed /\ Unchanged(r, d, content))
    <3>2. whole \in BOOLEAN
      OBVIOUS
    <3> QED
      BY <3>1, <3>2
  <2>2. Found \subseteq Content
    BY SetsAssumption DEF Content
  <2>3. AllBut(r, {"visit", "job"}) /\ run'[r].visit = run[r].visit \ {d} /\ run'[r].job = job
    BY <1>1, <2>1, FieldsOfRun DEF RunOK, AllBut, Fields
  <2>4. job = NoJob \/ job \in Job
    BY <2>1, <2>2 DEF Job
  <2>5. RunOK(run'[r])
    BY <1>1, <2>3, <2>4, FieldsOfRun DEF RunOK, AllBut, Fields
  <2>6. pc' = [pc EXCEPT ![r] = "loop"] /\ UNCHANGED db
    BY <1>8 DEF Read, TypeOK
  <2> QED
    BY <2>3, <2>5, <2>6, StepTyped, SameDb DEF AllBut, PC
<1>9. ASSUME NEW d \in Doc, Skip(r, d) \/ NoText(r, d)
      PROVE  TypeOK'
  <2>1. PICK pending \in BOOLEAN : run' = [run EXCEPT ![r].visit = run[r].visit \ {d}, ![r].pending = pending]
    <3>1. CASE Skip(r, d)
      <4> DEFINE pending == run[r].pending \/ (run[r].refresh /\ HasRow(d))
      <4>1. pending \in BOOLEAN
        OBVIOUS
      <4> QED
        BY <3>1, <4>1 DEF Skip
    <3>2. CASE NoText(r, d)
      <4>1. PICK content \in Found : run' = [run EXCEPT ![r].visit = @ \ {d},
                       ![r].pending = @ \/ (/\ run[r].refresh /\ HasRow(d)
                                           /\ ContentOf(d) # content)]
        BY <3>2 DEF NoText
      <4> DEFINE pending == run[r].pending \/ (run[r].refresh /\ HasRow(d) /\ ContentOf(d) # content)
      <4>2. pending \in BOOLEAN
        OBVIOUS
      <4> QED
        BY <4>1, <4>2
    <3> QED
      BY <1>9, <3>1, <3>2
  <2>2. AllBut(r, {"visit", "pending"}) /\ run'[r].visit = run[r].visit \ {d} /\ run'[r].pending = pending
    BY <1>1, <2>1, FieldsOfRun DEF RunOK, AllBut, Fields
  <2>3. RunOK(run'[r])
    BY <1>1, <2>2, FieldsOfRun DEF RunOK, AllBut, Fields
  <2>4. pc' = [pc EXCEPT ![r] = "loop"] /\ UNCHANGED db
    BY <1>9 DEF Skip, NoText, TypeOK
  <2> QED
    BY <2>2, <2>3, <2>4, StepTyped, SameDb DEF AllBut, PC
<1>10. ASSUME NEW d \in Doc, Drop(r, d)
       PROVE  TypeOK'
  <2>1. /\ run' = [run EXCEPT ![r].visit = run[r].visit \ {d}] /\ row' = [row EXCEPT ![d] = Absent]
        /\ UNCHANGED <<recorded, pass, dirty>> /\ pc' = [pc EXCEPT ![r] = "loop"]
    BY <1>10 DEF Drop, TypeOK
  <2>2. AllBut(r, {"visit"}) /\ run'[r].visit = run[r].visit \ {d}
    BY <1>1, <2>1, FieldsOfRun DEF RunOK, AllBut, Fields
  <2>3. RunOK(run'[r])
    BY <1>1, <2>2, FieldsOfRun DEF RunOK, AllBut, Fields
  <2>4. DOMAIN row' = Doc /\ \A e \in Doc : Optional(row'[e], Row)
    BY <2>1 DEF TypeOK, Optional
  <2> QED
    BY <2>1, <2>2, <2>3, <2>4, StepTyped DEF AllBut, PC, TypeOK
<1>11. CASE Write(r)
  <2>1. /\ run' = [run EXCEPT ![r].job = NoJob] /\ pc' = [pc EXCEPT ![r] = "loop"] /\ pass' = pass
        /\ dirty' \in {dirty, pass} /\ recorded' \in {recorded, Absent}
    BY <1>11 DEF Write, TypeOK
  <2>2. AllBut(r, {"job"}) /\ run'[r].job = NoJob
    BY <1>1, <2>1, FieldsOfRun DEF RunOK, AllBut, Fields
  <2>3. RunOK(run'[r])
    BY <1>1, <2>2, FieldsOfRun DEF RunOK, AllBut, Fields
  <2>4. DOMAIN row' = Doc /\ \A d \in Doc : Optional(row'[d], Row)
    <3>1. run[r].job \in Job /\ run[r].declared \in Content
      BY <1>1, <1>11 DEF Write, RunOK
    <3>2. run[r].job.content \in Content /\ run[r].job.content \cap run[r].declared \in Content
          /\ run[r].job.doc \in Doc
      BY <3>1 DEF Job, Content
    <3>3. CASE run[r].job.whole \/ HasRow(run[r].job.doc)
      <4> DEFINE entry == [content |-> IF run[r].job.whole THEN run[r].job.content
                                      ELSE row[run[r].job.doc].content,
                           fields |-> run[r].job.content \cap run[r].declared]
      <4>1. entry \in Row
        BY <3>2, <3>3 DEF Row, TypeOK, HasRow, Optional
      <4>2. row' = [row EXCEPT ![run[r].job.doc] = entry]
        BY <1>11, <3>3 DEF Write
      <4> HIDE DEF entry
      <4> QED
        BY <3>2, <4>1, <4>2 DEF TypeOK, Optional
    <3>4. CASE ~(run[r].job.whole \/ HasRow(run[r].job.doc))
      BY <1>11, <3>4 DEF Write, TypeOK
    <3> QED
      BY <3>3, <3>4
  <2>5. Optional(recorded', Content) /\ dirty' \in {NoRun, pass'}
    BY <2>1 DEF TypeOK, Optional
  <2> QED
    BY <2>1, <2>2, <2>3, <2>4, <2>5, StepTyped DEF AllBut, PC, TypeOK
<1>12. CASE EndLoop(r) \/ Prune(r)
  <2>1. PICK label \in {"prune", "finish", "keptRows"} : pc' = [pc EXCEPT ![r] = label]
    <3>1. CASE EndLoop(r)
      BY <3>1 DEF EndLoop, GoTo
    <3>2. CASE Prune(r)
      <4> DEFINE kept == {d \in DOMAIN run[r].gone : HasRow(d) /\ ContentOf(d) # run[r].gone[d]}
      <4>1. pc' = [pc EXCEPT ![r] = IF kept = {} THEN "finish" ELSE "keptRows"]
        BY <3>2 DEF Prune, GoTo
      <4> QED
        BY <4>1
    <3> QED
      BY <1>12, <3>1, <3>2
  <2>2. run' = run /\ run[r].job = NoJob /\ label \in PC
    BY <1>12 DEF EndLoop, Prune, TypeOK, PC
  <2>3. DOMAIN row' = Doc /\ \A d \in Doc : Optional(row'[d], Row)
    BY <1>12 DEF EndLoop, Prune, TypeOK, Optional, db
  <2>4. UNCHANGED <<recorded, pass, dirty>>
    BY <1>12 DEF EndLoop, Prune, db
  <2> QED
    BY <1>1, <2>1, <2>2, <2>3, <2>4, StepTyped DEF TypeOK
<1>13. CASE Finish(r) \/ Cancel(r) \/ Stop(r)
  <2>1. PICK label \in {"idle", "stopped"} : End(r, label)
    BY <1>13 DEF Finish, Cancel, Stop
  <2>2. label \in PC
    BY DEF PC
  <2>3. row' = row
    BY <1>13 DEF Finish, Cancel, Stop, db
  <2>4. \/ UNCHANGED <<recorded, pass, dirty>>
        \/ \E record \in BOOLEAN : ClosePass(r, record)
    <3>1. ReadAll(r) \in BOOLEAN
      BY DEF ReadAll
    <3> QED
      BY <1>13, <3>1 DEF Finish, Cancel, Stop, CancelledPass, db
  <2>5. Optional(recorded', Content) /\ pass' \in Run \cup {NoRun} /\ dirty' \in {NoRun, pass'}
    BY <2>4, CloseTyped DEF TypeOK
  <2> QED
    BY <2>1, <2>2, <2>3, <2>5, EndTyped, StepTyped DEF TypeOK
<1> QED
  BY <1>2, <1>3, <1>4, <1>5, <1>6, <1>7, <1>8, <1>9, <1>10, <1>11, <1>12, <1>13 DEF Rebuild

LEMMA WatchTyped ==
    ASSUME TypeOK, Watch
    PROVE  TypeOK'
<1>1. UNCHANGED <<recorded, pass, pc, run>> /\ dirty' \in {NoRun, pass'}
  BY DEF Watch, WatchWrite, WatchRemove, TypeOK
<1>2. DOMAIN row' = Doc /\ \A d \in Doc : Optional(row'[d], Row)
  <2>1. ASSUME NEW d \in Doc, WatchWrite(d)
        PROVE  DOMAIN row' = Doc /\ \A e \in Doc : Optional(row'[e], Row)
    <3>1. PICK content \in Found :
            row' = [row EXCEPT ![d] = [content |-> content, fields |-> WatchedFields(d, content)]]
      BY <2>1 DEF WatchWrite
    <3>2. content \in Content /\ WatchedFields(d, content) \in Content
      BY SetsAssumption DEF Content, WatchedFields, TypeOK, Optional, HasRow, Row
    <3> QED
      BY <3>1, <3>2 DEF TypeOK, Optional, Row
  <2>2. ASSUME NEW d \in Doc, WatchRemove(d)
        PROVE  DOMAIN row' = Doc /\ \A e \in Doc : Optional(row'[e], Row)
    BY <2>2 DEF WatchRemove, TypeOK, Optional
  <2> QED
    BY <2>1, <2>2 DEF Watch
<1> QED
  BY <1>1, <1>2 DEF TypeOK, Optional, RunOK, Content, Row, Job

LEMMA InitTyped == Init => TypeOK
<1> SUFFICES ASSUME Init PROVE TypeOK
  OBVIOUS
<1>1. DOMAIN row = Doc /\ \A d \in Doc : Optional(row[d], Row)
  BY SetsAssumption DEF Init, Optional, Row, Content
<1>2. ASSUME NEW r \in Run PROVE RunOK(run[r]) /\ run[r].job = NoJob
  BY <1>2, NotStartedTyped DEF Init
<1>3. pc \in [Run -> PC] /\ DOMAIN run = Run
  BY DEF Init, PC
<1> QED
  BY <1>1, <1>2, <1>3 DEF Init, TypeOK, Optional

LEMMA TypeOKNext == TypeOK /\ [Next]_vars => TypeOK'
<1> SUFFICES ASSUME TypeOK, [Next]_vars PROVE TypeOK'
  OBVIOUS
<1>1. CASE \E r \in Run : Rebuild(r)
  BY <1>1, RebuildTyped
<1>2. CASE Watch
  BY <1>2, WatchTyped
<1>3. CASE UNCHANGED vars
  BY <1>3 DEF TypeOK, vars, db, Optional, RunOK
<1> QED
  BY <1>1, <1>2, <1>3 DEF Next

\* Rows, keys and what each run knows keep their shape, and a mark only ever names the pass
\* that is open, whichever runs overlap and wherever they end.
THEOREM TypeCorrect == Spec => []TypeOK
  BY InitTyped, TypeOKNext, PTL DEF Spec

(***************************************************************************)
(* Where every writer takes the lease                                      *)
(***************************************************************************)

Good(r, d) == HasRow(d) => row[d].fields = row[d].content \cap run[r].declared
AllGood(r) == \A d \in Doc : Good(r, d)

\* What is still in front of the run, or left to a later one.
Ahead(r, d) ==
    \/ run[r].pending
    \/ pc[r] = "loop" /\ d \in run[r].visit
    \/ pc[r] = "loop" /\ run[r].job # NoJob /\ run[r].job.doc = d
    \/ pc[r] \in {"loop", "prune"} /\ d \in DOMAIN run[r].gone

\* Only a refresh writes fields alone, and for what the row holds.
JobSound(r) ==
    run[r].job # NoJob /\ ~run[r].job.whole =>
        /\ run[r].refresh
        /\ HasRow(run[r].job.doc) => row[run[r].job.doc].content = run[r].job.content

Working == {"scan", "loop", "prune", "finish", "keptRows"}

\* Before it begins, a run knows what is recorded, or has emptied the index.
BeforeInv(r) ==
    /\ pc[r] \in {"reset", "look", "decide", "begin"} => ~run[r].began
    /\ pc[r] \in {"reset", "look", "decide"} => ~run[r].refresh
    /\ pc[r] \in {"decide", "begin"} => run[r].observed = recorded
    /\ pc[r] = "begin" => run[r].force \/ run[r].refresh
    /\ pc[r] \in {"look", "decide", "begin"} /\ run[r].force =>
          recorded = Absent /\ \A d \in Doc : ~HasRow(d)
    /\ run[r].refresh => ~run[r].force

\* After that it has a pass of its own that nobody marks, or every row is as its schema says.
WorkInv(r) ==
    pc[r] \in Working =>
        /\ run[r].began => recorded = Absent /\ pass = r /\ dirty = NoRun
        /\ ~run[r].began => recorded \in {Absent, run[r].declared} /\ ~run[r].refresh
        /\ ~run[r].refresh => AllGood(r)
        /\ run[r].refresh /\ pc[r] \in {"loop", "prune", "finish"} => \A d \in Doc : Good(r, d) \/ Ahead(r, d)
        /\ JobSound(r)

RunInv(r) == IF Active(r) THEN BeforeInv(r) /\ WorkInv(r) ELSE run[r] = NotStarted

LeaseInv ==
    /\ Free = {} /\ ~NewRules
    /\ TypeOK
    /\ \A r, s \in Run : Active(r) /\ Active(s) => r = s
    /\ RecordedMeansCurrent
    /\ \A r \in Run : RunInv(r)

\* The runs but the one that takes a step stay as they are.
LEMMA OthersStay ==
    ASSUME LeaseInv, NEW r \in Run, TypeOK', \A s \in Run \ {r} : run'[s] = run[s] /\ pc'[s] = pc[s],
           \A s \in Run \ {r} : ~Active(s),
           RecordedMeansCurrent', RunInv(r)'
    PROVE  LeaseInv'
<1>1. ASSUME NEW s \in Run \ {r}
      PROVE  ~Active(s)' /\ RunInv(s)'
  <2>1. run'[s] = NotStarted
    BY DEF LeaseInv, RunInv
  <2>2. ~Active(s)'
    BY DEF Active
  <2> QED
    BY <2>1, <2>2 DEF RunInv, NotStarted
<1>2. \A s \in Run : RunInv(s)'
  BY <1>1
<1>3. \A s, t \in Run : Active(s)' /\ Active(t)' => s = t
  BY <1>1
<1> QED
  BY <1>2, <1>3 DEF LeaseInv

\* A recorded set stays current when no row changes and no other set is recorded.
LEMMA StaysCurrent ==
    ASSUME RecordedMeansCurrent, row' = row, recorded' \in {recorded, Absent}
    PROVE  RecordedMeansCurrent'
BY DEF RecordedMeansCurrent, HasRow

\* Run r is at work and the others are not.
LEMMA Alone ==
    ASSUME LeaseInv, NEW r \in Run, Rebuild(r)
    PROVE  /\ \A s \in Run \ {r} : ~Active(s)
           /\ TypeOK' /\ \A s \in Run \ {r} : run'[s] = run[s] /\ pc'[s] = pc[s]
<1>1. \A s \in Run \ {r} : ~Active(s)
  <2>1. CASE Start(r)
    BY <2>1 DEF Start, LeaseInv, LeaseHeld, Run
  <2>2. CASE ~Start(r)
    <3>1. Active(r)
      BY <2>2 DEF Rebuild, Reset, Look, Decide, Begin, Scan, Read, Skip, NoText, Drop, Write, EndLoop,
                  Prune, Finish, Cancel, Stop, Active
    <3> QED
      BY <3>1 DEF LeaseInv
  <2> QED
    BY <2>1, <2>2
<1>2. TypeOK'
  BY RebuildTyped DEF LeaseInv
<1>3. \A s \in Run \ {r} : pc'[s] = pc[s]
  BY DEF LeaseInv, TypeOK, Rebuild, Start, Reset, Look, Decide, Begin, Scan, Read, Skip, NoText, Drop, Write,
         EndLoop, Prune, Finish, Cancel, Stop, End, GoTo
<1>4. \A s \in Run \ {r} : run'[s] = run[s]
  BY DEF LeaseInv, TypeOK, Rebuild, Start, Reset, Look, Decide, Begin, Scan, Read, Skip, NoText, Drop, Write,
         EndLoop, Prune, Finish, Cancel, Stop, End, GoTo
<1> QED
  BY <1>1, <1>2, <1>3, <1>4

LEMMA BeginningSound ==
    ASSUME LeaseInv, NEW r \in Run, Start(r) \/ Reset(r) \/ Look(r) \/ Decide(r) \/ Begin(r)
    PROVE  RecordedMeansCurrent' /\ RunInv(r)'
<1>1. TypeOK /\ RunOK(run[r]) /\ DOMAIN run = Run /\ RunInv(r) /\ RecordedMeansCurrent
  BY DEF LeaseInv, TypeOK
<1>2. CASE Start(r)
  <2>1. run[r] = NotStarted
    BY <1>1, <1>2 DEF Start, RunInv
  <2>2. PICK set \in Sets, force \in Forcing :
          /\ run' = [run EXCEPT ![r].declared = set, ![r].force = force]
          /\ pc' = [pc EXCEPT ![r] = IF force THEN "reset" ELSE "look"]
    BY <1>2 DEF Start, GoTo
  <2>3. force \in BOOLEAN
    BY SetsAssumption
  <2>4. AllBut(r, {"declared", "force"}) /\ run'[r].force = force
    BY <1>1, <2>2, FieldsOfRun DEF RunOK, AllBut, Fields
  <2>5. run'[r].began = FALSE /\ run'[r].refresh = FALSE
    BY <2>1, <2>4 DEF AllBut, Fields, NotStarted
  <2>6. pc'[r] = IF force THEN "reset" ELSE "look"
    BY <1>1, <2>2 DEF TypeOK
  <2>7. BeforeInv(r)'
    BY <2>3, <2>4, <2>5, <2>6 DEF BeforeInv
  <2>8. WorkInv(r)' /\ Active(r)'
    BY <2>3, <2>6 DEF WorkInv, Working, Active
  <2> QED
    BY <1>1, <1>2, <2>7, <2>8, StaysCurrent DEF RunInv, Start, db
<1>3. CASE Reset(r)
  <2>1. /\ pc[r] = "reset" /\ pc'[r] = "look" /\ run' = run /\ recorded' = Absent
        /\ \A d \in Doc : ~HasRow(d)'
    BY <1>1, <1>3 DEF Reset, GoTo, TypeOK, HasRow
  <2>2. BeforeInv(r)' /\ WorkInv(r)'
    BY <1>1, <2>1 DEF RunInv, Active, BeforeInv, WorkInv, Working
  <2> QED
    BY <2>1, <2>2 DEF RunInv, Active, RecordedMeansCurrent
<1>4. CASE Look(r)
  <2>1. /\ pc[r] = "look" /\ pc'[r] = "decide" /\ UNCHANGED db
        /\ run' = [run EXCEPT ![r].observed = recorded]
    BY <1>1, <1>4 DEF Look, GoTo, TypeOK
  <2>2. AllBut(r, {"observed"}) /\ run'[r].observed = recorded
    BY <1>1, <2>1, FieldsOfRun DEF RunOK, AllBut, Fields
  <2>3. run'[r].began = run[r].began /\ run'[r].refresh = run[r].refresh /\ run'[r].force = run[r].force
    BY <2>2 DEF AllBut, Fields
  <2>4. BeforeInv(r)'
    BY <1>1, <2>1, <2>2, <2>3 DEF RunInv, Active, BeforeInv, db, HasRow
  <2>5. WorkInv(r)' /\ Active(r)'
    BY <2>1 DEF WorkInv, Working, Active
  <2> QED
    BY <1>1, <2>1, <2>4, <2>5, StaysCurrent DEF RunInv, db
<1>5. CASE Decide(r)
  <2> DEFINE again == ~run[r].force /\ run[r].observed # run[r].declared /\ ~NothingToClear(r)
  <2>1. /\ pc[r] = "decide" /\ UNCHANGED db /\ run' = [run EXCEPT ![r].refresh = again]
        /\ pc'[r] = IF again \/ run[r].force THEN "begin" ELSE "scan"
    BY <1>1, <1>5 DEF Decide, GoTo, TypeOK
  <2>2. BeforeInv(r) /\ run[r].observed = recorded /\ ~run[r].began /\ ~run[r].refresh
    BY <1>1, <2>1 DEF RunInv, Active, BeforeInv
  <2> HIDE DEF again
  <2>3. AllBut(r, {"refresh"}) /\ run'[r].refresh = again
    BY <1>1, <2>1, FieldsOfRun DEF RunOK, AllBut, Fields
  <2>4. /\ run'[r].began = run[r].began /\ run'[r].force = run[r].force /\ run'[r].observed = run[r].observed
        /\ run'[r].declared = run[r].declared /\ run'[r].job = run[r].job
    BY <2>3 DEF AllBut, Fields
  <2>5. again => ~run[r].force
    BY DEF again
  <2>6. BeforeInv(r)'
    BY <2>1, <2>2, <2>3, <2>4, <2>5 DEF BeforeInv, db, HasRow
  <2>7. WorkInv(r)'
    <3>1. CASE again \/ run[r].force
      BY <2>1, <3>1 DEF WorkInv, Working
    <3>2. CASE ~again /\ ~run[r].force
      <4>1. recorded = run[r].declared \/ NothingToClear(r)
        BY <2>2, <3>2 DEF again
      <4>2. AllGood(r) /\ recorded \in {Absent, run[r].declared}
        <5>1. CASE recorded = run[r].declared
          <6>1. recorded # Absent
            BY <1>1, <5>1, AbsentAssumption DEF RunOK, Content
          <6> QED
            BY <1>1, <5>1, <6>1 DEF RecordedMeansCurrent, AllGood, Good
        <5>2. CASE NothingToClear(r)
          BY <2>2, <5>2 DEF NothingToClear, AllGood, Good
        <5> QED
          BY <4>1, <5>1, <5>2
      <4>3. AllGood(r)' /\ recorded' \in {Absent, run'[r].declared}
        BY <2>1, <2>4, <4>2 DEF AllGood, Good, db, HasRow
      <4>4. run[r].job = NoJob
        BY <1>1, <2>1 DEF TypeOK
      <4>5. ~run'[r].began /\ ~run'[r].refresh /\ run'[r].job = NoJob
        BY <2>2, <2>3, <2>4, <3>2, <4>4
      <4> QED
        BY <4>3, <4>5 DEF WorkInv, Working, JobSound
    <3> QED
      BY <3>1, <3>2
  <2>8. Active(r)'
    BY <2>1 DEF Active
  <2> QED
    BY <1>1, <2>1, <2>6, <2>7, <2>8, StaysCurrent DEF RunInv, db
<1>6. CASE Begin(r)
  <2>1. /\ pc[r] = "begin" /\ pc'[r] = "scan" /\ run' = [run EXCEPT ![r].began = TRUE]
        /\ row' = row /\ recorded' = Absent /\ pass' = r /\ dirty' = NoRun
    BY <1>1, <1>6 DEF Begin, GoTo, MarkAtBegin, TypeOK
  <2>2. AllBut(r, {"began"}) /\ run'[r].began = TRUE
    BY <1>1, <2>1, FieldsOfRun DEF RunOK, AllBut, Fields
  <2>3. run'[r].refresh = run[r].refresh /\ run'[r].force = run[r].force /\ run'[r].job = run[r].job
    BY <2>2 DEF AllBut, Fields
  <2>4. BeforeInv(r)
    BY <1>1, <2>1 DEF RunInv, Active
  <2>5. BeforeInv(r)'
    BY <2>1, <2>3, <2>4 DEF BeforeInv
  <2>6. run'[r].job = NoJob
    BY <1>1, <2>1, <2>3 DEF TypeOK
  <2>7. ~run'[r].refresh => AllGood(r)'
    BY <2>1, <2>3, <2>4 DEF BeforeInv, AllGood, Good, HasRow
  <2>8. WorkInv(r)' /\ Active(r)'
    BY <2>1, <2>2, <2>6, <2>7 DEF WorkInv, Active, JobSound
  <2> QED
    BY <1>1, <2>1, <2>5, <2>8, StaysCurrent DEF RunInv
<1> QED
  BY <1>2, <1>3, <1>4, <1>5, <1>6

\* The run reads what is there, and leaves each row that is not good to a step to come, or pending.
LEMMA ReadingSound ==
    ASSUME LeaseInv, NEW r \in Run, NEW d \in Doc, Read(r, d) \/ Skip(r, d) \/ NoText(r, d) \/ Drop(r, d)
    PROVE  RecordedMeansCurrent' /\ RunInv(r)'
<1>1. TypeOK /\ RunOK(run[r]) /\ DOMAIN run = Run /\ RunInv(r) /\ RecordedMeansCurrent /\ ~NewRules
  BY DEF LeaseInv, TypeOK
<1>2. /\ pc[r] = "loop" /\ pc'[r] = "loop" /\ run[r].job = NoJob /\ d \in run[r].visit
      /\ UNCHANGED <<recorded, pass, dirty>>
  BY <1>1 DEF Read, Skip, NoText, Drop, TypeOK, db
<1>3. BeforeInv(r) /\ WorkInv(r) /\ Active(r)'
  BY <1>1, <1>2 DEF RunInv, Active
\* What every one of these steps has to show of the run.
<1>4. ASSUME AllBut(r, {"visit", "pending", "job"}),
             run'[r].visit = run[r].visit \ {d},
             run[r].pending => run'[r].pending,
             \A e \in Doc : row'[e] \in {row[e], Absent},
             run[r].refresh => Good(r, d)' \/ run'[r].pending \/ (run'[r].job # NoJob /\ run'[r].job.doc = d),
             JobSound(r)'
      PROVE  RecordedMeansCurrent' /\ RunInv(r)'
  <2>1. /\ run'[r].began = run[r].began /\ run'[r].refresh = run[r].refresh /\ run'[r].force = run[r].force
        /\ run'[r].declared = run[r].declared /\ run'[r].gone = run[r].gone
    BY <1>4 DEF AllBut, Fields
  <2>2. RecordedMeansCurrent'
    BY <1>1, <1>2, <1>4 DEF RecordedMeansCurrent, HasRow
  <2>3. BeforeInv(r)'
    BY <1>2, <1>3, <2>1 DEF BeforeInv
  <2>4. \A e \in Doc : Good(r, e) => Good(r, e)'
    BY <1>4, <2>1 DEF Good, HasRow
  <2>5. AllGood(r) => AllGood(r)'
    BY <2>4 DEF AllGood
  <2>6. ASSUME NEW e \in Doc, run[r].refresh
        PROVE  Good(r, e)' \/ Ahead(r, e)'
    <3>1. CASE e = d
      BY <1>2, <1>4, <2>6, <3>1 DEF Ahead
    <3>2. CASE e # d
      <4>1. Good(r, e) \/ run[r].pending \/ e \in run[r].visit \/ e \in DOMAIN run[r].gone
        BY <1>2, <1>3, <2>6 DEF WorkInv, Working, Ahead
      <4> QED
        BY <1>2, <1>4, <2>1, <2>4, <3>2, <4>1 DEF Ahead
    <3> QED
      BY <3>1, <3>2
  <2>7. WorkInv(r)'
    <3>1. /\ run'[r].began => recorded' = Absent /\ pass' = r /\ dirty' = NoRun
          /\ ~run'[r].began => recorded' \in {Absent, run'[r].declared} /\ ~run'[r].refresh
          /\ ~run'[r].refresh => AllGood(r)'
      BY <1>2, <1>3, <2>1, <2>5 DEF WorkInv, Working
    <3>2. run'[r].refresh => \A e \in Doc : Good(r, e)' \/ Ahead(r, e)'
      BY <2>1, <2>6
    <3> QED
      BY <1>4, <3>1, <3>2 DEF WorkInv
  <2> QED
    BY <1>3, <2>2, <2>3, <2>7 DEF RunInv
<1>5. CASE Read(r, d)
  <2>1. PICK content \in Found, renamed \in BOOLEAN :
          LET same == ~renamed /\ Unchanged(r, d, content)
              job == [doc |-> d, content |-> content, whole |-> ~same]
          IN  run' = [run EXCEPT ![r].visit = @ \ {d},
                        ![r].job = IF same /\ ~run[r].refresh THEN NoJob ELSE job]
    BY <1>5 DEF Read
  <2> DEFINE same == ~renamed /\ Unchanged(r, d, content)
             job == IF same /\ ~run[r].refresh THEN NoJob ELSE [doc |-> d, content |-> content, whole |-> ~same]
  <2>2. run' = [run EXCEPT ![r].visit = run[r].visit \ {d}, ![r].job = job]
    BY <2>1
  <2>3. run[r].refresh => job.doc = d
    OBVIOUS
  <2>4. job # NoJob /\ ~job.whole =>
          /\ run[r].refresh
          /\ HasRow(job.doc) => row[job.doc].content = job.content
    BY DEF Unchanged, ContentOf
  <2>5. run[r].refresh => job # NoJob
    <3>1. job.doc = d \/ ~run[r].refresh
      BY <2>3
    <3>2. d # Absent
      BY AbsentAssumption
    <3> QED
      BY <3>1, <3>2 DEF NoJob
  <2> HIDE DEF job
  <2>6. AllBut(r, {"visit", "job"}) /\ run'[r].visit = run[r].visit \ {d} /\ run'[r].job = job
    BY <1>1, <2>2, FieldsOfRun DEF RunOK, AllBut, Fields
  <2>7. AllBut(r, {"visit", "pending", "job"}) /\ run'[r].pending = run[r].pending /\ row' = row
    BY <1>5, <2>6 DEF AllBut, Fields, Read, db
  <2>8. JobSound(r)'
    BY <2>4, <2>6, <2>7 DEF AllBut, Fields, JobSound, HasRow
  <2>9. run[r].refresh => run'[r].job # NoJob /\ run'[r].job.doc = d
    BY <2>3, <2>5, <2>6
  <2>10. \A e \in Doc : row'[e] \in {row[e], Absent}
    BY <2>7
  <2> QED
    BY <1>4, <2>6, <2>7, <2>8, <2>9, <2>10
<1>6. CASE Skip(r, d)
  <2> DEFINE pending == run[r].pending \/ (run[r].refresh /\ HasRow(d))
  <2>1. run' = [run EXCEPT ![r].visit = run[r].visit \ {d}, ![r].pending = pending] /\ row' = row
    BY <1>6 DEF Skip, db
  <2>2. run[r].pending => pending
    OBVIOUS
  <2>3. run[r].refresh => ~HasRow(d) \/ pending
    OBVIOUS
  <2> HIDE DEF pending
  <2>4. AllBut(r, {"visit", "pending"}) /\ run'[r].visit = run[r].visit \ {d} /\ run'[r].pending = pending
    BY <1>1, <2>1, FieldsOfRun DEF RunOK, AllBut, Fields
  <2>5. AllBut(r, {"visit", "pending", "job"}) /\ run'[r].job = NoJob
    BY <1>2, <2>4 DEF AllBut, Fields
  <2>6. run[r].refresh => Good(r, d)' \/ run'[r].pending
    BY <2>1, <2>3, <2>4 DEF Good, HasRow
  <2> QED
    BY <1>4, <2>1, <2>2, <2>4, <2>5, <2>6 DEF JobSound
<1>7. CASE NoText(r, d)
  <2>1. PICK content \in Found, renamed \in BOOLEAN :
          /\ Unchanged(r, d, content) => renamed /\ NewRules
          /\ run' = [run EXCEPT ![r].visit = @ \ {d},
                       ![r].pending = @ \/ (/\ run[r].refresh /\ HasRow(d)
                                           /\ ContentOf(d) # content)]
    BY <1>7 DEF NoText
  <2> DEFINE pending == run[r].pending \/ (run[r].refresh /\ HasRow(d) /\ ContentOf(d) # content)
  <2>2. run' = [run EXCEPT ![r].visit = run[r].visit \ {d}, ![r].pending = pending] /\ row' = row
    BY <1>7, <2>1 DEF NoText, db
  <2>3. run[r].refresh => ~run[r].force
    BY <1>3 DEF BeforeInv
  <2>4. run[r].refresh => ContentOf(d) # content
    BY <1>1, <2>1, <2>3 DEF Unchanged
  <2>5. run[r].refresh => ~HasRow(d) \/ pending
    BY <2>4
  <2>6. run[r].pending => pending
    OBVIOUS
  <2> HIDE DEF pending
  <2>7. AllBut(r, {"visit", "pending"}) /\ run'[r].visit = run[r].visit \ {d} /\ run'[r].pending = pending
    BY <1>1, <2>2, FieldsOfRun DEF RunOK, AllBut, Fields
  <2>8. AllBut(r, {"visit", "pending", "job"}) /\ run'[r].job = NoJob
    BY <1>2, <2>7 DEF AllBut, Fields
  <2>9. run[r].refresh => Good(r, d)' \/ run'[r].pending
    BY <2>2, <2>5, <2>7 DEF Good, HasRow
  <2> QED
    BY <1>4, <2>2, <2>6, <2>7, <2>8, <2>9 DEF JobSound
<1>8. CASE Drop(r, d)
  <2>1. run' = [run EXCEPT ![r].visit = run[r].visit \ {d}] /\ row' = [row EXCEPT ![d] = Absent]
    BY <1>8 DEF Drop
  <2>2. AllBut(r, {"visit"}) /\ run'[r].visit = run[r].visit \ {d}
    BY <1>1, <2>1, FieldsOfRun DEF RunOK, AllBut, Fields
  <2>3. AllBut(r, {"visit", "pending", "job"}) /\ run'[r].job = NoJob /\ run'[r].pending = run[r].pending
    BY <1>2, <2>2 DEF AllBut, Fields
  <2>4. Good(r, d)' /\ \A e \in Doc : row'[e] \in {row[e], Absent}
    BY <1>1, <2>1 DEF Good, HasRow, TypeOK
  <2> QED
    BY <1>4, <2>2, <2>3, <2>4 DEF JobSound
<1> QED
  BY <1>5, <1>6, <1>7, <1>8

\* Row d of a later state is what it was or gone, so it is good if it was.
LEMMA GoodKept ==
    ASSUME NEW r \in Run, NEW d \in Doc, Good(r, d), row'[d] \in {row[d], Absent},
           run'[r].declared = run[r].declared
    PROVE  Good(r, d)'
BY DEF Good, HasRow

\* The scan leaves every document with a row to the loop, to the prune, or pending.
LEMMA ScanSound ==
    ASSUME LeaseInv, NEW r \in Run, Scan(r)
    PROVE  RecordedMeansCurrent' /\ RunInv(r)'
<1>1. TypeOK /\ RunOK(run[r]) /\ DOMAIN run = Run /\ RunInv(r) /\ RecordedMeansCurrent
  BY DEF LeaseInv, TypeOK
<1>2. pc[r] = "scan" /\ pc'[r] = "loop" /\ UNCHANGED db /\ run[r].job = NoJob
  BY <1>1 DEF Scan, GoTo, TypeOK
<1>3. BeforeInv(r) /\ WorkInv(r) /\ Active(r)'
  BY <1>1, <1>2 DEF RunInv, Active
<1>4. PICK found \in SUBSET Doc, skipped \in SUBSET Doc :
        run' = [run EXCEPT
                  ![r].gone = [d \in {e \in Doc \ (found \cup skipped) : HasRow(e)} |-> row[d].content],
                  ![r].visit = found,
                  ![r].pending = run[r].refresh /\ \E d \in skipped : HasRow(d)]
  BY DEF Scan
<1> DEFINE contents == [d \in {e \in Doc \ (found \cup skipped) : HasRow(e)} |-> row[d].content]
           pending == run[r].refresh /\ \E d \in skipped : HasRow(d)
<1>5. run' = [run EXCEPT ![r].gone = contents, ![r].visit = found, ![r].pending = pending]
  BY <1>4
<1>6. \A d \in Doc : HasRow(d) /\ run[r].refresh => d \in found \/ d \in DOMAIN contents \/ pending
  OBVIOUS
<1> HIDE DEF contents, pending
<1>7. AllBut(r, {"gone", "visit", "pending"}) /\ run'[r].gone = contents /\ run'[r].visit = found
      /\ run'[r].pending = pending
  BY <1>1, <1>5, FieldsOfRun DEF RunOK, AllBut, Fields
<1>8. /\ run'[r].began = run[r].began /\ run'[r].refresh = run[r].refresh /\ run'[r].force = run[r].force
      /\ run'[r].declared = run[r].declared /\ run'[r].job = NoJob
  BY <1>2, <1>7 DEF AllBut, Fields
<1>9. BeforeInv(r)'
  BY <1>2, <1>3, <1>8 DEF BeforeInv
<1>10. AllGood(r) => AllGood(r)'
  BY <1>2, <1>8, GoodKept DEF AllGood, db
<1>11. run[r].refresh => \A d \in Doc : Good(r, d)' \/ Ahead(r, d)'
  <2>1. ASSUME NEW d \in Doc, run[r].refresh
        PROVE  Good(r, d)' \/ Ahead(r, d)'
    <3>1. CASE HasRow(d)
      BY <1>2, <1>6, <1>7, <2>1, <3>1 DEF Ahead
    <3>2. CASE ~HasRow(d)
      BY <1>2, <3>2 DEF Good, HasRow, db
    <3> QED
      BY <3>1, <3>2
  <2> QED
    BY <2>1
<1>12. WorkInv(r)'
  <2>1. /\ run'[r].began => recorded' = Absent /\ pass' = r /\ dirty' = NoRun
        /\ ~run'[r].began => recorded' \in {Absent, run'[r].declared} /\ ~run'[r].refresh
        /\ ~run'[r].refresh => AllGood(r)'
    BY <1>2, <1>3, <1>8, <1>10 DEF WorkInv, Working, db
  <2>2. JobSound(r)'
    BY <1>8 DEF JobSound
  <2> QED
    BY <1>8, <1>11, <2>1, <2>2 DEF WorkInv
<1> QED
  BY <1>1, <1>2, <1>3, <1>9, <1>12, StaysCurrent DEF RunInv, db

\* The row written is good, and nobody's pass is marked or set taken back by it.
LEMMA WriteSound ==
    ASSUME LeaseInv, NEW r \in Run, Write(r)
    PROVE  RecordedMeansCurrent' /\ RunInv(r)'
<1>1. TypeOK /\ RunOK(run[r]) /\ DOMAIN run = Run /\ RunInv(r) /\ RecordedMeansCurrent
  BY DEF LeaseInv, TypeOK
<1>2. /\ pc[r] = "loop" /\ pc'[r] = "loop" /\ pass' = pass /\ run[r].job # NoJob
      /\ run' = [run EXCEPT ![r].job = NoJob]
  BY DEF Write
<1>3. BeforeInv(r) /\ WorkInv(r) /\ Active(r)'
  BY <1>1, <1>2 DEF RunInv, Active
<1>4. AllBut(r, {"job"}) /\ run'[r].job = NoJob
  BY <1>1, <1>2, FieldsOfRun DEF RunOK, AllBut, Fields
<1>5. /\ run'[r].began = run[r].began /\ run'[r].refresh = run[r].refresh /\ run'[r].force = run[r].force
      /\ run'[r].declared = run[r].declared /\ run'[r].gone = run[r].gone
      /\ run'[r].visit = run[r].visit /\ run'[r].pending = run[r].pending
  BY <1>4 DEF AllBut, Fields
<1>6. PICK entry \in Doc : entry = run[r].job.doc
  BY <1>1, <1>2 DEF RunOK, Job
<1>7. \A d \in Doc \ {entry} : row'[d] = row[d]
  BY <1>1, <1>6 DEF Write, TypeOK
<1>8. Good(r, entry)'
  <2>1. CASE run[r].job.whole
    BY <1>1, <1>5, <1>6, <2>1 DEF Write, Good, TypeOK
  <2>2. CASE ~run[r].job.whole /\ HasRow(entry)
    <3>1. row[entry].content = run[r].job.content
      BY <1>2, <1>3, <1>6, <2>2 DEF WorkInv, Working, JobSound
    <3>2. row'[entry] = [content |-> row[entry].content,
                         fields |-> run[r].job.content \cap run[r].declared]
      BY <1>1, <1>6, <2>2 DEF Write, TypeOK
    <3> QED
      BY <1>5, <3>1, <3>2 DEF Good
  <2>3. CASE ~run[r].job.whole /\ ~HasRow(entry)
    BY <1>6, <2>3 DEF Write, Good, HasRow
  <2> QED
    BY <2>1, <2>2, <2>3
<1>9. \A d \in Doc : Good(r, d) => Good(r, d)'
  <2>1. ASSUME NEW d \in Doc \ {entry}, Good(r, d)
        PROVE  Good(r, d)'
    BY <1>5, <1>7, <2>1, GoodKept
  <2> QED
    BY <1>8, <2>1
<1>10. recorded' \in {recorded, Absent} /\ (run[r].began => dirty' = dirty)
  BY <1>2, <1>3 DEF Write, WorkInv, Working, ForeignPass
<1>11. RecordedMeansCurrent'
  <2>1. ASSUME recorded' # Absent, NEW d \in Doc, HasRow(d)'
        PROVE  row'[d].fields = row'[d].content \cap recorded'
    <3>1. recorded' = recorded /\ recorded # Absent
      BY <1>10, <2>1
    <3>2. recorded = run[r].declared
      BY <1>2, <1>3, <3>1 DEF WorkInv, Working
    <3>3. CASE d = entry
      BY <1>5, <1>8, <2>1, <3>1, <3>2, <3>3 DEF Good
    <3>4. CASE d # entry
      BY <1>1, <1>7, <2>1, <3>1, <3>4 DEF RecordedMeansCurrent, HasRow
    <3> QED
      BY <3>3, <3>4
  <2> QED
    BY <2>1 DEF RecordedMeansCurrent, HasRow
<1>12. BeforeInv(r)'
  BY <1>2, <1>3, <1>5 DEF BeforeInv
<1>13. run[r].refresh => \A d \in Doc : Good(r, d)' \/ Ahead(r, d)'
  <2>1. ASSUME NEW d \in Doc, run[r].refresh
        PROVE  Good(r, d)' \/ Ahead(r, d)'
    <3>1. CASE d = entry
      BY <1>8, <3>1
    <3>2. CASE d # entry
      <4>1. Good(r, d) \/ run[r].pending \/ d \in run[r].visit \/ d \in DOMAIN run[r].gone
        BY <1>2, <1>3, <1>6, <2>1, <3>2 DEF WorkInv, Working, Ahead
      <4> QED
        BY <1>2, <1>5, <1>9, <4>1 DEF Ahead
    <3> QED
      BY <3>1, <3>2
  <2> QED
    BY <2>1
<1>14. WorkInv(r)'
  <2>1. run'[r].began => recorded' = Absent /\ pass' = r /\ dirty' = NoRun
    BY <1>2, <1>3, <1>5, <1>10 DEF WorkInv, Working
  <2>2. ~run'[r].began => recorded' \in {Absent, run'[r].declared} /\ ~run'[r].refresh
    BY <1>2, <1>3, <1>5, <1>10 DEF WorkInv, Working
  <2>3. ~run'[r].refresh => AllGood(r)'
    BY <1>2, <1>3, <1>5, <1>9 DEF WorkInv, Working, AllGood
  <2>4. JobSound(r)'
    BY <1>4 DEF JobSound
  <2> QED
    BY <1>5, <1>13, <2>1, <2>2, <2>3, <2>4 DEF WorkInv
<1> QED
  BY <1>3, <1>11, <1>12, <1>14 DEF RunInv

\* A run comes to the end with nothing left but what is pending.
LEMMA EndingSound ==
    ASSUME LeaseInv, NEW r \in Run, EndLoop(r) \/ Prune(r)
    PROVE  RecordedMeansCurrent' /\ RunInv(r)'
<1>1. TypeOK /\ RunOK(run[r]) /\ RunInv(r) /\ RecordedMeansCurrent
  BY DEF LeaseInv, TypeOK
<1>2. /\ pc[r] \in {"loop", "prune"} /\ pc'[r] \in {"prune", "finish", "keptRows"}
      /\ UNCHANGED <<recorded, pass, dirty, run>>
      /\ run[r].job = NoJob
      /\ \A d \in Doc : row'[d] \in {row[d], Absent}
  <2>1. CASE EndLoop(r)
    BY <1>1, <2>1 DEF EndLoop, GoTo, TypeOK, db
  <2>2. CASE Prune(r)
    <3> DEFINE kept == {d \in DOMAIN run[r].gone : HasRow(d) /\ ContentOf(d) # run[r].gone[d]}
    <3>1. pc'[r] = IF kept = {} THEN "finish" ELSE "keptRows"
      BY <1>1, <2>2 DEF Prune, GoTo, TypeOK
    <3> QED
      BY <1>1, <2>2, <3>1 DEF Prune, TypeOK
  <2> QED
    BY <2>1, <2>2
<1>3. BeforeInv(r) /\ WorkInv(r) /\ Active(r)'
  BY <1>1, <1>2 DEF RunInv, Active
<1>4. RecordedMeansCurrent'
  BY <1>1, <1>2 DEF RecordedMeansCurrent, HasRow
<1>5. BeforeInv(r)'
  BY <1>2, <1>3 DEF BeforeInv
<1>6. \A d \in Doc : Good(r, d) => Good(r, d)'
  BY <1>2, GoodKept
<1>7. run[r].refresh /\ pc'[r] \in {"loop", "prune", "finish"} => \A d \in Doc : Good(r, d)' \/ Ahead(r, d)'
  <2>1. ASSUME NEW d \in Doc, run[r].refresh, pc'[r] \in {"loop", "prune", "finish"}
        PROVE  Good(r, d)' \/ Ahead(r, d)'
    <3>1. Good(r, d) \/ Ahead(r, d)
      BY <1>2, <1>3, <2>1 DEF WorkInv, Working
    <3>2. CASE EndLoop(r)
      BY <1>1, <1>2, <1>6, <3>1, <3>2 DEF EndLoop, GoTo, Ahead, TypeOK
    <3>3. CASE Prune(r)
      <4> DEFINE kept == {e \in DOMAIN run[r].gone : HasRow(e) /\ ContentOf(e) # run[r].gone[e]}
      <4>1. pc[r] = "prune" /\ kept = {}
        BY <1>1, <2>1, <3>3 DEF Prune, GoTo, TypeOK
      <4>2. CASE d \in DOMAIN run[r].gone
        <5>1. row'[d] = Absent
          BY <3>3, <4>1, <4>2 DEF Prune
        <5> QED
          BY <5>1 DEF Good, HasRow
      <4>3. CASE d \notin DOMAIN run[r].gone
        BY <1>2, <1>6, <3>1, <4>1, <4>3 DEF Ahead
      <4> QED
        BY <4>2, <4>3
    <3> QED
      BY <3>2, <3>3
  <2> QED
    BY <2>1
<1>8. WorkInv(r)'
  <2>1. /\ run'[r].began => recorded' = Absent /\ pass' = r /\ dirty' = NoRun
        /\ ~run'[r].began => recorded' \in {Absent, run'[r].declared} /\ ~run'[r].refresh
    BY <1>2, <1>3 DEF WorkInv, Working
  <2>2. ~run'[r].refresh => AllGood(r)'
    BY <1>2, <1>3, <1>6 DEF WorkInv, Working, AllGood
  <2>3. JobSound(r)'
    BY <1>2 DEF JobSound
  <2> QED
    BY <1>2, <1>7, <2>1, <2>2, <2>3 DEF WorkInv
<1> QED
  BY <1>3, <1>4, <1>5, <1>8 DEF RunInv

\* A run that may speak for every row has them all as its schema says.
LEMMA ReadAllIsGood ==
    ASSUME LeaseInv, NEW r \in Run, ReadAll(r)
    PROVE  AllGood(r) /\ (run[r].began => pass = r /\ dirty = NoRun)
<1>1. RunInv(r) /\ pc[r] = "finish"
  BY DEF LeaseInv, ReadAll
<1>2. BeforeInv(r) /\ WorkInv(r)
  BY <1>1 DEF RunInv, Active
<1>3. CASE ~run[r].refresh
  BY <1>1, <1>2, <1>3 DEF WorkInv, Working
<1>4. CASE run[r].refresh
  <2>1. ~run[r].pending
    BY <1>2, <1>4 DEF BeforeInv, ReadAll
  <2>2. \A d \in Doc : ~Ahead(r, d)
    BY <1>1, <2>1 DEF Ahead
  <2> QED
    BY <1>1, <1>2, <1>4, <2>2 DEF WorkInv, Working, AllGood
<1> QED
  BY <1>3, <1>4

LEMMA EndSound ==
    ASSUME LeaseInv, NEW r \in Run, Finish(r) \/ Cancel(r) \/ Stop(r)
    PROVE  RecordedMeansCurrent' /\ RunInv(r)'
<1>1. TypeOK /\ RecordedMeansCurrent
  BY DEF LeaseInv
<1>2. PICK label \in {"idle", "stopped"} : End(r, label)
  BY DEF Finish, Cancel, Stop
<1>3. RunInv(r)'
  <2>1. label \in PC
    BY DEF PC
  <2>2. run'[r] = NotStarted /\ pc'[r] = label
    BY <1>1, <1>2, <2>1, EndTyped DEF TypeOK
  <2> QED
    BY <2>2 DEF RunInv, Active
<1>4. RecordedMeansCurrent'
  <2>1. row' = row
    BY DEF Finish, Cancel, Stop, db
  <2>2. recorded' \in {recorded, Absent} \/ (ReadAll(r) /\ recorded' = run[r].declared)
    BY DEF Finish, Cancel, Stop, CancelledPass, ClosePass, db
  <2>3. CASE recorded' \in {recorded, Absent}
    BY <1>1, <2>1, <2>3, StaysCurrent
  <2>4. CASE ReadAll(r) /\ recorded' = run[r].declared
    BY <2>1, <2>4, ReadAllIsGood DEF RecordedMeansCurrent, AllGood, Good, HasRow
  <2> QED
    BY <2>2, <2>3, <2>4
<1> QED
  BY <1>3, <1>4

LEMMA RebuildSound ==
    ASSUME LeaseInv, NEW r \in Run, Rebuild(r)
    PROVE  LeaseInv'
<1>1. RecordedMeansCurrent' /\ RunInv(r)'
  <2>1. CASE Start(r) \/ Reset(r) \/ Look(r) \/ Decide(r) \/ Begin(r)
    BY <2>1, BeginningSound
  <2>2. CASE Scan(r)
    BY <2>2, ScanSound
  <2>3. CASE \E d \in Doc : Read(r, d) \/ Skip(r, d) \/ NoText(r, d) \/ Drop(r, d)
    BY <2>3, ReadingSound
  <2>4. CASE Write(r)
    BY <2>4, WriteSound
  <2>5. CASE EndLoop(r) \/ Prune(r)
    BY <2>5, EndingSound
  <2>6. CASE Finish(r) \/ Cancel(r) \/ Stop(r)
    BY <2>6, EndSound
  <2> QED
    BY <2>1, <2>2, <2>3, <2>4, <2>5, <2>6 DEF Rebuild
<1> QED
  BY <1>1, Alone, OthersStay

\* The watcher writes while no run is at work, under the set it reads.
LEMMA WatchSound ==
    ASSUME LeaseInv, Watch
    PROVE  LeaseInv'
<1>1. TypeOK' /\ UNCHANGED <<recorded, pass, pc, run>>
  BY WatchTyped DEF LeaseInv, Watch, WatchWrite, WatchRemove
<1>2. \A r \in Run : ~Active(r) /\ run[r] = NotStarted
  <2>1. ~LeaseHeld
    BY DEF LeaseInv, Watch, WatchWrite, WatchRemove, MayWatch
  <2> QED
    BY <2>1 DEF LeaseInv, LeaseHeld, Run, RunInv
<1>3. \A r \in Run : ~Active(r)' /\ RunInv(r)'
  BY <1>1, <1>2 DEF RunInv, Active
<1>4. RecordedMeansCurrent'
  <2>1. ASSUME recorded' # Absent, NEW e \in Doc, HasRow(e)'
        PROVE  row'[e].fields = row'[e].content \cap recorded'
    <3>1. recorded' = recorded /\ recorded # Absent
      BY <1>1, <2>1
    <3>2. row'[e] = row[e] \/ row'[e] = Absent
          \/ \E content \in Found : row'[e] = [content |-> content, fields |-> content \cap recorded]
      BY <3>1 DEF LeaseInv, TypeOK, Watch, WatchWrite, WatchRemove, WatchedFields
    <3>3. row'[e] # Absent
      BY <2>1 DEF HasRow
    <3>4. CASE row'[e] = row[e]
      BY <3>1, <3>3, <3>4 DEF LeaseInv, RecordedMeansCurrent, HasRow
    <3>5. CASE \E content \in Found : row'[e] = [content |-> content, fields |-> content \cap recorded]
      <4>1. PICK content \in Found : row'[e] = [content |-> content, fields |-> content \cap recorded]
        BY <3>5
      <4>2. row'[e].content = content /\ row'[e].fields = content \cap recorded
        BY <4>1
      <4> QED
        BY <3>1, <4>2
    <3> QED
      BY <3>2, <3>3, <3>4, <3>5
  <2> QED
    BY <2>1 DEF RecordedMeansCurrent, HasRow
<1> QED
  BY <1>1, <1>3, <1>4 DEF LeaseInv

LEMMA LeaseInvNext == LeaseInv /\ [Next]_vars => LeaseInv'
<1> SUFFICES ASSUME LeaseInv, [Next]_vars PROVE LeaseInv'
  OBVIOUS
<1>1. CASE \E r \in Run : Rebuild(r)
  BY <1>1, RebuildSound
<1>2. CASE Watch
  BY <1>2, WatchSound
<1>3. CASE UNCHANGED vars
  <2>1. TypeOK'
    BY TypeOKNext DEF LeaseInv
  <2>2. UNCHANGED <<row, recorded, pass, dirty, pc, run>>
    BY <1>3 DEF vars, db
  <2>3. RecordedMeansCurrent'
    BY <2>2, StaysCurrent DEF LeaseInv
  <2>4. ASSUME NEW r \in Run PROVE RunInv(r)'
    <3>1. RunInv(r)
      BY DEF LeaseInv
    <3>2. BeforeInv(r) => BeforeInv(r)'
      BY <2>2 DEF BeforeInv, HasRow
    <3>3. \A d \in Doc : (Good(r, d) => Good(r, d)') /\ (Ahead(r, d) => Ahead(r, d)')
      BY <2>2 DEF Good, Ahead, HasRow
    <3>4. AllGood(r) => AllGood(r)'
      BY <3>3 DEF AllGood
    <3>5. JobSound(r) => JobSound(r)'
      BY <2>2 DEF JobSound, HasRow
    <3>6. WorkInv(r) => WorkInv(r)'
      BY <2>2, <3>3, <3>4, <3>5 DEF WorkInv
    <3> QED
      BY <2>2, <3>1, <3>2, <3>6 DEF RunInv, Active
  <2> QED
    BY <2>1, <2>2, <2>3, <2>4 DEF LeaseInv, Active
<1> QED
  BY <1>1, <1>2, <1>3 DEF Next

LEMMA InitLease == Free = {} /\ ~NewRules /\ Init => LeaseInv
<1> SUFFICES ASSUME Free = {}, ~NewRules, Init PROVE LeaseInv
  OBVIOUS
<1>1. \A r \in Run : ~Active(r) /\ RunInv(r)
  BY DEF Init, RunInv, Active
<1> QED
  BY <1>1, InitTyped DEF LeaseInv, Init, RecordedMeansCurrent

LEMMA LeaseInvAlways == Free = {} /\ ~NewRules /\ Spec => []LeaseInv
  BY InitLease, LeaseInvNext, PTL DEF Spec

\* Where every writer takes the lease and the rules for what is left out of a document do not
\* change: while a set is recorded every row's fields are those of its content under it,
\* whatever run failed, was killed or was cancelled between any two steps before.
THEOREM LeasedRecordedMeansCurrent == Free = {} /\ ~NewRules /\ Spec => []RecordedMeansCurrent
<1>1. LeaseInv => RecordedMeansCurrent
  BY DEF LeaseInv
<1> QED
  BY <1>1, LeaseInvAlways, PTL

(***************************************************************************)
(* How a run ends                                                          *)
(***************************************************************************)

\* A step of another run, or of the watcher, ends no run but its own.
LEMMA EndsItself ==
    ASSUME TypeOK, [Next]_vars, NEW r \in Run, EndsInOrder(r)
    PROVE  Finish(r) \/ Cancel(r)
<1>1. pc'[r] # pc[r]
  BY DEF EndsInOrder, Active
<1>2. ~Watch /\ ~UNCHANGED vars
  BY <1>1 DEF Watch, WatchWrite, WatchRemove, vars
<1>3. PICK s \in Run : Rebuild(s)
  BY <1>2 DEF Next
<1>4. \A t \in Run \ {s} : pc'[t] = pc[t]
  BY <1>3 DEF TypeOK, Rebuild, Start, Reset, Look, Decide, Begin, Scan, Read, Skip, NoText, Drop, Write,
         EndLoop, Prune, Finish, Cancel, Stop, End, GoTo
<1>5. s = r
  BY <1>1, <1>4
<1>6. Rebuild(r) /\ pc'[r] = "idle" /\ Active(r)
  BY <1>3, <1>5 DEF EndsInOrder
<1>7. pc'[r] = "idle" /\ Prune(r) => FALSE
  <2> DEFINE kept == {d \in DOMAIN run[r].gone : HasRow(d) /\ ContentOf(d) # run[r].gone[d]}
  <2>1. Prune(r) => pc'[r] = IF kept = {} THEN "finish" ELSE "keptRows"
    BY DEF Prune, GoTo, TypeOK
  <2> QED
    BY <2>1
<1> QED
  BY <1>6, <1>7 DEF TypeOK, Rebuild, Active, Start, Reset, Look, Decide, Begin, Scan, Read, Skip, NoText, Drop,
         Write, EndLoop, Stop, End, GoTo

\* A run that began a pass and ends in order, finished or cancelled, leaves no pass open under
\* its name, whichever runs overlap it and whether the pass is still its own or not.
THEOREM PassClosed == Spec => EndedPassClosed
<1>1. ASSUME TypeOK, [Next]_vars, NEW r \in Run, EndsInOrder(r), run[r].began
      PROVE  pass' # r
  <2>1. \E record : ClosePass(r, record)
    BY <1>1, EndsItself DEF Finish, Cancel, CancelledPass
  <2> QED
    BY <1>1, <2>1, RunAssumption DEF ClosePass, Superseded
<1>2. TypeOK /\ [Next]_vars => [\A r \in Run : EndsInOrder(r) /\ run[r].began => pass' # r]_vars
  BY <1>1
<1> QED
  BY <1>2, TypeCorrect, PTL DEF Spec, EndedPassClosed

\* Where every writer takes the lease, a pass that read every row it had to is recorded:
\* nobody took it over, and no mark of an earlier one is taken for its own.
THEOREM LeasedPassRecords == ~NewRules /\ Spec => LonePassRecords
<1>1. ASSUME LeaseInv, [Next]_vars, NEW r \in Leased, EndsInOrder(r), ReadAll(r), run[r].began
      PROVE  recorded' = run[r].declared
  <2>1. Finish(r)
    BY <1>1, EndsItself DEF LeaseInv, Run, ReadAll, Cancel
  <2>2. pass = r /\ dirty = NoRun
    BY <1>1, ReadAllIsGood DEF Run
  <2> QED
    BY <1>1, <2>1, <2>2, RunAssumption DEF Finish, ClosePass, Superseded, Spoilt, Run
<1>2. (Free = {} => LeaseInv) /\ [Next]_vars =>
        [\A r \in Leased : Free = {} /\ EndsInOrder(r) /\ ReadAll(r) /\ run[r].began
                               => recorded' = run[r].declared]_vars
  BY <1>1
<1>3. ~NewRules /\ Init => (Free = {} => LeaseInv)
  BY InitLease
<1>4. (Free = {} => LeaseInv) /\ [Next]_vars => (Free = {} => LeaseInv)'
  BY LeaseInvNext
<1> QED
  BY <1>2, <1>3, <1>4, PTL DEF Spec, LonePassRecords
==============================================================================
