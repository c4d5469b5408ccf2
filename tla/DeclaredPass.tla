----------------------------- MODULE DeclaredPass -----------------------------
(***************************************************************************)
(* Which declared frontmatter fields the index holds, and how it knows     *)
(* (the declared-field pass of indexer.rs and its keys in db/meta.rs).     *)
(*                                                                         *)
(* Every document row carries the fields of its content that the schema    *)
(* declared when the row was written.  The key declared_fields records the *)
(* set all rows were written under; a query that filters on a field trusts *)
(* it, and is refused while it is absent.  A rebuild whose schema declares *)
(* another set clears the key, names itself in declared_fields_pass,       *)
(* writes every row again and records its set, unless another writer wrote *)
(* a row meanwhile (declared_fields_dirty).                                *)
(*                                                                         *)
(* Runs that take the writer lease exclude each other, and the watcher of  *)
(* a server that takes it.  Free runs are those of processes that do not   *)
(* take part (an older binary, a program that links the library): they and *)
(* the watchers of such processes overlap anything.  Any run may fail, be  *)
(* killed or be cancelled between two steps.                               *)
(*                                                                         *)
(* A document's content is the set of the keys its frontmatter has (two    *)
(* contents with the same keys are one); each transaction is one action.   *)
(* One name stands for many runs, one after the other: its token is only   *)
(* compared with those of other names and with what it found.              *)
(***************************************************************************)
EXTENDS FiniteSets

CONSTANTS Doc,          \* documents; one that is renamed keeps its row
          Key,          \* frontmatter keys
          Leased,       \* rebuilds that take the writer lease
          Free,         \* rebuilds that do not
          Sets,         \* the sets a schema may declare
          Forcing,      \* whether a run may, or must, empty the index first
          Found,        \* the contents files may have
          NewRules,     \* which headings are left out may change between runs
          Absent,       \* no such row or key
          NoRun

Run == Leased \cup Free

ASSUME RunAssumption == Leased \cap Free = {} /\ NoRun \notin Run
ASSUME SetsAssumption == 
    /\ Sets \cup Found \subseteq SUBSET Key
    /\ Forcing \subseteq BOOLEAN
    /\ NewRules \in BOOLEAN
ASSUME AbsentAssumption == Absent \notin Doc /\ \A set \in SUBSET Key : Absent # set

VARIABLES
    row,        \* row[d]: the content and the fields of document d, or Absent
    recorded,   \* declared_fields
    pass,       \* declared_fields_pass: the run whose pass is open
    dirty,      \* declared_fields_dirty: the pass another writer wrote under
    pc,         \* the next step of each run
    run         \* what each run knows

db == <<row, recorded, pass, dirty>>
vars == <<db, pc, run>>

Content == SUBSET Key
Row == [content : Content, fields : Content]

\* The document a run is about to write, whole or for its fields only.
Job == [doc : Doc, content : Content, whole : BOOLEAN]
NoJob == [doc |-> Absent, content |-> {}, whole |-> FALSE]

\* What a run knows:
\*   declared   the set its schema declares
\*   force      it empties the index first
\*   observed   what it read as recorded
\*   began      it began a pass, under its own name
\*   refresh    unchanged documents are read again for their fields
\*   gone       the rows whose files its scan did not find, with their contents
\*   visit      the documents its scan read and its loop has still to look at
\*   pending    a row it should have read again stays as it was
NotStarted ==
    [declared |-> {}, force |-> FALSE, observed |-> Absent, began |-> FALSE,
     refresh |-> FALSE, gone |-> [d \in {} |-> {}], visit |-> {}, pending |-> FALSE,
     job |-> NoJob]

\* A value that may be missing.
Optional(value, set) == value = Absent \/ value \in set

RunOK(k) ==
    /\ DOMAIN k = DOMAIN NotStarted
    /\ k.declared \in Content
    /\ {k.force, k.began, k.refresh, k.pending} \subseteq BOOLEAN
    /\ Optional(k.observed, Content)
    /\ DOMAIN k.gone \subseteq Doc
    /\ \A d \in DOMAIN k.gone : k.gone[d] \in Content
    /\ k.visit \subseteq Doc
    /\ k.visit \cap DOMAIN k.gone = {}
    /\ k.job = NoJob \/ k.job \in Job

PC == {"idle", "stopped", "reset", "look", "decide", "begin", "scan", "loop", "prune",
       "keptRows", "finish"}

TypeOK ==
    /\ DOMAIN row = Doc
    /\ \A d \in Doc : Optional(row[d], Row)
    /\ Optional(recorded, Content)
    /\ pass \in Run \cup {NoRun}
    /\ dirty \in {NoRun, pass}
    /\ pc \in [Run -> PC]
    /\ DOMAIN run = Run
    /\ \A r \in Run : RunOK(run[r])
    /\ \A r \in Run : run[r].job # NoJob => pc[r] = "loop"

\* An index of before 1.9.0, or a new one: no key and no fields.
Init ==
    /\ row \in [Doc -> [content : Found, fields : {{}}] \cup {Absent}]
    /\ recorded = Absent
    /\ pass = NoRun
    /\ dirty = NoRun
    /\ pc = [r \in Run |-> "idle"]
    /\ run = [r \in Run |-> NotStarted]

Active(r) == pc[r] \notin {"idle", "stopped"}

\* A run with the lease is writing.
LeaseHeld == \E r \in Leased : Active(r)

GoTo(r, label) == pc' = [pc EXCEPT ![r] = label]

\* The run ends and what it knows is gone.
End(r, label) ==
    /\ GoTo(r, label)
    /\ run' = [run EXCEPT ![r] = NotStarted]

HasRow(d) == row[d] # Absent
ContentOf(d) == IF HasRow(d) THEN row[d].content ELSE Absent

(***************************************************************************)
(* The start of a rebuild                                                  *)
(***************************************************************************)

\* Its schema may have been read long before: `groove index` reads it ahead of
\* the lease.
Start(r) ==
    /\ ~Active(r)
    /\ r \in Leased => ~LeaseHeld
    /\ \E set \in Sets, force \in Forcing :
          /\ run' = [run EXCEPT ![r].declared = set, ![r].force = force]
          /\ GoTo(r, IF force THEN "reset" ELSE "look")
    /\ UNCHANGED db

\* reset_for_model: the rows go together with the key that speaks for them.
Reset(r) ==
    /\ pc[r] = "reset"
    /\ row' = [d \in Doc |-> Absent]
    /\ recorded' = Absent
    /\ GoTo(r, "look")
    /\ UNCHANGED <<pass, dirty, run>>

Look(r) ==
    /\ pc[r] = "look"
    /\ run' = [run EXCEPT ![r].observed = recorded]
    /\ GoTo(r, "decide")
    /\ UNCHANGED db

\* Mutant: an absent key is always taken for "nothing declared yet".
NothingToClear_Assumed(r) == run[r].observed = Absent /\ run[r].declared = {}

\* Nothing is declared, was ever recorded or is left over.
NothingToClear(r) ==
    /\ run[r].observed = Absent
    /\ run[r].declared = {}
    /\ \A d \in Doc : HasRow(d) => row[d].fields = {}

Decide(r) ==
    LET again == /\ ~run[r].force
                 /\ run[r].observed # run[r].declared
                 /\ ~NothingToClear(r)
    IN  /\ pc[r] = "decide"
        /\ run' = [run EXCEPT ![r].refresh = again]
        /\ GoTo(r, IF again \/ run[r].force THEN "begin" ELSE "scan")
        /\ UNCHANGED db

\* Mutant: the mark of the pass before is left.
MarkAtBegin_Kept == dirty

\* A new pass starts without a mark.
MarkAtBegin == NoRun

\* The key is cleared before the first row is written.  A pass left open, by a
\* run still going on or not, is taken over.
Begin(r) ==
    /\ pc[r] = "begin"
    /\ recorded' = Absent
    /\ pass' = r
    /\ dirty' = MarkAtBegin
    /\ run' = [run EXCEPT ![r].began = TRUE]
    /\ GoTo(r, "scan")
    /\ UNCHANGED row

\* Files the scan can read are visited; of those it cannot, the row is spared;
\* the others are gone.  A skipped document with a row leaves the refresh
\* pending.
Scan(r) ==
    /\ pc[r] = "scan"
    /\ \E found \in SUBSET Doc : \E skipped \in SUBSET (Doc \ found) :
          LET gone == {d \in Doc \ (found \cup skipped) : HasRow(d)}
          IN  run' = [run EXCEPT
                        ![r].gone = [d \in gone |-> row[d].content],
                        ![r].visit = found,
                        ![r].pending = run[r].refresh /\ \E d \in skipped : HasRow(d)]
    /\ GoTo(r, "loop")
    /\ UNCHANGED db

(***************************************************************************)
(* The loop over the documents                                             *)
(***************************************************************************)

\* Is what was read what the row was written from?
Unchanged(r, d, content) == ~run[r].force /\ ContentOf(d) = content

\* A file is read: the row stays, its fields are to be written again, or all
\* of it, as for a renamed document.
Read(r, d) ==
    /\ pc[r] = "loop"
    /\ run[r].job = NoJob
    /\ d \in run[r].visit
    /\ \E content \in Found, renamed \in BOOLEAN :
          LET same == ~renamed /\ Unchanged(r, d, content)
              job == [doc |-> d, content |-> content, whole |-> ~same]
          IN  run' = [run EXCEPT ![r].visit = @ \ {d},
                        ![r].job = IF same /\ ~run[r].refresh THEN NoJob ELSE job]
    /\ UNCHANGED <<db, pc>>

\* It cannot be read, or not be embedded: the row stays.
Skip(r, d) ==
    /\ pc[r] = "loop"
    /\ run[r].job = NoJob
    /\ d \in run[r].visit
    /\ run' = [run EXCEPT ![r].visit = @ \ {d},
                 ![r].pending = @ \/ (run[r].refresh /\ HasRow(d))]
    /\ UNCHANGED <<db, pc>>

\* It is read whole and has no text: the row stays.  What its row was written
\* from did have some, under the rules of then; of the documents with that same
\* content only a renamed one is read whole.
NoText(r, d) ==
    /\ pc[r] = "loop"
    /\ run[r].job = NoJob
    /\ d \in run[r].visit
    /\ \E content \in Found, renamed \in BOOLEAN :
          /\ Unchanged(r, d, content) => renamed /\ NewRules
          /\ run' = [run EXCEPT ![r].visit = @ \ {d},
                       ![r].pending = @ \/ (/\ run[r].refresh /\ HasRow(d)
                                           /\ ContentOf(d) # content)]
    /\ UNCHANGED <<db, pc>>

\* A parser that took a renamed document over has nothing to index: the row goes.
Drop(r, d) ==
    /\ pc[r] = "loop"
    /\ run[r].job = NoJob
    /\ d \in run[r].visit
    /\ run' = [run EXCEPT ![r].visit = @ \ {d}]
    /\ row' = [row EXCEPT ![d] = Absent]
    /\ UNCHANGED <<recorded, pass, dirty, pc>>

\* Another run's pass is open.
ForeignPass(r) == pass # NoRun /\ ~(run[r].began /\ pass = r)

\* Mutant: a finished run's set is not looked at.
Overtaken_Never(r) == FALSE

\* Another set was recorded meanwhile, and no pass is open to be told.
Overtaken(r) == pass = NoRun /\ recorded # Absent /\ recorded # run[r].declared

\* One transaction: the row, or the fields of the row there still is.
Write(r) ==
    LET job == run[r].job
        d == job.doc
        content == IF job.whole THEN job.content ELSE row[d].content
    IN  /\ pc[r] = "loop"
        /\ job # NoJob
        /\ row' = IF job.whole \/ HasRow(d)
                  THEN [row EXCEPT ![d] = [content |-> content,
                                           fields |-> job.content \cap run[r].declared]]
                  ELSE row
        /\ dirty' = IF ForeignPass(r) THEN pass ELSE dirty
        /\ recorded' = IF Overtaken(r) THEN Absent ELSE recorded
        /\ run' = [run EXCEPT ![r].job = NoJob]
        /\ UNCHANGED <<pass, pc>>

EndLoop(r) ==
    /\ pc[r] = "loop"
    /\ run[r].visit = {}
    /\ run[r].job = NoJob
    /\ GoTo(r, "prune")
    /\ UNCHANGED <<db, run>>

(***************************************************************************)
(* The end of a rebuild                                                    *)
(***************************************************************************)

\* The rows whose files are gone are deleted, unless changed since.
Prune(r) ==
    LET gone == run[r].gone
        kept == {d \in DOMAIN gone : HasRow(d) /\ ContentOf(d) # gone[d]}
    IN  /\ pc[r] = "prune"
        /\ row' = [d \in Doc |-> IF d \in DOMAIN gone \ kept THEN Absent ELSE row[d]]
        /\ GoTo(r, IF kept = {} THEN "finish" ELSE "keptRows")
        /\ UNCHANGED <<recorded, pass, dirty, run>>

\* The run may speak for every row.
ReadAll(r) == pc[r] = "finish" /\ (run[r].force \/ ~run[r].refresh \/ ~run[r].pending)

\* Another run recorded, began or finished since: this one leaves all alone.
Superseded(r) ==
    IF run[r].began THEN pass # r ELSE recorded # run[r].observed \/ pass # NoRun

\* Another writer wrote a row under this run's pass.
Spoilt(r) == run[r].began /\ dirty = r

\* Mutant: the mark outlives the pass.
MarkAfterPass_Kept == dirty

\* The mark goes with the pass.
MarkAfterPass == NoRun

ClosePass(r, record) ==
    IF Superseded(r)
    THEN UNCHANGED <<recorded, pass, dirty>>
    ELSE /\ pass' = NoRun
         /\ dirty' = MarkAfterPass
         /\ recorded' = IF record /\ ~Spoilt(r) THEN run[r].declared ELSE recorded

Finish(r) ==
    /\ pc[r] \in {"finish", "keptRows"}
    /\ ClosePass(r, ReadAll(r))
    /\ End(r, "idle")
    /\ UNCHANGED row

\* Mutant: a cancelled run leaves its pass open.
CancelledPass_Left(r) == UNCHANGED <<recorded, pass, dirty>>

CancelledPass(r) ==
    IF run[r].began THEN ClosePass(r, FALSE) ELSE UNCHANGED <<recorded, pass, dirty>>

\* A cancelled run closes the pass it began and records nothing.
Cancel(r) ==
    /\ pc[r] \in {"scan", "loop", "prune"}
    /\ run[r].job = NoJob
    /\ CancelledPass(r)
    /\ End(r, "idle")
    /\ UNCHANGED row

\* It fails with an error, or its process is killed.
Stop(r) ==
    /\ Active(r)
    /\ End(r, "stopped")
    /\ UNCHANGED db

(***************************************************************************)
(* The watcher of a server, which reads the set inside its transaction     *)
(***************************************************************************)

\* Watchers that take no part do not wait for a run with the lease.
MayWatch == LeaseHeld => Free # {}

\* The set is not known while the key is absent: the fields stay.
WatchedFields(d, content) ==
    IF recorded # Absent THEN content \cap recorded
    ELSE IF HasRow(d) THEN row[d].fields ELSE {}

WatchWrite(d) ==
    /\ MayWatch
    /\ \E content \in Found :
          row' = [row EXCEPT ![d] = [content |-> content,
                                     fields |-> WatchedFields(d, content)]]
    /\ dirty' = IF pass # NoRun THEN pass ELSE dirty
    /\ UNCHANGED <<recorded, pass, pc, run>>

WatchRemove(d) ==
    /\ MayWatch
    /\ HasRow(d)
    /\ row' = [row EXCEPT ![d] = Absent]
    /\ UNCHANGED <<recorded, pass, dirty, pc, run>>

Rebuild(r) ==
    \/ Start(r) \/ Reset(r) \/ Look(r) \/ Decide(r) \/ Begin(r) \/ Scan(r)
    \/ \E d \in Doc : Read(r, d) \/ Skip(r, d) \/ NoText(r, d) \/ Drop(r, d)
    \/ Write(r) \/ EndLoop(r) \/ Prune(r) \/ Finish(r) \/ Cancel(r) \/ Stop(r)

Watch == \E d \in Doc : WatchWrite(d) \/ WatchRemove(d)

Next == (\E r \in Run : Rebuild(r)) \/ Watch

Spec == Init /\ [][Next]_vars

(***************************************************************************)
(* Properties                                                              *)
(***************************************************************************)

\* What a field filter relies on: while a set is recorded, the fields of every
\* row are those of its content under that set, whichever runs overlapped, took
\* a pass over, failed halfway or were killed since it was recorded.
RecordedMeansCurrent ==
    recorded # Absent =>
        \A d \in Doc : HasRow(d) => row[d].fields = row[d].content \cap recorded

\* Run r ends in order, as opposed to a failure or a kill.
EndsInOrder(r) == Active(r) /\ pc'[r] = "idle"

\* A run that began a pass and ends in order leaves it closed, cancelled or not
\* (stop_cancelled_run: "so a stopped run never leaves its own token behind").
EndedPassClosed == [][\A r \in Run : EndsInOrder(r) /\ run[r].began => pass' # r]_vars

\* Where every writer takes the lease: a pass that read every row it had to is
\* recorded, whatever the passes before it left behind.
LonePassRecords ==
    [][\A r \in Leased : Free = {} /\ EndsInOrder(r) /\ ReadAll(r) /\ run[r].began
                             => recorded' = run[r].declared]_vars

\* Where every writer takes the lease: every run that read every row it had to
\* records its set, with a pass of its own or without (doctor's remedy for a
\* pending set: "one run records the set, without re-embedding").
LoneRunRecords ==
    [][\A r \in Leased : Free = {} /\ EndsInOrder(r) /\ ReadAll(r)
                             => recorded' = run[r].declared]_vars
==============================================================================
