------------------------------- MODULE IndexRun -------------------------------
(***************************************************************************)
(* A full rebuild (rebuild_index of indexer.rs) and the rows it leaves.    *)
(*                                                                         *)
(* The index holds one row per document: the hash of the bytes it was      *)
(* written from, the text of its chunks and what else the parser gave.  A  *)
(* run whose row has the hash its scan computed does not read the file     *)
(* again: everything rests on the hash speaking for the whole row.  The    *)
(* run is a sequence of transactions with reads of the disk between them:  *)
(* a snapshot of the rows, a scan that hashes every file, one transaction  *)
(* that moves the rows of renamed files, one per document, the prune of    *)
(* the rows whose files are gone and a last one that records which formats *)
(* are settled.  Files change at any time; the run may fail, be killed or  *)
(* be cancelled between two steps; and a process that does not take the    *)
(* writer lease may write rows while it goes on.                           *)
(*                                                                         *)
(* A path is a number, in the order of the walk.  What the parser of a     *)
(* path makes of some bytes is a constant.  The fields a schema declares   *)
(* and the frontmatter check are in DeclaredPass.                          *)
(***************************************************************************)
EXTENDS Integers, FiniteSets

CONSTANTS Path, Content, Text, Parser,
          ParserOf,     \* the parser of the files at a path
          TextOf,       \* TextOf[parser][bytes]: the chunks, NoText or Broken
          Reread,       \* parsers whose old rows are read again once
          Titled,       \* bytes that carry their own title
          Static,       \* chunks are embedded with a breadcrumb
          MaxChanges,   \* bound: changes of files while a run goes on
          MaxOthers,    \* bound: rows written by processes without the lease
          Gone, Awaiting, NoRow, NoText, Broken, OldText, NoPath

ASSUME PathAssumption == Path \subseteq Nat /\ IsFiniteSet(Path) /\ Path # {}
ASSUME ParserAssumption ==
    /\ ParserOf \in [Path -> Parser]
    /\ Reread \subseteq Parser
    /\ TextOf \in [Parser -> [Content -> Text \cup {NoText, Broken}]]
ASSUME ValueAssumption ==
    /\ NoText \notin Text /\ Broken \notin Text /\ OldText \notin Text
    /\ Gone \notin Content /\ Awaiting \notin Content
    /\ NoPath \notin Path
    /\ Static \in BOOLEAN /\ Titled \subseteq Content
ASSUME BoundAssumption == MaxChanges \in Nat /\ MaxOthers \in Nat

VARIABLES
    disk,       \* the bytes at each path, or Gone: nothing there the walk collects
    row,        \* the row of each path, or NoRow
    recorded,   \* the formats whose policy keys are at their value
    pc,         \* the next step of the run
    run,        \* what the run knows
    changes,    \* changes of files since the run began
    others,     \* rows written by processes without the lease
    written,    \* their paths, since the snapshot
    clean       \* nothing has disturbed the run

index == <<row, recorded>>
history == <<changes, others, written, clean>>
vars == <<disk, index, pc, run, history>>

\* id: the path where the snapshot saw the row that has this id, NoPath when the
\* id was given since (no id is given twice).
Row == [id : Path \cup {NoPath}, hash : Content \cup {Awaiting}, text : Text \cup {OldText},
        name : Path \cup {NoPath}, rule : BOOLEAN]
ASSUME RowAssumption == NoRow \notin Row

HasRow(p) == row[p] # NoRow
HashAt(p) == IF HasRow(p) THEN row[p].hash ELSE Gone

Parsed(p, content) == TextOf[ParserOf[p]][content]

\* The file name a breadcrumb is taken from.
NameOf(p, content) == IF Static /\ content \notin Titled THEN p ELSE NoPath

\* A row written whole from these bytes.
RowOf(p, content) ==
    [id |-> IF HasRow(p) THEN row[p].id ELSE NoPath,
     hash |-> content, text |-> Parsed(p, content),
     name |-> NameOf(p, content), rule |-> TRUE]

First(set) == CHOOSE p \in set : \A q \in set : p <= q

(***************************************************************************)
(* What a run knows:                                                       *)
(*   force      every file is read, into an emptied index                  *)
(*   stale      the formats whose old rows it reads again                  *)
(*   snap       the hash of each row before the scan (see Row for its id)  *)
(*   found      the files the walk came across                             *)
(*   entry      the hash of each file the scan read                        *)
(*   skipped    the files the scan could not read                          *)
(*   todo       what the scan, the loop or the prune has still to look at  *)
(*   moved      the paths rows were moved away from                         *)
(*   renamed    the moved rows to be read again; crossed: by another parser*)
(*   reread     the unchanged files of a stale format                      *)
(*   again      crossed renames whose file changed under the first read    *)
(*   unsettled  rows of a stale format that were not brought in line       *)
(*   kept       rows the prune left to another writer                      *)
(*   job        what it is about to write, and the hash of the row it saw  *)
(*   result     what became of the crossed rename it is looking at         *)
(***************************************************************************)
NoJob == [kind |-> "none", content |-> Gone, hash |-> Gone]
NotStarted ==
    [force |-> FALSE, stale |-> {}, snap |-> [p \in {} |-> 0], found |-> {},
     entry |-> [p \in {} |-> 0], skipped |-> {}, todo |-> {}, moved |-> {}, renamed |-> {},
     crossed |-> {}, reread |-> {}, again |-> {}, unsettled |-> {}, kept |-> {}, job |-> NoJob,
     result |-> "none"]

PC == {"idle", "reset", "snapshot", "walk", "scan", "rename", "choose", "loop", "write", "settle",
       "again", "againSettle", "prune"}

RunOK(k) ==
    /\ DOMAIN k = DOMAIN NotStarted
    /\ k.force \in BOOLEAN
    /\ k.stale \subseteq Reread
    /\ DOMAIN k.snap \subseteq Path
    /\ \A p \in DOMAIN k.snap : k.snap[p] \in Content \cup {Awaiting}
    /\ DOMAIN k.entry \subseteq Path
    /\ \A p \in DOMAIN k.entry : k.entry[p] \in Content
    /\ {k.found, k.skipped, k.todo, k.moved, k.renamed, k.crossed, k.reread, k.again, k.unsettled, k.kept}
          \subseteq SUBSET Path
    /\ k.job.kind \in {"none", "whole", "meta", "rows"}
    /\ k.job.kind # "none" => k.job.content \in Content
    /\ k.job.hash \in Content \cup {Awaiting, Gone}
    /\ k.result \in {"none", "updated", "unchanged", "changed", "noText", "failed"}

TypeOK ==
    /\ disk \in [Path -> Content \cup {Gone}]
    /\ row \in [Path -> Row \cup {NoRow}]
    /\ recorded \subseteq Reread
    /\ pc \in PC
    /\ RunOK(run)
    /\ changes \in 0..MaxChanges
    /\ others \in 0..MaxOthers
    /\ written \subseteq Path
    /\ clean \in BOOLEAN

\* The rows an older version left for these files: those of a format that is to
\* be read again may have another text.
OldRows(same) ==
    [p \in Path |->
        IF disk[p] = Gone \/ Parsed(p, disk[p]) \notin Text THEN NoRow
        ELSE [id |-> NoPath, hash |-> disk[p],
              text |-> IF ParserOf[p] \in Reread /\ p \notin same THEN OldText
                       ELSE Parsed(p, disk[p]),
              name |-> NameOf(p, disk[p]),
              rule |-> ParserOf[p] \notin Reread]]

\* A new index, or one of an older version.
Init ==
    /\ disk \in [Path -> Content \cup {Gone}]
    /\ row \in {[p \in Path |-> NoRow]} \cup {OldRows(same) : same \in SUBSET Path}
    /\ recorded = {}
    /\ pc = "idle"
    /\ run = NotStarted
    /\ changes = 0
    /\ others = 0
    /\ written = {}
    /\ clean = FALSE

Running == pc # "idle"

\* The run ends, whatever it has done; what it knows is gone.
End ==
    /\ pc' = "idle"
    /\ run' = NotStarted
    /\ changes' = 0
    /\ written' = {}
    /\ clean' = FALSE

(***************************************************************************)
(* The start of a run: everything up to the renames                        *)
(***************************************************************************)

Start(force) ==
    /\ ~Running
    /\ pc' = IF force THEN "reset" ELSE "snapshot"
    /\ run' = [NotStarted EXCEPT !.force = force]
    /\ clean' = TRUE
    /\ UNCHANGED <<disk, index, changes, others, written>>

\* reset_for_model: a forced run empties the index, and leaves the policy keys.
Reset ==
    /\ pc = "reset"
    /\ row' = [p \in Path |-> NoRow]
    /\ pc' = "snapshot"
    /\ UNCHANGED <<disk, recorded, run, history>>

\* The policy keys are read, then every row's id and hash.
Snapshot ==
    /\ pc = "snapshot"
    /\ run' = [run EXCEPT
                  !.stale = IF run.force THEN {} ELSE Reread \ recorded,
                  !.snap = [p \in {q \in Path : HasRow(q)} |-> row[p].hash],
                  !.todo = Path]
    /\ row' = [p \in Path |-> IF HasRow(p) THEN [row[p] EXCEPT !.id = p] ELSE NoRow]
    /\ pc' = "walk"
    /\ UNCHANGED <<disk, recorded, history>>

\* The walk comes to a path, and lists it when a file is there.
Walk ==
    LET p == First(run.todo)
        rest == run.todo \ {p}
        found == run.found \cup (IF disk[p] # Gone THEN {p} ELSE {})
    IN  /\ pc = "walk"
        /\ IF rest # {} THEN /\ run' = [run EXCEPT !.todo = rest, !.found = found]
                            /\ UNCHANGED pc
           ELSE /\ run' = [run EXCEPT !.todo = found, !.found = {}]
                /\ pc' = IF found = {} THEN "rename" ELSE "scan"
        /\ UNCHANGED <<disk, index, history>>

\* Each file listed is read and hashed.  One that is gone by then, that cannot be
\* read or is too large is skipped.
ScanFile ==
    LET p == First(run.todo)
        rest == run.todo \ {p}
    IN  /\ pc = "scan"
        /\ \/ /\ disk[p] # Gone
              /\ run' = [run EXCEPT !.todo = rest,
                            !.entry = [q \in DOMAIN @ \cup {p} |->
                                          IF q = p THEN disk[p] ELSE @[q]]]
              /\ UNCHANGED clean
           \/ /\ run' = [run EXCEPT !.todo = rest, !.skipped = @ \cup {p}]
              /\ clean' = FALSE
        /\ pc' = IF rest = {} THEN "rename" ELSE "scan"
        /\ UNCHANGED <<disk, index, changes, others, written>>

Scanned == DOMAIN run.entry

\* Rows whose files the scan did not come across, and files without a row.
Orphans == {p \in DOMAIN run.snap : p \notin Scanned \cup run.skipped}
Arrivals == {p \in Scanned : p \notin DOMAIN run.snap}

\* Those of the same hash that come before p.
OrphansBefore(p) == {o \in Orphans : run.snap[o] = run.snap[p] /\ o < p}
ArrivalsBefore(p) == {a \in Arrivals : run.entry[a] = run.entry[p] /\ a < p}

\* detect_renames: the first orphan of a hash and the first arrival, and so on.
Renames ==
    {pair \in Orphans \X Arrivals :
        /\ run.snap[pair[1]] = run.entry[pair[2]]
        /\ Cardinality(OrphansBefore(pair[1])) = Cardinality(ArrivalsBefore(pair[2]))}

\* Is the row the one the snapshot saw?
AsSeen(p) == HasRow(p) /\ row[p].id = p /\ row[p].hash = run.snap[p]

\* rename_documents_checked: a pair another writer touched is left alone.
Applicable(pair) == AsSeen(pair[1]) /\ ~HasRow(pair[2])

Crosses(old, new) == ParserOf[old] # ParserOf[new]

\* Mutant: the row is not marked for the parser that has not read it yet.
Moved_Unmarked(old, new) == row[old]

\* The row under its new path.  Between parsers it is marked in the same
\* transaction: no fast path keeps it.
Moved(old, new) ==
    IF Crosses(old, new) THEN [row[old] EXCEPT !.hash = Awaiting] ELSE row[old]

\* All pairs in one transaction.  Those whose breadcrumb or parser changes are
\* to be read again.  A forced run looks for no renames.
Rename ==
    LET pairs == IF run.force THEN {} ELSE {pair \in Renames : Applicable(pair)}
        olds == {pair[1] : pair \in pairs}
        news == {pair[2] : pair \in pairs}
        from == [new \in news |-> CHOOSE old \in olds : <<old, new>> \in pairs]
        crossed == {new \in news : Crosses(from[new], new)}
    IN  /\ pc = "rename"
        /\ row' = [p \in Path |-> IF p \in news THEN Moved(from[p], p)
                                 ELSE IF p \in olds THEN NoRow ELSE row[p]]
        /\ run' = [run EXCEPT !.moved = olds, !.crossed = crossed,
                             !.renamed = IF Static THEN news ELSE crossed]
        /\ pc' = "choose"
        /\ UNCHANGED <<disk, recorded, history>>

\* A row that a stale format's parser is to read.
StaleRow(rows, p) == rows[p] # NoRow /\ ParserOf[p] \in run.stale

\* Which unchanged files of a stale format are read again: decided once.
ChooseRereads ==
    /\ pc = "choose"
    /\ run' = [run EXCEPT
                  !.reread = {p \in Scanned \ run.renamed :
                                 StaleRow(row, p) /\ row[p].hash = run.entry[p]},
                  !.todo = Scanned]
    /\ pc' = "loop"
    /\ UNCHANGED <<disk, index, history>>

(***************************************************************************)
(* The loop over the documents                                             *)
(***************************************************************************)

\* The moved rows come first.
NextDoc == IF run.todo \cap run.renamed # {} THEN First(run.todo \cap run.renamed)
         ELSE First(run.todo)

Looking == pc = "loop" /\ run.todo # {}

\* Was what it is now brought in line with the rules of a stale format?
Settled(p, result) ==
    \/ result = "updated"
    \/ p \in run.reread /\ result \in {"unchanged", "noText"}

\* The document at p is done, and the rows are these.
Done(p, result, rows) ==
    /\ row' = rows
    /\ run' = [run EXCEPT
                 !.todo = @ \ {p}, !.job = NoJob, !.result = "none",
                 !.unsettled = IF ~Settled(p, result) /\ StaleRow(rows, p)
                               THEN @ \cup {p} ELSE @]
    /\ pc' = "loop"

\* What became of p, before a crossed rename is settled.
Outcome(p, result, rows) ==
    IF p \in run.crossed
    THEN /\ row' = rows
         /\ run' = [run EXCEPT !.job = NoJob, !.result = result]
         /\ pc' = "settle"
    ELSE Done(p, result, rows)

\* Are these bytes what the row was written from?
FastPath(p) ==
    ~run.force /\ p \notin run.renamed \cup run.reread /\ HashAt(p) = run.entry[p]

KeepUnchanged ==
    /\ Looking
    /\ FastPath(NextDoc)
    /\ Done(NextDoc, "unchanged", row)
    /\ UNCHANGED <<disk, recorded, history>>

\* A file that is gone, that cannot be read or is refused keeps its row.
CannotRead ==
    /\ Looking
    /\ ~FastPath(NextDoc)
    /\ Outcome(NextDoc, "failed", row)
    /\ clean' = FALSE
    /\ UNCHANGED <<disk, recorded, changes, others, written>>

\* Do the chunks the row holds equal those just parsed?
ChunksMatch(p, content) ==
    /\ HasRow(p)
    /\ row[p].text = Parsed(p, content)
    /\ row[p].name = NameOf(p, content)

\* Which write the chunks call for: only what a table's rows say, the metadata
\* and the hash, or all of it.  What another parser wrote is written whole.
WriteFor(p, content) ==
    IF p \in run.reread /\ ChunksMatch(p, content) THEN "rows"
    ELSE IF ~run.force /\ p \notin run.renamed /\ ChunksMatch(p, content) THEN "meta"
    ELSE "whole"

JobFor(p, content) ==
    [kind |-> WriteFor(p, content), content |-> content, hash |-> HashAt(p)]

\* A document of a stale format that already is as the new rules write it.
RowsCurrent(p, content) ==
    p \in run.reread /\ ChunksMatch(p, content) /\ row[p].rule

\* The read of a crossed rename, or of an unchanged document, says nothing when
\* it is not of the bytes the scan hashed.
ChangedUnder(p) == p \in run.crossed \cup run.reread /\ disk[p] # run.entry[p]

\* The file is read a second time and parsed.  A document of a stale format that
\* has no text any more loses its row; else a row outlives such bytes.
ReadFile ==
    LET p == NextDoc
        content == disk[p]
        parsed == Parsed(p, content)
    IN  /\ Looking
        /\ ~FastPath(p)
        /\ content # Gone
        /\ \/ /\ ChangedUnder(p)
              /\ p \in run.crossed \/ parsed # Broken
              /\ Outcome(p, "changed", row)
           \/ /\ ~(ChangedUnder(p) /\ p \in run.crossed)
              /\ parsed = Broken
              /\ Outcome(p, "failed", row)
           \/ /\ ~ChangedUnder(p)
              /\ parsed = NoText
              /\ Outcome(p, "noText", IF p \in run.reread THEN [row EXCEPT ![p] = NoRow] ELSE row)
           \/ /\ ~ChangedUnder(p)
              /\ RowsCurrent(p, content)
              /\ Outcome(p, "unchanged", row)
           \/ /\ ~ChangedUnder(p)
              /\ parsed \in Text
              /\ ~RowsCurrent(p, content)
              /\ run' = [run EXCEPT !.job = JobFor(p, content)]
              /\ pc' = "write"
              /\ UNCHANGED row
        /\ UNCHANGED <<disk, recorded, history>>

\* Mutant: the hash stays what it was.
MetaRow_OldHash(p) == row[p]

\* Is the row still the one the read compared with?
AsCompared(p) == HashAt(p) = run.job.hash /\ ChunksMatch(p, run.job.content)

\* write_matching_chunks_meta: the chunks stay with their vectors, and get the
\* rows of their tables if they are still those the read saw.
MetaRow(p) ==
    [row[p] EXCEPT !.hash = run.job.content,
                   !.rule = ParserOf[p] \notin Reread \/ AsCompared(p)]

WriteMeta ==
    LET p == NextDoc
    IN  /\ pc = "write"
        /\ run.job.kind = "meta"
        /\ IF HasRow(p) THEN Outcome(p, "updated", [row EXCEPT ![p] = MetaRow(p)])
           ELSE /\ run' = [run EXCEPT !.job.kind = "whole"]
                /\ UNCHANGED <<row, pc>>
        /\ UNCHANGED <<disk, recorded, history>>

\* write_reparsed_table_rows: only under the hash the scan computed.
WriteRows ==
    LET p == NextDoc
    IN  /\ pc = "write"
        /\ run.job.kind = "rows"
        /\ IF run.job.hash = run.entry[p] /\ AsCompared(p)
           THEN Outcome(p, "unchanged", [row EXCEPT ![p].rule = TRUE])
           ELSE Outcome(p, "changed", row)
        /\ UNCHANGED <<disk, recorded, history>>

\* Chunks whose input is new are embedded, then all of it is written at once.
WriteWhole ==
    LET p == NextDoc
    IN  /\ pc = "write"
        /\ run.job.kind = "whole"
        /\ Outcome(p, "updated", [row EXCEPT ![p] = RowOf(p, run.job.content)])
        /\ UNCHANGED <<disk, recorded, history>>

\* The endpoint refuses the input: the file is skipped.
EmbedRejected ==
    /\ pc = "write"
    /\ run.job.kind = "whole"
    /\ Outcome(NextDoc, "failed", row)
    /\ clean' = FALSE
    /\ UNCHANGED <<disk, recorded, changes, others, written>>

Marked(p) == IF HasRow(p) THEN [row EXCEPT ![p].hash = Awaiting] ELSE row

\* settle_cross_parser_rename: a row the new parser did not write goes, unless
\* the bytes changed under the read.
Settle ==
    LET p == NextDoc
        result == run.result
        rows == IF result = "updated" THEN row
                ELSE IF result = "changed" THEN Marked(p)
                ELSE [row EXCEPT ![p] = NoRow]
    IN  /\ pc = "settle"
        /\ row' = rows
        /\ run' = [run EXCEPT
                     !.todo = @ \ {p}, !.result = "none",
                     !.again = IF result = "changed" THEN @ \cup {p} ELSE @,
                     !.unsettled = IF result # "updated" /\ StaleRow(rows, p)
                                   THEN @ \cup {p} ELSE @]
        /\ pc' = "loop"
        /\ UNCHANGED <<disk, recorded, history>>

(***************************************************************************)
(* Crossed renames whose file changed under the first read                 *)
(***************************************************************************)

Retrying == pc = "loop" /\ run.todo = {} /\ run.again # {}
Retried == First(run.again)

\* read_crossed_rename_again: the file is hashed, read again and compared.  It
\* may not be readable, be refused, change between the two reads, or be what
\* another writer has indexed by now.
RetryUnread ==
    /\ Retrying
    /\ \E result \in {"failed", "changed"} : run' = [run EXCEPT !.result = result]
    /\ pc' = "againSettle"
    /\ clean' = FALSE
    /\ UNCHANGED <<disk, index, changes, others, written>>

Retry ==
    LET content == disk[Retried]
        parsed == Parsed(Retried, content)
    IN  /\ Retrying
        /\ content # Gone
        /\ \/ /\ parsed \in Text
              /\ run' = [run EXCEPT !.job = [kind |-> "whole", content |-> content,
                                              hash |-> HashAt(Retried)]]
              /\ pc' = "again"
              /\ UNCHANGED row
           \/ /\ parsed = Broken
              /\ run' = [run EXCEPT !.result = "failed"]
              /\ pc' = "againSettle"
              /\ UNCHANGED row
           \/ /\ parsed = NoText
              /\ row' = [row EXCEPT ![Retried] = NoRow]
              /\ run' = [run EXCEPT !.result = "noText"]
              /\ pc' = "againSettle"
        /\ UNCHANGED <<disk, recorded, history>>

RetryWrite ==
    /\ pc = "again"
    /\ \/ /\ row' = [row EXCEPT ![Retried] = RowOf(Retried, run.job.content)]
          /\ run' = [run EXCEPT !.job = NoJob, !.result = "updated"]
          /\ UNCHANGED clean
       \/ /\ run' = [run EXCEPT !.job = NoJob, !.result = "failed"]
          /\ clean' = FALSE
          /\ UNCHANGED row
    /\ pc' = "againSettle"
    /\ UNCHANGED <<disk, recorded, changes, others, written>>

\* settle_further_crossed_read: only bytes that were not read or changed again
\* keep the row, marked.
RetrySettle ==
    LET p == Retried
        result == run.result
    IN  /\ pc = "againSettle"
        /\ row' = IF result = "updated" THEN row
                  ELSE IF result = "changed" THEN Marked(p)
                  ELSE [row EXCEPT ![p] = NoRow]
        /\ run' = [run EXCEPT
                     !.again = @ \ {p}, !.result = "none",
                     !.unsettled = IF result = "changed" THEN @ ELSE @ \ {p}]
        /\ pc' = "loop"
        /\ UNCHANGED <<disk, recorded, history>>

(***************************************************************************)
(* The prune and the end                                                   *)
(***************************************************************************)

\* Mutant: the files the scan skipped are gone.
ToPrune_SkippedToo == DOMAIN run.snap \ Scanned

\* documents_to_delete: neither visited nor skipped.
ToPrune == DOMAIN run.snap \ (Scanned \cup run.skipped)

BeginPrune ==
    /\ pc = "loop"
    /\ run.todo = {}
    /\ run.again = {}
    /\ run' = [run EXCEPT !.todo = ToPrune]
    /\ pc' = "prune"
    /\ UNCHANGED <<disk, index, history>>

\* Mutant: what another writer changed meanwhile is not looked at.
MayDelete_Unchecked(p) == HasRow(p)

MayDelete(p) == AsSeen(p)

\* delete_documents_if_unchanged, one path to a batch: a row that is not the
\* snapshot's is kept, by a forced run under the mark.
PruneBatch ==
    LET p == First(run.todo)
        keep == HasRow(p) /\ ~MayDelete(p)
    IN  /\ pc = "prune"
        /\ run.todo # {}
        /\ row' = IF HasRow(p) /\ ~keep THEN [row EXCEPT ![p] = NoRow]
                  ELSE IF keep /\ run.force THEN Marked(p) ELSE row
        /\ run' = [run EXCEPT !.todo = @ \ {p},
                             !.kept = IF keep THEN @ \cup {p} ELSE @]
        /\ UNCHANGED <<disk, recorded, pc, history>>

\* Mutant: the files the scan skipped are not marked.
ToMark_Visited == run.unsettled \cup {p \in run.kept : run.force \/ StaleRow(row, p)}

\* The rows this run cannot speak for.
ToMark == run.unsettled
          \cup {p \in run.skipped : StaleRow(row, p)}
          \cup {p \in run.kept : run.force \/ StaleRow(row, p)}

\* One transaction: the marks, and the keys that speak for every other row.
Record ==
    /\ pc = "prune"
    /\ run.todo = {}
    /\ row' = [p \in Path |-> IF p \in ToMark /\ HasRow(p)
                             THEN [row[p] EXCEPT !.hash = Awaiting] ELSE row[p]]
    /\ recorded' = recorded \cup (IF run.force THEN Reread ELSE run.stale)
    /\ End
    /\ UNCHANGED <<disk, others>>

\* A check point finds the token set, an error ends the run, or the process is
\* killed: between any two transactions, and nothing is taken back.
Stop ==
    /\ Running
    /\ End
    /\ UNCHANGED <<disk, index, others>>

(***************************************************************************)
(* The files, and writers without the lease                                *)
(***************************************************************************)

Changed(new) ==
    /\ disk' = new
    /\ IF Running THEN changes < MaxChanges /\ changes' = changes + 1
       ELSE UNCHANGED changes
    /\ clean' = FALSE
    /\ UNCHANGED <<index, pc, run, others, written>>

\* A file is written or removed.
Edit == \E p \in Path, content \in Content \cup {Gone} :
            content # disk[p] /\ Changed([disk EXCEPT ![p] = content])

\* A file is renamed, over another or not.  Between runs two edits do the same.
Move ==
    \E p, q \in Path :
        /\ Running
        /\ p # q /\ disk[p] # Gone
        /\ Changed([disk EXCEPT ![p] = Gone, ![q] = disk[p]])

Other(paths, rows) ==
    /\ Running
    /\ others < MaxOthers
    /\ others' = others + 1
    /\ row' = rows
    /\ written' = IF pc \in {"reset", "snapshot"} THEN {} ELSE written \cup paths
    /\ clean' = FALSE
    /\ UNCHANGED <<disk, recorded, pc, run, changes>>

\* Another watcher indexes the file at a path whose row has another hash.
OtherWrites ==
    \E p \in Path :
        /\ disk[p] # Gone
        /\ Parsed(p, disk[p]) \in Text
        /\ HashAt(p) # disk[p]
        /\ Other({p}, [row EXCEPT ![p] = RowOf(p, disk[p])])

\* It drops the row of a file that is gone.
OtherDrops ==
    \E p \in Path :
        /\ disk[p] = Gone
        /\ HasRow(p)
        /\ Other({p}, [row EXCEPT ![p] = NoRow])

\* It moves the row of a renamed file, within one parser.
OtherMoves ==
    \E p, q \in Path :
        /\ disk[p] = Gone
        /\ HasRow(p) /\ ~HasRow(q)
        /\ disk[q] = row[p].hash
        /\ ~Crosses(p, q)
        /\ Other({p, q}, [row EXCEPT ![p] = NoRow, ![q] = row[p]])

Step ==
    \/ Reset \/ Snapshot \/ Walk \/ ScanFile \/ Rename \/ ChooseRereads
    \/ KeepUnchanged \/ CannotRead \/ ReadFile
    \/ WriteMeta \/ WriteRows \/ WriteWhole \/ EmbedRejected \/ Settle
    \/ RetryUnread \/ Retry \/ RetryWrite \/ RetrySettle
    \/ BeginPrune \/ PruneBatch \/ Record

Next ==
    \/ \E force \in BOOLEAN : Start(force)
    \/ Step
    \/ Stop
    \/ Edit \/ Move
    \/ OtherWrites \/ OtherDrops \/ OtherMoves

Spec == Init /\ [][Next]_vars

(***************************************************************************)
(* Properties                                                              *)
(***************************************************************************)

\* A row a later run may keep without reading its file.
Kept(p) == HasRow(p) /\ row[p].hash # Awaiting

\* A row whose hash a fast path trusts has the chunks that the parser of its
\* path makes of bytes with that hash; only rows an older version wrote, of a
\* format not yet recorded as settled, may differ.  Whatever moved, crossed
\* between parsers, changed under a read or was cut short: the index never
\* answers with one text under the hash of another.
TextOfItsHash ==
    others = 0 => \A p \in Path : Kept(p) =>
        \/ row[p].text = Parsed(p, row[p].hash)
        \/ ~row[p].rule /\ ParserOf[p] \in Reread \ recorded

\* Once the key of a format is recorded, no row of that format a fast path
\* trusts is one the older rules wrote: what the run could not read again is
\* marked in the transaction that records the key.
RecordedMeansSettled ==
    others = 0 => \A p \in Path :
        Kept(p) /\ ParserOf[p] \in recorded => row[p].rule

\* The prune and the renames leave a row alone that another process wrote after
\* the run took its snapshot; at most a forced run marks it.  What they compare
\* is the id and the hash: a row that two further writes bring back to both is
\* taken for the one the snapshot saw.
OthersKept ==
    [][others <= 1 /\ others' = others /\ pc \in {"rename", "prune"} =>
          \A p \in written \ run.moved :
              HasRow(p) => row'[p] \in {row[p], Marked(p)[p]}]_vars

\* A run that is not forced never drops or moves away the row of a file that
\* has been there, unchanged and with text, since the run began, whether it
\* could read that file or not.
StableStays ==
    [][Running /\ ~run.force /\ changes = 0 /\ others = 0 =>
          \A p \in Path :
              Kept(p) /\ disk[p] # Gone /\ Parsed(p, disk[p]) \in Text =>
                  row'[p] # NoRow]_vars

\* The index says what the files say: their text, and nothing of files that
\* are gone.
InStep ==
    \A p \in Path :
        IF disk[p] = Gone THEN ~HasRow(p)
        ELSE Parsed(p, disk[p]) \in Text =>
                /\ HasRow(p)
                /\ row[p].hash = disk[p]
                /\ row[p].text = Parsed(p, disk[p])

\* One run that nothing disturbs is enough: whatever earlier runs left, marked,
\* half moved or half rebuilt, the index is in step with the files when it ends.
OneRunIsEnough == [][Record /\ clean /\ others = 0 => InStep']_vars

\* Between runs a trusted row has the breadcrumb its own file name gives.
KeptUnderItsName ==
    others = 0 /\ pc = "idle" =>
        \A p \in Path : Kept(p) => row[p].name = NameOf(p, row[p].hash)
=============================================================================
