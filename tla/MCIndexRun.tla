------------------------------ MODULE MCIndexRun ------------------------------
(***************************************************************************)
(* Bounds for IndexRun: two paths of a format that is to be read again and *)
(* one of source code, so that a file can be renamed within a format and   *)
(* across.  Some bytes mean the same to both parsers.                      *)
(***************************************************************************)
EXTENDS IndexRun, TLC

CONSTANTS doc, code, c1, c2, t1, t2

Paths == 1..3
Parsers == {doc, code}
Docs == [p \in Paths |-> IF p = 3 THEN code ELSE doc]
Texts ==
    (doc :> (c1 :> t1 @@ c2 :> t2)) @@ (code :> (c1 :> t1 @@ c2 :> NoText))

\* A file that changes during a run and one the scan cannot read are looked at in turn, and a
\* writer without the lease is looked at with two paths.
Bounded ==
    /\ Cardinality(run.skipped) + changes <= 1
    /\ others > 0 => disk[3] = Gone /\ ~HasRow(3) /\ 3 \notin run.found \cup DOMAIN run.snap \cup DOMAIN run.entry
=============================================================================
