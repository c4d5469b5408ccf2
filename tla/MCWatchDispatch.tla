--------------------------- MODULE MCWatchDispatch ---------------------------
(***************************************************************************)
(* Bounds for WatchDispatch: two directories, one with a document and a    *)
(* file of source code, so that files and directories are renamed within a *)
(* parser and across, and over each other.  Some bytes have no text or     *)
(* cannot be parsed by one parser.                                         *)
(***************************************************************************)
EXTENDS WatchDispatch, TLC

CONSTANTS d, e, x, y, doc, code, c1, c2, t1, t2

Paths == {<<d, x>>, <<d, y>>, <<e, x>>}
Parsers == {doc, code}
Docs == [p \in Paths |-> IF p[2] = y THEN code ELSE doc]
Texts ==
    (doc :> (c1 :> t1 @@ c2 :> Broken)) @@ (code :> (c1 :> t2 @@ c2 :> NoText))

DiskStarts ==
    {(<<d, x>> :> c1) @@ (<<d, y>> :> Gone) @@ (<<e, x>> :> Gone),
     (<<d, x>> :> c1) @@ (<<d, y>> :> c1) @@ (<<e, x>> :> c2)}

=============================================================================
