----------------------------- MODULE MCWriterSlot -----------------------------
(***************************************************************************)
(* Bounds for WriterSlot: two rebuild_index requests, which may come again *)
(* until MaxClaims claims were made (the watcher's among them).            *)
(***************************************************************************)
EXTENDS WriterSlot, TLC

\* The requests are interchangeable.
Symmetry == Permutations(Rebuilder)
==============================================================================
