---------------------------- MODULE MCWriterLease ----------------------------
(***************************************************************************)
(* Bounds for WriterLease: two processes and two index files the path      *)
(* can be repointed between.                                               *)
(***************************************************************************)
EXTENDS WriterLease, TLC

\* Processes and files are interchangeable.
Symmetry == Permutations(Proc) \cup Permutations(File)
==============================================================================
