------------------------------ MODULE OneWriter ------------------------------
(***************************************************************************)
(* What the writer lease promises (ADR-0031): of all the groove processes  *)
(* that take part, at most one changes a given index file at a time,       *)
(* whether it writes rows, upgrades the schema or deletes the file.        *)
(***************************************************************************)
CONSTANTS Proc,     \* groove processes
          File      \* index files, every symlink resolved

VARIABLE writers    \* the pairs <<p, f>> such that p may change f now

Init == writers = {}

\* p starts changing f: nobody else is at it.
Begin(p, f) ==
    /\ \A q \in Proc : <<q, f>> \notin writers
    /\ writers' = writers \cup {<<p, f>>}

\* p no longer changes f: it is done, or it was killed.
End(p, f) ==
    /\ <<p, f>> \in writers
    /\ writers' = writers \ {<<p, f>>}

Next == \E p \in Proc, f \in File : Begin(p, f) \/ End(p, f)

Spec == Init /\ [][Next]_writers
==============================================================================
