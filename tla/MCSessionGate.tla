---------------------------- MODULE MCSessionGate ----------------------------
(***************************************************************************)
(* Bounds for SessionGate: places that more requests race for, and time    *)
(* for a second log line.                                                  *)
(***************************************************************************)
EXTENDS SessionGate, TLC

\* The requests are interchangeable.
Symmetry == Permutations(Request)
==============================================================================
