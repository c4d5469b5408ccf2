---------------------------- MODULE MCDeclaredPass ----------------------------
(***************************************************************************)
(* Bounds for DeclaredPass: sets of at most one key out of two, so that a  *)
(* schema can change from one set to another and back.                     *)
(***************************************************************************)
EXTENDS DeclaredPass, TLC

CONSTANTS k1, k2

Keys == {k1, k2}
OneKey == {{k1}, {k2}}
AnySet == {{}, {k1}, {k2}}
AllKeys == {{k1, k2}}
AnyKeys == SUBSET Keys
NotForced == {FALSE}

Symmetry == Permutations(Doc) \cup Permutations(Leased) \cup Permutations(Free)
            \cup Permutations(Keys)
==============================================================================
