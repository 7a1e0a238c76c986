---------------------------- MODULE MCCodeSearch ----------------------------
(***************************************************************************)
(* Two installations and two repositories, which may bear the same name,   *)
(* see CodeSearch.                                                         *)
(***************************************************************************)
EXTENDS CodeSearch, TLC

CONSTANTS u1, u2, t1, t2, i1, i2, r1, r2, n1, n2, q1, q2, q3

MCOwner == [t \in Tokens |-> IF t = t1 THEN u1 ELSE u2]
MCSymmetry == Permutations(Requests) \cup Permutations(Installations)
                \cup Permutations(Repos) \cup Permutations(Names)
=============================================================================
